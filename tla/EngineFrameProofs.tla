-------------------------- MODULE EngineFrameProofs --------------------------
(* Proofs about EngineFrame, for any number of entities and components, and *)
(* about scenes (Snapshots), the linked list and the growing array (Lists)  *)
(* and the hash maps (HashMaps), for any values of their constants.         *)
EXTENDS EngineFrame, Snapshots, Lists, HashMaps, Facts, FiniteSetTheorems, SequenceTheorems, WellFoundedInduction, TLAPS

(* The engine starts empty.                                                 *)
LEMMA FrameInit == Init => FrameInv
<1> SUFFICES ASSUME Init
             PROVE  FrameInv
  OBVIOUS
<1>1. TypeOK
  BY EngineFrameAssumption DEF Init, TypeOK, Phases
<1>2. DeathListed /\ AttachedAlive
  BY DEF Init, DeathListed, AttachedAlive
<1> QED BY <1>1, <1>2 DEF FrameInv

(* Notices and releases that are counted keep the types.                    *)
LEMMA SingleIs ==
  ASSUME NEW c \in Components
  PROVE  /\ Single(c) \in [Components -> Nat] /\ Single(c)[c] = 1
         /\ \A d \in Components : d # c => Single(c)[d] = 0
BY DEF Single

LEMMA CountedDown ==
  ASSUME NEW S, NEW f \in [S -> Nat], NEW x \in S, f[x] > 0
  PROVE  [f EXCEPT ![x] = @ - 1] \in [S -> Nat]
OBVIOUS

LEMMA CountsTyped ==
  ASSUME TypeOK, NEW n \in [Components -> Nat]
  PROVE  /\ Recorded(n) \in [Entities \X Components -> Nat]
         /\ Uncached(n) \in [Components -> Nat]
         /\ Released(n) \in [Components -> Nat]
         /\ FreedBy(n) \in [Components -> {"none", "alive", "freed"}]
<1> USE DEF TypeOK
<1>1. Recorded(n) \in [Entities \X Components -> Nat]
  <2>1. ASSUME NEW r \in Entities \X Components
        PROVE  r[2] \in Components /\ removals[r] + n[r[2]] \in Nat /\ removals[r] \in Nat
    <3>1. r[2] \in Components
      OBVIOUS
    <3>2. n[r[2]] \in Nat /\ removals[r] \in Nat
      BY <3>1
    <3> QED BY <3>1, <3>2
  <2> QED BY <2>1 DEF Recorded
<1>2. Uncached(n) \in [Components -> Nat]
  BY DEF Uncached
<1>3. Released(n) \in [Components -> Nat]
  BY DEF Released
<1>4. FreedBy(n) \in [Components -> {"none", "alive", "freed"}]
  BY DEF FreedBy
<1> QED BY <1>1, <1>2, <1>3, <1>4

(* No step takes a variable out of its type.                                *)
LEMMA FrameTypeStep == FrameInv /\ [Next]_vars => TypeOK'
<1> SUFFICES ASSUME TypeOK, [Next]_vars
             PROVE  TypeOK'
  BY DEF FrameInv
<1> USE EngineFrameAssumption
        DEF TypeOK, Phases, ScriptPhases, GoTo, Fault, engine, parts, systems, history
<1>1. ASSUME NEW e \in Entities, CreateEntity(e)
      PROVE  TypeOK'
  BY <1>1 DEF CreateEntity
<1>10. ASSUME NEW e \in Entities, DestroyEntity(e)
       PROVE  TypeOK'
  <2>1. destroyed' \in [Entities -> BOOLEAN]
    BY <1>10 DEF DestroyEntity
  <2>2. delCount' \in [Entities -> Nat]
    BY <1>10 DEF DestroyEntity
  <2> QED BY <1>10, <2>1, <2>2 DEF DestroyEntity
<1>2. ASSUME NEW e \in Entities, NEW c \in Components, AddComponent(e, c)
      PROVE  TypeOK'
  <2>1. refs' \in [Components -> Nat]
    BY <1>2 DEF AddComponent
  <2>2. adds' \in [Components -> Nat] /\ cached' \in [Components -> Nat]
    BY <1>2 DEF AddComponent
  <2>3. comps' \in [Entities -> [Components -> Nat]]
    BY <1>2 DEF AddComponent
  <2>4. shared' \subseteq Components
    BY <1>2 DEF AddComponent
  <2> QED BY <1>2, <2>1, <2>2, <2>3, <2>4 DEF AddComponent
<1>3. ASSUME NEW e \in Entities, NEW c \in Components, RemoveComponent(e, c)
      PROVE  TypeOK'
  <2>1. CASE fault' = "remove" /\ UNCHANGED <<engine, parts, systems, history>>
    BY <2>1 DEF Faults
  <2>2. CASE /\ cached' = Uncached(Single(c)) /\ removals' = Recorded(Single(c))
             /\ careless' = IF phase = "jobs" THEN TRUE ELSE careless
             /\ UNCHANGED <<engine, parts, results, fault, shared>>
    <3>1. removals' \in [Entities \X Components -> Nat] /\ cached' \in [Components -> Nat]
      BY <2>2, SingleIs, CountsTyped
    <3> QED BY <2>2, <3>1
  <2> QED BY <1>3, <2>1, <2>2 DEF RemoveComponent
<1>4. ASSUME NEW e \in Entities, NEW c \in Components, DetachComponent(e, c)
      PROVE  TypeOK'
  <2>1. CASE fault' = "detach" /\ UNCHANGED <<engine, parts, systems, history>>
    BY <2>1 DEF Faults
  <2>2. CASE /\ comps[e][c] > 0 /\ comps' = Without(e, c)
             /\ refs' = [refs EXCEPT ![c] = IF @ > 0 THEN @ - 1 ELSE 0]
             /\ careless' = TRUE
             /\ UNCHANGED <<engine, cmem, owner, adds, systems, fault, shared>>
    <3>1. comps' \in [Entities -> [Components -> Nat]]
      BY <2>2 DEF Without
    <3>2. refs' \in [Components -> Nat]
      BY <2>2
    <3> QED BY <2>2, <3>1, <3>2
  <2> QED BY <1>4, <2>1, <2>2 DEF DetachComponent, Listed
<1>5. CASE ClearEntities
  BY <1>5 DEF ClearEntities
<1>11. ASSUME NEW c \in Components, CollectComponent(c)
       PROVE  TypeOK'
  BY <1>11 DEF CollectComponent
<1>6. CASE SystemFault \/ EarlyPhase \/ LatePhase \/ ScriptPhaseEnds \/ CleanupEnds
           \/ ApplyResults \/ FrameEnds
  BY <1>6 DEF SystemFault, EarlyPhase, LatePhase, ScriptPhaseEnds, CleanupEnds,
     ApplyResults, FrameEnds, Cached, Faults
<1>7. CASE CleanupRecord
  <2>1. PICK e \in Entities, c \in Components :
          /\ removals[<<e, c>>] > 0
          /\ \/ Fault("cleanup")
             \/ /\ removals' = [removals EXCEPT ![<<e, c>>] = @ - 1]
                /\ \/ UNCHANGED <<comps, cmem, refs>>
                   \/ /\ comps[e][c] # 0
                      /\ comps' = Without(e, c) /\ cmem' = FreedBy(Single(c))
                      /\ refs' = Released(Single(c))
                /\ UNCHANGED <<engine, owner, adds, cached, results, fault, history>>
    BY <1>7 DEF CleanupRecord
  <2>2. CASE Fault("cleanup")
    BY <2>2 DEF Faults
  <2>3. CASE ~Fault("cleanup")
    <3>1. <<e, c>> \in Entities \X Components
      OBVIOUS
    <3>2. removals' \in [Entities \X Components -> Nat]
      <4> DEFINE r == <<e, c>>
      <4>1. removals' = [removals EXCEPT ![r] = @ - 1] /\ removals[r] > 0
        BY <2>1, <2>3
      <4>2. r \in Entities \X Components /\ removals \in [Entities \X Components -> Nat]
        BY <3>1
      <4> HIDE DEF r
      <4> QED BY <4>1, <4>2, CountedDown
    <3>3. /\ comps' \in [Entities -> [Components -> Nat]]
          /\ cmem' \in [Components -> {"none", "alive", "freed"}]
          /\ refs' \in [Components -> Nat]
      <4>1. CASE UNCHANGED <<comps, cmem, refs>>
        BY <4>1
      <4>2. CASE ~UNCHANGED <<comps, cmem, refs>>
        <5>1. comps[e][c] > 0 /\ comps' = Without(e, c)
          <6>1. comps[e][c] # 0 /\ comps[e][c] \in Nat
            BY <2>1, <2>3, <4>2
          <6> QED BY <2>1, <2>3, <4>2, <6>1
        <5>2. comps' \in [Entities -> [Components -> Nat]]
          BY <5>1 DEF Without
        <5>3. cmem' = FreedBy(Single(c)) /\ refs' = Released(Single(c))
          BY <2>1, <2>3, <4>2
        <5>4. Single(c) \in [Components -> Nat] /\ TypeOK
          BY SingleIs
        <5>5. /\ Released(Single(c)) \in [Components -> Nat]
              /\ FreedBy(Single(c)) \in [Components -> {"none", "alive", "freed"}]
          BY <5>4, CountsTyped
        <5> QED BY <5>2, <5>3, <5>5
      <4> QED BY <4>1, <4>2
    <3> QED BY <2>1, <2>3, <3>2, <3>3
  <2> QED BY <2>2, <2>3
<1>8. ASSUME NEW e \in Entities, DeleteEntity(e)
      PROVE  TypeOK'
  <2>1. CASE fault' = "delete" /\ UNCHANGED <<engine, parts, systems, history>>
    BY <2>1 DEF Faults
  <2>2. CASE fault' # "delete"
    <3>1. comps[e] \in [Components -> Nat]
      OBVIOUS
    <3>2. /\ cached' = Uncached(comps[e]) /\ removals' = Recorded(comps[e])
          /\ cmem' = FreedBy(comps[e]) /\ refs' = Released(comps[e])
      BY <1>8, <2>2 DEF DeleteEntity
    <3>3. /\ cached' \in [Components -> Nat] /\ refs' \in [Components -> Nat]
          /\ removals' \in [Entities \X Components -> Nat]
          /\ cmem' \in [Components -> {"none", "alive", "freed"}]
      BY <3>1, <3>2, CountsTyped
    <3>4. /\ delCount[e] > 0 /\ delCount' = [delCount EXCEPT ![e] = @ - 1]
          /\ entities' = entities \ {e} /\ mem' = [mem EXCEPT ![e] = "freed"]
          /\ comps' = [comps EXCEPT ![e] = [c \in Components |-> 0]]
          /\ UNCHANGED <<phase, destroyed, owner, adds, results, fault, shared, careless>>
      BY <1>8, <2>2 DEF DeleteEntity, Unlisted
    <3>5. delCount' \in [Entities -> Nat]
      BY <3>4, CountedDown
    <3>6. comps' \in [Entities -> [Components -> Nat]]
      BY <3>4
    <3>7. mem' \in [Entities -> {"none", "alive", "freed"}] /\ entities' \subseteq Entities
      BY <3>4
    <3> QED BY <3>3, <3>4, <3>5, <3>6, <3>7
  <2> QED BY <1>8, <2>1, <2>2 DEF DeleteEntity
<1>9. CASE UNCHANGED vars
  BY <1>9 DEF vars
<1> QED BY <1>1, <1>2, <1>3, <1>4, <1>5, <1>6, <1>7, <1>8, <1>9, <1>10, <1>11
        DEF Next, Game, Engine

(* What is destroyed stays listed until it is deleted, and the engine lists *)
(* what is alive.                                                           *)
LEMMA DeathListedStep == FrameInv /\ [Next]_vars => DeathListed'
<1> SUFFICES ASSUME TypeOK, DeathListed, [Next]_vars
             PROVE  DeathListed'
  BY DEF FrameInv
<1> USE DEF TypeOK, DeathListed, GoTo, Fault, engine
<1>1. ASSUME NEW e \in Entities, CreateEntity(e)
      PROVE  DeathListed'
  BY <1>1 DEF CreateEntity, Script, ScriptPhases
<1>2. ASSUME NEW e \in Entities, DestroyEntity(e)
      PROVE  DeathListed'
  <2>1. phase # "early" /\ phase' = phase
    BY <1>2 DEF DestroyEntity, Script, ScriptPhases
  <2>2. ASSUME NEW x \in Entities, destroyed'[x], delCount'[x] = 0
        PROVE  mem'[x] = "freed"
    BY <1>2, <2>2 DEF DestroyEntity
  <2> QED BY <1>2, <2>1, <2>2 DEF DestroyEntity
<1>3. CASE ClearEntities
  <2>1. phase # "early" /\ phase' = phase
    BY <1>3 DEF ClearEntities, Script, ScriptPhases
  <2>2. ASSUME NEW x \in Entities, delCount'[x] = 0
        PROVE  delCount[x] = 0
    BY <1>3, <2>2 DEF ClearEntities
  <2> QED BY <1>3, <2>1, <2>2 DEF ClearEntities
<1>4. ASSUME NEW e \in Entities, NEW c \in Components,
             AddComponent(e, c) \/ RemoveComponent(e, c) \/ DetachComponent(e, c)
             \/ CollectComponent(c)
      PROVE  DeathListed'
  <2>1. UNCHANGED engine
    BY <1>4 DEF AddComponent, RemoveComponent, DetachComponent, CollectComponent
  <2> QED BY <2>1
<1>5. CASE SystemFault \/ EarlyPhase \/ LatePhase \/ ScriptPhaseEnds \/ CleanupEnds
           \/ ApplyResults \/ FrameEnds
  BY <1>5 DEF SystemFault, EarlyPhase, LatePhase, ScriptPhaseEnds, CleanupEnds,
     ApplyResults, FrameEnds
<1>6. CASE CleanupRecord
  <2>1. UNCHANGED engine
    BY <1>6 DEF CleanupRecord
  <2> QED BY <2>1
<1>7. ASSUME NEW e \in Entities, DeleteEntity(e)
      PROVE  DeathListed'
  <2>1. CASE Fault("delete")
    BY <2>1
  <2>2. CASE ~Fault("delete")
    <3>1. mem' = [mem EXCEPT ![e] = "freed"] /\ entities' = entities \ {e}
      BY <1>7, <2>2 DEF DeleteEntity, Unlisted
    <3>2. phase' = "delete" /\ destroyed' = destroyed
      BY <1>7, <2>2 DEF DeleteEntity
    <3>3. ASSUME NEW x \in Entities, x # e
          PROVE  delCount'[x] = delCount[x]
      BY <1>7, <2>2, <3>3 DEF DeleteEntity
    <3> QED BY <3>1, <3>2, <3>3
  <2> QED BY <2>1, <2>2
<1>8. CASE UNCHANGED vars
  BY <1>8 DEF vars
<1> QED BY <1>1, <1>2, <1>3, <1>4, <1>5, <1>6, <1>7, <1>8 DEF Next, Game, Engine

(* What an entity's array needs of a component.                             *)
Sound1(e, c) ==
  comps[e][c] > 0 =>
    /\ mem[e] = "alive"
    /\ c \notin shared => /\ cmem[c] = "alive" /\ refs[c] > 0
                          /\ owner[c] = e /\ comps[e][c] = 1

(* n[c] entries of every component c leave the array of e and are released. *)
LEMMA ReleaseKeepsOthers ==
  ASSUME TypeOK, AttachedAlive, NEW e \in Entities, NEW n \in [Components -> Nat],
         \A d \in Components : n[d] <= comps[e][d] /\ comps'[e][d] = comps[e][d] - n[d],
         \A x \in Entities : x # e => comps'[x] = comps[x] /\ mem'[x] = mem[x],
         (\E d \in Components : comps'[e][d] > 0) => mem'[e] = mem[e],
         cmem' = FreedBy(n), refs' = Released(n), owner' = owner, shared' = shared
  PROVE  AttachedAlive'
<1>1. ASSUME NEW x \in Entities, NEW d \in Components, comps'[x][d] > 0
      PROVE  Sound1(x, d)'
  <2>1. comps[x][d] > 0
    <3>1. CASE x = e
      <4>1. comps[e][d] \in Nat /\ n[d] \in Nat /\ comps'[e][d] = comps[e][d] - n[d]
        BY DEF TypeOK
      <4> QED BY <1>1, <3>1, <4>1
    <3>2. CASE x # e
      BY <1>1, <3>2
    <3> QED BY <3>1, <3>2
  <2>2. Sound1(x, d)
    BY DEF AttachedAlive, Sound1
  <2>3. mem'[x] = "alive"
    BY <1>1, <2>1, <2>2 DEF Sound1
  <2>4. ASSUME d \notin shared'
        PROVE  cmem'[d] = "alive" /\ refs'[d] > 0 /\ owner'[d] = x /\ comps'[x][d] = 1
    <3>1. cmem[d] = "alive" /\ refs[d] > 0 /\ owner[d] = x /\ comps[x][d] = 1
      BY <2>1, <2>2, <2>4 DEF Sound1
    <3>2. n[d] = 0
      <4>1. CASE comps[e][d] > 0
        <5>1. owner[d] = e
          BY <2>4, <4>1 DEF AttachedAlive
        <5>2. x = e /\ comps[e][d] = 1 /\ comps'[e][d] = 1 - n[d] /\ n[d] \in Nat
          BY <3>1, <5>1
        <5> QED BY <1>1, <5>2
      <4>2. CASE ~(comps[e][d] > 0)
        <5>1. comps[e][d] \in Nat /\ n[d] \in Nat /\ n[d] <= comps[e][d]
          BY DEF TypeOK
        <5> QED BY <4>2, <5>1
      <4> QED BY <4>1, <4>2
    <3>3. cmem'[d] = "alive"
      BY <3>1, <3>2 DEF FreedBy
    <3>4. refs'[d] > 0
      BY <3>1, <3>2 DEF Released, TypeOK
    <3>5. comps'[x][d] = 1
      <4>1. CASE x = e
        BY <3>1, <3>2, <4>1
      <4>2. CASE x # e
        BY <3>1, <4>2
      <4> QED BY <4>1, <4>2
    <3> QED BY <3>1, <3>3, <3>4, <3>5
  <2> QED BY <2>3, <2>4 DEF Sound1
<1> QED BY <1>1 DEF Sound1, AttachedAlive

(* Components are released only as they leave the entity they belong to.    *)
LEMMA AttachedAliveStep == FrameInv /\ [Next]_vars => AttachedAlive'
<1> SUFFICES ASSUME TypeOK, AttachedAlive, [Next]_vars
             PROVE  AttachedAlive'
  BY DEF FrameInv
<1>0. \A e \in Entities, c \in Components : comps[e][c] \in Nat /\ refs[c] \in Nat
  BY DEF TypeOK
<1>1. ASSUME NEW e \in Entities, CreateEntity(e)
      PROVE  AttachedAlive'
  BY <1>1 DEF CreateEntity, AttachedAlive, TypeOK, parts, history
<1>2. ASSUME NEW e \in Entities, NEW c \in Components, AddComponent(e, c)
      PROVE  AttachedAlive'
  <2>1. /\ mem' = mem /\ mem[e] = "alive" /\ comps' = [comps EXCEPT ![e][c] = @ + 1]
        /\ owner' = [owner EXCEPT ![c] = e] /\ cmem' = [cmem EXCEPT ![c] = "alive"]
        /\ shared' = shared \cup {d \in {c} : \E x \in Entities : comps[x][d] > 0}
    BY <1>2 DEF AddComponent, engine
  <2>2. refs'[c] > 0 /\ \A d \in Components : d # c => refs'[d] = refs[d]
    BY <1>0, <1>2 DEF AddComponent, TypeOK
  <2>3. /\ comps'[e][c] = comps[e][c] + 1
        /\ \A x \in Entities, d \in Components :
             x # e \/ d # c => comps'[x][d] = comps[x][d]
    BY <2>1 DEF TypeOK
  <2>4. ASSUME NEW x \in Entities, NEW d \in Components, comps'[x][d] > 0
        PROVE  Sound1(x, d)'
    <3>1. CASE d # c
      BY <2>1, <2>2, <2>3, <2>4, <3>1 DEF Sound1, AttachedAlive, TypeOK
    <3>2. CASE d = c /\ c \in shared'
      <4>1. x = e \/ comps[x][c] > 0
        BY <2>3, <2>4, <3>2
      <4> QED BY <2>1, <3>2, <4>1 DEF Sound1, AttachedAlive
    <3>3. CASE d = c /\ c \notin shared'
      <4>1. \A y \in Entities : comps[y][c] = 0
        BY <1>0, <2>1, <3>3
      <4>2. x = e /\ comps'[x][c] = 1
        BY <2>3, <2>4, <3>3, <4>1
      <4>3. owner'[c] = e /\ cmem'[c] = "alive"
        BY <2>1 DEF TypeOK
      <4> QED BY <2>1, <2>2, <3>3, <4>2, <4>3 DEF Sound1
    <3> QED BY <3>1, <3>2, <3>3
  <2> QED BY <2>4 DEF Sound1, AttachedAlive
<1>3. ASSUME NEW e \in Entities, NEW c \in Components, RemoveComponent(e, c)
      PROVE  AttachedAlive'
  <2>1. UNCHANGED <<mem, comps, cmem, refs, owner, shared>>
    BY <1>3 DEF RemoveComponent, Fault, engine, parts, history
  <2> QED BY <2>1 DEF AttachedAlive
<1>10. ASSUME NEW e \in Entities, NEW c \in Components, DetachComponent(e, c)
       PROVE  AttachedAlive'
  <2>1. CASE Fault("detach")
    BY <2>1 DEF Fault, engine, parts, history, AttachedAlive
  <2>2. CASE ~Fault("detach")
    <3>1. /\ comps' = Without(e, c) /\ comps[e][c] > 0
          /\ refs' = [refs EXCEPT ![c] = IF @ > 0 THEN @ - 1 ELSE 0]
          /\ UNCHANGED <<mem, cmem, owner, shared>>
      BY <1>10, <2>2 DEF DetachComponent, Listed, engine
    <3>2. /\ comps'[e][c] = comps[e][c] - 1
          /\ \A x \in Entities, d \in Components :
               x # e \/ d # c => comps'[x][d] = comps[x][d]
      BY <3>1 DEF Without, TypeOK
    <3>3. ASSUME NEW x \in Entities, NEW d \in Components, comps'[x][d] > 0
          PROVE  Sound1(x, d)'
      <4>1. Sound1(x, d) /\ comps[x][d] > 0
        BY <1>0, <3>2, <3>3 DEF Sound1, AttachedAlive
      <4>2. CASE d # c
        BY <3>1, <3>2, <4>1, <4>2 DEF Sound1, TypeOK
      <4>3. CASE d = c
        <5>1. ASSUME c \notin shared PROVE FALSE
          <6>1. owner[c] = e /\ comps[e][c] = 1 /\ owner[c] = x
            BY <3>1, <4>1, <4>3, <5>1 DEF Sound1, AttachedAlive
          <6> QED BY <3>2, <3>3, <4>3, <6>1
        <5> QED BY <3>1, <4>1, <4>3, <5>1 DEF Sound1
      <4> QED BY <4>2, <4>3
    <3> QED BY <3>3 DEF Sound1, AttachedAlive
  <2> QED BY <2>1, <2>2
<1>11. ASSUME NEW c \in Components, CollectComponent(c)
       PROVE  AttachedAlive'
  <2>1. refs[c] = 0 /\ cmem' = [cmem EXCEPT ![c] = "freed"]
        /\ UNCHANGED <<mem, comps, owner, refs, shared>>
    BY <1>11 DEF CollectComponent, engine, history
  <2> QED BY <2>1 DEF AttachedAlive, TypeOK
<1>4. CASE ClearEntities \/ \E e \in Entities : DestroyEntity(e)
  BY <1>4 DEF ClearEntities, DestroyEntity, AttachedAlive, parts, history
<1>5. CASE SystemFault \/ EarlyPhase \/ LatePhase \/ ScriptPhaseEnds \/ CleanupEnds
           \/ ApplyResults \/ FrameEnds
  <2>1. UNCHANGED <<mem, comps, cmem, refs, owner, shared>>
    BY <1>5 DEF SystemFault, EarlyPhase, LatePhase, ScriptPhaseEnds, CleanupEnds,
       ApplyResults, FrameEnds, GoTo, Fault, engine, parts, history
  <2> QED BY <2>1 DEF AttachedAlive
<1>7. CASE CleanupRecord
  <2>1. PICK e \in Entities, c \in Components :
          \/ UNCHANGED <<mem, comps, cmem, refs, owner, shared>>
          \/ /\ comps[e][c] # 0
             /\ comps' = Without(e, c) /\ cmem' = FreedBy(Single(c))
             /\ refs' = Released(Single(c))
             /\ UNCHANGED <<mem, owner, shared>>
    BY <1>7 DEF CleanupRecord, Fault, engine, parts, history
  <2>2. CASE UNCHANGED <<mem, comps, cmem, refs, owner, shared>>
    BY <2>2 DEF AttachedAlive
  <2>3. CASE ~UNCHANGED <<mem, comps, cmem, refs, owner, shared>>
    <3> DEFINE n == Single(c)
    <3>1. n \in [Components -> Nat] /\ n[c] = 1 /\ \A d \in Components : d # c => n[d] = 0
      BY SingleIs
    <3>2. \A d \in Components : n[d] <= comps[e][d] /\ comps'[e][d] = comps[e][d] - n[d]
      <4>1. comps[e][c] # 0 /\ comps' = [comps EXCEPT ![e][c] = @ - 1]
        BY <2>1, <2>3 DEF Without
      <4>2. comps'[e][c] = comps[e][c] - 1 /\ comps[e][c] >= 1
        BY <1>0, <4>1 DEF TypeOK
      <4>3. \A d \in Components : d # c => comps'[e][d] = comps[e][d]
        BY <4>1 DEF TypeOK
      <4> HIDE DEF n
      <4> QED BY <1>0, <3>1, <4>2, <4>3
    <3>3. \A x \in Entities : x # e => comps'[x] = comps[x] /\ mem'[x] = mem[x]
      BY <2>1, <2>3 DEF Without, TypeOK
    <3>4. /\ cmem' = FreedBy(n) /\ refs' = Released(n) /\ owner' = owner /\ shared' = shared
          /\ mem' = mem
      BY <2>1, <2>3
    <3> HIDE DEF n
    <3> QED BY <3>1, <3>2, <3>3, <3>4, ReleaseKeepsOthers
  <2> QED BY <2>2, <2>3
<1>8. ASSUME NEW e \in Entities, DeleteEntity(e)
      PROVE  AttachedAlive'
  <2>1. CASE Fault("delete")
    BY <2>1 DEF Fault, engine, parts, history, AttachedAlive
  <2>2. CASE ~Fault("delete")
    <3> DEFINE n == comps[e]
    <3>1. /\ mem' = [mem EXCEPT ![e] = "freed"]
          /\ comps' = [comps EXCEPT ![e] = [d \in Components |-> 0]]
          /\ cmem' = FreedBy(n) /\ refs' = Released(n) /\ owner' = owner /\ shared' = shared
      BY <1>8, <2>2 DEF DeleteEntity, history
    <3>2. n \in [Components -> Nat]
      BY DEF TypeOK
    <3>3. \A d \in Components : comps'[e][d] = 0
      BY <3>1 DEF TypeOK
    <3>4. \A d \in Components : n[d] <= comps[e][d] /\ comps'[e][d] = comps[e][d] - n[d]
      BY <1>0, <3>3
    <3>5. \A x \in Entities : x # e => comps'[x] = comps[x] /\ mem'[x] = mem[x]
      BY <3>1 DEF TypeOK
    <3>6. ~\E d \in Components : comps'[e][d] > 0
      BY <3>3
    <3> HIDE DEF n
    <3> QED BY <3>1, <3>2, <3>4, <3>5, <3>6, ReleaseKeepsOthers
  <2> QED BY <2>1, <2>2
<1>9. CASE UNCHANGED vars
  <2>1. UNCHANGED <<mem, comps, cmem, refs, owner, shared>>
    BY <1>9 DEF vars, engine, parts, history
  <2> QED BY <2>1 DEF AttachedAlive
<1> QED BY <1>1, <1>2, <1>3, <1>4, <1>5, <1>7, <1>8, <1>9, <1>10, <1>11
        DEF Next, Game, Engine

(* The invariant of every game.                                             *)
THEOREM FrameInvariance == Spec => []FrameInv
<1>1. FrameInv /\ [Next]_vars => FrameInv'
  BY FrameTypeStep, DeathListedStep, AttachedAliveStep DEF FrameInv
<1> QED BY FrameInit, <1>1, PTL DEF Spec

(* Whatever a game does in whatever phase, the variables keep their types.  *)
THEOREM TypeCorrect == Spec => []TypeOK
<1>1. FrameInv => TypeOK
  BY DEF FrameInv
<1> QED BY FrameInvariance, <1>1, PTL

(* entity:destroy in any script phase, also from a callback of the job      *)
(* queue, frees the entity before the next frame starts.                    *)
THEOREM EntitiesDieWithinFrame == Spec => []DestroyedWithinFrame
<1>1. FrameInv => DestroyedWithinFrame
  BY DEF FrameInv, TypeOK, DeathListed, DestroyedWithinFrame
<1> QED BY FrameInvariance, <1>1, PTL

(* However components are attached, shared, detached, removed, collected    *)
(* and released: only live entities list components, and one that was never *)
(* attached twice at a time is alive, referenced and listed once, by its    *)
(* own entity.                                                              *)
THEOREM AttachedStayAlive == Spec => []AttachedAlive
<1>1. FrameInv => AttachedAlive
  BY DEF FrameInv
<1> QED BY FrameInvariance, <1>1, PTL

-----------------------------------------------------------------------------
(* Careful games                                                            *)

(* A careful game starts with nothing deferred and nothing cached.          *)
LEMMA CarefulInit == Init => CarefulInv
<1> SUFFICES ASSUME Init
             PROVE  CarefulInv
  OBVIOUS
<1>1. RemovalsInOrder
  BY DEF Init, RemovalsInOrder, NoRecord
<1>2. SystemsHoldLive /\ NoFault
  BY DEF Init, SystemsHoldLive, NoFault, Cached
<1> QED BY FrameInit, <1>1, <1>2 DEF CarefulInv

(* A game that is careful still was careful before: it neither detaches nor *)
(* clears, removes components only while the cleanup phase of the frame is  *)
(* still to come, and attaches what no entity lists.                        *)
LEMMA StillCareful ==
  ASSUME CarefulInv, [Next]_vars, Careful'
  PROVE  /\ Careful /\ RemovalsInOrder /\ SystemsHoldLive
         /\ \A e \in Entities, c \in Components : ~DetachComponent(e, c)
         /\ ~ClearEntities
         /\ \A e \in Entities, c \in Components :
              /\ RemoveComponent(e, c) => phase \notin {"jobs", "delete", "early", "cleanup"}
              /\ AddComponent(e, c) => \A x \in Entities : comps[x][c] = 0
<1> USE DEF Careful
<1>1. shared \subseteq shared' /\ (careless => careless')
  <2>1. CASE Game
    <3>1. ASSUME NEW e \in Entities, NEW c \in Components, RemoveComponent(e, c)
          PROVE  shared' = shared /\ (careless => careless')
      <4>1. shared' = shared
        BY <3>1 DEF RemoveComponent, Fault, history
      <4>2. Fault("remove") \/ careless' = IF phase = "jobs" THEN TRUE ELSE careless
        BY <3>1 DEF RemoveComponent
      <4>3. Fault("remove") => careless' = careless
        BY DEF Fault, history
      <4>4. careless => careless'
        BY <4>2, <4>3
      <4> QED BY <4>1, <4>4
    <3>2. ASSUME NEW e \in Entities, NEW c \in Components, AddComponent(e, c)
          PROVE  shared \subseteq shared' /\ careless' = careless
      BY <3>2 DEF AddComponent
    <3>3. ASSUME NEW e \in Entities, NEW c \in Components, DetachComponent(e, c)
          PROVE  shared' = shared /\ (careless => careless')
      BY <3>3 DEF DetachComponent, Fault, history
    <3>4. ASSUME NEW e \in Entities, CreateEntity(e) \/ DestroyEntity(e)
          PROVE  UNCHANGED history
      BY <3>4 DEF CreateEntity, DestroyEntity
    <3>5. ASSUME NEW c \in Components, CollectComponent(c)
          PROVE  UNCHANGED history
      BY <3>5 DEF CollectComponent
    <3>6. ClearEntities => shared' = shared /\ careless'
      BY DEF ClearEntities
    <3> QED BY <2>1, <3>1, <3>2, <3>3, <3>4, <3>5, <3>6 DEF Game, history
  <2>2. CASE Engine
    <3>1. UNCHANGED history
      BY <2>2 DEF Engine, SystemFault, EarlyPhase, LatePhase, ScriptPhaseEnds,
         CleanupRecord, CleanupEnds, ApplyResults, FrameEnds, DeleteEntity, GoTo, Fault
    <3> QED BY <3>1 DEF history
  <2>3. CASE UNCHANGED vars
    BY <2>3 DEF vars, history
  <2> QED BY <2>1, <2>2, <2>3 DEF Next
<1>2. Careful /\ RemovalsInOrder /\ SystemsHoldLive
  BY <1>1 DEF CarefulInv
<1>3. TypeOK /\ AttachedAlive
  BY DEF CarefulInv, FrameInv
<1>4. ASSUME NEW e \in Entities, NEW c \in Components, DetachComponent(e, c)
      PROVE  FALSE
  BY <1>2, <1>3, <1>4 DEF DetachComponent, Listed, AttachedAlive
<1>5. ~ClearEntities
  BY DEF ClearEntities
<1>6. ASSUME NEW e \in Entities, NEW c \in Components, RemoveComponent(e, c)
      PROVE  phase \notin {"jobs", "delete", "early", "cleanup"}
  <2>1. comps[e][c] > 0 /\ \A d \in Components : comps[e][d] > 0 => cmem[d] = "alive"
    BY <1>2, <1>3, <1>6 DEF RemoveComponent, Listed, AttachedAlive
  <2>2. ~Gone(c)
    BY <1>2, <1>3, <2>1 DEF Gone, AttachedAlive
  <2>3. phase # "jobs" /\ phase \in ScriptPhases
    BY <1>2, <1>6, <2>1, <2>2 DEF RemoveComponent, Listed, Script
  <2> QED BY <2>3 DEF ScriptPhases
<1>7. ASSUME NEW e \in Entities, NEW c \in Components, AddComponent(e, c),
             NEW x \in Entities
      PROVE  comps[x][c] = 0
  <2>1. ~(comps[x][c] > 0)
    BY <1>7 DEF AddComponent
  <2>2. comps[x][c] \in Nat
    BY <1>3 DEF TypeOK
  <2> QED BY <2>1, <2>2
<1> QED BY <1>2, <1>4, <1>5, <1>6, <1>7

(* No step of a careful game touches freed memory.                          *)
LEMMA NoFaultStep == CarefulInv /\ [Next]_vars => NoFault'
<1> SUFFICES ASSUME CarefulInv, [Next]_vars, Careful'
             PROVE  fault' \in {"none", "result"}
  BY DEF NoFault
<1>0. /\ Careful /\ RemovalsInOrder /\ SystemsHoldLive /\ TypeOK /\ AttachedAlive
      /\ fault \in {"none", "result"} /\ shared = {}
  BY StillCareful DEF CarefulInv, FrameInv, NoFault, Careful
<1>l. ASSUME NEW e \in Entities, NEW c \in Components, comps[e][c] > 0
      PROVE  cmem[c] = "alive" /\ ~Gone(c) /\ comps[e][c] = 1
  BY <1>0, <1>l DEF AttachedAlive, Gone
<1>1. ASSUME NEW e \in Entities, NEW c \in Components, RemoveComponent(e, c)
      PROVE  fault' \in {"none", "result"}
  <2>1. comps[e][c] > 0
    BY <1>1 DEF RemoveComponent, Listed
  <2>2. ~Gone(c) /\ \A d \in Components : comps[e][d] > 0 => cmem[d] # "freed"
    BY <1>l, <2>1
  <2> QED BY <1>0, <1>1, <2>2 DEF RemoveComponent
<1>8. ASSUME NEW e \in Entities, NEW c \in Components,
             CreateEntity(e) \/ DestroyEntity(e) \/ AddComponent(e, c) \/ CollectComponent(c)
      PROVE  fault' \in {"none", "result"}
  BY <1>0, <1>8 DEF CreateEntity, DestroyEntity, AddComponent, CollectComponent
<1>2. CASE SystemFault
  <2>1. PICK c \in Cached : Gone(c)
    BY <1>2 DEF SystemFault
  <2> QED BY <1>0, <2>1 DEF SystemsHoldLive, Gone, Cached
<1>3. CASE EarlyPhase \/ LatePhase \/ ScriptPhaseEnds \/ CleanupEnds \/ FrameEnds
  BY <1>0, <1>3 DEF EarlyPhase, LatePhase, ScriptPhaseEnds, CleanupEnds, FrameEnds, GoTo
<1>4. CASE CleanupRecord
  <2>1. PICK e \in Entities, c \in Components :
          /\ removals[<<e, c>>] > 0
          /\ mem[e] = "freed" \/ (comps[e][c] > 0 /\ cmem[c] = "freed") \/ fault' = fault
    BY <1>4 DEF CleanupRecord
  <2> QED BY <1>0, <1>l, <2>1 DEF RemovalsInOrder
<1>5. CASE ApplyResults
  BY <1>0, <1>5 DEF ApplyResults, Fault
<1>6. ASSUME NEW e \in Entities, DeleteEntity(e)
      PROVE  fault' \in {"none", "result"}
  <2>1. mem[e] = "alive"
    BY <1>0, <1>6 DEF DeleteEntity, RemovalsInOrder
  <2>2. ~Dangles(e)
    BY <1>l DEF Dangles
  <2> QED BY <1>0, <1>6, <2>1, <2>2 DEF DeleteEntity
<1>7. CASE UNCHANGED vars
  BY <1>0, <1>7 DEF vars
<1>9. \A e \in Entities, c \in Components : ~DetachComponent(e, c)
  BY StillCareful
<1>10. ~ClearEntities
  BY StillCareful
<1>11. ASSUME NEW e \in Entities, CreateEntity(e) \/ DestroyEntity(e)
       PROVE  fault' \in {"none", "result"}
  BY <1>0, <1>11 DEF CreateEntity, DestroyEntity
<1>12. ASSUME NEW c \in Components, CollectComponent(c)
       PROVE  fault' \in {"none", "result"}
  BY <1>0, <1>12 DEF CollectComponent
<1> QED BY <1>1, <1>2, <1>3, <1>4, <1>5, <1>6, <1>7, <1>8, <1>9, <1>10, <1>11, <1>12
        DEF Next, Game, Engine

(* What a careful game leaves in the systems' arrays is attached and alive. *)
LEMMA SystemsHoldLiveStep ==
  CarefulInv /\ [Next]_vars /\ Careful' => SystemsHoldLive'
<1> DEFINE Held(d) == /\ cmem[d] = "alive"
                      /\ owner[d] \in Entities /\ mem[owner[d]] = "alive"
                      /\ comps[owner[d]][d] > 0
<1> SUFFICES ASSUME CarefulInv, [Next]_vars, Careful',
                    NEW d \in Components, cached'[d] > 0
             PROVE  Held(d)'
  BY DEF SystemsHoldLive, Cached
<1>0. /\ TypeOK /\ AttachedAlive /\ RemovalsInOrder /\ SystemsHoldLive /\ shared = {}
      /\ cached[d] \in Nat /\ cached[d] <= 1
  BY StillCareful DEF CarefulInv, FrameInv, Careful, RemovalsInOrder, TypeOK
<1>1. cached[d] > 0 => Held(d)
  BY <1>0 DEF SystemsHoldLive, Cached
<1>2. ASSUME NEW n \in [Components -> Nat], cached' = Uncached(n)
      PROVE  cached[d] > 0 /\ n[d] = 0
  BY <1>0, <1>2 DEF Uncached
<1>3. ASSUME NEW e \in Entities, CreateEntity(e)
      PROVE  Held(d)'
  <2>1. UNCHANGED <<cached, cmem, owner, comps>> /\ mem' = [mem EXCEPT ![e] = "alive"]
    BY <1>3 DEF CreateEntity, parts, systems
  <2> QED BY <1>0, <1>1, <2>1 DEF TypeOK
<1>4. ASSUME NEW e \in Entities, DestroyEntity(e)
      PROVE  Held(d)'
  BY <1>1, <1>4 DEF DestroyEntity, parts, systems
<1>5. ASSUME NEW e \in Entities, NEW c \in Components, AddComponent(e, c)
      PROVE  Held(d)'
  <2>1. /\ comps' = [comps EXCEPT ![e][c] = @ + 1]
        /\ owner' = [owner EXCEPT ![c] = e]
        /\ cmem' = [cmem EXCEPT ![c] = "alive"]
        /\ cached' = [cached EXCEPT ![c] = @ + 1]
        /\ mem' = mem /\ mem[e] = "alive"
    BY <1>5 DEF AddComponent, engine
  <2>2. CASE d = c
    <3>1. comps'[e][c] = comps[e][c] + 1 /\ comps[e][c] \in Nat
      BY <1>0, <2>1 DEF TypeOK
    <3> QED BY <1>0, <2>1, <2>2, <3>1 DEF TypeOK
  <2>3. CASE d # c
    <3>1. cached[d] > 0
      BY <1>0, <2>1, <2>3 DEF TypeOK
    <3>2. \A x \in Entities : comps'[x][d] = comps[x][d]
      BY <1>0, <2>1, <2>3 DEF TypeOK
    <3> QED BY <1>0, <1>1, <2>1, <2>3, <3>1, <3>2 DEF TypeOK
  <2> QED BY <2>2, <2>3
<1>6. ASSUME NEW e \in Entities, NEW c \in Components, RemoveComponent(e, c)
      PROVE  Held(d)'
  <2>1. UNCHANGED <<cmem, owner, comps, mem>>
        /\ (cached' = cached \/ cached' = Uncached(Single(c)))
    BY <1>6 DEF RemoveComponent, Fault, engine, parts, systems
  <2>2. cached[d] > 0
    BY <1>2, <2>1, SingleIs
  <2> QED BY <1>1, <2>1, <2>2
<1>7. CASE SystemFault \/ EarlyPhase \/ LatePhase \/ ScriptPhaseEnds \/ CleanupEnds
           \/ ApplyResults \/ FrameEnds \/ UNCHANGED vars
  <2>1. UNCHANGED <<cached, cmem, owner, comps, mem>>
    BY <1>7 DEF SystemFault, EarlyPhase, LatePhase, ScriptPhaseEnds, CleanupEnds,
       ApplyResults, FrameEnds, GoTo, Fault, vars, engine, parts, systems
  <2> QED BY <1>1, <2>1
<1>8. CASE CleanupRecord
  <2>1. PICK e \in Entities, c \in Components :
          /\ removals[<<e, c>>] > 0
          /\ cached' = cached /\ owner' = owner /\ mem' = mem
          /\ \/ UNCHANGED <<cmem, comps>>
             \/ comps' = Without(e, c) /\ cmem' = FreedBy(Single(c))
    BY <1>8 DEF CleanupRecord, Fault, engine, parts, systems
  <2>2. d # c /\ Held(d)
    BY <1>0, <1>1, <2>1 DEF RemovalsInOrder
  <2>3. CASE comps' = Without(e, c) /\ cmem' = FreedBy(Single(c))
    <3>1. Single(c)[d] = 0
      BY <2>2, SingleIs
    <3>2. cmem'[d] = cmem[d]
      BY <2>3, <3>1 DEF FreedBy
    <3>3. \A x \in Entities : comps'[x][d] = comps[x][d]
      BY <1>0, <2>2, <2>3 DEF Without, TypeOK
    <3> QED BY <2>1, <2>2, <3>2, <3>3
  <2> QED BY <2>1, <2>2, <2>3
<1>9. ASSUME NEW e \in Entities, DeleteEntity(e)
      PROVE  Held(d)'
  <2>1. CASE Fault("delete")
    BY <1>1, <2>1 DEF Fault, engine, parts, systems
  <2>2. CASE ~Fault("delete")
    <3> DEFINE n == comps[e]
    <3>1. /\ mem' = [mem EXCEPT ![e] = "freed"] /\ cmem' = FreedBy(n) /\ owner' = owner
          /\ comps' = [comps EXCEPT ![e] = [c \in Components |-> 0]]
          /\ cached' = Uncached(n)
      BY <1>9, <2>2 DEF DeleteEntity
    <3>2. n \in [Components -> Nat]
      BY <1>0 DEF TypeOK
    <3>3. cached[d] > 0 /\ comps[e][d] = 0
      BY <1>2, <3>1, <3>2
    <3>4. Held(d) /\ owner[d] # e
      BY <1>1, <3>3
    <3>5. cmem'[d] = cmem[d]
      BY <3>1, <3>3 DEF FreedBy
    <3>6. mem'[owner[d]] = mem[owner[d]] /\ comps'[owner[d]] = comps[owner[d]]
      BY <1>0, <3>1, <3>4 DEF TypeOK
    <3> QED BY <3>1, <3>4, <3>5, <3>6
  <2> QED BY <2>1, <2>2
<1>10. ASSUME NEW c \in Components, CollectComponent(c)
       PROVE  Held(d)'
  <2>1. /\ refs[c] = 0 /\ cmem' = [cmem EXCEPT ![c] = "freed"]
        /\ UNCHANGED <<cached, owner, comps, mem>>
    BY <1>10 DEF CollectComponent, engine, systems
  <2>2. Held(d)
    BY <1>1, <2>1
  <2>3. refs[d] > 0
    BY <1>0, <2>2 DEF AttachedAlive
  <2>4. d # c
    BY <2>1, <2>3
  <2> QED BY <1>0, <2>1, <2>2, <2>4 DEF TypeOK
<1> QED BY <1>3, <1>4, <1>5, <1>6, <1>7, <1>8, <1>9, <1>10, StillCareful
        DEF Next, Game, Engine

(* Deletions and removals of a careful game come in order: a record is      *)
(* handled before its entity is deleted, and an entity is deleted once.     *)
LEMMA RemovalsInOrderStep ==
  CarefulInv /\ [Next]_vars /\ Careful' => RemovalsInOrder'
<1> SUFFICES ASSUME CarefulInv, [Next]_vars, Careful'
             PROVE  RemovalsInOrder'
  OBVIOUS
<1> DEFINE Deaths == \A e \in Entities : delCount[e] > 0 =>
                       delCount[e] = 1 /\ destroyed[e] /\ mem[e] = "alive"
           Queue == phase \in {"jobs", "delete", "early"} => NoRecord
           Queued == \A e \in Entities, c \in Components : removals[<<e, c>>] > 0 =>
                       /\ mem[e] = "alive" /\ cached[c] = 0
                       /\ phase # "cleanup" => comps[e][c] > 0
           AtMostOnce == \A c \in Components : cached[c] <= 1
           Order == Deaths /\ Queue /\ Queued /\ AtMostOnce
<1>0. /\ TypeOK /\ AttachedAlive /\ RemovalsInOrder /\ SystemsHoldLive
      /\ DeathListed /\ shared = {}
  BY StillCareful DEF CarefulInv, FrameInv, Careful
<1>q. Deaths /\ Queue /\ Queued /\ AtMostOnce
  BY <1>0 DEF RemovalsInOrder
<1>n. /\ \A r \in Entities \X Components : removals[r] \in Nat
      /\ \A c \in Components : cached[c] \in Nat
      /\ \A e \in Entities, c \in Components : comps[e][c] \in Nat
  BY <1>0 DEF TypeOK
<1> SUFFICES Deaths' /\ Queue' /\ Queued' /\ AtMostOnce'
  BY DEF RemovalsInOrder
<1>1. ASSUME NEW e \in Entities, CreateEntity(e)
      PROVE  Order'
  <2>1. /\ UNCHANGED <<phase, destroyed, delCount, comps, cached, removals>>
        /\ mem' = [mem EXCEPT ![e] = "alive"]
    BY <1>1 DEF CreateEntity, parts, systems
  <2>2. \A x \in Entities : mem[x] = "alive" => mem'[x] = "alive"
    BY <1>0, <2>1 DEF TypeOK
  <2> QED BY <1>q, <2>1, <2>2 DEF NoRecord
<1>2. ASSUME NEW e \in Entities, DestroyEntity(e)
      PROVE  Order'
  <2>1. /\ UNCHANGED <<phase, mem, comps, cached, removals>> /\ mem[e] = "alive"
        /\ destroyed' = [destroyed EXCEPT ![e] = TRUE] /\ ~destroyed[e]
        /\ delCount' = [delCount EXCEPT ![e] = @ + 1]
    BY <1>2 DEF DestroyEntity, parts, systems
  <2>2. Deaths'
    BY <1>0, <1>q, <2>1 DEF TypeOK
  <2> QED BY <1>q, <2>1, <2>2 DEF NoRecord
<1>3. ASSUME NEW e \in Entities, NEW c \in Components, AddComponent(e, c)
      PROVE  Order'
  <2>1. /\ comps' = [comps EXCEPT ![e][c] = @ + 1]
        /\ cached' = [cached EXCEPT ![c] = @ + 1]
        /\ UNCHANGED <<mem, delCount, destroyed, phase, removals>>
        /\ phase \in ScriptPhases
    BY <1>3 DEF AddComponent, engine, Script
  <2>2. \A x \in Entities : comps[x][c] = 0
    BY <1>3, StillCareful
  <2>3. cached[c] = 0
    BY <1>0, <1>n, <2>2 DEF SystemsHoldLive, Cached
  <2>4. \A x \in Entities, d \in Components :
          d # c => comps'[x][d] = comps[x][d] /\ cached'[d] = cached[d]
    BY <1>0, <2>1 DEF TypeOK
  <2>5. Queued'
    <3>1. ASSUME NEW x \in Entities, NEW d \in Components, removals[<<x, d>>] > 0
          PROVE  d # c
      <4>1. comps[x][d] > 0
        BY <1>q, <2>1, <3>1 DEF ScriptPhases
      <4> QED BY <2>2, <4>1
    <3> QED BY <1>q, <2>1, <2>4, <3>1
  <2>6. AtMostOnce'
    <3>1. cached'[c] = 1
      BY <1>0, <2>1, <2>3 DEF TypeOK
    <3> QED BY <1>q, <2>4, <3>1
  <2>7. Deaths' /\ Queue'
    BY <1>q, <2>1 DEF NoRecord
  <2> QED BY <2>5, <2>6, <2>7
<1>4. ASSUME NEW e \in Entities, NEW c \in Components, RemoveComponent(e, c)
      PROVE  Order'
  <2>1. CASE Fault("remove")
    <3>1. UNCHANGED <<mem, comps, delCount, destroyed, phase, cached, removals>>
      BY <2>1 DEF Fault, engine, parts, systems
    <3> QED BY <1>q, <3>1 DEF NoRecord
  <2>2. CASE ~Fault("remove")
    <3>1. /\ cached' = Uncached(Single(c)) /\ removals' = Recorded(Single(c))
          /\ mem[e] = "alive" /\ comps[e][c] > 0
          /\ UNCHANGED <<mem, comps, delCount, destroyed, phase>>
      BY <1>4, <2>2 DEF RemoveComponent, Listed, engine, parts
    <3>2. cached'[c] = 0 /\ \A d \in Components : d # c => cached'[d] = cached[d]
      BY <1>q, <1>n, <3>1, SingleIs DEF Uncached
    <3>3. phase \notin {"jobs", "delete", "early", "cleanup"}
      BY <1>4, StillCareful
    <3>4. owner[c] = e
      BY <1>0, <3>1 DEF AttachedAlive
    <3>5. ASSUME NEW x \in Entities, NEW d \in Components, removals'[<<x, d>>] > 0
          PROVE  mem[x] = "alive" /\ cached'[d] = 0 /\ comps[x][d] > 0
      <4>1. <<x, d>> \in Entities \X Components
        OBVIOUS
      <4>2. removals'[<<x, d>>] = IF x = owner[d] /\ ~destroyed[x]
                                  THEN removals[<<x, d>>] + Single(c)[d] ELSE removals[<<x, d>>]
        BY <3>1, <4>1 DEF Recorded
      <4>3. CASE d = c
        <5>1. CASE removals[<<x, d>>] > 0
          BY <1>q, <3>2, <3>3, <4>3, <5>1
        <5>2. CASE ~(removals[<<x, d>>] > 0)
          <6>1. x = owner[d]
            BY <3>5, <4>2, <5>2
          <6> QED BY <3>1, <3>2, <3>4, <4>3, <6>1
        <5> QED BY <5>1, <5>2
      <4>4. CASE d # c
        <5>1. Single(c)[d] = 0 /\ removals[<<x, d>>] \in Nat
          BY <1>n, <4>1, <4>4, SingleIs
        <5>2. removals[<<x, d>>] > 0
          BY <3>5, <4>2, <5>1
        <5> QED BY <1>q, <3>2, <3>3, <4>4, <5>2
      <4> QED BY <4>3, <4>4
    <3>6. AtMostOnce'
      BY <1>q, <3>2
    <3>7. Deaths' /\ Queue'
      BY <1>q, <3>1, <3>3
    <3> QED BY <3>1, <3>5, <3>6, <3>7
  <2> QED BY <2>1, <2>2
<1>5. CASE SystemFault \/ EarlyPhase \/ LatePhase \/ ScriptPhaseEnds \/ CleanupEnds
           \/ ApplyResults \/ FrameEnds \/ UNCHANGED vars
  <2>1. UNCHANGED <<cached, comps, mem, delCount, destroyed, removals>>
    BY <1>5 DEF SystemFault, EarlyPhase, LatePhase, ScriptPhaseEnds, CleanupEnds,
       ApplyResults, FrameEnds, GoTo, Fault, vars, engine, parts, systems
  <2>2. Queue' /\ (NoRecord \/ phase # "cleanup" \/ phase' = "cleanup")
    BY <1>5, <1>q, <2>1 DEF SystemFault, EarlyPhase, LatePhase, ScriptPhaseEnds,
       CleanupEnds, ApplyResults, FrameEnds, GoTo, Fault, vars, engine, NoRecord
  <2>3. Queued'
    <3>1. ASSUME NEW x \in Entities, NEW d \in Components, removals[<<x, d>>] > 0,
                 phase' # "cleanup"
          PROVE  comps[x][d] > 0
      <4>1. ~NoRecord
        <5>1. <<x, d>> \in Entities \X Components
          OBVIOUS
        <5> QED BY <3>1, <5>1 DEF NoRecord
      <4> QED BY <1>q, <2>2, <3>1, <4>1
    <3> QED BY <1>q, <2>1, <3>1
  <2> QED BY <1>q, <2>1, <2>2, <2>3
<1>6. CASE CleanupRecord
  <2>1. PICK e \in Entities, c \in Components :
          /\ UNCHANGED <<cached, mem, delCount, destroyed, phase>>
          /\ phase = "cleanup" /\ removals[<<e, c>>] > 0
          /\ removals' = removals \/ removals' = [removals EXCEPT ![<<e, c>>] = @ - 1]
    BY <1>6 DEF CleanupRecord, Fault, engine, systems
  <2>2. ASSUME NEW x \in Entities, NEW d \in Components, removals'[<<x, d>>] > 0
        PROVE  removals[<<x, d>>] > 0
    <3> DEFINE r == <<e, c>>
               q == <<x, d>>
    <3>1. r \in Entities \X Components /\ q \in Entities \X Components
      OBVIOUS
    <3>2. /\ removals[r] > 0 /\ removals'[q] > 0
          /\ removals' = removals \/ removals' = [removals EXCEPT ![r] = @ - 1]
      BY <2>1, <2>2
    <3> HIDE DEF r, q
    <3>3. removals[q] > 0
      <4>1. CASE q = r
        BY <3>2, <4>1
      <4>2. CASE q # r
        BY <1>0, <3>1, <3>2, <4>2 DEF TypeOK
      <4> QED BY <4>1, <4>2
    <3> QED BY <3>3 DEF q
  <2>3. Queued'
    BY <1>q, <2>1, <2>2
  <2> QED BY <1>q, <2>1, <2>3
<1>7. ASSUME NEW e \in Entities, DeleteEntity(e)
      PROVE  Order'
  <2>1. CASE Fault("delete")
    <3>1. UNCHANGED <<mem, comps, delCount, destroyed, phase, cached, removals>>
      BY <2>1 DEF Fault, engine, parts, systems
    <3> QED BY <1>q, <3>1 DEF NoRecord
  <2>2. CASE ~Fault("delete")
    <3>1. destroyed[e] /\ mem[e] = "alive" /\ delCount[e] = 1 /\ phase = "delete"
      BY <1>q, <1>7 DEF DeleteEntity
    <3>2. /\ mem' = [mem EXCEPT ![e] = "freed"]
          /\ cached' = Uncached(comps[e]) /\ removals' = Recorded(comps[e])
          /\ delCount' = [delCount EXCEPT ![e] = @ - 1]
          /\ UNCHANGED <<phase, destroyed>>
      BY <1>7, <2>2 DEF DeleteEntity
    <3>3. NoRecord'
      <4>1. ASSUME NEW r \in Entities \X Components
            PROVE  removals'[r] = 0
        <5>1. PICK x \in Entities, d \in Components : r = <<x, d>>
          OBVIOUS
        <5>2. removals[r] = 0 /\ r[1] = x /\ r[2] = d
          BY <1>q, <3>1, <5>1 DEF NoRecord
        <5>3. removals'[r] = IF x = owner[d] /\ ~destroyed[x] THEN comps[e][d] ELSE 0
          BY <1>n, <3>2, <5>2 DEF Recorded
        <5>4. comps[e][d] > 0 => owner[d] = e
          BY <1>0 DEF AttachedAlive
        <5> QED BY <1>n, <3>1, <5>3, <5>4
      <4> QED BY <4>1 DEF NoRecord
    <3>4. Deaths'
      BY <1>0, <1>q, <3>1, <3>2 DEF TypeOK
    <3>5. AtMostOnce'
      BY <1>0, <1>q, <1>n, <3>2 DEF Uncached
    <3>6. Queued' /\ Queue'
      <4>1. ASSUME NEW x \in Entities, NEW d \in Components
            PROVE  ~(removals'[<<x, d>>] > 0)
        <5>1. <<x, d>> \in Entities \X Components
          OBVIOUS
        <5> QED BY <3>3, <5>1 DEF NoRecord
      <4> QED BY <3>3, <4>1
    <3> QED BY <3>4, <3>5, <3>6
  <2> QED BY <2>1, <2>2
<1>8. ASSUME NEW c \in Components, CollectComponent(c)
      PROVE  Order'
  <2>1. UNCHANGED <<mem, comps, delCount, destroyed, phase, cached, removals>>
    BY <1>8 DEF CollectComponent, engine, systems
  <2> QED BY <1>q, <2>1 DEF NoRecord
<1> QED BY <1>1, <1>2, <1>3, <1>4, <1>5, <1>6, <1>7, <1>8, StillCareful
        DEF Next, Game, Engine

(* The invariant of careful games.                                          *)
LEMMA CarefulInvariance == Spec => []CarefulInv
<1>1. CarefulInv /\ [Next]_vars => CarefulInv'
  BY FrameTypeStep, DeathListedStep, AttachedAliveStep, NoFaultStep,
     SystemsHoldLiveStep, RemovalsInOrderStep DEF CarefulInv, FrameInv
<1> QED BY CarefulInit, <1>1, PTL DEF Spec

(* As long as a game is careful the engine touches no freed memory, but for *)
(* results that arrive too late.                                            *)
THEOREM CarefulGamesAreSafe == Spec => []NoFault
<1>1. CarefulInv => NoFault
  BY DEF CarefulInv
<1> QED BY CarefulInvariance, <1>1, PTL

(* As long as a game is careful the systems' arrays hold nothing but live   *)
(* components, attached to live entities, in every phase.                   *)
THEOREM CachesStayLive == Spec => [](Careful => SystemsHoldLive)
<1>1. CarefulInv => (Careful => SystemsHoldLive)
  BY DEF CarefulInv
<1> QED BY CarefulInvariance, <1>1, PTL

(* Each frame of a careful game starts with no removal and no deletion left *)
(* over from the one before.                                                *)
THEOREM FramesStartClean == Spec => [](Careful => FrameStartsClean)
<1>1. CarefulInv => (Careful => FrameStartsClean)
  BY DEF CarefulInv, FrameInv, DeathListed, RemovalsInOrder, FrameStartsClean
<1> QED BY CarefulInvariance, <1>1, PTL
-----------------------------------------------------------------------------
(* Certain places of a list, in their order, and how often something is     *)
(* there.                                                                   *)
(* How often x is at the places T of f, and at those of a list.             *)
Alike(f, T, x) == Cardinality({i \in T : f[i] = x})
Picked(f, left, x) == Cardinality({j \in DOMAIN left : f[left[j]] = x})
Ids(n) == [i \in 1..n |-> i]

LEMMA SiftedPlaces ==
  ASSUME NEW n \in Nat, NEW T \in SUBSET (1..n), NEW f
  PROVE  LET left == Sifted(Ids(n), T) IN
           /\ left \in Seq(1..n) /\ ToSet(left) = T /\ Len(left) <= n
           /\ \A x : Picked(f, left, x) = Alike(f, T, x)
<1> DEFINE ids == Ids(n)
           left == Sifted(ids, T)
<1>1. ids \in Seq(1..n) /\ Len(ids) = n /\ DOMAIN ids = 1..n /\ \A i \in 1..n : ids[i] = i
  BY DEF Ids
<1>2. Once(ids) /\ ToSet(ids) = 1..n
  BY <1>1 DEF Once, ToSet
<1> HIDE DEF ids
<1>3. left \in Seq(1..n) /\ ToSet(left) = ToSet(ids) \cap T /\ Len(left) <= n /\ Once(left)
  BY <1>1, <1>2, SiftedIs
<1>4. ToSet(left) = T
  BY <1>2, <1>3
<1> HIDE DEF left
<1>5. ASSUME NEW x
      PROVE  Cardinality({j \in DOMAIN left : f[left[j]] = x}) = Cardinality({i \in T : f[i] = x})
  <2> DEFINE U == {i \in T : f[i] = x}
  <2>1. U \in SUBSET ToSet(left)
    BY <1>4
  <2>2. {j \in DOMAIN left : f[left[j]] = x} = {j \in DOMAIN left : left[j] \in U}
    BY <1>4 DEF ToSet
  <2> HIDE DEF U
  <2>3. Cardinality({j \in DOMAIN left : left[j] \in U}) = Cardinality(U)
    BY <1>3, <2>1, PlacesOnce
  <2> QED BY <2>2, <2>3 DEF U
<1>6. \A x : Picked(f, left, x) = Alike(f, T, x)
  BY <1>5 DEF Picked, Alike
<1> QED BY <1>3, <1>4, <1>6 DEF left, ids

(* Equally many at places that are moved.                                   *)
MovedBy(n, m, B) == {i \in (n + 1)..(n + m) : i - n \in B}

LEMMA MovedPlaces ==
  ASSUME NEW n \in Nat, NEW m \in Nat, NEW B \in SUBSET (1..m)
  PROVE  IsFiniteSet(MovedBy(n, m, B)) /\ Cardinality(MovedBy(n, m, B)) = Cardinality(B)
<1> DEFINE C == MovedBy(n, m, B)
           f == [j \in B |-> j + n]
<1>1. IsFiniteSet(B)
  <2>1. IsFiniteSet(1..m)
    BY FS_Interval
  <2> QED BY <2>1, FS_Subset
<1>2. f \in Bijection(B, C)
  <2>1. f \in [B -> C] /\ \A i, j \in B : f[i] = f[j] => i = j
    BY DEF MovedBy
  <2>2. \A y \in C : \E i \in B : f[i] = y
    <3> TAKE y \in C
    <3>1. y - n \in B /\ (y - n) + n = y
      BY DEF MovedBy
    <3> QED BY <3>1
  <2> HIDE DEF f
  <2> QED BY <2>1, <2>2 DEF Bijection, Injection, Surjection, IsInjective
<1>3. ExistsBijection(B, C)
  BY <1>2 DEF ExistsBijection
<1> QED BY <1>1, <1>3, FS_Bijection
-----------------------------------------------------------------------------
(* Scenes.                                                                  *)
Fields == {"inactive"} \cup (UNION Extras)
RosterRecords == [set : SUBSET Fields, destroyed : BOOLEAN]
Portraits == {p \in SUBSET Fields : "default_props" \notin p /\ "subscriptions" \notin p}
PactRecords ==
  [stage : {"taken", "wiped", "run"}, all : BOOLEAN, wiped : {"no", "clear", "reset"},
   was : Seq(Portraits), live : SUBSET Nat, stay : SUBSET Nat]

Faces(ros) == [i \in DOMAIN ros |-> Portrait(ros[i])]
Staying(x) == Alike(Faces(roster), DOMAIN roster \ doomed, x)
Shown(p, x) == IF p.all \/ "persistent" \notin x THEN Alike(p.was, p.live, x) ELSE 0
Remaining(p, x) == IF p.wiped = "clear" /\ "persistent" \in x THEN Alike(p.was, p.stay, x) ELSE 0

PactTyped(p) == p \in PactRecords /\ p.live \subseteq DOMAIN p.was /\ p.stay \subseteq DOMAIN p.was
Holds(p) == tableau = <<>> \/ \A x : Alike(tableau, DOMAIN tableau, x) = Shown(p, x)
PactOK(p) ==
  /\ PactTyped(p)
  /\ p.stage = "taken" => Holds(p) /\ \A x : Staying(x) = Alike(p.was, p.stay, x)
  /\ p.stage = "wiped" => Holds(p) /\ \A x : Staying(x) = Remaining(p, x)
  /\ p.stage = "run" => \A x : Staying(x) = Shown(p, x) + Remaining(p, x)

Fits(s) == Len(s) <= Max({MaxMade, MaxRoster})

SnapshotsInv ==
  /\ roster \in Seq(RosterRecords) /\ doomed \subseteq DOMAIN roster /\ tableau \in Seq(Portraits)
  /\ \A i \in DOMAIN roster : roster[i].destroyed => i \in doomed
  /\ Fits(roster) /\ Fits(tableau)
  /\ pact = NoPact \/ PactOK(pact)

LEMMA BoundsAre ==
  ASSUME SnapshotsAssumption
  PROVE  LET M == Max({MaxMade, MaxRoster}) IN M \in Nat /\ MaxMade <= M /\ MaxRoster <= M /\ {MaxMade, MaxRoster} \subseteq Nat
<1>1. {MaxMade, MaxRoster} \subseteq Nat
  BY DEF SnapshotsAssumption
<1> DEFINE b == IF MaxMade <= MaxRoster THEN MaxRoster ELSE MaxMade
           S == {MaxMade, MaxRoster}
<1>2. b \in Nat /\ S \in SUBSET (0..b) /\ S # {}
  BY <1>1
<1> HIDE DEF b
<1>3. Max(S) \in S /\ \A k \in S : k <= Max(S)
  <2> HIDE DEF S
  <2> QED BY <1>2, MaxIs
<1> QED BY <1>1, <1>3

LEMMA AlikeCounts ==
  ASSUME NEW n \in Nat, NEW f, NEW T \in SUBSET (1..n), NEW x
  PROVE  Alike(f, T, x) \in Nat
<1>1. IsFiniteSet({i \in T : f[i] = x})
  <2>1. IsFiniteSet(1..n)
    BY FS_Interval
  <2> QED BY <2>1, FS_Subset
<1> QED BY <1>1, FS_CardinalityType DEF Alike

LEMMA SnapshotsStart == SnapshotsInit => SnapshotsInv
<1> SUFFICES ASSUME SnapshotsInit
             PROVE  SnapshotsInv
  OBVIOUS
<1>1. /\ roster = <<>> /\ doomed = {} /\ tableau = <<>> /\ pact = NoPact /\ DOMAIN roster = {}
      /\ Len(roster) = 0 /\ roster \in Seq(RosterRecords) /\ tableau \in Seq(Portraits)
  BY EmptySeq DEF SnapshotsInit
<1>2. Fits(roster) /\ Fits(tableau)
  BY <1>1, BoundsAre, SnapshotsAssumption DEF Fits
<1> QED BY <1>1, <1>2 DEF SnapshotsInv

LEMMA SnapshotsAre ==
  ASSUME SnapshotsInv
  PROVE  /\ DOMAIN roster = 1..Len(roster) /\ Len(roster) \in Nat
         /\ DOMAIN tableau = 1..Len(tableau) /\ Len(tableau) \in Nat
         /\ \A i \in DOMAIN roster : /\ roster[i] \in RosterRecords /\ roster[i].set \in SUBSET Fields
                                     /\ roster[i].destroyed \in BOOLEAN /\ Portrait(roster[i]) \in Portraits
                                     /\ Persists(roster[i]) <=> "persistent" \in Portrait(roster[i])
<1>1. roster \in Seq(RosterRecords) /\ tableau \in Seq(Portraits)
  BY DEF SnapshotsInv
<1>2. /\ DOMAIN roster = 1..Len(roster) /\ Len(roster) \in Nat
      /\ DOMAIN tableau = 1..Len(tableau) /\ Len(tableau) \in Nat
      /\ \A i \in DOMAIN roster : roster[i] \in RosterRecords
  BY <1>1, LenProperties
<1>3. ASSUME NEW e \in RosterRecords
      PROVE  /\ e.set \in SUBSET Fields /\ e.destroyed \in BOOLEAN /\ Portrait(e) \in Portraits
             /\ Persists(e) <=> "persistent" \in Portrait(e)
  BY DEF RosterRecords, Portrait, Portraits, Persists
<1> QED BY <1>2, <1>3

LEMMA MakeExtraStep ==
  ASSUME SnapshotsAssumption, SnapshotsInv, NEW set \in Extras, MakeExtra(set)
  PROVE  SnapshotsInv'
<1> DEFINE e == [set |-> set, destroyed |-> FALSE]
           n == Len(roster)
<1>1. /\ roster' = Append(roster, e) /\ n < MaxMade /\ pact' = NoPact /\ doomed' = doomed /\ tableau' = tableau
  BY DEF MakeExtra
<1>2. e \in RosterRecords /\ e.destroyed = FALSE
  BY DEF RosterRecords, Fields
<1> HIDE DEF e
<1>3. /\ roster' \in Seq(RosterRecords) /\ Len(roster') = n + 1 /\ DOMAIN roster' = 1..(n + 1) /\ roster'[n + 1] = e
      /\ \A i \in 1..n : roster'[i] = roster[i]
  BY <1>1, <1>2, AppendProperties, LenProperties DEF SnapshotsInv
<1>4. DOMAIN roster = 1..n /\ n \in Nat
  BY SnapshotsAre
<1>5. Fits(roster')
  BY <1>1, <1>3, <1>4, BoundsAre DEF Fits
<1>6. doomed' \subseteq DOMAIN roster' /\ \A i \in DOMAIN roster' : roster'[i].destroyed => i \in doomed'
  BY <1>1, <1>2, <1>3, <1>4 DEF SnapshotsInv
<1> QED BY <1>1, <1>3, <1>5, <1>6 DEF SnapshotsInv, Fits

LEMMA DestroyExtraStep ==
  ASSUME SnapshotsInv, NEW i \in DOMAIN roster, DestroyExtra(i)
  PROVE  SnapshotsInv'
<1> DEFINE e == [set |-> roster[i].set \cup {"inactive"}, destroyed |-> TRUE]
<1>1. /\ roster' = [roster EXCEPT ![i] = e] /\ pact' = NoPact /\ doomed' = doomed \cup {i} /\ tableau' = tableau
  BY DEF DestroyExtra
<1>2. e \in RosterRecords
  <2>1. roster[i].set \in SUBSET Fields
    BY SnapshotsAre
  <2>3. "inactive" \in Fields
    BY DEF Fields
  <2>2. roster[i].set \cup {"inactive"} \in SUBSET Fields
    BY <2>1, <2>3
  <2> QED BY <2>2 DEF RosterRecords
<1> HIDE DEF e
<1>3. roster \in Seq(RosterRecords) /\ DOMAIN roster = 1..Len(roster)
  BY SnapshotsAre DEF SnapshotsInv
<1>4. /\ roster' \in Seq(RosterRecords) /\ Len(roster') = Len(roster) /\ DOMAIN roster' = DOMAIN roster
      /\ \A j \in DOMAIN roster : j # i => roster'[j] = roster[j]
  BY <1>1, <1>2, <1>3
<1> QED BY <1>1, <1>4 DEF SnapshotsInv, Fits

LEMMA EndOfFrameStep ==
  ASSUME SnapshotsAssumption, SnapshotsInv, EndOfFrame
  PROVE  SnapshotsInv'
<1> DEFINE n == Len(roster)
           T == DOMAIN roster \ doomed
           left == Sifted(Ids(n), T)
<1>1. n \in Nat /\ DOMAIN roster = 1..n /\ T \in SUBSET (1..n)
  BY SnapshotsAre
<1>2. roster' = [j \in DOMAIN left |-> roster[left[j]]] /\ doomed' = {} /\ tableau' = tableau /\ pact' = pact
  BY <1>1 DEF EndOfFrame, Ids
<1> DEFINE f == Faces(roster)
<1> HIDE DEF T, n, f
<1>21. n \in Nat
  BY <1>1
<1>22. T \in SUBSET (1..n)
  BY <1>1
<1>23. /\ left \in Seq(1..n) /\ ToSet(left) = T /\ Len(left) <= n
       /\ \A x : Picked(f, left, x) = Alike(f, T, x)
  BY <1>21, <1>22, SiftedPlaces
<1> HIDE DEF left
<1>3. /\ left \in Seq(1..n) /\ ToSet(left) = T /\ Len(left) <= n
      /\ \A x : Cardinality({j \in DOMAIN left : Faces(roster)[left[j]] = x})
                  = Cardinality({i \in T : Faces(roster)[i] = x})
  BY <1>23 DEF f, Picked, Alike
<1>4. DOMAIN left = 1..Len(left) /\ Len(left) \in Nat /\ \A j \in DOMAIN left : left[j] \in DOMAIN roster /\ left[j] \in T
  BY <1>1, <1>3, LenProperties DEF ToSet
<1>5. roster' \in Seq(RosterRecords) /\ Len(roster') = Len(left) /\ DOMAIN roster' = DOMAIN left
  <2>1. roster' \in [1..Len(left) -> RosterRecords]
    BY <1>2, <1>4, SnapshotsAre
  <2> QED BY <1>4, <2>1
<1>6. \A i \in DOMAIN roster' : ~roster'[i].destroyed
  <2>1. \A i \in T : ~roster[i].destroyed
    BY DEF SnapshotsInv, T
  <2> QED BY <1>2, <1>4, <1>5, <2>1
<1>7. Fits(roster')
  BY <1>1, <1>3, <1>4, <1>5, BoundsAre DEF Fits, SnapshotsInv, n
<1>8. \A x : Staying(x)' = Staying(x)
  <2> TAKE x
  <2>1. {i \in DOMAIN roster' \ doomed' : Faces(roster')[i] = x} = {j \in DOMAIN left : Faces(roster)[left[j]] = x}
    BY <1>2, <1>4, <1>5 DEF Faces
  <2>2. Staying(x)' = Cardinality({i \in DOMAIN roster' \ doomed' : Faces(roster')[i] = x})
    BY DEF Staying, Alike
  <2>3. Staying(x) = Cardinality({i \in T : Faces(roster)[i] = x})
    BY DEF Staying, Alike, T
  <2> QED BY <1>3, <2>1, <2>2, <2>3
<1>9. PactOK(pact) => PactOK(pact)'
  BY <1>2, <1>8 DEF PactOK, Holds
<1> QED BY <1>2, <1>5, <1>6, <1>7, <1>9 DEF SnapshotsInv, Fits

LEMMA SceneCreateStep ==
  ASSUME SnapshotsAssumption, SnapshotsInv, NEW all \in BOOLEAN, SceneCreate(all)
  PROVE  SnapshotsInv'
<1> DEFINE n == Len(roster)
           f == Faces(roster)
           T == {i \in DOMAIN roster : Described(roster[i], all)}
           chosen == Sifted(Ids(n), T)
           live == {i \in DOMAIN roster : ~roster[i].destroyed}
           stay == DOMAIN roster \ doomed
           p == [stage |-> "taken", all |-> all, wiped |-> "no", was |-> f, live |-> live, stay |-> stay]
<1>1. n \in Nat /\ DOMAIN roster = 1..n /\ T \in SUBSET (1..n)
  BY SnapshotsAre
<1>2. /\ tableau' = [j \in DOMAIN chosen |-> Portrait(roster[chosen[j]])] /\ pact' = p
      /\ roster' = roster /\ doomed' = doomed
  BY <1>1 DEF SceneCreate, Faces, Ids
<1>3. f \in Seq(Portraits) /\ DOMAIN f = DOMAIN roster /\ \A i \in DOMAIN roster : f[i] = Portrait(roster[i])
  <2>1. f \in [1..n -> Portraits]
    BY <1>1, SnapshotsAre DEF Faces
  <2> QED BY <1>1, <2>1 DEF Faces
<1> HIDE DEF T, f, n
<1>21. n \in Nat
  BY <1>1
<1>22. T \in SUBSET (1..n)
  BY <1>1
<1>4. /\ chosen \in Seq(1..n) /\ ToSet(chosen) = T /\ Len(chosen) <= n
      /\ \A x : Picked(f, chosen, x) = Alike(f, T, x)
  BY <1>21, <1>22, SiftedPlaces
<1> HIDE DEF chosen
<1>5. DOMAIN chosen = 1..Len(chosen) /\ Len(chosen) \in Nat /\ \A j \in DOMAIN chosen : chosen[j] \in DOMAIN roster
  BY <1>1, <1>4, LenProperties
<1>6. tableau' \in Seq(Portraits) /\ Len(tableau') = Len(chosen) /\ DOMAIN tableau' = DOMAIN chosen
      /\ \A j \in DOMAIN chosen : tableau'[j] = f[chosen[j]]
  <2>1. tableau' \in [1..Len(chosen) -> Portraits] /\ \A j \in DOMAIN chosen : tableau'[j] = f[chosen[j]]
    BY <1>2, <1>3, <1>5, SnapshotsAre
  <2> QED BY <1>5, <2>1
<1>7. Fits(tableau')
  BY <1>1, <1>4, <1>5, <1>6, BoundsAre DEF Fits, SnapshotsInv, n
<1>8. /\ p \in PactRecords /\ p.stage = "taken" /\ p.was = f /\ p.live = live /\ p.stay = stay /\ p.all = all
  <2>1. live \in SUBSET Nat /\ stay \in SUBSET Nat
    BY <1>1
  <2> HIDE DEF live, stay
  <2> QED BY <1>3, <2>1 DEF PactRecords
<1>9. PactTyped(p)
  BY <1>3, <1>8 DEF PactTyped
<1>10. \A x : Alike(tableau', DOMAIN tableau', x) = Shown(p, x)
  <2> TAKE x
  <2>1. Alike(tableau', DOMAIN tableau', x) = Cardinality({j \in DOMAIN chosen : f[chosen[j]] = x})
    <3>1. {j \in DOMAIN tableau' : tableau'[j] = x} = {j \in DOMAIN chosen : f[chosen[j]] = x}
      BY <1>6
    <3> QED BY <3>1 DEF Alike
  <2>0. Picked(f, chosen, x) = Alike(f, T, x)
    BY <1>4
  <2>2. \A i \in T : i \in DOMAIN roster /\ ~roster[i].destroyed /\ (all \/ ~Persists(roster[i]))
    BY DEF T, Described
  <2>3. CASE all \/ "persistent" \notin x
    <3>1. {i \in T : f[i] = x} = {i \in live : f[i] = x}
      <4>1. \A i \in live : f[i] = x => i \in T
        BY <1>3, <2>3, SnapshotsAre DEF T, Described
      <4> QED BY <2>2, <4>1
    <3> HIDE DEF p, live
    <3> QED BY <1>8, <2>0, <2>1, <2>3, <3>1 DEF Shown, Alike, Picked
  <2>4. CASE ~(all \/ "persistent" \notin x)
    <3>1. {i \in T : f[i] = x} = {}
      BY <1>3, <2>2, <2>4, SnapshotsAre
    <3> HIDE DEF p, live
    <3>2. Shown(p, x) = 0
      BY <1>8, <2>4 DEF Shown
    <3> QED BY <2>0, <2>1, <3>1, <3>2, FS_EmptySet DEF Alike, Picked
  <2> QED BY <2>3, <2>4
<1>11. \A x : Staying(x)' = Alike(f, stay, x)
  BY <1>2 DEF Staying, f
<1> HIDE DEF p, live, stay
<1>12. PactOK(pact)'
  <2>1. pact' = p /\ pact'.stage = "taken" /\ pact'.was = f /\ pact'.stay = stay
    BY <1>2, <1>8
  <2> QED BY <1>9, <1>10, <1>11, <2>1 DEF PactOK, Holds, PactTyped, Shown, Alike
<1> QED BY <1>2, <1>6, <1>7, <1>12 DEF SnapshotsInv, Fits

LEMMA SceneWipeStep ==
  ASSUME SnapshotsAssumption, SnapshotsInv, NEW all \in BOOLEAN, SceneWipe(all)
  PROVE  SnapshotsInv'
<1> DEFINE p == [pact EXCEPT !.stage = "wiped", !.wiped = IF all THEN "reset" ELSE "clear"]
           gone == {i \in DOMAIN roster : all \/ ~Persists(roster[i])}
<1>1. /\ doomed' = doomed \cup gone /\ roster' = roster /\ tableau' = tableau
      /\ pact' = IF pact.stage = "taken" THEN p ELSE NoPact
  BY DEF SceneWipe
<1>2. CASE pact.stage = "taken"
  <2>1. PactOK(pact)
    BY <1>2 DEF SnapshotsInv, NoPact
  <2>2. /\ p \in PactRecords /\ p.stage = "wiped" /\ p.wiped = (IF all THEN "reset" ELSE "clear")
        /\ p.all = pact.all /\ p.was = pact.was /\ p.live = pact.live /\ p.stay = pact.stay
    BY <2>1 DEF PactRecords, PactOK, PactTyped
  <2> HIDE DEF p
  <2>3. PactTyped(p) /\ Holds(p)
    BY <1>2, <2>1, <2>2 DEF PactTyped, PactOK, Holds, Shown
  <2>4. ASSUME NEW x
        PROVE  Staying(x)' = Remaining(p, x)
    <3>1. Staying(x)' = Cardinality({i \in DOMAIN roster \ doomed' : Faces(roster)[i] = x})
      BY <1>1 DEF Staying, Alike
    <3>2. \A i \in DOMAIN roster : Faces(roster)[i] = x => (Persists(roster[i]) <=> "persistent" \in x)
      BY SnapshotsAre DEF Faces
    <3>3. CASE ~all /\ "persistent" \in x
      <4>1. {i \in DOMAIN roster \ doomed' : Faces(roster)[i] = x} = {i \in DOMAIN roster \ doomed : Faces(roster)[i] = x}
        BY <1>1, <3>2, <3>3
      <4>2. Staying(x) = Alike(pact.was, pact.stay, x)
        BY <1>2, <2>1 DEF PactOK
      <4> QED BY <2>2, <3>1, <3>3, <4>1, <4>2 DEF Staying, Remaining, Alike
    <3>4. CASE ~(~all /\ "persistent" \in x)
      <4>1. {i \in DOMAIN roster \ doomed' : Faces(roster)[i] = x} = {}
        BY <1>1, <3>2, <3>4
      <4>2. Remaining(p, x) = 0
        BY <2>2, <3>4 DEF Remaining
      <4> QED BY <3>1, <4>1, <4>2, FS_EmptySet
    <3> QED BY <3>3, <3>4
  <2>5. PactOK(pact)'
    <3>1. pact' = p /\ pact'.stage = "wiped"
      BY <1>1, <1>2, <2>2
    <3> QED BY <1>1, <2>3, <2>4, <3>1 DEF PactOK, Holds, PactTyped, Shown, Remaining, Alike
  <2> QED BY <1>1, <1>2, <2>5 DEF SnapshotsInv, Fits
<1>3. CASE pact.stage # "taken"
  BY <1>1, <1>3 DEF SnapshotsInv, Fits
<1> QED BY <1>2, <1>3

LEMMA SceneRunStep ==
  ASSUME SnapshotsAssumption, SnapshotsInv, SceneRun
  PROVE  SnapshotsInv'
<1> DEFINE n == Len(roster)
           m == Len(tableau)
           t == [i \in DOMAIN tableau |-> FromPortrait(tableau[i])]
           p == [pact EXCEPT !.stage = "run"]
<1>1. /\ roster' = roster \o t /\ n + m <= MaxRoster /\ doomed' = doomed /\ tableau' = tableau /\ tableau # <<>>
      /\ pact' = IF pact.stage = "wiped" THEN p ELSE NoPact
  BY DEF SceneRun
<1>2. n \in Nat /\ m \in Nat /\ DOMAIN roster = 1..n /\ DOMAIN tableau = 1..m
  BY SnapshotsAre
<1>3. \A i \in 1..m : /\ tableau[i] \in Portraits /\ FromPortrait(tableau[i]) \in RosterRecords
                      /\ Portrait(FromPortrait(tableau[i])) = tableau[i] /\ ~FromPortrait(tableau[i]).destroyed
  <2> TAKE i \in 1..m
  <2>1. tableau[i] \in Portraits
    BY <1>2, LenProperties DEF SnapshotsInv
  <2> QED BY <2>1 DEF Portraits, FromPortrait, RosterRecords, Portrait
<1>4. t \in Seq(RosterRecords) /\ Len(t) = m /\ \A i \in 1..m : t[i] = FromPortrait(tableau[i])
  <2>1. t \in [1..m -> RosterRecords] /\ \A i \in 1..m : t[i] = FromPortrait(tableau[i])
    BY <1>2, <1>3
  <2> HIDE DEF t
  <2> QED BY <1>2, <2>1
<1> HIDE DEF t, n, m
<1>5. /\ roster' \in Seq(RosterRecords) /\ Len(roster') = n + m
      /\ \A i \in 1..(n + m) : roster'[i] = IF i <= n THEN roster[i] ELSE t[i - n]
  BY <1>1, <1>4, Joined DEF SnapshotsInv, n
<1>6. DOMAIN roster' = 1..(n + m)
  BY <1>2, <1>5, LenProperties
<1>7. \A i \in 1..n : i \in 1..(n + m) /\ roster'[i] = roster[i]
  BY <1>2, <1>5
<1>8. \A i \in (n + 1)..(n + m) : i \in 1..(n + m) /\ i - n \in 1..m /\ roster'[i] = FromPortrait(tableau[i - n]) /\ i \notin 1..n
  <2> TAKE i \in (n + 1)..(n + m)
  <2>1. i \in 1..(n + m) /\ i - n \in 1..m /\ ~(i <= n) /\ i \notin 1..n
    BY <1>2
  <2> QED BY <1>4, <1>5, <2>1
<1>9. 1..(n + m) = (1..n) \cup ((n + 1)..(n + m))
  BY <1>2
<1>10. doomed' \subseteq DOMAIN roster' /\ \A i \in DOMAIN roster' : roster'[i].destroyed => i \in doomed'
  <2>1. doomed \subseteq 1..n /\ \A i \in 1..n : roster[i].destroyed => i \in doomed
    BY <1>2 DEF SnapshotsInv
  <2>2. \A i \in (n + 1)..(n + m) : ~roster'[i].destroyed
    BY <1>3, <1>8
  <2> QED BY <1>1, <1>6, <1>7, <1>9, <2>1, <2>2
<1>11. Fits(roster')
  BY <1>1, <1>2, <1>5, BoundsAre DEF Fits
<1>12. ASSUME NEW x
       PROVE  Staying(x)' = Staying(x) + Alike(tableau, DOMAIN tableau, x) /\ Staying(x) \in Nat /\ Alike(tableau, DOMAIN tableau, x) \in Nat
  <2> DEFINE A == {i \in (1..n) \ doomed : Faces(roster)[i] = x}
             B == {i \in 1..m : tableau[i] = x}
             C == MovedBy(n, m, B)
             D == {i \in DOMAIN roster' \ doomed' : Faces(roster')[i] = x}
  <2>1. D = A \cup C /\ A \cap C = {}
    <3>1. doomed \subseteq 1..n
      BY <1>2 DEF SnapshotsInv
    <3>2. \A i \in 1..n : Faces(roster')[i] = Faces(roster)[i]
      BY <1>2, <1>6, <1>7 DEF Faces
    <3>3. \A i \in (n + 1)..(n + m) : i \notin 1..n /\ i \in 1..(n + m) /\ i - n \in 1..m /\ Faces(roster')[i] = tableau[i - n]
      BY <1>3, <1>6, <1>8 DEF Faces
    <3> QED BY <1>1, <1>6, <1>9, <3>1, <3>2, <3>3 DEF MovedBy
  <2>2. IsFiniteSet(A) /\ IsFiniteSet(B) /\ B \in SUBSET (1..m)
    <3>1. IsFiniteSet(1..n) /\ IsFiniteSet(1..m)
      BY <1>2, FS_Interval
    <3> QED BY <3>1, FS_Subset
  <2> HIDE DEF A, B
  <2> HIDE DEF D
  <2>32. n \in Nat /\ m \in Nat
    BY <1>2
  <2>33. B \in SUBSET (1..m)
    BY <2>2
  <2>3. IsFiniteSet(C) /\ Cardinality(C) = Cardinality(B)
    BY <2>32, <2>33, MovedPlaces
  <2> HIDE DEF C
  <2>4. Cardinality(D) = Cardinality(A) + Cardinality(C) /\ Cardinality(A) \in Nat /\ Cardinality(B) \in Nat
    <3>1. Cardinality(A) \in Nat /\ Cardinality(B) \in Nat /\ Cardinality(C) \in Nat
      BY <2>2, <2>3, FS_CardinalityType
    <3>2. Cardinality(D) = Cardinality(A) + Cardinality(C) - Cardinality({})
      BY <2>1, <2>2, <2>3, FS_Union
    <3>3. Cardinality({}) = 0
      BY FS_EmptySet
    <3> QED BY <3>1, <3>2, <3>3
  <2>5. Staying(x)' = Cardinality(D)
    BY DEF Staying, Alike, D
  <2>6. Staying(x) = Cardinality(A)
    BY <1>2 DEF Staying, Alike, A
  <2>7. Alike(tableau, DOMAIN tableau, x) = Cardinality(B)
    BY <1>2 DEF Alike, B
  <2> QED BY <2>3, <2>4, <2>5, <2>6, <2>7
<1>13. CASE pact.stage = "wiped"
  <2>1. PactOK(pact)
    BY <1>13 DEF SnapshotsInv, NoPact
  <2>2. /\ p \in PactRecords /\ p.stage = "run" /\ p.wiped = pact.wiped
        /\ p.all = pact.all /\ p.was = pact.was /\ p.live = pact.live /\ p.stay = pact.stay
    BY <2>1 DEF PactRecords, PactOK, PactTyped
  <2> HIDE DEF p
  <2>3. PactTyped(p)
    BY <2>1, <2>2 DEF PactTyped, PactOK
  <2>4. ASSUME NEW x
        PROVE  Staying(x)' = Shown(p, x) + Remaining(p, x)
    <3>1. Alike(tableau, DOMAIN tableau, x) = Shown(pact, x) /\ Staying(x) = Remaining(pact, x)
      BY <1>1, <1>13, <2>1 DEF PactOK, Holds
    <3>2. Shown(pact, x) = Shown(p, x) /\ Remaining(pact, x) = Remaining(p, x)
      BY <2>2 DEF Shown, Remaining
    <3>3. Staying(x)' = Staying(x) + Alike(tableau, DOMAIN tableau, x) /\ Staying(x) \in Nat /\ Alike(tableau, DOMAIN tableau, x) \in Nat
      BY <1>12
    <3> QED BY <3>1, <3>2, <3>3
  <2>5. PactOK(pact)'
    <3>1. pact' = p /\ pact'.stage = "run"
      BY <1>1, <1>13, <2>2
    <3> QED BY <2>3, <2>4, <3>1 DEF PactOK, PactTyped, Shown, Remaining, Alike
  <2> QED BY <1>1, <1>5, <1>10, <1>11, <1>13, <2>5 DEF SnapshotsInv, Fits
<1>14. CASE pact.stage # "wiped"
  BY <1>1, <1>5, <1>10, <1>11, <1>14 DEF SnapshotsInv, Fits
<1> QED BY <1>13, <1>14

LEMMA SnapshotsStep == SnapshotsAssumption /\ SnapshotsInv /\ [SnapshotsNext]_snapshotsVars => SnapshotsInv'
<1> SUFFICES ASSUME SnapshotsAssumption, SnapshotsInv, [SnapshotsNext]_snapshotsVars
             PROVE  SnapshotsInv'
  OBVIOUS
<1>1. CASE SceneDrop
  <2>1. tableau' = <<>> /\ roster' = roster /\ doomed' = doomed /\ pact' = pact
    BY <1>1 DEF SceneDrop
  <2>2. tableau' \in Seq(Portraits) /\ Len(tableau') = 0
    BY <2>1, EmptySeq
  <2>3. Fits(tableau')
    BY <2>2, BoundsAre DEF Fits
  <2>4. \A x : Staying(x)' = Staying(x)
    BY <2>1 DEF Staying
  <2>5. PactOK(pact) => PactOK(pact)'
    BY <2>1, <2>4 DEF PactOK, Holds
  <2> QED BY <2>1, <2>2, <2>3, <2>5 DEF SnapshotsInv, Fits
<1>2. CASE UNCHANGED snapshotsVars
  <2>1. roster' = roster /\ doomed' = doomed /\ tableau' = tableau /\ pact' = pact
    BY <1>2 DEF snapshotsVars
  <2>2. \A x : Staying(x)' = Staying(x)
    BY <2>1 DEF Staying
  <2>3. PactOK(pact) => PactOK(pact)'
    BY <2>1, <2>2 DEF PactOK, Holds
  <2> QED BY <2>1, <2>3 DEF SnapshotsInv, Fits
<1> QED
  BY <1>1, <1>2, MakeExtraStep, DestroyExtraStep, EndOfFrameStep, SceneCreateStep, SceneWipeStep, SceneRunStep
     DEF SnapshotsNext

THEOREM SnapshotsInvariance == SnapshotsSpec => []SnapshotsInv
<1>1. SnapshotsInit => SnapshotsInv
  BY SnapshotsStart
<1>2. SnapshotsInv /\ [SnapshotsNext]_snapshotsVars => SnapshotsInv'
  BY SnapshotsStep, SnapshotsAssumption
<1> QED BY <1>1, <1>2, PTL DEF SnapshotsSpec

THEOREM SnapshotsTypeCorrect == SnapshotsSpec => []SnapshotsTypeOK
<1>1. SnapshotsInv => SnapshotsTypeOK
  <2> SUFFICES ASSUME SnapshotsInv
               PROVE  SnapshotsTypeOK
    OBVIOUS
  <2>1. pact.stage \in {"none", "taken", "wiped", "run"}
    <3>1. CASE pact = NoPact
      BY <3>1 DEF NoPact
    <3>2. CASE PactOK(pact)
      BY <3>2 DEF PactOK, PactTyped, PactRecords
    <3> QED BY <3>1, <3>2 DEF SnapshotsInv
  <2> QED BY <2>1 DEF SnapshotsInv, Fits, SnapshotsTypeOK
<1> QED BY <1>1, SnapshotsInvariance, PTL

(* A scene that is run puts up what it was taken of (ese_scene_run,         *)
(* engine_clear_entities): as often as before, as long as the calls that    *)
(* created it and cleared the engine treat what persists alike.             *)
THEOREM ScenesSwap == SnapshotsSpec => []SwapsExactly
<1>1. SnapshotsInv => SwapsExactly
  <2> SUFFICES ASSUME SnapshotsInv, pact.stage = "run", doomed = {}
               PROVE  LET now == [i \in DOMAIN roster |-> Portrait(roster[i])]
                          Before(x, who) == Cardinality({i \in who : pact.was[i] = x})
                      IN  \A x \in ToSet(now) \cup ToSet(pact.was) :
                            /\ "persistent" \notin x => Times(now, x) = Before(x, pact.live)
                            /\ "persistent" \in x /\ Matched =>
                                 Times(now, x) = Before(x, IF pact.all THEN pact.live ELSE pact.stay)
    BY DEF SwapsExactly
  <2> DEFINE now == [i \in DOMAIN roster |-> Portrait(roster[i])]
  <2>1. PactOK(pact)
    BY DEF SnapshotsInv, NoPact
  <2>2. \A x : Times(now, x) = Alike(Faces(roster), DOMAIN roster, x)
    BY DEF Times, Alike, Faces
  <2>3. DOMAIN roster \ doomed = DOMAIN roster
    OBVIOUS
  <2> HIDE DEF now
  <2>4. ASSUME NEW x
        PROVE  Times(now, x) = Shown(pact, x) + Remaining(pact, x)
    <3>1. Staying(x) = Shown(pact, x) + Remaining(pact, x)
      BY <2>1 DEF PactOK
    <3> QED BY <2>2, <2>3, <3>1 DEF Staying
  <2>5. ASSUME NEW x
        PROVE  Alike(pact.was, pact.live, x) \in Nat /\ Alike(pact.was, pact.stay, x) \in Nat
    <3>1. pact.was \in Seq(Portraits) /\ pact.live \subseteq DOMAIN pact.was /\ pact.stay \subseteq DOMAIN pact.was
      BY <2>1 DEF PactOK, PactTyped, PactRecords
    <3>2. DOMAIN pact.was = 1..Len(pact.was) /\ Len(pact.was) \in Nat
      BY <3>1, LenProperties
    <3> QED BY <3>1, <3>2, AlikeCounts
  <2>6. ASSUME NEW x
        PROVE  Shown(pact, x) + Remaining(pact, x)
                 = IF "persistent" \notin x THEN Alike(pact.was, pact.live, x)
                   ELSE (IF pact.all THEN Alike(pact.was, pact.live, x) ELSE 0)
                      + (IF pact.wiped = "clear" THEN Alike(pact.was, pact.stay, x) ELSE 0)
    BY <2>5 DEF Shown, Remaining
  <2>7. ASSUME NEW x, "persistent" \in x, Matched
        PROVE  Times(now, x) = Alike(pact.was, IF pact.all THEN pact.live ELSE pact.stay, x)
    <3>1. CASE pact.all
      BY <2>4, <2>5, <2>6, <2>7, <3>1 DEF Matched
    <3>2. CASE ~pact.all
      BY <2>4, <2>5, <2>6, <2>7, <3>2 DEF Matched
    <3> QED BY <3>1, <3>2
  <2> QED BY <2>4, <2>6, <2>7 DEF Alike, now
<1> QED BY <1>1, SnapshotsInvariance, PTL
-----------------------------------------------------------------------------
(* The linked list.                                                         *)
NodeLinks == [prev : ListNodes \cup {0}, next : ListNodes \cup {0}]
Chains == [head : ListNodes \cup {0}, tail : ListNodes \cup {0}, size : Nat]
Walkers == [on : BOOLEAN, current : ListNodes \cup {0}, astray : BOOLEAN, due : Seq(ListNodes)]

(* What the nodes of a list say of each other.                              *)
PrevIn(s, i) == IF i = 1 THEN 0 ELSE s[i - 1]
NextIn(s, i) == IF i = Len(s) THEN 0 ELSE s[i + 1]
FirstOf(s) == IF Len(s) = 0 THEN 0 ELSE s[1]
LastOf(s) == IF Len(s) = 0 THEN 0 ELSE s[Len(s)]

LinkedAs(s, l) ==
  /\ DOMAIN l = ToSet(s)
  /\ \A i \in 1..Len(s) : l[s[i]] \in NodeLinks /\ l[s[i]].prev = PrevIn(s, i) /\ l[s[i]].next = NextIn(s, i)

ChainedAs(s, c) ==
  c \in Chains /\ c.head = FirstOf(s) /\ c.tail = LastOf(s) /\ c.size = Len(s)

(* The last elements of a sequence.                                         *)
EndOf(d, s) ==
  Len(d) <= Len(s) /\ \A i \in 1..Len(d) : d[i] = s[Len(s) - Len(d) + i]

WalkerOK(w, s) ==
  /\ w \in Walkers /\ EndOf(w.due, s)
  /\ ~w.on => w.due = <<>>
  /\ w.on /\ ~w.astray => w.current = FirstOf(w.due)

ListInv ==
  /\ sequence \in Seq(ListNodes) /\ Once(sequence)
  /\ LinkedAs(sequence, links) /\ ChainedAs(sequence, chain) /\ WalkerOK(walker, sequence)

LEMMA ZeroIsNoNode == 0 \notin ListNodes
BY ListsAssumption DEF ListsAssumption

LEMMA ListStart == ListsInit => ListInv
<1> SUFFICES ASSUME ListsInit
             PROVE  ListInv
  OBVIOUS
<1>1. /\ chain = [head |-> 0, tail |-> 0, size |-> 0] /\ links = << >> /\ sequence = <<>> /\ walker = NoWalker
  BY DEF ListsInit
<1>2. /\ sequence \in Seq(ListNodes) /\ Len(sequence) = 0 /\ DOMAIN links = {} /\ ToSet(sequence) = {}
      /\ walker.due = <<>> /\ Len(walker.due) = 0
  BY <1>1, EmptySeq DEF ToSet, NoWalker
<1>3. chain \in Chains /\ walker \in Walkers /\ walker.on = FALSE
  BY <1>1, EmptySeq DEF Chains, Walkers, NoWalker
<1>4. chain.head = 0 /\ chain.tail = 0 /\ chain.size = 0
  BY <1>1
<1> QED BY <1>2, <1>3, <1>4 DEF ListInv, LinkedAs, ChainedAs, WalkerOK, EndOf, Once, FirstOf, LastOf

LEMMA ListIs ==
  ASSUME ListInv
  PROVE  /\ Len(sequence) \in Nat /\ DOMAIN sequence = 1..Len(sequence)
         /\ \A i \in 1..Len(sequence) : sequence[i] \in ListNodes /\ sequence[i] # 0
         /\ Linked = ToSet(sequence)
         /\ \A n \in Linked : \E i \in 1..Len(sequence) : n = sequence[i]
<1>1. Len(sequence) \in Nat /\ DOMAIN sequence = 1..Len(sequence) /\ \A i \in 1..Len(sequence) : sequence[i] \in ListNodes
  BY LenProperties DEF ListInv
<1> QED BY <1>1, ZeroIsNoNode DEF ListInv, LinkedAs, Linked, ToSet

LEMMA WalkerIs ==
  ASSUME ListInv
  PROVE  /\ walker \in Walkers /\ walker.due \in Seq(ListNodes) /\ EndOf(walker.due, sequence)
         /\ Len(walker.due) \in Nat /\ Len(walker.due) <= Len(sequence)
         /\ walker.on \in BOOLEAN /\ walker.astray \in BOOLEAN /\ walker.current \in ListNodes \cup {0}
<1>1. walker \in Walkers /\ EndOf(walker.due, sequence)
  BY DEF ListInv, WalkerOK
<1>2. walker.due \in Seq(ListNodes) /\ walker.on \in BOOLEAN /\ walker.astray \in BOOLEAN /\ walker.current \in ListNodes \cup {0}
  BY <1>1 DEF Walkers
<1> QED BY <1>1, <1>2, LenProperties DEF EndOf

LEMMA AppendStep ==
  ASSUME ListInv, NEW n \in ListNodes, AppendNode(n)
  PROVE  ListInv'
<1> DEFINE m == Len(sequence)
           s == sequence
           t == Append(sequence, n)
<1>1. /\ n \notin ToSet(s) /\ sequence' = t
      /\ links' = [k \in Linked \cup {n} |->
                 CASE k = n -> [prev |-> chain.tail, next |-> 0]
                   [] k = chain.tail -> [links[k] EXCEPT !.next = n]
                   [] OTHER -> links[k]]
      /\ chain' = [head |-> IF chain.tail = 0 THEN n ELSE chain.head, tail |-> n, size |-> chain.size + 1]
      /\ walker' = IF walker.due # <<>> THEN [walker EXCEPT !.due = Append(@, n)] ELSE walker
  BY ListIs DEF AppendNode
<1>2. m \in Nat /\ DOMAIN s = 1..m /\ (\A i \in 1..m : s[i] \in ListNodes /\ s[i] # 0) /\ Linked = ToSet(s) /\ n # 0
  BY ListIs, ZeroIsNoNode
<1>3. /\ t \in Seq(ListNodes) /\ Len(t) = m + 1 /\ t[m + 1] = n /\ (\A i \in 1..m : t[i] = s[i])
      /\ ToSet(t) = ToSet(s) \cup {n} /\ Once(t) /\ DOMAIN t = 1..(m + 1)
  <2>1. s \in Seq(ListNodes) /\ Once(s)
    BY DEF ListInv
  <2> QED BY <1>1, <2>1, AppendProperties, OnceAppended, ToSetAppended, LenProperties
<1>4. \A i, j \in 1..m : s[i] = s[j] => i = j
  BY DEF ListInv, Once
<1>5. \A i \in 1..m : s[i] \in ToSet(s) /\ s[i] # n
  BY <1>1, <1>2 DEF ToSet
<1>6. chain.tail = (IF m = 0 THEN 0 ELSE s[m]) /\ chain.head = (IF m = 0 THEN 0 ELSE s[1]) /\ chain.size = m
  BY DEF ListInv, ChainedAs, FirstOf, LastOf
<1> HIDE DEF t
<1>7. LinkedAs(t, links')
  <2>1. DOMAIN links' = ToSet(t)
    BY <1>1, <1>2, <1>3
  <2>2. ASSUME NEW i \in 1..(m + 1)
        PROVE  links'[t[i]] \in NodeLinks /\ links'[t[i]].prev = PrevIn(t, i) /\ links'[t[i]].next = NextIn(t, i)
    <3>1. CASE i = m + 1
      <4>1. t[i] = n
        BY <1>3, <3>1
      <4>2. links'[n] = [prev |-> chain.tail, next |-> 0]
        <5>1. n \in Linked \cup {n}
          OBVIOUS
        <5>2. chain.tail # n
          <6>1. m # 0 => m \in 1..m
            BY <1>2
          <6> QED BY <1>2, <1>5, <1>6, <6>1
        <5>3. links' = [k \in Linked \cup {n} |->
                 CASE k = n -> [prev |-> chain.tail, next |-> 0]
                   [] k = chain.tail -> [links[k] EXCEPT !.next = n]
                   [] OTHER -> links[k]]
          BY <1>1
        <5> QED BY <5>1, <5>2, <5>3
      <4>3. chain.tail \in ListNodes \cup {0} /\ PrevIn(t, i) = chain.tail
        <5>1. CASE m = 0
          BY <1>6, <3>1, <5>1 DEF PrevIn
        <5>2. CASE m # 0
          <6>1. m \in 1..m /\ (m + 1) - 1 = m /\ m + 1 # 1
            BY <1>2, <5>2
          <6> QED BY <1>2, <1>3, <1>6, <3>1, <5>2, <6>1 DEF PrevIn
        <5> QED BY <5>1, <5>2
      <4>4. NextIn(t, i) = 0
        BY <1>3, <3>1 DEF NextIn
      <4> QED BY <4>1, <4>2, <4>3, <4>4 DEF NodeLinks
    <3>2. CASE i # m + 1
      <4>1. i \in 1..m /\ t[i] = s[i] /\ s[i] # n /\ s[i] \in Linked
        BY <1>2, <1>3, <1>5, <3>2
      <4>2. links[s[i]] \in NodeLinks /\ links[s[i]].prev = PrevIn(s, i) /\ links[s[i]].next = NextIn(s, i)
        BY <4>1 DEF ListInv, LinkedAs
      <4>3. PrevIn(t, i) = PrevIn(s, i)
        <5>1. i # 1 => i - 1 \in 1..m
          BY <1>2, <4>1
        <5> QED BY <1>3, <5>1 DEF PrevIn
      <4>4. CASE i = m
        <5>1. chain.tail = s[i]
          BY <1>6, <4>1, <4>4
        <5>2. links'[s[i]] = [links[s[i]] EXCEPT !.next = n]
          BY <1>1, <4>1, <5>1
        <5>3. NextIn(t, i) = n
          <6>0. m \in Nat
            BY <1>2
          <6>1. m # m + 1
            BY <6>0
          <6> QED BY <1>3, <4>4, <6>1 DEF NextIn
        <5> QED BY <4>1, <4>2, <4>3, <5>2, <5>3 DEF NodeLinks
      <4>5. CASE i # m
        <5>1. chain.tail # s[i]
          <6>1. m # 0 /\ m \in 1..m
            BY <1>2, <4>1
          <6> QED BY <1>4, <1>6, <4>1, <4>5, <6>1
        <5>2. links'[s[i]] = links[s[i]]
          BY <1>1, <4>1, <5>1
        <5>3. NextIn(t, i) = NextIn(s, i)
          <6>2. m \in Nat /\ i \in 1..m
            BY <1>2, <4>1
          <6>1. i + 1 \in 1..m /\ i # m + 1
            BY <4>5, <6>2
          <6> QED BY <1>3, <4>5, <6>1 DEF NextIn
        <5> QED BY <4>1, <4>2, <4>3, <5>2, <5>3
      <4> QED BY <4>4, <4>5
    <3> QED BY <3>1, <3>2
  <2> QED BY <1>3, <2>1, <2>2 DEF LinkedAs
<1>8. ChainedAs(t, chain')
  <2>1. m + 1 # 0 /\ FirstOf(t) = t[1] /\ LastOf(t) = n
    BY <1>2, <1>3 DEF FirstOf, LastOf
  <2>2. t[1] = (IF m = 0 THEN n ELSE s[1])
    <3>1. m # 0 => 1 \in 1..m
      BY <1>2
    <3> QED BY <1>3, <3>1
  <2>3. chain.tail = 0 <=> m = 0
    <3>1. m # 0 => m \in 1..m
      BY <1>2
    <3> QED BY <1>2, <1>6, <3>1
  <2> DEFINE h == IF chain.tail = 0 THEN n ELSE chain.head
  <2>4. h = t[1]
    BY <1>6, <2>2, <2>3
  <2>5. t[1] \in ListNodes
    BY <1>2, <1>3
  <2>6. chain' = [head |-> h, tail |-> n, size |-> m + 1]
    BY <1>1, <1>6
  <2> HIDE DEF h
  <2> QED BY <1>2, <1>3, <2>1, <2>4, <2>5, <2>6 DEF ChainedAs, Chains
<1>9. WalkerOK(walker', t)
  <2> DEFINE d == walker.due
             c == Len(d)
             e == Append(d, n)
  <2>1. walker \in Walkers /\ d \in Seq(ListNodes) /\ c \in Nat /\ c <= m /\ \A i \in 1..c : d[i] = s[m - c + i]
    BY WalkerIs DEF EndOf
  <2>2. CASE d = <<>>
    <3>1. walker' = walker /\ c = 0
      BY <1>1, <2>2
    <3>2. EndOf(d, t)
      BY <1>2, <1>3, <3>1 DEF EndOf
    <3> QED BY <3>1, <3>2 DEF WalkerOK, ListInv
  <2>3. CASE d # <<>>
    <3>1. walker' = [walker EXCEPT !.due = e]
      BY <1>1, <2>3
    <3>2. e \in Seq(ListNodes) /\ Len(e) = c + 1 /\ e[c + 1] = n /\ (\A i \in 1..c : e[i] = d[i]) /\ c # 0
      BY <2>1, <2>3, AppendProperties, EmptySeq
    <3> HIDE DEF e, d
    <3>3. /\ walker' \in Walkers /\ walker'.due = e /\ walker'.on = walker.on /\ walker'.astray = walker.astray
          /\ walker'.current = walker.current
      BY <2>1, <3>1, <3>2 DEF Walkers
    <3>4. EndOf(e, t)
      <4>1. ASSUME NEW i \in 1..(c + 1)
            PROVE  e[i] = t[(m + 1) - (c + 1) + i]
        <5>1. CASE i = c + 1
          <6>1. (m + 1) - (c + 1) + i = m + 1
            BY <1>2, <2>1, <5>1
          <6> QED BY <1>3, <3>2, <5>1, <6>1
        <5>2. CASE i # c + 1
          <6>1. i \in 1..c /\ (m + 1) - (c + 1) + i = m - c + i /\ m - c + i \in 1..m
            BY <1>2, <2>1, <5>2
          <6> QED BY <1>3, <2>1, <3>2, <6>1
        <5> QED BY <5>1, <5>2
      <4> QED BY <1>2, <1>3, <2>1, <3>2, <4>1 DEF EndOf
    <3>5. FirstOf(e) = FirstOf(d)
      <4>1. 1 \in 1..c /\ c + 1 # 0
        BY <2>1, <3>2
      <4> QED BY <3>2, <4>1 DEF FirstOf
    <3>6. walker.on /\ (~walker.astray => walker.current = FirstOf(d))
      BY <2>3 DEF WalkerOK, ListInv, d
    <3> QED BY <3>3, <3>4, <3>5, <3>6 DEF WalkerOK
  <2> QED BY <2>2, <2>3
<1> QED BY <1>1, <1>3, <1>7, <1>8, <1>9 DEF ListInv

(* A sequence without one of its elements, and its end without it.          *)
LEMMA EndWithout ==
  ASSUME NEW X, NEW s \in Seq(X), Once(s), NEW k \in 1..Len(s), NEW d \in Seq(X), EndOf(d, s)
  PROVE  LET e == Sifted(d, X \ {s[k]})
         IN  /\ e \in Seq(X) /\ EndOf(e, RemoveAt(s, k))
             /\ d = <<>> => e = <<>>
             /\ FirstOf(d) # s[k] => FirstOf(e) = FirstOf(d)
<1> DEFINE e == Sifted(d, X \ {s[k]})
           m == Len(s)
           c == Len(d)
           r == RemoveAt(s, k)
<1>1. m \in Nat /\ c \in Nat /\ c <= m /\ (\A i \in 1..c : d[i] = s[m - c + i]) /\ \A i \in 1..m : s[i] \in X
  BY LenProperties DEF EndOf
<1>2. \A i, j \in 1..m : s[i] = s[j] => i = j
  BY DEF Once
<1>3. r \in Seq(X) /\ Len(r) = m - 1 /\ \A i \in 1..(m - 1) : r[i] = s[IF i < k THEN i ELSE i + 1]
  BY RemovedIs
<1> HIDE DEF r
<1>4. CASE k <= m - c
  <2>1. ASSUME NEW i \in 1..c
        PROVE  d[i] # s[k] /\ d[i] \in X
    <3>1. m - c + i \in 1..m /\ m - c + i # k
      BY <1>1, <1>4
    <3> QED BY <1>1, <1>2, <3>1
  <2>2. ToSet(d) \subseteq X \ {s[k]}
    <3>1. DOMAIN d = 1..c
      BY LenProperties
    <3> QED BY <2>1, <3>1 DEF ToSet
  <2>3. e = d
    <3> DEFINE S == X \ {s[k]}
    <3> HIDE DEF S
    <3>1. Sifted(d, S) = d
      BY <2>2, SiftedAll DEF S
    <3> QED BY <3>1 DEF S
  <2>4. EndOf(d, r)
    <3>1. c <= m - 1
      BY <1>1, <1>4
    <3>2. ASSUME NEW i \in 1..c
          PROVE  d[i] = r[(m - 1) - c + i]
      <4>1. (m - 1) - c + i \in 1..(m - 1) /\ ~((m - 1) - c + i < k) /\ ((m - 1) - c + i) + 1 = m - c + i
        BY <1>1, <1>4
      <4> QED BY <1>1, <1>3, <4>1
    <3> QED BY <1>3, <3>1, <3>2 DEF EndOf
  <2> HIDE DEF e
  <2> QED BY <2>3, <2>4 DEF e, r
<1>5. CASE ~(k <= m - c)
  <2> DEFINE h == k - (m - c)
  <2>1. h \in 1..c /\ d[h] = s[k] /\ (m - c) + h = k /\ m - c \in Nat
    <3>1. h \in 1..c /\ m - c + h = k /\ m - c \in Nat
      BY <1>1, <1>5
    <3> QED BY <1>1, <3>1
  <2> HIDE DEF h
  <2>2. Once(d)
    <3>1. ASSUME NEW i \in 1..c, NEW j \in 1..c, d[i] = d[j]
          PROVE  i = j
      <4>1. m - c + i \in 1..m /\ m - c + j \in 1..m
        BY <1>1
      <4>2. m - c + i = m - c + j
        BY <1>1, <1>2, <3>1, <4>1
      <4> QED BY <1>1, <4>2
    <3> QED BY <3>1 DEF Once
  <2>3. e = RemoveAt(d, h)
    <3>1. Sifted(d, X \ {d[h]}) = RemoveAt(d, h)
      BY <2>1, <2>2, SiftedOne
    <3> QED BY <2>1, <3>1
  <2>4. e \in Seq(X) /\ Len(e) = c - 1 /\ \A i \in 1..(c - 1) : e[i] = d[IF i < h THEN i ELSE i + 1]
    BY <2>1, <2>3, RemovedIs
  <2> HIDE DEF e
  <2>5. EndOf(e, r)
    <3>1. c - 1 <= m - 1 /\ (m - 1) - (c - 1) = m - c
      BY <1>1
    <3>2. ASSUME NEW i \in 1..(c - 1)
          PROVE  e[i] = r[(m - c) + i]
      <4>1. (m - c) + i \in 1..(m - 1) /\ ((m - c) + i < k <=> i < h)
        BY <1>1, <2>1
      <4>2. CASE i < h
        <5>1. i \in 1..c
          BY <1>1
        <5> QED BY <1>1, <1>3, <2>4, <4>1, <4>2, <5>1
      <4>3. CASE ~(i < h)
        <5>1. i + 1 \in 1..c /\ ((m - c) + i) + 1 = m - c + (i + 1)
          BY <1>1
        <5> QED BY <1>1, <1>3, <2>4, <4>1, <4>3, <5>1
      <4> QED BY <4>2, <4>3
    <3> QED BY <1>3, <2>4, <3>1, <3>2 DEF EndOf
  <2>6. d # <<>>
    BY <1>1, <2>1
  <2>7. ASSUME FirstOf(d) # s[k]
        PROVE  FirstOf(e) = FirstOf(d)
    <3>1. c # 0 /\ FirstOf(d) = d[1]
      BY <1>1, <2>1 DEF FirstOf
    <3>2. h # 1
      BY <2>1, <2>7, <3>1
    <3>3. c - 1 # 0 /\ 1 \in 1..(c - 1) /\ 1 < h
      BY <1>1, <2>1, <3>2
    <3> QED BY <2>4, <3>1, <3>3 DEF FirstOf
  <2> QED BY <2>4, <2>5, <2>6, <2>7 DEF e, r
<1> QED BY <1>4, <1>5

(* A node is taken out: the others are linked as before, but for its two    *)
(* neighbours, which are linked to each other.                              *)
LEMMA WithoutStep ==
  ASSUME ListInv, NEW k \in 1..Len(sequence), WithoutNode(sequence[k]),
         LinkedAs(RemoveAt(sequence, k), links'), ChainedAs(RemoveAt(sequence, k), chain')
  PROVE  ListInv'
<1> DEFINE s == sequence
           n == s[k]
           r == RemoveAt(s, k)
           d == walker.due
           e == Sifted(d, ListNodes \ {n})
           a == walker.astray \/ (walker.on /\ walker.current = n)
<1>1. s \in Seq(ListNodes) /\ Once(s)
  BY DEF ListInv
<1>2. r \in Seq(ListNodes) /\ Once(r)
  BY <1>1, OnceWithout
<1>3. sequence' = r
  <2>1. Sifted(s, ListNodes \ {n}) = r
    BY <1>1, SiftedOne
  <2> QED BY <2>1 DEF WithoutNode
<1>4. d \in Seq(ListNodes) /\ EndOf(d, s) /\ walker \in Walkers /\ walker.on \in BOOLEAN /\ walker.astray \in BOOLEAN
      /\ walker.current \in ListNodes \cup {0}
  BY WalkerIs
<1>5. /\ e \in Seq(ListNodes) /\ EndOf(e, r) /\ (d = <<>> => e = <<>>)
      /\ FirstOf(d) # n => FirstOf(e) = FirstOf(d)
  <2> HIDE DEF d
  <2>1. d \in Seq(ListNodes)
    BY <1>4
  <2>2. EndOf(d, s)
    BY <1>4
  <2> QED BY <1>1, <2>1, <2>2, EndWithout
<1>6. walker' = [walker EXCEPT !.due = e, !.astray = a] /\ a \in BOOLEAN
  BY <1>4 DEF WithoutNode
<1> HIDE DEF e, a
<1>7. /\ walker' \in Walkers /\ walker'.due = e /\ walker'.astray = a /\ walker'.on = walker.on
      /\ walker'.current = walker.current
  BY <1>4, <1>5, <1>6 DEF Walkers
<1>8. WalkerOK(walker', r)
  <2>1. ~walker.on => d = <<>>
    BY DEF ListInv, WalkerOK
  <2>2. ASSUME walker.on, ~a
        PROVE  walker.current = FirstOf(e)
    <3>1. ~walker.astray /\ walker.current # n
      BY <2>2 DEF a
    <3>2. walker.current = FirstOf(d)
      BY <2>2, <3>1 DEF ListInv, WalkerOK
    <3> QED BY <1>5, <3>1, <3>2
  <2> QED BY <1>5, <1>7, <2>1, <2>2 DEF WalkerOK
<1> QED BY <1>2, <1>3, <1>8 DEF ListInv

LEMMA ListWithout ==
  ASSUME NEW s \in Seq(ListNodes), Once(s), NEW k \in 1..Len(s), NEW l, NEW c \in Chains,
         DOMAIN l = ToSet(s) \ {s[k]},
         \A i \in 1..Len(s) : i # k => l[s[i]] \in NodeLinks,
         \A i \in 1..Len(s) : i # k => l[s[i]].prev = IF i = k + 1 THEN PrevIn(s, k) ELSE PrevIn(s, i),
         \A i \in 1..Len(s) : i # k => l[s[i]].next = IF i = k - 1 THEN NextIn(s, k) ELSE NextIn(s, i),
         c.head = IF k = 1 THEN NextIn(s, k) ELSE s[1],
         c.tail = IF k = Len(s) THEN PrevIn(s, k) ELSE s[Len(s)],
         c.size = Len(s) - 1
  PROVE  LinkedAs(RemoveAt(s, k), l) /\ ChainedAs(RemoveAt(s, k), c)
<1> DEFINE r == RemoveAt(s, k)
           m == Len(s)
           At(i) == IF i < k THEN i ELSE i + 1
<1>1. m \in Nat /\ k \in 1..m /\ \A i \in 1..m : s[i] \in ListNodes
  BY LenProperties
<1>2. r \in Seq(ListNodes) /\ Len(r) = m - 1 /\ (\A i \in 1..(m - 1) : r[i] = s[At(i)])
  BY RemovedIs
<1>3. ToSet(r) = ToSet(s) \ {s[k]}
  BY OnceWithout
<1> HIDE DEF r, m
<1>4. ASSUME NEW i \in 1..(m - 1)
      PROVE  l[r[i]] \in NodeLinks /\ l[r[i]].prev = PrevIn(r, i) /\ l[r[i]].next = NextIn(r, i)
  <2>1. At(i) \in 1..m /\ At(i) # k /\ m \in Nat /\ m - 1 \in Nat
    BY <1>1
  <2>2. r[i] = s[At(i)]
    BY <1>2
  <2>3. /\ l[s[At(i)]] \in NodeLinks
        /\ l[s[At(i)]].prev = IF At(i) = k + 1 THEN PrevIn(s, k) ELSE PrevIn(s, At(i))
        /\ l[s[At(i)]].next = IF At(i) = k - 1 THEN NextIn(s, k) ELSE NextIn(s, At(i))
    <3> HIDE DEF At
    <3> QED BY <2>1 DEF m
  <2>4. (IF At(i) = k + 1 THEN PrevIn(s, k) ELSE PrevIn(s, At(i))) = PrevIn(r, i)
    <3>1. CASE i = k
      <4>1. At(i) = k + 1
        BY <1>1, <3>1
      <4>2. CASE k = 1
        BY <3>1, <4>1, <4>2 DEF PrevIn
      <4>3. CASE k # 1
        <5>1. k - 1 \in 1..(m - 1) /\ k - 1 < k
          BY <1>1, <3>1, <4>3
        <5>2. r[k - 1] = s[k - 1]
          BY <1>2, <5>1
        <5> QED BY <3>1, <4>1, <4>3, <5>2 DEF PrevIn
      <4> QED BY <4>2, <4>3
    <3>2. CASE i < k
      <4>1. At(i) = i /\ i # k + 1
        BY <1>1, <3>2
      <4>2. CASE i = 1
        BY <4>1, <4>2 DEF PrevIn
      <4>3. CASE i # 1
        <5>1. i - 1 \in 1..(m - 1) /\ i - 1 < k
          BY <1>1, <3>2, <4>3
        <5>2. r[i - 1] = s[i - 1]
          BY <1>2, <5>1
        <5> QED BY <4>1, <4>3, <5>2 DEF PrevIn
      <4> QED BY <4>2, <4>3
    <3>3. CASE i > k
      <4>1. At(i) = i + 1 /\ i + 1 # k + 1 /\ i # 1 /\ i + 1 # 1 /\ (i + 1) - 1 = i
        BY <1>1, <3>3
      <4>2. i - 1 \in 1..(m - 1) /\ ~(i - 1 < k) /\ (i - 1) + 1 = i
        BY <1>1, <3>3
      <4>3. r[i - 1] = s[i]
        BY <1>2, <4>2
      <4> QED BY <4>1, <4>3 DEF PrevIn
    <3>4. i = k \/ i < k \/ i > k
      BY <1>1
    <3> QED BY <3>1, <3>2, <3>3, <3>4
  <2>5. (IF At(i) = k - 1 THEN NextIn(s, k) ELSE NextIn(s, At(i))) = NextIn(r, i)
    <3>1. CASE i = k - 1
      <4>1. At(i) = k - 1
        BY <1>1, <3>1
      <4>2. CASE k = m
        <5>1. i = m - 1
          BY <3>1, <4>2
        <5> QED BY <1>2, <3>1, <4>1, <4>2, <5>1 DEF NextIn, m
      <4>3. CASE k # m
        <5>1. i + 1 \in 1..(m - 1) /\ ~(i + 1 < k) /\ (i + 1) + 1 = k + 1 /\ i # m - 1
          BY <1>1, <3>1, <4>3
        <5>2. r[i + 1] = s[k + 1]
          BY <1>2, <5>1
        <5> QED BY <1>2, <3>1, <4>1, <4>3, <5>1, <5>2 DEF NextIn, m
      <4> QED BY <4>2, <4>3
    <3>2. CASE i < k - 1
      <4>1. At(i) = i /\ i # k - 1 /\ i # m /\ i # m - 1
        BY <1>1, <3>2
      <4>2. i + 1 \in 1..(m - 1) /\ i + 1 < k
        BY <1>1, <3>2
      <4>3. r[i + 1] = s[i + 1]
        BY <1>2, <4>2
      <4> QED BY <1>2, <4>1, <4>3 DEF NextIn, m
    <3>3. CASE i >= k
      <4>1. At(i) = i + 1 /\ i + 1 # k - 1
        BY <1>1, <3>3
      <4>2. CASE i = m - 1
        <5>1. i + 1 = m
          BY <2>1, <4>2
        <5> QED BY <1>2, <4>1, <4>2, <5>1 DEF NextIn, m
      <4>3. CASE i # m - 1
        <5>1. i + 1 # m /\ i + 1 \in 1..(m - 1) /\ ~(i + 1 < k)
          BY <1>1, <3>3, <4>3
        <5>2. r[i + 1] = s[(i + 1) + 1]
          BY <1>2, <5>1
        <5> QED BY <1>2, <4>1, <4>3, <5>1, <5>2 DEF NextIn, m
      <4> QED BY <4>2, <4>3
    <3>4. i = k - 1 \/ i < k - 1 \/ i >= k
      BY <1>1
    <3> QED BY <3>1, <3>2, <3>3, <3>4
  <2> QED BY <2>2, <2>3, <2>4, <2>5
<1>5. LinkedAs(r, l)
  BY <1>2, <1>3, <1>4 DEF LinkedAs
<1>6. ChainedAs(r, c)
  <2>1. CASE m = 1
    <3>1. k = 1 /\ k = m /\ Len(r) = 0 /\ m - 1 = 0
      BY <1>1, <1>2, <2>1
    <3>2. c.head = 0 /\ c.tail = 0 /\ c.size = 0
      BY <3>1 DEF NextIn, PrevIn, m
    <3> QED BY <3>1, <3>2 DEF ChainedAs, FirstOf, LastOf
  <2>2. CASE m # 1
    <3>1. m - 1 # 0 /\ 1 \in 1..(m - 1) /\ m - 1 \in 1..(m - 1) /\ (m - 1) + 1 = m /\ 1 + 1 = 2
      BY <1>1, <2>2
    <3>2. FirstOf(r) = r[1] /\ LastOf(r) = r[m - 1] /\ Len(r) = m - 1
      BY <1>2, <3>1 DEF FirstOf, LastOf
    <3>3. r[1] = s[At(1)] /\ r[m - 1] = s[At(m - 1)]
      BY <1>2, <3>1
    <3>4. c.head = s[At(1)]
      <4>1. CASE k = 1
        <5>1. ~(1 < k) /\ At(1) = 2 /\ k # m /\ k + 1 = 2
          BY <2>2, <4>1
        <5> QED BY <4>1, <5>1 DEF NextIn, m
      <4>2. CASE k # 1
        <5>1. 1 < k
          BY <1>1, <4>2
        <5> QED BY <4>2, <5>1
      <4> QED BY <4>1, <4>2
    <3>5. c.tail = s[At(m - 1)]
      <4>1. CASE k = m
        <5>1. m - 1 < k /\ k # 1
          BY <1>1, <2>2, <4>1
        <5> QED BY <4>1, <5>1 DEF PrevIn, m
      <4>2. CASE k # m
        <5>1. ~(m - 1 < k)
          BY <1>1, <4>2
        <5> QED BY <3>1, <4>2, <5>1 DEF m
      <4> QED BY <4>1, <4>2
    <3> QED BY <3>2, <3>3, <3>4, <3>5 DEF ChainedAs, m
  <2> QED BY <2>1, <2>2
<1> QED BY <1>5, <1>6 DEF r

LEMMA NodeAt ==
  ASSUME ListInv, NEW k \in 1..Len(sequence)
  PROVE  /\ links[sequence[k]] \in NodeLinks
         /\ links[sequence[k]].prev = PrevIn(sequence, k) /\ links[sequence[k]].next = NextIn(sequence, k)
         /\ PrevIn(sequence, k) \in ListNodes \cup {0} /\ NextIn(sequence, k) \in ListNodes \cup {0}
         /\ \A i \in 1..Len(sequence) : sequence[i] = PrevIn(sequence, k) <=> i = k - 1
         /\ \A i \in 1..Len(sequence) : sequence[i] = NextIn(sequence, k) <=> i = k + 1
         /\ PrevIn(sequence, k) = 0 <=> k = 1
         /\ NextIn(sequence, k) = 0 <=> k = Len(sequence)
<1> DEFINE s == sequence
           m == Len(s)
<1>1. m \in Nat /\ (\A i \in 1..m : s[i] \in ListNodes /\ s[i] # 0) /\ \A i, j \in 1..m : s[i] = s[j] => i = j
  BY ListIs DEF ListInv, Once
<1>2. links[s[k]] \in NodeLinks /\ links[s[k]].prev = PrevIn(s, k) /\ links[s[k]].next = NextIn(s, k)
  BY DEF ListInv, LinkedAs
<1>3. /\ PrevIn(s, k) \in ListNodes \cup {0} /\ (PrevIn(s, k) = 0 <=> k = 1)
      /\ \A i \in 1..m : s[i] = PrevIn(s, k) <=> i = k - 1
  <2>1. CASE k = 1
    <3>1. \A i \in 1..m : i # k - 1
      BY <2>1
    <3> QED BY <1>1, <2>1, <3>1 DEF PrevIn
  <2>2. CASE k # 1
    <3>1. k - 1 \in 1..m
      BY <1>1, <2>2
    <3> QED BY <1>1, <2>2, <3>1 DEF PrevIn
  <2> QED BY <2>1, <2>2
<1>4. /\ NextIn(s, k) \in ListNodes \cup {0} /\ (NextIn(s, k) = 0 <=> k = m)
      /\ \A i \in 1..m : s[i] = NextIn(s, k) <=> i = k + 1
  <2>1. CASE k = m
    <3>1. \A i \in 1..m : i # k + 1
      BY <1>1, <2>1
    <3> QED BY <1>1, <2>1, <3>1 DEF NextIn
  <2>2. CASE k # m
    <3>1. k + 1 \in 1..m
      BY <1>1, <2>2
    <3> QED BY <1>1, <2>2, <3>1 DEF NextIn
  <2> QED BY <2>1, <2>2
<1> QED BY <1>2, <1>3, <1>4

LEMMA RemoveNodeStep ==
  ASSUME ListInv, NEW n \in ListNodes, RemoveNode(n)
  PROVE  ListInv'
<1> DEFINE s == sequence
           m == Len(s)
           before == links[n].prev
           behind == links[n].next
<1>1. PICK k \in 1..m : n = s[k]
  BY ListIs DEF RemoveNode
<1>2. /\ links' = [p \in Linked \ {n} |-> [prev |-> IF p = behind THEN before ELSE links[p].prev,
                                          next |-> IF p = before THEN behind ELSE links[p].next]]
      /\ chain' = [head |-> IF before = 0 THEN behind ELSE chain.head,
                   tail |-> IF behind = 0 THEN before ELSE chain.tail, size |-> chain.size - 1]
      /\ WithoutNode(n)
  BY DEF RemoveNode
<1>3. /\ before = PrevIn(s, k) /\ behind = NextIn(s, k)
      /\ before \in ListNodes \cup {0} /\ behind \in ListNodes \cup {0}
      /\ (\A i \in 1..m : s[i] = before <=> i = k - 1) /\ (\A i \in 1..m : s[i] = behind <=> i = k + 1)
      /\ (before = 0 <=> k = 1) /\ (behind = 0 <=> k = m)
  BY <1>1, NodeAt
<1> HIDE DEF before, behind
<1>4. m \in Nat /\ Linked = ToSet(s) /\ DOMAIN s = 1..m /\ (\A i \in 1..m : s[i] \in ListNodes)
      /\ \A i, j \in 1..m : s[i] = s[j] => i = j
  BY ListIs DEF ListInv, Once
<1>5. m # 0 /\ chain.head = s[1] /\ chain.tail = s[m] /\ chain.size = m
  <2>1. m # 0
    BY <1>1, <1>4
  <2> QED BY <2>1 DEF ListInv, ChainedAs, FirstOf, LastOf
<1>6. ASSUME NEW i \in 1..m, i # k
      PROVE  /\ links'[s[i]] \in NodeLinks
             /\ links'[s[i]].prev = IF i = k + 1 THEN PrevIn(s, k) ELSE PrevIn(s, i)
             /\ links'[s[i]].next = IF i = k - 1 THEN NextIn(s, k) ELSE NextIn(s, i)
  <2>1. s[i] \in Linked \ {n}
    BY <1>1, <1>4, <1>6 DEF ToSet
  <2>2. links'[s[i]] = [prev |-> IF s[i] = behind THEN before ELSE links[s[i]].prev,
                        next |-> IF s[i] = before THEN behind ELSE links[s[i]].next]
    BY <1>2, <2>1
  <2>3. /\ links[s[i]].prev = PrevIn(s, i) /\ links[s[i]].next = NextIn(s, i)
        /\ PrevIn(s, i) \in ListNodes \cup {0} /\ NextIn(s, i) \in ListNodes \cup {0}
    BY NodeAt
  <2> DEFINE a == IF i = k + 1 THEN before ELSE PrevIn(s, i)
             b == IF i = k - 1 THEN behind ELSE NextIn(s, i)
  <2>4. links'[s[i]] = [prev |-> a, next |-> b]
    BY <1>3, <2>2, <2>3
  <2>5. a \in ListNodes \cup {0} /\ b \in ListNodes \cup {0}
    BY <1>3, <2>3
  <2>6. a = (IF i = k + 1 THEN PrevIn(s, k) ELSE PrevIn(s, i)) /\ b = (IF i = k - 1 THEN NextIn(s, k) ELSE NextIn(s, i))
    BY <1>3
  <2> HIDE DEF a, b
  <2> QED BY <2>4, <2>5, <2>6 DEF NodeLinks
<1>7. DOMAIN links' = ToSet(s) \ {s[k]}
  BY <1>1, <1>2, <1>4
<1>8. chain' \in Chains /\ chain'.head = (IF k = 1 THEN NextIn(s, k) ELSE s[1])
      /\ chain'.tail = (IF k = m THEN PrevIn(s, k) ELSE s[m]) /\ chain'.size = m - 1
  <2> DEFINE h == IF before = 0 THEN behind ELSE chain.head
             t == IF behind = 0 THEN before ELSE chain.tail
  <2>1. chain' = [head |-> h, tail |-> t, size |-> m - 1]
    BY <1>2, <1>5
  <2>2. 1 \in 1..m /\ m \in 1..m /\ m - 1 \in Nat
    BY <1>4, <1>5
  <2>3. h = (IF k = 1 THEN NextIn(s, k) ELSE s[1]) /\ t = (IF k = m THEN PrevIn(s, k) ELSE s[m])
    BY <1>3, <1>5
  <2>4. h \in ListNodes \cup {0} /\ t \in ListNodes \cup {0}
    BY <1>3, <1>4, <1>5, <2>2
  <2> HIDE DEF h, t
  <2> QED BY <2>1, <2>2, <2>3, <2>4 DEF Chains
<1>9. s \in Seq(ListNodes) /\ Once(s)
  BY DEF ListInv
<1>10. LinkedAs(RemoveAt(s, k), links') /\ ChainedAs(RemoveAt(s, k), chain')
  <2> HIDE DEF s
  <2>1. \A i \in 1..Len(s) : i # k => links'[s[i]] \in NodeLinks
    BY <1>6
  <2>2. \A i \in 1..Len(s) : i # k => links'[s[i]].prev = IF i = k + 1 THEN PrevIn(s, k) ELSE PrevIn(s, i)
    BY <1>6
  <2>3. \A i \in 1..Len(s) : i # k => links'[s[i]].next = IF i = k - 1 THEN NextIn(s, k) ELSE NextIn(s, i)
    BY <1>6
  <2>4. chain' \in Chains
    BY <1>8
  <2>5. chain'.head = IF k = 1 THEN NextIn(s, k) ELSE s[1]
    BY <1>8
  <2>6. chain'.tail = IF k = Len(s) THEN PrevIn(s, k) ELSE s[Len(s)]
    BY <1>8
  <2>7. chain'.size = Len(s) - 1
    BY <1>8
  <2>8. s \in Seq(ListNodes)
    BY <1>9
  <2>9. Once(s)
    BY <1>9
  <2> QED BY <1>7, <2>1, <2>2, <2>3, <2>4, <2>5, <2>6, <2>7, <2>8, <2>9, ListWithout
<1> QED BY <1>1, <1>2, <1>10, WithoutStep

LEMMA PopFrontStep ==
  ASSUME ListInv, PopFront
  PROVE  ListInv'
<1> DEFINE s == sequence
           m == Len(s)
           n == chain.head
           second == links[n].next
<1>4. m \in Nat /\ Linked = ToSet(s) /\ DOMAIN s = 1..m /\ (\A i \in 1..m : s[i] \in ListNodes /\ s[i] # 0)
      /\ \A i, j \in 1..m : s[i] = s[j] => i = j
  BY ListIs DEF ListInv, Once
<1>5. m # 0 /\ n = s[1] /\ chain.tail = s[m] /\ chain.size = m /\ 1 \in 1..m /\ m \in 1..m
  <2>1. m # 0
    BY DEF ListInv, ChainedAs, FirstOf, PopFront
  <2>2. n = s[1] /\ chain.tail = s[m] /\ chain.size = m
    BY <2>1 DEF ListInv, ChainedAs, FirstOf, LastOf
  <2> QED BY <1>4, <2>1, <2>2
<1>2. /\ links' = [p \in Linked \ {n} |-> IF p = second THEN [links[p] EXCEPT !.prev = 0] ELSE links[p]]
      /\ chain' = [head |-> second, tail |-> IF second = 0 THEN 0 ELSE chain.tail, size |-> m - 1]
      /\ WithoutNode(s[1])
  BY <1>5 DEF PopFront
<1>3. /\ second = NextIn(s, 1) /\ PrevIn(s, 1) = 0 /\ second \in ListNodes \cup {0}
      /\ (\A i \in 1..m : s[i] = second <=> i = 2) /\ (second = 0 <=> m = 1)
  <2> DEFINE k == 1
  <2>1. k \in 1..Len(sequence) /\ k = 1 /\ k + 1 = 2 /\ n = s[k]
    BY <1>5
  <2> HIDE DEF k, n
  <2>2. k \in 1..Len(sequence)
    BY <2>1
  <2>3. /\ links[sequence[k]].next = NextIn(sequence, k) /\ NextIn(sequence, k) \in ListNodes \cup {0}
        /\ (\A i \in 1..Len(sequence) : sequence[i] = NextIn(sequence, k) <=> i = k + 1)
        /\ (NextIn(sequence, k) = 0 <=> k = Len(sequence)) /\ (PrevIn(sequence, k) = 0 <=> k = 1)
    BY <2>2, NodeAt
  <2>4. second = NextIn(s, k)
    BY <2>1, <2>3
  <2> HIDE DEF second, s
  <2>5. second = NextIn(s, 1) /\ PrevIn(s, 1) = 0 /\ second \in ListNodes \cup {0}
    BY <2>1, <2>3, <2>4 DEF s
  <2>6. \A i \in 1..m : s[i] = second <=> i = 2
    BY <2>1, <2>3, <2>4 DEF s
  <2>7. second = 0 <=> m = 1
    BY <2>1, <2>3, <2>4 DEF s
  <2> QED BY <2>5, <2>6, <2>7
<1> HIDE DEF second, n
<1>6. ASSUME NEW i \in 1..m, i # 1
      PROVE  /\ links'[s[i]] \in NodeLinks
             /\ links'[s[i]].prev = IF i = 1 + 1 THEN PrevIn(s, 1) ELSE PrevIn(s, i)
             /\ links'[s[i]].next = IF i = 1 - 1 THEN NextIn(s, 1) ELSE NextIn(s, i)
  <2>1. s[i] \in Linked \ {n}
    BY <1>4, <1>5, <1>6 DEF ToSet
  <2>2. links'[s[i]] = IF s[i] = second THEN [links[s[i]] EXCEPT !.prev = 0] ELSE links[s[i]]
    BY <1>2, <2>1
  <2>3. /\ links[s[i]].prev = PrevIn(s, i) /\ links[s[i]].next = NextIn(s, i) /\ links[s[i]] \in NodeLinks
    BY NodeAt
  <2>4. i # 1 - 1 /\ (i = 1 + 1 <=> s[i] = second)
    BY <1>3
  <2>5. CASE s[i] = second
    <3>1. links'[s[i]] = [links[s[i]] EXCEPT !.prev = 0]
      BY <2>2, <2>5
    <3>2. links'[s[i]] \in NodeLinks /\ links'[s[i]].prev = 0 /\ links'[s[i]].next = links[s[i]].next
      BY <2>3, <3>1 DEF NodeLinks
    <3> QED BY <1>3, <2>3, <2>4, <2>5, <3>2
  <2>6. CASE s[i] # second
    BY <2>2, <2>3, <2>4, <2>6
  <2> QED BY <2>5, <2>6
<1>7. DOMAIN links' = ToSet(s) \ {s[1]}
  BY <1>2, <1>4, <1>5
<1>8. chain' \in Chains /\ chain'.head = NextIn(s, 1)
      /\ chain'.tail = (IF 1 = m THEN PrevIn(s, 1) ELSE s[m]) /\ chain'.size = m - 1
  <2> DEFINE t == IF second = 0 THEN 0 ELSE chain.tail
  <2>1. chain' = [head |-> second, tail |-> t, size |-> m - 1]
    BY <1>2
  <2>2. m - 1 \in Nat
    BY <1>4, <1>5
  <2>3. t = (IF 1 = m THEN PrevIn(s, 1) ELSE s[m])
    BY <1>3, <1>5
  <2>4. t \in ListNodes \cup {0}
    BY <1>4, <1>5
  <2> HIDE DEF t
  <2> QED BY <1>3, <2>1, <2>2, <2>3, <2>4 DEF Chains
<1>10. LinkedAs(RemoveAt(s, 1), links') /\ ChainedAs(RemoveAt(s, 1), chain')
  <2>0. s \in Seq(ListNodes) /\ Once(s)
    BY DEF ListInv
  <2> DEFINE k == 1
  <2>10. k \in 1..Len(s) /\ k = 1
    BY <1>5
  <2> HIDE DEF s, k
  <2>1. \A i \in 1..Len(s) : i # k => links'[s[i]] \in NodeLinks
    BY <1>6, <2>10
  <2>2. \A i \in 1..Len(s) : i # k => links'[s[i]].prev = IF i = k + 1 THEN PrevIn(s, k) ELSE PrevIn(s, i)
    BY <1>6, <2>10
  <2>3. \A i \in 1..Len(s) : i # k => links'[s[i]].next = IF i = k - 1 THEN NextIn(s, k) ELSE NextIn(s, i)
    BY <1>6, <2>10
  <2>4. chain' \in Chains
    BY <1>8
  <2>5. chain'.head = IF k = 1 THEN NextIn(s, k) ELSE s[1]
    BY <1>8, <2>10
  <2>6. chain'.tail = IF k = Len(s) THEN PrevIn(s, k) ELSE s[Len(s)]
    BY <1>8, <2>10
  <2>7. chain'.size = Len(s) - 1
    BY <1>8
  <2>8. s \in Seq(ListNodes)
    BY <2>0
  <2>9. Once(s)
    BY <2>0
  <2>11. DOMAIN links' = ToSet(s) \ {s[k]}
    BY <1>7, <2>10
  <2>12. k \in 1..Len(s)
    BY <2>10
  <2>13. LinkedAs(RemoveAt(s, k), links') /\ ChainedAs(RemoveAt(s, k), chain')
    BY <2>1, <2>2, <2>3, <2>4, <2>5, <2>6, <2>7, <2>8, <2>9, <2>11, <2>12, ListWithout
  <2> QED BY <2>10, <2>13
<1> QED BY <1>2, <1>5, <1>10, WithoutStep

LEMMA PopBackStep ==
  ASSUME ListInv, PopBack
  PROVE  ListInv'
<1> DEFINE s == sequence
           m == Len(s)
           n == chain.tail
           last == links[n].prev
<1>4. m \in Nat /\ Linked = ToSet(s) /\ DOMAIN s = 1..m /\ (\A i \in 1..m : s[i] \in ListNodes /\ s[i] # 0)
      /\ \A i, j \in 1..m : s[i] = s[j] => i = j
  BY ListIs DEF ListInv, Once
<1>5. m # 0 /\ n = s[m] /\ chain.head = s[1] /\ chain.size = m /\ 1 \in 1..m /\ m \in 1..m
  <2>1. m # 0
    BY DEF ListInv, ChainedAs, LastOf, PopBack
  <2>2. n = s[m] /\ chain.head = s[1] /\ chain.size = m
    BY <2>1 DEF ListInv, ChainedAs, FirstOf, LastOf
  <2> QED BY <1>4, <2>1, <2>2
<1>2. /\ links' = [p \in Linked \ {n} |-> IF p = last THEN [links[p] EXCEPT !.next = 0] ELSE links[p]]
      /\ chain' = [head |-> IF last = 0 THEN 0 ELSE chain.head, tail |-> last, size |-> m - 1]
      /\ WithoutNode(s[m])
  BY <1>5 DEF PopBack
<1>3. /\ last = PrevIn(s, m) /\ NextIn(s, m) = 0 /\ last \in ListNodes \cup {0}
      /\ (\A i \in 1..m : s[i] = last <=> i = m - 1) /\ (last = 0 <=> m = 1)
  <2> DEFINE k == m
  <2>1. k \in 1..Len(sequence) /\ k = m /\ n = s[k]
    BY <1>5
  <2> HIDE DEF k, n
  <2>2. k \in 1..Len(sequence)
    BY <2>1
  <2>3. /\ links[sequence[k]].prev = PrevIn(sequence, k) /\ PrevIn(sequence, k) \in ListNodes \cup {0}
        /\ (\A i \in 1..Len(sequence) : sequence[i] = PrevIn(sequence, k) <=> i = k - 1)
        /\ (PrevIn(sequence, k) = 0 <=> k = 1) /\ (NextIn(sequence, k) = 0 <=> k = Len(sequence))
    BY <2>2, NodeAt
  <2>4. last = PrevIn(s, k)
    BY <2>1, <2>3
  <2> HIDE DEF last, s
  <2>5. last = PrevIn(s, m) /\ NextIn(s, m) = 0 /\ last \in ListNodes \cup {0}
    BY <2>1, <2>3, <2>4 DEF s
  <2>6. \A i \in 1..m : s[i] = last <=> i = m - 1
    BY <2>1, <2>3, <2>4 DEF s
  <2>7. last = 0 <=> m = 1
    BY <2>1, <2>3, <2>4 DEF s
  <2> QED BY <2>5, <2>6, <2>7
<1> HIDE DEF last, n
<1>6. ASSUME NEW i \in 1..m, i # m
      PROVE  /\ links'[s[i]] \in NodeLinks
             /\ links'[s[i]].prev = IF i = m + 1 THEN PrevIn(s, m) ELSE PrevIn(s, i)
             /\ links'[s[i]].next = IF i = m - 1 THEN NextIn(s, m) ELSE NextIn(s, i)
  <2>1. s[i] \in Linked \ {n}
    BY <1>4, <1>5, <1>6 DEF ToSet
  <2>2. links'[s[i]] = IF s[i] = last THEN [links[s[i]] EXCEPT !.next = 0] ELSE links[s[i]]
    BY <1>2, <2>1
  <2>3. /\ links[s[i]].prev = PrevIn(s, i) /\ links[s[i]].next = NextIn(s, i) /\ links[s[i]] \in NodeLinks
    BY NodeAt
  <2>4. i # m + 1 /\ (i = m - 1 <=> s[i] = last)
    <3>1. m \in Nat /\ i \in 1..m
      BY <1>4
    <3>2. i # m + 1
      BY <3>1
    <3> QED BY <1>3, <3>2
  <2>5. CASE s[i] = last
    <3>1. links'[s[i]] = [links[s[i]] EXCEPT !.next = 0]
      BY <2>2, <2>5
    <3>2. links'[s[i]] \in NodeLinks /\ links'[s[i]].next = 0 /\ links'[s[i]].prev = links[s[i]].prev
      BY <2>3, <3>1 DEF NodeLinks
    <3> QED BY <1>3, <2>3, <2>4, <2>5, <3>2
  <2>6. CASE s[i] # last
    BY <2>2, <2>3, <2>4, <2>6
  <2> QED BY <2>5, <2>6
<1>7. DOMAIN links' = ToSet(s) \ {s[m]}
  BY <1>2, <1>4, <1>5
<1>8. chain' \in Chains /\ chain'.tail = PrevIn(s, m)
      /\ chain'.head = (IF m = 1 THEN NextIn(s, m) ELSE s[1]) /\ chain'.size = m - 1
  <2> DEFINE h == IF last = 0 THEN 0 ELSE chain.head
  <2>1. chain' = [head |-> h, tail |-> last, size |-> m - 1]
    BY <1>2
  <2>2. m - 1 \in Nat
    BY <1>4, <1>5
  <2>3. h = (IF m = 1 THEN NextIn(s, m) ELSE s[1])
    BY <1>3, <1>5
  <2>4. h \in ListNodes \cup {0}
    BY <1>4, <1>5
  <2> HIDE DEF h
  <2> QED BY <1>3, <2>1, <2>2, <2>3, <2>4 DEF Chains
<1>10. LinkedAs(RemoveAt(s, m), links') /\ ChainedAs(RemoveAt(s, m), chain')
  <2>0. s \in Seq(ListNodes) /\ Once(s)
    BY DEF ListInv
  <2> DEFINE k == m
  <2>10. k \in 1..Len(s) /\ k = m /\ m = Len(s)
    BY <1>5
  <2> HIDE DEF s, k, m
  <2>1. \A i \in 1..Len(s) : i # k => links'[s[i]] \in NodeLinks
    BY <1>6, <2>10
  <2>2. \A i \in 1..Len(s) : i # k => links'[s[i]].prev = IF i = k + 1 THEN PrevIn(s, k) ELSE PrevIn(s, i)
    BY <1>6, <2>10
  <2>3. \A i \in 1..Len(s) : i # k => links'[s[i]].next = IF i = k - 1 THEN NextIn(s, k) ELSE NextIn(s, i)
    BY <1>6, <2>10
  <2>4. chain' \in Chains
    BY <1>8
  <2>5. chain'.head = IF k = 1 THEN NextIn(s, k) ELSE s[1]
    BY <1>8, <2>10
  <2>6. chain'.tail = IF k = Len(s) THEN PrevIn(s, k) ELSE s[Len(s)]
    BY <1>8, <2>10
  <2>7. chain'.size = Len(s) - 1
    BY <1>8, <2>10
  <2>8. s \in Seq(ListNodes)
    BY <2>0
  <2>9. Once(s)
    BY <2>0
  <2>11. DOMAIN links' = ToSet(s) \ {s[k]}
    BY <1>7, <2>10
  <2>12. k \in 1..Len(s)
    BY <2>10
  <2>13. LinkedAs(RemoveAt(s, k), links') /\ ChainedAs(RemoveAt(s, k), chain')
    BY <2>1, <2>2, <2>3, <2>4, <2>5, <2>6, <2>7, <2>8, <2>9, <2>11, <2>12, ListWithout
  <2> QED BY <2>10, <2>13
<1> QED BY <1>2, <1>5, <1>10, WithoutStep

LEMMA ListWalks ==
  ASSUME ListInv, BeginListWalk \/ EndListWalk \/ StepListWalk
  PROVE  ListInv'
<1>0. sequence' = sequence /\ links' = links /\ chain' = chain
  BY DEF BeginListWalk, EndListWalk, StepListWalk
<1> SUFFICES WalkerOK(walker', sequence)
  BY <1>0 DEF ListInv
<1> DEFINE s == sequence
           m == Len(s)
<1>1. m \in Nat /\ s \in Seq(ListNodes)
  BY ListIs DEF ListInv
<1>2. CASE BeginListWalk
  <2>1. walker' = [on |-> TRUE, current |-> chain.head, astray |-> FALSE, due |-> s]
    BY <1>2 DEF BeginListWalk
  <2>2. chain.head \in ListNodes \cup {0} /\ chain.head = FirstOf(s)
    BY DEF ListInv, ChainedAs, Chains
  <2>3. walker' \in Walkers /\ walker'.due = s /\ walker'.on /\ walker'.current = chain.head
    BY <1>1, <2>1, <2>2 DEF Walkers
  <2>4. EndOf(s, s)
    <3>1. \A i \in 1..m : m - m + i = i
      BY <1>1
    <3> QED BY <1>1, <3>1 DEF EndOf
  <2> QED BY <2>2, <2>3, <2>4 DEF WalkerOK
<1>3. CASE EndListWalk
  <2>1. walker' = NoWalker
    BY <1>3 DEF EndListWalk
  <2>2. walker' \in Walkers /\ walker'.due = <<>> /\ ~walker'.on /\ Len(walker'.due) = 0
    BY <2>1, EmptySeq DEF Walkers, NoWalker
  <2> QED BY <1>1, <2>2 DEF WalkerOK, EndOf
<1>4. CASE StepListWalk
  <2> DEFINE d == walker.due
             c == Len(d)
             e == Tail(d)
             next == links[walker.current].next
  <2>1. walker' = [walker EXCEPT !.current = next, !.due = e] /\ walker.on /\ ~walker.astray /\ walker.current # 0
    BY <1>4 DEF StepListWalk
  <2>2. walker \in Walkers /\ d \in Seq(ListNodes) /\ c \in Nat /\ c <= m /\ walker.on \in BOOLEAN /\ walker.astray \in BOOLEAN
        /\ \A i \in 1..c : d[i] = s[m - c + i]
    BY WalkerIs DEF EndOf
  <2>3. walker.current = FirstOf(d)
    BY <2>1 DEF ListInv, WalkerOK
  <2>4. c # 0 /\ 1 \in 1..c /\ walker.current = d[1]
    <3>1. c # 0
      BY <2>1, <2>3 DEF FirstOf
    <3> QED BY <2>2, <2>3, <3>1 DEF FirstOf
  <2> DEFINE k == m - c + 1
  <2>5. k \in 1..m /\ walker.current = s[k] /\ (k = m <=> c = 1)
    <3>0. m \in Nat /\ c \in Nat /\ c <= m /\ c # 0
      BY <1>1, <2>2, <2>4
    <3> HIDE DEF m, c
    <3>1. m - c + 1 \in 1..m /\ (m - c + 1 = m <=> c = 1)
      BY <3>0
    <3>2. d[1] = s[m - c + 1]
      BY <2>2, <2>4
    <3> QED BY <2>4, <3>1, <3>2
  <2>6. next = NextIn(s, k) /\ NextIn(s, k) \in ListNodes \cup {0}
    BY <2>5, NodeAt
  <2>7. e \in Seq(ListNodes) /\ Len(e) = c - 1 /\ \A i \in 1..(c - 1) : e[i] = d[i + 1]
    <3>1. d # <<>>
      BY <2>4
    <3> QED BY <2>2, <3>1, HeadTailProperties
  <2> HIDE DEF e, next
  <2>8. EndOf(e, s)
    <3>1. ASSUME NEW i \in 1..(c - 1)
          PROVE  e[i] = s[m - (c - 1) + i]
      <4>1. i + 1 \in 1..c /\ m - c + (i + 1) = m - (c - 1) + i
        BY <1>1, <2>2
      <4> QED BY <2>2, <2>7, <4>1
    <3>2. c - 1 <= m
      BY <1>1, <2>2
    <3> QED BY <2>7, <3>1, <3>2 DEF EndOf
  <2>9. next = FirstOf(e)
    <3>1. CASE c = 1
      <4>1. Len(e) = 0
        BY <2>7, <3>1
      <4> QED BY <2>5, <2>6, <3>1, <4>1 DEF NextIn, FirstOf
    <3>2. CASE c # 1
      <4>1. c - 1 # 0 /\ 1 \in 1..(c - 1) /\ 1 + 1 \in 1..c /\ m - c + (1 + 1) = k + 1 /\ k # m
        BY <1>1, <2>2, <2>4, <2>5, <3>2
      <4>2. e[1] = s[k + 1]
        BY <2>2, <2>7, <4>1
      <4> QED BY <2>6, <2>7, <4>1, <4>2 DEF NextIn, FirstOf
    <3> QED BY <3>1, <3>2
  <2>10. walker' \in Walkers /\ walker'.due = e /\ walker'.current = next /\ walker'.on /\ ~walker'.astray
    BY <2>1, <2>2, <2>6, <2>7 DEF Walkers
  <2> QED BY <2>8, <2>9, <2>10 DEF WalkerOK
<1> QED BY <1>2, <1>3, <1>4
-----------------------------------------------------------------------------
(* The growing array.  Its first f slots hold E, each element once, and the *)
(* others nothing.                                                          *)
Held(t, f, E) ==
  /\ \A i \in 1..f : t[i] \in E
  /\ \A i, j \in 1..f : t[i] = t[j] => i = j
  /\ \A e \in E : \E i \in 1..f : t[i] = e
  /\ \A i \in (f + 1)..Len(t) : t[i] = 0

ArrayInv ==
  /\ slots \in Seq(Elements \cup {0}) /\ Len(slots) <= MaxSlots /\ filled \in 0..Len(slots)
  /\ Held(slots, filled, entrusted)
  /\ entrusted \in SUBSET Elements /\ released \in SUBSET Elements /\ entrusted \cap released = {}

LEMMA ArrayIs ==
  ASSUME ArrayInv
  PROVE  /\ Len(slots) \in Nat /\ DOMAIN slots = 1..Len(slots) /\ filled \in Nat /\ filled <= Len(slots)
         /\ slots \in [1..Len(slots) -> Elements \cup {0}] /\ MaxSlots \in Nat
<1>1. slots \in Seq(Elements \cup {0}) /\ filled \in 0..Len(slots)
  BY DEF ArrayInv
<1>2. Len(slots) \in Nat /\ DOMAIN slots = 1..Len(slots) /\ slots \in [1..Len(slots) -> Elements \cup {0}]
  BY <1>1, LenProperties
<1> QED BY <1>1, <1>2, ListsAssumption DEF ListsAssumption

LEMMA ArrayStart == ListsInit => ArrayInv
<1> SUFFICES ASSUME ListsInit
             PROVE  ArrayInv
  OBVIOUS
<1>1. FirstSlots \in Nat /\ FirstSlots <= MaxSlots /\ filled = 0 /\ released = {} /\ entrusted = {}
      /\ slots = [i \in 1..FirstSlots |-> 0]
  BY ListsAssumption DEF ListsInit, ListsAssumption
<1>2. slots \in [1..FirstSlots -> Elements \cup {0}]
  BY <1>1
<1>3. slots \in Seq(Elements \cup {0}) /\ Len(slots) = FirstSlots
  BY <1>1, <1>2, TableIs
<1>4. Held(slots, 0, {})
  BY <1>1, <1>3 DEF Held
<1> QED BY <1>1, <1>3, <1>4 DEF ArrayInv

LEMMA InsertElementStep ==
  ASSUME ArrayInv, NEW at \in 1..MaxSlots, NEW e \in Elements, InsertElement(at, e)
  PROVE  ArrayInv'
<1> DEFINE L == Len(slots)
           f == filled
           w == Grown
           M == Len(w)
           V == Elements \cup {0}
<1>1. L \in Nat /\ f \in Nat /\ f <= L /\ slots \in [1..L -> V] /\ slots \in Seq(V)
  BY ArrayIs DEF ArrayInv
<1>2. /\ e \notin entrusted \cup released /\ at \in 1..(f + 1) /\ M <= MaxSlots /\ filled' = f + 1
      /\ entrusted' = entrusted \cup {e} /\ released' = released
      /\ slots' = [i \in DOMAIN w |-> CASE i = at -> e
                                        [] i > at /\ i <= f + 1 -> w[i - 1]
                                        [] OTHER -> w[i]]
  BY DEF InsertElement
<1>3. /\ M \in Nat /\ f + 1 <= M /\ DOMAIN w = 1..M /\ w \in [1..M -> V] /\ (\A i \in 1..f : w[i] = slots[i])
      /\ \A i \in (f + 1)..M : w[i] = 0
  <2>1. CASE f < L
    <3>1. w = slots
      BY <2>1 DEF Grown
    <3>2. \A i \in (f + 1)..L : slots[i] = 0
      BY DEF ArrayInv, Held
    <3> QED BY <1>1, <2>1, <3>1, <3>2
  <2>2. CASE ~(f < L)
    <3> DEFINE k == IF slots = <<>> THEN 1 ELSE L
               more == [i \in 1..k |-> 0]
    <3>1. w = slots \o more
      BY <2>2 DEF Grown
    <3>2. k \in Nat /\ k >= 1
      <4>1. slots # <<>> => L # 0
        BY <1>1, EmptySeq
      <4> QED BY <1>1, <4>1
    <3> HIDE DEF k
    <3>3. more \in [1..k -> V]
      OBVIOUS
    <3>4. more \in Seq(V) /\ Len(more) = k /\ \A i \in 1..k : more[i] = 0
      BY <3>2, <3>3, TableIs
    <3> HIDE DEF more
    <3>5. w \in Seq(V) /\ Len(w) = L + k /\ \A i \in 1..(L + k) : w[i] = IF i <= L THEN slots[i] ELSE more[i - L]
      BY <1>1, <3>1, <3>2, <3>4, ConcatProperties
    <3> HIDE DEF w
    <3>6. M = L + k /\ f = L /\ DOMAIN w = 1..M /\ w \in [1..M -> V]
      <4>1. f = L
        <5>1. L \in Nat /\ f \in Nat /\ f <= L /\ ~(f < L)
          BY <1>1, <2>2
        <5> HIDE DEF L, f
        <5> QED BY <5>1
      <4>2. w \in Seq(V)
        BY <3>5
      <4>3. DOMAIN w = 1..Len(w) /\ w \in [1..Len(w) -> V]
        BY <4>2, LenProperties
      <4> QED BY <3>5, <4>1, <4>3
    <3>7. \A i \in 1..f : w[i] = slots[i]
      BY <1>1, <3>2, <3>5, <3>6
    <3>8. ASSUME NEW i \in (f + 1)..M
          PROVE  w[i] = 0
      <4>1. i \in 1..(L + k) /\ ~(i <= L) /\ i - L \in 1..k
        BY <1>1, <3>2, <3>6
      <4> QED BY <3>4, <3>5, <4>1
    <3> QED BY <1>1, <3>2, <3>6, <3>7, <3>8
  <2> QED BY <2>1, <2>2
<1> HIDE DEF w
<1> DEFINE t == slots'
<1>4. /\ t \in [1..M -> V] /\ t[at] = e
      /\ (\A i \in 1..f : i < at => t[i] = slots[i])
      /\ (\A i \in 1..f : at <= i => t[i + 1] = slots[i])
      /\ \A i \in (f + 2)..M : t[i] = 0
  <2>1. at \in 1..M /\ at <= f + 1
    BY <1>1, <1>2, <1>3
  <2>2. t[at] = e
    BY <1>2, <1>3, <2>1
  <2>3. ASSUME NEW i \in 1..f, i < at
        PROVE  t[i] = slots[i]
    <3>1. i \in 1..M /\ i # at /\ ~(i > at)
      BY <1>1, <1>3, <2>1, <2>3
    <3> QED BY <1>2, <1>3, <3>1
  <2>4. ASSUME NEW i \in 1..f, at <= i
        PROVE  t[i + 1] = slots[i]
    <3>1. i + 1 \in 1..M /\ i + 1 # at /\ i + 1 > at /\ i + 1 <= f + 1 /\ (i + 1) - 1 = i
      BY <1>1, <1>3, <2>1, <2>4
    <3> QED BY <1>2, <1>3, <3>1
  <2>5. ASSUME NEW i \in (f + 2)..M
        PROVE  t[i] = 0
    <3>1. i \in 1..M /\ i # at /\ ~(i <= f + 1) /\ i \in (f + 1)..M
      BY <1>1, <1>3, <2>1
    <3> QED BY <1>2, <1>3, <3>1
  <2>6. ASSUME NEW i \in 1..M
        PROVE  t[i] \in V
    <3>1. i > at /\ i <= f + 1 => i - 1 \in 1..M
      BY <1>1, <1>3, <2>1
    <3> QED BY <1>2, <1>3, <3>1
  <2>7. t = [i \in 1..M |-> t[i]]
    BY <1>2, <1>3
  <2> HIDE DEF t
  <2> QED BY <2>2, <2>3, <2>4, <2>5, <2>6, <2>7
<1> HIDE DEF t
<1>5. /\ \A i \in 1..f : slots[i] \in entrusted
      /\ \A i, j \in 1..f : slots[i] = slots[j] => i = j
      /\ \A d \in entrusted : \E i \in 1..f : slots[i] = d
  BY DEF ArrayInv, Held
<1> DEFINE From(i) == IF i < at THEN i ELSE i - 1
<1>6. ASSUME NEW i \in 1..(f + 1), i # at
      PROVE  From(i) \in 1..f /\ t[i] = slots[From(i)]
  <2>1. CASE i < at
    <3>1. i \in 1..f
      BY <1>1, <1>2, <2>1
    <3> QED BY <1>4, <2>1, <3>1
  <2>2. CASE ~(i < at)
    <3>1. i - 1 \in 1..f /\ at <= i - 1 /\ (i - 1) + 1 = i
      BY <1>1, <1>2, <1>6, <2>2
    <3> QED BY <1>4, <2>2, <3>1
  <2> QED BY <2>1, <2>2
<1>7. \A i, j \in 1..(f + 1) : i # at /\ j # at /\ From(i) = From(j) => i = j
  BY <1>1, <1>2
<1> HIDE DEF From
<1>8. Held(t, f + 1, entrusted \cup {e})
  <2>1. Len(t) = M
    BY <1>3, <1>4, TableIs
  <2>2. \A i \in 1..(f + 1) : t[i] \in entrusted \cup {e} /\ (i # at => t[i] \in entrusted)
    BY <1>4, <1>5, <1>6
  <2>3. ASSUME NEW i \in 1..(f + 1), NEW j \in 1..(f + 1), t[i] = t[j]
        PROVE  i = j
    <3>1. i = at <=> j = at
      BY <1>2, <1>4, <2>2, <2>3
    <3>2. i # at /\ j # at => slots[From(i)] = slots[From(j)] /\ From(i) \in 1..f /\ From(j) \in 1..f
      BY <1>6, <2>3
    <3> QED BY <1>5, <1>7, <3>1, <3>2
  <2>4. ASSUME NEW d \in entrusted \cup {e}
        PROVE  \E i \in 1..(f + 1) : t[i] = d
    <3>1. CASE d = e
      BY <1>2, <1>4, <3>1
    <3>2. CASE d \in entrusted
      <4>1. PICK i \in 1..f : slots[i] = d
        BY <1>5, <3>2
      <4>2. i \in 1..(f + 1) /\ i + 1 \in 1..(f + 1) /\ (i < at \/ at <= i)
        BY <1>1, <1>2
      <4> QED BY <1>4, <4>1, <4>2
    <3> QED BY <3>1, <3>2
  <2>5. (f + 1) + 1 = f + 2
    BY <1>1
  <2> QED BY <1>4, <2>1, <2>2, <2>3, <2>4, <2>5 DEF Held
<1>9. t \in Seq(V) /\ Len(t) = M
  BY <1>3, <1>4, TableIs
<1>10. filled' \in 0..M
  BY <1>1, <1>2, <1>3
<1>11. entrusted' \in SUBSET Elements /\ released' \in SUBSET Elements /\ entrusted' \cap released' = {}
  BY <1>2 DEF ArrayInv
<1> QED BY <1>2, <1>8, <1>9, <1>10, <1>11 DEF ArrayInv, t

LEMMA RemoveElementStep ==
  ASSUME ArrayInv, NEW at \in 1..MaxSlots, RemoveElement(at)
  PROVE  ArrayInv'
<1> DEFINE L == Len(slots)
           f == filled
           V == Elements \cup {0}
           t == slots'
           x == slots[at]
<1>1. L \in Nat /\ f \in Nat /\ f <= L /\ slots \in [1..L -> V] /\ DOMAIN slots = 1..L
  BY ArrayIs
<1>2. /\ at \in 1..f /\ filled' = f - 1 /\ released' = released \cup {x} /\ entrusted' = entrusted \ {x}
      /\ t = [i \in DOMAIN slots |-> CASE i = f -> 0
                                       [] i >= at /\ i < f -> slots[i + 1]
                                       [] OTHER -> slots[i]]
  BY DEF RemoveElement
<1>3. /\ \A i \in 1..f : slots[i] \in entrusted
      /\ \A i, j \in 1..f : slots[i] = slots[j] => i = j
      /\ \A d \in entrusted : \E i \in 1..f : slots[i] = d
      /\ \A i \in (f + 1)..L : slots[i] = 0
  BY DEF ArrayInv, Held
<1> HIDE DEF t
<1>4. /\ t \in [1..L -> V]
      /\ (\A i \in 1..(f - 1) : t[i] = IF i < at THEN slots[i] ELSE slots[i + 1])
      /\ \A i \in f..L : t[i] = 0
  <2>1. ASSUME NEW i \in 1..(f - 1)
        PROVE  t[i] = IF i < at THEN slots[i] ELSE slots[i + 1]
    <3>1. i \in 1..L /\ i # f /\ i < f /\ (i >= at <=> ~(i < at))
      BY <1>1, <1>2
    <3> QED BY <1>1, <1>2, <3>1
  <2>2. ASSUME NEW i \in f..L
        PROVE  t[i] = 0
    <3>1. i \in 1..L /\ ~(i < f) /\ (i # f => i \in (f + 1)..L)
      BY <1>1, <1>2
    <3> QED BY <1>1, <1>2, <1>3, <3>1
  <2>3. ASSUME NEW i \in 1..L
        PROVE  t[i] \in V
    <3>1. i < f => i + 1 \in 1..L
      BY <1>1
    <3> QED BY <1>1, <1>2, <3>1
  <2>4. t = [i \in 1..L |-> t[i]]
    BY <1>1, <1>2
  <2> QED BY <2>1, <2>2, <2>3, <2>4
<1> DEFINE From(i) == IF i < at THEN i ELSE i + 1
<1>5. \A i \in 1..(f - 1) : From(i) \in 1..f /\ From(i) # at /\ t[i] = slots[From(i)]
  <2> TAKE i \in 1..(f - 1)
  <2>1. From(i) \in 1..f /\ From(i) # at
    BY <1>1, <1>2
  <2> QED BY <1>4, <2>1
<1>6. \A i, j \in 1..(f - 1) : From(i) = From(j) => i = j
  BY <1>1, <1>2
<1>7. \A k \in 1..f : k # at => \E i \in 1..(f - 1) : From(i) = k
  <2> TAKE k \in 1..f
  <2> HAVE k # at
  <2>1. CASE k < at
    <3>1. k \in 1..(f - 1) /\ From(k) = k
      BY <1>1, <1>2, <2>1
    <3> QED BY <3>1
  <2>2. CASE ~(k < at)
    <3>1. k - 1 \in 1..(f - 1) /\ ~(k - 1 < at) /\ (k - 1) + 1 = k
      BY <1>1, <1>2, <2>2
    <3> QED BY <3>1
  <2> QED BY <2>1, <2>2
<1> HIDE DEF From
<1>8. Held(t, f - 1, entrusted \ {x})
  <2>1. Len(t) = L /\ (f - 1) + 1 = f
    BY <1>1, <1>4, TableIs
  <2>2. \A i \in 1..(f - 1) : t[i] \in entrusted \ {x}
    <3>1. at \in 1..f
      BY <1>2
    <3>2. \A k \in 1..f : k # at => slots[k] \in entrusted /\ slots[k] # slots[at]
      BY <1>3, <3>1
    <3> QED BY <1>5, <3>2
  <2>3. \A i, j \in 1..(f - 1) : t[i] = t[j] => i = j
    BY <1>3, <1>5, <1>6
  <2>4. ASSUME NEW d \in entrusted \ {x}
        PROVE  \E i \in 1..(f - 1) : t[i] = d
    <3>1. PICK k \in 1..f : slots[k] = d /\ k # at
      BY <1>3
    <3>2. PICK i \in 1..(f - 1) : From(i) = k
      BY <1>7, <3>1
    <3> QED BY <1>5, <3>1, <3>2
  <2> QED BY <1>4, <2>1, <2>2, <2>3, <2>4 DEF Held
<1>9. t \in Seq(V) /\ Len(t) = L
  BY <1>1, <1>4, TableIs
<1>10. f - 1 \in 0..L
  BY <1>1, <1>2
<1>11. x \in entrusted
  BY <1>2, <1>3
<1>12. entrusted' \in SUBSET Elements /\ released' \in SUBSET Elements /\ entrusted' \cap released' = {}
  BY <1>2, <1>11 DEF ArrayInv
<1>13. L <= MaxSlots
  BY DEF ArrayInv
<1> QED BY <1>2, <1>8, <1>9, <1>10, <1>12, <1>13 DEF ArrayInv, t

LEMMA PutElementStep ==
  ASSUME ArrayInv, NEW at \in 1..MaxSlots, NEW e \in Elements, PutElement(at, e)
  PROVE  ArrayInv'
<1> DEFINE L == Len(slots)
           f == filled
           V == Elements \cup {0}
           t == slots'
           x == slots[at]
<1>1. L \in Nat /\ f \in Nat /\ f <= L /\ slots \in [1..L -> V] /\ DOMAIN slots = 1..L
  BY ArrayIs
<1>2. /\ at \in 1..f /\ e \notin entrusted \cup released /\ filled' = f
      /\ released' = released \cup {x} /\ entrusted' = (entrusted \ {x}) \cup {e}
      /\ t = [slots EXCEPT ![at] = e]
  BY DEF PutElement
<1>3. /\ \A i \in 1..f : slots[i] \in entrusted
      /\ \A i, j \in 1..f : slots[i] = slots[j] => i = j
      /\ \A d \in entrusted : \E i \in 1..f : slots[i] = d
      /\ \A i \in (f + 1)..L : slots[i] = 0
  BY DEF ArrayInv, Held
<1> HIDE DEF t
<1>4. at \in 1..L /\ t \in [1..L -> V] /\ t[at] = e /\ \A i \in 1..L : i # at => t[i] = slots[i]
  <2>1. at \in 1..L
    BY <1>1, <1>2
  <2> QED BY <1>1, <1>2, <2>1
<1>5. x \in entrusted
  BY <1>2, <1>3
<1>6. Held(t, f, (entrusted \ {x}) \cup {e})
  <2>1. Len(t) = L
    BY <1>1, <1>4, TableIs
  <2>2. \A i \in 1..f : i \in 1..L
    BY <1>1
  <2>3. \A i \in (f + 1)..L : i \in 1..L /\ i # at
    BY <1>1, <1>2
  <2>4. \A i \in 1..f : t[i] \in (entrusted \ {x}) \cup {e}
    BY <1>2, <1>3, <1>4, <2>2
  <2>5. \A i, j \in 1..f : t[i] = t[j] => i = j
    BY <1>2, <1>3, <1>4, <2>2
  <2>6. \A d \in (entrusted \ {x}) \cup {e} : \E i \in 1..f : t[i] = d
    BY <1>2, <1>3, <1>4, <2>2
  <2>7. \A i \in (f + 1)..L : t[i] = 0
    BY <1>3, <1>4, <2>3
  <2> QED BY <2>1, <2>4, <2>5, <2>6, <2>7 DEF Held
<1>7. t \in Seq(V) /\ Len(t) = L
  BY <1>1, <1>4, TableIs
<1>8. entrusted' \in SUBSET Elements /\ released' \in SUBSET Elements /\ entrusted' \cap released' = {}
  BY <1>2, <1>5 DEF ArrayInv
<1>9. L <= MaxSlots /\ f \in 0..L
  BY <1>1 DEF ArrayInv
<1> QED BY <1>2, <1>6, <1>7, <1>8, <1>9 DEF ArrayInv, t

LEMMA PopElementStep ==
  ASSUME ArrayInv, PopElement
  PROVE  ArrayInv'
<1> DEFINE L == Len(slots)
           f == filled
           V == Elements \cup {0}
           t == slots'
           x == slots[f]
<1>1. L \in Nat /\ f \in Nat /\ f <= L /\ slots \in [1..L -> V] /\ DOMAIN slots = 1..L
  BY ArrayIs
<1>2. /\ f > 0 /\ filled' = f - 1 /\ released' = released /\ entrusted' = entrusted \ {x}
      /\ t = [slots EXCEPT ![f] = 0]
  BY DEF PopElement
<1>3. /\ \A i \in 1..f : slots[i] \in entrusted
      /\ \A i, j \in 1..f : slots[i] = slots[j] => i = j
      /\ \A d \in entrusted : \E i \in 1..f : slots[i] = d
      /\ \A i \in (f + 1)..L : slots[i] = 0
  BY DEF ArrayInv, Held
<1> HIDE DEF t
<1>4. f \in 1..L /\ t \in [1..L -> V] /\ t[f] = 0 /\ \A i \in 1..L : i # f => t[i] = slots[i]
  <2>1. f \in 1..L
    BY <1>1, <1>2
  <2> QED BY <1>1, <1>2, <2>1
<1>5. /\ (\A i \in 1..(f - 1) : i \in 1..f /\ i \in 1..L /\ i # f)
      /\ (\A i \in 1..f : i # f => i \in 1..(f - 1))
      /\ (\A i \in f..L : i \in 1..L /\ (i # f => i \in (f + 1)..L))
      /\ (f - 1) + 1 = f /\ f - 1 \in 0..L /\ f \in 1..f
  BY <1>1, <1>2
<1>6. Held(t, f - 1, entrusted \ {x})
  <2>1. Len(t) = L
    BY <1>1, <1>4, TableIs
  <2>2. \A i \in 1..(f - 1) : t[i] = slots[i]
    BY <1>4, <1>5
  <2>3. \A i \in 1..(f - 1) : t[i] \in entrusted \ {x}
    BY <1>3, <1>5, <2>2
  <2>4. \A i, j \in 1..(f - 1) : t[i] = t[j] => i = j
    BY <1>3, <1>5, <2>2
  <2>5. \A d \in entrusted \ {x} : \E i \in 1..(f - 1) : t[i] = d
    BY <1>3, <1>5, <2>2
  <2>6. \A i \in f..L : t[i] = 0
    BY <1>3, <1>4, <1>5
  <2> HIDE DEF x
  <2> QED BY <1>5, <2>1, <2>3, <2>4, <2>5, <2>6 DEF Held
<1>7. t \in Seq(V) /\ Len(t) = L
  BY <1>1, <1>4, TableIs
<1>8. entrusted' \in SUBSET Elements /\ released' \in SUBSET Elements /\ entrusted' \cap released' = {}
  BY <1>2 DEF ArrayInv
<1>9. L <= MaxSlots
  BY DEF ArrayInv
<1> QED BY <1>2, <1>5, <1>6, <1>7, <1>8, <1>9 DEF ArrayInv, t

LEMMA ClearArrayStep ==
  ASSUME ArrayInv, ClearArray
  PROVE  ArrayInv'
<1> DEFINE L == Len(slots)
           V == Elements \cup {0}
           t == slots'
<1>1. L \in Nat /\ DOMAIN slots = 1..L
  BY ArrayIs
<1>2. filled' = 0 /\ released' = released \cup entrusted /\ entrusted' = {} /\ t = [i \in DOMAIN slots |-> 0]
  BY DEF ClearArray
<1> HIDE DEF t
<1>3. t \in [1..L -> V] /\ \A i \in 1..L : t[i] = 0
  BY <1>1, <1>2
<1>4. t \in Seq(V) /\ Len(t) = L
  BY <1>1, <1>3, TableIs
<1>5. Held(t, 0, {})
  BY <1>1, <1>3, <1>4 DEF Held
<1>6. entrusted' \in SUBSET Elements /\ released' \in SUBSET Elements /\ entrusted' \cap released' = {}
  BY <1>2 DEF ArrayInv
<1>7. L <= MaxSlots /\ 0 \in 0..L
  BY <1>1 DEF ArrayInv
<1> QED BY <1>2, <1>4, <1>5, <1>6, <1>7 DEF ArrayInv, t

-----------------------------------------------------------------------------
(* Sorting the array, a swap of neighbours at a time.                       *)
Tables == [1..Len(slots) -> Elements \cup {0}]

(* From the place b on, nothing is less than what is before it.             *)
Settled(t, b) == \A j \in (b + 1)..filled : \A i \in 1..(j - 1) : t[i] <= t[j]

LEMMA SwappedIs ==
  ASSUME NEW n \in Nat, NEW X, NEW t \in [1..n -> X], NEW j \in 1..(n - 1)
  PROVE  /\ Swapped(t, j) \in [1..n -> X]
         /\ \A i \in 1..n : i # j /\ i # j + 1 => Swapped(t, j)[i] = t[i]
         /\ t[j] > t[j + 1] => Swapped(t, j)[j] = t[j + 1] /\ Swapped(t, j)[j + 1] = t[j]
         /\ ~(t[j] > t[j + 1]) => Swapped(t, j) = t
<1>1. j \in 1..n /\ j + 1 \in 1..n /\ j # j + 1
  OBVIOUS
<1> DEFINE u == [t EXCEPT ![j] = t[j + 1], ![j + 1] = t[j]]
<1>2. u \in [1..n -> X] /\ u[j] = t[j + 1] /\ u[j + 1] = t[j] /\ \A i \in 1..n : i # j /\ i # j + 1 => u[i] = t[i]
  BY <1>1
<1>3. Swapped(t, j) = IF t[j] > t[j + 1] THEN u ELSE t
  BY DEF Swapped
<1> HIDE DEF u
<1> QED BY <1>2, <1>3

LEMMA SwapHolds ==
  ASSUME ArrayInv, NEW t \in Tables, Held(t, filled, entrusted), NEW j \in 1..(filled - 1)
  PROVE  /\ Swapped(t, j) \in Tables /\ Held(Swapped(t, j), filled, entrusted)
         /\ Swapped(t, j)[j] <= Swapped(t, j)[j + 1]
         /\ Swapped(t, j)[j + 1] = t[j] \/ Swapped(t, j)[j + 1] = t[j + 1]
         /\ Swapped(t, j)[j] = t[j] \/ Swapped(t, j)[j] = t[j + 1]
         /\ t[j] <= Swapped(t, j)[j + 1] /\ t[j + 1] <= Swapped(t, j)[j + 1]
         /\ \A i \in 1..Len(slots) : i # j /\ i # j + 1 => Swapped(t, j)[i] = t[i]
<1> DEFINE L == Len(slots)
           f == filled
           V == Elements \cup {0}
           u == Swapped(t, j)
<1>1. L \in Nat /\ f \in Nat /\ f <= L /\ V \subseteq Nat
  BY ArrayIs, ListsAssumption DEF ListsAssumption
<1>2. t \in [1..L -> V] /\ j \in 1..(L - 1) /\ j \in 1..f /\ j + 1 \in 1..f /\ j \in 1..L /\ j + 1 \in 1..L /\ j # j + 1
  BY <1>1 DEF Tables
<1>3. /\ u \in [1..L -> V]
      /\ \A i \in 1..L : i # j /\ i # j + 1 => u[i] = t[i]
      /\ t[j] > t[j + 1] => u[j] = t[j + 1] /\ u[j + 1] = t[j]
      /\ ~(t[j] > t[j + 1]) => u = t
  BY <1>1, <1>2, SwappedIs
<1> HIDE DEF u
<1>4. t[j] \in Nat /\ t[j + 1] \in Nat
  BY <1>1, <1>2
<1>5. u[j] <= u[j + 1] /\ t[j] <= u[j + 1] /\ t[j + 1] <= u[j + 1] /\ (u[j + 1] = t[j] \/ u[j + 1] = t[j + 1])
      /\ (u[j] = t[j] \/ u[j] = t[j + 1])
  <2>1. CASE t[j] > t[j + 1]
    <3>1. t[j + 1] <= t[j] /\ t[j] <= t[j]
      BY <1>4, <2>1
    <3> QED BY <1>3, <2>1, <3>1
  <2>2. CASE ~(t[j] > t[j + 1])
    <3>1. t[j] <= t[j + 1] /\ t[j + 1] <= t[j + 1]
      BY <1>4, <2>2
    <3> QED BY <1>3, <2>2, <3>1
  <2> QED BY <2>1, <2>2
<1> DEFINE At(i) == IF i = j THEN j + 1 ELSE IF i = j + 1 THEN j ELSE i
<1>6. Held(u, f, entrusted)
  <2>1. CASE t[j] > t[j + 1]
    <3>1. \A i \in 1..L : u[i] = t[At(i)]
      BY <1>2, <1>3, <2>1
    <3>2. \A i \in 1..f : At(i) \in 1..f /\ At(At(i)) = i /\ i \in 1..L
      BY <1>1, <1>2
    <3>3. \A i \in (f + 1)..L : At(i) = i /\ i \in 1..L
      BY <1>1, <1>2
    <3> HIDE DEF At
    <3>4. Len(u) = L /\ Len(t) = L
      BY <1>1, <1>2, <1>3, TableIs
    <3>5. /\ \A i \in 1..f : t[i] \in entrusted
          /\ \A i, k \in 1..f : t[i] = t[k] => i = k
          /\ \A e \in entrusted : \E i \in 1..f : t[i] = e
          /\ \A i \in (f + 1)..L : t[i] = 0
      BY <3>4 DEF Held
    <3>6. \A i, k \in 1..f : u[i] = u[k] => i = k
      <4> TAKE i, k \in 1..f
      <4> HAVE u[i] = u[k]
      <4>1. At(i) = At(k)
        BY <3>1, <3>2, <3>5
      <4> QED BY <3>2, <4>1
    <3>7. \A e \in entrusted : \E i \in 1..f : u[i] = e
      <4> TAKE e \in entrusted
      <4>1. PICK i \in 1..f : t[i] = e
        BY <3>5
      <4>2. At(i) \in 1..f /\ u[At(i)] = e
        BY <3>1, <3>2, <4>1
      <4> QED BY <4>2
    <3>8. \A i \in 1..f : u[i] \in entrusted
      BY <3>1, <3>2, <3>5
    <3>9. \A i \in (f + 1)..L : u[i] = 0
      BY <3>1, <3>3, <3>5
    <3> QED BY <3>4, <3>6, <3>7, <3>8, <3>9 DEF Held
  <2>2. CASE ~(t[j] > t[j + 1])
    BY <1>3, <2>2
  <2> QED BY <2>1, <2>2
<1> QED BY <1>3, <1>5, <1>6 DEF Tables, u

(* A pass is a fold of its swaps; what it says of the table after k of them.*)
Swaps(n) == [q \in Tables \X (1..n) |-> Swapped(q[1], q[2])]

LEMMA PassFolds ==
  ASSUME ArrayInv, NEW s \in Tables, NEW i \in 1..(filled - 1)
  PROVE  \E g : /\ Pass(s, i) = g[1..(filled - i)] /\ g[1..0] = s
                /\ \A k \in 1..(filled - i) : g[1..k] = Swapped(g[1..(k - 1)], k)
<1> DEFINE n == filled - i
           sq == [j \in 1..(filled - i) |-> j]
           step == Swaps(n)
           Picks(g) == g = [d \in SUBSET DOMAIN sq |->
                              IF d = {} THEN s ELSE Swapped(g[d \ {Max(d)}], sq[Max(d)])]
<1>1. n \in Nat /\ DOMAIN sq = 1..n /\ (\A k \in 1..n : sq[k] = k) /\ n <= filled - 1
      /\ Len(slots) \in Nat /\ filled <= Len(slots) /\ filled \in Nat
  BY ArrayIs
<1>2. \A t \in Tables, k \in 1..n : step[<<t, k>>] = Swapped(t, k) /\ Swapped(t, k) \in Tables
  <2> TAKE t \in Tables, k \in 1..n
  <2>1. k \in 1..(Len(slots) - 1)
    BY <1>1
  <2>2. Swapped(t, k) \in Tables
    BY <1>1, <2>1, SwappedIs DEF Tables
  <2>3. step[<<t, k>>] = Swapped(t, k)
    <3> HIDE DEF n
    <3> QED BY DEF Swaps
  <2> QED BY <2>2, <2>3
<1>3. step \in [Tables \X (1..n) -> Tables]
  <2> HIDE DEF n
  <2>1. step = [q \in Tables \X (1..n) |-> Swapped(q[1], q[2])]
    BY DEF Swaps
  <2>2. \A q \in Tables \X (1..n) : Swapped(q[1], q[2]) \in Tables
    BY <1>2
  <2> QED BY <2>1, <2>2
<1>4. PICK h \in [SUBSET (1..n) -> Tables] : Folding(h, s, step, SUBSET (1..n))
  <2> HIDE DEF step, n
  <2> QED BY <1>1, <1>3, FoldingExists
<1>5. Picks(h)
  <2> HIDE DEF step, n, sq
  <2>1. \A d \in SUBSET (1..n) : d # {} => Max(d) \in 1..n /\ d \ {Max(d)} \in SUBSET (1..n)
    <3> TAKE d \in SUBSET (1..n)
    <3>1. d \in SUBSET (0..n)
      BY <1>1
    <3> QED BY <1>1, <3>1, MaxIs
  <2>2. \A d \in SUBSET (1..n) : d # {} =>
          step[<<h[d \ {Max(d)}], Max(d)>>] = Swapped(h[d \ {Max(d)}], sq[Max(d)])
    BY <1>1, <1>2, <1>4, <2>1
  <2> QED BY <1>1, <1>4, <2>2 DEF Folding
<1> DEFINE g == CHOOSE g : Picks(g)
<1>6. Picks(g)
  <2> HIDE DEF Picks
  <2> QED BY <1>5
<1>7. Pass(s, i) = g[DOMAIN sq]
  BY DEF Pass, FoldLeft, MapThenFoldSet
<1> HIDE DEF g, step
<1>8. 1..0 \in SUBSET (1..n) /\ 1..0 = {}
  OBVIOUS
<1> HIDE DEF n, sq
<1>9. ASSUME NEW k \in 1..n
      PROVE  g[1..k] = Swapped(g[1..(k - 1)], k)
  <2>1. 1..k \in SUBSET (1..n) /\ 1..k # {} /\ Max(1..k) = k /\ (1..k) \ {k} = 1..(k - 1)
    BY <1>1, Upto
  <2> DEFINE d == 1..k
  <2>2. d \in SUBSET (1..n) /\ d # {} /\ Max(d) = k /\ d \ {k} = 1..(k - 1)
    BY <2>1
  <2> HIDE DEF d
  <2>3. g[d] = Swapped(g[d \ {Max(d)}], sq[Max(d)])
    BY <1>1, <1>6, <2>2
  <2>4. sq[k] = k
    BY <1>1
  <2>5. g[d] = Swapped(g[1..(k - 1)], k)
    BY <2>2, <2>3, <2>4
  <2> QED BY <2>5 DEF d
<1>10. g[1..0] = s
  BY <1>1, <1>6, <1>8
<1>11. Pass(s, i) = g[1..n]
  BY <1>1, <1>7
<1> QED BY <1>9, <1>10, <1>11 DEF n

(* A pass takes the greatest of what is not settled to its end.             *)
LEMMA PassSettles ==
  ASSUME ArrayInv, NEW s \in Tables, Held(s, filled, entrusted), NEW i \in 1..(filled - 1),
         Settled(s, filled - i + 1)
  PROVE  Pass(s, i) \in Tables /\ Held(Pass(s, i), filled, entrusted) /\ Settled(Pass(s, i), filled - i)
<1> DEFINE L == Len(slots)
           f == filled
           n == f - i
           V == Elements \cup {0}
<1>1. L \in Nat /\ f \in Nat /\ f <= L /\ V \subseteq Nat /\ n \in 1..(f - 1) /\ n \in Nat
  BY ArrayIs, ListsAssumption DEF ListsAssumption
<1>2. PICK g : /\ Pass(s, i) = g[1..n] /\ g[1..0] = s
               /\ \A k \in 1..n : g[1..k] = Swapped(g[1..(k - 1)], k)
  BY PassFolds
<1> DEFINE Good(t, k) == /\ t \in Tables /\ Held(t, f, entrusted) /\ Settled(t, n + 1)
                         /\ \A a \in 1..k : t[a] <= t[k + 1]
           G == {k \in 0..n : Good(g[1..k], k)}
<1>3. 0 \in G
  <2>1. Good(s, 0)
    BY <1>1
  <2> HIDE DEF Good
  <2> QED BY <1>1, <1>2, <2>1
<1>4. ASSUME NEW k \in 1..n, k - 1 \in G
      PROVE  k \in G
  <2> DEFINE t == g[1..(k - 1)]
             u == Swapped(t, k)
  <2>1. Good(t, k - 1) /\ g[1..k] = u
    BY <1>2, <1>4
  <2>2. k \in 1..(f - 1) /\ t \in Tables /\ Held(t, f, entrusted) /\ k \in Nat /\ (k - 1) + 1 = k
    BY <1>1, <2>1
  <2> HIDE DEF t
  <2>3. /\ u \in Tables /\ Held(u, f, entrusted) /\ u[k] <= u[k + 1] /\ (u[k + 1] = t[k] \/ u[k + 1] = t[k + 1])
        /\ t[k] <= u[k + 1] /\ t[k + 1] <= u[k + 1]
        /\ \A a \in 1..L : a # k /\ a # k + 1 => u[a] = t[a]
    BY <2>2, SwapHolds
  <2>4. u[k] = t[k] \/ u[k] = t[k + 1]
    BY <2>2, SwapHolds
  <2> HIDE DEF u
  <2>5. (\A a \in 1..L : t[a] \in Nat /\ u[a] \in Nat) /\ k \in 1..L /\ k + 1 \in 1..L
    <3>1. t \in [1..L -> V] /\ u \in [1..L -> V]
      BY <2>2, <2>3 DEF Tables
    <3>2. k \in 1..L /\ k + 1 \in 1..L
      BY <1>1, <2>2
    <3>3. V \subseteq Nat
      BY <1>1
    <3> HIDE DEF L, V
    <3> QED BY <3>1, <3>2, <3>3
  <2>6. \A a \in 1..k : u[a] <= u[k + 1]
    <3> TAKE a \in 1..k
    <3>1. CASE a = k
      BY <2>3, <3>1
    <3>2. CASE a # k
      <4>1. a \in 1..(k - 1) /\ a \in 1..L /\ a # k + 1
        BY <1>1, <2>2, <3>2
      <4>2. t[a] <= t[(k - 1) + 1]
        BY <2>1, <4>1
      <4>3. u[a] = t[a] /\ t[a] <= t[k] /\ t[k] <= u[k + 1]
        BY <2>2, <2>3, <3>2, <4>1, <4>2
      <4>4. t[a] \in Nat /\ t[k] \in Nat /\ u[k + 1] \in Nat
        BY <2>5, <4>1
      <4> QED BY <4>3, <4>4
    <3> QED BY <3>1, <3>2
  <2>7. Settled(u, n + 1)
    <3> SUFFICES ASSUME NEW j \in (n + 1 + 1)..f, NEW a \in 1..(j - 1)
                 PROVE  u[a] <= u[j]
      BY DEF Settled
    <3>1. /\ j \in 1..L /\ j # k /\ j # k + 1 /\ a \in 1..L
          /\ k \in 1..(j - 1) /\ k + 1 \in 1..(j - 1)
      BY <1>1, <2>2
    <3>2. u[j] = t[j]
      BY <2>3, <3>1
    <3>3. \A c \in 1..(j - 1) : t[c] <= t[j]
      BY <2>1 DEF Settled
    <3>4. CASE a = k
      BY <2>4, <3>1, <3>2, <3>3, <3>4
    <3>5. CASE a = k + 1
      BY <2>3, <3>1, <3>2, <3>3, <3>5
    <3>6. CASE a # k /\ a # k + 1
      BY <2>3, <3>1, <3>2, <3>3, <3>6
    <3> QED BY <3>4, <3>5, <3>6
  <2>8. Good(u, k)
    BY <2>3, <2>6, <2>7
  <2> HIDE DEF Good
  <2> QED BY <2>1, <2>8
<1>5. n \in G
  <2> HIDE DEF G
  <2>1. \A k \in 0..n : k \in G
    BY <1>1, <1>3, <1>4, ZeroToLast
  <2> QED BY <1>1, <2>1
<1> DEFINE p == Pass(s, i)
<1>6. Good(p, n)
  BY <1>2, <1>5
<1> HIDE DEF p
<1>7. Settled(p, n)
  <2> SUFFICES ASSUME NEW j \in (n + 1)..f, NEW a \in 1..(j - 1)
               PROVE  p[a] <= p[j]
    BY DEF Settled
  <2>1. CASE j = n + 1
    <3>1. a \in 1..n
      BY <1>1, <2>1
    <3> QED BY <1>6, <2>1, <3>1
  <2>2. CASE j # n + 1
    <3>1. j \in (n + 1 + 1)..f
      BY <1>1, <2>2
    <3> QED BY <1>6, <3>1 DEF Settled
  <2> QED BY <2>1, <2>2
<1>8. p \in Tables /\ Held(p, filled, entrusted) /\ Settled(p, filled - i)
  BY <1>6, <1>7
<1> QED BY <1>8 DEF p

(* The sort is a fold of the passes.                                        *)
Passes == [q \in Tables \X (1..(filled - 1)) |-> Pass(q[1], q[2])]

LEMMA PassTyped ==
  ASSUME ArrayInv, NEW s \in Tables, NEW i \in 1..(filled - 1)
  PROVE  Pass(s, i) \in Tables
<1> DEFINE n == filled - i
<1>1. n \in Nat /\ n <= Len(slots) - 1 /\ Len(slots) \in Nat /\ filled \in Nat
  BY ArrayIs
<1>2. PICK g : /\ Pass(s, i) = g[1..n] /\ g[1..0] = s
               /\ \A k \in 1..n : g[1..k] = Swapped(g[1..(k - 1)], k)
  BY PassFolds
<1> DEFINE G == {k \in 0..n : g[1..k] \in Tables}
<1>3. 0 \in G
  BY <1>1, <1>2
<1>4. ASSUME NEW k \in 1..n, k - 1 \in G
      PROVE  k \in G
  <2> DEFINE t == g[1..(k - 1)]
  <2>1. t \in Tables /\ g[1..k] = Swapped(t, k) /\ k \in 1..(Len(slots) - 1)
    BY <1>1, <1>2, <1>4
  <2> HIDE DEF t
  <2>2. Swapped(t, k) \in Tables
    BY <1>1, <2>1, SwappedIs DEF Tables
  <2> QED BY <2>1, <2>2
<1> HIDE DEF G
<1>5. \A k \in 0..n : k \in G
  BY <1>1, <1>3, <1>4, ZeroToLast
<1>6. n \in G
  BY <1>1, <1>5
<1> QED BY <1>2, <1>6 DEF G

LEMMA SortFolds ==
  ASSUME ArrayInv, filled > 1
  PROVE  \E g : /\ BubbleSorted = g[1..(filled - 1)] /\ g[1..0] = slots
                /\ \A k \in 1..(filled - 1) : g[1..k] = Pass(g[1..(k - 1)], k)
<1> DEFINE n == filled - 1
           s == slots
           sq == [j \in 1..(filled - 1) |-> j]
           step == Passes
           Picks(g) == g = [d \in SUBSET DOMAIN sq |->
                              IF d = {} THEN slots ELSE Pass(g[d \ {Max(d)}], sq[Max(d)])]
<1>1. n \in Nat /\ DOMAIN sq = 1..n /\ (\A k \in 1..n : sq[k] = k) /\ slots \in Tables
  BY ArrayIs DEF Tables
<1>2. \A t \in Tables, k \in 1..n : step[<<t, k>>] = Pass(t, k) /\ Pass(t, k) \in Tables
  <2> TAKE t \in Tables, k \in 1..n
  <2>1. Pass(t, k) \in Tables
    BY PassTyped
  <2> QED BY <2>1 DEF Passes
<1>3. step \in [Tables \X (1..n) -> Tables]
  <2>2. \A q \in Tables \X (1..n) : Pass(q[1], q[2]) \in Tables
    BY <1>2
  <2> QED BY <2>2 DEF Passes
<1>4. PICK h \in [SUBSET (1..n) -> Tables] : Folding(h, slots, step, SUBSET (1..n))
  <2> HIDE DEF step, n
  <2> QED BY <1>1, <1>3, FoldingExists
<1>5. Picks(h)
  <2> HIDE DEF step, n, sq
  <2>1. \A d \in SUBSET (1..n) : d # {} => Max(d) \in 1..n /\ d \ {Max(d)} \in SUBSET (1..n)
    <3> TAKE d \in SUBSET (1..n)
    <3>1. d \in SUBSET (0..n)
      BY <1>1
    <3> QED BY <1>1, <3>1, MaxIs
  <2>2. \A d \in SUBSET (1..n) : d # {} =>
          step[<<h[d \ {Max(d)}], Max(d)>>] = Pass(h[d \ {Max(d)}], sq[Max(d)])
    BY <1>1, <1>2, <1>4, <2>1
  <2> QED BY <1>1, <1>4, <2>2 DEF Folding
<1> DEFINE g == CHOOSE g : Picks(g)
<1>6. Picks(g)
  <2> HIDE DEF Picks
  <2> QED BY <1>5
<1>7. BubbleSorted = g[DOMAIN sq]
  BY DEF BubbleSorted, FoldLeft, MapThenFoldSet
<1> HIDE DEF g, step
<1>8. 1..0 \in SUBSET (1..n) /\ 1..0 = {}
  OBVIOUS
<1> HIDE DEF n, sq
<1>9. ASSUME NEW k \in 1..n
      PROVE  g[1..k] = Pass(g[1..(k - 1)], k)
  <2>1. 1..k \in SUBSET (1..n) /\ 1..k # {} /\ Max(1..k) = k /\ (1..k) \ {k} = 1..(k - 1)
    BY <1>1, Upto
  <2> DEFINE d == 1..k
  <2>2. d \in SUBSET (1..n) /\ d # {} /\ Max(d) = k /\ d \ {k} = 1..(k - 1)
    BY <2>1
  <2> HIDE DEF d
  <2>3. g[d] = Pass(g[d \ {Max(d)}], sq[Max(d)])
    BY <1>1, <1>6, <2>2
  <2>4. sq[k] = k
    BY <1>1
  <2>5. g[d] = Pass(g[1..(k - 1)], k)
    BY <2>2, <2>3, <2>4
  <2> QED BY <2>5 DEF d
<1>10. g[1..0] = slots
  BY <1>1, <1>6, <1>8
<1>11. BubbleSorted = g[1..n]
  BY <1>1, <1>7
<1> QED BY <1>9, <1>10, <1>11 DEF n

LEMMA SortIs ==
  ASSUME ArrayInv, filled > 1
  PROVE  BubbleSorted \in Tables /\ Held(BubbleSorted, filled, entrusted) /\ Settled(BubbleSorted, 1)
<1> DEFINE f == filled
           n == f - 1
<1>1. f \in Nat /\ n \in Nat /\ f <= Len(slots) /\ Len(slots) \in Nat
  BY ArrayIs
<1>2. PICK g : /\ BubbleSorted = g[1..n] /\ g[1..0] = slots
               /\ \A k \in 1..n : g[1..k] = Pass(g[1..(k - 1)], k)
  BY SortFolds
<1> DEFINE Good(t, k) == t \in Tables /\ Held(t, f, entrusted) /\ Settled(t, f - k)
           G == {k \in 0..n : Good(g[1..k], k)}
<1>3. 0 \in G
  <2>1. f - 0 = f /\ Settled(slots, f)
    BY <1>1 DEF Settled
  <2>2. slots \in Tables /\ Held(slots, f, entrusted)
    BY ArrayIs DEF Tables, ArrayInv
  <2> DEFINE s == slots
  <2>3. Good(s, 0)
    BY <2>1, <2>2
  <2> HIDE DEF Good
  <2> QED BY <1>1, <1>2, <2>3
<1>4. ASSUME NEW k \in 1..n, k - 1 \in G
      PROVE  k \in G
  <2> DEFINE t == g[1..(k - 1)]
  <2>1. Good(t, k - 1) /\ g[1..k] = Pass(t, k)
    BY <1>2, <1>4
  <2> HIDE DEF t
  <2>2. k \in 1..(filled - 1) /\ f - (k - 1) = filled - k + 1
    BY <1>1
  <2>3. t \in Tables /\ Held(t, filled, entrusted) /\ Settled(t, filled - k + 1)
    BY <2>1, <2>2
  <2>4. Pass(t, k) \in Tables /\ Held(Pass(t, k), filled, entrusted) /\ Settled(Pass(t, k), filled - k)
    BY <2>2, <2>3, PassSettles
  <2> DEFINE u == Pass(t, k)
  <2>5. Good(u, k) /\ g[1..k] = u
    BY <2>1, <2>4
  <2> HIDE DEF u, Good
  <2> QED BY <2>5
<1>5. n \in G
  <2> HIDE DEF G
  <2>1. \A k \in 0..n : k \in G
    BY <1>1, <1>3, <1>4, ZeroToLast
  <2> QED BY <1>1, <2>1
<1>6. f - n = 1
  BY <1>1
<1> QED BY <1>2, <1>5, <1>6

LEMMA SortArrayStep ==
  ASSUME ArrayInv, SortArray
  PROVE  ArrayInv'
<1> DEFINE V == Elements \cup {0}
           b == BubbleSorted
<1>1. /\ filled > 1 /\ slots' = b /\ filled' = filled /\ entrusted' = entrusted /\ released' = released
  BY DEF SortArray
<1>2. b \in Tables /\ Held(b, filled, entrusted) /\ Len(slots) \in Nat
  BY <1>1, SortIs, ArrayIs
<1> HIDE DEF b
<1>3. b \in Seq(V) /\ Len(b) = Len(slots)
  BY <1>2, TableIs DEF Tables
<1> QED BY <1>1, <1>2, <1>3 DEF ArrayInv

LEMMA ArrayKeeps == ArrayInv /\ UNCHANGED arrayVars => ArrayInv'
BY DEF ArrayInv, arrayVars

LEMMA ArraySlots == ArrayInv => SlotsExact
<1> SUFFICES ASSUME ArrayInv
             PROVE  SlotsExact
  OBVIOUS
<1> DEFINE f == filled
           g == [i \in 1..f |-> slots[i]]
<1>1. f \in Nat
  BY ArrayIs
<1>2. /\ \A i \in 1..f : slots[i] \in entrusted
      /\ \A i, j \in 1..f : slots[i] = slots[j] => i = j
      /\ \A e \in entrusted : \E i \in 1..f : slots[i] = e
      /\ \A i \in (f + 1)..Len(slots) : slots[i] = 0
      /\ entrusted \cap released = {}
  BY DEF ArrayInv, Held
<1>3. {slots[i] : i \in 1..f} = entrusted
  BY <1>2
<1>4. Cardinality(entrusted) = f
  <2>1. g \in [1..f -> entrusted] /\ \A i \in 1..f : g[i] = slots[i]
    BY <1>2
  <2> HIDE DEF g
  <2>2. g \in Bijection(1..f, entrusted)
    BY <1>2, <2>1 DEF Bijection, Injection, Surjection, IsInjective
  <2>3. 1 \in Int /\ f \in Int /\ IsFiniteSet(1..f) /\ Cardinality(1..f) = f
    BY <1>1, FS_Interval
  <2>4. ExistsBijection(1..f, entrusted)
    BY <2>2 DEF ExistsBijection
  <2> QED BY <2>3, <2>4, FS_Bijection
<1> QED BY <1>2, <1>3, <1>4 DEF SlotsExact

LEMMA ArraySorts == ArrayInv => SortSorts
<1> SUFFICES ASSUME ArrayInv, filled > 1
             PROVE  /\ \A i \in 1..(filled - 1) : BubbleSorted[i] <= BubbleSorted[i + 1]
                    /\ {BubbleSorted[i] : i \in 1..filled} = entrusted
  BY DEF SortSorts
<1> DEFINE b == BubbleSorted
<1>1. b \in Tables /\ Held(b, filled, entrusted) /\ Settled(b, 1) /\ filled \in Nat
  BY SortIs, ArrayIs
<1> HIDE DEF b
<1>2. {b[i] : i \in 1..filled} = entrusted
  BY <1>1 DEF Held
<1>3. ASSUME NEW i \in 1..(filled - 1)
      PROVE  b[i] <= b[i + 1]
  <2>1. i + 1 \in (1 + 1)..filled /\ i \in 1..((i + 1) - 1)
    BY <1>1
  <2> QED BY <1>1, <2>1 DEF Settled
<1> QED BY <1>2, <1>3 DEF b
-----------------------------------------------------------------------------
ListsInv == ListInv /\ ArrayInv

LEMMA ListsSteps == ListsInv /\ [ListsNext]_listsVars => ListsInv'
<1> SUFFICES ASSUME ListsInv, [ListsNext]_listsVars
             PROVE  ListsInv'
  OBVIOUS
<1>1. ListInv /\ ArrayInv
  BY DEF ListsInv
<1>2. UNCHANGED listVars => ListInv'
  BY <1>1 DEF ListInv, listVars
<1>3. UNCHANGED arrayVars => ArrayInv'
  BY <1>1, ArrayKeeps
<1>4. ASSUME NEW n \in ListNodes, AppendNode(n)
      PROVE  ListsInv'
  <2>1. ListInv'
    BY <1>1, <1>4, AppendStep
  <2> QED BY <1>3, <1>4, <2>1 DEF AppendNode, ListsInv
<1>5. ASSUME NEW n \in ListNodes, RemoveNode(n)
      PROVE  ListsInv'
  <2>1. ListInv'
    BY <1>1, <1>5, RemoveNodeStep
  <2> QED BY <1>3, <1>5, <2>1 DEF RemoveNode, ListsInv
<1>6. CASE PopFront
  <2>1. ListInv'
    BY <1>1, <1>6, PopFrontStep
  <2> QED BY <1>3, <1>6, <2>1 DEF PopFront, ListsInv
<1>7. CASE PopBack
  <2>1. ListInv'
    BY <1>1, <1>7, PopBackStep
  <2> QED BY <1>3, <1>7, <2>1 DEF PopBack, ListsInv
<1>8. CASE BeginListWalk \/ EndListWalk \/ StepListWalk
  <2>1. ListInv'
    BY <1>1, <1>8, ListWalks
  <2>2. UNCHANGED arrayVars
    BY <1>8 DEF BeginListWalk, EndListWalk, StepListWalk
  <2> QED BY <1>3, <2>1, <2>2 DEF ListsInv
<1>9. ASSUME NEW at \in 1..MaxSlots, RemoveElement(at)
      PROVE  ListsInv'
  <2>1. ArrayInv'
    BY <1>1, <1>9, RemoveElementStep
  <2> QED BY <1>2, <1>9, <2>1 DEF RemoveElement, ListsInv
<1>10. ASSUME NEW at \in 1..MaxSlots, NEW e \in Elements, InsertElement(at, e)
      PROVE  ListsInv'
  <2>1. ArrayInv'
    BY <1>1, <1>10, InsertElementStep
  <2> QED BY <1>2, <1>10, <2>1 DEF InsertElement, ListsInv
<1>11. ASSUME NEW at \in 1..MaxSlots, NEW e \in Elements, PutElement(at, e)
      PROVE  ListsInv'
  <2>1. ArrayInv'
    BY <1>1, <1>11, PutElementStep
  <2> QED BY <1>2, <1>11, <2>1 DEF PutElement, ListsInv
<1>12. CASE PopElement
  <2>1. ArrayInv'
    BY <1>1, <1>12, PopElementStep
  <2> QED BY <1>2, <1>12, <2>1 DEF PopElement, ListsInv
<1>13. CASE ClearArray
  <2>1. ArrayInv'
    BY <1>1, <1>13, ClearArrayStep
  <2> QED BY <1>2, <1>13, <2>1 DEF ClearArray, ListsInv
<1>14. CASE SortArray
  <2>1. ArrayInv'
    BY <1>1, <1>14, SortArrayStep
  <2> QED BY <1>2, <1>14, <2>1 DEF SortArray, ListsInv
<1>15. CASE UNCHANGED listsVars
  BY <1>2, <1>3, <1>15 DEF listsVars, ListsInv
<1> QED BY <1>4, <1>5, <1>6, <1>7, <1>8, <1>9, <1>10, <1>11, <1>12, <1>13, <1>14, <1>15 DEF ListsNext

(* The list's links, both ways, are its sequence, an iterator stands before *)
(* an end of that, and the array's first slots hold what was given to it.   *)
THEOREM ListsInvariance == ListsInit /\ [][ListsNext]_listsVars => []ListsInv
<1>1. ListsInit => ListsInv
  BY ListStart, ArrayStart DEF ListsInv
<1> QED BY <1>1, ListsSteps, PTL

LEMMA EndsAreSuffixes ==
  ASSUME NEW X, NEW d \in Seq(X), NEW s \in Seq(X), EndOf(d, s)
  PROVE  IsSuffix(d, s)
<1> DEFINE c == Len(d)
           m == Len(s)
           rd == Reverse(d)
           rs == Reverse(s)
<1>1. c \in Nat /\ m \in Nat /\ c <= m /\ (\A i \in 1..c : d[i] = s[m - c + i])
      /\ (\A i \in 1..c : d[i] \in X) /\ \A i \in 1..m : s[i] \in X
  BY LenProperties DEF EndOf
<1>2. rd = [i \in 1..c |-> d[(c - i) + 1]] /\ rs = [i \in 1..m |-> s[(m - i) + 1]]
  BY DEF Reverse
<1> HIDE DEF c, m, rd, rs
<1>3. (\A i \in 1..c : (c - i) + 1 \in 1..c) /\ \A i \in 1..m : (m - i) + 1 \in 1..m
  BY <1>1
<1>4. rd \in [1..c -> X] /\ rs \in [1..m -> X]
  BY <1>1, <1>2, <1>3
<1>5. rd \in Seq(X) /\ Len(rd) = c
  BY <1>1, <1>4, TableIs
<1>6. rs \in Seq(X) /\ Len(rs) = m
  BY <1>1, <1>4, TableIs
<1>7. ASSUME NEW i \in 1..c
      PROVE  rd[i] = rs[i]
  <2>1. i \in 1..m /\ (c - i) + 1 \in 1..c /\ m - c + ((c - i) + 1) = (m - i) + 1
    BY <1>1
  <2>2. rd[i] = d[(c - i) + 1] /\ rs[i] = s[(m - i) + 1]
    BY <1>2, <2>1
  <2>3. d[(c - i) + 1] = s[m - c + ((c - i) + 1)]
    BY <1>1, <2>1
  <2> QED BY <2>1, <2>2, <2>3
<1>8. SubSeq(rd, 1, c) = SubSeq(rs, 1, c)
  <2> DEFINE p == SubSeq(rd, 1, c)
             q == SubSeq(rs, 1, c)
  <2>1. /\ 1 \in 1..(Len(rd) + 1) /\ c \in (1 - 1)..Len(rd) /\ 1 \in 1..(Len(rs) + 1) /\ c \in (1 - 1)..Len(rs)
        /\ c - 1 + 1 = c /\ \A i \in 1..c : 1 + i - 1 = i
    BY <1>1, <1>5, <1>6
  <2>2. p \in Seq(X) /\ Len(p) = c /\ \A i \in 1..c : p[i] = rd[i]
    BY <1>5, <2>1, SubSeqProperties
  <2>3. q \in Seq(X) /\ Len(q) = c /\ \A i \in 1..c : q[i] = rs[i]
    BY <1>6, <2>1, SubSeqProperties
  <2> HIDE DEF p, q
  <2>4. p = q
    BY <1>7, <2>2, <2>3, SeqEqual
  <2> QED BY <2>4 DEF p, q
<1>9. IsPrefix(rd, rs)
  BY <1>1, <1>5, <1>6, <1>8 DEF IsPrefix
<1> QED BY <1>9 DEF IsSuffix, rd, rs

LEMMA ListAgrees == ListInv => LinksAgree /\ WalkInOrder
<1> SUFFICES ASSUME ListInv
             PROVE  LinksAgree /\ WalkInOrder
  OBVIOUS
<1> DEFINE s == sequence
           m == Len(s)
<1>1. /\ sequence \in Seq(ListNodes) /\ Linked = ToSet(s) /\ chain.size = m
      /\ chain.head = (IF m = 0 THEN 0 ELSE s[1]) /\ chain.tail = (IF m = 0 THEN 0 ELSE s[m])
  <2>1. ChainedAs(s, chain) /\ s \in Seq(ListNodes)
    BY DEF ListInv
  <2>2. Linked = ToSet(s)
    BY ListIs
  <2> HIDE DEF s
  <2>3. chain.size = m /\ chain.head = FirstOf(s) /\ chain.tail = LastOf(s)
    BY <2>1 DEF ChainedAs
  <2>4. chain.head = (IF m = 0 THEN 0 ELSE s[1]) /\ chain.tail = (IF m = 0 THEN 0 ELSE s[m])
    BY <2>3 DEF FirstOf, LastOf
  <2> QED BY <2>1, <2>2, <2>3, <2>4 DEF s
<1>2. ASSUME NEW i \in 1..m
      PROVE  links[s[i]] = [prev |-> IF i = 1 THEN 0 ELSE s[i - 1], next |-> IF i = m THEN 0 ELSE s[i + 1]]
  <2> DEFINE a == PrevIn(s, i)
             b == NextIn(s, i)
             l == links[s[i]]
  <2>1. l \in NodeLinks /\ l.prev = a /\ l.next = b
    BY NodeAt
  <2> HIDE DEF a, b, l
  <2>2. l = [prev |-> a, next |-> b]
    BY <2>1 DEF NodeLinks
  <2> QED BY <2>2 DEF a, b, l, PrevIn, NextIn
<1>3. LinksAgree
  BY <1>1, <1>2 DEF LinksAgree
<1>4. WalkInOrder
  <2> SUFFICES ASSUME walker.on, ~walker.astray
               PROVE  /\ walker.current = (IF walker.due = <<>> THEN 0 ELSE Head(walker.due))
                      /\ IsSuffix(walker.due, sequence)
    BY DEF WalkInOrder
  <2> DEFINE d == walker.due
  <2>1. d \in Seq(ListNodes) /\ EndOf(d, sequence) /\ walker.current = FirstOf(d)
    BY DEF ListInv, WalkerOK, Walkers
  <2> HIDE DEF d
  <2>2. IsSuffix(d, sequence)
    BY <1>1, <2>1, EndsAreSuffixes
  <2>3. FirstOf(d) = (IF d = <<>> THEN 0 ELSE Head(d))
    <3>1. Len(d) = 0 <=> d = <<>>
      BY <2>1, EmptySeq
    <3>2. d # <<>> => Head(d) = d[1]
      BY <2>1, HeadTailProperties
    <3> QED BY <3>1, <3>2 DEF FirstOf
  <2> QED BY <2>1, <2>2, <2>3 DEF d
<1> QED BY <1>3, <1>4

(* Every step leaves the links in agreement with the order, both ways, and  *)
(* a walk returns each node once and in order.                              *)
THEOREM ListsWalk == ListsInit /\ [][ListsNext]_listsVars => [](LinksAgree /\ WalkInOrder)
<1>1. ListsInv => LinksAgree /\ WalkInOrder
  BY ListAgrees DEF ListsInv
<1> QED BY <1>1, ListsInvariance, PTL

(* The array keeps what it is given, and sorting it orders that, whatever   *)
(* it holds.                                                                *)
THEOREM ArraysKeepAndSort == ListsInit /\ [][ListsNext]_listsVars => [](SlotsExact /\ SortSorts)
<1>1. ListsInv => SlotsExact /\ SortSorts
  BY ArraySlots, ArraySorts DEF ListsInv
<1> QED BY <1>1, ListsInvariance, PTL

(* The list and the array are well typed.                                   *)
THEOREM ListsTypeCorrect == ListsInit /\ [][ListsNext]_listsVars => []ListsTypeOK
<1>1. ASSUME ListsInv
      PROVE  ListsTypeOK
  <2>1. Linked \subseteq ListNodes
    BY <1>1, ListIs DEF ListsInv
  <2>2. chain.size \in Nat /\ {chain.head, chain.tail, walker.current} \subseteq ListNodes \cup {0}
    <3>1. chain \in Chains /\ walker \in Walkers
      BY <1>1 DEF ListsInv, ListInv, ChainedAs, WalkerOK
    <3> QED BY <3>1 DEF Chains, Walkers
  <2>3. filled \in 0..Len(slots) /\ Len(slots) <= MaxSlots /\ released \cup entrusted \subseteq Elements
    BY <1>1 DEF ListsInv, ArrayInv
  <2> QED BY <2>1, <2>2, <2>3 DEF ListsTypeOK
<1> QED BY <1>1, ListsInvariance, PTL

-----------------------------------------------------------------------------
(* Hash maps.                                                               *)

MapNodes == [key : MapKeys, value : MapValues]
Home(n, k) == (Hashed[k] % n) + 1

(* What the calls say is a function, of finitely many keys.                 *)
ContentOK(c) ==
  /\ c = [k \in DOMAIN c |-> c[k]] /\ DOMAIN c \in SUBSET MapKeys /\ IsFiniteSet(DOMAIN c)
  /\ \A k \in DOMAIN c : c[k] \in MapValues

(* A table of n buckets holds c: each node is in its key's bucket with the  *)
(* key's value, and each key has one.                                       *)
KeyedAs(t, n, c) ==
  \A b \in 1..n : \A i \in 1..Len(t[b]) :
    /\ t[b][i].key \in DOMAIN c /\ t[b][i].value = c[t[b][i].key]
    /\ Home(n, t[b][i].key) = b

KeysOnce(t, n) ==
  \A b \in 1..n : \A i, j \in 1..Len(t[b]) : t[b][i].key = t[b][j].key => i = j

KeysThere(t, n, c) ==
  \A k \in DOMAIN c : \E i \in 1..Len(t[Home(n, k)]) : t[Home(n, k)][i].key = k

Chained(t, n, c) ==
  /\ t \in [1..n -> Seq(MapNodes)]
  /\ KeyedAs(t, n, c) /\ KeysOnce(t, n) /\ KeysThere(t, n, c)

LEMMA HomeIs ==
  ASSUME HashMapsAssumption, NEW n \in Nat \ {0}, NEW k \in MapKeys
  PROVE  Home(n, k) \in 1..n
<1>1. Hashed[k] \in Nat
  BY DEF HashMapsAssumption, MapKeys
<1> DEFINE h == Hashed[k]
<1>2. h \in Nat
  BY <1>1
<1> HIDE DEF h
<1>3. h % n \in 0..(n - 1)
  BY <1>2
<1> QED BY <1>3 DEF Home, h

LEMMA BucketIs ==
  ASSUME HashMapsAssumption, NEW n \in Nat \ {0}, NEW t \in [1..n -> Seq(MapNodes)]
  PROVE  Len(t) = n /\ \A k : Bucket(t, k) = Home(n, k)
<1>1. Len(t) = n
  BY TableIs, LenProperties
<1> QED BY <1>1 DEF Bucket, Home

(* A key that is looked up is found where its node is.                      *)
LEMMA LookedUp ==
  ASSUME HashMapsAssumption, NEW n \in Nat \ {0}, NEW t, NEW c, Chained(t, n, c), NEW k \in MapKeys
  PROVE  /\ HasKey(t, k) <=> k \in DOMAIN c
         /\ \A i \in 1..Len(t[Home(n, k)]) : t[Home(n, k)][i].key = k =>
              PlaceOf(t, k) = i /\ Got(t, k) = c[k]
         /\ k \in DOMAIN c => PlaceOf(t, k) \in 1..Len(t[Home(n, k)]) /\ t[Home(n, k)][PlaceOf(t, k)].key = k
<1> DEFINE b == Home(n, k)
           s == t[b]
<1>1. t \in [1..n -> Seq(MapNodes)] /\ b \in 1..n /\ Bucket(t, k) = b
  BY HomeIs, BucketIs DEF Chained
<1>2. s \in Seq(MapNodes) /\ DOMAIN s = 1..Len(s) /\ Len(s) \in Nat
  BY <1>1, LenProperties
<1>3. Position(t, k) = {i \in 1..Len(s) : s[i].key = k}
  BY <1>1, <1>2 DEF Position
<1>4. \A i \in 1..Len(s) : s[i].key \in DOMAIN c /\ s[i].value = c[s[i].key]
  BY <1>1 DEF Chained, KeyedAs
<1>5. \A i, j \in 1..Len(s) : s[i].key = s[j].key => i = j
  BY <1>1 DEF Chained, KeysOnce
<1>6. k \in DOMAIN c => \E i \in 1..Len(s) : s[i].key = k
  BY DEF Chained, KeysThere
<1>7. ASSUME NEW i \in 1..Len(s), s[i].key = k
      PROVE  PlaceOf(t, k) = i /\ Got(t, k) = c[k]
  <2>1. Position(t, k) = {i}
    BY <1>3, <1>5, <1>7
  <2>2. PlaceOf(t, k) = i
    BY <2>1, <1>2 DEF PlaceOf
  <2> QED BY <2>2, <1>1, <1>4, <1>7 DEF Got
<1>8. HasKey(t, k) <=> k \in DOMAIN c
  BY <1>3, <1>4, <1>6 DEF HasKey
<1>9. ASSUME k \in DOMAIN c
      PROVE  PlaceOf(t, k) \in 1..Len(s) /\ s[PlaceOf(t, k)].key = k
  BY <1>6, <1>7, <1>9
<1> QED BY <1>7, <1>8, <1>9

Extended(c, k, v) == [l \in DOMAIN c \cup {k} |-> IF l = k THEN v ELSE c[l]]

LEMMA PutBefore ==
  ASSUME NEW X, NEW e \in X, NEW s \in Seq(X)
  PROVE  /\ <<e>> \o s \in Seq(X) /\ Len(<<e>> \o s) = Len(s) + 1
         /\ \A i \in 1..(Len(s) + 1) : (<<e>> \o s)[i] = IF i = 1 THEN e ELSE s[i - 1]
<1> DEFINE one == <<e>>
<1>1. one \in Seq(X) /\ Len(one) = 1 /\ one[1] = e
  OBVIOUS
<1>2. Len(s) \in Nat
  BY LenProperties
<1> HIDE DEF one
<1>3. /\ one \o s \in Seq(X) /\ Len(one \o s) = 1 + Len(s)
      /\ \A i \in 1..(1 + Len(s)) : (one \o s)[i] = IF i <= 1 THEN one[i] ELSE s[i - 1]
  <2>1. /\ one \o s \in Seq(X) /\ Len(one \o s) = Len(one) + Len(s)
        /\ \A i \in 1..(Len(one) + Len(s)) :
             (one \o s)[i] = IF i <= Len(one) THEN one[i] ELSE s[i - Len(one)]
    <3>1. one \in Seq(X)
      BY <1>1
    <3> QED BY <3>1, Joined
  <2>2. Len(one) = 1
    BY <1>1
  <2> QED BY <2>1, <2>2
<1>4. \A i \in 1..(Len(s) + 1) : (one \o s)[i] = IF i = 1 THEN e ELSE s[i - 1]
  BY <1>1, <1>2, <1>3
<1>5. Len(one \o s) = Len(s) + 1
  BY <1>2, <1>3
<1> QED BY <1>3, <1>4, <1>5 DEF one

(* A node with a new key comes first in its bucket; the others move behind. *)
LEMMA NewNode ==
  ASSUME HashMapsAssumption, NEW n \in Nat \ {0}, NEW t, NEW c, Chained(t, n, c),
         DOMAIN c \in SUBSET MapKeys, NEW e \in MapNodes, e.key \notin DOMAIN c
  PROVE  /\ Chained(PutFirst(t, e), n, Extended(c, e.key, e.value))
         /\ \A l \in DOMAIN c :
              PlaceOf(PutFirst(t, e), l) = PlaceOf(t, l) + (IF Home(n, l) = Home(n, e.key) THEN 1 ELSE 0)
<1> DEFINE k == e.key
           b == Home(n, k)
           s == t[b]
           r == <<e>> \o s
           u == PutFirst(t, e)
           d == Extended(c, k, e.value)
<1>1. /\ t \in [1..n -> Seq(MapNodes)] /\ k \in MapKeys /\ b \in 1..n /\ Bucket(t, k) = b
      /\ s \in Seq(MapNodes) /\ Len(s) \in Nat
  <2>1. k \in MapKeys /\ t \in [1..n -> Seq(MapNodes)]
    BY DEF MapNodes, Chained
  <2>2. b \in 1..n
    BY <2>1, HomeIs
  <2>3. Bucket(t, k) = b
    BY <2>1, BucketIs
  <2> QED BY <2>1, <2>2, <2>3, LenProperties
<1>2. /\ r \in Seq(MapNodes) /\ Len(r) = Len(s) + 1
      /\ \A i \in 1..(Len(s) + 1) : r[i] = IF i = 1 THEN e ELSE s[i - 1]
  BY <1>1, PutBefore
<1>3. u = [t EXCEPT ![b] = r]
  BY <1>1 DEF PutFirst
<1> HIDE DEF r
<1>4. u \in [1..n -> Seq(MapNodes)] /\ u[b] = r /\ \A a \in 1..n : a # b => u[a] = t[a]
  BY <1>1, <1>2, <1>3
<1>5. DOMAIN d = DOMAIN c \cup {k} /\ d[k] = e.value /\ \A l \in DOMAIN c : l # k /\ d[l] = c[l]
  BY DEF Extended
<1>6. \A a \in 1..n : \A i \in 1..Len(t[a]) :
        t[a][i].key \in DOMAIN c /\ t[a][i].value = c[t[a][i].key] /\ Home(n, t[a][i].key) = a
  BY DEF Chained, KeyedAs
<1>7. \A a \in 1..n : \A i, j \in 1..Len(t[a]) : t[a][i].key = t[a][j].key => i = j
  BY DEF Chained, KeysOnce
<1>8. \A l \in DOMAIN c : \E i \in 1..Len(t[Home(n, l)]) : t[Home(n, l)][i].key = l
  BY DEF Chained, KeysThere
<1>9. \A l \in DOMAIN c : Home(n, l) \in 1..n
  BY HomeIs
<1>16. \A i \in 1..Len(s) : s[i].key \in DOMAIN c /\ s[i].value = c[s[i].key] /\ Home(n, s[i].key) = b /\ s[i].key # k
  BY <1>1, <1>6
<1>17. \A i, j \in 1..Len(s) : s[i].key = s[j].key => i = j
  BY <1>1, <1>7
<1> HIDE DEF u, d
<1>10. KeyedAs(u, n, d)
  <2> SUFFICES ASSUME NEW a \in 1..n, NEW i \in 1..Len(u[a])
               PROVE  u[a][i].key \in DOMAIN d /\ u[a][i].value = d[u[a][i].key] /\ Home(n, u[a][i].key) = a
    BY DEF KeyedAs
  <2>1. CASE a = b /\ i = 1
    BY <1>2, <1>4, <1>5, <2>1
  <2>2. CASE a = b /\ i # 1
    <3>1. i - 1 \in 1..Len(s) /\ u[a][i] = s[i - 1]
      BY <1>1, <1>2, <1>4, <2>2
    <3> HIDE DEF s, b, k
    <3>2. s[i - 1].key \in DOMAIN c /\ s[i - 1].value = c[s[i - 1].key] /\ Home(n, s[i - 1].key) = b
      BY <1>16, <3>1
    <3> QED BY <1>5, <2>2, <3>1, <3>2
  <2>3. CASE a # b
    BY <1>4, <1>5, <1>6, <2>3
  <2> QED BY <2>1, <2>2, <2>3
<1>11. KeysOnce(u, n)
  <2> SUFFICES ASSUME NEW a \in 1..n, NEW i \in 1..Len(u[a]), NEW j \in 1..Len(u[a]), u[a][i].key = u[a][j].key
               PROVE  i = j
    BY DEF KeysOnce
  <2>1. CASE a = b
    <3>2. i \in 1..Len(r) /\ j \in 1..Len(r) /\ r[i].key = r[j].key
      BY <1>1, <1>2, <1>4, <2>1
    <3>5. r[1] = e
      BY <1>1, <1>2
    <3> HIDE DEF s, b
    <3>1. \A h \in 1..Len(r) : h = 1 \/ (h - 1 \in 1..Len(s) /\ r[h] = s[h - 1] /\ s[h - 1].key # k)
      <4> TAKE h \in 1..Len(r)
      <4>1. h = 1 \/ (h - 1 \in 1..Len(s) /\ r[h] = s[h - 1])
        BY <1>1, <1>2
      <4> QED BY <1>16, <4>1
    <3>3. CASE i = 1 \/ j = 1
      BY <3>1, <3>2, <3>3, <3>5
    <3>4. CASE i # 1 /\ j # 1
      <4>1. i - 1 \in 1..Len(s) /\ j - 1 \in 1..Len(s) /\ s[i - 1].key = s[j - 1].key
        BY <3>1, <3>2, <3>4
      <4>2. i - 1 = j - 1
        BY <1>17, <4>1
      <4> QED BY <4>2, <3>2, <1>1, <1>2
    <3> QED BY <3>3, <3>4
  <2>2. CASE a # b
    BY <1>4, <1>7, <2>2
  <2> QED BY <2>1, <2>2
<1>12. ASSUME NEW l \in DOMAIN c, NEW i \in 1..Len(t[Home(n, l)]), t[Home(n, l)][i].key = l
       PROVE  LET j == i + (IF Home(n, l) = b THEN 1 ELSE 0)
              IN  j \in 1..Len(u[Home(n, l)]) /\ u[Home(n, l)][j].key = l
  <2>1. CASE Home(n, l) = b
    <3>1. i + 1 \in 1..Len(r) /\ r[i + 1] = s[i]
      BY <1>1, <1>2, <1>12, <2>1
    <3> QED BY <1>4, <1>12, <2>1, <3>1
  <2>2. CASE Home(n, l) # b
    <3>1. i + 0 = i
      BY <1>1, <1>9, LenProperties
    <3> QED BY <1>4, <1>9, <1>12, <2>2, <3>1
  <2> QED BY <2>1, <2>2
<1>13. KeysThere(u, n, d)
  <2> SUFFICES ASSUME NEW l \in DOMAIN d
               PROVE  \E i \in 1..Len(u[Home(n, l)]) : u[Home(n, l)][i].key = l
    BY DEF KeysThere
  <2>1. CASE l = k
    <3>1. 1 \in 1..Len(u[b]) /\ u[b][1].key = k
      BY <1>1, <1>2, <1>4
    <3> QED BY <2>1, <3>1
  <2>2. CASE l \in DOMAIN c
    <3>1. PICK i \in 1..Len(t[Home(n, l)]) : t[Home(n, l)][i].key = l
      BY <1>8, <2>2
    <3> QED BY <1>12, <2>2, <3>1
  <2> QED BY <1>5, <2>1, <2>2
<1>14. Chained(u, n, d)
  BY <1>4, <1>10, <1>11, <1>13 DEF Chained
<1>15. ASSUME NEW l \in DOMAIN c
       PROVE  PlaceOf(u, l) = PlaceOf(t, l) + (IF Home(n, l) = b THEN 1 ELSE 0)
  <2> DEFINE i == PlaceOf(t, l)
             j == i + (IF Home(n, l) = b THEN 1 ELSE 0)
  <2>1. i \in 1..Len(t[Home(n, l)]) /\ t[Home(n, l)][i].key = l
    BY LookedUp
  <2> HIDE DEF i
  <2>2. j \in 1..Len(u[Home(n, l)]) /\ u[Home(n, l)][j].key = l
    BY <1>12, <2>1
  <2> HIDE DEF j
  <2>3. PlaceOf(u, l) = j
    BY <1>14, <2>2, LookedUp
  <2> QED BY <2>3 DEF i, j
<1> QED BY <1>14, <1>15 DEF u, d

(* A key that is there gets another value in its place.                     *)
Revalued(t, k, v) == [t EXCEPT ![Bucket(t, k)][PlaceOf(t, k)].value = v]

LEMMA NewValue ==
  ASSUME HashMapsAssumption, NEW n \in Nat \ {0}, NEW t, NEW c, Chained(t, n, c),
         DOMAIN c \in SUBSET MapKeys, NEW k \in DOMAIN c, NEW v \in MapValues
  PROVE  /\ Chained(Revalued(t, k, v), n, Extended(c, k, v))
         /\ \A l \in DOMAIN c : PlaceOf(Revalued(t, k, v), l) = PlaceOf(t, l)
<1> DEFINE b == Home(n, k)
           s == t[b]
           p == PlaceOf(t, k)
           u == Revalued(t, k, v)
           r == [s EXCEPT ![p] = [s[p] EXCEPT !.value = v]]
           d == Extended(c, k, v)
<1>1. /\ t \in [1..n -> Seq(MapNodes)] /\ b \in 1..n /\ Bucket(t, k) = b
      /\ s \in Seq(MapNodes) /\ p \in 1..Len(s) /\ s[p].key = k
  <2>1. t \in [1..n -> Seq(MapNodes)]
    BY DEF Chained
  <2>2. b \in 1..n
    BY HomeIs
  <2>3. Bucket(t, k) = b
    BY <2>1, BucketIs
  <2>4. p \in 1..Len(s) /\ s[p].key = k
    BY LookedUp
  <2> QED BY <2>1, <2>2, <2>3, <2>4
<1>2. u = [t EXCEPT ![b] = r]
  BY <1>1 DEF Revalued
<1> HIDE DEF u, p
<1>3. /\ r \in Seq(MapNodes) /\ Len(r) = Len(s) /\ \A i \in 1..Len(s) : r[i].key = s[i].key
      /\ r[p].value = v /\ \A i \in 1..Len(s) : i # p => r[i].value = s[i].value
  <2>1. Len(s) \in Nat /\ s \in [1..Len(s) -> MapNodes]
    BY <1>1, LenProperties
  <2>2. s[p] \in MapNodes
    BY <1>1, <2>1
  <2>3. [s[p] EXCEPT !.value = v] \in MapNodes /\ [s[p] EXCEPT !.value = v].key = k
        /\ [s[p] EXCEPT !.value = v].value = v
    BY <1>1, <2>2 DEF MapNodes
  <2> DEFINE w == [s[p] EXCEPT !.value = v]
  <2>4. w \in MapNodes /\ w.key = k /\ w.value = v /\ r = [s EXCEPT ![p] = w]
    BY <2>3
  <2> HIDE DEF w, r
  <2>5. r \in [1..Len(s) -> MapNodes] /\ r[p] = w /\ \A i \in 1..Len(s) : i # p => r[i] = s[i]
    BY <1>1, <2>1, <2>4
  <2>6. r \in Seq(MapNodes) /\ Len(r) = Len(s)
    BY <2>1, <2>5, TableIs, LenProperties
  <2> QED BY <1>1, <2>4, <2>5, <2>6
<1> HIDE DEF r
<1>4. u \in [1..n -> Seq(MapNodes)] /\ u[b] = r /\ \A a \in 1..n : a # b => u[a] = t[a]
  BY <1>1, <1>2, <1>3
<1>5. DOMAIN d = DOMAIN c /\ d[k] = v /\ \A l \in DOMAIN c : l # k => d[l] = c[l]
  BY DEF Extended
<1>6. \A a \in 1..n : \A i \in 1..Len(t[a]) :
        t[a][i].key \in DOMAIN c /\ t[a][i].value = c[t[a][i].key] /\ Home(n, t[a][i].key) = a
  BY DEF Chained, KeyedAs
<1>7. \A a \in 1..n : \A i, j \in 1..Len(t[a]) : t[a][i].key = t[a][j].key => i = j
  BY DEF Chained, KeysOnce
<1>8. \A l \in DOMAIN c : \E i \in 1..Len(t[Home(n, l)]) : t[Home(n, l)][i].key = l
  BY DEF Chained, KeysThere
<1>9. \A l \in DOMAIN c : Home(n, l) \in 1..n
  BY HomeIs
<1> HIDE DEF d
<1>10. \A a \in 1..n : Len(u[a]) = Len(t[a]) /\ \A i \in 1..Len(t[a]) : u[a][i].key = t[a][i].key
  BY <1>3, <1>4
<1>11. KeyedAs(u, n, d)
  <2> SUFFICES ASSUME NEW a \in 1..n, NEW i \in 1..Len(u[a])
               PROVE  u[a][i].key \in DOMAIN d /\ u[a][i].value = d[u[a][i].key] /\ Home(n, u[a][i].key) = a
    BY DEF KeyedAs
  <2>1. i \in 1..Len(t[a]) /\ u[a][i].key = t[a][i].key
    BY <1>10
  <2>2. CASE a = b /\ i = p
    BY <1>1, <1>3, <1>4, <1>5, <1>6, <2>1, <2>2
  <2>3. CASE a = b /\ i # p
    <3>1. s[i].key # k
      BY <1>1, <1>7, <2>1, <2>3
    <3> QED BY <1>1, <1>3, <1>4, <1>5, <1>6, <2>1, <2>3, <3>1
  <2>4. CASE a # b
    <3>1. t[a][i].key # k
      BY <1>6, <2>1, <2>4
    <3> QED BY <1>4, <1>5, <1>6, <2>1, <2>4, <3>1
  <2> QED BY <2>2, <2>3, <2>4
<1>12. KeysOnce(u, n)
  BY <1>7, <1>10 DEF KeysOnce
<1>13. KeysThere(u, n, d)
  <2> SUFFICES ASSUME NEW l \in DOMAIN c
               PROVE  \E i \in 1..Len(u[Home(n, l)]) : u[Home(n, l)][i].key = l
    BY <1>5 DEF KeysThere
  <2> QED BY <1>8, <1>9, <1>10
<1>14. Chained(u, n, d)
  BY <1>4, <1>11, <1>12, <1>13 DEF Chained
<1>15. ASSUME NEW l \in DOMAIN c
       PROVE  PlaceOf(u, l) = PlaceOf(t, l)
  <2> DEFINE i == PlaceOf(t, l)
  <2>1. i \in 1..Len(t[Home(n, l)]) /\ t[Home(n, l)][i].key = l
    BY LookedUp
  <2> HIDE DEF i
  <2>2. i \in 1..Len(u[Home(n, l)]) /\ u[Home(n, l)][i].key = l
    BY <1>9, <1>10, <2>1
  <2>3. PlaceOf(u, l) = i
    BY <1>14, <2>2, LookedUp
  <2> QED BY <2>3 DEF i
<1> QED BY <1>14, <1>15 DEF u, d

(* What is left keeps its order.                                            *)
InOrder(s, S, r) ==
  \A i, j \in 1..Len(s) : i < j /\ s[i] \in S /\ s[j] \in S =>
    \E p, q \in 1..Len(r) : p < q /\ r[p] = s[i] /\ r[q] = s[j]

LEMMA SiftedOrder ==
  ASSUME NEW X, NEW s \in Seq(X), NEW S
  PROVE  InOrder(s, S, Sifted(s, S))
<1> DEFINE Good(t) == \A i, j \in 1..Len(t) : i < j /\ t[i] \in S /\ t[j] \in S =>
                        \E p, q \in 1..Len(Sifted(t, S)) : p < q /\ Sifted(t, S)[p] = t[i] /\ Sifted(t, S)[q] = t[j]
           G == {t \in Seq(X) : Good(t)}
<1>1. <<>> \in G
  <2> DEFINE e == <<>>
  <2>1. e \in Seq(X) /\ 1..Len(e) = {}
    OBVIOUS
  <2> HIDE DEF e
  <2>2. Good(e)
    BY <2>1
  <2> QED BY <2>1, <2>2 DEF e
<1>2. ASSUME NEW t \in Seq(X), NEW x \in X, t \in G
      PROVE  Append(t, x) \in G
  <2> DEFINE u == Append(t, x)
             n == Len(t)
             m == Len(Sifted(t, S))
  <2>1. n \in Nat /\ u \in Seq(X) /\ Len(u) = n + 1 /\ u[n + 1] = x /\ \A i \in 1..n : u[i] = t[i]
    BY AppendProperties, LenProperties
  <2>2. Sifted(u, S) = IF x \in S THEN Append(Sifted(t, S), x) ELSE Sifted(t, S)
    BY SiftedAppended
  <2>3. Sifted(t, S) \in Seq(X) /\ ToSet(Sifted(t, S)) = ToSet(t) \cap S
    BY SiftedIs
  <2>4. m \in Nat /\ m <= Len(Sifted(u, S)) /\ \A p \in 1..m : Sifted(u, S)[p] = Sifted(t, S)[p]
    BY <2>2, <2>3, AppendProperties, LenProperties
  <2>5. x \in S => Len(Sifted(u, S)) = m + 1 /\ Sifted(u, S)[m + 1] = x
    BY <2>2, <2>3, AppendProperties
  <2>6. Good(t)
    BY <1>2
  <2>7. DOMAIN t = 1..n /\ DOMAIN Sifted(t, S) = 1..m
    BY <2>3, LenProperties
  <2> HIDE DEF u, m
  <2>8. ASSUME NEW i \in 1..(n + 1), NEW j \in 1..(n + 1), i < j, u[i] \in S, u[j] \in S
        PROVE  \E p, q \in 1..Len(Sifted(u, S)) : p < q /\ Sifted(u, S)[p] = u[i] /\ Sifted(u, S)[q] = u[j]
    <3>1. i \in 1..n /\ u[i] = t[i]
      BY <2>1, <2>8
    <3>2. CASE j \in 1..n
      <4>1. PICK p \in 1..m, q \in 1..m : p < q /\ Sifted(t, S)[p] = t[i] /\ Sifted(t, S)[q] = t[j]
        BY <2>1, <2>6, <2>8, <3>1, <3>2 DEF m
      <4>2. p \in 1..Len(Sifted(u, S)) /\ q \in 1..Len(Sifted(u, S))
        BY <2>2, <2>4, <2>5
      <4> QED BY <2>1, <2>4, <3>1, <3>2, <4>1, <4>2
    <3>3. CASE j = n + 1
      <4>1. t[i] \in ToSet(t) \cap S
        BY <2>7, <2>8, <3>1 DEF ToSet
      <4>2. PICK p \in 1..m : Sifted(t, S)[p] = t[i]
        BY <2>3, <2>7, <4>1 DEF ToSet
      <4>3. x \in S /\ u[j] = x
        BY <2>1, <2>8, <3>3
      <4>4. p \in 1..(m + 1) /\ m + 1 \in 1..(m + 1) /\ p < m + 1
        BY <2>4
      <4>5. Sifted(u, S)[p] = u[i] /\ Sifted(u, S)[m + 1] = u[j]
        BY <2>4, <2>5, <3>1, <4>2, <4>3
      <4> QED BY <2>5, <4>3, <4>4, <4>5
    <3> QED BY <2>1, <3>2, <3>3
  <2>9. Good(u)
    BY <2>1, <2>8
  <2> QED BY <2>1, <2>9 DEF u
<1> HIDE DEF G
<1>3. Seq(X) \subseteq G
  BY <1>1, <1>2, SeqInduct
<1> QED BY <1>3 DEF G, InOrder

SiftedTable(t, gone) ==
  [b \in DOMAIN t |-> Sifted(t[b], {m \in ToSet(t[b]) : m.key \notin gone})]

(* The nodes of some keys go; the others keep their order.                  *)
LEMMA NodesGo ==
  ASSUME HashMapsAssumption, NEW n \in Nat \ {0}, NEW t, NEW c, Chained(t, n, c),
         DOMAIN c \in SUBSET MapKeys, NEW gone
  PROVE  /\ Chained(SiftedTable(t, gone), n, Restrict(c, DOMAIN c \ gone))
         /\ \A k, l \in DOMAIN c \ gone : Home(n, k) = Home(n, l) =>
              (PlaceOf(SiftedTable(t, gone), k) <= PlaceOf(SiftedTable(t, gone), l)
                 <=> PlaceOf(t, k) <= PlaceOf(t, l))
<1> DEFINE S(b) == {m \in ToSet(t[b]) : m.key \notin gone}
           u == SiftedTable(t, gone)
           d == Restrict(c, DOMAIN c \ gone)
<1>1. t \in [1..n -> Seq(MapNodes)] /\ \A b \in 1..n : t[b] \in Seq(MapNodes)
  BY DEF Chained
<1>2. \A b \in 1..n : u[b] = Sifted(t[b], S(b))
  BY <1>1 DEF SiftedTable
<1>3. \A b \in 1..n : \A i \in 1..Len(t[b]) :
        t[b][i].key \in DOMAIN c /\ t[b][i].value = c[t[b][i].key] /\ Home(n, t[b][i].key) = b
  BY DEF Chained, KeyedAs
<1>4. \A b \in 1..n : \A i, j \in 1..Len(t[b]) : t[b][i].key = t[b][j].key => i = j
  BY DEF Chained, KeysOnce
<1>5. \A k \in DOMAIN c : \E i \in 1..Len(t[Home(n, k)]) : t[Home(n, k)][i].key = k
  BY DEF Chained, KeysThere
<1>6. \A l \in DOMAIN c : Home(n, l) \in 1..n
  BY HomeIs
<1>7. DOMAIN d = DOMAIN c \ gone /\ \A k \in DOMAIN c \ gone : d[k] = c[k]
  BY DEF Restrict
<1>8. ASSUME NEW b \in 1..n
      PROVE  /\ u[b] \in Seq(MapNodes) /\ Once(u[b])
             /\ ToSet(u[b]) = {m \in ToSet(t[b]) : m.key \notin gone}
             /\ DOMAIN u[b] = 1..Len(u[b]) /\ DOMAIN t[b] = 1..Len(t[b]) /\ Len(t[b]) \in Nat /\ Len(u[b]) \in Nat
  <2> DEFINE s == t[b]
             T == S(b)
  <2>1. s \in Seq(MapNodes) /\ DOMAIN s = 1..Len(s)
    BY <1>1, LenProperties
  <2>2. Once(s)
    BY <1>4, <2>1 DEF Once
  <2>3. T = {m \in ToSet(t[b]) : m.key \notin gone} /\ ToSet(s) \cap T = T
    OBVIOUS
  <2> HIDE DEF s, T
  <2>4. Sifted(s, T) \in Seq(MapNodes) /\ ToSet(Sifted(s, T)) = ToSet(s) \cap T /\ Once(Sifted(s, T))
    BY <2>1, <2>2, SiftedIs
  <2>5. u[b] = Sifted(s, T)
    BY <1>2 DEF s, T
  <2> HIDE DEF u
  <2>6. u[b] \in Seq(MapNodes) /\ Once(u[b]) /\ ToSet(u[b]) = T
    BY <2>3, <2>4, <2>5
  <2>7. DOMAIN u[b] = 1..Len(u[b]) /\ Len(u[b]) \in Nat /\ Len(s) \in Nat
    BY <2>1, <2>6, LenProperties
  <2> QED BY <2>1, <2>3, <2>6, <2>7 DEF s
<1>9. u \in [1..n -> Seq(MapNodes)]
  <2>1. u = [b \in 1..n |-> u[b]]
    BY <1>1 DEF SiftedTable
  <2> HIDE DEF u
  <2> QED BY <1>8, <2>1
<1> HIDE DEF u, d
<1>10. \A b \in 1..n : \A i \in 1..Len(u[b]) :
         \E j \in 1..Len(t[b]) : u[b][i] = t[b][j] /\ t[b][j].key \notin gone
  <2> TAKE b \in 1..n
  <2> TAKE i \in 1..Len(u[b])
  <2>1. u[b][i] \in ToSet(u[b])
    BY <1>8 DEF ToSet
  <2>2. u[b][i] \in ToSet(t[b]) /\ u[b][i].key \notin gone
    BY <1>8, <2>1
  <2> QED BY <1>8, <2>2 DEF ToSet
<1>11. KeyedAs(u, n, d)
  <2> SUFFICES ASSUME NEW b \in 1..n, NEW i \in 1..Len(u[b])
               PROVE  u[b][i].key \in DOMAIN d /\ u[b][i].value = d[u[b][i].key] /\ Home(n, u[b][i].key) = b
    BY DEF KeyedAs
  <2>1. PICK j \in 1..Len(t[b]) : u[b][i] = t[b][j] /\ t[b][j].key \notin gone
    BY <1>10
  <2> QED BY <1>3, <1>7, <2>1
<1>12. KeysOnce(u, n)
  <2> SUFFICES ASSUME NEW b \in 1..n, NEW i \in 1..Len(u[b]), NEW j \in 1..Len(u[b]), u[b][i].key = u[b][j].key
               PROVE  i = j
    BY DEF KeysOnce
  <2>1. PICK g \in 1..Len(t[b]) : u[b][i] = t[b][g]
    BY <1>10
  <2>2. PICK h \in 1..Len(t[b]) : u[b][j] = t[b][h]
    BY <1>10
  <2>3. u[b][i] = u[b][j]
    BY <1>4, <2>1, <2>2
  <2>4. Once(u[b]) /\ DOMAIN u[b] = 1..Len(u[b])
    BY <1>8
  <2> QED BY <2>3, <2>4 DEF Once
<1>13. KeysThere(u, n, d)
  <2> SUFFICES ASSUME NEW k \in DOMAIN c \ gone
               PROVE  \E i \in 1..Len(u[Home(n, k)]) : u[Home(n, k)][i].key = k
    BY <1>7 DEF KeysThere
  <2> DEFINE b == Home(n, k)
  <2>1. b \in 1..n
    BY <1>6
  <2>2. PICK i \in 1..Len(t[b]) : t[b][i].key = k
    BY <1>5
  <2> HIDE DEF b
  <2>3. t[b][i] \in ToSet(t[b])
    BY <1>8, <2>1 DEF ToSet
  <2>4. t[b][i] \in ToSet(u[b])
    BY <1>8, <2>1, <2>2, <2>3
  <2>5. PICK j \in 1..Len(u[b]) : u[b][j] = t[b][i]
    BY <1>8, <2>1, <2>4 DEF ToSet
  <2> QED BY <2>2, <2>5 DEF b
<1>14. Chained(u, n, d)
  BY <1>9, <1>11, <1>12, <1>13 DEF Chained
<1>15. ASSUME NEW k \in DOMAIN c \ gone, NEW l \in DOMAIN c \ gone, Home(n, k) = Home(n, l), PlaceOf(t, k) < PlaceOf(t, l)
       PROVE  PlaceOf(u, k) < PlaceOf(u, l)
  <2> DEFINE b == Home(n, k)
             i == PlaceOf(t, k)
             j == PlaceOf(t, l)
             s == t[b]
             T == S(b)
  <2>1. b \in 1..n /\ s \in Seq(MapNodes)
    BY <1>1, <1>6
  <2>2. k \in MapKeys /\ l \in MapKeys /\ k \in DOMAIN c /\ l \in DOMAIN c
    OBVIOUS
  <2>3. i \in 1..Len(s) /\ s[i].key = k
    BY <2>2, LookedUp
  <2>4. j \in 1..Len(s) /\ s[j].key = l
    BY <1>15, <2>2, LookedUp
  <2>5. i < j
    BY <1>15
  <2>6. s[i] \in T /\ s[j] \in T
    BY <1>8, <2>1, <2>3, <2>4 DEF ToSet
  <2>7. u[b] = Sifted(s, T)
    BY <1>2, <2>1
  <2> HIDE DEF b, i, j, s, T
  <2>8. PICK p \in 1..Len(Sifted(s, T)), q \in 1..Len(Sifted(s, T)) :
          p < q /\ Sifted(s, T)[p] = s[i] /\ Sifted(s, T)[q] = s[j]
    <3>1. InOrder(s, T, Sifted(s, T))
      BY <2>1, SiftedOrder
    <3> QED BY <2>3, <2>4, <2>5, <2>6, <3>1 DEF InOrder
  <2>9. p \in 1..Len(u[b]) /\ q \in 1..Len(u[b]) /\ u[b][p].key = k /\ u[b][q].key = l
    BY <2>3, <2>4, <2>7, <2>8
  <2>10. PlaceOf(u, k) = p
    BY <1>14, <2>2, <2>9, LookedUp DEF b
  <2>11. PlaceOf(u, l) = q
    BY <1>14, <1>15, <2>2, <2>9, LookedUp DEF b
  <2> QED BY <2>8, <2>10, <2>11
<1>16. \A k \in DOMAIN c \ gone : PlaceOf(t, k) \in Nat /\ PlaceOf(u, k) \in Nat
  <2> TAKE k \in DOMAIN c \ gone
  <2>1. k \in MapKeys /\ k \in DOMAIN c /\ k \in DOMAIN d
    BY <1>7
  <2>2. PlaceOf(t, k) \in 1..Len(t[Home(n, k)])
    BY <2>1, LookedUp
  <2>3. PlaceOf(u, k) \in 1..Len(u[Home(n, k)])
    BY <1>14, <2>1, LookedUp
  <2> QED BY <2>2, <2>3
<1>17. ASSUME NEW k \in DOMAIN c \ gone, NEW l \in DOMAIN c \ gone, Home(n, k) = Home(n, l)
       PROVE  PlaceOf(u, k) <= PlaceOf(u, l) <=> PlaceOf(t, k) <= PlaceOf(t, l)
  <2>1. CASE PlaceOf(t, k) < PlaceOf(t, l)
    BY <1>15, <1>16, <1>17, <2>1
  <2>2. CASE PlaceOf(t, l) < PlaceOf(t, k)
    BY <1>15, <1>16, <1>17, <2>2
  <2>3. CASE PlaceOf(t, k) = PlaceOf(t, l)
    <3>1. k = l
      <4>1. t[Home(n, k)][PlaceOf(t, k)].key = k /\ t[Home(n, l)][PlaceOf(t, l)].key = l
        BY LookedUp
      <4> QED BY <1>17, <2>3, <4>1
    <3> QED BY <1>16, <3>1
  <2> QED BY <1>16, <2>1, <2>2, <2>3
<1> QED BY <1>14, <1>17 DEF u, d

(* One table's buckets after the other.                                     *)
LEMMA OnceJoined ==
  ASSUME NEW X, NEW s \in Seq(X), NEW t \in Seq(X), Once(s), Once(t), ToSet(s) \cap ToSet(t) = {}
  PROVE  s \o t \in Seq(X) /\ Once(s \o t) /\ ToSet(s \o t) = ToSet(s) \cup ToSet(t)
<1> DEFINE m == Len(s)
           n == Len(t)
           u == s \o t
<1>1. m \in Nat /\ n \in Nat /\ DOMAIN s = 1..m /\ DOMAIN t = 1..n
  BY LenProperties
<1>2. u \in Seq(X) /\ Len(u) = m + n /\ \A i \in 1..(m + n) : u[i] = IF i <= m THEN s[i] ELSE t[i - m]
  BY Joined
<1>3. DOMAIN u = 1..(m + n)
  BY <1>2, LenProperties
<1> HIDE DEF u, m, n
<1>4. \A i \in 1..(m + n) : i \in 1..m \/ (i \notin 1..m /\ i - m \in 1..n)
  BY <1>1
<1>5. \A i \in 1..m : i \in 1..(m + n) /\ u[i] = s[i]
  BY <1>1, <1>2
<1>6. \A j \in 1..n : j + m \in 1..(m + n) /\ u[j + m] = t[j]
  BY <1>1, <1>2
<1>7. \A i \in 1..(m + n) : i \notin 1..m => u[i] = t[i - m]
  BY <1>1, <1>2
<1>8. ToSet(u) = ToSet(s) \cup ToSet(t)
  <2>1. ToSet(u) \subseteq ToSet(s) \cup ToSet(t)
    BY <1>1, <1>3, <1>4, <1>5, <1>7 DEF ToSet
  <2>2. ToSet(s) \subseteq ToSet(u)
    BY <1>1, <1>3, <1>5 DEF ToSet
  <2>3. ToSet(t) \subseteq ToSet(u)
    BY <1>1, <1>3, <1>6 DEF ToSet
  <2> QED BY <2>1, <2>2, <2>3
<1>9. Once(u)
  <2> SUFFICES ASSUME NEW i \in 1..(m + n), NEW j \in 1..(m + n), u[i] = u[j]
               PROVE  i = j
    BY <1>2 DEF Once, m, n
  <2>1. CASE i \in 1..m /\ j \in 1..m
    BY <1>1, <1>5, <2>1 DEF Once, m
  <2>2. CASE i \notin 1..m /\ j \notin 1..m
    <3>1. i - m \in 1..n /\ j - m \in 1..n /\ t[i - m] = t[j - m]
      BY <1>4, <1>7, <2>2
    <3>2. i - m = j - m
      BY <1>1, <3>1 DEF Once, n
    <3> QED BY <1>1, <3>2
  <2>3. CASE i \in 1..m /\ j \notin 1..m
    <3>1. u[i] \in ToSet(s) /\ u[j] \in ToSet(t)
      BY <1>1, <1>4, <1>5, <1>7, <2>3 DEF ToSet
    <3> QED BY <3>1
  <2>4. CASE i \notin 1..m /\ j \in 1..m
    <3>1. u[j] \in ToSet(s) /\ u[i] \in ToSet(t)
      BY <1>1, <1>4, <1>5, <1>7, <2>4 DEF ToSet
    <3> QED BY <3>1
  <2> QED BY <2>1, <2>2, <2>3, <2>4
<1> QED BY <1>2, <1>8, <1>9 DEF u

PartsOnce(ss) ==
  /\ \A i \in 1..Len(ss) : Once(ss[i])
  /\ \A i, j \in 1..Len(ss) : i # j => ToSet(ss[i]) \cap ToSet(ss[j]) = {}
OfParts(ss) == UNION {ToSet(ss[i]) : i \in 1..Len(ss)}

LEMMA FlattenOnce ==
  ASSUME NEW X, NEW ss \in Seq(Seq(X)), PartsOnce(ss)
  PROVE  /\ FlattenSeq(ss) \in Seq(X) /\ Once(FlattenSeq(ss))
         /\ ToSet(FlattenSeq(ss)) = OfParts(ss)
<1> DEFINE Good(tt) == PartsOnce(tt) =>
             FlattenSeq(tt) \in Seq(X) /\ Once(FlattenSeq(tt)) /\ ToSet(FlattenSeq(tt)) = OfParts(tt)
           G == {tt \in Seq(Seq(X)) : Good(tt)}
           Y == Seq(X)
<1>1. <<>> \in G
  <2>1. <<>> \in Seq(X) /\ <<>> \in Seq(Seq(X)) /\ 1..Len(<<>>) = {}
    OBVIOUS
  <2>2. Once(<<>>) /\ ToSet(<<>>) = {}
    BY DEF Once, ToSet
  <2>3. OfParts(<<>>) = {}
    BY <2>1 DEF OfParts
  <2> QED BY <2>1, <2>2, <2>3, FlattenEmpty
<1>2. ASSUME NEW tt \in Seq(Y), NEW s \in Y, tt \in G
      PROVE  Append(tt, s) \in G
  <2> DEFINE uu == Append(tt, s)
             n == Len(tt)
  <2>1. n \in Nat /\ uu \in Seq(Y) /\ Len(uu) = n + 1 /\ uu[n + 1] = s /\ \A i \in 1..n : uu[i] = tt[i]
    BY AppendProperties, LenProperties
  <2>2. FlattenSeq(uu) = FlattenSeq(tt) \o s
    BY FlattenAppended
  <2>3. Good(tt)
    BY <1>2
  <2> HIDE DEF uu
  <2>4. ASSUME PartsOnce(uu)
        PROVE  FlattenSeq(uu) \in Seq(X) /\ Once(FlattenSeq(uu)) /\ ToSet(FlattenSeq(uu)) = OfParts(uu)
    <3>1. \A i \in 1..n : i \in 1..(n + 1) /\ i # n + 1
      BY <2>1
    <3>2. PartsOnce(tt) /\ Once(s)
      <4>1. \A i \in 1..n : Once(tt[i])
        BY <2>1, <2>4, <3>1 DEF PartsOnce
      <4>2. \A i, j \in 1..n : i # j => ToSet(tt[i]) \cap ToSet(tt[j]) = {}
        BY <2>1, <2>4, <3>1 DEF PartsOnce
      <4>3. n + 1 \in 1..(n + 1)
        BY <2>1
      <4> QED BY <2>1, <2>4, <4>1, <4>2, <4>3 DEF PartsOnce
    <3> DEFINE f == FlattenSeq(tt)
    <3>3. f \in Seq(X) /\ Once(f) /\ ToSet(f) = OfParts(tt)
      BY <2>3, <3>2
    <3> HIDE DEF f
    <3>4. ToSet(f) \cap ToSet(s) = {}
      <4>1. \A i \in 1..n : ToSet(tt[i]) \cap ToSet(s) = {}
        <5> TAKE i \in 1..n
        <5>1. i \in 1..Len(uu) /\ n + 1 \in 1..Len(uu) /\ i # n + 1
          BY <2>1, <3>1
        <5>2. ToSet(uu[i]) \cap ToSet(uu[n + 1]) = {}
          BY <2>4, <5>1 DEF PartsOnce
        <5> QED BY <2>1, <5>2
      <4> QED BY <3>3, <4>1 DEF OfParts
    <3>5. f \o s \in Seq(X) /\ Once(f \o s) /\ ToSet(f \o s) = ToSet(f) \cup ToSet(s)
      BY <3>2, <3>3, <3>4, OnceJoined
    <3>6. OfParts(uu) = OfParts(tt) \cup ToSet(s)
      <4>1. 1..(n + 1) = (1..n) \cup {n + 1}
        BY <2>1
      <4> QED BY <2>1, <4>1 DEF OfParts
    <3> QED BY <2>2, <3>3, <3>5, <3>6 DEF f
  <2> QED BY <2>1, <2>4 DEF uu
<1> HIDE DEF G, Y
<1>3. Seq(Y) \subseteq G
  BY <1>1, <1>2, SeqInduct
<1>4. ss \in G
  BY <1>3 DEF Y
<1> QED BY <1>4 DEF G

(* All nodes of a table: one for each key.                                  *)
LEMMA NodesAre ==
  ASSUME HashMapsAssumption, NEW n \in Nat \ {0}, NEW t, NEW c, Chained(t, n, c), ContentOK(c)
  PROVE  LET f == FlattenSeq(t) IN
           /\ f \in Seq(MapNodes) /\ Len(f) = Cardinality(DOMAIN c)
           /\ \A i \in 1..Len(f) : f[i].key \in DOMAIN c /\ f[i].value = c[f[i].key]
           /\ \A i, j \in 1..Len(f) : f[i].key = f[j].key => i = j
           /\ \A k \in DOMAIN c : \E i \in 1..Len(f) : f[i].key = k
<1> DEFINE f == FlattenSeq(t)
<1>1. /\ t \in [1..n -> Seq(MapNodes)] /\ t \in Seq(Seq(MapNodes)) /\ Len(t) = n
      /\ \A b \in 1..n : t[b] \in Seq(MapNodes) /\ DOMAIN t[b] = 1..Len(t[b])
  <2>1. t \in [1..n -> Seq(MapNodes)]
    BY DEF Chained
  <2>2. t \in Seq(Seq(MapNodes)) /\ Len(t) = n
    BY <2>1, TableIs, LenProperties
  <2> QED BY <2>1, <2>2, LenProperties
<1>2. \A b \in 1..n : \A i \in 1..Len(t[b]) :
        t[b][i].key \in DOMAIN c /\ t[b][i].value = c[t[b][i].key] /\ Home(n, t[b][i].key) = b
  BY DEF Chained, KeyedAs
<1>3. \A b \in 1..n : \A i, j \in 1..Len(t[b]) : t[b][i].key = t[b][j].key => i = j
  BY DEF Chained, KeysOnce
<1>4. \A k \in DOMAIN c : \E i \in 1..Len(t[Home(n, k)]) : t[Home(n, k)][i].key = k
  BY DEF Chained, KeysThere
<1>5. PartsOnce(t)
  <2>1. \A b \in 1..n : Once(t[b])
    BY <1>1, <1>3 DEF Once
  <2>2. \A a, b \in 1..n : a # b => ToSet(t[a]) \cap ToSet(t[b]) = {}
    <3>1. ASSUME NEW a \in 1..n, NEW m \in ToSet(t[a])
          PROVE  Home(n, m.key) = a
      <4>1. PICK i \in 1..Len(t[a]) : m = t[a][i]
        BY <1>1 DEF ToSet
      <4>2. Home(n, t[a][i].key) = a
        BY <1>2
      <4> QED BY <4>1, <4>2
    <3> QED BY <3>1
  <2> QED BY <1>1, <2>1, <2>2 DEF PartsOnce
<1>6. f \in Seq(MapNodes) /\ Once(f) /\ ToSet(f) = OfParts(t)
  BY <1>1, <1>5, FlattenOnce
<1> HIDE DEF f
<1>7. Len(f) \in Nat /\ DOMAIN f = 1..Len(f)
  BY <1>6, LenProperties
<1>8. \A i \in 1..Len(f) : \E b \in 1..n : \E j \in 1..Len(t[b]) : f[i] = t[b][j]
  <2> TAKE i \in 1..Len(f)
  <2>1. f[i] \in OfParts(t)
    BY <1>6, <1>7 DEF ToSet
  <2>2. PICK b \in 1..n : f[i] \in ToSet(t[b])
    BY <1>1, <2>1 DEF OfParts
  <2> QED BY <1>1, <2>2 DEF ToSet
<1>9. \A i \in 1..Len(f) : f[i].key \in DOMAIN c /\ f[i].value = c[f[i].key]
  <2> TAKE i \in 1..Len(f)
  <2>1. PICK b \in 1..n : \E j \in 1..Len(t[b]) : f[i] = t[b][j]
    BY <1>8
  <2>2. PICK j \in 1..Len(t[b]) : f[i] = t[b][j]
    BY <2>1
  <2> QED BY <1>2, <2>2
<1>10. ASSUME NEW i \in 1..Len(f), NEW j \in 1..Len(f), f[i].key = f[j].key
       PROVE  i = j
  <2>1. PICK a \in 1..n : \E g \in 1..Len(t[a]) : f[i] = t[a][g]
    BY <1>8
  <2>2. PICK g \in 1..Len(t[a]) : f[i] = t[a][g]
    BY <2>1
  <2>3. PICK b \in 1..n : \E h \in 1..Len(t[b]) : f[j] = t[b][h]
    BY <1>8
  <2>4. PICK h \in 1..Len(t[b]) : f[j] = t[b][h]
    BY <2>3
  <2>5. Home(n, f[i].key) = a
    BY <1>2, <2>2
  <2>6. Home(n, f[j].key) = b
    BY <1>2, <2>4
  <2>7. a = b
    BY <1>10, <2>5, <2>6
  <2>8. f[i] = f[j]
    BY <1>3, <1>10, <2>2, <2>4, <2>7
  <2> QED BY <1>6, <1>7, <2>8 DEF Once
<1>11. ASSUME NEW k \in DOMAIN c
       PROVE  \E i \in 1..Len(f) : f[i].key = k
  <2> DEFINE b == Home(n, k)
  <2>1. k \in MapKeys
    BY DEF ContentOK
  <2>2. b \in 1..n
    BY <2>1, HomeIs
  <2>3. PICK j \in 1..Len(t[b]) : t[b][j].key = k
    BY <1>4
  <2> HIDE DEF b
  <2>4. t[b][j] \in ToSet(t[b])
    BY <1>1, <2>2 DEF ToSet
  <2>5. t[b][j] \in ToSet(f)
    BY <1>1, <1>6, <2>2, <2>4 DEF OfParts
  <2>6. PICK i \in 1..Len(f) : f[i] = t[b][j]
    BY <1>7, <2>5 DEF ToSet
  <2> QED BY <2>3, <2>6
<1>12. Len(f) = Cardinality(DOMAIN c)
  <2> DEFINE D == 1..Len(f)
             E == DOMAIN c
             q == [i \in D |-> f[i].key]
  <2>1. q \in [D -> E]
    BY <1>9
  <2>2. q \in Injection(D, E)
    BY <1>10, <2>1 DEF Injection, IsInjective
  <2>3. q \in Surjection(D, E)
    BY <1>11, <2>1 DEF Surjection
  <2>4. ExistsBijection(D, E)
    BY <2>2, <2>3 DEF ExistsBijection, Bijection
  <2>5. IsFiniteSet(D) /\ Cardinality(D) = Len(f)
    <3>1. 1 \in Int /\ Len(f) \in Int
      BY <1>7
    <3>2. IsFiniteSet(1..Len(f)) /\ Cardinality(1..Len(f)) = IF 1 > Len(f) THEN 0 ELSE Len(f) - 1 + 1
      BY <3>1, FS_Interval
    <3>3. (IF 1 > Len(f) THEN 0 ELSE Len(f) - 1 + 1) = Len(f)
      BY <1>7
    <3> QED BY <3>2, <3>3
  <2> HIDE DEF D, E
  <2>6. Cardinality(E) = Cardinality(D)
    BY <2>4, <2>5, FS_Bijection
  <2> QED BY <2>5, <2>6 DEF E
<1> QED BY <1>6, <1>9, <1>10, <1>11, <1>12 DEF f

(* The larger table gets the nodes one after the other.                     *)
FillsUp(g, t, n, f) ==
  /\ Doubled(t) = g[1..Len(f)] /\ g[1..0] = [b \in 1..(2 * n) |-> <<>>]
  /\ \A k \in 1..Len(f) : g[1..k] = PutFirst(g[1..(k - 1)], f[k])

LEMMA DoublingFolds ==
  ASSUME HashMapsAssumption, NEW n \in Nat \ {0}, NEW t \in [1..n -> Seq(MapNodes)],
         NEW f \in Seq(MapNodes), f = FlattenSeq(t)
  PROVE  \E g : FillsUp(g, t, n, f)
<1> DEFINE L == Len(f)
           W == [1..(2 * n) -> Seq(MapNodes)]
           a == [b \in 1..(2 * Len(t)) |-> <<>>]
           step == [q \in W \X (1..L) |-> PutFirst(q[1], f[q[2]])]
           Picks(g) == g = [d \in SUBSET DOMAIN f |->
                              IF d = {} THEN a ELSE PutFirst(g[d \ {Max(d)}], f[Max(d)])]
<1>1. L \in Nat /\ DOMAIN f = 1..L /\ \A k \in 1..L : f[k] \in MapNodes
  BY LenProperties
<1>2. 2 * n \in Nat \ {0} /\ Len(t) = n
  <2>1. Len(t) = n
    BY BucketIs
  <2> QED BY <2>1
<1>3. a \in W /\ a = [b \in 1..(2 * n) |-> <<>>]
  <2>1. <<>> \in Seq(MapNodes)
    OBVIOUS
  <2> QED BY <1>2, <2>1
<1>4. \A w \in W, m \in MapNodes : PutFirst(w, m) \in W
  <2> TAKE w \in W, m \in MapNodes
  <2> DEFINE N == 2 * n
             b == Home(N, m.key)
  <2>1. m.key \in MapKeys /\ N \in Nat \ {0}
    BY <1>2 DEF MapNodes
  <2> HIDE DEF N
  <2>2. b \in 1..N
    BY <2>1, HomeIs
  <2>3. w \in [1..N -> Seq(MapNodes)]
    BY DEF N
  <2>4. Bucket(w, m.key) = b
    BY <2>1, <2>3, BucketIs
  <2>5. <<m>> \o w[b] \in Seq(MapNodes)
    <3>1. w[b] \in Seq(MapNodes)
      BY <2>2, <2>3
    <3> QED BY <3>1, PutBefore
  <2> HIDE DEF b
  <2>6. PutFirst(w, m) = [w EXCEPT ![b] = <<m>> \o w[b]]
    BY <2>4 DEF PutFirst
  <2> QED BY <2>2, <2>3, <2>5, <2>6 DEF N
<1>5. step \in [W \X (1..L) -> W]
  <2> HIDE DEF W, L
  <2>1. \A q \in W \X (1..L) : PutFirst(q[1], f[q[2]]) \in W
    BY <1>1, <1>4
  <2> QED BY <2>1
<1>6. \A w \in W, k \in 1..L : step[<<w, k>>] = PutFirst(w, f[k])
  <2> HIDE DEF W, L
  <2> QED OBVIOUS
<1>7. PICK h \in [SUBSET (1..L) -> W] : Folding(h, a, step, SUBSET (1..L))
  <2> HIDE DEF step, L, W, a
  <2> QED BY <1>1, <1>3, <1>5, FoldingExists
<1>8. Picks(h)
  <2> HIDE DEF step, L, W, a
  <2>1. \A d \in SUBSET (1..L) : d # {} => Max(d) \in 1..L /\ d \ {Max(d)} \in SUBSET (1..L)
    <3> TAKE d \in SUBSET (1..L)
    <3>1. d \in SUBSET (0..L)
      BY <1>1
    <3> QED BY <1>1, <3>1, MaxIs
  <2>2. \A d \in SUBSET (1..L) : d # {} =>
          step[<<h[d \ {Max(d)}], Max(d)>>] = PutFirst(h[d \ {Max(d)}], f[Max(d)])
    BY <1>1, <1>6, <1>7, <2>1
  <2> QED BY <1>1, <1>7, <2>2 DEF Folding
<1> DEFINE g == CHOOSE g : Picks(g)
<1>9. Picks(g)
  <2> HIDE DEF Picks
  <2> QED BY <1>8
<1>10. Doubled(t) = g[DOMAIN f]
  <2>1. Doubled(t) = FoldLeft(PutFirst, a, f)
    BY DEF Doubled
  <2> QED BY <2>1 DEF FoldLeft, MapThenFoldSet
<1> HIDE DEF g, step, a
<1>11. 1..0 \in SUBSET (1..L) /\ 1..0 = {}
  OBVIOUS
<1> HIDE DEF L
<1>12. ASSUME NEW k \in 1..L
       PROVE  g[1..k] = PutFirst(g[1..(k - 1)], f[k])
  <2>1. 1..k \in SUBSET (1..L) /\ 1..k # {} /\ Max(1..k) = k /\ (1..k) \ {k} = 1..(k - 1)
    BY <1>1, Upto
  <2> DEFINE d == 1..k
  <2>2. d \in SUBSET (1..L) /\ d # {} /\ Max(d) = k /\ d \ {k} = 1..(k - 1)
    BY <2>1
  <2> HIDE DEF d
  <2>3. g[d] = PutFirst(g[d \ {Max(d)}], f[Max(d)])
    BY <1>1, <1>9, <2>2
  <2>4. g[d] = PutFirst(g[1..(k - 1)], f[k])
    BY <2>2, <2>3
  <2> QED BY <2>4 DEF d
<1>13. g[1..0] = a
  BY <1>1, <1>9, <1>11
<1>14. Doubled(t) = g[1..L]
  BY <1>1, <1>10
<1>15. FillsUp(g, t, n, f)
  BY <1>3, <1>12, <1>13, <1>14 DEF L, FillsUp
<1> QED BY <1>15

(* Doubling keeps what the table holds.                                     *)
LEMMA DoubledIs ==
  ASSUME HashMapsAssumption, NEW n \in Nat \ {0}, NEW t, NEW c, Chained(t, n, c), ContentOK(c)
  PROVE  Chained(Doubled(t), 2 * n, c)
<1> DEFINE f == FlattenSeq(t)
           N == 2 * n
           L == Len(f)
           Upon(k) == {f[i].key : i \in 1..k}
           Part(k) == [l \in Upon(k) |-> c[l]]
<1>1. /\ f \in Seq(MapNodes) /\ L = Cardinality(DOMAIN c)
      /\ \A i \in 1..L : f[i].key \in DOMAIN c /\ f[i].value = c[f[i].key]
      /\ \A i, j \in 1..L : f[i].key = f[j].key => i = j
      /\ \A k \in DOMAIN c : \E i \in 1..L : f[i].key = k
  BY NodesAre
<1>2. t \in [1..n -> Seq(MapNodes)] /\ N \in Nat \ {0}
  BY DEF Chained
<1> HIDE DEF f
<1>3. L \in Nat /\ \A i \in 1..L : f[i] \in MapNodes
  BY <1>1, LenProperties
<1>4. PICK g : /\ Doubled(t) = g[1..L] /\ g[1..0] = [b \in 1..N |-> <<>>]
               /\ \A k \in 1..L : g[1..k] = PutFirst(g[1..(k - 1)], f[k])
  <2>1. f = FlattenSeq(t)
    BY DEF f
  <2>2. f \in Seq(MapNodes) /\ t \in [1..n -> Seq(MapNodes)]
    BY <1>1, <1>2
  <2>3. PICK g : FillsUp(g, t, n, f)
    BY <2>1, <2>2, DoublingFolds
  <2> QED BY <2>3 DEF FillsUp
<1> HIDE DEF L, N
<1> DEFINE G == {k \in 1..L : Chained(g[1..k], N, Part(k))}
<1>5. Chained(g[1..0], N, Part(0))
  <2> DEFINE e == [b \in 1..N |-> <<>>]
             z == Part(0)
  <2>1. e \in [1..N -> Seq(MapNodes)] /\ \A b \in 1..N : 1..Len(e[b]) = {}
    <3>1. <<>> \in Seq(MapNodes) /\ 1..Len(<<>>) = {}
      OBVIOUS
    <3> QED BY <3>1
  <2>2. DOMAIN z = {}
    OBVIOUS
  <2> HIDE DEF e, z
  <2>3. Chained(e, N, z)
    BY <2>1, <2>2 DEF Chained, KeyedAs, KeysOnce, KeysThere
  <2> QED BY <1>4, <2>3 DEF e, z
<1>6. ASSUME NEW i \in 1..L, \A j \in 1..L : j < i => j \in G
      PROVE  i \in G
  <2> DEFINE w == g[1..(i - 1)]
             p == Part(i - 1)
             e == f[i]
  <2>1. Chained(w, N, p)
    <3>1. CASE i = 1
      <4>1. i - 1 = 0
        BY <3>1
      <4> QED BY <1>5, <4>1
    <3>2. CASE i # 1
      <4>1. i - 1 \in 1..L /\ i - 1 < i
        BY <1>3, <3>2
      <4>2. i - 1 \in G
        BY <1>6, <4>1
      <4> QED BY <4>2
    <3> QED BY <3>1, <3>2
  <2>2. DOMAIN p = Upon(i - 1) /\ \A l \in DOMAIN p : p[l] = c[l]
    OBVIOUS
  <2>3. \A j \in 1..(i - 1) : j \in 1..L /\ j # i
    BY <1>3
  <2>4. e \in MapNodes /\ e.key \in DOMAIN c /\ e.value = c[e.key]
    BY <1>1, <1>3
  <2>5. e.key \notin DOMAIN p
    BY <1>1, <2>2, <2>3
  <2>6. DOMAIN p \in SUBSET MapKeys
    <3>1. \A j \in 1..(i - 1) : f[j].key \in DOMAIN c
      BY <1>1, <2>3
    <3>2. DOMAIN c \in SUBSET MapKeys
      BY DEF ContentOK
    <3> QED BY <2>2, <3>1, <3>2
  <2>7. Upon(i) = Upon(i - 1) \cup {e.key}
    <3>1. 1..i = (1..(i - 1)) \cup {i}
      BY <1>3
    <3> QED BY <3>1
  <2>8. Part(i) = Extended(p, e.key, e.value)
    <3> DEFINE x == Extended(p, e.key, e.value)
               U == Upon(i)
    <3>1. x = [l \in U |-> IF l = e.key THEN e.value ELSE p[l]]
      BY <2>2, <2>7 DEF Extended
    <3>2. \A l \in U : (IF l = e.key THEN e.value ELSE p[l]) = c[l]
      BY <2>2, <2>4, <2>7
    <3> HIDE DEF U, x, p, e
    <3>3. x = [l \in U |-> c[l]]
      BY <3>1, <3>2
    <3> QED BY <3>3 DEF U, x
  <2> HIDE DEF w, p, e
  <2>9. Chained(PutFirst(w, e), N, Extended(p, e.key, e.value))
    BY <1>2, <2>1, <2>4, <2>5, <2>6, NewNode DEF N
  <2>10. g[1..i] = PutFirst(w, e)
    BY <1>4 DEF w, e
  <2> HIDE DEF Part
  <2>11. Chained(g[1..i], N, Part(i))
    BY <2>8, <2>9, <2>10
  <2> QED BY <2>11
<1>7. Chained(g[1..L], N, Part(L))
  <2>1. CASE L = 0
    BY <1>5, <2>1
  <2>2. CASE L # 0
    <3>1. G \in SUBSET (1..L)
      OBVIOUS
    <3> HIDE DEF G
    <3>2. G = 1..L
      BY <1>3, <1>6, <3>1, FirstToLast
    <3>3. L \in G
      BY <1>3, <2>2, <3>2
    <3> QED BY <3>3 DEF G
  <2> QED BY <2>1, <2>2
<1>8. Part(L) = c
  <2>1. Upon(L) = DOMAIN c
    <3>1. \A i \in 1..L : f[i].key \in DOMAIN c
      BY <1>1
    <3>2. \A k \in DOMAIN c : \E i \in 1..L : f[i].key = k
      BY <1>1
    <3> QED BY <3>1, <3>2
  <2>2. c = [l \in DOMAIN c |-> c[l]]
    BY DEF ContentOK
  <2> QED BY <2>1, <2>2
<1> HIDE DEF Part
<1> QED BY <1>4, <1>7, <1>8 DEF N

-----------------------------------------------------------------------------
(* What has been passed by an iterator that is to look at bucket b next and *)
(* stands on at.                                                            *)
Passed(t, n, b, at, k) ==
  \/ Home(n, k) < b - 1
  \/ Home(n, k) = b - 1 /\ (at = NoNodeAt \/ PlaceOf(t, k) <= PlaceOf(t, at))

Cursors == [on : BOOLEAN, bucket : Nat \ {0}, at : MapKeys \cup {NoNodeAt, Freed},
            from : SUBSET MapKeys, given : Seq(MapKeys), astray : BOOLEAN]

GivenOnce(given, from) ==
  \A i, j \in 1..Len(given) : given[i] = given[j] /\ given[i] \in from => i = j

PlacedAt(p, n) ==
  /\ p.at = NoNodeAt => (p.bucket = 1 /\ p.given = <<>>) \/ p.bucket = n + 1
  /\ p.at # NoNodeAt => p.bucket = Home(n, p.at) + 1

Onward(p, t, n) ==
  \A k \in p.from : k \in ToSet(p.given) <=> Passed(t, n, p.bucket, p.at, k)

CursorTyped(p, n, c) ==
  /\ p \in Cursors /\ p.bucket <= n + 1 /\ p.from \subseteq DOMAIN c
  /\ p.at \in DOMAIN c \cup {NoNodeAt, Freed}
  /\ ~p.on => p.at = NoNodeAt

CursorOK(p, t, n, c) ==
  /\ CursorTyped(p, n, c)
  /\ p.on /\ ~p.astray =>
       /\ GivenOnce(p.given, p.from)
       /\ p.at # Freed => PlacedAt(p, n) /\ Onward(p, t, n)

(* Values have the owner that the calls gave them.                          *)
OwnersOK(f, c) ==
  /\ f \in [MapValues -> {"caller", "map", "freed", "lost"}]
  /\ \A v \in MapValues : f[v] = "map" <=> \E k \in DOMAIN c : c[k] = v
  /\ (\E v \in MapValues : f[v] = "lost") => mapKind # "grouped_hashmap"
  /\ \A k, l \in DOMAIN c : c[k] = c[l] => k = l

HashMapsInv ==
  /\ mapKind \in MapKinds
  /\ Len(buckets) \in FirstBuckets..MaxBuckets
  /\ ContentOK(content) /\ Chained(buckets, Len(buckets), content)
  /\ entries = Cardinality(DOMAIN content)
  /\ OwnersOK(fate, content)
  /\ CursorOK(cursor, buckets, Len(buckets), content)

LEMMA MapsAre ==
  ASSUME HashMapsAssumption, HashMapsInv
  PROVE  /\ Len(buckets) \in Nat \ {0} /\ buckets \in [1..Len(buckets) -> Seq(MapNodes)]
         /\ DOMAIN content \in SUBSET MapKeys /\ IsFiniteSet(DOMAIN content)
         /\ entries \in Nat /\ fate \in [MapValues -> {"caller", "map", "freed", "lost"}]
         /\ \A k \in DOMAIN content : content[k] \in MapValues
<1>1. Len(buckets) \in Nat \ {0}
  BY DEF HashMapsInv, HashMapsAssumption
<1>2. buckets \in [1..Len(buckets) -> Seq(MapNodes)]
  BY DEF HashMapsInv, Chained
<1>3. /\ DOMAIN content \in SUBSET MapKeys /\ IsFiniteSet(DOMAIN content)
      /\ \A k \in DOMAIN content : content[k] \in MapValues
  BY DEF HashMapsInv, ContentOK
<1>4. entries \in Nat
  BY <1>3, FS_CardinalityType DEF HashMapsInv
<1>5. fate \in [MapValues -> {"caller", "map", "freed", "lost"}]
  BY DEF HashMapsInv, OwnersOK
<1> QED BY <1>1, <1>2, <1>3, <1>4, <1>5

LEMMA MarksApart == HashMapsAssumption => NoNodeAt \notin MapKeys /\ Freed \notin MapKeys /\ NoNodeAt # Freed
BY DEF HashMapsAssumption, MapKeys, NoNodeAt, Freed

LEMMA ExtendedOK ==
  ASSUME NEW c, ContentOK(c), NEW k \in MapKeys, NEW v \in MapValues
  PROVE  ContentOK(Extended(c, k, v))
<1> DEFINE d == Extended(c, k, v)
<1>1. DOMAIN d = DOMAIN c \cup {k} /\ \A l \in DOMAIN d : d[l] = IF l = k THEN v ELSE c[l]
  BY DEF Extended
<1>2. d = [l \in DOMAIN d |-> d[l]]
  BY DEF Extended
<1> HIDE DEF d
<1>3. IsFiniteSet(DOMAIN c) /\ DOMAIN c \in SUBSET MapKeys /\ \A l \in DOMAIN c : c[l] \in MapValues
  BY DEF ContentOK
<1>4. IsFiniteSet(DOMAIN d)
  BY <1>1, <1>3, FS_AddElement
<1>5. DOMAIN d \in SUBSET MapKeys /\ \A l \in DOMAIN d : d[l] \in MapValues
  BY <1>1, <1>3
<1> QED BY <1>2, <1>4, <1>5 DEF ContentOK, d

LEMMA RestrictedOK ==
  ASSUME NEW c, ContentOK(c), NEW gone
  PROVE  /\ ContentOK(Restrict(c, DOMAIN c \ gone)) /\ DOMAIN Restrict(c, DOMAIN c \ gone) = DOMAIN c \ gone
         /\ \A k \in DOMAIN c \ gone : Restrict(c, DOMAIN c \ gone)[k] = c[k]
<1> DEFINE D == DOMAIN c \ gone
           d == Restrict(c, DOMAIN c \ gone)
<1>1. DOMAIN d = D /\ (\A k \in D : d[k] = c[k]) /\ d = [k \in D |-> d[k]]
  BY DEF Restrict
<1> HIDE DEF d
<1>2. IsFiniteSet(DOMAIN c) /\ DOMAIN c \in SUBSET MapKeys /\ \A l \in DOMAIN c : c[l] \in MapValues
  BY DEF ContentOK
<1>3. IsFiniteSet(D)
  BY <1>2, FS_Subset
<1>4. d = [k \in DOMAIN d |-> d[k]] /\ IsFiniteSet(DOMAIN d) /\ DOMAIN d \in SUBSET MapKeys
      /\ \A l \in DOMAIN d : d[l] \in MapValues
  BY <1>1, <1>2, <1>3
<1>5. ContentOK(d)
  BY <1>4 DEF ContentOK
<1> QED BY <1>1, <1>5 DEF d

-----------------------------------------------------------------------------
(* The iterator goes on although the table changes, if the keys K that are  *)
(* left keep their order.                                                   *)
Follows(q, p, K) ==
  /\ q \in Cursors /\ q.on = p.on /\ q.bucket = p.bucket /\ q.given = p.given /\ q.astray = p.astray
  /\ q.from \subseteq p.from /\ q.from \subseteq K
  /\ \/ q.at = Freed /\ p.on
     \/ q.at = p.at /\ q.at \in K \cup {NoNodeAt, Freed}

SameOrder(u, t, n, K) ==
  \A k, l \in K : Home(n, k) = Home(n, l) => (PlaceOf(u, k) <= PlaceOf(u, l) <=> PlaceOf(t, k) <= PlaceOf(t, l))

LEMMA CursorKept ==
  ASSUME HashMapsAssumption, NEW n \in Nat \ {0}, NEW t, NEW u, NEW c, NEW d, NEW p, NEW q, NEW K,
         CursorOK(p, t, n, c), Follows(q, p, K), SameOrder(u, t, n, K),
         K \subseteq DOMAIN c, K \subseteq DOMAIN d, DOMAIN c \in SUBSET MapKeys
  PROVE  CursorOK(q, u, n, d)
<1>1. p \in Cursors /\ p.bucket <= n + 1 /\ (~p.on => p.at = NoNodeAt)
  BY DEF CursorOK, CursorTyped
<1>2. /\ q \in Cursors /\ q.on = p.on /\ q.bucket = p.bucket /\ q.given = p.given /\ q.astray = p.astray
      /\ q.from \subseteq p.from /\ q.from \subseteq K
      /\ \/ q.at = Freed /\ p.on
         \/ q.at = p.at /\ q.at \in K \cup {NoNodeAt, Freed}
  BY DEF Follows
<1>3. CursorTyped(q, n, d)
  BY <1>1, <1>2 DEF CursorTyped
<1>4. ASSUME q.on, ~q.astray
      PROVE  GivenOnce(q.given, q.from) /\ (q.at # Freed => PlacedAt(q, n) /\ Onward(q, u, n))
  <2>1. GivenOnce(p.given, p.from) /\ (p.at # Freed => PlacedAt(p, n) /\ Onward(p, t, n))
    BY <1>2, <1>4 DEF CursorOK
  <2>2. GivenOnce(q.given, q.from)
    BY <1>2, <2>1 DEF GivenOnce
  <2>3. ASSUME q.at # Freed
        PROVE  PlacedAt(q, n) /\ Onward(q, u, n)
    <3>1. q.at = p.at /\ (q.at \in K \/ q.at = NoNodeAt)
      BY <1>2, <2>3
    <3>2. PlacedAt(p, n) /\ Onward(p, t, n)
      BY <2>1, <2>3, <3>1
    <3>3. PlacedAt(q, n)
      BY <1>2, <3>1, <3>2 DEF PlacedAt
    <3>4. ASSUME NEW k \in q.from
          PROVE  k \in ToSet(q.given) <=> Passed(u, n, q.bucket, q.at, k)
      <4>1. k \in p.from /\ k \in K
        BY <1>2
      <4>2. k \in ToSet(p.given) <=> Passed(t, n, p.bucket, p.at, k)
        BY <3>2, <4>1 DEF Onward
      <4>3. Passed(u, n, q.bucket, q.at, k) <=> Passed(t, n, p.bucket, p.at, k)
        <5>1. CASE q.at = NoNodeAt
          BY <1>2, <3>1, <5>1 DEF Passed
        <5>2. CASE q.at # NoNodeAt
          <6>1. q.at \in K /\ q.bucket = Home(n, q.at) + 1
            BY <3>1, <3>3, <5>2 DEF PlacedAt
          <6>2. Home(n, q.at) \in Nat
            <7>1. q.at \in MapKeys
              BY <6>1
            <7> QED BY <7>1, HomeIs
          <6>3. q.bucket - 1 = Home(n, q.at)
            BY <6>1, <6>2
          <6>4. Home(n, k) = q.bucket - 1 => (PlaceOf(u, k) <= PlaceOf(u, q.at) <=> PlaceOf(t, k) <= PlaceOf(t, q.at))
            BY <4>1, <6>1, <6>3 DEF SameOrder
          <6> QED BY <1>2, <3>1, <5>2, <6>4 DEF Passed
        <5> QED BY <5>1, <5>2
      <4> QED BY <1>2, <4>2, <4>3
    <3>5. Onward(q, u, n)
      BY <3>4 DEF Onward
    <3> QED BY <3>3, <3>5
  <2> QED BY <2>2, <2>3
<1> QED BY <1>3, <1>4 DEF CursorOK

-----------------------------------------------------------------------------
(* The map starts empty.                                                    *)
LEMMA HashMapsInvInit == HashMapsAssumption /\ HashMapsInit => HashMapsInv
<1> SUFFICES ASSUME HashMapsAssumption, HashMapsInit
             PROVE  HashMapsInv
  OBVIOUS
<1> DEFINE n == FirstBuckets
           t == [b \in 1..n |-> <<>>]
           c == << >>
<1>1. n \in Nat \ {0} /\ n \in FirstBuckets..MaxBuckets
  BY DEF HashMapsAssumption
<1>2. buckets = t /\ content = c /\ entries = 0 /\ cursor = NoCursor /\ mapKind \in MapKinds
      /\ fate = [v \in MapValues |-> "caller"]
  BY DEF HashMapsInit
<1>3. t \in [1..n -> Seq(MapNodes)] /\ \A b \in 1..n : 1..Len(t[b]) = {}
  <2>1. <<>> \in Seq(MapNodes) /\ 1..Len(<<>>) = {}
    OBVIOUS
  <2> QED BY <2>1
<1>4. DOMAIN c = {} /\ c = [k \in DOMAIN c |-> c[k]]
  OBVIOUS
<1> HIDE DEF t, c, n
<1>5. Len(t) = n
  BY <1>1, <1>3, BucketIs
<1>6. Chained(t, n, c)
  BY <1>3, <1>4 DEF Chained, KeyedAs, KeysOnce, KeysThere
<1>7. ContentOK(c) /\ Cardinality(DOMAIN c) = 0
  BY <1>4, FS_EmptySet DEF ContentOK
<1>8. OwnersOK(fate, c)
  BY <1>2, <1>4 DEF OwnersOK
<1>9. CursorOK(cursor, t, n, c)
  <2>1. NoCursor \in Cursors /\ NoCursor.bucket = 1 /\ NoCursor.from = {} /\ ~NoCursor.on /\ NoCursor.at = NoNodeAt
    BY DEF NoCursor, Cursors
  <2>2. 1 <= n + 1
    BY <1>1
  <2> QED BY <1>2, <1>4, <2>1, <2>2 DEF CursorOK, CursorTyped
<1> QED BY <1>1, <1>2, <1>5, <1>6, <1>7, <1>8, <1>9 DEF HashMapsInv

(* A value is set.                                                          *)
LEMMA SetEntryStep ==
  ASSUME HashMapsAssumption, HashMapsInv, NEW k \in MapKeys, NEW v \in MapValues, SetEntry(k, v)
  PROVE  HashMapsInv'
<1> DEFINE n == Len(buckets)
           N == IF TooFull THEN 2 * n ELSE n
           t == IF TooFull THEN Doubled(buckets) ELSE buckets
           c == content
           d == Extended(content, k, v)
<1>1. /\ n \in Nat \ {0} /\ buckets \in [1..n -> Seq(MapNodes)] /\ entries \in Nat
      /\ DOMAIN c \in SUBSET MapKeys /\ IsFiniteSet(DOMAIN c)
      /\ fate \in [MapValues -> {"caller", "map", "freed", "lost"}]
      /\ \A l \in DOMAIN c : c[l] \in MapValues
  BY MapsAre
<1>2. ContentOK(c) /\ Chained(buckets, n, c) /\ OwnersOK(fate, c) /\ CursorOK(cursor, buckets, n, c)
      /\ entries = Cardinality(DOMAIN c) /\ mapKind \in MapKinds /\ n \in FirstBuckets..MaxBuckets
  BY DEF HashMapsInv
<1>3. /\ fate[v] = "caller" /\ (TooFull => 2 * n <= MaxBuckets) /\ content' = d /\ mapKind' = mapKind
      /\ cursor' = [cursor EXCEPT !.astray = @ \/ (TooFull /\ cursor.on)]
  BY DEF SetEntry, Extended
<1>4. \/ /\ HasKey(t, k) /\ buckets' = [t EXCEPT ![Bucket(t, k)][PlaceOf(t, k)].value = v]
         /\ fate' = [fate EXCEPT ![v] = "map", ![Got(t, k)] =
                          IF mapKind = "grouped_hashmap" THEN "freed" ELSE "lost"]
         /\ entries' = entries
      \/ /\ ~HasKey(t, k) /\ buckets' = PutFirst(t, [key |-> k, value |-> v])
         /\ fate' = [fate EXCEPT ![v] = "map"] /\ entries' = entries + 1
  BY DEF SetEntry
<1>5. N \in Nat \ {0} /\ N \in FirstBuckets..MaxBuckets /\ n <= N /\ FirstBuckets \in Nat
  BY <1>1, <1>2, <1>3 DEF HashMapsAssumption
<1>6. Chained(t, N, c)
  <2>1. CASE TooFull
    <3>1. Chained(Doubled(buckets), 2 * n, c)
      BY <1>1, <1>2, DoubledIs
    <3> QED BY <2>1, <3>1
  <2>2. CASE ~TooFull
    BY <1>2, <2>2
  <2> QED BY <2>1, <2>2
<1>7. ContentOK(d) /\ DOMAIN d = DOMAIN c \cup {k} /\ d[k] = v /\ \A l \in DOMAIN c : l # k => d[l] = c[l]
  <2>1. ContentOK(c)
    BY <1>2
  <2> HIDE DEF c
  <2>2. ContentOK(Extended(c, k, v))
    BY <2>1, ExtendedOK
  <2>3. d = Extended(c, k, v)
    BY DEF c
  <2>4. DOMAIN d = DOMAIN c \cup {k} /\ \A l \in DOMAIN c \cup {k} : d[l] = IF l = k THEN v ELSE c[l]
    BY <2>3 DEF Extended
  <2> QED BY <2>2, <2>3, <2>4
<1>8. \A l \in DOMAIN c : c[l] # v
  BY <1>2, <1>3 DEF OwnersOK
<1>9. \A a, b \in DOMAIN d : d[a] = d[b] => a = b
  <2>1. \A a, b \in DOMAIN c : c[a] = c[b] => a = b
    BY <1>2 DEF OwnersOK
  <2> QED BY <1>7, <1>8, <2>1
<1>10. ~TooFull => N = n /\ t = buckets
  OBVIOUS
<1>11. TooFull => N = 2 * n
  OBVIOUS
<1> HIDE DEF n, N, t, c, d
<1>12. HasKey(t, k) <=> k \in DOMAIN c
  BY <1>5, <1>6, LookedUp
<1>13. ASSUME NEW u, Chained(u, N, d), buckets' = u, SameOrder(u, t, N, DOMAIN c),
              entries' = Cardinality(DOMAIN d), OwnersOK(fate, content)'
       PROVE  HashMapsInv'
  <2>1. u \in [1..N -> Seq(MapNodes)]
    BY <1>13 DEF Chained
  <2>2. Len(u) = N
    BY <1>5, <2>1, BucketIs
  <2> DEFINE q == [cursor EXCEPT !.astray = @ \/ (TooFull /\ cursor.on)]
  <2>3. cursor \in Cursors /\ cursor.bucket <= n + 1 /\ cursor.from \subseteq DOMAIN c
        /\ cursor.at \in DOMAIN c \cup {NoNodeAt, Freed} /\ (~cursor.on => cursor.at = NoNodeAt)
    BY <1>2 DEF CursorOK, CursorTyped
  <2>4. CursorOK(q, u, N, d)
    <3>1. CASE TooFull
      <4>1. q \in Cursors /\ q.on = cursor.on /\ q.bucket = cursor.bucket /\ q.from = cursor.from /\ q.at = cursor.at
            /\ (q.on => q.astray)
        BY <2>3, <3>1 DEF Cursors
      <4>2. q.bucket <= N + 1
        <5>1. cursor.bucket \in Nat
          BY <2>3 DEF Cursors
        <5> QED BY <1>1, <1>5, <2>3, <4>1, <5>1
      <4> HIDE DEF q
      <4>3. CursorTyped(q, N, d)
        BY <1>7, <2>3, <4>1, <4>2 DEF CursorTyped
      <4> QED BY <4>1, <4>3 DEF CursorOK
    <3>2. CASE ~TooFull
      <4>1. q = cursor
        BY <2>3, <3>2 DEF Cursors
      <4> DEFINE K == DOMAIN c
      <4>2. Follows(cursor, cursor, K)
        BY <2>3 DEF Follows
      <4>3. CursorOK(cursor, buckets, N, c) /\ SameOrder(u, buckets, N, K)
        BY <1>2, <1>10, <1>13, <3>2
      <4>4. K \subseteq DOMAIN c /\ K \subseteq DOMAIN d
        BY <1>7
      <4> HIDE DEF q, K
      <4>5. CursorOK(cursor, u, N, d)
        BY <1>1, <1>5, <4>2, <4>3, <4>4, CursorKept
      <4> QED BY <4>1, <4>5
    <3> QED BY <3>1, <3>2
  <2>5. cursor' = q
    BY <1>3
  <2> HIDE DEF q
  <2>6. Len(buckets') = N /\ content' = d
    BY <1>3, <1>13, <2>2
  <2> QED BY <1>2, <1>3, <1>5, <1>7, <1>13, <2>4, <2>5, <2>6 DEF HashMapsInv
<1>14. CASE ~HasKey(t, k)
  <2> DEFINE e == [key |-> k, value |-> v]
             u == PutFirst(t, [key |-> k, value |-> v])
  <2>1. e \in MapNodes /\ e.key = k /\ e.value = v /\ k \notin DOMAIN c
    BY <1>12, <1>14 DEF MapNodes
  <2>2. buckets' = u /\ fate' = [fate EXCEPT ![v] = "map"] /\ entries' = entries + 1 /\ u = PutFirst(t, e)
    BY <1>4, <1>14
  <2> HIDE DEF e, u
  <2>3. /\ Chained(PutFirst(t, e), N, Extended(c, e.key, e.value))
        /\ \A l \in DOMAIN c :
             PlaceOf(PutFirst(t, e), l) = PlaceOf(t, l) + (IF Home(N, l) = Home(N, e.key) THEN 1 ELSE 0)
    <3>1. DOMAIN c \in SUBSET MapKeys
      BY <1>1
    <3>2. N \in Nat \ {0}
      BY <1>5
    <3>3. e.key \notin DOMAIN c
      BY <2>1
    <3>4. e \in MapNodes
      BY <2>1
    <3> QED BY <1>6, <3>1, <3>2, <3>3, <3>4, NewNode
  <2>4. Chained(u, N, d)
    BY <2>1, <2>2, <2>3 DEF d, c
  <2>5. SameOrder(u, t, N, DOMAIN c)
    <3> SUFFICES ASSUME NEW a \in DOMAIN c, NEW b \in DOMAIN c, Home(N, a) = Home(N, b)
                 PROVE  PlaceOf(u, a) <= PlaceOf(u, b) <=> PlaceOf(t, a) <= PlaceOf(t, b)
      BY DEF SameOrder
    <3>1. PlaceOf(t, a) \in Nat /\ PlaceOf(t, b) \in Nat
      <4>1. a \in MapKeys /\ b \in MapKeys
        BY <1>1
      <4> QED BY <1>5, <1>6, <4>1, LookedUp
    <3> DEFINE x == IF Home(N, a) = Home(N, e.key) THEN 1 ELSE 0
    <3>2. PlaceOf(u, a) = PlaceOf(t, a) + x /\ PlaceOf(u, b) = PlaceOf(t, b) + x /\ x \in Nat
      BY <2>2, <2>3
    <3> HIDE DEF x
    <3> QED BY <3>1, <3>2
  <2>6. entries' = Cardinality(DOMAIN d)
    BY <1>1, <1>2, <1>7, <2>1, <2>2, FS_AddElement
  <2>7. OwnersOK(fate, content)'
    <3>1. fate' \in [MapValues -> {"caller", "map", "freed", "lost"}] /\ fate'[v] = "map"
          /\ \A w \in MapValues : w # v => fate'[w] = fate[w]
      BY <1>1, <2>2
    <3>2. \A w \in MapValues : fate'[w] = "map" <=> \E l \in DOMAIN d : d[l] = w
      <4> TAKE w \in MapValues
      <4>1. CASE w = v
        BY <1>7, <3>1, <4>1
      <4>2. CASE w # v
        <5>1. fate[w] = "map" <=> \E l \in DOMAIN c : c[l] = w
          BY <1>2 DEF OwnersOK
        <5> QED BY <1>7, <2>1, <3>1, <4>2, <5>1
      <4> QED BY <4>1, <4>2
    <3>3. (\E w \in MapValues : fate'[w] = "lost") => mapKind' # "grouped_hashmap"
      BY <1>2, <1>3, <3>1 DEF OwnersOK
    <3> QED BY <1>3, <1>9, <3>1, <3>2, <3>3 DEF OwnersOK
  <2> QED BY <1>13, <2>2, <2>4, <2>5, <2>6, <2>7
<1>15. CASE HasKey(t, k)
  <2> DEFINE u == [t EXCEPT ![Bucket(t, k)][PlaceOf(t, k)].value = v]
             w0 == Got(t, k)
  <2>1. k \in DOMAIN c
    BY <1>12, <1>15
  <2>2. /\ buckets' = u /\ entries' = entries
        /\ fate' = [fate EXCEPT ![v] = "map", ![w0] = IF mapKind = "grouped_hashmap" THEN "freed" ELSE "lost"]
    BY <1>4, <1>15
  <2>3. Chained(u, N, d) /\ \A l \in DOMAIN c : PlaceOf(u, l) = PlaceOf(t, l)
    <3>1. DOMAIN c \in SUBSET MapKeys
      BY <1>1
    <3>2. N \in Nat \ {0}
      BY <1>5
    <3>3. Chained(Revalued(t, k, v), N, Extended(c, k, v)) /\ \A l \in DOMAIN c : PlaceOf(Revalued(t, k, v), l) = PlaceOf(t, l)
      BY <1>6, <2>1, <3>1, <3>2, NewValue
    <3>4. d = Extended(c, k, v)
      BY DEF d, c
    <3>5. u = Revalued(t, k, v)
      BY DEF Revalued
    <3> HIDE DEF u
    <3> QED BY <3>3, <3>4, <3>5
  <2>4. w0 = c[k] /\ w0 \in MapValues
    <3>1. PlaceOf(t, k) \in 1..Len(t[Home(N, k)]) /\ t[Home(N, k)][PlaceOf(t, k)].key = k
      BY <1>5, <1>6, <2>1, LookedUp
    <3>2. \A i \in 1..Len(t[Home(N, k)]) : t[Home(N, k)][i].key = k => Got(t, k) = c[k]
      BY <1>5, <1>6, LookedUp
    <3>3. Got(t, k) = c[k]
      BY <3>1, <3>2
    <3> QED BY <1>1, <2>1, <3>3
  <2> HIDE DEF u, w0
  <2>5. SameOrder(u, t, N, DOMAIN c)
    BY <2>3 DEF SameOrder
  <2>6. entries' = Cardinality(DOMAIN d)
    <3>1. DOMAIN d = DOMAIN c
      BY <1>7, <2>1
    <3> QED BY <1>2, <2>2, <3>1
  <2>7. OwnersOK(fate, content)'
    <3>1. w0 # v
      BY <1>8, <2>1, <2>4
    <3>2. /\ fate' \in [MapValues -> {"caller", "map", "freed", "lost"}] /\ fate'[v] = "map"
          /\ fate'[w0] = (IF mapKind = "grouped_hashmap" THEN "freed" ELSE "lost")
          /\ \A w \in MapValues : w # v /\ w # w0 => fate'[w] = fate[w]
      BY <1>1, <2>2, <2>4, <3>1
    <3>3. \A w \in MapValues : fate'[w] = "map" <=> \E l \in DOMAIN d : d[l] = w
      <4> TAKE w \in MapValues
      <4>1. fate[w] = "map" <=> \E l \in DOMAIN c : c[l] = w
        BY <1>2 DEF OwnersOK
      <4>2. CASE w = v
        BY <1>7, <3>2, <4>2
      <4>3. CASE w = w0
        <5>1. \A l \in DOMAIN c : c[l] = w0 => l = k
          BY <1>2, <2>1, <2>4 DEF OwnersOK
        <5>2. \A l \in DOMAIN d : d[l] # w0
          BY <1>7, <2>1, <3>1, <5>1
        <5> QED BY <3>2, <4>3, <5>2
      <4>4. CASE w # v /\ w # w0
        <5>1. \A l \in DOMAIN d : d[l] = w <=> c[l] = w
          BY <1>7, <2>1, <2>4, <4>4
        <5>2. DOMAIN d = DOMAIN c
          BY <1>7, <2>1
        <5> QED BY <3>2, <4>1, <4>4, <5>1, <5>2
      <4> QED BY <4>2, <4>3, <4>4
    <3>4. (\E w \in MapValues : fate'[w] = "lost") => mapKind' # "grouped_hashmap"
      BY <1>2, <1>3, <2>4, <3>2 DEF OwnersOK
    <3> QED BY <1>3, <1>9, <3>2, <3>3, <3>4 DEF OwnersOK
  <2> QED BY <1>13, <2>2, <2>3, <2>5, <2>6, <2>7
<1> QED BY <1>14, <1>15

(* Nodes go, with the iterator at one of them.                              *)
LEMMA LeftStep ==
  ASSUME HashMapsAssumption, HashMapsInv, NEW gone \in SUBSET MapKeys, Left(gone), mapKind' = mapKind,
         OwnersOK(fate', content')
  PROVE  HashMapsInv'
<1> DEFINE n == Len(buckets)
           t == buckets
           c == content
           K == DOMAIN c \ gone
           d == Restrict(c, K)
           u == SiftedTable(t, gone)
           q == [cursor EXCEPT !.at = IF @ \in gone THEN Freed ELSE @, !.from = @ \ gone]
<1>1. n \in Nat \ {0} /\ t \in [1..n -> Seq(MapNodes)] /\ DOMAIN c \in SUBSET MapKeys /\ IsFiniteSet(DOMAIN c)
  BY MapsAre
<1>2. ContentOK(c) /\ Chained(t, n, c) /\ CursorOK(cursor, t, n, c)
      /\ entries = Cardinality(DOMAIN c) /\ mapKind \in MapKinds /\ n \in FirstBuckets..MaxBuckets
  BY DEF HashMapsInv
<1>3. buckets' = u /\ content' = d /\ cursor' = q
      /\ entries' = entries - Cardinality({k \in gone : HasKey(buckets, k)})
  BY DEF Left, SiftedTable
<1> HIDE DEF n, t, c, u, q
<1>4. ContentOK(d) /\ DOMAIN d = K
  BY <1>2, RestrictedOK
<1>5. Chained(u, n, d) /\ SameOrder(u, t, n, K)
  <2>1. n \in Nat \ {0}
    BY <1>1
  <2>2. DOMAIN c \in SUBSET MapKeys
    BY <1>1
  <2>3. Chained(t, n, c)
    BY <1>2
  <2>4. /\ Chained(SiftedTable(t, gone), n, Restrict(c, DOMAIN c \ gone))
        /\ \A k, l \in DOMAIN c \ gone : Home(n, k) = Home(n, l) =>
              (PlaceOf(SiftedTable(t, gone), k) <= PlaceOf(SiftedTable(t, gone), l)
                 <=> PlaceOf(t, k) <= PlaceOf(t, l))
    BY <2>1, <2>2, <2>3, NodesGo
  <2> QED BY <2>4 DEF SameOrder, u
<1>6. Len(u) = n
  <2>1. u \in [1..n -> Seq(MapNodes)]
    BY <1>5 DEF Chained
  <2> QED BY <1>1, <2>1, BucketIs
<1>7. entries' = Cardinality(DOMAIN d)
  <2>1. \A k \in gone : HasKey(t, k) <=> k \in DOMAIN c
    <3> TAKE k \in gone
    <3>1. k \in MapKeys
      OBVIOUS
    <3> QED BY <1>1, <1>2, <3>1, LookedUp
  <2>2. {k \in gone : HasKey(buckets, k)} = DOMAIN c \cap gone
    BY <2>1 DEF t
  <2>3. Cardinality(DOMAIN c \ gone) = Cardinality(DOMAIN c) - Cardinality(DOMAIN c \cap gone)
    BY <1>1, FS_Difference
  <2> QED BY <1>2, <1>3, <1>4, <2>2, <2>3
<1>8. cursor \in Cursors /\ cursor.at \in DOMAIN c \cup {NoNodeAt, Freed} /\ cursor.from \subseteq DOMAIN c
      /\ (~cursor.on => cursor.at = NoNodeAt)
  BY <1>2 DEF CursorOK, CursorTyped
<1>9. Follows(q, cursor, K)
  <2>1. NoNodeAt \notin gone /\ Freed \notin gone
    BY MarksApart
  <2>2. /\ q \in Cursors /\ q.on = cursor.on /\ q.bucket = cursor.bucket /\ q.given = cursor.given
        /\ q.astray = cursor.astray /\ q.from = cursor.from \ gone
        /\ q.at = IF cursor.at \in gone THEN Freed ELSE cursor.at
    BY <1>8 DEF Cursors, q
  <2> HIDE DEF d
  <2> QED BY <1>8, <2>1, <2>2 DEF Follows
<1>10. CursorOK(q, u, n, d)
  <2>1. K \subseteq DOMAIN c /\ K \subseteq DOMAIN d
    BY <1>4
  <2>2. DOMAIN c \in SUBSET MapKeys
    BY <1>1
  <2> HIDE DEF K, d
  <2> QED BY <1>1, <1>2, <1>5, <1>9, <2>1, <2>2, CursorKept
<1> HIDE DEF d
<1>11. Len(buckets') = n /\ OwnersOK(fate, content)'
  <2>1. OwnersOK(fate, content)'
    BY DEF OwnersOK
  <2> QED BY <1>3, <1>6, <2>1
<1> QED BY <1>2, <1>3, <1>4, <1>5, <1>7, <1>10, <1>11 DEF HashMapsInv

(* The value that a key had goes back to the caller.                        *)
LEMMA RemoveEntryStep ==
  ASSUME HashMapsAssumption, HashMapsInv, NEW k \in MapKeys, RemoveEntry(k)
  PROVE  HashMapsInv'
<1> DEFINE n == Len(buckets)
           c == content
           K == DOMAIN c \ {k}
           w0 == Got(buckets, k)
<1>1. n \in Nat \ {0} /\ fate \in [MapValues -> {"caller", "map", "freed", "lost"}]
      /\ \A l \in DOMAIN c : c[l] \in MapValues
  BY MapsAre
<1>2. Chained(buckets, n, c) /\ OwnersOK(fate, c) /\ ContentOK(c)
  BY DEF HashMapsInv
<1>3. HasKey(buckets, k) /\ Left({k}) /\ mapKind' = mapKind /\ fate' = [fate EXCEPT ![w0] = "caller"]
  BY DEF RemoveEntry
<1>4. content' = Restrict(c, K)
  BY <1>3 DEF Left
<1> HIDE DEF n, c
<1>5. k \in DOMAIN c /\ w0 = c[k]
  <2>1. k \in DOMAIN c
    BY <1>1, <1>2, <1>3, LookedUp
  <2>2. PlaceOf(buckets, k) \in 1..Len(buckets[Home(n, k)]) /\ buckets[Home(n, k)][PlaceOf(buckets, k)].key = k
    BY <1>1, <1>2, <2>1, LookedUp
  <2>3. \A i \in 1..Len(buckets[Home(n, k)]) : buckets[Home(n, k)][i].key = k => Got(buckets, k) = c[k]
    BY <1>1, <1>2, LookedUp
  <2> QED BY <2>1, <2>2, <2>3
<1>6. DOMAIN content' = K /\ \A l \in K : content'[l] = c[l]
  BY <1>2, <1>4, RestrictedOK
<1> HIDE DEF w0
<1>7. /\ fate' \in [MapValues -> {"caller", "map", "freed", "lost"}] /\ fate'[w0] = "caller"
      /\ \A w \in MapValues : w # w0 => fate'[w] = fate[w]
  BY <1>1, <1>3, <1>5
<1>8. \A l \in DOMAIN c : l # k => c[l] # w0
  BY <1>2, <1>5 DEF OwnersOK
<1>9. \A w \in MapValues : fate'[w] = "map" <=> \E l \in DOMAIN content' : content'[l] = w
  <2> TAKE w \in MapValues
  <2>1. fate[w] = "map" <=> \E l \in DOMAIN c : c[l] = w
    BY <1>2 DEF OwnersOK
  <2>2. CASE w = w0
    BY <1>6, <1>7, <1>8, <2>2
  <2>3. CASE w # w0
    BY <1>5, <1>6, <1>7, <2>1, <2>3
  <2> QED BY <2>2, <2>3
<1>10. (\E w \in MapValues : fate'[w] = "lost") => mapKind' # "grouped_hashmap"
  BY <1>2, <1>3, <1>7 DEF OwnersOK
<1>11. \A a, b \in DOMAIN content' : content'[a] = content'[b] => a = b
  BY <1>2, <1>6 DEF OwnersOK
<1>12. OwnersOK(fate', content')
  <2>1. (\E w \in MapValues : fate'[w] = "lost") => mapKind # "grouped_hashmap"
    BY <1>3, <1>10
  <2> QED BY <1>7, <1>9, <2>1, <1>11 DEF OwnersOK
<1>13. {k} \in SUBSET MapKeys
  OBVIOUS
<1> DEFINE gone == {k}
<1>14. gone \in SUBSET MapKeys /\ Left(gone)
  BY <1>3
<1> HIDE DEF gone
<1> QED BY <1>3, <1>12, <1>14, LeftStep

(* The values of the keys that go are freed.                                *)
LEMMA FreesStep ==
  ASSUME HashMapsAssumption, HashMapsInv, NEW gone \in SUBSET MapKeys, Left(gone), Frees(gone), mapKind' = mapKind
  PROVE  HashMapsInv'
<1> DEFINE n == Len(buckets)
           c == content
           K == DOMAIN c \ gone
<1>1. n \in Nat \ {0} /\ fate \in [MapValues -> {"caller", "map", "freed", "lost"}]
      /\ (\A l \in DOMAIN c : c[l] \in MapValues) /\ DOMAIN c \in SUBSET MapKeys
  BY MapsAre
<1>2. Chained(buckets, n, c) /\ OwnersOK(fate, c) /\ ContentOK(c)
  BY DEF HashMapsInv
<1>3. content' = Restrict(c, K)
  BY DEF Left
<1> HIDE DEF n, c
<1>4. \A k \in gone : (HasKey(buckets, k) <=> k \in DOMAIN c) /\ (k \in DOMAIN c => Got(buckets, k) = c[k])
  <2> TAKE k \in gone
  <2>0. k \in MapKeys
    OBVIOUS
  <2>1. HasKey(buckets, k) <=> k \in DOMAIN c
    BY <1>1, <1>2, <2>0, LookedUp
  <2>2. k \in DOMAIN c => PlaceOf(buckets, k) \in 1..Len(buckets[Home(n, k)])
                          /\ buckets[Home(n, k)][PlaceOf(buckets, k)].key = k
    BY <1>1, <1>2, <2>0, LookedUp
  <2>3. \A i \in 1..Len(buckets[Home(n, k)]) : buckets[Home(n, k)][i].key = k => Got(buckets, k) = c[k]
    BY <1>1, <1>2, <2>0, LookedUp
  <2> QED BY <2>1, <2>2, <2>3
<1>5. \A w \in MapValues : fate'[w] = IF \E k \in gone : k \in DOMAIN c /\ c[k] = w THEN "freed" ELSE fate[w]
  <2> TAKE w \in MapValues
  <2>1. (\E k \in gone : HasKey(buckets, k) /\ Got(buckets, k) = w) <=> \E k \in gone : k \in DOMAIN c /\ c[k] = w
    BY <1>4
  <2>2. fate'[w] = IF \E k \in gone : HasKey(buckets, k) /\ Got(buckets, k) = w THEN "freed" ELSE fate[w]
    BY DEF Frees
  <2> QED BY <2>1, <2>2
<1>6. fate' \in [MapValues -> {"caller", "map", "freed", "lost"}]
  <2>1. fate' = [w \in MapValues |-> fate'[w]]
    BY DEF Frees
  <2>2. \A w \in MapValues : fate'[w] \in {"caller", "map", "freed", "lost"}
    BY <1>1, <1>5
  <2> QED BY <2>1, <2>2
<1>7. DOMAIN content' = K /\ \A l \in K : content'[l] = c[l]
  BY <1>2, <1>3, RestrictedOK
<1>8. \A a, b \in DOMAIN c : c[a] = c[b] => a = b
  BY <1>2 DEF OwnersOK
<1>9. \A w \in MapValues : fate'[w] = "map" <=> \E l \in DOMAIN content' : content'[l] = w
  <2> TAKE w \in MapValues
  <2>1. fate[w] = "map" <=> \E l \in DOMAIN c : c[l] = w
    BY <1>2 DEF OwnersOK
  <2>2. CASE \E k \in gone : k \in DOMAIN c /\ c[k] = w
    <3>1. fate'[w] = "freed"
      BY <1>5, <2>2
    <3>2. \A l \in K : c[l] # w
      BY <1>8, <2>2
    <3> QED BY <1>7, <3>1, <3>2
  <2>3. CASE ~\E k \in gone : k \in DOMAIN c /\ c[k] = w
    <3>1. fate'[w] = fate[w]
      BY <1>5, <2>3
    <3> QED BY <1>7, <2>1, <2>3, <3>1
  <2> QED BY <2>2, <2>3
<1>10. (\E w \in MapValues : fate'[w] = "lost") => mapKind # "grouped_hashmap"
  <2>1. \A w \in MapValues : fate'[w] = "lost" => fate[w] = "lost"
    BY <1>5
  <2> QED BY <1>2, <2>1 DEF OwnersOK
<1>11. \A a, b \in DOMAIN content' : content'[a] = content'[b] => a = b
  BY <1>7, <1>8
<1>12. OwnersOK(fate', content')
  BY <1>6, <1>9, <1>10, <1>11 DEF OwnersOK
<1> QED BY <1>12, LeftStep

-----------------------------------------------------------------------------
(* The next bucket that has a node.                                         *)
LEMMA NextFullIs ==
  ASSUME HashMapsAssumption, HashMapsInv
  PROVE  /\ NextFull \in cursor.bucket..(Len(buckets) + 1)
         /\ NextFull <= Len(buckets) => buckets[NextFull] # <<>>
         /\ \A a \in cursor.bucket..(NextFull - 1) : buckets[a] = <<>>
<1> DEFINE n == Len(buckets)
           w == cursor.bucket
           Full(b) == b <= n => buckets[b] # <<>>
           F == {b \in w..(n + 1) : Full(b)}
<1>1. n \in Nat \ {0} /\ w \in Nat \ {0} /\ w <= n + 1
  <2>1. n \in Nat \ {0}
    BY MapsAre
  <2>2. cursor \in Cursors /\ cursor.bucket <= n + 1
    BY DEF HashMapsInv, CursorOK, CursorTyped
  <2> QED BY <2>1, <2>2 DEF Cursors
<1> HIDE DEF n, w
<1>2. F \in SUBSET Nat /\ F # {}
  <2>1. n + 1 \in w..(n + 1) /\ ~(n + 1 <= n)
    BY <1>1
  <2>2. n + 1 \in F
    BY <2>1
  <2>3. \A b \in w..(n + 1) : b \in Nat
    BY <1>1
  <2> QED BY <2>2, <2>3
<1> DEFINE m == Min(F)
<1>3. m \in F /\ \A b \in F : m <= b
  <2> HIDE DEF F
  <2> QED BY <1>2, MinIs
<1> HIDE DEF m
<1>4. \A a \in w..(m - 1) : buckets[a] = <<>>
  <2> TAKE a \in w..(m - 1)
  <2>1. m \in w..(n + 1) /\ m \in Int
    BY <1>1, <1>3
  <2>2. a \in w..(n + 1) /\ a < m /\ a <= n
    BY <1>1, <2>1
  <2>3. a \notin F
    BY <1>1, <1>3, <2>1, <2>2
  <2> QED BY <2>2, <2>3
<1>5. m \in w..(n + 1) /\ (m <= n => buckets[m] # <<>>)
  BY <1>3
<1>6. \E b \in w..(n + 1) : (b <= n => buckets[b] # <<>>) /\ \A a \in w..(b - 1) : buckets[a] = <<>>
  BY <1>4, <1>5
<1>7. NextFull = CHOOSE b \in w..(n + 1) : (b <= n => buckets[b] # <<>>) /\ \A a \in w..(b - 1) : buckets[a] = <<>>
  BY DEF NextFull, n, w
<1>8. NextFull \in w..(n + 1) /\ (NextFull <= n => buckets[NextFull] # <<>>)
      /\ \A a \in w..(NextFull - 1) : buckets[a] = <<>>
  BY <1>6, <1>7
<1> QED BY <1>8 DEF n, w

(* What is behind the iterator's node.                                      *)
LEMMA BehindIs ==
  ASSUME HashMapsAssumption, HashMapsInv, cursor.at \in DOMAIN content
  PROVE  LET s == buckets[Home(Len(buckets), cursor.at)]
             p == PlaceOf(buckets, cursor.at) IN
           /\ s \in Seq(MapNodes) /\ p \in 1..Len(s) /\ s[p].key = cursor.at
           /\ Behind # <<>> => p + 1 \in 1..Len(s) /\ Behind[1] = s[p + 1]
           /\ Behind = <<>> => p = Len(s)
<1> DEFINE n == Len(buckets)
           k == cursor.at
           s == buckets[Home(n, k)]
           p == PlaceOf(buckets, k)
<1>1. n \in Nat \ {0} /\ buckets \in [1..n -> Seq(MapNodes)] /\ k \in MapKeys
  BY MapsAre
<1>2. Chained(buckets, n, content)
  BY DEF HashMapsInv
<1>3. Home(n, k) \in 1..n
  BY <1>1, HomeIs
<1>4. Bucket(buckets, k) = Home(n, k)
  BY <1>1, BucketIs
<1>5. p \in 1..Len(s) /\ s[p].key = k
  BY <1>1, <1>2, LookedUp
<1>6. Behind = SubSeq(s, p + 1, Len(s))
  <2>1. k # NoNodeAt
    BY <1>1, MarksApart
  <2> QED BY <1>4, <2>1 DEF Behind
<1> HIDE DEF n, k, s, p
<1>7. s \in Seq(MapNodes)
  BY <1>1, <1>3 DEF s
<1>8. Len(s) \in Nat /\ p \in Nat /\ p <= Len(s) /\ 1 <= p
  BY <1>5, <1>7, LenProperties
<1> DEFINE z == SubSeq(s, p + 1, Len(s))
<1>9. /\ z \in Seq(MapNodes)
      /\ Len(z) = (IF p + 1 <= Len(s) THEN Len(s) - (p + 1) + 1 ELSE 0)
      /\ \A i \in 1..(Len(s) - (p + 1) + 1) : z[i] = s[p + 1 + i - 1]
  <2>1. p + 1 \in Int /\ Len(s) \in Int
    BY <1>8
  <2>2. \A i \in (p + 1)..Len(s) : i \in DOMAIN s
    BY <1>7, <1>8, LenProperties
  <2> QED BY <1>7, <1>8, <2>1, <2>2, SubSeqProperties
<1> HIDE DEF z
<1>10. CASE p < Len(s)
  <2>1. p + 1 \in 1..Len(s) /\ Len(z) # 0 /\ 1 \in 1..(Len(s) - (p + 1) + 1) /\ p + 1 + 1 - 1 = p + 1
    BY <1>8, <1>9, <1>10
  <2>2. z # <<>> /\ z[1] = s[p + 1]
    BY <1>9, <2>1, EmptySeq
  <2> QED BY <1>5, <1>6, <1>7, <2>1, <2>2 DEF z, s, p, n, k
<1>11. CASE p = Len(s)
  <2>1. Len(z) = 0
    BY <1>8, <1>9, <1>11
  <2>2. z = <<>>
    BY <1>9, <2>1, EmptySeq
  <2> QED BY <1>5, <1>6, <1>7, <1>11, <2>2 DEF z, s, p, n, k
<1> QED BY <1>8, <1>10, <1>11

(* A walk begins.                                                           *)
LEMMA BeginWalkStep ==
  ASSUME HashMapsAssumption, HashMapsInv, BeginWalk
  PROVE  HashMapsInv'
<1> DEFINE n == Len(buckets)
           c == content
           q == [NoCursor EXCEPT !.on = TRUE, !.from = DOMAIN content]
<1>1. n \in Nat \ {0} /\ DOMAIN c \in SUBSET MapKeys /\ \A k \in DOMAIN c : Home(n, k) \in 1..n
  <2>1. n \in Nat \ {0} /\ DOMAIN c \in SUBSET MapKeys
    BY MapsAre
  <2> QED BY <2>1, HomeIs
<1>2. cursor' = q /\ UNCHANGED <<mapKind, buckets, entries, content, fate>>
  BY DEF BeginWalk
<1>3. /\ NoCursor \in Cursors /\ NoCursor.bucket = 1 /\ NoCursor.at = NoNodeAt /\ NoCursor.given = <<>>
      /\ ~NoCursor.astray
  BY DEF NoCursor, Cursors
<1>4. q \in Cursors /\ q.bucket = 1 /\ q.at = NoNodeAt /\ q.from = DOMAIN c /\ q.given = <<>> /\ q.on
  <2> DEFINE e == NoCursor
             D == DOMAIN c
  <2>1. e \in Cursors /\ D \in SUBSET MapKeys /\ q = [e EXCEPT !.on = TRUE, !.from = D]
    BY <1>1, <1>3
  <2>2. e.bucket = 1 /\ e.at = NoNodeAt /\ e.given = <<>>
    BY <1>3
  <2> HIDE DEF q, e, D
  <2>3. q \in Cursors /\ q.bucket = e.bucket /\ q.at = e.at /\ q.from = D /\ q.given = e.given /\ q.on
    BY <2>1 DEF Cursors
  <2> QED BY <2>2, <2>3 DEF D
<1> HIDE DEF q, n, c
<1>5. CursorTyped(q, n, c)
  BY <1>1, <1>4 DEF CursorTyped
<1>6. GivenOnce(q.given, q.from) /\ PlacedAt(q, n)
  BY <1>4 DEF GivenOnce, PlacedAt
<1>7. Onward(q, buckets, n)
  <2> SUFFICES ASSUME NEW k \in q.from
               PROVE  k \in ToSet(q.given) <=> Passed(buckets, n, q.bucket, q.at, k)
    BY DEF Onward
  <2>1. Home(n, k) \in Nat \ {0}
    BY <1>1, <1>4
  <2>2. ToSet(q.given) = {}
    BY <1>4 DEF ToSet
  <2> QED BY <1>4, <2>1, <2>2 DEF Passed
<1>8. CursorOK(q, buckets, n, c)
  BY <1>5, <1>6, <1>7 DEF CursorOK
<1> QED BY <1>2, <1>8 DEF HashMapsInv, OwnersOK, n, c

LEMMA EndWalkStep ==
  ASSUME HashMapsAssumption, HashMapsInv, EndWalk
  PROVE  HashMapsInv'
<1> DEFINE n == Len(buckets)
<1>1. n \in Nat \ {0}
  BY MapsAre
<1>2. cursor' = NoCursor /\ UNCHANGED <<mapKind, buckets, entries, content, fate>>
  BY DEF EndWalk
<1> HIDE DEF n
<1>3. NoCursor \in Cursors /\ NoCursor.bucket = 1 /\ NoCursor.from = {} /\ ~NoCursor.on /\ NoCursor.at = NoNodeAt
  BY DEF NoCursor, Cursors
<1>4. 1 <= n + 1
  BY <1>1
<1>5. CursorOK(NoCursor, buckets, n, content)
  BY <1>3, <1>4 DEF CursorOK, CursorTyped
<1> QED BY <1>2, <1>5 DEF HashMapsInv, OwnersOK, n

(* Where keys are, in relation to the next node that is given.              *)
LEMMA KeyIsAt ==
  ASSUME HashMapsAssumption, HashMapsInv, NEW k \in DOMAIN content
  PROVE  LET b == Home(Len(buckets), k) IN
           /\ b \in 1..Len(buckets) /\ PlaceOf(buckets, k) \in 1..Len(buckets[b]) /\ buckets[b][PlaceOf(buckets, k)].key = k
           /\ buckets[b] # <<>> /\ Len(buckets[b]) \in Nat
<1> DEFINE n == Len(buckets)
<1>1. n \in Nat \ {0} /\ buckets \in [1..n -> Seq(MapNodes)] /\ k \in MapKeys
  BY MapsAre
<1>2. Chained(buckets, n, content)
  BY DEF HashMapsInv
<1> HIDE DEF n
<1>3. Home(n, k) \in 1..n
  BY <1>1, HomeIs
<1> DEFINE b == Home(n, k)
           s == buckets[b]
           p == PlaceOf(buckets, k)
<1>4. p \in 1..Len(s) /\ s[p].key = k
  BY <1>1, <1>2, LookedUp
<1> HIDE DEF b, p
<1>5. s \in Seq(MapNodes)
  BY <1>1, <1>3 DEF b
<1>6. Len(s) \in Nat /\ s # <<>>
  <2>1. Len(s) \in Nat
    BY <1>5, LenProperties
  <2>2. Len(s) # 0
    BY <1>4, <2>1
  <2> QED BY <2>1, <2>2, <1>5, EmptySeq
<1> QED BY <1>3, <1>4, <1>6 DEF b, p, n

LEMMA NodeIsAt ==
  ASSUME HashMapsAssumption, HashMapsInv, NEW b \in 1..Len(buckets), NEW i \in 1..Len(buckets[b])
  PROVE  LET k == buckets[b][i].key IN
           k \in DOMAIN content /\ k \in MapKeys /\ Home(Len(buckets), k) = b /\ PlaceOf(buckets, k) = i
<1> DEFINE n == Len(buckets)
           k == buckets[b][i].key
<1>1. n \in Nat \ {0} /\ DOMAIN content \in SUBSET MapKeys
  BY MapsAre
<1>2. Chained(buckets, n, content)
  BY DEF HashMapsInv
<1>3. k \in DOMAIN content /\ Home(n, k) = b
  BY <1>2 DEF Chained, KeyedAs
<1>4. k \in MapKeys
  BY <1>1, <1>3
<1>5. \A j \in 1..Len(buckets[Home(n, k)]) : buckets[Home(n, k)][j].key = k => PlaceOf(buckets, k) = j
  BY <1>1, <1>2, <1>4, LookedUp
<1>6. PlaceOf(buckets, k) = i
  BY <1>3, <1>5
<1> QED BY <1>3, <1>4, <1>6

(* One more key is given: none that was passed before, and all that is      *)
(* passed now.                                                              *)
LEMMA CursorGoesOn ==
  ASSUME HashMapsAssumption, HashMapsInv, cursor.on, cursor.at # Freed,
         NEW l \in DOMAIN content, NEW b,
         b \in 1..Len(buckets) + 1, b = Home(Len(buckets), l) + 1,
         cursor' = [cursor EXCEPT !.at = l, !.given = Append(@, l), !.bucket = b],
         UNCHANGED <<mapKind, buckets, entries, content, fate>>,
         ~cursor.astray =>
           /\ ~Passed(buckets, Len(buckets), cursor.bucket, cursor.at, l)
           /\ \A k \in DOMAIN content : k # l =>
                (Passed(buckets, Len(buckets), cursor.bucket, cursor.at, k) <=> Passed(buckets, Len(buckets), b, l, k))
  PROVE  HashMapsInv'
<1> DEFINE n == Len(buckets)
           c == content
           p == cursor
           q == [cursor EXCEPT !.at = l, !.given = Append(@, l), !.bucket = b]
<1>1. n \in Nat \ {0} /\ DOMAIN c \in SUBSET MapKeys
  BY MapsAre
<1>2. CursorOK(p, buckets, n, c) /\ p \in Cursors /\ p.from \subseteq DOMAIN c
  BY DEF HashMapsInv, CursorOK, CursorTyped
<1>3. l \in MapKeys /\ l # NoNodeAt /\ l # Freed
  BY <1>1, MarksApart
<1>4. Append(p.given, l) \in Seq(MapKeys) /\ ToSet(Append(p.given, l)) = ToSet(p.given) \cup {l}
      /\ p.given \in Seq(MapKeys)
  <2>1. p.given \in Seq(MapKeys)
    BY <1>2 DEF Cursors
  <2> QED BY <1>3, <2>1, ToSetAppended, AppendProperties
<1>5. /\ q \in Cursors /\ q.on = p.on /\ q.from = p.from /\ q.astray = p.astray
      /\ q.at = l /\ q.bucket = b /\ q.given = Append(p.given, l)
  <2> DEFINE g == Append(p.given, l)
  <2>1. b \in Nat \ {0} /\ l \in MapKeys \cup {NoNodeAt, Freed}
    BY <1>1, <1>3
  <2>2. p \in Cursors /\ q = [p EXCEPT !.at = l, !.given = g, !.bucket = b] /\ g \in Seq(MapKeys)
    BY <1>2, <1>4
  <2> HIDE DEF p, q, g
  <2>3. /\ q \in Cursors /\ q.on = p.on /\ q.from = p.from /\ q.astray = p.astray
        /\ q.at = l /\ q.bucket = b /\ q.given = g
    BY <2>1, <2>2 DEF Cursors
  <2> QED BY <2>3 DEF g
<1>6. cursor' = q
  OBVIOUS
<1> HIDE DEF q, p, n, c
<1>7. CursorTyped(q, n, c)
  <2>1. b <= n + 1
    BY <1>1 DEF n
  <2> QED BY <1>2, <1>5, <2>1 DEF CursorTyped, c, p
<1>8. ASSUME ~q.astray
      PROVE  GivenOnce(q.given, q.from) /\ PlacedAt(q, n) /\ Onward(q, buckets, n)
  <2>1. p.on /\ ~p.astray /\ p.at # Freed
    BY <1>5, <1>8 DEF p
  <2>2. GivenOnce(p.given, p.from) /\ Onward(p, buckets, n)
    BY <1>2, <2>1 DEF CursorOK
  <2>3. /\ ~Passed(buckets, n, p.bucket, p.at, l)
        /\ \A k \in DOMAIN c : k # l => (Passed(buckets, n, p.bucket, p.at, k) <=> Passed(buckets, n, b, l, k))
    BY <2>1 DEF n, c, p
  <2>4. Passed(buckets, n, b, l, l)
    <3>1. b = Home(n, l) + 1
      BY DEF n
    <3>2. Home(n, l) \in Int
      BY <1>1, <1>3, HomeIs
    <3>3. PlaceOf(buckets, l) \in Int
      BY KeyIsAt
    <3> QED BY <3>1, <3>2, <3>3 DEF Passed
  <2>5. PlacedAt(q, n)
    BY <1>3, <1>5 DEF PlacedAt, n
  <2>6. Onward(q, buckets, n)
    <3> SUFFICES ASSUME NEW k \in q.from
                 PROVE  k \in ToSet(q.given) <=> Passed(buckets, n, q.bucket, q.at, k)
      BY DEF Onward
    <3>1. k \in p.from /\ k \in DOMAIN c
      BY <1>2, <1>5
    <3>2. k \in ToSet(p.given) <=> Passed(buckets, n, p.bucket, p.at, k)
      BY <2>2, <3>1 DEF Onward
    <3>3. CASE k = l
      BY <1>4, <1>5, <2>4, <3>3
    <3>4. CASE k # l
      BY <1>4, <1>5, <2>3, <3>1, <3>2, <3>4
    <3> QED BY <3>3, <3>4
  <2>7. GivenOnce(q.given, q.from)
    <3> DEFINE m == Len(p.given)
               h == Append(p.given, l)
    <3>1. m \in Nat /\ Len(h) = m + 1 /\ h[m + 1] = l /\ (\A i \in 1..m : h[i] = p.given[i])
          /\ DOMAIN p.given = 1..m
      BY <1>3, <1>4, AppendProperties, LenProperties
    <3> HIDE DEF h, m
    <3>2. l \in p.from => l \notin ToSet(p.given)
      BY <2>2, <2>3 DEF Onward
    <3>3. \A i \in 1..m : p.given[i] \in ToSet(p.given)
      BY <3>1 DEF ToSet
    <3>4. ASSUME NEW i \in 1..(m + 1), NEW j \in 1..(m + 1), h[i] = h[j], h[i] \in p.from
          PROVE  i = j
      <4>1. CASE i \in 1..m /\ j \in 1..m
        BY <2>2, <3>1, <3>4, <4>1 DEF GivenOnce, m
      <4>2. CASE i = m + 1 /\ j \in 1..m
        BY <3>1, <3>2, <3>3, <3>4, <4>2
      <4>3. CASE i \in 1..m /\ j = m + 1
        BY <3>1, <3>2, <3>3, <3>4, <4>3
      <4> QED BY <3>1, <4>1, <4>2, <4>3
    <3> QED BY <1>5, <3>1, <3>4 DEF GivenOnce, h
  <2> QED BY <2>5, <2>6, <2>7
<1>9. CursorOK(q, buckets, n, c)
  BY <1>7, <1>8 DEF CursorOK
<1> QED BY <1>6, <1>9 DEF HashMapsInv, OwnersOK, n, c

(* The iterator goes to the next node of its chain, or to the first of the  *)
(* next chain.                                                              *)
LEMMA CursorStepsStep ==
  ASSUME HashMapsAssumption, HashMapsInv, CursorSteps
  PROVE  HashMapsInv'
<1> DEFINE n == Len(buckets)
           c == content
           p == cursor
<1>1. n \in Nat \ {0} /\ DOMAIN c \in SUBSET MapKeys /\ buckets \in [1..n -> Seq(MapNodes)]
  BY MapsAre
<1>2. p \in Cursors /\ p.bucket <= n + 1 /\ p.at \in DOMAIN c \cup {NoNodeAt, Freed}
      /\ (p.on /\ ~p.astray /\ p.at # Freed => PlacedAt(p, n))
  BY DEF HashMapsInv, CursorOK, CursorTyped
<1>3. p.on /\ p.at # Freed /\ UNCHANGED <<mapKind, buckets, entries, content, fate>>
  BY DEF CursorSteps
<1>4. p.bucket \in Nat \ {0}
  BY <1>2 DEF Cursors
<1>5. NoNodeAt \notin MapKeys
  BY MarksApart
<1>6. CASE Behind # <<>>
  <2>1. cursor' = [p EXCEPT !.at = Behind[1].key, !.given = Append(@, Behind[1].key)]
    BY <1>6 DEF CursorSteps
  <2>2. p.at # NoNodeAt /\ p.at \in DOMAIN c
    BY <1>2, <1>3, <1>6 DEF Behind
  <2> DEFINE a == p.at
             s == buckets[Home(n, a)]
             i == PlaceOf(buckets, a)
             l == s[i + 1].key
  <2>3. s \in Seq(MapNodes) /\ i \in 1..Len(s) /\ s[i].key = a /\ i + 1 \in 1..Len(s) /\ Behind[1] = s[i + 1]
    BY <1>6, <2>2, BehindIs
  <2>4. Home(n, a) \in 1..n
    BY <2>2, KeyIsAt
  <2>5. l \in DOMAIN c /\ Home(n, l) = Home(n, a) /\ PlaceOf(buckets, l) = i + 1
    BY <2>3, <2>4, NodeIsAt
  <2>6. i \in Nat
    BY <2>3
  <2>7. CASE p.astray
    <3> DEFINE q == [p EXCEPT !.at = l, !.given = Append(@, l)]
    <3>1. cursor' = q /\ l \in MapKeys
      BY <1>1, <2>1, <2>3, <2>5
    <3> HIDE DEF l, n, c
    <3>2. p.given \in Seq(MapKeys)
      BY <1>2 DEF Cursors
    <3>3. Append(p.given, l) \in Seq(MapKeys)
      BY <3>1, <3>2, AppendProperties
    <3>4. q \in Cursors /\ q.on = p.on /\ q.astray = p.astray /\ q.bucket = p.bucket /\ q.from = p.from /\ q.at = l
      BY <1>2, <3>1, <3>3 DEF Cursors
    <3> HIDE DEF q
    <3>5. p.from \subseteq DOMAIN c
      BY DEF HashMapsInv, CursorOK, CursorTyped, c
    <3>6. CursorOK(q, buckets, n, c)
      BY <1>2, <1>3, <2>5, <2>7, <3>4, <3>5 DEF CursorOK, CursorTyped
    <3> QED BY <1>3, <3>1, <3>6 DEF HashMapsInv, OwnersOK, n, c
  <2>8. CASE ~p.astray
    <3>1. p.bucket = Home(n, a) + 1
      BY <1>2, <1>3, <2>2, <2>8 DEF PlacedAt
    <3> DEFINE b == p.bucket
    <3>2. b \in 1..n + 1 /\ b = Home(n, l) + 1
      BY <1>1, <1>2, <1>4, <2>5, <3>1
    <3>3. cursor' = [cursor EXCEPT !.at = l, !.given = Append(@, l), !.bucket = b]
      <4>1. [p EXCEPT !.at = l, !.given = Append(@, l)] = [p EXCEPT !.at = l, !.given = Append(@, l), !.bucket = p.bucket]
        <5> HIDE DEF l, n, c
        <5> QED BY <1>2 DEF Cursors
      <4> QED BY <2>1, <2>3, <4>1
    <3>4. b - 1 = Home(n, a)
      BY <2>4, <3>1
    <3> HIDE DEF b, l, i, s, a
    <3>5. a # NoNodeAt /\ p.at = a /\ i = PlaceOf(buckets, a)
      BY <2>2 DEF a, i
    <3>6. ~Passed(buckets, n, b, a, l)
      BY <2>4, <2>5, <2>6, <3>4, <3>5 DEF Passed
    <3>7. \A k \in DOMAIN c : k # l => (Passed(buckets, n, b, a, k) <=> Passed(buckets, n, b, l, k))
      <4> TAKE k \in DOMAIN c
      <4> HAVE k # l
      <4>1. CASE Home(n, k) = b - 1
        <5>1. PlaceOf(buckets, k) \in Nat /\ PlaceOf(buckets, k) \in 1..Len(s) /\ s[PlaceOf(buckets, k)].key = k
          <6>1. Home(n, k) = Home(n, a)
            BY <3>4, <4>1
          <6> QED BY <6>1, KeyIsAt DEF s
        <5>2. PlaceOf(buckets, k) # i + 1
          BY <2>5, <5>1 DEF l
        <5>3. PlaceOf(buckets, k) <= i <=> PlaceOf(buckets, k) <= i + 1
          BY <2>6, <5>1, <5>2
        <5>4. l # NoNodeAt
          BY <1>1, <1>5, <2>5
        <5> QED BY <2>5, <3>5, <4>1, <5>3, <5>4 DEF Passed
      <4>2. CASE Home(n, k) # b - 1
        BY <4>2 DEF Passed
      <4> QED BY <4>1, <4>2
    <3>8. cursor.on /\ cursor.at # Freed /\ cursor.bucket = b /\ cursor.at = a
      BY <1>3 DEF b, a
    <3> QED BY <1>3, <2>5, <3>2, <3>3, <3>6, <3>7, <3>8, CursorGoesOn
  <2> QED BY <2>7, <2>8
<1>7. CASE Behind = <<>>
  <2> DEFINE f == NextFull
             s == buckets[f]
             l == s[1].key
             b == f + 1
  <2>1. /\ f <= n
        /\ cursor' = [[p EXCEPT !.at = s[1].key, !.given = Append(@, s[1].key)] EXCEPT !.bucket = f + 1]
    BY <1>7 DEF CursorSteps
  <2>2. f \in p.bucket..(n + 1) /\ (f <= n => s # <<>>) /\ \A a \in p.bucket..(f - 1) : buckets[a] = <<>>
    BY NextFullIs
  <2> HIDE DEF f
  <2>3. f \in 1..n /\ s \in Seq(MapNodes) /\ s # <<>>
    BY <1>1, <1>4, <2>1, <2>2
  <2>4. 1 \in 1..Len(s)
    <3> HIDE DEF s
    <3>1. Len(s) \in Nat /\ Len(s) # 0
      BY <2>3, LenProperties, EmptySeq
    <3> QED BY <3>1
  <2>5. l \in DOMAIN c /\ Home(n, l) = f /\ PlaceOf(buckets, l) = 1
    BY <2>3, <2>4, NodeIsAt
  <2>6. cursor' = [cursor EXCEPT !.at = l, !.given = Append(@, l), !.bucket = b]
    BY <2>1
  <2>7. b \in 1..n + 1 /\ b = Home(n, l) + 1
    BY <1>1, <2>3, <2>5
  <2> HIDE DEF l, b, s
  <2>8. ASSUME ~p.astray
        PROVE  /\ ~Passed(buckets, n, p.bucket, p.at, l)
               /\ \A k \in DOMAIN c : k # l => (Passed(buckets, n, p.bucket, p.at, k) <=> Passed(buckets, n, b, l, k))
    <3>1. PlacedAt(p, n)
      BY <1>2, <1>3, <2>8
    <3>2. ASSUME NEW k \in DOMAIN c
          PROVE  Passed(buckets, n, p.bucket, p.at, k) <=> Home(n, k) < p.bucket
      <4>1. Home(n, k) \in Nat
        BY KeyIsAt
      <4>2. CASE p.at = NoNodeAt
        BY <1>4, <4>1, <4>2 DEF Passed
      <4>3. CASE p.at # NoNodeAt
        <5>1. p.at \in DOMAIN c /\ p.bucket = Home(n, p.at) + 1
          BY <1>2, <1>3, <3>1, <4>3 DEF PlacedAt
        <5>2. PlaceOf(buckets, p.at) = Len(buckets[Home(n, p.at)])
          BY <1>7, <5>1, BehindIs
        <5>3. Home(n, p.at) \in Nat
          BY <5>1, KeyIsAt
        <5>4. CASE Home(n, k) = p.bucket - 1
          <6>1. Home(n, k) = Home(n, p.at)
            BY <5>1, <5>3, <5>4
          <6>2. PlaceOf(buckets, k) \in 1..Len(buckets[Home(n, k)]) /\ Len(buckets[Home(n, k)]) \in Nat
            BY KeyIsAt
          <6>3. PlaceOf(buckets, k) <= PlaceOf(buckets, p.at)
            BY <5>2, <6>1, <6>2
          <6>4. Home(n, k) < p.bucket
            BY <1>4, <4>1, <5>4
          <6> QED BY <5>4, <6>3, <6>4 DEF Passed
        <5>5. CASE Home(n, k) # p.bucket - 1
          <6>1. Home(n, k) < p.bucket - 1 <=> Home(n, k) < p.bucket
            BY <1>4, <4>1, <5>5
          <6> QED BY <5>5, <6>1 DEF Passed
        <5> QED BY <5>4, <5>5
      <4> QED BY <4>2, <4>3
    <3>3. ASSUME NEW k \in DOMAIN c
          PROVE  Home(n, k) < p.bucket <=> Home(n, k) < f
      <4>1. Home(n, k) \in 1..n /\ buckets[Home(n, k)] # <<>>
        BY KeyIsAt
      <4>2. Home(n, k) \notin p.bucket..(f - 1)
        BY <2>2, <4>1
      <4> QED BY <1>4, <2>2, <2>3, <4>1, <4>2
    <3>4. ASSUME NEW k \in DOMAIN c, k # l
          PROVE  Passed(buckets, n, b, l, k) <=> Home(n, k) < f
      <4>1. Home(n, k) \in Nat /\ b - 1 = f
        <5>1. Home(n, k) \in Nat
          BY KeyIsAt
        <5> QED BY <2>3, <5>1 DEF b
      <4>2. l # NoNodeAt
        BY <1>1, <1>5, <2>5
      <4>3. CASE Home(n, k) = f
        <5>1. PlaceOf(buckets, k) \in 1..Len(s) /\ s[PlaceOf(buckets, k)].key = k
          BY <4>3, KeyIsAt DEF s
        <5>2. PlaceOf(buckets, k) # 1
          BY <3>4, <5>1 DEF l
        <5>3. ~(PlaceOf(buckets, k) <= PlaceOf(buckets, l))
          BY <2>5, <5>1, <5>2
        <5> QED BY <4>1, <4>2, <4>3, <5>3, <2>3 DEF Passed
      <4>4. CASE Home(n, k) # f
        BY <4>1, <4>4 DEF Passed
      <4> QED BY <4>3, <4>4
    <3>5. ~(Home(n, l) < f)
      BY <2>3, <2>5
    <3> QED BY <2>5, <3>2, <3>3, <3>4, <3>5
  <2> QED BY <1>3, <2>5, <2>6, <2>7, <2>8, CursorGoesOn
<1> QED BY <1>6, <1>7

(* The iterator has come to the end.                                        *)
LEMMA CursorEndsStep ==
  ASSUME HashMapsAssumption, HashMapsInv, CursorEnds
  PROVE  HashMapsInv'
<1> DEFINE n == Len(buckets)
           c == content
           p == cursor
           q == [cursor EXCEPT !.at = NoNodeAt, !.bucket = Len(buckets) + 1]
<1>1. n \in Nat \ {0} /\ DOMAIN c \in SUBSET MapKeys
  BY MapsAre
<1>2. /\ p \in Cursors /\ p.bucket <= n + 1 /\ p.at \in DOMAIN c \cup {NoNodeAt, Freed} /\ p.from \subseteq DOMAIN c
      /\ (p.on /\ ~p.astray => GivenOnce(p.given, p.from) /\ (p.at # Freed => PlacedAt(p, n) /\ Onward(p, buckets, n)))
  BY DEF HashMapsInv, CursorOK, CursorTyped
<1>3. p.on /\ p.at # Freed /\ UNCHANGED <<mapKind, buckets, entries, content, fate>> /\ cursor' = q
      /\ Behind = <<>> /\ NextFull > n
  BY DEF CursorEnds
<1>4. p.bucket \in Nat \ {0}
  BY <1>2 DEF Cursors
<1>5. \A a \in p.bucket..n : buckets[a] = <<>>
  <2>1. NextFull \in p.bucket..(n + 1) /\ \A a \in p.bucket..(NextFull - 1) : buckets[a] = <<>>
    BY NextFullIs
  <2>2. NextFull = n + 1
    BY <1>1, <1>3, <1>4, <2>1
  <2>3. n + 1 - 1 = n
    BY <1>1
  <2> QED BY <2>1, <2>2, <2>3
<1>6. /\ q \in Cursors /\ q.on = p.on /\ q.astray = p.astray /\ q.bucket = n + 1 /\ q.from = p.from /\ q.at = NoNodeAt
      /\ q.given = p.given
  <2> DEFINE b == n + 1
  <2>1. b \in Nat \ {0} /\ NoNodeAt \in MapKeys \cup {NoNodeAt, Freed}
    BY <1>1
  <2>2. p \in Cursors /\ q = [p EXCEPT !.at = NoNodeAt, !.bucket = b]
    BY <1>2
  <2> HIDE DEF p, q, b, n
  <2>3. /\ q \in Cursors /\ q.on = p.on /\ q.astray = p.astray /\ q.bucket = b /\ q.from = p.from /\ q.at = NoNodeAt
        /\ q.given = p.given
    BY <2>1, <2>2 DEF Cursors
  <2> QED BY <2>3 DEF b
<1> HIDE DEF q, n, c
<1>7. CursorTyped(q, n, c)
  BY <1>1, <1>2, <1>6 DEF CursorTyped
<1>8. ASSUME ~p.astray
      PROVE  GivenOnce(q.given, q.from) /\ PlacedAt(q, n) /\ Onward(q, buckets, n)
  <2>1. GivenOnce(q.given, q.from) /\ PlacedAt(q, n) /\ PlacedAt(p, n) /\ Onward(p, buckets, n)
    BY <1>2, <1>3, <1>6, <1>8 DEF PlacedAt
  <2>2. ASSUME NEW k \in q.from
        PROVE  k \in ToSet(q.given) <=> Passed(buckets, n, q.bucket, q.at, k)
    <3>1. k \in p.from /\ k \in DOMAIN c
      BY <1>2, <1>6
    <3>2. Home(n, k) \in 1..n /\ buckets[Home(n, k)] # <<>>
      BY <3>1, KeyIsAt DEF n, c
    <3>3. Home(n, k) \in Nat /\ Home(n, k) < p.bucket
      BY <1>1, <1>4, <1>5, <3>2
    <3>4. Passed(buckets, n, q.bucket, q.at, k)
      <4>1. q.bucket - 1 = n /\ q.at = NoNodeAt
        BY <1>1, <1>6
      <4> QED BY <1>1, <3>2, <4>1 DEF Passed
    <3>5. Passed(buckets, n, p.bucket, p.at, k)
      <4>1. CASE Home(n, k) # p.bucket - 1
        <5>1. Home(n, k) < p.bucket - 1
          BY <1>4, <3>3, <4>1
        <5> QED BY <5>1 DEF Passed
      <4>2. CASE Home(n, k) = p.bucket - 1 /\ p.at = NoNodeAt
        BY <4>2 DEF Passed
      <4>3. CASE Home(n, k) = p.bucket - 1 /\ p.at # NoNodeAt
        <5>1. p.at \in DOMAIN c /\ p.bucket = Home(n, p.at) + 1
          BY <1>2, <1>3, <2>1, <4>3 DEF PlacedAt
        <5>2. PlaceOf(buckets, p.at) = Len(buckets[Home(n, p.at)])
          BY <1>3, <5>1, BehindIs DEF n, c
        <5>3. Home(n, p.at) \in Nat
          BY <5>1, KeyIsAt DEF n, c
        <5>4. Home(n, k) = Home(n, p.at)
          BY <4>3, <5>1, <5>3
        <5>5. PlaceOf(buckets, k) \in 1..Len(buckets[Home(n, k)]) /\ Len(buckets[Home(n, k)]) \in Nat
          BY <3>1, KeyIsAt DEF n, c
        <5>6. PlaceOf(buckets, k) <= PlaceOf(buckets, p.at)
          BY <5>2, <5>4, <5>5
        <5> QED BY <4>3, <5>6 DEF Passed
      <4> QED BY <4>1, <4>2, <4>3
    <3>6. k \in ToSet(p.given)
      BY <2>1, <3>1, <3>5 DEF Onward
    <3> QED BY <1>6, <3>4, <3>6
  <2>3. Onward(q, buckets, n)
    BY <2>2 DEF Onward
  <2> QED BY <2>1, <2>3
<1>9. CursorOK(q, buckets, n, c)
  BY <1>6, <1>7, <1>8 DEF CursorOK
<1> QED BY <1>3, <1>9 DEF HashMapsInv, OwnersOK, n, c

(* Going on from a freed node, the iterator may come to stand on any node.  *)
LEMMA CursorStepsFreedStep ==
  ASSUME HashMapsAssumption, HashMapsInv, CursorStepsFreed
  PROVE  HashMapsInv'
<1> DEFINE n == Len(buckets)
           c == content
           p == cursor
<1>1. n \in Nat \ {0} /\ DOMAIN c \in SUBSET MapKeys
  BY MapsAre
<1>2. p \in Cursors /\ p.bucket <= n + 1 /\ p.from \subseteq DOMAIN c
  BY DEF HashMapsInv, CursorOK, CursorTyped
<1>3. p.on /\ UNCHANGED <<mapKind, buckets, entries, content, fate>>
  BY DEF CursorStepsFreed
<1>4. PICK k \in DOMAIN c \cup {Freed, NoNodeAt}, b \in p.bucket .. n + 1 : cursor' = Stray(k, b)
  BY DEF CursorStepsFreed
<1> DEFINE q == [p EXCEPT !.at = k, !.bucket = b, !.given = <<>>, !.astray = TRUE]
<1>5. p.bucket \in Nat \ {0}
  BY <1>2 DEF Cursors
<1>6. b \in Nat \ {0} /\ b <= n + 1 /\ k \in MapKeys \cup {NoNodeAt, Freed}
  BY <1>1, <1>4, <1>5
<1> HIDE DEF p, n, c
<1>7. <<>> \in Seq(MapKeys)
  OBVIOUS
<1>8. q \in Cursors /\ q.on = p.on /\ q.bucket = b /\ q.from = p.from /\ q.at = k /\ q.astray
  BY <1>2, <1>6, <1>7 DEF Cursors
<1>9. cursor' = q
  BY <1>4 DEF Stray, p
<1> HIDE DEF q
<1>10. CursorOK(q, buckets, n, c)
  BY <1>2, <1>3, <1>4, <1>6, <1>8 DEF CursorOK, CursorTyped, p
<1> QED BY <1>3, <1>9, <1>10 DEF HashMapsInv, OwnersOK, n, c

LEMMA HashMapsStep == HashMapsAssumption /\ HashMapsInv /\ [HashMapsNext]_hashMapVars => HashMapsInv'
<1> SUFFICES ASSUME HashMapsAssumption, HashMapsInv, [HashMapsNext]_hashMapVars
             PROVE  HashMapsInv'
  OBVIOUS
<1>1. CASE UNCHANGED hashMapVars
  BY <1>1 DEF HashMapsInv, OwnersOK, hashMapVars
<1>2. ASSUME NEW k \in MapKeys, RemoveEntry(k)
      PROVE  HashMapsInv'
  BY <1>2, RemoveEntryStep
<1>3. ASSUME NEW k \in MapKeys, NEW v \in MapValues, SetEntry(k, v)
      PROVE  HashMapsInv'
  BY <1>3, SetEntryStep
<1>4. CASE ClearMap
  <2>1. MapKeys \in SUBSET MapKeys /\ Left(MapKeys) /\ Frees(MapKeys) /\ mapKind' = mapKind
    BY <1>4 DEF ClearMap
  <2> QED BY <2>1, FreesStep
<1>5. ASSUME NEW g, RemoveGroup(g)
      PROVE  HashMapsInv'
  <2> DEFINE gone == {k \in MapKeys : GroupOf[k] = g}
  <2>1. gone \in SUBSET MapKeys /\ Left(gone) /\ Frees(gone) /\ mapKind' = mapKind
    BY <1>5 DEF RemoveGroup
  <2> HIDE DEF gone
  <2> QED BY <2>1, FreesStep
<1>6. CASE BeginWalk
  BY <1>6, BeginWalkStep
<1>7. CASE CursorSteps
  BY <1>7, CursorStepsStep
<1>8. CASE CursorEnds
  BY <1>8, CursorEndsStep
<1>9. CASE EndWalk
  BY <1>9, EndWalkStep
<1>10. CASE CursorStepsFreed
  BY <1>10, CursorStepsFreedStep
<1> QED BY <1>1, <1>2, <1>3, <1>4, <1>5, <1>6, <1>7, <1>8, <1>9, <1>10 DEF HashMapsNext

(* The inductive invariant of the hash maps, for any keys, hashes, groups,  *)
(* values and numbers of buckets.                                           *)
THEOREM HashMapsInvariance == HashMapsInit /\ [][HashMapsNext]_hashMapVars => []HashMapsInv
<1>1. HashMapsInit => HashMapsInv
  BY HashMapsInvInit, HashMapsAssumption
<1>2. HashMapsInv /\ [HashMapsNext]_hashMapVars => HashMapsInv'
  BY HashMapsStep, HashMapsAssumption
<1> QED BY <1>1, <1>2, PTL

(* Type correctness of the hash maps.                                       *)
THEOREM HashMapsTypeCorrect == HashMapsInit /\ [][HashMapsNext]_hashMapVars => []HashMapsTypeOK
<1>1. HashMapsInv => HashMapsTypeOK
  <2> SUFFICES ASSUME HashMapsInv
               PROVE  HashMapsTypeOK
    OBVIOUS
  <2> DEFINE n == Len(buckets)
  <2>1. /\ n \in Nat \ {0} /\ buckets \in [1..n -> Seq(MapNodes)] /\ DOMAIN content \in SUBSET MapKeys
        /\ entries \in Nat /\ fate \in [MapValues -> {"caller", "map", "freed", "lost"}]
    BY MapsAre, HashMapsAssumption
  <2>2. mapKind \in MapKinds /\ n \in FirstBuckets..MaxBuckets
    BY DEF HashMapsInv
  <2> HIDE DEF n
  <2>3. DOMAIN buckets \in {1..m : m \in FirstBuckets..MaxBuckets}
    BY <2>1, <2>2
  <2>4. \A b \in DOMAIN buckets : \A i \in DOMAIN buckets[b] :
          buckets[b][i] \in [key : MapKeys, value : MapValues]
    <3> TAKE b \in DOMAIN buckets
    <3> DEFINE s == buckets[b]
    <3>1. s \in Seq(MapNodes)
      BY <2>1
    <3> HIDE DEF s
    <3>2. \A i \in DOMAIN s : s[i] \in MapNodes
      BY <3>1, LenProperties
    <3> QED BY <3>2 DEF MapNodes, s
  <2>5. cursor \in Cursors /\ cursor.from \subseteq DOMAIN content
    BY DEF HashMapsInv, CursorOK, CursorTyped
  <2>6. cursor.at \in MapKeys \cup {NoNodeAt, Freed} /\ cursor.from \subseteq MapKeys
    BY <2>5 DEF Cursors
  <2> QED BY <2>1, <2>2, <2>3, <2>4, <2>6 DEF HashMapsTypeOK
<1> QED BY <1>1, HashMapsInvariance, PTL

(* Through every doubling and removal, for any hashes, the buckets hold     *)
(* what the calls say, and are counted; each value has one owner; and a walk *)
(* with changes on the way returns everything that stayed, once, if neither *)
(* the buckets double under it nor it goes on from a removed node.          *)
THEOREM HashMapsHold ==
  HashMapsInit /\ [][HashMapsNext]_hashMapVars => [](MapIsFunction /\ OneOwnerEach /\ WalkComplete)
<1>1. HashMapsInv => MapIsFunction /\ OneOwnerEach /\ WalkComplete
  <2> SUFFICES ASSUME HashMapsInv
               PROVE  MapIsFunction /\ OneOwnerEach /\ WalkComplete
    OBVIOUS
  <2> DEFINE n == Len(buckets)
             c == content
             p == cursor
  <2>1. n \in Nat \ {0} /\ buckets \in [1..n -> Seq(MapNodes)] /\ DOMAIN c \in SUBSET MapKeys
        /\ (\A l \in DOMAIN c : c[l] \in MapValues)
    BY MapsAre, HashMapsAssumption
  <2>2. Chained(buckets, n, c) /\ ContentOK(c) /\ OwnersOK(fate, c) /\ CursorOK(p, buckets, n, c)
        /\ entries = Cardinality(DOMAIN c)
    BY DEF HashMapsInv
  <2> HIDE DEF n
  <2>3. MapIsFunction
    <3>1. Len(FlattenSeq(buckets)) = Cardinality(DOMAIN c)
      BY <2>1, <2>2, NodesAre, HashMapsAssumption
    <3>2. ASSUME NEW k \in DOMAIN c
          PROVE  HasKey(buckets, k) /\ Got(buckets, k) = c[k]
      <4>1. k \in MapKeys
        BY <2>1
      <4>2. HasKey(buckets, k)
        BY <2>1, <2>2, <4>1, LookedUp, HashMapsAssumption
      <4>3. PlaceOf(buckets, k) \in 1..Len(buckets[Home(n, k)]) /\ buckets[Home(n, k)][PlaceOf(buckets, k)].key = k
        BY <2>1, <2>2, <4>1, LookedUp, HashMapsAssumption
      <4>4. \A i \in 1..Len(buckets[Home(n, k)]) : buckets[Home(n, k)][i].key = k => Got(buckets, k) = c[k]
        BY <2>1, <2>2, <4>1, LookedUp, HashMapsAssumption
      <4> QED BY <4>2, <4>3, <4>4
    <3> QED BY <2>2, <3>1, <3>2 DEF MapIsFunction
  <2>4. OneOwnerEach
    <3>1. {v \in MapValues : fate[v] = "map"} = Range(content)
      <4>1. \A v \in MapValues : fate[v] = "map" <=> \E k \in DOMAIN content : content[k] = v
        BY <2>2 DEF OwnersOK
      <4>2. \A k \in DOMAIN content : content[k] \in MapValues
        BY <2>1
      <4> QED BY <4>1, <4>2 DEF Range
    <3>2. (\E v \in MapValues : fate[v] = "lost") => mapKind # "grouped_hashmap"
      BY <2>2 DEF OwnersOK
    <3>3. IsInjective(content)
      BY <2>2 DEF OwnersOK, IsInjective
    <3> QED BY <3>1, <3>2, <3>3 DEF OneOwnerEach
  <2>5. WalkComplete
    <3> SUFFICES ASSUME p.on, ~p.astray
                 PROVE  /\ \A k \in p.from : Cardinality({i \in DOMAIN p.given : p.given[i] = k}) <= 1
                        /\ p.bucket > n /\ p.at = NoNodeAt => p.from \subseteq ToSet(p.given)
      BY DEF WalkComplete, n
    <3>1. GivenOnce(p.given, p.from) /\ (p.at # Freed => PlacedAt(p, n) /\ Onward(p, buckets, n))
          /\ p \in Cursors /\ p.from \subseteq DOMAIN c /\ p.bucket <= n + 1
      BY <2>2 DEF CursorOK, CursorTyped
    <3>2. p.given \in Seq(MapKeys) /\ p.bucket \in Nat
      BY <3>1 DEF Cursors
    <3> HIDE DEF p
    <3>3. DOMAIN p.given = 1..Len(p.given)
      BY <3>2, LenProperties
    <3>4. ASSUME NEW k \in p.from
          PROVE  Cardinality({i \in DOMAIN p.given : p.given[i] = k}) <= 1
      <4> DEFINE D == {i \in DOMAIN p.given : p.given[i] = k}
      <4>1. \A i, j \in D : i = j
        BY <3>1, <3>3 DEF GivenOnce
      <4>2. D = {} \/ \E i : D = {i}
        <5>1. CASE D # {}
          <6>1. PICK i : i \in D
            BY <5>1
          <6>2. D = {i}
            BY <4>1, <6>1
          <6> QED BY <6>2
        <5> QED BY <5>1
      <4> HIDE DEF D
      <4>3. Cardinality(D) = 0 \/ Cardinality(D) = 1
        BY <4>2, FS_EmptySet, FS_Singleton
      <4> QED BY <4>3 DEF D
    <3>5. ASSUME p.bucket > n, p.at = NoNodeAt, NEW k \in p.from
          PROVE  k \in ToSet(p.given)
      <4>1. p.bucket = n + 1
        BY <2>1, <3>1, <3>2, <3>5
      <4>2. p.at # Freed
        BY <3>5, MarksApart, HashMapsAssumption
      <4>3. Home(n, k) \in 1..n
        <5>1. k \in MapKeys
          BY <2>1, <3>1
        <5> QED BY <2>1, <5>1, HomeIs, HashMapsAssumption
      <4>4. Passed(buckets, n, p.bucket, p.at, k)
        BY <2>1, <3>5, <4>1, <4>3 DEF Passed
      <4> QED BY <3>1, <4>2, <4>4 DEF Onward
    <3> QED BY <3>4, <3>5
  <2> QED BY <2>3, <2>4, <2>5
<1> QED BY <1>1, HashMapsInvariance, PTL

=============================================================================
