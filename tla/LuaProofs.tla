----------------------------- MODULE LuaProofs -----------------------------
(* Proofs about what Lua calls and holds, for any constants: the script     *)
(* components of Scripts under nested calls, the objects of LuaShared, the  *)
(* references, limits and globals of LuaEngine, and the lines of Shapes.    *)
EXTENDS Scripts, LuaShared, LuaEngine, Shapes, Facts, SequenceTheorems, FiniteSetTheorems, TLAPS

------------------------------------------------------------------------------
(* The inductive invariant.                                                 *)

Script == [script : ScriptNames \cup {NoScript}, inst : Int,
           cache : [Funs -> Int \X BOOLEAN]]
Frame  == [at : {"lua", "call", "update"}, of : ScriptComponents, fun : Funs, inst : Int]

(* A component's instance is one of its script, and its cache knows nothing *)
(* or what is true of that instance; m are the instances ever made.         *)
Fits(k, m) ==
  /\ k \in Script
  /\ k.inst \in {Missing, NoRef} \cup 1..Len(m)
  /\ k.inst > 0 => m[k.inst] = k.script
  /\ \A f \in Funs : k.cache[f] = Unknown
                     \/ (k.inst > 0 /\ k.cache[f] = <<k.inst, f \in Has(m[k.inst])>>)

(* No two components have the same instance, and the registry keeps those   *)
(* that components have.                                                    *)
Instanced ==
  /\ made \in Seq(ScriptNames) /\ Len(made) <= MaxInstances /\ loaded \subseteq ScriptNames
  /\ comp \in [ScriptComponents -> Script]
  /\ \A c \in ScriptComponents : Fits(comp[c], made)
  /\ \A c, d \in ScriptComponents : comp[c].inst > 0 /\ comp[c].inst = comp[d].inst => c = d
  /\ live = {comp[c].inst : c \in ScriptComponents} \cap Instances

FramesOK(s, many) ==
  \A n \in 1..Len(s) : /\ s[n].inst \in 0..many
                       /\ s[n].at # "lua" => s[n].fun # "entity_init"

(* entity_init has begun for every instance that has one; who waits for it  *)
(* calls something else.                                                    *)
Initialised ==
  /\ inits \in [Instances -> Nat]
  /\ \A i \in Instances :
       inits[i] = IF i <= Len(made) /\ "entity_init" \in Has(made[i]) THEN 1 ELSE 0
  /\ stack \in Seq(Frame) /\ hook \in Nat
  /\ FramesOK(stack, Len(made))

(* The frames from the hook's on, which runs, wait for it.                  *)
Hooked(h, s) ==
  h # 0 => h \in DOMAIN s /\ \A n \in h..Len(s) : s[n].at = "lua" <=> n = h

(* The places of L left of w that have c. *)
Passed(L, w, c) == {j \in 1..Len(L) : j < w /\ L[j] = c}

(* The walk came once by each place that is left of where it is; a          *)
(* component that did not go astray has one place.                          *)
Walked ==
  /\ list \in Seq(ScriptComponents)
  /\ \A i, j \in 1..Len(list) : list[i] = list[j] /\ list[i] \notin strays => i = j
  /\ walk \in Nat /\ moved \in BOOLEAN /\ seen \in [ScriptComponents -> Nat]
  /\ walk = 0 => ~moved
  /\ ~moved => /\ walk <= Len(list) + 1
               /\ \A c \in ScriptComponents : seen[c] = Cardinality(Passed(list, walk, c))

(* The components that the calls of s are for. *)
Called(s) == {s[n].of : n \in 1..Len(s)}

(* Only components that went astray are freed while the system or a call    *)
(* will read them.                                                          *)
Fated ==
  /\ strays \subseteq ScriptComponents /\ gone \subseteq ScriptComponents
  /\ scriptFault \subseteq {"stray"}
  /\ \A c \in gone : c \in strays \/ (c \notin ToSet(list) /\ c \notin Called(stack))

ScriptsInv == Instanced /\ Initialised /\ Hooked(hook, stack) /\ Walked /\ Fated
------------------------------------------------------------------------------
(* The caches.                                                              *)

LEMMA FitsFields ==
  ASSUME NEW m \in Seq(ScriptNames), NEW k, Fits(k, m)
  PROVE  /\ k.script \in ScriptNames \cup {NoScript} /\ k.inst \in Int
         /\ k.cache \in [Funs -> Int \X BOOLEAN] /\ Len(m) \in Nat
         /\ k.inst > 0 => k.inst \in 1..Len(m)
         /\ ~(k.inst > 0) => k.inst \in {Missing, NoRef}
BY DEF Fits, Script, Missing, NoRef

LEMMA Pairs ==
  ASSUME NEW i \in Int, NEW b \in BOOLEAN
  PROVE  <<i, b>> \in Int \X BOOLEAN
OBVIOUS

LEMMA TruePairs ==
  ASSUME NEW i \in Int, NEW P \in BOOLEAN, P
  PROVE  <<i, P>>[2]
OBVIOUS

LEMMA FalsePairs ==
  ASSUME NEW i \in Int, NEW P \in BOOLEAN, ~P
  PROVE  ~<<i, P>>[2]
OBVIOUS

LEMMA UnknownPair == Unknown \in Int \X BOOLEAN
<1>1. NoRef \in Int /\ FALSE \in BOOLEAN
  BY DEF NoRef
<1> QED BY <1>1, Pairs DEF Unknown

(* A function that is looked up is the instance's.                          *)
LEMMA FoundFits ==
  ASSUME NEW k, NEW f \in Funs, made' \in Seq(ScriptNames), Fits(k, made'), k.inst > 0
  PROVE  /\ Fits(Found(k, f), made')
         /\ Found(k, f).inst = k.inst /\ Found(k, f).script = k.script
         /\ Found(k, f).cache[f] = <<k.inst, f \in Has(made'[k.inst])>>
<1> DEFINE v == <<k.inst, f \in Has(made'[k.inst])>>
           q == [k EXCEPT !.cache[f] = v]
<1>1. v \in Int \X BOOLEAN
  <2>1. (f \in Has(made'[k.inst])) \in BOOLEAN
    OBVIOUS
  <2> QED BY <2>1, Pairs, FitsFields
<1> HIDE DEF v
<1>2. /\ q \in Script /\ q.inst = k.inst /\ q.script = k.script
      /\ \A g \in Funs : q.cache[g] = IF g = f THEN v ELSE k.cache[g]
  BY <1>1 DEF Fits, Script
<1> HIDE DEF q
<1>3. \A g \in Funs : q.cache[g] = Unknown
                      \/ q.cache[g] = <<q.inst, g \in Has(made'[q.inst])>>
  <2> TAKE g \in Funs
  <2>1. CASE g = f
    BY <1>2, <2>1 DEF v
  <2>2. CASE g # f
    BY <1>2, <2>2 DEF Fits
  <2> QED BY <2>1, <2>2
<1>4. q.inst > 0
  BY <1>2
<1>5. Fits(q, made')
  BY <1>2, <1>3, <1>4 DEF Fits
<1>6. q.cache[f] = v
  BY <1>2
<1>7. Found(k, f) = q
  BY DEF Found, q, v
<1> QED BY <1>2, <1>5, <1>6, <1>7 DEF v

LEMMA EmptyCache ==
  /\ Empty \in [Funs -> Int \X BOOLEAN]
  /\ \A f \in Funs : Empty[f] = Unknown
BY UnknownPair DEF Empty

(* So are those that are cached at once.                                    *)
LEMMA FilledFits ==
  ASSUME NEW k, made' \in Seq(ScriptNames), Fits(k, made')
  PROVE  Fits(Filled(k), made') /\ Filled(k).inst = k.inst /\ Filled(k).script = k.script
<1>1. CASE k.inst = NoRef
  BY <1>1 DEF Filled, Missing, NoRef
<1>2. CASE k.inst = Missing
  <2> DEFINE q == [k EXCEPT !.cache = Empty]
  <2>1. q \in Script /\ q.inst = k.inst /\ q.script = k.script /\ q.cache = Empty
    BY EmptyCache DEF Fits, Script
  <2> HIDE DEF q
  <2>2. Fits(q, made')
    BY <1>2, <2>1, EmptyCache DEF Fits, Missing
  <2>3. Filled(k) = q
    BY <1>2 DEF Filled, q, Missing, NoRef
  <2> QED BY <2>1, <2>2, <2>3
<1>3. CASE k.inst > 0
  <2> DEFINE w == [f \in Funs |-> IF f \in Standard THEN Found(k, f).cache[f] ELSE Unknown]
             q == [k EXCEPT !.cache = w]
  <2>1. \A f \in Funs : Found(k, f).cache[f] = <<k.inst, f \in Has(made'[k.inst])>>
                        /\ Found(k, f).cache[f] \in Int \X BOOLEAN
    <3> TAKE f \in Funs
    <3>1. Found(k, f).cache \in [Funs -> Int \X BOOLEAN]
      BY <1>3, FoundFits, FitsFields
    <3> QED BY <1>3, <3>1, FoundFits
  <2>2. w \in [Funs -> Int \X BOOLEAN]
    BY <2>1, UnknownPair
  <2>3. \A f \in Funs : w[f] = Unknown \/ w[f] = <<k.inst, f \in Has(made'[k.inst])>>
    BY <2>1
  <2> HIDE DEF w
  <2>4. q \in Script /\ q.inst = k.inst /\ q.script = k.script /\ q.cache = w
    BY <2>2 DEF Fits, Script
  <2> HIDE DEF q
  <2>5. Fits(q, made')
    BY <1>3, <2>3, <2>4 DEF Fits
  <2>6. Filled(k) = q
    BY <1>3 DEF Filled, q, w, Missing, NoRef
  <2> QED BY <2>4, <2>5, <2>6
<1> QED BY <1>1, <1>2, <1>3, FitsFields

(* A new instance, or none.                                                 *)
LEMMA InstantiatedFits ==
  ASSUME NEW k, made \in Seq(ScriptNames), loaded \subseteq ScriptNames,
         Fits(k, made), k.inst = NoRef, Instantiate(k)
  PROVE  /\ made' \in Seq(ScriptNames) /\ Fits(Instantiated(k), made')
         /\ Instantiated(k).script = k.script
         /\ \/ /\ k.script \in loaded /\ made' = Append(made, k.script)
               /\ Instantiated(k).inst = Len(made) + 1 /\ live' = live \cup {Len(made) + 1}
            \/ Instantiated(k).inst = Missing /\ UNCHANGED <<made, live>>
<1> DEFINE i == IF k.script \in loaded THEN Len(made) + 1 ELSE Missing
           q == [k EXCEPT !.inst = i]
<1>1. Len(made) \in Nat
  OBVIOUS
<1>2. i \in Int
  BY <1>1 DEF Missing
<1> HIDE DEF i
<1>3. q \in Script /\ q.inst = i /\ q.script = k.script /\ q.cache = k.cache
  BY <1>2 DEF Fits, Script
<1>4. \A f \in Funs : q.cache[f] = Unknown
  BY <1>3 DEF Fits, NoRef
<1>5. Instantiated(k) = q
  BY DEF Instantiated, q, i
<1> HIDE DEF q
<1>6. CASE k.script \in loaded /\ k.script \in ScriptNames
  <2>1. /\ made' = Append(made, k.script) /\ live' = live \cup {Len(made) + 1}
        /\ i = Len(made) + 1
    BY <1>6 DEF Instantiate, i
  <2>2. made' \in Seq(ScriptNames) /\ Len(made') = Len(made) + 1
        /\ made'[Len(made) + 1] = k.script
    BY <1>6, <2>1, AppendProperties
  <2>3. i \in 1..Len(made')
    BY <1>1, <2>1, <2>2
  <2>4. Fits(q, made')
    BY <1>3, <1>4, <2>1, <2>2, <2>3 DEF Fits
  <2> QED BY <1>3, <1>5, <1>6, <2>1, <2>2, <2>4
<1>7. CASE k.script \notin loaded
  <2>1. UNCHANGED <<made, live>> /\ i = Missing
    BY <1>7 DEF Instantiate, i
  <2>2. Fits(q, made')
    BY <1>3, <1>4, <2>1 DEF Fits, Missing
  <2> QED BY <1>3, <1>5, <2>1, <2>2
<1> QED BY <1>6, <1>7
------------------------------------------------------------------------------
(* The stack and its hook.                                                  *)

LEMMA StackPushed ==
  ASSUME NEW s \in Seq(Frame), NEW fr \in Frame
  PROVE  /\ Append(s, fr) \in Seq(Frame) /\ Len(Append(s, fr)) = Len(s) + 1
         /\ Append(s, fr)[Len(s) + 1] = fr
         /\ \A n \in 1..Len(s) : Append(s, fr)[n] = s[n]
         /\ Len(s) \in Nat
BY AppendProperties

LEMMA LessOne ==
  ASSUME NEW n \in Nat \ {0}
  PROVE  (IF 1 <= n - 1 THEN (n - 1) - 1 + 1 ELSE 0) = n - 1
OBVIOUS

LEMMA StackPopped ==
  ASSUME NEW s \in Seq(Frame), s # <<>>
  PROVE  /\ Front(s) \in Seq(Frame) /\ Len(Front(s)) = Len(s) - 1
         /\ \A n \in 1..(Len(s) - 1) : Front(s)[n] = s[n]
         /\ Last(s) \in Frame /\ Last(s) = s[Len(s)] /\ Len(s) \in Nat \ {0}
<1>1. Len(s) \in Nat \ {0}
  BY EmptySeq
<1>2. Len(s) \in 1..Len(s)
  BY <1>1
<1> DEFINE t == SubSeq(s, 1, Len(s) - 1)
<1>3. Front(s) = t /\ Last(s) = s[Len(s)]
  BY DEF Front, Last
<1>4. \A i \in 1..(Len(s) - 1) : s[i] \in Frame
  BY <1>1
<1>5. /\ t \in Seq(Frame) /\ Len(t) = IF 1 <= Len(s) - 1 THEN (Len(s) - 1) - 1 + 1 ELSE 0
      /\ \A i \in 1..((Len(s) - 1) - 1 + 1) : t[i] = s[1 + i - 1]
  <2>1. 1 \in Int /\ Len(s) - 1 \in Int
    BY <1>1
  <2> QED BY <1>4, <2>1, SubSeqProperties
<1> HIDE DEF t
<1>6. Len(t) = Len(s) - 1
  BY <1>1, <1>5, LessOne
<1>7. ASSUME NEW n \in 1..(Len(s) - 1)
      PROVE  t[n] = s[n]
  <2>1. n \in 1..((Len(s) - 1) - 1 + 1) /\ 1 + n - 1 = n
    BY <1>1
  <2> QED BY <1>5, <2>1
<1>8. s[Len(s)] \in Frame
  BY <1>2
<1> QED BY <1>1, <1>3, <1>5, <1>6, <1>7, <1>8

(* C code waits above the hook's frame.                                     *)
LEMMA HookBelow ==
  ASSUME NEW s \in Seq(Frame), NEW fr \in Frame, NEW h \in Nat, Hooked(h, s), fr.at # "lua"
  PROVE  Hooked(h, Append(s, fr))
<1> DEFINE t == Append(s, fr)
<1>1. /\ t \in Seq(Frame) /\ Len(t) = Len(s) + 1 /\ t[Len(s) + 1] = fr
      /\ \A n \in 1..Len(s) : t[n] = s[n]
      /\ Len(s) \in Nat
  BY StackPushed
<1> HIDE DEF t
<1>2. ASSUME h # 0
      PROVE  h \in DOMAIN t /\ \A n \in h..Len(t) : t[n].at = "lua" <=> n = h
  <2>1. h \in 1..Len(s) /\ \A n \in h..Len(s) : s[n].at = "lua" <=> n = h
    BY <1>2 DEF Hooked
  <2>2. h \in DOMAIN t
    BY <1>1, <2>1
  <2>3. ASSUME NEW n \in h..Len(t)
        PROVE  t[n].at = "lua" <=> n = h
    <3>1. CASE n = Len(s) + 1
      <4>1. n # h
        BY <1>1, <2>1, <3>1
      <4> QED BY <1>1, <3>1, <4>1
    <3>2. CASE n # Len(s) + 1
      <4>1. n \in h..Len(s) /\ n \in 1..Len(s)
        BY <1>1, <2>1, <3>2
      <4> QED BY <1>1, <2>1, <4>1
    <3> QED BY <3>1, <3>2
  <2> QED BY <2>2, <2>3
<1> QED BY <1>2 DEF Hooked, t

(* A function that starts is timed from its start.                          *)
LEMMA HookNewest ==
  ASSUME NEW s \in Seq(Frame), NEW fr \in Frame, fr.at = "lua"
  PROVE  Hooked(Len(s) + 1, Append(s, fr))
<1> DEFINE t == Append(s, fr)
<1>1. /\ t \in Seq(Frame) /\ Len(t) = Len(s) + 1 /\ t[Len(s) + 1] = fr /\ Len(s) \in Nat
  BY StackPushed
<1> HIDE DEF t
<1>2. Len(s) + 1 \in DOMAIN t
  BY <1>1
<1>3. ASSUME NEW n \in (Len(s) + 1)..Len(t)
      PROVE  t[n].at = "lua" <=> n = Len(s) + 1
  <2>1. n = Len(s) + 1
    BY <1>1
  <2> QED BY <1>1, <2>1
<1> QED BY <1>2, <1>3 DEF Hooked, t

(* C code that goes on was not timed itself.                                *)
LEMMA HookStays ==
  ASSUME NEW s \in Seq(Frame), NEW h \in Nat, s # <<>>, Last(s).at # "lua", Hooked(h, s)
  PROVE  Hooked(h, Front(s))
<1> DEFINE t == Front(s)
<1>1. /\ t \in Seq(Frame) /\ Len(t) = Len(s) - 1
      /\ \A n \in 1..(Len(s) - 1) : t[n] = s[n]
      /\ Last(s) = s[Len(s)] /\ Len(s) \in Nat \ {0}
  BY StackPopped
<1> HIDE DEF t
<1>2. ASSUME h # 0
      PROVE  h \in DOMAIN t /\ \A n \in h..Len(t) : t[n].at = "lua" <=> n = h
  <2>1. h \in 1..Len(s) /\ \A n \in h..Len(s) : s[n].at = "lua" <=> n = h
    BY <1>2 DEF Hooked
  <2>2. h \in h..Len(s)
    BY <1>1, <2>1
  <2>3. s[h].at = "lua"
    BY <2>1, <2>2
  <2>4. h # Len(s)
    BY <1>1, <2>3
  <2>5. h \in DOMAIN t
    BY <1>1, <2>1, <2>4
  <2>6. \A n \in h..Len(t) : n \in h..Len(s) /\ n \in 1..(Len(s) - 1)
    BY <1>1, <2>1
  <2> QED BY <1>1, <2>1, <2>5, <2>6
<1> QED BY <1>2 DEF Hooked, t

LEMMA NothingHooked == ASSUME NEW s PROVE Hooked(0, s)
BY DEF Hooked

------------------------------------------------------------------------------
(* Entering a function.                                                     *)

LuaFrame(c, f, i) == [at |-> "lua", of |-> c, fun |-> f, inst |-> i]

(* A function runs if the instance has it, and the component's record fits  *)
(* as before.                                                               *)
LEMMA Entered ==
  ASSUME NEW c \in ScriptComponents, NEW k, NEW f \in Funs, NEW below,
         made' \in Seq(ScriptNames), Fits(k, made'), Enter(c, k, f, below)
  PROVE  \E q : /\ Fits(q, made') /\ q.inst = k.inst /\ q.script = k.script
                /\ comp' = [comp EXCEPT ![c] = q]
                /\ \/ /\ k.inst > 0 /\ f \in Has(made'[k.inst])
                      /\ stack' = Append(below, LuaFrame(c, f, k.inst))
                      /\ hook' = Len(below) + 1
                      /\ inits' = IF f = "entity_init" THEN [inits EXCEPT ![k.inst] = @ + 1]
                                                       ELSE inits
                   \/ /\ ~(k.inst > 0 /\ f \in Has(made'[k.inst]))
                      /\ stack' = below /\ UNCHANGED <<hook, inits>>
<1> DEFINE looks == k.cache[f] = Unknown /\ k.inst > 0
           q == IF looks THEN Found(k, f) ELSE k
           i == q.cache[f][1]
<1>1. Fits(q, made') /\ q.inst = k.inst /\ q.script = k.script
  BY FoundFits
<1>2. q.cache[f] = IF k.inst > 0 THEN <<k.inst, f \in Has(made'[k.inst])>> ELSE Unknown
  <2>1. CASE looks
    BY <2>1, FoundFits
  <2>2. CASE ~looks
    BY <2>2 DEF Fits
  <2> QED BY <2>1, <2>2
<1>3. /\ comp' = [comp EXCEPT ![c] = q]
      /\ IF q.cache[f][2]
           THEN /\ stack' = Append(below, LuaFrame(c, f, i)) /\ hook' = Len(below) + 1
                /\ inits' = IF f = "entity_init" THEN [inits EXCEPT ![i] = @ + 1] ELSE inits
           ELSE stack' = below /\ UNCHANGED <<hook, inits>>
  BY DEF Enter, LuaFrame
<1> HIDE DEF q
<1>4. CASE k.inst > 0 /\ f \in Has(made'[k.inst])
  <2>1. q.cache[f] = <<k.inst, f \in Has(made'[k.inst])>>
    BY <1>2, <1>4
  <2>2. i = k.inst
    BY <2>1
  <2>3. q.cache[f][2]
    <3>1. <<k.inst, f \in Has(made'[k.inst])>>[2]
      BY <1>4, FitsFields, TruePairs
    <3> QED BY <2>1, <3>1
  <2> QED BY <1>1, <1>3, <1>4, <2>2, <2>3
<1>5. CASE ~(k.inst > 0 /\ f \in Has(made'[k.inst]))
  <2>1. ~q.cache[f][2]
    <3>1. CASE k.inst > 0
      <4>1. ~<<k.inst, f \in Has(made'[k.inst])>>[2]
        BY <1>5, <3>1, FitsFields, FalsePairs
      <4> QED BY <1>2, <3>1, <4>1
    <3>2. CASE ~(k.inst > 0)
      BY <1>2, <3>2 DEF Unknown
    <3> QED BY <3>1, <3>2
  <2> QED BY <1>1, <1>3, <1>5, <2>1
<1> QED BY <1>4, <1>5
------------------------------------------------------------------------------
(* Steps that call.                                                         *)

(* What a record that fits leaves of the registry.                          *)
LEMMA RecordChanges ==
  ASSUME Instanced, NEW c \in ScriptComponents, NEW q, Fits(q, made), q.inst = comp[c].inst,
         comp' = [comp EXCEPT ![c] = q], UNCHANGED <<made, live, loaded>>
  PROVE  Instanced'
<1>1. q \in Script /\ comp \in [ScriptComponents -> Script]
  BY DEF Fits, Instanced
<1>2. /\ comp' \in [ScriptComponents -> Script]
      /\ \A d \in ScriptComponents : comp'[d] = IF d = c THEN q ELSE comp[d]
  BY <1>1
<1>3. \A d \in ScriptComponents : comp'[d].inst = comp[d].inst
  BY <1>2
<1>4. \A d \in ScriptComponents : Fits(comp'[d], made)
  BY <1>2 DEF Instanced
<1>5. {comp'[d].inst : d \in ScriptComponents} = {comp[d].inst : d \in ScriptComponents}
  BY <1>3
<1>6. \A d, e \in ScriptComponents :
        comp'[d].inst > 0 /\ comp'[d].inst = comp'[e].inst => d = e
  BY <1>3 DEF Instanced
<1>7. \A d \in ScriptComponents : Fits(comp'[d], made')
  BY <1>4
<1> QED BY <1>2, <1>5, <1>6, <1>7 DEF Instanced

(* A record that fits goes on fitting when instances are made.              *)
LEMMA FitsLonger ==
  ASSUME NEW m \in Seq(ScriptNames), NEW s \in ScriptNames, NEW k, Fits(k, m)
  PROVE  Fits(k, Append(m, s)) /\ k.inst # Len(m) + 1
<1> DEFINE l == Append(m, s)
<1>1. /\ Len(m) \in Nat /\ Len(l) = Len(m) + 1 /\ \A n \in 1..Len(m) : l[n] = m[n]
  BY AppendProperties
<1> HIDE DEF l
<1>2. k.inst \in {Missing, NoRef} \cup 1..Len(m)
  BY DEF Fits
<1>3. k.inst \in {Missing, NoRef} \cup 1..Len(l) /\ k.inst # Len(m) + 1
  BY <1>1, <1>2 DEF Missing, NoRef
<1>4. k.inst > 0 => k.inst \in 1..Len(m) /\ l[k.inst] = m[k.inst]
  BY <1>1, <1>2 DEF Missing, NoRef
<1>5. \A f \in Funs : k.cache[f] = Unknown
                     \/ (k.inst > 0 /\ k.cache[f] = <<k.inst, f \in Has(l[k.inst])>>)
  BY <1>4 DEF Fits
<1>6. Fits(k, l)
  BY <1>3, <1>4, <1>5 DEF Fits
<1> QED BY <1>3, <1>6 DEF l

(* A component without an instance gets one, which no other has.            *)
LEMMA InstanceComes ==
  ASSUME Instanced, NEW c \in ScriptComponents, comp[c].inst = NoRef,
         Instantiate(comp[c]), UNCHANGED loaded,
         NEW q, Fits(q, made'), q.inst = Instantiated(comp[c]).inst,
         comp' = [comp EXCEPT ![c] = q]
  PROVE  Instanced'
<1> DEFINE k == comp[c]
           i == Len(made) + 1
<1>1. /\ made \in Seq(ScriptNames) /\ loaded \subseteq ScriptNames /\ Fits(k, made)
      /\ comp \in [ScriptComponents -> Script]
      /\ MaxInstances \in Nat /\ Len(made) \in Nat /\ Len(made) < MaxInstances
  BY ScriptsAssumption DEF Instanced, Instantiate
<1>2. q \in Script
  BY DEF Fits
<1>3. /\ comp' \in [ScriptComponents -> Script]
      /\ \A d \in ScriptComponents : comp'[d] = IF d = c THEN q ELSE comp[d]
  BY <1>1, <1>2
<1>4. \A d \in ScriptComponents : Fits(comp[d], made)
  BY DEF Instanced
<1>5. CASE /\ k.script \in loaded /\ made' = Append(made, k.script)
           /\ q.inst = i /\ live' = live \cup {i}
  <2>1. /\ made' \in Seq(ScriptNames) /\ Len(made') = Len(made) + 1
    BY <1>1, <1>5, AppendProperties
  <2>2. \A d \in ScriptComponents : Fits(comp'[d], made') /\ (d # c => comp'[d].inst # i)
    BY <1>1, <1>3, <1>4, <1>5, FitsLonger
  <2>3. comp'[c].inst = i /\ \A d \in ScriptComponents : d # c => comp'[d].inst = comp[d].inst
    BY <1>3, <1>5
  <2>4. \A d, e \in ScriptComponents :
          comp'[d].inst > 0 /\ comp'[d].inst = comp'[e].inst => d = e
    BY <2>2, <2>3 DEF Instanced
  <2>5. i \in Instances /\ NoRef \notin Instances
    BY <1>1 DEF Instances, NoRef
  <2>6. live' = {comp'[d].inst : d \in ScriptComponents} \cap Instances
    <3>1. live = {comp[d].inst : d \in ScriptComponents} \cap Instances
      BY DEF Instanced
    <3>2. ASSUME NEW n \in Instances
          PROVE  n \in live' <=> n \in {comp'[d].inst : d \in ScriptComponents}
      <4>1. CASE n = i
        BY <1>5, <2>3, <4>1
      <4>2. CASE n # i
        <5>1. n # comp[c].inst
          BY <2>5
        <5> QED BY <1>5, <2>3, <3>1, <4>2, <5>1
      <4> QED BY <4>1, <4>2
    <3>3. live' \subseteq Instances
      BY <1>5, <2>5, <3>1
    <3> QED BY <3>2, <3>3
  <2>7. Len(made') <= MaxInstances
    BY <1>1, <2>1
  <2>8. \A d \in ScriptComponents : Fits(comp'[d], made')
    BY <2>2
  <2> QED BY <1>1, <1>3, <2>1, <2>4, <2>6, <2>7, <2>8 DEF Instanced
<1>6. CASE q.inst = Missing /\ UNCHANGED <<made, live>>
  <2>1. \A d \in ScriptComponents : Fits(comp'[d], made')
    BY <1>3, <1>4, <1>6
  <2>2. comp'[c].inst = Missing /\ \A d \in ScriptComponents : d # c => comp'[d].inst = comp[d].inst
    BY <1>3, <1>6
  <2>3. \A d, e \in ScriptComponents :
          comp'[d].inst > 0 /\ comp'[d].inst = comp'[e].inst => d = e
    BY <2>2 DEF Instanced, Missing
  <2>4. Missing \notin Instances /\ NoRef \notin Instances
    BY <1>1 DEF Instances, NoRef, Missing
  <2>5. live' = {comp'[d].inst : d \in ScriptComponents} \cap Instances
    <3>1. live = {comp[d].inst : d \in ScriptComponents} \cap Instances
      BY DEF Instanced
    <3>2. ASSUME NEW n \in Instances
          PROVE  n \in {comp[d].inst : d \in ScriptComponents}
                   <=> n \in {comp'[d].inst : d \in ScriptComponents}
      <4>1. n # comp[c].inst /\ n # comp'[c].inst
        BY <2>2, <2>4
      <4> QED BY <2>2, <4>1
    <3> QED BY <1>6, <3>1, <3>2
  <2> QED BY <1>1, <1>3, <1>6, <2>1, <2>3, <2>5 DEF Instanced
<1> QED BY <1>1, <1>5, <1>6, InstantiatedFits
LEMMA FramesPushed ==
  ASSUME NEW s \in Seq(Frame), NEW fr \in Frame, NEW many \in Nat, FramesOK(s, many),
         fr.inst \in 0..many, fr.at # "lua" => fr.fun # "entity_init"
  PROVE  FramesOK(Append(s, fr), many)
<1> DEFINE t == Append(s, fr)
<1>1. /\ Len(t) = Len(s) + 1 /\ t[Len(s) + 1] = fr /\ Len(s) \in Nat
      /\ \A n \in 1..Len(s) : t[n] = s[n]
  BY StackPushed
<1> HIDE DEF t
<1>2. ASSUME NEW n \in 1..Len(t)
      PROVE  n = Len(s) + 1 \/ n \in 1..Len(s)
  BY <1>1
<1>3. ASSUME NEW n \in 1..Len(t)
      PROVE  t[n].inst \in 0..many /\ (t[n].at # "lua" => t[n].fun # "entity_init")
  <2>1. CASE n = Len(s) + 1
    BY <1>1, <2>1
  <2>2. CASE n \in 1..Len(s)
    BY <1>1, <2>2 DEF FramesOK
  <2> QED BY <1>2, <2>1, <2>2
<1> QED BY <1>3 DEF FramesOK, t

LEMMA FramesMore ==
  ASSUME NEW s, NEW many \in Nat, FramesOK(s, many)
  PROVE  FramesOK(s, many + 1)
<1>1. 0..many \subseteq 0..(many + 1)
  OBVIOUS
<1> QED BY <1>1 DEF FramesOK

(* A function of a component as it is.                                      *)
LEMMA Entering ==
  ASSUME ScriptsInv, NEW c \in ScriptComponents, NEW k, Fits(k, made), k.inst = comp[c].inst,
         NEW f \in Funs, f # "entity_init",
         NEW below \in Seq(Frame), Hooked(hook, below), FramesOK(below, Len(made)),
         Enter(c, k, f, below), UNCHANGED <<made, live, loaded>>
  PROVE  Instanced' /\ Initialised' /\ Hooked(hook', stack')
<1>1. /\ Instanced /\ Initialised /\ made \in Seq(ScriptNames) /\ Len(made) \in Nat
      /\ hook \in Nat
  BY DEF ScriptsInv, Instanced, Initialised
<1>2. made' \in Seq(ScriptNames) /\ Fits(k, made') /\ made' = made
  BY <1>1
<1>3. PICK q :
        /\ Fits(q, made') /\ q.inst = k.inst /\ q.script = k.script
        /\ comp' = [comp EXCEPT ![c] = q]
        /\ \/ /\ k.inst > 0 /\ f \in Has(made'[k.inst])
              /\ stack' = Append(below, LuaFrame(c, f, k.inst))
              /\ hook' = Len(below) + 1
              /\ inits' = IF f = "entity_init" THEN [inits EXCEPT ![k.inst] = @ + 1]
                                               ELSE inits
           \/ /\ ~(k.inst > 0 /\ f \in Has(made'[k.inst]))
              /\ stack' = below /\ UNCHANGED <<hook, inits>>
  BY <1>2, Entered
<1>4. Instanced'
  BY <1>1, <1>2, <1>3, RecordChanges
<1>5. CASE k.inst > 0 /\ stack' = Append(below, LuaFrame(c, f, k.inst)) /\ hook' = Len(below) + 1
           /\ inits' = inits
  <2> DEFINE fr == LuaFrame(c, f, k.inst)
  <2>1. k.inst \in 1..Len(made)
    BY <1>1, <1>5, FitsFields
  <2>2. fr \in Frame /\ fr.at = "lua" /\ fr.inst = k.inst
    BY <2>1, <1>1 DEF Frame, LuaFrame
  <2> HIDE DEF fr
  <2>3. stack' \in Seq(Frame) /\ hook' \in Nat /\ Hooked(hook', stack')
    BY <1>5, <2>2, StackPushed, HookNewest DEF fr
  <2>4. FramesOK(stack', Len(made))
    BY <1>1, <1>5, <2>1, <2>2, FramesPushed DEF fr
  <2> QED BY <1>1, <1>2, <1>4, <1>5, <2>3, <2>4 DEF Initialised
<1>6. CASE stack' = below /\ UNCHANGED <<hook, inits>>
  BY <1>1, <1>2, <1>4, <1>6 DEF Initialised
<1> QED BY <1>3, <1>5, <1>6

(* entity_init of a component that had no instance.                         *)
LEMMA Making ==
  ASSUME ScriptsInv, NEW c \in ScriptComponents, comp[c].inst = NoRef,
         Instantiate(comp[c]), UNCHANGED loaded,
         NEW k, Fits(k, made'), k.inst = Instantiated(comp[c]).inst,
         NEW below \in Seq(Frame), Hooked(hook, below), FramesOK(below, Len(made)),
         Enter(c, k, "entity_init", below)
  PROVE  Instanced' /\ Initialised' /\ Hooked(hook', stack')
<1> DEFINE f == "entity_init"
           i == Len(made) + 1
<1>1. /\ Instanced /\ Initialised /\ made \in Seq(ScriptNames) /\ Len(made) \in Nat
      /\ hook \in Nat /\ Fits(comp[c], made) /\ loaded \subseteq ScriptNames
      /\ Len(made) < MaxInstances /\ MaxInstances \in Nat
  BY ScriptsAssumption DEF ScriptsInv, Instanced, Initialised, Instantiate
<1>2. /\ made' \in Seq(ScriptNames)
      /\ \/ /\ comp[c].script \in loaded /\ made' = Append(made, comp[c].script)
            /\ k.inst = i
         \/ k.inst = Missing /\ UNCHANGED <<made, live>>
  BY <1>1, InstantiatedFits
<1>3. f \in Funs
  BY DEF Funs, Standard
<1>4. PICK q :
        /\ Fits(q, made') /\ q.inst = k.inst /\ q.script = k.script
        /\ comp' = [comp EXCEPT ![c] = q]
        /\ \/ /\ k.inst > 0 /\ f \in Has(made'[k.inst])
              /\ stack' = Append(below, LuaFrame(c, f, k.inst))
              /\ hook' = Len(below) + 1
              /\ inits' = IF f = "entity_init" THEN [inits EXCEPT ![k.inst] = @ + 1]
                                               ELSE inits
           \/ /\ ~(k.inst > 0 /\ f \in Has(made'[k.inst]))
              /\ stack' = below /\ UNCHANGED <<hook, inits>>
  BY <1>2, <1>3, Entered
<1>5. Instanced'
  BY <1>1, <1>4, InstanceComes
<1>6. CASE comp[c].script \in loaded /\ made' = Append(made, comp[c].script) /\ k.inst = i
  <2>1. /\ Len(made') = i /\ \A n \in 1..Len(made) : made'[n] = made[n]
    BY <1>1, <1>6, AppendProperties
  <2>2. i \in Instances /\ i > 0 /\ i \in Nat
    BY <1>1 DEF Instances
  <2>3. inits \in [Instances -> Nat] /\ inits[i] = 0
    BY <1>1, <2>2 DEF Initialised
  <2>4. ASSUME NEW n \in Instances, n # i
        PROVE  inits[n] = IF n <= Len(made') /\ f \in Has(made'[n]) THEN 1 ELSE 0
    <3>1. inits[n] = IF n <= Len(made) /\ f \in Has(made[n]) THEN 1 ELSE 0
      BY <1>1 DEF Initialised
    <3>2. n \in Nat /\ n >= 1
      BY <1>1 DEF Instances
    <3>3. n <= Len(made') <=> n <= Len(made)
      BY <1>1, <2>1, <2>4, <3>2
    <3>4. n <= Len(made) => made'[n] = made[n]
      BY <1>1, <2>1, <3>2
    <3> QED BY <3>1, <3>3, <3>4
  <2>5. CASE /\ f \in Has(made'[i])
             /\ stack' = Append(below, LuaFrame(c, f, i)) /\ hook' = Len(below) + 1
             /\ inits' = [inits EXCEPT ![i] = @ + 1]
    <3> DEFINE fr == LuaFrame(c, f, i)
    <3>1. fr \in Frame /\ fr.at = "lua" /\ fr.inst = i
      BY <1>3, <2>2 DEF Frame, LuaFrame
    <3> HIDE DEF fr
    <3>2. stack' \in Seq(Frame) /\ hook' \in Nat /\ Hooked(hook', stack')
      BY <2>5, <3>1, StackPushed, HookNewest DEF fr
    <3>3. FramesOK(below, i) /\ i \in 0..i
      BY <1>1, <2>2, FramesMore
    <3>4. FramesOK(stack', i)
      BY <2>2, <2>5, <3>1, <3>3, FramesPushed DEF fr
    <3>5. inits' \in [Instances -> Nat] /\ inits'[i] = 1
          /\ \A n \in Instances : n # i => inits'[n] = inits[n]
      BY <2>2, <2>3, <2>5
    <3>6. inits'[i] = IF i <= Len(made') /\ f \in Has(made'[i]) THEN 1 ELSE 0
      BY <2>1, <2>2, <2>5, <3>5
    <3>7. \A n \in Instances :
            inits'[n] = IF n <= Len(made') /\ f \in Has(made'[n]) THEN 1 ELSE 0
      BY <2>4, <3>5, <3>6
    <3> QED BY <1>5, <2>1, <3>2, <3>4, <3>5, <3>7 DEF Initialised
  <2>6. CASE f \notin Has(made'[i]) /\ stack' = below /\ UNCHANGED <<hook, inits>>
    <3>1. \A n \in Instances :
            inits'[n] = IF n <= Len(made') /\ f \in Has(made'[n]) THEN 1 ELSE 0
      BY <2>3, <2>4, <2>6
    <3>2. FramesOK(stack', Len(made'))
      BY <1>1, <2>1, <2>6, FramesMore
    <3> QED BY <1>1, <1>5, <2>3, <2>6, <3>1, <3>2 DEF Initialised
  <2> HIDE DEF i, f
  <2> QED BY <1>4, <1>6, <2>2, <2>5, <2>6 DEF f
<1>7. CASE k.inst = Missing /\ UNCHANGED <<made, live>>
  <2>1. stack' = below /\ UNCHANGED <<hook, inits>>
    BY <1>4, <1>7 DEF Missing
  <2> QED BY <1>1, <1>5, <1>7, <2>1 DEF Initialised
<1> QED BY <1>2, <1>6, <1>7
(* entity_component_lua_run, by whomever it is called.                      *)
LEMMA Running ==
  ASSUME ScriptsInv, NEW c \in ScriptComponents, NEW f \in Funs, f # "entity_init",
         NEW below \in Seq(Frame), Hooked(hook, below), FramesOK(below, Len(made)),
         Run(c, f, below), UNCHANGED loaded
  PROVE  Instanced' /\ Initialised' /\ Hooked(hook', stack')
<1> DEFINE k == comp[c]
           fr == Waits("call", c, f)
           b == Append(below, fr)
<1>1. /\ Fits(k, made) /\ made \in Seq(ScriptNames) /\ loaded \subseteq ScriptNames
      /\ Len(made) \in Nat /\ hook \in Nat
  BY DEF ScriptsInv, Instanced, Initialised
<1>2. CASE k.cache[f] = Unknown /\ k.inst = NoRef /\ k.script # NoScript
  <2>1. Instantiate(k) /\ Enter(c, Instantiated(k), "entity_init", b)
    BY <1>2 DEF Run, FirstCall
  <2>2. /\ fr \in Frame /\ fr.at # "lua" /\ fr.fun # "entity_init" /\ fr.inst \in 0..Len(made)
    BY <1>1 DEF Frame, Waits, NoRef
  <2> HIDE DEF fr
  <2>3. b \in Seq(Frame) /\ Hooked(hook, b) /\ FramesOK(b, Len(made))
    BY <1>1, <2>2, StackPushed, HookBelow, FramesPushed
  <2> HIDE DEF b
  <2>4. Fits(Instantiated(k), made')
    BY <1>1, <1>2, <2>1, InstantiatedFits
  <2> QED BY <1>2, <2>1, <2>3, <2>4, Making
<1>3. CASE ~(k.cache[f] = Unknown /\ k.inst = NoRef /\ k.script # NoScript)
  <2>1. UNCHANGED <<made, live>> /\ Enter(c, k, f, below)
    BY <1>3 DEF Run
  <2> QED BY <1>1, <2>1, Entering
<1> QED BY <1>2, <1>3

LEMMA WalkRests ==
  ASSUME Walked, UNCHANGED walkVars, UNCHANGED strays
  PROVE  Walked'
BY DEF Walked, walkVars

(* Calls of a component that is there change nothing about those that are   *)
(* gone.                                                                    *)
LEMMA FateRests ==
  ASSUME Fated, NEW c, c \notin gone, UNCHANGED <<fateVars, scriptFault, list>>,
         Called(stack') \subseteq Called(stack) \cup {c}
  PROVE  Fated'
BY DEF Fated, fateVars

(* A freed component that the array or a call has went astray.              *)
LEMMA FreedRead ==
  ASSUME ScriptsInv, NEW c \in ToSet(list) \cup Called(stack), ReadsFreed(c)
  PROVE  ScriptsInv'
<1>1. /\ c \in gone /\ scriptFault' = {IF c \in strays THEN "stray" ELSE "component"}
      /\ UNCHANGED <<comp, loaded, made, live, stack, hook, inits>>
      /\ UNCHANGED <<walkVars, list, strays, gone>>
  BY DEF ReadsFreed, callVars, fateVars, walkVars
<1>2. c \in strays
  BY <1>1 DEF ScriptsInv, Fated
<1>3. scriptFault' \subseteq {"stray"}
  BY <1>1, <1>2
<1>4. Fated'
  BY <1>1, <1>3 DEF ScriptsInv, Fated
<1>5. Walked'
  BY <1>1, WalkRests DEF ScriptsInv
<1> QED BY <1>1, <1>4, <1>5 DEF ScriptsInv, Instanced, Initialised

LEMMA CalledMore ==
  ASSUME NEW s \in Seq(Frame), NEW fr \in Frame
  PROVE  Called(Append(s, fr)) \subseteq Called(s) \cup {fr.of}
<1>1. /\ Len(Append(s, fr)) = Len(s) + 1 /\ Append(s, fr)[Len(s) + 1] = fr
      /\ \A n \in 1..Len(s) : Append(s, fr)[n] = s[n]
      /\ Len(s) \in Nat
  BY StackPushed
<1>2. \A n \in 1..(Len(s) + 1) : n = Len(s) + 1 \/ n \in 1..Len(s)
  BY <1>1
<1> QED BY <1>1, <1>2 DEF Called

(* What a call of c pushes is c's. *)
LEMMA EnterCalls ==
  ASSUME NEW c \in ScriptComponents, NEW k, NEW f \in Funs, NEW below \in Seq(Frame),
         made' \in Seq(ScriptNames), Fits(k, made'), Enter(c, k, f, below)
  PROVE  Called(stack') \subseteq Called(below) \cup {c}
<1>1. \/ /\ k.inst > 0 /\ stack' = Append(below, LuaFrame(c, f, k.inst))
      \/ stack' = below
  BY Entered
<1>2. k.inst \in Int
  BY FitsFields
<1>3. LuaFrame(c, f, k.inst) \in Frame /\ LuaFrame(c, f, k.inst).of = c
  BY <1>2 DEF Frame, LuaFrame
<1> QED BY <1>1, <1>3, CalledMore

LEMMA RunCalls ==
  ASSUME ScriptsInv, NEW c \in ScriptComponents, NEW f \in Funs, NEW below \in Seq(Frame),
         Run(c, f, below), f # "entity_init"
  PROVE  Called(stack') \subseteq Called(below) \cup {c}
<1> DEFINE k == comp[c]
           fr == Waits("call", c, f)
           b == Append(below, fr)
<1>1. Fits(k, made) /\ made \in Seq(ScriptNames) /\ loaded \subseteq ScriptNames
  BY DEF ScriptsInv, Instanced
<1>2. CASE k.cache[f] = Unknown /\ k.inst = NoRef /\ k.script # NoScript
  <2>1. Instantiate(k) /\ Enter(c, Instantiated(k), "entity_init", b)
    BY <1>2 DEF Run, FirstCall
  <2>2. fr \in Frame /\ fr.of = c
    BY DEF Frame, Waits, NoRef
  <2> HIDE DEF fr
  <2>3. b \in Seq(Frame) /\ Called(b) \subseteq Called(below) \cup {c}
    BY <2>2, StackPushed, CalledMore
  <2> HIDE DEF b
  <2>4. made' \in Seq(ScriptNames) /\ Fits(Instantiated(k), made')
    BY <1>1, <1>2, <2>1, InstantiatedFits
  <2>5. "entity_init" \in Funs
    BY DEF Funs, Standard
  <2> QED BY <2>1, <2>3, <2>4, <2>5, EnterCalls
<1>3. CASE ~(k.cache[f] = Unknown /\ k.inst = NoRef /\ k.script # NoScript)
  <2>1. UNCHANGED <<made, live>> /\ Enter(c, k, f, below)
    BY <1>3 DEF Run
  <2> QED BY <1>1, <2>1, EnterCalls
<1> QED BY <1>2, <1>3

LEMMA CallKeeps ==
  ASSUME ScriptsInv, NEW c \in ScriptComponents, NEW f \in Funs, Call(c, f)
  PROVE  ScriptsInv'
<1>1. /\ f # "entity_init" /\ UNCHANGED <<loaded, walkVars>> /\ Run(c, f, stack)
      /\ c \notin gone /\ UNCHANGED <<fateVars, scriptFault>>
  BY DEF Call, Keeps
<1>2. stack \in Seq(Frame) /\ Hooked(hook, stack) /\ FramesOK(stack, Len(made)) /\ Walked
  BY DEF ScriptsInv, Initialised
<1>3. Instanced' /\ Initialised' /\ Hooked(hook', stack')
  BY <1>1, <1>2, Running
<1>4. Walked'
  BY <1>1, <1>2, WalkRests DEF fateVars
<1>5. Fated'
  BY <1>1, <1>2, RunCalls, FateRests DEF ScriptsInv, walkVars
<1> QED BY <1>3, <1>4, <1>5 DEF ScriptsInv

(* What waits below the frame that ends.                                    *)
LEMMA FrameEnds ==
  ASSUME ScriptsInv, stack # <<>>
  PROVE  /\ Front(stack) \in Seq(Frame) /\ FramesOK(Front(stack), Len(made))
         /\ Last(stack) \in Frame
         /\ Last(stack).of \in Called(stack) /\ Called(Front(stack)) \subseteq Called(stack)
         /\ Last(stack).at # "lua" => Last(stack).fun # "entity_init" /\ Hooked(hook, Front(stack))
<1>1. stack \in Seq(Frame) /\ FramesOK(stack, Len(made)) /\ hook \in Nat /\ Hooked(hook, stack)
  BY DEF ScriptsInv, Initialised
<1>2. /\ Front(stack) \in Seq(Frame) /\ Len(Front(stack)) = Len(stack) - 1
      /\ \A n \in 1..(Len(stack) - 1) : Front(stack)[n] = stack[n]
      /\ Last(stack) \in Frame /\ Last(stack) = stack[Len(stack)] /\ Len(stack) \in Nat \ {0}
  BY <1>1, StackPopped
<1>3. \A n \in 1..(Len(stack) - 1) : n \in 1..Len(stack)
  BY <1>2
<1>4. FramesOK(Front(stack), Len(made))
  BY <1>1, <1>2, <1>3 DEF FramesOK
<1>5. Len(stack) \in 1..Len(stack)
  BY <1>2
<1>6. Last(stack).at # "lua" => Last(stack).fun # "entity_init"
  BY <1>1, <1>2, <1>5 DEF FramesOK
<1>7. Last(stack).of \in Called(stack)
  BY <1>2, <1>5 DEF Called
<1>8. Called(Front(stack)) \subseteq Called(stack)
  BY <1>2, <1>3 DEF Called
<1> QED BY <1>1, <1>2, <1>4, <1>6, <1>7, <1>8, HookStays

LEMMA ResumeCallKeeps ==
  ASSUME ScriptsInv, ResumeCall
  PROVE  ScriptsInv'
<1> DEFINE c == Last(stack).of
           f == Last(stack).fun
<1>0. CASE ReadsFreed(c)
  BY <1>0, FrameEnds, FreedRead DEF ResumeCall, Top
<1> SUFFICES ASSUME ~ReadsFreed(c) PROVE ScriptsInv'
  BY <1>0
<1>1. /\ stack # <<>> /\ Last(stack).at = "call" /\ UNCHANGED <<made, live, loaded, walkVars>>
      /\ Enter(c, Filled(comp[c]), f, Front(stack))
      /\ c \notin gone /\ UNCHANGED <<fateVars, scriptFault>>
  BY DEF ResumeCall, Top, Keeps
<1>2. /\ Front(stack) \in Seq(Frame) /\ FramesOK(Front(stack), Len(made))
      /\ c \in ScriptComponents /\ f \in Funs /\ f # "entity_init" /\ Hooked(hook, Front(stack))
  BY <1>1, FrameEnds DEF Frame
<1>7. c \in Called(stack) /\ Called(Front(stack)) \subseteq Called(stack)
  BY <1>1, FrameEnds
<1> HIDE DEF c, f
<1>3. made' \in Seq(ScriptNames) /\ Fits(comp[c], made') /\ made' = made /\ Walked
  BY <1>1, <1>2 DEF ScriptsInv, Instanced
<1>4. Fits(Filled(comp[c]), made) /\ Filled(comp[c]).inst = comp[c].inst
  BY <1>3, FilledFits
<1>5. Instanced' /\ Initialised' /\ Hooked(hook', stack')
  BY <1>1, <1>2, <1>4, Entering
<1>6. Called(stack') \subseteq Called(stack) \cup {c}
  BY <1>1, <1>2, <1>3, <1>4, <1>7, EnterCalls
<1>8. Fated'
  BY <1>1, <1>6, FateRests DEF ScriptsInv, walkVars
<1> QED BY <1>1, <1>3, <1>5, <1>8, WalkRests DEF ScriptsInv, fateVars

LEMMA ResumeUpdateKeeps ==
  ASSUME ScriptsInv, ResumeUpdate
  PROVE  ScriptsInv'
<1> DEFINE c == Last(stack).of
           f == Last(stack).fun
<1>0. CASE ReadsFreed(c)
  BY <1>0, FrameEnds, FreedRead DEF ResumeUpdate, Top
<1> SUFFICES ASSUME ~ReadsFreed(c) PROVE ScriptsInv'
  BY <1>0
<1>1. /\ stack # <<>> /\ Last(stack).at = "update" /\ UNCHANGED <<loaded, walkVars>>
      /\ Run(c, f, Front(stack))
      /\ c \notin gone /\ UNCHANGED <<fateVars, scriptFault>>
  BY DEF ResumeUpdate, Top, Keeps
<1>2. /\ Front(stack) \in Seq(Frame) /\ FramesOK(Front(stack), Len(made))
      /\ c \in ScriptComponents /\ f \in Funs /\ f # "entity_init" /\ Hooked(hook, Front(stack))
  BY <1>1, FrameEnds DEF Frame
<1>6. c \in Called(stack) /\ Called(Front(stack)) \subseteq Called(stack)
  BY <1>1, FrameEnds
<1> HIDE DEF c, f
<1>3. Instanced' /\ Initialised' /\ Hooked(hook', stack')
  BY <1>1, <1>2, Running
<1>4. Walked
  BY DEF ScriptsInv
<1>5. Called(stack') \subseteq Called(stack) \cup {c}
  BY <1>1, <1>2, <1>6, RunCalls
<1>7. Fated'
  BY <1>1, <1>5, FateRests DEF ScriptsInv, walkVars
<1> QED BY <1>1, <1>3, <1>4, <1>7, WalkRests DEF ScriptsInv, fateVars

LEMMA ReturnsKeeps ==
  ASSUME ScriptsInv, Returns
  PROVE  ScriptsInv'
<1>1. /\ stack # <<>> /\ stack' = Front(stack) /\ hook' = 0
      /\ UNCHANGED <<comp, loaded, made, live, inits>> /\ UNCHANGED walkVars
      /\ UNCHANGED <<list, strays, gone, scriptFault>>
  BY DEF Returns, Top, Unhooked, fateVars, walkVars
<1>2. /\ stack' \in Seq(Frame) /\ FramesOK(stack', Len(made))
      /\ Called(stack') \subseteq Called(stack)
  BY <1>1, FrameEnds
<1>3. Instanced'
  BY <1>1 DEF ScriptsInv, Instanced
<1>4. Initialised'
  BY <1>1, <1>2 DEF ScriptsInv, Initialised
<1>5. Walked'
  BY <1>1, WalkRests DEF ScriptsInv
<1>6. Fated'
  BY <1>1, <1>2 DEF ScriptsInv, Fated
<1> QED BY <1>1, <1>3, <1>4, <1>5, <1>6, NothingHooked DEF ScriptsInv

(* Replacing a script gives its instance back to the registry.              *)
LEMMA Renaming ==
  ASSUME ScriptsInv, NEW c \in ScriptComponents, NEW s \in ScriptNames \cup {NoScript},
         comp' = [comp EXCEPT ![c] = Renamed(@, s)], live' = live \ {comp[c].inst},
         UNCHANGED <<loaded, made, stack, hook, inits>>
  PROVE  Instanced' /\ Initialised' /\ Hooked(hook', stack')
<1> DEFINE k == comp[c]
           q == [k EXCEPT !.script = s, !.inst = NoRef, !.cache = Empty]
<1>1. /\ comp' = [comp EXCEPT ![c] = q] /\ live' = live \ {k.inst}
      /\ UNCHANGED <<loaded, made, stack, hook, inits>>
  BY DEF Renamed
<1>2. /\ Instanced /\ comp \in [ScriptComponents -> Script] /\ k \in Script
      /\ made \in Seq(ScriptNames) /\ MaxInstances \in Nat
  BY ScriptsAssumption DEF ScriptsInv, Instanced
<1>3. q \in Script /\ q.inst = NoRef /\ q.script = s /\ q.cache = Empty
  <2>1. NoRef \in Int /\ Empty \in [Funs -> Int \X BOOLEAN]
    BY EmptyCache DEF NoRef
  <2> HIDE DEF k
  <2> QED BY <1>2, <2>1 DEF Script
<1> HIDE DEF q
<1>4. Fits(q, made)
  BY <1>3, EmptyCache DEF Fits, NoRef
<1>5. /\ comp' \in [ScriptComponents -> Script]
      /\ \A d \in ScriptComponents : comp'[d] = IF d = c THEN q ELSE comp[d]
  BY <1>1, <1>2, <1>3
<1>6. \A d \in ScriptComponents : Fits(comp'[d], made')
  BY <1>1, <1>2, <1>4, <1>5 DEF Instanced
<1>7. comp'[c].inst = NoRef /\ \A d \in ScriptComponents : d # c => comp'[d].inst = comp[d].inst
  BY <1>3, <1>5
<1>8. \A d, e \in ScriptComponents :
        comp'[d].inst > 0 /\ comp'[d].inst = comp'[e].inst => d = e
  BY <1>2, <1>7 DEF Instanced, NoRef
<1>9. live' = {comp'[d].inst : d \in ScriptComponents} \cap Instances
  <2>1. live = {comp[d].inst : d \in ScriptComponents} \cap Instances
    BY <1>2 DEF Instanced
  <2>2. ASSUME NEW n \in Instances
        PROVE  n > 0
    BY <1>2 DEF Instances
  <2>3. ASSUME NEW n \in Instances
        PROVE  n \in live' <=> n \in {comp'[d].inst : d \in ScriptComponents}
    <3>1. n > 0 /\ n # NoRef
      BY <2>2 DEF NoRef
    <3>2. n \in live' <=> (\E d \in ScriptComponents : comp[d].inst = n) /\ n # comp[c].inst
      BY <1>1, <2>1
    <3>3. n \in {comp'[d].inst : d \in ScriptComponents}
            <=> \E d \in ScriptComponents : d # c /\ comp[d].inst = n
      BY <1>7, <3>1
    <3>4. \A d \in ScriptComponents : d # c /\ comp[d].inst = n => n # comp[c].inst
      BY <1>2, <3>1 DEF Instanced
    <3> QED BY <3>2, <3>3, <3>4
  <2> QED BY <1>1, <2>1, <2>3
<1>10. Instanced'
  BY <1>1, <1>2, <1>5, <1>6, <1>8, <1>9 DEF Instanced
<1>11. Initialised' /\ Hooked(hook', stack')
  BY <1>1 DEF ScriptsInv, Initialised
<1> QED BY <1>10, <1>11

LEMMA SetScriptKeeps ==
  ASSUME ScriptsInv, NEW c \in ScriptComponents, NEW s \in ScriptNames \cup {NoScript},
         SetScript(c, s)
  PROVE  ScriptsInv'
<1>1. /\ comp' = [comp EXCEPT ![c] = Renamed(@, s)] /\ live' = live \ {comp[c].inst}
      /\ UNCHANGED <<loaded, made, stack, hook, inits>> /\ UNCHANGED walkVars
      /\ UNCHANGED <<list, strays, gone, scriptFault>>
  BY DEF SetScript, Keeps, fateVars, walkVars
<1>2. Fated'
  BY <1>1 DEF ScriptsInv, Fated
<1> QED BY <1>1, <1>2, Renaming, WalkRests DEF ScriptsInv

(* What is freed while it is listed or called went astray before.           *)
LEMMA FreeScriptKeeps ==
  ASSUME ScriptsInv, NEW c \in ScriptComponents, FreeScript(c)
  PROVE  ScriptsInv'
<1>1. /\ comp' = [comp EXCEPT ![c] = Renamed(@, NoScript)] /\ live' = live \ {comp[c].inst}
      /\ UNCHANGED <<loaded, made, stack, hook, inits>> /\ UNCHANGED walkVars
      /\ UNCHANGED <<list, strays, scriptFault>> /\ gone' = gone \cup {c}
  BY DEF FreeScript, walkVars
<1>2. c \in strays \/ (c \notin ToSet(list) /\ c \notin Called(stack))
  BY DEF FreeScript, Called, ScriptsInv, Initialised
<1>3. Fated'
  BY <1>1, <1>2 DEF ScriptsInv, Fated
<1> QED BY <1>1, <1>3, Renaming, WalkRests DEF ScriptsInv

LEMMA LoadKeeps ==
  ASSUME ScriptsInv, NEW s \in ScriptNames, Load(s)
  PROVE  ScriptsInv'
<1>1. /\ loaded' = loaded \cup {s} /\ UNCHANGED <<comp, made, live, stack, hook, inits>>
      /\ UNCHANGED walkVars /\ UNCHANGED <<list, strays, gone, scriptFault>>
  BY DEF Load, fateVars, walkVars
<1>2. Instanced' /\ Initialised' /\ Hooked(hook', stack') /\ Fated'
  BY <1>1 DEF ScriptsInv, Instanced, Initialised, Fated
<1> QED BY <1>1, <1>2, WalkRests DEF ScriptsInv
------------------------------------------------------------------------------
(* The walk of the Lua system.                                              *)

(* Places that are left of the walk stay what they are.                     *)
LEMMA PassedSame ==
  ASSUME NEW L \in Seq(ScriptComponents), NEW M \in Seq(ScriptComponents), NEW w \in Nat,
         NEW c, w <= Len(L) + 1, Len(L) <= Len(M),
         \A j \in 1..Len(L) : M[j] = L[j]
  PROVE  Passed(M, w, c) = Passed(L, w, c)
<1>1. Len(L) \in Nat /\ Len(M) \in Nat
  OBVIOUS
<1>2. \A j \in 1..Len(M) : j < w => j \in 1..Len(L)
  BY <1>1
<1>3. \A j \in 1..Len(L) : j \in 1..Len(M)
  BY <1>1
<1> QED BY <1>2, <1>3 DEF Passed

LEMMA AddScriptKeeps ==
  ASSUME ScriptsInv, NEW c \in ScriptComponents, AddScript(c)
  PROVE  ScriptsInv'
<1>1. /\ list' = Append(list, c) /\ c \notin gone
      /\ strays' = IF c \in ToSet(list) THEN strays \cup {c} ELSE strays
      /\ UNCHANGED <<comp, loaded, made, live, walk, seen, moved, stack, hook, inits>>
      /\ UNCHANGED <<gone, scriptFault>>
  BY DEF AddScript, Added, callVars
<1>2. Walked /\ Fated
  BY DEF ScriptsInv
<1>3. list \in Seq(ScriptComponents) /\ Len(list) \in Nat /\ walk \in Nat
      /\ \A i \in 1..Len(list) : list[i] \in ToSet(list)
  BY <1>1, <1>2 DEF Walked, ToSet
<1>4. /\ list' \in Seq(ScriptComponents) /\ Len(list') = Len(list) + 1
      /\ \A i \in 1..Len(list) : list'[i] = list[i]
      /\ list'[Len(list) + 1] = c
  BY <1>1, <1>3, AppendProperties
<1>5. \A i \in 1..Len(list') : i = Len(list) + 1 \/ i \in 1..Len(list)
  BY <1>3, <1>4
<1>6. \A i, j \in 1..Len(list') : list'[i] = list'[j] /\ list'[i] \notin strays' => i = j
  <2> TAKE i, j \in 1..Len(list')
  <2>1. CASE i \in 1..Len(list) /\ j \in 1..Len(list)
    BY <1>1, <1>2, <1>4, <2>1 DEF Walked
  <2>2. CASE i = Len(list) + 1 /\ j \in 1..Len(list)
    BY <1>1, <1>3, <1>4, <2>2
  <2>3. CASE i \in 1..Len(list) /\ j = Len(list) + 1
    BY <1>1, <1>3, <1>4, <2>3
  <2> QED BY <1>5, <2>1, <2>2, <2>3
<1>7. ASSUME ~moved
      PROVE  /\ walk <= Len(list') + 1
             /\ \A d \in ScriptComponents : seen[d] = Cardinality(Passed(list', walk, d))
  <2>1. walk <= Len(list) + 1
    BY <1>2, <1>7 DEF Walked
  <2>2. \A d \in ScriptComponents : Passed(list', walk, d) = Passed(list, walk, d)
    BY <1>3, <1>4, <2>1, PassedSame
  <2>3. walk <= Len(list') + 1
    BY <1>3, <1>4, <2>1
  <2> QED BY <1>2, <1>7, <2>2, <2>3 DEF Walked
<1>8. Walked'
  BY <1>1, <1>2, <1>4, <1>6, <1>7 DEF Walked
<1>9. Instanced' /\ Initialised' /\ Hooked(hook', stack')
  BY <1>1 DEF ScriptsInv, Instanced, Initialised
<1>10. Fated'
  <2>1. ToSet(list') = ToSet(list) \cup {c}
    <3>1. \A i \in 1..Len(list) : i \in 1..Len(list')
      BY <1>3, <1>4
    <3>2. Len(list) + 1 \in 1..Len(list')
      BY <1>3, <1>4
    <3> QED BY <1>3, <1>4, <1>5, <3>1, <3>2 DEF ToSet
  <2> QED BY <1>1, <1>2, <2>1 DEF Fated
<1> QED BY <1>8, <1>9, <1>10 DEF ScriptsInv

(* Filling a gap with the last element.                                     *)
LEMMA GapFilled ==
  ASSUME NEW L \in Seq(ScriptComponents), NEW i \in 1..Len(L)
  PROVE  /\ Removed(L, i) \in Seq(ScriptComponents) /\ Len(L) \in Nat
         /\ Len(Removed(L, i)) = Len(L) - 1
         /\ \A j \in 1..(Len(L) - 1) : Removed(L, i)[j] = IF j = i THEN L[Len(L)] ELSE L[j]
<1> DEFINE n == Len(L)
           M == [L EXCEPT ![i] = L[n]]
           R == SubSeq(M, 1, n - 1)
<1>1. n \in Nat /\ n \in 1..n
  OBVIOUS
<1>2. /\ M \in Seq(ScriptComponents) /\ Len(M) = n
      /\ \A j \in 1..n : M[j] = IF j = i THEN L[n] ELSE L[j]
  BY <1>1, ExceptSeq
<1> HIDE DEF M
<1>3. R \in Seq(ScriptComponents) /\ Len(R) = n - 1 /\ \A j \in 1..(n - 1) : R[j] = M[j]
  BY <1>1, <1>2
<1> HIDE DEF R
<1>4. Removed(L, i) = R
  BY <1>2 DEF Removed, Front, Last, R, M
<1>5. \A j \in 1..(n - 1) : j \in 1..n
  BY <1>1
<1> QED BY <1>1, <1>2, <1>3, <1>4, <1>5

LEMMA RemoveScriptKeeps ==
  ASSUME ScriptsInv, NEW c \in ScriptComponents, RemoveScript(c)
  PROVE  ScriptsInv'
<1>1. /\ moved' = (walk # 0)
      /\ UNCHANGED <<comp, loaded, made, live, walk, seen, stack, hook, inits>>
      /\ UNCHANGED <<strays, gone, scriptFault>>
      /\ \E i \in DOMAIN list : list' = Removed(list, i)
  BY DEF RemoveScript, callVars, fateVars
<1>2. Walked /\ list \in Seq(ScriptComponents) /\ Fated
  BY DEF ScriptsInv, Walked
<1> DEFINE n == Len(list)
<1>3. PICK i \in 1..n : list' = Removed(list, i)
  BY <1>1, <1>2
<1>4. /\ list' \in Seq(ScriptComponents) /\ n \in Nat /\ Len(list') = n - 1
      /\ \A j \in 1..(n - 1) : list'[j] = IF j = i THEN list[n] ELSE list[j]
  BY <1>2, <1>3, GapFilled
<1>5. n \in 1..n /\ \A j \in 1..(n - 1) : j \in 1..n /\ j # n
  BY <1>3, <1>4
<1>6. \A j, l \in 1..Len(list') : list'[j] = list'[l] /\ list'[j] \notin strays => j = l
  <2> SUFFICES ASSUME NEW j \in 1..(n - 1), NEW l \in 1..(n - 1), list'[j] = list'[l],
                      list'[j] \notin strays
               PROVE  j = l
    BY <1>4
  <2> DEFINE from(m) == IF m = i THEN n ELSE m
  <2>1. /\ list'[j] = list[from(j)] /\ list'[l] = list[from(l)]
        /\ from(j) \in 1..n /\ from(l) \in 1..n
    BY <1>4, <1>5
  <2>2. from(j) = from(l)
    BY <1>2, <2>1 DEF Walked
  <2> QED BY <1>5, <2>2
<1>7. ASSUME ~moved'
      PROVE  /\ walk <= Len(list') + 1
             /\ \A d \in ScriptComponents : seen[d] = Cardinality(Passed(list', walk, d))
  <2>1. walk = 0 /\ ~moved
    BY <1>1, <1>2, <1>7 DEF Walked
  <2>2. \A d \in ScriptComponents : Passed(list', walk, d) = Passed(list, walk, d)
    BY <1>2, <1>4, <2>1 DEF Passed
  <2> QED BY <1>2, <1>4, <2>1, <2>2 DEF Walked
<1>8. Walked'
  BY <1>1, <1>2, <1>4, <1>6, <1>7 DEF Walked
<1>9. Instanced' /\ Initialised' /\ Hooked(hook', stack')
  BY <1>1 DEF ScriptsInv, Instanced, Initialised
<1>10. ToSet(list') \subseteq ToSet(list)
  <2>1. \A j \in 1..Len(list') : \E m \in 1..n : list'[j] = list[m]
    BY <1>4, <1>5
  <2> QED BY <1>2, <1>4, <2>1 DEF ToSet
<1>11. Fated'
  BY <1>1, <1>2, <1>10 DEF Fated
<1> QED BY <1>8, <1>9, <1>11 DEF ScriptsInv

(* A component that goes astray stays where it is.                          *)
LEMMA TakeScriptKeeps ==
  ASSUME ScriptsInv, NEW c \in ScriptComponents, TakeScript(c)
  PROVE  ScriptsInv'
<1>1. /\ strays' = strays \cup {c}
      /\ UNCHANGED <<comp, loaded, made, live, list, walk, seen, moved, stack, hook, inits>>
      /\ UNCHANGED <<gone, scriptFault>>
  BY DEF TakeScript, callVars, walkVars
<1>2. Walked'
  BY <1>1 DEF ScriptsInv, Walked
<1>3. Instanced' /\ Initialised' /\ Hooked(hook', stack') /\ Fated'
  BY <1>1 DEF ScriptsInv, Instanced, Initialised, Fated
<1> QED BY <1>2, <1>3 DEF ScriptsInv

LEMMA WalkBeginsKeeps ==
  ASSUME ScriptsInv, WalkBegins
  PROVE  ScriptsInv'
<1>1. /\ walk = 0 /\ walk' = 1
      /\ UNCHANGED <<comp, loaded, made, live, list, seen, moved, stack, hook, inits>>
      /\ UNCHANGED <<strays, gone, scriptFault>>
  BY DEF WalkBegins, callVars, fateVars
<1>2. Walked /\ Len(list) \in Nat
  BY DEF ScriptsInv, Walked
<1>3. ~moved /\ \A c \in ScriptComponents : Passed(list, walk', c) = Passed(list, walk, c)
  BY <1>1, <1>2 DEF Walked, Passed
<1>4. Walked'
  BY <1>1, <1>2, <1>3 DEF Walked
<1>5. Instanced' /\ Initialised' /\ Hooked(hook', stack') /\ Fated'
  BY <1>1 DEF ScriptsInv, Instanced, Initialised, Fated
<1> QED BY <1>4, <1>5 DEF ScriptsInv

LEMMA WalkEndsKeeps ==
  ASSUME ScriptsInv, WalkEnds
  PROVE  ScriptsInv'
<1>1. /\ walk' = 0 /\ seen' = [c \in ScriptComponents |-> 0] /\ moved' = FALSE
      /\ UNCHANGED <<comp, loaded, made, live, list, stack, hook, inits>>
      /\ UNCHANGED <<strays, gone, scriptFault>>
  BY DEF WalkEnds, callVars, fateVars
<1>2. Walked /\ Len(list) \in Nat
  BY DEF ScriptsInv, Walked
<1>3. \A c \in ScriptComponents : Cardinality(Passed(list, 0, c)) = 0
  <2>1. \A c \in ScriptComponents : Passed(list, 0, c) = {}
    BY <1>2 DEF Passed
  <2> QED BY <2>1, FS_EmptySet
<1>4. seen' \in [ScriptComponents -> Nat] /\ \A c \in ScriptComponents : seen'[c] = 0
  BY <1>1
<1>5. /\ walk' \in Nat /\ moved' \in BOOLEAN /\ walk' <= Len(list) + 1 /\ ~moved'
  <2>1. moved' \in BOOLEAN /\ ~moved'
    BY <1>1
  <2>2. walk' \in Nat /\ walk' <= Len(list) + 1
    BY <1>1, <1>2
  <2> QED BY <2>1, <2>2
<1>7. Walked'
  BY <1>1, <1>2, <1>3, <1>4, <1>5 DEF Walked
<1>8. Instanced' /\ Initialised' /\ Hooked(hook', stack') /\ Fated'
  BY <1>1 DEF ScriptsInv, Instanced, Initialised, Fated
<1> QED BY <1>7, <1>8 DEF ScriptsInv

(* One turn passes one place.                                               *)
LEMMA PassedMore ==
  ASSUME NEW L \in Seq(ScriptComponents), NEW w \in 1..Len(L), NEW c
  PROVE  /\ Cardinality(Passed(L, w, c)) \in Nat
         /\ Cardinality(Passed(L, w + 1, c)) =
              Cardinality(Passed(L, w, c)) + (IF L[w] = c THEN 1 ELSE 0)
<1>1. Len(L) \in Nat /\ w \in Nat
  OBVIOUS
<1>2. Passed(L, w, c) \in SUBSET (1..Len(L)) /\ IsFiniteSet(1..Len(L))
  BY <1>1, FS_Interval DEF Passed
<1>3. IsFiniteSet(Passed(L, w, c)) /\ Cardinality(Passed(L, w, c)) \in Nat
  BY <1>2, FS_Subset, FS_CardinalityType
<1>4. w \notin Passed(L, w, c)
  BY <1>1 DEF Passed
<1>5. \A j \in 1..Len(L) : j < w + 1 <=> j < w \/ j = w
  BY <1>1
<1>6. CASE L[w] = c
  <2>1. Passed(L, w + 1, c) = Passed(L, w, c) \cup {w}
    BY <1>5, <1>6 DEF Passed
  <2> QED BY <1>3, <1>4, <1>6, <2>1, FS_AddElement
<1>7. CASE L[w] # c
  <2>1. Passed(L, w + 1, c) = Passed(L, w, c)
    BY <1>5, <1>7 DEF Passed
  <2> QED BY <1>3, <1>7, <2>1
<1> QED BY <1>6, <1>7

LEMMA UpdateKeeps ==
  ASSUME ScriptsInv, Update
  PROVE  ScriptsInv'
<1> DEFINE c == list[walk]
           k == comp[c]
           fr == Waits("update", c, "entity_update")
<1>12. Walked /\ list \in Seq(ScriptComponents)
  BY DEF ScriptsInv, Walked
<1>0. CASE ReadsFreed(c)
  <2>1. walk \in 1..Len(list)
    BY <1>12 DEF Update
  <2>2. c \in ToSet(list)
    BY <1>12, <2>1 DEF ToSet
  <2> QED BY <1>0, <2>2, FreedRead
<1> SUFFICES ASSUME ~ReadsFreed(c) PROVE ScriptsInv'
  BY <1>0
<1>1. /\ stack = <<>> /\ walk \in DOMAIN list
      /\ walk' = walk + 1 /\ seen' = [seen EXCEPT ![c] = @ + 1]
      /\ UNCHANGED <<loaded, list, moved>>
      /\ c \notin gone /\ UNCHANGED <<fateVars, scriptFault>>
      /\ \/ k.script = NoScript /\ UNCHANGED <<comp, made, live, stack, hook, inits>>
         \/ /\ k.inst = NoRef /\ Instantiate(k)
            /\ Enter(c, Filled(Instantiated(k)), "entity_init", <<fr>>)
         \/ Run(c, "entity_update", <<>>)
  BY DEF Update, Keeps
<1>2. Walked /\ list \in Seq(ScriptComponents) /\ Fated
  BY DEF ScriptsInv, Walked
<1>3. walk \in 1..Len(list) /\ c \in ScriptComponents /\ walk \in Nat /\ Len(list) \in Nat
  BY <1>1, <1>2
<1> HIDE DEF c
<1>11. ASSUME Called(stack') \subseteq {c}
       PROVE  Fated'
  BY <1>1, <1>2, <1>11, FateRests
<1>4. ASSUME ~moved
      PROVE  /\ walk' <= Len(list) + 1
             /\ \A d \in ScriptComponents : seen'[d] = Cardinality(Passed(list, walk', d))
  <2>1. seen \in [ScriptComponents -> Nat]
    BY <1>2 DEF Walked
  <2>2. ASSUME NEW d \in ScriptComponents
        PROVE  seen'[d] = Cardinality(Passed(list, walk', d))
    <3>1. seen[d] = Cardinality(Passed(list, walk, d))
      BY <1>2, <1>4 DEF Walked
    <3>2. seen'[d] = seen[d] + (IF c = d THEN 1 ELSE 0)
      BY <1>1, <1>3, <2>1
    <3>3. Cardinality(Passed(list, walk + 1, d)) =
            Cardinality(Passed(list, walk, d)) + (IF c = d THEN 1 ELSE 0)
      BY <1>2, <1>3, PassedMore DEF c
    <3> QED BY <1>1, <3>1, <3>2, <3>3
  <2>3. walk' <= Len(list) + 1
    BY <1>1, <1>3
  <2> QED BY <2>2, <2>3
<1>5. Walked'
  <2>1. walk' \in Nat /\ walk' # 0
    BY <1>1, <1>3
  <2>2. seen' \in [ScriptComponents -> Nat]
    BY <1>1, <1>2, <1>3 DEF Walked
  <2> QED BY <1>1, <1>2, <1>4, <2>1, <2>2 DEF Walked, fateVars
<1>6. /\ <<>> \in Seq(Frame) /\ FramesOK(<<>>, Len(made)) /\ Hooked(hook, <<>>)
      /\ Len(made) \in Nat /\ hook \in Nat /\ made \in Seq(ScriptNames)
      /\ loaded \subseteq ScriptNames /\ Fits(comp[c], made)
  BY <1>1, <1>3 DEF ScriptsInv, Instanced, Initialised
<1>7. "entity_update" \in Funs /\ "entity_update" # "entity_init"
  BY DEF Funs, Standard
<1>8. CASE k.script = NoScript /\ UNCHANGED <<comp, made, live, stack, hook, inits>>
  <2>1. Instanced' /\ Initialised' /\ Hooked(hook', stack')
    BY <1>1, <1>8 DEF ScriptsInv, Instanced, Initialised
  <2>2. Fated'
    BY <1>1, <1>2, <1>8 DEF Fated, fateVars
  <2> QED BY <1>5, <2>1, <2>2 DEF ScriptsInv
<1>9. CASE /\ k.inst = NoRef /\ Instantiate(k)
           /\ Enter(c, Filled(Instantiated(k)), "entity_init", <<fr>>)
  <2>1. made' \in Seq(ScriptNames) /\ Fits(Instantiated(k), made')
    BY <1>6, <1>9, InstantiatedFits
  <2>2. Fits(Filled(Instantiated(k)), made')
        /\ Filled(Instantiated(k)).inst = Instantiated(k).inst
    BY <2>1, FilledFits
  <2>3. /\ fr \in Frame /\ fr.at # "lua" /\ fr.fun # "entity_init" /\ fr.inst \in 0..Len(made)
    BY <1>3, <1>6, <1>7 DEF Frame, Waits, NoRef
  <2>7. fr.of = c
    BY DEF Waits
  <2> HIDE DEF fr
  <2>4. <<fr>> = Append(<<>>, fr)
    OBVIOUS
  <2>5. <<fr>> \in Seq(Frame) /\ Hooked(hook, <<fr>>) /\ FramesOK(<<fr>>, Len(made))
    <3>1. Append(<<>>, fr) \in Seq(Frame)
      BY <1>6, <2>3, StackPushed
    <3>2. Hooked(hook, Append(<<>>, fr))
      BY <1>6, <2>3, HookBelow
    <3>3. FramesOK(Append(<<>>, fr), Len(made))
      BY <1>6, <2>3, FramesPushed
    <3> QED BY <2>4, <3>1, <3>2, <3>3
  <2>6. Instanced' /\ Initialised' /\ Hooked(hook', stack')
    BY <1>1, <1>3, <1>9, <2>2, <2>5, Making
  <2>8. Called(<<fr>>) \subseteq {c}
    BY <1>6, <2>3, <2>4, <2>7, CalledMore DEF Called
  <2>9. "entity_init" \in Funs
    BY DEF Funs, Standard
  <2>10. Called(stack') \subseteq {c}
    BY <1>3, <1>9, <2>1, <2>2, <2>5, <2>8, <2>9, EnterCalls
  <2> QED BY <1>5, <1>11, <2>6, <2>10 DEF ScriptsInv
<1>10. CASE Run(c, "entity_update", <<>>)
  <2>1. Instanced' /\ Initialised' /\ Hooked(hook', stack')
    BY <1>1, <1>3, <1>6, <1>7, <1>10, Running
  <2>2. Called(stack') \subseteq Called(<<>>) \cup {c}
    BY <1>3, <1>6, <1>7, <1>10, RunCalls
  <2>3. Called(<<>>) = {}
    BY DEF Called
  <2> QED BY <1>5, <1>11, <2>1, <2>2, <2>3 DEF ScriptsInv
<1> QED BY <1>1, <1>8, <1>9, <1>10

------------------------------------------------------------------------------
(* The theorems.                                                            *)

LEMMA ScriptsStart == ScriptsInit => ScriptsInv
<1> SUFFICES ASSUME ScriptsInit PROVE ScriptsInv
  OBVIOUS
<1> DEFINE k == [script |-> NoScript, inst |-> NoRef, cache |-> Empty]
<1>1. /\ comp = [c \in ScriptComponents |-> k]
      /\ loaded = {} /\ made = <<>> /\ live = {} /\ list = <<>> /\ walk = 0
      /\ stack = <<>> /\ hook = 0 /\ inits = [i \in Instances |-> 0]
      /\ seen = [c \in ScriptComponents |-> 0] /\ moved = FALSE
      /\ strays = {} /\ gone = {} /\ scriptFault = {}
  BY DEF ScriptsInit
<1>2. k \in Script /\ k.inst = 0 /\ k.cache = Empty
  BY EmptyCache DEF Script, NoRef
<1> HIDE DEF k
<1>3. Fits(k, made)
  BY <1>2, EmptyCache DEF Fits, NoRef
<1>4. Instanced
  <2>1. made \in Seq(ScriptNames) /\ Len(made) <= MaxInstances
    BY <1>1, ScriptsAssumption
  <2>2. \A c \in ScriptComponents : comp[c] = k
    BY <1>1
  <2>3. live = {comp[c].inst : c \in ScriptComponents} \cap Instances
    BY <1>1, <1>2, <2>2, ScriptsAssumption DEF Instances
  <2> QED BY <1>1, <1>2, <1>3, <2>1, <2>2, <2>3 DEF Instanced
<1>5. Initialised
  <2>1. Len(made) = 0 /\ Len(stack) = 0 /\ stack \in Seq(Frame)
    BY <1>1
  <2>2. \A i \in Instances : ~(i <= 0)
    BY ScriptsAssumption DEF Instances
  <2> QED BY <1>1, <2>1, <2>2 DEF Initialised, FramesOK
<1>6. Walked
  <2>1. list \in Seq(ScriptComponents) /\ Len(list) = 0
    BY <1>1
  <2>2. seen \in [ScriptComponents -> Nat] /\ \A c \in ScriptComponents : seen[c] = 0
    BY <1>1
  <2>3. walk \in Nat /\ moved \in BOOLEAN /\ walk <= Len(list) + 1 /\ ~moved
    <3>1. moved \in BOOLEAN /\ ~moved
      BY <1>1
    <3>2. walk \in Nat /\ walk <= Len(list) + 1
      BY <1>1, <2>1
    <3> QED BY <3>1, <3>2
  <2>4. \A j \in 1..Len(list) : FALSE
    BY <2>1
  <2>5. \A c \in ScriptComponents : Cardinality(Passed(list, walk, c)) = 0
    BY <2>4, FS_EmptySet DEF Passed
  <2> QED BY <2>1, <2>2, <2>3, <2>4, <2>5 DEF Walked
<1>7. Fated
  BY <1>1 DEF Fated
<1> QED BY <1>1, <1>4, <1>5, <1>6, <1>7, NothingHooked DEF ScriptsInv

LEMMA ScriptsKeep == ScriptsInv /\ [ScriptsNext]_scriptsVars => ScriptsInv'
<1> SUFFICES ASSUME ScriptsInv, [ScriptsNext]_scriptsVars PROVE ScriptsInv'
  OBVIOUS
<1>1. CASE UNCHANGED scriptsVars
  BY <1>1 DEF scriptsVars, callVars, walkVars, fateVars, ScriptsInv, Instanced, Initialised,
     Walked, Fated
<1>2. CASE ScriptsNext
  <2>1. \A c \in ScriptComponents : MayName(c) \cup {NoScript} \subseteq ScriptNames \cup {NoScript}
    BY ScriptsAssumption
  <2>2. ASSUME NEW c \in ScriptComponents, NEW s \in MayName(c) \cup {NoScript}, SetScript(c, s)
        PROVE  ScriptsInv'
    <3>1. s \in ScriptNames \cup {NoScript}
      BY <2>1
    <3> QED BY <2>2, <3>1, SetScriptKeeps
  <2> QED
    BY <1>2, <2>2, ReturnsKeeps, ResumeCallKeeps, ResumeUpdateKeeps, CallKeeps, AddScriptKeeps,
       RemoveScriptKeeps, TakeScriptKeeps, FreeScriptKeeps, LoadKeeps, WalkBeginsKeeps, UpdateKeeps,
       WalkEndsKeeps
       DEF ScriptsNext
<1> QED BY <1>1, <1>2

(* Components, their instances, the caches and the stack of calls stay      *)
(* consistent, however often the array lists a component (lua_sys_on_add)   *)
(* and whatever scripts take from an entity behind the system's back.       *)
THEOREM ScriptsInvariance == ScriptsSpec => []ScriptsInv
<1> QED BY ScriptsStart, ScriptsKeep, PTL DEF ScriptsSpec

(* Nothing that outlives a replaced script or a returned function points to *)
(* it: not the registry, not the cache of a component (SetScript,           *)
(* _entity_component_lua_cache_functions), not the hook of the Lua state;   *)
(* and only a component that went astray is read after it was freed.        *)
THEOREM NothingStale == ScriptsSpec => []NoStaleScript
<1>1. ScriptsInv => RegistryExact
  <2> SUFFICES ASSUME ScriptsInv PROVE RegistryExact
    OBVIOUS
  <2>1. Instanced /\ Len(made) \in Nat /\ MaxInstances \in Nat
    BY ScriptsAssumption DEF ScriptsInv, Instanced
  <2>2. ASSUME NEW c \in ScriptComponents, NEW f \in Funs, comp[c].cache[f] # Unknown
        PROVE  /\ comp[c].inst \in live
               /\ comp[c].cache[f] = <<comp[c].inst, f \in Has(made[comp[c].inst])>>
               /\ made[comp[c].inst] = comp[c].script
    <3>1. Fits(comp[c], made)
      BY <2>1 DEF Instanced
    <3>2. /\ comp[c].inst > 0 /\ comp[c].inst \in 1..Len(made)
          /\ comp[c].cache[f] = <<comp[c].inst, f \in Has(made[comp[c].inst])>>
          /\ made[comp[c].inst] = comp[c].script
      BY <2>2, <3>1 DEF Fits, Missing, NoRef
    <3>3. comp[c].inst \in Instances
      BY <2>1, <3>2 DEF Instanced, Instances
    <3> QED BY <2>1, <3>2, <3>3 DEF Instanced
  <2> QED BY <2>1, <2>2 DEF Instanced, RegistryExact
<1>2. ScriptsInv => HookLive
  BY DEF ScriptsInv, Hooked, HookLive
<1>3. ScriptsInv => OnlyStraysRead
  BY DEF ScriptsInv, Fated, OnlyStraysRead
<1> QED BY <1>1, <1>2, <1>3, ScriptsInvariance, PTL DEF NoStaleScript

(* entity_init of an instance runs before its other functions and once, and *)
(* the system updates a component once a frame for each entry it has, which *)
(* is one unless it went astray (lua_sys_update, entity_component_lua_run). *)
THEOREM InTurn == ScriptsSpec => []EachInItsTurn
<1>1. ScriptsInv => InitOnceFirst
  <2> SUFFICES ASSUME ScriptsInv PROVE InitOnceFirst
    OBVIOUS
  <2>1. /\ Initialised /\ stack \in Seq(Frame) /\ Len(made) \in Nat /\ Len(made) <= MaxInstances
        /\ MaxInstances \in Nat
    BY ScriptsAssumption DEF ScriptsInv, Initialised, Instanced
  <2>2. ASSUME NEW n \in DOMAIN stack, stack[n].inst > 0,
               "entity_init" \in Has(made[stack[n].inst])
        PROVE  inits[stack[n].inst] = 1
    <3>1. n \in 1..Len(stack)
      BY <2>1
    <3>2. stack[n].inst \in 0..Len(made)
      BY <2>1, <3>1 DEF Initialised, FramesOK
    <3>3. stack[n].inst \in Instances /\ stack[n].inst <= Len(made)
      BY <2>1, <2>2, <3>2 DEF Instances
    <3> QED BY <2>1, <2>2, <3>3 DEF Initialised
  <2>3. \A i \in Instances : inits[i] <= 1
    BY <2>1 DEF Initialised
  <2> QED BY <2>2, <2>3 DEF InitOnceFirst
<1>2. ScriptsInv => UpdatedOnce
  <2> SUFFICES ASSUME ScriptsInv, NEW c \in ScriptComponents
               PROVE  /\ c \notin strays => Cardinality(PlacesOf(list, c)) <= 1
                      /\ ~moved => /\ seen[c] <= Cardinality(PlacesOf(list, c))
                                   /\ walk > Len(list) =>
                                        seen[c] = Cardinality(PlacesOf(list, c))
    BY DEF UpdatedOnce
  <2>1. Walked /\ list \in Seq(ScriptComponents) /\ Len(list) \in Nat /\ walk \in Nat
    BY DEF ScriptsInv, Walked
  <2> DEFINE places == PlacesOf(list, c)
  <2>2. places \in SUBSET (1..Len(list)) /\ IsFiniteSet(1..Len(list))
    <3>1. DOMAIN list = 1..Len(list)
      BY <2>1
    <3> QED BY <2>1, <3>1, FS_Interval DEF PlacesOf
  <2>3. IsFiniteSet(places)
    BY <2>2, FS_Subset
  <2>4. ASSUME c \notin strays
        PROVE  Cardinality(places) <= 1
    <3>1. CASE places = {}
      BY <3>1, FS_EmptySet
    <3>2. CASE places # {}
      <4>1. PICK i \in places : TRUE
        BY <3>2
      <4>2. \A j \in places : j = i
        BY <2>1, <2>2, <2>4, <4>1 DEF Walked, PlacesOf
      <4>3. places = {i}
        BY <4>1, <4>2
      <4>4. Cardinality({i}) = 1
        BY FS_Singleton
      <4> QED BY <4>3, <4>4
    <3> QED BY <3>1, <3>2
  <2>5. ASSUME ~moved
        PROVE  seen[c] = Cardinality(Passed(list, walk, c)) /\ Passed(list, walk, c) \in SUBSET places
    BY <2>1, <2>5 DEF Walked, Passed, PlacesOf
  <2>6. ASSUME ~moved
        PROVE  seen[c] <= Cardinality(places)
    BY <2>3, <2>5, <2>6, FS_Subset
  <2>7. ASSUME ~moved, walk > Len(list)
        PROVE  seen[c] = Cardinality(places)
    <3>1. Passed(list, walk, c) = places
      BY <2>1, <2>7 DEF Passed, PlacesOf
    <3> QED BY <2>5, <2>7, <3>1
  <2> QED BY <2>4, <2>6, <2>7
<1> QED BY <1>1, <1>2, ScriptsInvariance, PTL DEF EachInItsTurn

(* C calls what a script has, in its turn, and nothing that was replaced.   *)
THEOREM ScriptsAreCalled == ScriptsSpec => []ScriptsCalled
<1>1. NoStaleScript /\ EachInItsTurn => ScriptsCalled
  BY DEF ScriptsCalled
<1> QED BY <1>1, NothingStale, InTurn, PTL

(* Script components have instances that were made, and the registry keeps  *)
(* no other.                                                                *)
THEOREM ScriptsTypes == ScriptsSpec => []ScriptsTypeOK
<1>1. ScriptsInv => ScriptsTypeOK
  <2> SUFFICES ASSUME ScriptsInv PROVE ScriptsTypeOK
    OBVIOUS
  <2>1. Instanced /\ walk \in Nat /\ hook \in Nat /\ Fated
    BY DEF ScriptsInv, Initialised, Walked
  <2>2. DOMAIN made = 1..Len(made)
    BY <2>1 DEF Instanced
  <2>3. \A c \in ScriptComponents : /\ comp[c].script \in ScriptNames \cup {NoScript}
                                    /\ comp[c].inst \in {Missing, NoRef} \cup 1..Len(made)
    BY <2>1, FitsFields DEF Instanced, Fits
  <2>4. live \subseteq 1..Len(made)
    <3> SUFFICES ASSUME NEW c \in ScriptComponents, comp[c].inst \in Instances
                 PROVE  comp[c].inst \in 1..Len(made)
      BY <2>1 DEF Instanced
    <3> QED BY <2>3, ScriptsAssumption DEF Instances, Missing, NoRef
  <2> QED BY <2>1, <2>2, <2>3, <2>4 DEF ScriptsTypeOK, Instanced, Fated
<1> QED BY <1>1, ScriptsInvariance, PTL
------------------------------------------------------------------------------
(* Objects that C and Lua share.                                            *)

(* References that C has counted on.                                        *)
Refs(w) == IF holder[w] = Nobody THEN 0 ELSE holder[w]
Owed    == Refs(1) + Refs(2)

Harms == {"twin", "borrowed", "forced", "overdrawn"}
Clean == slips \cap Harms = {}

Follows(k) ==
  /\ k \in KindRecords
  /\ \A protocol \in k.protocols :
       /\ protocol \notin {<<0, "unref">>, <<0, "return">>, <<0, "both">>, <<2, "destroy">>}
       /\ k.clears => protocol = <<1, "both">>
  /\ k.clears => ~k.counts /\ k.keepers <= 1

Linked(o) ==
  /\ \A p \in o.points : o.proxy[p] \in {"held", "dropped"}
  /\ Anchored(o) => o.anchor \in o.points /\ o.count >= 1

Counted ==
  /\ Anchored(shared) /\ "left over" \notin slips => shared.count <= Owed
  /\ Clean => IF Anchored(shared) THEN Owed <= shared.count ELSE Owed = 0

OneHolder == holder[1] = Nobody \/ holder[2] = Nobody

Lonely ==
  /\ sharedKind.clears => OneHolder
  /\ Clean /\ ~Anchored(shared) => OneHolder

Reached ==
  "left over" \notin slips /\ ~Anchored(shared) /\ shared.points = {} => \E w \in Holders : holder[w] = 0

SharedInv ==
  /\ SharedTypeOK
  /\ ~shared.freed => /\ Linked(shared) /\ Counted /\ Lonely /\ Reached
                      /\ Slips(shared, holder) \subseteq slips
  /\ SharedSafe

------------------------------------------------------------------------------
(* The kinds.                                                               *)

(* What a kind's record has.                                                *)
KindIs(k, P, n, cl, co) ==
  k \in KindRecords /\ k.protocols = P /\ k.keepers = n /\ k.clears = cl /\ k.counts = co

LEMMA KindsFollow == \A k \in AllKinds : Follows(k)
<1>1. KindIs(Vector, {}, 0, FALSE, FALSE)
  <2>1. {} \in SUBSET ((0..2) \X Endings)
    BY DEF Endings
  <2> QED BY <2>1 DEF KindIs, Vector, KindRecords
<1>2. KindIs(Camera, {<<1, "destroy">>}, 1, FALSE, FALSE)
  <2>1. {<<1, "destroy">>} \in SUBSET ((0..2) \X Endings)
    BY DEF Endings
  <2> QED BY <2>1, <1>1 DEF KindIs, Camera, KindRecords
<1>3. KindIs(Point, {<<1, "both">>}, 1, FALSE, FALSE)
  <2>1. {<<1, "both">>} \in SUBSET ((0..2) \X Endings)
    BY DEF Endings
  <2> QED BY <2>1, <1>2 DEF KindIs, Point, KindRecords
<1>4. KindIs(Uuid, {<<1, "both">>, <<0, "destroy">>}, 1, FALSE, FALSE)
  <2>1. {<<1, "both">>, <<0, "destroy">>} \in SUBSET ((0..2) \X Endings)
    BY DEF Endings
  <2> QED BY <2>1, <1>3 DEF KindIs, Uuid, KindRecords
<1>5. KindIs(Rect, {<<1, "destroy">>, <<1, "both">>, <<1, "unref">>, <<1, "return">>}, 2, FALSE, FALSE)
  <2> DEFINE P == {<<1, "destroy">>, <<1, "both">>, <<1, "unref">>, <<1, "return">>}
  <2>1. \A e \in Endings : <<1, e>> \in (0..2) \X Endings
    OBVIOUS
  <2>2. \A protocol \in P : \E e \in Endings : protocol = <<1, e>>
    BY DEF Endings
  <2>3. P \in SUBSET ((0..2) \X Endings)
    BY <2>1, <2>2
  <2>4. Rect = [Point EXCEPT !.protocols = P, !.keepers = 2, !.adopts = TRUE]
    BY DEF Rect
  <2> HIDE DEF P
  <2>5. Point \in KindRecords
    BY <1>3 DEF KindIs
  <2>6. Rect.protocols = P /\ Rect.keepers = 2
        /\ Rect.clears = Point.clears /\ Rect.counts = Point.counts
    BY <2>4, <2>5 DEF KindRecords
  <2>9. Rect \in KindRecords
    <3>1. Rect = [madeBy |-> Point.madeBy, protocols |-> P, keepers |-> 2, adopts |-> TRUE,
                  pushed |-> Point.pushed, clears |-> Point.clears, counts |-> Point.counts]
      BY <2>4, <2>5 DEF KindRecords
    <3>2. Point.madeBy \in SUBSET {"C", "Lua"} /\ {Point.pushed, Point.clears, Point.counts} \subseteq BOOLEAN
      BY <2>5 DEF KindRecords
    <3> QED BY <2>3, <3>1, <3>2 DEF KindRecords
  <2>7. Point.clears = FALSE /\ Point.counts = FALSE
    BY <1>3 DEF KindIs
  <2>8. KindIs(Rect, P, 2, FALSE, FALSE)
    BY <2>6, <2>7, <2>9 DEF KindIs
  <2> QED BY <2>8 DEF P
<1>6. KindIs(Color, {<<1, "both">>, <<1, "unref">>, <<0, "destroy">>}, 2, FALSE, FALSE)
  <2>1. {<<1, "both">>, <<1, "unref">>, <<0, "destroy">>} \in SUBSET ((0..2) \X Endings)
    BY DEF Endings
  <2> QED BY <2>1, <1>5 DEF KindIs, Color, KindRecords
<1>7. KindIs(PolyLine, {<<1, "both">>, <<1, "unref">>, <<1, "return">>}, 2, FALSE, FALSE)
  <2>1. {<<1, "both">>, <<1, "unref">>, <<1, "return">>} \in SUBSET ((0..2) \X Endings)
    BY DEF Endings
  <2> QED BY <2>1, <1>5 DEF KindIs, PolyLine, KindRecords
<1>8. KindIs(TileSet, {<<0, "destroy">>, <<0, "forget">>}, 2, FALSE, FALSE)
  <2>1. {<<0, "destroy">>, <<0, "forget">>} \in SUBSET ((0..2) \X Endings)
    BY DEF Endings
  <2> QED BY <2>1, <1>5 DEF KindIs, TileSet, KindRecords
<1>9. KindIs(Map, {<<0, "destroy">>, <<1, "unref">>}, 2, FALSE, FALSE)
  <2>1. {<<0, "destroy">>, <<1, "unref">>} \in SUBSET ((0..2) \X Endings)
    BY DEF Endings
  <2> QED BY <2>1, <1>5 DEF KindIs, Map, KindRecords
<1>10. KindIs(MapCell, {<<0, "destroy">>}, 1, FALSE, FALSE)
  <2>1. {<<0, "destroy">>} \in SUBSET ((0..2) \X Endings)
    BY DEF Endings
  <2> QED BY <2>1, <1>2 DEF KindIs, MapCell, KindRecords
<1>11. KindIs(CollisionHit, {<<0, "destroy">>}, 1, FALSE, FALSE)
  <2>1. {<<0, "destroy">>} \in SUBSET ((0..2) \X Endings)
    BY DEF Endings
  <2> QED BY <2>1, <1>10 DEF KindIs, CollisionHit, KindRecords
<1>12. KindIs(GuiStyle, {<<1, "both">>}, 1, TRUE, FALSE)
  <2>1. {<<1, "both">>} \in SUBSET ((0..2) \X Endings)
    BY DEF Endings
  <2> QED BY <2>1, <1>3 DEF KindIs, GuiStyle, KindRecords
<1>13. KindIs(EntityKind, {<<1, "destroy">>}, 1, FALSE, TRUE)
  <2>1. {<<1, "destroy">>} \in SUBSET ((0..2) \X Endings)
    BY DEF Endings
  <2> QED BY <2>1, <1>2 DEF KindIs, EntityKind, KindRecords
<1>14. KindIs(Component, (1..2) \X {"both", "unref", "return"}, 2, FALSE, TRUE)
  <2>1. (1..2) \X {"both", "unref", "return"} \in SUBSET ((0..2) \X Endings)
    BY DEF Endings
  <2> QED BY <2>1, <1>5 DEF KindIs, Component, KindRecords
<1>15. Follows(Vector)
  BY <1>1 DEF KindIs, Follows
<1>16. Follows(Camera)
  BY <1>2 DEF KindIs, Follows
<1>17. Follows(Point)
  BY <1>3 DEF KindIs, Follows
<1>18. Follows(Uuid)
  BY <1>4 DEF KindIs, Follows
<1>19. Follows(Rect)
  BY <1>5 DEF KindIs, Follows
<1>20. Follows(Color)
  BY <1>6 DEF KindIs, Follows
<1>21. Follows(PolyLine)
  BY <1>7 DEF KindIs, Follows
<1>22. Follows(TileSet)
  BY <1>8 DEF KindIs, Follows
<1>23. Follows(Map)
  BY <1>9 DEF KindIs, Follows
<1>24. Follows(MapCell)
  BY <1>10 DEF KindIs, Follows
<1>25. Follows(CollisionHit)
  BY <1>11 DEF KindIs, Follows
<1>26. Follows(GuiStyle)
  BY <1>12 DEF KindIs, Follows
<1>27. Follows(EntityKind)
  BY <1>13 DEF KindIs, Follows
<1>28. Follows(Component)
  BY <1>14 DEF KindIs, Follows
<1> QED
  BY <1>15, <1>16, <1>17, <1>18, <1>19, <1>20, <1>21, <1>22, <1>23, <1>24, <1>25, <1>26, <1>27, <1>28
  DEF AllKinds, Ray, Arc, Display, InputState
------------------------------------------------------------------------------
(* The five functions.                                                      *)

LEMMA ObjectFields ==
  ASSUME NEW o \in Objects
  PROVE  /\ o.freed \in BOOLEAN /\ o.count \in Nat /\ o.anchor \in {Nowhere} \cup Proxies
         /\ o.proxy \in [Proxies -> {"none", "held", "dropped", "collected"}]
         /\ o.points \subseteq Proxies
BY DEF Objects

LEMMA NewProxyIs ==
  ASSUME NEW o \in Objects, Linked(o), Unused(o) # {}, NEW state \in {"held", "dropped"}
  PROVE  LET n == NewProxy(o, state) p == Min(Unused(o)) IN
           /\ n \in Objects /\ Linked(n) /\ p \in Proxies
           /\ n.freed = o.freed /\ n.count = o.count /\ n.anchor = o.anchor
           /\ n.points = o.points \cup {p}
           /\ \A q \in n.points : n.proxy[q] \in {"held", "dropped"}
<1> DEFINE p == Min(Unused(o))
           n == NewProxy(o, state)
<1>1. p \in Unused(o)
  <2>1. Unused(o) \subseteq Nat
    BY SharedAssumption DEF Unused, Proxies
  <2> QED BY <2>1, MinIs
<1>2. p \in Proxies
  BY <1>1 DEF Unused
<1>3. n = [o EXCEPT !.proxy[p] = state, !.points = o.points \cup {p}]
  BY DEF NewProxy
<1>4. /\ n.freed = o.freed /\ n.count = o.count /\ n.anchor = o.anchor
      /\ n.points = o.points \cup {p} /\ n.proxy = [o.proxy EXCEPT ![p] = state]
  BY <1>3, ObjectFields DEF Objects
<1>5. n \in Objects
  <2>1. n = [freed |-> o.freed, count |-> o.count, anchor |-> o.anchor,
             proxy |-> [o.proxy EXCEPT ![p] = state], points |-> o.points \cup {p}]
    BY <1>3 DEF Objects
  <2>2. [o.proxy EXCEPT ![p] = state] \in [Proxies -> {"none", "held", "dropped", "collected"}]
    BY <1>2, ObjectFields
  <2>3. o.points \cup {p} \in SUBSET Proxies
    BY <1>2, ObjectFields
  <2> HIDE DEF n, p
  <2> QED BY <2>1, <2>2, <2>3, ObjectFields DEF Objects
<1>6. \A q \in n.points : n.proxy[q] \in {"held", "dropped"}
  BY <1>2, <1>4, ObjectFields DEF Linked
<1>7. Linked(n)
  BY <1>4, <1>6 DEF Linked, Anchored
<1> QED BY <1>2, <1>4, <1>5, <1>6, <1>7

LEMMA RefIs ==
  ASSUME NEW o \in Objects, Linked(o), Anchored(o) \/ Unused(o) # {}
  PROVE  /\ Ref(o) \in Objects /\ Linked(Ref(o)) /\ Anchored(Ref(o))
         /\ Ref(o).freed = o.freed
         /\ Ref(o).count = IF Anchored(o) THEN o.count + 1 ELSE 1
         /\ Ref(o).points = IF Anchored(o) THEN o.points ELSE o.points \cup {Min(Unused(o))}
<1>1. CASE Anchored(o)
  <2>1. Ref(o) = [o EXCEPT !.count = o.count + 1]
    BY <1>1 DEF Ref
  <2>2. /\ Ref(o).freed = o.freed /\ Ref(o).count = o.count + 1 /\ Ref(o).anchor = o.anchor
        /\ Ref(o).points = o.points /\ Ref(o).proxy = o.proxy
    BY <2>1, ObjectFields DEF Objects
  <2>3. Ref(o) \in Objects
    BY <2>1, <2>2, ObjectFields DEF Objects
  <2> QED BY <1>1, <2>2, <2>3, ObjectFields DEF Linked, Anchored
<1>2. CASE ~Anchored(o)
  <2> DEFINE n == NewProxy(o, "dropped")
             p == Min(Unused(o))
  <2>1. /\ n \in Objects /\ p \in Proxies /\ n.freed = o.freed /\ n.points = o.points \cup {p}
        /\ \A q \in n.points : n.proxy[q] \in {"held", "dropped"}
    BY <1>2, NewProxyIs
  <2>2. Ref(o) = [n EXCEPT !.anchor = p, !.count = 1]
    BY <1>2 DEF Ref
  <2> HIDE DEF n, p
  <2>3. /\ Ref(o).freed = o.freed /\ Ref(o).count = 1 /\ Ref(o).anchor = p
        /\ Ref(o).points = n.points /\ Ref(o).proxy = n.proxy
    BY <2>1, <2>2, ObjectFields DEF Objects
  <2>4. Ref(o) \in Objects
    <3>1. Ref(o) = [freed |-> n.freed, count |-> 1, anchor |-> p, proxy |-> n.proxy, points |-> n.points]
      BY <2>1, <2>2 DEF Objects
    <3> QED BY <2>1, <3>1, ObjectFields DEF Objects
  <2>5. p # Nowhere
    BY <2>1, SharedAssumption DEF Proxies, Nowhere
  <2> QED BY <1>2, <2>1, <2>3, <2>4, <2>5 DEF Linked, Anchored, p
<1> QED BY <1>1, <1>2

LEMMA TakeIs ==
  ASSUME NEW o \in Objects, Linked(o), NEW refs \in 1..2, Anchored(o) \/ Unused(o) # {}
  PROVE  /\ Take(o, refs) \in Objects /\ Linked(Take(o, refs)) /\ Anchored(Take(o, refs))
         /\ Take(o, refs).freed = o.freed
         /\ Take(o, refs).count = IF Anchored(o) THEN o.count + refs ELSE refs
         /\ Take(o, refs).points = IF Anchored(o) THEN o.points ELSE o.points \cup {Min(Unused(o))}
<1>1. CASE refs = 1
  BY <1>1, RefIs DEF Take
<1>2. CASE refs = 2
  <2> DEFINE one == Ref(o)
  <2>1. /\ one \in Objects /\ Linked(one) /\ Anchored(one) /\ one.freed = o.freed
        /\ one.count = IF Anchored(o) THEN o.count + 1 ELSE 1
        /\ one.points = IF Anchored(o) THEN o.points ELSE o.points \cup {Min(Unused(o))}
    BY RefIs
  <2>2. Take(o, refs) = Ref(one)
    BY <1>2 DEF Take
  <2> HIDE DEF one
  <2>3. /\ Ref(one) \in Objects /\ Linked(Ref(one)) /\ Anchored(Ref(one))
        /\ Ref(one).freed = o.freed /\ Ref(one).count = one.count + 1
        /\ Ref(one).points = one.points
    BY <2>1, RefIs
  <2> QED BY <1>2, <2>1, <2>2, <2>3, ObjectFields
<1> QED BY <1>1, <1>2

LEMMA UnrefIs ==
  ASSUME NEW o \in Objects, Linked(o), Follows(sharedKind)
  PROVE  /\ Unref(o) \in Objects /\ Linked(Unref(o)) /\ Unref(o).freed = o.freed
         /\ Unref(o).count = IF Anchored(o) THEN o.count - 1 ELSE o.count
         /\ Anchored(Unref(o)) <=> Anchored(o) /\ o.count # 1 /\ ~sharedKind.clears
         /\ Unref(o).proxy = o.proxy
         /\ Unref(o).points = IF Anchored(o) /\ sharedKind.clears THEN o.points \ {o.anchor} ELSE o.points
<1>1. CASE ~Anchored(o)
  BY <1>1 DEF Unref
<1>2. CASE Anchored(o)
  <2> DEFINE u == Unref(o)
             a == IF o.count = 1 \/ sharedKind.clears THEN Nowhere ELSE o.anchor
             s == IF sharedKind.clears THEN o.points \ {o.anchor} ELSE o.points
  <2>1. u = [o EXCEPT !.count = o.count - 1, !.anchor = a, !.points = s]
    BY <1>2 DEF Unref
  <2>2. a \in {Nowhere} \cup Proxies /\ s \subseteq Proxies /\ o.count - 1 \in Nat
    BY <1>2, ObjectFields DEF Linked
  <2> HIDE DEF a, s, u
  <2>3. /\ u.freed = o.freed /\ u.count = o.count - 1 /\ u.anchor = a
        /\ u.points = s /\ u.proxy = o.proxy
    BY <2>1, ObjectFields DEF Objects
  <2>4. u \in Objects
    BY <2>1, <2>2, <2>3, ObjectFields DEF Objects
  <2>5. Linked(u)
    BY <1>2, <2>2, <2>3, ObjectFields DEF Linked, Anchored, a, s
  <2> QED BY <1>2, <2>3, <2>4, <2>5 DEF u, a, s, Anchored
<1> QED BY <1>1, <1>2

LEMMA DestroyedIs ==
  ASSUME NEW o \in Objects, Linked(o), Follows(sharedKind)
  PROVE  LET u == Unref(o) IN
         /\ Destroyed(o) \in Objects /\ Linked(Destroyed(o))
         /\ Destroyed(o).freed <=> ~Anchored(o) \/ (sharedKind.counts /\ ~Anchored(u))
         /\ Destroyed(o).count = u.count /\ Destroyed(o).anchor = u.anchor
         /\ Destroyed(o).proxy = u.proxy /\ Destroyed(o).points = u.points
<1> DEFINE u == Unref(o)
           f == ~Anchored(o) \/ (sharedKind.counts /\ ~Anchored(u))
<1>1. u \in Objects /\ Linked(u)
  BY UnrefIs
<1>2. Destroyed(o) = [u EXCEPT !.freed = f]
  BY DEF Destroyed
<1>3. f \in BOOLEAN
  BY DEF Follows, KindRecords, Anchored
<1> HIDE DEF u, f
<1>4. /\ Destroyed(o).freed = f /\ Destroyed(o).count = u.count /\ Destroyed(o).anchor = u.anchor
      /\ Destroyed(o).proxy = u.proxy /\ Destroyed(o).points = u.points
  BY <1>1, <1>2, ObjectFields DEF Objects
<1>5. Destroyed(o) \in Objects
  BY <1>1, <1>2, <1>3, <1>4, ObjectFields DEF Objects
<1>6. Linked(Destroyed(o))
  BY <1>1, <1>4 DEF Linked, Anchored
<1> QED BY <1>4, <1>5, <1>6 DEF u, f

LEMMA PushedIs ==
  ASSUME NEW o \in Objects, Linked(o), Follows(sharedKind), Anchored(o) \/ Unused(o) # {}
  PROVE  /\ Pushed(o) \in Objects /\ Linked(Pushed(o)) /\ Pushed(o).freed = o.freed
         /\ Pushed(o).anchor = o.anchor /\ Pushed(o).count = o.count
         /\ o.points \subseteq Pushed(o).points
         /\ ~Anchored(o) /\ ~sharedKind.counts => Pushed(o).points # {}
<1> DEFINE n == Pushed(o)
<1>1. CASE Anchored(o)
  <2>1. n = [o EXCEPT !.proxy[o.anchor] = "held"] /\ o.anchor \in Proxies
    BY <1>1, ObjectFields DEF Pushed, Anchored
  <2>2. n = [freed |-> o.freed, count |-> o.count, anchor |-> o.anchor,
             proxy |-> [o.proxy EXCEPT ![o.anchor] = "held"], points |-> o.points]
    BY <2>1 DEF Objects
  <2>3. [o.proxy EXCEPT ![o.anchor] = "held"] \in [Proxies -> {"none", "held", "dropped", "collected"}]
    BY <2>1, ObjectFields
  <2> HIDE DEF n
  <2>4. n \in Objects
    BY <2>2, <2>3, ObjectFields DEF Objects
  <2>5. Linked(n)
    BY <2>1, <2>2, ObjectFields DEF Linked, Anchored
  <2> QED BY <1>1, <2>2, <2>4, <2>5 DEF n
<1>2. CASE ~Anchored(o) /\ sharedKind.counts
  BY <1>2 DEF Pushed
<1>3. CASE ~Anchored(o) /\ ~sharedKind.counts
  <2>1. n = NewProxy(o, "held") /\ Unused(o) # {}
    BY <1>3 DEF Pushed
  <2> QED BY <2>1, NewProxyIs
<1> QED BY <1>1, <1>2, <1>3
------------------------------------------------------------------------------
(* The steps.                                                               *)

SharedFacts ==
  /\ sharedKind \in KindRecords /\ Follows(sharedKind) /\ shared \in Objects
  /\ holder \in [Holders -> {Nobody, 0, 1, 2}]
  /\ slips \in SUBSET {"twin", "borrowed", "forced", "overdrawn", "left over"}

LEMMA FactsHold ==
  ASSUME SharedKinds \subseteq AllKinds, SharedInv
  PROVE  SharedFacts
BY KindsFollow DEF SharedInv, SharedTypeOK, SharedFacts, Follows

(* Points of which there are no two.                                        *)
LEMMA OnlyPoint ==
  ASSUME NEW o \in Objects, NEW h, "twin" \notin Slips(o, h), NEW p \in o.points
  PROVE  o.points = {p}
<1>1. o.points \subseteq Proxies
  BY ObjectFields
<1>2. IsFiniteSet(Proxies)
  BY SharedAssumption, FS_Interval DEF Proxies
<1>3. IsFiniteSet(o.points) /\ Cardinality(o.points) \in Nat
  BY <1>1, <1>2, FS_Subset, FS_CardinalityType
<1>4. Cardinality(o.points) <= 1
  BY <1>3 DEF Slips
<1>5. ASSUME NEW q \in o.points, q # p
      PROVE  FALSE
  <2> DEFINE one == {p}
  <2>1. IsFiniteSet(one) /\ Cardinality(one) = 1 /\ q \notin one
    BY <1>5, FS_Singleton
  <2>2. one \cup {q} \in SUBSET o.points
    BY <1>5
  <2> HIDE DEF one
  <2>3. Cardinality(one \cup {q}) = Cardinality(one) + 1
    BY <2>1, FS_AddElement, Zenon
  <2>4. Cardinality(one \cup {q}) <= Cardinality(o.points)
    BY <1>3, <2>2, FS_Subset
  <2> QED BY <1>3, <1>4, <2>1, <2>3, <2>4
<1> QED BY <1>5

LEMMA HoldingIs ==
  ASSUME holder \in [Holders -> {Nobody, 0, 1, 2}]
  PROVE  /\ Owed \in Nat
         /\ \A w \in Holders : Refs(w) = IF holder[w] = Nobody THEN 0 ELSE holder[w]
         /\ Owed = 0 <=> \A w \in Holders : holder[w] \in {Nobody, 0}
BY DEF Owed, Refs, Holders, Nobody

SlipKinds == {"twin", "borrowed", "forced", "overdrawn", "left over"}

LEMMA UnmadeIs ==
  /\ Unmade \in Objects /\ Linked(Unmade) /\ ~Anchored(Unmade) /\ Unused(Unmade) = Proxies
  /\ Unmade.points = {} /\ ~Unmade.freed /\ Unmade.count = 0 /\ Proxies # {}
<1>1. Proxies # {}
  BY SharedAssumption DEF Proxies
<1> QED BY <1>1 DEF Unmade, Objects, Linked, Anchored, Unused

LEMMA InitInv ==
  ASSUME SharedKinds \subseteq AllKinds, SharedInit
  PROVE  SharedInv
<1>1. sharedKind \in KindRecords /\ Follows(sharedKind) /\ sharedKind \in SharedKinds /\ slips = {}
  BY KindsFollow DEF SharedInit, Follows
<1>2. SUFFICES ASSUME shared \in Objects, Linked(shared), ~shared.freed,
                      holder \in [Holders -> {Nobody, 0, 1, 2}], holder[2] = Nobody,
                      \A p, q \in shared.points : p = q,
                      IF Anchored(shared) THEN holder[1] # Nobody /\ shared.count = holder[1]
                      ELSE holder[1] = IF shared.points = {} THEN 0 ELSE Nobody
               PROVE  SharedInv
  <2>1. CASE "Lua" \in sharedKind.madeBy /\ shared = NewProxy(Unmade, "held")
             /\ holder = [w \in Holders |-> Nobody]
    <3>1. /\ shared \in Objects /\ Linked(shared) /\ ~shared.freed /\ ~Anchored(shared)
          /\ shared.points = {Min(Unused(Unmade))}
      BY <2>1, UnmadeIs, NewProxyIs DEF Anchored
    <3>2. /\ holder \in [Holders -> {Nobody, 0, 1, 2}] /\ holder[1] = Nobody /\ holder[2] = Nobody
      BY <2>1 DEF Holders
    <3> QED BY <3>1, <3>2, <1>2
  <2>2. ASSUME NEW protocol \in sharedKind.protocols, shared = Take(Unmade, protocol[1]),
               holder = [w \in Holders |-> IF w = 1 THEN protocol[1] ELSE Nobody]
        PROVE  SharedInv
    <3>1. protocol[1] \in 0..2
      <4>1. protocol \in (0..2) \X Endings
        BY <1>1 DEF KindRecords
      <4> QED BY <4>1
    <3>2. /\ holder \in [Holders -> {Nobody, 0, 1, 2}] /\ holder[1] = protocol[1] /\ holder[2] = Nobody
      BY <2>2, <3>1 DEF Holders
    <3>3. CASE protocol[1] = 0
      <4>1. shared = Unmade
        BY <2>2, <3>3 DEF Take
      <4> QED BY <1>2, <3>2, <3>3, <4>1, UnmadeIs
    <3>4. CASE protocol[1] \in 1..2
      <4> DEFINE t == Take(Unmade, protocol[1])
      <4>1. /\ t \in Objects /\ Linked(t) /\ Anchored(t) /\ t.freed = Unmade.freed
            /\ t.count = protocol[1] /\ t.points = Unmade.points \cup {Min(Unused(Unmade))}
        BY <3>4, UnmadeIs, TakeIs
      <4> HIDE DEF t
      <4>2. shared = t /\ protocol[1] # Nobody
        BY <2>2, <3>4 DEF t, Nobody
      <4> QED BY <1>2, <3>2, <4>1, <4>2, UnmadeIs
    <3> QED BY <3>1, <3>3, <3>4
  <2> QED BY <2>1, <2>2 DEF SharedInit
<1>3. Cardinality(shared.points) \in {0, 1}
  <2>1. CASE shared.points = {}
    BY <2>1, FS_EmptySet
  <2>2. ASSUME NEW p \in shared.points
        PROVE  Cardinality(shared.points) = 1
    <3>1. shared.points = {p}
      BY <1>2
    <3> QED BY <3>1, FS_Singleton
  <2> QED BY <2>1, <2>2
<1> Holders = {1, 2} /\ Nobody = 9
  BY DEF Holders, Nobody
<1>4. Slips(shared, holder) = {}
  <2>1. ~(Cardinality(shared.points) > 1)
    BY <1>3
  <2>2. ~(~Anchored(shared) /\ shared.points # {} /\ \E w \in Holders : holder[w] = 0)
    BY <1>2
  <2> QED BY <2>1, <2>2 DEF Slips
<1>5. Owed = IF holder[1] = Nobody THEN 0 ELSE holder[1]
  BY <1>2 DEF Owed, Refs, Holders, Nobody
<1>6. Counted
  <2>1. CASE Anchored(shared)
    <3>1. Owed = shared.count /\ shared.count \in Nat
      BY <1>2, <1>5, <2>1, ObjectFields
    <3>2. shared.count <= Owed /\ Owed <= shared.count
      BY <3>1
    <3> QED BY <2>1, <3>2 DEF Counted
  <2>2. CASE ~Anchored(shared)
    <3>1. Owed = 0
      BY <1>2, <1>5, <2>2
    <3> QED BY <2>2, <3>1 DEF Counted
  <2> QED BY <2>1, <2>2
<1>7. Lonely
  BY <1>2 DEF Lonely, OneHolder
<1>8. Reached
  BY <1>2 DEF Reached, Holders
<1>9. SharedTypeOK /\ SharedSafe
  BY <1>1, <1>2 DEF SharedTypeOK, SharedSafe, Dangling
<1> QED BY <1>2, <1>4, <1>6, <1>7, <1>8, <1>9 DEF SharedInv

(* What all steps but those of the collector do.                            *)
LEMMA Becoming ==
  ASSUME SharedInv, SharedFacts, UNCHANGED sharedKind,
         NEW o \in Objects, NEW h \in [Holders -> {Nobody, 0, 1, 2}], NEW more \in SUBSET SlipKinds,
         Becomes(o, h, more)
  PROVE  /\ SharedTypeOK' /\ shared' = o /\ holder' = h
         /\ slips \subseteq slips' /\ more \subseteq slips' /\ Slips(o, h) \subseteq slips'
BY DEF SharedInv, SharedFacts, Becomes, SharedTypeOK, Slips, SlipKinds

(* An object that is not freed keeps the invariant.                         *)
LEMMA Remains ==
  ASSUME SharedTypeOK', ~shared'.freed, Linked(shared'), Counted', Lonely', Reached',
         Slips(shared', holder') \subseteq slips'
  PROVE  SharedInv'
BY DEF SharedInv, SharedSafe, Dangling, Linked, Anchored, Slips

LEMMA HoldersAre == Holders = {1, 2} /\ Nobody = 9
BY DEF Holders, Nobody

(* Somebody holds it in C.                                                  *)
LEMMA Debts ==
  ASSUME holder \in [Holders -> {Nobody, 0, 1, 2}]
  PROVE  /\ Refs(1) \in 0..2 /\ Refs(2) \in 0..2 /\ Owed \in Nat
         /\ \A w \in Holders : IF holder[w] = Nobody THEN Refs(w) = 0 ELSE Refs(w) = holder[w]
BY HoldersAre DEF Owed, Refs

LEMMA AdoptInv ==
  ASSUME SharedKinds \subseteq AllKinds, SharedInv, ~shared.freed, UNCHANGED sharedKind,
         NEW w \in Holders, NEW refs \in 0..2, Adopt(w, refs)
  PROVE  SharedInv'
<1> DEFINE o == Take(shared, refs)
           h == [holder EXCEPT ![w] = refs]
<1>1. SharedFacts /\ Linked(shared) /\ Counted /\ Lonely /\ Reached
  BY FactsHold DEF SharedInv
<1>2. /\ holder[w] = Nobody /\ Cardinality(Holding) < sharedKind.keepers
      /\ \E p \in shared.points : shared.proxy[p] = "held"
      /\ refs > 0 /\ ~Anchored(shared) => Unused(shared) # {}
      /\ Becomes(o, h, {})
  BY DEF Adopt
<1>3. shared \in Objects /\ h \in [Holders -> {Nobody, 0, 1, 2}] /\ h[w] = refs
  <2>1. refs \in {Nobody, 0, 1, 2}
    OBVIOUS
  <2> QED BY <1>1, <2>1 DEF SharedFacts
<1>4. /\ o \in Objects /\ Linked(o) /\ ~o.freed /\ o.points # {}
      /\ refs = 0 => o = shared
      /\ refs # 0 => Anchored(o) /\ o.count = IF Anchored(shared) THEN shared.count + refs ELSE refs
  <2>1. CASE refs = 0
    BY <1>1, <1>2, <1>3, <2>1 DEF Take
  <2>2. CASE refs \in 1..2
    <3>1. Anchored(shared) \/ Unused(shared) # {}
      BY <1>2, <2>2
    <3>2. /\ o \in Objects /\ Linked(o) /\ Anchored(o) /\ o.freed = shared.freed
          /\ o.count = IF Anchored(shared) THEN shared.count + refs ELSE refs
          /\ o.points = IF Anchored(shared) THEN shared.points ELSE shared.points \cup {Min(Unused(shared))}
      BY <1>1, <1>3, <2>2, <3>1, TakeIs
    <3> HIDE DEF o
    <3>3. o.points # {}
      BY <1>2, <3>2
    <3>4. ~o.freed /\ refs # 0
      BY <2>2, <3>2
    <3> QED BY <3>2, <3>3, <3>4
  <2> QED BY <2>1, <2>2
<1> HIDE DEF o
<1>0. {} \in SUBSET SlipKinds
  OBVIOUS
<1>5. /\ SharedTypeOK' /\ shared' = o /\ holder' = h
      /\ slips \subseteq slips' /\ Slips(o, h) \subseteq slips'
  <2>1. SharedInv /\ SharedFacts /\ Becomes(o, h, {})
    BY <1>1, <1>2
  <2> HIDE DEF h
  <2> QED BY <1>0, <1>3, <1>4, <2>1, Becoming
<1>6. Owed' = Owed + refs /\ Owed \in Nat /\ refs # Nobody
  <2>0. holder \in [Holders -> {Nobody, 0, 1, 2}]
    BY <1>1 DEF SharedFacts
  <2>1. refs # Nobody /\ Refs(w) = 0 /\ Refs(1) \in Nat /\ Refs(2) \in Nat
    <3>1. refs # Nobody
      BY DEF Nobody
    <3>2. Refs(w) = 0
      BY <1>2 DEF Refs
    <3>3. Refs(1) \in Nat /\ Refs(2) \in Nat
      BY <2>0, Debts
    <3> QED BY <3>1, <3>2, <3>3
  <2>2. Refs(w)' = refs
    BY <1>3, <1>5, <2>1 DEF Refs
  <2>3. \A v \in Holders \ {w} : Refs(v)' = Refs(v)
    BY <1>1, <1>5 DEF Refs, SharedFacts
  <2>4. CASE w = 1
    BY <2>1, <2>2, <2>3, <2>4, HoldersAre DEF Owed
  <2>5. CASE w = 2
    BY <2>1, <2>2, <2>3, <2>5, HoldersAre DEF Owed
  <2> QED BY <2>4, <2>5, HoldersAre
<1>7. Counted'
  <2>1. shared.count \in Nat
    BY <1>3, ObjectFields
  <2>2. (Clean' => Clean) /\ ("left over" \notin slips' => "left over" \notin slips)
    BY <1>5 DEF Clean
  <2>3. CASE refs = 0
    <3>1. Owed' = Owed /\ shared' = shared
      BY <1>4, <1>5, <1>6, <2>3
    <3>2. Anchored(shared)' <=> Anchored(shared)
      BY <3>1 DEF Anchored
    <3> QED BY <1>1, <2>2, <3>1, <3>2 DEF Counted
  <2>4. CASE refs # 0 /\ Anchored(shared)
    <3>1. shared'.count = shared.count + refs /\ Anchored(shared)'
      BY <1>4, <1>5, <2>4 DEF Anchored
    <3>2. shared.count <= Owed => shared'.count <= Owed'
      BY <1>6, <2>1, <3>1
    <3>3. Owed <= shared.count => Owed' <= shared'.count
      BY <1>6, <2>1, <3>1
    <3> QED BY <1>1, <2>2, <2>4, <3>1, <3>2, <3>3 DEF Counted
  <2>5. CASE refs # 0 /\ ~Anchored(shared)
    <3>1. shared'.count = refs /\ Anchored(shared)'
      BY <1>4, <1>5, <2>5 DEF Anchored
    <3>2. shared'.count <= Owed'
      BY <1>6, <3>1
    <3>3. Owed = 0 => Owed' <= shared'.count
      BY <1>6, <3>1
    <3> QED BY <1>1, <2>2, <2>5, <3>1, <3>2, <3>3 DEF Counted
  <2> QED BY <2>3, <2>4, <2>5
<1>8. Lonely'
  <2>1. sharedKind.clears => \A v \in Holders : holder[v] = Nobody
    <3>1. IsFiniteSet(Holders) /\ Holding \in SUBSET Holders
      <4>1. IsFiniteSet({1} \cup {2})
        BY FS_Singleton, FS_AddElement, Zenon
      <4>2. Holders = {1} \cup {2}
        BY HoldersAre
      <4> QED BY <4>1, <4>2 DEF Holding
    <3>2. IsFiniteSet(Holding) /\ Cardinality(Holding) \in Nat
      BY <3>1, FS_Subset, FS_CardinalityType
    <3>3. sharedKind.clears => sharedKind.keepers \in 0..2 /\ sharedKind.keepers <= 1
      BY <1>1 DEF SharedFacts, Follows, KindRecords
    <3>4. sharedKind.clears => Cardinality(Holding) = 0
      BY <1>2, <3>2, <3>3
    <3>5. sharedKind.clears => Holding = {}
      BY <3>2, <3>4, FS_EmptySet
    <3> QED BY <3>5 DEF Holding
  <2>2. Clean' => Anchored(shared)'
    <3>1. ~Anchored(o) => "borrowed" \in Slips(o, h)
      <4>1. ~Anchored(o) => h[w] = 0
        BY <1>1, <1>4 DEF SharedFacts
      <4> QED BY <1>4, <4>1 DEF Slips
    <3>2. Clean' => Anchored(o)
      BY <1>5, <3>1 DEF Clean, Harms
    <3> QED BY <1>5, <3>2 DEF Anchored
  <2>3. sharedKind.clears => OneHolder'
    <3>1. \A v \in Holders \ {w} : holder'[v] = holder[v]
      BY <1>1, <1>5 DEF SharedFacts
    <3>2. \E v \in Holders \ {w} : v \in {1, 2}
      BY HoldersAre
    <3> QED BY <2>1, <3>1, <3>2 DEF OneHolder
  <2> QED BY <2>2, <2>3 DEF Lonely
<1>9. Reached'
  BY <1>4, <1>5 DEF Reached
<1> QED BY <1>4, <1>5, <1>7, <1>8, <1>9, Remains

LEMMA PushInv ==
  ASSUME SharedKinds \subseteq AllKinds, SharedInv, ~shared.freed, UNCHANGED sharedKind, Push
  PROVE  SharedInv'
<1> DEFINE o == Pushed(shared)
<1>1. SharedFacts /\ Linked(shared) /\ Counted /\ Lonely /\ Reached
  BY FactsHold DEF SharedInv
<1>2. (Anchored(shared) \/ Unused(shared) # {}) /\ Becomes(o, holder, {})
  BY DEF Push
<1>3. shared \in Objects /\ holder \in [Holders -> {Nobody, 0, 1, 2}]
  BY <1>1 DEF SharedFacts
<1>4. /\ o \in Objects /\ Linked(o) /\ ~o.freed /\ o.anchor = shared.anchor /\ o.count = shared.count
      /\ shared.points \subseteq o.points
  <2>1. Follows(sharedKind)
    BY <1>1 DEF SharedFacts
  <2> QED BY <1>1, <1>2, <1>3, <2>1, PushedIs
<1>5. /\ SharedTypeOK' /\ shared' = o /\ holder' = holder
      /\ slips \subseteq slips' /\ Slips(o, holder) \subseteq slips'
  <2>1. SharedInv /\ SharedFacts /\ Becomes(o, holder, {}) /\ {} \in SUBSET SlipKinds
    BY <1>1, <1>2
  <2> HIDE DEF o
  <2> QED BY <1>3, <1>4, <2>1, Becoming
<1> HIDE DEF o
<1>6. /\ Clean' => Clean
      /\ "left over" \notin slips' => "left over" \notin slips
      /\ Anchored(shared)' <=> Anchored(shared)
      /\ Owed' = Owed /\ shared'.count = shared.count /\ OneHolder' = OneHolder
  BY <1>4, <1>5 DEF Clean, Anchored, Owed, Refs, OneHolder
<1>7. Counted' /\ Lonely'
  BY <1>1, <1>6 DEF Counted, Lonely
<1>8. Reached'
  BY <1>1, <1>4, <1>5, <1>6 DEF Reached
<1> QED BY <1>4, <1>5, <1>7, <1>8, Remains

(* One proxy goes: those that the object's anchor or a script hold, stay.   *)
LEMMA DropProxyInv ==
  ASSUME SharedKinds \subseteq AllKinds, SharedInv, ~shared.freed, UNCHANGED sharedKind,
         NEW p \in Proxies, DropProxy(p)
  PROVE  SharedInv'
<1> DEFINE o == [shared EXCEPT !.proxy[p] = "dropped"]
<1>1. SharedFacts /\ Linked(shared) /\ Counted /\ Lonely /\ Reached /\ Slips(shared, holder) \subseteq slips
  BY FactsHold DEF SharedInv
<1>2. shared \in Objects
  BY <1>1 DEF SharedFacts
<1>3. /\ o.freed = shared.freed /\ o.count = shared.count /\ o.anchor = shared.anchor
      /\ o.points = shared.points /\ o.proxy = [shared.proxy EXCEPT ![p] = "dropped"]
      /\ o \in Objects
  <2>1. o = [freed |-> shared.freed, count |-> shared.count, anchor |-> shared.anchor,
             proxy |-> [shared.proxy EXCEPT ![p] = "dropped"], points |-> shared.points]
    BY <1>2 DEF Objects
  <2>2. [shared.proxy EXCEPT ![p] = "dropped"] \in [Proxies -> {"none", "held", "dropped", "collected"}]
    BY <1>2, ObjectFields
  <2> HIDE DEF o
  <2> QED BY <1>2, <2>1, <2>2, ObjectFields DEF Objects
<1>4. shared' = o /\ UNCHANGED <<holder, slips>>
  BY DEF DropProxy
<1> HIDE DEF o
<1>5. Linked(o)
  BY <1>1, <1>2, <1>3, ObjectFields DEF Linked, Anchored
<1>6. /\ Clean' = Clean /\ slips' = slips /\ Anchored(shared)' = Anchored(shared)
      /\ Owed' = Owed /\ shared'.count = shared.count /\ OneHolder' = OneHolder
      /\ shared'.points = shared.points /\ sharedKind' = sharedKind /\ holder' = holder
  BY <1>3, <1>4 DEF Clean, Anchored, Owed, Refs, OneHolder
<1>7. Counted' /\ Lonely' /\ Reached'
  BY <1>1, <1>6 DEF Counted, Lonely, Reached
<1>8. Slips(shared', holder') = Slips(shared, holder)
  BY <1>3, <1>4 DEF Slips, Anchored
<1>9. SharedTypeOK'
  BY <1>3, <1>4 DEF SharedInv, SharedTypeOK
<1>10. ~shared'.freed /\ Linked(shared')
  BY <1>3, <1>4, <1>5
<1> QED BY <1>1, <1>4, <1>7, <1>8, <1>9, <1>10, Remains

(* What every release does.                                                 *)
LEMMA Released ==
  ASSUME SharedInv, SharedFacts, ~shared.freed, UNCHANGED sharedKind,
         NEW w \in Holders, NEW ending \in Endings, Release(w, ending),
         LetGo(shared, ending) \in Objects
  PROVE  /\ SharedTypeOK' /\ shared' = LetGo(shared, ending) /\ Lonely'
         /\ Slips(shared', holder') \subseteq slips'
         /\ holder[w] \in 0..2 /\ <<holder[w], ending>> \in sharedKind.protocols
         /\ holder' = [holder EXCEPT ![w] = Nobody]
         /\ Clean' => Clean
         /\ "left over" \notin slips' => "left over" \notin slips
         /\ Clean' => ~Forced(ending) /\ ~Overdrawn(holder[w], ending)
         /\ "left over" \notin slips' => ~LeftOver(holder[w], ending)
         /\ Owed \in Nat /\ Owed' \in Nat /\ Owed = Owed' + holder[w]
<1> DEFINE o == LetGo(shared, ending)
           h == [holder EXCEPT ![w] = Nobody]
           more == (IF Forced(ending) THEN {"forced"} ELSE {})
                   \cup (IF Overdrawn(holder[w], ending) THEN {"overdrawn"} ELSE {})
                   \cup (IF LeftOver(holder[w], ending) THEN {"left over"} ELSE {})
<1>1. holder \in [Holders -> {Nobody, 0, 1, 2}] /\ sharedKind \in KindRecords
  BY DEF SharedFacts
<1>2. <<holder[w], ending>> \in sharedKind.protocols /\ Becomes(o, h, more)
  BY DEF Release
<1>3. holder[w] \in 0..2
  <2>1. sharedKind.protocols \subseteq (0..2) \X Endings
    BY <1>1 DEF KindRecords
  <2> QED BY <1>2, <2>1
<1>4. more \in SUBSET SlipKinds
  BY DEF SlipKinds
<1>5. h \in [Holders -> {Nobody, 0, 1, 2}]
  BY <1>1
<1>6. /\ SharedTypeOK' /\ shared' = o /\ holder' = h
      /\ slips \subseteq slips' /\ more \subseteq slips' /\ Slips(o, h) \subseteq slips'
  <2> HIDE DEF o, h, more
  <2> QED BY <1>2, <1>4, <1>5, Becoming DEF o
<1>7. /\ Clean' => Clean /\ ~Forced(ending) /\ ~Overdrawn(holder[w], ending)
      /\ "left over" \notin slips' => "left over" \notin slips /\ ~LeftOver(holder[w], ending)
  BY <1>6 DEF Clean, Harms
<1>8. Owed \in Nat /\ Owed' \in Nat /\ Owed = Owed' + holder[w]
  <2>1. Refs(1) \in 0..2 /\ Refs(2) \in 0..2
    BY <1>1, Debts
  <2>2. Refs(w) = holder[w] /\ Refs(w)' = 0
    <3>1. holder[w] # Nobody
      BY <1>3 DEF Nobody
    <3>2. holder'[w] = Nobody
      BY <1>1, <1>6
    <3> QED BY <3>1, <3>2 DEF Refs
  <2>3. \A v \in Holders \ {w} : Refs(v)' = Refs(v)
    BY <1>1, <1>6 DEF Refs
  <2>4. CASE w = 1
    BY <2>1, <2>2, <2>3, <2>4, HoldersAre DEF Owed
  <2>5. CASE w = 2
    BY <2>1, <2>2, <2>3, <2>5, HoldersAre DEF Owed
  <2> QED BY <2>4, <2>5, HoldersAre
<1>9. Lonely'
  <2>1. holder'[w] = Nobody
    BY <1>1, <1>6
  <2> QED BY <2>1, HoldersAre DEF Lonely, OneHolder
<1> QED BY <1>2, <1>3, <1>6, <1>7, <1>8, <1>9

(* The collector takes a proxy that nobody refers to.                       *)
LEMMA CollectInv ==
  ASSUME SharedKinds \subseteq AllKinds, SharedInv, ~shared.freed, UNCHANGED sharedKind,
         NEW p \in Proxies, Collect(p)
  PROVE  SharedInv'
<1> DEFINE f == p \in shared.points /\ ~Anchored(shared)
           x == [shared.proxy EXCEPT ![p] = "collected"]
<1>1. SharedFacts /\ Linked(shared) /\ Counted /\ Lonely /\ Reached /\ Slips(shared, holder) \subseteq slips
  BY FactsHold DEF SharedInv
<1>2. shared \in Objects /\ holder \in [Holders -> {Nobody, 0, 1, 2}]
  BY <1>1 DEF SharedFacts
<1>3. shared' = [freed |-> f, count |-> shared.count, anchor |-> shared.anchor,
                 proxy |-> x, points |-> shared.points \ {p}]
  BY <1>2 DEF Collect, Garbage, Objects
<1>4. UNCHANGED <<holder, slips>> /\ shared.anchor # p
  BY DEF Collect
<1>5. /\ shared'.freed = f /\ shared'.count = shared.count /\ shared'.anchor = shared.anchor
      /\ shared'.points = shared.points \ {p} /\ shared'.proxy = x
  BY <1>3
<1>6. SharedTypeOK'
  <2>1. x \in [Proxies -> {"none", "held", "dropped", "collected"}] /\ f \in BOOLEAN
    BY <1>2, ObjectFields
  <2> HIDE DEF x, f
  <2>2. shared' \in Objects
    BY <1>2, <1>3, <2>1, ObjectFields DEF Objects
  <2> QED BY <1>4, <2>2 DEF SharedInv, SharedTypeOK
<1>7. /\ Clean' = Clean /\ slips' = slips /\ Anchored(shared)' = Anchored(shared)
      /\ Owed' = Owed /\ shared'.count = shared.count /\ OneHolder' = OneHolder
      /\ sharedKind' = sharedKind /\ holder' = holder
  BY <1>4, <1>5 DEF Clean, Anchored, Owed, Refs, OneHolder
<1>8. CASE f
  <2>1. Clean => shared'.points = {}
    <3>1. Clean => "twin" \notin Slips(shared, holder)
      BY <1>1 DEF Clean, Harms
    <3>2. Clean => shared.points = {p}
      BY <1>2, <1>8, <3>1, OnlyPoint
    <3> QED BY <1>5, <3>2
  <2>2. Clean => \A w \in Holders : holder[w] = Nobody
    <3>1. Clean => \A w \in Holders : holder[w] \in {Nobody, 0}
      <4>1. Clean => Owed = 0
        BY <1>1, <1>8 DEF Counted
      <4> QED BY <1>2, <4>1, HoldingIs
    <3>2. ASSUME NEW w \in Holders, holder[w] = 0
          PROVE  ~Clean
      <4>1. "borrowed" \in Slips(shared, holder)
        BY <1>8, <3>2 DEF Slips
      <4> QED BY <1>1, <4>1 DEF Clean, Harms
    <3> QED BY <3>1, <3>2
  <2>3. SharedSafe'
    BY <1>7, <2>1, <2>2 DEF SharedSafe, Dangling, Pointing, Holding, Clean, Harms
  <2>4. shared'.freed
    BY <1>5, <1>8
  <2> QED BY <1>6, <2>3, <2>4 DEF SharedInv
<1>9. CASE ~f
  <2>1. Linked(shared') /\ ~shared'.freed
    BY <1>1, <1>2, <1>4, <1>5, <1>9, ObjectFields DEF Linked, Anchored
  <2>2. Counted' /\ Lonely'
    BY <1>1, <1>7 DEF Counted, Lonely
  <2>3. Reached'
    BY <1>1, <1>5, <1>7, <1>9 DEF Reached
  <2>4. Slips(shared', holder') \subseteq Slips(shared, holder)
    <3>1. IsFiniteSet(shared.points)
      <4>1. IsFiniteSet(Proxies)
        BY SharedAssumption, FS_Interval DEF Proxies
      <4>2. shared.points \in SUBSET Proxies
        BY <1>2, ObjectFields
      <4> QED BY <4>1, <4>2, FS_Subset
    <3>2. Cardinality(shared'.points) <= Cardinality(shared.points)
      BY <1>5, <3>1, FS_Subset
    <3>3. Cardinality(shared'.points) \in Nat /\ Cardinality(shared.points) \in Nat
      BY <1>5, <3>1, FS_Subset, FS_CardinalityType
    <3>4. Cardinality(shared'.points) > 1 => Cardinality(shared.points) > 1
      BY <3>2, <3>3
    <3>5. (~Anchored(shared') /\ shared'.points # {}) => (~Anchored(shared) /\ shared.points # {})
      BY <1>5 DEF Anchored
    <3> QED BY <1>7, <3>4, <3>5 DEF Slips
  <2> QED BY <1>1, <1>6, <1>7, <2>1, <2>2, <2>3, <2>4, Remains
<1> QED BY <1>8, <1>9

LEMMA Balance ==
  ASSUME NEW c \in Nat, NEW d \in Nat, NEW back \in 0..2, NEW lost \in 0..2, c - lost \in Nat
  PROVE  /\ (c <= d + back /\ back <= lost) => c - lost <= d
         /\ (d + back <= c /\ lost <= back) => d <= c - lost
         /\ (d <= c - lost /\ c - lost = 0) => d = 0
OBVIOUS

(* What follows when the object is there still: of the references that are  *)
(* owed, its count has lost at least one, and no more than were given back. *)
LEMMA Lessened ==
  ASSUME SharedTypeOK', ~shared'.freed, Linked(shared'), Counted, Lonely',
         Slips(shared', holder') \subseteq slips', shared \in Objects, Anchored(shared),
         shared'.points # {}, Clean' => Clean, "left over" \notin slips' => "left over" \notin slips,
         NEW back \in 0..2, NEW lost \in 0..2, Owed \in Nat, Owed' \in Nat, Owed = Owed' + back,
         shared'.count = shared.count - lost,
         Anchored(shared)' <=> shared.count - lost # 0,
         "left over" \notin slips' => back <= lost,
         Clean' => lost <= back /\ (back # 0 => lost # 0),
         shared.count - lost \in Nat
  PROVE  SharedInv'
<1>1. PICK c \in Nat : c = shared.count
  BY ObjectFields
<1>2. PICK d \in Nat : d = Owed'
  OBVIOUS
<1>3. Anchored(shared)' /\ "left over" \notin slips' => shared'.count <= Owed'
  <2>1. "left over" \notin slips' => c <= d + back /\ back <= lost
    BY <1>1, <1>2 DEF Counted
  <2>2. c <= d + back /\ back <= lost => c - lost <= d
    BY <1>1, Balance
  <2> QED BY <1>1, <1>2, <2>1, <2>2
<1>4. Clean' => d + back <= c /\ lost <= back
  BY <1>1, <1>2 DEF Counted
<1>5. Clean' => d <= c - lost
  <2>1. d + back <= c /\ lost <= back => d <= c - lost
    BY <1>1, Balance
  <2> QED BY <1>4, <2>1
<1>6. Clean' => IF Anchored(shared)' THEN Owed' <= shared'.count ELSE Owed' = 0
  <2>1. CASE Anchored(shared)'
    BY <1>1, <1>2, <1>5, <2>1
  <2>2. CASE ~Anchored(shared)'
    <3>1. c - lost = 0
      BY <1>1, <2>2
    <3>2. (d <= c - lost /\ c - lost = 0) => d = 0
      BY <1>1, Balance
    <3>3. Clean' => d = 0
      BY <1>5, <3>1, <3>2
    <3> QED BY <1>2, <2>2, <3>3
  <2> QED BY <2>1, <2>2
<1>7. Counted'
  BY <1>3, <1>6 DEF Counted
<1>8. Reached'
  BY DEF Reached
<1> QED BY <1>7, <1>8, Remains

(* A reference is dropped, and the object perhaps handed back.              *)
LEMMA UnrefInv ==
  ASSUME SharedKinds \subseteq AllKinds, SharedInv, ~shared.freed, UNCHANGED sharedKind,
         NEW w \in Holders, NEW ending \in {"unref", "return"}, Release(w, ending)
  PROVE  SharedInv'
<1> DEFINE u == Unref(shared)
           o == LetGo(shared, ending)
<1>1. /\ SharedFacts /\ Linked(shared) /\ Counted /\ Reached
      /\ shared \in Objects /\ Follows(sharedKind) /\ holder \in [Holders -> {Nobody, 0, 1, 2}]
  BY FactsHold DEF SharedInv, SharedFacts
<1>2. ending = "return" => Unused(shared) # {}
  BY DEF Release
<1>3. <<holder[w], ending>> \in sharedKind.protocols
  BY DEF Release
<1>4. ~sharedKind.clears /\ holder[w] # 0
  BY <1>1, <1>3 DEF Follows
<1>5. /\ u \in Objects /\ Linked(u) /\ ~u.freed /\ u.points = shared.points /\ u.proxy = shared.proxy
      /\ u.count = IF Anchored(shared) THEN shared.count - 1 ELSE shared.count
      /\ Anchored(u) <=> Anchored(shared) /\ shared.count # 1
      /\ ~Anchored(shared) => u = shared
  <2>1. ~Anchored(shared) => u = shared
    BY DEF Unref
  <2> QED BY <1>1, <1>4, <2>1, UnrefIs
<1>6. /\ o \in Objects /\ Linked(o) /\ ~o.freed /\ o.anchor = u.anchor /\ o.count = u.count
      /\ u.points \subseteq o.points
  <2>1. CASE ending = "unref"
    BY <1>5, <2>1 DEF LetGo
  <2>2. CASE ending = "return"
    <3>1. o = Pushed(u) /\ Unused(u) # {}
      BY <1>2, <1>5, <2>2 DEF LetGo, Unused
    <3> HIDE DEF o, u
    <3> QED BY <1>1, <1>5, <3>1, PushedIs
  <2> QED BY <2>1, <2>2
<1>7. /\ SharedTypeOK' /\ shared' = o /\ Lonely' /\ Slips(shared', holder') \subseteq slips'
      /\ holder[w] \in 0..2 /\ holder' = [holder EXCEPT ![w] = Nobody]
      /\ Clean' => Clean
      /\ "left over" \notin slips' => "left over" \notin slips
      /\ "left over" \notin slips' => ~LeftOver(holder[w], ending)
      /\ Owed \in Nat /\ Owed' \in Nat /\ Owed = Owed' + holder[w]
  <2>1. ending \in Endings /\ o \in Objects
    BY <1>6 DEF Endings
  <2> QED BY <1>1, <2>1, Released
<1> HIDE DEF o, u
<1>8. Anchored(shared)' <=> Anchored(shared) /\ shared.count # 1
  BY <1>5, <1>6, <1>7 DEF Anchored
<1>9. CASE Anchored(shared)
  <2>1. shared.count \in Nat /\ shared.count >= 1 /\ shared.points # {}
    BY <1>1, <1>9, ObjectFields DEF Linked
  <2>2. shared.count - 1 \in Nat /\ shared'.count = shared.count - 1
    <3>1. shared.count - 1 \in Nat
      BY <2>1
    <3>2. shared'.count = u.count /\ u.count = shared.count - 1
      BY <1>5, <1>6, <1>7, <1>9
    <3> QED BY <3>1, <3>2
  <2>3. Anchored(shared)' <=> shared.count - 1 # 0
    <3>1. shared.count - 1 # 0 <=> shared.count # 1
      BY <2>1
    <3> QED BY <1>8, <1>9, <3>1
  <2>0. holder[w] \in 0..2 /\ holder[w] # 0
    BY <1>4, <1>7
  <2>4. "left over" \notin slips' => holder[w] <= 1
    <3>1. "left over" \notin slips' => holder[w] # 2
      BY <1>7 DEF LeftOver
    <3>2. holder[w] # 2 => holder[w] <= 1
      BY <2>0
    <3> QED BY <3>1, <3>2
  <2>5. 1 <= holder[w]
    BY <2>0
  <2>6. shared'.points # {} /\ ~shared'.freed /\ Linked(shared')
    BY <1>5, <1>6, <1>7, <2>1
  <2>7. 1 \in 0..2 /\ holder[w] \in 0..2 /\ 1 # 0
    BY <2>0
  <2> QED BY <1>1, <1>7, <1>9, <2>2, <2>3, <2>4, <2>5, <2>6, <2>7, Lessened
<1>10. CASE ~Anchored(shared)
  <2>1. ~Clean'
    <3>1. Owed # 0
      <4>1. Owed' \in Nat /\ holder[w] \in 0..2 /\ holder[w] # 0 /\ Owed = Owed' + holder[w]
        BY <1>4, <1>7
      <4> QED BY <4>1
    <3> QED BY <1>1, <1>7, <1>10, <3>1 DEF Counted
  <2>2. Counted'
    BY <1>8, <1>10, <2>1 DEF Counted
  <2>3. Reached'
    <3>1. shared'.points = {} => shared.points = {}
      BY <1>5, <1>6, <1>7
    <3>2. ASSUME NEW v \in Holders, holder[v] = 0
          PROVE  holder'[v] = 0
      BY <1>1, <1>4, <1>7, <3>2
    <3> QED BY <1>1, <1>7, <1>10, <3>1, <3>2 DEF Reached
  <2> QED BY <1>6, <1>7, <2>2, <2>3, Remains
<1> QED BY <1>9, <1>10

(* The place forgets the object.                                            *)
LEMMA ForgetInv ==
  ASSUME SharedKinds \subseteq AllKinds, SharedInv, ~shared.freed, UNCHANGED sharedKind,
         NEW w \in Holders, Release(w, "forget")
  PROVE  SharedInv'
<1>1. /\ SharedFacts /\ Linked(shared) /\ Counted /\ shared \in Objects
  BY FactsHold DEF SharedInv, SharedFacts
<1>2. LetGo(shared, "forget") = shared /\ LeftOver(holder[w], "forget") /\ "forget" \in Endings
  BY DEF LetGo, LeftOver, Endings
<1>3. /\ SharedTypeOK' /\ shared' = shared /\ Lonely' /\ Slips(shared', holder') \subseteq slips'
      /\ "left over" \in slips' /\ holder[w] \in 0..2 /\ (Clean' => Clean)
      /\ Owed \in Nat /\ Owed' \in Nat /\ Owed = Owed' + holder[w]
  BY <1>1, <1>2, Released
<1>4. Owed' <= Owed
  <2>1. Owed \in Nat /\ Owed' \in Nat /\ Owed = Owed' + holder[w] /\ holder[w] \in 0..2
    BY <1>3
  <2> QED BY <2>1
<1>5. Counted'
  <2>1. shared.count \in Nat
    BY <1>1, ObjectFields
  <2>0. Owed \in Nat /\ Owed' \in Nat
    BY <1>3
  <2>2. Owed <= shared.count => Owed' <= shared.count
    BY <1>4, <2>0, <2>1
  <2>3. Owed = 0 => Owed' = 0
    BY <1>4, <2>0
  <2>4. Anchored(shared)' = Anchored(shared) /\ shared'.count = shared.count
    BY <1>3 DEF Anchored
  <2> QED BY <1>1, <1>3, <2>2, <2>3, <2>4 DEF Counted
<1>6. Reached'
  BY <1>3 DEF Reached
<1>7. ~shared'.freed /\ Linked(shared')
  BY <1>1, <1>3
<1> QED BY <1>3, <1>5, <1>6, <1>7, Remains

(* A freed object that nobody points to or holds.                           *)
LEMMA FreedSafely ==
  ASSUME SharedTypeOK', shared'.freed,
         Clean' => shared'.points = {} /\ \A v \in Holders : holder'[v] = Nobody
  PROVE  SharedInv'
BY DEF SharedInv, SharedSafe, Dangling, Pointing, Holding, Clean, Harms

(* When there is one place in C, and it lets go, no place holds it.         *)
LEMMA NoneLeft ==
  ASSUME holder \in [Holders -> {Nobody, 0, 1, 2}], NEW w \in Holders, holder[w] # Nobody,
         OneHolder, holder' = [holder EXCEPT ![w] = Nobody]
  PROVE  \A v \in Holders : holder'[v] = Nobody
BY HoldersAre DEF OneHolder

(* The place destroys the object, or drops the one reference it has.        *)
LEMMA DestroyInv ==
  ASSUME SharedKinds \subseteq AllKinds, SharedInv, ~shared.freed, UNCHANGED sharedKind,
         NEW w \in Holders, Release(w, "destroy")
  PROVE  SharedInv'
<1> DEFINE u == Unref(shared)
           o == Destroyed(shared)
<1>1. /\ SharedFacts /\ Linked(shared) /\ Counted /\ Lonely /\ Reached
      /\ shared \in Objects /\ Follows(sharedKind) /\ holder \in [Holders -> {Nobody, 0, 1, 2}]
      /\ Slips(shared, holder) \subseteq slips
  BY FactsHold DEF SharedInv, SharedFacts
<1>2. <<holder[w], "destroy">> \in sharedKind.protocols
  BY DEF Release
<1>3. ~sharedKind.clears /\ holder[w] # 2
  <2>1. sharedKind.clears => <<holder[w], "destroy">> = <<1, "both">>
    BY <1>1, <1>2 DEF Follows
  <2>2. <<holder[w], "destroy">> # <<2, "destroy">>
    BY <1>1, <1>2 DEF Follows
  <2> QED BY <2>1, <2>2
<1>4. /\ u.points = shared.points
      /\ u.count = IF Anchored(shared) THEN shared.count - 1 ELSE shared.count
      /\ Anchored(u) <=> Anchored(shared) /\ shared.count # 1
  BY <1>1, <1>3, UnrefIs
<1>5. /\ o \in Objects /\ Linked(o) /\ o.count = u.count /\ o.anchor = u.anchor /\ o.points = u.points
      /\ o.freed <=> ~Anchored(shared) \/ (sharedKind.counts /\ ~Anchored(u))
  BY <1>1, DestroyedIs
<1>6. /\ SharedTypeOK' /\ shared' = o /\ Lonely' /\ Slips(shared', holder') \subseteq slips'
      /\ holder[w] \in 0..2 /\ holder' = [holder EXCEPT ![w] = Nobody]
      /\ Clean' => Clean
      /\ "left over" \notin slips' => "left over" \notin slips
      /\ Clean' => ~Forced("destroy") /\ ~Overdrawn(holder[w], "destroy")
      /\ Owed \in Nat /\ Owed' \in Nat /\ Owed = Owed' + holder[w]
  <2>1. LetGo(shared, "destroy") = o /\ "destroy" \in Endings
    BY DEF LetGo, Endings
  <2> HIDE DEF o
  <2> QED BY <1>1, <1>5, <2>1, Released
<1> HIDE DEF o, u
<1>7. holder[w] \in 0..2 /\ holder[w] # Nobody
  <2>1. holder[w] \in 0..2
    BY <1>6
  <2> QED BY <2>1, HoldersAre
<1>8. CASE shared'.freed
  <2>1. Clean' => Clean /\ ~Anchored(shared)
    <3>1. Clean' => ~sharedKind.counts
      BY <1>6 DEF Forced
    <3> QED BY <1>5, <1>6, <1>8, <3>1
  <2>2. Clean' => OneHolder /\ Owed = 0
    BY <1>1, <2>1 DEF Lonely, Counted
  <2>3. Clean' => \A v \in Holders : holder'[v] = Nobody
    BY <1>1, <1>6, <1>7, <2>2, NoneLeft
  <2>4. Clean' => holder[w] = 0
    BY <1>1, <1>7, <2>2, HoldingIs
  <2>5. Clean' => shared.points = {}
    <3>1. Clean' /\ shared.points # {} => "borrowed" \in Slips(shared, holder)
      BY <2>1, <2>4 DEF Slips
    <3> QED BY <1>1, <2>1, <3>1 DEF Clean, Harms
  <2>6. Clean' => shared'.points = {}
    BY <1>4, <1>5, <1>6, <2>5
  <2> QED BY <1>6, <1>8, <2>3, <2>6, FreedSafely
<1>9. CASE ~shared'.freed
  <2>1. Anchored(shared)
    BY <1>5, <1>6, <1>9
  <2>2. shared.count \in Nat /\ shared.count >= 1 /\ shared.points # {}
    BY <1>1, <2>1, ObjectFields DEF Linked
  <2>3. shared.count - 1 \in Nat /\ shared'.count = shared.count - 1
    <3>1. shared.count - 1 \in Nat
      BY <2>2
    <3>2. shared'.count = shared.count - 1
      BY <1>4, <1>5, <1>6, <2>1
    <3> QED BY <3>1, <3>2
  <2>4. Anchored(shared)' <=> shared.count - 1 # 0
    <3>1. shared.count - 1 # 0 <=> shared.count # 1
      BY <2>2
    <3>2. Anchored(shared)' <=> Anchored(u)
      BY <1>5, <1>6 DEF Anchored
    <3> QED BY <1>4, <2>1, <3>1, <3>2
  <2>5. holder[w] <= 1
    BY <1>3, <1>7
  <2>6. Clean' => 1 <= holder[w]
    <3>1. Clean' => holder[w] # 0
      BY <1>6, <2>1 DEF Overdrawn
    <3>2. holder[w] # 0 => 1 <= holder[w]
      BY <1>7
    <3> QED BY <3>1, <3>2
  <2>7. shared'.points # {} /\ Linked(shared')
    BY <1>4, <1>5, <1>6, <2>2
  <2>8. 1 \in 0..2 /\ 1 # 0
    OBVIOUS
  <2> QED BY <1>1, <1>6, <1>7, <1>9, <2>1, <2>3, <2>4, <2>5, <2>6, <2>7, <2>8, Lessened
<1> QED BY <1>8, <1>9

(* The place drops a reference and destroys the object at once.             *)
LEMMA BothInv ==
  ASSUME SharedKinds \subseteq AllKinds, SharedInv, ~shared.freed, UNCHANGED sharedKind,
         NEW w \in Holders, Release(w, "both")
  PROVE  SharedInv'
<1> DEFINE u == Unref(shared)
           v == Unref(u)
           o == Destroyed(u)
<1>1. /\ SharedFacts /\ Linked(shared) /\ Counted /\ Lonely /\ Reached
      /\ shared \in Objects /\ Follows(sharedKind) /\ holder \in [Holders -> {Nobody, 0, 1, 2}]
      /\ Slips(shared, holder) \subseteq slips
  BY FactsHold DEF SharedInv, SharedFacts
<1>2. <<holder[w], "both">> \in sharedKind.protocols
  BY DEF Release
<1>3. holder[w] # 0 /\ (sharedKind.clears => ~sharedKind.counts)
  BY <1>1, <1>2 DEF Follows
<1>4. /\ u \in Objects /\ Linked(u)
      /\ u.count = IF Anchored(shared) THEN shared.count - 1 ELSE shared.count
      /\ Anchored(u) <=> Anchored(shared) /\ shared.count # 1 /\ ~sharedKind.clears
      /\ u.points = IF Anchored(shared) /\ sharedKind.clears THEN shared.points \ {shared.anchor}
                    ELSE shared.points
  BY <1>1, UnrefIs
<1> HIDE DEF u
<1>5. /\ v.points = IF Anchored(u) /\ sharedKind.clears THEN u.points \ {u.anchor} ELSE u.points
      /\ v.count = IF Anchored(u) THEN u.count - 1 ELSE u.count
      /\ Anchored(v) <=> Anchored(u) /\ u.count # 1 /\ ~sharedKind.clears
  BY <1>1, <1>4, UnrefIs
<1>6. /\ o \in Objects /\ Linked(o) /\ o.count = v.count /\ o.anchor = v.anchor /\ o.points = v.points
      /\ o.freed <=> ~Anchored(u) \/ (sharedKind.counts /\ ~Anchored(v))
  BY <1>1, <1>4, DestroyedIs
<1>7. /\ SharedTypeOK' /\ shared' = o /\ Lonely' /\ Slips(shared', holder') \subseteq slips'
      /\ holder[w] \in 0..2 /\ holder' = [holder EXCEPT ![w] = Nobody]
      /\ Clean' => Clean
      /\ "left over" \notin slips' => "left over" \notin slips
      /\ Clean' => ~Forced("both")
      /\ Owed \in Nat /\ Owed' \in Nat /\ Owed = Owed' + holder[w]
  <2>1. LetGo(shared, "both") = o /\ "both" \in Endings
    BY DEF LetGo, Endings, u
  <2> HIDE DEF o
  <2> QED BY <1>1, <1>6, <2>1, Released
<1> HIDE DEF o, v
<1>8. holder[w] \in 0..2 /\ holder[w] # Nobody /\ holder[w] <= 2
  <2>1. holder[w] \in 0..2
    BY <1>7
  <2> QED BY <2>1, HoldersAre
<1>9. Clean' => Clean /\ sharedKind.clears
  BY <1>7 DEF Forced
<1>10. CASE shared'.freed
  <2>1. Clean' => OneHolder
    BY <1>1, <1>9 DEF Lonely
  <2>2. Clean' => \A x \in Holders : holder'[x] = Nobody
    BY <1>1, <1>7, <1>8, <2>1, NoneLeft
  <2>3. Clean' => Anchored(shared)
    <3>1. Owed # 0
      <4>1. holder[w] \notin {Nobody, 0}
        BY <1>3, <1>8
      <4> QED BY <1>1, <4>1, HoldingIs
    <3> QED BY <1>1, <1>9, <3>1 DEF Counted
  <2>4. Clean' => shared.points = {shared.anchor}
    <3>1. Clean' => "twin" \notin Slips(shared, holder)
      BY <1>1, <1>9 DEF Clean, Harms
    <3>2. Clean' => shared.anchor \in shared.points
      BY <1>1, <2>3 DEF Linked
    <3> QED BY <1>1, <3>1, <3>2, OnlyPoint
  <2>5. Clean' => shared'.points = {}
    <3>1. Clean' => u.points = {} /\ ~Anchored(u)
      BY <1>4, <1>9, <2>3, <2>4
    <3> QED BY <1>5, <1>6, <1>7, <3>1
  <2> QED BY <1>7, <1>10, <2>2, <2>5, FreedSafely
<1>11. CASE ~shared'.freed
  <2>1. Anchored(u) /\ Anchored(shared) /\ ~sharedKind.clears /\ ~Clean'
    BY <1>4, <1>6, <1>7, <1>9, <1>11
  <2>2. u.count \in Nat /\ u.count >= 1 /\ shared.count \in Nat /\ shared.points # {}
    BY <1>1, <1>4, <2>1, ObjectFields DEF Linked
  <2>3. u.count = shared.count - 1 /\ shared'.count = u.count - 1
    BY <1>4, <1>5, <1>6, <1>7, <2>1
  <2>4. shared.count - 2 \in Nat /\ shared'.count = shared.count - 2
    BY <2>2, <2>3
  <2>5. Anchored(shared)' <=> shared.count - 2 # 0
    <3>1. shared.count - 2 # 0 <=> u.count # 1
      BY <2>2, <2>3
    <3>2. Anchored(shared)' <=> Anchored(v)
      BY <1>6, <1>7 DEF Anchored
    <3> QED BY <1>5, <2>1, <3>1, <3>2
  <2>6. shared'.points # {} /\ Linked(shared')
    BY <1>4, <1>5, <1>6, <1>7, <2>1, <2>2
  <2>7. 2 \in 0..2
    OBVIOUS
  <2> QED BY <1>1, <1>7, <1>8, <1>11, <2>1, <2>4, <2>5, <2>6, <2>7, Lessened
<1> QED BY <1>10, <1>11

LEMMA SharedStep ==
  ASSUME SharedKinds \subseteq AllKinds, SharedInv, [SharedNext]_sharedVars
  PROVE  SharedInv'
<1>1. CASE UNCHANGED sharedVars
  BY <1>1 DEF sharedVars, SharedInv, SharedTypeOK, SharedSafe, Dangling, Pointing, Holding, Linked,
              Counted, Lonely, Reached, Slips, Clean, Owed, Refs, OneHolder, Anchored
<1>2. ASSUME NEW w \in Holders, NEW refs \in 0..2, ~shared.freed, UNCHANGED sharedKind, Adopt(w, refs)
      PROVE  SharedInv'
  BY <1>2, AdoptInv
<1>3. ASSUME NEW w \in Holders, NEW ending \in Endings, ~shared.freed, UNCHANGED sharedKind,
             Release(w, ending)
      PROVE  SharedInv'
  <2>1. CASE ending \in {"unref", "return"}
    BY <1>3, <2>1, UnrefInv
  <2>2. CASE ending = "forget"
    BY <1>3, <2>2, ForgetInv
  <2>3. CASE ending = "destroy"
    BY <1>3, <2>3, DestroyInv
  <2>4. CASE ending = "both"
    BY <1>3, <2>4, BothInv
  <2> QED BY <2>1, <2>2, <2>3, <2>4 DEF Endings
<1>4. ASSUME ~shared.freed, UNCHANGED sharedKind, Push
      PROVE  SharedInv'
  BY <1>4, PushInv
<1>5. ASSUME NEW p \in Proxies, ~shared.freed, UNCHANGED sharedKind, DropProxy(p)
      PROVE  SharedInv'
  BY <1>5, DropProxyInv
<1>6. ASSUME NEW p \in Proxies, ~shared.freed, UNCHANGED sharedKind, Collect(p)
      PROVE  SharedInv'
  BY <1>6, CollectInv
<1> QED BY <1>1, <1>2, <1>3, <1>4, <1>5, <1>6 DEF SharedNext

(* An object that nobody has and that is not freed would be anchored for    *)
(* nobody, or a userdata that the collector may take would point to it.     *)
LEMMA FreedIfUnused ==
  ASSUME SharedInv
  PROVE  SharedFreed
<1> DEFINE Alone == /\ Holding = {} /\ "left over" \notin slips
                    /\ \A q \in Pointing : shared.proxy[q] = "dropped" /\ shared.anchor = q
<1> SUFFICES ASSUME ~shared.freed, Alone
             PROVE  FALSE
  BY DEF SharedFreed
<1> HIDE DEF Alone
<1>1. /\ shared \in Objects /\ holder \in [Holders -> {Nobody, 0, 1, 2}]
      /\ Linked(shared) /\ Counted /\ Reached
  BY DEF SharedInv, SharedTypeOK
<1>2. \A w \in Holders : holder[w] = Nobody
  BY DEF Alone, Holding
<1>3. Owed = 0
  BY <1>1, <1>2, HoldingIs
<1>4. ~Anchored(shared)
  <2>1. Anchored(shared) => shared.count >= 1
    BY <1>1 DEF Linked
  <2>2. Anchored(shared) => shared.count <= 0
    BY <1>1, <1>3 DEF Counted, Alone
  <2>3. shared.count \in Nat
    BY <1>1, ObjectFields
  <2> QED BY <2>1, <2>2, <2>3
<1>5. PICK p \in shared.points : TRUE
  <2>1. \A w \in Holders : holder[w] # 0
    BY <1>2 DEF Nobody
  <2> QED BY <1>1, <1>4, <2>1 DEF Reached, Alone
<1>6. shared.anchor = p
  BY <1>1, <1>5 DEF Linked, Pointing, Alone
<1>7. p # Nowhere
  <2>1. p \in Proxies
    BY <1>1, <1>5, ObjectFields
  <2> QED BY <2>1, SharedAssumption DEF Proxies, Nowhere
<1> QED BY <1>4, <1>6, <1>7 DEF Anchored

(* The counts, anchors and userdata agree with what the places in C owe, of *)
(* every kind, for every number of userdata.                                *)
THEOREM SharedInvariance ==
  ASSUME SharedKinds \subseteq AllKinds
  PROVE  SharedSpec => []SharedInv
<1>1. SharedInit => SharedInv
  BY InitInv
<1>2. SharedInv /\ [SharedNext]_sharedVars => SharedInv'
  BY SharedStep
<1> QED BY <1>1, <1>2, PTL DEF SharedSpec

(* An object of any of the kinds is freed under somebody who has it only    *)
(* after one of the four slips, and stays unfreed when nobody has it only   *)
(* if a reference was left over.                                            *)
THEOREM SharedObjectsLive ==
  ASSUME SharedKinds \subseteq AllKinds
  PROVE  SharedSpec => []SharedLife
<1>1. SharedInv => SharedLife
  BY FreedIfUnused DEF SharedInv, SharedLife
<1> QED BY <1>1, SharedInvariance, PTL
------------------------------------------------------------------------------
(* The Lua engine.                                                          *)

Functions  == (DOMAIN Chunks) \X (0 .. 1)
InstanceIs == [is : {"instance"}, of : DOMAIN Chunks, version : 0 .. 1]
Calls      == [how : {"ref", "name", "load", "callback"}, file : DOMAIN Chunks \cup {""},
               of : Nat, fun : {<<>>} \cup Functions, nested : BOOLEAN]

(* The references are 1 to some number; spare ones are free, each once.      *)
RegistryKept ==
  /\ registry = [r \in DOMAIN registry |-> registry[r]]
  /\ \E n \in 0 .. MaxHeld : DOMAIN registry = 1 .. n
  /\ spare \in Seq(DOMAIN registry)
  /\ \A i, j \in 1 .. Len(spare) : spare[i] = spare[j] => i = j
  /\ \A r \in DOMAIN registry : registry[r].is = "free" <=> \E i \in 1 .. Len(spare) : spare[i] = r
  /\ \A r \in DOMAIN registry : registry[r].is = "instance" => registry[r] \in InstanceIs

(* What is cached is true of the instance, unless it is stale, and no call  *)
(* by name runs what is not cached.                                         *)
CacheKept ==
  /\ named \in [DOMAIN named -> Functions] /\ DOMAIN named \cup stale \subseteq DOMAIN registry
  /\ \A r \in DOMAIN named \ stale : registry[r].is = "instance" /\ named[r] = FunctionOf(r)
  /\ \A i \in 1 .. Len(calls) :
       calls[i].how = "name" => calls[i].of \in DOMAIN named /\ calls[i].fun = named[calls[i].of]

(* The hook is on for the innermost call that has limits, or off because    *)
(* each of them has made C call another function.                           *)
HookKept(s, h) ==
  h.of # Returned =>
    IF h.on
      THEN /\ h.of \in 1 .. Len(s) /\ s[h.of].how \in {"ref", "name"} /\ ~s[h.of].nested
           /\ \A i \in 1 .. Len(s) : s[i].how \in {"ref", "name"} => i <= h.of
      ELSE \A i \in 1 .. Len(s) : s[i].how \in {"ref", "name"} => s[i].nested

CallsKept ==
  /\ calls \in Seq(Calls) /\ Len(calls) <= MaxNested
  /\ luaHook \in [on : BOOLEAN, of : Returned .. MaxNested]
  /\ HookKept(calls, luaHook)

Finds(names) == names \subseteq DOMAIN globals

GlobalsKept ==
  /\ globals = [n \in DOMAIN globals |-> globals[n]]
  /\ DOMAIN globals \subseteq Library \cup Registered \cup {Late, "own"}
  /\ guard \in {"none", "newindex", "sealed"}
  /\ engine \in [stage : {"new", "open", "filled", "locked", "started"}, startup : Nat,
                 box : {"none", "_G"}]
  /\ engine.stage # "new" => engine.box = "_G"
  /\ engine.stage \in {"filled", "locked", "started"} => Finds(Registered)
  /\ engine.stage \in {"locked", "started"} => Finds({Late})

EngineInv == RegistryKept /\ CacheKept /\ CallsKept /\ GlobalsKept

(* The reference that the next object gets is new or free.                  *)
LEMMA NextIs ==
  ASSUME RegistryKept
  PROVE  /\ NextRef \in Nat \ {0}
         /\ NextRef \in DOMAIN registry => registry[NextRef].is = "free"
         /\ spare # <<>> => NextRef = spare[1]
         /\ spare = <<>> => /\ NextRef \notin DOMAIN registry
                            /\ \A n \in Nat : DOMAIN registry = 1 .. n => NextRef = n + 1
<1>1. PICK n \in 0 .. MaxHeld : DOMAIN registry = 1 .. n
  BY DEF RegistryKept
<1>2. n \in Nat /\ MaxHeld \in Nat
  BY LuaEngineAssumption
<1>3. CASE spare # <<>>
  <2>1. Head(spare) = spare[1] /\ 1 \in 1 .. Len(spare) /\ spare[1] \in DOMAIN registry
    BY <1>3 DEF RegistryKept
  <2>2. registry[spare[1]].is = "free"
    BY <2>1 DEF RegistryKept
  <2>3. spare[1] \in Nat \ {0}
    BY <1>1, <1>2, <2>1
  <2> QED BY <1>3, <2>1, <2>2, <2>3 DEF NextRef
<1>4. CASE spare = <<>>
  <2>1. ASSUME NEW m \in Nat, DOMAIN registry = 1 .. m
        PROVE  NextRef = m + 1
    <3>1. Cardinality(1 .. m) = m
      BY FS_Interval
    <3> QED BY <1>4, <2>1, <3>1 DEF NextRef
  <2>2. NextRef = n + 1
    BY <1>1, <1>2, <2>1
  <2>3. n + 1 \notin 1 .. n
    BY <1>2
  <2> QED BY <1>1, <1>2, <1>4, <2>1, <2>2, <2>3
<1> QED BY <1>3, <1>4

LEMMA HoldsIs ==
  ASSUME RegistryKept, NEW what, what.is # "free", what.is = "instance" => what \in InstanceIs,
         Holds(NextRef, what)
  PROVE  /\ RegistryKept'
         /\ DOMAIN registry' = DOMAIN registry \cup {NextRef} /\ registry'[NextRef] = what
         /\ \A r \in DOMAIN registry : registry[r].is # "free" =>
              r # NextRef /\ registry'[r] = registry[r]
<1> DEFINE new == NextRef
<1>1. /\ new \in Nat \ {0} /\ (new \in DOMAIN registry => registry[new].is = "free")
      /\ spare # <<>> => new = spare[1]
      /\ spare = <<>> => /\ new \notin DOMAIN registry
                         /\ \A n \in Nat : DOMAIN registry = 1 .. n => new = n + 1
  BY NextIs
<1>2. /\ registry' = [s \in DOMAIN registry \cup {new} |-> IF s = new THEN what ELSE registry[s]]
      /\ spare' = IF spare # <<>> THEN Tail(spare) ELSE spare
      /\ new <= MaxHeld
  BY DEF Holds
<1> HIDE DEF new
<1>3. DOMAIN registry' = DOMAIN registry \cup {new} /\ registry'[new] = what
  BY <1>2
<1>4. \A r \in DOMAIN registry : r # new => registry'[r] = registry[r]
  BY <1>2
<1>5. \E n \in 0 .. MaxHeld : DOMAIN registry' = 1 .. n
  <2>1. PICK n \in 0 .. MaxHeld : DOMAIN registry = 1 .. n
    BY DEF RegistryKept
  <2>2. CASE spare = <<>>
    <3>1. new = n + 1 /\ n \in Nat /\ MaxHeld \in Nat
      BY <1>1, <2>1, <2>2, LuaEngineAssumption
    <3>2. (1 .. n) \cup {n + 1} = 1 .. (n + 1) /\ n + 1 \in 0 .. MaxHeld
      BY <1>2, <3>1
    <3> QED BY <1>3, <2>1, <3>1, <3>2
  <2>3. CASE spare # <<>>
    <3>1. new \in DOMAIN registry
      BY <1>1, <2>3 DEF RegistryKept
    <3> QED BY <1>3, <2>1, <3>1
  <2> QED BY <2>2, <2>3
<1>6. registry' = [r \in DOMAIN registry' |-> registry'[r]]
  BY <1>2
<1>7. CASE spare = <<>>
  <2>1. spare' = <<>> /\ new \notin DOMAIN registry
    BY <1>1, <1>2, <1>7
  <2>2. \A r \in DOMAIN registry : registry[r].is # "free"
    BY <1>7 DEF RegistryKept
  <2>3. \A r \in DOMAIN registry' : registry'[r].is # "free"
    BY <1>3, <1>4, <2>2
  <2>4. \A r \in DOMAIN registry' : registry'[r].is = "instance" => registry'[r] \in InstanceIs
    BY <1>3, <1>4 DEF RegistryKept
  <2>5. RegistryKept'
    <3>1. spare' \in Seq(DOMAIN registry') /\ Len(spare') = 0
      BY <2>1
    <3> QED BY <1>5, <1>6, <2>3, <2>4, <3>1 DEF RegistryKept
  <2> QED BY <1>3, <1>4, <2>1, <2>5 DEF new
<1>8. CASE spare # <<>>
  <2>1. /\ spare \in Seq(DOMAIN registry) /\ spare' = Tail(spare) /\ new = spare[1]
        /\ new \in DOMAIN registry
    BY <1>1, <1>2, <1>8 DEF RegistryKept
  <2>2. /\ spare' \in Seq(DOMAIN registry) /\ Len(spare') = Len(spare) - 1 /\ Len(spare) \in Nat
        /\ \A i \in 1 .. Len(spare') : spare'[i] = spare[i + 1] /\ i + 1 \in 1 .. Len(spare)
    BY <1>8, <2>1
  <2>3. \A i \in 1 .. Len(spare') : spare'[i] # new
    <3>1. ASSUME NEW i \in 1 .. Len(spare'), spare'[i] = new
          PROVE  FALSE
      <4>1. spare[i + 1] = spare[1] /\ i + 1 \in 1 .. Len(spare) /\ 1 \in 1 .. Len(spare) /\ i + 1 # 1
        BY <1>8, <2>1, <2>2, <3>1
      <4> QED BY <4>1 DEF RegistryKept
    <3> QED BY <3>1
  <2>4. \A i, j \in 1 .. Len(spare') : spare'[i] = spare'[j] => i = j
    <3>1. ASSUME NEW i \in 1 .. Len(spare'), NEW j \in 1 .. Len(spare'), spare'[i] = spare'[j]
          PROVE  i = j
      <4>1. i + 1 = j + 1
        BY <2>2, <3>1 DEF RegistryKept
      <4> QED BY <4>1
    <3> QED BY <3>1
  <2>5. \A r \in DOMAIN registry : r # new =>
          ((\E i \in 1 .. Len(spare') : spare'[i] = r) <=> \E i \in 1 .. Len(spare) : spare[i] = r)
    <3>1. ASSUME NEW r, r # new, NEW i \in 1 .. Len(spare), spare[i] = r
          PROVE  \E j \in 1 .. Len(spare') : spare'[j] = r
      <4>1. i # 1 /\ i - 1 \in 1 .. Len(spare') /\ (i - 1) + 1 = i
        BY <2>1, <2>2, <3>1
      <4>2. spare'[i - 1] = r
        BY <2>2, <3>1, <4>1
      <4> QED BY <4>1, <4>2
    <3> QED BY <2>2, <3>1
  <2>6. \A r \in DOMAIN registry' :
          registry'[r].is = "free" <=> \E i \in 1 .. Len(spare') : spare'[i] = r
    <3>1. ASSUME NEW r \in DOMAIN registry, r # new
          PROVE  registry'[r].is = "free" <=> \E i \in 1 .. Len(spare') : spare'[i] = r
      BY <1>4, <2>5, <3>1 DEF RegistryKept
    <3> QED BY <1>3, <2>3, <3>1
  <2>7. \A r \in DOMAIN registry' : registry'[r].is = "instance" => registry'[r] \in InstanceIs
    BY <1>3, <1>4 DEF RegistryKept
  <2>8. spare' \in Seq(DOMAIN registry')
    <3>1. DOMAIN registry' = DOMAIN registry
      BY <1>3, <2>1
    <3> QED BY <2>2, <3>1
  <2>9. RegistryKept'
    BY <1>5, <1>6, <2>4, <2>6, <2>7, <2>8 DEF RegistryKept
  <2>10. \A r \in DOMAIN registry : registry[r].is # "free" => r # new
    BY <1>1
  <2> QED BY <1>3, <1>4, <2>9, <2>10 DEF new
<1> QED BY <1>7, <1>8

LEMMA DropsIs ==
  ASSUME RegistryKept, NEW r \in Remaining, Drops(r)
  PROVE  /\ RegistryKept' /\ DOMAIN registry' = DOMAIN registry
         /\ \A s \in DOMAIN registry : s # r => registry'[s] = registry[s]
<1>1. r \in DOMAIN registry /\ registry[r].is = "instance"
  BY DEF Remaining
<1>2. /\ registry' = [registry EXCEPT ![r] = [is |-> "free"]] /\ spare' = <<r>> \o spare
      /\ spare \in Seq(DOMAIN registry)
  BY DEF Drops, RegistryKept
<1>3. /\ DOMAIN registry' = DOMAIN registry /\ registry'[r] = [is |-> "free"]
      /\ \A s \in DOMAIN registry : s # r => registry'[s] = registry[s]
      /\ registry' = [s \in DOMAIN registry' |-> registry'[s]]
  <2>1. registry = [s \in DOMAIN registry |-> registry[s]]
    BY DEF RegistryKept
  <2>2. /\ DOMAIN registry' = DOMAIN registry /\ registry'[r] = [is |-> "free"]
        /\ \A s \in DOMAIN registry : s # r => registry'[s] = registry[s]
    BY <1>1, <1>2, <2>1
  <2>3. registry' = [s \in DOMAIN registry' |-> registry'[s]]
    BY <1>2
  <2> QED BY <2>2, <2>3
<1>4. /\ spare' \in Seq(DOMAIN registry') /\ Len(spare') = Len(spare) + 1 /\ Len(spare) \in Nat
      /\ \A i \in 1 .. Len(spare') : spare'[i] = IF i = 1 THEN r ELSE spare[i - 1]
      /\ \A i \in 1 .. Len(spare) : spare'[i + 1] = spare[i]
  <2>1. r \in DOMAIN registry'
    BY <1>1, <1>3
  <2> QED BY <1>2, <1>3, <2>1
<1>5. \A i \in 1 .. Len(spare) : spare[i] # r
  BY <1>1 DEF RegistryKept
<1>6. \A i, j \in 1 .. Len(spare') : spare'[i] = spare'[j] => i = j
  <2>1. ASSUME NEW i \in 1 .. Len(spare'), NEW j \in 1 .. Len(spare'), spare'[i] = spare'[j]
        PROVE  i = j
    <3>0. \A n \in 1 .. Len(spare') : n # 1 => spare'[n] # r
      <4> TAKE n \in 1 .. Len(spare')
      <4> SUFFICES ASSUME n # 1 PROVE spare'[n] # r
        OBVIOUS
      <4>1. n - 1 \in 1 .. Len(spare)
        BY <1>4
      <4>2. spare'[n] = spare[n - 1]
        BY <1>4
      <4> QED BY <1>5, <4>1, <4>2
    <3>1. CASE i = 1 \/ j = 1
      <4>1. spare'[i] = r \/ spare'[j] = r
        BY <1>4, <3>1
      <4> QED BY <2>1, <3>0, <3>1, <4>1
    <3>2. CASE i # 1 /\ j # 1
      <4>1. i - 1 \in 1 .. Len(spare) /\ j - 1 \in 1 .. Len(spare) /\ spare[i - 1] = spare[j - 1]
        BY <1>4, <2>1, <3>2
      <4>2. i - 1 = j - 1
        BY <4>1 DEF RegistryKept
      <4> QED BY <4>2
    <3> QED BY <3>1, <3>2
  <2> QED BY <2>1
<1>7. \A s \in DOMAIN registry' :
        registry'[s].is = "free" <=> \E i \in 1 .. Len(spare') : spare'[i] = s
  <2>1. 1 \in 1 .. Len(spare') /\ spare'[1] = r /\ registry'[r].is = "free"
    <3>1. 1 \in 1 .. Len(spare')
      BY <1>4
    <3>2. spare'[1] = r
      BY <1>4, <3>1
    <3>3. registry'[r].is = "free"
      BY <1>3
    <3> QED BY <3>1, <3>2, <3>3
  <2>2. ASSUME NEW s \in DOMAIN registry, s # r
        PROVE  (\E i \in 1 .. Len(spare') : spare'[i] = s) <=> \E i \in 1 .. Len(spare) : spare[i] = s
    <3>1. ASSUME NEW i \in 1 .. Len(spare'), spare'[i] = s
          PROVE  \E j \in 1 .. Len(spare) : spare[j] = s
      <4>1. i # 1 /\ i - 1 \in 1 .. Len(spare) /\ spare[i - 1] = s
        BY <1>4, <2>2, <3>1
      <4> QED BY <4>1
    <3>2. ASSUME NEW i \in 1 .. Len(spare), spare[i] = s
          PROVE  \E j \in 1 .. Len(spare') : spare'[j] = s
      <4>1. i + 1 \in 1 .. Len(spare') /\ spare'[i + 1] = s
        BY <1>4, <3>2
      <4> QED BY <4>1
    <3> QED BY <3>1, <3>2
  <2>3. ASSUME NEW s \in DOMAIN registry, s # r
        PROVE  registry'[s].is = "free" <=> \E i \in 1 .. Len(spare') : spare'[i] = s
    BY <1>3, <2>2, <2>3 DEF RegistryKept
  <2> QED BY <1>3, <2>1, <2>3
<1>8. \A s \in DOMAIN registry' : registry'[s].is = "instance" => registry'[s] \in InstanceIs
  <2>1. registry'[r].is # "instance"
    BY <1>3
  <2> QED BY <1>3, <2>1 DEF RegistryKept
<1>9. \E n \in 0 .. MaxHeld : DOMAIN registry' = 1 .. n
  BY <1>3 DEF RegistryKept
<1>10. RegistryKept'
  BY <1>3, <1>4, <1>6, <1>7, <1>8, <1>9 DEF RegistryKept
<1> QED BY <1>3, <1>10

(* What is new in the registry was not cached.                              *)
LEMMA CacheHolds ==
  ASSUME RegistryKept, CacheKept, NEW what, what.is # "free",
         what.is = "instance" => what \in InstanceIs, Holds(NextRef, what),
         UNCHANGED <<named, stale, calls>>
  PROVE  RegistryKept' /\ CacheKept'
<1>1. /\ RegistryKept' /\ DOMAIN registry' = DOMAIN registry \cup {NextRef}
      /\ \A r \in DOMAIN registry : registry[r].is # "free" =>
              r # NextRef /\ registry'[r] = registry[r]
  BY HoldsIs
<1>2. ASSUME NEW r \in DOMAIN named \ stale
      PROVE  registry'[r].is = "instance" /\ named[r] = FunctionOf(r)'
  <2>1. r \in DOMAIN registry /\ registry[r].is = "instance" /\ named[r] = FunctionOf(r)
    BY DEF CacheKept
  <2>2. registry'[r] = registry[r]
    BY <1>1, <2>1
  <2> QED BY <2>1, <2>2 DEF FunctionOf
<1> QED BY <1>1, <1>2 DEF CacheKept

(* Only the calls change, and those by name are of what is cached.          *)
LEMMA CacheCalls ==
  ASSUME CacheKept, UNCHANGED <<registry, named, stale>>,
         \A i \in 1 .. Len(calls') : calls'[i].how = "name" =>
           calls'[i].of \in DOMAIN named /\ calls'[i].fun = named[calls'[i].of]
  PROVE  CacheKept'
BY DEF CacheKept, FunctionOf

LEMMA OuterIs ==
  ASSUME calls \in Seq(Calls), calls # <<>>, NEW ended \in BOOLEAN
  PROVE  LET outer == Outer(ended) IN
         /\ outer \in Seq(Calls) /\ Len(outer) = Len(calls) - 1
         /\ \A i \in 1 .. Len(calls) - 1 :
              /\ outer[i].how = calls[i].how /\ outer[i].of = calls[i].of
              /\ outer[i].fun = calls[i].fun /\ outer[i].nested = (calls[i].nested \/ ended)
<1> DEFINE outer == Outer(ended)
<1>1. Len(calls) - 1 \in Nat
  OBVIOUS
<1>2. outer = [i \in 1 .. Len(calls) - 1 |-> [calls[i] EXCEPT !.nested = calls[i].nested \/ ended]]
  BY DEF Outer, Depth
<1>3. ASSUME NEW i \in 1 .. Len(calls) - 1
      PROVE  /\ outer[i].how = calls[i].how /\ outer[i].of = calls[i].of
             /\ outer[i].fun = calls[i].fun /\ outer[i].nested = (calls[i].nested \/ ended)
             /\ outer[i] \in Calls
  <2>1. calls[i] \in Calls
    OBVIOUS
  <2>2. (calls[i].nested \/ ended) \in BOOLEAN
    BY <2>1 DEF Calls
  <2>3. outer[i] = [calls[i] EXCEPT !.nested = calls[i].nested \/ ended]
    BY <1>2
  <2> HIDE DEF outer
  <2> QED BY <2>1, <2>2, <2>3 DEF Calls
<1>4. outer \in Seq(Calls) /\ Len(outer) = Len(calls) - 1
  <2>1. outer \in [1 .. Len(calls) - 1 -> Calls]
    BY <1>2, <1>3
  <2> HIDE DEF outer
  <2> QED BY <1>1, <2>1
<1> QED BY <1>3, <1>4

(* A call begins: with its own limits, or under those that hold.            *)
LEMMA Begins ==
  ASSUME CallsKept, NEW call \in Calls, calls' = Append(calls, call), Len(calls) < MaxNested,
         ~call.nested,
         IF call.how \in {"ref", "name"} THEN luaHook' = [on |-> TRUE, of |-> Len(calls) + 1]
         ELSE luaHook' = luaHook
  PROVE  CallsKept'
<1>1. /\ calls' \in Seq(Calls) /\ Len(calls') = Len(calls) + 1 /\ Len(calls) \in Nat
      /\ calls'[Len(calls) + 1] = call /\ \A i \in 1 .. Len(calls) : calls'[i] = calls[i]
  BY DEF CallsKept
<1>2. Len(calls') <= MaxNested /\ MaxNested \in Nat
  BY <1>1, LuaEngineAssumption
<1>3. CASE call.how \in {"ref", "name"}
  <2>1. luaHook' = [on |-> TRUE, of |-> Len(calls) + 1]
    BY <1>3
  <2>2. Len(calls) + 1 \in Returned .. MaxNested
    BY <1>1, <1>2 DEF Returned
  <2>3. luaHook' \in [on : BOOLEAN, of : Returned .. MaxNested]
    BY <2>1, <2>2
  <2>4. luaHook'.on /\ luaHook'.of = Len(calls) + 1
    BY <2>1
  <2>5. \A i \in 1 .. Len(calls') : i <= Len(calls) + 1
    BY <1>1
  <2>6. Len(calls) + 1 \in 1 .. Len(calls')
    BY <1>1
  <2>7. HookKept(calls', luaHook')
    BY <1>1, <1>3, <2>4, <2>5, <2>6 DEF HookKept
  <2> QED BY <1>1, <1>2, <2>3, <2>7 DEF CallsKept
<1>4. CASE call.how \notin {"ref", "name"}
  <2>1. \A i \in 1 .. Len(calls') : i \in 1 .. Len(calls) \/ i = Len(calls) + 1
    BY <1>1
  <2>2. \A i \in 1 .. Len(calls) : i \in 1 .. Len(calls')
    BY <1>1
  <2>3. HookKept(calls', luaHook)
    BY <1>1, <1>4, <2>1, <2>2 DEF HookKept, CallsKept
  <2> QED BY <1>1, <1>2, <1>4, <2>3 DEF CallsKept
<1> QED BY <1>3, <1>4

(* A call ends: those around it have made C call another function if it had *)
(* limits, which are gone then.                                             *)
LEMMA Ends ==
  ASSUME CallsKept, calls # <<>>, NEW limited \in BOOLEAN,
         limited <=> calls[Len(calls)].how \in {"ref", "name"},
         calls' \in Seq(Calls), Len(calls') = Len(calls) - 1,
         \A i \in 1 .. Len(calls) - 1 :
           calls'[i].how = calls[i].how /\ calls'[i].nested = (calls[i].nested \/ limited),
         IF limited THEN luaHook' = NoHook \/ luaHook' = [luaHook EXCEPT !.of = Returned]
         ELSE luaHook' = luaHook
  PROVE  CallsKept'
<1>1. /\ calls \in Seq(Calls) /\ Len(calls) \in Nat /\ Len(calls) # 0 /\ Len(calls) <= MaxNested
      /\ MaxNested \in Nat /\ luaHook \in [on : BOOLEAN, of : Returned .. MaxNested]
  BY LuaEngineAssumption DEF CallsKept
<1>2. Len(calls') <= MaxNested
  BY <1>1
<1>3. luaHook' \in [on : BOOLEAN, of : Returned .. MaxNested]
  <2>1. 0 \in Returned .. MaxNested /\ Returned \in Returned .. MaxNested
    BY <1>1 DEF Returned
  <2>2. NoHook \in [on : BOOLEAN, of : Returned .. MaxNested]
    BY <2>1 DEF NoHook
  <2>3. [luaHook EXCEPT !.of = Returned] \in [on : BOOLEAN, of : Returned .. MaxNested]
    BY <1>1, <2>1
  <2> QED BY <1>1, <2>2, <2>3
<1>4. \A i \in 1 .. Len(calls') : i \in 1 .. Len(calls) - 1 /\ i \in 1 .. Len(calls)
  BY <1>1
<1>5. HookKept(calls', luaHook')
  <2>1. CASE limited /\ luaHook' = NoHook
    BY <1>4, <2>1 DEF HookKept, NoHook
  <2>2. CASE limited /\ luaHook' = [luaHook EXCEPT !.of = Returned]
    <3>1. luaHook'.of = Returned
      BY <1>1, <2>2
    <3> QED BY <3>1 DEF HookKept
  <2>3. CASE ~limited
    <3>1. luaHook' = luaHook /\ HookKept(calls, luaHook)
      BY <2>3 DEF CallsKept
    <3>2. \A i \in 1 .. Len(calls') : calls'[i].how = calls[i].how /\ calls'[i].nested = calls[i].nested
      <4>1. ASSUME NEW i \in 1 .. Len(calls')
            PROVE  calls'[i].how = calls[i].how /\ calls'[i].nested = calls[i].nested
        <5>1. calls[i] \in Calls /\ calls'[i] \in Calls
          BY <1>1, <1>4
        <5> QED BY <1>4, <2>3, <5>1 DEF Calls
      <4> QED BY <4>1
    <3>3. luaHook.of # Len(calls) \/ ~luaHook.on \/ luaHook.of = Returned
      BY <2>3, <3>1 DEF HookKept
    <3>4. luaHook.of \in 1 .. Len(calls) /\ luaHook.of # Len(calls) => luaHook.of \in 1 .. Len(calls')
      BY <1>1
    <3> QED BY <1>4, <3>1, <3>2, <3>3, <3>4 DEF HookKept
  <2> QED BY <2>1, <2>2, <2>3
<1> QED BY <1>2, <1>3, <1>5 DEF CallsKept

(* What does not change keeps its part.                                     *)
LEMMA RestKept ==
  ASSUME EngineInv
  PROVE  /\ UNCHANGED <<registry, spare>> => RegistryKept'
         /\ UNCHANGED <<registry, named, stale, calls>> => CacheKept'
         /\ UNCHANGED <<calls, luaHook>> => CallsKept'
         /\ UNCHANGED <<globals, guard, engine>> => GlobalsKept'
<1>1. UNCHANGED <<registry, spare>> => RegistryKept'
  BY DEF EngineInv, RegistryKept
<1>2. UNCHANGED <<registry, named, stale, calls>> => CacheKept'
  BY DEF EngineInv, CacheKept, FunctionOf
<1>3. UNCHANGED <<calls, luaHook>> => CallsKept'
  BY DEF EngineInv, CallsKept
<1>4. UNCHANGED <<globals, guard, engine>> => GlobalsKept'
  BY DEF EngineInv, GlobalsKept, Finds
<1> QED BY <1>1, <1>2, <1>3, <1>4

LEMMA BindIs ==
  ASSUME NEW names, NEW who, globals' = Bind(names, who)
  PROVE  /\ globals' = [n \in DOMAIN globals' |-> globals'[n]]
         /\ DOMAIN globals' = DOMAIN globals \cup names
         /\ \A n \in names : globals'[n] = who
         /\ \A n \in DOMAIN globals \ names : globals'[n] = globals[n]
BY DEF Bind

(* The steps of engine_create.                                              *)
LEMMA CreatingKeeps ==
  ASSUME EngineInv, CreateEngine \/ RegisterAll \/ LockGlobals
  PROVE  EngineInv'
<1>1. RegistryKept /\ CacheKept /\ CallsKept /\ GlobalsKept
  BY DEF EngineInv
<1>2. CASE CreateEngine
  <2>1. /\ engine.stage = "new" /\ globals' = Bind(Library, "lua")
        /\ engine' = [engine EXCEPT !.stage = "open", !.box = Sandbox] /\ guard' = guard
    BY <1>2 DEF CreateEngine
  <2>2. Sandbox = "_G"
    BY DEF Sandbox
  <2>3. /\ engine' \in [stage : {"new", "open", "filled", "locked", "started"}, startup : Nat,
                        box : {"none", "_G"}]
        /\ engine'.stage = "open" /\ engine'.box = "_G"
    BY <1>1, <2>1, <2>2 DEF GlobalsKept
  <2>4. /\ globals' = [n \in DOMAIN globals' |-> globals'[n]]
        /\ DOMAIN globals' = DOMAIN globals \cup Library
    BY <2>1, BindIs
  <2>5. GlobalsKept'
    BY <1>1, <2>1, <2>3, <2>4 DEF GlobalsKept
  <2>6. RegistryKept' /\ CacheKept'
    <3> DEFINE what == [is |-> "table"]
    <3>1. what.is # "free" /\ what.is # "instance"
      OBVIOUS
    <3>2. Holds(NextRef, what) /\ UNCHANGED <<named, stale, calls>>
      BY <1>2 DEF CreateEngine
    <3> HIDE DEF what
    <3> QED BY <1>1, <3>1, <3>2, CacheHolds
  <2>7. CallsKept'
    BY <1>2, RestKept DEF CreateEngine
  <2> QED BY <2>5, <2>6, <2>7 DEF EngineInv
<1>3. CASE RegisterAll
  <2>1. /\ engine.stage = "open" /\ engine.box = "_G" /\ globals' = Bind(Registered, "engine")
        /\ engine' = [engine EXCEPT !.stage = "filled"] /\ guard' = guard
    BY <1>1, <1>3 DEF RegisterAll, GlobalsKept
  <2>2. /\ engine' \in [stage : {"new", "open", "filled", "locked", "started"}, startup : Nat,
                        box : {"none", "_G"}]
        /\ engine'.stage = "filled" /\ engine'.box = "_G"
    BY <1>1, <2>1 DEF GlobalsKept
  <2>3. /\ globals' = [n \in DOMAIN globals' |-> globals'[n]]
        /\ DOMAIN globals' = DOMAIN globals \cup Registered
        /\ \A n \in Registered : globals'[n] = "engine"
    BY <2>1, BindIs
  <2>4. Finds(Registered)'
    BY <2>3 DEF Finds
  <2>5. GlobalsKept'
    BY <1>1, <2>1, <2>2, <2>3, <2>4 DEF GlobalsKept
  <2> QED BY <1>3, <2>5, RestKept DEF EngineInv, RegisterAll
<1>4. CASE LockGlobals
  <2>1. /\ engine.stage = "filled" /\ engine.box = "_G" /\ Finds(Registered)
    BY <1>1, <1>4 DEF LockGlobals, GlobalsKept
  <2>2. /\ guard' = "sealed" /\ globals' = Bind({Late}, "engine")
        /\ engine' = [engine EXCEPT !.stage = "locked"]
    BY <1>4, <2>1 DEF LockGlobals
  <2>3. /\ engine' \in [stage : {"new", "open", "filled", "locked", "started"}, startup : Nat,
                        box : {"none", "_G"}]
        /\ engine'.stage = "locked" /\ engine'.box = "_G"
    BY <1>1, <2>1, <2>2 DEF GlobalsKept
  <2>4. /\ globals' = [n \in DOMAIN globals' |-> globals'[n]]
        /\ DOMAIN globals' = DOMAIN globals \cup {Late} /\ globals'[Late] = "engine"
        /\ \A n \in DOMAIN globals \ {Late} : globals'[n] = globals[n]
    BY <2>2, Late \in {Late}, BindIs, Zenon
  <2>5. Finds(Registered)' /\ Finds({Late})'
    BY <2>1, <2>4 DEF Finds
  <2>6. GlobalsKept'
    BY <1>1, <2>2, <2>3, <2>4, <2>5 DEF GlobalsKept
  <2> QED BY <1>4, <2>6, RestKept DEF EngineInv, LockGlobals
<1> QED BY <1>2, <1>3, <1>4

(* A script writes a global: what it overwrites is there still.             *)
LEMMA WritingKeeps ==
  ASSUME EngineInv, NEW n \in {Late, "own"}, WriteGlobal(n)
  PROVE  EngineInv'
<1>1. GlobalsKept
  BY DEF EngineInv
<1>2. globals' = Bind({n}, "script") /\ UNCHANGED <<guard, engine>>
  BY DEF WriteGlobal
<1>3. /\ globals' = [m \in DOMAIN globals' |-> globals'[m]]
      /\ DOMAIN globals' = DOMAIN globals \cup {n} /\ globals'[n] = "script"
      /\ \A m \in DOMAIN globals \ {n} : globals'[m] = globals[m]
  BY <1>2, n \in {n}, BindIs, Zenon
<1>4. \A names : Finds(names) => Finds(names)'
  BY <1>3 DEF Finds
<1>5. GlobalsKept'
  BY <1>1, <1>2, <1>3, <1>4 DEF GlobalsKept
<1> QED BY <1>5, RestKept DEF EngineInv, WriteGlobal

(* Instances come, go and change their functions.                           *)
LEMMA InstancesKeep ==
  ASSUME EngineInv, \/ \E f \in DOMAIN Chunks : MakeInstance(f)
                    \/ \E r \in DOMAIN registry : RemoveInstance(r) \/ Redefine(r)
  PROVE  EngineInv'
<1>1. RegistryKept /\ CacheKept /\ CallsKept /\ GlobalsKept
  BY DEF EngineInv
<1>2. ASSUME NEW f \in DOMAIN Chunks, MakeInstance(f)
      PROVE  EngineInv'
  <2> DEFINE what == [is |-> "instance", of |-> f, version |-> 0]
  <2>1. what.is # "free" /\ what \in InstanceIs
    BY DEF InstanceIs
  <2>2. Holds(NextRef, what) /\ UNCHANGED <<named, stale, calls>>
    BY <1>2 DEF MakeInstance
  <2> HIDE DEF what
  <2>3. RegistryKept' /\ CacheKept'
    BY <1>1, <2>1, <2>2, CacheHolds
  <2> QED BY <1>2, <2>3, RestKept DEF EngineInv, MakeInstance
<1>3. ASSUME NEW r \in DOMAIN registry, RemoveInstance(r)
      PROVE  EngineInv'
  <2>1. r \in Remaining /\ Drops(r) /\ stale' = stale \cup ({r} \cap DOMAIN named)
        /\ UNCHANGED <<named, calls>>
    BY <1>3 DEF RemoveInstance
  <2>2. /\ RegistryKept' /\ DOMAIN registry' = DOMAIN registry
        /\ \A s \in DOMAIN registry : s # r => registry'[s] = registry[s]
    BY <1>1, <2>1, DropsIs
  <2>3. ASSUME NEW s \in (DOMAIN named)' \ stale'
        PROVE  registry'[s].is = "instance" /\ named'[s] = FunctionOf(s)'
    <3>1. s \in DOMAIN named \ stale /\ s # r /\ s \in DOMAIN registry
      BY <1>1, <2>1 DEF CacheKept
    <3> QED BY <1>1, <2>1, <2>2, <3>1 DEF CacheKept, FunctionOf
  <2>4. CacheKept'
    BY <1>1, <2>1, <2>2, <2>3 DEF CacheKept
  <2> QED BY <1>3, <2>2, <2>4, RestKept DEF EngineInv, RemoveInstance
<1>4. ASSUME NEW r \in DOMAIN registry, Redefine(r)
      PROVE  EngineInv'
  <2>1. /\ registry[r].is = "instance" /\ registry' = [registry EXCEPT ![r].version = 1]
        /\ stale' = stale \cup ({r} \cap DOMAIN named) /\ UNCHANGED <<named, calls, spare>>
    BY <1>4 DEF Redefine, Remaining
  <2> DEFINE new == [registry[r] EXCEPT !.version = 1]
  <2>2. new \in InstanceIs
    <3>1. registry[r] \in InstanceIs
      BY <1>1, <2>1 DEF RegistryKept
    <3> QED BY <3>1 DEF InstanceIs
  <2>3. new.is = "instance"
    BY <2>2 DEF InstanceIs
  <2>4. registry' = [registry EXCEPT ![r] = new]
    BY <2>1
  <2> HIDE DEF new
  <2>5. /\ DOMAIN registry' = DOMAIN registry /\ registry'[r] = new
        /\ \A s \in DOMAIN registry : s # r => registry'[s] = registry[s]
        /\ registry' = [s \in DOMAIN registry' |-> registry'[s]]
    BY <1>1, <2>4 DEF RegistryKept
  <2>6. RegistryKept'
    <3>1. \A s \in DOMAIN registry' : registry'[s].is = registry[s].is
      BY <2>1, <2>3, <2>5
    <3>2. \A s \in DOMAIN registry' : registry'[s].is = "instance" => registry'[s] \in InstanceIs
      BY <1>1, <2>2, <2>5 DEF RegistryKept
    <3>3. spare' = spare /\ spare' \in Seq(DOMAIN registry')
      BY <1>1, <2>1, <2>5 DEF RegistryKept
    <3>4. \A s \in DOMAIN registry' :
            registry'[s].is = "free" <=> \E i \in 1 .. Len(spare') : spare'[i] = s
      BY <1>1, <2>5, <3>1, <3>3 DEF RegistryKept
    <3>5. \A i, j \in 1 .. Len(spare') : spare'[i] = spare'[j] => i = j
      BY <1>1, <3>3 DEF RegistryKept
    <3>6. \E n \in 0 .. MaxHeld : DOMAIN registry' = 1 .. n
      BY <1>1, <2>5 DEF RegistryKept
    <3> QED BY <2>5, <3>2, <3>3, <3>4, <3>5, <3>6 DEF RegistryKept
  <2>7. ASSUME NEW s \in (DOMAIN named)' \ stale'
        PROVE  registry'[s].is = "instance" /\ named'[s] = FunctionOf(s)'
    <3>1. s \in DOMAIN named \ stale /\ s # r /\ s \in DOMAIN registry
      BY <1>1, <2>1 DEF CacheKept
    <3> QED BY <1>1, <2>1, <2>5, <3>1 DEF CacheKept, FunctionOf
  <2>8. CacheKept'
    BY <1>1, <2>1, <2>5, <2>7 DEF CacheKept
  <2> QED BY <1>4, <2>6, <2>8, RestKept DEF EngineInv, Redefine
<1> QED BY <1>2, <1>3, <1>4

LEMMA NoCallIs ==
  /\ NoCall \in Calls /\ ~NoCall.nested
  /\ \A f \in DOMAIN Chunks : LET c == [NoCall EXCEPT !.how = "load", !.file = f] IN
       c \in Calls /\ c.how = "load" /\ ~c.nested
  /\ \A r \in Nat : LET c == [NoCall EXCEPT !.how = "ref", !.of = r] IN
       c \in Calls /\ c.how = "ref" /\ ~c.nested
  /\ \A r \in Nat, f \in Functions : LET c == [NoCall EXCEPT !.how = "name", !.of = r, !.fun = f] IN
       c \in Calls /\ c.how = "name" /\ c.of = r /\ c.fun = f /\ ~c.nested
  /\ LET c == [NoCall EXCEPT !.how = "callback"] IN
       c \in Calls /\ c.how = "callback" /\ ~c.nested
BY DEF NoCall, Calls

LEMMA Pushing ==
  ASSUME NEW call, calls \in Seq(Calls), call \in Calls, calls' = Append(calls, call)
  PROVE  /\ Len(calls') = Len(calls) + 1 /\ Len(calls) \in Nat
         /\ \A i \in 1 .. Len(calls') : IF i = Len(calls) + 1 THEN calls'[i] = call
                                        ELSE i \in 1 .. Len(calls) /\ calls'[i] = calls[i]
OBVIOUS

(* Calls of what is not found in the cache begin.                           *)
LEMMA BeginningKeeps ==
  ASSUME EngineInv, \/ \E f \in DOMAIN Chunks : BeginLoad(f)
                    \/ \E r \in DOMAIN registry : CallByRef(r)
                    \/ CallbackRuns
  PROVE  EngineInv'
<1>1. RegistryKept /\ CacheKept /\ CallsKept /\ calls \in Seq(Calls)
  BY DEF EngineInv, CallsKept
<1>2. SUFFICES ASSUME NEW call \in Calls, calls' = Append(calls, call), Len(calls) < MaxNested,
                      ~call.nested, call.how # "name",
                      IF call.how \in {"ref", "name"} THEN luaHook' = [on |-> TRUE, of |-> Len(calls) + 1]
                      ELSE luaHook' = luaHook,
                      UNCHANGED <<globals, guard, engine, registry, spare, classes, named, stale>>
               PROVE  EngineInv'
  <2>1. ASSUME NEW f \in DOMAIN Chunks, BeginLoad(f)
        PROVE  EngineInv'
    BY <1>2, <2>1, NoCallIs DEF BeginLoad, Deeper
  <2>2. ASSUME NEW r \in DOMAIN registry, CallByRef(r)
        PROVE  EngineInv'
    <3>1. r \in Nat
      BY <1>1 DEF RegistryKept
    <3> QED BY <1>2, <2>2, <3>1, NoCallIs DEF CallByRef, Deeper, Depth
  <2>3. CASE CallbackRuns
    BY <1>2, <2>3, NoCallIs DEF CallbackRuns, Deeper
  <2> QED BY <2>1, <2>2, <2>3
<1>3. CallsKept'
  BY <1>1, <1>2, Begins
<1>4. \A i \in 1 .. Len(calls') : calls'[i].how = "name" =>
        calls'[i].of \in DOMAIN named /\ calls'[i].fun = named[calls'[i].of]
  BY <1>1, <1>2, Pushing DEF CacheKept
<1>5. CacheKept'
  BY <1>1, <1>2, <1>4, CacheCalls
<1> QED BY <1>2, <1>3, <1>5, RestKept DEF EngineInv

(* A call by name caches what the instance has, if nothing was cached.      *)
LEMMA NamingKeeps ==
  ASSUME EngineInv, NEW r \in Nat, RunNamed(r)
  PROVE  RegistryKept' /\ CacheKept' /\ CallsKept'
<1> DEFINE fun == IF r \in DOMAIN named THEN named[r] ELSE FunctionOf(r)
           call == [NoCall EXCEPT !.how = "name", !.of = r, !.fun = fun]
           what == [is |-> "function"]
<1>1. RegistryKept /\ CacheKept /\ CallsKept /\ calls \in Seq(Calls)
  BY DEF EngineInv, CallsKept
<1>2. /\ named' = [s \in DOMAIN named \cup {r} |-> IF s = r THEN fun ELSE named[s]]
      /\ calls' = Append(calls, call)
      /\ Holds(NextRef, what) /\ r \in DOMAIN registry /\ registry[r].is = "instance"
      /\ luaHook' = [on |-> TRUE, of |-> Len(calls) + 1] /\ UNCHANGED stale
      /\ Len(calls) < MaxNested
  BY DEF RunNamed, Deeper, Depth, Remaining
<1>3. fun \in Functions
  <2>1. CASE r \in DOMAIN named
    BY <1>1, <2>1 DEF CacheKept
  <2>2. CASE r \notin DOMAIN named
    <3>1. registry[r] \in InstanceIs
      BY <1>1, <1>2 DEF RegistryKept
    <3>2. FunctionOf(r) \in Functions
      BY <3>1 DEF InstanceIs, FunctionOf, Functions
    <3> QED BY <2>2, <3>2
  <2> QED BY <2>1, <2>2
<1>4. call \in Calls /\ call.how = "name" /\ call.of = r /\ call.fun = fun /\ ~call.nested
  <2> HIDE DEF fun
  <2> QED BY <1>3, NoCallIs
<1>5. what.is # "free" /\ what.is # "instance"
  OBVIOUS
<1>6. r \notin DOMAIN named \/ fun = named[r]
  OBVIOUS
<1>7. r \in DOMAIN named \/ fun = FunctionOf(r)
  OBVIOUS
<1> HIDE DEF fun, call, what
<1>8. /\ RegistryKept' /\ DOMAIN registry' = DOMAIN registry \cup {NextRef}
      /\ \A s \in DOMAIN registry : registry[s].is # "free" =>
              s # NextRef /\ registry'[s] = registry[s]
  BY <1>1, <1>2, <1>5, HoldsIs
<1>9. /\ named' \in [DOMAIN named' -> Functions] /\ DOMAIN named' = DOMAIN named \cup {r}
      /\ named'[r] = fun /\ \A s \in DOMAIN named : named'[s] = named[s]
  BY <1>1, <1>2, <1>3, <1>6 DEF CacheKept
<1>10. ASSUME NEW s \in DOMAIN named' \ stale'
       PROVE  registry'[s].is = "instance" /\ named'[s] = FunctionOf(s)'
  <2>1. s \in DOMAIN registry /\ registry[s].is = "instance" /\ named'[s] = FunctionOf(s)
    <3>1. CASE s \in DOMAIN named
      BY <1>1, <1>2, <1>9, <1>10, <3>1 DEF CacheKept
    <3>2. CASE s \notin DOMAIN named
      BY <1>2, <1>7, <1>9, <1>10, <3>2
    <3> QED BY <3>1, <3>2
  <2>2. registry'[s] = registry[s]
    BY <1>8, <2>1
  <2> QED BY <2>1, <2>2 DEF FunctionOf
<1>11. \A i \in 1 .. Len(calls') : calls'[i].how = "name" =>
         calls'[i].of \in DOMAIN named' /\ calls'[i].fun = named'[calls'[i].of]
  <2>1. ASSUME NEW i \in 1 .. Len(calls'), calls'[i].how = "name"
        PROVE  calls'[i].of \in DOMAIN named' /\ calls'[i].fun = named'[calls'[i].of]
    <3>1. CASE calls'[i] = call
      BY <1>4, <1>9, <3>1
    <3>2. CASE i \in 1 .. Len(calls) /\ calls'[i] = calls[i]
      BY <1>1, <1>9, <2>1, <3>2 DEF CacheKept
    <3> QED BY <1>1, <1>2, <1>4, <3>1, <3>2, Pushing
  <2> QED BY <2>1
<1>12. CacheKept'
  <2>1. DOMAIN named' \cup stale' \subseteq DOMAIN registry'
    BY <1>1, <1>2, <1>8, <1>9 DEF CacheKept
  <2> QED BY <1>9, <1>10, <1>11, <2>1 DEF CacheKept
<1>13. CallsKept'
  BY <1>1, <1>2, <1>4, Begins
<1> QED BY <1>8, <1>12, <1>13

LEMMA ByNameKeeps ==
  ASSUME EngineInv, StartEngine \/ \E r \in DOMAIN registry : CallByName(r)
  PROVE  EngineInv'
<1>1. RegistryKept /\ GlobalsKept
  BY DEF EngineInv
<1>2. CASE StartEngine
  <2>1. /\ engine.stage = "locked" /\ RunNamed(engine.startup) /\ engine.startup \in Nat
        /\ engine' = [engine EXCEPT !.stage = "started"] /\ UNCHANGED <<globals, guard>>
    BY <1>1, <1>2 DEF StartEngine, RunNamed, GlobalsKept
  <2>2. /\ engine' \in [stage : {"new", "open", "filled", "locked", "started"}, startup : Nat,
                        box : {"none", "_G"}]
        /\ engine'.stage = "started" /\ engine'.box = engine.box
    BY <1>1, <2>1 DEF GlobalsKept
  <2>3. GlobalsKept'
    BY <1>1, <2>1, <2>2 DEF GlobalsKept, Finds
  <2> QED BY <2>1, <2>3, NamingKeeps DEF EngineInv
<1>3. ASSUME NEW r \in DOMAIN registry, CallByName(r)
      PROVE  EngineInv'
  <2>1. RunNamed(r) /\ UNCHANGED <<globals, guard, engine>>
    BY <1>3 DEF CallByName, RunNamed
  <2>2. r \in Nat
    BY <1>1 DEF RegistryKept
  <2> QED BY <2>1, <2>2, NamingKeeps, RestKept DEF EngineInv
<1> QED BY <1>2, <1>3

(* What is left of the calls in progress when the innermost one has gone.   *)
LEMMA FrontIs ==
  ASSUME NEW S, NEW s \in Seq(S), s # <<>>
  PROVE  /\ Front(s) \in Seq(S) /\ Len(Front(s)) = Len(s) - 1
         /\ \A i \in 1 .. Len(s) - 1 : Front(s)[i] = s[i] /\ s[i] \in S
<1>1. Len(s) \in Nat /\ Len(s) # 0 /\ Len(s) - 1 \in Nat
  BY EmptySeq
<1>2. \A i \in 1 .. Len(s) - 1 : i \in 1 .. Len(s) /\ s[i] \in S
  BY <1>1
<1>3. Front(s) = [i \in 1 .. Len(s) - 1 |-> s[i]]
  BY <1>1 DEF Front
<1>4. Front(s) \in Seq(S) /\ Len(Front(s)) = Len(s) - 1
  BY <1>1, <1>2, <1>3
<1> QED BY <1>2, <1>3, <1>4

(* A call ends, or a chunk does, however it ends.                           *)
LEMMA EndingKeeps ==
  ASSUME EngineInv, \/ \E ok \in BOOLEAN : EndLoad(ok) \/ EndCall(ok)
                    \/ LimitReached
  PROVE  EngineInv'
<1>1. /\ RegistryKept /\ CacheKept /\ CallsKept /\ calls \in Seq(Calls)
      /\ luaHook \in [on : BOOLEAN, of : Returned .. MaxNested]
  BY DEF EngineInv, CallsKept
<1>2. calls # <<>> => Last(calls) = calls[Len(calls)] /\ Len(calls) \in 1 .. Len(calls)
                      /\ calls[Len(calls)] \in Calls
  BY <1>1 DEF Last
<1>3. ASSUME calls # <<>>, NEW limited \in BOOLEAN,
             limited <=> calls[Len(calls)].how \in {"ref", "name"},
             calls' \in Seq(Calls), Len(calls') = Len(calls) - 1,
             \A i \in 1 .. Len(calls) - 1 :
               /\ calls'[i].how = calls[i].how /\ calls'[i].of = calls[i].of
               /\ calls'[i].fun = calls[i].fun /\ calls'[i].nested = (calls[i].nested \/ limited),
             IF limited THEN luaHook' = NoHook \/ luaHook' = [luaHook EXCEPT !.of = Returned]
             ELSE luaHook' = luaHook
      PROVE  /\ CallsKept'
             /\ \A i \in 1 .. Len(calls') : calls'[i].how = "name" =>
                  calls'[i].of \in DOMAIN named /\ calls'[i].fun = named[calls'[i].of]
  <2>1. CallsKept'
    BY <1>1, <1>3, Ends
  <2>2. \A i \in 1 .. Len(calls') : i \in 1 .. Len(calls) - 1 /\ i \in 1 .. Len(calls)
    BY <1>1, <1>3
  <2> QED BY <1>1, <1>3, <2>1, <2>2 DEF CacheKept
<1>4. ASSUME NEW ok \in BOOLEAN, EndLoad(ok)
      PROVE  EngineInv'
  <2>1. /\ calls # <<>> /\ calls[Len(calls)].how = "load" /\ calls' = Front(calls)
        /\ UNCHANGED <<named, stale, luaHook, globals, guard, engine>>
    BY <1>2, <1>4 DEF EndLoad
  <2>2. /\ calls' \in Seq(Calls) /\ Len(calls') = Len(calls) - 1
        /\ \A i \in 1 .. Len(calls) - 1 : calls'[i] = calls[i] /\ calls[i] \in Calls
    BY <1>1, <2>1, FrontIs
  <2>3. \A i \in 1 .. Len(calls) - 1 : calls'[i].nested = (calls[i].nested \/ FALSE)
    BY <2>2 DEF Calls
  <2>4. /\ CallsKept'
        /\ \A i \in 1 .. Len(calls') : calls'[i].how = "name" =>
             calls'[i].of \in DOMAIN named /\ calls'[i].fun = named[calls'[i].of]
    BY <1>3, <2>1, <2>2, <2>3
  <2>5. GlobalsKept'
    BY <2>1, RestKept
  <2>6. CASE ~ok
    <3>1. UNCHANGED <<registry, spare>>
      BY <1>4, <2>6 DEF EndLoad
    <3>2. CacheKept'
      BY <1>1, <2>1, <2>4, <3>1, CacheCalls
    <3> QED BY <2>4, <2>5, <3>1, <3>2, RestKept DEF EngineInv
  <2>7. CASE ok
    <3> DEFINE what == [is |-> "class", of |-> Last(calls).file,
                        text |-> Processed(Chunks[Last(calls).file])]
    <3>1. what.is # "free" /\ what.is # "instance"
      OBVIOUS
    <3>2. Holds(NextRef, what)
      BY <1>4, <2>7 DEF EndLoad
    <3> HIDE DEF what
    <3>3. /\ RegistryKept' /\ DOMAIN registry' = DOMAIN registry \cup {NextRef}
          /\ \A r \in DOMAIN registry : registry[r].is # "free" =>
                  r # NextRef /\ registry'[r] = registry[r]
      BY <1>1, <3>1, <3>2, HoldsIs
    <3>4. ASSUME NEW r \in DOMAIN named \ stale
          PROVE  registry'[r].is = "instance" /\ named[r] = FunctionOf(r)'
      <4>1. r \in DOMAIN registry /\ registry[r].is = "instance" /\ named[r] = FunctionOf(r)
        BY <1>1 DEF CacheKept
      <4> QED BY <3>3, <4>1 DEF FunctionOf
    <3>5. CacheKept'
      BY <1>1, <2>1, <2>4, <3>3, <3>4 DEF CacheKept
    <3> QED BY <2>4, <2>5, <3>3, <3>5 DEF EngineInv
  <2> QED BY <2>6, <2>7
<1>5. ASSUME calls # <<>>, NEW limited \in BOOLEAN,
             limited <=> calls[Len(calls)].how \in {"ref", "name"},
             calls' = Outer(limited),
             IF limited THEN luaHook' = NoHook \/ luaHook' = [luaHook EXCEPT !.of = Returned]
             ELSE luaHook' = luaHook,
             UNCHANGED <<globals, guard, engine, registry, spare, classes, named, stale>>
      PROVE  EngineInv'
  <2>1. /\ calls' \in Seq(Calls) /\ Len(calls') = Len(calls) - 1
        /\ \A i \in 1 .. Len(calls) - 1 :
             /\ calls'[i].how = calls[i].how /\ calls'[i].of = calls[i].of
             /\ calls'[i].fun = calls[i].fun /\ calls'[i].nested = (calls[i].nested \/ limited)
    BY <1>1, <1>5, OuterIs
  <2>2. /\ CallsKept'
        /\ \A i \in 1 .. Len(calls') : calls'[i].how = "name" =>
             calls'[i].of \in DOMAIN named /\ calls'[i].fun = named[calls'[i].of]
    BY <1>3, <1>5, <2>1
  <2>3. CacheKept'
    BY <1>1, <1>5, <2>2, CacheCalls
  <2> QED BY <1>5, <2>2, <2>3, RestKept DEF EngineInv
<1>6. ASSUME NEW ok \in BOOLEAN, EndCall(ok)
      PROVE  EngineInv'
  <2> DEFINE how == calls[Len(calls)].how
             limited == how \in {"ref", "name"}
  <2>1. /\ calls # <<>> /\ how # "load" /\ calls' = Outer(limited)
        /\ luaHook' = CASE how = "callback" -> luaHook
                        [] how = "name" /\ ~ok -> [luaHook EXCEPT !.of = Returned]
                        [] OTHER -> NoHook
        /\ UNCHANGED <<globals, guard, engine, registry, spare, classes, named, stale>>
    BY <1>2, <1>6 DEF EndCall
  <2>2. how \in {"ref", "name", "callback"}
    BY <1>2, <2>1 DEF Calls
  <2> HIDE DEF how
  <2>3. IF limited THEN luaHook' = NoHook \/ luaHook' = [luaHook EXCEPT !.of = Returned]
        ELSE luaHook' = luaHook
    BY <2>1, <2>2
  <2>4. limited \in BOOLEAN /\ (limited <=> calls[Len(calls)].how \in {"ref", "name"})
    BY DEF how
  <2> HIDE DEF limited
  <2> QED BY <1>5, <2>1, <2>3, <2>4
<1>7. CASE LimitReached
  <2> DEFINE how == calls[Len(calls)].how
             limited == how \in {"ref", "name"}
  <2>1. /\ calls # <<>> /\ calls' = Outer(limited)
        /\ luaHook' = CASE how \in {"callback", "load"} -> luaHook
                        [] how = "name" -> [luaHook EXCEPT !.of = Returned]
                        [] OTHER -> NoHook
        /\ UNCHANGED <<globals, guard, engine, registry, spare, classes, named, stale>>
    BY <1>2, <1>7 DEF LimitReached
  <2>2. how \in {"ref", "name", "callback", "load"}
    BY <1>2, <2>1 DEF Calls
  <2> HIDE DEF how
  <2>3. IF limited THEN luaHook' = NoHook \/ luaHook' = [luaHook EXCEPT !.of = Returned]
        ELSE luaHook' = luaHook
    BY <2>1, <2>2
  <2>4. limited \in BOOLEAN /\ (limited <=> calls[Len(calls)].how \in {"ref", "name"})
    BY DEF how
  <2> HIDE DEF limited
  <2> QED BY <1>5, <2>1, <2>3, <2>4
<1> QED BY <1>4, <1>6, <1>7

LEMMA AdoptingKeeps ==
  ASSUME EngineInv, NEW r \in DOMAIN registry, AdoptStartup(r)
  PROVE  EngineInv'
<1>1. GlobalsKept /\ engine' = [engine EXCEPT !.startup = r] /\ UNCHANGED <<globals, guard>>
  BY DEF EngineInv, AdoptStartup
<1>2. r \in Nat
  BY DEF EngineInv, RegistryKept
<1>3. /\ engine' \in [stage : {"new", "open", "filled", "locked", "started"}, startup : Nat,
                      box : {"none", "_G"}]
      /\ engine'.stage = engine.stage /\ engine'.box = engine.box
  BY <1>1, <1>2 DEF GlobalsKept
<1>4. GlobalsKept'
  BY <1>1, <1>3 DEF GlobalsKept, Finds
<1> QED BY <1>4, RestKept DEF EngineInv, AdoptStartup

LEMMA EngineStart == LuaEngineInit => EngineInv
<1> SUFFICES ASSUME LuaEngineInit
             PROVE  EngineInv
  OBVIOUS
<1>1. RegistryKept
  <2>1. DOMAIN registry = 1 .. 0 /\ 0 \in 0 .. MaxHeld /\ spare \in Seq(DOMAIN registry) /\ Len(spare) = 0
    BY LuaEngineAssumption DEF LuaEngineInit
  <2>2. registry = [r \in DOMAIN registry |-> registry[r]] /\ \A r \in DOMAIN registry : FALSE
    BY DEF LuaEngineInit
  <2> QED BY <2>1, <2>2 DEF RegistryKept
<1>2. CacheKept
  <2>1. DOMAIN named = {} /\ stale = {} /\ Len(calls) = 0
    BY DEF LuaEngineInit
  <2>2. named \in [DOMAIN named -> Functions]
    BY DEF LuaEngineInit
  <2> QED BY <2>1, <2>2 DEF CacheKept
<1>3. CallsKept
  <2>1. calls \in Seq(Calls) /\ Len(calls) = 0 /\ luaHook = NoHook
    BY DEF LuaEngineInit
  <2>2. luaHook \in [on : BOOLEAN, of : Returned .. MaxNested]
    <3>1. 0 \in Returned .. MaxNested
      BY LuaEngineAssumption DEF Returned
    <3> QED BY <2>1, <3>1 DEF NoHook
  <2>3. HookKept(calls, luaHook)
    BY <2>1 DEF HookKept, NoHook
  <2> QED BY <2>1, <2>2, <2>3, LuaEngineAssumption DEF CallsKept
<1>4. GlobalsKept
  <2>1. DOMAIN globals = {} /\ globals = [n \in DOMAIN globals |-> globals[n]]
    BY DEF LuaEngineInit
  <2> QED BY <2>1 DEF LuaEngineInit, GlobalsKept
<1> QED BY <1>1, <1>2, <1>3, <1>4 DEF EngineInv

LEMMA EngineStep == EngineInv /\ [LuaEngineNext]_engineVars => EngineInv'
<1> SUFFICES ASSUME EngineInv, [LuaEngineNext]_engineVars
             PROVE  EngineInv'
  OBVIOUS
<1>1. CASE UNCHANGED engineVars
  BY <1>1, RestKept DEF engineVars, EngineInv
<1>2. CASE LuaEngineNext
  BY <1>2, CreatingKeeps, WritingKeeps, InstancesKeep, BeginningKeeps, ByNameKeeps, EndingKeeps,
     AdoptingKeeps DEF LuaEngineNext
<1> QED BY <1>1, <1>2

(* References, cached functions, calls with their limits and globals stay   *)
(* consistent.                                                              *)
THEOREM EngineInvariance == LuaEngineSpec => []EngineInv
<1> QED BY EngineStart, EngineStep, PTL DEF LuaEngineSpec

(* A set of numbers up to a bound has a largest one.                        *)
LEMMA LargestIs ==
  ASSUME NEW n \in Nat, NEW S, S \subseteq 1 .. n, S # {}
  PROVE  \E m \in S : \A k \in S : k <= m
<1> DEFINE T == {n - k : k \in S}
<1>1. \A k \in S : n - k \in Nat
  OBVIOUS
<1>2. T \in SUBSET Nat /\ T # {}
  BY <1>1
<1>3. PICK t \in T : \A u \in T : t <= u
  BY <1>2, MinIs
<1>4. PICK m \in S : t = n - m
  BY <1>3
<1>5. ASSUME NEW k \in S
      PROVE  k <= m
  <2>1. n - k \in T
    OBVIOUS
  <2>2. n - m <= n - k
    BY <1>3, <1>4, <2>1
  <2> QED BY <2>2
<1> QED BY <1>5

LEMMA FindsWhatIsRegistered == EngineInv => FindsRegistered
BY DEF EngineInv, GlobalsKept, Finds, FindsRegistered, Ready

LEMMA KeepsLimits == EngineInv => LimitsKept
<1> SUFFICES ASSUME EngineInv, calls # <<>>, luaHook.of # Returned
             PROVE  IF Limiting = {} THEN ~luaHook.on
                    ELSE luaHook.on <=> ~calls[Innermost].nested /\ (luaHook.on => luaHook.of = Innermost)
  BY DEF LimitsKept
<1>1. /\ Len(calls) \in Nat /\ calls \in Seq(Calls)
      /\ luaHook.on \in BOOLEAN /\ luaHook.of \in Int /\ Limiting \subseteq 1 .. Len(calls)
  BY LuaEngineAssumption DEF EngineInv, CallsKept, Limiting, Depth, Returned
<1>2. CASE luaHook.on
  <2>1. /\ luaHook.of \in Limiting /\ ~calls[luaHook.of].nested
        /\ \A i \in Limiting : i <= luaHook.of
    BY <1>1, <1>2 DEF EngineInv, CallsKept, HookKept, Limiting, Depth
  <2>2. ASSUME NEW i \in Limiting, \A j \in Limiting : j <= i
        PROVE  i = luaHook.of
    <3>1. i <= luaHook.of /\ luaHook.of <= i /\ i \in Int
      BY <1>1, <2>1, <2>2
    <3> QED BY <1>1, <3>1
  <2>3. Innermost = luaHook.of
    BY <2>1, <2>2 DEF Innermost
  <2> QED BY <1>2, <2>1, <2>3
<1>3. CASE ~luaHook.on
  <2>1. \A i \in Limiting : calls[i].nested
    BY <1>3 DEF EngineInv, CallsKept, HookKept, Limiting, Depth
  <2>2. ASSUME Limiting # {}
        PROVE  Innermost \in Limiting
    <3>1. \E i \in Limiting : \A j \in Limiting : j <= i
      BY <1>1, <2>2, LargestIs
    <3> QED BY <3>1 DEF Innermost
  <2> QED BY <1>3, <2>1, <2>2
<1> QED BY <1>1, <1>2, <1>3

LEMMA CallsWhatIsNamed == EngineInv => CallsItsFunction
<1> SUFFICES ASSUME EngineInv, NEW i \in 1 .. Depth, calls[i].how = "name", calls[i].of \notin stale
             PROVE  calls[i].fun = FunctionOf(calls[i].of)
  BY DEF CallsItsFunction
<1>1. /\ calls[i].of \in DOMAIN named \ stale /\ calls[i].fun = named[calls[i].of]
      /\ \A r \in DOMAIN named \ stale : named[r] = FunctionOf(r)
  BY DEF EngineInv, CacheKept, Depth
<1> QED BY <1>1

(* A script finds everything that the engine registers, a function that C   *)
(* calls runs under its own limits until it has made C call another one     *)
(* (and not, as lua_engine.h promises, until it returns), and a call by name *)
(* reaches the function of the instance: for any scripts, any number of     *)
(* references and calls within each other to any depth.                     *)
THEOREM EngineKeepsWord == LuaEngineSpec => []LuaKeepsWord
<1>1. EngineInv => LuaKeepsWord
  BY FindsWhatIsRegistered, KeepsLimits, CallsWhatIsNamed DEF LuaKeepsWord
<1> QED BY <1>1, EngineInvariance, PTL

(* The references are numbered without a gap, the free ones are those that  *)
(* wait to be used again, and what is cached is of references.              *)
THEOREM EngineTypes == LuaEngineSpec => []LuaEngineTypeOK
<1>1. ASSUME EngineInv
      PROVE  LuaEngineTypeOK
  <2>1. DOMAIN registry = 1 .. Cardinality(DOMAIN registry) /\ Cardinality(DOMAIN registry) <= MaxHeld
    <3>1. PICK n \in 0 .. MaxHeld : DOMAIN registry = 1 .. n
      BY <1>1 DEF EngineInv, RegistryKept
    <3>2. n \in Nat /\ n <= MaxHeld
      BY <3>1, LuaEngineAssumption
    <3>3. Cardinality(1 .. n) = n
      BY <3>2, FS_Interval
    <3> QED BY <3>1, <3>2, <3>3
  <2>2. ToSet(spare) = {r \in DOMAIN registry : registry[r].is = "free"}
    <3>1. /\ spare \in Seq(DOMAIN registry)
          /\ \A r \in DOMAIN registry : registry[r].is = "free" <=> \E i \in 1 .. Len(spare) : spare[i] = r
      BY <1>1 DEF EngineInv, RegistryKept
    <3>2. DOMAIN spare = 1 .. Len(spare) /\ \A i \in 1 .. Len(spare) : spare[i] \in DOMAIN registry
      BY <3>1
    <3>3. ToSet(spare) = {spare[i] : i \in 1 .. Len(spare)}
      BY <3>2 DEF ToSet
    <3> QED BY <3>1, <3>2, <3>3
  <2>3. /\ DOMAIN globals \subseteq Library \cup Registered \cup {Late, "own"}
        /\ guard \in {"none", "newindex", "sealed"}
    BY <1>1 DEF EngineInv, GlobalsKept
  <2>4. DOMAIN named \cup stale \subseteq DOMAIN registry
    BY <1>1 DEF EngineInv, CacheKept
  <2>5. Depth <= MaxNested /\ luaHook.on \in BOOLEAN /\ luaHook.of \in Returned .. MaxNested
    BY <1>1 DEF EngineInv, CallsKept, Depth
  <2> QED BY <2>1, <2>2, <2>3, <2>4, <2>5 DEF LuaEngineTypeOK
<1> QED BY <1>1, EngineInvariance, PTL
-----------------------------------------------------------------------------
(* The lines of shapes.                                                     *)

(* What a line and its userdata are to each other.                          *)
Tied(o) ==
  /\ \A p \in o.points : o.proxy[p] \in {"held", "dropped"}
  /\ IF Line!Anchored(o) THEN o.anchor \in o.points /\ o.count >= 1 ELSE o.count = 0
  /\ o.freed => o.count = 0

Thread(o) == o \in Line!Objects /\ Tied(o)

LEMMA ThreadFields ==
  ASSUME NEW o \in Line!Objects
  PROVE  /\ o.freed \in BOOLEAN /\ o.count \in Nat /\ o.anchor \in {0} \cup 1..PolyProxies
         /\ o.proxy \in [1..PolyProxies -> {"none", "held", "dropped", "collected"}]
         /\ o.points \subseteq 1..PolyProxies
         /\ o = [freed |-> o.freed, count |-> o.count, anchor |-> o.anchor, proxy |-> o.proxy, points |-> o.points]
         /\ o # <<>>
<1>1. o = [freed |-> o.freed, count |-> o.count, anchor |-> o.anchor, proxy |-> o.proxy, points |-> o.points]
  BY DEF Line!Objects
<1>2. o # <<>>
  <2>1. "freed" \in DOMAIN o
    BY DEF Line!Objects
  <2>2. DOMAIN <<>> = {}
    OBVIOUS
  <2> QED BY <2>1, <2>2
<1> QED BY <1>1, <1>2 DEF Line!Objects, Line!Nowhere, Line!Proxies

LEMMA ThreadMade ==
  ASSUME NEW f \in BOOLEAN, NEW n \in Nat, NEW a \in {0} \cup 1..PolyProxies,
         NEW x \in [1..PolyProxies -> {"none", "held", "dropped", "collected"}], NEW P \in SUBSET (1..PolyProxies)
  PROVE  [freed |-> f, count |-> n, anchor |-> a, proxy |-> x, points |-> P] \in Line!Objects
BY DEF Line!Objects, Line!Nowhere, Line!Proxies

LEMMA UnusedIs ==
  ASSUME ShapesAssumption, NEW o, Line!Unused(o) # {}
  PROVE  LET p == Line!Min(Line!Unused(o)) IN p \in 1..PolyProxies /\ o.proxy[p] = "none"
<1>1. Line!Unused(o) \in SUBSET Nat
  BY DEF ShapesAssumption, Line!Unused, Line!Proxies
<1>2. Line!Min(Line!Unused(o)) = Min(Line!Unused(o))
  BY DEF Line!Min, Min
<1>3. Line!Min(Line!Unused(o)) \in Line!Unused(o)
  BY <1>1, <1>2, MinIs
<1> QED BY <1>3 DEF Line!Unused, Line!Proxies

LEMMA ThreadMore ==
  ASSUME ShapesAssumption, NEW o, Thread(o), Line!Unused(o) # {}, NEW state \in {"held", "dropped"}
  PROVE  LET n == Line!NewProxy(o, state) p == Line!Min(Line!Unused(o)) IN
           /\ n \in Line!Objects /\ p \in n.points
           /\ \A q \in n.points : n.proxy[q] \in {"held", "dropped"}
           /\ n.freed = o.freed /\ n.count = o.count /\ n.anchor = o.anchor
           /\ o.points \subseteq n.points
<1> DEFINE p == Line!Min(Line!Unused(o))
           n == Line!NewProxy(o, state)
           x == [o.proxy EXCEPT ![p] = state]
           P == o.points \cup {p}
<1>1. p \in 1..PolyProxies
  BY UnusedIs
<1>2. o \in Line!Objects /\ \A q \in o.points : o.proxy[q] \in {"held", "dropped"}
  BY DEF Thread, Tied
<1>3. n = [o EXCEPT !.proxy[p] = state, !.points = P]
  BY DEF Line!NewProxy
<1> HIDE DEF p
<1>4. n = [freed |-> o.freed, count |-> o.count, anchor |-> o.anchor, proxy |-> x, points |-> P]
  BY <1>2, <1>3, ThreadFields
<1>5. /\ o.freed \in BOOLEAN /\ o.count \in Nat /\ o.anchor \in {0} \cup 1..PolyProxies
      /\ o.proxy \in [1..PolyProxies -> {"none", "held", "dropped", "collected"}]
      /\ o.points \subseteq 1..PolyProxies
  BY <1>2, ThreadFields
<1>6. x \in [1..PolyProxies -> {"none", "held", "dropped", "collected"}] /\ P \in SUBSET (1..PolyProxies)
  BY <1>1, <1>5
<1>7. \A q \in P : x[q] \in {"held", "dropped"}
  BY <1>1, <1>2, <1>5
<1> HIDE DEF n, x, P
<1>8. n \in Line!Objects
  BY <1>4, <1>5, <1>6, ThreadMade
<1>9. n.freed = o.freed /\ n.count = o.count /\ n.anchor = o.anchor /\ n.points = P /\ n.proxy = x
  BY <1>4
<1>10. p \in P /\ o.points \subseteq P
  BY DEF P
<1> QED BY <1>7, <1>8, <1>9, <1>10 DEF n, p

(* Taking a reference.                                                      *)
LEMMA ThreadRef ==
  ASSUME ShapesAssumption, NEW o, Thread(o), ~o.freed, Line!Anchored(o) \/ Line!Unused(o) # {}
  PROVE  Thread(Line!Ref(o)) /\ Line!Ref(o).count = o.count + 1 /\ Line!Ref(o).freed = o.freed
<1>0. o \in Line!Objects /\ o.count \in Nat
  BY ThreadFields DEF Thread
<1>1. CASE Line!Anchored(o)
  <2> DEFINE n == Line!Ref(o)
  <2>1. n = [o EXCEPT !.count = o.count + 1]
    BY <1>1 DEF Line!Ref
  <2>2. n = [freed |-> o.freed, count |-> o.count + 1, anchor |-> o.anchor, proxy |-> o.proxy, points |-> o.points]
    BY <1>0, <2>1, ThreadFields
  <2> HIDE DEF n
  <2>3. n.freed = o.freed /\ n.count = o.count + 1 /\ n.anchor = o.anchor /\ n.points = o.points /\ n.proxy = o.proxy
    BY <2>2
  <2>4. o.count + 1 \in Nat /\ o.count + 1 >= 1
    BY <1>0
  <2>5. n \in Line!Objects
    BY <1>0, <2>2, <2>4, ThreadFields, ThreadMade
  <2>6. Tied(n)
    BY <1>1, <2>3, <2>4 DEF Thread, Tied, Line!Anchored
  <2> QED BY <2>3, <2>5, <2>6 DEF Thread, n
<1>2. CASE ~Line!Anchored(o)
  <2> DEFINE m == Line!NewProxy(o, "dropped")
             p == Line!Min(Line!Unused(o))
             n == Line!Ref(o)
  <2>1. /\ m \in Line!Objects /\ p \in m.points /\ \A q \in m.points : m.proxy[q] \in {"held", "dropped"}
        /\ m.freed = o.freed
    BY <1>2, ThreadMore
  <2>2. n = [m EXCEPT !.anchor = p, !.count = 1]
    BY <1>2 DEF Line!Ref
  <2> HIDE DEF m, p, n
  <2>3. n = [freed |-> m.freed, count |-> 1, anchor |-> p, proxy |-> m.proxy, points |-> m.points]
    <3>1. m = [freed |-> m.freed, count |-> m.count, anchor |-> m.anchor, proxy |-> m.proxy, points |-> m.points]
      BY <2>1, ThreadFields
    <3> QED BY <2>2, <3>1
  <2>4. n.freed = m.freed /\ n.count = 1 /\ n.anchor = p /\ n.points = m.points /\ n.proxy = m.proxy
    BY <2>3
  <2>5. p \in 1..PolyProxies /\ p # 0
    BY <2>1, ThreadFields
  <2>6. n \in Line!Objects
    BY <2>1, <2>3, <2>5, ThreadFields, ThreadMade
  <2>7. Tied(n)
    BY <2>1, <2>4, <2>5 DEF Tied, Line!Anchored, Line!Nowhere
  <2>8. o.count = 0
    BY <1>2 DEF Thread, Tied
  <2> QED BY <2>1, <2>4, <2>6, <2>7, <2>8 DEF Thread, n
<1> QED BY <1>1, <1>2

(* Giving one back.                                                         *)
LEMMA ThreadUnref ==
  ASSUME ShapesAssumption, NEW o, Thread(o)
  PROVE  LET n == Line!Unref(o) IN
           /\ Thread(n) /\ n.count = IF o.count = 0 THEN 0 ELSE o.count - 1
           /\ n.freed = o.freed /\ Line!Unused(n) = Line!Unused(o)
<1>0. o \in Line!Objects /\ o.count \in Nat
  BY ThreadFields DEF Thread
<1>1. CASE ~Line!Anchored(o)
  <2>1. Line!Unref(o) = o /\ o.count = 0
    BY <1>1 DEF Line!Unref, Thread, Tied
  <2> QED BY <2>1
<1>2. CASE Line!Anchored(o)
  <2> DEFINE n == Line!Unref(o)
             a == IF o.count = 1 THEN 0 ELSE o.anchor
  <2>1. n = [o EXCEPT !.count = o.count - 1, !.anchor = a, !.points = o.points]
    BY <1>2 DEF Line!Unref, Common, Line!Nowhere
  <2>2. n = [freed |-> o.freed, count |-> o.count - 1, anchor |-> a, proxy |-> o.proxy, points |-> o.points]
    BY <1>0, <2>1, ThreadFields
  <2>3. o.count >= 1 /\ o.count - 1 \in Nat /\ o.anchor \in o.points
    BY <1>0, <1>2 DEF Thread, Tied
  <2>4. a \in {0} \cup 1..PolyProxies
    BY <1>0, ThreadFields
  <2>5. a # 0 <=> o.count # 1
    BY <1>2 DEF Line!Anchored, Line!Nowhere
  <2>6. a # 0 => a = o.anchor
    OBVIOUS
  <2> HIDE DEF n, a
  <2>7. n.freed = o.freed /\ n.count = o.count - 1 /\ n.anchor = a /\ n.points = o.points /\ n.proxy = o.proxy
    BY <2>2
  <2>8. n \in Line!Objects
    BY <1>0, <2>2, <2>3, <2>4, ThreadFields, ThreadMade
  <2>9. Tied(n)
    <3>1. Line!Anchored(n) <=> o.count # 1
      BY <2>5, <2>7 DEF Line!Anchored, Line!Nowhere
    <3>2. \A p \in n.points : n.proxy[p] \in {"held", "dropped"}
      BY <2>7 DEF Thread, Tied
    <3>3. CASE o.count = 1
      BY <2>7, <3>1, <3>2, <3>3 DEF Tied
    <3>4. CASE o.count # 1
      <4>1. n.count >= 1 /\ n.anchor = o.anchor
        BY <1>0, <2>3, <2>5, <2>6, <2>7, <3>4
      <4>2. ~n.freed
        BY <1>0, <2>3, <2>7 DEF Thread, Tied
      <4> QED BY <2>3, <2>7, <3>1, <3>2, <3>4, <4>1, <4>2 DEF Tied
    <3> QED BY <3>3, <3>4
  <2>10. Line!Unused(n) = Line!Unused(o)
    BY <2>7 DEF Line!Unused
  <2>11. o.count # 0
    BY <1>0, <2>3
  <2> QED BY <2>7, <2>8, <2>9, <2>10, <2>11 DEF Thread, n
<1> QED BY <1>1, <1>2

LEMMA ThreadDestroyed ==
  ASSUME ShapesAssumption, NEW o, Thread(o)
  PROVE  Thread(Line!Destroyed(o)) /\ Line!Destroyed(o).count <= o.count
<1> DEFINE u == Line!Unref(o)
           n == Line!Destroyed(o)
           f == ~Line!Anchored(o) \/ (Common.counts /\ ~Line!Anchored(u))
<1>1. Thread(u) /\ u.count = IF o.count = 0 THEN 0 ELSE o.count - 1
  BY ThreadUnref
<1>2. n = [u EXCEPT !.freed = f]
  BY DEF Line!Destroyed
<1>3. f \in BOOLEAN
  BY DEF Common
<1>4. u \in Line!Objects /\ u.count \in Nat /\ o.count \in Nat
  BY <1>1, ThreadFields DEF Thread
<1> HIDE DEF u, n, f
<1>5. n = [freed |-> f, count |-> u.count, anchor |-> u.anchor, proxy |-> u.proxy, points |-> u.points]
  BY <1>2, <1>4, ThreadFields
<1>6. n \in Line!Objects
  BY <1>3, <1>4, <1>5, ThreadFields, ThreadMade
<1>7. n.count = u.count /\ n.anchor = u.anchor /\ n.points = u.points /\ n.proxy = u.proxy
  BY <1>5
<1>8. n.freed => n.count = 0
  <2>1. n.freed = f
    BY <1>5
  <2>2. f => o.count = 0
    BY DEF f, Common, Thread, Tied
  <2> QED BY <1>1, <1>7, <2>1, <2>2
<1>9. u.count <= o.count
  BY <1>1, <1>4
<1>10. Tied(n)
  BY <1>1, <1>7, <1>8 DEF Thread, Tied, Line!Anchored
<1> QED BY <1>6, <1>7, <1>9, <1>10 DEF Thread, n

(* Handing it to a script.                                                  *)
LEMMA ThreadPushed ==
  ASSUME ShapesAssumption, NEW o, Thread(o), Line!Anchored(o) \/ Line!Unused(o) # {}
  PROVE  Thread(Line!Pushed(o)) /\ Line!Pushed(o).count = o.count /\ Line!Pushed(o).freed = o.freed
<1>0. o \in Line!Objects
  BY DEF Thread
<1>1. CASE Line!Anchored(o)
  <2> DEFINE n == Line!Pushed(o)
             x == [o.proxy EXCEPT ![o.anchor] = "held"]
  <2>1. n = [o EXCEPT !.proxy[o.anchor] = "held"]
    BY <1>1 DEF Line!Pushed
  <2>2. n = [freed |-> o.freed, count |-> o.count, anchor |-> o.anchor, proxy |-> x, points |-> o.points]
    BY <1>0, <2>1, ThreadFields
  <2>3. o.anchor \in o.points /\ o.points \subseteq 1..PolyProxies
    BY <1>0, <1>1, ThreadFields DEF Thread, Tied
  <2>4. x \in [1..PolyProxies -> {"none", "held", "dropped", "collected"}]
    BY <1>0, <2>3, ThreadFields
  <2>5. \A p \in o.points : x[p] \in {"held", "dropped"}
    BY <1>0, <2>3, ThreadFields DEF Thread, Tied
  <2> HIDE DEF n, x
  <2>6. n.freed = o.freed /\ n.count = o.count /\ n.anchor = o.anchor /\ n.points = o.points /\ n.proxy = x
    BY <2>2
  <2>7. n \in Line!Objects
    BY <1>0, <2>2, <2>4, ThreadFields, ThreadMade
  <2>8. Tied(n)
    BY <1>1, <2>5, <2>6 DEF Thread, Tied, Line!Anchored
  <2> QED BY <2>6, <2>7, <2>8 DEF Thread, n
<1>2. CASE ~Line!Anchored(o)
  <2> DEFINE n == Line!NewProxy(o, "held")
  <2>1. Line!Pushed(o) = n
    BY <1>2 DEF Line!Pushed, Common
  <2>2. /\ n \in Line!Objects /\ \A q \in n.points : n.proxy[q] \in {"held", "dropped"}
        /\ n.freed = o.freed /\ n.count = o.count /\ n.anchor = o.anchor
    BY <1>2, ThreadMore
  <2> HIDE DEF n
  <2>3. Tied(n)
    BY <1>2, <2>2 DEF Thread, Tied, Line!Anchored
  <2> QED BY <2>1, <2>2, <2>3 DEF Thread
<1> QED BY <1>1, <1>2

(* A new line, which has no userdata yet.                                   *)
LEMMA ThreadUnmade ==
  ASSUME ShapesAssumption
  PROVE  /\ Thread(Line!Unmade) /\ Line!Unmade.count = 0 /\ ~Line!Unmade.freed
         /\ ~Line!Anchored(Line!Unmade) /\ Line!Unused(Line!Unmade) # {}
<1> DEFINE o == Line!Unmade
<1>1. o = [freed |-> FALSE, count |-> 0, anchor |-> 0, proxy |-> [p \in 1..PolyProxies |-> "none"], points |-> {}]
  BY DEF Line!Unmade, Line!Nowhere, Line!Proxies
<1> HIDE DEF o
<1>2. o.count = 0 /\ ~o.freed /\ o.anchor = 0 /\ o.points = {} /\ o.proxy = [p \in 1..PolyProxies |-> "none"]
  BY <1>1
<1>3. o \in Line!Objects
  BY <1>1, ThreadMade
<1>4. ~Line!Anchored(o)
  BY <1>2 DEF Line!Anchored, Line!Nowhere
<1>5. 1 \in Line!Unused(o)
  BY <1>2 DEF Line!Unused, Line!Proxies, ShapesAssumption
<1>6. Tied(o)
  BY <1>2, <1>4 DEF Tied
<1> QED BY <1>2, <1>3, <1>4, <1>5, <1>6 DEF o, Thread

-----------------------------------------------------------------------------
(* The entries of shapes: pool are the lines, sh the shapes, tk the lines   *)
(* that dying shapes took.                                                  *)

ShapeRecords == [lines : Seq(PolyIds), cap : Nat \ {0}, lives : BOOLEAN]
Shelf == [ShapeIds -> ShapeRecords]
In(sh, s, l) == Occurs(sh[s].lines, l)
Ins(sh, l) == [s \in ShapeIds |-> In(sh, s, l)]
Unlisted(sh, l) == \A s \in ShapeIds : l \notin ToSet(sh[s].lines)

(* A line has as many references as entries, or is one that a dying shape   *)
(* took from another; lines are born in order.                              *)
LineOK(pool, sh, tk, l) ==
  /\ pool[l] # <<>> => /\ Thread(pool[l]) /\ pool[l].count <= EntriesIn(sh, l)
                       /\ l \notin tk => pool[l].count = EntriesIn(sh, l)
  /\ pool[l] = <<>> => \A k \in PolyIds : l < k => pool[k] = <<>>

ShapeOK(pool, sh, tk, s) ==
  /\ ~sh[s].lives => sh[s].lines = <<>>
  /\ sh[s].lives => Len(sh[s].lines) <= sh[s].cap
  /\ \A l \in ToSet(sh[s].lines) : pool[l] # <<>> /\ (l \in tk \/ ~pool[l].freed)

Good(pool, sh, tk) ==
  /\ pool = [l \in PolyIds |-> pool[l]] /\ sh \in Shelf /\ tk \in SUBSET PolyIds
  /\ \A l \in PolyIds : LineOK(pool, sh, tk, l)
  /\ \A s \in ShapeIds : ShapeOK(pool, sh, tk, s)

LEMMA EntriesAre ==
  ASSUME NEW sh, NEW l
  PROVE  EntriesIn(sh, l) = Sum(Ins(sh, l), ShapeIds)
<1> DEFINE in == [s \in ShapeIds |-> Cardinality({i \in DOMAIN sh[s].lines : sh[s].lines[i] = l})]
<1>1. in = Ins(sh, l)
  BY DEF Ins, In, Occurs
<1>2. EntriesIn(sh, l) = Sum(in, ShapeIds)
  BY DEF EntriesIn, Sum
<1> HIDE DEF in
<1> QED BY <1>1, <1>2

LEMMA ShapeIs ==
  ASSUME NEW sh \in Shelf, NEW s \in ShapeIds
  PROVE  /\ sh[s].lines \in Seq(PolyIds) /\ sh[s].cap \in Nat \ {0} /\ sh[s].lives \in BOOLEAN
         /\ DOMAIN sh[s].lines = 1..Len(sh[s].lines) /\ Len(sh[s].lines) \in Nat
         /\ ToSet(sh[s].lines) = {sh[s].lines[i] : i \in 1..Len(sh[s].lines)}
         /\ ToSet(sh[s].lines) \subseteq PolyIds
<1>1. sh[s].lines \in Seq(PolyIds) /\ sh[s].cap \in Nat \ {0} /\ sh[s].lives \in BOOLEAN
  BY DEF Shelf, ShapeRecords
<1>2. DOMAIN sh[s].lines = 1..Len(sh[s].lines) /\ Len(sh[s].lines) \in Nat
  BY <1>1, LenProperties
<1>3. ToSet(sh[s].lines) = {sh[s].lines[i] : i \in 1..Len(sh[s].lines)}
  BY <1>2 DEF ToSet
<1>4. \A i \in 1..Len(sh[s].lines) : sh[s].lines[i] \in PolyIds
  BY <1>1, <1>2
<1> QED BY <1>1, <1>2, <1>3, <1>4

LEMMA InIs ==
  ASSUME NEW sh \in Shelf, NEW s \in ShapeIds, NEW l
  PROVE  In(sh, s, l) \in Nat /\ (In(sh, s, l) = 0 <=> l \notin ToSet(sh[s].lines))
<1>1. sh[s].lines \in Seq(PolyIds) /\ ToSet(sh[s].lines) = {sh[s].lines[i] : i \in 1..Len(sh[s].lines)}
  BY ShapeIs
<1>2. In(sh, s, l) \in Nat /\ (In(sh, s, l) = 0 <=> \A i \in 1..Len(sh[s].lines) : sh[s].lines[i] # l)
  BY <1>1, OccursIs DEF In
<1> QED BY <1>1, <1>2

(* What the shapes have of a line is what one has and what the others have. *)
LEMMA EntriesSplit ==
  ASSUME ShapesAssumption, NEW sh \in Shelf, NEW s \in ShapeIds, NEW l
  PROVE  LET rest == Sum(Ins(sh, l), ShapeIds \ {s}) IN
           EntriesIn(sh, l) = In(sh, s, l) + rest /\ rest \in Nat /\ In(sh, s, l) \in Nat
<1>1. \A t \in ShapeIds : Ins(sh, l)[t] = In(sh, t, l) /\ In(sh, t, l) \in Nat
  BY InIs DEF Ins
<1>2. Counting(Ins(sh, l), ShapeIds)
  BY <1>1 DEF Counting
<1>3. IsFiniteSet(ShapeIds)
  BY DEF ShapesAssumption
<1>4. /\ Sum(Ins(sh, l), ShapeIds \ {s}) \in Nat
      /\ Sum(Ins(sh, l), ShapeIds) = Ins(sh, l)[s] + Sum(Ins(sh, l), ShapeIds \ {s})
  BY <1>2, <1>3, SumWithout
<1> QED BY <1>1, <1>4, EntriesAre

(* Of the lists only that of s changes.                                     *)
LEMMA EntriesThen ==
  ASSUME ShapesAssumption, NEW sh \in Shelf, NEW to \in Shelf, NEW s \in ShapeIds, NEW l,
         \A t \in ShapeIds \ {s} : to[t].lines = sh[t].lines
  PROVE  EntriesIn(to, l) + In(sh, s, l) = EntriesIn(sh, l) + In(to, s, l)
<1> DEFINE T == ShapeIds \ {s}
<1>1. IsFiniteSet(T)
  BY FS_RemoveElement DEF ShapesAssumption
<1>2. \A t \in T : Ins(sh, l)[t] = Ins(to, l)[t]
  BY DEF Ins, In
<1>3. Sum(Ins(sh, l), T) = Sum(Ins(to, l), T)
  <2> HIDE DEF T
  <2> QED BY <1>1, <1>2, SumSame
<1>4. /\ EntriesIn(sh, l) = In(sh, s, l) + Sum(Ins(sh, l), T)
      /\ EntriesIn(to, l) = In(to, s, l) + Sum(Ins(to, l), T)
      /\ Sum(Ins(sh, l), T) \in Nat /\ In(sh, s, l) \in Nat /\ In(to, s, l) \in Nat
  BY EntriesSplit
<1> HIDE DEF T
<1> QED BY <1>3, <1>4

LEMMA EntriesNone ==
  ASSUME ShapesAssumption, NEW sh \in Shelf, NEW l, Unlisted(sh, l)
  PROVE  EntriesIn(sh, l) = 0
<1>1. \A t \in ShapeIds : Ins(sh, l)[t] = 0
  BY InIs DEF Ins, Unlisted
<1>2. Sum(Ins(sh, l), ShapeIds) = 0 * Cardinality(ShapeIds) /\ Cardinality(ShapeIds) \in Nat
  <2>1. IsFiniteSet(ShapeIds)
    BY DEF ShapesAssumption
  <2> QED BY <1>1, <2>1, SumConstant, FS_CardinalityType
<1> QED BY <1>2, EntriesAre

LEMMA EntriesSome ==
  ASSUME ShapesAssumption, NEW sh \in Shelf, NEW t \in ShapeIds, NEW l \in ToSet(sh[t].lines)
  PROVE  EntriesIn(sh, l) \in Nat \ {0}
<1>1. In(sh, t, l) \in Nat /\ In(sh, t, l) # 0
  BY InIs
<1>2. EntriesIn(sh, l) = In(sh, t, l) + Sum(Ins(sh, l), ShapeIds \ {t})
      /\ Sum(Ins(sh, l), ShapeIds \ {t}) \in Nat
  BY EntriesSplit
<1> QED BY <1>1, <1>2

LEMMA EntriesCount ==
  ASSUME ShapesAssumption, NEW sh \in Shelf, NEW l
  PROVE  EntriesIn(sh, l) \in Nat
BY EntriesNone, EntriesSome DEF Unlisted

(* What a line has of references that can be counted on.                    *)
References(pool, l) == IF pool[l] = <<>> THEN 0 ELSE pool[l].count

Newest(pool, l) == pool[l] = <<>> /\ \A k \in PolyIds : k < l => pool[k] # <<>>

LEMMA ReferencesAre ==
  ASSUME ShapesAssumption, NEW pool, NEW sh, NEW tk, Good(pool, sh, tk), NEW l \in PolyIds
  PROVE  /\ References(pool, l) \in Nat /\ EntriesIn(sh, l) \in Nat
         /\ References(pool, l) <= EntriesIn(sh, l)
         /\ l \notin tk => References(pool, l) = EntriesIn(sh, l)
         /\ pool[l] # <<>> => Thread(pool[l]) /\ pool[l] \in Line!Objects /\ pool[l].count = References(pool, l)
<1>1. LineOK(pool, sh, tk, l) /\ sh \in Shelf /\ \A s \in ShapeIds : ShapeOK(pool, sh, tk, s)
  BY DEF Good
<1>2. EntriesIn(sh, l) \in Nat
  BY <1>1, EntriesCount
<1>3. CASE pool[l] # <<>>
  <2>1. Thread(pool[l]) /\ pool[l] \in Line!Objects
    BY <1>1, <1>3 DEF LineOK, Thread
  <2>2. pool[l].count \in Nat
    BY <2>1, ThreadFields
  <2> QED BY <1>1, <1>2, <1>3, <2>1, <2>2 DEF LineOK, References
<1>4. CASE pool[l] = <<>>
  <2>1. Unlisted(sh, l)
    BY <1>1, <1>4 DEF ShapeOK, Unlisted
  <2>2. EntriesIn(sh, l) = 0
    BY <1>1, <2>1, EntriesNone
  <2> QED BY <1>4, <2>2 DEF References
<1> QED BY <1>3, <1>4

(* One line changes, and the lists change by entries of it.                 *)
Suits(pool, sh, tk, l, o, to) ==
  /\ pool[l] # <<>> \/ Newest(pool, l)
  /\ Thread(o)
  /\ o.count = 0 \/ o.count + EntriesIn(sh, l) <= References(pool, l) + EntriesIn(to, l)
  /\ l \notin tk => o.count + EntriesIn(sh, l) = References(pool, l) + EntriesIn(to, l)
  /\ \A k \in PolyIds \ {l} : EntriesIn(to, k) = EntriesIn(sh, k)
  /\ \A t \in ShapeIds :
       /\ ~to[t].lives => to[t].lines = <<>>
       /\ to[t].lives => Len(to[t].lines) <= to[t].cap
       /\ ToSet(to[t].lines) \subseteq ToSet(sh[t].lines) \cup {l}

LEMMA OneLineKeeps ==
  ASSUME ShapesAssumption, NEW pool, NEW sh, NEW tk, Good(pool, sh, tk),
         NEW l \in PolyIds, NEW o, NEW to \in Shelf, Suits(pool, sh, tk, l, o, to)
  PROVE  Good([pool EXCEPT ![l] = o], to, tk)
<1> DEFINE next == [pool EXCEPT ![l] = o]
<1>1. /\ pool = [k \in PolyIds |-> pool[k]] /\ sh \in Shelf /\ tk \in SUBSET PolyIds
      /\ (\A k \in PolyIds : LineOK(pool, sh, tk, k)) /\ \A t \in ShapeIds : ShapeOK(pool, sh, tk, t)
  BY DEF Good
<1>2. Thread(o) /\ o # <<>> /\ o.count \in Nat
  BY ThreadFields DEF Suits, Thread
<1>3. next[l] = o /\ \A k \in PolyIds \ {l} : next[k] = pool[k]
  BY <1>1
<1>4. next = [k \in PolyIds |-> next[k]]
  BY <1>1
<1> HIDE DEF next
<1>5. EntriesIn(to, l) \in Nat /\ EntriesIn(sh, l) \in Nat
  BY <1>1, EntriesCount
<1>6. o.count <= EntriesIn(to, l) /\ (l \notin tk => o.count = EntriesIn(to, l))
  <2>1. /\ References(pool, l) \in Nat /\ References(pool, l) <= EntriesIn(sh, l)
        /\ l \notin tk => References(pool, l) = EntriesIn(sh, l)
    BY ReferencesAre
  <2>2. /\ o.count = 0 \/ o.count + EntriesIn(sh, l) <= References(pool, l) + EntriesIn(to, l)
        /\ l \notin tk => o.count + EntriesIn(sh, l) = References(pool, l) + EntriesIn(to, l)
    BY DEF Suits
  <2> QED BY <1>2, <1>5, <2>1, <2>2
<1>7. ASSUME NEW k \in PolyIds
      PROVE  LineOK(next, to, tk, k)
  <2>1. CASE k = l
    BY <1>2, <1>3, <1>6, <2>1 DEF LineOK
  <2>2. CASE k # l
    <3>1. LineOK(pool, sh, tk, k) /\ next[k] = pool[k] /\ EntriesIn(to, k) = EntriesIn(sh, k)
      BY <1>1, <1>3, <2>2 DEF Suits
    <3>2. next[k] = <<>> => \A j \in PolyIds : k < j => next[j] = <<>>
      <4> SUFFICES ASSUME next[k] = <<>>, NEW j \in PolyIds, k < j
                   PROVE  next[j] = <<>>
        OBVIOUS
      <4>1. pool[k] = <<>> /\ pool[j] = <<>>
        BY <3>1 DEF LineOK
      <4>2. j # l
        BY <2>2, <4>1 DEF Suits, Newest
      <4> QED BY <1>3, <4>1, <4>2
    <3> QED BY <3>1, <3>2 DEF LineOK
  <2> QED BY <2>1, <2>2
<1>8. ASSUME NEW t \in ShapeIds
      PROVE  ShapeOK(next, to, tk, t)
  <2>1. ASSUME NEW k \in ToSet(to[t].lines)
        PROVE  next[k] # <<>> /\ (k \in tk \/ ~next[k].freed)
    <3>1. k \in PolyIds
      BY ShapeIs
    <3>2. CASE k # l
      <4>1. k \in ToSet(sh[t].lines)
        BY <3>2 DEF Suits
      <4> QED BY <1>1, <1>3, <3>1, <3>2, <4>1 DEF ShapeOK
    <3>3. CASE k = l
      <4>1. EntriesIn(to, l) # 0
        BY <3>3, EntriesSome
      <4>2. o.freed => o.count = 0
        BY <1>2 DEF Thread, Tied
      <4> QED BY <1>2, <1>3, <1>6, <3>3, <4>1, <4>2
    <3> QED BY <3>2, <3>3
  <2> QED BY <2>1 DEF Suits, ShapeOK
<1>9. Good(next, to, tk)
  BY <1>1, <1>4, <1>7, <1>8 DEF Good
<1> QED BY <1>9 DEF next

(* The lists rest.                                                          *)
LEMMA LineKeeps ==
  ASSUME ShapesAssumption, NEW pool, NEW sh, NEW tk, Good(pool, sh, tk), NEW l \in PolyIds, NEW o,
         pool[l] # <<>> \/ Newest(pool, l), Thread(o), o.count = References(pool, l)
  PROVE  Good([pool EXCEPT ![l] = o], sh, tk)
<1>1. sh \in Shelf /\ \A t \in ShapeIds : ShapeOK(pool, sh, tk, t)
  BY DEF Good
<1>2. References(pool, l) \in Nat /\ EntriesIn(sh, l) \in Nat
  BY ReferencesAre
<1>3. o.count + EntriesIn(sh, l) <= References(pool, l) + EntriesIn(sh, l)
  BY <1>2
<1>4. Suits(pool, sh, tk, l, o, sh)
  BY <1>1, <1>3 DEF Suits, ShapeOK
<1> QED BY <1>1, <1>4, OneLineKeeps

(* One shape changes as well: r is what it becomes.                         *)
Matches(pool, sh, tk, l, o, s, r) ==
  /\ pool[l] # <<>> \/ Newest(pool, l)
  /\ Thread(o)
  /\ r \in ShapeRecords
  /\ ~r.lives => r.lines = <<>>
  /\ r.lives => Len(r.lines) <= r.cap
  /\ ToSet(r.lines) \subseteq ToSet(sh[s].lines) \cup {l}
  /\ \A k \in PolyIds \ {l} : Occurs(r.lines, k) = In(sh, s, k)
  /\ o.count = 0 \/ o.count + In(sh, s, l) <= References(pool, l) + Occurs(r.lines, l)
  /\ l \notin tk => o.count + In(sh, s, l) = References(pool, l) + Occurs(r.lines, l)

LEMMA PairKeeps ==
  ASSUME ShapesAssumption, NEW pool, NEW sh, NEW tk, Good(pool, sh, tk),
         NEW l \in PolyIds, NEW o, NEW s \in ShapeIds, NEW r, Matches(pool, sh, tk, l, o, s, r)
  PROVE  Good([pool EXCEPT ![l] = o], [sh EXCEPT ![s] = r], tk)
<1> DEFINE to == [sh EXCEPT ![s] = r]
<1>1. sh \in Shelf /\ \A t \in ShapeIds : ShapeOK(pool, sh, tk, t)
  BY DEF Good
<1>2. to \in Shelf /\ to[s] = r /\ \A t \in ShapeIds \ {s} : to[t] = sh[t]
  BY <1>1 DEF Shelf, Matches
<1> HIDE DEF to
<1>3. \A k : In(to, s, k) = Occurs(r.lines, k)
  BY <1>2 DEF In
<1>4. \A k : EntriesIn(to, k) + In(sh, s, k) = EntriesIn(sh, k) + Occurs(r.lines, k)
  BY <1>1, <1>2, <1>3, EntriesThen
<1>5. \A k : /\ {In(sh, s, k), Occurs(r.lines, k)} \subseteq Nat
             /\ {EntriesIn(sh, k), EntriesIn(to, k)} \subseteq Nat
  BY <1>1, <1>2, <1>3, InIs, EntriesCount
<1>6. \A k \in PolyIds \ {l} : EntriesIn(to, k) = EntriesIn(sh, k)
  <2> TAKE k \in PolyIds \ {l}
  <2>1. Occurs(r.lines, k) = In(sh, s, k)
    BY DEF Matches
  <2> QED BY <1>4, <1>5, <2>1
<1>7. /\ o.count = 0 \/ o.count + EntriesIn(sh, l) <= References(pool, l) + EntriesIn(to, l)
      /\ l \notin tk => o.count + EntriesIn(sh, l) = References(pool, l) + EntriesIn(to, l)
  <2> DEFINE a == o.count
             b == In(sh, s, l)
             c == References(pool, l)
             d == Occurs(r.lines, l)
             g == EntriesIn(sh, l)
             h == EntriesIn(to, l)
  <2>1. h + b = g + d /\ b \in Nat /\ d \in Nat /\ g \in Nat /\ h \in Nat
    BY <1>4, <1>5
  <2>2. c \in Nat /\ a \in Nat
    BY ReferencesAre, ThreadFields DEF Matches, Thread
  <2>3. (a = 0 \/ a + b <= c + d) /\ (l \notin tk => a + b = c + d)
    BY DEF Matches
  <2> HIDE DEF a, b, c, d, g, h
  <2>4. (a = 0 \/ a + g <= c + h) /\ (l \notin tk => a + g = c + h)
    BY <2>1, <2>2, <2>3
  <2> QED BY <2>4 DEF a, c, g, h
<1>8. ASSUME NEW t \in ShapeIds
      PROVE  /\ ~to[t].lives => to[t].lines = <<>>
             /\ to[t].lives => Len(to[t].lines) <= to[t].cap
             /\ ToSet(to[t].lines) \subseteq ToSet(sh[t].lines) \cup {l}
  <2>1. CASE t = s
    BY <1>2, <2>1 DEF Matches
  <2>2. CASE t # s
    BY <1>1, <1>2, <2>2 DEF ShapeOK
  <2> QED BY <2>1, <2>2
<1>9. Suits(pool, sh, tk, l, o, to)
  BY <1>6, <1>7, <1>8 DEF Matches, Suits
<1>10. Good([pool EXCEPT ![l] = o], to, tk)
  BY <1>2, <1>9, OneLineKeeps
<1> QED BY <1>10 DEF to

-----------------------------------------------------------------------------
(* Every step keeps them.                                                   *)

ShapesInv == Good(poly, shape, taken)

LEMMA ShapesStart == ShapesAssumption /\ ShapesInit => ShapesInv
<1> SUFFICES ASSUME ShapesAssumption, ShapesInit
             PROVE  ShapesInv
  OBVIOUS
<1>1. NoLines(FALSE) \in ShapeRecords /\ ~NoLines(FALSE).lives /\ NoLines(FALSE).lines = <<>>
  <2>1. <<>> \in Seq(PolyIds)
    OBVIOUS
  <2> QED BY <2>1 DEF NoLines, ShapeRecords, ShapesAssumption
<1>2. \A s \in ShapeIds : shape[s] = NoLines(FALSE)
  BY DEF ShapesInit
<1>3. shape \in Shelf /\ poly = [l \in PolyIds |-> poly[l]] /\ taken = {}
  BY <1>1 DEF ShapesInit, Shelf
<1>4. \A l \in PolyIds : poly[l] = <<>>
  BY DEF ShapesInit
<1>5. ToSet(<<>>) = {}
  BY DEF ToSet
<1>6. \A s \in ShapeIds : ShapeOK(poly, shape, taken, s)
  BY <1>1, <1>2, <1>5 DEF ShapeOK
<1>7. \A l \in PolyIds : LineOK(poly, shape, taken, l)
  BY <1>4 DEF LineOK
<1> QED BY <1>3, <1>6, <1>7 DEF ShapesInv, Good

(* A line that a shape lists has been born; one that lives is not freed.    *)
LEMMA LineIs ==
  ASSUME ShapesAssumption, ShapesInv, NEW l \in PolyIds, Born(l)
  PROVE  /\ Thread(poly[l]) /\ poly[l].count \in Nat /\ poly[l] \in Line!Objects
         /\ poly[l].count = References(poly, l) /\ poly[l] # <<>>
BY ReferencesAre DEF ShapesInv, Born

LEMMA NewShapeKeeps ==
  ASSUME ShapesAssumption, ShapesInv, NEW s \in ShapeIds, NewShape(s)
  PROVE  ShapesInv'
<1> DEFINE r == NoLines(TRUE)
<1>1. /\ shape \in Shelf /\ taken \in SUBSET PolyIds /\ poly = [l \in PolyIds |-> poly[l]]
      /\ (\A t \in ShapeIds : ShapeOK(poly, shape, taken, t)) /\ \A l \in PolyIds : LineOK(poly, shape, taken, l)
  BY DEF ShapesInv, Good
<1>2. r.lines = <<>> /\ r.cap = ShapeRoom /\ r.lives /\ r \in ShapeRecords /\ Len(r.lines) <= r.cap
  <2>1. <<>> \in Seq(PolyIds) /\ Len(<<>>) = 0
    OBVIOUS
  <2>2. ShapeRoom \in Nat \ {0}
    BY DEF ShapesAssumption
  <2> QED BY <2>1, <2>2 DEF NoLines, ShapeRecords
<1>3. poly' = poly /\ taken' = taken /\ shape' = [shape EXCEPT ![s] = r]
  BY DEF NewShape, r
<1> HIDE DEF r
<1>4. shape' \in Shelf /\ shape'[s] = r /\ \A t \in ShapeIds \ {s} : shape'[t] = shape[t]
  BY <1>1, <1>2, <1>3 DEF Shelf
<1>5. shape[s].lines = <<>>
  BY <1>1 DEF NewShape, ShapeOK
<1>6. \A t \in ShapeIds : shape'[t].lines = shape[t].lines
  BY <1>2, <1>4, <1>5
<1>7. \A l : EntriesIn(shape', l) = EntriesIn(shape, l)
  <2> TAKE l
  <2>1. \A t \in ShapeIds : In(shape', t, l) = In(shape, t, l)
    BY <1>6 DEF In
  <2>2. Ins(shape', l) = Ins(shape, l)
    BY <2>1 DEF Ins
  <2> QED BY <2>2, EntriesAre
<1>8. \A l \in PolyIds : LineOK(poly', shape', taken', l)
  BY <1>1, <1>3, <1>7 DEF LineOK
<1>9. \A t \in ShapeIds : ShapeOK(poly', shape', taken', t)
  BY <1>1, <1>2, <1>3, <1>4, <1>6 DEF ShapeOK
<1> QED BY <1>1, <1>3, <1>4, <1>8, <1>9 DEF ShapesInv, Good

LEMMA NewLineKeeps ==
  ASSUME ShapesAssumption, ShapesInv, NEW l \in PolyIds, NewLine(l)
  PROVE  ShapesInv'
<1> DEFINE o == Line!NewProxy(Line!Unmade, "held")
<1>1. /\ o \in Line!Objects /\ (\A q \in o.points : o.proxy[q] \in {"held", "dropped"})
      /\ o.freed = Line!Unmade.freed /\ o.count = Line!Unmade.count /\ o.anchor = Line!Unmade.anchor
  BY ThreadUnmade, ThreadMore
<1>2. o.count = 0 /\ ~o.freed /\ ~Line!Anchored(o)
  BY <1>1, ThreadUnmade DEF Line!Anchored
<1>3. Thread(o)
  BY <1>1, <1>2 DEF Thread, Tied
<1>4. poly' = [poly EXCEPT ![l] = o] /\ shape' = shape /\ taken' = taken
  BY DEF NewLine
<1>5. Newest(poly, l) /\ References(poly, l) = 0
  BY DEF NewLine, Next1, Born, Newest, References
<1> HIDE DEF o
<1> QED BY <1>2, <1>3, <1>4, <1>5, LineKeeps DEF ShapesInv

LEMMA ShowLineKeeps ==
  ASSUME ShapesAssumption, ShapesInv, NEW s \in ShapeIds, NEW i \in 1..MaxListed, ShowLine(s, i)
  PROVE  ShapesInv'
<1> DEFINE l == shape[s].lines[i]
           o == Line!Pushed(poly[l])
<1>1. l \in PolyIds /\ Born(l) /\ Enough(l)
  <2>1. l \in Listed(s) /\ Usable(s) /\ Enough(l)
    BY DEF ShowLine, Listed, ToSet
  <2>2. Listed(s) \subseteq PolyIds
    BY ShapeIs DEF ShapesInv, Good, Listed
  <2> QED BY <2>1, <2>2 DEF Usable, Alive
<1> HIDE DEF l
<1>2. Thread(poly[l]) /\ poly[l].count = References(poly, l) /\ poly[l] # <<>>
  BY <1>1, LineIs
<1>3. Thread(o) /\ o.count = References(poly, l)
  BY <1>1, <1>2, ThreadPushed DEF Enough
<1>4. poly' = [poly EXCEPT ![l] = o] /\ shape' = shape /\ taken' = taken
  BY DEF ShowLine, l
<1> HIDE DEF o
<1> QED BY <1>1, <1>2, <1>3, <1>4, LineKeeps DEF ShapesInv

LEMMA DropLineKeeps ==
  ASSUME ShapesAssumption, ShapesInv, NEW l \in PolyIds, NEW p \in 1..PolyProxies, DropLine(l, p)
  PROVE  ShapesInv'
<1> DEFINE o == poly[l]
           x == [o.proxy EXCEPT ![p] = "dropped"]
           n == [o EXCEPT !.proxy[p] = "dropped"]
<1>1. Born(l) /\ ~o.freed
  BY DEF DropLine, Alive
<1>2. Thread(o) /\ o \in Line!Objects /\ o.count = References(poly, l) /\ poly[l] # <<>>
  BY <1>1, LineIs
<1>3. poly' = [poly EXCEPT ![l] = n] /\ shape' = shape /\ taken' = taken
  <2>1. poly = [k \in PolyIds |-> poly[k]]
    BY DEF ShapesInv, Good
  <2> QED BY <2>1 DEF DropLine
<1> HIDE DEF o
<1>4. n = [freed |-> o.freed, count |-> o.count, anchor |-> o.anchor, proxy |-> x, points |-> o.points]
  BY <1>2, ThreadFields
<1>5. x \in [1..PolyProxies -> {"none", "held", "dropped", "collected"}]
      /\ \A q \in o.points : x[q] \in {"held", "dropped"}
  BY <1>2, ThreadFields DEF Thread, Tied
<1> HIDE DEF n, x
<1>6. n.freed = o.freed /\ n.count = o.count /\ n.anchor = o.anchor /\ n.points = o.points /\ n.proxy = x
  BY <1>4
<1>7. n \in Line!Objects
  BY <1>2, <1>4, <1>5, ThreadFields, ThreadMade
<1>8. Thread(n)
  BY <1>2, <1>5, <1>6, <1>7 DEF Thread, Tied, Line!Anchored
<1> QED BY <1>2, <1>3, <1>6, <1>8, LineKeeps DEF ShapesInv

LEMMA CollectLineKeeps ==
  ASSUME ShapesAssumption, ShapesInv, NEW l \in PolyIds, NEW p \in 1..PolyProxies, CollectLine(l, p)
  PROVE  ShapesInv'
<1> DEFINE o == poly[l]
           x == [o.proxy EXCEPT ![p] = "collected"]
           P == o.points \ {p}
           f == p \in o.points /\ ~Line!Anchored(o)
           n == Line!Garbage(o, p)
<1>1. Born(l) /\ ~o.freed /\ o.anchor # p
  BY DEF CollectLine, Alive
<1>2. Thread(o) /\ o \in Line!Objects /\ o.count = References(poly, l) /\ poly[l] # <<>>
  BY <1>1, LineIs
<1>3. poly' = [poly EXCEPT ![l] = n] /\ shape' = shape /\ taken' = taken
  BY DEF CollectLine
<1>4. n = [o EXCEPT !.proxy[p] = "collected", !.points = P, !.freed = f]
  BY DEF Line!Garbage
<1>5. f \in BOOLEAN /\ (f => ~Line!Anchored(o))
  OBVIOUS
<1> HIDE DEF o, f
<1>6. n = [freed |-> f, count |-> o.count, anchor |-> o.anchor, proxy |-> x, points |-> P]
  <2>1. o = [freed |-> o.freed, count |-> o.count, anchor |-> o.anchor, proxy |-> o.proxy, points |-> o.points]
    BY <1>2, ThreadFields
  <2> QED BY <1>4, <2>1
<1>7. /\ x \in [1..PolyProxies -> {"none", "held", "dropped", "collected"}]
      /\ P \in SUBSET (1..PolyProxies) /\ \A q \in P : x[q] \in {"held", "dropped"}
  BY <1>2, ThreadFields DEF Thread, Tied
<1>8. Line!Anchored(o) => o.anchor \in P
  BY <1>1, <1>2 DEF Thread, Tied
<1> HIDE DEF n, x, P
<1>9. n.freed = f /\ n.count = o.count /\ n.anchor = o.anchor /\ n.points = P /\ n.proxy = x
  BY <1>6
<1>10. n \in Line!Objects
  BY <1>2, <1>5, <1>6, <1>7, ThreadFields, ThreadMade
<1>11. n.freed => n.count = 0
  BY <1>2, <1>5, <1>9 DEF Thread, Tied
<1>12. Thread(n)
  BY <1>2, <1>7, <1>8, <1>9, <1>10, <1>11 DEF Thread, Tied, Line!Anchored
<1> QED BY <1>2, <1>3, <1>9, <1>12, LineKeeps DEF ShapesInv

(* A shape with another list, and with another capacity.                    *)
Put(sh, s, q, c) == [sh EXCEPT ![s] = [lines |-> q, cap |-> c, lives |-> sh[s].lives]]
ListPut(sh, s, q) == [sh EXCEPT ![s].lines = q]
BothPut(sh, s, q, c) == [sh EXCEPT ![s].lines = q, ![s].cap = c]

LEMMA ListPutIs ==
  ASSUME NEW sh \in Shelf, NEW s \in ShapeIds, NEW q
  PROVE  ListPut(sh, s, q) = Put(sh, s, q, sh[s].cap)
<1> DEFINE o == sh[s]
           n == [o EXCEPT !.lines = q]
<1>1. o = [lines |-> o.lines, cap |-> o.cap, lives |-> o.lives]
  BY DEF Shelf, ShapeRecords
<1>2. ListPut(sh, s, q) = [sh EXCEPT ![s] = n]
  BY DEF Shelf, ListPut
<1>3. n = [o EXCEPT !.lines = q]
  OBVIOUS
<1> HIDE DEF o, n
<1>4. n = [lines |-> q, cap |-> o.cap, lives |-> o.lives]
  BY <1>1, <1>3
<1> QED BY <1>2, <1>4 DEF o, Put

LEMMA BothPutIs ==
  ASSUME NEW sh \in Shelf, NEW s \in ShapeIds, NEW q, NEW c
  PROVE  BothPut(sh, s, q, c) = Put(sh, s, q, c)
<1> DEFINE o == sh[s]
           n == [o EXCEPT !.lines = q, !.cap = c]
<1>1. o = [lines |-> o.lines, cap |-> o.cap, lives |-> o.lives]
  BY DEF Shelf, ShapeRecords
<1>2. BothPut(sh, s, q, c) = [sh EXCEPT ![s] = n]
  BY DEF Shelf, BothPut
<1>3. n = [o EXCEPT !.lines = q, !.cap = c]
  OBVIOUS
<1> HIDE DEF o, n
<1>4. n = [lines |-> q, cap |-> c, lives |-> o.lives]
  BY <1>1, <1>3
<1> QED BY <1>2, <1>4 DEF o, Put

(* One entry less in a list, and one reference less.                        *)
LEMMA LessKeeps ==
  ASSUME ShapesAssumption, NEW pool, NEW sh, NEW tk, Good(pool, sh, tk), NEW s \in ShapeIds,
         NEW k \in 1..Len(sh[s].lines), NEW l, l = sh[s].lines[k], NEW o, Thread(o),
         o.count = 0 \/ o.count <= References(pool, l) - 1,
         l \notin tk => o.count = References(pool, l) - 1
  PROVE  Good([pool EXCEPT ![l] = o], Put(sh, s, RemoveAt(sh[s].lines, k), sh[s].cap), tk)
<1> DEFINE q == sh[s].lines
           n == RemoveAt(q, k)
           r == [lines |-> n, cap |-> sh[s].cap, lives |-> sh[s].lives]
<1>1. sh \in Shelf /\ ShapeOK(pool, sh, tk, s)
  BY DEF Good
<1>2. /\ q \in Seq(PolyIds) /\ sh[s].cap \in Nat \ {0} /\ sh[s].lives \in BOOLEAN /\ Len(q) \in Nat
      /\ ToSet(q) = {q[i] : i \in 1..Len(q)} /\ ToSet(q) \subseteq PolyIds
  BY <1>1, ShapeIs
<1>3. l \in PolyIds /\ pool[l] # <<>>
  BY <1>1, <1>2 DEF ShapeOK
<1>4. /\ n \in Seq(PolyIds) /\ Len(n) = Len(q) - 1
      /\ \A i \in 1..(Len(q) - 1) : n[i] = q[IF i < k THEN i ELSE i + 1]
  BY <1>2, RemovedIs
<1>5. \A x : Occurs(n, x) = Occurs(q, x) - (IF l = x THEN 1 ELSE 0)
  BY <1>2, OccursRemoved
<1>6. \A x : Occurs(q, x) \in Nat
  BY <1>2, OccursIs
<1> HIDE DEF n
<1>7. ToSet(n) \subseteq ToSet(q)
  <2>1. DOMAIN n = 1..(Len(q) - 1)
    BY <1>2, <1>4, LenProperties
  <2>2. \A i \in 1..(Len(q) - 1) : (IF i < k THEN i ELSE i + 1) \in 1..Len(q)
    BY <1>2
  <2> QED BY <1>2, <1>4, <2>1, <2>2 DEF ToSet
<1>8. sh[s].lives /\ Len(q) <= sh[s].cap
  <2>1. q # <<>>
    OBVIOUS
  <2> QED BY <1>1, <2>1 DEF ShapeOK
<1>9. In(sh, s, l) = Occurs(q, l) /\ Occurs(n, l) = Occurs(q, l) - 1 /\ Occurs(q, l) \in Nat /\ Occurs(q, l) # 0
  <2>1. In(sh, s, l) # 0
    BY <1>1, <1>2, InIs
  <2> QED BY <1>5, <1>6, <2>1 DEF In
<1>10. References(pool, l) \in Nat /\ o.count \in Nat
  BY <1>3, ReferencesAre, ThreadFields DEF Thread
<1>11. o.count = 0 \/ o.count + In(sh, s, l) <= References(pool, l) + Occurs(n, l)
  BY <1>9, <1>10
<1>12. l \notin tk => o.count + In(sh, s, l) = References(pool, l) + Occurs(n, l)
  BY <1>9, <1>10
<1>13. \A x \in PolyIds \ {l} : Occurs(n, x) = In(sh, s, x)
  BY <1>5, <1>6 DEF In
<1>14. r \in ShapeRecords /\ r.lines = n /\ r.cap = sh[s].cap /\ r.lives = sh[s].lives
  BY <1>2, <1>4 DEF ShapeRecords
<1>15. Len(n) <= sh[s].cap
  BY <1>2, <1>4, <1>8
<1> HIDE DEF q, r
<1>16. ToSet(r.lines) \subseteq ToSet(sh[s].lines) \cup {l}
  BY <1>7, <1>14 DEF q
<1>17. Matches(pool, sh, tk, l, o, s, r)
  BY <1>3, <1>8, <1>11, <1>12, <1>13, <1>14, <1>15, <1>16 DEF Matches
<1>18. Good([pool EXCEPT ![l] = o], [sh EXCEPT ![s] = r], tk)
  BY <1>3, <1>17, PairKeeps
<1> QED BY <1>18 DEF r, n, q, Put

(* One entry more.                                                          *)
LEMMA MoreKeeps ==
  ASSUME ShapesAssumption, ShapesInv, NEW s \in ShapeIds, shape[s].lives, NEW l \in PolyIds, NEW o, Thread(o),
         poly[l] # <<>> \/ Newest(poly, l), o.count = References(poly, l) + 1,
         NEW n \in Seq(PolyIds), Len(n) = Len(shape[s].lines) + 1,
         \A x : Occurs(n, x) = Occurs(shape[s].lines, x) + (IF l = x THEN 1 ELSE 0)
  PROVE  Good([poly EXCEPT ![l] = o], Put(shape, s, n, Capacity(s, 1)), taken)
<1> DEFINE q == shape[s].lines
           r == [lines |-> n, cap |-> Capacity(s, 1), lives |-> shape[s].lives]
<1>1. shape \in Shelf /\ ShapeOK(poly, shape, taken, s)
  BY DEF ShapesInv, Good
<1>2. q \in Seq(PolyIds) /\ shape[s].cap \in Nat \ {0} /\ Len(q) \in Nat
  BY <1>1, ShapeIs
<1>3. Len(q) <= shape[s].cap
  BY <1>1 DEF ShapeOK
<1>4. Capacity(s, 1) \in Nat \ {0} /\ Len(q) + 1 <= Capacity(s, 1)
  <2>1. Capacity(s, 1) = IF Len(q) + 1 > shape[s].cap THEN 2 * shape[s].cap ELSE shape[s].cap
    BY DEF Capacity
  <2> DEFINE c == shape[s].cap
             m == Len(q)
  <2>2. c \in Nat \ {0} /\ m \in Nat /\ m <= c /\ Capacity(s, 1) = IF m + 1 > c THEN 2 * c ELSE c
    BY <1>2, <1>3, <2>1
  <2> HIDE DEF c, m
  <2>3. Capacity(s, 1) \in Nat \ {0} /\ m + 1 <= Capacity(s, 1)
    BY <2>2
  <2> QED BY <2>3 DEF m
<1>5. r \in ShapeRecords /\ r.lines = n /\ r.lives /\ r.cap = Capacity(s, 1)
  BY <1>4 DEF ShapeRecords
<1>6. Put(shape, s, n, Capacity(s, 1)) = [shape EXCEPT ![s] = r]
  BY DEF Put
<1> HIDE DEF r
<1>7. \A x : Occurs(q, x) \in Nat
  BY <1>2, OccursIs
<1>8. ToSet(n) \subseteq ToSet(q) \cup {l}
  <2> SUFFICES ASSUME NEW x \in ToSet(n), x # l
               PROVE  x \in ToSet(q)
    OBVIOUS
  <2>1. Occurs(n, x) # 0
    <3>1. \E i \in 1..Len(n) : n[i] = x
      BY LenProperties DEF ToSet
    <3> QED BY <3>1, OccursIs
  <2>2. Occurs(q, x) # 0
    BY <1>7, <2>1
  <2>3. In(shape, s, x) # 0
    BY <2>2 DEF In
  <2> QED BY <1>1, <2>3, InIs
<1>9. References(poly, l) \in Nat
  BY ReferencesAre DEF ShapesInv
<1>10. Occurs(n, l) = In(shape, s, l) + 1 /\ In(shape, s, l) \in Nat
  BY <1>7 DEF In
<1>11. o.count + In(shape, s, l) = References(poly, l) + Occurs(n, l)
       /\ o.count + In(shape, s, l) <= References(poly, l) + Occurs(n, l)
  <2> DEFINE a == References(poly, l)
             b == In(shape, s, l)
             c == o.count
             d == Occurs(n, l)
  <2>1. a \in Nat /\ b \in Nat /\ c = a + 1 /\ d = b + 1
    BY <1>9, <1>10
  <2> HIDE DEF a, b, c, d
  <2>2. c + b = a + d /\ c + b <= a + d
    BY <2>1
  <2> QED BY <2>2 DEF a, b, c, d
<1>12. \A x \in PolyIds \ {l} : Occurs(n, x) = In(shape, s, x)
  BY <1>7 DEF In
<1>13. Len(n) <= r.cap
  BY <1>4, <1>5
<1>14. Matches(poly, shape, taken, l, o, s, r)
  BY <1>5, <1>8, <1>11, <1>12, <1>13 DEF Matches
<1>15. Good([poly EXCEPT ![l] = o], [shape EXCEPT ![s] = r], taken)
  BY <1>14, PairKeeps DEF ShapesInv
<1> QED BY <1>6, <1>15

LEMMA PutLineKeeps ==
  ASSUME ShapesAssumption, ShapesInv, NEW s \in ShapeIds, NEW l \in PolyIds, NEW i \in 1..MaxListed, PutLine(s, l, i)
  PROVE  ShapesInv'
<1> DEFINE o == Line!Ref(poly[l])
           q == shape[s].lines
           n == InsertAt(q, i, l)
<1>1. Born(l) /\ ~poly[l].freed /\ (Line!Anchored(poly[l]) \/ Line!Unused(poly[l]) # {})
  BY DEF PutLine, InHand, Alive, Enough
<1>2. Thread(poly[l]) /\ poly[l].count = References(poly, l) /\ poly[l] # <<>>
  BY <1>1, LineIs
<1>3. Thread(o) /\ o.count = References(poly, l) + 1
  BY <1>1, <1>2, ThreadRef
<1>4. q \in Seq(PolyIds) /\ i \in 1..(Len(q) + 1)
  BY ShapeIs DEF ShapesInv, Good, PutLine
<1>5. n \in Seq(PolyIds) /\ Len(n) = Len(q) + 1
  BY <1>4, InsertedIs
<1>6. \A x : Occurs(n, x) = Occurs(q, x) + (IF l = x THEN 1 ELSE 0)
  BY <1>4, OccursInserted
<1>7. /\ shape[s].lives /\ poly' = [poly EXCEPT ![l] = o] /\ taken' = taken
      /\ shape' = BothPut(shape, s, n, Capacity(s, 1))
  BY DEF PutLine, BothPut
<1> HIDE DEF o, n
<1>8. Good([poly EXCEPT ![l] = o], Put(shape, s, n, Capacity(s, 1)), taken)
  BY <1>2, <1>3, <1>5, <1>6, <1>7, MoreKeeps
<1>9. shape' = Put(shape, s, n, Capacity(s, 1))
  BY <1>7, BothPutIs DEF ShapesInv, Good
<1> QED BY <1>7, <1>8, <1>9 DEF ShapesInv

LEMMA SetPathKeeps ==
  ASSUME ShapesAssumption, ShapesInv, NEW s \in ShapeIds, NEW l \in PolyIds, SetPath(s, l)
  PROVE  ShapesInv'
<1> DEFINE o == Line!Ref(Line!Unmade)
           q == shape[s].lines
           n == Append(q, l)
<1>1. Thread(o) /\ o.count = 1
  <2>1. Line!Unmade.count + 1 = 1
    BY ThreadUnmade
  <2> QED BY <2>1, ThreadUnmade, ThreadRef
<1>2. Newest(poly, l) /\ References(poly, l) = 0
  BY DEF SetPath, Next1, Born, Newest, References
<1>3. q \in Seq(PolyIds)
  BY ShapeIs DEF ShapesInv, Good
<1>4. n \in Seq(PolyIds) /\ Len(n) = Len(q) + 1
  BY <1>3, AppendProperties
<1>5. \A x : Occurs(n, x) = Occurs(q, x) + (IF l = x THEN 1 ELSE 0)
  BY <1>3, OccursAppended
<1>6. /\ shape[s].lives /\ poly' = [poly EXCEPT ![l] = o] /\ taken' = taken
      /\ shape' = BothPut(shape, s, n, Capacity(s, 1))
  BY DEF SetPath, BothPut
<1> HIDE DEF o, n
<1>7. o.count = References(poly, l) + 1
  BY <1>1, <1>2
<1>8. Good([poly EXCEPT ![l] = o], Put(shape, s, n, Capacity(s, 1)), taken)
  BY <1>1, <1>2, <1>4, <1>5, <1>6, <1>7, MoreKeeps
<1>9. shape' = Put(shape, s, n, Capacity(s, 1))
  BY <1>6, BothPutIs DEF ShapesInv, Good
<1> QED BY <1>6, <1>8, <1>9 DEF ShapesInv

(* What is left of a line that one entry of a usable shape gives back.      *)
LEMMA UnrefLess ==
  ASSUME ShapesAssumption, ShapesInv, NEW s \in ShapeIds, Usable(s),
         NEW k \in 1..Len(shape[s].lines), NEW l, l = shape[s].lines[k]
  PROVE  /\ l \in PolyIds /\ Thread(Line!Unref(poly[l])) /\ Line!Unused(Line!Unref(poly[l])) = Line!Unused(poly[l])
         /\ ~Line!Unref(poly[l]).freed
         /\ Line!Unref(poly[l]).count = 0 \/ Line!Unref(poly[l]).count <= References(poly, l) - 1
         /\ l \notin taken => Line!Unref(poly[l]).count = References(poly, l) - 1
<1>1. shape \in Shelf /\ Good(poly, shape, taken)
  BY DEF ShapesInv, Good
<1>2. l \in Listed(s) /\ l \in PolyIds
  BY <1>1, ShapeIs DEF Listed
<1>3. Born(l) /\ ~poly[l].freed
  BY <1>2 DEF Usable, Alive
<1>4. Thread(poly[l]) /\ poly[l].count = References(poly, l) /\ poly[l].count \in Nat
  BY <1>2, <1>3, LineIs
<1> DEFINE n == Line!Unref(poly[l])
<1>5. /\ Thread(n) /\ n.count = IF poly[l].count = 0 THEN 0 ELSE poly[l].count - 1
      /\ n.freed = poly[l].freed /\ Line!Unused(n) = Line!Unused(poly[l])
  BY <1>4, ThreadUnref
<1>6. l \notin taken => References(poly, l) # 0
  BY <1>1, <1>2, ReferencesAre, EntriesSome DEF Listed
<1> HIDE DEF n
<1>7. n.count = 0 \/ n.count <= References(poly, l) - 1
  BY <1>4, <1>5
<1>8. l \notin taken => n.count = References(poly, l) - 1
  BY <1>4, <1>5, <1>6
<1> QED BY <1>2, <1>3, <1>5, <1>7, <1>8 DEF n

LEMMA RemoveLineKeeps ==
  ASSUME ShapesAssumption, ShapesInv, NEW s \in ShapeIds, NEW l \in PolyIds, RemoveLine(s, l)
  PROVE  ShapesInv'
<1> DEFINE q == shape[s].lines
           k == SelectInSeq(q, LAMBDA v : v = l)
           o == Line!Unref(poly[l])
<1>1. shape \in Shelf /\ q \in Seq(PolyIds) /\ l \in ToSet(q)
  BY ShapeIs DEF ShapesInv, Good, RemoveLine, Listed
<1>2. k \in 1..Len(q) /\ q[k] = l
  BY <1>1, FirstIs
<1>3. RemoveFirst(q, l) = RemoveAt(q, k)
  BY <1>2 DEF RemoveFirst
<1> HIDE DEF k
<1>4. /\ poly' = [poly EXCEPT ![l] = o] /\ taken' = taken
      /\ shape' = ListPut(shape, s, RemoveAt(q, k))
  BY <1>3 DEF RemoveLine, ListPut
<1>5. /\ o.count = 0 \/ o.count <= References(poly, l) - 1
      /\ l \notin taken => o.count = References(poly, l) - 1
  BY <1>2, UnrefLess DEF RemoveLine
<1>6. Thread(o)
  BY <1>2, UnrefLess DEF RemoveLine
<1> HIDE DEF o
<1>7. shape' = Put(shape, s, RemoveAt(q, k), shape[s].cap)
  BY <1>1, <1>4, ListPutIs
<1>8. Good([poly EXCEPT ![l] = o], Put(shape, s, RemoveAt(q, k), shape[s].cap), taken)
  BY <1>2, <1>5, <1>6, LessKeeps DEF ShapesInv
<1> QED BY <1>4, <1>7, <1>8 DEF ShapesInv

LEMMA TakeLineKeeps ==
  ASSUME ShapesAssumption, ShapesInv, NEW s \in ShapeIds, NEW i \in 1..MaxListed, TakeLine(s, i)
  PROVE  ShapesInv'
<1> DEFINE q == shape[s].lines
           l == q[i]
           u == Line!Unref(poly[l])
           o == Line!Pushed(u)
<1>1. shape \in Shelf /\ q \in Seq(PolyIds) /\ i \in 1..Len(q)
  BY ShapeIs DEF ShapesInv, Good, TakeLine
<1>2. /\ poly' = [poly EXCEPT ![l] = o] /\ taken' = taken /\ Usable(s) /\ Line!Unused(poly[l]) # {}
      /\ shape' = ListPut(shape, s, RemoveAt(q, i))
  BY DEF TakeLine, ListPut
<1> HIDE DEF l
<1>3. /\ Thread(u) /\ Line!Unused(u) = Line!Unused(poly[l])
      /\ u.count = 0 \/ u.count <= References(poly, l) - 1
      /\ l \notin taken => u.count = References(poly, l) - 1
  BY <1>1, <1>2, UnrefLess DEF l
<1> HIDE DEF u
<1>4. Thread(o) /\ o.count = u.count
  BY <1>2, <1>3, ThreadPushed
<1> HIDE DEF o
<1>5. shape' = Put(shape, s, RemoveAt(q, i), shape[s].cap)
  BY <1>1, <1>2, ListPutIs
<1>6. Good([poly EXCEPT ![l] = o], Put(shape, s, RemoveAt(q, i), shape[s].cap), taken)
  BY <1>1, <1>3, <1>4, LessKeeps DEF ShapesInv, l
<1> QED BY <1>2, <1>5, <1>6 DEF ShapesInv

-----------------------------------------------------------------------------
(* A list that is emptied is a fold over its entries.                       *)

Threads == {o \in Line!Objects : Tied(o)}
Pools(s) == {pool \in [PolyIds -> Threads \cup {<<>>}] : \A l \in Listed(s) : pool[l] # <<>>}
Given(pool, l, dying) == [pool EXCEPT ![l] = GivenUp(pool[l], dying)]

LEMMA GivenUpIs ==
  ASSUME ShapesAssumption, NEW o, Thread(o), NEW dying \in BOOLEAN
  PROVE  /\ Thread(GivenUp(o, dying))
         /\ GivenUp(o, dying).count = 0 \/ GivenUp(o, dying).count <= o.count - 1
         /\ ~dying /\ o.count # 0 => GivenUp(o, dying).count = o.count - 1
<1> DEFINE u == Line!Unref(o)
           d == Line!Destroyed(u)
<1>1. Thread(u) /\ u.count = (IF o.count = 0 THEN 0 ELSE o.count - 1) /\ u.freed = o.freed
  BY ThreadUnref
<1>2. Thread(d) /\ d.count <= u.count
  BY <1>1, ThreadDestroyed
<1>3. o.count \in Nat /\ u.count \in Nat /\ d.count \in Nat
  BY <1>1, <1>2, ThreadFields DEF Thread
<1> HIDE DEF u, d
<1>4. CASE dying
  <2>1. GivenUp(o, dying) = d
    BY <1>4 DEF GivenUp, d, u
  <2>2. d.count = 0 \/ d.count <= o.count - 1
    BY <1>1, <1>2, <1>3
  <2> QED BY <1>2, <1>4, <2>1, <2>2
<1>5. CASE ~dying
  <2>1. GivenUp(o, dying) = u
    BY <1>5 DEF GivenUp, u
  <2>2. u.count = 0 \/ u.count <= o.count - 1
    BY <1>1, <1>3
  <2> QED BY <1>1, <1>3, <1>5, <2>1, <2>2
<1> QED BY <1>4, <1>5

LEMMA GivenIs ==
  ASSUME ShapesAssumption, ShapesInv, NEW s \in ShapeIds, NEW pool \in Pools(s), NEW l \in Listed(s),
         NEW dying \in BOOLEAN
  PROVE  Given(pool, l, dying) \in Pools(s)
<1> DEFINE o == GivenUp(pool[l], dying)
<1>1. Listed(s) \subseteq PolyIds
  BY ShapeIs DEF ShapesInv, Good, Listed
<1>2. pool[l] \in Threads
  BY <1>1 DEF Pools
<1>3. Thread(pool[l])
  BY <1>2 DEF Threads, Thread
<1>4. Thread(o)
  BY <1>3, GivenUpIs
<1>5. o \in Threads /\ o # <<>>
  BY <1>4, ThreadFields DEF Threads, Thread
<1> HIDE DEF o
<1>6. pool \in [PolyIds -> Threads \cup {<<>>}] /\ \A k \in Listed(s) : pool[k] # <<>>
  BY DEF Pools
<1>7. [pool EXCEPT ![l] = o] \in [PolyIds -> Threads \cup {<<>>}]
  BY <1>5, <1>6
<1>8. \A k \in Listed(s) : [pool EXCEPT ![l] = o][k] # <<>>
  BY <1>1, <1>5, <1>6
<1>9. Given(pool, l, dying) = [pool EXCEPT ![l] = o]
  BY DEF Given, o
<1> QED BY <1>7, <1>8, <1>9 DEF Pools

Gives(s, n, dying) == [q \in Pools(s) \X (1..n) |-> Given(q[1], shape[s].lines[q[2]], dying)]

LEMMA EmptiedFolds ==
  ASSUME ShapesAssumption, ShapesInv, NEW s \in ShapeIds, NEW dying \in BOOLEAN
  PROVE  \E g : /\ Emptied(s, dying) = g[1..Len(shape[s].lines)] /\ g[1..0] = poly
                /\ \A k \in 1..Len(shape[s].lines) : g[1..k] = Given(g[1..(k - 1)], shape[s].lines[k], dying)
<1> DEFINE sq == shape[s].lines
           n == Len(sq)
           X == Pools(s)
           step == Gives(s, n, dying)
           Picks(g) == g = [d \in SUBSET DOMAIN sq |->
                              IF d = {} THEN poly
                              ELSE [g[d \ {Max(d)}] EXCEPT ![sq[Max(d)]] = GivenUp(g[d \ {Max(d)}][sq[Max(d)]], dying)]]
<1>1. n \in Nat /\ DOMAIN sq = 1..n /\ \A i \in 1..n : sq[i] \in Listed(s)
  <2>1. /\ n \in Nat /\ DOMAIN sq = 1..n /\ Listed(s) = {sq[i] : i \in 1..n}
    BY ShapeIs DEF ShapesInv, Good, Listed
  <2> HIDE DEF n, sq
  <2> QED BY <2>1
<1>2. poly \in X
  <2>1. /\ poly = [l \in PolyIds |-> poly[l]] /\ (\A l \in PolyIds : LineOK(poly, shape, taken, l))
        /\ ShapeOK(poly, shape, taken, s)
    BY DEF ShapesInv, Good
  <2>2. \A l \in PolyIds : poly[l] \in Threads \cup {<<>>}
    BY <2>1 DEF LineOK, Thread, Threads
  <2>3. poly \in [PolyIds -> Threads \cup {<<>>}]
    BY <2>1, <2>2
  <2>4. \A l \in Listed(s) : poly[l] # <<>>
    BY <2>1 DEF ShapeOK, Listed
  <2> QED BY <2>3, <2>4 DEF Pools
<1>3. \A t \in X, i \in 1..n : step[<<t, i>>] = Given(t, sq[i], dying) /\ Given(t, sq[i], dying) \in X
  <2> TAKE t \in X, i \in 1..n
  <2>1. Given(t, sq[i], dying) \in X
    BY <1>1, GivenIs
  <2>2. step[<<t, i>>] = Given(t, sq[i], dying)
    <3> HIDE DEF n, X
    <3> QED BY DEF Gives, X
  <2> QED BY <2>1, <2>2
<1>4. step \in [X \X (1..n) -> X]
  <2>1. step = [q \in X \X (1..n) |-> Given(q[1], sq[q[2]], dying)]
    BY DEF Gives
  <2>2. \A q \in X \X (1..n) : Given(q[1], sq[q[2]], dying) \in X
    <3> HIDE DEF n, X, sq
    <3> QED BY <1>3
  <2> QED BY <2>1, <2>2
<1>5. PICK h \in [SUBSET (1..n) -> X] : Folding(h, poly, step, SUBSET (1..n))
  <2> HIDE DEF step, n, X
  <2> QED BY <1>1, <1>2, <1>4, FoldingExists
<1>6. Picks(h)
  <2> HIDE DEF step, n, sq, X
  <2>1. \A d \in SUBSET (1..n) : d # {} => Max(d) \in 1..n /\ d \ {Max(d)} \in SUBSET (1..n)
    <3> TAKE d \in SUBSET (1..n)
    <3>1. d \in SUBSET (0..n)
      BY <1>1
    <3> QED BY <1>1, <3>1, MaxIs
  <2>2. \A d \in SUBSET (1..n) : d # {} =>
          step[<<h[d \ {Max(d)}], Max(d)>>] = Given(h[d \ {Max(d)}], sq[Max(d)], dying)
    BY <1>1, <1>3, <1>5, <2>1
  <2> QED BY <1>1, <1>5, <2>2 DEF Folding, Given
<1> DEFINE g == CHOOSE g : Picks(g)
<1>7. Picks(g)
  <2> HIDE DEF Picks
  <2> QED BY <1>6
<1>8. Emptied(s, dying) = g[DOMAIN sq]
  BY DEF Emptied, FoldLeft, MapThenFoldSet
<1> HIDE DEF g, step
<1>9. 1..0 \in SUBSET (1..n) /\ 1..0 = {}
  OBVIOUS
<1> HIDE DEF n, sq
<1>10. ASSUME NEW k \in 1..n
       PROVE  g[1..k] = Given(g[1..(k - 1)], sq[k], dying)
  <2>1. 1..k \in SUBSET (1..n) /\ 1..k # {} /\ Max(1..k) = k /\ (1..k) \ {k} = 1..(k - 1)
    BY <1>1, Upto
  <2> QED BY <1>1, <1>7, <2>1 DEF Given
<1>11. g[1..0] = poly /\ Emptied(s, dying) = g[1..n]
  BY <1>1, <1>7, <1>8, <1>9
<1> QED BY <1>10, <1>11 DEF n, sq

(* More lines may have been taken.                                          *)
LEMMA GoodWider ==
  ASSUME NEW pool, NEW sh, NEW tk, Good(pool, sh, tk), NEW more \in SUBSET PolyIds
  PROVE  Good(pool, sh, tk \cup more)
<1>1. /\ pool = [l \in PolyIds |-> pool[l]] /\ sh \in Shelf /\ tk \in SUBSET PolyIds
      /\ (\A l \in PolyIds : LineOK(pool, sh, tk, l)) /\ \A s \in ShapeIds : ShapeOK(pool, sh, tk, s)
  BY DEF Good
<1>2. \A l \in PolyIds : LineOK(pool, sh, tk \cup more, l)
  BY <1>1 DEF LineOK
<1>3. \A s \in ShapeIds : ShapeOK(pool, sh, tk \cup more, s)
  BY <1>1 DEF ShapeOK
<1> QED BY <1>1, <1>2, <1>3 DEF Good

(* What is left of a list when its first k entries are gone.                *)
Rest(q, k) == SubSeq(q, k + 1, Len(q))

LEMMA RestIs ==
  ASSUME NEW S, NEW q \in Seq(S)
  PROVE  /\ Rest(q, 0) = q /\ Rest(q, Len(q)) = <<>>
         /\ \A k \in 0..Len(q) : /\ Rest(q, k) \in Seq(S) /\ Len(Rest(q, k)) = Len(q) - k
                                 /\ \A i \in 1..(Len(q) - k) : Rest(q, k)[i] = q[k + i]
         /\ \A k \in 1..Len(q) : /\ Rest(q, k - 1)[1] = q[k] /\ 1 \in 1..Len(Rest(q, k - 1))
                                 /\ Rest(q, k) = RemoveAt(Rest(q, k - 1), 1)
<1>0. Len(q) \in Nat
  OBVIOUS
<1>1. ASSUME NEW k \in 0..Len(q)
      PROVE  /\ Rest(q, k) \in Seq(S) /\ Len(Rest(q, k)) = Len(q) - k
             /\ \A i \in 1..(Len(q) - k) : Rest(q, k)[i] = q[k + i]
  <2> DEFINE n == Len(q)
             m == SubSeq(q, k + 1, n)
  <2>1. m \in Seq(S) /\ Len(m) = n - k /\ \A i \in 1..(n - k) : m[i] = q[k + i]
    BY <1>0
  <2> QED BY <2>1 DEF Rest
<1>2. Rest(q, 0) = q
  <2>1. 0 \in 0..Len(q) /\ Len(q) - 0 = Len(q)
    BY <1>0
  <2>2. /\ Rest(q, 0) \in Seq(S) /\ Len(Rest(q, 0)) = Len(q)
        /\ \A i \in 1..Len(q) : Rest(q, 0)[i] = q[0 + i]
    BY <1>1, <2>1
  <2>3. \A i \in 1..Len(q) : 0 + i = i
    BY <1>0
  <2>4. \A i \in 1..Len(q) : Rest(q, 0)[i] = q[i]
    BY <2>2, <2>3
  <2> QED BY <2>2, <2>4, SeqEqual
<1>3. Rest(q, Len(q)) = <<>>
  BY <1>0, <1>1, EmptySeq
<1>4. ASSUME NEW k \in 1..Len(q)
      PROVE  /\ Rest(q, k - 1)[1] = q[k] /\ 1 \in 1..Len(Rest(q, k - 1))
             /\ Rest(q, k) = RemoveAt(Rest(q, k - 1), 1)
  <2> DEFINE p == Rest(q, k - 1)
             r == RemoveAt(p, 1)
             t == Rest(q, k)
  <2>1. k - 1 \in 0..Len(q) /\ k \in 0..Len(q)
    BY <1>0
  <2>2. /\ p \in Seq(S) /\ Len(p) = Len(q) - (k - 1) /\ \A i \in 1..(Len(q) - (k - 1)) : p[i] = q[(k - 1) + i]
        /\ t \in Seq(S) /\ Len(t) = Len(q) - k /\ \A i \in 1..(Len(q) - k) : t[i] = q[k + i]
    BY <1>1, <2>1
  <2> HIDE DEF p, t
  <2>3. 1 \in 1..Len(p) /\ p[1] = q[k]
    BY <1>0, <2>2
  <2>4. r \in Seq(S) /\ Len(r) = Len(p) - 1 /\ \A i \in 1..(Len(p) - 1) : r[i] = p[IF i < 1 THEN i ELSE i + 1]
    BY <2>2, <2>3, RemovedIs
  <2> HIDE DEF r
  <2>5. Len(r) = Len(t)
    BY <1>0, <2>2, <2>4
  <2>6. \A i \in 1..Len(t) : r[i] = t[i]
    <3> TAKE i \in 1..Len(t)
    <3>1. /\ i \in 1..(Len(p) - 1) /\ ~(i < 1) /\ i + 1 \in 1..(Len(q) - (k - 1)) /\ (k - 1) + (i + 1) = k + i
          /\ i \in 1..(Len(q) - k)
      BY <1>0, <2>1, <2>2
    <3> QED BY <2>2, <2>4, <3>1
  <2>7. r = t
    BY <2>2, <2>4, <2>5, <2>6, SeqEqual
  <2> QED BY <2>3, <2>7 DEF p, r, t
<1> QED BY <1>1, <1>2, <1>3, <1>4

(* Putting a list twice is putting the second one.                          *)
LEMMA PutTwice ==
  ASSUME NEW sh \in Shelf, NEW s \in ShapeIds, NEW q \in Seq(PolyIds), NEW p \in Seq(PolyIds), NEW c \in Nat \ {0}
  PROVE  /\ Put(sh, s, q, c) \in Shelf /\ Put(sh, s, q, c)[s].lines = q /\ Put(sh, s, q, c)[s].cap = c
         /\ Put(sh, s, q, c)[s].lives = sh[s].lives /\ \A t \in ShapeIds \ {s} : Put(sh, s, q, c)[t] = sh[t]
         /\ Put(Put(sh, s, q, c), s, p, c) = Put(sh, s, p, c)
         /\ Put(sh, s, sh[s].lines, sh[s].cap) = sh
<1> DEFINE r == [lines |-> q, cap |-> c, lives |-> sh[s].lives]
           to == Put(sh, s, q, c)
<1>1. sh[s] = [lines |-> sh[s].lines, cap |-> sh[s].cap, lives |-> sh[s].lives] /\ sh[s].lives \in BOOLEAN
  BY DEF Shelf, ShapeRecords
<1>2. r \in ShapeRecords /\ r.lines = q /\ r.cap = c /\ r.lives = sh[s].lives
  BY <1>1 DEF ShapeRecords
<1>3. to = [sh EXCEPT ![s] = r]
  BY DEF Put
<1> HIDE DEF r, to
<1>4. to \in Shelf /\ to[s] = r /\ \A t \in ShapeIds \ {s} : to[t] = sh[t]
  BY <1>2, <1>3 DEF Shelf
<1> DEFINE e == [lines |-> p, cap |-> c, lives |-> sh[s].lives]
<1>5. Put(to, s, p, c) = [to EXCEPT ![s] = e]
  BY <1>2, <1>4 DEF Put
<1>6. Put(sh, s, p, c) = [sh EXCEPT ![s] = e]
  BY DEF Put
<1> HIDE DEF e
<1>7. Put(to, s, p, c) = Put(sh, s, p, c)
  BY <1>3, <1>5, <1>6 DEF Shelf
<1>8. Put(sh, s, sh[s].lines, sh[s].cap) = sh
  <2> DEFINE o == [lines |-> sh[s].lines, cap |-> sh[s].cap, lives |-> sh[s].lives]
  <2>1. o = sh[s]
    BY <1>1
  <2>2. Put(sh, s, sh[s].lines, sh[s].cap) = [sh EXCEPT ![s] = o]
    BY DEF Put
  <2> HIDE DEF o
  <2> QED BY <2>1, <2>2 DEF Shelf
<1> QED BY <1>2, <1>4, <1>7, <1>8 DEF to

(* All entries of a shape are given back; when it dies, its lines may be    *)
(* short of references.                                                     *)
LEMMA EmptiedKeeps ==
  ASSUME ShapesAssumption, ShapesInv, NEW s \in ShapeIds, Usable(s), NEW dying \in BOOLEAN,
         NEW tk, tk = taken \cup (IF dying THEN Listed(s) ELSE {})
  PROVE  Good(Emptied(s, dying), Put(shape, s, <<>>, shape[s].cap), tk)
<1> DEFINE q == shape[s].lines
           n == Len(q)
           c == shape[s].cap
<1>1. PICK g : /\ Emptied(s, dying) = g[1..n] /\ g[1..0] = poly
               /\ \A k \in 1..n : g[1..k] = Given(g[1..(k - 1)], q[k], dying)
  BY EmptiedFolds
<1>2. /\ q \in Seq(PolyIds) /\ n \in Nat /\ c \in Nat \ {0} /\ shape \in Shelf
      /\ Listed(s) = {q[i] : i \in 1..n} /\ Listed(s) \subseteq PolyIds
  BY ShapeIs DEF ShapesInv, Good, Listed
<1> DEFINE sh(k) == Put(shape, s, Rest(q, k), c)
           Fine(k) == Good(g[1..k], sh(k), tk)
           G == {k \in 0..n : Fine(k)}
<1>3. Fine(0)
  <2>1. Good(poly, shape, tk)
    <3>1. (IF dying THEN Listed(s) ELSE {}) \in SUBSET PolyIds
      BY <1>2
    <3> QED BY <3>1, GoodWider DEF ShapesInv
  <2>2. sh(0) = shape
    <3>1. Rest(q, 0) = q
      BY <1>2, RestIs
    <3> QED BY <1>2, <3>1, PutTwice
  <2> HIDE DEF sh
  <2> QED BY <1>1, <2>1, <2>2
<1>4. ASSUME NEW k \in 1..n, Fine(k - 1)
      PROVE  Fine(k)
  <2> DEFINE pool == g[1..(k - 1)]
             l == q[k]
             o == GivenUp(pool[l], dying)
             was == sh(k - 1)
  <2>1. Good(pool, was, tk)
    BY <1>4
  <2>2. /\ was[s].lines = Rest(q, k - 1) /\ was[s].cap = c /\ was \in Shelf
        /\ Put(was, s, Rest(q, k), c) = sh(k)
    <3>1. Rest(q, k - 1) \in Seq(PolyIds) /\ Rest(q, k) \in Seq(PolyIds)
      BY <1>2, RestIs
    <3> QED BY <1>2, <3>1, PutTwice
  <2>3. Rest(q, k - 1)[1] = l /\ 1 \in 1..Len(Rest(q, k - 1)) /\ Rest(q, k) = RemoveAt(Rest(q, k - 1), 1)
    BY <1>2, RestIs
  <2>4. g[1..k] = [pool EXCEPT ![l] = o]
    BY <1>1 DEF Given
  <2>5. l \in Listed(s) /\ l \in PolyIds
    <3>1. l \in {q[i] : i \in 1..n}
      OBVIOUS
    <3> HIDE DEF l, q, n
    <3> QED BY <1>2, <3>1
  <2> HIDE DEF was, pool, sh, l, q, c, n
  <2>7. l \in ToSet(was[s].lines)
    <3>1. was[s].lines \in Seq(PolyIds) /\ was[s].lines[1] = l /\ 1 \in 1..Len(was[s].lines)
      BY <1>2, <2>2, <2>3, ShapeIs
    <3> QED BY <3>1, LenProperties DEF ToSet
  <2>8. pool[l] # <<>>
    BY <2>1, <2>7 DEF Good, ShapeOK
  <2>9. /\ Thread(pool[l]) /\ pool[l].count = References(pool, l) /\ References(pool, l) \in Nat
        /\ l \notin tk => References(pool, l) # 0
    <3>1. EntriesIn(was, l) # 0
      BY <2>2, <2>7, EntriesSome
    <3> QED BY <2>1, <2>5, <2>8, <3>1, ReferencesAre
  <2>10. /\ Thread(o)
         /\ o.count = 0 \/ o.count <= References(pool, l) - 1
         /\ ~dying /\ References(pool, l) # 0 => o.count = References(pool, l) - 1
    BY <2>9, GivenUpIs
  <2>11. l \notin tk => o.count = References(pool, l) - 1
    <3>1. l \notin tk => ~dying
      BY <2>5
    <3> HIDE DEF o
    <3> QED BY <2>9, <2>10, <3>1
  <2> HIDE DEF o
  <2>12. Good([pool EXCEPT ![l] = o], Put(was, s, RemoveAt(was[s].lines, 1), was[s].cap), tk)
    BY <2>1, <2>2, <2>3, <2>10, <2>11, LessKeeps
  <2> QED BY <2>2, <2>3, <2>4, <2>12
<1>5. \A k \in 1..n : k - 1 \in G => k \in G
  <2> HIDE DEF Fine
  <2>1. \A k \in 1..n : k \in 0..n
    BY <1>2
  <2> QED BY <1>4, <2>1
<1>6. 0 \in G
  <2> HIDE DEF Fine
  <2> QED BY <1>2, <1>3
<1>7. Fine(n)
  <2> HIDE DEF Fine
  <2>1. n \in G
    <3> HIDE DEF G
    <3>1. \A k \in 0..n : k \in G
      BY <1>2, <1>5, <1>6, ZeroToLast
    <3> QED BY <1>2, <3>1
  <2> QED BY <2>1
<1>8. Rest(q, n) = <<>>
  BY <1>2, RestIs
<1> QED BY <1>1, <1>7, <1>8

LEMMA ClearPathKeeps ==
  ASSUME ShapesAssumption, ShapesInv, NEW s \in ShapeIds, ClearPath(s)
  PROVE  ShapesInv'
<1>1. /\ Usable(s) /\ poly' = Emptied(s, FALSE) /\ taken' = taken /\ shape' = ListPut(shape, s, <<>>)
      /\ shape \in Shelf
  BY DEF ClearPath, ListPut, ShapesInv, Good
<1>2. shape' = Put(shape, s, <<>>, shape[s].cap)
  BY <1>1, ListPutIs
<1>3. Good(Emptied(s, FALSE), Put(shape, s, <<>>, shape[s].cap), taken)
  <2>1. taken = taken \cup (IF FALSE THEN Listed(s) ELSE {})
    OBVIOUS
  <2> QED BY <1>1, <2>1, EmptiedKeeps
<1> QED BY <1>1, <1>2, <1>3 DEF ShapesInv

LEMMA DropShapeKeeps ==
  ASSUME ShapesAssumption, ShapesInv, NEW s \in ShapeIds, DropShape(s)
  PROVE  ShapesInv'
<1> DEFINE pool == Emptied(s, TRUE)
           sh == Put(shape, s, <<>>, shape[s].cap)
           tk == taken \cup Listed(s)
           r == NoLines(FALSE)
<1>1. /\ Usable(s) /\ poly' = pool /\ shape' = [shape EXCEPT ![s] = r]
      /\ taken' = taken \cup (Listed(s) \cap Elsewhere(s))
  BY DEF DropShape
<1>2. /\ shape \in Shelf /\ taken \in SUBSET PolyIds /\ Listed(s) \subseteq PolyIds
      /\ \A t \in ShapeIds : ShapeOK(poly, shape, taken, t)
  BY ShapeIs DEF ShapesInv, Good, Listed
<1>3. Good(pool, sh, tk)
  <2>1. tk = taken \cup (IF TRUE THEN Listed(s) ELSE {})
    OBVIOUS
  <2> QED BY <1>1, <2>1, EmptiedKeeps
<1>4. sh \in Shelf /\ sh[s].lines = <<>> /\ \A t \in ShapeIds \ {s} : sh[t] = shape[t]
  <2> DEFINE e == <<>>
             c == shape[s].cap
  <2>1. e \in Seq(PolyIds) /\ c \in Nat \ {0} /\ sh = Put(shape, s, e, c)
    BY <1>2, ShapeIs
  <2> HIDE DEF e, c, sh
  <2>2. sh \in Shelf /\ sh[s].lines = e /\ \A t \in ShapeIds \ {s} : sh[t] = shape[t]
    BY <1>2, <2>1, PutTwice
  <2> QED BY <2>2 DEF e
<1>5. r \in ShapeRecords /\ r.lines = <<>> /\ ~r.lives
  <2>1. <<>> \in Seq(PolyIds)
    OBVIOUS
  <2> QED BY <2>1 DEF NoLines, ShapeRecords, ShapesAssumption
<1>6. pool = [l \in PolyIds |-> pool[l]] /\ (\A l \in PolyIds : LineOK(pool, sh, tk, l))
      /\ \A t \in ShapeIds : ShapeOK(pool, sh, tk, t)
  BY <1>3 DEF Good
<1> HIDE DEF pool, sh, r
<1>7. shape' \in Shelf /\ shape'[s] = r /\ \A t \in ShapeIds \ {s} : shape'[t] = shape[t]
  BY <1>1, <1>2, <1>5 DEF Shelf
<1>8. \A t \in ShapeIds : shape'[t].lines = sh[t].lines
  BY <1>4, <1>5, <1>7
<1>9. \A l : EntriesIn(shape', l) = EntriesIn(sh, l)
  <2> TAKE l
  <2>1. \A t \in ShapeIds : In(shape', t, l) = In(sh, t, l)
    BY <1>8 DEF In
  <2>2. Ins(shape', l) = Ins(sh, l)
    BY <2>1 DEF Ins
  <2> QED BY <2>2, EntriesAre
<1>10. taken' \in SUBSET PolyIds /\ taken' \subseteq tk
  BY <1>1, <1>2
<1>11. ToSet(<<>>) = {}
  BY DEF ToSet
<1>12. ASSUME NEW t \in ShapeIds, NEW l \in ToSet(sh[t].lines)
       PROVE  t # s /\ (l \in tk => l \in taken')
  <2>1. t # s
    BY <1>4, <1>11
  <2>2. sh[t] = shape[t] /\ l \in Listed(t)
    BY <1>4, <2>1 DEF Listed
  <2>3. shape[t].lives
    BY <1>2, <1>11, <2>2 DEF ShapeOK, Listed
  <2>4. l \in Elsewhere(s)
    BY <2>1, <2>2, <2>3 DEF Elsewhere
  <2> QED BY <1>1, <2>1, <2>4
<1>13. ASSUME NEW l \in PolyIds
       PROVE  LineOK(poly', shape', taken', l)
  <2>1. LineOK(pool, sh, tk, l) /\ EntriesIn(shape', l) = EntriesIn(sh, l)
    BY <1>6, <1>9
  <2>2. ASSUME l \in tk, l \notin taken'
        PROVE  EntriesIn(sh, l) = 0
    <3>1. Unlisted(sh, l)
      BY <1>12, <2>2 DEF Unlisted
    <3> QED BY <1>4, <3>1, EntriesNone
  <2>3. ASSUME pool[l] # <<>>, l \notin taken'
        PROVE  pool[l].count = EntriesIn(shape', l)
    <3>1. CASE l \notin tk
      BY <2>1, <2>3, <3>1 DEF LineOK
    <3>2. CASE l \in tk
      <4>1. EntriesIn(sh, l) = 0 /\ pool[l].count <= EntriesIn(sh, l)
        BY <2>1, <2>2, <2>3, <3>2 DEF LineOK
      <4>2. pool[l].count \in Nat
        BY <2>1, <2>3, ThreadFields DEF LineOK, Thread
      <4> QED BY <2>1, <4>1, <4>2
    <3> QED BY <3>1, <3>2
  <2> QED BY <1>1, <2>1, <2>3 DEF LineOK
<1>14. ASSUME NEW t \in ShapeIds
       PROVE  ShapeOK(poly', shape', taken', t)
  <2>1. \A l \in ToSet(shape'[t].lines) : pool[l] # <<>> /\ (l \in taken' \/ ~pool[l].freed)
    <3> TAKE l \in ToSet(shape'[t].lines)
    <3>1. l \in ToSet(sh[t].lines)
      BY <1>8
    <3>2. l \in tk => l \in taken'
      BY <1>12, <3>1
    <3>3. pool[l] # <<>> /\ (l \in tk \/ ~pool[l].freed)
      BY <1>6, <3>1 DEF ShapeOK
    <3> QED BY <3>2, <3>3
  <2>2. CASE t = s
    BY <1>1, <1>5, <1>7, <2>1, <2>2 DEF ShapeOK
  <2>3. CASE t # s
    <3>1. shape'[t] = shape[t] /\ ShapeOK(poly, shape, taken, t)
      BY <1>2, <1>7, <2>3
    <3> QED BY <1>1, <2>1, <3>1 DEF ShapeOK
  <2> QED BY <2>2, <2>3
<1> QED BY <1>1, <1>6, <1>7, <1>10, <1>13, <1>14 DEF ShapesInv, Good

(* The lines that are born are the first ones.                              *)
LEMMA BornFirst ==
  ASSUME ShapesAssumption, ShapesInv
  PROVE  LET B == {l \in PolyIds : Born(l)} IN
           Cardinality(B) \in Nat /\ B = 1..Cardinality(B)
<1> DEFINE B == {l \in PolyIds : Born(l)}
<1>1. Cardinality(PolyIds) \in Nat /\ PolyIds = 1..Cardinality(PolyIds)
  BY FS_CardinalityType DEF ShapesAssumption
<1>2. \A l \in B, k \in PolyIds : k < l => k \in B
  <2>1. \A k \in PolyIds : LineOK(poly, shape, taken, k)
    BY DEF ShapesInv, Good
  <2> QED BY <2>1 DEF LineOK, Born
<1>3. B \subseteq PolyIds
  OBVIOUS
<1> HIDE DEF B
<1> DEFINE N == Cardinality(PolyIds)
<1>4. N \in Nat /\ PolyIds = 1..N
  BY <1>1
<1> HIDE DEF N
<1>5. CASE B = {}
  <2>1. Cardinality(B) = 0
    BY <1>5, FS_EmptySet
  <2>2. B = 1..0
    BY <1>5
  <2>3. Cardinality(B) \in Nat /\ B = 1..Cardinality(B)
    BY <2>1, <2>2
  <2> QED BY <2>3 DEF B
<1>6. CASE B # {}
  <2> DEFINE m == Max(B)
  <2>1. m \in B /\ \A l \in B : l <= m
    <3>1. B \in SUBSET (0..N)
      BY <1>3, <1>4
    <3> QED BY <1>4, <1>6, <3>1, MaxIs
  <2> HIDE DEF m
  <2>2. m \in Nat /\ m <= N
    BY <1>3, <1>4, <2>1
  <2>3. B = 1..m
    <3>1. \A l \in B : l \in 1..m
      BY <1>3, <1>4, <2>1, <2>2
    <3>2. \A k \in 1..m : k \in B
      <4> TAKE k \in 1..m
      <4>1. k \in PolyIds /\ (k = m \/ k < m)
        BY <1>4, <2>2
      <4> QED BY <1>2, <2>1, <4>1
    <3> QED BY <3>1, <3>2
  <2>4. Cardinality(B) = m
    BY <2>2, <2>3, FS_Interval
  <2> QED BY <2>2, <2>3, <2>4 DEF B
<1> QED BY <1>5, <1>6

LEMMA CopyShapeKeeps ==
  ASSUME ShapesAssumption, ShapesInv, NEW s \in ShapeIds, NEW to \in ShapeIds, CopyShape(s, to)
  PROVE  ShapesInv'
<1> DEFINE m == Cardinality({l \in PolyIds : Born(l)})
           q == shape[s].lines
           n == Len(q)
           new == [i \in DOMAIN q |-> m + i]
           N == ToSet(new)
           o == Line!Ref(Line!Unmade)
           r == [lines |-> new, cap |-> shape[s].cap, lives |-> TRUE]
<1>1. /\ Usable(s) /\ ~shape[to].lives /\ N \subseteq PolyIds /\ taken' = taken
      /\ poly' = [l \in PolyIds |-> IF l \in N THEN o ELSE poly[l]]
      /\ shape' = [shape EXCEPT ![to] = r]
  BY DEF CopyShape
<1>2. /\ shape \in Shelf /\ taken \in SUBSET PolyIds
      /\ (\A l \in PolyIds : LineOK(poly, shape, taken, l))
      /\ \A t \in ShapeIds : ShapeOK(poly, shape, taken, t)
  BY DEF ShapesInv, Good
<1>3. n \in Nat /\ DOMAIN q = 1..n /\ shape[s].cap \in Nat \ {0} /\ n <= shape[s].cap
  BY <1>1, <1>2, ShapeIs DEF Usable, ShapeOK
<1>4. m \in Nat /\ \A l \in PolyIds : Born(l) <=> l \in 1..m
  <2>1. m \in Nat /\ {l \in PolyIds : Born(l)} = 1..m
    BY BornFirst
  <2> HIDE DEF m
  <2>2. \A l \in PolyIds : Born(l) <=> l \in {k \in PolyIds : Born(k)}
    OBVIOUS
  <2> QED BY <2>1, <2>2
<1>5. PolyIds \subseteq Nat
  <2>1. Cardinality(PolyIds) \in Nat /\ PolyIds = 1..Cardinality(PolyIds)
    BY FS_CardinalityType DEF ShapesAssumption
  <2> QED BY <2>1
<1>6. /\ new \in Seq(PolyIds) /\ Len(new) = n /\ N = {m + i : i \in 1..n}
      /\ \A i \in 1..n : new[i] = m + i
  <2>1. new = [i \in 1..n |-> m + i]
    BY <1>3
  <2> HIDE DEF m, n, q
  <2>2. DOMAIN new = 1..n /\ \A i \in 1..n : new[i] = m + i
    BY <2>1
  <2> HIDE DEF new
  <2>3. N = {m + i : i \in 1..n}
    BY <2>2 DEF ToSet
  <2>4. \A i \in 1..n : new[i] \in PolyIds
    BY <1>1, <2>2, <2>3
  <2>5. new \in [1..n -> PolyIds]
    BY <2>1, <2>2, <2>4
  <2> QED BY <1>3, <2>2, <2>3, <2>5, TableIs
<1> HIDE DEF m, q, n, new, N
<1>7. \A l \in PolyIds : l \in N <=> (m < l /\ l <= m + n)
  <2> TAKE l \in PolyIds
  <2>1. l \in Nat
    BY <1>5
  <2>2. m < l /\ l <= m + n => l = m + (l - m) /\ l - m \in 1..n
    BY <1>3, <1>4, <2>1
  <2>3. l \in N <=> \E i \in 1..n : l = m + i
    BY <1>6
  <2>4. ASSUME NEW i \in 1..n, l = m + i
        PROVE  m < l /\ l <= m + n
    BY <1>3, <1>4, <2>4
  <2> QED BY <2>2, <2>3, <2>4
<1>8. \A l : Occurs(new, l) = IF l \in N THEN 1 ELSE 0
  <2> TAKE l
  <2>1. CASE l \in N
    <3>1. PICK i \in 1..n : l = m + i
      BY <1>6, <2>1
    <3>2. {j \in DOMAIN new : new[j] = l} = {i}
      <4>1. DOMAIN new = 1..n
        BY <1>6, LenProperties
      <4>2. \A j \in 1..n : new[j] = l <=> j = i
        <5> TAKE j \in 1..n
        <5>1. new[j] = m + j
          BY <1>6
        <5> QED BY <1>3, <1>4, <3>1, <5>1
      <4> QED BY <4>1, <4>2
    <3> QED BY <2>1, <3>2, FS_Singleton DEF Occurs
  <2>2. CASE l \notin N
    <3>1. \A i \in 1..Len(new) : new[i] # l
      BY <1>6, <2>2
    <3> QED BY <1>6, <2>2, <3>1, OccursIs
  <2> QED BY <2>1, <2>2
<1>9. Thread(o) /\ o.count = 1 /\ ~o.freed /\ o # <<>>
  <2>1. Thread(o) /\ o.count = Line!Unmade.count + 1 /\ o.freed = Line!Unmade.freed
    BY ThreadUnmade, ThreadRef
  <2>2. Line!Unmade.count + 1 = 1 /\ ~Line!Unmade.freed
    BY ThreadUnmade
  <2> QED BY <2>1, <2>2, ThreadFields DEF Thread
<1> HIDE DEF o
<1>10. r \in ShapeRecords /\ r.lines = new /\ r.lives /\ r.cap = shape[s].cap
  BY <1>3, <1>6 DEF ShapeRecords
<1> HIDE DEF r
<1>11. shape' \in Shelf /\ shape'[to] = r /\ \A t \in ShapeIds \ {to} : shape'[t] = shape[t]
  BY <1>1, <1>2, <1>10 DEF Shelf
<1>12. shape[to].lines = <<>>
  BY <1>1, <1>2 DEF ShapeOK
<1>13. ASSUME NEW l
       PROVE  EntriesIn(shape', l) = EntriesIn(shape, l) + (IF l \in N THEN 1 ELSE 0)
  <2>1. \A t \in ShapeIds \ {to} : shape'[t].lines = shape[t].lines
    BY <1>11
  <2>2. EntriesIn(shape', l) + In(shape, to, l) = EntriesIn(shape, l) + In(shape', to, l)
    BY <1>2, <1>11, <2>1, EntriesThen
  <2>3. In(shape, to, l) = 0
    BY <1>12, OccursEmpty DEF In
  <2>4. In(shape', to, l) = IF l \in N THEN 1 ELSE 0
    BY <1>8, <1>10, <1>11 DEF In
  <2>5. EntriesIn(shape', l) \in Nat /\ EntriesIn(shape, l) \in Nat
    BY <1>2, <1>11, EntriesCount
  <2> QED BY <2>2, <2>3, <2>4, <2>5
<1>14. \A l \in PolyIds : poly'[l] = IF l \in N THEN o ELSE poly[l]
  BY <1>1
<1>15. \A l \in N : l \in PolyIds /\ poly[l] = <<>>
  <2> TAKE l \in N
  <2>1. l \in PolyIds /\ l \in Nat /\ ~(l \in 1..m)
    BY <1>1, <1>4, <1>5, <1>7
  <2> QED BY <1>4, <2>1 DEF Born
<1>16. ASSUME NEW l \in PolyIds
       PROVE  LineOK(poly', shape', taken', l)
  <2>1. CASE l \in N
    <3>1. Unlisted(shape, l)
      BY <1>2, <1>15, <2>1 DEF Unlisted, ShapeOK
    <3>2. EntriesIn(shape, l) = 0
      BY <1>2, <3>1, EntriesNone
    <3>3. EntriesIn(shape', l) = 1
      BY <1>13, <2>1, <3>2
    <3> QED BY <1>9, <1>14, <2>1, <3>3 DEF LineOK
  <2>2. CASE l \notin N
    <3>1. EntriesIn(shape', l) = EntriesIn(shape, l)
      <4>1. EntriesIn(shape', l) = EntriesIn(shape, l) + 0 /\ EntriesIn(shape, l) \in Nat
        BY <1>2, <1>13, <2>2, EntriesCount
      <4> QED BY <4>1
    <3>2. poly'[l] = poly[l] /\ LineOK(poly, shape, taken, l)
      BY <1>2, <1>14, <2>2
    <3>3. poly[l] = <<>> => \A k \in PolyIds : l < k => poly'[k] = <<>>
      <4> SUFFICES ASSUME poly[l] = <<>>, NEW k \in PolyIds, l < k
                   PROVE  poly'[k] = <<>>
        OBVIOUS
      <4>1. l \in Nat /\ k \in Nat
        BY <1>5
      <4>2. ~(l \in 1..m) /\ 1 <= l
        <5>1. 1 <= l
          BY FS_CardinalityType DEF ShapesAssumption
        <5> QED BY <1>4, <5>1 DEF Born
      <4>3. k \notin N
        BY <1>3, <1>4, <1>7, <2>2, <4>1, <4>2
      <4>4. poly[k] = <<>>
        BY <3>2 DEF LineOK
      <4> QED BY <1>14, <4>3, <4>4
    <3> QED BY <1>1, <3>1, <3>2, <3>3 DEF LineOK
  <2> QED BY <2>1, <2>2
<1>17. ASSUME NEW t \in ShapeIds
       PROVE  ShapeOK(poly', shape', taken', t)
  <2>1. CASE t = to
    <3>1. shape'[t].lines = new /\ shape'[t].lives /\ Len(new) <= shape'[t].cap
      BY <1>3, <1>6, <1>10, <1>11, <2>1
    <3>2. \A l \in N : poly'[l] # <<>> /\ ~poly'[l].freed
      BY <1>9, <1>14, <1>15
    <3> QED BY <3>1, <3>2 DEF ShapeOK, N
  <2>2. CASE t # to
    <3>1. shape'[t] = shape[t] /\ ShapeOK(poly, shape, taken, t) /\ ToSet(shape[t].lines) \subseteq PolyIds
      BY <1>2, <1>11, <2>2, ShapeIs
    <3>2. \A l \in ToSet(shape[t].lines) : l \notin N /\ poly'[l] = poly[l]
      BY <1>14, <1>15, <3>1 DEF ShapeOK
    <3> QED BY <1>1, <3>1, <3>2 DEF ShapeOK
  <2> QED BY <2>1, <2>2
<1>18. poly' = [l \in PolyIds |-> poly'[l]]
  BY <1>1
<1> QED BY <1>1, <1>2, <1>11, <1>16, <1>17, <1>18 DEF ShapesInv, Good

LEMMA ShapesStep ==
  ASSUME ShapesAssumption, ShapesInv, [ShapesNext]_shapesVars
  PROVE  ShapesInv'
<1>1. CASE \E s \in ShapeIds : NewShape(s) \/ ClearPath(s) \/ DropShape(s)
  BY <1>1, NewShapeKeeps, ClearPathKeeps, DropShapeKeeps
<1>2. CASE \E s \in ShapeIds, l \in PolyIds : RemoveLine(s, l) \/ SetPath(s, l)
  BY <1>2, RemoveLineKeeps, SetPathKeeps
<1>3. CASE \E s \in ShapeIds, l \in PolyIds, i \in 1..MaxListed : PutLine(s, l, i)
  BY <1>3, PutLineKeeps
<1>4. CASE \E s \in ShapeIds, i \in 1..MaxListed : TakeLine(s, i) \/ ShowLine(s, i)
  BY <1>4, TakeLineKeeps, ShowLineKeeps
<1>5. CASE \E s \in ShapeIds, to \in ShapeIds : CopyShape(s, to)
  BY <1>5, CopyShapeKeeps
<1>6. CASE \E l \in PolyIds : NewLine(l)
  BY <1>6, NewLineKeeps
<1>7. CASE \E l \in PolyIds, p \in 1..PolyProxies : DropLine(l, p) \/ CollectLine(l, p)
  BY <1>7, DropLineKeeps, CollectLineKeeps
<1>8. CASE UNCHANGED shapesVars
  BY <1>8 DEF shapesVars, ShapesInv
<1> QED BY <1>1, <1>2, <1>3, <1>4, <1>5, <1>6, <1>7, <1>8 DEF ShapesNext

(* What follows for the lines that shapes have.                             *)
LEMMA ShapesShow ==
  ASSUME ShapesAssumption, ShapesInv
  PROVE  ShapesTypeOK /\ LinesHold
<1>1. /\ shape \in Shelf /\ taken \in SUBSET PolyIds
      /\ (\A l \in PolyIds : LineOK(poly, shape, taken, l)) /\ \A s \in ShapeIds : ShapeOK(poly, shape, taken, s)
  BY DEF ShapesInv, Good
<1>2. ShapesTypeOK
  <2>1. \A s \in ShapeIds : Listed(s) \subseteq PolyIds
    BY <1>1, ShapeIs DEF Listed
  <2>2. \A l \in PolyIds : Born(l) => poly[l] \in Line!Objects
    BY <1>1 DEF LineOK, Born, Thread
  <2> QED BY <1>1, <2>1, <2>2 DEF ShapesTypeOK
<1>3. \A s \in ShapeIds : shape[s].lives =>
        Len(shape[s].lines) <= shape[s].cap /\ \A l \in Listed(s) : Alive(l) \/ l \in taken
  BY <1>1 DEF ShapeOK, Listed, Alive, Born
<1>4. \A l \in PolyIds : Alive(l) =>
        poly[l].count <= Entries(l) /\ (poly[l].count = Entries(l) \/ l \in taken)
  BY <1>1 DEF LineOK, Alive, Born, Entries
<1> QED BY <1>2, <1>3, <1>4 DEF LinesHold

(* A line of a living shape is there, whatever scripts do with it and with  *)
(* other shapes, and has one reference for each entry that shapes have of   *)
(* it, unless one of several shapes it was in has died.                     *)
THEOREM LinesAreHeld == ShapesSpec => [](ShapesTypeOK /\ LinesHold)
<1>1. ShapesInit => ShapesInv
  BY ShapesAssumption, ShapesStart
<1>2. ShapesInv /\ [ShapesNext]_shapesVars => ShapesInv'
  BY ShapesAssumption, ShapesStep
<1>3. ShapesInv => ShapesTypeOK /\ LinesHold
  BY ShapesAssumption, ShapesShow
<1> QED BY <1>1, <1>2, <1>3, PTL DEF ShapesSpec

==============================================================================
