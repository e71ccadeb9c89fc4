--------------------------- MODULE DrawingProofs ---------------------------
(***************************************************************************)
(* Proofs about Drawing, for any components of every kind, any textures,   *)
(* colours, draw orders, overlays, capacity and bounds.  What is to be     *)
(* drawn is compared by weight: two sequences have the same elements       *)
(* equally often when every way to weigh elements gives both one sum.  At  *)
(* the end, what holds of the six components of a scene holds together.    *)
(***************************************************************************)
EXTENDS MCScene, SceneProofs, Facts, FiniteSetTheorems, SequenceTheorems, TLAPS

(* So their tallies are the same. *)
LEMMA TallySame ==
  ASSUME NEW X, NEW s \in Seq(X), NEW t \in Seq(X), \A w \in [X -> Nat] : Weight(s, w) = Weight(t, w)
  PROVE  Tally(s) = Tally(t)
<1>1. \A e : Occurs(s, e) = Occurs(t, e)
  <2> TAKE e
  <2> DEFINE w == [x \in X |-> IF x = e THEN 1 ELSE 0]
  <2>1. w \in [X -> Nat]
    OBVIOUS
  <2>2. Occurs(s, e) = Weight(s, w) /\ Occurs(t, e) = Weight(t, w)
    BY OccursWeigh
  <2> HIDE DEF w
  <2> QED BY <2>1, <2>2
<1>2. ToSet(s) = ToSet(t)
  <2>1. \A e : (Occurs(s, e) = 0 <=> \A i \in 1..Len(s) : s[i] # e) /\ (Occurs(t, e) = 0 <=> \A i \in 1..Len(t) : t[i] # e)
    BY OccursIs
  <2>2. DOMAIN s = 1..Len(s) /\ DOMAIN t = 1..Len(t)
    BY LenProperties
  <2>3. \A e : e \in ToSet(s) <=> e \in ToSet(t)
    BY <1>1, <2>1, <2>2 DEF ToSet
  <2> QED BY <2>3
<1>3. Tally(s) = [e \in ToSet(s) |-> Occurs(s, e)] /\ Tally(t) = [e \in ToSet(t) |-> Occurs(t, e)]
  BY DEF Tally, Occurs
<1> QED BY <1>1, <1>2, <1>3
-----------------------------------------------------------------------------
(* Drawing: looks, pieces and what components add.                          *)
FlatLooks == {Texture(id) : id \in Assets} \cup {Colored(c, b) : c \in Colors, b \in BOOLEAN}

FlatPieces == [look : FlatLooks, z : Nat]

(* What of a look stays a texture is that texture. *)
Honest(s, look) == \A j \in DOMAIN s : s[j][1] = "texture" => s[j] = look

LEMMA FlatLookIs ==
  ASSUME NEW look \in FlatLooks
  PROVE  look[1] \in {"texture", "color"}
BY DEF FlatLooks, Texture, Colored

LEMMA ColoredIs ==
  ASSUME NEW c \in Colors
  PROVE  Colored(c, TRUE) \in FlatLooks /\ Colored(c, FALSE) \in FlatLooks
<1>1. \A b \in BOOLEAN : Colored(c, b) \in FlatLooks
  BY DEF FlatLooks
<1>2. TRUE \in BOOLEAN /\ FALSE \in BOOLEAN
  OBVIOUS
<1> QED BY <1>1, <1>2

LEMMA OnlyIs ==
  ASSUME NEW X, NEW condition, NEW x, condition => x \in X
  PROVE  Only(condition, x) \in Seq(X) /\ \A j \in DOMAIN Only(condition, x) : Only(condition, x)[j] = x
<1>1. CASE condition
  <2>1. Only(condition, x) = <<x>> /\ x \in X
    BY <1>1 DEF Only
  <2> QED BY <2>1
<1>2. CASE ~condition
  <2>1. Only(condition, x) = <<>>
    BY <1>2 DEF Only
  <2> QED BY <2>1, EmptySeq
<1> QED BY <1>1, <1>2

LEMMA FlatIs ==
  ASSUME NEW look \in Looks
  PROVE  Flat(look) \in Seq(FlatLooks) /\ Honest(Flat(look), look)
<1>1. CASE look \in {Texture(id) : id \in Assets}
  <2>1. look[1] = "texture" /\ look \in FlatLooks
    BY <1>1 DEF Texture, FlatLooks
  <2>2. Flat(look) = <<look>>
    BY <2>1 DEF Flat
  <2> QED BY <2>1, <2>2 DEF Honest
<1>2. CASE look \in {Outline(c, b) : c \in Colors, b \in BOOLEAN}
  <2>1. look[1] = "rect" /\ Colored(look[2], look[3]) \in FlatLooks
    BY <1>2 DEF Outline, FlatLooks
  <2> DEFINE q == Colored(look[2], look[3])
  <2>2. q[1] = "color"
    BY DEF Colored
  <2>3. Flat(look) = <<q>>
    BY <2>1 DEF Flat
  <2> HIDE DEF q
  <2> QED BY <2>1, <2>2, <2>3 DEF Honest, q
<1>3. CASE look \in {Polyline(f, c) : f \in Colors, c \in Colors}
  <2> DEFINE p == Colored(look[2], TRUE)
             q == Colored(look[3], FALSE)
             s == Only(look[2] # Clear, p)
             t == Only(look[3] # Clear, q)
  <2>1. look[1] = "polyline" /\ p \in FlatLooks /\ q \in FlatLooks
    <3>1. PICK f \in Colors : \E c \in Colors : look = Polyline(f, c)
      BY <1>3
    <3>2. PICK c \in Colors : look = Polyline(f, c)
      BY <3>1
    <3>3. look[1] = "polyline" /\ look[2] = f /\ look[3] = c
      BY <3>2 DEF Polyline
    <3>4. p = Colored(f, TRUE) /\ q = Colored(c, FALSE)
      BY <3>3
    <3> HIDE DEF p, q
    <3> QED BY <3>3, <3>4, ColoredIs
  <2>2. p[1] = "color" /\ q[1] = "color"
    BY DEF Colored
  <2>3. Flat(look) = s \o t
    BY <2>1 DEF Flat
  <2> HIDE DEF p, q
  <2>4. /\ s \in Seq(FlatLooks) /\ (\A j \in DOMAIN s : s[j] = p)
        /\ t \in Seq(FlatLooks) /\ (\A j \in DOMAIN t : t[j] = q)
    BY <2>1, OnlyIs
  <2> HIDE DEF s, t
  <2>5. s \o t \in Seq(FlatLooks) /\ \A j \in DOMAIN (s \o t) : (s \o t)[j] \in {p, q}
    <3>1. Len(s) \in Nat /\ Len(t) \in Nat /\ DOMAIN s = 1..Len(s) /\ DOMAIN t = 1..Len(t)
      BY <2>4, LenProperties
    <3>2. /\ s \o t \in Seq(FlatLooks) /\ Len(s \o t) = Len(s) + Len(t)
          /\ \A j \in 1..(Len(s) + Len(t)) : (s \o t)[j] = IF j <= Len(s) THEN s[j] ELSE t[j - Len(s)]
      BY <2>4, ConcatProperties
    <3>3. DOMAIN (s \o t) = 1..(Len(s) + Len(t))
      BY <3>2, LenProperties
    <3>4. ASSUME NEW j \in 1..(Len(s) + Len(t))
          PROVE  (s \o t)[j] \in {p, q}
      <4>1. CASE j <= Len(s)
        <5>1. j \in DOMAIN s
          BY <3>1, <4>1
        <5> QED BY <2>4, <3>2, <4>1, <5>1
      <4>2. CASE ~(j <= Len(s))
        <5>1. j - Len(s) \in DOMAIN t
          BY <3>1, <4>2
        <5> QED BY <2>4, <3>2, <4>2, <5>1
      <4> QED BY <4>1, <4>2
    <3> QED BY <3>2, <3>3, <3>4
  <2> QED BY <2>2, <2>3, <2>5 DEF Honest
<1> QED BY <1>1, <1>2, <1>3 DEF Looks

LEMMA PartsAre ==
  ASSUME NEW thing \in Things
  PROVE  /\ Parts(thing) \in Seq(FlatPieces)
         /\ \A j \in DOMAIN Parts(thing) :
              /\ Parts(thing)[j].z = thing.z
              /\ Parts(thing)[j].look[1] = "texture" => Parts(thing)[j].look = thing.look
<1> DEFINE s == Flat(thing.look)
           t == Parts(thing)
<1>1. thing.look \in Looks /\ thing.z \in Nat
  BY DEF Things
<1>2. s \in Seq(FlatLooks) /\ Honest(s, thing.look)
  BY <1>1, FlatIs
<1>3. t = [j \in DOMAIN s |-> [look |-> s[j], z |-> thing.z]]
  BY DEF Parts
<1> HIDE DEF s, t
<1>4. DOMAIN s = 1..Len(s) /\ Len(s) \in Nat /\ \A j \in DOMAIN s : s[j] \in FlatLooks
  BY <1>2, LenProperties
<1>5. \A j \in DOMAIN s : [look |-> s[j], z |-> thing.z] \in FlatPieces
  BY <1>1, <1>4 DEF FlatPieces
<1>6. t \in [1..Len(s) -> FlatPieces]
  BY <1>3, <1>4, <1>5
<1>7. t \in Seq(FlatPieces)
  BY <1>4, <1>6, SeqDef
<1>8. ASSUME NEW j \in DOMAIN t
      PROVE  t[j].z = thing.z /\ (t[j].look[1] = "texture" => t[j].look = thing.look)
  <2>1. j \in DOMAIN s /\ t[j].look = s[j] /\ t[j].z = thing.z
    BY <1>3
  <2> QED BY <1>2, <2>1 DEF Honest
<1> QED BY <1>7, <1>8 DEF t

PartsOf == [thing \in Things |-> Parts(thing)]

LEMMA PiecesAre ==
  ASSUME NEW things \in Seq(Things)
  PROVE  /\ Pieces(things) \in Seq(FlatPieces)
         /\ \A w, v : Weighing(v, PartsOf, w, Things, FlatPieces) => Weight(Pieces(things), w) = Weight(things, v)
<1>1. PartsOf \in [Things -> Seq(FlatPieces)]
  BY PartsAre DEF PartsOf
<1>2. Pieces(things) = FlatMapped(things, PartsOf)
  <2>1. \A i \in DOMAIN things : PartsOf[things[i]] = Parts(things[i])
    BY LenProperties DEF PartsOf
  <2> QED BY <2>1 DEF Pieces, FlatMapped, Mapped
<1>3. FlatMapped(things, PartsOf) \in Seq(FlatPieces)
  BY <1>1, FlatMapIs
<1>4. ASSUME NEW w, NEW v, Weighing(v, PartsOf, w, Things, FlatPieces)
      PROVE  Weight(FlatMapped(things, PartsOf), w) = Weight(things, v)
  BY <1>4, FlatMapWeighs
<1> QED BY <1>2, <1>3, <1>4

(* What is drawn is of a type. *)
WorldTyped == \A d \in Drawables : world[d] = Absent \/ world[d] \in Component(d)

LEMMA ThingIs ==
  ASSUME NEW look \in Looks, NEW z \in Nat
  PROVE  Thing(look, z) \in Things
BY DEF Thing, Things

LEMMA ManyAre ==
  ASSUME NEW X, NEW x \in X, NEW n \in Nat
  PROVE  [i \in 1..n |-> x] \in Seq(X)
<1>1. [i \in 1..n |-> x] \in [1..n -> X]
  OBVIOUS
<1> QED BY <1>1, SeqDef

LEMMA KindsFinite == IsFiniteSet(Kinds)
<1>1. IsFiniteSet({}) /\ Kinds = (((({} \cup {"sprite"}) \cup {"text"}) \cup {"shape"}) \cup {"collider"}) \cup {"map"}
  BY FS_EmptySet DEF Kinds
<1> QED BY <1>1, FS_AddElement

LEMMA DeepIs ==
  ASSUME NEW d \in Drawables, NEW s \in Component(d)
  PROVE  Deep(s) \in Nat /\ s.art \in ArtOf(KindOf[d])
<1>1. s.order \in Nat /\ s.art \in ArtOf(KindOf[d]) /\ LayerStep \in Nat
  BY DrawingAssumption DEF Component
<1>2. \A a, b \in Nat : a * b \in Nat
  OBVIOUS
<1> QED BY <1>1, <1>2 DEF Deep

LEMMA ShapeAddsFit ==
  ASSUME NEW s, s.art \in Seq(Lines)
  PROVE  ShapeAdds(s) \in Seq(Things)
<1> DEFINE Fill1(p) == IF Filled(p) THEN p.fill ELSE Clear
           T(p) == Thing(Polyline(Fill1(p), p.stroke), 0)
           ss == [i \in DOMAIN s.art |-> Only(s.art[i].points >= 2, T(s.art[i]))]
<1>1. DOMAIN s.art = 1..Len(s.art) /\ Len(s.art) \in Nat /\ \A i \in DOMAIN s.art : s.art[i] \in Lines
  BY LenProperties
<1>2. ASSUME NEW p \in Lines
      PROVE  T(p) \in Things
  <2>1. Fill1(p) \in Colors /\ p.stroke \in Colors
    BY DrawingAssumption DEF Lines
  <2> HIDE DEF Fill1
  <2>2. Polyline(Fill1(p), p.stroke) \in Looks
    BY <2>1 DEF Looks
  <2> QED BY <2>2, ThingIs
<1> HIDE DEF T
<1>3. ss \in [1..Len(s.art) -> Seq(Things)]
  BY <1>1, <1>2, OnlyIs
<1>4. ss \in Seq(Seq(Things))
  BY <1>1, <1>3, SeqDef
<1>5. FlattenSeq(ss) \in Seq(Things)
  <2> HIDE DEF ss
  <2> QED BY <1>4, FlattenFits
<1>6. ShapeAdds(s) = IF ~Shown(s) THEN <<>> ELSE FlattenSeq(ss)
  BY DEF ShapeAdds, T
<1> HIDE DEF ss
<1> QED BY <1>5, <1>6, EmptySeq

LEMMA CellAddsFit ==
  ASSUME NEW s, Deep(s) \in Nat, s.art \in Seq(Seq(Assets \cup {NoAsset})), NEW c \in DOMAIN s.art
  PROVE  CellAdds(s, c) \in Seq(Things)
<1> DEFINE a == s.art[c]
           T(l) == Thing(Texture(a[l]), Deep(s) + 2 * (l - 1) * LayerStep + c - 1)
           ss == [l \in DOMAIN a |-> Only(a[l] # NoAsset, T(l))]
<1>1. a \in Seq(Assets \cup {NoAsset}) /\ c \in Nat \ {0}
  BY LenProperties
<1>2. DOMAIN a = 1..Len(a) /\ Len(a) \in Nat /\ \A l \in DOMAIN a : a[l] \in Assets \cup {NoAsset}
  BY <1>1, LenProperties
<1>3. ASSUME NEW l \in DOMAIN a, a[l] # NoAsset
      PROVE  T(l) \in Things
  <2>1. Texture(a[l]) \in Looks
    BY <1>2, <1>3 DEF Looks
  <2>2. Deep(s) + 2 * (l - 1) * LayerStep + c - 1 \in Nat
    <3> DEFINE m == 2 * (l - 1)
               q == m * LayerStep
    <3>1. m \in Nat /\ LayerStep \in Nat
      BY <1>2, DrawingAssumption
    <3>2. \A x, y \in Nat : x * y \in Nat
      OBVIOUS
    <3> HIDE DEF m
    <3>3. q \in Nat
      BY <3>1, <3>2
    <3> HIDE DEF q
    <3>4. Deep(s) + q + c - 1 \in Nat
      BY <1>1, <3>3
    <3> QED BY <3>4 DEF q, m
  <2> QED BY <2>1, <2>2, ThingIs
<1>4. CellAdds(s, c) = FlattenSeq(ss)
  BY DEF CellAdds
<1> HIDE DEF T
<1>5. ss \in [1..Len(a) -> Seq(Things)]
  BY <1>2, <1>3, OnlyIs
<1>6. ss \in Seq(Seq(Things))
  BY <1>2, <1>5, SeqDef
<1> HIDE DEF ss
<1> QED BY <1>4, <1>6, FlattenFits

LEMMA AddsFit ==
  ASSUME NEW d \in Drawables, WorldTyped
  PROVE  Adds(d) \in Seq(Things)
<1> DEFINE s == world[d]
<1>1. CASE s = Absent
  BY <1>1, EmptySeq DEF Adds
<1>2. CASE s # Absent
  <2>1. s \in Component(d) /\ Deep(s) \in Nat /\ s.art \in ArtOf(KindOf[d]) /\ KindOf[d] \in Kinds
    BY <1>2, DeepIs, DrawingAssumption DEF WorldTyped
  <2> HIDE DEF s
  <2>2. CASE KindOf[d] = "sprite"
    <3>1. Adds(d) = SpriteAdds(s)
      BY <1>2, <2>2 DEF Adds, s
    <3>2. s.art \in Assets \cup {NoAsset}
      BY <2>1, <2>2 DEF ArtOf
    <3>3. s.art # NoAsset => Thing(Texture(s.art), Deep(s)) \in Things
      <4>1. s.art # NoAsset => Texture(s.art) \in Looks
        BY <3>2 DEF Looks
      <4> QED BY <2>1, <4>1, ThingIs
    <3> DEFINE c == Shown(s) /\ s.art # NoAsset
               t == Thing(Texture(s.art), Deep(s))
    <3>4. SpriteAdds(s) = Only(c, t)
      BY DEF SpriteAdds
    <3>5. c => t \in Things
      BY <3>3
    <3> HIDE DEF c, t
    <3> QED BY <3>1, <3>4, <3>5, OnlyIs
  <2>3. CASE KindOf[d] = "text"
    <3>1. Adds(d) = TextAdds(s)
      BY <1>2, <2>3 DEF Adds, s
    <3>2. s.art \in Nat
      BY <2>1, <2>3 DEF ArtOf
    <3>3. Thing(Texture(Font), Deep(s)) \in Things
      BY <2>1, DrawingAssumption, ThingIs DEF Looks
    <3> QED BY <3>1, <3>2, <3>3, ManyAre, EmptySeq DEF TextAdds
  <2>4. CASE KindOf[d] = "shape"
    <3>1. Adds(d) = ShapeAdds(s)
      BY <1>2, <2>4 DEF Adds, s
    <3>2. s.art \in Seq(Lines)
      BY <2>1, <2>4 DEF ArtOf
    <3> QED BY <3>1, <3>2, ShapeAddsFit
  <2>5. CASE KindOf[d] = "collider"
    <3>1. Adds(d) = ColliderAdds(s)
      BY <1>2, <2>5 DEF Adds, s
    <3>2. s.art \in Nat
      BY <2>1, <2>5 DEF ArtOf
    <3>3. Outline("blue", FALSE) \in Looks
      <4>1. "blue" \in Colors /\ FALSE \in BOOLEAN
        BY DrawingAssumption
      <4>2. \A b \in BOOLEAN : Outline("blue", b) \in Looks
        BY <4>1 DEF Looks
      <4> QED BY <4>1, <4>2
    <3>4. Thing(Outline("blue", FALSE), Deep(s)) \in Things
      BY <2>1, <3>3, ThingIs
    <3> QED BY <3>1, <3>2, <3>4, ManyAre, EmptySeq DEF ColliderAdds
  <2>6. CASE KindOf[d] = "map"
    <3>1. Adds(d) = MapAdds(s)
      BY <1>2, <2>6 DEF Adds, s
    <3>2. s.art \in Seq(Seq(Assets \cup {NoAsset}))
      BY <2>1, <2>6 DEF ArtOf
    <3> DEFINE ss == [c \in DOMAIN s.art |-> CellAdds(s, c)]
    <3>3. ss \in [1..Len(s.art) -> Seq(Things)] /\ Len(s.art) \in Nat
      <4>1. DOMAIN s.art = 1..Len(s.art) /\ Len(s.art) \in Nat
        BY <3>2, LenProperties
      <4>2. \A c \in DOMAIN s.art : CellAdds(s, c) \in Seq(Things)
        BY <2>1, <3>2, CellAddsFit
      <4> QED BY <4>1, <4>2
    <3>4. ss \in Seq(Seq(Things))
      BY <3>3, SeqDef
    <3>5. FlattenSeq(ss) \in Seq(Things)
      <4> HIDE DEF ss
      <4> QED BY <3>4, FlattenFits
    <3>6. MapAdds(s) = IF Shown(s) THEN FlattenSeq(ss) ELSE <<>>
      BY DEF MapAdds
    <3> HIDE DEF ss
    <3> QED BY <3>1, <3>5, <3>6, EmptySeq
  <2> QED BY <2>1, <2>2, <2>3, <2>4, <2>5, <2>6 DEF Kinds
<1> QED BY <1>1, <1>2

(* What the components of a set add weighs what each adds. *)
AddsOf == [d \in Drawables |-> Adds(d)]

LEMMA AddingWeighs ==
  ASSUME WorldTyped, NEW S \in SUBSET Drawables, NEW w \in [Things -> Nat],
         NEW v \in [Drawables -> Nat], Weighing(v, AddsOf, w, Drawables, Things)
  PROVE  Adding(SetToSeq(S)) \in Seq(Things) /\ Weight(Adding(SetToSeq(S)), w) = Sum(v, S)
<1> DEFINE ds == SetToSeq(S)
<1>1. IsFiniteSet(S)
  BY FS_Subset, DrawingAssumption
<1>2. ds \in Seq(S) /\ Once(ds) /\ ToSet(ds) = S
  BY <1>1, InSomeOrder
<1>3. ds \in Seq(Drawables)
  BY <1>2, SeqMonotonic
<1> HIDE DEF ds
<1>4. AddsOf \in [Drawables -> Seq(Things)]
  BY AddsFit DEF AddsOf
<1>5. Adding(ds) = FlatMapped(ds, AddsOf)
  <2>1. \A i \in DOMAIN ds : AddsOf[ds[i]] = Adds(ds[i])
    BY <1>3, LenProperties DEF AddsOf
  <2> QED BY <2>1 DEF Adding, FlatMapped, Mapped
<1>6. FlatMapped(ds, AddsOf) \in Seq(Things)
  BY <1>3, <1>4, FlatMapIs
<1>7. Weight(FlatMapped(ds, AddsOf), w) = Weight(ds, v)
  BY <1>3, FlatMapWeighs
<1>8. Weight(ds, v) = Sum(v, S)
  BY <1>2, <1>3, WeightOnce
<1> QED BY <1>5, <1>6, <1>7, <1>8 DEF ds

LEMMA WorkIs ==
  ASSUME WorldTyped
  PROVE  /\ Adding(SetToSeq(Drawables)) \in Seq(Things)
         /\ \A k \in Kinds : Work(k) \in Seq(Things)
         /\ \A w \in [Things -> Nat] :
              Weight(Adding(SetToSeq(Drawables)), w) = Sum([k \in Kinds |-> Weight(Work(k), w)], Kinds)
<1> DEFINE Own(k) == {d \in Drawables : KindOf[d] = k}
           V(w) == [d \in Drawables |-> Weight(AddsOf[d], w)]
<1>1. ASSUME NEW w \in [Things -> Nat]
      PROVE  V(w) \in [Drawables -> Nat] /\ Weighing(V(w), AddsOf, w, Drawables, Things)
  <2>1. AddsOf \in [Drawables -> Seq(Things)]
    BY AddsFit DEF AddsOf
  <2>2. V(w) \in [Drawables -> Nat]
    BY <2>1, WeightCounts
  <2> QED BY <2>1, <2>2 DEF Weighing
<1>2. \A k \in Kinds : Work(k) = Adding(SetToSeq(Own(k))) /\ Own(k) \in SUBSET Drawables
  BY DEF Work
<1>3. [thing \in Things |-> 0] \in [Things -> Nat] /\ Drawables \in SUBSET Drawables
  OBVIOUS
<1>4. Adding(SetToSeq(Drawables)) \in Seq(Things) /\ \A k \in Kinds : Work(k) \in Seq(Things)
  <2> HIDE DEF Own, V
  <2> QED BY <1>1, <1>2, <1>3, AddingWeighs
<1>5. ASSUME NEW w \in [Things -> Nat]
      PROVE  Weight(Adding(SetToSeq(Drawables)), w) = Sum([k \in Kinds |-> Weight(Work(k), w)], Kinds)
  <2> DEFINE v == V(w)
             g == [k \in Kinds |-> Sum(v, {d \in Drawables : KindOf[d] = k})]
             h == [k \in Kinds |-> Weight(Work(k), w)]
  <2>1. v \in [Drawables -> Nat] /\ Weighing(v, AddsOf, w, Drawables, Things)
    BY <1>1
  <2> HIDE DEF v, V
  <2>2. Weight(Adding(SetToSeq(Drawables)), w) = Sum(v, Drawables)
    BY <1>3, <2>1, AddingWeighs
  <2>3. \A k \in Kinds : h[k] = g[k]
    <3> TAKE k \in Kinds
    <3>1. Weight(Work(k), w) = Sum(v, Own(k))
      <4> HIDE DEF Own
      <4> QED BY <1>2, <2>1, AddingWeighs
    <3> QED BY <3>1
  <2>4. Sum(g, Kinds) = Sum(v, Drawables)
    <3>1. IsFiniteSet(Drawables) /\ Counting(v, Drawables) /\ \A d \in Drawables : KindOf[d] \in Kinds
      BY <2>1, DrawingAssumption DEF Counting
    <3> QED BY <3>1, KindsFinite, SumParts
  <2>5. Sum(h, Kinds) = Sum(g, Kinds)
    <3> HIDE DEF g, h
    <3> QED BY <2>3, KindsFinite, SumSame
  <2> QED BY <2>2, <2>4, <2>5
<1> QED BY <1>4, <1>5
-----------------------------------------------------------------------------
(* The render list: what is drawn of it, batch after batch.                 *)
ObjectsTyped == object \in [DOMAIN object -> Things]

(* A piece of the object that it says it is of. *)
GoodShards ==
  {shard \in [of : DOMAIN object, piece : FlatPieces] :
     /\ shard.piece.z = Z(shard.of)
     /\ shard.piece.look[1] = "texture" => object[shard.of].look = shard.piece.look}

BatchState ==
  {b \in [type : {"texture", "color"}, of : DOMAIN object \cup FlatLooks, pieces : Seq(FlatPieces)] :
     IF b.type = "texture" THEN b.of \in DOMAIN object ELSE b.of \in FlatLooks}

Shots == [piece : FlatPieces, look : Looks \cup FlatLooks]

ShotIn(look) == [piece \in FlatPieces |-> [piece |-> piece, look |-> look]]

DrawnOf == [b \in BatchState |-> DrawnBatch(b)]

LEMMA DrawnIs ==
  ASSUME ObjectsTyped, NEW b \in BatchState
  PROVE  /\ DrawnBatch(b) = Mapped(b.pieces, ShotIn(LookOf(b)))
         /\ DrawnBatch(b) \in Seq(Shots)
         /\ LookOf(b) \in Looks \cup FlatLooks
<1>1. LookOf(b) \in Looks \cup FlatLooks
  BY DEF LookOf, BatchState, ObjectsTyped, Things
<1>2. b.pieces \in Seq(FlatPieces)
  BY DEF BatchState
<1>3. DrawnBatch(b) = Mapped(b.pieces, ShotIn(LookOf(b)))
  <2>1. \A i \in DOMAIN b.pieces : b.pieces[i] \in FlatPieces
    BY <1>2, LenProperties
  <2> QED BY <2>1 DEF DrawnBatch, Mapped, ShotIn
<1>4. ShotIn(LookOf(b)) \in [FlatPieces -> Shots]
  BY <1>1 DEF ShotIn, Shots
<1>5. Mapped(b.pieces, ShotIn(LookOf(b))) \in Seq(Shots)
  BY <1>2, <1>4, MapIs
<1> QED BY <1>1, <1>3, <1>5

LEMMA PictureIs ==
  ASSUME ObjectsTyped, NEW bs \in Seq(BatchState)
  PROVE  /\ DrawnOf \in [BatchState -> Seq(Shots)]
         /\ Picture(bs) = FlatMapped(bs, DrawnOf) /\ Picture(bs) \in Seq(Shots)
<1>1. DrawnOf \in [BatchState -> Seq(Shots)]
  BY DrawnIs DEF DrawnOf
<1>2. \A i \in DOMAIN bs : DrawnOf[bs[i]] = DrawnBatch(bs[i])
  BY LenProperties DEF DrawnOf
<1>3. Picture(bs) = FlatMapped(bs, DrawnOf)
  BY <1>2 DEF Picture, FlatMapped, Mapped
<1>4. FlatMapped(bs, DrawnOf) \in Seq(Shots)
  BY <1>1, FlatMapIs
<1> QED BY <1>1, <1>3, <1>4

LEMMA PictureAppended ==
  ASSUME ObjectsTyped, NEW bs \in Seq(BatchState), NEW b \in BatchState
  PROVE  Picture(Append(bs, b)) = Picture(bs) \o DrawnBatch(b)
<1>1. Append(bs, b) \in Seq(BatchState)
  BY AppendProperties
<1>2. DrawnOf \in [BatchState -> Seq(Shots)] /\ DrawnOf[b] = DrawnBatch(b)
  BY PictureIs DEF DrawnOf
<1>3. FlatMapped(Append(bs, b), DrawnOf) = FlatMapped(bs, DrawnOf) \o DrawnOf[b]
  BY <1>2, FlatMapAppended
<1> QED BY <1>1, <1>2, <1>3, PictureIs

(* A piece that joins a batch, or opens one, is drawn last and as itself. *)
LEMMA PieceAdded ==
  ASSUME ObjectsTyped, NEW bs \in Seq(BatchState), NEW shard \in GoodShards
  PROVE  /\ WithPiece(bs, shard) \in Seq(BatchState)
         /\ Picture(WithPiece(bs, shard))
              = Append(Picture(bs), [piece |-> shard.piece, look |-> shard.piece.look])
<1> DEFINE piece == shard.piece
           look == piece.look
           shot == [piece |-> piece, look |-> look]
           last == Len(bs)
<1>1. /\ shard.of \in DOMAIN object /\ piece \in FlatPieces /\ look \in FlatLooks
      /\ look[1] \in {"texture", "color"}
      /\ look[1] = "texture" => object[shard.of].look = look
  <2>1. shard.of \in DOMAIN object /\ piece \in FlatPieces /\ (look[1] = "texture" => object[shard.of].look = look)
    BY DEF GoodShards
  <2>2. look \in FlatLooks
    BY <2>1 DEF FlatPieces
  <2> QED BY <2>1, <2>2, FlatLookIs
<1>2. shot \in Shots /\ ShotIn(look)[piece] = shot /\ ShotIn(look) \in [FlatPieces -> Shots]
  BY <1>1 DEF Shots, ShotIn
<1>3. WithPiece(bs, shard) =
        IF last > 0 /\ Joins(bs[last], look)
        THEN [bs EXCEPT ![last].pieces = Append(@, piece)]
        ELSE Append(bs, [type |-> look[1], of |-> IF look[1] = "texture" THEN shard.of ELSE look,
                         pieces |-> <<piece>>])
  BY DEF WithPiece
<1>4. Picture(bs) \in Seq(Shots)
  BY PictureIs
<1> HIDE DEF piece, look, shot
<1>5. CASE last > 0 /\ Joins(bs[last], look)
  <2>1. PICK front \in Seq(BatchState), b \in BatchState : bs = Append(front, b)
    <3>1. bs # <<>>
      BY <1>5, EmptySeq
    <3> QED BY <3>1, SequenceEmptyOrAppend
  <2>2. Len(front) \in Nat /\ last = Len(front) + 1 /\ bs[last] = b /\ \A i \in 1..Len(front) : bs[i] = front[i]
    BY <2>1, AppendProperties, LenProperties
  <2> DEFINE c == [b EXCEPT !.pieces = Append(@, piece)]
             new == [bs EXCEPT ![last].pieces = Append(@, piece)]
  <2>3. b.pieces \in Seq(FlatPieces) /\ Append(b.pieces, piece) \in Seq(FlatPieces)
    <3>1. b.pieces \in Seq(FlatPieces)
      BY DEF BatchState
    <3> QED BY <1>1, <3>1, AppendProperties
  <2>4. c \in BatchState /\ c.type = b.type /\ c.of = b.of /\ c.pieces = Append(b.pieces, piece)
    BY <2>3 DEF BatchState
  <2>5. LookOf(b) = look /\ LookOf(c) = look
    <3>1. Joins(b, look)
      BY <1>5, <2>2
    <3> HIDE DEF c
    <3> QED BY <2>4, <3>1 DEF Joins, LookOf
  <2>6. new = Append(front, c)
    <3>1. new = [bs EXCEPT ![last] = c]
      BY <2>2
    <3> HIDE DEF c, new
    <3>2. last \in 1..Len(bs)
      BY <2>2
    <3>3. new \in Seq(BatchState) /\ Len(new) = last /\ \A i \in 1..last : new[i] = IF i = last THEN c ELSE bs[i]
      BY <2>4, <3>1, <3>2, ExceptSeq
    <3>4. /\ Append(front, c) \in Seq(BatchState) /\ Len(Append(front, c)) = last
          /\ Append(front, c)[last] = c /\ \A i \in 1..Len(front) : Append(front, c)[i] = front[i]
      BY <2>2, <2>4, AppendProperties
    <3> HIDE DEF last
    <3>5. \A i \in 1..last : new[i] = Append(front, c)[i]
      <4> TAKE i \in 1..last
      <4>1. i = last \/ i \in 1..Len(front)
        BY <2>2
      <4> QED BY <2>2, <3>3, <3>4, <4>1
    <3> QED BY <3>3, <3>4, <3>5, SeqEqual
  <2> HIDE DEF c, new
  <2>7. DrawnBatch(c) = Append(DrawnBatch(b), shot)
    <3>1. DrawnBatch(b) = Mapped(b.pieces, ShotIn(look)) /\ DrawnBatch(c) = Mapped(Append(b.pieces, piece), ShotIn(look))
      BY <2>4, <2>5, DrawnIs
    <3>2. Mapped(Append(b.pieces, piece), ShotIn(look)) = Append(Mapped(b.pieces, ShotIn(look)), ShotIn(look)[piece])
      BY <1>1, <1>2, <2>3, MapAppended
    <3> QED BY <1>2, <3>1, <3>2
  <2>8. Picture(bs) = Picture(front) \o DrawnBatch(b) /\ Picture(new) = Picture(front) \o DrawnBatch(c)
    BY <2>1, <2>4, <2>6, PictureAppended
  <2>9. Picture(front) \in Seq(Shots) /\ DrawnBatch(b) \in Seq(Shots) /\ <<shot>> \in Seq(Shots)
    BY <1>2, PictureIs, DrawnIs
  <2>10. Append(DrawnBatch(b), shot) = DrawnBatch(b) \o <<shot>> /\ Append(Picture(bs), shot) = Picture(bs) \o <<shot>>
    BY <1>2, <1>4, <2>9, AppendIsConcat
  <2>11. (Picture(front) \o DrawnBatch(b)) \o <<shot>> = Picture(front) \o (DrawnBatch(b) \o <<shot>>)
    BY <2>9, ConcatAssociative
  <2>12. new \in Seq(BatchState)
    BY <2>4, <2>6, AppendProperties
  <2> QED BY <1>3, <1>5, <2>7, <2>8, <2>10, <2>11, <2>12 DEF new, shot, piece, look
<1>6. CASE ~(last > 0 /\ Joins(bs[last], look))
  <2> DEFINE b == [type |-> look[1], of |-> IF look[1] = "texture" THEN shard.of ELSE look, pieces |-> <<piece>>]
  <2>1. <<piece>> \in Seq(FlatPieces) /\ <<piece>> = Append(<<>>, piece) /\ <<>> \in Seq(FlatPieces)
    BY <1>1
  <2>2. b \in BatchState
    BY <1>1, <2>1 DEF BatchState
  <2>3. LookOf(b) = look /\ b.pieces = <<piece>>
    BY <1>1 DEF LookOf
  <2>4. WithPiece(bs, shard) = Append(bs, b)
    BY <1>3, <1>6
  <2> HIDE DEF b
  <2>5. DrawnBatch(b) = <<shot>>
    <3>1. DrawnBatch(b) = Mapped(Append(<<>>, piece), ShotIn(look))
      BY <2>1, <2>2, <2>3, DrawnIs
    <3>2. Mapped(Append(<<>>, piece), ShotIn(look)) = Append(Mapped(<<>>, ShotIn(look)), ShotIn(look)[piece])
      <4>1. piece \in FlatPieces /\ ShotIn(look) \in [FlatPieces -> Shots] /\ <<>> \in Seq(FlatPieces)
        BY <1>1, <1>2, <2>1
      <4> HIDE DEF piece, look
      <4> QED BY <4>1, MapAppended
    <3>3. Mapped(<<>>, ShotIn(look)) = <<>>
      BY MapEmpty
    <3> QED BY <1>2, <3>1, <3>2, <3>3
  <2>6. Picture(Append(bs, b)) = Picture(bs) \o <<shot>>
    BY <2>2, <2>5, PictureAppended
  <2>7. Append(Picture(bs), shot) = Picture(bs) \o <<shot>>
    BY <1>2, <1>4, AppendIsConcat
  <2> QED BY <2>2, <2>4, <2>6, <2>7, AppendProperties DEF shot, piece, look
<1> QED BY <1>5, <1>6

(* The shards of objects in an order. *)
ShardsOf == [o \in DOMAIN object |-> Shards(o)]

ShotOf == [shard \in GoodShards |-> [piece |-> shard.piece, look |-> shard.piece.look]]

LEMMA ShardsAre ==
  ASSUME ObjectsTyped, NEW o \in DOMAIN object
  PROVE  /\ Shards(o) \in Seq(GoodShards) /\ Len(Shards(o)) = Len(Parts(object[o]))
         /\ Parts(object[o]) \in Seq(FlatPieces)
         /\ \A j \in 1..Len(Shards(o)) : Shards(o)[j].of = o /\ Shards(o)[j].piece = Parts(object[o])[j]
<1> DEFINE s == Parts(object[o])
           t == Shards(o)
<1>1. object[o] \in Things
  BY DEF ObjectsTyped
<1>2. /\ s \in Seq(FlatPieces) /\ DOMAIN s = 1..Len(s) /\ Len(s) \in Nat
      /\ \A j \in DOMAIN s : /\ s[j] \in FlatPieces /\ s[j].z = object[o].z
                             /\ s[j].look[1] = "texture" => s[j].look = object[o].look
  BY <1>1, PartsAre, LenProperties
<1>3. t = [j \in DOMAIN s |-> [of |-> o, piece |-> s[j]]]
  BY DEF Shards
<1> HIDE DEF s, t
<1>4. \A j \in DOMAIN s : [of |-> o, piece |-> s[j]] \in GoodShards
  BY <1>2 DEF GoodShards, Z
<1>5. t \in [1..Len(s) -> GoodShards]
  BY <1>2, <1>3, <1>4
<1>6. t \in Seq(GoodShards) /\ Len(t) = Len(s)
  BY <1>2, <1>5, SeqDef, LenProperties
<1>7. \A j \in 1..Len(t) : t[j].of = o /\ t[j].piece = s[j]
  BY <1>2, <1>3, <1>6
<1> QED BY <1>2, <1>6, <1>7 DEF s, t

LEMMA AllShardsAre ==
  ASSUME ObjectsTyped, NEW order \in Seq(DOMAIN object)
  PROVE  /\ ShardsOf \in [DOMAIN object -> Seq(GoodShards)]
         /\ FlattenSeq([i \in DOMAIN order |-> Shards(order[i])]) = FlatMapped(order, ShardsOf)
         /\ FlatMapped(order, ShardsOf) \in Seq(GoodShards)
<1>1. ShardsOf \in [DOMAIN object -> Seq(GoodShards)]
  BY ShardsAre DEF ShardsOf
<1>2. \A i \in DOMAIN order : ShardsOf[order[i]] = Shards(order[i])
  BY LenProperties DEF ShardsOf
<1>3. FlattenSeq([i \in DOMAIN order |-> Shards(order[i])]) = FlatMapped(order, ShardsOf)
  BY <1>2 DEF FlatMapped, Mapped
<1>4. FlatMapped(order, ShardsOf) \in Seq(GoodShards)
  BY <1>1, FlatMapIs
<1> QED BY <1>1, <1>3, <1>4

Filling(f, shards) ==
  f = [n \in 0..Len(shards) |-> IF n = 0 THEN <<>> ELSE WithPiece(f[n - 1], shards[n])]

LEMMA FillingExists ==
  ASSUME ObjectsTyped, NEW shards \in Seq(GoodShards)
  PROVE  \E f : Filling(f, shards)
<1> DEFINE N == Len(shards)
           X == Seq(BatchState)
           step == [p \in X \X (1..N) |-> WithPiece(p[1], shards[p[2]])]
<1>1. N \in Nat /\ \A i \in 1..N : shards[i] \in GoodShards
  BY LenProperties
<1>2. \A bs \in X, i \in 1..N : step[<<bs, i>>] = WithPiece(bs, shards[i]) /\ WithPiece(bs, shards[i]) \in X
  BY <1>1, PieceAdded
<1>3. step \in [X \X (1..N) -> X] /\ <<>> \in X
  BY <1>1, PieceAdded, EmptySeq
<1>4. PICK g \in [0..N -> X] : Stepping(g, <<>>, step, N)
  <2> HIDE DEF step, N, X
  <2> QED BY <1>1, <1>3, RunExists
<1>5. \A n \in 0..N : g[n] = IF n = 0 THEN <<>> ELSE WithPiece(g[n - 1], shards[n])
  <2> TAKE n \in 0..N
  <2>1. CASE n = 0
    BY <1>1, <1>4, <2>1 DEF Stepping
  <2>2. CASE n # 0
    <3>1. n \in 1..N /\ n - 1 \in 0..N
      BY <1>1, <2>2
    <3>2. g[n] = step[<<g[n - 1], n>>] /\ g[n - 1] \in X
      <4> HIDE DEF step
      <4> QED BY <1>4, <2>2, <3>1 DEF Stepping
    <3> QED BY <1>2, <2>2, <3>1, <3>2
  <2> QED BY <2>1, <2>2
<1>6. Filling(g, shards)
  BY <1>5 DEF Filling
<1> QED BY <1>6

LEMMA FilledIs ==
  ASSUME ObjectsTyped, NEW order \in Seq(DOMAIN object)
  PROVE  /\ FilledList(order) \in Seq(BatchState)
         /\ Picture(FilledList(order)) = Mapped(FlatMapped(order, ShardsOf), ShotOf)
<1> DEFINE shards == FlatMapped(order, ShardsOf)
           N == Len(shards)
           f == CHOOSE f : Filling(f, shards)
           Seen(n) == Mapped(SubSeq(shards, 1, n), ShotOf)
           Good(n) == f[n] \in Seq(BatchState) /\ Picture(f[n]) = Seen(n)
           G == {n \in 1..N : Good(n)}
<1>1. shards \in Seq(GoodShards) /\ N \in Nat /\ \A i \in 1..N : shards[i] \in GoodShards
  <2>1. shards \in Seq(GoodShards)
    BY AllShardsAre
  <2> HIDE DEF shards
  <2> QED BY <2>1, LenProperties
<1>2. FilledList(order) = f[N]
  <2>1. FlattenSeq([i \in DOMAIN order |-> Shards(order[i])]) = shards
    BY AllShardsAre
  <2> HIDE DEF shards
  <2> QED BY <2>1 DEF FilledList, Filling
<1> HIDE DEF shards
<1>3. Filling(f, shards)
  BY <1>1, FillingExists
<1> HIDE DEF f
<1>4. f[0] = <<>> /\ \A n \in 1..N : f[n] = WithPiece(f[n - 1], shards[n])
  <2>1. f[0] = <<>>
    BY <1>1, <1>3 DEF Filling
  <2>2. ASSUME NEW n \in 1..N
        PROVE  f[n] = WithPiece(f[n - 1], shards[n])
    <3>1. n \in 0..Len(shards) /\ n # 0
      BY <1>1
    <3> QED BY <1>3, <3>1 DEF Filling
  <2> QED BY <2>1, <2>2
<1>5. Good(0)
  <2>1. SubSeq(shards, 1, 0) = <<>>
    BY SubSeqEmpty
  <2>2. Picture(<<>>) = <<>>
    BY EmptySeq, PictureIs, FlatMapEmpty
  <2> QED BY <1>4, <2>1, <2>2, MapEmpty, EmptySeq
<1>6. ASSUME NEW n \in 1..N, \A j \in 1..N : j < n => j \in G
      PROVE  n \in G
  <2>1. Good(n - 1)
    <3>1. n = 1 \/ (n - 1 \in 1..N /\ n - 1 < n)
      BY <1>1
    <3> HIDE DEF Good
    <3> QED BY <1>5, <1>6, <3>1
  <2>2. f[n] = WithPiece(f[n - 1], shards[n]) /\ f[n - 1] \in Seq(BatchState) /\ shards[n] \in GoodShards
    BY <1>1, <1>4, <2>1
  <2> DEFINE shot == [piece |-> shards[n].piece, look |-> shards[n].piece.look]
  <2>3. f[n] \in Seq(BatchState) /\ Picture(f[n]) = Append(Picture(f[n - 1]), shot)
    BY <2>2, PieceAdded
  <2>4. ShotOf[shards[n]] = shot
    BY <2>2 DEF ShotOf
  <2> HIDE DEF shot
  <2> DEFINE before == SubSeq(shards, 1, n - 1)
  <2>5. before \in Seq(GoodShards)
    <3>1. \A i \in 1..(n - 1) : shards[i] \in GoodShards
      BY <1>1
    <3> QED BY <1>1, <3>1, SubSeqProperties
  <2>6. SubSeq(shards, 1, n) = Append(before, shards[n])
    <3>1. 1 \in 1..Len(shards) /\ n \in 1..Len(shards)
      BY <1>1
    <3>2. SubSeq(shards, 1, n) = before \o <<shards[n]>>
      BY <1>1, <3>1, SubSeqRecursiveSecond
    <3> HIDE DEF before
    <3> QED BY <2>2, <2>5, <3>2, AppendIsConcat
  <2>7. ShotOf \in [GoodShards -> Shots]
    BY DEF ShotOf, GoodShards, Shots, FlatPieces
  <2>8. Seen(n) = Append(Mapped(before, ShotOf), ShotOf[shards[n]])
    <3>1. Mapped(Append(before, shards[n]), ShotOf) = Append(Mapped(before, ShotOf), ShotOf[shards[n]])
      <4> HIDE DEF before
      <4> QED BY <2>2, <2>5, <2>7, MapAppended
    <3> QED BY <2>6, <3>1
  <2>9. Picture(f[n - 1]) = Mapped(before, ShotOf)
    BY <2>1
  <2> HIDE DEF before, Seen
  <2>10. Good(n)
    BY <2>3, <2>4, <2>8, <2>9
  <2> HIDE DEF Good
  <2> QED BY <2>10
<1>7. G = 1..N
  <2>1. G \in SUBSET (1..N)
    OBVIOUS
  <2> HIDE DEF G
  <2> QED BY <1>1, <1>6, <2>1, FirstToLast
<1>8. Good(N)
  <2>1. N = 0 \/ N \in G
    BY <1>1, <1>7
  <2> HIDE DEF Good
  <2> QED BY <1>5, <2>1
<1>9. SubSeq(shards, 1, N) = shards
  BY <1>1, SubSeqFull
<1> QED BY <1>2, <1>8, <1>9 DEF shards

(* Objects in the order of z have their shards in the order of z. *)
Rising(s) == \A i, j \in 1..Len(s) : i <= j => Z(s[i]) <= Z(s[j])

ShardsRise(q) == \A i, j \in 1..Len(q) : i <= j => q[i].piece.z <= q[j].piece.z

LEMMA ShardsClimb ==
  ASSUME ObjectsTyped, NEW order \in Seq(DOMAIN object), Rising(order)
  PROVE  ShardsRise(FlatMapped(order, ShardsOf))
<1> DEFINE FM(t) == FlatMapped(t, ShardsOf)
           Fine(t) == /\ ShardsRise(FM(t))
                      /\ \A i \in 1..Len(FM(t)) : FM(t)[i].of \in ToSet(t)
           G == {t \in Seq(DOMAIN object) : Rising(t) => Fine(t)}
<1>1. <<>> \in G
  <2>1. FM(<<>>) = <<>>
    BY FlatMapEmpty
  <2> QED BY <2>1, EmptySeq DEF ShardsRise
<1>2. ASSUME NEW t \in Seq(DOMAIN object), NEW o \in DOMAIN object, t \in G
      PROVE  Append(t, o) \in G
  <2> DEFINE u == Append(t, o)
             n == Len(t)
  <2>1. /\ u \in Seq(DOMAIN object) /\ n \in Nat /\ Len(u) = n + 1 /\ u[n + 1] = o
        /\ \A i \in 1..n : u[i] = t[i]
    BY AppendProperties, LenProperties
  <2>2. ToSet(u) = ToSet(t) \cup {o} /\ DOMAIN t = 1..n
    BY ToSetAppended, LenProperties
  <2> SUFFICES ASSUME Rising(u)
               PROVE  Fine(u)
    BY <2>1
  <2>3. Rising(t) /\ \A i \in 1..n : Z(t[i]) <= Z(o)
    <3>1. \A i, j \in 1..(n + 1) : i <= j => Z(u[i]) <= Z(u[j])
      BY <2>1 DEF Rising
    <3>2. Rising(t)
      <4>1. ASSUME NEW i \in 1..n, NEW j \in 1..n, i <= j
            PROVE  Z(t[i]) <= Z(t[j])
        <5>1. i \in 1..(n + 1) /\ j \in 1..(n + 1)
          BY <2>1
        <5> HIDE DEF u
        <5> QED BY <2>1, <3>1, <4>1, <5>1
      <4> QED BY <4>1 DEF Rising
    <3>3. ASSUME NEW i \in 1..n
          PROVE  Z(t[i]) <= Z(o)
      <4>1. i \in 1..(n + 1) /\ n + 1 \in 1..(n + 1) /\ i <= n + 1
        BY <2>1
      <4> HIDE DEF u
      <4> QED BY <2>1, <3>1, <4>1
    <3> QED BY <3>2, <3>3
  <2> DEFINE p == FM(t)
             q == Shards(o)
             r == p \o q
  <2>4. FM(u) = r
    <3>1. FM(u) = FlatMapped(t, ShardsOf) \o ShardsOf[o]
      <4>1. ShardsOf \in [DOMAIN object -> Seq(GoodShards)]
        BY AllShardsAre
      <4> QED BY <4>1, FlatMapAppended
    <3> QED BY <3>1 DEF ShardsOf
  <2>5. p \in Seq(GoodShards) /\ q \in Seq(GoodShards) /\ \A j \in 1..Len(q) : q[j].of = o
    BY AllShardsAre, ShardsAre
  <2>6. ShardsRise(p) /\ \A i \in 1..Len(p) : p[i].of \in ToSet(t)
    BY <1>2, <2>3
  <2> HIDE DEF u, p, q, FM
  <2>7. /\ Len(p) \in Nat /\ Len(q) \in Nat /\ r \in Seq(GoodShards) /\ Len(r) = Len(p) + Len(q)
        /\ \A i \in 1..(Len(p) + Len(q)) : r[i] = IF i <= Len(p) THEN p[i] ELSE q[i - Len(p)]
    BY <2>5, ConcatProperties, LenProperties
  <2>8. \A i \in 1..Len(p) : r[i] = p[i] /\ r[i].piece.z = Z(r[i].of) /\ r[i].of \in ToSet(t)
    <3>1. \A i \in 1..Len(p) : p[i] \in GoodShards
      BY <2>5, LenProperties
    <3>2. \A i \in 1..Len(p) : r[i] = p[i]
      BY <2>7
    <3> QED BY <2>6, <3>1, <3>2 DEF GoodShards
  <2>9. ASSUME NEW i \in 1..Len(r), ~(i <= Len(p))
        PROVE  r[i].piece.z = Z(o) /\ r[i].of = o
    <3>1. i - Len(p) \in 1..Len(q) /\ r[i] = q[i - Len(p)]
      BY <2>7, <2>9
    <3>2. q[i - Len(p)] \in GoodShards /\ q[i - Len(p)].of = o
      BY <2>5, <3>1, LenProperties
    <3> QED BY <3>1, <3>2 DEF GoodShards
  <2>10. \A x \in ToSet(t) : Z(x) <= Z(o)
    BY <2>2, <2>3 DEF ToSet
  <2>11. Z(o) \in Nat
    BY DEF Z, ObjectsTyped, Things
  <2>12. ASSUME NEW i \in 1..Len(r), NEW j \in 1..Len(r), i <= j
         PROVE  r[i].piece.z <= r[j].piece.z
    <3>1. CASE j <= Len(p)
      <4>1. i \in 1..Len(p) /\ j \in 1..Len(p)
        BY <2>7, <2>12, <3>1
      <4>2. p[i].piece.z <= p[j].piece.z
        BY <2>6, <2>12, <4>1 DEF ShardsRise
      <4> QED BY <2>8, <4>1, <4>2
    <3>2. CASE ~(j <= Len(p)) /\ i <= Len(p)
      <4>1. i \in 1..Len(p)
        BY <2>7, <3>2
      <4> QED BY <2>8, <2>9, <2>10, <3>2, <4>1
    <3>3. CASE ~(j <= Len(p)) /\ ~(i <= Len(p))
      <4>1. r[i].piece.z = Z(o)
        BY <2>9, <3>3
      <4>2. r[j].piece.z = Z(o)
        BY <2>9, <3>3
      <4>3. Z(o) <= Z(o)
        BY <2>11
      <4> QED BY <4>1, <4>2, <4>3
    <3> QED BY <3>1, <3>2, <3>3
  <2>13. \A i \in 1..Len(r) : r[i].of \in ToSet(u)
    <3> TAKE i \in 1..Len(r)
    <3>1. CASE i <= Len(p)
      <4>1. i \in 1..Len(p)
        BY <2>7, <3>1
      <4> QED BY <2>2, <2>8, <4>1
    <3>2. CASE ~(i <= Len(p))
      BY <2>2, <2>9, <3>2
    <3> QED BY <3>1, <3>2
  <2> QED BY <2>4, <2>12, <2>13 DEF ShardsRise
<1>3. Seq(DOMAIN object) \subseteq G
  <2> HIDE DEF G
  <2> QED BY <1>1, <1>2, SeqInduct
<1> QED BY <1>3

Alike(s, v, t, w) == Len(s) = Len(t) /\ \A i \in 1..Len(s) : v[s[i]] = w[t[i]]

LEMMA WeightSame ==
  ASSUME NEW X, NEW Y, NEW s \in Seq(X), NEW t \in Seq(Y), NEW v, NEW w, Alike(s, v, t, w)
  PROVE  Weight(s, v) = Weight(t, w)
<1> DEFINE n == Len(s)
           g == [i \in DOMAIN s |-> v[s[i]]]
           h == [i \in DOMAIN t |-> w[t[i]]]
<1>1. n \in Nat /\ DOMAIN s = 1..n /\ DOMAIN t = 1..n /\ \A i \in 1..n : v[s[i]] = w[t[i]]
  BY LenProperties DEF Alike
<1>2. IsFiniteSet(1..n) /\ \A i \in 1..n : g[i] = h[i]
  BY <1>1, FS_Interval
<1>3. Sum(g, 1..n) = Sum(h, 1..n)
  <2> HIDE DEF g, h, n
  <2> QED BY <1>2, SumSame
<1> QED BY <1>1, <1>3 DEF Weight

(* The pieces that are drawn of some objects are all that they have. *)
LEMMA ShardsWeigh ==
  ASSUME ObjectsTyped, NEW order \in Seq(DOMAIN object), Once(order),
         NEW w \in [FlatPieces -> Nat], NEW e \in [DOMAIN object -> Nat],
         \A o \in DOMAIN object : e[o] = Weight(Parts(object[o]), w)
  PROVE  Weight(FlatMapped(order, ShardsOf), [shard \in GoodShards |-> w[shard.piece]]) = Sum(e, ToSet(order))
<1> DEFINE v == [shard \in GoodShards |-> w[shard.piece]]
<1>1. v \in [GoodShards -> Nat]
  BY DEF GoodShards
<1>2. \A o \in DOMAIN object : Weight(Shards(o), v) = e[o]
  <2> TAKE o \in DOMAIN object
  <2>1. /\ Shards(o) \in Seq(GoodShards) /\ Len(Shards(o)) = Len(Parts(object[o]))
        /\ Parts(object[o]) \in Seq(FlatPieces)
        /\ \A j \in 1..Len(Shards(o)) : Shards(o)[j].piece = Parts(object[o])[j]
    BY ShardsAre
  <2>2. \A j \in 1..Len(Shards(o)) : v[Shards(o)[j]] = w[Parts(object[o])[j]]
    BY <2>1, LenProperties
  <2> HIDE DEF v
  <2>3. Weight(Shards(o), v) = Weight(Parts(object[o]), w)
    <3>1. Alike(Shards(o), v, Parts(object[o]), w)
      BY <2>1, <2>2 DEF Alike
    <3> QED BY <2>1, <3>1, WeightSame
  <2> QED BY <2>3
<1> HIDE DEF v
<1>3. Weighing(e, ShardsOf, v, DOMAIN object, GoodShards)
  <2>1. \A o \in DOMAIN object : e[o] = Weight(ShardsOf[o], v)
    BY <1>2 DEF ShardsOf
  <2>2. ShardsOf \in [DOMAIN object -> Seq(GoodShards)]
    BY AllShardsAre
  <2> QED BY <1>1, <2>1, <2>2 DEF Weighing
<1>4. Weight(FlatMapped(order, ShardsOf), v) = Weight(order, e)
  BY <1>3, FlatMapWeighs
<1>5. Weight(order, e) = Sum(e, ToSet(order))
  BY WeightOnce
<1> QED BY <1>4, <1>5 DEF v
-----------------------------------------------------------------------------
(* Sorting the pool.                                                        *)
LEMMA InsertedAt ==
  ASSUME NEW S, NEW s \in Seq(S), NEW k \in 1..(Len(s) + 1), NEW e \in S
  PROVE  /\ InsertAt(s, k, e) \in Seq(S) /\ Len(InsertAt(s, k, e)) = Len(s) + 1
         /\ \A i \in 1..(Len(s) + 1) :
              InsertAt(s, k, e)[i] = IF i < k THEN s[i] ELSE IF i = k THEN e ELSE s[i - 1]
<1> DEFINE t == InsertAt(s, k, e)
           n == Len(s)
<1>1. t \in Seq(S) /\ Len(t) = n + 1 /\ t[k] = e /\ RemoveAt(t, k) = s /\ n \in Nat
  BY InsertedIs, LenProperties
<1> HIDE DEF t
<1>2. \A i \in 1..n : s[i] = t[IF i < k THEN i ELSE i + 1]
  <2>1. \A i \in 1..(Len(t) - 1) : RemoveAt(t, k)[i] = t[IF i < k THEN i ELSE i + 1]
    BY <1>1, RemovedIs
  <2>2. Len(t) - 1 = n
    BY <1>1
  <2> QED BY <1>1, <2>1, <2>2
<1>3. ASSUME NEW i \in 1..(n + 1)
      PROVE  t[i] = IF i < k THEN s[i] ELSE IF i = k THEN e ELSE s[i - 1]
  <2>1. CASE i < k
    <3>1. i \in 1..n
      BY <1>1, <2>1
    <3>2. s[i] = t[i]
      BY <1>2, <2>1, <3>1
    <3> QED BY <2>1, <3>2
  <2>2. CASE i = k
    BY <1>1, <2>2
  <2>3. CASE i > k
    <3>1. i - 1 \in 1..n /\ ~(i - 1 < k) /\ (i - 1) + 1 = i
      BY <1>1, <2>3
    <3>2. s[i - 1] = t[i]
      BY <1>2, <3>1
    <3> QED BY <2>3, <3>2
  <2> QED BY <1>1, <2>1, <2>2, <2>3
<1> QED BY <1>1, <1>3 DEF t

(* The same, in one word. *)
Inserting(t, s, k, e, S) ==
  /\ t \in Seq(S) /\ Len(t) = Len(s) + 1
  /\ \A i \in 1..(Len(s) + 1) : t[i] = IF i < k THEN s[i] ELSE IF i = k THEN e ELSE s[i - 1]

LEMMA InsertingIt ==
  ASSUME NEW S, NEW s \in Seq(S), NEW k \in 1..(Len(s) + 1), NEW e \in S
  PROVE  Inserting(InsertAt(s, k, e), s, k, e, S)
BY InsertedAt DEF Inserting

PoolTyped ==
  /\ Len(pool) \in Nat \ {0} /\ pool \in Seq(1..Len(pool))
  /\ Once(pool) /\ ToSet(pool) = 1..Len(pool)
  /\ object \in [1..Len(pool) -> Things]
  /\ taken \in 0..Len(pool)

(* The objects that were taken, and an order of the first n by z. *)
Taken(n) == {pool[i] : i \in 1..n}

Sorting(s, n) == s \in Seq(DOMAIN object) /\ Once(s) /\ ToSet(s) = Taken(n) /\ Rising(s)

LEMMA PoolHas ==
  ASSUME PoolTyped
  PROVE  ObjectsTyped /\ DOMAIN object = 1..Len(pool) /\ \A i \in 1..Len(pool) : pool[i] \in DOMAIN object
<1>1. object \in [1..Len(pool) -> Things] /\ pool \in Seq(1..Len(pool))
  BY DEF PoolTyped
<1>2. DOMAIN object = 1..Len(pool)
  BY <1>1
<1>3. ObjectsTyped
  BY <1>1, <1>2 DEF ObjectsTyped
<1>4. \A i \in 1..Len(pool) : pool[i] \in 1..Len(pool)
  BY <1>1, LenProperties
<1> QED BY <1>2, <1>3, <1>4

LEMMA PlacedSorts ==
  ASSUME PoolTyped, NEW n \in 1..taken, NEW s, Sorting(s, n - 1), NEW t \in Placed(s, pool[n])
  PROVE  Sorting(t, n)
<1> DEFINE o == pool[n]
           m == Len(s)
<1>1. /\ n \in 1..Len(pool) /\ o \in DOMAIN object /\ \A x \in DOMAIN object : Z(x) \in Nat
      /\ s \in Seq(DOMAIN object) /\ Once(s) /\ Rising(s) /\ ToSet(s) = Taken(n - 1)
  <2>1. n \in 1..Len(pool) /\ o \in DOMAIN object /\ ObjectsTyped
    <3>1. Len(pool) \in Nat /\ taken \in 0..Len(pool)
      BY DEF PoolTyped
    <3>2. n \in 1..Len(pool)
      BY <3>1
    <3> QED BY <3>2, PoolHas
  <2>2. \A x \in DOMAIN object : Z(x) \in Nat
    BY <2>1 DEF ObjectsTyped, Z, Things
  <2> QED BY <2>1, <2>2 DEF Sorting
<1>2. m \in Nat /\ DOMAIN s = 1..m /\ \A i \in 1..m : s[i] \in DOMAIN object
  BY <1>1, LenProperties
<1>3. PICK k \in 1..(m + 1) : /\ t = InsertAt(s, k, o)
                              /\ k > 1 => Z(s[k - 1]) <= Z(o)
                              /\ k <= m => Z(o) <= Z(s[k])
  <2> HIDE DEF o
  <2> QED BY DEF Placed, o
<1>4. /\ t \in Seq(DOMAIN object) /\ Len(t) = m + 1
      /\ \A i \in 1..(m + 1) : t[i] = IF i < k THEN s[i] ELSE IF i = k THEN o ELSE s[i - 1]
  <2>1. /\ InsertAt(s, k, o) \in Seq(DOMAIN object) /\ Len(InsertAt(s, k, o)) = Len(s) + 1
        /\ \A i \in 1..(Len(s) + 1) :
             InsertAt(s, k, o)[i] = IF i < k THEN s[i] ELSE IF i = k THEN o ELSE s[i - 1]
    <3>1. k \in 1..(Len(s) + 1) /\ s \in Seq(DOMAIN object) /\ o \in DOMAIN object
      <4>1. s \in Seq(DOMAIN object) /\ o \in DOMAIN object
        BY <1>1
      <4> QED BY <1>3, <4>1
    <3> DEFINE S == DOMAIN object
    <3>2. k \in 1..(Len(s) + 1) /\ s \in Seq(S) /\ o \in S
      BY <3>1
    <3> HIDE DEF o, m, S
    <3>3. Inserting(InsertAt(s, k, o), s, k, o, S)
      BY <3>2, InsertingIt
    <3> QED BY <3>3 DEF Inserting, S
  <2> QED BY <1>3, <2>1
<1>5. DOMAIN t = 1..(m + 1)
  BY <1>4, LenProperties
<1>6. o \notin Taken(n - 1) /\ Taken(n) = Taken(n - 1) \cup {o}
  <2>1. \A i \in 1..(n - 1) : pool[i] # o
    <3>1. \A i \in 1..(n - 1) : i \in 1..Len(pool) /\ i # n
      BY <1>1
    <3> QED BY <1>1, <3>1 DEF PoolTyped, Once
  <2>2. 1..n = (1..(n - 1)) \cup {n}
    BY <1>1
  <2> QED BY <2>1, <2>2 DEF Taken
<1>7. \A i \in 1..m : s[i] # o
  BY <1>1, <1>2, <1>6 DEF ToSet
<1> HIDE DEF o, m
<1>8. Once(t)
  <2>0. \A i, j \in 1..m : s[i] = s[j] => i = j
    BY <1>1 DEF Once, m
  <2>1. ASSUME NEW i \in 1..(m + 1), NEW j \in 1..(m + 1), t[i] = t[j], i < j
        PROVE  FALSE
    <3>1. CASE j < k
      <4>1. i \in 1..m /\ j \in 1..m /\ t[i] = s[i] /\ t[j] = s[j]
        BY <1>2, <1>4, <2>1, <3>1
      <4>2. s[i] = s[j]
        BY <2>1, <4>1
      <4>3. i = j
        BY <2>0, <4>1, <4>2
      <4> QED BY <2>1, <4>3
    <3>2. CASE j = k
      <4>1. i \in 1..m /\ t[i] = s[i] /\ t[j] = o
        BY <1>2, <1>4, <2>1, <3>2
      <4> QED BY <1>7, <2>1, <4>1
    <3>3. CASE j > k /\ i < k
      <4>1. i \in 1..m /\ j - 1 \in 1..m /\ t[i] = s[i] /\ t[j] = s[j - 1] /\ i # j - 1
        BY <1>2, <1>4, <2>1, <3>3
      <4> QED BY <2>0, <2>1, <4>1
    <3>4. CASE j > k /\ i = k
      <4>1. j - 1 \in 1..m /\ t[i] = o /\ t[j] = s[j - 1]
        BY <1>2, <1>4, <2>1, <3>4
      <4> QED BY <1>7, <2>1, <4>1
    <3>5. CASE j > k /\ i > k
      <4>1. i - 1 \in 1..m /\ j - 1 \in 1..m /\ t[i] = s[i - 1] /\ t[j] = s[j - 1] /\ i - 1 # j - 1
        BY <1>2, <1>4, <2>1, <3>5
      <4> QED BY <2>0, <2>1, <4>1
    <3> QED BY <1>2, <3>1, <3>2, <3>3, <3>4, <3>5
  <2>2. \A i, j \in 1..(m + 1) : t[i] = t[j] => i = j
    <3> TAKE i, j \in 1..(m + 1)
    <3> HAVE t[i] = t[j]
    <3>1. ~(i < j) /\ ~(j < i)
      BY <2>1
    <3> QED BY <1>2, <3>1
  <2> QED BY <1>4, <2>2 DEF Once
<1>9. ToSet(t) = ToSet(s) \cup {o}
  <2>1. ASSUME NEW i \in 1..(m + 1)
        PROVE  t[i] \in ToSet(s) \cup {o}
    <3>1. CASE i < k
      <4>1. i \in 1..m /\ t[i] = s[i]
        BY <1>2, <1>4, <3>1
      <4> QED BY <1>2, <4>1 DEF ToSet
    <3>2. CASE i = k
      BY <1>4, <3>2
    <3>3. CASE i > k
      <4>1. i - 1 \in 1..m /\ t[i] = s[i - 1]
        BY <1>2, <1>4, <3>3
      <4> QED BY <1>2, <4>1 DEF ToSet
    <3> QED BY <1>2, <3>1, <3>2, <3>3
  <2>2. ASSUME NEW i \in 1..m
        PROVE  \E j \in 1..(m + 1) : t[j] = s[i]
    <3>1. CASE i < k
      <4>1. i \in 1..(m + 1) /\ t[i] = s[i]
        BY <1>2, <1>4, <3>1
      <4> QED BY <4>1
    <3>2. CASE ~(i < k)
      <4>1. i + 1 \in 1..(m + 1) /\ ~(i + 1 < k) /\ i + 1 # k /\ (i + 1) - 1 = i
        BY <1>2, <3>2
      <4>2. t[i + 1] = s[i]
        BY <1>4, <4>1
      <4> QED BY <4>1, <4>2
    <3> QED BY <3>1, <3>2
  <2>3. \E j \in 1..(m + 1) : t[j] = o
    BY <1>4
  <2>4. ToSet(s) = {s[i] : i \in 1..m} /\ ToSet(t) = {t[i] : i \in 1..(m + 1)}
    BY <1>2, <1>5 DEF ToSet
  <2>5. \A i \in 1..(m + 1) : t[i] \in ToSet(s) \cup {o}
    BY <2>1
  <2> QED BY <2>2, <2>3, <2>4, <2>5
<1>10. Rising(t)
  <2>1. \A i, j \in 1..m : i <= j => Z(s[i]) <= Z(s[j])
    BY <1>1 DEF Rising, m
  <2>2. \A i \in 1..m : Z(s[i]) \in Nat
    BY <1>1, <1>2
  <2>3. ASSUME NEW i \in 1..m, i < k
        PROVE  Z(s[i]) <= Z(o)
    <3>1. k - 1 \in 1..m /\ i <= k - 1 /\ k > 1
      BY <1>2, <2>3
    <3>2. Z(s[i]) <= Z(s[k - 1]) /\ Z(s[k - 1]) <= Z(o)
      BY <1>3, <2>1, <3>1
    <3> QED BY <1>1, <2>2, <3>1, <3>2
  <2>4. ASSUME NEW i \in 1..m, k <= i
        PROVE  Z(o) <= Z(s[i])
    <3>1. k \in 1..m
      BY <1>2, <2>4
    <3>2. Z(o) <= Z(s[k]) /\ Z(s[k]) <= Z(s[i])
      BY <1>2, <1>3, <2>1, <2>4, <3>1
    <3> QED BY <1>1, <2>2, <3>1, <3>2
  <2>5. ASSUME NEW i \in 1..(m + 1), NEW j \in 1..(m + 1), i <= j
        PROVE  Z(t[i]) <= Z(t[j])
    <3>1. CASE i = j
      <4>1. t[i] \in DOMAIN object
        BY <1>4, <1>5, LenProperties
      <4> QED BY <1>1, <3>1, <4>1
    <3>2. CASE i < j /\ j < k
      <4>1. i \in 1..m /\ j \in 1..m /\ t[i] = s[i] /\ t[j] = s[j]
        BY <1>2, <1>4, <3>2
      <4> QED BY <2>1, <2>5, <4>1
    <3>3. CASE i < j /\ j = k
      <4>1. i \in 1..m /\ t[i] = s[i] /\ t[j] = o
        BY <1>2, <1>4, <3>3
      <4> QED BY <2>3, <3>3, <4>1
    <3>4. CASE i < k /\ k < j
      <4>1. i \in 1..m /\ j - 1 \in 1..m /\ t[i] = s[i] /\ t[j] = s[j - 1] /\ i <= j - 1
        BY <1>2, <1>4, <3>4
      <4> QED BY <2>1, <4>1
    <3>5. CASE i = k /\ k < j
      <4>1. j - 1 \in 1..m /\ t[i] = o /\ t[j] = s[j - 1] /\ k <= j - 1
        BY <1>2, <1>4, <3>5
      <4> QED BY <2>4, <4>1
    <3>6. CASE k < i /\ i < j
      <4>1. i - 1 \in 1..m /\ j - 1 \in 1..m /\ t[i] = s[i - 1] /\ t[j] = s[j - 1] /\ i - 1 <= j - 1
        BY <1>2, <1>4, <3>6
      <4> QED BY <2>1, <4>1
    <3> QED BY <1>2, <2>5, <3>1, <3>2, <3>3, <3>4, <3>5, <3>6
  <2> QED BY <1>4, <2>5 DEF Rising
<1> QED BY <1>1, <1>4, <1>6, <1>8, <1>9, <1>10 DEF Sorting, o

Sorted(f) == f = [n \in 0..taken |-> IF n = 0 THEN {<<>>} ELSE UNION {Placed(s, pool[n]) : s \in f[n - 1]}]

LEMMA SortedExists ==
  ASSUME PoolTyped
  PROVE  \E f : Sorted(f)
<1> DEFINE X == SUBSET Seq(DOMAIN object)
           step == [p \in X \X (1..taken) |-> UNION {Placed(s, pool[p[2]]) : s \in p[1]}]
<1>1. taken \in Nat /\ \A n \in 1..taken : pool[n] \in DOMAIN object
  BY PoolHas DEF PoolTyped
<1>2. ASSUME NEW ss \in X, NEW n \in 1..taken
      PROVE  step[<<ss, n>>] = UNION {Placed(s, pool[n]) : s \in ss} /\ step[<<ss, n>>] \in X
  <2>1. step[<<ss, n>>] = UNION {Placed(s, pool[n]) : s \in ss}
    OBVIOUS
  <2>2. ASSUME NEW s \in ss, NEW t \in Placed(s, pool[n])
        PROVE  t \in Seq(DOMAIN object)
    <3>1. PICK k \in 1..(Len(s) + 1) : t = InsertAt(s, k, pool[n])
      BY <2>2 DEF Placed
    <3>2. s \in Seq(DOMAIN object)
      OBVIOUS
    <3>3. Inserting(InsertAt(s, k, pool[n]), s, k, pool[n], DOMAIN object)
      BY <1>1, <3>1, <3>2, InsertingIt
    <3> QED BY <3>1, <3>3 DEF Inserting
  <2> HIDE DEF step
  <2> QED BY <2>1, <2>2
<1>3. step \in [X \X (1..taken) -> X]
  <2>1. ASSUME NEW p \in X \X (1..taken)
        PROVE  step[p] \in X
    <3>1. PICK ss \in X, n \in 1..taken : p = <<ss, n>>
      OBVIOUS
    <3> HIDE DEF step, X
    <3> QED BY <1>2, <3>1
  <2>2. step = [p \in X \X (1..taken) |-> step[p]]
    OBVIOUS
  <2> HIDE DEF step, X
  <2> QED BY <2>1, <2>2
<1>4. {<<>>} \in X
  BY EmptySeq
<1>5. PICK g \in [0..taken -> X] : Stepping(g, {<<>>}, step, taken)
  <2> HIDE DEF step, X
  <2> QED BY <1>1, <1>3, <1>4, RunExists
<1>6. \A n \in 0..taken : g[n] = IF n = 0 THEN {<<>>} ELSE UNION {Placed(s, pool[n]) : s \in g[n - 1]}
  <2> TAKE n \in 0..taken
  <2>1. CASE n = 0
    BY <1>1, <1>5, <2>1 DEF Stepping
  <2>2. CASE n # 0
    <3>1. n \in 1..taken /\ n - 1 \in 0..taken
      BY <1>1, <2>2
    <3>2. g[n] = step[<<g[n - 1], n>>] /\ g[n - 1] \in X
      <4> HIDE DEF step
      <4> QED BY <1>5, <2>2, <3>1 DEF Stepping
    <3> HIDE DEF step
    <3> QED BY <1>2, <2>2, <3>1, <3>2
  <2> QED BY <2>1, <2>2
<1>7. Sorted(g)
  BY <1>6 DEF Sorted
<1> QED BY <1>7

LEMMA SortingsAre ==
  ASSUME PoolTyped, NEW s \in Sortings
  PROVE  Sorting(s, taken)
<1> DEFINE f == CHOOSE f : Sorted(f)
           Good(n) == \A t \in f[n] : Sorting(t, n)
           G == {n \in 1..taken : Good(n)}
<1>1. Sortings = f[taken]
  BY DEF Sortings, Sorted
<1> HIDE DEF f
<1>2. Sorted(f)
  BY SortedExists DEF f
<1>3. taken \in Nat
  BY DEF PoolTyped
<1>4. Good(0)
  <2>1. f[0] = {<<>>}
    BY <1>2, <1>3 DEF Sorted
  <2>2. Sorting(<<>>, 0)
    <3>1. <<>> \in Seq(DOMAIN object) /\ Len(<<>>) = 0 /\ DOMAIN <<>> = {}
      BY EmptySeq
    <3>2. ToSet(<<>>) = {} /\ Taken(0) = {}
      BY <3>1 DEF ToSet, Taken
    <3> QED BY <3>1, <3>2 DEF Sorting, Once, Rising
  <2> QED BY <2>1, <2>2
<1>5. ASSUME NEW n \in 1..taken, \A j \in 1..taken : j < n => j \in G
      PROVE  n \in G
  <2>1. Good(n - 1)
    <3>1. n = 1 \/ (n - 1 \in 1..taken /\ n - 1 < n)
      BY <1>3
    <3> HIDE DEF Good
    <3> QED BY <1>4, <1>5, <3>1
  <2>2. f[n] = UNION {Placed(t, pool[n]) : t \in f[n - 1]}
    <3>1. n \in 0..taken /\ n # 0
      BY <1>3
    <3> QED BY <1>2, <3>1 DEF Sorted
  <2>3. ASSUME NEW t \in f[n]
        PROVE  Sorting(t, n)
    <3>1. PICK u \in f[n - 1] : t \in Placed(u, pool[n])
      BY <2>2
    <3>2. Sorting(u, n - 1)
      BY <2>1
    <3> QED BY <3>1, <3>2, PlacedSorts
  <2> QED BY <2>3
<1>6. G = 1..taken
  <2>1. G \in SUBSET (1..taken)
    OBVIOUS
  <2> HIDE DEF G
  <2> QED BY <1>3, <1>5, <2>1, FirstToLast
<1>7. Good(taken)
  <2>1. taken = 0 \/ taken \in G
    BY <1>3, <1>6
  <2> HIDE DEF Good
  <2> QED BY <1>4, <2>1
<1> QED BY <1>1, <1>7
-----------------------------------------------------------------------------
LEMMA BlankIs == Blank \in Things
<1>1. FALSE \in BOOLEAN /\ Clear \in Colors
  BY DrawingAssumption
<1>2. Outline(Clear, FALSE) \in Looks
  <2>1. \A c \in Colors, b \in BOOLEAN : Outline(c, b) \in Looks
    BY DEF Looks
  <2> QED BY <1>1, <2>1
<1> QED BY <1>2 DEF Blank, Things

(* One object more is taken. *)
LEMMA GrownIs ==
  ASSUME PoolTyped
  PROVE  /\ Grown \in Seq(1..Len(Grown)) /\ Once(Grown) /\ ToSet(Grown) = 1..Len(Grown)
         /\ Len(Grown) \in Nat \ {0} /\ Len(pool) <= Len(Grown) /\ taken < Len(Grown)
         /\ \A i \in 1..Len(pool) : Grown[i] = pool[i]
<1> DEFINE n == Len(pool)
           more == [i \in 1..n |-> n + i]
<1>1. n \in Nat \ {0} /\ pool \in Seq(1..n) /\ taken \in 0..n /\ DOMAIN pool = 1..n
  BY DEF PoolTyped
<1>2. CASE taken < n
  <2>1. Grown = pool
    BY <1>2 DEF Grown
  <2> QED BY <1>1, <1>2, <2>1 DEF PoolTyped
<1>3. CASE ~(taken < n)
  <2>1. Grown = pool \o more
    BY <1>3 DEF Grown
  <2>2. more \in Seq(1..(2 * n)) /\ Len(more) = n /\ \A i \in 1..n : more[i] = n + i
    <3>1. more \in [1..n -> 1..(2 * n)]
      BY <1>1
    <3>2. more \in Seq(1..(2 * n))
      BY <1>1, <3>1, SeqDef
    <3>3. DOMAIN more = 1..n
      OBVIOUS
    <3>4. Len(more) = n
      BY <1>1, <3>2, <3>3, LenProperties
    <3> QED BY <3>2, <3>4
  <2> HIDE DEF more
  <2>3. pool \in Seq(1..(2 * n))
    <3>1. \A i \in 1..n : pool[i] \in 1..(2 * n)
      <4>1. ASSUME NEW i \in 1..n
            PROVE  pool[i] \in 1..(2 * n)
        <5>1. pool[i] \in 1..n
          BY <1>1, ElementOfSeq
        <5> QED BY <1>1, <5>1
      <4> QED BY <4>1
    <3>2. pool \in [1..n -> 1..(2 * n)]
      BY <1>1, <3>1, LenProperties
    <3> QED BY <1>1, <3>2, SeqDef
  <2>4. /\ Grown \in Seq(1..(2 * n)) /\ Len(Grown) = 2 * n
        /\ \A i \in 1..(2 * n) : Grown[i] = IF i <= n THEN pool[i] ELSE i
    <3> HIDE DEF n
    <3>1. Grown \in Seq(1..(2 * n)) /\ Len(Grown) = n + n
      <4>1. Len(pool) = n
        BY DEF n
      <4>2. pool \o more \in Seq(1..(2 * n)) /\ Len(pool \o more) = Len(pool) + Len(more)
        BY <2>2, <2>3, Joined
      <4> QED BY <2>1, <2>2, <4>1, <4>2
    <3>2. ASSUME NEW i \in 1..(2 * n)
          PROVE  Grown[i] = IF i <= n THEN pool[i] ELSE i
      <4>0. Len(pool) = n /\ i \in 1..(n + n)
        BY <1>1 DEF n
      <4>1. Grown[i] = IF i <= n THEN pool[i] ELSE more[i - n]
        <5>1. \A k \in 1..(Len(pool) + Len(more)) :
                (pool \o more)[k] = IF k <= Len(pool) THEN pool[k] ELSE more[k - Len(pool)]
          BY <2>2, <2>3, Joined
        <5>2. i \in 1..(Len(pool) + Len(more))
          BY <2>2, <4>0
        <5> QED BY <2>1, <4>0, <5>1, <5>2
      <4>2. CASE i <= n
        BY <4>1, <4>2
      <4>3. CASE ~(i <= n)
        <5>1. i - n \in 1..n
          BY <1>1, <4>3
        <5>2. more[i - n] = n + (i - n)
          BY <2>2, <5>1
        <5> QED BY <1>1, <4>1, <4>3, <5>2
      <4> QED BY <4>2, <4>3
    <3> QED BY <1>1, <3>1, <3>2
  <2>5. \A i \in 1..n : pool[i] \in 1..n
    BY <1>1, ElementOfSeq
  <2>6. Once(Grown)
    <3> SUFFICES ASSUME NEW i \in 1..(2 * n), NEW j \in 1..(2 * n), Grown[i] = Grown[j]
                 PROVE  i = j
      BY <2>4 DEF Once
    <3>1. CASE i <= n /\ j <= n
      <4>1. i \in 1..n /\ j \in 1..n /\ pool[i] = pool[j]
        BY <1>1, <2>4, <3>1
      <4> QED BY <4>1 DEF PoolTyped, Once
    <3>2. CASE i <= n /\ ~(j <= n)
      <4>1. i \in 1..n /\ pool[i] = j
        BY <1>1, <2>4, <3>2
      <4>2. pool[i] <= n
        BY <1>1, <2>5, <4>1
      <4> QED BY <1>1, <3>2, <4>1, <4>2
    <3>3. CASE ~(i <= n) /\ j <= n
      <4>1. j \in 1..n /\ pool[j] = i
        BY <1>1, <2>4, <3>3
      <4>2. pool[j] <= n
        BY <1>1, <2>5, <4>1
      <4> QED BY <1>1, <3>3, <4>1, <4>2
    <3>4. CASE ~(i <= n) /\ ~(j <= n)
      BY <1>1, <2>4, <3>4
    <3> QED BY <3>1, <3>2, <3>3, <3>4
  <2>7. ToSet(Grown) = 1..(2 * n)
    <3>1. ToSet(Grown) = {Grown[i] : i \in 1..(2 * n)}
      BY <1>1, <2>4, LenProperties DEF ToSet
    <3>2. \A i \in 1..(2 * n) : Grown[i] \in 1..(2 * n)
      BY <1>1, <2>4, ElementOfSeq
    <3>3. ASSUME NEW o \in 1..(2 * n)
          PROVE  \E i \in 1..(2 * n) : Grown[i] = o
      <4>1. CASE o <= n
        <5>1. o \in ToSet(pool)
          BY <1>1, <4>1 DEF PoolTyped
        <5>2. PICK i \in 1..n : pool[i] = o
          BY <1>1, <5>1 DEF ToSet
        <5>3. i \in 1..(2 * n) /\ i <= n
          BY <1>1
        <5> QED BY <2>4, <5>2, <5>3
      <4>2. CASE ~(o <= n)
        BY <1>1, <2>4, <4>2
      <4> QED BY <4>1, <4>2
    <3> QED BY <3>1, <3>2, <3>3
  <2>8. \A i \in 1..n : Grown[i] = pool[i]
    BY <1>1, <2>4
  <2>9. Grown \in Seq(1..Len(Grown)) /\ ToSet(Grown) = 1..Len(Grown)
    BY <2>4, <2>7
  <2>10. Len(Grown) \in Nat \ {0} /\ Len(pool) <= Len(Grown) /\ taken < Len(Grown)
    <3>1. Len(pool) = n
      OBVIOUS
    <3> HIDE DEF n
    <3> QED BY <1>1, <1>3, <2>4, <3>1
  <2> QED BY <2>6, <2>8, <2>9, <2>10
<1> QED BY <1>2, <1>3

LEMMA RequestedIs ==
  ASSUME PoolTyped, NEW content \in Things, Requested(content)
  PROVE  /\ PoolTyped' /\ NextObject \in DOMAIN object' /\ object'[NextObject] = content
         /\ NextObject \notin Taken(taken) /\ Taken(taken)' = Taken(taken) \cup {NextObject}
         /\ \A o \in Taken(taken) : o \in DOMAIN object /\ o \in DOMAIN object' /\ object'[o] = object[o]
<1>1. /\ Grown \in Seq(1..Len(Grown)) /\ Once(Grown) /\ ToSet(Grown) = 1..Len(Grown)
      /\ Len(Grown) \in Nat \ {0} /\ Len(pool) <= Len(Grown) /\ taken < Len(Grown)
      /\ \A i \in 1..Len(pool) : Grown[i] = pool[i]
  BY GrownIs
<1>2. /\ taken' = taken + 1 /\ pool' = Grown
      /\ object' = [o \in 1..Len(Grown) |-> IF o = NextObject THEN content
                                           ELSE IF o \in DOMAIN object THEN object[o] ELSE Blank]
  BY DEF Requested
<1>3. /\ Len(pool) \in Nat /\ taken \in 0..Len(pool) /\ object \in [1..Len(pool) -> Things]
      /\ taken \in Nat /\ taken + 1 \in 1..Len(Grown)
  <2>1. Len(pool) \in Nat /\ taken \in 0..Len(pool) /\ object \in [1..Len(pool) -> Things]
    BY DEF PoolTyped
  <2>2. taken < Len(Grown) /\ Len(Grown) \in Nat
    BY <1>1
  <2>3. taken \in Nat /\ taken + 1 \in 1..Len(Grown)
    BY <2>1, <2>2
  <2> QED BY <2>1, <2>3
<1>4. Blank \in Things
  BY BlankIs
<1>5. NextObject = Grown[taken + 1] /\ NextObject \in 1..Len(Grown)
  BY <1>1, <1>3, ElementOfSeq DEF NextObject
<1>6. object' \in [1..Len(Grown) -> Things]
  <2>1. \A o \in 1..Len(Grown) :
          (IF o = NextObject THEN content ELSE IF o \in DOMAIN object THEN object[o] ELSE Blank) \in Things
    BY <1>3, <1>4
  <2> QED BY <1>2, <2>1
<1>7. PoolTyped'
  <2>1. /\ Len(pool') \in Nat \ {0} /\ pool' \in Seq(1..Len(pool')) /\ Once(pool') /\ ToSet(pool') = 1..Len(pool')
        /\ object' \in [1..Len(pool') -> Things]
    BY <1>1, <1>2, <1>6
  <2>2. taken' \in 0..Len(pool')
    BY <1>1, <1>2, <1>3
  <2> QED BY <2>1, <2>2 DEF PoolTyped, Once, ToSet
<1>8. \A i \in 1..taken : i \in 1..Len(pool) /\ i \in 1..Len(Grown) /\ Grown[i] = pool[i] /\ i # taken + 1
  <2>0. taken \in Nat /\ taken <= Len(pool) /\ Len(pool) <= Len(Grown) /\ Len(pool) \in Nat /\ Len(Grown) \in Nat
    BY <1>1, <1>3
  <2>1. \A i \in 1..taken : i \in 1..Len(pool) /\ i \in 1..Len(Grown) /\ i # taken + 1
    BY <2>0
  <2>2. \A i \in 1..Len(pool) : Grown[i] = pool[i]
    BY <1>1
  <2> QED BY <2>1, <2>2
<1>9. NextObject \notin Taken(taken)
  BY <1>1, <1>3, <1>5, <1>8 DEF Taken, Once
<1>10. Taken(taken)' = Taken(taken) \cup {NextObject}
  <2>1. Taken(taken)' = {Grown[i] : i \in 1..(taken + 1)}
    BY <1>2 DEF Taken
  <2>2. 1..(taken + 1) = (1..taken) \cup {taken + 1}
    BY <1>3
  <2> QED BY <1>5, <1>8, <2>1, <2>2 DEF Taken
<1>11. ASSUME NEW o \in Taken(taken)
       PROVE  o \in DOMAIN object /\ o \in DOMAIN object' /\ object'[o] = object[o]
  <2>1. PICK i \in 1..taken : o = pool[i]
    BY DEF Taken
  <2>2. o \in DOMAIN object /\ o \in 1..Len(pool)
    BY <1>3, <1>8, <2>1, ElementOfSeq DEF PoolTyped
  <2>3. o \in 1..Len(Grown) /\ o # NextObject
    <3>1. o \in 1..Len(Grown)
      BY <1>1, <1>3, <2>2
    <3> QED BY <1>9, <3>1
  <2> QED BY <1>2, <2>2, <2>3
<1> QED BY <1>2, <1>5, <1>7, <1>9, <1>10, <1>11
-----------------------------------------------------------------------------
(* The pool after the taken part of it has been sorted. *)
LEMMA TakenIs ==
  ASSUME PoolTyped
  PROVE  /\ Taken(taken) \subseteq DOMAIN object /\ NoObject \notin Taken(taken)
         /\ IsFiniteSet(Taken(taken)) /\ Cardinality(Taken(taken)) = taken
<1>1. DOMAIN object = 1..Len(pool) /\ Len(pool) \in Nat /\ taken \in 0..Len(pool) /\ taken \in Nat
  BY DEF PoolTyped
<1>2. \A i \in 1..taken : i \in 1..Len(pool) /\ pool[i] \in DOMAIN object
  BY <1>1, PoolHas
<1>3. Taken(taken) \subseteq DOMAIN object
  BY <1>2 DEF Taken
<1>4. NoObject \notin Taken(taken)
  <2>1. NoObject \notin DOMAIN object
    BY <1>1 DEF NoObject
  <2> QED BY <1>3, <2>1
<1>5. IsFiniteSet(Taken(taken))
  <2>1. IsFiniteSet(DOMAIN object)
    BY <1>1, FS_Interval
  <2> QED BY <1>3, <2>1, FS_Subset
<1> DEFINE s == [i \in 1..taken |-> pool[i]]
<1>6. s \in Seq(DOMAIN object) /\ Len(s) = taken /\ DOMAIN s = 1..taken
  <2>1. s \in [1..taken -> DOMAIN object]
    BY <1>2
  <2>2. s \in Seq(DOMAIN object) /\ DOMAIN s = 1..taken
    BY <1>1, <2>1, SeqDef
  <2> HIDE DEF s
  <2> QED BY <1>1, <2>2, LenProperties
<1>7. Once(s)
  <2>1. \A i \in 1..taken : s[i] = pool[i]
    OBVIOUS
  <2> HIDE DEF s
  <2> QED BY <1>2, <1>6, <2>1 DEF Once, PoolTyped
<1>8. ToSet(s) = Taken(taken)
  BY <1>6 DEF ToSet, Taken
<1> HIDE DEF s
<1>9. Cardinality(Taken(taken)) = taken
  BY <1>6, <1>7, <1>8, OnceCounts
<1> QED BY <1>3, <1>4, <1>5, <1>9

Resorted(s) == s \o SubSeq(pool, taken + 1, Len(pool))

LEMMA ResortedIs ==
  ASSUME PoolTyped, NEW s, Sorting(s, taken)
  PROVE  /\ Resorted(s) \in Seq(1..Len(pool)) /\ Len(Resorted(s)) = Len(pool)
         /\ Once(Resorted(s)) /\ ToSet(Resorted(s)) = 1..Len(pool)
<1> DEFINE n == Len(pool)
           rest == SubSeq(pool, taken + 1, n)
           t == Resorted(s)
<1>1. /\ n \in Nat /\ taken \in Nat /\ taken <= n /\ DOMAIN object = 1..n
      /\ pool \in Seq(1..n) /\ Once(pool) /\ ToSet(pool) = 1..n /\ DOMAIN pool = 1..n
  BY LenProperties DEF PoolTyped
<1>2. s \in Seq(1..n) /\ Once(s) /\ ToSet(s) = Taken(taken)
  BY <1>1 DEF Sorting
<1>3. Len(s) = taken /\ DOMAIN s = 1..taken
  <2>1. Len(s) = Cardinality(ToSet(s))
    BY <1>2, OnceCounts
  <2>2. Len(s) = taken
    BY <1>2, <2>1, TakenIs
  <2> QED BY <1>2, <2>2, LenProperties
<1>4. rest \in Seq(1..n) /\ Len(rest) = n - taken /\ \A i \in 1..(n - taken) : rest[i] = pool[taken + i]
  <2> HIDE DEF n
  <2>0. Len(pool) = n
    BY DEF n
  <2>1. CASE taken < n
    BY <1>1, <2>0, <2>1, SubSeqProperties
  <2>2. CASE taken = n
    <3>1. rest = <<>>
      BY <1>1, <2>0, <2>2, SubSeqProperties
    <3> QED BY <1>1, <2>2, <3>1, EmptySeq
  <2> QED BY <1>1, <2>1, <2>2
<1>5. t = s \o rest
  BY DEF Resorted
<1> HIDE DEF rest, t
<1>6. t \in Seq(1..n) /\ Len(t) = n /\ \A i \in 1..n : t[i] = IF i <= taken THEN s[i] ELSE pool[i]
  <2>1. t \in Seq(1..n) /\ Len(t) = Len(s) + Len(rest)
    BY <1>2, <1>4, <1>5, Joined
  <2>2. \A i \in 1..(Len(s) + Len(rest)) : t[i] = IF i <= Len(s) THEN s[i] ELSE rest[i - Len(s)]
    BY <1>2, <1>4, <1>5, Joined
  <2> HIDE DEF n
  <2>3. Len(t) = n
    BY <1>1, <1>3, <1>4, <2>1
  <2>4. ASSUME NEW i \in 1..n
        PROVE  t[i] = IF i <= taken THEN s[i] ELSE pool[i]
    <3>1. i \in 1..(Len(s) + Len(rest))
      BY <1>1, <1>3, <1>4
    <3>2. t[i] = IF i <= taken THEN s[i] ELSE rest[i - taken]
      BY <1>3, <2>2, <3>1
    <3>3. CASE i <= taken
      BY <3>2, <3>3
    <3>4. CASE ~(i <= taken)
      <4>1. i - taken \in 1..(n - taken) /\ taken + (i - taken) = i
        BY <1>1, <3>4
      <4>2. rest[i - taken] = pool[i]
        BY <1>4, <4>1
      <4> QED BY <3>2, <3>4, <4>2
    <3> QED BY <3>3, <3>4
  <2> QED BY <2>1, <2>3, <2>4
<1>7. \A i \in 1..taken : \E j \in 1..taken : s[i] = pool[j]
  <2> TAKE i \in 1..taken
  <2>1. s[i] \in ToSet(s)
    BY <1>3 DEF ToSet
  <2> QED BY <1>2, <2>1 DEF Taken
<1>8. \A j \in 1..taken : \E i \in 1..taken : s[i] = pool[j]
  <2> TAKE j \in 1..taken
  <2>1. pool[j] \in ToSet(s)
    BY <1>2 DEF Taken
  <2> QED BY <1>3, <2>1 DEF ToSet
<1>9. Once(t)
  <2>0. /\ \A i, j \in 1..taken : s[i] = s[j] => i = j
        /\ \A i, j \in 1..n : pool[i] = pool[j] => i = j
    BY <1>1, <1>2, <1>3 DEF Once
  <2>1. ASSUME NEW i \in 1..n, NEW j \in 1..n, i <= taken, ~(j <= taken), t[i] = t[j]
        PROVE  FALSE
    <3>0. t[i] = s[i] /\ t[j] = pool[j]
      BY <1>6, <2>1
    <3>1. i \in 1..taken /\ s[i] = pool[j]
      <4>1. s[i] = pool[j]
        BY <2>1, <3>0
      <4>2. i \in 1..taken
        BY <1>1, <2>1
      <4> QED BY <4>1, <4>2
    <3>2. PICK k \in 1..taken : s[i] = pool[k]
      BY <1>7, <3>1
    <3>3. k \in 1..n
      BY <1>1
    <3>4. k # j
      BY <2>1
    <3> QED BY <2>0, <3>1, <3>2, <3>3, <3>4
  <2>2. ASSUME NEW i \in 1..n, NEW j \in 1..n, t[i] = t[j]
        PROVE  i = j
    <3>1. CASE i <= taken /\ j <= taken
      <4>1. i \in 1..taken /\ j \in 1..taken /\ s[i] = s[j]
        BY <1>1, <1>6, <2>2, <3>1
      <4> QED BY <2>0, <4>1
    <3>2. CASE ~(i <= taken) /\ ~(j <= taken)
      <4>1. pool[i] = pool[j]
        BY <1>6, <2>2, <3>2
      <4> QED BY <2>0, <4>1
    <3> QED BY <2>1, <2>2, <3>1, <3>2
  <2> QED BY <1>6, <2>2 DEF Once
<1>10. ToSet(t) = 1..n
  <2>1. ToSet(t) = {t[i] : i \in 1..n}
    BY <1>1, <1>6, LenProperties DEF ToSet
  <2>2. \A i \in 1..n : t[i] \in 1..n
    BY <1>6, ElementOfSeq
  <2>3. ASSUME NEW o \in 1..n
        PROVE  \E i \in 1..n : t[i] = o
    <3>1. PICK j \in 1..n : pool[j] = o
      BY <1>1 DEF ToSet
    <3>2. CASE j <= taken
      <4>1. j \in 1..taken
        BY <1>1, <3>2
      <4>2. PICK i \in 1..taken : s[i] = pool[j]
        BY <1>8, <4>1
      <4>3. i \in 1..n /\ i <= taken
        BY <1>1
      <4> QED BY <1>6, <3>1, <4>2, <4>3
    <3>3. CASE ~(j <= taken)
      BY <1>6, <3>1, <3>3
    <3> QED BY <3>2, <3>3
  <2> QED BY <2>1, <2>2, <2>3
<1> QED BY <1>6, <1>9, <1>10 DEF t, n
-----------------------------------------------------------------------------
(* What is drawn of the objects when they hold what was wanted. *)
Delivered ==
  \A f \in [Things -> Nat] : Weight(wanted, f) = Sum([o \in DOMAIN object |-> f[object[o]]], Taken(taken))

Faithful(picture) ==
  /\ Tally([i \in DOMAIN picture |-> picture[i].piece]) = Tally(Pieces(wanted))
  /\ \A i \in DOMAIN picture : picture[i].look = picture[i].piece.look
  /\ \A i, j \in DOMAIN picture : i < j => picture[i].piece.z <= picture[j].piece.z

LEMMA FillShows ==
  ASSUME PoolTyped, wanted \in Seq(Things), Delivered, NEW s, Sorting(s, taken)
  PROVE  Faithful(Picture(FilledList(s)))
<1> DEFINE q == FlatMapped(s, ShardsOf)
           picture == Picture(FilledList(s))
           shown == [i \in DOMAIN picture |-> picture[i].piece]
<1>1. ObjectsTyped /\ s \in Seq(DOMAIN object) /\ Once(s) /\ ToSet(s) = Taken(taken) /\ Rising(s)
  BY PoolHas DEF Sorting
<1>2. q \in Seq(GoodShards) /\ ShardsRise(q) /\ picture = Mapped(q, ShotOf)
  BY <1>1, AllShardsAre, ShardsClimb, FilledIs
<1> HIDE DEF q, picture
<1>3. /\ Len(picture) = Len(q) /\ DOMAIN picture = 1..Len(q) /\ Len(q) \in Nat
      /\ \A i \in 1..Len(q) : /\ q[i] \in GoodShards
                              /\ picture[i] = [piece |-> q[i].piece, look |-> q[i].piece.look]
  <2>1. /\ Len(picture) = Len(q) /\ DOMAIN picture = 1..Len(q)
        /\ \A i \in 1..Len(q) : picture[i] = ShotOf[q[i]]
    BY <1>2, MapLong
  <2>2. Len(q) \in Nat /\ \A i \in 1..Len(q) : q[i] \in GoodShards
    BY <1>2, LenProperties, ElementOfSeq
  <2> QED BY <2>1, <2>2 DEF ShotOf
<1>4. /\ DOMAIN shown = 1..Len(q) /\ \A i \in 1..Len(q) : shown[i] = q[i].piece
  BY <1>3
<1>5. shown \in Seq(FlatPieces) /\ Len(shown) = Len(q)
  <2>1. \A i \in 1..Len(q) : q[i].piece \in FlatPieces
    BY <1>3 DEF GoodShards
  <2>2. shown \in [1..Len(q) -> FlatPieces]
    BY <1>3, <2>1
  <2>3. shown \in Seq(FlatPieces)
    BY <1>3, <2>2, SeqDef
  <2> HIDE DEF shown
  <2> QED BY <1>3, <1>4, <2>3, LenProperties
<1> HIDE DEF shown
<1>6. Pieces(wanted) \in Seq(FlatPieces)
  BY PiecesAre
<1>7. ASSUME NEW w \in [FlatPieces -> Nat]
      PROVE  Weight(shown, w) = Weight(Pieces(wanted), w)
  <2> DEFINE v == [thing \in Things |-> Weight(Parts(thing), w)]
             e == [o \in DOMAIN object |-> Weight(Parts(object[o]), w)]
             u == [shard \in GoodShards |-> w[shard.piece]]
  <2>1. \A thing \in Things : Parts(thing) \in Seq(FlatPieces) /\ Weight(Parts(thing), w) \in Nat
    BY PartsAre, WeightCounts
  <2>2. v \in [Things -> Nat] /\ \A thing \in Things : v[thing] = Weight(PartsOf[thing], w)
    BY <2>1 DEF PartsOf
  <2>3. PartsOf \in [Things -> Seq(FlatPieces)]
    BY <2>1 DEF PartsOf
  <2>4. Weighing(v, PartsOf, w, Things, FlatPieces)
    <3> HIDE DEF v
    <3> QED BY <2>2, <2>3 DEF Weighing
  <2>5. \A o \in DOMAIN object : object[o] \in Things
    BY <1>1 DEF ObjectsTyped
  <2>6. e \in [DOMAIN object -> Nat] /\ \A o \in DOMAIN object : e[o] = Weight(Parts(object[o]), w)
    BY <2>1, <2>5
  <2>7. e = [o \in DOMAIN object |-> v[object[o]]]
    BY <2>5
  <2> HIDE DEF v, e
  <2>8. Weight(Pieces(wanted), w) = Weight(wanted, v)
    BY <2>4, PiecesAre
  <2>9. Weight(wanted, v) = Sum(e, Taken(taken))
    BY <2>2, <2>7 DEF Delivered
  <2>10. Weight(q, u) = Sum(e, ToSet(s))
    BY <1>1, <2>6, ShardsWeigh DEF q
  <2>11. Alike(shown, w, q, u)
    BY <1>3, <1>4, <1>5 DEF Alike
  <2> HIDE DEF u
  <2>12. Weight(shown, w) = Weight(q, u)
    BY <1>2, <1>5, <2>11, WeightSame
  <2> QED BY <1>1, <2>8, <2>9, <2>10, <2>12
<1>8. Tally(shown) = Tally(Pieces(wanted))
  BY <1>5, <1>6, <1>7, TallySame
<1>9. \A i \in DOMAIN picture : picture[i].look = picture[i].piece.look
  BY <1>3
<1>10. \A i, j \in DOMAIN picture : i < j => picture[i].piece.z <= picture[j].piece.z
  <2> TAKE i, j \in DOMAIN picture
  <2> HAVE i < j
  <2>1. i \in 1..Len(q) /\ j \in 1..Len(q) /\ i <= j
    BY <1>3
  <2>2. q[i].piece.z <= q[j].piece.z
    BY <1>2, <2>1 DEF ShardsRise
  <2> QED BY <1>3, <2>1, <2>2
<1> QED BY <1>8, <1>9, <1>10 DEF Faithful, shown, picture
-----------------------------------------------------------------------------
(* The invariant.  While the late systems work, and until the list is       *)
(* filled, what was wanted is what the finished objects hold together with  *)
(* what the systems have still to add.                                      *)
Held == {painter[k].holds : k \in Kinds}

Made == Taken(taken) \ Held

Accounted ==
  \A f \in [Things -> Nat] :
    Weight(wanted, f) = Sum([o \in DOMAIN object |-> f[object[o]]], Made)
                          + Sum([k \in Kinds |-> Weight(painter[k].todo, f)], Kinds)

PaintersTyped == painter \in [Kinds -> [todo : Seq(Things), holds : Nat]]

PaintersSound ==
  /\ \A k \in Kinds : painter[k].holds # NoObject =>
       painter[k].holds \in Taken(taken) /\ painter[k].todo # <<>>
  /\ \A j, k \in Kinds : painter[j].holds = painter[k].holds /\ painter[j].holds # NoObject => j = k
  /\ painting # "late" => \A k \in Kinds : painter[k] = Resting

FrameTyped ==
  /\ DOMAIN world = Drawables /\ WorldTyped
  /\ painting \in {"idle", "scripts", "scripted", "late", "gui", "console", "ready"}
  /\ wanted \in Seq(Things)
  /\ DOMAIN lists = BOOLEAN /\ activeList \in BOOLEAN
  /\ drawings \in 0..MaxDrawings

Reckoned == painting \in {"late", "gui", "console", "ready"} => Accounted

DrawingInv == FrameTyped /\ PoolTyped /\ PaintersTyped /\ PaintersSound /\ Reckoned /\ FaithfulPicture

LEMMA RestingPainters ==
  ASSUME PoolTyped, PaintersSound, painting # "late"
  PROVE  /\ Held = {NoObject} /\ Made = Taken(taken)
         /\ \A k \in Kinds : painter[k].todo = <<>> /\ painter[k].holds = NoObject
<1>1. \A k \in Kinds : painter[k] = Resting
  BY DEF PaintersSound
<1>2. \A k \in Kinds : painter[k].todo = <<>> /\ painter[k].holds = NoObject
  BY <1>1 DEF Resting
<1>3. Held = {NoObject}
  <2>1. "map" \in Kinds
    BY DEF Kinds
  <2> QED BY <1>2, <2>1 DEF Held
<1> QED BY <1>2, <1>3, TakenIs DEF Made

(* The sums that the invariant speaks of are sums of natural numbers. *)
LEMMA SumsCount ==
  ASSUME PoolTyped, PaintersTyped, NEW f \in [Things -> Nat]
  PROVE  /\ IsFiniteSet(Made) /\ Made \subseteq DOMAIN object
         /\ Counting([o \in DOMAIN object |-> f[object[o]]], DOMAIN object)
         /\ Counting([k \in Kinds |-> Weight(painter[k].todo, f)], Kinds)
<1>1. IsFiniteSet(Made) /\ Made \subseteq DOMAIN object
  <2>1. Made \subseteq Taken(taken)
    BY DEF Made
  <2> QED BY <2>1, TakenIs, FS_Subset
<1>2. \A o \in DOMAIN object : f[object[o]] \in Nat
  BY PoolHas DEF ObjectsTyped
<1>3. \A k \in Kinds : Weight(painter[k].todo, f) \in Nat
  BY WeightCounts DEF PaintersTyped
<1> QED BY <1>1, <1>2, <1>3 DEF Counting

LEMMA BeginKeeps ==
  ASSUME DrawingInv, BeginDrawing
  PROVE  DrawingInv'
<1>1. FrameTyped'
  BY DrawingAssumption DEF DrawingInv, BeginDrawing, FrameTyped, WorldTyped, Component
<1>2. PoolTyped' /\ PaintersTyped'
  BY DEF DrawingInv, BeginDrawing, PoolTyped, PaintersTyped, Once, ToSet
<1>3. PaintersSound' /\ Reckoned' /\ FaithfulPicture'
  BY DEF DrawingInv, BeginDrawing, PaintersSound, Taken, Reckoned, FaithfulPicture
<1> QED BY <1>1, <1>2, <1>3 DEF DrawingInv

LEMMA ScriptKeeps ==
  ASSUME DrawingInv, NEW d \in Drawables, NEW t \in Component(d), Script(d, t)
  PROVE  DrawingInv'
<1>1. FrameTyped'
  <2>1. DOMAIN world' = Drawables
    BY DEF DrawingInv, FrameTyped, Script
  <2>2. WorldTyped'
    BY DEF DrawingInv, FrameTyped, WorldTyped, Script, Component
  <2> QED BY <2>1, <2>2 DEF DrawingInv, FrameTyped, Script
<1>2. PoolTyped' /\ PaintersTyped'
  BY DEF DrawingInv, Script, PoolTyped, PaintersTyped, Once, ToSet
<1>3. PaintersSound' /\ Reckoned' /\ FaithfulPicture'
  BY DEF DrawingInv, Script, PaintersSound, Taken, Reckoned, FaithfulPicture
<1> QED BY <1>1, <1>2, <1>3 DEF DrawingInv

LEMMA LateKeeps ==
  ASSUME DrawingInv, Late
  PROVE  DrawingInv'
<1>1. WorldTyped /\ PoolTyped
  BY DEF DrawingInv, FrameTyped
<1>2. /\ taken' = 0 /\ painting' = "late" /\ object' = object /\ pool' = pool
      /\ painter' = [k \in Kinds |-> [todo |-> Work(k), holds |-> NoObject]]
      /\ wanted' = Adding(SetToSeq(Drawables))
      /\ UNCHANGED <<world, lists, activeList, drawings>>
  BY DEF Late
<1>3. FrameTyped'
  <2>1. wanted' \in Seq(Things)
    BY <1>1, <1>2, WorkIs
  <2> QED BY <1>2, <2>1 DEF DrawingInv, FrameTyped, WorldTyped, Component
<1>4. PoolTyped'
  <2>1. 0 \in 0..Len(pool)
    BY <1>1 DEF PoolTyped
  <2> QED BY <1>1, <1>2, <2>1 DEF PoolTyped, Once, ToSet
<1>5. PaintersTyped'
  <2>1. \A k \in Kinds : [todo |-> Work(k), holds |-> NoObject] \in [todo : Seq(Things), holds : Nat]
    BY <1>1, WorkIs DEF NoObject
  <2> QED BY <1>2, <2>1 DEF PaintersTyped
<1>6. \A k \in Kinds : painter'[k].todo = Work(k) /\ painter'[k].holds = NoObject
  BY <1>2
<1>7. PaintersSound'
  BY <1>2, <1>6 DEF PaintersSound
<1>8. Accounted'
  <2>1. Made' = {}
    <3>1. Taken(taken)' = {}
      BY <1>2 DEF Taken
    <3> QED BY <3>1 DEF Made
  <2>2. ASSUME NEW f \in [Things -> Nat]
        PROVE  Weight(wanted', f) = Sum([o \in DOMAIN object' |-> f[object'[o]]], Made')
                                      + Sum([k \in Kinds |-> Weight(painter'[k].todo, f)], Kinds)
    <3>1. Weight(wanted', f) = Sum([k \in Kinds |-> Weight(Work(k), f)], Kinds)
      BY <1>1, <1>2, WorkIs
    <3>2. [k \in Kinds |-> Weight(painter'[k].todo, f)] = [k \in Kinds |-> Weight(Work(k), f)]
      BY <1>6
    <3>3. Sum([o \in DOMAIN object' |-> f[object'[o]]], Made') = 0
      BY <2>1, SumEmpty
    <3>4. Weight(wanted', f) \in Nat
      BY <1>1, <1>2, WorkIs, WeightCounts
    <3> QED BY <3>1, <3>2, <3>3, <3>4
  <2> QED BY <2>2 DEF Accounted
<1>9. Reckoned' /\ FaithfulPicture'
  BY <1>2, <1>8 DEF Reckoned, FaithfulPicture
<1> QED BY <1>3, <1>4, <1>5, <1>7, <1>9 DEF DrawingInv

LEMMA EndsKeeps ==
  ASSUME DrawingInv, LateEnds
  PROVE  DrawingInv'
<1>1. FrameTyped'
  BY DEF DrawingInv, LateEnds, FrameTyped, WorldTyped, Component
<1>2. PoolTyped' /\ PaintersTyped'
  BY DEF DrawingInv, LateEnds, PoolTyped, PaintersTyped, Once, ToSet
<1>3. PaintersSound'
  BY DEF DrawingInv, LateEnds, PaintersSound, Taken
<1>4. Reckoned'
  <2>1. Accounted
    BY DEF DrawingInv, LateEnds, Reckoned
  <2>2. UNCHANGED <<object, pool, taken, painter, wanted>>
    BY DEF LateEnds
  <2>3. Made' = Made
    BY <2>2 DEF Made, Taken, Held
  <2>4. Accounted'
    BY <2>1, <2>2, <2>3 DEF Accounted
  <2> QED BY <2>4 DEF Reckoned
<1>5. FaithfulPicture'
  BY DEF LateEnds, FaithfulPicture
<1> QED BY <1>1, <1>2, <1>3, <1>4, <1>5 DEF DrawingInv

LEMMA RequestsKeeps ==
  ASSUME DrawingInv, NEW k \in Kinds, PaintRequests(k)
  PROVE  DrawingInv'
<1> DEFINE N == NextObject
<1>1. PoolTyped /\ PaintersTyped /\ PaintersSound /\ Accounted /\ painting = "late"
  BY DEF DrawingInv, Reckoned, PaintRequests
<1>2. /\ Requested(Blank) /\ painter' = [painter EXCEPT ![k].holds = N]
      /\ painter[k].todo # <<>> /\ painter[k].holds = NoObject
      /\ UNCHANGED <<world, painting, lists, activeList, wanted, drawings>>
  BY DEF PaintRequests
<1>3. Blank \in Things
  BY BlankIs
<1>4. /\ PoolTyped' /\ N \in DOMAIN object'
      /\ N \notin Taken(taken) /\ Taken(taken)' = Taken(taken) \cup {N}
      /\ \A o \in Taken(taken) : o \in DOMAIN object /\ o \in DOMAIN object' /\ object'[o] = object[o]
  BY <1>1, <1>2, <1>3, RequestedIs
<1>5. N \in Nat /\ N # NoObject /\ NoObject \notin Taken(taken)
  <2>1. DOMAIN object' = 1..Len(pool') /\ Len(pool') \in Nat
    BY <1>4 DEF PoolTyped
  <2> QED BY <1>1, <1>4, <2>1, TakenIs DEF NoObject
<1> HIDE DEF N
<1>6. /\ painter \in [Kinds -> [todo : Seq(Things), holds : Nat]] /\ DOMAIN painter = Kinds
      /\ \A j \in Kinds : painter[j].todo \in Seq(Things) /\ painter[j].holds \in Nat
  BY <1>1 DEF PaintersTyped
<1>7. \A j \in Kinds : /\ painter'[j].todo = painter[j].todo
                       /\ painter'[j].holds = IF j = k THEN N ELSE painter[j].holds
  BY <1>2, <1>6
<1>8. FrameTyped'
  BY <1>2 DEF DrawingInv, FrameTyped, WorldTyped, Component
<1>9. PaintersTyped'
  <2>1. [painter[k] EXCEPT !.holds = N] \in [todo : Seq(Things), holds : Nat]
    BY <1>5, <1>6
  <2> QED BY <1>2, <1>6, <2>1 DEF PaintersTyped
<1>10. PaintersSound'
  <2>1. ASSUME NEW j \in Kinds, painter'[j].holds # NoObject
        PROVE  painter'[j].holds \in Taken(taken)' /\ painter'[j].todo # <<>>
    BY <1>1, <1>2, <1>4, <1>7, <2>1 DEF PaintersSound
  <2>2. ASSUME NEW i \in Kinds, NEW j \in Kinds, painter'[i].holds = painter'[j].holds, painter'[i].holds # NoObject
        PROVE  i = j
    BY <1>1, <1>4, <1>7, <2>2 DEF PaintersSound
  <2>3. painting' = "late"
    BY <1>1, <1>2
  <2> QED BY <2>1, <2>2, <2>3 DEF PaintersSound
<1>11. Made' = Made
  <2>1. \A o : o \in Held' <=> (o = N \/ \E j \in Kinds : j # k /\ o = painter[j].holds)
    BY <1>7 DEF Held
  <2>2. \A o : o \in Held <=> (o = NoObject \/ \E j \in Kinds : j # k /\ o = painter[j].holds)
    BY <1>2 DEF Held
  <2>3. \A o : o \in Made' <=> o \in Made
    BY <1>4, <1>5, <2>1, <2>2 DEF Made
  <2> QED BY <2>3 DEF Made
<1>12. Accounted'
  <2>1. ASSUME NEW f \in [Things -> Nat]
        PROVE  Weight(wanted', f) = Sum([o \in DOMAIN object' |-> f[object'[o]]], Made')
                                      + Sum([j \in Kinds |-> Weight(painter'[j].todo, f)], Kinds)
    <3> DEFINE g == [o \in DOMAIN object |-> f[object[o]]]
               h == [o \in DOMAIN object' |-> f[object'[o]]]
    <3>1. [j \in Kinds |-> Weight(painter'[j].todo, f)] = [j \in Kinds |-> Weight(painter[j].todo, f)]
      BY <1>7
    <3>2. \A o \in Made : h[o] = g[o]
      BY <1>4 DEF Made
    <3>3. IsFiniteSet(Made)
      BY <1>1, SumsCount
    <3>4. Weight(wanted, f) = Sum(g, Made) + Sum([j \in Kinds |-> Weight(painter[j].todo, f)], Kinds)
      BY <1>1 DEF Accounted
    <3> HIDE DEF g, h
    <3>5. Sum(h, Made) = Sum(g, Made)
      BY <3>2, <3>3, SumSame
    <3>6. Weight(wanted', f) = Sum(h, Made') + Sum([j \in Kinds |-> Weight(painter'[j].todo, f)], Kinds)
      BY <1>2, <1>11, <3>1, <3>4, <3>5
    <3> QED BY <3>6 DEF h
  <2> QED BY <2>1 DEF Accounted
<1>13. Reckoned' /\ FaithfulPicture'
  BY <1>1, <1>2, <1>12 DEF Reckoned, FaithfulPicture
<1> QED BY <1>4, <1>8, <1>9, <1>10, <1>13 DEF DrawingInv

LEMMA SetsKeeps ==
  ASSUME DrawingInv, NEW k \in Kinds, PaintSets(k)
  PROVE  DrawingInv'
<1> DEFINE N == painter[k].holds
<1>1. PoolTyped /\ PaintersTyped /\ PaintersSound /\ painting = "late"
  BY DEF DrawingInv, PaintersSound, PaintSets, Resting
<1>2. Accounted
  BY <1>1 DEF DrawingInv, Reckoned
<1>3. /\ N # NoObject /\ N \in Taken(taken) /\ painter[k].todo # <<>> /\ N \in DOMAIN object
      /\ object' = [object EXCEPT ![N] = Head(painter[k].todo)]
      /\ painter' = [painter EXCEPT ![k] = [todo |-> Tail(@.todo), holds |-> NoObject]]
      /\ UNCHANGED <<world, pool, taken, painting, lists, activeList, wanted, drawings>>
  BY <1>1, TakenIs DEF PaintSets, PaintersSound
<1> HIDE DEF N
<1>4. /\ painter \in [Kinds -> [todo : Seq(Things), holds : Nat]] /\ DOMAIN painter = Kinds
      /\ \A j \in Kinds : painter[j].todo \in Seq(Things) /\ painter[j].holds \in Nat
  BY <1>1 DEF PaintersTyped
<1>5. \A j \in Kinds : painter'[j] = IF j = k THEN [todo |-> Tail(painter[k].todo), holds |-> NoObject]
                                              ELSE painter[j]
  BY <1>3, <1>4
<1>6. Head(painter[k].todo) \in Things /\ Tail(painter[k].todo) \in Seq(Things)
  BY <1>3, <1>4, HeadTailProperties
<1>7. FrameTyped'
  BY <1>3 DEF DrawingInv, FrameTyped, WorldTyped, Component
<1>8. PoolTyped'
  <2>1. object' \in [1..Len(pool) -> Things]
    BY <1>1, <1>3, <1>6 DEF PoolTyped
  <2> QED BY <1>1, <1>3, <2>1 DEF PoolTyped, Once, ToSet
<1>9. PaintersTyped'
  <2>1. [todo |-> Tail(painter[k].todo), holds |-> NoObject] \in [todo : Seq(Things), holds : Nat]
    BY <1>6 DEF NoObject
  <2> QED BY <1>3, <1>4, <2>1 DEF PaintersTyped
<1>10. PaintersSound'
  <2>0. Taken(taken)' = Taken(taken)
    BY <1>3 DEF Taken
  <2>1. ASSUME NEW j \in Kinds, painter'[j].holds # NoObject
        PROVE  painter'[j].holds \in Taken(taken)' /\ painter'[j].todo # <<>>
    BY <1>1, <1>5, <2>0, <2>1 DEF PaintersSound
  <2>2. ASSUME NEW i \in Kinds, NEW j \in Kinds, painter'[i].holds = painter'[j].holds, painter'[i].holds # NoObject
        PROVE  i = j
    BY <1>1, <1>5, <2>2 DEF PaintersSound
  <2>3. painting' = "late"
    BY <1>1, <1>3
  <2> QED BY <2>1, <2>2, <2>3 DEF PaintersSound
<1>11. Made' = Made \cup {N} /\ N \notin Made
  <2>0. Taken(taken)' = Taken(taken) /\ NoObject \notin Taken(taken)
    BY <1>1, <1>3, TakenIs DEF Taken
  <2>1. \A o : o \in Held' <=> (o = NoObject \/ \E j \in Kinds : j # k /\ o = painter[j].holds)
    BY <1>5 DEF Held
  <2>2. \A o : o \in Held <=> (o = N \/ \E j \in Kinds : j # k /\ o = painter[j].holds)
    BY DEF Held, N
  <2>3. \A j \in Kinds : j # k => painter[j].holds # N
    BY <1>1, <1>3 DEF PaintersSound, N
  <2>4. \A o : o \in Made' <=> o \in Made \/ o = N
    BY <1>3, <2>0, <2>1, <2>2, <2>3 DEF Made
  <2>5. N \notin Made
    BY <2>2 DEF Made
  <2> QED BY <2>4, <2>5
<1>12. Accounted'
  <2>1. ASSUME NEW f \in [Things -> Nat]
        PROVE  Weight(wanted', f) = Sum([o \in DOMAIN object' |-> f[object'[o]]], Made')
                                      + Sum([j \in Kinds |-> Weight(painter'[j].todo, f)], Kinds)
    <3> DEFINE g == [o \in DOMAIN object |-> f[object[o]]]
               h == [o \in DOMAIN object' |-> f[object'[o]]]
               p == [j \in Kinds |-> Weight(painter[j].todo, f)]
               q == [j \in Kinds |-> Weight(painter'[j].todo, f)]
               x == f[Head(painter[k].todo)]
    <3>1. IsFiniteSet(Made) /\ Made \subseteq DOMAIN object
      BY <1>1, SumsCount
    <3>2. Counting(h, DOMAIN object') /\ DOMAIN object' = DOMAIN object /\ Counting(q, Kinds)
      <4>1. Counting(h, DOMAIN object') /\ Counting(q, Kinds)
        <5>1. \A o \in DOMAIN object' : f[object'[o]] \in Nat
          BY <1>8 DEF PoolTyped
        <5>2. \A j \in Kinds : Weight(painter'[j].todo, f) \in Nat
          BY <1>9, WeightCounts DEF PaintersTyped
        <5> QED BY <5>1, <5>2 DEF Counting
      <4> QED BY <1>3, <4>1
    <3>3. Counting(p, Kinds)
      BY <1>1, SumsCount
    <3>4. Weight(wanted, f) = Sum(g, Made) + Sum(p, Kinds)
      BY <1>2 DEF Accounted
    <3>5. h[N] = x /\ \A o \in Made : h[o] = g[o]
      BY <1>3, <1>11, <3>1
    <3>6. p[k] = x + q[k] /\ \A j \in Kinds \ {k} : p[j] = q[j]
      <4>1. Weight(painter[k].todo, f) = x + Weight(Tail(painter[k].todo), f)
        BY <1>3, <1>4, WeightTail
      <4>2. painter'[k].todo = Tail(painter[k].todo) /\ \A j \in Kinds \ {k} : painter'[j] = painter[j]
        <5> HIDE DEF p, q, x, g, h
        <5>1. painter'[k] = [todo |-> Tail(painter[k].todo), holds |-> NoObject]
          BY <1>5
        <5>2. \A j \in Kinds \ {k} : painter'[j] = painter[j]
          BY <1>5
        <5> QED BY <5>1, <5>2
      <4>3. q[k] = Weight(Tail(painter[k].todo), f) /\ p[k] = Weight(painter[k].todo, f)
        BY <4>2
      <4>4. \A j \in Kinds \ {k} : p[j] = q[j]
        BY <4>2
      <4> HIDE DEF p, q, x
      <4> QED BY <4>1, <4>3, <4>4
    <3> HIDE DEF g, h, p, q, x
    <3>7. Sum(h, Made') = x + Sum(h, Made) /\ Sum(h, Made) \in Nat /\ x \in Nat
      <4>1. Counting(h, Made \cup {N})
        BY <1>3, <3>1, <3>2 DEF Counting
      <4> QED BY <1>11, <3>1, <3>5, <4>1, SumAdded
    <3>8. Sum(h, Made) = Sum(g, Made)
      BY <3>1, <3>5, SumSame
    <3>9. /\ Sum(p, Kinds) = p[k] + Sum(p, Kinds \ {k}) /\ Sum(p, Kinds \ {k}) \in Nat
          /\ Sum(q, Kinds) = q[k] + Sum(q, Kinds \ {k}) /\ q[k] \in Nat
      <4>1. q[k] \in Nat
        BY <3>2 DEF Counting
      <4> QED BY <3>2, <3>3, <4>1, KindsFinite, SumWithout
    <3>10. Sum(p, Kinds \ {k}) = Sum(q, Kinds \ {k})
      <4>1. IsFiniteSet(Kinds \ {k})
        BY KindsFinite, FS_Subset
      <4> QED BY <3>6, <4>1, SumSame
    <3>11. Weight(wanted', f) = Sum(h, Made') + Sum(q, Kinds)
      BY <1>3, <3>4, <3>6, <3>7, <3>8, <3>9, <3>10
    <3> QED BY <3>11 DEF h, q
  <2> QED BY <2>1 DEF Accounted
<1>13. Reckoned' /\ FaithfulPicture'
  BY <1>1, <1>3, <1>12 DEF Reckoned, FaithfulPicture
<1> QED BY <1>7, <1>8, <1>9, <1>10, <1>13 DEF DrawingInv

LEMMA OverlayKeeps ==
  ASSUME DrawingInv, NEW thing \in Overlays, Overlay(thing)
  PROVE  DrawingInv'
<1> DEFINE N == NextObject
<1>1. PoolTyped /\ PaintersTyped /\ PaintersSound /\ Accounted /\ painting # "late" /\ wanted \in Seq(Things)
  BY DEF DrawingInv, FrameTyped, Reckoned, Overlay
<1>2. /\ painting' \in {"console", "ready"} /\ Requested(thing) /\ wanted' = Append(wanted, thing)
      /\ UNCHANGED <<world, painter, lists, activeList, drawings>>
  BY DEF Overlay
<1>3. thing \in Things
  BY DrawingAssumption
<1>4. /\ PoolTyped' /\ N \in DOMAIN object' /\ object'[N] = thing
      /\ N \notin Taken(taken) /\ Taken(taken)' = Taken(taken) \cup {N}
      /\ \A o \in Taken(taken) : o \in DOMAIN object /\ o \in DOMAIN object' /\ object'[o] = object[o]
  BY <1>1, <1>2, <1>3, RequestedIs
<1> HIDE DEF N
<1>5. FrameTyped'
  <2>1. wanted' \in Seq(Things)
    BY <1>1, <1>2, <1>3
  <2> QED BY <1>2, <2>1 DEF DrawingInv, FrameTyped, WorldTyped, Component
<1>6. PaintersTyped'
  BY <1>1, <1>2 DEF PaintersTyped
<1>7. PaintersSound' /\ painting' # "late"
  <2>1. \A k \in Kinds : painter[k] = Resting
    BY <1>1 DEF PaintersSound
  <2>2. \A k \in Kinds : painter'[k] = Resting /\ painter'[k].holds = NoObject
    BY <1>2, <2>1 DEF Resting
  <2> QED BY <1>2, <2>2 DEF PaintersSound
<1>8. Made = Taken(taken) /\ Made' = Taken(taken)' /\ Held' = Held
  <2>1. Held = {NoObject} /\ Made = Taken(taken)
    BY <1>1, RestingPainters
  <2>2. Held' = Held
    BY <1>2 DEF Held
  <2>3. NoObject \notin Taken(taken)'
    <3>1. N # NoObject
      <4>1. DOMAIN object' = 1..Len(pool')
        BY <1>4 DEF PoolTyped
      <4> QED BY <1>4, <4>1 DEF NoObject
    <3> QED BY <1>1, <1>4, <3>1, TakenIs
  <2> QED BY <2>1, <2>2, <2>3 DEF Made
<1>9. Accounted'
  <2>1. ASSUME NEW f \in [Things -> Nat]
        PROVE  Weight(wanted', f) = Sum([o \in DOMAIN object' |-> f[object'[o]]], Made')
                                      + Sum([k \in Kinds |-> Weight(painter'[k].todo, f)], Kinds)
    <3> DEFINE g == [o \in DOMAIN object |-> f[object[o]]]
               h == [o \in DOMAIN object' |-> f[object'[o]]]
               p == [k \in Kinds |-> Weight(painter[k].todo, f)]
    <3>1. IsFiniteSet(Made) /\ Counting(g, DOMAIN object) /\ Counting(p, Kinds) /\ Made \subseteq DOMAIN object
      BY <1>1, SumsCount
    <3>2. Weight(wanted, f) = Sum(g, Made) + Sum(p, Kinds)
      BY <1>1 DEF Accounted
    <3>3. [k \in Kinds |-> Weight(painter'[k].todo, f)] = p
      BY <1>2
    <3>4. Weight(wanted', f) = Weight(wanted, f) + f[thing]
      BY <1>1, <1>2, <1>3, WeightAppended
    <3>5. h[N] = f[thing] /\ \A o \in Made : h[o] = g[o]
      BY <1>4, <1>8
    <3>6. Counting(h, Made \cup {N})
      <4>1. \A o \in DOMAIN object' : f[object'[o]] \in Nat
        BY <1>4 DEF PoolTyped
      <4> QED BY <1>4, <1>8, <4>1 DEF Counting
    <3> HIDE DEF g, h, p
    <3>7. Sum(h, Made) \in Nat /\ f[thing] \in Nat /\ Sum(h, Made') = f[thing] + Sum(h, Made)
      <4>1. Made' = Made \cup {N} /\ N \notin Made
        BY <1>4, <1>8
      <4> QED BY <3>1, <3>5, <3>6, <4>1, SumAdded
    <3>8. Sum(h, Made) = Sum(g, Made)
      BY <3>1, <3>5, SumSame
    <3>9. Sum(p, Kinds) \in Nat
      BY <3>1, KindsFinite, SumCounts DEF Counting
    <3>10. Weight(wanted', f) = Sum(h, Made') + Sum(p, Kinds)
      BY <3>2, <3>4, <3>7, <3>8, <3>9
    <3> QED BY <3>3, <3>10 DEF h
  <2> QED BY <2>1 DEF Accounted
<1>10. Reckoned' /\ FaithfulPicture'
  BY <1>2, <1>9 DEF Reckoned, FaithfulPicture
<1> QED BY <1>4, <1>5, <1>6, <1>7, <1>10 DEF DrawingInv

LEMMA NothingLeft ==
  ASSUME PoolTyped, PaintersTyped, PaintersSound, Accounted, painting # "late"
  PROVE  Delivered
<1>1. ASSUME NEW f \in [Things -> Nat]
      PROVE  Weight(wanted, f) = Sum([o \in DOMAIN object |-> f[object[o]]], Taken(taken))
  <2> DEFINE g == [o \in DOMAIN object |-> f[object[o]]]
             p == [k \in Kinds |-> Weight(painter[k].todo, f)]
  <2>1. IsFiniteSet(Made) /\ Counting(g, DOMAIN object) /\ Made \subseteq DOMAIN object
    BY SumsCount
  <2>2. Made = Taken(taken) /\ \A k \in Kinds : painter[k].todo = <<>>
    BY RestingPainters
  <2>3. \A k \in Kinds : p[k] = 0
    BY <2>2, WeightEmpty
  <2>4. Weight(wanted, f) = Sum(g, Made) + Sum(p, Kinds)
    BY DEF Accounted
  <2> HIDE DEF g, p
  <2>5. Sum(p, Kinds) = 0
    <3>1. Sum(p, Kinds) = 0 * Cardinality(Kinds)
      BY <2>3, KindsFinite, SumConstant
    <3> QED BY <3>1, KindsFinite, FS_CardinalityType
  <2>6. Sum(g, Made) \in Nat
    <3>1. \A o \in Made : g[o] \in Nat
      BY <2>1 DEF Counting
    <3> QED BY <2>1, <3>1, SumCounts
  <2>7. Weight(wanted, f) = Sum(g, Taken(taken))
    BY <2>2, <2>4, <2>5, <2>6
  <2> QED BY <2>7 DEF g
<1> QED BY <1>1 DEF Delivered

LEMMA FillKeeps ==
  ASSUME DrawingInv, Fill
  PROVE  DrawingInv'
<1>1. /\ PoolTyped /\ PaintersTyped /\ PaintersSound /\ Accounted /\ painting # "late"
      /\ wanted \in Seq(Things) /\ DOMAIN lists = BOOLEAN /\ activeList \in BOOLEAN
  BY DEF DrawingInv, FrameTyped, Reckoned, Fill
<1>2. PICK s \in Sortings : /\ pool' = s \o SubSeq(pool, taken + 1, Len(pool))
                            /\ lists' = [lists EXCEPT ![ListToFill] = FilledList(s)]
  BY DEF Fill
<1>3. /\ activeList' = ~activeList /\ painting' = "idle" /\ taken' = taken /\ object' = object
      /\ painter' = painter /\ wanted' = wanted /\ drawings' = drawings
      /\ world' = [d \in Drawables |-> IF world[d] # Absent /\ world[d].destroyed THEN Absent ELSE world[d]]
  BY DEF Fill
<1>4. Sorting(s, taken)
  BY <1>1, <1>2, SortingsAre
<1>5. FrameTyped'
  <2>1. DOMAIN world' = Drawables
    BY <1>3
  <2>2. WorldTyped'
    BY <1>3 DEF DrawingInv, FrameTyped, WorldTyped, Component
  <2>3. DOMAIN lists' = BOOLEAN /\ activeList' \in BOOLEAN
    BY <1>1, <1>2, <1>3
  <2> QED BY <1>3, <2>1, <2>2, <2>3 DEF DrawingInv, FrameTyped
<1>6. PoolTyped'
  <2>1. pool' = Resorted(s)
    BY <1>2 DEF Resorted
  <2>2. /\ pool' \in Seq(1..Len(pool)) /\ Len(pool') = Len(pool) /\ Once(pool') /\ ToSet(pool') = 1..Len(pool)
    BY <1>1, <1>4, <2>1, ResortedIs
  <2> QED BY <1>1, <1>3, <2>2 DEF PoolTyped, Once, ToSet
<1>7. PaintersTyped' /\ PaintersSound'
  <2>1. \A k \in Kinds : painter[k] = Resting
    BY <1>1 DEF PaintersSound
  <2>2. \A k \in Kinds : painter'[k] = Resting /\ painter'[k].holds = NoObject
    BY <1>3, <2>1 DEF Resting
  <2> QED BY <1>1, <1>3, <2>2 DEF PaintersTyped, PaintersSound
<1>8. FaithfulPicture'
  <2>1. Delivered
    BY <1>1, NothingLeft
  <2>2. Faithful(Picture(FilledList(s)))
    BY <1>1, <1>4, <2>1, FillShows
  <2>3. lists'[activeList'] = FilledList(s)
    BY <1>1, <1>2, <1>3 DEF ListToFill
  <2>4. Picture(lists[ListShown])' = Picture(FilledList(s))
    BY <1>3, <2>3 DEF Picture, DrawnBatch, LookOf, ListShown
  <2>5. Faithful(Picture(lists[ListShown])')
    BY <2>2, <2>4
  <2> QED BY <1>3, <2>5 DEF FaithfulPicture, Faithful
<1>9. Reckoned'
  BY <1>3 DEF Reckoned
<1> QED BY <1>5, <1>6, <1>7, <1>8, <1>9 DEF DrawingInv
-----------------------------------------------------------------------------
LEMMA DrawingStarts ==
  ASSUME DrawingInit
  PROVE  DrawingInv
<1>1. Capacity \in Nat \ {0} /\ MaxDrawings \in Nat
  BY DrawingAssumption
<1>2. FrameTyped
  <2>1. PICK scene \in Scenes, orders \in [Drawables -> Orders] :
          world = [d \in Drawables |->
                    IF d \in scene THEN [visible |-> TRUE, destroyed |-> FALSE, order |-> orders[d],
                                         art |-> CHOOSE art \in Arts[d] : TRUE]
                    ELSE Absent]
    BY DEF DrawingInit
  <2>2. WorldTyped
    <3> SUFFICES ASSUME NEW d \in Drawables
                 PROVE  world[d] = Absent \/ world[d] \in Component(d)
      BY DEF WorldTyped
    <3>1. (CHOOSE art \in Arts[d] : TRUE) \in Arts[d]
      BY DrawingAssumption
    <3>2. TRUE \in BOOLEAN /\ FALSE \in BOOLEAN /\ orders[d] \in Orders
      OBVIOUS
    <3>3. [visible |-> TRUE, destroyed |-> FALSE, order |-> orders[d],
           art |-> CHOOSE art \in Arts[d] : TRUE] \in Component(d)
      <4>1. \A v, e \in BOOLEAN : [visible |-> v, destroyed |-> e, order |-> orders[d],
                                   art |-> CHOOSE art \in Arts[d] : TRUE] \in Component(d)
        BY <3>1 DEF Component
      <4> QED BY <3>2, <4>1
    <3> QED BY <2>1, <3>3
  <2>3. wanted \in Seq(Things) /\ drawings \in 0..MaxDrawings
    BY <1>1 DEF DrawingInit
  <2> QED BY <2>1, <2>2, <2>3 DEF FrameTyped, DrawingInit
<1>3. PoolTyped
  <2>1. pool = [i \in 1..Capacity |-> i] /\ object = [o \in 1..Capacity |-> Blank] /\ taken = 0
    BY DEF DrawingInit
  <2>2. pool \in Seq(1..Capacity) /\ DOMAIN pool = 1..Capacity
    <3>1. pool \in [1..Capacity -> 1..Capacity]
      BY <2>1
    <3> QED BY <1>1, <3>1, SeqDef
  <2>3. Len(pool) = Capacity
    BY <1>1, <2>2, LenProperties
  <2>4. \A i \in 1..Capacity : pool[i] = i
    BY <2>1
  <2>5. Once(pool) /\ ToSet(pool) = 1..Capacity
    <3>1. Once(pool)
      BY <2>3, <2>4 DEF Once
    <3> QED BY <2>2, <2>4, <3>1 DEF ToSet
  <2>6. Blank \in Things
    BY BlankIs
  <2> QED BY <1>1, <2>1, <2>2, <2>3, <2>5, <2>6 DEF PoolTyped
<1>4. PaintersTyped /\ PaintersSound
  <2>1. \A k \in Kinds : painter[k] = Resting
    BY DEF DrawingInit
  <2>2. Resting \in [todo : Seq(Things), holds : Nat] /\ Resting.holds = NoObject
    BY DEF Resting, NoObject
  <2>3. painter = [k \in Kinds |-> Resting]
    BY DEF DrawingInit
  <2>4. PaintersTyped
    BY <2>2, <2>3 DEF PaintersTyped
  <2> QED BY <2>1, <2>2, <2>4 DEF PaintersSound
<1>5. Reckoned
  BY DEF Reckoned, DrawingInit
<1>6. FaithfulPicture
  <2>1. lists[ListShown] = <<>> /\ wanted = <<>>
    <3>1. activeList \in BOOLEAN
      BY DEF DrawingInit
    <3> QED BY <3>1 DEF DrawingInit, ListShown
  <2>2. Picture(<<>>) = <<>> /\ Pieces(<<>>) = <<>>
    BY FlattenEmpty DEF Picture, Pieces
  <2>3. Faithful(<<>>)
    <3>1. [i \in DOMAIN <<>> |-> <<>>[i].piece] = <<>>
      OBVIOUS
    <3> QED BY <2>1, <2>2, <3>1 DEF Faithful
  <2> QED BY <2>1, <2>2, <2>3 DEF FaithfulPicture, Faithful
<1> QED BY <1>2, <1>3, <1>4, <1>5, <1>6 DEF DrawingInv

LEMMA DrawingKeeps ==
  ASSUME DrawingInv, [DrawingNext]_drawingVars
  PROVE  DrawingInv'
<1>1. CASE DrawingNext
  BY <1>1, BeginKeeps, ScriptKeeps, LateKeeps, EndsKeeps, RequestsKeeps, SetsKeeps, OverlayKeeps, FillKeeps
  DEF DrawingNext
<1>2. CASE UNCHANGED drawingVars
  <2>1. UNCHANGED <<world, object, pool, taken, painting, painter, lists, activeList, wanted, drawings>>
    BY <1>2 DEF drawingVars
  <2>2. FrameTyped'
    BY <2>1 DEF DrawingInv, FrameTyped, WorldTyped, Component
  <2>3. PoolTyped' /\ PaintersTyped' /\ PaintersSound'
    BY <2>1 DEF DrawingInv, PoolTyped, PaintersTyped, PaintersSound, Once, ToSet, Taken
  <2>4. Reckoned'
    <3>1. Made' = Made
      BY <2>1 DEF Made, Taken, Held
    <3> QED BY <2>1, <3>1 DEF DrawingInv, Reckoned, Accounted
  <2>5. FaithfulPicture'
    <3>1. Picture(lists[ListShown])' = Picture(lists[ListShown])
      BY <2>1 DEF Picture, DrawnBatch, LookOf, ListShown
    <3> QED BY <2>1, <3>1 DEF DrawingInv, FaithfulPicture
  <2> QED BY <2>2, <2>3, <2>4, <2>5 DEF DrawingInv
<1> QED BY <1>1, <1>2

(* The invariant of the frame's picture, whatever the components, the GUI   *)
(* and the console draw and in whatever order the systems take objects.     *)
THEOREM DrawingInvariance == DrawingSpec => []DrawingInv
<1>1. DrawingInit => DrawingInv
  BY DrawingStarts
<1>2. DrawingInv /\ [DrawingNext]_drawingVars => DrawingInv'
  BY DrawingKeeps
<1> QED BY <1>1, <1>2, PTL DEF DrawingSpec

(* The pool, the painters and the lists stay of their types. *)
THEOREM DrawingTypeCorrect == DrawingSpec => []DrawingTypeOK
<1>1. DrawingInv => DrawingTypeOK
  <2> SUFFICES ASSUME DrawingInv
               PROVE  DrawingTypeOK
    OBVIOUS
  <2>1. DOMAIN object = 1..Len(pool)
    BY DEF DrawingInv, PoolTyped
  <2>2. \A k \in Kinds : painter[k].holds \in {NoObject} \cup DOMAIN object
    BY TakenIs DEF DrawingInv, PaintersSound
  <2>3. \A d \in Drawables : world[d] = Absent \/ world[d] \in Component(d)
    BY DEF DrawingInv, FrameTyped, WorldTyped
  <2> QED BY <2>1, <2>2, <2>3 DEF DrawingInv, FrameTyped, PoolTyped, DrawingTypeOK
<1> QED BY <1>1, DrawingInvariance, PTL

(* Whenever the platform may draw, the picture is made of the pieces that   *)
(* were added for the frame, each in its own look, the lower before the     *)
(* higher.                                                                  *)
THEOREM PicturesAreFaithful == DrawingSpec => []FaithfulPicture
<1>1. DrawingInv => FaithfulPicture
  BY DEF DrawingInv
<1> QED BY <1>1, DrawingInvariance, PTL
-----------------------------------------------------------------------------
(* The six together.                                                        *)

(* What is checked together is six components apart: a behaviour of the     *)
(* scene is a behaviour of each of them, and what is proved of any of them  *)
(* holds of the scene.                                                      *)
THEOREM SceneIsSix ==
  SceneSpec => TilesSpec /\ DrawingSpec /\ BatchesSpec /\ BoundsSpec /\ GuiSpec /\ AssetsSpec
<1>1. SceneInit => TilesInit /\ DrawingInit /\ BatchesInit /\ BoundsInit /\ GuiInit /\ AssetsInit
  BY DEF SceneInit
<1>2. ASSUME [SceneNext]_sceneVars
      PROVE  /\ [TilesNext]_tilesVars /\ [DrawingNext]_drawingVars /\ [BatchesNext]_batchesVars
             /\ [BoundsNext]_boundsVars /\ [GuiNext]_guiVars /\ [AssetsNext]_assetsVars
  BY <1>2 DEF SceneNext, sceneVars
<1> QED BY <1>1, <1>2, PTL
        DEF SceneSpec, TilesSpec, DrawingSpec, BatchesSpec, BoundsSpec, GuiSpec, AssetsSpec

(* In a behaviour of any of the six, all state is of its types.             *)
THEOREM SceneTypeCorrect == SceneSpec => []SceneTypeOK
<1>1. TilesTypeOK /\ DrawingTypeOK /\ BatchesTypeOK /\ BoundsTypeOK /\ GuiTypeOK /\ AssetsTypeOK => SceneTypeOK
  BY DEF SceneTypeOK
<1> QED BY <1>1, SceneIsSix, TilesTypeCorrect, DrawingTypeCorrect, BatchesTypeCorrect, BoundsTypeCorrect,
           GuiTypeCorrect, AssetsTypeCorrect, PTL
=============================================================================
