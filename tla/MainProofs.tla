----------------------------- MODULE MainProofs -----------------------------
(***************************************************************************)
(* Proofs about components of the main thread, for any values of their     *)
(* constants: PubSub, Collisions, Values, Input, Console, PolyLines,       *)
(* Tilesets, Paths.                                                        *)
(***************************************************************************)
EXTENDS PubSub, Collisions, Values, Input, Console, PolyLines, Tilesets, Paths, Facts, FiniteSetTheorems, SequenceTheorems, WellFoundedInduction, TLAPS

------------------------------------------------------------------------------
(* What unsubscribing takes.                                                *)

(* A subscription is of an entity and a function.                           *)
LEMMA SubsType ==
  ASSUME TypeOK, NEW s \in 1..Len(subs)
  PROVE  /\ Len(subs) \in Nat
         /\ subs[s] \in [entity : Entities, function : Functions]
         /\ subs[s].entity \in Entities /\ subs[s].function \in Functions
<1> DEFINE R == [entity : Entities, function : Functions]
<1>1. subs \in Seq(R)
  BY DEF TypeOK
<1> HIDE DEF R
<1>2. Len(subs) \in Nat /\ subs[s] \in R
  BY <1>1
<1> USE DEF R
<1> QED BY <1>2

(* Subscriptions are finitely many; so are those of one function.           *)
LEMMA MatchingFinite ==
  ASSUME TypeOK, NEW e, NEW t \in Topics, NEW f
  PROVE  /\ Matching(e, t, f) \subseteq topics[t]
         /\ Matching(e, t, f) \in SUBSET Nat
         /\ IsFiniteSet(Matching(e, t, f))
<1>1. Matching(e, t, f) \subseteq topics[t]
  BY DEF Matching
<1>2. Len(subs) \in Nat /\ topics[t] \subseteq 1..Len(subs)
  BY DEF TypeOK
<1>3. IsFiniteSet(1..Len(subs))
  <2>1. 1 \in Int /\ Len(subs) \in Int
    BY <1>2
  <2> QED BY <2>1, FS_Interval
<1>4. Matching(e, t, f) \in SUBSET (1..Len(subs))
  BY <1>1, <1>2
<1>5. IsFiniteSet(Matching(e, t, f))
  BY <1>3, <1>4, FS_Subset
<1>6. Matching(e, t, f) \in SUBSET Nat
  BY <1>2, <1>4
<1> QED BY <1>1, <1>5, <1>6

(* One call takes the oldest match, if there is one.                        *)
LEMMA FirstIsOldest ==
  ASSUME NEW S \in SUBSET Nat, IsFiniteSet(S)
  PROVE  \/ S = {} /\ First(1, S) = {}
         \/ \E m \in S : First(1, S) = {m}
<1>1. CASE S = {}
  BY <1>1 DEF First
<1>2. CASE S # {}
  <2>1. PICK m \in S : \A r \in S : ~(<<r, m>> \in OpToRel(<, Nat))
    BY <1>2, NatLessThanWellFounded, WFMin
  <2>2. \A r \in S : ~(r < m)
    BY <2>1 DEF OpToRel
  <2>3. m \in First(1, S)
    <3>1. {r \in S : r < m} = {}
      BY <2>2
    <3> QED BY <3>1, FS_EmptySet DEF First
  <2>4. ASSUME NEW s \in First(1, S)
        PROVE  s = m
    <3> DEFINE L == {r \in S : r < s}
    <3>1. s \in S /\ Cardinality(L) < 1
      BY <2>4 DEF First
    <3>2. IsFiniteSet(L)
      BY FS_Subset
    <3>3. Cardinality(L) = 0
      BY <3>1, <3>2, FS_CardinalityType
    <3>4. L = {}
      BY <3>2, <3>3, FS_EmptySet
    <3>5. ~(m < s)
      BY <3>4
    <3> QED BY <2>2, <3>1, <3>5
  <2> QED BY <2>3, <2>4
<1> QED BY <1>1, <1>2

(* As many calls as there are matches take all of them.                     *)
LEMMA FirstAll ==
  ASSUME NEW S \in SUBSET Nat, IsFiniteSet(S)
  PROVE  First(Cardinality(S), S) = S
<1>1. ASSUME NEW s \in S
      PROVE  Cardinality({r \in S : r < s}) < Cardinality(S)
  <2> DEFINE L == {r \in S : r < s}
  <2>1. L \in SUBSET S /\ s \notin L
    OBVIOUS
  <2>2. /\ IsFiniteSet(L) /\ Cardinality(L) <= Cardinality(S)
        /\ Cardinality(S) = Cardinality(L) => S = L
    BY <2>1, FS_Subset
  <2>3. Cardinality(L) \in Nat /\ Cardinality(S) \in Nat
    BY <2>2, FS_CardinalityType
  <2> QED BY <2>1, <2>2, <2>3
<1> QED BY <1>1 DEF First

(* Deleting an entity whose record is exact takes all of its subscriptions. *)
LEMMA DeletionTakesAll ==
  ASSUME TypeOK, TrackingExact, NEW e \in Entities
  PROVE  UNION {First(tracked[e][k], Matching(e, k[1], k[2])) : k \in Keys} =
         {s \in 1..Len(subs) :
            (\E t \in Topics : s \in topics[t]) /\ subs[s].entity = e}
<1>1. ASSUME NEW k \in Keys
      PROVE  First(tracked[e][k], Matching(e, k[1], k[2])) = Matching(e, k[1], k[2])
  <2>1. k[1] \in Topics /\ k[2] \in Functions /\ k = <<k[1], k[2]>>
    BY DEF Keys
  <2>2. tracked[e][k] = Cardinality(Matching(e, k[1], k[2]))
    BY <2>1 DEF TrackingExact
  <2>3. /\ Matching(e, k[1], k[2]) \in SUBSET Nat
        /\ IsFiniteSet(Matching(e, k[1], k[2]))
    BY <2>1, MatchingFinite
  <2> QED BY <2>2, <2>3, FirstAll
<1>2. ASSUME NEW k \in Keys
      PROVE  Matching(e, k[1], k[2]) \subseteq
             {s \in 1..Len(subs) :
                (\E t \in Topics : s \in topics[t]) /\ subs[s].entity = e}
  BY DEF Keys, Matching, TypeOK
<1>3. ASSUME NEW s \in 1..Len(subs), NEW t \in Topics,
             s \in topics[t], subs[s].entity = e
      PROVE  \E k \in Keys : s \in Matching(e, k[1], k[2])
  <2> DEFINE k == <<t, subs[s].function>>
  <2>1. subs[s].function \in Functions
    BY <1>3, SubsType
  <2>2. k \in Keys /\ k[1] = t /\ k[2] = subs[s].function
    BY <2>1 DEF Keys
  <2>3. s \in Matching(e, t, subs[s].function)
    BY <1>3 DEF Matching
  <2> QED BY <2>2, <2>3
<1> QED BY <1>1, <1>2, <1>3

------------------------------------------------------------------------------
(* The inductive invariant.                                                 *)

(* Nothing is subscribed or published at first.                             *)
LEMMA PubSubInit == Init => PubSubInv
<1> SUFFICES ASSUME Init
             PROVE  PubSubInv
  OBVIOUS
<1>1. TypeOK
  <2>1. subs \in Seq([entity : Entities, function : Functions]) /\ Len(subs) = 0
    BY DEF Init
  <2>2. tracked \in [Entities -> [Keys -> Nat]] /\ topics \in [Topics -> SUBSET (1..Len(subs))]
    BY DEF Init
  <2>3. /\ life \in [Entities -> {"active", "inactive", "destroyed", "freed"}]
        /\ depth \in 0..MaxDepth /\ cut \in BOOLEAN /\ freed \in SUBSET (1..Len(subs))
        /\ fault \in {"none", "subscription", "function", "entity"}
    <3>1. life \in [Entities -> {"active", "inactive", "destroyed", "freed"}]
      BY DEF Init
    <3>2. freed \in SUBSET (1..Len(subs)) /\ cut \in BOOLEAN
      BY DEF Init
    <3>3. depth \in 0..MaxDepth
      BY PubSubAssumption DEF Init
    <3>4. fault \in {"none", "subscription", "function", "entity"}
      BY DEF Init
    <3> QED BY <3>1, <3>2, <3>3, <3>4
  <2>4. /\ name \in [Depths -> Topics \cup {NoTopic}]
        /\ rest \in [Depths -> SUBSET (1..Len(subs))]
        /\ calling \in [Depths -> 0..Len(subs)] /\ since \in [Depths -> 0..Len(subs)]
    BY <2>1 DEF Init
  <2> QED BY <2>1, <2>2, <2>3, <2>4, PubSubAssumption DEF TypeOK
<1>2. TrackingExact
  <2>1. ASSUME NEW e \in Entities, NEW t \in Topics, NEW f \in Functions
        PROVE  tracked[e][<<t, f>>] = Cardinality(Matching(e, t, f))
    <3>1. Matching(e, t, f) = {}
      BY DEF Init, Matching
    <3>2. tracked[e][<<t, f>>] = 0
      BY DEF Init, Keys
    <3> QED BY <3>1, <3>2, FS_EmptySet
  <2> QED BY <2>1 DEF TrackingExact
<1>3. NoDanglingSubscriber /\ ListedOrFreed
  <2>1. 1..Len(subs) = {}
    BY DEF Init
  <2> QED BY <2>1 DEF Init, NoDanglingSubscriber, ListedOrFreed
<1>4. PublishOK /\ UncutAlive /\ SafeUnlessCut
  BY PubSubAssumption DEF Init, PublishOK, UncutAlive, SafeUnlessCut, Depths
<1> QED BY <1>1, <1>2, <1>3, <1>4 DEF PubSubInv

(* Subscribing adds one number and leaves the others what they were.        *)
LEMMA Subscribed ==
  ASSUME TypeOK, NEW e \in Entities, NEW t \in Topics, NEW f \in Functions,
         Subscribe(e, t, f)
  PROVE  /\ subs' \in Seq([entity : Entities, function : Functions])
         /\ Len(subs) \in Nat /\ Len(subs') = Len(subs) + 1
         /\ \A s \in 1..Len(subs) : subs'[s] = subs[s]
         /\ subs'[Len(subs) + 1] = [entity |-> e, function |-> f]
<1> DEFINE R == [entity : Entities, function : Functions]
           r == [entity |-> e, function |-> f]
<1>1. subs \in Seq(R) /\ r \in R /\ subs' = Append(subs, r)
  BY DEF TypeOK, Subscribe
<1> HIDE DEF R, r
<1>2. /\ subs' \in Seq(R)
      /\ Len(subs) \in Nat /\ Len(subs') = Len(subs) + 1
      /\ \A s \in 1..Len(subs) : subs'[s] = subs[s]
      /\ subs'[Len(subs) + 1] = r
  BY <1>1
<1> QED BY <1>2 DEF R, r

(* What a call takes out of an array is the entity's, and is listed there.  *)
LEMMA Unsubscribed ==
  ASSUME TypeOK, NEW e \in Entities, NEW t \in Topics, NEW f \in Functions,
         Unsubscribe(e, t, f)
  PROVE  \E gone \in SUBSET Matching(e, t, f) :
           /\ gone = First(1, Matching(e, t, f))
           /\ gone \subseteq topics[t]
           /\ topics' = [topics EXCEPT ![t] = @ \ gone]
           /\ freed' = freed \cup gone
           /\ cut' = (cut \/ (depth > 0 /\ gone # {}))
<1>1. First(1, Matching(e, t, f)) \in SUBSET Matching(e, t, f)
  BY DEF First
<1>2. Matching(e, t, f) \subseteq topics[t]
  BY DEF Matching
<1> QED BY <1>1, <1>2 DEF Unsubscribe, Kept

(* Deleting an entity takes its subscriptions out of all arrays.            *)
LEMMA Deleted ==
  ASSUME TypeOK, TrackingExact, NEW e \in Entities, DeleteEntity(e)
  PROVE  \E gone \in SUBSET (1..Len(subs)) :
           /\ gone = {s \in 1..Len(subs) :
                        (\E t \in Topics : s \in topics[t]) /\ subs[s].entity = e}
           /\ topics' = [t \in Topics |-> topics[t] \ gone]
           /\ freed' = freed \cup gone
BY DeletionTakesAll DEF DeleteEntity, Kept

(* No step takes a variable out of its type.                                *)
LEMMA PubSubTypeStep == PubSubInv /\ [Next]_vars => TypeOK'
<1> SUFFICES ASSUME TypeOK, TrackingExact, [Next]_vars
             PROVE  TypeOK'
  BY DEF PubSubInv
<1> DEFINE R == [entity : Entities, function : Functions]
<1>0. Len(subs) \in Nat /\ subs \in Seq(R)
  BY DEF TypeOK
<1>1. ASSUME NEW e \in Entities, NEW t \in Topics, NEW f \in Functions,
             Subscribe(e, t, f)
      PROVE  TypeOK'
  <2>1. subs' \in Seq(R) /\ Len(subs') = Len(subs) + 1 /\ Len(subs') <= MaxSubs
    BY <1>0, <1>1, Subscribed, PubSubAssumption DEF Subscribe
  <2>2. 1..Len(subs) \subseteq 1..Len(subs') /\ 0..Len(subs) \subseteq 0..Len(subs')
    BY <1>0, <2>1
  <2>3. topics' \in [Topics -> SUBSET (1..Len(subs'))]
    BY <1>0, <1>1, <2>1, <2>2 DEF TypeOK, Subscribe
  <2>4. tracked' \in [Entities -> [Keys -> Nat]]
    <3>1. tracked \in [Entities -> [Keys -> Nat]] /\ <<t, f>> \in Keys
      BY DEF TypeOK, Keys
    <3>2. tracked[e][<<t, f>>] + 1 \in Nat
      BY <3>1
    <3>3. tracked' = [tracked EXCEPT ![e][<<t, f>>] = @ + 1]
      BY <1>1 DEF Subscribe, Tracked
    <3> QED BY <3>1, <3>2, <3>3
  <2>5. rest' \in [Depths -> SUBSET (1..Len(subs'))]
    BY <1>1, <2>2 DEF TypeOK, Subscribe, publishVars
  <2>6. calling' \in [Depths -> 0..Len(subs')] /\ since' \in [Depths -> 0..Len(subs')]
    BY <1>1, <2>2 DEF TypeOK, Subscribe, publishVars
  <2>7. freed' \in SUBSET (1..Len(subs'))
    BY <1>1, <2>2 DEF TypeOK, Subscribe
  <2> QED BY <1>1, <2>1, <2>3, <2>4, <2>5, <2>6, <2>7 DEF TypeOK, Subscribe, publishVars
<1>2. ASSUME NEW e \in Entities, NEW t \in Topics, NEW f \in Functions,
             Unsubscribe(e, t, f)
      PROVE  TypeOK'
  <2>1. topics' \in [Topics -> SUBSET (1..Len(subs))] /\ freed' \in SUBSET (1..Len(subs))
    <3>1. /\ topics \in [Topics -> SUBSET (1..Len(subs))]
          /\ freed \in SUBSET (1..Len(subs))
      BY DEF TypeOK
    <3>2. PICK gone \in SUBSET Matching(e, t, f) :
            /\ gone \subseteq topics[t]
            /\ topics' = [topics EXCEPT ![t] = @ \ gone]
            /\ freed' = freed \cup gone
      BY <1>2, Unsubscribed
    <3> QED BY <3>1, <3>2
  <2>2. tracked' \in [Entities -> [Keys -> Nat]]
    <3>1. tracked \in [Entities -> [Keys -> Nat]] /\ <<t, f>> \in Keys
      BY DEF TypeOK, Keys
    <3>2. Untracked(tracked[e][<<t, f>>]) \in Nat
      BY <3>1 DEF Untracked
    <3>3. tracked' = [tracked EXCEPT ![e][<<t, f>>] = Untracked(@)]
      BY <1>2 DEF Unsubscribe
    <3> HIDE DEF Untracked
    <3> QED BY <3>1, <3>2, <3>3
  <2>3. cut' \in BOOLEAN
    BY <1>2, Unsubscribed
  <2> QED BY <1>2, <2>1, <2>2, <2>3 DEF TypeOK, Unsubscribe, publishVars
<1>3. ASSUME NEW t \in Topics, Publish(t)
      PROVE  TypeOK'
  <2>1. depth' \in 0..MaxDepth /\ depth + 1 \in Depths
    BY <1>3, PubSubAssumption DEF TypeOK, Publish, Depths
  <2>2. Len(subs) \in 0..Len(subs)
    BY <1>0
  <2>3. name' \in [Depths -> Topics \cup {NoTopic}]
    BY <1>3, <2>1 DEF TypeOK, Publish
  <2>4. rest' \in [Depths -> SUBSET (1..Len(subs))]
    BY <1>3, <2>1 DEF TypeOK, Publish
  <2>5. since' \in [Depths -> 0..Len(subs)]
    BY <1>3, <2>1, <2>2 DEF TypeOK, Publish
  <2> QED BY <1>3, <2>1, <2>3, <2>4, <2>5 DEF TypeOK, Publish, storeVars
<1>4. ASSUME NEW s \in 1..Len(subs), Visit(s)
      PROVE  TypeOK'
  <2>1. depth \in Depths
    BY <1>4, PubSubAssumption DEF TypeOK, Visit, Visiting, Depths
  <2>2. calling' \in [Depths -> 0..Len(subs)] /\ rest' \in [Depths -> SUBSET (1..Len(subs))]
    <3>1. calling \in [Depths -> 0..Len(subs)] /\ rest \in [Depths -> SUBSET (1..Len(subs))]
      BY DEF TypeOK
    <3>2. /\ rest' = [rest EXCEPT ![depth] = @ \ {s}]
          /\ calling' = calling \/ calling' = [calling EXCEPT ![depth] = s]
      BY <1>4 DEF Visit
    <3>3. s \in 0..Len(subs)
      BY <1>0
    <3> QED BY <2>1, <3>1, <3>2, <3>3
  <2>3. fault' \in {"none", "subscription", "function", "entity"}
    BY <1>4 DEF Visit, Reads
  <2> QED BY <1>4, <2>2, <2>3 DEF TypeOK, Visit, storeVars
<1>5. CASE NextComponent
  BY <1>5 DEF TypeOK, NextComponent, storeVars, publishVars
<1>9. CASE CallbackReturns
  <2>1. calling \in [Depths -> 0..Len(subs)] /\ 0 \in 0..Len(subs)
    BY <1>0 DEF TypeOK
  <2>2. calling' = [calling EXCEPT ![depth] = 0]
    BY <1>9 DEF CallbackReturns
  <2>3. calling' \in [Depths -> 0..Len(subs)]
    BY <2>1, <2>2
  <2> QED BY <1>9, <2>3 DEF TypeOK, CallbackReturns, storeVars
<1>10. CASE PublishEnds
  <2>1. depth' \in 0..MaxDepth
    BY <1>10, PubSubAssumption DEF TypeOK, PublishEnds, Visiting
  <2>2. since' \in [Depths -> 0..Len(subs)] /\ name' \in [Depths -> Topics \cup {NoTopic}]
    <3>1. /\ since \in [Depths -> 0..Len(subs)] /\ 0 \in 0..Len(subs)
          /\ name \in [Depths -> Topics \cup {NoTopic}]
      BY <1>0 DEF TypeOK
    <3>2. since' = [since EXCEPT ![depth] = 0] /\ name' = [name EXCEPT ![depth] = NoTopic]
      BY <1>10 DEF PublishEnds
    <3> QED BY <3>1, <3>2
  <2> QED BY <1>10, <2>1, <2>2 DEF TypeOK, PublishEnds, storeVars
<1>6. ASSUME NEW e \in Entities, SetActive(e) \/ DestroyEntity(e)
      PROVE  TypeOK'
  BY <1>6 DEF TypeOK, SetActive, DestroyEntity, storeVars, publishVars
<1>7. ASSUME NEW e \in Entities, DeleteEntity(e)
      PROVE  TypeOK'
  <2>1. topics' \in [Topics -> SUBSET (1..Len(subs))] /\ freed' \in SUBSET (1..Len(subs))
    <3>1. /\ topics \in [Topics -> SUBSET (1..Len(subs))]
          /\ freed \in SUBSET (1..Len(subs))
      BY DEF TypeOK
    <3>2. PICK gone \in SUBSET (1..Len(subs)) :
            /\ topics' = [u \in Topics |-> topics[u] \ gone]
            /\ freed' = freed \cup gone
      BY <1>7, Deleted
    <3> QED BY <3>1, <3>2
  <2>2. tracked' \in [Entities -> [Keys -> Nat]] /\ life' = [life EXCEPT ![e] = "freed"]
    BY <1>7 DEF TypeOK, DeleteEntity
  <2> QED BY <1>7, <2>1, <2>2 DEF TypeOK, DeleteEntity, publishVars
<1>8. CASE UNCHANGED vars
  BY <1>8 DEF TypeOK, vars, storeVars, publishVars
<1> QED BY <1>1, <1>2, <1>3, <1>4, <1>5, <1>6, <1>7, <1>8, <1>9, <1>10
   DEF Next

(* Subscribing a function once more makes one match more.                   *)
LEMMA SubscribeTracks ==
  ASSUME TypeOK, TrackingExact,
         NEW e \in Entities, NEW t \in Topics, NEW f \in Functions, Subscribe(e, t, f)
  PROVE  TrackingExact'
<1>1. SUFFICES ASSUME NEW x \in Entities, NEW u \in Topics, NEW g \in Functions
               PROVE  tracked'[x][<<u, g>>] = Cardinality(Matching(x, u, g)')
  BY DEF TrackingExact
<1> DEFINE M == Matching(x, u, g)
           n == Len(subs) + 1
<1>2. /\ Len(subs) \in Nat /\ subs'[n] = [entity |-> e, function |-> f]
      /\ \A s \in 1..Len(subs) : subs'[s] = subs[s]
  BY Subscribed
<1>3. /\ topics \in [Topics -> SUBSET (1..Len(subs))]
      /\ tracked \in [Entities -> [Keys -> Nat]]
      /\ <<t, f>> \in Keys /\ <<u, g>> \in Keys
  BY DEF TypeOK, Keys
<1>4. /\ topics' = [topics EXCEPT ![t] = @ \cup {n}]
      /\ tracked' = [tracked EXCEPT ![e][<<t, f>>] = @ + 1]
  BY DEF Subscribe, Tracked
<1>5. tracked[x][<<u, g>>] = Cardinality(M) /\ IsFiniteSet(M) /\ M \subseteq 1..Len(subs)
  BY <1>3, MatchingFinite DEF TrackingExact
<1>6. CASE x = e /\ u = t /\ g = f
  <2>1. Matching(x, u, g)' = M \cup {n}
    BY <1>2, <1>3, <1>4, <1>6 DEF Matching
  <2>2. n \notin M
    BY <1>2, <1>5
  <2>3. Cardinality(M \cup {n}) = Cardinality(M) + 1
    BY <1>5, <2>2, FS_AddElement
  <2>4. tracked'[x][<<u, g>>] = tracked[x][<<u, g>>] + 1
    BY <1>3, <1>4, <1>6
  <2> QED BY <1>5, <2>1, <2>3, <2>4
<1>7. CASE ~(x = e /\ u = t /\ g = f)
  <2>1. Matching(x, u, g)' = M
    BY <1>2, <1>3, <1>4, <1>7 DEF Matching
  <2>2. tracked'[x][<<u, g>>] = tracked[x][<<u, g>>]
    BY <1>3, <1>4, <1>7
  <2> QED BY <1>5, <2>1, <2>2
<1> QED BY <1>6, <1>7

(* Taking one back makes one match less, for this entity, topic and         *)
(* function only.                                                           *)
LEMMA UnsubscribeTracks ==
  ASSUME TypeOK, TrackingExact,
         NEW e \in Entities, NEW t \in Topics, NEW f \in Functions, Unsubscribe(e, t, f)
  PROVE  TrackingExact'
<1>1. SUFFICES ASSUME NEW x \in Entities, NEW u \in Topics, NEW g \in Functions
               PROVE  tracked'[x][<<u, g>>] = Cardinality(Matching(x, u, g)')
  BY DEF TrackingExact
<1> DEFINE M == Matching(x, u, g)
           O == Matching(e, t, f)
<1>2. /\ topics \in [Topics -> SUBSET (1..Len(subs))]
      /\ tracked \in [Entities -> [Keys -> Nat]]
      /\ <<t, f>> \in Keys /\ <<u, g>> \in Keys
  BY DEF TypeOK, Keys
<1>3. PICK gone \in SUBSET O :
        gone = First(1, O) /\ topics' = [topics EXCEPT ![t] = @ \ gone]
  BY Unsubscribed
<1>4. tracked' = [tracked EXCEPT ![e][<<t, f>>] = IF @ > 0 THEN @ - 1 ELSE 0] /\ subs' = subs
  BY DEF Unsubscribe, Untracked
<1>5. /\ tracked[x][<<u, g>>] = Cardinality(M) /\ IsFiniteSet(M)
      /\ tracked[e][<<t, f>>] = Cardinality(O) /\ IsFiniteSet(O) /\ O \in SUBSET Nat
  BY MatchingFinite DEF TrackingExact
<1>6. CASE ~(x = e /\ u = t /\ g = f)
  <2>1. Matching(x, u, g)' = M
    BY <1>2, <1>3, <1>4, <1>6 DEF Matching
  <2>2. tracked'[x][<<u, g>>] = tracked[x][<<u, g>>]
    BY <1>2, <1>4, <1>6
  <2> QED BY <1>5, <2>1, <2>2
<1>7. CASE x = e /\ u = t /\ g = f
  <2>1. Matching(x, u, g)' = O \ gone
    BY <1>2, <1>3, <1>4, <1>7 DEF Matching
  <2>2. CASE O = {}
    <3>1. Cardinality(O) = 0 /\ Cardinality(O \ gone) = 0
      BY <2>2, FS_EmptySet
    <3> QED BY <1>2, <1>4, <1>5, <1>7, <2>1, <3>1
  <2>3. CASE O # {}
    <3>1. PICK m \in O : gone = {m}
      BY <1>3, <1>5, <2>3, FirstIsOldest
    <3>2. Cardinality(O \ gone) = Cardinality(O) - 1
      BY <1>5, <3>1, FS_RemoveElement
    <3>3. Cardinality(O) \in Nat /\ Cardinality(O) # 0
      BY <1>5, <2>3, FS_CardinalityType, FS_EmptySet
    <3>4. tracked'[x][<<u, g>>] = Cardinality(O) - 1
      BY <1>2, <1>4, <1>5, <1>7, <3>3
    <3> QED BY <2>1, <3>2, <3>4
  <2> QED BY <2>2, <2>3
<1> QED BY <1>6, <1>7

(* Records and arrays stay in step.                                         *)
LEMMA TrackingStep == PubSubInv /\ [Next]_vars => TrackingExact'
<1> SUFFICES ASSUME TypeOK, TrackingExact, [Next]_vars
             PROVE  TrackingExact'
  BY DEF PubSubInv
<1>1. ASSUME NEW e \in Entities, NEW t \in Topics, NEW f \in Functions,
             Subscribe(e, t, f) \/ Unsubscribe(e, t, f)
      PROVE  TrackingExact'
  BY <1>1, SubscribeTracks, UnsubscribeTracks
<1>2. ASSUME NEW e \in Entities, DeleteEntity(e)
      PROVE  TrackingExact'
  <2>1. SUFFICES ASSUME NEW x \in Entities, NEW u \in Topics, NEW g \in Functions
                 PROVE  tracked'[x][<<u, g>>] = Cardinality(Matching(x, u, g)')
    BY DEF TrackingExact
  <2>2. PICK gone \in SUBSET (1..Len(subs)) :
          /\ gone = {s \in 1..Len(subs) :
                       (\E t \in Topics : s \in topics[t]) /\ subs[s].entity = e}
          /\ topics' = [t \in Topics |-> topics[t] \ gone]
    BY <1>2, Deleted
  <2>3. topics \in [Topics -> SUBSET (1..Len(subs))] /\ <<u, g>> \in Keys
    BY DEF TypeOK, Keys
  <2>4. tracked' = [tracked EXCEPT ![e] = [k \in Keys |-> 0]] /\ subs' = subs
    BY <1>2 DEF DeleteEntity
  <2>5. tracked \in [Entities -> [Keys -> Nat]]
    BY DEF TypeOK
  <2>6. CASE x = e
    <3>1. Matching(x, u, g)' = {}
      BY <2>2, <2>3, <2>4, <2>6 DEF Matching
    <3>2. tracked'[x][<<u, g>>] = 0
      BY <2>3, <2>4, <2>5, <2>6
    <3> QED BY <3>1, <3>2, FS_EmptySet
  <2>7. CASE x # e
    <3>1. Matching(x, u, g)' = Matching(x, u, g)
      BY <2>2, <2>3, <2>4, <2>7 DEF Matching
    <3>2. tracked'[x][<<u, g>>] = tracked[x][<<u, g>>]
      BY <2>4, <2>5, <2>7
    <3> QED BY <3>1, <3>2 DEF TrackingExact
  <2> QED BY <2>6, <2>7
<1>3. ASSUME UNCHANGED storeVars
      PROVE  TrackingExact'
  <2>1. subs' = subs /\ topics' = topics /\ tracked' = tracked
    BY <1>3 DEF storeVars
  <2>2. ASSUME NEW x \in Entities, NEW u \in Topics, NEW g \in Functions
        PROVE  tracked'[x][<<u, g>>] = Cardinality(Matching(x, u, g)')
    <3>1. Matching(x, u, g)' = Matching(x, u, g)
      BY <2>1 DEF Matching
    <3> QED BY <2>1, <3>1 DEF TrackingExact
  <2> QED BY <2>2 DEF TrackingExact
<1> QED BY <1>1, <1>2, <1>3 DEF Next, Publish, Visit, NextComponent, CallbackReturns,
     PublishEnds, SetActive, DestroyEntity, vars

(* Only an entity without subscriptions is freed, and only one that is not  *)
(* freed subscribes.                                                        *)
LEMMA DanglingStep == PubSubInv /\ [Next]_vars => NoDanglingSubscriber'
<1> SUFFICES ASSUME TypeOK, TrackingExact, NoDanglingSubscriber, [Next]_vars
             PROVE  NoDanglingSubscriber'
  BY DEF PubSubInv
<1>0. topics \in [Topics -> SUBSET (1..Len(subs))]
  BY DEF TypeOK
<1>1. ASSUME NEW e \in Entities, NEW t \in Topics, NEW f \in Functions,
             Subscribe(e, t, f)
      PROVE  NoDanglingSubscriber'
  <2>1. /\ Len(subs) \in Nat /\ subs'[Len(subs) + 1].entity = e
        /\ \A s \in 1..Len(subs) : subs'[s] = subs[s]
    <3>1. /\ Len(subs) \in Nat
          /\ subs'[Len(subs) + 1] = [entity |-> e, function |-> f]
          /\ \A s \in 1..Len(subs) : subs'[s] = subs[s]
      BY <1>1, Subscribed
    <3> QED BY <3>1
  <2>2. /\ topics' = [topics EXCEPT ![t] = @ \cup {Len(subs) + 1}]
        /\ life' = life /\ life[e] # "freed"
    BY <1>1 DEF Subscribe
  <2>3. ASSUME NEW u \in Topics, NEW s \in topics'[u]
        PROVE  life'[subs'[s].entity] # "freed"
    BY <1>0, <2>1, <2>2 DEF NoDanglingSubscriber
  <2> QED BY <2>3 DEF NoDanglingSubscriber
<1>2. ASSUME NEW e \in Entities, NEW t \in Topics, NEW f \in Functions,
             Unsubscribe(e, t, f)
      PROVE  NoDanglingSubscriber'
  <2>1. PICK gone : topics' = [topics EXCEPT ![t] = @ \ gone]
    BY <1>2, Unsubscribed
  <2>2. life' = life /\ subs' = subs
    BY <1>2 DEF Unsubscribe
  <2> QED BY <1>0, <2>1, <2>2 DEF NoDanglingSubscriber
<1>3. ASSUME NEW e \in Entities, SetActive(e) \/ DestroyEntity(e)
      PROVE  NoDanglingSubscriber'
  <2>1. subs' = subs /\ topics' = topics
    BY <1>3 DEF SetActive, DestroyEntity, storeVars
  <2>2. life \in [Entities -> {"active", "inactive", "destroyed", "freed"}]
    BY DEF TypeOK
  <2>3. ASSUME NEW x \in Entities, life'[x] = "freed"
        PROVE  life[x] = "freed"
    <3>1. CASE SetActive(e)
      BY <2>2, <2>3, <3>1 DEF SetActive
    <3>2. CASE DestroyEntity(e)
      BY <2>2, <2>3, <3>2 DEF DestroyEntity
    <3> QED BY <1>3, <3>1, <3>2
  <2>4. ASSUME NEW u \in Topics, NEW s \in topics[u]
        PROVE  subs[s].entity \in Entities
    BY <1>0, SubsType
  <2> QED BY <2>1, <2>3, <2>4 DEF NoDanglingSubscriber
<1>4. ASSUME NEW e \in Entities, DeleteEntity(e)
      PROVE  NoDanglingSubscriber'
  <2>1. PICK gone \in SUBSET (1..Len(subs)) :
          /\ gone = {s \in 1..Len(subs) :
                       (\E t \in Topics : s \in topics[t]) /\ subs[s].entity = e}
          /\ topics' = [t \in Topics |-> topics[t] \ gone]
    BY <1>4, Deleted
  <2>2. life' = [life EXCEPT ![e] = "freed"] /\ subs' = subs
    BY <1>4 DEF DeleteEntity
  <2>3. ASSUME NEW u \in Topics, NEW s \in topics'[u]
        PROVE  life'[subs'[s].entity] # "freed"
    <3>1. s \in topics[u] /\ s \in 1..Len(subs) /\ s \notin gone
      BY <1>0, <2>1
    <3>2. subs[s].entity # e /\ life[subs[s].entity] # "freed"
      BY <2>1, <3>1 DEF NoDanglingSubscriber
    <3>3. subs[s].entity \in Entities
      BY <3>1, SubsType
    <3>4. life \in [Entities -> {"active", "inactive", "destroyed", "freed"}]
      BY DEF TypeOK
    <3> QED BY <2>2, <3>2, <3>3, <3>4
  <2> QED BY <2>3 DEF NoDanglingSubscriber
<1>5. ASSUME UNCHANGED <<life, storeVars>>
      PROVE  NoDanglingSubscriber'
  BY <1>5 DEF storeVars, NoDanglingSubscriber
<1> QED BY <1>1, <1>2, <1>3, <1>4, <1>5 DEF Next, Publish, Visit, NextComponent,
     CallbackReturns, PublishEnds, vars

(* What leaves its array is freed and what is freed leaves its array.       *)
LEMMA ListedStep == PubSubInv /\ [Next]_vars => ListedOrFreed'
<1> SUFFICES ASSUME TypeOK, TrackingExact, ListedOrFreed, [Next]_vars
             PROVE  ListedOrFreed'
  BY DEF PubSubInv
<1>0. /\ topics \in [Topics -> SUBSET (1..Len(subs))] /\ freed \in SUBSET (1..Len(subs))
      /\ \A s \in 1..Len(subs) :
           /\ s \in freed <=> \A t \in Topics : s \notin topics[t]
           /\ \A t, u \in Topics : s \in topics[t] /\ s \in topics[u] => t = u
  BY DEF TypeOK, ListedOrFreed
<1>1. ASSUME NEW e \in Entities, NEW t \in Topics, NEW f \in Functions,
             Subscribe(e, t, f)
      PROVE  ListedOrFreed'
  <2>1. Len(subs) \in Nat /\ Len(subs') = Len(subs) + 1
    BY <1>1, Subscribed
  <2>2. topics' = [topics EXCEPT ![t] = @ \cup {Len(subs) + 1}] /\ freed' = freed
    BY <1>1 DEF Subscribe
  <2>3. ASSUME NEW s \in 1..Len(subs'), NEW u \in Topics
        PROVE  s \in topics'[u] <=> IF s = Len(subs) + 1 THEN u = t ELSE s \in topics[u]
    BY <1>0, <2>1, <2>2
  <2>4. ASSUME NEW s \in 1..Len(subs')
        PROVE  /\ s \in freed' <=> \A u \in Topics : s \notin topics'[u]
               /\ \A u, w \in Topics : s \in topics'[u] /\ s \in topics'[w] => u = w
    <3>1. CASE s = Len(subs) + 1
      BY <1>0, <2>1, <2>2, <2>3, <3>1
    <3>2. CASE s # Len(subs) + 1
      <4>1. s \in 1..Len(subs)
        BY <2>1, <3>2
      <4> QED BY <1>0, <2>2, <2>3, <3>2, <4>1
    <3> QED BY <3>1, <3>2
  <2> QED BY <2>4 DEF ListedOrFreed
<1>2. ASSUME NEW e \in Entities, NEW t \in Topics, NEW f \in Functions,
             Unsubscribe(e, t, f)
      PROVE  ListedOrFreed'
  <2>1. PICK gone : /\ gone \subseteq topics[t]
                    /\ topics' = [topics EXCEPT ![t] = @ \ gone]
                    /\ freed' = freed \cup gone
    BY <1>2, Unsubscribed
  <2>2. subs' = subs
    BY <1>2 DEF Unsubscribe
  <2>3. ASSUME NEW s \in 1..Len(subs), NEW u \in Topics
        PROVE  s \in topics'[u] <=> s \in topics[u] /\ s \notin gone
    BY <1>0, <2>1
  <2>4. ASSUME NEW s \in 1..Len(subs)
        PROVE  /\ s \in freed' <=> \A u \in Topics : s \notin topics'[u]
               /\ \A u, w \in Topics : s \in topics'[u] /\ s \in topics'[w] => u = w
    BY <1>0, <2>1, <2>3
  <2> QED BY <2>2, <2>4 DEF ListedOrFreed
<1>3. ASSUME NEW e \in Entities, DeleteEntity(e)
      PROVE  ListedOrFreed'
  <2>1. PICK gone \in SUBSET (1..Len(subs)) :
          /\ gone = {s \in 1..Len(subs) :
                       (\E t \in Topics : s \in topics[t]) /\ subs[s].entity = e}
          /\ topics' = [t \in Topics |-> topics[t] \ gone]
          /\ freed' = freed \cup gone
    BY <1>3, Deleted
  <2>2. subs' = subs
    BY <1>3 DEF DeleteEntity
  <2>3. ASSUME NEW s \in 1..Len(subs)
        PROVE  /\ s \in freed' <=> \A u \in Topics : s \notin topics'[u]
               /\ \A u, w \in Topics : s \in topics'[u] /\ s \in topics'[w] => u = w
    BY <1>0, <2>1
  <2> QED BY <2>2, <2>3 DEF ListedOrFreed
<1>4. ASSUME UNCHANGED storeVars
      PROVE  ListedOrFreed'
  BY <1>4 DEF storeVars, ListedOrFreed
<1> QED BY <1>1, <1>2, <1>3, <1>4 DEF Next, Publish, Visit, NextComponent,
     CallbackReturns, PublishEnds, SetActive, DestroyEntity, vars

(* Publishes walk what was there when they began, and nothing they need is  *)
(* freed unless a callback unsubscribes: entities wait for the frame's end. *)
LEMMA PublishStep ==
  PubSubInv /\ [Next]_vars => (PublishOK /\ UncutAlive /\ SafeUnlessCut)'
<1> SUFFICES ASSUME PubSubInv, [Next]_vars
             PROVE  (PublishOK /\ UncutAlive /\ SafeUnlessCut)'
  OBVIOUS
<1>0. /\ Len(subs) \in Nat /\ depth \in 0..MaxDepth
      /\ topics \in [Topics -> SUBSET (1..Len(subs))]
      /\ rest \in [Depths -> SUBSET (1..Len(subs))]
      /\ calling \in [Depths -> 0..Len(subs)] /\ since \in [Depths -> 0..Len(subs)]
      /\ freed \in SUBSET (1..Len(subs)) /\ cut \in BOOLEAN
  BY DEF PubSubInv, TypeOK
<1> USE PubSubAssumption DEF Depths
<1>a. /\ \A d \in 1..depth : rest[d] \subseteq 1..since[d] /\ calling[d] <= since[d]
      /\ \A d \in Depths : d > depth => calling[d] = 0
      /\ ~cut => \A d \in 1..depth : rest[d] \cap freed = {} /\ calling[d] \notin freed
      /\ fault # "none" => fault \in {"subscription", "function"} /\ cut
  BY DEF PubSubInv, PublishOK, UncutAlive, SafeUnlessCut
<1>1. ASSUME NEW e \in Entities, NEW t \in Topics, NEW f \in Functions,
             Subscribe(e, t, f)
      PROVE  (PublishOK /\ UncutAlive /\ SafeUnlessCut)'
  BY <1>a, <1>1 DEF Subscribe, publishVars, PublishOK, UncutAlive, SafeUnlessCut
<1>2. ASSUME NEW e \in Entities, NEW t \in Topics, NEW f \in Functions,
             Unsubscribe(e, t, f)
      PROVE  (PublishOK /\ UncutAlive /\ SafeUnlessCut)'
  <2>1. PICK gone : /\ freed' = freed \cup gone
                    /\ cut' = (cut \/ (depth > 0 /\ gone # {}))
    BY <1>2, Unsubscribed DEF PubSubInv
  <2>2. UNCHANGED publishVars /\ fault' = fault
    BY <1>2 DEF Unsubscribe
  <2>3. PublishOK' /\ SafeUnlessCut'
    BY <1>a, <2>1, <2>2 DEF publishVars, PublishOK, SafeUnlessCut
  <2>4. ASSUME ~cut', NEW d \in 1..depth
        PROVE  freed' = freed /\ ~cut
    <3>1. depth > 0
      BY <1>0
    <3>2. ~cut /\ gone = {}
      BY <2>1, <2>4, <3>1, Zenon
    <3> QED BY <2>1, <3>2
  <2>5. UncutAlive'
    BY <1>a, <2>2, <2>4 DEF publishVars, UncutAlive
  <2> QED BY <2>3, <2>5
<1>3. ASSUME NEW t \in Topics, Publish(t)
      PROVE  (PublishOK /\ UncutAlive /\ SafeUnlessCut)'
  <2> DEFINE n == depth + 1
  <2>1. /\ depth' = n /\ n \in Depths /\ calling' = calling
        /\ rest' = [rest EXCEPT ![n] = topics[t]]
        /\ since' = [since EXCEPT ![n] = Len(subs)]
        /\ freed' = freed /\ cut' = cut /\ fault' = fault
    BY <1>0, <1>3 DEF Publish, storeVars
  <2>2. /\ rest'[n] = topics[t] /\ since'[n] = Len(subs) /\ calling'[n] = 0
    BY <1>0, <1>a, <2>1
  <2>3. topics[t] \cap freed = {} /\ topics[t] \subseteq 1..Len(subs)
    BY <1>0 DEF PubSubInv, ListedOrFreed
  <2>4. ASSUME NEW d \in 1..depth
        PROVE  d \in Depths /\ rest'[d] = rest[d] /\ since'[d] = since[d]
    BY <1>0, <2>1
  <2>5. ASSUME NEW d \in 1..depth', d # n
        PROVE  d \in 1..depth
    BY <1>0, <2>1, <2>5
  <2>6. PublishOK'
    <3>1. ASSUME NEW d \in 1..depth'
          PROVE  rest'[d] \subseteq 1..since'[d] /\ calling'[d] <= since'[d]
      BY <1>0, <1>a, <2>1, <2>2, <2>3, <2>4, <2>5
    <3>2. ASSUME NEW d \in Depths, d > depth'
          PROVE  calling'[d] = 0
      BY <1>0, <1>a, <2>1, <3>2
    <3> QED BY <3>1, <3>2 DEF PublishOK
  <2>7. UncutAlive'
    <3>1. ASSUME ~cut', NEW d \in 1..depth'
          PROVE  rest'[d] \cap freed' = {} /\ calling'[d] \notin freed'
      BY <1>0, <1>a, <2>1, <2>2, <2>3, <2>4, <2>5, <3>1
    <3> QED BY <3>1 DEF UncutAlive
  <2> QED BY <1>a, <2>1, <2>6, <2>7 DEF SafeUnlessCut
<1>4. ASSUME NEW s \in 1..Len(subs), Visit(s)
      PROVE  (PublishOK /\ UncutAlive /\ SafeUnlessCut)'
  <2>1. /\ depth \in 1..depth /\ depth \in Depths /\ depth' = depth /\ since' = since
        /\ freed' = freed /\ cut' = cut /\ s \in rest[depth]
        /\ rest' = [rest EXCEPT ![depth] = @ \ {s}]
        /\ calling' = calling \/ (s \notin freed /\ calling' = [calling EXCEPT ![depth] = s])
    BY <1>0, <1>4 DEF Visit, Visiting, ToVisit, storeVars
  <2>2. ASSUME NEW d \in Depths
        PROVE  /\ rest'[d] \subseteq rest[d]
               /\ \/ calling'[d] = calling[d]
                  \/ d = depth /\ calling'[d] = s /\ s \notin freed
    BY <1>0, <2>1
  <2>3. ASSUME NEW d \in 1..depth
        PROVE  d \in Depths
    BY <1>0
  <2>4. PublishOK'
    <3>1. s <= since[depth]
      BY <1>0, <1>a, <2>1
    <3>2. ASSUME NEW d \in Depths, d > depth
          PROVE  calling'[d] = 0
      BY <1>0, <1>a, <2>2, <3>2
    <3> QED BY <1>a, <2>1, <2>2, <2>3, <3>1, <3>2 DEF PublishOK
  <2>5. UncutAlive'
    BY <1>a, <2>1, <2>2, <2>3 DEF UncutAlive
  <2>6. SafeUnlessCut'
    <3>1. fault' = Reads(s)
      BY <1>4 DEF Visit
    <3>2. CASE s \in freed
      BY <1>a, <2>1, <3>1, <3>2 DEF Reads, SafeUnlessCut
    <3>3. CASE s \notin freed
      <4>1. life[subs[s].entity] # "freed"
        BY <3>3 DEF PubSubInv, ListedOrFreed, NoDanglingSubscriber
      <4> QED BY <3>1, <3>3, <4>1 DEF Reads, SafeUnlessCut
    <3> QED BY <3>2, <3>3
  <2> QED BY <2>4, <2>5, <2>6
<1>5. CASE NextComponent
  <2>1. depth \in 1..depth
    BY <1>0, <1>5 DEF NextComponent
  <2>2. cut
    BY <1>a, <1>5, <2>1 DEF NextComponent
  <2> QED BY <1>a, <1>5, <2>2 DEF NextComponent, storeVars, publishVars, PublishOK,
          UncutAlive, SafeUnlessCut
<1>6. CASE CallbackReturns \/ PublishEnds
  <2>1. /\ depth' \in 0..depth /\ rest' = rest /\ freed' = freed /\ cut' = cut
        /\ fault' = fault
    BY <1>0, <1>6 DEF CallbackReturns, PublishEnds, Visiting, storeVars
  <2>2. ASSUME NEW d \in Depths
        PROVE  /\ calling'[d] = calling[d] \/ calling'[d] = 0
               /\ d > depth' => calling'[d] = 0
               /\ d \in 1..depth' => since'[d] = since[d]
    <3>1. CASE CallbackReturns
      BY <1>0, <1>a, <3>1 DEF CallbackReturns
    <3>2. CASE PublishEnds
      BY <1>0, <1>a, <3>2 DEF PublishEnds, Visiting
    <3> QED BY <1>6, <3>1, <3>2
  <2>3. ASSUME NEW d \in 1..depth'
        PROVE  d \in Depths /\ d \in 1..depth /\ since[d] >= 0 /\ 0 \notin freed
    BY <1>0, <2>1
  <2>4. PublishOK'
    <3>1. ASSUME NEW d \in 1..depth'
          PROVE  rest'[d] \subseteq 1..since'[d] /\ calling'[d] <= since'[d]
      BY <1>a, <2>1, <2>2, <2>3
    <3> QED BY <2>2, <3>1 DEF PublishOK
  <2>5. UncutAlive'
    BY <1>a, <2>1, <2>2, <2>3 DEF UncutAlive
  <2> QED BY <1>a, <2>1, <2>4, <2>5 DEF SafeUnlessCut
<1>7. ASSUME NEW e \in Entities, SetActive(e) \/ DestroyEntity(e)
      PROVE  (PublishOK /\ UncutAlive /\ SafeUnlessCut)'
  BY <1>a, <1>7 DEF SetActive, DestroyEntity, storeVars, publishVars, PublishOK,
     UncutAlive, SafeUnlessCut
<1>8. ASSUME NEW e \in Entities, DeleteEntity(e)
      PROVE  (PublishOK /\ UncutAlive /\ SafeUnlessCut)'
  <2>1. depth = 0 /\ UNCHANGED <<publishVars, fault, cut>>
    BY <1>8 DEF DeleteEntity, NoPublish
  <2>2. 1..depth' = {}
    BY <2>1 DEF publishVars
  <2> QED BY <1>a, <2>1, <2>2 DEF publishVars, PublishOK, UncutAlive, SafeUnlessCut
<1>9. CASE UNCHANGED vars
  BY <1>a, <1>9 DEF vars, storeVars, publishVars, PublishOK, UncutAlive, SafeUnlessCut
<1> QED BY <1>1, <1>2, <1>3, <1>4, <1>5, <1>6, <1>7, <1>8, <1>9 DEF Next

------------------------------------------------------------------------------
(* Theorems.                                                                *)

(* The inductive invariant holds in every reachable state.                  *)
THEOREM PubSubInvariance == Spec => []PubSubInv
<1>1. PubSubInv /\ [Next]_vars => PubSubInv'
  BY PubSubTypeStep, TrackingStep, DanglingStep, ListedStep, PublishStep DEF PubSubInv
<1> QED BY PubSubInit, <1>1, PTL DEF Spec

(* Subscriptions, records and publishes have their types.                   *)
THEOREM TypeCorrect == Spec => []TypeOK
BY PubSubInvariance, PTL DEF PubSubInv

(* entity->subscriptions always lists exactly what the topics' arrays hold  *)
(* of the entity.                                                           *)
THEOREM RecordsAreExact == Spec => []TrackingExact
BY PubSubInvariance, PTL DEF PubSubInv

(* _entity_cleanup leaves no subscription of the entity behind.             *)
THEOREM NothingDangles == Spec => []NoDanglingSubscriber
BY PubSubInvariance, PTL DEF PubSubInv

(* Subscriptions neither leak nor stay listed once they are freed.          *)
THEOREM NothingLeaks == Spec => []ListedOrFreed
BY PubSubInvariance, PTL DEF PubSubInv

(* A publish calls nothing that was subscribed after it began.              *)
THEOREM NewcomersAreNotCalled == Spec => []NewcomersWait
<1>1. PubSubInv => NewcomersWait
  BY DEF PubSubInv, PublishOK, NewcomersWait
<1> QED BY <1>1, PubSubInvariance, PTL

(* Publishing is memory-safe as long as no callback unsubscribes.           *)
THEOREM OnlyUnsubscribingHurts == Spec => []SafeUnlessCut
BY PubSubInvariance, PTL DEF PubSubInv
-----------------------------------------------------------------------------
(* The inductive invariant.                                                 *)

Hit == [state : {"none", "enter", "stay", "exit"}, left : Nat]

CollisionsType ==
  /\ box \in [Bodies -> Boxes \cup {Anywhere}] /\ cellSize \in CellSizes
  /\ bins \in [Cells -> Seq(Bodies)] /\ tuned \in BOOLEAN
  /\ stage \in {"scripts", "insert", "solve", "callbacks"}
  /\ order \in Seq(Bodies)
  /\ status \in [Bodies -> {"active", "inactive", "destroyed", "freed"}]
  /\ previous \subseteq BodyPairs /\ able \subseteq BodyPairs
  /\ listed \subseteq BodyPairs /\ entered \subseteq BodyPairs
  /\ hits \in [BodyPairs -> Hit] /\ exits \in [BodyPairs -> Nat]
  /\ misread \in BOOLEAN

(* While the index is filled it has active entities only; and, unless the   *)
(* cell size changed, each of those that were inserted in just its cells.   *)
Filed ==
  stage = "insert" =>
    /\ box \in [Bodies -> Boxes]
    /\ \A c \in Cells : \A e \in ToSet(bins[c]) : status[e] = "active"
    /\ ~tuned => \A e \in Bodies : status[e] = "active" /\ e \notin ToSet(order) =>
                   \A c \in CellsOf(box[e]) : e \in ToSet(bins[c])
    /\ ~tuned => \A c \in Cells : \A e \in ToSet(bins[c]) : c \in CellsOf(box[e])

(* At all other times it is empty. *)
Emptied == stage # "insert" => bins = [c \in Cells |-> <<>>]

(* What is left to tell of a pair, and what was told of it, make up what    *)
(* became of it.                                                            *)
StoryTold(p) ==
  /\ hits[p].state = "none"  => hits[p].left = 0 /\ exits[p] = 0 /\ p \notin previous /\ p \notin entered
  /\ hits[p].state = "enter" => p \in previous /\ exits[p] = 0 /\ (hits[p].left = 0 => p \in entered)
  /\ hits[p].state = "stay"  => p \in previous /\ exits[p] = 0 /\ p \in entered
  /\ hits[p].state = "exit"  => /\ p \notin previous
                                /\ p \in entered <=> exits[p] = 0
                                /\ hits[p].left + exits[p] = IF p \in listed THEN 2 ELSE 1

Story ==
  /\ stage = "callbacks" => \A p \in BodyPairs : StoryTold(p)
  /\ stage # "callbacks" => /\ entered = previous
                            /\ \A p \in BodyPairs : hits[p] = NoHits /\ exits[p] = 0
  /\ misread => \E p \in entered : \E e \in p : ~Live(e)

CollisionsInv == CollisionsType /\ Filed /\ Emptied /\ Story /\ PairsComplete
-----------------------------------------------------------------------------
(* Facts about sequences and sets.                                          *)

LEMMA ToSetConcat ==
  ASSUME NEW S, NEW s \in Seq(S), NEW t \in Seq(S)
  PROVE  s \o t \in Seq(S) /\ ToSet(s \o t) = ToSet(s) \cup ToSet(t)
<1>1. s \o t \in Seq(S) /\ Len(s \o t) = Len(s) + Len(t)
  BY ConcatProperties
<1>2. \A i \in 1..(Len(s) + Len(t)) : (s \o t)[i] = IF i <= Len(s) THEN s[i] ELSE t[i - Len(s)]
  BY ConcatProperties
<1>3. Len(s) \in Nat /\ Len(t) \in Nat /\ DOMAIN s = 1..Len(s) /\ DOMAIN t = 1..Len(t)
      /\ DOMAIN (s \o t) = 1..(Len(s) + Len(t))
  BY <1>1, LenProperties
<1>4. ASSUME NEW i \in 1..Len(s)
      PROVE  s[i] \in ToSet(s \o t)
  <2>1. i \in 1..(Len(s) + Len(t)) /\ i <= Len(s)
    BY <1>3
  <2> QED BY <2>1, <1>2, <1>3 DEF ToSet
<1>5. ASSUME NEW i \in 1..Len(t)
      PROVE  t[i] \in ToSet(s \o t)
  <2>1. i + Len(s) \in 1..(Len(s) + Len(t)) /\ ~(i + Len(s) <= Len(s)) /\ i + Len(s) - Len(s) = i
    BY <1>3
  <2> QED BY <2>1, <1>2, <1>3 DEF ToSet
<1>6. ASSUME NEW i \in 1..(Len(s) + Len(t))
      PROVE  (s \o t)[i] \in ToSet(s) \cup ToSet(t)
  <2>1. CASE i <= Len(s)
    BY <2>1, <1>2, <1>3 DEF ToSet
  <2>2. CASE ~(i <= Len(s))
    <3>1. i - Len(s) \in 1..Len(t)
      BY <2>2, <1>3
    <3> QED BY <2>2, <3>1, <1>2, <1>3 DEF ToSet
  <2> QED BY <2>1, <2>2
<1>7. ToSet(s \o t) \subseteq ToSet(s) \cup ToSet(t)
  BY <1>3, <1>6 DEF ToSet
<1>8. ToSet(s) \cup ToSet(t) \subseteq ToSet(s \o t)
  <2>1. ToSet(s) = {s[i] : i \in 1..Len(s)} /\ ToSet(t) = {t[i] : i \in 1..Len(t)}
    BY <1>3 DEF ToSet
  <2> QED BY <2>1, <1>4, <1>5
<1> QED BY <1>1, <1>7, <1>8

LEMMA ToSetConcatThree ==
  ASSUME NEW S, NEW l \in Seq(S), NEW m \in Seq(S), NEW r \in Seq(S)
  PROVE  /\ l \o m \o r \in Seq(S)
         /\ ToSet(l \o m \o r) = ToSet(l) \cup ToSet(m) \cup ToSet(r)
<1> DEFINE k == l \o m
<1>1. k \in Seq(S) /\ ToSet(k) = ToSet(l) \cup ToSet(m)
  BY ToSetConcat
<1> HIDE DEF k
<1>2. k \o r \in Seq(S) /\ ToSet(k \o r) = ToSet(k) \cup ToSet(r)
  BY <1>1, ToSetConcat
<1> QED BY <1>1, <1>2 DEF k

LEMMA ToSetAppend ==
  ASSUME NEW S, NEW s \in Seq(S), NEW e \in S
  PROVE  Append(s, e) \in Seq(S) /\ ToSet(Append(s, e)) = ToSet(s) \cup {e}
<1>1. Append(s, e) \in Seq(S) /\ Len(Append(s, e)) = Len(s) + 1 /\ Append(s, e)[Len(s) + 1] = e
      /\ \A i \in 1..Len(s) : Append(s, e)[i] = s[i]
  BY AppendProperties
<1>2. Len(s) \in Nat /\ DOMAIN s = 1..Len(s) /\ DOMAIN Append(s, e) = 1..(Len(s) + 1)
  BY <1>1, LenProperties
<1>3. 1..(Len(s) + 1) = 1..Len(s) \cup {Len(s) + 1}
  BY <1>2
<1> QED BY <1>1, <1>2, <1>3 DEF ToSet

(* The first of a sequence, and those behind it. *)
LEMMA ToSetTail ==
  ASSUME NEW S, NEW s \in Seq(S), s # <<>>
  PROVE  Head(s) \in S /\ Tail(s) \in Seq(S) /\ ToSet(s) \subseteq {Head(s)} \cup ToSet(Tail(s))
<1>1. Head(s) \in S /\ Tail(s) \in Seq(S) /\ Len(Tail(s)) = Len(s) - 1 /\ Head(s) = s[1]
      /\ \A i \in 1..Len(Tail(s)) : Tail(s)[i] = s[i + 1]
  <2>1. Head(s) = s[1]
    OBVIOUS
  <2>2. Head(s) \in S /\ Tail(s) \in Seq(S) /\ Len(Tail(s)) = Len(s) - 1
    BY HeadTailProperties
  <2>3. \A i \in 1..Len(Tail(s)) : Tail(s)[i] = s[i + 1]
    BY HeadTailProperties
  <2> QED BY <2>1, <2>2, <2>3
<1>2. Len(s) \in Nat /\ DOMAIN s = 1..Len(s) /\ DOMAIN Tail(s) = 1..(Len(s) - 1)
  <2>1. Len(s) \in Nat /\ DOMAIN s = 1..Len(s)
    BY LenProperties
  <2>2. DOMAIN Tail(s) = 1..Len(Tail(s))
    BY <1>1, LenProperties
  <2> QED BY <1>1, <2>1, <2>2
<1>3. ASSUME NEW i \in 1..Len(s), i # 1
      PROVE  s[i] \in ToSet(Tail(s))
  <2>1. i - 1 \in 1..(Len(s) - 1) /\ (i - 1) + 1 = i
    BY <1>2, <1>3
  <2>2. Tail(s)[i - 1] = s[i]
    BY <1>1, <2>1
  <2> QED BY <1>2, <2>1, <2>2 DEF ToSet
<1> QED BY <1>1, <1>2, <1>3 DEF ToSet

(* SetToSeq has every element.                                              *)
LEMMA SetToSeqHasAll ==
  ASSUME NEW S, IsFiniteSet(S)
  PROVE  SetToSeq(S) \in Seq(S) /\ ToSet(SetToSeq(S)) = S
<1> DEFINE n == Cardinality(S)
           f == SetToSeq(S)
<1>1. n \in Nat /\ ExistsBijection(1..n, S)
  BY FS_CardinalityType
<1>2. \E g \in [1..n -> S] : IsInjective(g)
  BY <1>1 DEF ExistsBijection, Bijection, Injection
<1>3. f \in [1..n -> S] /\ IsInjective(f)
  BY <1>2 DEF SetToSeq
<1>4. Cardinality(1..n) = n
  BY <1>1, FS_Interval
<1>5. f \in Surjection(1..n, S)
  BY <1>3, <1>4, FS_Injection DEF Injection
<1>6. \A e \in S : \E i \in 1..n : f[i] = e
  BY <1>5 DEF Surjection
<1>7. f \in Seq(S)
  BY <1>1, <1>3
<1> QED BY <1>3, <1>6, <1>7 DEF ToSet
-----------------------------------------------------------------------------
(* The grid.                                                                *)

(* Numbers of cells do not fall as coordinates rise. *)
LEMMA DivMonotone ==
  ASSUME NEW s \in Nat \ {0}, NEW x \in Int, NEW y \in Int, x <= y
  PROVE  x \div s \in Int /\ x \div s <= y \div s
<1>1. x \div s \in Int /\ y \div s \in Int /\ x % s \in 0..(s - 1) /\ y % s \in 0..(s - 1)
  OBVIOUS
<1>2. x = s * (x \div s) + (x % s) /\ y = s * (y \div s) + (y % s)
  OBVIOUS
<1>3. ASSUME NEW p \in Int, NEW q \in Int, p > q
      PROVE  s * p >= s * q + s
  <2>1. s * (p - q) >= s * 1
    BY <1>3
  <2> QED BY <2>1
<1> QED BY <1>1, <1>2, <1>3

LEMMA BoxType ==
  ASSUME SpatialAssumption, NEW q \in Boxes
  PROVE  /\ q[1] \in Int /\ q[2] \in Int /\ q[3] \in Int /\ q[4] \in Int
         /\ q[1] <= q[3] /\ q[2] <= q[4]
BY DEF SpatialAssumption

(* Intervals that meet have a number of cells in common. *)
LEMMA CommonLine ==
  ASSUME NEW s \in Nat \ {0}, NEW l \in Int, NEW h \in Int, NEW l2 \in Int, NEW h2 \in Int,
         l <= h, l2 <= h2, l <= h2, l2 <= h
  PROVE  \E x \in Int : /\ x \in (l \div s)..(h \div s)
                        /\ x \in (l2 \div s)..(h2 \div s)
<1>1. /\ l \div s \in Int /\ l2 \div s \in Int /\ h \div s \in Int /\ h2 \div s \in Int
      /\ l \div s <= h \div s /\ l2 \div s <= h2 \div s
      /\ l \div s <= h2 \div s /\ l2 \div s <= h \div s
  BY DivMonotone
<1>2. CASE l \div s <= l2 \div s
  BY <1>1, <1>2
<1>3. CASE l2 \div s <= l \div s
  BY <1>1, <1>3
<1> QED BY <1>1, <1>2, <1>3

(* Bounds that overlap have a cell in common. *)
LEMMA CommonCell ==
  ASSUME SpatialAssumption, box \in [Bodies -> Boxes], cellSize \in CellSizes,
         NEW a \in Bodies, NEW b \in Bodies, Overlaps(a, b)
  PROVE  \E c \in Cells : c \in CellsOf(box[a]) /\ c \in CellsOf(box[b])
<1> DEFINE p == box[a]
           q == box[b]
<1>1. p \in Boxes /\ q \in Boxes
  OBVIOUS
<1>2. /\ p[1] \in Int /\ p[2] \in Int /\ p[3] \in Int /\ p[4] \in Int /\ p[1] <= p[3] /\ p[2] <= p[4]
      /\ q[1] \in Int /\ q[2] \in Int /\ q[3] \in Int /\ q[4] \in Int /\ q[1] <= q[3] /\ q[2] <= q[4]
  BY <1>1, BoxType
<1>3. p[1] <= q[3] /\ q[1] <= p[3] /\ p[2] <= q[4] /\ q[2] <= p[4]
  BY DEF Overlaps
<1>4. cellSize \in Nat \ {0}
  BY DEF SpatialAssumption
<1>5. (p[1] \div cellSize)..(p[3] \div cellSize) \cup (p[2] \div cellSize)..(p[4] \div cellSize) \subseteq GridLines
  BY <1>1 DEF SpatialAssumption
<1> HIDE DEF p, q
<1>6. PICK x \in Int : /\ x \in (p[1] \div cellSize)..(p[3] \div cellSize)
                       /\ x \in (q[1] \div cellSize)..(q[3] \div cellSize)
  BY <1>2, <1>3, <1>4, CommonLine
<1>7. PICK y \in Int : /\ y \in (p[2] \div cellSize)..(p[4] \div cellSize)
                       /\ y \in (q[2] \div cellSize)..(q[4] \div cellSize)
  BY <1>2, <1>3, <1>4, CommonLine
<1>8. <<x, y>> \in Cells
  BY <1>5, <1>6, <1>7 DEF Cells
<1>9. <<x, y>> \in CellsOf(p) /\ <<x, y>> \in CellsOf(q)
  BY <1>6, <1>7, <1>8 DEF CellsOf
<1> QED BY <1>8, <1>9 DEF p, q

(* A pair is of two bodies. *)
LEMMA PairOfTwo ==
  ASSUME SpatialAssumption, NEW p \in BodyPairs
  PROVE  \E a \in Bodies, b \in Bodies : a # b /\ p = {a, b}
<1>1. p \in SUBSET Bodies /\ Cardinality(p) = 2 /\ IsFiniteSet(p)
  BY FS_Subset DEF BodyPairs, SpatialAssumption
<1>2. PICK a : a \in p
  BY <1>1, FS_EmptySet
<1>3. IsFiniteSet(p \ {a}) /\ Cardinality(p \ {a}) = 1
  BY <1>1, <1>2, FS_RemoveElement
<1>4. PICK b : p \ {a} = {b}
  BY <1>3, FS_Singleton
<1> QED BY <1>1, <1>2, <1>4

LEMMA ColumnHas ==
  ASSUME bins \in [Cells -> Seq(Bodies)], NEW x, NEW y,
         <<x, y - 1>> \in Cells, <<x, y>> \in Cells, <<x, y + 1>> \in Cells
  PROVE  /\ Column(x, y) \in Seq(Bodies)
         /\ ToSet(Column(x, y)) =
              ToSet(bins[<<x, y - 1>>]) \cup ToSet(bins[<<x, y>>]) \cup ToSet(bins[<<x, y + 1>>])
<1> DEFINE l == bins[<<x, y - 1>>]
           m == bins[<<x, y>>]
           r == bins[<<x, y + 1>>]
<1>1. l \in Seq(Bodies) /\ m \in Seq(Bodies) /\ r \in Seq(Bodies)
  OBVIOUS
<1>2. Column(x, y) = l \o m \o r
  BY DEF Column
<1> HIDE DEF l, m, r
<1>3. l \o m \o r \in Seq(Bodies) /\ ToSet(l \o m \o r) = ToSet(l) \cup ToSet(m) \cup ToSet(r)
  BY <1>1, ToSetConcatThree
<1> QED BY <1>2, <1>3 DEF l, m, r

(* The block of a cell that is converted is what its nine cells list. *)
LEMMA BlockHas ==
  ASSUME SpatialAssumption, bins \in [Cells -> Seq(Bodies)], NEW t \in Cells, Converts(t)
  PROVE  /\ Block(t) \in Seq(Bodies)
         /\ \A e \in ToSet(Block(t)) : \E c \in Around(t) : e \in ToSet(bins[c])
         /\ \A c \in Around(t) : ToSet(bins[c]) \subseteq ToSet(Block(t))
<1> DEFINE x == t[1]
           y == t[2]
           Three(u) == ToSet(bins[<<u, y - 1>>]) \cup ToSet(bins[<<u, y>>]) \cup ToSet(bins[<<u, y + 1>>])
<1>1. x \in Int /\ y \in Int
  BY DEF Cells, SpatialAssumption
<1>2. \A u \in (x - 1)..(x + 1), v \in (y - 1)..(y + 1) : <<u, v>> \in Cells /\ <<u, v>> \in Around(t)
  BY DEF Converts, Square, Around
<1>3. \A u \in (x - 1)..(x + 1) : Column(u, y) \in Seq(Bodies) /\ ToSet(Column(u, y)) = Three(u)
  <2> TAKE u \in (x - 1)..(x + 1)
  <2>1. y - 1 \in (y - 1)..(y + 1) /\ y \in (y - 1)..(y + 1) /\ y + 1 \in (y - 1)..(y + 1)
    BY <1>1
  <2>2. <<u, y - 1>> \in Cells /\ <<u, y>> \in Cells /\ <<u, y + 1>> \in Cells
    BY <1>2, <2>1
  <2> QED BY <2>2, ColumnHas
<1>4. x - 1 \in (x - 1)..(x + 1) /\ x \in (x - 1)..(x + 1) /\ x + 1 \in (x - 1)..(x + 1)
      /\ y - 1 \in (y - 1)..(y + 1) /\ y \in (y - 1)..(y + 1) /\ y + 1 \in (y - 1)..(y + 1)
  BY <1>1
<1>5. Block(t) \in Seq(Bodies) /\ ToSet(Block(t)) = Three(x - 1) \cup Three(x) \cup Three(x + 1)
  <2> DEFINE l == Column(x - 1, y)
             m == Column(x, y)
             r == Column(x + 1, y)
  <2>1. /\ l \in Seq(Bodies) /\ m \in Seq(Bodies) /\ r \in Seq(Bodies)
        /\ ToSet(l) = Three(x - 1) /\ ToSet(m) = Three(x) /\ ToSet(r) = Three(x + 1)
    BY <1>3, <1>4
  <2>2. Block(t) = l \o m \o r
    BY DEF Block
  <2> HIDE DEF l, m, r, Three
  <2>3. l \o m \o r \in Seq(Bodies) /\ ToSet(l \o m \o r) = ToSet(l) \cup ToSet(m) \cup ToSet(r)
    BY <2>1, ToSetConcatThree
  <2> QED BY <2>1, <2>2, <2>3
<1>6. ASSUME NEW e \in ToSet(Block(t))
      PROVE  \E c \in Around(t) : e \in ToSet(bins[c])
  BY <1>2, <1>4, <1>5
<1>7. ASSUME NEW c \in Around(t)
      PROVE  ToSet(bins[c]) \subseteq ToSet(Block(t))
  <2>1. PICK u \in (x - 1)..(x + 1), v \in (y - 1)..(y + 1) : c = <<u, v>>
    BY DEF Around, Square
  <2> HIDE DEF x, y, Three
  <2>2. (u = x - 1 \/ u = x \/ u = x + 1) /\ (v = y - 1 \/ v = y \/ v = y + 1)
    BY <1>1, <2>1
  <2> USE DEF Three
  <2>3. ToSet(bins[c]) \subseteq Three(u)
    BY <2>1, <2>2
  <2> QED BY <1>5, <2>2, <2>3
<1> QED BY <1>5, <1>6, <1>7

LEMMA CollectedIsListed ==
  ASSUME NEW s
  PROVE  Collected(s) \subseteq ToSet(s)
BY DEF Collected, ToSet

(* What the index lists does overlap, and is of entities in its cells. *)
LEMMA PairsAreSound ==
  ASSUME SpatialAssumption, bins \in [Cells -> Seq(Bodies)], NEW T \in Trees,
         NEW A \in SUBSET BodyPairs, NEW p \in Pairs(T, A)
  PROVE  /\ p \in BodyPairs
         /\ \A a, b \in p : Overlaps(a, b)
         /\ \A a \in p : \E c \in Cells : a \in ToSet(bins[c])
<1> DEFINE C == Cells \ UNION {Around(c) : c \in T}
           In(e) == \E c \in Cells : e \in ToSet(bins[c])
           Sound(q) == (\A a, b \in q : Overlaps(a, b)) /\ Cardinality(q) = 2 /\ \A a \in q : In(a)
<1>1. \A c \in T : c \in Cells /\ Converts(c)
  BY DEF Trees
<1>2. ASSUME NEW S, \A e \in S : In(e)
      PROVE  \A q \in Within(S) : Sound(q)
  BY <1>2 DEF Within
<1>3. ASSUME NEW S, NEW R, \A e \in S \cup R : In(e)
      PROVE  \A q \in Across(S, R) : Sound(q)
  BY <1>3 DEF Across
<1>4. ASSUME NEW c \in C
      PROVE  \A e \in ToSet(bins[c]) : In(e)
  OBVIOUS
<1>5. ASSUME NEW c \in T
      PROVE  \A e \in Collected(Block(c)) : In(e)
  <2>1. \A e \in ToSet(Block(c)) : \E d \in Around(c) : e \in ToSet(bins[d])
    BY <1>1, BlockHas
  <2>2. Around(c) \subseteq Cells
    BY DEF Around
  <2> QED BY <2>1, <2>2, CollectedIsListed
<1> HIDE DEF C, In, Sound
<1>6. \A q \in GridPairs(C, A) : Sound(q)
  <2>1. ASSUME NEW q \in UNION {Within(ToSet(bins[c])) : c \in C}
        PROVE  Sound(q)
    BY <1>2, <1>4
  <2>2. ASSUME NEW c \in C, NEW d \in C, NEW q \in Across(ToSet(bins[c]), ToSet(bins[d]))
        PROVE  Sound(q)
    <3>1. \A e \in ToSet(bins[c]) \cup ToSet(bins[d]) : In(e)
      BY <1>4
    <3> QED BY <3>1, <1>3
  <2>3. ASSUME NEW q \in GridPairs(C, A)
        PROVE  \/ q \in UNION {Within(ToSet(bins[c])) : c \in C}
               \/ \E c, d \in C : q \in Across(ToSet(bins[c]), ToSet(bins[d]))
    <3> DEFINE X(c) == UNION {Across(ToSet(bins[c]), ToSet(bins[d])) : d \in C \cap Around(c)}
    <3>1. q \in UNION {Within(ToSet(bins[c])) : c \in C} \/ q \in UNION {X(c) : c \in C}
      BY <2>3 DEF GridPairs
    <3>2. ASSUME NEW c \in C, q \in X(c)
          PROVE  \E d \in C : q \in Across(ToSet(bins[c]), ToSet(bins[d]))
      BY <3>2
    <3> HIDE DEF X
    <3> QED BY <3>1, <3>2
  <2> QED BY <2>1, <2>2, <2>3
<1>7. ASSUME NEW c \in T
      PROVE  \A q \in TreePairs(c, C, A) : Sound(q)
  <2> DEFINE inside == Collected(Block(c))
  <2>1. \A q \in Within(inside) : Sound(q)
    BY <1>2, <1>5
  <2>2. ASSUME NEW d \in C
        PROVE  \A q \in Across(inside, ToSet(bins[d])) : Sound(q)
    <3>1. \A e \in inside \cup ToSet(bins[d]) : In(e)
      BY <1>4, <1>5
    <3> QED BY <3>1, <1>3
  <2> QED BY <2>1, <2>2 DEF TreePairs
<1>8. p \in GridPairs(C, A) \/ \E c \in T : p \in TreePairs(c, C, A)
  BY DEF Pairs, C
<1>9. Sound(p)
  BY <1>6, <1>7, <1>8
<1>10. \A a \in p : a \in Bodies
  <2> TAKE a \in p
  <2>1. PICK c \in Cells : a \in ToSet(bins[c])
    BY <1>9 DEF Sound, In
  <2>2. bins[c] \in Seq(Bodies)
    OBVIOUS
  <2> QED BY <2>1, <2>2 DEF ToSet
<1> QED BY <1>9, <1>10 DEF Sound, In, BodyPairs

(* A pair that may not collide at all is listed out of one cell only.       *)
LEMMA UnablePairs ==
  ASSUME NEW T, NEW A, NEW p \in Pairs(T, A), p \notin A
  PROVE  \E c \in Cells : p \subseteq ToSet(bins[c])
<1> DEFINE C == Cells \ UNION {Around(c) : c \in T}
<1>1. \A c \in T : p \notin TreePairs(c, C, A)
  BY DEF TreePairs
<1>2. p \in GridPairs(C, A)
  BY <1>1 DEF Pairs
<1> HIDE DEF C
<1>3. p \in UNION {Within(ToSet(bins[c])) : c \in C}
  BY <1>2 DEF GridPairs
<1>4. PICK c \in C : p \in Within(ToSet(bins[c]))
  BY <1>3
<1> QED BY <1>4 DEF Within, C

(* What overlaps, may collide, is in all its cells and is collected from    *)
(* the trees is listed.                                                     *)
LEMMA PairsAreFound ==
  ASSUME SpatialAssumption, bins \in [Cells -> Seq(Bodies)], box \in [Bodies -> Boxes],
         cellSize \in CellSizes, NEW T \in Trees, NEW A, NEW p \in BodyPairs, p \in A,
         \A a, b \in p : Overlaps(a, b),
         \A e \in p : \A c \in CellsOf(box[e]) : e \in ToSet(bins[c]),
         p \cap Unseen(T) = {}
  PROVE  p \in Pairs(T, A)
<1> DEFINE C == Cells \ UNION {Around(c) : c \in T}
<1>1. PICK a \in Bodies, b \in Bodies : p = {a, b}
  BY PairOfTwo
<1>2. PICK c \in Cells : c \in CellsOf(box[a]) /\ c \in CellsOf(box[b])
  BY <1>1, CommonCell
<1>3. p \subseteq ToSet(bins[c])
  BY <1>1, <1>2
<1>4. Cardinality(p) = 2
  BY DEF BodyPairs
<1>5. CASE c \in C
  <2>1. p \in Within(ToSet(bins[c]))
    BY <1>3, <1>4 DEF Within
  <2>2. p \in UNION {Within(ToSet(bins[d])) : d \in C}
    BY <2>1, <1>5
  <2>3. p \in GridPairs(C, A)
    BY <2>2 DEF GridPairs
  <2> QED BY <2>3 DEF Pairs
<1>6. CASE c \notin C
  <2>1. PICK t \in T : c \in Around(t)
    BY <1>6
  <2>2. p \subseteq ToSet(Block(t))
    <3>1. t \in Cells /\ Converts(t)
      BY DEF Trees
    <3> QED BY <1>3, <2>1, <3>1, BlockHas
  <2>3. p \subseteq Collected(Block(t))
    BY <2>2 DEF Unseen
  <2>4. p \in Within(Collected(Block(t)))
    BY <2>3, <1>4 DEF Within
  <2>5. p \in TreePairs(t, C, A)
    BY <2>4 DEF TreePairs
  <2> QED BY <2>5 DEF Pairs
<1> QED BY <1>5, <1>6
-----------------------------------------------------------------------------
(* The steps.                                                               *)

LEMMA NoHitsType == NoHits \in Hit /\ NoHits.state = "none" /\ NoHits.left = 0
BY DEF NoHits, Hit

LEMMA InitFits ==
  ASSUME SpatialAssumption, CollisionsInit
  PROVE  CollisionsInv
<1> USE DEF CollisionsInit, SpatialInit
<1>1. <<>> \in Seq(Bodies)
  BY EmptySeq
<1>2. CollisionsType
  BY <1>1, NoHitsType DEF CollisionsType
<1>3. Filed /\ Emptied /\ PairsComplete
  BY DEF Filed, Emptied, PairsComplete
<1>4. Story
  BY DEF Story
<1> QED BY <1>2, <1>3, <1>4 DEF CollisionsInv

(* Outside the search a step that leaves stage and index keeps what it must. *)
LEMMA ScriptsFit ==
  ASSUME CollisionsInv, ~misread, NEW e \in Bodies, SetBodyActive(e) \/ DestroyBody(e)
  PROVE  CollisionsInv'
<1> USE DEF SetBodyActive, DestroyBody, spatialVars, storyVars, CollisionsInv
<1>1. CollisionsType'
  BY DEF CollisionsType
<1>2. stage' = stage /\ stage \notin {"insert", "solve"}
  OBVIOUS
<1>3. Filed' /\ Emptied' /\ PairsComplete'
  BY <1>2 DEF Filed, Emptied, PairsComplete, Cells
<1>4. ASSUME NEW p \in BodyPairs, StoryTold(p)
      PROVE  StoryTold(p)'
  BY <1>4 DEF StoryTold
<1>5. misread' = FALSE
  BY DEF CollisionsType
<1>6. Story'
  BY <1>4, <1>5 DEF Story
<1> QED BY <1>1, <1>3, <1>6

LEMMA BeginFits ==
  ASSUME SpatialAssumption, CollisionsInv, ~misread, DetectBegins
  PROVE  CollisionsInv'
<1> USE DEF DetectBegins, storyVars, CollisionsInv
<1>1. order' \in Seq(Bodies) /\ ToSet(order') = Bodies
  BY SetToSeqHasAll DEF SpatialAssumption
<1>2. CollisionsType'
  BY <1>1 DEF CollisionsType
<1>3. \A c \in Cells : bins'[c] = <<>>
  BY DEF Emptied
<1>4. \A c \in Cells : ToSet(bins'[c]) = {}
  BY <1>3 DEF ToSet
<1>5. Filed'
  BY <1>1, <1>4 DEF Filed, Cells
<1>6. Emptied' /\ PairsComplete'
  BY DEF Emptied, PairsComplete
<1>7. Story'
  BY DEF Story, CollisionsType
<1> QED BY <1>2, <1>5, <1>6, <1>7

(* Inserting an active entity. *)
LEMMA InsertFiles ==
  ASSUME SpatialAssumption, CollisionsInv, stage = "insert", NEW e \in Bodies, Insert(e)
  PROVE  /\ cellSize' \in CellSizes /\ tuned' \in BOOLEAN
         /\ bins' \in [Cells -> Seq(Bodies)]
         /\ tuned' = FALSE => tuned = FALSE /\ cellSize' = cellSize
         /\ \A c \in Cells : ToSet(bins'[c]) = IF c \in CellsOf(box[e]) THEN ToSet(bins[c]) \cup {e}
                                                                       ELSE ToSet(bins[c])
<1> USE DEF CollisionsInv, CollisionsType
<1>1. bins' = WithBody(e)
  BY DEF Insert
<1>2. /\ cellSize' \in CellSizes /\ tuned' \in BOOLEAN
      /\ tuned' = FALSE => tuned = FALSE /\ cellSize' = cellSize
  BY DEF Insert
<1>3. ASSUME NEW c \in Cells
      PROVE  /\ WithBody(e)[c] \in Seq(Bodies)
             /\ ToSet(WithBody(e)[c]) = IF c \in CellsOf(box[e]) THEN ToSet(bins[c]) \cup {e} ELSE ToSet(bins[c])
  <2>1. bins[c] \in Seq(Bodies)
    OBVIOUS
  <2>2. Append(bins[c], e) \in Seq(Bodies) /\ ToSet(Append(bins[c], e)) = ToSet(bins[c]) \cup {e}
    BY <2>1, ToSetAppend
  <2> QED BY <2>1, <2>2 DEF WithBody
<1>4. WithBody(e) \in [Cells -> Seq(Bodies)]
  BY <1>3 DEF WithBody
<1> QED BY <1>1, <1>2, <1>3, <1>4

LEMMA InsertFits ==
  ASSUME SpatialAssumption, CollisionsInv, ~misread, InsertNext
  PROVE  CollisionsInv'
<1> USE DEF InsertNext, storyVars, CollisionsInv
<1> DEFINE e == Head(order)
<1>1. e \in Bodies /\ Tail(order) \in Seq(Bodies) /\ ToSet(order) \subseteq {e} \cup ToSet(Tail(order))
  BY ToSetTail DEF CollisionsType
<1> HIDE DEF e
<1>2. /\ stage = "insert" /\ stage' = "insert" /\ order' = Tail(order) /\ box' = box /\ status' = status
      /\ able' = able /\ previous' = previous /\ hits' = hits /\ misread' = misread
      /\ entered' = entered /\ exits' = exits /\ listed' = listed /\ lost' = lost
  OBVIOUS
<1>3. CASE status[e] = "active"
  <2>1. Insert(e)
    BY <1>3 DEF e
  <2>2. /\ cellSize' \in CellSizes /\ tuned' \in BOOLEAN
        /\ bins' \in [Cells -> Seq(Bodies)]
        /\ tuned' = FALSE => tuned = FALSE /\ cellSize' = cellSize
        /\ \A c \in Cells : ToSet(bins'[c]) = IF c \in CellsOf(box[e]) THEN ToSet(bins[c]) \cup {e}
                                                                      ELSE ToSet(bins[c])
    BY <1>1, <1>2, <2>1, InsertFiles
  <2>3. CollisionsType'
    BY <1>1, <1>2, <2>2 DEF CollisionsType, Cells
  <2>4. Filed'
    <3>1. box' \in [Bodies -> Boxes]
      BY <1>2 DEF Filed
    <3>2. ASSUME NEW c \in Cells, NEW f \in ToSet(bins'[c])
          PROVE  status'[f] = "active"
      BY <1>2, <1>3, <2>2 DEF Filed
    <3>3. ASSUME ~tuned', NEW f \in Bodies, status[f] = "active", f \notin ToSet(Tail(order)),
                 NEW c \in CellsOf(box[f])'
          PROVE  f \in ToSet(bins'[c])
      <4>1. tuned = FALSE /\ cellSize' = cellSize
        BY <2>2, <3>3
      <4>2. c \in CellsOf(box[f]) /\ c \in Cells
        BY <4>1, <1>2, <3>3 DEF CellsOf, Cells
      <4>3. CASE f = e
        BY <4>2, <4>3, <2>2
      <4>4. CASE f # e
        <5>1. f \notin ToSet(order)
          BY <1>1, <3>3, <4>4
        <5>2. f \in ToSet(bins[c])
          BY <5>1, <1>2, <3>3, <4>1, <4>2 DEF Filed
        <5> QED BY <5>2, <4>2, <2>2
      <4> QED BY <4>3, <4>4
    <3>4. \A c \in Cells' : c \in Cells
      BY DEF Cells
    <3>5. ASSUME ~tuned', NEW c \in Cells, NEW f \in ToSet(bins'[c])
          PROVE  c \in CellsOf(box[f])'
      <4>1. tuned = FALSE /\ cellSize' = cellSize
        BY <2>2, <3>5
      <4>2. c \in CellsOf(box[f])
        BY <1>2, <2>2, <3>5, <4>1 DEF Filed
      <4> QED BY <1>2, <4>1, <4>2 DEF CellsOf, Cells
    <3> QED BY <1>2, <3>1, <3>2, <3>3, <3>4, <3>5 DEF Filed
  <2> QED BY <1>2, <2>3, <2>4 DEF Emptied, PairsComplete, Story
<1>4. CASE status[e] # "active"
  <2>1. UNCHANGED <<cellSize, bins, tuned>>
    BY <1>4 DEF e
  <2>2. CollisionsType'
    BY <1>1, <1>2, <2>1 DEF CollisionsType, Cells
  <2>3. ASSUME ~tuned, NEW f \in Bodies, status[f] = "active", f \notin ToSet(Tail(order)),
               NEW c \in CellsOf(box[f])
        PROVE  f \in ToSet(bins[c])
    <3>1. f \notin ToSet(order)
      BY <1>1, <1>4, <2>3
    <3> QED BY <3>1, <1>2, <2>3 DEF Filed
  <2>4. ASSUME NEW f
        PROVE  CellsOf(box[f])' = CellsOf(box[f])
    BY <1>2, <2>1 DEF CellsOf, Cells
  <2>5. Filed'
    BY <1>2, <2>1, <2>3, <2>4 DEF Filed, Cells
  <2> QED BY <1>2, <2>2, <2>5 DEF Emptied, PairsComplete, Story
<1> QED BY <1>3, <1>4

(* Where the pairs are taken from the index, they are complete. *)
LEMMA GetPairsFits ==
  ASSUME SpatialAssumption, CollisionsInv, ~misread, GetPairs
  PROVE  CollisionsInv'
<1> USE DEF GetPairs, CollisionsInv
<1>1. PICK T \in Trees : listed' = Pairs(T, able') /\ lost' = Unseen(T)
  OBVIOUS
<1>2. able' \subseteq BodyPairs
  OBVIOUS
<1>3. /\ stage = "insert" /\ order = <<>> /\ stage' = "solve" /\ box' = box /\ cellSize' = cellSize
      /\ tuned' = tuned /\ order' = order /\ status' = status /\ previous' = previous /\ hits' = hits
      /\ misread' = misread /\ entered' = entered /\ exits' = exits
      /\ bins' = [c \in Cells |-> <<>>]
  BY DEF IndexClear
<1>4. /\ bins \in [Cells -> Seq(Bodies)] /\ box \in [Bodies -> Boxes] /\ cellSize \in CellSizes
      /\ \A c \in Cells : \A e \in ToSet(bins[c]) : status[e] = "active"
      /\ ~tuned => \A e \in Bodies : status[e] = "active" =>
                     \A c \in CellsOf(box[e]) : e \in ToSet(bins[c])
      /\ ~tuned => \A c \in Cells : \A e \in ToSet(bins[c]) : c \in CellsOf(box[e])
  <2>1. \A e : e \notin ToSet(order)
    BY <1>3 DEF ToSet
  <2> QED BY <1>3, <2>1 DEF Filed, CollisionsType
<1> HIDE DEF GetPairs
<1>5. \A p \in listed' : p \in BodyPairs /\ (\A a, b \in p : Overlaps(a, b))
                         /\ \A a \in p : status[a] = "active"
  BY <1>1, <1>2, <1>4, PairsAreSound
<1>6. ASSUME NEW p \in BodyPairs, p \in able', ~tuned, p \cap lost' = {},
             \A a, b \in p : Overlaps(a, b) /\ status[a] = "active"
      PROVE  p \in listed'
  <2>1. p \subseteq Bodies
    BY DEF BodyPairs
  <2>2. \A e \in p : \A c \in CellsOf(box[e]) : e \in ToSet(bins[c])
    BY <1>4, <1>6, <2>1
  <2>3. \A a, b \in p : Overlaps(a, b)
    BY <1>6
  <2> QED BY <1>1, <1>4, <1>6, <2>2, <2>3, PairsAreFound
<1>7. ASSUME NEW a, NEW b
      PROVE  Overlaps(a, b)' <=> Overlaps(a, b)
  BY <1>3 DEF Overlaps
<1>8. PairsComplete'
  <2>1. ASSUME NEW p \in listed', NEW a \in p, NEW b \in p
        PROVE  Overlaps(a, b)' /\ status'[a] = "active"
    BY <1>3, <1>5, <1>7
  <2>2. ASSUME NEW p \in BodyPairs, \A a, b \in p : Overlaps(a, b)' /\ status'[a] = "active",
               p \in able', ~tuned', p \cap lost' = {}
        PROVE  p \in listed'
    BY <1>3, <1>6, <1>7, <2>2
  <2>3. ASSUME NEW p \in listed', p \notin able', ~tuned'
        PROVE  \E c \in Cells' : \A e \in p : c \in CellsOf(box[e])'
    <3>1. PICK c \in Cells : p \subseteq ToSet(bins[c])
      BY <1>1, <2>3, UnablePairs
    <3>2. \A e \in p : c \in CellsOf(box[e])
      BY <1>3, <1>4, <2>3, <3>1
    <3> QED BY <1>3, <3>2 DEF CellsOf, Cells
  <2> QED BY <2>1, <2>2, <2>3 DEF PairsComplete, BodyPairs
<1>9. CollisionsType'
  <2>1. <<>> \in Seq(Bodies)
    BY EmptySeq
  <2> QED BY <1>2, <1>3, <1>5, <2>1 DEF CollisionsType, Cells, BodyPairs
<1>10. Filed' /\ Emptied'
  BY <1>3 DEF Filed, Emptied, Cells
<1>11. Story'
  BY <1>3 DEF Story, BodyPairs, CollisionsType
<1> QED BY <1>8, <1>9, <1>10, <1>11

(* Solving sets out what is to be told. *)
LEMMA SolveFits ==
  ASSUME CollisionsAssumption, CollisionsInv, ~misread, Solve
  PROVE  CollisionsInv'
<1> USE DEF CollisionsInv
<1>1. PICK now \in SUBSET (listed \cap able) :
        /\ misread' = \E p \in Ended(now) : \E e \in p : ~Live(e)
        /\ hits' \in [BodyPairs -> UNION {HitsOf(p, now) : p \in BodyPairs}]
        /\ \A p \in BodyPairs : hits'[p] \in HitsOf(p, now)
        /\ previous' = now
  BY DEF Solve
<1>2. /\ stage = "solve" /\ stage' = "callbacks" /\ box' = [e \in Bodies |-> Anywhere] /\ able' = {}
      /\ tuned' = FALSE /\ cellSize' = cellSize /\ bins' = bins /\ order' = order /\ status' = status
      /\ entered' = entered /\ exits' = exits /\ listed' = listed
  BY DEF Solve
<1>3. now \subseteq BodyPairs
  BY DEF CollisionsType
<1>4. entered = previous /\ \A p \in BodyPairs : exits[p] = 0
  BY <1>2 DEF Story
<1>5. ASSUME NEW p \in BodyPairs
      PROVE  hits'[p] \in Hit /\ StoryTold(p)'
  <2>1. hits'[p] \in HitsOf(p, now)
    BY <1>1
  <2>2. CASE p \in now
    <3>1. PICK n \in 1..MaxHits : hits'[p] = [state |-> StateOf(p, now), left |-> n]
      BY <2>1, <2>2 DEF HitsOf
    <3>2. n \in Nat /\ n # 0
      BY DEF CollisionsAssumption
    <3>3. StateOf(p, now) = IF p \in previous THEN "stay" ELSE "enter"
      BY <2>2 DEF StateOf
    <3>4. hits'[p].left = n /\ hits'[p].state = IF p \in previous THEN "stay" ELSE "enter"
      BY <3>1, <3>3
    <3>5. hits'[p] \in Hit
      BY <3>1, <3>2, <3>3 DEF Hit
    <3> QED BY <1>1, <1>2, <1>4, <2>2, <3>2, <3>4, <3>5 DEF StoryTold
  <2>3. CASE p \notin now /\ p \in previous
    <3>1. hits'[p] = [state |-> "exit", left |-> IF p \in listed THEN 2 ELSE 1]
      BY <2>1, <2>3 DEF HitsOf, Ended, StateOf
    <3>2. hits'[p].state = "exit" /\ hits'[p].left = (IF p \in listed THEN 2 ELSE 1) /\ hits'[p] \in Hit
      BY <3>1 DEF Hit
    <3>3. hits'[p].left + exits'[p] = IF p \in listed' THEN 2 ELSE 1
      BY <1>2, <1>4, <3>2
    <3> QED BY <1>1, <1>2, <1>4, <2>3, <3>2, <3>3 DEF StoryTold
  <2>4. CASE p \notin now /\ p \notin previous
    <3>1. hits'[p] = NoHits
      BY <2>1, <2>4 DEF HitsOf, Ended
    <3> QED BY <1>1, <1>2, <1>4, <2>4, <3>1, NoHitsType DEF StoryTold
  <2> QED BY <2>2, <2>3, <2>4
<1>6. hits' \in [BodyPairs -> Hit]
  BY <1>1, <1>5
<1>7. CollisionsType'
  BY <1>1, <1>2, <1>3, <1>6 DEF CollisionsType, Cells, BodyPairs
<1>8. Filed' /\ Emptied' /\ PairsComplete'
  BY <1>2 DEF Filed, Emptied, PairsComplete, Cells
<1>9. misread' => \E p \in entered' : \E e \in p : ~Live(e)'
  BY <1>1, <1>2, <1>4 DEF Ended, Live
<1>10. Story'
  BY <1>2, <1>5, <1>9 DEF Story, BodyPairs
<1> QED BY <1>7, <1>8, <1>10

LEMMA CallbackFits ==
  ASSUME CollisionsInv, ~misread, NEW p \in BodyPairs, Callback(p)
  PROVE  CollisionsInv'
<1> USE DEF CollisionsInv
<1>1. /\ stage = "callbacks" /\ stage' = "callbacks" /\ hits[p].left > 0
      /\ box' = box /\ cellSize' = cellSize /\ bins' = bins /\ tuned' = tuned
      /\ order' = order /\ status' = status /\ able' = able /\ previous' = previous
      /\ misread' = misread /\ listed' = listed
      /\ hits' = [hits EXCEPT ![p].left = @ - 1]
      /\ entered' = CASE hits[p].state = "enter" -> entered \cup {p}
                      [] hits[p].state = "exit" -> entered \ {p}
                      [] OTHER -> entered
      /\ exits' = IF hits[p].state = "exit" THEN [exits EXCEPT ![p] = @ + 1] ELSE exits
  BY DEF Callback, spatialVars
<1>2. hits \in [BodyPairs -> Hit] /\ exits \in [BodyPairs -> Nat] /\ StoryTold(p)
  BY <1>1 DEF CollisionsType, Story
<1>3. hits[p] \in Hit /\ hits[p].left \in Nat /\ exits[p] \in Nat
      /\ hits[p].state \in {"none", "enter", "stay", "exit"}
  BY <1>2 DEF Hit
<1>4. hits'[p].left = hits[p].left - 1 /\ hits'[p].state = hits[p].state /\ hits'[p] \in Hit
  BY <1>1, <1>2, <1>3 DEF Hit
<1>5. \A q \in BodyPairs : q # p => hits'[q] = hits[q] /\ exits'[q] = exits[q] /\ (q \in entered' <=> q \in entered)
  BY <1>1, <1>2, <1>3
<1>6. exits'[p] = (IF hits[p].state = "exit" THEN exits[p] + 1 ELSE exits[p]) /\ exits' \in [BodyPairs -> Nat]
  BY <1>1, <1>2, <1>3
<1>7. hits' \in [BodyPairs -> Hit]
  BY <1>1, <1>2, <1>4, <1>5
<1>8. entered' \subseteq BodyPairs
  BY <1>1, <1>3 DEF CollisionsType
<1>9. CollisionsType'
  BY <1>1, <1>6, <1>7, <1>8 DEF CollisionsType, Cells, BodyPairs
<1>10. Filed' /\ Emptied' /\ PairsComplete'
  BY <1>1 DEF Filed, Emptied, PairsComplete, Cells
<1>11. StoryTold(p)'
  <2>1. CASE hits[p].state = "exit"
    <3>1. p \notin entered' /\ exits'[p] = exits[p] + 1 /\ exits'[p] # 0
      BY <1>1, <1>3, <1>6, <2>1
    <3>2. hits'[p].left + exits'[p] = hits[p].left + exits[p]
      BY <1>3, <1>4, <3>1
    <3>3. hits[p].left + exits[p] = IF p \in listed THEN 2 ELSE 1
      BY <1>2, <2>1 DEF StoryTold
    <3>4. p \notin previous'
      BY <1>1, <1>2, <2>1 DEF StoryTold
    <3> QED BY <1>1, <1>4, <2>1, <3>1, <3>2, <3>3, <3>4 DEF StoryTold
  <2>2. CASE hits[p].state = "enter"
    <3>1. p \in entered' /\ exits'[p] = exits[p]
      BY <1>1, <1>6, <2>2
    <3> QED BY <1>1, <1>2, <1>4, <2>2, <3>1 DEF StoryTold
  <2>3. CASE hits[p].state = "stay"
    <3>1. entered' = entered /\ exits'[p] = exits[p]
      BY <1>1, <1>6, <2>3
    <3> QED BY <1>1, <1>2, <1>4, <2>3, <3>1 DEF StoryTold
  <2>4. CASE hits[p].state = "none"
    <3>1. hits[p].left = 0
      BY <1>2, <2>4 DEF StoryTold
    <3> QED BY <1>1, <1>3, <3>1
  <2> QED BY <1>3, <2>1, <2>2, <2>3, <2>4
<1>12. ASSUME NEW q \in BodyPairs, q # p
       PROVE  StoryTold(q)'
  <2>1. StoryTold(q)
    BY <1>1 DEF Story
  <2>2. hits'[q] = hits[q] /\ exits'[q] = exits[q] /\ (q \in entered' <=> q \in entered)
    BY <1>5, <1>12
  <2> QED BY <1>1, <2>1, <2>2 DEF StoryTold
<1>13. Story'
  BY <1>1, <1>11, <1>12 DEF Story, BodyPairs
<1> QED BY <1>9, <1>10, <1>13

LEMMA FrameEndFits ==
  ASSUME CollisionsInv, ~misread, CollisionFrameEnds
  PROVE  CollisionsInv'
<1> USE DEF CollisionsInv
<1>1. /\ stage = "callbacks" /\ stage' = "scripts" /\ \A p \in BodyPairs : hits[p].left = 0
      /\ box' = box /\ cellSize' = cellSize /\ bins' = bins /\ tuned' = tuned
      /\ order' = order /\ able' = able /\ previous' = previous /\ misread' = misread
      /\ entered' = entered /\ listed' = {}
      /\ hits' = [p \in BodyPairs |-> NoHits] /\ exits' = [p \in BodyPairs |-> 0]
      /\ status' = [e \in Bodies |-> IF status[e] = "destroyed" THEN "freed" ELSE status[e]]
  BY DEF CollisionFrameEnds, spatialVars
<1>2. CollisionsType'
  BY <1>1, NoHitsType DEF CollisionsType, Cells, BodyPairs
<1>3. Filed' /\ Emptied' /\ PairsComplete'
  BY <1>1 DEF Filed, Emptied, PairsComplete, Cells
<1>4. ASSUME NEW p \in BodyPairs
      PROVE  p \in entered <=> p \in previous
  <2>1. StoryTold(p) /\ hits[p].left = 0 /\ exits[p] \in Nat /\ hits[p].state \in {"none", "enter", "stay", "exit"}
    BY <1>1 DEF Story, CollisionsType, Hit
  <2>2. CASE hits[p].state = "exit"
    <3>1. hits[p].left + exits[p] = (IF p \in listed THEN 2 ELSE 1)
          /\ p \notin previous /\ (p \in entered <=> exits[p] = 0)
      BY <2>1, <2>2 DEF StoryTold
    <3>2. exits[p] # 0
      BY <2>1, <3>1
    <3> QED BY <3>1, <3>2
  <2>3. CASE hits[p].state # "exit"
    BY <2>1, <2>3 DEF StoryTold
  <2> QED BY <2>2, <2>3
<1>5. entered = previous
  BY <1>4 DEF CollisionsType
<1>6. Story'
  BY <1>1, <1>5 DEF Story, BodyPairs
<1> QED BY <1>2, <1>3, <1>6

LEMMA StepFits ==
  ASSUME SpatialAssumption, CollisionsAssumption, CollisionsInv, [CollisionsNext]_collisionsVars
  PROVE  CollisionsInv'
<1>1. CASE UNCHANGED collisionsVars
  <2>1. ASSUME NEW p \in BodyPairs, StoryTold(p)
        PROVE  StoryTold(p)'
    BY <1>1, <2>1 DEF StoryTold, collisionsVars, frameVars, storyVars
  <2>2. Story'
    BY <1>1, <2>1 DEF CollisionsInv, Story, Live, collisionsVars, frameVars, storyVars, BodyPairs
  <2>3. CollisionsType' /\ Emptied'
    BY <1>1 DEF CollisionsInv, CollisionsType, Emptied, collisionsVars, spatialVars, frameVars, storyVars, Cells, BodyPairs
  <2>4. Filed'
    BY <1>1 DEF CollisionsInv, Filed, CellsOf, collisionsVars, spatialVars, frameVars, storyVars, Cells
  <2>5. PairsComplete'
    BY <1>1 DEF CollisionsInv, PairsComplete, Overlaps, CellsOf, Cells, collisionsVars, spatialVars, frameVars, storyVars, BodyPairs
  <2> QED BY <2>2, <2>3, <2>4, <2>5 DEF CollisionsInv
<1>2. CASE CollisionsNext
  BY <1>2, ScriptsFit, BeginFits, InsertFits, GetPairsFits, SolveFits, CallbackFits, FrameEndFits
     DEF CollisionsNext
<1> QED BY <1>1, <1>2
-----------------------------------------------------------------------------
(* The theorems.                                                            *)

(* Index, pairs and what scripts were told agree in every reachable state.  *)
THEOREM CollisionsInvariance == CollisionsSpec => []CollisionsInv
<1>1. CollisionsInit => CollisionsInv
  BY InitFits, SpatialAssumption
<1>2. CollisionsInv /\ [CollisionsNext]_collisionsVars => CollisionsInv'
  BY StepFits, SpatialAssumption, CollisionsAssumption
<1> QED BY <1>1, <1>2, PTL DEF CollisionsSpec

(* Type correctness, for any entities, bounds, cell sizes and grid.         *)
THEOREM CollisionsTypeCorrect == CollisionsSpec => []CollisionsTypeOK
<1>1. CollisionsInv => CollisionsTypeOK
  BY DEF CollisionsInv, CollisionsType, CollisionsTypeOK
<1> QED BY <1>1, CollisionsInvariance, PTL

(* spatial_index_get_pairs takes every pair of active entities that overlap *)
(* and may collide from the grid and its trees, however their bounds lie    *)
(* on the cells and wherever the walk that makes the trees comes after it   *)
(* has freed the node it stands on, except for what tuning and the trees    *)
(* lose; of the others it takes only what overlaps in one cell.             *)
THEOREM PairsAreComplete == CollisionsSpec => []PairsComplete
<1>1. CollisionsInv => PairsComplete
  BY DEF CollisionsInv
<1> QED BY <1>1, CollisionsInvariance, PTL

(* Scripts are told of the beginning and the end of each contact, in this   *)
(* order, whatever they do with the entities meanwhile.                     *)
THEOREM StoryIsConsistent == CollisionsSpec => []StoryConsistent
<1>1. ASSUME CollisionsInv
      PROVE  StoryConsistent
  <2> USE <1>1 DEF CollisionsInv
  <2>1. stage = "scripts" => entered = previous
    BY DEF Story
  <2>2. misread => \E p \in entered : \E e \in p : ~Live(e)
    BY DEF Story
  <2>3. ASSUME NEW p \in BodyPairs
        PROVE  /\ hits[p].state = "stay" => p \in entered
               /\ hits[p].state = "exit" /\ exits[p] = 0 => p \in entered
               /\ exits[p] > 1 => p \in listed /\ exits[p] = 2
    <3>1. CASE stage # "callbacks"
      BY <3>1, NoHitsType DEF Story
    <3>2. CASE stage = "callbacks"
      <4>1. StoryTold(p) /\ hits[p].left \in Nat /\ exits[p] \in Nat /\ hits[p].state \in {"none", "enter", "stay", "exit"}
        BY <3>2 DEF Story, CollisionsType, Hit
      <4>2. CASE hits[p].state = "exit"
        <5>1. hits[p].left + exits[p] = (IF p \in listed THEN 2 ELSE 1) /\ (p \in entered <=> exits[p] = 0)
          BY <4>1, <4>2 DEF StoryTold
        <5> QED BY <4>1, <4>2, <5>1
      <4>3. CASE hits[p].state # "exit"
        <5>1. exits[p] = 0
          BY <4>1, <4>3 DEF StoryTold
        <5> QED BY <4>1, <4>3, <5>1 DEF StoryTold
      <4> QED BY <4>2, <4>3
    <3> QED BY <3>1, <3>2
  <2> QED BY <2>1, <2>2, <2>3 DEF StoryConsistent
<1> QED BY <1>1, CollisionsInvariance, PTL
-----------------------------------------------------------------------------
(* Values.                                                                  *)

(* What the lists of fields of one kind have to do with each other.         *)
FieldsAgree(kind) ==
  /\ Given[kind] \subseteq Shown[kind] /\ Settable[kind] \subseteq Shown[kind]
  /\ Methods[kind] \subseteq Shown[kind] /\ Carried[kind] = Shown[kind]
  /\ Tells[kind] # {} => Settable[kind] \cup Methods[kind] \subseteq Tells[kind]
  /\ Spelled[kind] = Shown[kind] \ Palette
  /\ Readers[kind].needs \subseteq Spelled[kind]
  /\ Spelled[kind] \subseteq Readers[kind].needs \cup Readers[kind].may
  /\ Dispensable(kind) = Spelled[kind] \ Readers[kind].needs
  /\ kind = "style" => StyleProxied \subseteq Shown[kind]

LEMMA KindsAgree ==
  ASSUME NEW kind \in ValueKinds
  PROVE  FieldsAgree(kind)
<1> USE DEF FieldsAgree, Given, Shown, Settable, Methods, Tells, Carried, Spelled, Readers, Reader,
            Dispensable, XY, Palette, ThemeColors, AlertColors, BackgroundColors, TextColors,
            BorderColors, TooltipColors, MarkColors
<1>1. CASE kind = "color"
  BY <1>1 DEF ColorGiven, ColorShown, ColorSet, ColorMethods, ColorTells, ColorCopied, ColorWritten, ColorRead
<1>2. CASE kind = "point"
  BY <1>2 DEF PointGiven, PointShown, PointSet, PointTells, PointCopied, PointWritten, PointRead
<1>3. CASE kind = "rect"
  BY <1>3 DEF RectGiven, RectShown, RectSet, RectTells, RectCopied, RectWritten, RectRead
<1>4. CASE kind = "arc"
  BY <1>4 DEF ArcGiven, ArcShown, ArcSet, ArcCopied, ArcWritten, ArcRead
<1>5. CASE kind = "ray"
  BY <1>5 DEF RayGiven, RayShown, RaySet, RayMethods, RayCopied, RayWritten, RayRead
<1>6. CASE kind = "vector"
  BY <1>6 DEF VectorGiven, VectorShown, VectorSet, VectorMethods, VectorCopied, VectorWritten, VectorRead
<1>7. CASE kind = "uuid"
  BY <1>7 DEF UuidGiven, UuidShown, UuidSet, UuidMethods, UuidCopied, UuidWritten, UuidRead
<1>8. CASE kind = "style"
  BY <1>8 DEF StyleShown, StyleSet, StyleProxied, StyleCopied, StyleWritten, StyleRead, StyleMeasures
<1> QED BY <1>1, <1>2, <1>3, <1>4, <1>5, <1>6, <1>7, <1>8, ValuesAssumption

(* What a watcher saw. *)
Views(kind) == [who : Watchers, saw : SUBSET Shown[kind]]

(* The value a behaviour follows. *)
ValueOK(v) ==
  /\ v = [kind |-> v.kind, away |-> v.away, views |-> v.views, tinted |-> v.tinted, by |-> v.by,
          source |-> v.source]
  /\ v.kind \in ValueKinds /\ v.by \in {"script", "copy", "JSON", "refused"}
  /\ v.away \subseteq Shown[v.kind] /\ v.views \in Seq(Views(v.kind))
  /\ v.views # <<>> => Tells[v.kind] # {}
  /\ \A i \in DOMAIN v.views :
       (v.views[i].saw \ v.away) \cup (v.away \ v.views[i].saw) \subseteq v.tinted
  /\ v.by = "copy" => v.away = v.source
  /\ v.by = "JSON" => /\ v.away = v.source.source \ (v.source.lost \cup Palette)
                      /\ v.source.lost \subseteq Dispensable(v.kind)
  /\ v.by = "refused" /\ v.source.kind = v.kind => v.source.lost \ Dispensable(v.kind) # {}

(* Its JSON. *)
TextOK(t) ==
  /\ t = [kind |-> t.kind, lost |-> t.lost, away |-> t.away, source |-> t.source]
  /\ t.kind \in ValueKinds /\ t.lost \subseteq Spelled[t.kind]
  /\ t.source \subseteq Shown[t.kind] /\ t.away = t.source \cap Spelled[t.kind]

ValuesInv == (value # NoValue => ValueOK(value)) /\ (text # NoValue => TextOK(text))

LEMMA NewValueOK ==
  ASSUME NEW kind \in ValueKinds, NEW away \in SUBSET Shown[kind], NEW by, NEW source,
         by \in {"script", "copy"}, by = "copy" => away = source
  PROVE  ValueOK(Value(kind, away, by, source))
<1>1. <<>> \in Seq(Views(kind))
  BY EmptySeq
<1> QED BY <1>1 DEF ValueOK, Value

(* What a script changes through a setter, all watchers see. *)
LEMMA ChangedOK ==
  ASSUME ValueOK(value), NEW fields, NEW away \in SUBSET Shown[value.kind],
         fields # {}, fields \subseteq Settable[value.kind] \cup Methods[value.kind]
  PROVE  ValueOK(Changed(fields, away))
<1> DEFINE k == value.kind
           vs == value.views
           ts == Told(vs, away)
           c == Changed(fields, away)
<1>1. k \in ValueKinds /\ FieldsAgree(k)
  BY KindsAgree DEF ValueOK
<1>2. vs \in Seq(Views(k))
  BY DEF ValueOK
<1>3. Len(vs) \in Nat /\ DOMAIN vs = 1..Len(vs) /\ \A i \in 1..Len(vs) : vs[i] \in Views(k)
  <2> HIDE DEF vs, k
  <2> QED BY <1>2, LenProperties
<1>4. /\ ts \in Seq(Views(k)) /\ DOMAIN ts = DOMAIN vs
      /\ \A i \in DOMAIN ts : ts[i].saw = away
  <2>1. \A i \in 1..Len(vs) : [vs[i] EXCEPT !.saw = away] \in Views(k) /\ [vs[i] EXCEPT !.saw = away].saw = away
    BY <1>3 DEF Views
  <2>2. ts \in [1..Len(vs) -> Views(k)]
    BY <1>3, <2>1 DEF Told
  <2>3. ts \in Seq(Views(k))
    <3> HIDE DEF ts, k
    <3> QED BY <1>3, <2>2, SeqDef
  <2> QED BY <1>3, <2>1, <2>3 DEF Told
<1>5. vs = <<>> => ts = <<>>
  BY DEF Told
<1>6. /\ c.kind = k /\ c.away = away /\ c.by = "script" /\ c.source = <<>>
      /\ c = [kind |-> c.kind, away |-> c.away, views |-> c.views, tinted |-> c.tinted, by |-> c.by,
              source |-> c.source]
      /\ c.views = (IF fields \cap Tells[k] # {} THEN ts ELSE vs)
  <2>1. PICK kk, aa, ww, tt, bb, ss :
          value = [kind |-> kk, away |-> aa, views |-> ww, tinted |-> tt, by |-> bb, source |-> ss]
    BY DEF ValueOK
  <2> DEFINE views == IF fields \cap Tells[k] # {} THEN ts ELSE vs
             tinted == IF fields \cap Tells[k] # {} THEN {} ELSE value.tinted
  <2>2. c = [value EXCEPT !.away = away, !.by = "script", !.source = <<>>, !.views = views, !.tinted = tinted]
    BY DEF Changed
  <2>3. views = (IF fields \cap Tells[k] # {} THEN ts ELSE vs) /\ k = value.kind
    OBVIOUS
  <2> HIDE DEF c, ts, views, tinted, k
  <2>4. c = [kind |-> kk, away |-> away, views |-> views, tinted |-> tinted, by |-> "script", source |-> <<>>]
    BY <2>1, <2>2
  <2>5. kk = value.kind
    BY <2>1
  <2> QED BY <2>3, <2>4, <2>5
<1>7. vs # <<>> => fields \cap Tells[k] # {}
  BY <1>1 DEF ValueOK, FieldsAgree
<1>8. c.views = ts
  BY <1>5, <1>6, <1>7
<1>9. c.views # <<>> => Tells[k] # {}
  BY <1>5, <1>8 DEF ValueOK
<1> HIDE DEF c, ts, vs
<1>10. \A i \in DOMAIN c.views : (c.views[i].saw \ c.away) \cup (c.away \ c.views[i].saw) \subseteq c.tinted
  BY <1>4, <1>6, <1>8
<1>11. c.kind \in ValueKinds /\ c.away \subseteq Shown[c.kind] /\ c.views \in Seq(Views(c.kind))
       /\ (c.views # <<>> => Tells[c.kind] # {})
  BY <1>1, <1>4, <1>6, <1>8, <1>9
<1>12. c.by = "script"
  BY <1>6
<1>13. /\ c.by \in {"script", "copy", "JSON", "refused"} /\ c.by # "copy" /\ c.by # "JSON" /\ c.by # "refused"
       /\ c = [kind |-> c.kind, away |-> c.away, views |-> c.views, tinted |-> c.tinted, by |-> c.by,
               source |-> c.source]
  BY <1>6, <1>12
<1>14. ValueOK(c)
  BY <1>10, <1>11, <1>13 DEF ValueOK
<1> QED BY <1>14 DEF c

(* Whoever comes out of JSON.                                               *)
LEMMA ReadOK ==
  ASSUME text # NoValue, TextOK(text), NEW kind \in ValueKinds, ReadValue(kind)
  PROVE  ValueOK(value')
<1> DEFINE known == KeysLeft \cap (Readers[kind].needs \cup Readers[kind].may)
<1>1. FieldsAgree(kind) /\ <<>> \in Seq(Views(kind))
  BY KindsAgree, EmptySeq
<1>2. CASE Readable(kind)
  <2>1. text.kind = kind /\ Readers[kind].needs \subseteq Spelled[kind] \ text.lost
    BY <1>2 DEF Readable, KeysLeft
  <2>2. value' = Value(kind, text.away \cap known, "JSON", text)
    BY <1>2 DEF ReadValue
  <2>3. text.away \cap known = text.source \ (text.lost \cup Palette)
    BY <1>1, <2>1 DEF TextOK, FieldsAgree, KeysLeft
  <2>4. text.lost \subseteq Dispensable(kind) /\ text.away \cap known \subseteq Shown[kind]
    BY <1>1, <2>1 DEF TextOK, FieldsAgree, KeysLeft
  <2> HIDE DEF known
  <2> QED BY <1>1, <2>2, <2>3, <2>4 DEF ValueOK, Value
<1>3. CASE ~Readable(kind)
  <2>1. value' = Value(kind, {}, "refused", text)
    BY <1>3 DEF ReadValue
  <2>2. text.kind = kind => text.lost \ Dispensable(kind) # {}
    BY <1>1, <1>3 DEF Readable, KeysLeft, FieldsAgree
  <2> QED BY <1>1, <2>1, <2>2 DEF ValueOK, Value
<1> QED BY <1>2, <1>3

LEMMA ValuesInductive == ValuesInv /\ [ValuesNext]_valuesVars => ValuesInv'
<1> SUFFICES ASSUME ValuesInv, [ValuesNext]_valuesVars
             PROVE  ValuesInv'
  OBVIOUS
<1> DEFINE alive == value # NoValue /\ ValueOK(value)
<1>1. ASSUME NEW kind \in ValueKinds, NEW away \in SUBSET Given[kind], NewValue(kind, away)
      PROVE  ValuesInv'
  <2>1. away \in SUBSET Shown[kind]
    BY KindsAgree DEF FieldsAgree
  <2>2. ValueOK(Value(kind, away, "script", <<>>))
    BY <2>1, NewValueOK
  <2> QED BY <1>1, <2>2 DEF NewValue, ValuesInv
<1>2. ASSUME NEW kind \in ValueKinds, ReadValue(kind)
      PROVE  ValuesInv'
  <2>1. text # NoValue /\ TextOK(text) /\ text' = NoValue
    BY <1>2 DEF ReadValue, ValuesInv
  <2>2. ValueOK(value')
    BY <1>2, <2>1, ReadOK
  <2> QED BY <2>1, <2>2 DEF ValuesInv
<1>3. ASSUME alive, NEW f \in Settable[value.kind], SetField(f)
      PROVE  ValuesInv'
  <2>1. Toggled(value.away, f) \in SUBSET Shown[value.kind]
    BY <1>3, KindsAgree DEF FieldsAgree, Toggled, ValueOK
  <2>2. ValueOK(Changed({f}, Toggled(value.away, f)))
    <3>1. {f} # {} /\ {f} \subseteq Settable[value.kind] \cup Methods[value.kind]
      OBVIOUS
    <3> QED BY <1>3, <2>1, <3>1, ChangedOK
  <2> QED BY <1>3, <2>2 DEF SetField, ValuesInv
<1>4. ASSUME alive, NEW away, CallMethod(away)
      PROVE  ValuesInv'
  <2> DEFINE now == (value.away \ Methods[value.kind]) \cup away
  <2>1. now \in SUBSET Shown[value.kind] /\ Methods[value.kind] # {}
    BY <1>4, KindsAgree DEF FieldsAgree, CallMethod, ValueOK
  <2>2. ValueOK(Changed(Methods[value.kind], now))
    <3>1. Methods[value.kind] \subseteq Settable[value.kind] \cup Methods[value.kind]
      OBVIOUS
    <3> HIDE DEF now
    <3> QED BY <1>4, <2>1, <3>1, ChangedOK
  <2> QED BY <1>4, <2>2 DEF CallMethod, ValuesInv
<1>5. ASSUME alive, NEW f, Tint(f)
      PROVE  ValuesInv'
  <2>1. FieldsAgree(value.kind) /\ f \in Shown[value.kind]
    BY <1>5, KindsAgree DEF ValueOK, Tint, FieldsAgree
  <2>2. Toggled(value.away, f) \subseteq Shown[value.kind]
    BY <1>5, <2>1 DEF Toggled, ValueOK
  <2> DEFINE v == [value EXCEPT !.away = Toggled(@, f), !.by = "script", !.source = <<>>,
                                !.tinted = @ \cup {f}]
  <2>3. /\ v.kind = value.kind /\ v.away = Toggled(value.away, f) /\ v.views = value.views
        /\ v.tinted = value.tinted \cup {f} /\ v.by = "script" /\ v.source = <<>>
        /\ v = [kind |-> v.kind, away |-> v.away, views |-> v.views, tinted |-> v.tinted, by |-> v.by,
                source |-> v.source]
    <3>1. PICK kk, aa, ww, tt, bb, ss :
            value = [kind |-> kk, away |-> aa, views |-> ww, tinted |-> tt, by |-> bb, source |-> ss]
      BY <1>5 DEF ValueOK
    <3> DEFINE away == Toggled(value.away, f)
               tinted == value.tinted \cup {f}
    <3>2. v = [value EXCEPT !.away = away, !.by = "script", !.source = <<>>, !.tinted = tinted]
          /\ away = Toggled(value.away, f) /\ tinted = value.tinted \cup {f}
      OBVIOUS
    <3> HIDE DEF v, away, tinted
    <3>3. v = [kind |-> kk, away |-> away, views |-> ww, tinted |-> tinted, by |-> "script", source |-> <<>>]
      BY <3>1, <3>2
    <3> QED BY <3>1, <3>2, <3>3
  <2>4. \A i \in DOMAIN v.views :
          (v.views[i].saw \ v.away) \cup (v.away \ v.views[i].saw) \subseteq v.tinted
    BY <1>5, <2>3 DEF ValueOK, Toggled
  <2>5. value' = v /\ UNCHANGED text
    BY <1>5 DEF Tint
  <2> HIDE DEF v
  <2>6. ValueOK(v)
    BY <1>5, <2>2, <2>3, <2>4 DEF ValueOK
  <2> QED BY <2>5, <2>6 DEF ValuesInv
<1>6. ASSUME alive, NEW w \in Watchers, AddWatcher(w)
      PROVE  ValuesInv'
  <2> DEFINE e == [who |-> w, saw |-> value.away]
             vs == Append(value.views, e)
             v == [value EXCEPT !.views = vs]
  <2>1. e \in Views(value.kind) /\ value.views \in Seq(Views(value.kind)) /\ Tells[value.kind] # {}
    BY <1>6 DEF ValueOK, Views, AddWatcher
  <2>2. /\ vs \in Seq(Views(value.kind)) /\ DOMAIN vs = 1..(Len(value.views) + 1)
        /\ vs[Len(value.views) + 1] = e /\ \A i \in 1..Len(value.views) : vs[i] = value.views[i]
        /\ Len(value.views) \in Nat /\ DOMAIN value.views = 1..Len(value.views)
    <3> HIDE DEF e
    <3> QED BY <2>1, AppendProperties, LenProperties
  <2>3. /\ v.kind = value.kind /\ v.away = value.away /\ v.views = vs
        /\ v.tinted = value.tinted /\ v.by = value.by /\ v.source = value.source
        /\ v = [kind |-> v.kind, away |-> v.away, views |-> v.views, tinted |-> v.tinted, by |-> v.by,
                source |-> v.source]
    <3>1. PICK kk, aa, ww, tt, bb, ss :
            value = [kind |-> kk, away |-> aa, views |-> ww, tinted |-> tt, by |-> bb, source |-> ss]
      BY <1>6 DEF ValueOK
    <3> HIDE DEF vs
    <3>2. v = [kind |-> kk, away |-> aa, views |-> vs, tinted |-> tt, by |-> bb, source |-> ss]
      BY <3>1
    <3> HIDE DEF v
    <3> QED BY <3>1, <3>2
  <2>4. e.saw = value.away
    OBVIOUS
  <2>5. value' = v /\ UNCHANGED text
    BY <1>6 DEF AddWatcher
  <2> HIDE DEF v, vs, e
  <2>6. \A i \in DOMAIN v.views :
          (v.views[i].saw \ v.away) \cup (v.away \ v.views[i].saw) \subseteq v.tinted
    BY <1>6, <2>2, <2>3, <2>4 DEF ValueOK
  <2>7. ValueOK(v)
    BY <1>6, <2>1, <2>2, <2>3, <2>6 DEF ValueOK
  <2> QED BY <2>5, <2>7 DEF ValuesInv
<1>7. ASSUME alive, NEW w, RemoveWatcher(w)
      PROVE  ValuesInv'
  <2>1. PICK k \in DOMAIN value.views : value' = [value EXCEPT !.views = RemoveAt(@, k)] /\ UNCHANGED text
    BY <1>7 DEF RemoveWatcher
  <2>2. value.views \in Seq(Views(value.kind)) /\ DOMAIN value.views = 1..Len(value.views)
        /\ k \in 1..Len(value.views) /\ Len(value.views) \in Nat
    BY <1>7, <2>1 DEF ValueOK
  <2> DEFINE vs == RemoveAt(value.views, k)
             v == [value EXCEPT !.views = vs]
  <2>3. /\ vs \in Seq(Views(value.kind)) /\ Len(vs) = Len(value.views) - 1 /\ DOMAIN vs = 1..Len(vs)
        /\ \A i \in 1..(Len(value.views) - 1) : vs[i] = value.views[IF i < k THEN i ELSE i + 1]
    BY <2>2, RemovedIs, LenProperties
  <2>4. /\ v.kind = value.kind /\ v.away = value.away /\ v.views = vs
        /\ v.tinted = value.tinted /\ v.by = value.by /\ v.source = value.source
        /\ v = [kind |-> v.kind, away |-> v.away, views |-> v.views, tinted |-> v.tinted, by |-> v.by,
                source |-> v.source]
    <3>1. PICK kk, aa, ww, tt, bb, ss :
            value = [kind |-> kk, away |-> aa, views |-> ww, tinted |-> tt, by |-> bb, source |-> ss]
      BY <1>7 DEF ValueOK
    <3> HIDE DEF vs
    <3>2. v = [kind |-> kk, away |-> aa, views |-> vs, tinted |-> tt, by |-> bb, source |-> ss]
      BY <3>1
    <3> HIDE DEF v
    <3> QED BY <3>1, <3>2
  <2>5. value' = v
    BY <2>1
  <2> HIDE DEF v, vs
  <2>6. \A i \in DOMAIN v.views :
          (v.views[i].saw \ v.away) \cup (v.away \ v.views[i].saw) \subseteq v.tinted
    <3> TAKE i \in DOMAIN v.views
    <3>1. i \in 1..(Len(value.views) - 1) /\ v.views = vs
      BY <2>3, <2>4
    <3> DEFINE j == IF i < k THEN i ELSE i + 1
    <3>2. j \in DOMAIN value.views
      BY <2>2, <3>1
    <3>3. v.views[i] = value.views[j]
      BY <2>3, <3>1
    <3> HIDE DEF j
    <3>4. (value.views[j].saw \ value.away) \cup (value.away \ value.views[j].saw) \subseteq value.tinted
      BY <1>7, <3>2 DEF ValueOK
    <3> QED BY <2>4, <3>3, <3>4
  <2>7. value.views # <<>>
    BY <2>2
  <2>8. ValueOK(v)
    BY <1>7, <2>3, <2>4, <2>6, <2>7 DEF ValueOK
  <2> QED BY <2>1, <2>5, <2>8 DEF ValuesInv
<1>8. ASSUME alive, CopyValue
      PROVE  ValuesInv'
  <2>1. value.away \cap Carried[value.kind] = value.away
    BY <1>8, KindsAgree DEF FieldsAgree, ValueOK
  <2>2. ValueOK(Value(value.kind, value.away, "copy", value.away))
    <3>1. value.kind \in ValueKinds /\ value.away \in SUBSET Shown[value.kind]
      BY <1>8 DEF ValueOK
    <3> QED BY <3>1, NewValueOK
  <2> QED BY <1>8, <2>1, <2>2 DEF CopyValue, ValuesInv
<1>9. ASSUME alive, WriteValue
      PROVE  ValuesInv'
  <2>1. TextOK(text')
    BY <1>9 DEF WriteValue, TextOK, ValueOK
  <2> QED BY <1>9, <2>1 DEF WriteValue, ValuesInv
<1>10. ASSUME NEW key \in Spelled[text.kind], text # NoValue, LoseKey(key)
       PROVE  ValuesInv'
  <2>1. TextOK(text')
    BY <1>10 DEF LoseKey, TextOK, ValuesInv
  <2> QED BY <1>10, <2>1 DEF LoseKey, ValuesInv
<1>11. CASE ForgetValue
  BY <1>11 DEF ForgetValue, ValuesInv
<1>12. CASE UNCHANGED valuesVars
  BY <1>12 DEF valuesVars, ValuesInv
<1>13. value # NoValue => alive
  BY DEF ValuesInv
<1> HIDE DEF alive
<1> QED BY <1>1, <1>2, <1>3, <1>4, <1>5, <1>6, <1>7, <1>8, <1>9, <1>10, <1>11, <1>12, <1>13 DEF ValuesNext

(* The inductive invariant of values, their watchers and their JSON.        *)
THEOREM ValuesInvariance == ValuesSpec => []ValuesInv
<1>1. ValuesInit => ValuesInv
  BY DEF ValuesInit, ValuesInv
<1> QED BY <1>1, ValuesInductive, PTL DEF ValuesSpec

(* Type correctness of values.                                              *)
THEOREM ValuesTypeCorrect == ValuesSpec => []ValuesTypeOK
<1>1. ValuesInv => ValuesTypeOK
  BY DEF ValuesInv, ValuesTypeOK, ValueOK, TextOK
<1> QED BY <1>1, ValuesInvariance, PTL

(* Values are seen by all, and come back whole.                             *)
THEOREM ValuesAreKept == ValuesSpec => []ValuesKept
<1>1. ValuesInv => ValuesKept
  BY DEF ValuesInv, ValuesKept, SeenByAll, ComesBackWhole, ValueOK
<1> QED BY <1>1, ValuesInvariance, PTL
-----------------------------------------------------------------------------
(* Input.                                                                   *)

(* What an input state says of a key and of a button, compared with the     *)
(* hands and with what scripts saw in the frame before.                     *)
KeyEdges(i, k) ==
  /\ k \in i.keys_down <=> k \in hands.keys
  /\ (k \in i.keys_down /\ k \notin before.keys) => k \in i.keys_pressed
  /\ (k \in before.keys /\ k \notin i.keys_down) => k \in i.keys_released
  /\ (k \in i.keys_pressed /\ k \notin i.keys_released) => k \in i.keys_down
  /\ (k \in i.keys_down /\ k \in before.keys /\ k \in i.keys_pressed /\ host = "glfw") => k \in i.keys_released
  /\ (k \notin i.keys_down /\ k \notin before.keys) => (k \in i.keys_pressed <=> k \in i.keys_released)

ButtonEdges(i, b) ==
  /\ b \in i.mouse_down <=> b \in hands.buttons
  /\ (b \in i.mouse_down /\ b \notin before.buttons) => b \in i.mouse_clicked
  /\ (b \in before.buttons /\ b \notin i.mouse_down) => b \in i.mouse_released
  /\ (b \in i.mouse_clicked /\ b \in before.buttons) => b \in i.mouse_released

InputEdges(i) == (\A k \in PlainKeys : KeyEdges(i, k)) /\ \A b \in Buttons : ButtonEdges(i, b)

(* The platform's state has nothing new since this one was copied from it.  *)
NothingNew(i) ==
  /\ front.keys_down = i.keys_down /\ front.mouse_down = i.mouse_down
  /\ front.keys_pressed = {} /\ front.keys_released = {}
  /\ front.mouse_clicked = {} /\ front.mouse_released = {}

(* What each stage of the loop has in hand. *)
WhilePolling ==
  turn = "poll" => /\ owed = front.scroll /\ front.scroll \in 0..events
                   /\ ~win.made => owed = 0
                   /\ win.made \/ ~win.should => InputEdges(front)

OnceShown ==
  turn = "shown" => /\ front.scroll = 0 /\ owed = out.scroll
                    /\ win.made => NothingNew(out) /\ InputEdges(out)
                    /\ win.made \/ win.should
                    /\ out = NoInput \/ InputEdges(out)

WhileScripts ==
  turn = "scripts" => /\ front.scroll = 0 /\ owed = 0
                      /\ win.made => NothingNew(told) /\ InputEdges(told)
                      /\ win.made \/ win.should
                      /\ told = NoInput \/ InputEdges(told)

HandsOK == hands \in [keys : SUBSET (PlainKeys \cup {"caps"} \cup Unmapped), buttons : SUBSET Buttons]

InputInv == InputTypeOK /\ HandsOK /\ WhilePolling /\ OnceShown /\ WhileScripts

LEMMA InputStarts == InputInit => InputInv
<1> SUFFICES ASSUME InputInit PROVE InputInv
  OBVIOUS
<1>1. NoInput \in Inputs /\ 0 \in -MaxEvents .. MaxEvents /\ 0 \in 0..MaxEvents
  <2>1. MaxEvents \in Nat
    BY InputAssumption
  <2>2. 0 \in -MaxEvents .. MaxEvents /\ 0 \in 0..MaxEvents
    BY <2>1
  <2> QED BY <2>2 DEF NoInput, Inputs
<1>2. InputTypeOK
  BY <1>1 DEF InputInit, InputTypeOK
<1>3. InputEdges(front)
  BY DEF InputInit, InputEdges, KeyEdges, ButtonEdges, NoInput
<1> QED BY <1>2, <1>3 DEF InputInit, InputInv, HandsOK, WhilePolling, OnceShown, WhileScripts, NoInput

(* The bits of an event change modifiers only.                              *)
LEMMA ModifiedIs ==
  ASSUME InputTypeOK, NEW mods \in Mods
  PROVE  /\ Modified(front, mods) \in Inputs
         /\ \A k \in PlainKeys : k \in Modified(front, mods).keys_down <=> k \in front.keys_down
         /\ Modified(front, mods) = [front EXCEPT !.keys_down = Modified(front, mods).keys_down]
<1>1. mods \subseteq Modifiers \cup {"caps"} /\ front \in Inputs
  BY DEF Mods, InputTypeOK
<1>2. \A k \in PlainKeys : k \notin Modifiers \cup {"caps"}
  BY InputAssumption
<1> QED BY <1>1, <1>2 DEF Modified, Inputs

(* An event while the loop polls. *)
LEMMA PressKeyKeeps ==
  ASSUME InputInv, NEW mods \in Mods, NEW k \in PlainKeys \cup {"caps"} \cup Unmapped, PressKey(k, mods)
  PROVE  InputInv'
<1> DEFINE i == Modified(front, mods)
<1>1. i \in Inputs /\ front \in Inputs /\ \A p \in PlainKeys : p \in i.keys_down <=> p \in front.keys_down
  BY ModifiedIs DEF InputInv, InputTypeOK
<1>2. i = [front EXCEPT !.keys_down = i.keys_down]
  BY ModifiedIs DEF InputInv
<1>3. /\ i.keys_pressed = front.keys_pressed /\ i.keys_released = front.keys_released
      /\ i.mouse_down = front.mouse_down /\ i.mouse_clicked = front.mouse_clicked
      /\ i.mouse_released = front.mouse_released /\ i.scroll = front.scroll
  <2> HIDE DEF i
  <2> QED BY <1>1, <1>2 DEF Inputs
<1>4. /\ front' = (IF k \notin Unmapped /\ (host = "mac" \/ k \notin hands.keys)
                   THEN [i EXCEPT !.keys_down = @ \cup {k}, !.keys_pressed = @ \cup {k}]
                   ELSE i)
      /\ hands' = [hands EXCEPT !.keys = @ \cup {k}] /\ events' = events + 1
      /\ UNCHANGED <<host, win, out, told, table, turn, before, owed>>
      /\ win.made /\ turn = "poll" /\ events < MaxEvents
  BY DEF PressKey, Polling
<1> HIDE DEF i
<1>5. front' \in Inputs
  BY <1>1, <1>4 DEF Inputs, Unmapped
<1>6. /\ front'.mouse_down = front.mouse_down /\ front'.mouse_clicked = front.mouse_clicked
      /\ front'.mouse_released = front.mouse_released /\ front'.scroll = front.scroll
      /\ front'.keys_released = front.keys_released
  BY <1>1, <1>3, <1>4 DEF Inputs
<1>7. MaxEvents \in Nat /\ events \in 0..MaxEvents /\ owed \in -MaxEvents .. MaxEvents /\ PlainKeys \cap Unmapped = {}
      /\ owed = front.scroll /\ front.scroll \in 0..events /\ InputEdges(front)
  BY <1>4, InputAssumption DEF InputInv, InputTypeOK, Unmapped, WhilePolling
<1>8. win' = win /\ turn' = turn /\ before' = before /\ host' = host
  BY <1>4
<1>9. InputTypeOK'
  <2>1. events' \in 0..MaxEvents /\ owed' \in -MaxEvents .. MaxEvents
    BY <1>4, <1>7
  <2>2. host' \in Hosts /\ win' \in [made : BOOLEAN, asked : BOOLEAN, should : BOOLEAN] /\ table' \in MouseTables \cup {"none"}
        /\ turn' \in {"poll", "shown", "scripts"} /\ {out', told'} \subseteq Inputs
        /\ before'.keys \subseteq PlainKeys \cup Modifiers \cup {"caps"} /\ before'.buttons \subseteq Buttons
    BY <1>4 DEF InputInv, InputTypeOK
  <2> QED BY <1>5, <2>1, <2>2 DEF InputTypeOK
<1>10. HandsOK' /\ hands'.keys = hands.keys \cup {k} /\ hands'.buttons = hands.buttons
  BY <1>4 DEF InputInv, HandsOK
<1>11. ASSUME NEW p \in PlainKeys
       PROVE  KeyEdges(front, p)'
  <2>1. KeyEdges(front, p)
    BY <1>7 DEF InputEdges
  <2>2. CASE p # k
    <3>1. (p \in front'.keys_down <=> p \in front.keys_down) /\ (p \in front'.keys_pressed <=> p \in front.keys_pressed)
      BY <1>1, <1>3, <1>4, <2>2 DEF Inputs
    <3> QED BY <1>6, <1>8, <1>10, <2>1, <2>2, <3>1 DEF KeyEdges
  <2>3. CASE p = k /\ ~(host = "mac" \/ k \notin hands.keys)
    <3>1. host = "glfw" /\ k \in hands.keys /\ front' = i
      BY <1>4, <2>3, InputAssumption DEF InputInv, InputTypeOK
    <3> QED BY <1>1, <1>3, <1>6, <1>8, <1>10, <2>1, <2>3, <3>1 DEF KeyEdges
  <2>4. CASE p = k /\ (host = "mac" \/ k \notin hands.keys)
    <3>1. k \in front'.keys_down /\ k \in front'.keys_pressed
      BY <1>1, <1>4, <1>7, <2>4 DEF Inputs
    <3> QED BY <1>6, <1>8, <1>10, <2>1, <2>4, <3>1 DEF KeyEdges
  <2> QED BY <2>2, <2>3, <2>4
<1>12. \A b \in Buttons : ButtonEdges(front, b)'
  BY <1>6, <1>7, <1>8, <1>10 DEF InputEdges, ButtonEdges
<1>13. InputEdges(front)'
  BY <1>11, <1>12 DEF InputEdges, Buttons
<1>14. WhilePolling'
  BY <1>4, <1>6, <1>7, <1>13 DEF WhilePolling
<1> QED BY <1>4, <1>9, <1>10, <1>14 DEF InputInv, OnceShown, WhileScripts

LEMMA ReleaseKeyKeeps ==
  ASSUME InputInv, NEW mods \in Mods, NEW k \in PlainKeys \cup {"caps"} \cup Unmapped, ReleaseKey(k, mods)
  PROVE  InputInv'
<1> DEFINE i == Modified(front, mods)
<1>1. i \in Inputs /\ front \in Inputs /\ \A p \in PlainKeys : p \in i.keys_down <=> p \in front.keys_down
  BY ModifiedIs DEF InputInv, InputTypeOK
<1>2. i = [front EXCEPT !.keys_down = i.keys_down]
  BY ModifiedIs DEF InputInv
<1>3. /\ i.keys_pressed = front.keys_pressed /\ i.keys_released = front.keys_released
      /\ i.mouse_down = front.mouse_down /\ i.mouse_clicked = front.mouse_clicked
      /\ i.mouse_released = front.mouse_released /\ i.scroll = front.scroll
  <2> HIDE DEF i
  <2> QED BY <1>1, <1>2 DEF Inputs
<1>4. /\ front' = (IF k \in Unmapped THEN i
                   ELSE [i EXCEPT !.keys_down = @ \ {k}, !.keys_released = @ \cup {k}])
      /\ hands' = [hands EXCEPT !.keys = @ \ {k}] /\ events' = events + 1 /\ k \in hands.keys
      /\ UNCHANGED <<host, win, out, told, table, turn, before, owed>>
      /\ win.made /\ turn = "poll" /\ events < MaxEvents
  BY DEF ReleaseKey, Polling
<1> HIDE DEF i
<1>5. front' \in Inputs
  BY <1>1, <1>4 DEF Inputs, Unmapped
<1>6. /\ front'.mouse_down = front.mouse_down /\ front'.mouse_clicked = front.mouse_clicked
      /\ front'.mouse_released = front.mouse_released /\ front'.scroll = front.scroll
      /\ front'.keys_pressed = front.keys_pressed
  BY <1>1, <1>3, <1>4 DEF Inputs
<1>7. MaxEvents \in Nat /\ events \in 0..MaxEvents /\ owed \in -MaxEvents .. MaxEvents /\ PlainKeys \cap Unmapped = {}
      /\ owed = front.scroll /\ front.scroll \in 0..events /\ InputEdges(front)
  BY <1>4, InputAssumption DEF InputInv, InputTypeOK, Unmapped, WhilePolling
<1>8. win' = win /\ turn' = turn /\ before' = before /\ host' = host
  BY <1>4
<1>9. InputTypeOK'
  <2>1. events' \in 0..MaxEvents /\ owed' \in -MaxEvents .. MaxEvents
    BY <1>4, <1>7
  <2>2. host' \in Hosts /\ win' \in [made : BOOLEAN, asked : BOOLEAN, should : BOOLEAN] /\ table' \in MouseTables \cup {"none"}
        /\ turn' \in {"poll", "shown", "scripts"} /\ {out', told'} \subseteq Inputs
        /\ before'.keys \subseteq PlainKeys \cup Modifiers \cup {"caps"} /\ before'.buttons \subseteq Buttons
    BY <1>4 DEF InputInv, InputTypeOK
  <2> QED BY <1>5, <2>1, <2>2 DEF InputTypeOK
<1>10. HandsOK' /\ hands'.keys = hands.keys \ {k} /\ hands'.buttons = hands.buttons
  BY <1>4 DEF InputInv, HandsOK
<1>11. ASSUME NEW p \in PlainKeys
       PROVE  KeyEdges(front, p)'
  <2>1. KeyEdges(front, p)
    BY <1>7 DEF InputEdges
  <2>2. CASE p # k
    <3>1. (p \in front'.keys_down <=> p \in front.keys_down) /\ (p \in front'.keys_released <=> p \in front.keys_released)
      BY <1>1, <1>3, <1>4, <2>2 DEF Inputs
    <3> QED BY <1>6, <1>8, <1>10, <2>1, <2>2, <3>1 DEF KeyEdges
  <2>3. CASE p = k
    <3>1. k \notin front'.keys_down /\ k \in front'.keys_released
      BY <1>1, <1>4, <1>7, <2>3 DEF Inputs
    <3> QED BY <1>4, <1>6, <1>8, <1>10, <2>1, <2>3, <3>1 DEF KeyEdges
  <2> QED BY <2>2, <2>3
<1>12. \A b \in Buttons : ButtonEdges(front, b)'
  BY <1>6, <1>7, <1>8, <1>10 DEF InputEdges, ButtonEdges
<1>13. InputEdges(front)'
  BY <1>11, <1>12 DEF InputEdges, Buttons
<1>14. WhilePolling'
  BY <1>4, <1>6, <1>7, <1>13 DEF WhilePolling
<1> QED BY <1>4, <1>9, <1>10, <1>14 DEF InputInv, OnceShown, WhileScripts

LEMMA PressButtonKeeps ==
  ASSUME InputInv, NEW mods \in Mods, NEW b \in Buttons, PressButton(b, mods)
  PROVE  InputInv'
<1> DEFINE i == ByMouse(mods)
<1>1. i \in Inputs /\ front \in Inputs /\ \A p \in PlainKeys : p \in i.keys_down <=> p \in front.keys_down
  BY ModifiedIs DEF InputInv, InputTypeOK, ByMouse
<1>2. i = [front EXCEPT !.keys_down = i.keys_down]
  BY <1>1, ModifiedIs DEF InputInv, ByMouse, Inputs
<1>3. /\ i.keys_pressed = front.keys_pressed /\ i.keys_released = front.keys_released
      /\ i.mouse_down = front.mouse_down /\ i.mouse_clicked = front.mouse_clicked
      /\ i.mouse_released = front.mouse_released /\ i.scroll = front.scroll
  <2> HIDE DEF i
  <2> QED BY <1>1, <1>2 DEF Inputs
<1>4. /\ front' = [i EXCEPT !.mouse_clicked = IF b \in i.mouse_down THEN @ ELSE @ \cup {b},
                             !.mouse_down = @ \cup {b}]
      /\ hands' = [hands EXCEPT !.buttons = @ \cup {b}] /\ events' = events + 1 /\ b \notin hands.buttons
      /\ UNCHANGED <<host, win, out, told, table, turn, before, owed>>
      /\ win.made /\ turn = "poll" /\ events < MaxEvents
  BY DEF PressButton, Polling
<1> HIDE DEF i
<1>5. front' \in Inputs
  BY <1>1, <1>4 DEF Inputs
<1>6. /\ front'.keys_down = i.keys_down /\ front'.keys_pressed = front.keys_pressed
      /\ front'.keys_released = front.keys_released /\ front'.scroll = front.scroll
      /\ front'.mouse_released = front.mouse_released
  BY <1>1, <1>3, <1>4 DEF Inputs
<1>7. MaxEvents \in Nat /\ events \in 0..MaxEvents /\ owed \in -MaxEvents .. MaxEvents /\ PlainKeys \cap Unmapped = {}
      /\ owed = front.scroll /\ front.scroll \in 0..events /\ InputEdges(front)
  BY <1>4, InputAssumption DEF InputInv, InputTypeOK, Unmapped, WhilePolling
<1>8. win' = win /\ turn' = turn /\ before' = before /\ host' = host
  BY <1>4
<1>9. InputTypeOK'
  <2>1. events' \in 0..MaxEvents /\ owed' \in -MaxEvents .. MaxEvents
    BY <1>4, <1>7
  <2>2. host' \in Hosts /\ win' \in [made : BOOLEAN, asked : BOOLEAN, should : BOOLEAN] /\ table' \in MouseTables \cup {"none"}
        /\ turn' \in {"poll", "shown", "scripts"} /\ {out', told'} \subseteq Inputs
        /\ before'.keys \subseteq PlainKeys \cup Modifiers \cup {"caps"} /\ before'.buttons \subseteq Buttons
    BY <1>4 DEF InputInv, InputTypeOK
  <2> QED BY <1>5, <2>1, <2>2 DEF InputTypeOK
<1>10. HandsOK' /\ hands'.buttons = hands.buttons \cup {b} /\ hands'.keys = hands.keys
  BY <1>4 DEF InputInv, HandsOK
<1>11. ASSUME NEW p \in Buttons
       PROVE  ButtonEdges(front, p)'
  <2>1. ButtonEdges(front, p) /\ ButtonEdges(front, b)
    BY <1>7 DEF InputEdges
  <2>2. front'.mouse_down = front.mouse_down \cup {b}
        /\ front'.mouse_clicked = (IF b \in front.mouse_down THEN front.mouse_clicked ELSE front.mouse_clicked \cup {b})
    BY <1>1, <1>3, <1>4 DEF Inputs
  <2> QED BY <1>4, <1>6, <1>8, <1>10, <2>1, <2>2 DEF ButtonEdges
<1>12. \A p \in PlainKeys : KeyEdges(front, p)'
  BY <1>1, <1>6, <1>7, <1>8, <1>10 DEF InputEdges, KeyEdges
<1>13. InputEdges(front)'
  BY <1>11, <1>12 DEF InputEdges, Buttons
<1>14. WhilePolling'
  BY <1>4, <1>6, <1>7, <1>13 DEF WhilePolling
<1> QED BY <1>4, <1>9, <1>10, <1>14 DEF InputInv, OnceShown, WhileScripts

LEMMA ReleaseButtonKeeps ==
  ASSUME InputInv, NEW mods \in Mods, NEW b \in Buttons, ReleaseButton(b, mods)
  PROVE  InputInv'
<1> DEFINE i == ByMouse(mods)
<1>1. i \in Inputs /\ front \in Inputs /\ \A p \in PlainKeys : p \in i.keys_down <=> p \in front.keys_down
  BY ModifiedIs DEF InputInv, InputTypeOK, ByMouse
<1>2. i = [front EXCEPT !.keys_down = i.keys_down]
  BY <1>1, ModifiedIs DEF InputInv, ByMouse, Inputs
<1>3. /\ i.keys_pressed = front.keys_pressed /\ i.keys_released = front.keys_released
      /\ i.mouse_down = front.mouse_down /\ i.mouse_clicked = front.mouse_clicked
      /\ i.mouse_released = front.mouse_released /\ i.scroll = front.scroll
  <2> HIDE DEF i
  <2> QED BY <1>1, <1>2 DEF Inputs
<1>4. /\ front' = [i EXCEPT !.mouse_down = @ \ {b}, !.mouse_released = @ \cup {b}]
      /\ hands' = [hands EXCEPT !.buttons = @ \ {b}] /\ events' = events + 1 /\ b \in hands.buttons
      /\ UNCHANGED <<host, win, out, told, table, turn, before, owed>>
      /\ win.made /\ turn = "poll" /\ events < MaxEvents
  BY DEF ReleaseButton, Polling
<1> HIDE DEF i
<1>5. front' \in Inputs
  BY <1>1, <1>4 DEF Inputs
<1>6. /\ front'.keys_down = i.keys_down /\ front'.keys_pressed = front.keys_pressed
      /\ front'.keys_released = front.keys_released /\ front'.scroll = front.scroll
      /\ front'.mouse_clicked = front.mouse_clicked
  BY <1>1, <1>3, <1>4 DEF Inputs
<1>7. MaxEvents \in Nat /\ events \in 0..MaxEvents /\ owed \in -MaxEvents .. MaxEvents /\ PlainKeys \cap Unmapped = {}
      /\ owed = front.scroll /\ front.scroll \in 0..events /\ InputEdges(front)
  BY <1>4, InputAssumption DEF InputInv, InputTypeOK, Unmapped, WhilePolling
<1>8. win' = win /\ turn' = turn /\ before' = before /\ host' = host
  BY <1>4
<1>9. InputTypeOK'
  <2>1. events' \in 0..MaxEvents /\ owed' \in -MaxEvents .. MaxEvents
    BY <1>4, <1>7
  <2>2. host' \in Hosts /\ win' \in [made : BOOLEAN, asked : BOOLEAN, should : BOOLEAN] /\ table' \in MouseTables \cup {"none"}
        /\ turn' \in {"poll", "shown", "scripts"} /\ {out', told'} \subseteq Inputs
        /\ before'.keys \subseteq PlainKeys \cup Modifiers \cup {"caps"} /\ before'.buttons \subseteq Buttons
    BY <1>4 DEF InputInv, InputTypeOK
  <2> QED BY <1>5, <2>1, <2>2 DEF InputTypeOK
<1>10. HandsOK' /\ hands'.buttons = hands.buttons \ {b} /\ hands'.keys = hands.keys
  BY <1>4 DEF InputInv, HandsOK
<1>11. ASSUME NEW p \in Buttons
       PROVE  ButtonEdges(front, p)'
  <2>1. ButtonEdges(front, p) /\ ButtonEdges(front, b)
    BY <1>7 DEF InputEdges
  <2>2. front'.mouse_down = front.mouse_down \ {b} /\ front'.mouse_released = front.mouse_released \cup {b}
    BY <1>1, <1>3, <1>4 DEF Inputs
  <2> QED BY <1>4, <1>6, <1>8, <1>10, <2>1, <2>2 DEF ButtonEdges
<1>12. \A p \in PlainKeys : KeyEdges(front, p)'
  BY <1>1, <1>6, <1>7, <1>8, <1>10 DEF InputEdges, KeyEdges
<1>13. InputEdges(front)'
  BY <1>11, <1>12 DEF InputEdges, Buttons
<1>14. WhilePolling'
  BY <1>4, <1>6, <1>7, <1>13 DEF WhilePolling
<1> QED BY <1>4, <1>9, <1>10, <1>14 DEF InputInv, OnceShown, WhileScripts

LEMMA ScrollKeeps ==
  ASSUME InputInv, Scroll(1)
  PROVE  InputInv'
<1>4. /\ front' = [front EXCEPT !.scroll = @ + 1] /\ owed' = owed + 1 /\ events' = events + 1
      /\ UNCHANGED <<host, win, out, told, table, turn, hands, before>>
      /\ win.made /\ turn = "poll" /\ events < MaxEvents
  BY DEF Scroll, Polling
<1>7. MaxEvents \in Nat /\ events \in 0..MaxEvents /\ owed \in -MaxEvents .. MaxEvents /\ PlainKeys \cap Unmapped = {}
      /\ owed = front.scroll /\ front.scroll \in 0..events /\ InputEdges(front)
  BY <1>4, InputAssumption DEF InputInv, InputTypeOK, Unmapped, WhilePolling
<1>8. win' = win /\ turn' = turn /\ before' = before /\ host' = host
  BY <1>4
<1>1. owed' \in -MaxEvents .. MaxEvents /\ events' \in 0..MaxEvents /\ front.scroll + 1 \in 0..(events + 1)
      /\ front.scroll + 1 \in -MaxEvents .. MaxEvents
  BY <1>4, <1>7
<1>2. front \in Inputs
  BY DEF InputInv, InputTypeOK
<1>3. front'.scroll = front.scroll + 1 /\ \E n : n \in -MaxEvents .. MaxEvents /\ front' = [front EXCEPT !.scroll = n]
  BY <1>1, <1>2, <1>4 DEF Inputs
<1>5. front' \in Inputs
  BY <1>2, <1>3 DEF Inputs
<1>6. /\ front'.keys_down = front.keys_down /\ front'.keys_pressed = front.keys_pressed
      /\ front'.keys_released = front.keys_released /\ front'.mouse_down = front.mouse_down
      /\ front'.mouse_clicked = front.mouse_clicked /\ front'.mouse_released = front.mouse_released
  BY <1>2, <1>3 DEF Inputs
<1>9. InputTypeOK' /\ HandsOK'
  BY <1>1, <1>4, <1>5 DEF InputInv, InputTypeOK, HandsOK, Inputs
<1>13. InputEdges(front)'
  BY <1>4, <1>6, <1>7 DEF InputEdges, KeyEdges, ButtonEdges
<1>14. WhilePolling'
  BY <1>1, <1>3, <1>4, <1>7, <1>13 DEF WhilePolling
<1> QED BY <1>4, <1>9, <1>14 DEF InputInv, OnceShown, WhileScripts

LEMMA OpenWindowKeeps ==
  ASSUME InputInv, OpenWindow
  PROVE  InputInv'
<1>1. UNCHANGED <<host, front, out, told, table, turn, events, hands, before, owed>>
  BY DEF OpenWindow
<1>2. win' \in [made : BOOLEAN, asked : BOOLEAN, should : BOOLEAN] /\ win \in [made : BOOLEAN, asked : BOOLEAN, should : BOOLEAN]
  BY DEF OpenWindow, InputInv, InputTypeOK
<1>3. InputTypeOK' /\ HandsOK'
  BY <1>1, <1>2 DEF InputInv, InputTypeOK, HandsOK
<1>5. InputEdges(front)' = InputEdges(front) /\ InputEdges(out)' = InputEdges(out) /\ InputEdges(told)' = InputEdges(told)
      /\ NothingNew(out)' = NothingNew(out) /\ NothingNew(told)' = NothingNew(told)
  BY <1>1 DEF InputEdges, KeyEdges, ButtonEdges, NothingNew
<1> QED BY <1>1, <1>2, <1>3, <1>5 DEF OpenWindow, InputInv, WhilePolling, OnceShown, WhileScripts

LEMMA AskCloseKeeps ==
  ASSUME InputInv, AskClose
  PROVE  InputInv'
<1>1. UNCHANGED <<host, front, out, told, table, turn, events, hands, before, owed>>
  BY DEF AskClose
<1>2. win' \in [made : BOOLEAN, asked : BOOLEAN, should : BOOLEAN] /\ win \in [made : BOOLEAN, asked : BOOLEAN, should : BOOLEAN]
  BY DEF AskClose, InputInv, InputTypeOK
<1>3. InputTypeOK' /\ HandsOK'
  BY <1>1, <1>2 DEF InputInv, InputTypeOK, HandsOK
<1>5. InputEdges(front)' = InputEdges(front) /\ InputEdges(out)' = InputEdges(out) /\ InputEdges(told)' = InputEdges(told)
      /\ NothingNew(out)' = NothingNew(out) /\ NothingNew(told)' = NothingNew(told)
  BY <1>1 DEF InputEdges, KeyEdges, ButtonEdges, NothingNew
<1> QED BY <1>1, <1>2, <1>3, <1>5 DEF AskClose, InputInv, WhilePolling, OnceShown, WhileScripts

LEMMA CloseAgainKeeps ==
  ASSUME InputInv, CloseAgain
  PROVE  InputInv'
<1>1. UNCHANGED <<host, front, out, told, table, turn, events, hands, before, owed>>
  BY DEF CloseAgain
<1>2. win' \in [made : BOOLEAN, asked : BOOLEAN, should : BOOLEAN] /\ win \in [made : BOOLEAN, asked : BOOLEAN, should : BOOLEAN]
  BY DEF CloseAgain, InputInv, InputTypeOK
<1>3. InputTypeOK' /\ HandsOK'
  BY <1>1, <1>2 DEF InputInv, InputTypeOK, HandsOK
<1>5. InputEdges(front)' = InputEdges(front) /\ InputEdges(out)' = InputEdges(out) /\ InputEdges(told)' = InputEdges(told)
      /\ NothingNew(out)' = NothingNew(out) /\ NothingNew(told)' = NothingNew(told)
  BY <1>1 DEF InputEdges, KeyEdges, ButtonEdges, NothingNew
<1> QED BY <1>1, <1>2, <1>3, <1>5 DEF CloseAgain, InputInv, WhilePolling, OnceShown, WhileScripts

LEMMA ProcessKeeps ==
  ASSUME InputInv, Process
  PROVE  InputInv'
<1>1. /\ win.made /\ turn = "poll" /\ out' = front /\ front' = Settled(front) /\ turn' = "shown"
      /\ win' = [win EXCEPT !.should = win.asked, !.made = ~(win.asked /\ host = "glfw")]
      /\ UNCHANGED <<host, told, table, events, hands, before, owed>>
  BY DEF Process
<1>2. win' \in [made : BOOLEAN, asked : BOOLEAN, should : BOOLEAN] /\ (win'.made \/ win'.should)
  BY <1>1 DEF InputInv, InputTypeOK
<1>3. front \in Inputs /\ 0 \in -MaxEvents .. MaxEvents
  BY InputAssumption DEF InputInv, InputTypeOK
<1>4. front' \in Inputs /\ NothingNew(out)' /\ front'.scroll = 0
  BY <1>1, <1>3 DEF Settled, Inputs, NothingNew
<1>5. InputTypeOK' /\ HandsOK'
  BY <1>1, <1>2, <1>3, <1>4 DEF InputInv, InputTypeOK, HandsOK
<1>6. InputEdges(front) /\ owed = front.scroll
  BY <1>1 DEF InputInv, WhilePolling
<1>7. InputEdges(out)'
  BY <1>1, <1>6 DEF InputEdges, KeyEdges, ButtonEdges
<1> QED BY <1>1, <1>2, <1>4, <1>5, <1>6, <1>7 DEF InputInv, WhilePolling, OnceShown, WhileScripts

LEMMA ProcessClosedKeeps ==
  ASSUME InputInv, ProcessClosed
  PROVE  InputInv'
<1>1. NoInput \in Inputs /\ NoInput.scroll = 0
  <2>1. 0 \in -MaxEvents .. MaxEvents
    BY InputAssumption
  <2> QED BY <2>1 DEF NoInput, Inputs
<1>2. InputTypeOK' /\ HandsOK'
  BY <1>1 DEF ProcessClosed, InputInv, InputTypeOK, HandsOK
<1> QED BY <1>1, <1>2 DEF ProcessClosed, InputInv, WhilePolling, OnceShown, WhileScripts

LEMMA EngineCopiesKeeps ==
  ASSUME InputInv, EngineCopies
  PROVE  InputInv'
<1>1. /\ turn = "shown" /\ told' = out /\ owed' = owed - out.scroll /\ turn' = "scripts"
      /\ UNCHANGED <<host, win, front, out, table, events, hands, before>>
  BY DEF EngineCopies
<1>2. owed = out.scroll /\ out.scroll \in Int /\ MaxEvents \in Nat
  BY <1>1, InputAssumption DEF InputInv, OnceShown, InputTypeOK, Inputs
<1>3. owed' = 0 /\ owed' \in -MaxEvents .. MaxEvents
  BY <1>1, <1>2
<1>4. InputTypeOK' /\ HandsOK'
  BY <1>1, <1>3 DEF InputInv, InputTypeOK, HandsOK
<1>5. InputEdges(told)' = InputEdges(out) /\ NothingNew(told)' = NothingNew(out)
  BY <1>1 DEF InputEdges, KeyEdges, ButtonEdges, NothingNew
<1> QED BY <1>1, <1>3, <1>4, <1>5 DEF InputInv, WhilePolling, OnceShown, WhileScripts

LEMMA NextFrameKeeps ==
  ASSUME InputInv, NextFrame
  PROVE  InputInv'
<1>1. /\ turn = "scripts" /\ turn' = "poll" /\ events' = 0 /\ table' = "none"
      /\ before' = [keys |-> told.keys_down, buttons |-> told.mouse_down]
      /\ UNCHANGED <<host, win, front, out, told, hands, owed>>
  BY DEF NextFrame
<1>2. InputTypeOK' /\ HandsOK'
  BY <1>1, InputAssumption DEF InputInv, InputTypeOK, HandsOK, Inputs
<1>3. front.scroll = 0 /\ owed = 0 /\ (win.made \/ win.should)
  BY <1>1 DEF InputInv, WhileScripts
<1>4. CASE win.made
  <2>1. NothingNew(told) /\ InputEdges(told)
    BY <1>1, <1>4 DEF InputInv, WhileScripts
  <2>2. InputEdges(front)'
    BY <1>1, <2>1 DEF NothingNew, InputEdges, KeyEdges, ButtonEdges
  <2> QED BY <1>1, <1>2, <1>3, <1>4, <2>2 DEF InputInv, WhilePolling, OnceShown, WhileScripts
<1>5. CASE ~win.made
  BY <1>1, <1>2, <1>3, <1>5 DEF InputInv, WhilePolling, OnceShown, WhileScripts
<1> QED BY <1>4, <1>5

LEMMA InputInductive == InputInv /\ [InputNext]_inputVars => InputInv'
<1> SUFFICES ASSUME InputInv, [InputNext]_inputVars
             PROVE  InputInv'
  OBVIOUS
<1>1. ASSUME NEW mods \in Mods, NEW k \in PlainKeys \cup {"caps"} \cup Unmapped,
             PressKey(k, mods) \/ ReleaseKey(k, mods)
      PROVE  InputInv'
  BY <1>1, PressKeyKeeps, ReleaseKeyKeeps
<1>2. ASSUME NEW mods \in Mods, NEW b \in Buttons, PressButton(b, mods) \/ ReleaseButton(b, mods)
      PROVE  InputInv'
  BY <1>2, PressButtonKeeps, ReleaseButtonKeeps
<1>3. CASE OpenWindow \/ Scroll(1) \/ AskClose \/ CloseAgain \/ Process \/ ProcessClosed \/ EngineCopies \/ NextFrame
  BY <1>3, OpenWindowKeeps, ScrollKeeps, AskCloseKeeps, CloseAgainKeeps, ProcessKeeps, ProcessClosedKeeps,
     EngineCopiesKeeps, NextFrameKeeps
<1>4. ASSUME NEW t \in MouseTables, ReadMouseTable(t)
      PROVE  InputInv'
  <2>1. InputTypeOK' /\ HandsOK'
    BY <1>4 DEF ReadMouseTable, InputInv, InputTypeOK, HandsOK
  <2> QED BY <1>4, <2>1 DEF ReadMouseTable, InputInv, WhilePolling, OnceShown, WhileScripts, InputEdges,
                            KeyEdges, ButtonEdges, NothingNew
<1>5. CASE UNCHANGED inputVars
  BY <1>5 DEF inputVars, InputInv, InputTypeOK, HandsOK, WhilePolling, OnceShown, WhileScripts, InputEdges,
              KeyEdges, ButtonEdges, NothingNew
<1> QED BY <1>1, <1>2, <1>3, <1>4, <1>5 DEF InputNext

(* The inductive invariant of input.                                        *)
THEOREM InputInvariance == InputInit /\ [][InputNext]_inputVars => []InputInv
<1> QED BY InputStarts, InputInductive, PTL

(* Type correctness of input. *)
THEOREM InputTypeCorrect == InputInit /\ [][InputNext]_inputVars => []InputTypeOK
<1>1. InputInv => InputTypeOK
  BY DEF InputInv
<1> QED BY <1>1, InputInvariance, PTL

(* What goes down or up is told to the scripts of that frame. *)
THEOREM InputIsTold == InputInit /\ [][InputNext]_inputVars => []EdgesTold
<1>1. InputInv => EdgesTold
  <2> SUFFICES ASSUME InputInv, turn = "scripts", told # NoInput
               PROVE  EdgesTold
    BY DEF EdgesTold
  <2>1. InputEdges(told) /\ owed = 0
    BY DEF InputInv, WhileScripts
  <2>2. \A k : (TellKey("keys_down", k) <=> k \in told.keys_down) /\ (TellKey("keys_pressed", k) <=> k \in told.keys_pressed)
               /\ (TellKey("keys_released", k) <=> k \in told.keys_released)
    BY DEF TellKey
  <2>3. \A k \in PlainKeys : KeyEdges(told, k)
    BY <2>1 DEF InputEdges
  <2>4. \A b \in Buttons : ButtonEdges(told, b)
    BY <2>1 DEF InputEdges
  <2>5. \A b \in Buttons : table = "mouse_down" => (TellButton(b) <=> b \in hands.buttons)
    <3>1. \A b \in Buttons : b \notin ButtonMax .. ButtonCount - 1
      BY InputAssumption DEF Buttons
    <3> QED BY <2>4, <3>1 DEF TellButton, ButtonEdges
  <2>6. \A k \in PlainKeys :
          LET was == k \in before.keys
              is == TellKey("keys_down", k)
          IN  /\ is <=> k \in hands.keys
              /\ (is /\ ~was) => TellKey("keys_pressed", k)
              /\ (was /\ ~is) => TellKey("keys_released", k)
              /\ (TellKey("keys_pressed", k) /\ ~TellKey("keys_released", k)) => is
              /\ (is /\ was /\ TellKey("keys_pressed", k) /\ host = "glfw") => TellKey("keys_released", k)
              /\ (~is /\ ~was) => (TellKey("keys_pressed", k) <=> TellKey("keys_released", k))
    BY <2>2, <2>3 DEF KeyEdges
  <2>7. \A b \in Buttons :
          /\ (b \in told.mouse_down /\ b \notin before.buttons) => b \in told.mouse_clicked
          /\ (b \in before.buttons \ told.mouse_down) => b \in told.mouse_released
          /\ (b \in told.mouse_clicked /\ b \in before.buttons) => b \in told.mouse_released
          /\ table = "mouse_down" => (TellButton(b) <=> b \in hands.buttons)
    BY <2>4, <2>5 DEF ButtonEdges
  <2> QED BY <2>1, <2>6, <2>7 DEF EdgesTold
<1> QED BY <1>1, InputInvariance, PTL
-----------------------------------------------------------------------------
Messages == [type : {"normal", "error"}, message : Seq(STRING)]

(* The history is the end of all there ever was. *)
EndOf(short, long) ==
  \A i \in 1..Len(short) : short[i] = long[Len(long) - Len(short) + i]

ConsoleInv ==
  /\ consoleLines \in Seq(Messages) /\ everAdded \in Seq(Messages)
  /\ Len(consoleLines) <= MaxHistory /\ Len(everAdded) <= MaxAdded /\ Len(consoleLines) <= Len(everAdded)
  /\ EndOf(consoleLines, everAdded)
  /\ drawLines \in LineCounts /\ rowWidth \in RowWidths
  /\ {consoleShown, aborted} \subseteq BOOLEAN

LEMMA AddLineKeeps ==
  ASSUME ConsoleInv, NEW type \in {"normal", "error"}, NEW message \in Seq(STRING), AddLine(type, message)
  PROVE  /\ consoleLines' \in Seq(Messages) /\ everAdded' \in Seq(Messages)
         /\ Len(consoleLines') <= MaxHistory /\ Len(everAdded') <= MaxAdded /\ Len(consoleLines') <= Len(everAdded')
         /\ EndOf(consoleLines', everAdded')
<1> DEFINE e == [type |-> type, message |-> message]
           n == Len(everAdded)
           c == IF Len(consoleLines) >= MaxHistory THEN Tail(consoleLines) ELSE consoleLines
<1>1. e \in Messages /\ MaxHistory \in Nat \ {0} /\ MaxAdded \in Nat
  BY ConsoleAssumption DEF Messages
<1>2. consoleLines' = Append(c, e) /\ everAdded' = Append(everAdded, e) /\ n < MaxAdded
  BY DEF AddLine
<1>3. n \in Nat /\ Len(consoleLines) \in Nat /\ consoleLines \in Seq(Messages) /\ everAdded \in Seq(Messages)
      /\ Len(consoleLines) <= MaxHistory /\ Len(consoleLines) <= n
  BY LenProperties DEF ConsoleInv
<1>4. c \in Seq(Messages) /\ Len(c) \in Nat /\ Len(c) < MaxHistory /\ Len(c) <= n /\ EndOf(c, everAdded)
  <2>1. CASE Len(consoleLines) >= MaxHistory
    <3>1. consoleLines # <<>>
      BY <1>1, <2>1
    <3>2. /\ Tail(consoleLines) \in Seq(Messages) /\ Len(Tail(consoleLines)) = Len(consoleLines) - 1
          /\ \A i \in 1..(Len(consoleLines) - 1) : Tail(consoleLines)[i] = consoleLines[i + 1]
      BY <1>3, <3>1, HeadTailProperties
    <3>3. c = Tail(consoleLines)
      BY <2>1
    <3> HIDE DEF c
    <3>4. ASSUME NEW i \in 1..Len(c)
          PROVE  c[i] = everAdded[n - Len(c) + i]
      <4>1. i \in 1..(Len(consoleLines) - 1) /\ i + 1 \in 1..Len(consoleLines)
            /\ n - Len(c) + i = n - Len(consoleLines) + (i + 1)
        BY <1>3, <3>2, <3>3
      <4>2. c[i] = consoleLines[i + 1]
        BY <3>2, <3>3, <4>1
      <4>3. consoleLines[i + 1] = everAdded[n - Len(consoleLines) + (i + 1)]
        BY <4>1 DEF ConsoleInv, EndOf
      <4> QED BY <4>1, <4>2, <4>3
    <3>5. Len(c) \in Nat /\ Len(c) < MaxHistory /\ Len(c) <= n
      BY <1>1, <1>3, <2>1, <3>2, <3>3
    <3> QED BY <3>2, <3>3, <3>4, <3>5 DEF EndOf
  <2>2. CASE ~(Len(consoleLines) >= MaxHistory)
    <3>1. c = consoleLines /\ Len(consoleLines) < MaxHistory
      BY <1>1, <1>3, <2>2
    <3> QED BY <1>3, <3>1 DEF ConsoleInv
  <2> QED BY <2>1, <2>2
<1> HIDE DEF c, e
<1>5. /\ consoleLines' \in Seq(Messages) /\ Len(consoleLines') = Len(c) + 1 /\ consoleLines'[Len(c) + 1] = e
      /\ \A i \in 1..Len(c) : consoleLines'[i] = c[i]
      /\ everAdded' \in Seq(Messages) /\ Len(everAdded') = n + 1 /\ everAdded'[n + 1] = e
      /\ \A i \in 1..n : everAdded'[i] = everAdded[i]
  BY <1>1, <1>2, <1>3, <1>4, AppendProperties
<1>6. ASSUME NEW i \in 1..Len(consoleLines')
      PROVE  consoleLines'[i] = everAdded'[Len(everAdded') - Len(consoleLines') + i]
  <2>1. Len(everAdded') - Len(consoleLines') + i = n - Len(c) + i
    BY <1>3, <1>4, <1>5
  <2>2. CASE i = Len(c) + 1
    <3>1. n - Len(c) + i = n + 1
      BY <1>3, <1>4, <2>2
    <3> QED BY <1>5, <2>1, <2>2, <3>1
  <2>3. CASE i # Len(c) + 1
    <3>1. i \in 1..Len(c) /\ n - Len(c) + i \in 1..n
      BY <1>3, <1>4, <1>5, <2>3
    <3>2. c[i] = everAdded[n - Len(c) + i]
      BY <1>4, <3>1 DEF EndOf
    <3> QED BY <1>5, <2>1, <3>1, <3>2
  <2> QED BY <2>2, <2>3
<1>7. Len(consoleLines') <= MaxHistory /\ Len(everAdded') <= MaxAdded /\ Len(consoleLines') <= Len(everAdded')
  BY <1>1, <1>2, <1>3, <1>4, <1>5
<1> QED BY <1>5, <1>6, <1>7 DEF EndOf

LEMMA ConsoleInductive == ConsoleInv /\ [ConsoleNext]_consoleVars => ConsoleInv'
<1> SUFFICES ASSUME ConsoleInv, [ConsoleNext]_consoleVars
             PROVE  ConsoleInv'
  OBVIOUS
<1>1. ASSUME NEW s \in ConsoleTexts, PrintLine(s)
      PROVE  ConsoleInv'
  <2> DEFINE t == IF Len(s) > PrintLimit THEN SubSeq(s, 1, PrintLimit) ELSE s
  <2>1. t \in Seq(STRING)
    <3>1. s \in Seq(STRING) /\ PrintLimit \in Nat
      BY ConsoleAssumption
    <3>2. Len(s) > PrintLimit => SubSeq(s, 1, PrintLimit) \in Seq(STRING)
      BY <3>1
    <3> QED BY <3>1, <3>2
  <2>2. AddLine("normal", t) /\ UNCHANGED <<consoleShown, aborted>>
    BY <1>1 DEF PrintLine
  <2> HIDE DEF t
  <2>3. /\ consoleLines' \in Seq(Messages) /\ everAdded' \in Seq(Messages)
        /\ Len(consoleLines') <= MaxHistory /\ Len(everAdded') <= MaxAdded /\ Len(consoleLines') <= Len(everAdded')
        /\ EndOf(consoleLines', everAdded')
    BY <2>1, <2>2, AddLineKeeps
  <2> QED BY <2>2, <2>3 DEF ConsoleInv, AddLine, EndOf
<1>2. ASSUME NEW s \in ConsoleTexts \cup {NoMessage}, ScriptFails(s)
      PROVE  ConsoleInv'
  <2>1. CASE s = NoMessage
    BY <1>2, <2>1 DEF ScriptFails, ConsoleInv, EndOf
  <2>2. CASE s # NoMessage
    <3>1. s \in Seq(STRING)
      BY <2>2, ConsoleAssumption
    <3>2. AddLine("error", s) /\ consoleShown' = TRUE /\ UNCHANGED aborted
      BY <1>2, <2>2 DEF ScriptFails
    <3>3. /\ consoleLines' \in Seq(Messages) /\ everAdded' \in Seq(Messages)
          /\ Len(consoleLines') <= MaxHistory /\ Len(everAdded') <= MaxAdded /\ Len(consoleLines') <= Len(everAdded')
          /\ EndOf(consoleLines', everAdded')
      BY <3>1, <3>2, AddLineKeeps
    <3> QED BY <3>2, <3>3 DEF ConsoleInv, AddLine, EndOf
  <2> QED BY <2>1, <2>2
<1>3. CASE ToggleConsole
  BY <1>3 DEF ToggleConsole, ConsoleInv, EndOf
<1>4. ASSUME NEW n \in LineCounts, SetDrawLines(n)
      PROVE  ConsoleInv'
  BY <1>4 DEF SetDrawLines, ConsoleInv, EndOf
<1>5. ASSUME NEW n \in RowWidths, ResizeView(n)
      PROVE  ConsoleInv'
  BY <1>5 DEF ResizeView, ConsoleInv, EndOf
<1>6. CASE UNCHANGED consoleVars
  BY <1>6 DEF consoleVars, ConsoleInv, EndOf
<1> QED BY <1>1, <1>2, <1>3, <1>4, <1>5, <1>6 DEF ConsoleNext

(* The inductive invariant of the console.                                  *)
THEOREM ConsoleInvariance == ConsoleInit /\ [][ConsoleNext]_consoleVars => []ConsoleInv
<1>1. ConsoleInit => ConsoleInv
  <2>1. <<>> \in Seq(Messages) /\ Len(<<>>) = 0 /\ 0 <= MaxHistory /\ 0 <= MaxAdded /\ 1..0 = {}
    BY ConsoleAssumption, EmptySeq
  <2>2. ASSUME ConsoleInit
        PROVE  {consoleShown, aborted} \subseteq BOOLEAN
    BY <2>2 DEF ConsoleInit
  <2>3. ASSUME ConsoleInit
        PROVE  /\ consoleLines = <<>> /\ everAdded = <<>> /\ drawLines \in LineCounts /\ rowWidth \in RowWidths
               /\ EndOf(consoleLines, everAdded)
    BY <2>1, <2>3 DEF ConsoleInit, EndOf
  <2> QED BY <2>1, <2>2, <2>3 DEF ConsoleInv
<1> QED BY <1>1, ConsoleInductive, PTL

(* Type correctness of the console. *)
THEOREM ConsoleTypeCorrect == ConsoleInit /\ [][ConsoleNext]_consoleVars => []ConsoleTypeOK
<1>1. ConsoleInv => ConsoleTypeOK
  BY DEF ConsoleInv, ConsoleTypeOK
<1> QED BY <1>1, ConsoleInvariance, PTL

(* The rows that are drawn and where. *)
LEMMA DrawnIs ==
  ASSUME ConsoleInv
  PROVE  /\ DrawnLines \in Nat /\ DrawnLines <= drawLines /\ DrawnLines <= Len(consoleLines)
         /\ drawLines \in Nat /\ rowWidth \in Nat /\ Len(consoleLines) \in Nat
         /\ \A i \in 1..DrawnLines : /\ RowOf(i) \in 0..(drawLines - 1) /\ Drawn(i) \in Messages
                                     /\ Len(consoleLines) - DrawnLines + i \in 1..Len(consoleLines)
<1>1. drawLines \in Nat /\ rowWidth \in Nat /\ consoleLines \in Seq(Messages)
  BY ConsoleAssumption DEF ConsoleInv
<1>2. Len(consoleLines) \in Nat /\ \A i \in 1..Len(consoleLines) : consoleLines[i] \in Messages
  BY <1>1, LenProperties
<1>3. DrawnLines \in Nat /\ DrawnLines <= drawLines /\ DrawnLines <= Len(consoleLines)
  BY <1>1, <1>2 DEF DrawnLines
<1>4. ASSUME NEW i \in 1..DrawnLines
      PROVE  /\ RowOf(i) \in 0..(drawLines - 1) /\ Drawn(i) \in Messages
             /\ Len(consoleLines) - DrawnLines + i \in 1..Len(consoleLines)
  <2>1. RowOf(i) \in 0..(drawLines - 1) /\ Len(consoleLines) - DrawnLines + i \in 1..Len(consoleLines)
    BY <1>1, <1>2, <1>3 DEF RowOf
  <2> QED BY <1>2, <2>1 DEF Drawn
<1> QED BY <1>1, <1>2, <1>3, <1>4

LEMMA NewestAreShown == ConsoleInv => NewestShown
<1> SUFFICES ASSUME ConsoleInv, NEW i \in 1..DrawnLines
             PROVE  /\ Drawn(i) = everAdded[Len(everAdded) - DrawnLines + i]
                    /\ RowOf(i) \in 0..(drawLines - 1) /\ (i = DrawnLines => RowOf(i) = drawLines - 1)
  BY DEF NewestShown
<1>1. /\ DrawnLines \in Nat /\ drawLines \in Nat /\ Len(consoleLines) \in Nat /\ RowOf(i) \in 0..(drawLines - 1)
      /\ Len(consoleLines) - DrawnLines + i \in 1..Len(consoleLines)
  BY DrawnIs
<1>2. i = DrawnLines => RowOf(i) = drawLines - 1
  BY <1>1 DEF RowOf
<1>3. Len(everAdded) \in Nat
  BY LenProperties DEF ConsoleInv
<1>4. Len(everAdded) - Len(consoleLines) + (Len(consoleLines) - DrawnLines + i) = Len(everAdded) - DrawnLines + i
  BY <1>1, <1>3
<1>5. consoleLines[Len(consoleLines) - DrawnLines + i]
      = everAdded[Len(everAdded) - Len(consoleLines) + (Len(consoleLines) - DrawnLines + i)]
  BY <1>1 DEF ConsoleInv, EndOf
<1> QED BY <1>1, <1>2, <1>4, <1>5 DEF Drawn

(* The pen over a message. *)
Pens == [row : Nat, col : Nat, marks : Seq(Nat \X Nat)]

Narrow == IF rowWidth > 1 THEN rowWidth ELSE 1

PenOK(p, row) ==
  /\ p \in Pens /\ row <= p.row
  /\ \A j \in 1..Len(p.marks) : /\ row <= p.marks[j][1] /\ p.marks[j][2] < Narrow
                                /\ InReadingOrder(p.marks[j], <<p.row, p.col>>)
  /\ \A j \in 2..Len(p.marks) : InReadingOrder(p.marks[j - 1], p.marks[j])

LEMMA RowBelow ==
  ASSUME NEW r \in Nat, NEW c \in Nat, NEW m, NEW v, v = [row |-> r, col |-> c, marks |-> m]
  PROVE  [v EXCEPT !.row = @ + 1, !.col = 0] = [row |-> r + 1, col |-> 0, marks |-> m]
<1>1. ASSUME NEW w, w = [v EXCEPT !.row = @ + 1, !.col = 0]
      PROVE  w = [row |-> r + 1, col |-> 0, marks |-> m]
  BY <1>1
<1> QED BY <1>1

LEMMA TypedKeeps ==
  ASSUME rowWidth \in Nat, NEW row \in Nat, NEW p, PenOK(p, row), NEW char
  PROVE  PenOK(Typed(p, char), row)
<1> DEFINE at == Wrapped(p)
           n == Len(p.marks)
<1>1. p \in Pens /\ p.row \in Nat /\ p.col \in Nat /\ p.marks \in Seq(Nat \X Nat)
      /\ n \in Nat /\ \A j \in 1..n : p.marks[j] \in Nat \X Nat
  BY LenProperties DEF PenOK, Pens
<1>2. at \in Pens /\ at.marks = p.marks /\ at.row \in Nat /\ at.col \in Nat /\ at.col < Narrow /\ row <= at.row
      /\ p.row <= at.row /\ (at.row = p.row => p.col <= at.col)
  <2>1. CASE p.col >= rowWidth
    <3>1. at = [row |-> p.row + 1, col |-> 0, marks |-> p.marks]
      BY <1>1, <2>1 DEF Wrapped, Pens
    <3>2. 0 < Narrow /\ p.row + 1 \in Nat /\ row <= p.row + 1 /\ p.row <= p.row + 1 /\ p.row + 1 # p.row
      BY <1>1 DEF Narrow, PenOK
    <3> HIDE DEF at
    <3> QED BY <1>1, <3>1, <3>2 DEF Pens
  <2>2. CASE ~(p.col >= rowWidth)
    <3>1. at = p
      BY <2>2 DEF Wrapped
    <3>2. p.col < Narrow /\ p.row <= p.row /\ p.col <= p.col
      BY <1>1, <2>2 DEF Narrow
    <3> HIDE DEF at
    <3> QED BY <1>1, <3>1, <3>2 DEF PenOK
  <2> QED BY <2>1, <2>2
<1>3. \A j \in 1..n : InReadingOrder(p.marks[j], <<at.row, at.col>>)
  <2> TAKE j \in 1..n
  <2>1. p.marks[j][1] < p.row \/ (p.marks[j][1] = p.row /\ p.marks[j][2] < p.col)
    BY DEF PenOK, InReadingOrder
  <2>2. p.marks[j][1] \in Nat /\ p.marks[j][2] \in Nat
    BY <1>1
  <2> HIDE DEF at
  <2>3. p.marks[j][1] < at.row \/ (p.marks[j][1] = at.row /\ p.marks[j][2] < at.col)
    <3>1. \A x, y, a, b, c, d \in Nat : (a <= c /\ (c = a => b <= d) /\ (x < a \/ (x = a /\ y < b)))
                                     => x < c \/ (x = c /\ y < d)
      OBVIOUS
    <3>2. /\ p.marks[j][1] \in Nat /\ p.marks[j][2] \in Nat /\ p.row \in Nat /\ p.col \in Nat
          /\ at.row \in Nat /\ at.col \in Nat /\ p.row <= at.row /\ (at.row = p.row => p.col <= at.col)
      BY <1>1, <1>2, <2>2
    <3> QED BY <2>1, <3>1, <3>2
  <2> QED BY <2>3 DEF InReadingOrder
<1>4. CASE char = "c"
  <2> DEFINE here == <<at.row, at.col>>
             ms == Append(at.marks, here)
  <2>1. Typed(p, char) = [row |-> at.row, col |-> at.col + 1, marks |-> ms]
    BY <1>4 DEF Typed
  <2>2. here \in Nat \X Nat /\ here[1] = at.row /\ here[2] = at.col
    BY <1>2
  <2> HIDE DEF at
  <2>3. ms \in Seq(Nat \X Nat) /\ Len(ms) = n + 1 /\ ms[n + 1] = here /\ \A j \in 1..n : ms[j] = p.marks[j]
    <3> HIDE DEF here
    <3> QED BY <1>1, <1>2, <2>2, AppendProperties
  <2>4. ASSUME NEW j \in 1..(n + 1)
        PROVE  /\ row <= ms[j][1] /\ ms[j][2] < Narrow /\ InReadingOrder(ms[j], <<at.row, at.col + 1>>)
    <3>1. CASE j = n + 1
      <4>1. at.col < at.col + 1
        BY <1>2
      <4> QED BY <1>2, <2>2, <2>3, <3>1, <4>1 DEF InReadingOrder
    <3>2. CASE j # n + 1
      <4>1. j \in 1..n
        BY <1>1, <3>2
      <4>2. p.marks[j][1] < at.row \/ (p.marks[j][1] = at.row /\ p.marks[j][2] < at.col)
        BY <1>3, <4>1 DEF InReadingOrder
      <4>3. p.marks[j][2] \in Nat
        BY <1>1, <4>1
      <4>4. p.marks[j][2] < at.col => p.marks[j][2] < at.col + 1
        BY <1>2, <4>3
      <4>5. row <= p.marks[j][1] /\ p.marks[j][2] < Narrow
        BY <4>1 DEF PenOK
      <4> QED BY <2>3, <4>1, <4>2, <4>4, <4>5 DEF InReadingOrder
    <3> QED BY <3>1, <3>2
  <2>5. ASSUME NEW j \in 2..(n + 1)
        PROVE  InReadingOrder(ms[j - 1], ms[j])
    <3>1. CASE j = n + 1
      <4>1. j - 1 \in 1..n /\ j - 1 = n
        BY <1>1, <3>1
      <4> QED BY <1>3, <2>3, <3>1, <4>1
    <3>2. CASE j # n + 1
      <4>1. j \in 1..n /\ j - 1 \in 1..n /\ j \in 2..n
        BY <1>1, <3>2
      <4> QED BY <2>3, <4>1 DEF PenOK
    <3> QED BY <3>1, <3>2
  <2>6. [row |-> at.row, col |-> at.col + 1, marks |-> ms] \in Pens
    BY <1>2, <2>3 DEF Pens
  <2> HIDE DEF ms
  <2> DEFINE q == [row |-> at.row, col |-> at.col + 1, marks |-> ms]
  <2>7. q \in Pens /\ q.row = at.row /\ q.col = at.col + 1 /\ q.marks = ms
    BY <2>6
  <2> HIDE DEF q
  <2>8. PenOK(q, row)
    BY <1>2, <2>3, <2>4, <2>5, <2>7 DEF PenOK
  <2> QED BY <2>1, <2>8 DEF q
<1>5. CASE char = "\n"
  <2> HIDE DEF at
  <2>1. Typed(p, char) = [at EXCEPT !.row = @ + 1, !.col = 0]
    BY <1>5 DEF Typed, at
  <2>2. [at EXCEPT !.row = @ + 1, !.col = 0] = [row |-> at.row + 1, col |-> 0, marks |-> p.marks]
    <3>1. PICK r \in Nat, c \in Nat, m \in Seq(Nat \X Nat) : at = [row |-> r, col |-> c, marks |-> m]
      BY <1>2 DEF Pens
    <3>3. at.row = r /\ m = p.marks
      BY <1>2, <3>1
    <3>4. [at EXCEPT !.row = @ + 1, !.col = 0] = [row |-> r + 1, col |-> 0, marks |-> m]
      BY <3>1, RowBelow
    <3> QED BY <3>3, <3>4
  <2>3. at.row + 1 \in Nat /\ row <= at.row + 1
    BY <1>2
  <2>4. \A j \in 1..n : InReadingOrder(p.marks[j], <<at.row + 1, 0>>)
    <3> TAKE j \in 1..n
    <3>1. p.marks[j][1] \in Nat
      BY <1>1
    <3>2. p.marks[j][1] < at.row + 1
      BY <1>2, <1>3, <3>1 DEF InReadingOrder
    <3> QED BY <3>2 DEF InReadingOrder
  <2>5. [row |-> at.row + 1, col |-> 0, marks |-> p.marks] \in Pens
    BY <1>1, <2>3 DEF Pens
  <2> DEFINE q == [row |-> at.row + 1, col |-> 0, marks |-> p.marks]
  <2>7. q \in Pens /\ q.row = at.row + 1 /\ q.col = 0 /\ q.marks = p.marks
    BY <2>5
  <2> HIDE DEF q
  <2>8. PenOK(q, row)
    BY <1>1, <2>3, <2>4, <2>7 DEF PenOK
  <2> QED BY <2>1, <2>2, <2>8 DEF q
<1>6. CASE char # "c" /\ char # "\n"
  <2>1. Typed(p, char) = at
    BY <1>6 DEF Typed
  <2> HIDE DEF at
  <2> QED BY <1>1, <1>2, <1>3, <2>1 DEF PenOK
<1> QED BY <1>4, <1>5, <1>6

LEMMA TypedFromIs ==
  ASSUME rowWidth \in Nat, NEW row \in Nat, NEW message \in Seq(STRING)
  PROVE  \E p : PenOK(p, row) /\ TypedFrom(row, message) = p.marks
<1> DEFINE n == Len(message)
           a == [row |-> row, col |-> 0, marks |-> <<>>]
           X == {p \in Pens : PenOK(p, row)}
           step == [q \in X \X (1..n) |-> Typed(q[1], message[q[2]])]
           Ink(g) == g = [s \in SUBSET DOMAIN message |->
                            IF s = {} THEN a ELSE Typed(g[s \ {Max(s)}], message[Max(s)])]
<1>1. n \in Nat /\ DOMAIN message = 1..n
  BY LenProperties
<1>2. a \in X
  <2>1. a \in Pens /\ Len(a.marks) = 0 /\ a.row = row /\ row <= row
    BY EmptySeq DEF Pens
  <2> QED BY <2>1 DEF PenOK
<1>3. \A p \in X, i \in 1..n : Typed(p, message[i]) \in X
  BY TypedKeeps DEF PenOK
<1>4. step \in [X \X (1..n) -> X] /\ \A p \in X, i \in 1..n : step[<<p, i>>] = Typed(p, message[i])
  <2> HIDE DEF X
  <2> QED BY <1>3
<1>5. PICK h \in [SUBSET (1..n) -> X] : Folding(h, a, step, SUBSET (1..n))
  <2> HIDE DEF X, step, a
  <2> QED BY <1>1, <1>2, <1>4, FoldingExists
<1>6. Ink(h)
  <2> HIDE DEF X, step, a
  <2>1. \A s \in SUBSET (1..n) : s # {} => Max(s) \in 1..n /\ s \ {Max(s)} \in SUBSET (1..n)
    <3> TAKE s \in SUBSET (1..n)
    <3>1. s \in SUBSET (0..n)
      BY <1>1
    <3> QED BY <1>1, <3>1, MaxIs
  <2>2. \A s \in SUBSET (1..n) : s # {} => step[<<h[s \ {Max(s)}], Max(s)>>] = Typed(h[s \ {Max(s)}], message[Max(s)])
    BY <1>4, <1>5, <2>1
  <2> QED BY <1>1, <1>5, <2>2 DEF Folding
<1> DEFINE g == CHOOSE g : Ink(g)
<1>7. Ink(g)
  <2> HIDE DEF Ink
  <2> QED BY <1>6
<1>8. TypedFrom(row, message) = g[1..n].marks
  BY <1>1 DEF TypedFrom, FoldLeft, MapThenFoldSet
<1> HIDE DEF g
<1>9. g[1..0] = a /\ \A k \in 1..n : g[1..k] = Typed(g[1..(k - 1)], message[k])
  <2>1. 1..0 \in SUBSET (1..n) /\ 1..0 = {}
    OBVIOUS
  <2>2. ASSUME NEW k \in 1..n
        PROVE  g[1..k] = Typed(g[1..(k - 1)], message[k])
    <3>1. 1..k \in SUBSET (1..n) /\ 1..k # {} /\ Max(1..k) = k /\ (1..k) \ {k} = 1..(k - 1)
      BY <1>1, Upto
    <3> HIDE DEF a
    <3> QED BY <1>1, <1>7, <3>1
  <2> HIDE DEF a
  <2> QED BY <1>1, <1>7, <2>1, <2>2
<1> DEFINE G == {k \in 0..n : PenOK(g[1..k], row)}
<1>10. \A k \in 0..n : k \in G
  <2>1. 0 \in G
    BY <1>1, <1>2, <1>9
  <2>2. ASSUME NEW k \in 1..n, k - 1 \in G
        PROVE  k \in G
    <3>1. PenOK(g[1..(k - 1)], row) /\ k \in 0..n
      BY <1>1, <2>2
    <3>2. PenOK(Typed(g[1..(k - 1)], message[k]), row)
      BY <3>1, TypedKeeps
    <3> QED BY <1>9, <3>1, <3>2
  <2> DEFINE B == (0..n) \ G
  <2>3. ASSUME B # {} PROVE FALSE
    <3>1. B \in SUBSET Nat
      BY <1>1
    <3>2. Min(B) \in B /\ \A k \in B : Min(B) <= k
      <4> HIDE DEF B
      <4> QED BY <2>3, <3>1, MinIs
    <3> DEFINE k == Min(B)
    <3>3. k \in 0..n /\ k \notin G /\ \A i \in 0..n : i \notin G => k <= i
      BY <3>2
    <3> HIDE DEF k, G, B
    <3>4. k # 0 /\ k \in 1..n /\ k - 1 \in 0..n /\ ~(k <= k - 1)
      BY <1>1, <2>1, <3>3
    <3> QED BY <2>2, <3>3, <3>4
  <2> QED BY <2>3
<1>11. n \in 0..n
  BY <1>1
<1> QED BY <1>8, <1>10, <1>11

LEMMA TextIsLegible == ConsoleInv => LegibleText
<1> SUFFICES ASSUME ConsoleInv
             PROVE  LegibleText
  OBVIOUS
<1>1. rowWidth \in Nat /\ DrawnLines \in Nat /\ drawLines \in Nat
  BY DrawnIs
<1>2. \A i \in 1..DrawnLines : RowOf(i) \in Nat /\ \E p : PenOK(p, RowOf(i)) /\ Marks(i) = p.marks
  <2> TAKE i \in 1..DrawnLines
  <2>1. RowOf(i) \in Nat /\ Drawn(i).message \in Seq(STRING)
    BY DrawnIs DEF Messages
  <2> QED BY <1>1, <2>1, TypedFromIs DEF Marks
<1>3. ASSUME NEW i \in 1..DrawnLines
      PROVE  /\ \A j \in 2..Len(Marks(i)) : InReadingOrder(Marks(i)[j - 1], Marks(i)[j])
             /\ \A j \in DOMAIN Marks(i) : Marks(i)[j][2] < Narrow /\ RowOf(i) <= Marks(i)[j][1] /\ Marks(i)[j][1] \in Nat
  <2>1. PICK p : PenOK(p, RowOf(i)) /\ Marks(i) = p.marks
    BY <1>2
  <2>2. Marks(i) \in Seq(Nat \X Nat) /\ DOMAIN Marks(i) = 1..Len(Marks(i))
    BY <2>1 DEF PenOK, Pens
  <2>3. \A j \in DOMAIN Marks(i) : Marks(i)[j] \in Nat \X Nat
    BY <2>2, LenProperties
  <2> QED BY <2>1, <2>2, <2>3 DEF PenOK
<1>4. ASSUME NEW i \in 1..DrawnLines, NEW h \in 1..(i - 1), ToSet(Marks(h)) \cap ToSet(Marks(i)) # {}
      PROVE  ~OneRow(h)
  <2>1. h \in 1..DrawnLines /\ RowOf(h) < RowOf(i) /\ RowOf(h) \in Nat /\ RowOf(i) \in Nat
    BY <1>1, <1>2 DEF RowOf
  <2>2. PICK j \in DOMAIN Marks(h), k \in DOMAIN Marks(i) : Marks(h)[j] = Marks(i)[k]
    BY <1>4 DEF ToSet
  <2>3. RowOf(i) <= Marks(h)[j][1] /\ Marks(h)[j][1] \in Nat
    BY <1>3, <2>2
  <2>4. Marks(h)[j][1] # RowOf(h)
    BY <2>1, <2>3
  <2> QED BY <2>2, <2>4 DEF OneRow
<1> QED BY <1>3, <1>4 DEF LegibleText, Narrow

(* The console shows the newest, and legibly. *)
THEOREM ConsoleShows == ConsoleInit /\ [][ConsoleNext]_consoleVars => [](NewestShown /\ LegibleText)
<1>1. ConsoleInv => NewestShown /\ LegibleText
  BY NewestAreShown, TextIsLegible
<1> QED BY <1>1, ConsoleInvariance, PTL
-----------------------------------------------------------------------------
(* Lines.                                                                   *)

LineRecords ==
  [points : Seq(Spots), asked : Seq(Spots), cap : Nat, room : Nat, lost : BOOLEAN, emptied : BOOLEAN,
   by : {"none", "made", "copy", "JSON"}]

(* Only a copy's array has less room than its capacity promises.            *)
LineOK(o) ==
  /\ o \in LineRecords /\ Len(o.points) <= MaxPoints
  /\ o.points = o.asked
  /\ Len(o.points) <= o.cap /\ o.room <= o.cap /\ (o.by # "copy" => o.room = o.cap)
  /\ o.points = <<>> /\ o.room > 0 => o.emptied
  /\ o.lost => o.emptied

LinesInv ==
  /\ line \in [LineIds -> LineRecords] /\ overrun \in BOOLEAN
  /\ \A l \in LineIds : LineOK(line[l])

LEMMA BlankIsOK == LineOK(Blank)
<1>1. <<>> \in Seq(Spots) /\ Len(<<>>) = 0 /\ MaxPoints \in Nat
  BY PolyLinesAssumption, EmptySeq
<1>2. Blank \in LineRecords
  BY <1>1 DEF Blank, LineRecords
<1> QED BY <1>1, <1>2 DEF LineOK, Blank

LEMMA OneLineChanges ==
  ASSUME LinesInv, NEW l \in LineIds, NEW o, LineOK(o), line' = [line EXCEPT ![l] = o], overrun' \in BOOLEAN
  PROVE  LinesInv'
<1>1. line' \in [LineIds -> LineRecords] /\ \A k \in LineIds : line'[k] = IF k = l THEN o ELSE line[k]
  BY DEF LinesInv, LineOK
<1> QED BY <1>1 DEF LinesInv

LEMMA AddPointIsOK ==
  ASSUME NEW o, LineOK(o), o.by # "none", Len(o.points) < MaxPoints, NEW spot \in Spots
  PROVE  LineOK([GrownFor(Started(o)) EXCEPT !.points = Append(@, spot), !.asked = Append(@, spot)])
<1> DEFINE s == Started(o)
           g == GrownFor(s)
           ps == Append(o.points, spot)
           r == [g EXCEPT !.points = Append(@, spot), !.asked = Append(@, spot)]
<1>1. o \in LineRecords /\ o.points \in Seq(Spots) /\ o.points = o.asked /\ o.cap \in Nat /\ o.room \in Nat
      /\ Len(o.points) \in Nat /\ (o.points = <<>> <=> Len(o.points) = 0)
  BY EmptySeq, LenProperties DEF LineOK, LineRecords
<1>2. ps \in Seq(Spots) /\ Len(ps) = Len(o.points) + 1 /\ ps # <<>>
  BY <1>1, AppendProperties, EmptySeq
<1>3. FirstRoom \in Nat /\ FirstRoom >= 1 /\ MaxPoints \in Nat
  BY PolyLinesAssumption
<1>4. /\ s \in LineRecords /\ s.points = o.points /\ s.asked = o.points /\ s.emptied = o.emptied /\ s.by = o.by
      /\ s.cap = (IF o.points = <<>> THEN FirstRoom ELSE o.cap)
      /\ s.room = (IF o.points = <<>> THEN FirstRoom ELSE o.room)
      /\ s.lost = (IF o.points = <<>> THEN o.lost \/ o.room > 0 ELSE o.lost)
  <2>1. CASE o.points = <<>>
    <3> DEFINE losing == o.lost \/ o.room > 0
    <3>1. losing \in BOOLEAN /\ s = [o EXCEPT !.cap = FirstRoom, !.room = FirstRoom, !.lost = losing]
      BY <1>1, <2>1 DEF Started
    <3>2. s.lost = (o.lost \/ o.room > 0)
      BY <1>1, <3>1 DEF LineRecords
    <3> HIDE DEF s, losing
    <3>3. /\ s \in LineRecords /\ s.points = o.points /\ s.asked = o.asked /\ s.emptied = o.emptied /\ s.by = o.by
          /\ s.cap = FirstRoom /\ s.room = FirstRoom
      BY <1>1, <1>3, <3>1 DEF LineRecords
    <3> QED BY <1>1, <2>1, <3>2, <3>3
  <2>2. CASE o.points # <<>>
    <3>1. s = o
      BY <2>2 DEF Started
    <3> QED BY <1>1, <2>2, <3>1
  <2> QED BY <2>1, <2>2
<1>5. s.lost => o.emptied
  BY <1>4 DEF LineOK
<1> HIDE DEF s
<1>6. /\ g \in LineRecords /\ g.points = o.points /\ g.asked = o.points /\ g.emptied = o.emptied /\ g.by = o.by
      /\ g.lost = s.lost
      /\ g.cap = (IF Len(o.points) >= s.cap THEN 2 * s.cap ELSE s.cap)
      /\ g.room = (IF Len(o.points) >= s.cap THEN 2 * s.cap ELSE s.room)
  <2>1. CASE Len(s.points) >= s.cap
    <3>1. s.cap \in Nat /\ 2 * s.cap \in Nat
      BY <1>4 DEF LineRecords
    <3> DEFINE twice == 2 * s.cap
    <3>2. g = [s EXCEPT !.cap = twice, !.room = twice]
      BY <2>1 DEF GrownFor
    <3>3. twice \in Nat
      BY <3>1
    <3> HIDE DEF g, twice
    <3>4. /\ g \in LineRecords /\ g.points = s.points /\ g.asked = s.asked /\ g.emptied = s.emptied /\ g.by = s.by
          /\ g.cap = twice /\ g.room = twice /\ g.lost = s.lost
      BY <1>4, <3>2, <3>3 DEF LineRecords
    <3> QED BY <1>4, <2>1, <3>4 DEF twice
  <2>2. CASE ~(Len(s.points) >= s.cap)
    <3>1. g = s
      BY <2>2 DEF GrownFor
    <3> HIDE DEF g
    <3> QED BY <1>4, <2>2, <3>1
  <2> QED BY <2>1, <2>2
<1> HIDE DEF g
<1>7. /\ r \in LineRecords /\ r.points = ps /\ r.asked = ps /\ r.emptied = o.emptied /\ r.by = o.by
      /\ r.lost = s.lost /\ r.cap = g.cap /\ r.room = g.room
  <2>1. r = [g EXCEPT !.points = ps, !.asked = ps]
    BY <1>6
  <2> HIDE DEF r, ps
  <2> QED BY <1>2, <1>6, <2>1 DEF LineRecords
<1>8. Len(o.points) <= o.cap /\ o.room <= o.cap /\ (o.by # "copy" => o.room = o.cap)
  BY DEF LineOK
<1>9. s.cap \in Nat /\ s.room \in Nat /\ s.room <= s.cap /\ (o.by # "copy" => s.room = s.cap) /\ Len(o.points) <= s.cap
      /\ 1 <= s.cap
  <2>1. CASE o.points = <<>>
    BY <1>1, <1>3, <1>4, <2>1
  <2>2. CASE o.points # <<>>
    BY <1>1, <1>4, <1>8, <2>2
  <2> QED BY <2>1, <2>2
<1>10. Len(ps) <= r.cap /\ r.room <= r.cap /\ (r.by # "copy" => r.room = r.cap) /\ Len(ps) <= MaxPoints
  <2>1. CASE Len(o.points) >= s.cap
    BY <1>1, <1>2, <1>3, <1>6, <1>7, <1>9, <2>1
  <2>2. CASE ~(Len(o.points) >= s.cap)
    BY <1>1, <1>2, <1>3, <1>6, <1>7, <1>9, <2>2
  <2> QED BY <2>1, <2>2
<1> HIDE DEF r, ps
<1>11. LineOK(r)
  BY <1>2, <1>5, <1>7, <1>10 DEF LineOK
<1> QED BY <1>11 DEF r, g, s

LEMMA LinesInductive == LinesInv /\ [PolyLinesNext]_lineVars => LinesInv'
<1> SUFFICES ASSUME LinesInv, [PolyLinesNext]_lineVars
             PROVE  LinesInv'
  OBVIOUS
<1>1. ASSUME NEW l \in LineIds, Make(l)
      PROVE  LinesInv'
  <2> DEFINE o == [line[l] EXCEPT !.by = "made"]
  <2>1. line[l] \in LineRecords /\ LineOK(line[l]) /\ line[l].by = "none"
    BY <1>1 DEF LinesInv, Make, Lives
  <2>2. line' = [line EXCEPT ![l] = o] /\ UNCHANGED overrun
    BY <1>1 DEF Make
  <2>3. /\ o \in LineRecords /\ o.points = line[l].points /\ o.asked = line[l].asked /\ o.cap = line[l].cap
        /\ o.room = line[l].room /\ o.lost = line[l].lost /\ o.emptied = line[l].emptied /\ o.by = "made"
    BY <2>1 DEF LineRecords
  <2> HIDE DEF o
  <2>4. LineOK(o)
    BY <2>1, <2>3 DEF LineOK
  <2>5. overrun' \in BOOLEAN
    BY <2>2 DEF LinesInv
  <2> QED BY <2>2, <2>4, <2>5, OneLineChanges
<1>2. ASSUME NEW l \in LineIds, NEW spot \in Spots, AddPoint(l, spot)
      PROVE  LinesInv'
  <2> DEFINE g == GrownFor(Started(line[l]))
             o == [g EXCEPT !.points = Append(@, spot), !.asked = Append(@, spot)]
  <2>1. LineOK(line[l]) /\ line[l].by # "none" /\ Len(line[l].points) < MaxPoints
    BY <1>2 DEF LinesInv, AddPoint, Lives
  <2>2. line' = [line EXCEPT ![l] = o] /\ overrun' \in BOOLEAN
    BY <1>2 DEF AddPoint
  <2>3. LineOK(o)
    BY <2>1, AddPointIsOK
  <2> HIDE DEF o
  <2> QED BY <2>2, <2>3, OneLineChanges
<1>3. ASSUME NEW l \in LineIds, NEW i \in 1..MaxPoints, RemovePoint(l, i)
      PROVE  LinesInv'
  <2> DEFINE p == line[l]
             ps == MovedUp(p.points, i)
             rs == RemoveAt(p.asked, i)
             emptied == p.emptied \/ Len(p.points) = 1
             o == [p EXCEPT !.points = ps, !.asked = rs, !.emptied = emptied]
  <2>1. /\ p \in LineRecords /\ LineOK(p) /\ p.points \in Seq(Spots) /\ p.points = p.asked /\ p.cap \in Nat
        /\ Len(p.points) \in Nat /\ DOMAIN p.points = 1..Len(p.points) /\ i \in 1..Len(p.points)
    BY <1>3, LenProperties DEF LinesInv, RemovePoint, LineOK, LineRecords
  <2>2. /\ rs \in Seq(Spots) /\ Len(rs) = Len(p.points) - 1
        /\ \A k \in 1..(Len(p.points) - 1) : rs[k] = p.points[IF k < i THEN k ELSE k + 1]
    <3> HIDE DEF p
    <3> QED BY <2>1, RemovedIs
  <2>3. ps = rs
    <3>1. DOMAIN rs = 1..(Len(p.points) - 1)
      <4> HIDE DEF rs, p
      <4> QED BY <2>1, <2>2, LenProperties
    <3>2. rs = [k \in 1..(Len(p.points) - 1) |-> rs[k]]
      <4> HIDE DEF rs, p
      <4> QED BY <2>2, <3>1
    <3>3. \A k \in 1..(Len(p.points) - 1) : rs[k] = IF k < i THEN p.points[k] ELSE p.points[k + 1]
      <4> HIDE DEF rs, p
      <4> QED BY <2>2
    <3> HIDE DEF rs, p
    <3>4. [k \in 1..(Len(p.points) - 1) |-> rs[k]] = [k \in 1..(Len(p.points) - 1) |-> IF k < i THEN p.points[k] ELSE p.points[k + 1]]
      BY <3>3
    <3> QED BY <3>2, <3>4 DEF MovedUp
  <2>4. line' = [line EXCEPT ![l] = o] /\ UNCHANGED overrun
    <3>1. line \in [LineIds -> LineRecords]
      BY DEF LinesInv
    <3>2. line' = [line EXCEPT ![l].points = MovedUp(@, i), ![l].asked = RemoveAt(@, i),
                               ![l].emptied = @ \/ Len(line[l].points) = 1] /\ UNCHANGED overrun
      BY <1>3 DEF RemovePoint
    <3> QED BY <3>1, <3>2 DEF LineRecords
  <2>5. emptied \in BOOLEAN
    OBVIOUS
  <2> HIDE DEF ps, rs, p
  <2>5a. (p.emptied => emptied) /\ (Len(p.points) = 1 => emptied)
    BY DEF LineOK, LineRecords
  <2> HIDE DEF emptied
  <2>6. /\ o \in LineRecords /\ o.points = ps /\ o.asked = rs /\ o.cap = p.cap
        /\ o.room = p.room /\ o.lost = p.lost /\ o.emptied = emptied /\ o.by = p.by
    BY <2>1, <2>2, <2>3, <2>5 DEF LineRecords
  <2> HIDE DEF o
  <2>7. Len(rs) <= p.cap /\ Len(rs) <= MaxPoints
    BY <2>1, <2>2, PolyLinesAssumption DEF LineOK
  <2>8. rs = <<>> => Len(p.points) = 1
    BY <2>1, <2>2, EmptySeq
  <2>9. LineOK(o)
    BY <2>1, <2>3, <2>5a, <2>6, <2>7, <2>8 DEF LineOK
  <2>10. overrun' \in BOOLEAN
    BY <2>4 DEF LinesInv
  <2> QED BY <2>4, <2>9, <2>10, OneLineChanges
<1>4. ASSUME NEW l \in LineIds, ClearPoints(l)
      PROVE  LinesInv'
  <2> DEFINE p == line[l]
             emptied == p.emptied \/ p.points # <<>>
             o == [p EXCEPT !.points = <<>>, !.asked = <<>>, !.emptied = emptied]
  <2>1. p \in LineRecords /\ LineOK(p) /\ <<>> \in Seq(Spots) /\ Len(<<>>) = 0 /\ p.cap \in Nat /\ emptied \in BOOLEAN
    BY EmptySeq DEF LinesInv, LineRecords
  <2>2. line' = [line EXCEPT ![l] = o] /\ UNCHANGED overrun
    <3>1. line \in [LineIds -> LineRecords]
      BY DEF LinesInv
    <3>2. line' = [line EXCEPT ![l].points = <<>>, ![l].asked = <<>>, ![l].emptied = @ \/ line[l].points # <<>>]
          /\ UNCHANGED overrun
      BY <1>4 DEF ClearPoints
    <3> QED BY <3>1, <3>2 DEF LineRecords
  <2>3. (p.points # <<>> => emptied) /\ (p.emptied => emptied)
    BY <2>1 DEF LineRecords
  <2> HIDE DEF p, emptied
  <2>4. /\ o \in LineRecords /\ o.points = <<>> /\ o.asked = <<>> /\ o.cap = p.cap
        /\ o.room = p.room /\ o.lost = p.lost /\ o.emptied = emptied /\ o.by = p.by
    BY <2>1 DEF LineRecords
  <2> HIDE DEF o
  <2>5. LineOK(o)
    BY <2>1, <2>3, <2>4, PolyLinesAssumption DEF LineOK
  <2>6. overrun' \in BOOLEAN
    BY <2>2 DEF LinesInv
  <2> QED BY <2>2, <2>5, <2>6, OneLineChanges
<1>5. ASSUME NEW l \in LineIds, NEW to \in LineIds, CopyLine(l, to)
      PROVE  LinesInv'
  <2> DEFINE p == line[l]
             o == CopyOf(p)
  <2>1. p \in LineRecords /\ LineOK(p) /\ p.points \in Seq(Spots) /\ Len(p.points) \in Nat /\ p.cap \in Nat
    BY LenProperties DEF LinesInv, LineRecords
  <2>2. line' = [line EXCEPT ![to] = o] /\ overrun' \in BOOLEAN
    BY <1>5 DEF CopyLine, LinesInv
  <2> HIDE DEF p
  <2>3. /\ o \in LineRecords /\ o.points = p.points /\ o.asked = p.points /\ o.cap = p.cap
        /\ o.room = Len(p.points) /\ o.lost = FALSE /\ o.by = "copy"
    BY <2>1 DEF CopyOf, Blank, LineRecords
  <2> HIDE DEF o
  <2>4. o.points = <<>> => ~(o.room > 0)
    BY <2>3, EmptySeq
  <2>5. LineOK(o)
    BY <2>1, <2>3, <2>4 DEF LineOK
  <2> QED BY <2>2, <2>5, OneLineChanges
<1>6. ASSUME NEW l \in LineIds, NEW to \in LineIds, WriteAndRead(l, to)
      PROVE  LinesInv'
  <2> DEFINE p == line[l]
             o == ReadBack(p)
  <2>1. p \in LineRecords /\ LineOK(p) /\ p.points \in Seq(Spots) /\ Len(p.points) \in Nat /\ p.points # <<>>
    BY <1>6, LenProperties DEF LinesInv, LineRecords, WriteAndRead
  <2>2. line' = [line EXCEPT ![to] = o] /\ overrun' \in BOOLEAN
    BY <1>6 DEF WriteAndRead, LinesInv
  <2> HIDE DEF p
  <2>3. /\ o \in LineRecords /\ o.points = p.points /\ o.asked = p.points /\ o.cap = Len(p.points)
        /\ o.room = Len(p.points) /\ o.lost = FALSE /\ o.by = "JSON"
    BY <2>1 DEF ReadBack, Blank, LineRecords
  <2> HIDE DEF o
  <2>4. LineOK(o)
    BY <2>1, <2>3 DEF LineOK
  <2> QED BY <2>2, <2>4, OneLineChanges
<1>7. ASSUME NEW l \in LineIds, DestroyLine(l)
      PROVE  LinesInv'
  <2>1. line' = [line EXCEPT ![l] = Blank] /\ overrun' \in BOOLEAN
    BY <1>7 DEF DestroyLine, LinesInv
  <2> QED BY <2>1, BlankIsOK, OneLineChanges
<1>8. CASE UNCHANGED lineVars
  BY <1>8 DEF lineVars, LinesInv
<1> QED BY <1>1, <1>2, <1>3, <1>4, <1>5, <1>6, <1>7, <1>8 DEF PolyLinesNext

(* The inductive invariant of lines.                                        *)
THEOREM LinesInvariance == PolyLinesSpec => []LinesInv
<1>1. PolyLinesInit => LinesInv
  BY BlankIsOK DEF PolyLinesInit, LinesInv, LineOK
<1> QED BY <1>1, LinesInductive, PTL DEF PolyLinesSpec

(* Type correctness of lines. *)
THEOREM LinesTypeCorrect == PolyLinesSpec => []PolyLinesTypeOK
<1>1. LinesInv => PolyLinesTypeOK
  <2> SUFFICES ASSUME LinesInv, NEW l \in LineIds
               PROVE  line[l].points \in SeqOf(Spots, MaxPoints) /\ line[l].by \in {"none", "made", "copy", "JSON"}
    BY DEF PolyLinesTypeOK, LinesInv
  <2> DEFINE ps == line[l].points
             n == Len(ps)
  <2>1. ps \in Seq(Spots) /\ n <= MaxPoints /\ line[l].by \in {"none", "made", "copy", "JSON"}
    BY DEF LinesInv, LineOK, LineRecords
  <2> HIDE DEF ps
  <2>2. n \in 0..MaxPoints /\ ps \in [1..n -> Spots]
    BY <2>1, LenProperties, PolyLinesAssumption
  <2>3. ps \in SeqOf(Spots, MaxPoints)
    <3> HIDE DEF n
    <3> QED BY <2>2 DEF SeqOf
  <2> QED BY <2>1, <2>3 DEF ps
<1> QED BY <1>1, LinesInvariance, PTL

(* A line has the points that were asked for. *)
THEOREM LinesKeepPoints == PolyLinesSpec => []PointsKept
<1>1. LinesInv => PointsKept
  <2> SUFFICES ASSUME LinesInv, NEW l \in LineIds
               PROVE  /\ line[l].points = line[l].asked
                      /\ Len(line[l].points) <= line[l].room \/ (line[l].by = "copy" /\ line[l].room < line[l].cap)
                      /\ line[l].lost => line[l].emptied
    BY DEF PointsKept
  <2> DEFINE o == line[l]
  <2>1. LineOK(o) /\ o \in LineRecords
    BY DEF LinesInv
  <2> HIDE DEF o
  <2>2. Len(o.points) \in Nat /\ o.room \in Nat /\ o.cap \in Nat
    BY <2>1, LenProperties DEF LineRecords
  <2>3. Len(o.points) <= o.room \/ (o.by = "copy" /\ o.room < o.cap)
    BY <2>1, <2>2 DEF LineOK
  <2> QED BY <2>1, <2>3 DEF LineOK, o
<1> QED BY <1>1, LinesInvariance, PTL
-----------------------------------------------------------------------------
(* Tile sets.                                                               *)

Mappings  == [sprites : Seq(WeightedSprite), room : Nat, total : Nat]
NamesOf(q) == [i \in DOMAIN q |-> q[i].sprite]

(* A list of sprites q, of which a says what was asked for: the names, each *)
(* once, with their weights.                                                *)
ListOK(q, a) ==
  /\ q \in Seq(WeightedSprite)
  /\ ToSet(NamesOf(q)) = DOMAIN a /\ Once(NamesOf(q))
  /\ \A i \in 1..Len(q) : q[i].weight = a[q[i].sprite]

(* The sum is that of the weights asked for, by name.                       *)
MappingOK(m, a) ==
  /\ m \in Mappings /\ ListOK(m.sprites, a)
  /\ Len(m.sprites) <= m.room /\ m.total = Sum(a, DOMAIN a)

(* The i-th draw of a painting begins with the seed that the one before it  *)
(* left, the first with the map's.                                          *)
SeedFor(ls, i, seed) == IF i = 1 THEN seed ELSE ls[i - 1].seed

PaintingOK(ls, mapping, seed) ==
  /\ ls \in Seq(Look) /\ Len(ls) <= Len(PaintedTiles)
  /\ \A i \in 1..Len(ls) :
       \E now \in Seeds : ls[i] = LookAt(mapping[PaintedTiles[i]], SeedFor(ls, i, seed), now)

SetRecord == [mapping : [TileIds -> Mappings], seed : Seeds]

SetOK(set, weights) ==
  /\ set \in SetRecord
  /\ \A k \in TileIds : MappingOK(set.mapping[k], weights[k])

TilesetsInv ==
  /\ tileset = [t \in TileSets |-> tileset[t]] /\ tileset["set"] # NoTileset
  /\ asked = [t \in TileSets |-> [k \in TileIds |-> asked[t][k]]]
  /\ \A t \in TileSets : tileset[t] # NoTileset => SetOK(tileset[t], asked[t])
  /\ mapSeed \in MapSeeds /\ paints \in BOOLEAN
  /\ PaintingOK(looks, tileset["set"].mapping, mapSeed)
  /\ PaintingOK(lastLooks, tileset["set"].mapping, mapSeed)
  /\ IF paints THEN tileset["set"].seed = SeedFor(looks, Len(looks) + 1, mapSeed) ELSE looks = <<>>

LEMMA NamesAre ==
  ASSUME NEW q \in Seq(WeightedSprite)
  PROVE  /\ NamesOf(q) \in Seq(SpriteNames) /\ Len(NamesOf(q)) = Len(q) /\ Len(q) \in Nat /\ DOMAIN q = 1..Len(q)
         /\ ToSet(NamesOf(q)) = {q[i].sprite : i \in 1..Len(q)} /\ ToSet(NamesOf(q)) \subseteq SpriteNames
         /\ IsFiniteSet(ToSet(NamesOf(q)))
         /\ \A i \in 1..Len(q) : /\ NamesOf(q)[i] = q[i].sprite /\ q[i] \in WeightedSprite
                                 /\ q[i].sprite \in SpriteNames /\ q[i].weight \in SpriteWeights
<1> DEFINE n == Len(q)
           s == NamesOf(q)
<1>1. n \in Nat /\ DOMAIN q = 1..n /\ \A i \in 1..n : q[i] \in WeightedSprite
  <2> HIDE DEF WeightedSprite
  <2> QED OBVIOUS
<1>2. \A i \in 1..n : q[i].sprite \in SpriteNames /\ q[i].weight \in SpriteWeights
  BY <1>1 DEF WeightedSprite
<1> HIDE DEF n
<1>3. s \in [1..n -> SpriteNames] /\ DOMAIN s = 1..n /\ \A i \in 1..n : s[i] = q[i].sprite
  BY <1>1, <1>2 DEF NamesOf
<1> HIDE DEF s
<1>4. s \in Seq(SpriteNames) /\ Len(s) = n
  BY <1>1, <1>3, SeqDef
<1>5. ToSet(s) = {q[i].sprite : i \in 1..n}
  BY <1>3 DEF ToSet
<1>6. IsFiniteSet(ToSet(s))
  <2>1. IsFiniteSet(1..n)
    BY <1>1, FS_Interval
  <2>2. s \in Surjection(1..n, ToSet(s))
    BY <1>3 DEF Surjection, ToSet
  <2> QED BY <2>1, <2>2, FS_Surjection
<1> QED BY <1>1, <1>2, <1>3, <1>4, <1>5, <1>6 DEF s, n

(* What an empty list needs is nothing.                                     *)
LEMMA EmptyListOK ==
  /\ \A a : DOMAIN a = {} => ListOK(<<>>, a) /\ Sum(a, DOMAIN a) = 0
  /\ NoMapping \in Mappings /\ NoMapping.sprites = <<>>
  /\ \A a : DOMAIN a = {} => MappingOK(NoMapping, a)
<1>1. <<>> \in Seq(WeightedSprite) /\ Len(<<>>) = 0 /\ DOMAIN <<>> = {}
  OBVIOUS
<1>2. ASSUME NEW a, DOMAIN a = {}
      PROVE  ListOK(<<>>, a) /\ Sum(a, DOMAIN a) = 0
  <2>1. ToSet(NamesOf(<<>>)) = {} /\ Once(NamesOf(<<>>))
    <3>1. NamesOf(<<>>) \in Seq(SpriteNames) /\ Len(NamesOf(<<>>)) = 0 /\ ToSet(NamesOf(<<>>)) = {<<>>[i].sprite : i \in 1..0}
      BY <1>1, NamesAre
    <3> QED BY <3>1 DEF Once
  <2> QED BY <1>1, <1>2, <2>1, SumEmpty DEF ListOK
<1>3. /\ NoMapping \in Mappings /\ NoMapping.sprites = <<>> /\ NoMapping.room = 0 /\ NoMapping.total = 0
  BY <1>1 DEF NoMapping, Mappings
<1>4. \A a : DOMAIN a = {} => MappingOK(NoMapping, a)
  BY <1>1, <1>2, <1>3 DEF MappingOK
<1> QED BY <1>2, <1>3, <1>4

LEMMA FieldsOf ==
  ASSUME NEW m \in Mappings
  PROVE  /\ m.sprites \in Seq(WeightedSprite) /\ m.room \in Nat /\ m.total \in Nat
         /\ m = [sprites |-> m.sprites, room |-> m.room, total |-> m.total]
BY DEF Mappings

(* The place of a sprite is the only one that has it.                       *)
LEMMA PlaceIs ==
  ASSUME NEW m \in Mappings, Once(NamesOf(m.sprites)), NEW s, HasSprite(m, s)
  PROVE  /\ SpriteAt(m, s) \in 1..Len(m.sprites) /\ m.sprites[SpriteAt(m, s)].sprite = s
         /\ \A i \in 1..Len(m.sprites) : m.sprites[i].sprite = s => i = SpriteAt(m, s)
<1>1. m.sprites \in Seq(WeightedSprite)
  BY FieldsOf
<1> DEFINE q == m.sprites
           P == SpritePlaces(m, s)
<1>2. /\ Len(NamesOf(q)) = Len(q) /\ Len(q) \in Nat /\ DOMAIN q = 1..Len(q)
      /\ \A i \in 1..Len(q) : NamesOf(q)[i] = q[i].sprite
  BY <1>1, NamesAre
<1>3. P \subseteq 1..Len(q) /\ P # {} /\ \A i \in P : q[i].sprite = s
  BY <1>2 DEF SpritePlaces, HasSprite
<1>4. \A i, j \in 1..Len(q) : q[i].sprite = q[j].sprite => i = j
  BY <1>2 DEF Once
<1>5. PICK k \in P : TRUE
  BY <1>3
<1>6. \A j \in P : j = k /\ k <= j
  BY <1>2, <1>3, <1>4, <1>5
<1>7. SpriteAt(m, s) = k
  BY <1>5, <1>6 DEF SpriteAt
<1> QED BY <1>3, <1>4, <1>5, <1>7

(* A weight is changed: the names stay, and the sum changes with it.        *)
LEMMA ReweightedOK ==
  ASSUME TilesetsAssumption, NEW m, NEW a, MappingOK(m, a),
         NEW s \in SpriteNames, NEW w \in SpriteWeights, HasSprite(m, s)
  PROVE  MappingOK(Reweighted(m, s, w), With(a, s, w))
<1> DEFINE q == m.sprites
           k == SpriteAt(m, s)
           c == With(a, s, w)
           y == [q[k] EXCEPT !.weight = w]
           p == [q EXCEPT ![k] = y]
           t == m.total - q[k].weight + w
<1>1. /\ m \in Mappings /\ q \in Seq(WeightedSprite) /\ m.room \in Nat /\ m.total \in Nat
      /\ ToSet(NamesOf(q)) = DOMAIN a /\ Once(NamesOf(q)) /\ Len(q) <= m.room /\ m.total = Sum(a, DOMAIN a)
      /\ \A i \in 1..Len(q) : q[i].weight = a[q[i].sprite]
  BY FieldsOf DEF MappingOK, ListOK
<1>2. /\ k \in 1..Len(q) /\ q[k].sprite = s
      /\ \A i \in 1..Len(q) : q[i].sprite = s => i = k
  BY <1>1, PlaceIs
<1>3. /\ Len(NamesOf(q)) = Len(q) /\ Len(q) \in Nat /\ DOMAIN q = 1..Len(q)
      /\ ToSet(NamesOf(q)) = {q[i].sprite : i \in 1..Len(q)} /\ IsFiniteSet(ToSet(NamesOf(q)))
      /\ \A i \in 1..Len(q) : /\ NamesOf(q)[i] = q[i].sprite /\ q[i] \in WeightedSprite
                              /\ q[i].sprite \in SpriteNames /\ q[i].weight \in SpriteWeights
  BY <1>1, NamesAre
<1>4. s \in DOMAIN a /\ DOMAIN c = DOMAIN a /\ c[s] = w /\ \A x \in DOMAIN a : x # s => c[x] = a[x]
  BY <1>1, <1>2, <1>3 DEF With
<1>5. y \in WeightedSprite /\ y.sprite = s /\ y.weight = w
  BY <1>2, <1>3 DEF WeightedSprite
<1>6. Reweighted(m, s, w) = [sprites |-> p, room |-> m.room, total |-> t]
  <2>1. PICK r, n : m = [sprites |-> q, room |-> r, total |-> n]
    BY <1>1, FieldsOf
  <2>2. Reweighted(m, s, w) = [m EXCEPT !.sprites = p, !.total = t]
    BY <1>1, <1>3 DEF Reweighted
  <2> HIDE DEF q, p, t
  <2>3. m.room = r
    BY <2>1
  <2> QED BY <2>1, <2>2, <2>3
<1> HIDE DEF k, c, y
<1>7. /\ p \in Seq(WeightedSprite) /\ Len(p) = Len(q) /\ p[k] = y /\ \A i \in 1..Len(q) : i # k => p[i] = q[i]
  <2> HIDE DEF WeightedSprite, q
  <2> QED BY <1>1, <1>2, <1>3, <1>5
<1> HIDE DEF p, q
<1>8. /\ Len(NamesOf(p)) = Len(p) /\ DOMAIN p = 1..Len(p)
      /\ \A i \in 1..Len(p) : NamesOf(p)[i] = p[i].sprite
  BY <1>7, NamesAre
<1>9. NamesOf(p) = NamesOf(q)
  <2>1. \A i \in 1..Len(q) : p[i].sprite = q[i].sprite
    BY <1>2, <1>5, <1>7
  <2>2. DOMAIN p = DOMAIN q /\ DOMAIN p = 1..Len(q)
    BY <1>3, <1>7, <1>8
  <2> QED BY <2>1, <2>2 DEF NamesOf
<1>10. \A i \in 1..Len(p) : p[i].weight = c[p[i].sprite]
  <2>1. \A i \in 1..Len(q) : i # k => q[i].sprite # s /\ q[i].sprite \in DOMAIN a
    BY <1>1, <1>2, <1>3
  <2> QED BY <1>1, <1>4, <1>5, <1>7, <2>1
<1>11. t \in Nat /\ t = Sum(c, DOMAIN c)
  <2> DEFINE D == DOMAIN a
  <2>1. IsFiniteSet(D) /\ s \in D /\ IsFiniteSet(D \ {s}) /\ DOMAIN c = D
    BY <1>1, <1>3, <1>4, FS_RemoveElement
  <2>2. \A x \in D : a[x] \in Nat
    <3>1. \A x \in D : a[x] \in SpriteWeights
      BY <1>1, <1>3
    <3> QED BY <3>1, TilesetsAssumption
  <2>3. w \in Nat
    BY TilesetsAssumption
  <2>9. Counting(a, D)
    BY <2>2 DEF Counting
  <2>4. Counting(c, D)
    BY <1>4, <2>2, <2>3 DEF Counting
  <2> HIDE DEF D, t
  <2>8. IsFiniteSet(D) /\ s \in D
    BY <2>1
  <2>5. Sum(a, D) \in Nat /\ Sum(a, D \ {s}) \in Nat /\ Sum(a, D) = a[s] + Sum(a, D \ {s})
    BY <2>8, <2>9, SumWithout
  <2>6. Sum(c, D) \in Nat /\ Sum(c, D \ {s}) \in Nat /\ Sum(c, D) = c[s] + Sum(c, D \ {s})
    BY <2>1, <2>4, SumWithout
  <2>7. Sum(a, D \ {s}) = Sum(c, D \ {s})
    <3>1. \A x \in D \ {s} : a[x] = c[x]
      BY <1>4 DEF D
    <3> QED BY <2>1, <3>1, SumSame
  <2>10. q[k].weight = a[s] /\ a[s] \in Nat /\ m.total = Sum(a, D)
    BY <1>1, <1>2, <2>1, <2>2 DEF D
  <2> QED BY <1>4, <2>1, <2>3, <2>5, <2>6, <2>7, <2>10 DEF t
<1> HIDE DEF t
<1>12. [sprites |-> p, room |-> m.room, total |-> t] \in Mappings
  BY <1>1, <1>7, <1>11 DEF Mappings
<1>13. MappingOK(Reweighted(m, s, w), c)
  <2>1. ListOK(p, c) /\ Len(p) <= m.room
    BY <1>1, <1>4, <1>7, <1>9, <1>10 DEF ListOK
  <2> DEFINE r == [sprites |-> p, room |-> m.room, total |-> t]
  <2>2. r \in Mappings /\ r.sprites = p /\ r.room = m.room /\ r.total = t
    BY <1>12
  <2> HIDE DEF r
  <2>3. MappingOK(r, c)
    BY <1>11, <2>1, <2>2 DEF MappingOK
  <2> QED BY <1>6, <2>3 DEF r
<1> QED BY <1>13 DEF c

(* A sprite is added behind the others.                                     *)
LEMMA WithSpriteOK ==
  ASSUME TilesetsAssumption, NEW m, NEW a, MappingOK(m, a),
         NEW s \in SpriteNames, NEW w \in SpriteWeights, ~HasSprite(m, s)
  PROVE  MappingOK(WithSprite(m, s, w), With(a, s, w))
<1> DEFINE q == m.sprites
           c == With(a, s, w)
           y == [sprite |-> s, weight |-> w]
           p == Append(q, y)
           t == m.total + w
           D == DOMAIN a
<1>1. /\ m \in Mappings /\ q \in Seq(WeightedSprite) /\ m.room \in Nat /\ m.total \in Nat
      /\ ToSet(NamesOf(q)) = D /\ Once(NamesOf(q)) /\ Len(q) <= m.room /\ m.total = Sum(a, D)
      /\ \A i \in 1..Len(q) : q[i].weight = a[q[i].sprite]
  BY FieldsOf DEF MappingOK, ListOK
<1>2. /\ NamesOf(q) \in Seq(SpriteNames) /\ Len(NamesOf(q)) = Len(q) /\ Len(q) \in Nat /\ DOMAIN q = 1..Len(q)
      /\ ToSet(NamesOf(q)) = {q[i].sprite : i \in 1..Len(q)} /\ IsFiniteSet(ToSet(NamesOf(q)))
      /\ \A i \in 1..Len(q) : /\ NamesOf(q)[i] = q[i].sprite /\ q[i].weight \in SpriteWeights
  BY <1>1, NamesAre
<1>3. s \notin D
  BY <1>1, <1>2 DEF HasSprite, SpritePlaces
<1>4. DOMAIN c = D \cup {s} /\ c[s] = w /\ \A x \in D : c[x] = a[x]
  BY <1>3 DEF With
<1>5. y \in WeightedSprite /\ y.sprite = s /\ y.weight = w
  BY DEF WeightedSprite
<1>6. WithSprite(m, s, w) = [sprites |-> p, room |-> GrownRoom(m), total |-> t]
  BY DEF WithSprite
<1> HIDE DEF c, y
<1>7. /\ p \in Seq(WeightedSprite) /\ Len(p) = Len(q) + 1 /\ p[Len(q) + 1] = y
      /\ \A i \in 1..Len(q) : p[i] = q[i]
  <2> HIDE DEF WeightedSprite, q
  <2> QED BY <1>1, <1>5, AppendProperties
<1>8. GrownRoom(m) \in Nat /\ Len(q) + 1 <= GrownRoom(m)
  <2>1. FirstSprites \in Nat /\ FirstSprites >= 1
    BY TilesetsAssumption
  <2> HIDE DEF q
  <2>2. GrownRoom(m) = IF Len(q) < m.room THEN m.room ELSE IF m.room = 0 THEN FirstSprites ELSE 2 * m.room
    BY DEF GrownRoom, q
  <2> QED BY <1>1, <1>2, <2>1, <2>2
<1> HIDE DEF p, q
<1>9. /\ NamesOf(p) \in Seq(SpriteNames) /\ Len(NamesOf(p)) = Len(p)
      /\ \A i \in 1..Len(p) : NamesOf(p)[i] = p[i].sprite
  BY <1>7, NamesAre
<1>10. NamesOf(p) = Append(NamesOf(q), s)
  <2> DEFINE u == NamesOf(p)
             v == Append(NamesOf(q), s)
             n == Len(q) + 1
  <2>1. v \in Seq(SpriteNames) /\ Len(v) = n /\ v[n] = s /\ \A i \in 1..Len(q) : v[i] = NamesOf(q)[i]
    BY <1>2, AppendProperties
  <2>2. u \in Seq(SpriteNames) /\ Len(u) = n /\ \A i \in 1..n : u[i] = p[i].sprite
    BY <1>7, <1>9
  <2> HIDE DEF u, v
  <2>3. \A i \in 1..n : u[i] = v[i]
    <3> TAKE i \in 1..n
    <3>1. CASE i = n
      BY <1>5, <1>7, <2>1, <2>2, <3>1
    <3>2. CASE i # n
      <4>1. i \in 1..Len(q)
        BY <1>2, <3>2
      <4> QED BY <1>2, <1>7, <2>1, <2>2, <4>1
    <3> QED BY <3>1, <3>2
  <2>4. u = v
    <3>1. u = [i \in 1..n |-> u[i]] /\ v = [i \in 1..n |-> v[i]]
      BY <2>1, <2>2
    <3> QED BY <2>3, <3>1
  <2> QED BY <2>4 DEF u, v
<1>11. ToSet(NamesOf(p)) = D \cup {s} /\ Once(NamesOf(p))
  BY <1>1, <1>2, <1>3, <1>10, OnceAppended
<1>12. \A i \in 1..Len(p) : p[i].weight = c[p[i].sprite]
  <2>1. \A i \in 1..Len(q) : p[i].weight = a[p[i].sprite] /\ p[i].sprite \in D
    BY <1>1, <1>2, <1>7
  <2> QED BY <1>2, <1>4, <1>5, <1>7, <2>1
<1>13. t \in Nat /\ t = Sum(c, DOMAIN c)
  <2>1. IsFiniteSet(D)
    BY <1>1, <1>2
  <2>2. \A x \in D : a[x] \in Nat
    <3>1. \A x \in D : a[x] \in SpriteWeights
      BY <1>1, <1>2
    <3> QED BY <3>1, TilesetsAssumption
  <2>3. w \in Nat
    BY TilesetsAssumption
  <2>4. Counting(c, D \cup {s})
    BY <1>4, <2>2, <2>3 DEF Counting
  <2> HIDE DEF D
  <2>5. Sum(c, D) \in Nat /\ c[s] \in Nat /\ Sum(c, D \cup {s}) = c[s] + Sum(c, D)
    BY <1>3, <2>1, <2>4, SumAdded
  <2>6. Sum(c, D) = Sum(a, D)
    BY <1>4, <2>1, SumSame
  <2> QED BY <1>1, <1>4, <2>3, <2>5, <2>6
<1> HIDE DEF t, D
<1>14. [sprites |-> p, room |-> GrownRoom(m), total |-> t] \in Mappings
  BY <1>7, <1>8, <1>13 DEF Mappings
<1>15. MappingOK(WithSprite(m, s, w), c)
  <2>1. ListOK(p, c) /\ Len(p) <= GrownRoom(m)
    BY <1>4, <1>7, <1>8, <1>11, <1>12 DEF ListOK, D
  <2> DEFINE r == [sprites |-> p, room |-> GrownRoom(m), total |-> t]
  <2>2. r \in Mappings /\ r.sprites = p /\ r.room = GrownRoom(m) /\ r.total = t
    BY <1>14
  <2> HIDE DEF r
  <2>3. MappingOK(r, c)
    BY <1>13, <2>1, <2>2 DEF MappingOK
  <2> QED BY <1>6, <2>3 DEF r
<1> QED BY <1>15 DEF c

(* A sprite is taken out, and those behind it move up.                      *)
LEMMA WithoutSpriteOK ==
  ASSUME TilesetsAssumption, NEW m, NEW a, MappingOK(m, a), NEW s, HasSprite(m, s)
  PROVE  MappingOK(WithoutSprite(m, s), [x \in DOMAIN a \ {s} |-> a[x]])
<1> DEFINE q == m.sprites
           k == SpriteAt(m, s)
           D == DOMAIN a
           c == [x \in D \ {s} |-> a[x]]
           p == RemoveAt(q, k)
           t == m.total - q[k].weight
<1>1. /\ m \in Mappings /\ q \in Seq(WeightedSprite) /\ m.room \in Nat /\ m.total \in Nat
      /\ ToSet(NamesOf(q)) = D /\ Once(NamesOf(q)) /\ Len(q) <= m.room /\ m.total = Sum(a, D)
      /\ \A i \in 1..Len(q) : q[i].weight = a[q[i].sprite]
  BY FieldsOf DEF MappingOK, ListOK
<1>2. k \in 1..Len(q) /\ q[k].sprite = s
  BY <1>1, PlaceIs
<1>3. /\ NamesOf(q) \in Seq(SpriteNames) /\ Len(NamesOf(q)) = Len(q) /\ Len(q) \in Nat
      /\ ToSet(NamesOf(q)) = {q[i].sprite : i \in 1..Len(q)} /\ IsFiniteSet(ToSet(NamesOf(q)))
      /\ \A i \in 1..Len(q) : /\ NamesOf(q)[i] = q[i].sprite /\ q[i].weight \in SpriteWeights
  BY <1>1, NamesAre
<1>4. WithoutSprite(m, s) = [sprites |-> p, room |-> m.room, total |-> t]
  <2>1. PICK r, n : m = [sprites |-> q, room |-> r, total |-> n]
    BY <1>1, FieldsOf
  <2>2. WithoutSprite(m, s) = [m EXCEPT !.sprites = p, !.total = t]
    BY DEF WithoutSprite
  <2> HIDE DEF q, p, t
  <2>3. m.room = r
    BY <2>1
  <2> QED BY <2>1, <2>2, <2>3
<1> HIDE DEF k, q
<1>5. /\ p \in Seq(WeightedSprite) /\ Len(p) = Len(q) - 1
      /\ \A i \in 1..(Len(q) - 1) : p[i] = q[IF i < k THEN i ELSE i + 1]
  BY <1>1, <1>2, RemovedIs
<1> DEFINE u == NamesOf(p)
           v == RemoveAt(NamesOf(q), k)
<1>6. /\ v \in Seq(SpriteNames) /\ Len(v) = Len(q) - 1
      /\ \A i \in 1..(Len(q) - 1) : v[i] = NamesOf(q)[IF i < k THEN i ELSE i + 1]
  <2>1. k \in 1..Len(NamesOf(q))
    BY <1>2, <1>3
  <2> QED BY <1>3, <2>1, RemovedIs
<1>7. u \in Seq(SpriteNames) /\ Len(u) = Len(q) - 1 /\ \A i \in 1..(Len(q) - 1) : u[i] = p[i].sprite
  BY <1>5, NamesAre
<1>8. Once(v) /\ ToSet(v) = D \ {s}
  <2>1. k \in 1..Len(NamesOf(q)) /\ NamesOf(q)[k] = s
    BY <1>2, <1>3
  <2> QED BY <1>1, <1>3, <2>1, OnceWithout
<1>9. u = v
  <2> HIDE DEF u, v, p
  <2>1. \A i \in 1..(Len(q) - 1) : u[i] = v[i]
    <3> TAKE i \in 1..(Len(q) - 1)
    <3> DEFINE j == IF i < k THEN i ELSE i + 1
    <3>1. j \in 1..Len(q)
      BY <1>2, <1>3
    <3>2. u[i] = q[j].sprite /\ v[i] = NamesOf(q)[j]
      BY <1>5, <1>6, <1>7
    <3> HIDE DEF j
    <3> QED BY <1>3, <3>1, <3>2
  <2>2. u = [i \in 1..(Len(q) - 1) |-> u[i]] /\ v = [i \in 1..(Len(q) - 1) |-> v[i]]
    BY <1>6, <1>7
  <2> QED BY <2>1, <2>2
<1> HIDE DEF u, v
<1>10. Once(NamesOf(p)) /\ ToSet(NamesOf(p)) = DOMAIN c
  <2>1. DOMAIN c = D \ {s}
    OBVIOUS
  <2> QED BY <1>8, <1>9, <2>1 DEF u
<1>11. \A i \in 1..Len(p) : p[i].weight = c[p[i].sprite]
  <2> TAKE i \in 1..Len(p)
  <2> DEFINE j == IF i < k THEN i ELSE i + 1
  <2>1. j \in 1..Len(q) /\ p[i] = q[j]
    BY <1>2, <1>3, <1>5
  <2>2. p[i].sprite \in D \ {s}
    <3>1. i \in 1..Len(NamesOf(p)) /\ NamesOf(p)[i] = p[i].sprite
      BY <1>5, NamesAre
    <3>2. NamesOf(p)[i] \in ToSet(NamesOf(p))
      <4>1. DOMAIN NamesOf(p) = 1..Len(NamesOf(p))
        BY <1>7 DEF u
      <4> QED BY <3>1, <4>1 DEF ToSet
    <3> QED BY <1>10, <3>1, <3>2
  <2> HIDE DEF j, p
  <2> QED BY <1>1, <2>1, <2>2
<1>12. t \in Nat /\ t = Sum(c, DOMAIN c)
  <2>1. IsFiniteSet(D) /\ s \in D /\ IsFiniteSet(D \ {s})
    BY <1>1, <1>2, <1>3, FS_RemoveElement
  <2>2. \A x \in D : a[x] \in Nat
    <3>1. ASSUME NEW x \in D
          PROVE  a[x] \in SpriteWeights
      <4>1. PICK i \in 1..Len(q) : x = q[i].sprite
        BY <1>1, <1>3
      <4> QED BY <1>1, <1>3, <4>1
    <3> QED BY <3>1, TilesetsAssumption
  <2>3. Counting(a, D)
    BY <2>2 DEF Counting
  <2> HIDE DEF D
  <2>4. Sum(a, D) \in Nat /\ Sum(a, D \ {s}) \in Nat /\ Sum(a, D) = a[s] + Sum(a, D \ {s})
    BY <2>1, <2>3, SumWithout
  <2>5. DOMAIN c = D \ {s} /\ \A x \in D \ {s} : c[x] = a[x]
    OBVIOUS
  <2> HIDE DEF c
  <2>6. Sum(c, D \ {s}) = Sum(a, D \ {s})
    BY <2>1, <2>5, SumSame
  <2>7. q[k].weight = a[s] /\ a[s] \in Nat
    BY <1>1, <1>2, <2>1, <2>2 DEF D
  <2> QED BY <1>1, <2>4, <2>5, <2>6, <2>7
<1> HIDE DEF p, t, c
<1>13. [sprites |-> p, room |-> m.room, total |-> t] \in Mappings
  BY <1>1, <1>5, <1>12 DEF Mappings
<1>14. MappingOK(WithoutSprite(m, s), c)
  <2>1. Len(p) <= m.room
    BY <1>1, <1>3, <1>5
  <2>2. ListOK(p, c)
    BY <1>5, <1>10, <1>11 DEF ListOK
  <2> DEFINE r == [sprites |-> p, room |-> m.room, total |-> t]
  <2>3. r \in Mappings /\ r.sprites = p /\ r.room = m.room /\ r.total = t
    BY <1>13
  <2> HIDE DEF r
  <2>4. MappingOK(r, c)
    BY <1>12, <2>1, <2>2, <2>3 DEF MappingOK
  <2> QED BY <1>4, <2>4 DEF r
<1> QED BY <1>14 DEF c, D

LEMMA CopiedMappingOK ==
  ASSUME NEW m, NEW a, MappingOK(m, a)
  PROVE  MappingOK(CopiedMapping(m), a)
<1>1. CASE m.sprites = <<>>
  <2>1. DOMAIN a = {}
    <3>1. m.sprites \in Seq(WeightedSprite) /\ ToSet(NamesOf(m.sprites)) = DOMAIN a
      BY FieldsOf DEF MappingOK, ListOK
    <3>2. ToSet(NamesOf(m.sprites)) = {m.sprites[i].sprite : i \in 1..Len(m.sprites)}
      BY <3>1, NamesAre
    <3> QED BY <1>1, <3>1, <3>2
  <2> QED BY <1>1, <2>1, EmptyListOK DEF CopiedMapping
<1>2. CASE m.sprites # <<>>
  BY <1>2 DEF CopiedMapping
<1> QED BY <1>1, <1>2

(* The accumulated weights climb, by the weight of each place.              *)
LEMMA AccumulatedIs ==
  ASSUME TilesetsAssumption, NEW q \in Seq(WeightedSprite)
  PROVE  /\ Accumulated(q, 0) = 0
         /\ \A i \in 0..Len(q) : Accumulated(q, i) \in Nat
         /\ \A i \in 1..Len(q) : /\ q[i].weight \in Nat \ {0}
                                 /\ Accumulated(q, i) = Accumulated(q, i - 1) + q[i].weight
         /\ \A i, j \in 0..Len(q) : i <= j => Accumulated(q, i) <= Accumulated(q, j)
<1> DEFINE h == [j \in DOMAIN q |-> q[j].weight]
           n == Len(q)
<1>1. n \in Nat /\ DOMAIN q = 1..n /\ \A i \in 1..n : q[i].weight \in SpriteWeights
  BY NamesAre
<1>2. \A i \in 1..n : h[i] = q[i].weight /\ h[i] \in Nat \ {0}
  BY <1>1, TilesetsAssumption
<1>3. \A i : Accumulated(q, i) = Sum(h, 1..i)
  BY DEF Accumulated, Sum
<1> HIDE DEF h, n
<1>4. \A i \in 0..n : Sum(h, 1..i) \in Nat
  <2> TAKE i \in 0..n
  <2>1. \A x \in 1..i : h[x] \in Nat
    BY <1>1, <1>2
  <2>2. 1 \in Int /\ i \in Int
    BY <1>1
  <2>3. IsFiniteSet(1..i)
    BY <2>2, FS_Interval
  <2> QED BY <2>1, <2>3, SumCounts
<1>5. Sum(h, 1..0) = 0
  BY SumEmpty
<1>6. \A i \in 1..n : Sum(h, 1..i) = Sum(h, 1..(i - 1)) + h[i]
  <2> TAKE i \in 1..n
  <2> DEFINE k == i - 1
  <2>1. k \in Nat /\ k + 1 = i /\ k + 1 \in 1..n
    BY <1>1
  <2>2. Counting(h, 1..(k + 1))
    BY <1>1, <1>2, <2>1 DEF Counting
  <2>3. h[i] \in Nat
    BY <1>2
  <2> HIDE DEF k
  <2>4. Sum(h, 1..k) \in Nat /\ Sum(h, 1..(k + 1)) = h[k + 1] + Sum(h, 1..k)
    BY <2>1, <2>2, SumOneMore
  <2>5. Sum(h, 1..i) = Sum(h, 1..k) + h[i]
    BY <2>1, <2>3, <2>4
  <2> QED BY <2>5 DEF k
<1>7. \A i, j \in 0..n : i <= j => Sum(h, 1..i) <= Sum(h, 1..j)
  <2> TAKE i, j \in 0..n
  <2> HAVE i <= j
  <2>1. 1..i \in SUBSET (1..j) /\ \A x \in 1..j : h[x] \in Nat
    BY <1>1, <1>2
  <2>2. 1 \in Int /\ j \in Int
    BY <1>1
  <2>3. IsFiniteSet(1..j)
    BY <2>2, FS_Interval
  <2> QED BY <2>1, <2>3, SumOfPart
<1> QED BY <1>1, <1>2, <1>3, <1>4, <1>5, <1>6, <1>7 DEF n

(* All weights together are the sum that the list caches.                   *)
LEMMA TotalIs ==
  ASSUME TilesetsAssumption, NEW m, NEW a, MappingOK(m, a)
  PROVE  m.total = Accumulated(m.sprites, Len(m.sprites))
<1> DEFINE q == m.sprites
           s == NamesOf(q)
           h == [j \in DOMAIN q |-> q[j].weight]
           f == [x \in SpriteNames |-> IF x \in DOMAIN a THEN a[x] ELSE 0]
<1>1. /\ q \in Seq(WeightedSprite) /\ ToSet(s) = DOMAIN a /\ Once(s) /\ m.total = Sum(a, DOMAIN a)
      /\ \A i \in 1..Len(q) : q[i].weight = a[q[i].sprite]
  BY FieldsOf DEF MappingOK, ListOK
<1>2. /\ s \in Seq(SpriteNames) /\ Len(s) = Len(q) /\ Len(q) \in Nat /\ DOMAIN q = 1..Len(q)
      /\ ToSet(s) = {q[i].sprite : i \in 1..Len(q)} /\ ToSet(s) \subseteq SpriteNames /\ IsFiniteSet(ToSet(s))
      /\ \A i \in 1..Len(q) : s[i] = q[i].sprite /\ q[i].weight \in SpriteWeights
  BY <1>1, NamesAre
<1>3. \A x \in DOMAIN a : a[x] \in Nat
  <2>1. ASSUME NEW x \in DOMAIN a
        PROVE  a[x] \in Nat
    <3>1. PICK i \in 1..Len(q) : x = q[i].sprite
      BY <1>1, <1>2
    <3> QED BY <1>1, <1>2, <3>1, TilesetsAssumption
  <2> QED BY <2>1
<1>4. f \in [SpriteNames -> Nat]
  BY <1>3
<1>5. \A x \in DOMAIN a : f[x] = a[x]
  BY <1>1, <1>2
<1> HIDE DEF f, s
<1>6. Weight(s, f) = Sum(f, ToSet(s))
  BY <1>1, <1>2, <1>4, WeightOnce
<1>7. Sum(f, DOMAIN a) = Sum(a, DOMAIN a)
  BY <1>1, <1>2, <1>5, SumSame
<1>8. Weight(s, f) = Sum(h, 1..Len(q))
  <2> DEFINE g == [i \in DOMAIN s |-> f[s[i]]]
  <2>1. DOMAIN s = 1..Len(q)
    BY <1>2
  <2>2. \A i \in 1..Len(q) : s[i] \in DOMAIN a
    BY <1>1, <1>2
  <2>3. \A i \in 1..Len(q) : g[i] = h[i]
    BY <1>1, <1>2, <1>5, <2>1, <2>2
  <2>4. IsFiniteSet(1..Len(q))
    <3>1. Len(q) \in Int /\ 1 \in Int
      BY <1>2
    <3> QED BY <3>1, FS_Interval
  <2>5. Weight(s, f) = Sum(g, 1..Len(q))
    BY <2>1 DEF Weight
  <2> HIDE DEF g, h
  <2> QED BY <2>3, <2>4, <2>5, SumSame
<1>9. Accumulated(q, Len(q)) = Sum(h, 1..Len(q))
  BY DEF Accumulated, Sum
<1> QED BY <1>1, <1>6, <1>7, <1>8, <1>9

(* A sprite is drawn by the numbers between what has accumulated before it  *)
(* and with it.                                                             *)
LEMMA DrawnBetween ==
  ASSUME TilesetsAssumption, NEW m, NEW a, MappingOK(m, a),
         NEW k \in 1..Len(m.sprites), NEW number \in 0..(m.total - 1)
  PROVE  DrawnSprite(m, number) = m.sprites[k].sprite
           <=> number \in Accumulated(m.sprites, k - 1)..(Accumulated(m.sprites, k) - 1)
<1> DEFINE q == m.sprites
           n == Len(q)
           beyond == {i \in DOMAIN q : number < Accumulated(q, i)}
           b == Min(beyond)
<1>1. q \in Seq(WeightedSprite) /\ m.total \in Nat /\ Once(NamesOf(q)) /\ m.total = Accumulated(q, n)
  BY FieldsOf, TotalIs DEF MappingOK, ListOK
<1>2. /\ n \in Nat /\ DOMAIN q = 1..n
      /\ \A i, j \in 1..n : q[i].sprite = q[j].sprite => i = j
  <2>1. /\ Len(NamesOf(q)) = n /\ n \in Nat /\ DOMAIN q = 1..n
        /\ \A i \in 1..n : NamesOf(q)[i] = q[i].sprite
    BY <1>1, NamesAre
  <2> QED BY <1>1, <2>1 DEF Once
<1>3. /\ \A i \in 0..n : Accumulated(q, i) \in Nat
      /\ Accumulated(q, 0) = 0
      /\ \A i, j \in 0..n : i <= j => Accumulated(q, i) <= Accumulated(q, j)
  BY <1>1, AccumulatedIs
<1>4. DrawnSprite(m, number) = q[IF beyond = {} THEN n ELSE b].sprite
  BY DEF DrawnSprite
<1> HIDE DEF q
<1>5. n \in beyond /\ beyond \in SUBSET Nat
  <2>1. number < m.total /\ k \in 1..n
    BY <1>1 DEF q
  <2>2. n \in 1..n
    BY <1>2, <2>1
  <2> QED BY <1>1, <1>2, <2>1, <2>2
<1>6. b \in beyond /\ \A i \in beyond : b <= i
  <2>1. beyond \in SUBSET Nat /\ beyond # {}
    BY <1>5
  <2> HIDE DEF beyond
  <2> QED BY <2>1, MinIs
<1> HIDE DEF b
<1>7. b \in 1..n /\ number < Accumulated(q, b) /\ \A i \in 1..n : i < b => Accumulated(q, i) <= number
  <2>1. b \in 1..n /\ number < Accumulated(q, b)
    BY <1>2, <1>6
  <2>2. ASSUME NEW i \in 1..n, i < b
        PROVE  Accumulated(q, i) <= number
    <3>1. i \notin beyond
      BY <1>2, <1>6, <2>1, <2>2
    <3>2. Accumulated(q, i) \in Nat /\ number \in Nat
      BY <1>1, <1>2, <1>3
    <3> QED BY <1>2, <3>1, <3>2
  <2> QED BY <2>1, <2>2
<1>8. DrawnSprite(m, number) = q[b].sprite
  BY <1>4, <1>5
<1>9. k \in 1..n
  BY DEF q
<1> HIDE DEF beyond
<1>10. DrawnSprite(m, number) = q[k].sprite <=> k = b
  BY <1>2, <1>7, <1>8, <1>9
<1>11. /\ Accumulated(q, k) \in Nat /\ Accumulated(q, k - 1) \in Nat /\ number \in Nat
       /\ Accumulated(q, b) \in Nat
  BY <1>1, <1>2, <1>3, <1>7, <1>9
<1>12. k = b => number \in Accumulated(q, k - 1)..(Accumulated(q, k) - 1)
  <2>1. CASE k = 1
    BY <1>3, <1>7, <1>11, <2>1
  <2>2. CASE k # 1
    BY <1>2, <1>7, <1>9, <1>11, <2>2
  <2> QED BY <2>1, <2>2
<1>13. number \in Accumulated(q, k - 1)..(Accumulated(q, k) - 1) => k = b
  <2>1. k < b => Accumulated(q, k) <= number
    BY <1>7, <1>9
  <2>2. b < k => Accumulated(q, b) <= Accumulated(q, k - 1)
    BY <1>2, <1>3, <1>7, <1>9
  <2> QED BY <1>2, <1>7, <1>9, <1>11, <2>1, <2>2
<1> QED BY <1>10, <1>12, <1>13 DEF q

LEMMA DrawnByTheirWeight ==
  ASSUME TilesetsAssumption, NEW m, NEW a, MappingOK(m, a)
  PROVE  /\ m.sprites # <<>> => Draws(m)
         /\ \A s \in DOMAIN a : Cardinality({number \in 0..(m.total - 1) : DrawnSprite(m, number) = s}) = a[s]
<1> DEFINE q == m.sprites
           n == Len(q)
<1>1. /\ q \in Seq(WeightedSprite) /\ ToSet(NamesOf(q)) = DOMAIN a /\ m.total \in Nat /\ m.total = Accumulated(q, n)
      /\ \A i \in 1..n : q[i].weight = a[q[i].sprite]
  BY FieldsOf, TotalIs DEF MappingOK, ListOK
<1>2. n \in Nat /\ DOMAIN q = 1..n /\ ToSet(NamesOf(q)) = {q[i].sprite : i \in 1..n}
  BY <1>1, NamesAre
<1>3. /\ \A i \in 0..n : Accumulated(q, i) \in Nat
      /\ \A i \in 1..n : q[i].weight \in Nat \ {0} /\ Accumulated(q, i) = Accumulated(q, i - 1) + q[i].weight
      /\ \A i, j \in 0..n : i <= j => Accumulated(q, i) <= Accumulated(q, j)
  BY <1>1, AccumulatedIs
<1>4. q # <<>> => Draws(m)
  <2>1. ASSUME q # <<>>
        PROVE  m.total # 0
    <3>1. n \in 1..n /\ n - 1 \in 0..n
      BY <1>1, <1>2, <2>1
    <3> HIDE DEF q
    <3> QED BY <1>1, <1>3, <3>1
  <2> QED BY <2>1 DEF Draws
<1>5. ASSUME NEW s \in DOMAIN a
      PROVE  Cardinality({number \in 0..(m.total - 1) : DrawnSprite(m, number) = s}) = a[s]
  <2>1. PICK k \in 1..n : q[k].sprite = s
    BY <1>1, <1>2
  <2> DEFINE l == Accumulated(q, k - 1)
             u == Accumulated(q, k)
             S == {number \in 0..(m.total - 1) : DrawnSprite(m, number) = s}
  <2>2. l \in Nat /\ u \in Nat /\ u = l + a[s] /\ a[s] \in Nat \ {0} /\ u <= m.total
    <3>1. k \in 0..n /\ k - 1 \in 0..n /\ n \in 0..n /\ k <= n
      BY <1>2, <2>1
    <3>2. l \in Nat /\ u \in Nat /\ u <= m.total
      BY <1>1, <1>3, <3>1
    <3>3. u = l + q[k].weight /\ q[k].weight \in Nat \ {0} /\ q[k].weight = a[s]
      BY <1>1, <1>3, <2>1
    <3> QED BY <3>2, <3>3
  <2>3. \A number \in 0..(m.total - 1) : DrawnSprite(m, number) = s <=> number \in l..(u - 1)
    BY <2>1, DrawnBetween
  <2> HIDE DEF l, u, q
  <2>4. S = l..(u - 1)
    BY <1>1, <2>2, <2>3
  <2>5. Cardinality(l..(u - 1)) = a[s]
    <3>1. l \in Int /\ u - 1 \in Int /\ l <= u - 1
      BY <2>2
    <3>2. Cardinality(l..(u - 1)) = (u - 1) - l + 1
      BY <3>1, FS_Interval
    <3> QED BY <2>2, <3>2
  <2> QED BY <2>4, <2>5
<1> QED BY <1>4, <1>5

(* A draw shows one of the sprites, or none; only with the seed 0 does it   *)
(* look at the clock.                                                       *)
LEMMA LookIs ==
  ASSUME TilesetsAssumption, NEW m, NEW a, MappingOK(m, a), NEW seed \in Seeds, NEW now \in Seeds
  PROVE  /\ LookAt(m, seed, now) \in Look
         /\ ~LookAt(m, seed, now).timed => \A other \in Seeds : LookAt(m, seed, other) = LookAt(m, seed, now)
<1> DEFINE q == m.sprites
           n == Len(q)
           stirred == Stirred(IF seed = 0 THEN now ELSE seed)
           look == LookAt(m, seed, now)
<1>1. q \in Seq(WeightedSprite)
  BY FieldsOf DEF MappingOK
<1>2. n \in Nat /\ DOMAIN q = 1..n /\ \A i \in 1..n : q[i].sprite \in SpriteNames
  BY <1>1, NamesAre
<1>3. stirred \in Seeds
  <2>1. (IF seed = 0 THEN now ELSE seed) \in Int /\ SeedModulus \in Nat \ {0}
    BY TilesetsAssumption DEF Seeds
  <2> DEFINE x == IF seed = 0 THEN now ELSE seed
             y == x * 1664525 + 1013904223
  <2>2. y \in Int
    BY <2>1
  <2>3. stirred = y % SeedModulus
    BY DEF Stirred
  <2> HIDE DEF y
  <2> QED BY <2>1, <2>2, <2>3 DEF Seeds
<1>4. ASSUME Draws(m), NEW number
      PROVE  DrawnSprite(m, number) \in SpriteNames
  <2> DEFINE beyond == {i \in DOMAIN q : number < Accumulated(q, i)}
  <2>1. n \in 1..n
    BY <1>1, <1>2, <1>4 DEF Draws
  <2>2. beyond # {} => Min(beyond) \in 1..n
    <3>1. beyond \in SUBSET Nat /\ beyond \subseteq 1..n
      BY <1>2
    <3> HIDE DEF beyond
    <3> QED BY <3>1, MinIs
  <2>3. DrawnSprite(m, number) = q[IF beyond = {} THEN n ELSE Min(beyond)].sprite
    BY DEF DrawnSprite
  <2> HIDE DEF beyond
  <2> QED BY <1>2, <2>1, <2>2, <2>3
<1>5. CASE Draws(m)
  <2> DEFINE s == DrawnSprite(m, stirred % m.total)
  <2>1. look = [sprite |-> s, seed |-> stirred, timed |-> (seed = 0)]
    BY <1>5 DEF LookAt
  <2>2. s \in SpriteNames
    BY <1>4, <1>5
  <2> HIDE DEF s, stirred
  <2>3. look \in Look /\ look.timed = (seed = 0)
    BY <1>3, <2>1, <2>2 DEF Look
  <2>4. ~look.timed => \A other \in Seeds : LookAt(m, seed, other) = LookAt(m, seed, now)
    BY <1>5, <2>3 DEF LookAt
  <2> QED BY <2>3, <2>4
<1>6. CASE ~Draws(m)
  <2>1. \A other \in Seeds : LookAt(m, seed, other) = [sprite |-> NoSprite, seed |-> seed, timed |-> FALSE]
    BY <1>6 DEF LookAt
  <2>2. [sprite |-> NoSprite, seed |-> seed, timed |-> FALSE] \in Look
    BY DEF Look
  <2> QED BY <2>1, <2>2
<1> QED BY <1>5, <1>6

LEMMA NotNone ==
  ASSUME NEW set \in SetRecord
  PROVE  set # NoTileset
<1>1. "seed" \in DOMAIN set
  BY DEF SetRecord
<1>2. DOMAIN NoTileset = {}
  BY DEF NoTileset
<1> QED BY <1>1, <1>2

LEMMA NothingPainted ==
  ASSUME TilesetsAssumption, NEW mapping, NEW seed
  PROVE  PaintingOK(<<>>, mapping, seed)
<1>1. Len(PaintedTiles) \in Nat
  BY TilesetsAssumption
<1> QED BY <1>1 DEF PaintingOK

(* Two paintings of the same sets from the same seed are the same as long   *)
(* as no draw takes the clock.                                              *)
MappingsOK(mapping, weights) ==
  mapping \in [TileIds -> Mappings] /\ \A k \in TileIds : MappingOK(mapping[k], weights[k])
Untimed(ls, i) == i \in 1..Len(ls) /\ \A j \in 1..i : ~ls[j].timed

LEMMA PaintedAlike ==
  ASSUME TilesetsAssumption, NEW mapping, NEW weights, MappingsOK(mapping, weights), NEW seed \in Seeds,
         NEW ls, PaintingOK(ls, mapping, seed), NEW ms, PaintingOK(ms, mapping, seed),
         NEW i, Untimed(ls, i), i <= Len(ms)
  PROVE  ls[i] = ms[i]
<1> DEFINE G == {j \in 1..i : ls[j] = ms[j]}
<1>1. /\ ls \in Seq(Look) /\ ms \in Seq(Look) /\ Len(ls) \in Nat /\ Len(ms) \in Nat
      /\ PaintedTiles \in Seq(TileIds) /\ Len(ls) <= Len(PaintedTiles)
  BY TilesetsAssumption DEF PaintingOK
<1>2. i \in Nat /\ \A j \in 1..i : j \in 1..Len(ls) /\ j \in 1..Len(ms) /\ PaintedTiles[j] \in TileIds
  BY <1>1 DEF Untimed
<1>3. ASSUME NEW j \in 1..i, \A l \in 1..i : l < j => l \in G
      PROVE  j \in G
  <2> DEFINE m == mapping[PaintedTiles[j]]
  <2>1. PICK now \in Seeds : ls[j] = LookAt(m, SeedFor(ls, j, seed), now)
    BY <1>2 DEF PaintingOK
  <2>2. PICK later \in Seeds : ms[j] = LookAt(m, SeedFor(ms, j, seed), later)
    BY <1>2 DEF PaintingOK
  <2>3. SeedFor(ls, j, seed) = SeedFor(ms, j, seed) /\ SeedFor(ls, j, seed) \in Seeds
    <3>1. CASE j = 1
      BY <3>1 DEF SeedFor
    <3>2. CASE j # 1
      <4>1. j - 1 \in 1..i /\ j - 1 < j
        BY <1>2, <3>2
      <4>2. ls[j - 1] = ms[j - 1]
        BY <1>3, <4>1
      <4>3. ls[j - 1] \in Look
        BY <1>1, <1>2, <4>1
      <4>4. ls[j - 1].seed \in Seeds
        BY <4>3 DEF Look
      <4> QED BY <3>2, <4>2, <4>4 DEF SeedFor
    <3> QED BY <3>1, <3>2
  <2>4. MappingOK(m, weights[PaintedTiles[j]])
    BY <1>2 DEF MappingsOK
  <2>5. ~ls[j].timed
    BY DEF Untimed
  <2> HIDE DEF m
  <2>6. ms[j] = ls[j]
    BY <2>1, <2>2, <2>3, <2>4, <2>5, LookIs
  <2> QED BY <2>6
<1>4. G = 1..i
  <2>1. G \in SUBSET (1..i)
    OBVIOUS
  <2> HIDE DEF G
  <2> QED BY <1>2, <1>3, <2>1, FirstToLast
<1>5. i \in 1..i
  BY <1>2 DEF Untimed
<1> QED BY <1>4, <1>5

LEMMA TilesetsInvInit == TilesetsAssumption /\ TilesetsInit => TilesetsInv
<1> SUFFICES ASSUME TilesetsAssumption, TilesetsInit
             PROVE  TilesetsInv
  OBVIOUS
<1> DEFINE new == NewTileset(0)
<1>1. tileset = [t \in TileSets |-> IF t = "set" THEN new ELSE NoTileset]
  BY DEF TilesetsInit
<1>2. asked = [t \in TileSets |-> [k \in TileIds |-> <<>>]]
  BY DEF TilesetsInit
<1>3. new \in SetRecord /\ \A k \in TileIds : new.mapping[k] = NoMapping
  BY EmptyListOK, TilesetsAssumption DEF NewTileset, SetRecord, Seeds
<1> HIDE DEF new
<1>4. tileset["set"] = new /\ tileset["set"] # NoTileset
  BY <1>1, <1>3, NotNone DEF TileSets
<1>5. ASSUME NEW t \in TileSets, tileset[t] # NoTileset
      PROVE  SetOK(tileset[t], asked[t])
  <2>1. tileset[t] = new
    BY <1>1, <1>5
  <2>2. \A k \in TileIds : asked[t][k] = <<>> /\ DOMAIN asked[t][k] = {}
    BY <1>2
  <2> QED BY <1>3, <2>1, <2>2, EmptyListOK DEF SetOK
<1>6. /\ asked = [t \in TileSets |-> [k \in TileIds |-> asked[t][k]]]
      /\ tileset = [t \in TileSets |-> tileset[t]]
  BY <1>1, <1>2
<1>7. mapSeed \in MapSeeds /\ paints = FALSE /\ looks = <<>> /\ lastLooks = <<>>
  BY DEF TilesetsInit
<1> QED BY <1>4, <1>5, <1>6, <1>7, NothingPainted DEF TilesetsInv

(* What is asked of a set and what it has change together, between frames.  *)
LEMMA RemapsKeeps ==
  ASSUME TilesetsAssumption, TilesetsInv, NEW t \in TileSets, NEW k \in TileIds, Untouched(t),
         NEW m, NEW weights, MappingOK(m, weights), Remaps(t, k, m, weights)
  PROVE  TilesetsInv'
<1> DEFINE old == tileset[t]
           new == [old EXCEPT !.mapping[k] = m]
<1>1. /\ tileset' = [tileset EXCEPT ![t].mapping[k] = m]
      /\ asked' = [asked EXCEPT ![t][k] = weights]
      /\ lastLooks' = (IF t = "set" THEN <<>> ELSE lastLooks)
      /\ mapSeed' = mapSeed /\ paints' = paints /\ looks' = looks
  BY DEF Remaps
<1>2. /\ tileset = [u \in TileSets |-> tileset[u]] /\ tileset["set"] # NoTileset
      /\ asked = [u \in TileSets |-> [l \in TileIds |-> asked[u][l]]]
      /\ old # NoTileset /\ ~paints /\ looks = <<>> /\ "set" \in TileSets
  BY DEF TilesetsInv, Untouched, TileSets
<1>3. old \in SetRecord /\ \A l \in TileIds : MappingOK(old.mapping[l], asked[t][l])
  BY <1>2 DEF TilesetsInv, SetOK
<1>4. m \in Mappings
  BY DEF MappingOK
<1>5. new \in SetRecord /\ new.mapping = [old.mapping EXCEPT ![k] = m]
  BY <1>3, <1>4 DEF SetRecord
<1>6. /\ tileset' = [u \in TileSets |-> IF u = t THEN new ELSE tileset[u]]
      /\ asked' = [u \in TileSets |-> [l \in TileIds |-> IF u = t /\ l = k THEN weights ELSE asked[u][l]]]
  BY <1>1, <1>2
<1> HIDE DEF new, old
<1>7. ASSUME NEW u \in TileSets, tileset'[u] # NoTileset
      PROVE  SetOK(tileset'[u], asked'[u])
  <2>1. CASE u = t
    <3>1. tileset'[u] = new /\ \A l \in TileIds : asked'[u][l] = IF l = k THEN weights ELSE asked[t][l]
      BY <1>6, <2>1
    <3>2. \A l \in TileIds : new.mapping[l] = IF l = k THEN m ELSE old.mapping[l]
      BY <1>3, <1>5 DEF SetRecord
    <3>3. \A l \in TileIds : MappingOK(new.mapping[l], asked'[u][l])
      <4> TAKE l \in TileIds
      <4>1. CASE l = k
        BY <3>1, <3>2, <4>1
      <4>2. CASE l # k
        BY <1>3, <3>1, <3>2, <4>2
      <4> QED BY <4>1, <4>2
    <3> QED BY <1>5, <3>1, <3>3 DEF SetOK
  <2>2. CASE u # t
    <3>1. tileset'[u] = tileset[u] /\ \A l \in TileIds : asked'[u][l] = asked[u][l]
      BY <1>6, <2>2
    <3>2. SetOK(tileset[u], asked[u])
      BY <1>7, <3>1 DEF TilesetsInv
    <3> QED BY <3>1, <3>2 DEF SetOK
  <2> QED BY <2>1, <2>2
<1>8. tileset' = [u \in TileSets |-> tileset'[u]] /\ asked' = [u \in TileSets |-> [l \in TileIds |-> asked'[u][l]]]
  BY <1>6
<1>9. tileset'["set"] # NoTileset
  BY <1>2, <1>5, <1>6, NotNone
<1>10. PaintingOK(lastLooks', tileset'["set"].mapping, mapSeed')
  <2>1. CASE t = "set"
    BY <1>1, <2>1, NothingPainted
  <2>2. CASE t # "set"
    BY <1>1, <1>2, <1>6, <2>2 DEF TilesetsInv
  <2> QED BY <2>1, <2>2
<1>11. PaintingOK(looks', tileset'["set"].mapping, mapSeed')
  BY <1>1, <1>2, NothingPainted
<1> QED BY <1>1, <1>2, <1>7, <1>8, <1>9, <1>10, <1>11 DEF TilesetsInv

(* A set's seed changes and nothing else of it.                             *)
LEMMA ReseededKeeps ==
  ASSUME TilesetsInv, NEW t \in TileSets, tileset[t] # NoTileset, NEW seed \in Seeds,
         tileset' = [tileset EXCEPT ![t].seed = seed], asked' = asked
  PROVE  /\ tileset' = [u \in TileSets |-> tileset'[u]] /\ tileset'["set"] # NoTileset
         /\ asked' = [u \in TileSets |-> [l \in TileIds |-> asked'[u][l]]]
         /\ \A u \in TileSets : tileset'[u] # NoTileset => SetOK(tileset'[u], asked'[u])
         /\ tileset'["set"].mapping = tileset["set"].mapping
         /\ tileset'[t].seed = seed
<1> DEFINE old == tileset[t]
           new == [old EXCEPT !.seed = seed]
<1>1. /\ tileset = [u \in TileSets |-> tileset[u]] /\ tileset["set"] # NoTileset
      /\ asked = [u \in TileSets |-> [l \in TileIds |-> asked[u][l]]]
      /\ "set" \in TileSets
  BY DEF TilesetsInv, TileSets
<1>2. old \in SetRecord /\ \A l \in TileIds : MappingOK(old.mapping[l], asked[t][l])
  BY <1>1 DEF TilesetsInv, SetOK
<1>3. new \in SetRecord /\ new.mapping = old.mapping /\ new.seed = seed
  BY <1>2 DEF SetRecord
<1>4. tileset' = [u \in TileSets |-> IF u = t THEN new ELSE tileset[u]]
  BY <1>1
<1> HIDE DEF new
<1>5. ASSUME NEW u \in TileSets, tileset'[u] # NoTileset
      PROVE  SetOK(tileset'[u], asked'[u])
  <2>1. CASE u = t
    BY <1>2, <1>3, <1>4, <2>1 DEF SetOK
  <2>2. CASE u # t
    BY <1>4, <1>5, <2>2 DEF TilesetsInv
  <2> QED BY <2>1, <2>2
<1>6. tileset'["set"] # NoTileset
  BY <1>1, <1>3, <1>4, NotNone
<1>7. tileset'["set"].mapping = tileset["set"].mapping /\ tileset'[t].seed = seed
  BY <1>1, <1>3, <1>4
<1>8. tileset' = [u \in TileSets |-> tileset'[u]]
  BY <1>4
<1> QED BY <1>1, <1>5, <1>6, <1>7, <1>8

LEMMA TilesetsStep == TilesetsAssumption /\ TilesetsInv /\ [TilesetsNext]_tilesetsVars => TilesetsInv'
<1> SUFFICES ASSUME TilesetsAssumption, TilesetsInv, [TilesetsNext]_tilesetsVars
             PROVE  TilesetsInv'
  OBVIOUS
<1> DEFINE mapping == tileset["set"].mapping
<1>1. /\ tileset = [u \in TileSets |-> tileset[u]] /\ tileset["set"] # NoTileset
      /\ asked = [u \in TileSets |-> [l \in TileIds |-> asked[u][l]]]
      /\ "set" \in TileSets /\ "copy" \in TileSets
      /\ \A t \in TileSets : tileset[t] # NoTileset => SetOK(tileset[t], asked[t])
      /\ mapSeed \in MapSeeds /\ paints \in BOOLEAN
      /\ PaintingOK(looks, mapping, mapSeed) /\ PaintingOK(lastLooks, mapping, mapSeed)
  BY DEF TilesetsInv, TileSets
<1>2. ~paints => looks = <<>>
  BY DEF TilesetsInv
<1>3. MapSeeds \subseteq Seeds
  BY TilesetsAssumption DEF Seeds
<1>4. ASSUME NEW t \in TileSets, Untouched(t), NEW k \in TileIds
      PROVE  MappingOK(Mapping(t, k), asked[t][k])
  BY <1>1, <1>4 DEF Untouched, SetOK, Mapping
<1>5. ASSUME NEW t \in TileSets, NEW k \in TileIds, NEW s \in SpriteNames, RemoveSprite(t, k, s)
      PROVE  TilesetsInv'
  <2> DEFINE m == WithoutSprite(Mapping(t, k), s)
             c == [x \in DOMAIN asked[t][k] \ {s} |-> asked[t][k][x]]
  <2>1. Untouched(t) /\ HasSprite(Mapping(t, k), s) /\ Remaps(t, k, m, c)
    BY <1>5 DEF RemoveSprite
  <2>2. MappingOK(m, c)
    BY <1>4, <2>1, WithoutSpriteOK
  <2> HIDE DEF m, c
  <2> QED BY <2>1, <2>2, RemapsKeeps
<1>6. ASSUME NEW t \in TileSets, NEW k \in TileIds, NEW s \in SpriteNames, NEW w \in SpriteWeights,
             AddSprite(t, k, s, w) \/ UpdateWeight(t, k, s, w)
      PROVE  TilesetsInv'
  <2> DEFINE c == With(asked[t][k], s, w)
             old == Mapping(t, k)
             m == IF HasSprite(old, s) THEN Reweighted(old, s, w) ELSE WithSprite(old, s, w)
  <2>1. Untouched(t) /\ Remaps(t, k, m, c)
    BY <1>6 DEF AddSprite, UpdateWeight
  <2>2. MappingOK(m, c)
    <3>1. MappingOK(old, asked[t][k])
      BY <1>4, <2>1
    <3>2. CASE HasSprite(old, s)
      BY <3>1, <3>2, ReweightedOK
    <3>3. CASE ~HasSprite(old, s)
      BY <3>1, <3>3, WithSpriteOK
    <3> QED BY <3>2, <3>3
  <2> HIDE DEF m, c
  <2> QED BY <2>1, <2>2, RemapsKeeps
<1>7. ASSUME NEW t \in TileSets, NEW k \in TileIds, ClearMapping(t, k)
      PROVE  TilesetsInv'
  <2>1. Untouched(t) /\ Remaps(t, k, NoMapping, <<>>)
    BY <1>7 DEF ClearMapping
  <2>2. MappingOK(NoMapping, <<>>)
    <3>1. DOMAIN <<>> = {}
      OBVIOUS
    <3> QED BY <3>1, EmptyListOK
  <2> QED BY <2>1, <2>2, RemapsKeeps
<1>8. ASSUME NEW t \in TileSets, NEW k \in TileIds, NEW now \in Seeds, GetSprite(t, k, now)
      PROVE  TilesetsInv'
  <2> DEFINE seed == LookAt(Mapping(t, k), tileset[t].seed, now).seed
  <2>1. Untouched(t) /\ UNCHANGED <<asked, mapSeed, paints, looks, lastLooks>>
    BY <1>8 DEF GetSprite
  <2>2. tileset' = [tileset EXCEPT ![t].seed = seed]
    BY <1>1, <1>8 DEF GetSprite
  <2>3. tileset[t] # NoTileset /\ ~paints
    BY <2>1 DEF Untouched
  <2>4. seed \in Seeds
    <3>1. tileset[t].seed \in Seeds
      BY <1>1, <2>3 DEF SetOK, SetRecord
    <3>2. LookAt(Mapping(t, k), tileset[t].seed, now) \in Look
      BY <1>4, <2>1, <3>1, LookIs
    <3> QED BY <3>2 DEF Look
  <2> HIDE DEF seed
  <2>5. /\ tileset' = [u \in TileSets |-> tileset'[u]] /\ tileset'["set"] # NoTileset
        /\ asked' = [u \in TileSets |-> [l \in TileIds |-> asked'[u][l]]]
        /\ \A u \in TileSets : tileset'[u] # NoTileset => SetOK(tileset'[u], asked'[u])
        /\ tileset'["set"].mapping = mapping
    BY <2>1, <2>2, <2>3, <2>4, ReseededKeeps
  <2> HIDE DEF mapping
  <2> QED BY <1>1, <1>2, <2>1, <2>3, <2>5 DEF TilesetsInv
<1>9. ASSUME CopyTileset
      PROVE  TilesetsInv'
  <2> DEFINE old == tileset["set"]
             new == [mapping |-> [k \in TileIds |-> CopiedMapping(Mapping("set", k))], seed |-> old.seed]
  <2>1. /\ Untouched("set") /\ asked' = [asked EXCEPT !["copy"] = asked["set"]]
        /\ tileset' = [tileset EXCEPT !["copy"] = new]
        /\ UNCHANGED <<mapSeed, paints, looks, lastLooks>>
    BY <1>9 DEF CopyTileset
  <2>2. \A k \in TileIds : MappingOK(CopiedMapping(Mapping("set", k)), asked["set"][k])
    BY <1>1, <1>4, <2>1, CopiedMappingOK
  <2>3. old.seed \in Seeds
    BY <1>1 DEF SetOK, SetRecord
  <2>4. SetOK(new, asked["set"])
    <3>1. \A k \in TileIds : new.mapping[k] = CopiedMapping(Mapping("set", k)) /\ new.mapping[k] \in Mappings
      BY <2>2 DEF MappingOK
    <3>2. new \in SetRecord
      BY <2>3, <3>1 DEF SetRecord
    <3> QED BY <2>2, <3>1, <3>2 DEF SetOK
  <2> HIDE DEF new
  <2>5. /\ tileset' = [u \in TileSets |-> IF u = "copy" THEN new ELSE tileset[u]]
        /\ asked' = [u \in TileSets |-> IF u = "copy" THEN asked["set"] ELSE asked[u]]
        /\ tileset'["set"] = tileset["set"]
    BY <1>1, <2>1
  <2>6. \A u \in TileSets : tileset'[u] # NoTileset => SetOK(tileset'[u], asked'[u])
    BY <1>1, <2>4, <2>5
  <2>7. asked' = [u \in TileSets |-> [l \in TileIds |-> asked'[u][l]]] /\ tileset' = [u \in TileSets |-> tileset'[u]]
    BY <1>1, <2>5
  <2> QED BY <1>1, <2>1, <2>5, <2>6, <2>7 DEF TilesetsInv
<1>10. ASSUME DestroyCopy
       PROVE  TilesetsInv'
  <2>1. /\ tileset' = [tileset EXCEPT !["copy"] = NoTileset]
        /\ UNCHANGED <<asked, mapSeed, paints, looks, lastLooks>>
    BY <1>10 DEF DestroyCopy
  <2>2. /\ tileset' = [u \in TileSets |-> IF u = "copy" THEN NoTileset ELSE tileset[u]]
        /\ tileset'["set"] = tileset["set"]
    BY <1>1, <2>1
  <2>3. tileset' = [u \in TileSets |-> tileset'[u]]
    BY <2>2
  <2> QED BY <1>1, <2>1, <2>2, <2>3 DEF TilesetsInv
<1>11. ASSUME NEW seed \in MapSeeds, SetMapSeed(seed)
       PROVE  TilesetsInv'
  <2>1. /\ Untouched("set") /\ mapSeed' = seed /\ lastLooks' = <<>> /\ UNCHANGED <<tileset, asked, paints, looks>>
    BY <1>11 DEF SetMapSeed
  <2>2. looks = <<>> /\ ~paints
    BY <1>2, <2>1 DEF Untouched
  <2> QED BY <1>1, <2>1, <2>2, NothingPainted DEF TilesetsInv
<1>12. ASSUME PaintBegins
       PROVE  TilesetsInv'
  <2>1. /\ Untouched("set") /\ tileset' = [tileset EXCEPT !["set"].seed = mapSeed]
        /\ paints' = TRUE /\ UNCHANGED <<asked, mapSeed, looks, lastLooks>>
    BY <1>12 DEF PaintBegins
  <2>2. /\ tileset' = [u \in TileSets |-> tileset'[u]] /\ tileset'["set"] # NoTileset
        /\ asked' = [u \in TileSets |-> [l \in TileIds |-> asked'[u][l]]]
        /\ \A u \in TileSets : tileset'[u] # NoTileset => SetOK(tileset'[u], asked'[u])
        /\ tileset'["set"].mapping = mapping /\ tileset'["set"].seed = mapSeed
    BY <1>1, <1>3, <2>1, ReseededKeeps
  <2>3. looks = <<>> /\ Len(looks) + 1 = 1
    BY <1>2, <2>1 DEF Untouched
  <2> HIDE DEF mapping
  <2>4. tileset'["set"].seed = SeedFor(looks', Len(looks') + 1, mapSeed')
    BY <2>1, <2>2, <2>3 DEF SeedFor
  <2> QED BY <1>1, <2>1, <2>2, <2>4 DEF TilesetsInv
<1>13. ASSUME PaintEnds
       PROVE  TilesetsInv'
  <2>1. paints' = FALSE /\ lastLooks' = looks /\ looks' = <<>> /\ UNCHANGED <<tileset, asked, mapSeed>>
    BY <1>13 DEF PaintEnds
  <2> QED BY <1>1, <2>1, NothingPainted DEF TilesetsInv
<1>14. ASSUME NEW now \in Seeds, PaintCell(now)
       PROVE  TilesetsInv'
  <2> DEFINE n == Len(looks)
             k == PaintedTiles[n + 1]
             seed == tileset["set"].seed
             look == LookAt(Mapping("set", k), seed, now)
  <2>1. /\ paints /\ n < Len(PaintedTiles) /\ looks' = Append(looks, look)
        /\ tileset' = [tileset EXCEPT !["set"].seed = look.seed]
        /\ UNCHANGED <<asked, mapSeed, paints, lastLooks>>
    BY <1>14 DEF PaintCell
  <2>2. /\ looks \in Seq(Look) /\ n \in Nat /\ PaintedTiles \in Seq(TileIds)
        /\ Len(PaintedTiles) \in Nat /\ k \in TileIds
    BY <1>1, <2>1, TilesetsAssumption DEF PaintingOK
  <2>3. /\ SetOK(tileset["set"], asked["set"]) /\ seed \in Seeds
        /\ MappingOK(mapping[k], asked["set"][k]) /\ Mapping("set", k) = mapping[k]
        /\ seed = SeedFor(looks, n + 1, mapSeed)
    BY <1>1, <2>1, <2>2 DEF SetOK, SetRecord, Mapping, TilesetsInv
  <2>4. look \in Look
    BY <2>3, LookIs
  <2>5. look.seed \in Seeds
    BY <2>4 DEF Look
  <2>6. look = LookAt(mapping[k], SeedFor(looks, n + 1, mapSeed), now)
    BY <2>3
  <2> HIDE DEF look, seed
  <2>7. /\ tileset' = [u \in TileSets |-> tileset'[u]] /\ tileset'["set"] # NoTileset
        /\ asked' = [u \in TileSets |-> [l \in TileIds |-> asked'[u][l]]]
        /\ \A u \in TileSets : tileset'[u] # NoTileset => SetOK(tileset'[u], asked'[u])
        /\ tileset'["set"].mapping = mapping /\ tileset'["set"].seed = look.seed
    BY <1>1, <2>1, <2>5, ReseededKeeps
  <2> HIDE DEF mapping
  <2>8. /\ looks' \in Seq(Look) /\ Len(looks') = n + 1 /\ looks'[n + 1] = look
        /\ \A i \in 1..n : looks'[i] = looks[i]
    BY <2>1, <2>2, <2>4, AppendProperties
  <2>9. \A i \in 1..(n + 1) : SeedFor(looks', i, mapSeed) = SeedFor(looks, i, mapSeed)
    <3> TAKE i \in 1..(n + 1)
    <3>1. i # 1 => i - 1 \in 1..n
      BY <2>2
    <3> QED BY <2>8, <3>1 DEF SeedFor
  <2>10. PaintingOK(looks', mapping, mapSeed)
    <3>1. \A i \in 1..(n + 1) :
            \E x \in Seeds : looks'[i] = LookAt(mapping[PaintedTiles[i]], SeedFor(looks', i, mapSeed), x)
      <4> TAKE i \in 1..(n + 1)
      <4>1. SeedFor(looks', i, mapSeed) = SeedFor(looks, i, mapSeed)
        BY <2>9
      <4>2. CASE i = n + 1
        BY <2>6, <2>8, <4>1, <4>2
      <4>3. CASE i # n + 1
        <5>1. i \in 1..n
          BY <2>2, <4>3
        <5>2. \E x \in Seeds : looks[i] = LookAt(mapping[PaintedTiles[i]], SeedFor(looks, i, mapSeed), x)
          BY <1>1, <5>1 DEF PaintingOK
        <5> QED BY <2>8, <4>1, <5>1, <5>2
      <4> QED BY <4>2, <4>3
    <3> QED BY <2>1, <2>2, <2>8, <3>1 DEF PaintingOK
  <2>11. tileset'["set"].seed = SeedFor(looks', Len(looks') + 1, mapSeed')
    <3>1. n + 2 # 1 /\ (n + 2) - 1 = n + 1 /\ (n + 1) + 1 = n + 2
      BY <2>2
    <3> QED BY <2>7, <2>8, <3>1 DEF SeedFor
  <2> QED BY <1>1, <2>1, <2>7, <2>10, <2>11 DEF TilesetsInv
<1>15. CASE UNCHANGED tilesetsVars
  BY <1>15 DEF tilesetsVars, TilesetsInv
<1> QED BY <1>5, <1>6, <1>7, <1>8, <1>9, <1>10, <1>11, <1>12, <1>13, <1>14, <1>15 DEF TilesetsNext

(* The inductive invariant of tile sets.                                    *)
THEOREM TilesetsInvariance == TilesetsSpec => []TilesetsInv
<1>1. TilesetsInit => TilesetsInv
  BY TilesetsAssumption, TilesetsInvInit
<1>2. TilesetsInv /\ [TilesetsNext]_tilesetsVars => TilesetsInv'
  BY TilesetsAssumption, TilesetsStep
<1> QED BY <1>1, <1>2, PTL DEF TilesetsSpec

LEMMA TilesetsTypes == TilesetsInv => TilesetsTypeOK
<1> SUFFICES ASSUME TilesetsInv
             PROVE  TilesetsTypeOK
  OBVIOUS
<1>1. ASSUME NEW t \in TileSets, tileset[t] # NoTileset
      PROVE  /\ tileset[t].seed \in Seeds
             /\ \A k \in TileIds : /\ Mapping(t, k).sprites \in Seq(WeightedSprite)
                                   /\ {Mapping(t, k).room, Mapping(t, k).total} \subseteq Nat
  <2>1. tileset[t] \in SetRecord /\ \A k \in TileIds : Mapping(t, k) \in Mappings
    BY <1>1 DEF TilesetsInv, SetOK, Mapping, MappingOK
  <2>2. tileset[t].seed \in Seeds
    BY <2>1 DEF SetRecord
  <2> QED BY <2>1, <2>2, FieldsOf
<1> QED BY <1>1 DEF TilesetsInv, TilesetsTypeOK, PaintingOK

THEOREM TilesetsTypeCorrect == TilesetsSpec => []TilesetsTypeOK
BY TilesetsInvariance, TilesetsTypes, PTL

LEMMA TilesetsAreKept == TilesetsInv => TilesetsKept
<1> SUFFICES ASSUME TilesetsInv
             PROVE  TilesetsKept
  OBVIOUS
<1>1. ASSUME NEW t \in TileSets, tileset[t] # NoTileset, NEW k \in TileIds
      PROVE  MappingOK(Mapping(t, k), asked[t][k])
  BY <1>1 DEF TilesetsInv, SetOK, Mapping
<1>2. ListsAsAsked
  <2>1. ASSUME NEW t \in TileSets, tileset[t] # NoTileset, NEW k \in TileIds
        PROVE  LET m == Mapping(t, k) IN
                 /\ Len(m.sprites) <= m.room
                 /\ {m.sprites[i].sprite : i \in DOMAIN m.sprites} = DOMAIN asked[t][k]
                 /\ \A i \in DOMAIN m.sprites :
                      /\ m.sprites[i].weight = asked[t][k][m.sprites[i].sprite]
                      /\ \A j \in DOMAIN m.sprites : m.sprites[j].sprite = m.sprites[i].sprite => j = i
    <3> DEFINE q == Mapping(t, k).sprites
               a == asked[t][k]
    <3>1. /\ q \in Seq(WeightedSprite) /\ ToSet(NamesOf(q)) = DOMAIN a /\ Once(NamesOf(q))
          /\ Len(q) <= Mapping(t, k).room
          /\ \A i \in 1..Len(q) : q[i].weight = a[q[i].sprite]
      BY <1>1, <2>1, FieldsOf DEF MappingOK, ListOK
    <3>2. /\ DOMAIN q = 1..Len(q) /\ Len(NamesOf(q)) = Len(q) /\ ToSet(NamesOf(q)) = {q[i].sprite : i \in 1..Len(q)}
          /\ \A i \in 1..Len(q) : NamesOf(q)[i] = q[i].sprite
      BY <3>1, NamesAre
    <3>3. \A i, j \in 1..Len(q) : q[j].sprite = q[i].sprite => j = i
      BY <3>1, <3>2 DEF Once
    <3> QED BY <3>1, <3>2, <3>3
  <2> QED BY <2>1 DEF ListsAsAsked
<1>3. DrawnByWeight
  BY <1>1, TilesetsAssumption, DrawnByTheirWeight DEF DrawnByWeight
<1>4. StandsStill
  <2>1. ASSUME NEW i \in DOMAIN looks \cap DOMAIN lastLooks, \A j \in 1..i : ~looks[j].timed
        PROVE  looks[i] = lastLooks[i]
    <3> DEFINE mapping == tileset["set"].mapping
    <3>1. /\ mapping \in [TileIds -> Mappings] /\ \A k \in TileIds : MappingOK(mapping[k], asked["set"][k])
          /\ PaintingOK(looks, mapping, mapSeed) /\ PaintingOK(lastLooks, mapping, mapSeed)
      BY DEF TilesetsInv, SetOK, SetRecord, TileSets
    <3>2. mapSeed \in Seeds
      BY TilesetsAssumption DEF TilesetsInv, Seeds
    <3>3. i \in 1..Len(looks) /\ i <= Len(lastLooks)
      <4>1. looks \in Seq(Look) /\ lastLooks \in Seq(Look)
        BY <3>1 DEF PaintingOK
      <4> QED BY <4>1
    <3> DEFINE weights == asked["set"]
    <3>5. MappingsOK(mapping, weights)
      BY <3>1 DEF MappingsOK
    <3>6. PaintingOK(looks, mapping, mapSeed)
      BY <3>1
    <3>7. PaintingOK(lastLooks, mapping, mapSeed)
      BY <3>1
    <3>8. Untimed(looks, i)
      BY <2>1, <3>3 DEF Untimed
    <3>9. i <= Len(lastLooks)
      BY <3>3
    <3> HIDE DEF mapping, weights
    <3> QED BY <3>2, <3>5, <3>6, <3>7, <3>8, <3>9, TilesetsAssumption, PaintedAlike
  <2> QED BY <2>1 DEF StandsStill
<1> QED BY <1>2, <1>3, <1>4 DEF TilesetsKept

(* Tile sets have what was asked of them, draw by weight, and paint what    *)
(* nobody changed as in the frame before (TilesetsKept).                    *)
THEOREM TilesetsStandStill == TilesetsSpec => []TilesetsKept
BY TilesetsInvariance, TilesetsAreKept, PTL
-----------------------------------------------------------------------------
(* Paths.                                                                   *)

PathRecords ==
  [status : {"reading", "done", "refused", "spinning"}, cmd : Upper \cup {NoCommand, "pairs"},
   relative : BOOLEAN, fresh : BOOLEAN, ahead : Ahead, pen : Places, start : Places,
   ctrl : BOOLEAN, strokes : Nat]

PathLines ==
  [first : Places, last : Places, closed : BOOLEAN, begun : {"moved", "drawn"},
   after : BOOLEAN, circle : BOOLEAN]

LineCloses(stroke) ==
  stroke.closed /\ stroke.begun = "moved" /\ ~stroke.after /\ ~stroke.circle => stroke.last = stroke.first

(* The current line ends at the pen, and one that was moved to begins where *)
(* the last move went.                                                      *)
PenOn(p, stroke) ==
  /\ ~stroke.circle => stroke.last = p.pen
  /\ p.ctrl => ~stroke.circle
  /\ stroke.begun = "moved" => stroke.first = p.start

DrawnBy(p, ls) ==
  /\ p \in PathRecords /\ ls \in Seq(PathLines)
  /\ \A i \in 1..Len(ls) : LineCloses(ls[i])
  /\ p.status = "reading" =>
       /\ p.ctrl \/ p.cmd = "pairs" => ls # <<>>
       /\ ls # <<>> => PenOn(p, ls[Len(ls)])

PathsInv == DrawnBy(path, lines)

(* The last of a sequence is exchanged, or one is added to it.              *)
LEMMA LastIs ==
  ASSUME NEW ls \in Seq(PathLines), \A i \in 1..Len(ls) : LineCloses(ls[i]),
         NEW f \in PathLines, LineCloses(f)
  PROVE  /\ ls # <<>> => LET ms == [ls EXCEPT ![Len(ls)] = f] IN
              /\ ms \in Seq(PathLines) /\ ms # <<>> /\ Len(ms) = Len(ls) /\ ms[Len(ms)] = f
              /\ \A i \in 1..Len(ms) : LineCloses(ms[i])
         /\ LET ms == Append(ls, f) IN
              /\ ms \in Seq(PathLines) /\ ms # <<>> /\ Len(ms) = Len(ls) + 1 /\ ms[Len(ms)] = f
              /\ \A i \in 1..Len(ms) : LineCloses(ms[i])
<1> HIDE DEF PathLines
<1>1. ls # <<>> => /\ Len(ls) \in 1..Len(ls)
  OBVIOUS
<1>2. ASSUME ls # <<>>
      PROVE  LET ms == [ls EXCEPT ![Len(ls)] = f] IN
              /\ ms \in Seq(PathLines) /\ ms # <<>> /\ Len(ms) = Len(ls) /\ ms[Len(ms)] = f
              /\ \A i \in 1..Len(ms) : LineCloses(ms[i])
  <2> DEFINE ms == [ls EXCEPT ![Len(ls)] = f]
  <2>1. ms \in Seq(PathLines) /\ Len(ms) = Len(ls) /\ ms[Len(ls)] = f /\ \A i \in 1..Len(ls) : i # Len(ls) => ms[i] = ls[i]
    BY <1>1, <1>2
  <2> HIDE DEF ms
  <2>2. ms # <<>>
    BY <1>1, <1>2, <2>1
  <2>3. \A i \in 1..Len(ms) : LineCloses(ms[i])
    BY <2>1
  <2> QED BY <2>1, <2>2, <2>3 DEF ms
<1>3. LET ms == Append(ls, f) IN
        /\ ms \in Seq(PathLines) /\ ms # <<>> /\ Len(ms) = Len(ls) + 1 /\ ms[Len(ms)] = f
        /\ \A i \in 1..Len(ms) : LineCloses(ms[i])
  <2> DEFINE ms == Append(ls, f)
  <2>1. /\ ms \in Seq(PathLines) /\ Len(ms) = Len(ls) + 1 /\ ms[Len(ls) + 1] = f /\ Len(ls) \in Nat
        /\ \A i \in 1..Len(ls) : ms[i] = ls[i]
    BY AppendProperties
  <2> HIDE DEF ms
  <2>2. ms # <<>>
    BY <2>1
  <2>3. \A i \in 1..Len(ms) : LineCloses(ms[i])
    <3> TAKE i \in 1..Len(ms)
    <3>1. CASE i = Len(ls) + 1
      BY <2>1, <3>1
    <3>2. CASE i # Len(ls) + 1
      <4>1. i \in 1..Len(ls)
        BY <2>1, <3>2
      <4> QED BY <2>1, <4>1
    <3> QED BY <3>1, <3>2
  <2> QED BY <2>1, <2>2, <2>3 DEF ms
<1> QED BY <1>2, <1>3

(* What a step leaves of the reader.                                        *)
LEMMA GoesIs ==
  ASSUME NEW p \in PathRecords, NEW ahead \in Ahead, Goes(p, ahead)
  PROVE  /\ path' \in PathRecords /\ path'.status = p.status /\ path'.cmd = p.cmd
         /\ path'.pen = p.pen /\ path'.start = p.start /\ path'.ctrl = p.ctrl
<1>1. path' = [p EXCEPT !.ahead = ahead, !.strokes = p.strokes + 1]
  BY DEF Goes
<1>2. p.strokes + 1 \in Nat
  BY DEF PathRecords
<1> QED BY <1>1, <1>2 DEF PathRecords

(* The lines stay, and so does what the pen has to do with them.            *)
LEMMA OnlyReads ==
  ASSUME PathsInv, StillReading, NEW p \in PathRecords, NEW ahead \in Ahead, Goes(p, ahead),
         p.status = "reading", p.pen = path.pen, p.start = path.start,
         p.ctrl => path.ctrl, p.cmd = "pairs" => path.cmd = "pairs", lines' = lines
  PROVE  PathsInv'
<1>1. /\ path' \in PathRecords /\ path'.status = "reading" /\ path'.cmd = p.cmd
      /\ path'.pen = p.pen /\ path'.start = p.start /\ path'.ctrl = p.ctrl
  BY GoesIs
<1> QED BY <1>1 DEF PathsInv, DrawnBy, PenOn, StillReading

(* A line is drawn on, or another begins: the pen is at its end.            *)
LEMMA PenFollows ==
  ASSUME PathsInv, StillReading, NEW p \in PathRecords, NEW ahead \in Ahead, Goes(p, ahead),
         p.status = "reading", NEW ls \in Seq(PathLines), ls # <<>>, lines' = ls,
         \A i \in 1..Len(ls) : LineCloses(ls[i]), PenOn(p, ls[Len(ls)])
  PROVE  PathsInv'
<1>1. /\ path' \in PathRecords /\ path'.status = "reading" /\ path'.cmd = p.cmd
      /\ path'.pen = p.pen /\ path'.start = p.start /\ path'.ctrl = p.ctrl
  BY GoesIs
<1> QED BY <1>1 DEF PathsInv, DrawnBy, PenOn

LEMMA DrawToIs ==
  ASSUME PathsInv, StillReading, lines # <<>>, NEW place \in Places
  PROVE  LET ls == DrawTo(place) IN
           /\ ls \in Seq(PathLines) /\ ls # <<>> /\ Len(ls) = Len(lines)
           /\ \A i \in 1..Len(ls) : LineCloses(ls[i])
           /\ ls[Len(ls)].last = place /\ ~ls[Len(ls)].circle
           /\ ls[Len(ls)].begun = "moved" => ls[Len(ls)].first = path.start
<1> DEFINE stroke == lines[Len(lines)]
           f == [stroke EXCEPT !.last = place, !.circle = FALSE, !.after = stroke.closed]
           ls == [lines EXCEPT ![Len(lines)] = f]
<1>1. lines \in Seq(PathLines) /\ \A i \in 1..Len(lines) : LineCloses(lines[i])
  BY DEF PathsInv, DrawnBy
<1>2. stroke \in PathLines
  <2> HIDE DEF PathLines
  <2>1. Len(lines) \in 1..Len(lines)
    BY <1>1
  <2> QED BY <1>1, <2>1
<1>3. PenOn(path, stroke)
  BY DEF PathsInv, DrawnBy, StillReading
<1> HIDE DEF stroke
<1>4. f \in PathLines /\ f.last = place /\ ~f.circle /\ f.begun = stroke.begun /\ f.first = stroke.first
      /\ f.after = stroke.closed /\ f.closed = stroke.closed
  BY <1>2 DEF PathLines
<1>5. LineCloses(f)
  BY <1>4 DEF LineCloses
<1> HIDE DEF f
<1>6. ls \in Seq(PathLines) /\ ls # <<>> /\ Len(ls) = Len(lines) /\ ls[Len(ls)] = f /\ \A i \in 1..Len(ls) : LineCloses(ls[i])
  BY <1>1, <1>4, <1>5, LastIs
<1>7. DrawTo(place) = ls
  BY DEF DrawTo, Current, f, stroke
<1> HIDE DEF ls
<1> QED BY <1>3, <1>4, <1>6, <1>7 DEF PenOn

LEMMA BeginIs ==
  ASSUME PathsInv, NEW at \in Places, NEW how \in {"moved", "drawn"}
  PROVE  LET ls == Begin(at, how) IN
           /\ ls \in Seq(PathLines) /\ ls # <<>> /\ Len(ls) = Len(lines) + 1
           /\ \A i \in 1..Len(ls) : LineCloses(ls[i])
           /\ ls[Len(ls)].first = at /\ ls[Len(ls)].last = at /\ ~ls[Len(ls)].closed
           /\ ls[Len(ls)].begun = how /\ ~ls[Len(ls)].circle /\ ls[Len(ls)] \in PathLines
<1> DEFINE f == [first |-> at, last |-> at, closed |-> FALSE, begun |-> how, after |-> FALSE, circle |-> FALSE]
           ls == Append(lines, f)
<1>1. lines \in Seq(PathLines) /\ \A i \in 1..Len(lines) : LineCloses(lines[i])
  BY DEF PathsInv, DrawnBy
<1>2. /\ f \in PathLines /\ LineCloses(f)
      /\ f.first = at /\ f.last = at /\ ~f.closed /\ f.begun = how /\ ~f.circle
  BY DEF PathLines, LineCloses
<1> HIDE DEF f
<1>3. ls \in Seq(PathLines) /\ ls # <<>> /\ Len(ls) = Len(lines) + 1 /\ ls[Len(ls)] = f /\ \A i \in 1..Len(ls) : LineCloses(ls[i])
  BY <1>1, <1>2, LastIs
<1>4. Begin(at, how) = ls
  BY DEF Begin, f
<1> HIDE DEF ls
<1> QED BY <1>2, <1>3, <1>4

LEMMA BeginMoved ==
  ASSUME PathsInv, NEW at \in Places
  PROVE  LET ls == Begin(at, "moved") IN
           /\ ls \in Seq(PathLines) /\ ls # <<>> /\ \A i \in 1..Len(ls) : LineCloses(ls[i])
           /\ ls[Len(ls)].first = at /\ ls[Len(ls)].last = at
<1>1. "moved" \in {"moved", "drawn"}
  OBVIOUS
<1> HIDE DEF Begin
<1> QED BY <1>1, BeginIs

LEMMA BeginDrawn ==
  ASSUME PathsInv, NEW at \in Places
  PROVE  LET ls == Begin(at, "drawn") IN
           /\ ls \in Seq(PathLines) /\ ls # <<>> /\ Len(ls) = Len(lines) + 1
           /\ \A i \in 1..Len(ls) : LineCloses(ls[i])
           /\ ls[Len(ls)].first = at /\ ls[Len(ls)].last = at /\ ~ls[Len(ls)].closed
           /\ ls[Len(ls)].begun = "drawn" /\ ~ls[Len(ls)].circle /\ ls[Len(ls)] \in PathLines
<1>1. "drawn" \in {"moved", "drawn"}
  OBVIOUS
<1> QED BY <1>1, BeginIs

LEMMA PathsStep == PathsAssumption /\ PathsInv /\ [PathsNext]_pathsVars => PathsInv'
<1> SUFFICES ASSUME PathsAssumption, PathsInv, [PathsNext]_pathsVars
             PROVE  PathsInv'
  OBVIOUS
<1>1. path \in PathRecords /\ lines \in Seq(PathLines) /\ \A i \in 1..Len(lines) : LineCloses(lines[i])
  BY DEF PathsInv, DrawnBy
<1>2. path.pen \in Places /\ path.start \in Places /\ path.ctrl \in BOOLEAN /\ path.ahead \in Ahead
  BY <1>1 DEF PathRecords
<1>3. ASSUME NEW cmd \in Upper, NEW relative \in BOOLEAN, ReadCommand(cmd, relative)
      PROVE  PathsInv'
  <2> DEFINE p == [path EXCEPT !.cmd = cmd, !.relative = relative, !.fresh = TRUE]
  <2>1. PICK ahead \in Ahead : StillReading /\ Goes(p, ahead) /\ lines' = lines
    BY <1>3 DEF ReadCommand
  <2>2. /\ p \in PathRecords /\ p.status = path.status /\ p.pen = path.pen /\ p.start = path.start
        /\ p.ctrl = path.ctrl /\ p.cmd = cmd
    BY <1>1 DEF PathRecords
  <2>3. cmd # "pairs" /\ path.status = "reading"
    BY <2>1 DEF Upper, Lines, Curves, Skips, StillReading
  <2> HIDE DEF p
  <2> QED BY <2>1, <2>2, <2>3, OnlyReads
<1>4. ASSUME NEW place, MoveTo(place)
      PROVE  PathsInv'
  <2> DEFINE at == To(place)
             p == [path EXCEPT !.pen = at, !.start = at, !.ctrl = FALSE, !.fresh = FALSE, !.cmd = "pairs"]
             ls == Begin(at, "moved")
  <2>1. PICK ahead \in Ahead : StillReading /\ Goes(p, ahead) /\ lines' = ls /\ at \in Places
    BY <1>4 DEF MoveTo, Serves
  <2>2. p \in PathRecords /\ p.status = path.status /\ p.pen = at /\ p.start = at /\ ~p.ctrl
    BY <1>1, <2>1 DEF PathRecords
  <2>3. /\ ls \in Seq(PathLines) /\ ls # <<>> /\ \A i \in 1..Len(ls) : LineCloses(ls[i])
        /\ ls[Len(ls)].first = at /\ ls[Len(ls)].last = at
    BY <2>1, BeginMoved
  <2> HIDE DEF p, ls
  <2> QED BY <2>1, <2>2, <2>3, PenFollows DEF PenOn, StillReading
<1>5. ASSUME Refuse
      PROVE  PathsInv'
  <2>1. path' = [path EXCEPT !.status = "refused"] /\ lines' = <<>>
    BY <1>5 DEF Refuse
  <2>2. path' \in PathRecords /\ path'.status = "refused"
    BY <1>1, <2>1 DEF PathRecords
  <2> QED BY <2>1, <2>2 DEF PathsInv, DrawnBy
<1>6. ASSUME NEW place, Pair(place)
      PROVE  PathsInv'
  <2> DEFINE at == To(place)
             ls == DrawTo(at)
  <2>1. PICK ahead \in Ahead :
          /\ StillReading /\ path.cmd = "pairs" /\ lines' = ls /\ at \in Places
          /\ Goes([path EXCEPT !.pen = at, !.cmd = IF path.relative /\ ahead # "joined" THEN "M" ELSE "pairs"], ahead)
    BY <1>6 DEF Pair
  <2> DEFINE p == [path EXCEPT !.pen = at, !.cmd = IF path.relative /\ ahead # "joined" THEN "M" ELSE "pairs"]
  <2>2. p \in PathRecords /\ p.status = path.status /\ p.pen = at /\ p.start = path.start /\ p.ctrl = path.ctrl
    BY <1>1, <2>1 DEF PathRecords, Upper
  <2>3. lines # <<>>
    BY <2>1 DEF PathsInv, DrawnBy, StillReading
  <2>4. /\ ls \in Seq(PathLines) /\ ls # <<>> /\ \A i \in 1..Len(ls) : LineCloses(ls[i])
        /\ ls[Len(ls)].last = at /\ ~ls[Len(ls)].circle
        /\ ls[Len(ls)].begun = "moved" => ls[Len(ls)].first = path.start
    BY <2>1, <2>3, DrawToIs
  <2>5. PenOn(p, ls[Len(ls)])
    BY <2>2, <2>4 DEF PenOn
  <2>6. Goes(p, ahead)
    BY <2>1
  <2> HIDE DEF p, ls
  <2> QED BY <2>1, <2>2, <2>4, <2>5, <2>6, PenFollows DEF StillReading
<1>7. ASSUME PairsEnd
      PROVE  PathsInv'
  <2> DEFINE p == [path EXCEPT !.cmd = "M"]
  <2>1. PICK ahead \in Ahead : StillReading /\ Goes(p, ahead) /\ lines' = lines
    BY <1>2, <1>7 DEF PairsEnd
  <2>2. /\ p \in PathRecords /\ p.status = path.status /\ p.pen = path.pen /\ p.start = path.start
        /\ p.ctrl = path.ctrl /\ p.cmd = "M"
    BY <1>1 DEF PathRecords, Upper
  <2> HIDE DEF p
  <2> QED BY <2>1, <2>2, OnlyReads DEF StillReading
<1>8. ASSUME NEW place, LineTo(place)
      PROVE  PathsInv'
  <2> DEFINE at == To(place)
             p == [path EXCEPT !.pen = at, !.ctrl = FALSE, !.fresh = FALSE]
             ls == IF lines = <<>> THEN Begin(at, "drawn") ELSE DrawTo(at)
  <2>1. PICK ahead \in Ahead : StillReading /\ Goes(p, ahead) /\ lines' = ls /\ at \in Places
    BY <1>8 DEF LineTo, Serves, After
  <2>2. p \in PathRecords /\ p.status = path.status /\ p.pen = at /\ p.start = path.start /\ ~p.ctrl
    BY <1>1, <2>1 DEF PathRecords
  <2>3. /\ ls \in Seq(PathLines) /\ ls # <<>> /\ \A i \in 1..Len(ls) : LineCloses(ls[i])
        /\ ls[Len(ls)].last = at
        /\ ls[Len(ls)].begun = "moved" => ls[Len(ls)].first = path.start
    <3>1. CASE lines = <<>>
      <4>1. ls = Begin(at, "drawn")
        BY <3>1
      <4> HIDE DEF at, ls
      <4>2. /\ Begin(at, "drawn") \in Seq(PathLines) /\ Begin(at, "drawn") # <<>>
            /\ \A i \in 1..Len(Begin(at, "drawn")) : LineCloses(Begin(at, "drawn")[i])
            /\ Begin(at, "drawn")[Len(Begin(at, "drawn"))].last = at
            /\ Begin(at, "drawn")[Len(Begin(at, "drawn"))].begun = "drawn"
        BY <2>1, BeginDrawn
      <4> QED BY <4>1, <4>2
    <3>2. CASE lines # <<>>
      BY <2>1, <3>2, DrawToIs
    <3> QED BY <3>1, <3>2
  <2>4. PenOn(p, ls[Len(ls)])
    BY <2>2, <2>3 DEF PenOn
  <2> HIDE DEF p, ls
  <2> QED BY <2>1, <2>2, <2>3, <2>4, PenFollows DEF StillReading
<1>9. ASSUME NEW place, CurveTo(place)
      PROVE  PathsInv'
  <2> DEFINE at == To(place)
             p == [path EXCEPT !.pen = at, !.ctrl = TRUE, !.fresh = FALSE]
             b == Begin(path.pen, "drawn")[1]
             f == [b EXCEPT !.last = at]
             ls == IF lines = <<>> THEN <<f>> ELSE DrawTo(at)
  <2>1. PICK ahead \in Ahead : StillReading /\ Goes(p, ahead) /\ lines' = ls /\ at \in Places
    BY <1>9 DEF CurveTo, Serves, After
  <2>2. p \in PathRecords /\ p.status = path.status /\ p.pen = at /\ p.start = path.start
    BY <1>1, <2>1 DEF PathRecords
  <2>3. /\ ls \in Seq(PathLines) /\ ls # <<>> /\ \A i \in 1..Len(ls) : LineCloses(ls[i])
        /\ ls[Len(ls)].last = at /\ ~ls[Len(ls)].circle
        /\ ls[Len(ls)].begun = "moved" => ls[Len(ls)].first = path.start
    <3>1. CASE lines = <<>>
      <4>1. b \in PathLines /\ b.begun = "drawn" /\ ~b.closed /\ ~b.circle
        <5>1. Len(lines) + 1 = 1
          BY <3>1
        <5>2. LET ls0 == Begin(path.pen, "drawn") IN
                /\ Len(ls0) = Len(lines) + 1 /\ ~ls0[Len(ls0)].closed
                /\ ls0[Len(ls0)].begun = "drawn" /\ ~ls0[Len(ls0)].circle /\ ls0[Len(ls0)] \in PathLines
          BY <1>2, BeginDrawn
        <5> QED BY <5>1, <5>2
      <4> HIDE DEF b
      <4>2. f \in PathLines /\ f.last = at /\ ~f.circle /\ f.begun = "drawn" /\ ~f.closed
        BY <1>2, <2>1, <4>1 DEF PathLines
      <4>3. LineCloses(f)
        BY <4>2 DEF LineCloses
      <4> HIDE DEF f
      <4>4. ls = <<f>> /\ <<f>> \in Seq(PathLines) /\ Len(<<f>>) = 1 /\ <<f>>[1] = f /\ <<f>> # <<>>
        BY <3>1, <4>2
      <4> HIDE DEF ls
      <4>5. /\ ls \in Seq(PathLines) /\ ls # <<>> /\ Len(ls) = 1
            /\ ls[1] = f
        BY <4>4
      <4>6. \A i \in 1..Len(ls) : LineCloses(ls[i])
        BY <4>3, <4>5
      <4> QED BY <4>2, <4>5, <4>6
    <3>2. CASE lines # <<>>
      BY <2>1, <3>2, DrawToIs
    <3> QED BY <3>1, <3>2
  <2>4. PenOn(p, ls[Len(ls)])
    BY <2>2, <2>3 DEF PenOn
  <2> HIDE DEF p, ls
  <2> QED BY <2>1, <2>2, <2>3, <2>4, PenFollows DEF StillReading
<1>10. ASSUME NEW place, NEW side \in Places, ArcTo(place, side)
       PROVE  PathsInv'
  <2> DEFINE at == To(place)
             p == [path EXCEPT !.pen = at, !.ctrl = FALSE, !.fresh = FALSE]
             stroke == IF lines = <<>> THEN Begin(side, "drawn") ELSE DrawTo(side)
             f == [stroke[Len(stroke)] EXCEPT !.circle = TRUE]
             ls == [stroke EXCEPT ![Len(stroke)] = f]
  <2>0. /\ StillReading /\ at \in Places
        /\ \E ahead \in {"command", "other", "end"} : Goes(p, ahead)
    BY <1>10 DEF ArcTo, Serves
  <2>1. PICK ahead \in Ahead : StillReading /\ Goes(p, ahead) /\ at \in Places
    BY <2>0 DEF Ahead
  <2>2. p \in PathRecords /\ p.status = path.status /\ p.pen = at /\ p.start = path.start /\ ~p.ctrl
    BY <1>1, <2>1 DEF PathRecords
  <2>3. /\ stroke \in Seq(PathLines) /\ stroke # <<>> /\ \A i \in 1..Len(stroke) : LineCloses(stroke[i])
        /\ stroke[Len(stroke)].begun = "moved" => stroke[Len(stroke)].first = path.start
    <3>1. CASE lines = <<>>
      <4>1. stroke = Begin(side, "drawn")
        BY <3>1
      <4> HIDE DEF stroke
      <4>2. /\ Begin(side, "drawn") \in Seq(PathLines) /\ Begin(side, "drawn") # <<>>
            /\ \A i \in 1..Len(Begin(side, "drawn")) : LineCloses(Begin(side, "drawn")[i])
            /\ Begin(side, "drawn")[Len(Begin(side, "drawn"))].begun = "drawn"
        BY BeginDrawn
      <4> QED BY <4>1, <4>2
    <3>2. CASE lines # <<>>
      BY <2>1, <3>2, DrawToIs
    <3> QED BY <3>1, <3>2
  <2>4. lines' = ls
    <3>1. lines' = [stroke EXCEPT ![Len(stroke)].circle = TRUE]
      BY <1>10 DEF ArcTo
    <3> HIDE DEF stroke
    <3> QED BY <3>1
  <2> HIDE DEF stroke
  <2>5. stroke[Len(stroke)] \in PathLines
    <3> HIDE DEF PathLines
    <3>1. Len(stroke) \in 1..Len(stroke)
      BY <2>3
    <3> QED BY <2>3, <3>1
  <2>6. /\ f \in PathLines /\ f.circle /\ f.begun = stroke[Len(stroke)].begun /\ f.first = stroke[Len(stroke)].first
        /\ LineCloses(f)
    BY <2>5 DEF PathLines, LineCloses
  <2> HIDE DEF f
  <2>7. ls \in Seq(PathLines) /\ ls # <<>> /\ Len(ls) = Len(stroke) /\ ls[Len(ls)] = f /\ \A i \in 1..Len(ls) : LineCloses(ls[i])
    BY <2>3, <2>6, LastIs
  <2>8. PenOn(p, ls[Len(ls)])
    <3> HIDE DEF p, ls
    <3> QED BY <2>2, <2>3, <2>6, <2>7 DEF PenOn
  <2> HIDE DEF p, ls
  <2> QED BY <2>1, <2>2, <2>4, <2>7, <2>8, PenFollows DEF StillReading
<1>11. ASSUME ShortGroup
       PROVE  PathsInv'
  <2> DEFINE p == [path EXCEPT !.fresh = FALSE, !.ctrl = IF path.cmd \in Curves THEN path.ctrl ELSE FALSE]
  <2>1. PICK ahead \in Ahead : StillReading /\ Goes(p, ahead) /\ lines' = lines
    BY <1>11 DEF ShortGroup, Serves
  <2>2. /\ p \in PathRecords /\ p.status = path.status /\ p.pen = path.pen /\ p.start = path.start
        /\ (p.ctrl => path.ctrl) /\ p.cmd = path.cmd
    BY <1>1, <1>2 DEF PathRecords
  <2> HIDE DEF p
  <2> QED BY <2>1, <2>2, OnlyReads DEF StillReading
<1>12. ASSUME Skip
       PROVE  PathsInv'
  <2> DEFINE p == [path EXCEPT !.fresh = FALSE, !.ctrl = IF path.cmd = "other" THEN path.ctrl ELSE FALSE]
  <2>1. PICK ahead \in Ahead : StillReading /\ Goes(p, ahead) /\ lines' = lines
    BY <1>2, <1>12 DEF Skip, Serves, Ahead
  <2>2. /\ p \in PathRecords /\ p.status = path.status /\ p.pen = path.pen /\ p.start = path.start
        /\ (p.ctrl => path.ctrl) /\ p.cmd = path.cmd
    BY <1>1, <1>2 DEF PathRecords
  <2> HIDE DEF p
  <2> QED BY <2>1, <2>2, OnlyReads DEF StillReading
<1>13. ASSUME ClosePath
       PROVE  PathsInv'
  <2> DEFINE p == [path EXCEPT !.pen = IF lines = <<>> THEN path.pen ELSE path.start, !.ctrl = FALSE, !.fresh = FALSE]
             stroke == lines[Len(lines)]
             f == [stroke EXCEPT !.last = path.start, !.closed = TRUE, !.circle = FALSE, !.after = FALSE]
             ls == IF lines = <<>> THEN lines ELSE [lines EXCEPT ![Len(lines)] = f]
  <2>1. StillReading /\ Goes(p, path.ahead) /\ lines' = ls
    BY <1>13 DEF ClosePath, Serves, Current
  <2>2. /\ p \in PathRecords /\ p.status = path.status /\ p.start = path.start /\ ~p.ctrl
        /\ p.pen = (IF lines = <<>> THEN path.pen ELSE path.start) /\ p.cmd = path.cmd
    BY <1>1, <1>2 DEF PathRecords
  <2>3. CASE lines = <<>>
    <3> HIDE DEF p
    <3>1. p.pen = path.pen /\ lines' = lines
      BY <2>1, <2>2, <2>3
    <3> QED BY <1>2, <2>1, <2>2, <3>1, OnlyReads DEF StillReading
  <2>4. CASE lines # <<>>
    <3>1. stroke \in PathLines
      <4> HIDE DEF PathLines
      <4>1. Len(lines) \in 1..Len(lines)
        BY <1>1, <2>4
      <4> QED BY <1>1, <4>1
    <3>2. PenOn(path, stroke)
      BY <2>1, <2>4 DEF PathsInv, DrawnBy, StillReading
    <3> HIDE DEF stroke
    <3>3. /\ f \in PathLines /\ f.last = path.start /\ ~f.circle /\ f.begun = stroke.begun /\ f.first = stroke.first
      BY <1>2, <3>1 DEF PathLines
    <3> HIDE DEF f
    <3>4. LineCloses(f)
      BY <3>2, <3>3 DEF LineCloses, PenOn
    <3> DEFINE ms == [lines EXCEPT ![Len(lines)] = f]
    <3>5. ms \in Seq(PathLines) /\ ms # <<>> /\ Len(ms) = Len(lines) /\ ms[Len(ms)] = f /\ \A i \in 1..Len(ms) : LineCloses(ms[i])
      BY <1>1, <2>4, <3>3, <3>4, LastIs
    <3>6. lines' = ms
      BY <2>1, <2>4 DEF f
    <3> HIDE DEF p, ms, ls
    <3>7. PenOn(p, ms[Len(ms)])
      BY <2>2, <2>4, <3>2, <3>3, <3>5 DEF PenOn
    <3> QED BY <1>2, <2>1, <2>2, <3>5, <3>6, <3>7, PenFollows DEF StillReading
  <2> QED BY <2>3, <2>4
<1>14. ASSUME NothingThere
       PROVE  PathsInv'
  <2>1. /\ StillReading /\ lines' = lines
        /\ path' = [path EXCEPT !.fresh = FALSE, !.ctrl = IF path.cmd \in Curves THEN path.ctrl ELSE FALSE]
    BY <1>14 DEF NothingThere, Serves
  <2>2. /\ path' \in PathRecords /\ path'.status = path.status /\ path'.pen = path.pen /\ path'.start = path.start
        /\ (path'.ctrl => path.ctrl) /\ path'.cmd = path.cmd
    BY <1>1, <1>2, <2>1 DEF PathRecords
  <2> QED BY <1>1, <2>1, <2>2 DEF PathsInv, DrawnBy, PenOn, StillReading
<1>15. ASSUME Spin
       PROVE  PathsInv'
  <2>1. path' = [path EXCEPT !.status = "spinning"] /\ lines' = lines
    BY <1>15 DEF Spin
  <2>2. path' \in PathRecords /\ path'.status = "spinning"
    BY <1>1, <2>1 DEF PathRecords
  <2> QED BY <1>1, <2>1, <2>2 DEF PathsInv, DrawnBy
<1>16. ASSUME Finish
       PROVE  PathsInv'
  <2>1. path' = [path EXCEPT !.status = "done"] /\ lines' = lines
    BY <1>16 DEF Finish
  <2>2. path' \in PathRecords /\ path'.status = "done"
    BY <1>1, <2>1 DEF PathRecords
  <2> QED BY <1>1, <2>1, <2>2 DEF PathsInv, DrawnBy
<1>17. CASE UNCHANGED pathsVars
  BY <1>17 DEF pathsVars, PathsInv
<1> QED BY <1>3, <1>4, <1>5, <1>6, <1>7, <1>8, <1>9, <1>10, <1>11, <1>12, <1>13, <1>14, <1>15, <1>16, <1>17 DEF PathsNext

(* The inductive invariant of paths.                                        *)
THEOREM PathsInvariance == PathsSpec => []PathsInv
<1>1. PathsInit => PathsInv
  <2> SUFFICES ASSUME PathsInit
               PROVE  PathsInv
    OBVIOUS
  <2>1. PICK ahead \in Ahead :
          path = [status |-> "reading", cmd |-> NoCommand, relative |-> FALSE, fresh |-> FALSE,
                  ahead |-> ahead, pen |-> 0, start |-> 0, ctrl |-> FALSE, strokes |-> 0]
    BY DEF PathsInit
  <2>2. path \in PathRecords /\ ~path.ctrl /\ path.cmd = NoCommand
    BY <2>1, PathsAssumption DEF PathRecords
  <2>3. lines = <<>>
    BY DEF PathsInit
  <2> QED BY <2>2, <2>3 DEF PathsInv, DrawnBy, NoCommand
<1>2. PathsInv /\ [PathsNext]_pathsVars => PathsInv'
  BY PathsAssumption, PathsStep
<1> QED BY <1>1, <1>2, PTL DEF PathsSpec

THEOREM PathsTypeCorrect == PathsSpec => []PathsTypeOK
<1>1. PathsInv => PathsTypeOK
  <2> SUFFICES ASSUME PathsInv
               PROVE  PathsTypeOK
    OBVIOUS
  <2>1. path \in PathRecords /\ lines \in Seq(PathLines)
    BY DEF PathsInv, DrawnBy
  <2>2. \A i \in DOMAIN lines : lines[i] \in PathLines
    <3> HIDE DEF PathLines
    <3> QED BY <2>1
  <2>3. \A i \in DOMAIN lines : {lines[i].first, lines[i].last} \subseteq Places
    BY <2>2 DEF PathLines
  <2> QED BY <2>1, <2>3 DEF PathsTypeOK, PathRecords
<1> QED BY <1>1, PathsInvariance, PTL

(* What is drawn next joins what was drawn before, smooth curves continue   *)
(* curves, and closed lines close (PathsDrawn).                             *)
THEOREM PathsAreDrawn == PathsSpec => []PathsDrawn
<1>1. PathsInv => PathsDrawn
  <2> SUFFICES ASSUME PathsInv
               PROVE  PathsDrawn
    OBVIOUS
  <2>1. lines \in Seq(PathLines) /\ \A i \in 1..Len(lines) : LineCloses(lines[i])
    BY DEF PathsInv, DrawnBy
  <2>2. DOMAIN lines = 1..Len(lines)
    BY <2>1
  <2>3. ClosedLinesClose
    BY <2>1, <2>2 DEF ClosedLinesClose, LineCloses
  <2>4. PenAtEnd /\ SmoothJoins
    BY DEF PathsInv, DrawnBy, PenOn, PenAtEnd, SmoothJoins, StillReading
  <2> QED BY <2>3, <2>4 DEF PathsDrawn
<1> QED BY <1>1, PathsInvariance, PTL
=============================================================================
