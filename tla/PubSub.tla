------------------------------- MODULE PubSub -------------------------------
(***************************************************************************)
(* Publish/subscribe of src/core/pubsub.c with the callers of              *)
(* src/entity/entity_lua.c: entities subscribe functions of theirs to      *)
(* topics, keep their own record of it so that a dying entity can take all *)
(* of its subscriptions back, and publish, also from inside the functions  *)
(* that a publish calls.                                                   *)
(*                                                                         *)
(* All of it runs on the main thread, so an action is a whole call, except *)
(* for publishing: the functions it calls may do anything, so a publish is *)
(* a series of visits with the script's actions between them.  Publishes   *)
(* nest; depth counts them.                                                *)
(*                                                                         *)
(* Subscriptions are numbered as they are allocated.  They are appended to *)
(* a topic's array and taken out by shifting, so an array is always in     *)
(* this order: it is a set here, "the first" is the smallest number.  A    *)
(* topic without subscriptions has no array.                               *)
(***************************************************************************)
EXTENDS Integers, Sequences, FiniteSets

CONSTANTS
  Topics, Entities, Functions,
  NoTopic,   (* name of a publish that is not under way                     *)
  MaxSubs,   (* bound on how many subscriptions are ever made               *)
  MaxDepth   (* bound on how deep publishes nest                            *)

ASSUME PubSubAssumption == /\ NoTopic \notin Topics
                           /\ MaxSubs \in Nat
                           /\ MaxDepth \in Nat

Keys   == Topics \X Functions
Depths == 1..MaxDepth

VARIABLES
  life,     \* of each entity: "active", "inactive", "destroyed" or "freed"
  subs,     \* every EseSubscription made: its entity and function_name
  topics,   \* of each topic: the subscriptions in its array
  freed,    \* the subscriptions that were freed
  tracked,  \* entity->subscriptions: how often an entity lists each key
  depth,    \* how many publishes are under way
  name,     \* of each of them: its topic
  rest,     \* of each of them: what is left of subscription_copy
  calling,  \* of each of them: the subscription whose function runs, or 0
  fault,    \* "none", or what kind of freed object was used
  (* History, read by the properties only.                                  *)
  since,    \* of each publish: how many subscriptions had been made before
  cut       \* was a subscription ever taken back inside a callback?

storeVars   == <<subs, topics, freed, tracked>>
publishVars == <<depth, name, rest, calling, since>>
vars == <<life, storeVars, publishVars, fault, cut>>

Init ==
  /\ life = [e \in Entities |-> "active"]
  /\ subs = <<>> /\ freed = {}
  /\ topics = [t \in Topics |-> {}]
  /\ tracked = [e \in Entities |-> [k \in Keys |-> 0]]
  /\ depth = 0
  /\ name = [d \in Depths |-> NoTopic]
  /\ rest = [d \in Depths |-> {}]
  /\ since = [d \in Depths |-> 0]
  /\ calling = [d \in Depths |-> 0]
  /\ fault = "none" /\ cut = FALSE

(* Scripts run outside of publishes (their update functions, collisions,    *)
(* GUI) and in the functions that a publish calls.                          *)
ScriptRuns == depth > 0 => calling[depth] # 0

(***************************************************************************)
(* Subscribing.  entity:subscribe adds to the topic's array, then to the   *)
(* entity's record; nothing keeps a function from being subscribed twice.  *)
(* A script that kept the method may use it on a destroyed entity.         *)
(***************************************************************************)

(* Definitions named Wrong... are mutants: a plausible mistake in the        *)
(* definition that follows.  Nothing uses them; they show that a property   *)
(* notices the mistake.                                                     *)

(* The record is a set of keys. *)
WrongTracked(n) == 1

(* array_push on entity->subscriptions. *)
Tracked(n) == n + 1

Subscribe(e, t, f) ==
  /\ ScriptRuns /\ life[e] # "freed" /\ Len(subs) < MaxSubs
  /\ subs' = Append(subs, [entity |-> e, function |-> f])
  /\ topics' = [topics EXCEPT ![t] = @ \cup {Len(subs) + 1}]
  /\ tracked' = [tracked EXCEPT ![e][<<t, f>>] = Tracked(@)]
  /\ UNCHANGED <<life, freed, publishVars, fault, cut>>

(* What ese_pubsub_unsub looks for. *)
Matching(e, t, f) ==
  {s \in topics[t] : subs[s].entity = e /\ subs[s].function = f}

(* The loop does not stop at the first match. *)
WrongFirst(n, S) == S

(* The first n subscriptions of S: what n calls of ese_pubsub_unsub take.   *)
First(n, S) == {s \in S : Cardinality({r \in S : r < s}) < n}

(* array_remove_at: what stays in an array. *)
Kept(S, gone) == S \ gone

(* _entity_remove_subscription, if the entity lists the key at all. *)
Untracked(n) == IF n > 0 THEN n - 1 ELSE 0

(* entity:unsubscribe frees the first match, in the middle of a publish too.*)
Unsubscribe(e, t, f) ==
  LET gone == First(1, Matching(e, t, f)) IN
  /\ ScriptRuns /\ life[e] # "freed"
  /\ topics' = [topics EXCEPT ![t] = Kept(@, gone)]
  /\ freed' = freed \cup gone
  /\ tracked' = [tracked EXCEPT ![e][<<t, f>>] = Untracked(@)]
  /\ cut' = (cut \/ (depth > 0 /\ gone # {}))
  /\ UNCHANGED <<life, subs, publishVars, fault>>

(***************************************************************************)
(* Publishing.  The array is copied under the mutex, the pointers in the   *)
(* copy are followed after it has been released.                           *)
(***************************************************************************)
Publish(t) ==
  /\ ScriptRuns /\ depth < MaxDepth /\ topics[t] # {}
  /\ depth' = depth + 1
  /\ name' = [name EXCEPT ![depth + 1] = t]
  /\ rest' = [rest EXCEPT ![depth + 1] = topics[t]]
  /\ since' = [since EXCEPT ![depth + 1] = Len(subs)]
  /\ UNCHANGED <<life, storeVars, calling, fault, cut>>

(* The array is walked itself, and what is appended to it is reached. *)
WrongToVisit(d) == rest[d] \cup {s \in topics[name[d]] : s > since[d]}

(* The part of the copy that the publish at depth d still walks. *)
ToVisit(d) == rest[d]

Visiting == depth > 0 /\ calling[depth] = 0

(* What _entity_pubsub_callback finds when it reads the subscription, then  *)
(* the entity in it.                                                        *)
Reads(s) == IF s \in freed THEN "subscription"
            ELSE IF life[subs[s].entity] = "freed" THEN "entity" ELSE "none"

(* The next entry of the copy: the function of an active entity is called.  *)
Visit(s) ==
  /\ Visiting /\ s \in ToVisit(depth) /\ \A r \in ToVisit(depth) : s <= r
  /\ rest' = [rest EXCEPT ![depth] = @ \ {s}]
  /\ fault' = Reads(s)
  /\ IF s \notin freed /\ life[subs[s].entity] = "active"
       THEN calling' = [calling EXCEPT ![depth] = s]
       ELSE UNCHANGED calling
  /\ UNCHANGED <<life, storeVars, depth, name, since, cut>>

(* An entity may have several script components; the function is looked up  *)
(* in each by the name that is part of the subscription.  Only a lookup by  *)
(* a freed name changes anything here.                                      *)
NextComponent ==
  /\ depth > 0 /\ calling[depth] \in freed
  /\ fault' = "function"
  /\ UNCHANGED <<life, storeVars, publishVars, cut>>

CallbackReturns ==
  /\ depth > 0 /\ calling[depth] # 0
  /\ calling' = [calling EXCEPT ![depth] = 0]
  /\ UNCHANGED <<life, storeVars, depth, name, rest, since, fault, cut>>

(* The copy is freed; an outer publish is still inside its callback. *)
PublishEnds ==
  /\ Visiting /\ ToVisit(depth) = {}
  /\ depth' = depth - 1
  /\ name' = [name EXCEPT ![depth] = NoTopic]
  /\ since' = [since EXCEPT ![depth] = 0]
  /\ UNCHANGED <<life, storeVars, rest, calling, fault, cut>>

(***************************************************************************)
(* Entities.                                                               *)
(***************************************************************************)
(* entity.active = ..., which a destroyed entity ignores. *)
SetActive(e) ==
  /\ ScriptRuns /\ life[e] \in {"active", "inactive"}
  /\ life' = [life EXCEPT ![e] = IF @ = "active" THEN "inactive" ELSE "active"]
  /\ UNCHANGED <<storeVars, publishVars, fault, cut>>

(* entity:destroy; the entity stays in memory until the frame ends. *)
DestroyEntity(e) ==
  /\ ScriptRuns /\ life[e] \in {"active", "inactive"}
  /\ life' = [life EXCEPT ![e] = "destroyed"]
  /\ UNCHANGED <<storeVars, publishVars, fault, cut>>

(* An entity is deleted as soon as it is destroyed. *)
WrongNoPublish == TRUE

(* Entities are deleted by the engine itself, never inside a publish. *)
NoPublish == depth = 0

(* _entity_cleanup of a destroyed entity, or of any other one when the      *)
(* scene was cleared or the engine is destroyed: one ese_pubsub_unsub for   *)
(* each entry of its record, then the record and the entity are freed.      *)
DeleteEntity(e) ==
  LET gone == UNION {First(tracked[e][k], Matching(e, k[1], k[2])) : k \in Keys}
  IN /\ NoPublish /\ life[e] # "freed"
     /\ life' = [life EXCEPT ![e] = "freed"]
     /\ topics' = [t \in Topics |-> Kept(topics[t], gone)]
     /\ freed' = freed \cup gone
     /\ tracked' = [tracked EXCEPT ![e] = [k \in Keys |-> 0]]
     /\ UNCHANGED <<subs, publishVars, fault, cut>>

Next ==
  /\ fault = "none"
  /\ \/ \E e \in Entities, t \in Topics, f \in Functions :
          Subscribe(e, t, f) \/ Unsubscribe(e, t, f)
     \/ \E t \in Topics : Publish(t)
     \/ \E s \in 1..Len(subs) : Visit(s)
     \/ NextComponent
     \/ CallbackReturns
     \/ PublishEnds
     \/ \E e \in Entities : SetActive(e) \/ DestroyEntity(e) \/ DeleteEntity(e)

Spec == Init /\ [][Next]_vars

(***************************************************************************)
(* Properties.                                                             *)
(***************************************************************************)

(* Type correctness of the subscriptions, the records and the publishes. *)
TypeOK ==
  /\ life \in [Entities -> {"active", "inactive", "destroyed", "freed"}]
  /\ subs \in Seq([entity : Entities, function : Functions])
  /\ Len(subs) <= MaxSubs
  /\ topics \in [Topics -> SUBSET (1..Len(subs))]
  /\ freed \in SUBSET (1..Len(subs))
  /\ tracked \in [Entities -> [Keys -> Nat]]
  /\ depth \in 0..MaxDepth
  /\ name \in [Depths -> Topics \cup {NoTopic}]
  /\ rest \in [Depths -> SUBSET (1..Len(subs))]
  /\ calling \in [Depths -> 0..Len(subs)]
  /\ fault \in {"none", "subscription", "function", "entity"}
  /\ since \in [Depths -> 0..Len(subs)]
  /\ cut \in BOOLEAN

(* An entity's own record (entity->subscriptions) and the topics' arrays,   *)
(* kept by different files, agree on how often each function is subscribed  *)
(* to each topic, whatever is subscribed twice or taken back too often.     *)
TrackingExact ==
  \A e \in Entities, t \in Topics, f \in Functions :
    tracked[e][<<t, f>>] = Cardinality(Matching(e, t, f))

(* A freed entity has no subscription left: _entity_cleanup took all of     *)
(* them back, so that no later publish can reach the entity.                *)
NoDanglingSubscriber ==
  \A t \in Topics : \A s \in topics[t] : life[subs[s].entity] # "freed"

(* No subscription leaks and none is listed after it was freed: each is     *)
(* either freed or in exactly one topic's array.                            *)
ListedOrFreed ==
  \A s \in 1..Len(subs) :
    /\ s \in freed <=> \A t \in Topics : s \notin topics[t]
    /\ \A t, u \in Topics : s \in topics[t] /\ s \in topics[u] => t = u

(* A publish calls only what was subscribed when it began, though callbacks *)
(* may subscribe to its topic: ese_pubsub_pub works on a copy.              *)
NewcomersWait == \A d \in 1..depth : calling[d] <= since[d]

(* Publishing reads freed memory in one case only: after a callback took a  *)
(* subscription back.  Callbacks that subscribe, publish, deactivate or     *)
(* destroy any entity are safe, nested publishes too, and the entity of a   *)
(* subscription that is still there is never freed.                         *)
SafeUnlessCut ==
  fault # "none" => fault \in {"subscription", "function"} /\ cut

(* Of a publish: what is left of its copy, and the function it runs, are as *)
(* old as the publish; frames that are not in use are empty.                *)
PublishOK ==
  /\ \A d \in 1..depth : rest[d] \subseteq 1..since[d] /\ calling[d] <= since[d]
  /\ \A d \in Depths : d > depth => calling[d] = 0

(* As long as no callback unsubscribes, nothing that a publish still needs  *)
(* is freed.                                                                *)
UncutAlive ==
  ~cut => \A d \in 1..depth : rest[d] \cap freed = {} /\ calling[d] \notin freed

(* The inductive invariant that PubSubProofs proves. *)
PubSubInv ==
  /\ TypeOK /\ TrackingExact /\ NoDanglingSubscriber /\ ListedOrFreed
  /\ PublishOK /\ UncutAlive /\ SafeUnlessCut

(* What the comment in ese_pubsub_pub says the copy is for: callbacks may   *)
(* modify the subscriptions.  The code does not keep it: the copy holds     *)
(* pointers, and a callback that unsubscribes frees what they point to.     *)
CallbacksMayUnsubscribe == fault # "subscription"
=============================================================================
