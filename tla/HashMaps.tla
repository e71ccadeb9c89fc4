------------------------------ MODULE HashMaps ------------------------------
(* The three hash maps (utility/hashmap.c, int_hashmap.c, grouped_hashmap.c): *)
(* chains of nodes in an array of buckets that doubles, and an iterator that *)
(* holds a bucket's number and a node.  They differ in what set does with the *)
(* value it replaces, and in what they can remove or clear.                  *)
EXTENDS Integers, FiniteSets, Sequences, SequencesExt, Functions, Filters

CONSTANTS
  MapKinds,     \* of {"hashmap", "int_hashmap", "grouped_hashmap"}
  Hashed,       \* key -> its hash
  GroupOf,      \* key -> the group it belongs to
  MapValues,    \* values that the caller owns at first
  FirstBuckets, \* INITIAL_CAPACITY: 16 in the code
  MaxBuckets    \* bound: how far the buckets double

ASSUME HashMapsAssumption ==
  /\ FirstBuckets \in Nat \ {0} /\ MaxBuckets \in Nat /\ FirstBuckets <= MaxBuckets
  /\ DOMAIN Hashed = DOMAIN GroupOf /\ \A k \in DOMAIN Hashed : Hashed[k] \in Nat
  /\ {"none", "freed"} \cap DOMAIN Hashed = {}

VARIABLES
  mapKind,
  buckets,  \* bucket -> its chain, a sequence of [key, value]
  entries,  \* the map's size field
  content,  \* what the calls so far say the map holds: key -> value
  fate,     \* value -> "caller", "map", "freed", "lost"
  cursor    \* the iterator, see NoCursor

hashMapVars == <<mapKind, buckets, entries, content, fate, cursor>>

MapKeys == DOMAIN Hashed

(* at is the key of the iterator's node, Freed if that node is gone.  The    *)
(* rest is history: from holds the keys that were there when it was made and *)
(* still are, given those it has returned, and astray whether the buckets    *)
(* changed under it or it went on from a freed node.                         *)
NoNodeAt == "none"
Freed == "freed"
NoCursor == [on |-> FALSE, bucket |-> 1, at |-> NoNodeAt, from |-> {}, given |-> <<>>, astray |-> FALSE]

-----------------------------------------------------------------------------
HashMapsInit ==
  /\ mapKind \in MapKinds
  /\ buckets = [b \in 1 .. FirstBuckets |-> <<>>]
  /\ entries = 0 /\ content = << >>
  /\ fate = [v \in MapValues |-> "caller"]
  /\ cursor = NoCursor

Bucket(table, k) == (Hashed[k] % Len(table)) + 1
Position(table, k) ==
  {i \in DOMAIN table[Bucket(table, k)] : table[Bucket(table, k)][i].key = k}
PlaceOf(table, k) == CHOOSE i \in Position(table, k) : \A j \in Position(table, k) : i <= j

(* The value a chain's first node of the key has.                            *)
HasKey(table, k) == Position(table, k) # {}
Got(table, k) == table[Bucket(table, k)][PlaceOf(table, k)].value

(* A node comes before what its bucket holds.                                *)
PutFirst(table, node) == [table EXCEPT ![Bucket(table, node.key)] = <<node>> \o @]

(* Mutant: the buckets double, and the nodes stay where they are. *)
WrongDoubled(table) == table \o [b \in 1 .. Len(table) |-> <<>>]

(* hashmap_resize: the nodes of one bucket after the other.                  *)
Doubled(table) ==
  FoldLeft(PutFirst, [b \in 1 .. 2 * Len(table) |-> <<>>], FlattenSeq(table))

TooFull == 4 * (entries + 1) > 3 * Len(buckets)

(* hashmap_set, int_hashmap_set, grouped_hashmap_set.  The buckets double    *)
(* before the key is looked for.  Only the grouped map frees the value that  *)
(* it replaces.                                                              *)
SetEntry(k, v) ==
  LET table == IF TooFull THEN Doubled(buckets) ELSE buckets
      b == Bucket(table, k) IN
    /\ fate[v] = "caller"
    /\ TooFull => 2 * Len(buckets) <= MaxBuckets
    /\ content' = [l \in DOMAIN content \cup {k} |-> IF l = k THEN v ELSE content[l]]
    /\ cursor' = [cursor EXCEPT !.astray = @ \/ (TooFull /\ cursor.on)]
    /\ IF HasKey(table, k)
       THEN /\ buckets' = [table EXCEPT ![b][PlaceOf(table, k)].value = v]
            /\ fate' = [fate EXCEPT ![v] = "map", ![Got(table, k)] =
                          IF mapKind = "grouped_hashmap" THEN "freed" ELSE "lost"]
            /\ UNCHANGED entries
       ELSE /\ buckets' = PutFirst(table, [key |-> k, value |-> v])
            /\ fate' = [fate EXCEPT ![v] = "map"]
            /\ entries' = entries + 1
    /\ UNCHANGED mapKind

(* The nodes of some keys are freed: an iterator that is at one of them      *)
(* keeps its address.                                                        *)
Left(gone) ==
  /\ buckets' = [b \in DOMAIN buckets |-> Sifted(buckets[b], {m \in ToSet(buckets[b]) : m.key \notin gone})]
  /\ content' = Restrict(content, DOMAIN content \ gone)
  /\ entries' = entries - Cardinality({k \in gone : HasKey(buckets, k)})
  /\ cursor' = [cursor EXCEPT !.at = IF @ \in gone THEN Freed ELSE @, !.from = @ \ gone]

(* hashmap_remove and its two sisters: the value goes back to the caller.    *)
RemoveEntry(k) ==
  /\ HasKey(buckets, k)
  /\ Left({k})
  /\ fate' = [fate EXCEPT ![Got(buckets, k)] = "caller"]
  /\ UNCHANGED mapKind

Frees(gone) ==
  fate' = [v \in MapValues |->
             IF \E k \in gone : HasKey(buckets, k) /\ Got(buckets, k) = v THEN "freed" ELSE fate[v]]

(* hashmap_clear, int_hashmap_clear; the buckets stay as many.               *)
ClearMap ==
  /\ mapKind # "grouped_hashmap" /\ entries > 0
  /\ Left(MapKeys) /\ Frees(MapKeys)
  /\ UNCHANGED mapKind

(* grouped_hashmap_remove_group.                                             *)
RemoveGroup(g) ==
  LET gone == {k \in MapKeys : GroupOf[k] = g} IN
    /\ mapKind = "grouped_hashmap" /\ \E k \in gone : HasKey(buckets, k)
    /\ Left(gone) /\ Frees(gone)
    /\ UNCHANGED mapKind

-----------------------------------------------------------------------------
(* hashmap_iter_create and the like, hashmap_iter_free.                      *)
BeginWalk ==
  /\ ~cursor.on
  /\ cursor' = [NoCursor EXCEPT !.on = TRUE, !.from = DOMAIN content]
  /\ UNCHANGED <<mapKind, buckets, entries, content, fate>>

EndWalk ==
  /\ cursor.on
  /\ cursor' = NoCursor
  /\ UNCHANGED <<mapKind, buckets, entries, content, fate>>

(* The node after the iterator's in its chain, and the first bucket at or    *)
(* after its number that holds any; Len(buckets) + 1 for none.               *)
Behind ==
  IF cursor.at = NoNodeAt THEN <<>>
  ELSE LET b == Bucket(buckets, cursor.at)
       IN SubSeq(buckets[b], PlaceOf(buckets, cursor.at) + 1, Len(buckets[b]))
NextFull ==
  CHOOSE b \in cursor.bucket .. Len(buckets) + 1 :
    /\ b <= Len(buckets) => buckets[b] # <<>>
    /\ \A c \in cursor.bucket .. b - 1 : buckets[c] = <<>>

(* hashmap_iter_next while the iterator's node is one of the map's.          *)
CursorSteps ==
  /\ cursor.on /\ cursor.at # Freed
  /\ LET step(node) == [cursor EXCEPT !.at = node.key, !.given = Append(@, node.key)] IN
       IF Behind # <<>> THEN cursor' = step(Behind[1])
       ELSE /\ NextFull <= Len(buckets)
            /\ cursor' = [step(buckets[NextFull][1]) EXCEPT !.bucket = NextFull + 1]
  /\ UNCHANGED <<mapKind, buckets, entries, content, fate>>

(* It answers 0.                                                             *)
CursorEnds ==
  /\ cursor.on /\ cursor.at # Freed
  /\ Behind = <<>> /\ NextFull > Len(buckets)
  /\ cursor' = [cursor EXCEPT !.at = NoNodeAt, !.bucket = Len(buckets) + 1]
  /\ UNCHANGED <<mapKind, buckets, entries, content, fate>>

(* The next pointer of a freed node is read: it may still lead on, to a node *)
(* of the map or to another freed one, or be NULL, and end the bucket or     *)
(* the walk.                                                                 *)
Stray(k, b) == [cursor EXCEPT !.at = k, !.bucket = b, !.given = <<>>, !.astray = TRUE]

CursorStepsFreed ==
  /\ cursor.on /\ cursor.at = Freed
  /\ \E k \in DOMAIN content \cup {Freed, NoNodeAt}, b \in cursor.bucket .. Len(buckets) + 1 :
       /\ k = NoNodeAt => b = Len(buckets) + 1
       /\ cursor' = Stray(k, b)
  /\ UNCHANGED <<mapKind, buckets, entries, content, fate>>

HashMapsNext ==
  \/ \E k \in MapKeys : RemoveEntry(k) \/ \E v \in MapValues : SetEntry(k, v)
  \/ ClearMap \/ \E g \in Range(GroupOf) : RemoveGroup(g)
  \/ BeginWalk \/ CursorSteps \/ CursorStepsFreed \/ CursorEnds \/ EndWalk

-----------------------------------------------------------------------------
HashMapsTypeOK ==
  /\ mapKind \in MapKinds /\ entries \in Nat
  /\ DOMAIN buckets \in {1 .. n : n \in FirstBuckets .. MaxBuckets}
  /\ \A b \in DOMAIN buckets : \A i \in DOMAIN buckets[b] :
       buckets[b][i] \in [key : MapKeys, value : MapValues]
  /\ fate \in [MapValues -> {"caller", "map", "freed", "lost"}]
  /\ cursor.at \in MapKeys \cup {NoNodeAt, Freed} /\ cursor.from \subseteq MapKeys

(* Through every doubling and removal the buckets hold what the calls say,   *)
(* each key once, in the bucket where it is looked for, and are counted.     *)
MapIsFunction ==
  LET nodes == FlattenSeq(buckets) IN
    /\ Len(nodes) = entries /\ Cardinality(DOMAIN content) = entries
    /\ \A k \in DOMAIN content : HasKey(buckets, k) /\ Got(buckets, k) = content[k]

(* Each value has one owner; the maps free those they still hold, and only   *)
(* those without groups lose one, when another takes its key.                *)
OneOwnerEach ==
  /\ {v \in MapValues : fate[v] = "map"} = Range(content)
  /\ (\E v \in MapValues : fate[v] = "lost") => mapKind # "grouped_hashmap"
  /\ IsInjective(content)

(* A walk under which the buckets do not double and which does not go on     *)
(* from a node that was removed under it returns no key twice, and at its    *)
(* end every key that was there all the time, although others came and went. *)
WalkComplete ==
  (cursor.on /\ ~cursor.astray) =>
    /\ \A k \in cursor.from : Cardinality({i \in DOMAIN cursor.given : cursor.given[i] = k}) <= 1
    /\ cursor.bucket > Len(buckets) /\ cursor.at = NoNodeAt => cursor.from \subseteq ToSet(cursor.given)
=============================================================================
