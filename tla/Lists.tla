------------------------------- MODULE Lists -------------------------------
(* The doubly linked list (utility/double_linked_list.c) with its iterator,  *)
(* node by node, and the growing array (utility/array.c).  The engine walks  *)
(* its entities with the one, and keeps pairs and hits in the other.         *)
EXTENDS Integers, FiniteSets, Sequences, SequencesExt, Filters

CONSTANTS
  ListNodes,  \* addresses of list nodes; a freed one is used again
  FirstSlots, \* an array's initial_capacity, which may be 0
  MaxSlots,   \* bound: how far an array grows
  Elements    \* what arrays hold, numbers: their order is that of array_sort

ASSUME ListsAssumption ==
  /\ {0} \cap ListNodes = {} /\ Elements \subseteq Nat \ {0}
  /\ {FirstSlots, MaxSlots} \subseteq Nat /\ FirstSlots <= MaxSlots

VARIABLES
  chain,   \* [head, tail, size] of the list, 0 for NULL
  links,   \* address -> [prev, next] of the nodes that are in the list
  sequence, \* what the calls so far say the list holds, first to last
  walker,  \* the iterator, see NoWalker
  slots,   \* the array's elements up to its capacity, 0 for NULL
  filled,  \* its size
  released, \* elements that its free_fn got
  entrusted \* elements of the array that have been given to it, and not popped

listVars == <<chain, links, sequence, walker>>
arrayVars == <<slots, filled, released, entrusted>>
listsVars == <<listVars, arrayVars>>

(* current is the node to be returned next; astray if that is freed.  due    *)
(* are the nodes it has to return yet, in order.                             *)
NoWalker == [on |-> FALSE, current |-> 0, astray |-> FALSE, due |-> <<>>]

-----------------------------------------------------------------------------
ListsInit ==
  /\ chain = [head |-> 0, tail |-> 0, size |-> 0] /\ links = << >> /\ sequence = <<>>
  /\ walker = NoWalker
  /\ slots = [i \in 1 .. FirstSlots |-> 0] /\ filled = 0 /\ released = {} /\ entrusted = {}

Linked == DOMAIN links

(* dlist_append: at the tail.  An iterator that has come to the end stays    *)
(* there; one that has not will return the node too.                         *)
AppendNode(n) ==
  /\ n \notin Linked
  /\ links' = [m \in Linked \cup {n} |->
                 CASE m = n -> [prev |-> chain.tail, next |-> 0]
                   [] m = chain.tail -> [links[m] EXCEPT !.next = n]
                   [] OTHER -> links[m]]
  /\ chain' = [head |-> IF chain.tail = 0 THEN n ELSE chain.head, tail |-> n, size |-> chain.size + 1]
  /\ sequence' = Append(sequence, n)
  /\ walker' = IF walker.due # <<>> THEN [walker EXCEPT !.due = Append(@, n)] ELSE walker
  /\ UNCHANGED arrayVars

(* The iterator keeps the address of the node it stands on.                  *)
WithoutNode(n) ==
  /\ sequence' = Sifted(sequence, ListNodes \ {n})
  /\ walker' = [walker EXCEPT !.due = Sifted(@, ListNodes \ {n}),
                              !.astray = @ \/ (walker.on /\ walker.current = n)]

(* _dlist_remove, as dlist_remove_by_value and dlist_remove_by call it.      *)
RemoveNode(n) ==
  /\ n \in Linked
  /\ LET before == links[n].prev
         behind == links[n].next IN
       /\ links' = [m \in Linked \ {n} |->
                      [prev |-> IF m = behind THEN before ELSE links[m].prev,
                       next |-> IF m = before THEN behind ELSE links[m].next]]
       /\ chain' = [head |-> IF before = 0 THEN behind ELSE chain.head,
                    tail |-> IF behind = 0 THEN before ELSE chain.tail,
                    size |-> chain.size - 1]
  /\ WithoutNode(n)
  /\ UNCHANGED arrayVars

(* dlist_pop_front, dlist_pop_back: each cuts one link.                      *)
PopFront ==
  /\ chain.head # 0
  /\ LET second == links[chain.head].next IN
       /\ links' = [m \in Linked \ {chain.head} |-> IF m = second THEN [links[m] EXCEPT !.prev = 0] ELSE links[m]]
       /\ chain' = [head |-> second, tail |-> IF second = 0 THEN 0 ELSE chain.tail, size |-> chain.size - 1]
  /\ WithoutNode(chain.head)
  /\ UNCHANGED arrayVars

PopBack ==
  /\ chain.tail # 0
  /\ LET last == links[chain.tail].prev IN
       /\ links' = [m \in Linked \ {chain.tail} |-> IF m = last THEN [links[m] EXCEPT !.next = 0] ELSE links[m]]
       /\ chain' = [head |-> IF last = 0 THEN 0 ELSE chain.head, tail |-> last, size |-> chain.size - 1]
  /\ WithoutNode(chain.tail)
  /\ UNCHANGED arrayVars

(* dlist_iter_create and dlist_iter_free; a copy of an iterator stands where *)
(* it does.                                                                  *)
BeginListWalk ==
  /\ ~walker.on
  /\ walker' = [on |-> TRUE, current |-> chain.head, astray |-> FALSE, due |-> sequence]
  /\ UNCHANGED <<chain, links, sequence, arrayVars>>

EndListWalk ==
  /\ walker.on
  /\ walker' = NoWalker
  /\ UNCHANGED <<chain, links, sequence, arrayVars>>

(* dlist_iter_next: the iterator has gone on before the caller sees the      *)
(* value, so the caller may remove that node, but not the one after it.      *)
StepListWalk ==
  /\ walker.on /\ ~walker.astray /\ walker.current # 0
  /\ walker' = [walker EXCEPT !.current = links[walker.current].next, !.due = Tail(@)]
  /\ UNCHANGED <<chain, links, sequence, arrayVars>>

-----------------------------------------------------------------------------
(* array_push and array_insert: the capacity doubles, from 0 to 1, and the   *)
(* elements behind the place move up, the last one first.                    *)
Grown ==
  IF filled < Len(slots) THEN slots
  ELSE slots \o [i \in 1 .. (IF slots = <<>> THEN 1 ELSE Len(slots)) |-> 0]

InsertElement(at, e) ==
  /\ e \notin entrusted \cup released /\ at \in 1 .. filled + 1
  /\ Len(Grown) <= MaxSlots
  /\ slots' = [i \in DOMAIN Grown |->
                 CASE i = at -> e
                   [] i > at /\ i <= filled + 1 -> Grown[i - 1]
                   [] OTHER -> Grown[i]]
  /\ filled' = filled + 1
  /\ entrusted' = entrusted \cup {e}
  /\ UNCHANGED <<released, listVars>>

(* array_remove_at and array_set free what they replace, array_pop does not. *)
RemoveElement(at) ==
  /\ at \in 1 .. filled
  /\ slots' = [i \in DOMAIN slots |->
                 CASE i = filled -> 0
                   [] i >= at /\ i < filled -> slots[i + 1]
                   [] OTHER -> slots[i]]
  /\ filled' = filled - 1
  /\ released' = released \cup {slots[at]} /\ entrusted' = entrusted \ {slots[at]}
  /\ UNCHANGED listVars

PutElement(at, e) ==
  /\ at \in 1 .. filled /\ e \notin entrusted \cup released
  /\ slots' = [slots EXCEPT ![at] = e]
  /\ released' = released \cup {slots[at]} /\ entrusted' = (entrusted \ {slots[at]}) \cup {e}
  /\ UNCHANGED <<filled, listVars>>

PopElement ==
  /\ filled > 0
  /\ slots' = [slots EXCEPT ![filled] = 0]
  /\ filled' = filled - 1
  /\ entrusted' = entrusted \ {slots[filled]}
  /\ UNCHANGED <<released, listVars>>

(* array_clear keeps the capacity.                                           *)
ClearArray ==
  /\ filled > 0
  /\ slots' = [i \in DOMAIN slots |-> 0] /\ filled' = 0
  /\ released' = released \cup entrusted /\ entrusted' = {}
  /\ UNCHANGED listVars

(* array_sort: pass i compares each of the first filled - i neighbours.      *)
Swapped(s, j) == IF s[j] > s[j + 1] THEN [s EXCEPT ![j] = s[j + 1], ![j + 1] = s[j]] ELSE s
Pass(s, i) == FoldLeft(Swapped, s, [j \in 1 .. filled - i |-> j])

BubbleSorted == FoldLeft(Pass, slots, [i \in 1 .. filled - 1 |-> i])

SortArray ==
  /\ filled > 1
  /\ slots' = BubbleSorted
  /\ UNCHANGED <<filled, released, entrusted, listVars>>

ListsNext ==
  \/ \E n \in ListNodes : AppendNode(n) \/ RemoveNode(n)
  \/ PopFront \/ PopBack
  \/ BeginListWalk \/ StepListWalk \/ EndListWalk
  \/ \E at \in 1 .. MaxSlots : RemoveElement(at) \/ \E e \in Elements : InsertElement(at, e) \/ PutElement(at, e)
  \/ PopElement \/ ClearArray \/ SortArray

-----------------------------------------------------------------------------
ListsTypeOK ==
  /\ Linked \subseteq ListNodes /\ chain.size \in Nat
  /\ {chain.head, chain.tail, walker.current} \subseteq ListNodes \cup {0}
  /\ filled \in 0 .. Len(slots) /\ Len(slots) <= MaxSlots
  /\ released \cup entrusted \subseteq Elements

(* The links lead through exactly what the calls say, in both directions,    *)
(* and head, tail and size agree with them.                                  *)
LinksAgree ==
  LET n == Len(sequence) IN
    /\ Linked = ToSet(sequence) /\ chain.size = n
    /\ chain.head = (IF n = 0 THEN 0 ELSE sequence[1])
    /\ chain.tail = (IF n = 0 THEN 0 ELSE sequence[n])
    /\ \A i \in 1 .. n : links[sequence[i]] = [prev |-> IF i = 1 THEN 0 ELSE sequence[i - 1],
                                           next |-> IF i = n THEN 0 ELSE sequence[i + 1]]

(* A walk returns every node that was in the list when it came by, once and  *)
(* in order: those appended on the way as well, except after the last.       *)
WalkInOrder ==
  (walker.on /\ ~walker.astray) =>
    /\ walker.current = (IF walker.due = <<>> THEN 0 ELSE Head(walker.due))
    /\ IsSuffix(walker.due, sequence)

(* The array holds what it was given and neither freed nor gave back, and    *)
(* nothing behind its size.                                                  *)
SlotsExact ==
  /\ {slots[i] : i \in 1 .. filled} = entrusted /\ Cardinality(entrusted) = filled
  /\ \A i \in filled + 1 .. Len(slots) : slots[i] = 0
  /\ entrusted \cap released = {}

(* Sorting orders whatever the array holds, and loses none of it.            *)
SortSorts ==
  filled > 1 => /\ \A i \in 1 .. filled - 1 : BubbleSorted[i] <= BubbleSorted[i + 1]
                /\ {BubbleSorted[i] : i \in 1 .. filled} = entrusted
=============================================================================
