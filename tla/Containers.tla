-------------------------- MODULE Containers --------------------------
(* The containers that the shell and the event loop are built on: hash.c, *)
(* vector.c and linklist.c of libvui.  Every operation is an operator on  *)
(* the structure the code keeps; next to it runs what it should amount to *)
(* (a set, a map, a sequence), and the properties compare the two.        *)
EXTENDS Integers, Sequences, FiniteSets, TLC

CONSTANTS Data,     \* what is stored: numbers, compared by their value
          HashKey,  \* Data -> Nat, the hash function
          MaxSize,  \* hash->max_size
          MaxSlot,  \* the highest slot of a vector that is used
          Nodes,    \* the listnodes there can be, numbers
          Nil

ASSUME ContainersAssumption == /\ Data \subseteq Nat \ {0} /\ IsFiniteSet(Data) /\ Nil \notin Data
                               /\ HashKey \in [Data -> Nat] /\ MaxSlot \in Nat
                               /\ Nodes \subseteq Nat /\ IsFiniteSet(Nodes) /\ Nil \notin Nodes

-----------------------------------------------------------------------------
(* hash.c.  A chain is a sequence of buckets; only the len of its first   *)
(* one is kept up.                                                         *)

hash_create_size(size) ==
  [size |-> size, index |-> [i \in 0..size - 1 |-> <<>>], count |-> 0, empty |-> size]

LenOf(chain) == IF chain = <<>> THEN 0 ELSE chain[1].len

\* A bucket becomes the first of its chain; the old first one's len is cleared.
Pushed(chain, b) ==
  <<[b EXCEPT !.len = LenOf(chain) + 1]>>
  \o [i \in 1..Len(chain) |-> IF i = 1 THEN [chain[1] EXCEPT !.len = 0] ELSE chain[i]]

PushInto(h, b) ==
  LET i == b.key % h.size IN
  [h EXCEPT !.index[i] = Pushed(@, b), !.empty = IF h.index[i] = <<>> THEN @ - 1 ELSE @]

\* hash_expand: the chains are emptied one after the other into a table of
\* twice the size.
AllBuckets(h) ==
  LET upto[i \in 0..h.size] == IF i = 0 THEN <<>> ELSE upto[i - 1] \o h.index[i - 1] IN upto[h.size]

hash_expand(h) ==
  LET bs == AllBuckets(h)
      fresh == [hash_create_size(2 * h.size) EXCEPT !.count = h.count]
      moved[k \in 0..Len(bs)] == IF k = 0 THEN fresh ELSE PushInto(moved[k - 1], bs[k])
  IN IF MaxSize # 0 /\ 2 * h.size > MaxSize THEN h ELSE moved[Len(bs)]

\* hash_get without an allocation function, and hash_lookup.
Chain(h, d) == h.index[HashKey[d] % h.size]
Hits(h, d) == {k \in 1..Len(Chain(h, d)) : Chain(h, d)[k].key = HashKey[d] /\ Chain(h, d)[k].data = d}
hash_lookup(h, d) == h.count # 0 /\ Hits(h, d) # {}

\* hash_get with hash_alloc_intern.
hash_get(h, d) ==
  LET room == IF h.count + 1 > h.size THEN hash_expand(h) ELSE h IN
  IF Hits(h, d) # {} THEN h
  ELSE [PushInto(room, [key |-> HashKey[d], data |-> d, len |-> 0]) EXCEPT !.count = @ + 1]

Cut(s, k) == SubSeq(s, 1, k - 1) \o SubSeq(s, k + 1, Len(s))

\* hash_release.
hash_release(h, d) ==
  LET i == HashKey[d] % h.size
      rest == Cut(h.index[i], CHOOSE k \in Hits(h, d) : TRUE)
  IN IF Hits(h, d) = {} THEN h
     ELSE [h EXCEPT !.count = @ - 1,
                    !.index[i] = IF rest = <<>> THEN rest ELSE [rest EXCEPT ![1].len = LenOf(h.index[i]) - 1],
                    !.empty = IF rest = <<>> THEN @ + 1 ELSE @]

hash_clean(h) == hash_create_size(h.size)

-----------------------------------------------------------------------------
(* vector.c.  index has one entry for each allocated slot.                 *)

vector_init(size) == [index |-> [i \in 0..(IF size = 0 THEN 0 ELSE size - 1) |-> Nil], active |-> 0]
Alloced(v) == Cardinality(DOMAIN v.index)

RECURSIVE vector_ensure(_, _)
vector_ensure(v, n) ==
  IF Alloced(v) > n THEN v
  ELSE vector_ensure([v EXCEPT !.index = [i \in 0..2 * Alloced(v) - 1 |->
                                            IF i < Alloced(v) THEN v.index[i] ELSE Nil]], n)

vector_set_index(v, i, x) ==
  [vector_ensure(v, i) EXCEPT !.index[i] = x, !.active = IF @ <= i THEN i + 1 ELSE @]

vector_empty_slot(v) ==
  CHOOSE i \in 0..v.active : /\ i = v.active \/ v.index[i] = Nil
                             /\ \A k \in 0..i - 1 : v.index[k] # Nil
vector_set(v, x) == vector_set_index(v, vector_empty_slot(v), x)

vector_lookup(v, i) == IF i >= v.active THEN Nil ELSE v.index[i]

\* The loops that let active fall past empty slots, from slot i down.
Fallen(v, i) ==
  LET full == {k \in 1..i : v.index[k - 1] # Nil}
  IN IF full = {} THEN 0 ELSE CHOOSE k \in full : \A j \in full : j <= k

\* vector_unset: slot 0 is only counted out when it was the last one.
vector_unset(v, i) ==
  LET w == [v EXCEPT !.index[i] = Nil] IN
  IF i >= Alloced(v) THEN v
  ELSE IF i + 1 = v.active THEN [w EXCEPT !.active = Fallen(w, i)] ELSE w

\* vector_unset_value: the first slot with the value.
vector_unset_value(v, x) ==
  LET at == {i \in 0..v.active - 1 : v.index[i] = x}
  IN IF at = {} THEN v ELSE vector_unset(v, CHOOSE i \in at : \A k \in at : i <= k)

\* vector_remove: the slots above move down.
vector_remove(v, ix) ==
  IF ix >= v.active THEN v
  ELSE [v EXCEPT !.active = @ - 1,
                 !.index = [i \in DOMAIN @ |-> IF i \in ix..v.active - 2 THEN @[i + 1]
                                               ELSE IF i = v.active - 1 THEN Nil ELSE @[i]]]

RECURSIVE CompactFrom(_, _)
CompactFrom(v, i) ==
  IF i >= v.active THEN v
  ELSE IF v.index[i] = Nil THEN CompactFrom(vector_remove(v, i), i) ELSE CompactFrom(v, i + 1)
vector_compact(v) == CompactFrom(v, 0)

-----------------------------------------------------------------------------
(* linklist.c.  at holds the listnodes, at[n].data = Nil when n is not     *)
(* allocated; listnode_new takes one of those.  fault is raised by a call   *)
(* that goes through a null pointer, which ends the program.                *)

list_new == [head |-> Nil, tail |-> Nil, count |-> 0, fault |-> FALSE,
             at |-> [n \in Nodes |-> [data |-> Nil, next |-> Nil, prev |-> Nil]]]

listnode_new(l) == CHOOSE n \in Nodes : l.at[n].data = Nil /\ \A m \in Nodes : l.at[m].data = Nil => n <= m

\* The places that lead to a node from the left and from the right.
PointRight(l, p, n) == IF p = Nil THEN [l EXCEPT !.head = n] ELSE [l EXCEPT !.at[p].next = n]
PointLeft(l, n, p) == IF n = Nil THEN [l EXCEPT !.tail = p] ELSE [l EXCEPT !.at[n].prev = p]

\* Node x with value val, linked between p and n.
Between(l, x, p, n, val) ==
  [PointLeft(PointRight(l, p, x), n, x) EXCEPT
     !.at[x] = [data |-> val, next |-> n, prev |-> p], !.count = @ + 1]

\* LISTNODE_ATTACH: what has a head is taken to have a tail.
Attached(l, x, val) ==
  IF l.head # Nil /\ l.tail = Nil THEN [l EXCEPT !.fault = TRUE] ELSE Between(l, x, l.tail, Nil, val)

listnode_add(l, val) == Attached(l, listnode_new(l), val)

\* listnode_add_head: the tail of an empty list stays Nil.
listnode_add_head(l, val) ==
  [Between(l, listnode_new(l), Nil, l.head, val) EXCEPT !.tail = l.tail]

Previous(l, n) == IF n = Nil THEN l.tail ELSE l.at[n].prev
Following(l, p) == IF p = Nil THEN l.head ELSE l.at[p].next
listnode_add_after(l, pp, val) == Between(l, listnode_new(l), pp, Following(l, pp), val)
listnode_add_before(l, pp, val) == Between(l, listnode_new(l), Previous(l, pp), pp, val)

\* The nodes from n on, in the order of next.
RECURSIVE From(_, _)
From(l, n) == IF n = Nil THEN <<>> ELSE <<n>> \o From(l, l.at[n].next)
RECURSIVE Back(_, _)
Back(l, n) == IF n = Nil THEN <<>> ELSE Append(Back(l, l.at[n].prev), n)

Values(l) == LET ns == From(l, l.head) IN [k \in 1..Len(ns) |-> l.at[ns[k]].data]

\* The first node whose data is greater than val (or not less), Nil if none.
FirstWith(l, P(_)) ==
  LET ns == From(l, l.head)
      hit == {k \in 1..Len(ns) : P(l.at[ns[k]].data)}
  IN IF hit = {} THEN Nil ELSE ns[CHOOSE k \in hit : \A j \in hit : k <= j]

listnode_add_sort(l, val) ==
  LET Hit(d) == d > val IN listnode_add_before(l, FirstWith(l, Hit), val)

listnode_lookup(l, val) == LET Hit(d) == d = val IN FirstWith(l, Hit)

\* listnode_add_sort_nodup: an equal value met before a greater one ends it.
listnode_add_sort_nodup(l, val) ==
  LET Hit(d) == d >= val
      n == FirstWith(l, Hit)
  IN IF n = Nil THEN listnode_add(l, val)
     ELSE IF l.at[n].data = val THEN l ELSE listnode_add_before(l, n, val)

\* LISTNODE_DETACH.
Detached(l, n) ==
  [PointLeft(PointRight(l, l.at[n].prev, l.at[n].next), l.at[n].next, l.at[n].prev) EXCEPT !.count = @ - 1]

list_delete_node(l, n) == [Detached(l, n) EXCEPT !.at[n] = list_new.at[n]]

listnode_move_to_tail(l, n) ==
  Attached(Detached(l, n), n, l.at[n].data)

listnode_delete(l, val) ==
  LET n == listnode_lookup(l, val) IN IF n = Nil THEN l ELSE list_delete_node(l, n)

\* list_delete_all_node: what can be reached from the head is freed.
list_delete_all_node(l) ==
  LET ns == From(l, l.head)
      freed == {ns[k] : k \in 1..Len(ns)}
  IN [l EXCEPT !.head = Nil, !.tail = Nil, !.count = 0,
               !.at = [n \in Nodes |-> IF n \in freed THEN list_new.at[n] ELSE @[n]]]

\* list_sort: all nodes go, and the values come back in order.  A count greater
\* than the number of nodes would sort and add null pointers.
list_sort(l) ==
  LET ns == From(l, l.head)
      Sorted == CHOOSE p \in [1..Len(ns) -> 1..Len(ns)] :
                  /\ \A i, j \in 1..Len(ns) : i # j => p[i] # p[j]
                  /\ \A i \in 1..Len(ns) - 1 : l.at[ns[p[i]]].data <= l.at[ns[p[i + 1]]].data
      added[k \in 0..Len(ns)] ==
        IF k = 0 THEN list_delete_all_node(l) ELSE listnode_add(added[k - 1], l.at[ns[Sorted[k]]].data)
  IN IF l.count > Len(ns) THEN [l EXCEPT !.fault = TRUE] ELSE added[Len(ns)]

\* list_filter_out_nodes: the next node is taken before one is deleted.
list_filter_out_nodes(l, cond(_)) ==
  LET ns == From(l, l.head)
      left[k \in 0..Len(ns)] ==
        IF k = 0 THEN l
        ELSE IF cond(l.at[ns[k]].data) THEN list_delete_node(left[k - 1], ns[k]) ELSE left[k - 1]
  IN left[Len(ns)]

list_add_list(l, add) ==
  LET ns == From(add, add.head)
      grown[k \in 0..Len(ns)] == IF k = 0 THEN l ELSE listnode_add(grown[k - 1], add.at[ns[k]].data)
  IN grown[Len(ns)]

-----------------------------------------------------------------------------
(* One of each, with what it should amount to: hashed is the set of what   *)
(* the table holds, slots what each slot of the vector holds, listed the   *)
(* values of the list in order.  torn is history: the list was asked to    *)
(* append something while it had a head and no tail.                       *)

VARIABLES hash, hashed, vec, slots, list, listed, torn
containerVars == <<hash, hashed, vec, slots, list, listed, torn>>

ContainersInit ==
  /\ hash = hash_create_size(1) /\ hashed = {}
  /\ vec = vector_init(0) /\ slots = [i \in 0..MaxSlot |-> Nil]
  /\ list = list_new /\ listed = <<>> /\ torn = FALSE

HashGet(d) == hash' = hash_get(hash, d) /\ hashed' = hashed \union {d}
HashRelease(d) == hash' = hash_release(hash, d) /\ hashed' = hashed \ {d}
HashClean == hash' = hash_clean(hash) /\ hashed' = {}

HashNext ==
  /\ \/ \E d \in Data : HashGet(d) \/ HashRelease(d)
     \/ HashClean
  /\ UNCHANGED <<vec, slots, list, listed, torn>>

Free == {i \in 0..MaxSlot : slots[i] = Nil}
Lowest(S) == CHOOSE i \in S : \A j \in S : i <= j
Shifted(f, i) == [k \in DOMAIN f |-> IF k < i THEN f[k] ELSE IF k < MaxSlot THEN f[k + 1] ELSE Nil]
Packed(f) ==
  LET full == {i \in 0..MaxSlot : f[i] # Nil}
  IN [k \in DOMAIN f |-> IF k >= Cardinality(full) THEN Nil
                         ELSE f[CHOOSE i \in full : Cardinality({j \in full : j < i}) = k]]

VectorSet(d) == /\ Free # {}
                /\ vec' = vector_set(vec, d) /\ slots' = [slots EXCEPT ![Lowest(Free)] = d]
VectorSetIndex(i, d) == vec' = vector_set_index(vec, i, d) /\ slots' = [slots EXCEPT ![i] = d]
VectorUnset(i) == vec' = vector_unset(vec, i) /\ slots' = [slots EXCEPT ![i] = Nil]
VectorUnsetValue(d) ==
  LET at == {i \in 0..MaxSlot : slots[i] = d} IN
  /\ vec' = vector_unset_value(vec, d)
  /\ slots' = IF at = {} THEN slots ELSE [slots EXCEPT ![Lowest(at)] = Nil]
VectorRemove(i) == vec' = vector_remove(vec, i) /\ slots' = Shifted(slots, i)
VectorCompact == vec' = vector_compact(vec) /\ slots' = Packed(slots)

VectorNext ==
  /\ \/ \E d \in Data : VectorSet(d) \/ VectorUnsetValue(d)
     \/ \E i \in 0..MaxSlot : VectorUnset(i) \/ VectorRemove(i) \/ \E d \in Data : VectorSetIndex(i, d)
     \/ VectorCompact
  /\ UNCHANGED <<hash, hashed, list, listed, torn>>

\* A head without a tail is what listnode_add_head leaves of an empty list.
Whole == list.head # Nil => list.tail # Nil
Room(n) == Cardinality({x \in Nodes : list.at[x].data = Nil}) >= n
NodeAt(k) == From(list, list.head)[k]
Insert(s, k, d) == SubSeq(s, 1, k) \o <<d>> \o SubSeq(s, k + 1, Len(s))   \* d after the k-th
NotAbove(d) == Cardinality({k \in 1..Len(listed) : \A j \in 1..k : listed[j] <= d})

\* A call that makes l of the list and should amount to s; appends says whether it
\* takes the tail for the last node.  Once torn, listed is what can be read.
ListCall(l, s, appends) ==
  /\ list' = l
  /\ torn' = (torn \/ (~Whole /\ appends))
  /\ listed' = IF torn' THEN Values(l) ELSE s

ListAdd(d) == Room(1) /\ ListCall(listnode_add(list, d), Append(listed, d), TRUE)
ListAddHead(d) == Room(1) /\ ListCall(listnode_add_head(list, d), <<d>> \o listed, FALSE)
ListAddSort(d) ==
  Room(1) /\ ListCall(listnode_add_sort(list, d), Insert(listed, NotAbove(d), d), NotAbove(d) = Len(listed))
ListAddSortNodup(d) ==
  LET dup == \E k \in 1..NotAbove(d) : listed[k] = d IN
  /\ Room(1)
  /\ ListCall(listnode_add_sort_nodup(list, d), IF dup THEN listed ELSE Insert(listed, NotAbove(d), d),
              ~dup /\ NotAbove(d) = Len(listed))
ListAddAfter(k, d) ==
  Room(1) /\ ListCall(listnode_add_after(list, IF k = 0 THEN Nil ELSE NodeAt(k), d), Insert(listed, k, d), FALSE)
ListAddBefore(k, d) ==
  /\ Room(1)
  /\ ListCall(listnode_add_before(list, IF k = Len(listed) THEN Nil ELSE NodeAt(k + 1), d), Insert(listed, k, d),
              k = Len(listed))
ListMoveToTail(k) ==   \* detaching the last node sets the tail
  ListCall(listnode_move_to_tail(list, NodeAt(k)), Append(Cut(listed, k), listed[k]), k < Len(listed))
ListDelete(d) ==
  LET at == {k \in 1..Len(listed) : listed[k] = d} IN
  ListCall(listnode_delete(list, d), IF at = {} THEN listed ELSE Cut(listed, Lowest(at)), FALSE)
ListSort == ListCall(list_sort(list), SortSeq(listed, <), FALSE)
ListFilter(d) ==
  LET Is(x) == x = d IN
  ListCall(list_filter_out_nodes(list, Is), SelectSeq(listed, LAMBDA x : x # d), FALSE)
ListDeleteAll == ListCall(list_delete_all_node(list), <<>>, FALSE)

\* list_add_list with another list, made of two values.
ListAddList(d, e) ==
  /\ Room(2)
  /\ ListCall(list_add_list(list, listnode_add(listnode_add(list_new, d), e)), listed \o <<d, e>>, TRUE)

ListNext ==
  /\ ~list.fault
  /\ \/ \E d \in Data : \/ ListAdd(d) \/ ListAddHead(d) \/ ListAddSort(d) \/ ListAddSortNodup(d)
                         \/ ListDelete(d) \/ ListFilter(d)
                         \/ \E e \in Data : ListAddList(d, e)
                         \/ \E k \in 0..Len(listed) : ListAddAfter(k, d) \/ ListAddBefore(k, d)
     \/ \E k \in 1..Len(listed) : ListMoveToTail(k)
     \/ ListSort \/ ListDeleteAll
  /\ UNCHANGED <<hash, hashed, vec, slots>>

-----------------------------------------------------------------------------
\* The hash table is the set of what was put in and not released, whatever
\* growth came between: lookups find exactly that, every chain holds only what
\* hashes to it, and the length at the head of each chain and the number of
\* empty ones, which hash_get and hash_release keep by steps, are right.
HashIsSet ==
  /\ \A d \in Data : hash_lookup(hash, d) <=> d \in hashed
  /\ hash.count = Cardinality(hashed) /\ hash.count = Len(AllBuckets(hash))
  /\ \A i \in 0..hash.size - 1 : /\ LenOf(hash.index[i]) = Len(hash.index[i])
                                /\ \A k \in 1..Len(hash.index[i]) : hash.index[i][k].key % hash.size = i
  /\ hash.empty = Cardinality({i \in 0..hash.size - 1 : hash.index[i] = <<>>})

\* The vector gives back what its slots were set to, after any removals, shifts
\* and growth, and nothing is left in the slots beyond active, where
\* vector_lookup_ensure and a later vector_set_index would bring it back.
VectorIsMap ==
  /\ \A i \in 0..MaxSlot : vector_lookup(vec, i) = slots[i]
  /\ \A i \in DOMAIN vec.index : i >= vec.active => vec.index[i] = Nil
  /\ vec.active <= Alloced(vec)

\* Until the list is asked to append something while it has a head and no tail,
\* no call goes through a null pointer, the list read forwards is what was added,
\* its count is right, and read backwards it is the same list, or nothing while
\* the tail is missing after listnode_add_head on an empty list (linklist.c; what
\* sets the tail again is listnode_add_after, and deleting the last node).
ListIsSequence ==
  ~torn => /\ ~list.fault
           /\ Values(list) = listed
           /\ list.count = Len(listed)
           /\ Back(list, list.tail) = IF Whole THEN From(list, list.head) ELSE <<>>

\* What linklist.h says of struct list, "invariant: count is the number of
\* listnodes in the list", after any calls.  It fails: listnode_add_head on an
\* empty list leaves the tail unset, and listnode_add_sort then takes the list for
\* empty.
CountIsNodes == list.count = Len(Values(list))
=============================================================================
