--------------------------- MODULE Typesafe ---------------------------
(* The typed containers of typesafe.c and typesafe.h.  The event loop     *)
(* keeps its queues in the single-linked list and the object registry of  *)
(* qobj.c is the hash; the others come with them.  A container holds      *)
(* items, which are compared by their Weight; the places of memory that   *)
(* the items occupy are ordered like the numbers that name them.          *)
EXTENDS Integers, Sequences, FiniteSets

CONSTANTS Items,      \* the items: positive numbers
          Weight,     \* Items -> Nat, what cmpfn compares
          HashValue,  \* weights -> 0..2^HashBits - 1, what hashfn returns
          HashBits,   \* 32 in the code
          Levels,     \* SKIPLIST_MAXDEPTH
          HeapNary    \* HEAP_NARY, a power of two

None == 0   \* NULL, and the head of a list as a place that points to an item

ASSUME TypesafeAssumption ==
  /\ Items \subseteq Nat \ {0} /\ IsFiniteSet(Items) /\ Weight \in [Items -> Nat]
  /\ \A i \in Items : HashValue[Weight[i]] \in 0..2^HashBits - 1

Least(S) == CHOOSE i \in S : \A j \in S : i <= j
CutOut(s, k) == SubSeq(s, 1, k - 1) \o SubSeq(s, k + 1, Len(s))
PutIn(s, k, x) == SubSeq(s, 1, k) \o <<x>> \o SubSeq(s, k + 1, Len(s))   \* after the k-th

\* cmpfn, and for containers with repeated weights the cmpfn_uq that falls back
\* on the address: negative, zero or positive.
Cmp(uniq, a, b) == IF Weight[a] # Weight[b] \/ uniq THEN Weight[a] - Weight[b] ELSE a - b

-----------------------------------------------------------------------------
(* DECLARE_LIST.  next[None] is first; last is the place whose pointer      *)
(* last_next addresses.                                                      *)

list_init == [next |-> [i \in Items \union {None} |-> None], last |-> None, count |-> 0]

typesafe_list_add(h, pos, item) ==
  [h EXCEPT !.next = [@ EXCEPT ![item] = h.next[pos], ![pos] = item],
            !.last = IF pos = h.last THEN item ELSE @, !.count = @ + 1]

list_add_head(h, item) == typesafe_list_add(h, None, item)
list_add_tail(h, item) == typesafe_list_add(h, h.last, item)
list_add_after(h, after, item) == typesafe_list_add(h, after, item)

\* The places from p on, in the order of next.
RECURSIVE Walk(_, _)
Walk(next, p) == <<p>> \o (IF next[p] = None THEN <<>> ELSE Walk(next, next[p]))
Chained(next) == Tail(Walk(next, None))

\* _del searches for the place that points to the item.
list_del(h, item) ==
  LET w == Walk(h.next, None)
      at == {k \in 1..Len(w) - 1 : w[k + 1] = item}
      iter == w[Least(at)]
  IN IF at = {} THEN h
     ELSE [h EXCEPT !.next[iter] = h.next[item], !.count = @ - 1,
                    !.last = IF h.next[item] = None THEN iter ELSE @]

list_pop(h) ==
  LET first == h.next[None] IN
  IF first = None THEN h
  ELSE [h EXCEPT !.next[None] = h.next[first], !.count = @ - 1,
                 !.last = IF h.next[first] = None THEN None ELSE @]

-----------------------------------------------------------------------------
(* DECLARE_DLIST: a ring through the head, here None.                       *)

dlist_init == [next |-> list_init.next, prev |-> list_init.next, count |-> 0]

typesafe_dlist_add(h, prev, item) ==
  [h EXCEPT !.next = [@ EXCEPT ![item] = h.next[prev], ![prev] = item],
            !.prev = [@ EXCEPT ![h.next[prev]] = item, ![item] = prev], !.count = @ + 1]

Unlinked(h, item) ==
  [h EXCEPT !.next[h.prev[item]] = h.next[item], !.prev[h.next[item]] = h.prev[item], !.count = @ - 1]

dlist_add_head(h, item) == typesafe_dlist_add(h, None, item)
dlist_add_tail(h, item) == typesafe_dlist_add(h, h.prev[None], item)
dlist_del(h, item) == [Unlinked(h, item) EXCEPT !.prev[item] = None, !.next[item] = None]
dlist_pop(h) == IF h.next[None] = None THEN h ELSE Unlinked(h, h.next[None])

-----------------------------------------------------------------------------
(* DECLARE_HEAP.  Positions start at 0 as in the code: array[k + 1] is at   *)
(* position k.  Each item knows its position.  A position's neighbours are  *)
(* the one to its right in the same block and the first of the block below. *)

heap_init == [array |-> <<>>, index |-> [i \in Items |-> 0]]
ItemAt(a, pos) == a[pos + 1]
nary_last(pos) == pos % HeapNary = HeapNary - 1
Placed(h, pos, item) == [h EXCEPT !.array[pos + 1] = item, !.index[item] = pos]

\* typesafe_heap_pullup: where the item that takes position pos comes from.
Above(pos) == IF pos % HeapNary = 0 THEN pos \div HeapNary - 1 ELSE pos - 1

RECURSIVE typesafe_heap_pullup(_, _, _)
typesafe_heap_pullup(h, pos, item) ==
  IF pos = 0 \/ Weight[ItemAt(h.array, Above(pos))] <= Weight[item] THEN Placed(h, pos, item)
  ELSE typesafe_heap_pullup(Placed(h, pos, ItemAt(h.array, Above(pos))), Above(pos), item)

\* Variant: the item never goes to the right once it may not go down.
RECURSIVE PushdownOnly(_, _, _)
PushdownOnly(h, pos, item) ==
  LET down == HeapNary * (pos + 1) IN
  IF down >= Len(h.array) \/ Weight[ItemAt(h.array, down)] >= Weight[item] THEN Placed(h, pos, item)
  ELSE PushdownOnly(Placed(h, pos, ItemAt(h.array, down)), down, item)

RECURSIVE typesafe_heap_pushdown(_, _, _)
typesafe_heap_pushdown(h, pos, item) ==
  LET right == pos + 1
      down == HeapNary * (pos + 1)
      W(p) == Weight[ItemAt(h.array, p)]
      goDown == down < Len(h.array) /\ W(down) < Weight[item]
      moveto == IF ~goDown
                THEN IF nary_last(pos) \/ right >= Len(h.array) \/ W(right) >= Weight[item] THEN pos ELSE right
                ELSE IF nary_last(pos) \/ W(right) >= W(down) THEN down ELSE right
  IN IF moveto = pos THEN Placed(h, pos, item)
     ELSE typesafe_heap_pushdown(Placed(h, pos, ItemAt(h.array, moveto)), moveto, item)

heap_add(h, item) == typesafe_heap_pullup([h EXCEPT !.array = Append(@, item)], Len(h.array), item)

\* _del: the last item takes the place that becomes free.  When that is the last
\* place itself only memory beyond the heap is written.
WithoutLast(h) == [h EXCEPT !.array = SubSeq(@, 1, Len(@) - 1)]
heap_del(h, item) ==
  LET other == ItemAt(h.array, Len(h.array) - 1)
      pos == h.index[item]
  IN IF other = item THEN WithoutLast(h)
     ELSE IF Weight[other] < Weight[item] THEN typesafe_heap_pullup(WithoutLast(h), pos, other)
     ELSE typesafe_heap_pushdown(WithoutLast(h), pos, other)

heap_pop(h) ==
  IF h.array = <<>> THEN h
  ELSE IF Len(h.array) = 1 THEN WithoutLast(h)
  ELSE typesafe_heap_pushdown(WithoutLast(h), 0, ItemAt(h.array, Len(h.array) - 1))

-----------------------------------------------------------------------------
(* _DECLARE_SORTLIST: what next leads through, as a sequence.               *)

\* How many items come before the first that does not compare less than x.
Below(s, u, x) == Cardinality({k \in 1..Len(s) : \A j \in 1..k : Cmp(u, s[j], x) < 0})
NthOf(s, k) == IF k \in 1..Len(s) THEN s[k] ELSE None

sortlist_add(s, u, item) ==
  LET k == Below(s, u, item) IN
  IF k < Len(s) /\ Cmp(u, s[k + 1], item) = 0 THEN s ELSE PutIn(s, k, item)
sortlist_find_gteq(s, item) == NthOf(s, Below(s, TRUE, item) + 1)
sortlist_find_lt(s, item) == NthOf(s, Below(s, TRUE, item))

\* _find keeps whether the comparison was negative, not its value, so that the
\* test for a greater item never succeeds.
sortlist_find(s, item) ==
  LET found == NthOf(s, Below(s, TRUE, item) + 1)
      cmpval == IF found # None /\ Cmp(TRUE, found, item) < 0 THEN 1 ELSE 0
  IN IF found = None \/ cmpval > 0 THEN None ELSE found
sortlist_del(s, item) ==
  LET at == {k \in 1..Len(s) : s[k] = item} IN IF at = {} THEN s ELSE CutOut(s, Least(at))
sortlist_pop(s) == IF s = <<>> THEN s ELSE Tail(s)

-----------------------------------------------------------------------------
(* The skip list: next[p][l] on level l, level 1 holding all items.  The   *)
(* pointers above the fourth, kept in an array of their own, are not told   *)
(* apart from the others.                                                   *)

skiplist_init == [next |-> [p \in Items \union {None} |-> [l \in 1..Levels |-> None]], count |-> 0]

RECURSIVE Rightmost(_, _, _, _, _)
Rightmost(h, p, l, u, x) ==
  LET n == h.next[p][l] IN
  IF n # None /\ Cmp(u, n, x) < 0 THEN Rightmost(h, n, l, u, x) ELSE p

\* The place before x on every level, found from the highest level down.
Before(h, u, x) ==
  LET pred[l \in 1..Levels + 1] == IF l > Levels THEN None ELSE Rightmost(h, pred[l + 1], l, u, x)
  IN pred

\* newlevel is what the random number gives.
typesafe_skiplist_add(h, u, item, newlevel) ==
  LET pred == Before(h, u, item)
      dup == \E l \in 1..Levels : LET n == h.next[pred[l]][l] IN n # None /\ Cmp(u, n, item) = 0
      own == [h EXCEPT !.next[item] = [l \in 1..Levels |-> IF l <= newlevel THEN h.next[pred[l]][l] ELSE None]]
  IN IF dup THEN h
     ELSE [own EXCEPT !.count = @ + 1,
             !.next = [p \in DOMAIN @ |-> [l \in 1..Levels |-> IF l <= newlevel /\ p = pred[l] THEN item ELSE @[p][l]]]]

Equals(h, u, x) ==
  LET pred == Before(h, u, x)
      hit == {l \in 1..Levels : h.next[pred[l]][l] # None /\ Cmp(u, h.next[pred[l]][l], x) = 0}
      top == CHOOSE l \in hit : \A k \in hit : k <= l
  IN IF hit = {} THEN None ELSE h.next[pred[top]][top]
typesafe_skiplist_find(h, x) == Equals(h, TRUE, x)
typesafe_skiplist_find_gteq(h, x) ==
  IF Equals(h, TRUE, x) # None THEN Equals(h, TRUE, x) ELSE h.next[Before(h, TRUE, x)[1]][1]
typesafe_skiplist_find_lt(h, x) == Before(h, TRUE, x)[1]

typesafe_skiplist_del(h, u, item) ==
  LET pred == Before(h, u, item) IN
  [h EXCEPT !.count = @ - 1,
     !.next = [p \in DOMAIN @ |-> IF p = item THEN skiplist_init.next[item]
                 ELSE [l \in 1..Levels |-> IF p = pred[l] /\ @[p][l] = item THEN @[item][l] ELSE @[p][l]]]]

typesafe_skiplist_pop(h) ==
  LET item == h.next[None][1] IN
  IF item = None THEN h
  ELSE [h EXCEPT !.count = @ - 1,
          !.next = [@ EXCEPT ![None] = [l \in 1..Levels |-> IF @[l] = item THEN h.next[item][l] ELSE @[l]],
                             ![item] = skiplist_init.next[item]]]

-----------------------------------------------------------------------------
(* DECLARE_HASH: chains sorted by hash value, in a table indexed by its     *)
(* highest bits.  minshift and maxshift are never set.                      *)

hash_init == [entries |-> <<>>, count |-> 0, tabshift |-> 0]
HashOf(i) == HashValue[Weight[i]]
HASH_SIZE(shift) == 2^shift \div 2
HASH_KEY(shift, val) == val \div 2^(HashBits + 1 - shift)

\* The shift that both resizings compute from the number of items.
NewShift(count) == 1 + CHOOSE k \in 0..HashBits + 1 : 2^k > count /\ \A j \in 0..k - 1 : 2^j <= count

\* Entry i is entries[i + 1].  A chain is cut into 2^delta parts from the left.
typesafe_hash_grow(h) ==
  LET shift == NewShift(h.count)
      delta == shift - h.tabshift
      Mid(item) == HASH_KEY(shift, HashOf(item)) % 2^delta
      Upto(c, j) == Cardinality({k \in 1..Len(c) : \A m \in 1..k : Mid(c[m]) <= j})
      Part(c, j) == SubSeq(c, IF j = 0 THEN 1 ELSE Upto(c, j - 1) + 1, Upto(c, j))
  IN IF shift = h.tabshift THEN h
     ELSE [h EXCEPT !.tabshift = shift,
             !.entries = [e \in 1..HASH_SIZE(shift) |->
                            IF h.tabshift = 0 THEN <<>> ELSE Part(@[(e - 1) \div 2^delta + 1], (e - 1) % 2^delta)]]

typesafe_hash_shrink(h) ==
  LET shift == NewShift(h.count)
      delta == h.tabshift - shift
      joined[i \in 0..HASH_SIZE(shift) - 1, j \in 0..2^delta] ==
        IF j = 0 THEN <<>> ELSE joined[i, j - 1] \o h.entries[i * 2^delta + j]
  IN IF h.count = 0 THEN hash_init
     ELSE IF shift = h.tabshift THEN h
     ELSE [h EXCEPT !.tabshift = shift, !.entries = [e \in 1..HASH_SIZE(shift) |-> joined[e - 1, 2^delta]]]

EntryOf(h, val) == HASH_KEY(h.tabshift, val) + 1
Earlier(c, val) == Cardinality({k \in 1..Len(c) : \A j \in 1..k : HashOf(c[j]) < val})

\* _add compares with the first item whose hash value is not less, and no other.
hash_add(h, item) ==
  LET one == [h EXCEPT !.count = @ + 1]
      grown == IF h.tabshift = 0 \/ one.count >= HASH_SIZE(h.tabshift) THEN typesafe_hash_grow(one) ELSE one
      e == EntryOf(grown, HashOf(item))
      chain == grown.entries[e]
      k == Earlier(chain, HashOf(item))
  IN IF k < Len(chain) /\ Weight[chain[k + 1]] = Weight[item] THEN [grown EXCEPT !.count = @ - 1]
     ELSE [grown EXCEPT !.entries[e] = PutIn(chain, k, item)]

hash_find(h, x) ==
  LET c == h.entries[EntryOf(h, HashOf(x))]
      hit == {k \in 1..Len(c) : HashOf(c[k]) = HashOf(x) /\ Weight[c[k]] = Weight[x]}
  IN IF h.tabshift = 0 \/ hit = {} THEN None ELSE c[Least(hit)]

Shrunk(h) == IF h.count <= (HASH_SIZE(h.tabshift) - 1) \div 2 THEN typesafe_hash_shrink(h) ELSE h

hash_del(h, item) ==
  LET e == EntryOf(h, HashOf(item))
      at == {k \in 1..Len(h.entries[e]) : h.entries[e][k] = item}
  IN IF h.tabshift = 0 \/ at = {} THEN h
     ELSE Shrunk([h EXCEPT !.entries[e] = CutOut(@, Least(at)), !.count = @ - 1])

hash_pop(h) ==
  LET full == {e \in 1..Len(h.entries) : h.entries[e] # <<>>} IN
  IF full = {} THEN h
  ELSE Shrunk([h EXCEPT !.entries[Least(full)] = Tail(@), !.count = @ - 1])

-----------------------------------------------------------------------------
(* A container of some kind, and what is in it: order for the two lists,   *)
(* whose users decide the order, and kept for the others.                   *)

VARIABLES kind, box, order, kept
typesafeVars == <<kind, box, order, kept>>

Sorted == {"sortlist", "sortlist_uniq"}
Skip == {"skiplist", "skiplist_uniq"}
Uniq == kind \in {"sortlist_uniq", "skiplist_uniq"}

TypesafeInit ==
  /\ order = <<>> /\ kept = {}
  /\ \/ kind = "list" /\ box = list_init
     \/ kind = "dlist" /\ box = dlist_init
     \/ kind = "heap" /\ box = heap_init
     \/ kind \in Sorted /\ box = <<>>
     \/ kind \in Skip /\ box = skiplist_init
     \/ kind = "hash" /\ box = hash_init

Listed == {order[k] : k \in 1..Len(order)}
Sequence == UNCHANGED <<kind, kept>>
Collection == UNCHANGED <<kind, order>>
NotIn(item) == item \notin kept \union Listed

AddHead(item) == /\ NotIn(item) /\ Sequence /\ order' = <<item>> \o order
                 /\ \/ kind = "list" /\ box' = list_add_head(box, item)
                    \/ kind = "dlist" /\ box' = dlist_add_head(box, item)
AddTail(item) == /\ NotIn(item) /\ Sequence /\ order' = Append(order, item)
                 /\ \/ kind = "list" /\ box' = list_add_tail(box, item)
                    \/ kind = "dlist" /\ box' = dlist_add_tail(box, item)
AddAfter(k, item) == /\ NotIn(item) /\ Sequence /\ order' = PutIn(order, k, item)
                     /\ \/ kind = "list" /\ box' = list_add_after(box, order[k], item)
                        \/ kind = "dlist" /\ box' = typesafe_dlist_add(box, order[k], item)
ListDel(item) == /\ Sequence /\ order' = SelectSeq(order, LAMBDA x : x # item)
                 /\ \/ kind = "list" /\ box' = list_del(box, item)
                    \/ kind = "dlist" /\ item \in Listed /\ box' = dlist_del(box, item)
ListPop == /\ order # <<>> /\ Sequence /\ order' = Tail(order)
           /\ \/ kind = "list" /\ box' = list_pop(box)
              \/ kind = "dlist" /\ box' = dlist_pop(box)

HeapAdd(item) == kind = "heap" /\ NotIn(item) /\ Collection /\ box' = heap_add(box, item) /\ kept' = kept \union {item}
HeapDel(item) == kind = "heap" /\ item \in kept /\ Collection /\ box' = heap_del(box, item) /\ kept' = kept \ {item}
HeapPop == /\ kind = "heap" /\ kept # {} /\ Collection /\ box' = heap_pop(box)
           /\ kept' = kept \ {ItemAt(box.array, 0)}

\* What a sorted container should do with one more item, and the first of it.
Refused(item) == Uniq /\ \E i \in kept : Weight[i] = Weight[item]
Joined(item) == IF Refused(item) THEN kept ELSE kept \union {item}
InOrder(i, j) == Cmp(FALSE, i, j) <= 0
FirstOf(S) == CHOOSE i \in S : \A j \in S : InOrder(i, j)

SortAdd(item) ==
  /\ NotIn(item) /\ Collection /\ kept' = Joined(item)
  /\ \/ kind \in Sorted /\ box' = sortlist_add(box, Uniq, item)
     \/ kind \in Skip /\ \E newlevel \in 1..Levels : box' = typesafe_skiplist_add(box, Uniq, item, newlevel)
SortDel(item) ==
  /\ item \in kept /\ Collection /\ kept' = kept \ {item}
  /\ \/ kind \in Sorted /\ box' = sortlist_del(box, item)
     \/ kind \in Skip /\ box' = typesafe_skiplist_del(box, Uniq, item)
SortPop ==
  /\ kept # {} /\ Collection /\ kept' = kept \ {FirstOf(kept)}
  /\ \/ kind \in Sorted /\ box' = sortlist_pop(box)
     \/ kind \in Skip /\ box' = typesafe_skiplist_pop(box)

\* The items of the hash, from the first entry on.
Entered == LET all[e \in 0..Len(box.entries)] == IF e = 0 THEN <<>> ELSE all[e - 1] \o box.entries[e] IN all[Len(box.entries)]
HashAdd(item) == /\ kind = "hash" /\ NotIn(item) /\ Collection /\ box' = hash_add(box, item)
                 /\ kept' = IF box'.count > box.count THEN kept \union {item} ELSE kept
HashDel(item) == kind = "hash" /\ Collection /\ box' = hash_del(box, item) /\ kept' = kept \ {item}
HashPop == kind = "hash" /\ kept # {} /\ Collection /\ box' = hash_pop(box) /\ kept' = kept \ {Head(Entered)}

TypesafeNext ==
  \/ \E item \in Items :
       \/ AddHead(item) \/ AddTail(item) \/ ListDel(item)
       \/ \E k \in 1..Len(order) : AddAfter(k, item)
       \/ HeapAdd(item) \/ HeapDel(item)
       \/ SortAdd(item) \/ SortDel(item)
       \/ HashAdd(item) \/ HashDel(item)
  \/ ListPop \/ HeapPop \/ SortPop \/ HashPop

-----------------------------------------------------------------------------
\* Both lists hold what was put in, where it was put: following next gives the
\* order, the single-linked list's last_next addresses the place after the last
\* item, and in the ring prev leads back the way next came.
ListsKeepOrder ==
  /\ kind = "list" => /\ Chained(box.next) = order /\ box.count = Len(order)
                       /\ box.last = IF order = <<>> THEN None ELSE order[Len(order)]
  /\ kind = "dlist" => /\ Chained(box.next) = order /\ box.count = Len(order)
                        /\ \A p \in Listed \union {None} : box.prev[box.next[p]] = p

\* The first item of the heap is a least one, however items were removed from
\* its middle: no position is less than the one it hangs from, the check that
\* the code has compiled out; and every item knows its position, on which _del
\* relies.
HeapFirstIsLeast ==
  kind = "heap" =>
    /\ {box.array[k] : k \in 1..Len(box.array)} = kept /\ Len(box.array) = Cardinality(kept)
    /\ \A pos \in 0..Len(box.array) - 1 : /\ box.index[ItemAt(box.array, pos)] = pos
                                         /\ pos # 0 => Weight[ItemAt(box.array, Above(pos))] <= Weight[ItemAt(box.array, pos)]
    /\ kept # {} => \A i \in kept : Weight[ItemAt(box.array, 0)] <= Weight[i]

\* Every level of the skip list leads through a part of the level below, the
\* lowest through all items in order, whatever levels chance chose; and the
\* three searches of it agree with the set of what is held.
LevelOf(l) == LET next == [p \in Items \union {None} |-> box.next[p][l]] IN Chained(next)
SkipListSearches ==
  kind \in Skip =>
    LET L == LevelOf(1) IN
    /\ {L[k] : k \in 1..Len(L)} = kept /\ box.count = Cardinality(kept)
    /\ \A k \in 1..Len(L) - 1 : Cmp(Uniq, L[k], L[k + 1]) < 0
    /\ \A l \in 2..Levels : LevelOf(l) = SelectSeq(LevelOf(l - 1), LAMBDA x : \E k \in 1..Len(LevelOf(l)) : LevelOf(l)[k] = x)
    /\ \A x \in Items :
         LET gteq == {i \in kept : Weight[i] >= Weight[x]}
             lt == {i \in kept : Weight[i] < Weight[x]}
             g == typesafe_skiplist_find_gteq(box, x)
             b == typesafe_skiplist_find_lt(box, x)
             f == typesafe_skiplist_find(box, x)
         IN /\ IF gteq = {} THEN g = None ELSE g \in gteq /\ \A i \in gteq : Weight[g] <= Weight[i]
            /\ IF lt = {} THEN b = None ELSE b \in lt /\ \A i \in lt : InOrder(i, b)
            /\ IF \E i \in kept : Weight[i] = Weight[x] THEN f \in kept /\ Weight[f] = Weight[x] ELSE f = None

\* The sorted list stays sorted and its searches agree with what is held; but a
\* search for an item that is not there gives the next greater one, as _find_gteq
\* does, where the skip list gives none.
SortListSearches ==
  kind \in Sorted =>
    /\ {box[k] : k \in 1..Len(box)} = kept
    /\ \A k \in 1..Len(box) - 1 : Cmp(Uniq, box[k], box[k + 1]) < 0
    /\ \A x \in Items :
         LET gteq == {i \in kept : Weight[i] >= Weight[x]}
             lt == {i \in kept : Weight[i] < Weight[x]}
         IN /\ sortlist_find_gteq(box, x) = IF gteq = {} THEN None ELSE FirstOf(gteq)
            /\ IF lt = {} THEN sortlist_find_lt(box, x) = None
               ELSE sortlist_find_lt(box, x) \in lt /\ \A i \in lt : InOrder(i, sortlist_find_lt(box, x))
            /\ sortlist_find(box, x) = sortlist_find_gteq(box, x)

\* Growing and shrinking lose nothing: an item is found exactly when one with its
\* weight is held, and the check that the code has compiled out holds (items sit
\* in the entry of their highest bits, sorted). Two items of one weight are held
\* at most when another weight has the same hash value: then the comparison with
\* the first item of that value misses the duplicate.
TypedHashFinds ==
  kind = "hash" =>
    /\ {Entered[k] : k \in 1..Len(Entered)} = kept /\ Len(Entered) = box.count /\ box.count = Cardinality(kept)
    /\ \A x \in Items : (hash_find(box, x) # None) <=> \E i \in kept : Weight[i] = Weight[x]
    /\ \A e \in 1..Len(box.entries) : LET c == box.entries[e] IN
         /\ \A k \in 1..Len(c) : EntryOf(box, HashOf(c[k])) = e
         /\ \A k \in 1..Len(c) - 1 : HashOf(c[k]) <= HashOf(c[k + 1])
    /\ \A i, j \in kept : i # j /\ Weight[i] = Weight[j] =>
         \E x \in Items : HashOf(x) = HashOf(i) /\ Weight[x] # Weight[i]

\* Each typed container keeps the sequence, order or set it promises through every
\* mixture of its calls.
TypesafeRight ==
  ListsKeepOrder /\ HeapFirstIsLeast /\ SkipListSearches /\ SortListSearches /\ TypedHashFinds
=============================================================================
