------------------------------- MODULE PQueue -------------------------------
(***************************************************************************)
(* libvui's priority queue (pqueue.c): a binary heap in an array, the      *)
(* smallest key first. Every placement of a node tells the node its        *)
(* position through the update callback, and removal from the middle       *)
(* trusts that position.                                                   *)
(*                                                                         *)
(* A queue is a record: array (positions 1 to size; the C array starts at  *)
(* 0) and index, the position each node was last told, 0 when none.        *)
(* Growing the array (pqueue_expand) keeps its contents and is left out.   *)
(***************************************************************************)
EXTENDS Integers, Sequences

LOCAL Told(q, i) == [q EXCEPT !.index[q.array[i]] = i]

\* Nodes at i and j change places; the one that comes to i is told.
LOCAL Exchange(q, i, j) ==
  Told([q EXCEPT !.array = [@ EXCEPT ![i] = q.array[j], ![j] = q.array[i]]], i)

\* The node at i moves up while it is smaller than its parent.
trickle_up(q0, i0, key) ==
  LET Climb[i \in 1..Len(q0.array)] ==   \* the positions it passes, last first
        IF i > 1 /\ key[q0.array[i0]] < key[q0.array[i \div 2]]
        THEN Append(Climb[i \div 2], i) ELSE <<i>>
      path == Climb[i0]
      Move[n \in 1..Len(path)] ==        \* queue with the node moved to path[n]
        IF n = Len(path) THEN q0 ELSE Exchange(Move[n + 1], path[n + 1], path[n])
  IN Told(Move[1], path[1])

\* The child of i with the smaller key, the left one of two equals.
LOCAL Child(a, i, key) ==
  IF 2 * i + 1 <= Len(a) /\ key[a[2 * i]] > key[a[2 * i + 1]] THEN 2 * i + 1 ELSE 2 * i

\* The node at i moves down while no child of it has a larger key.
trickle_down(q0, i0, key) ==
  LET n == Len(q0.array)
      Sink[i \in 1..n] ==                \* the positions it passes, first first
        IF 2 * i <= n /\ key[q0.array[Child(q0.array, i, key)]] <= key[q0.array[i0]]
        THEN <<i>> \o Sink[Child(q0.array, i, key)] ELSE <<i>>
      path == Sink[i0]
      Move[k \in 1..Len(path)] ==
        IF k = 1 THEN q0 ELSE Exchange(Move[k - 1], path[k - 1], path[k])
  IN Told(Move[Len(path)], path[Len(path)])

pqueue_enqueue(q, data, key) ==
  LET n == Len(q.array) + 1
  IN trickle_up(Told([q EXCEPT !.array = Append(@, data)], n), n, key)

\* Variant: the node that fills the hole only ever moves down.
RemoveAtDown(q, i, key) ==
  LET n == Len(q.array)
      filled == [q EXCEPT !.array = SubSeq([q.array EXCEPT ![i] = q.array[n]], 1, n - 1)]
  IN IF i = n THEN filled ELSE trickle_down(filled, i, key)

\* The last node fills the hole at i and finds its place. When i is the last
\* position nothing is left to move: the C code then only touches the node
\* that has just left the queue.
pqueue_remove_at(q, i, key) ==
  LET n == Len(q.array)
      filled == [q EXCEPT !.array = SubSeq([q.array EXCEPT ![i] = q.array[n]], 1, n - 1)]
  IN IF i = n THEN filled
     ELSE IF i > 1 /\ key[filled.array[i]] < key[filled.array[i \div 2]]
     THEN trickle_up(filled, i, key)
     ELSE trickle_down(filled, i, key)

pqueue_dequeue(q, key) == pqueue_remove_at(q, 1, key)

-----------------------------------------------------------------------------
\* What the queue promises: no parent is larger than its child, and every node
\* of the queue knows where it is.
HeapOrdered(q, key) ==
  \A i \in 2..Len(q.array) : key[q.array[i \div 2]] <= key[q.array[i]]

KnowsPosition(q) == \A i \in 1..Len(q.array) : q.index[q.array[i]] = i
=============================================================================
