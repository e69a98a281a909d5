-------------------------- MODULE VtySessionProofs --------------------------
(***************************************************************************)
(* Proofs about the terminal session: its output is neither lost nor       *)
(* repeated (OutputKept), it always has the task and the timer it needs    *)
(* (Attentive), and a flush shows at most a window (PageFits). They rest   *)
(* on lemmas about buffer.c: what buffer_put adds and what a flush leaves. *)
(***************************************************************************)
EXTENDS VtySession, SequenceTheorems, FiniteSetTheorems, FunctionTheorems, TLAPS

\* Bytes of the descriptor; a chunk of bytes of A; no chunk has been flushed to its end.
Byte == {"n", "erase", "more"}
Chunk(A) == [data : Seq(A), sp : Nat]
NoEmptyChunk(b) == \A i \in 1..Len(b) : b[i].sp < Len(b[i].data)

-----------------------------------------------------------------------------
(* Loops: what a function that is defined from one index to the next is.    *)

\* A nonempty set of numbers has a least one.
LEMMA Lowest == ASSUME NEW T, T \subseteq Nat, T # {} PROVE \E x \in T : \A y \in T : x <= y
  <1>. DEFINE R == {ss \in Nat \X Nat : ss[1] < ss[2]}
  <1>1. IsWellFoundedOn(R, Nat)
    BY NatLessThanWellFounded DEF OpToRel
  <1>. HIDE DEF R
  <1>2. PICK x \in T : \A y \in T : ~ (<<y, x>> \in R)
    BY <1>1, WFMin, ZenonT(60)
  <1>3. ASSUME NEW y \in T PROVE x <= y
    <2>1. <<y, x>> \in Nat \X Nat /\ x \in Nat /\ y \in Nat
      OBVIOUS
    <2>2. ~ (y < x)
      BY <1>2, <2>1 DEF R
    <2>. QED
      BY <2>1, <2>2
  <1>. QED
    BY <1>3

\* Induction: a set that has 0 and the successor of each of its numbers has all.
LEMMA Upward ==
  ASSUME NEW N \in Nat, NEW T, 0 \in T, \A n \in 1..N : n - 1 \in T => n \in T
  PROVE  \A n \in 0..N : n \in T
  <1>. DEFINE R == {n \in 0..N : n \notin T}
  <1>. SUFFICES ASSUME R # {} PROVE FALSE
    OBVIOUS
  <1>0. R \subseteq Nat
    OBVIOUS
  <1>. HIDE DEF R
  <1>1. PICK x \in R : \A y \in R : x <= y
    BY <1>0, Lowest, ZenonT(60)
  <1>. USE DEF R
  <1>2. x \in 1..N /\ x - 1 \in 0..N
    OBVIOUS
  <1>. QED
    BY <1>1, <1>2

\* What holds before a loop and is kept by each turn holds after each.
LEMMA Stays ==
  ASSUME NEW N \in Nat, NEW U, NEW S, U[0] \in S, \A n \in 1..N : U[n - 1] \in S => U[n] \in S
  PROVE  \A n \in 0..N : U[n] \in S
  <1>. DEFINE T == {n \in 0..N : U[n] \in S}
  <1>1. \A n \in 1..N : n - 1 \in T => n \in T
    OBVIOUS
  <1>2. 0 \in T
    OBVIOUS
  <1>. HIDE DEF T
  <1>3. \A n \in 0..N : n \in T
    BY <1>1, <1>2, Upward
  <1>. QED
    BY <1>3 DEF T

Iterates(g, S, N, base, step) ==
  /\ g = [n \in 0..N |-> IF n = 0 THEN base ELSE step[<<n, g[n - 1]>>]]
  /\ \A n \in 0..N : g[n] \in S

\* A function from each index and value to the next value defines all values.
LEMMA Recursion ==
  ASSUME NEW S, NEW N \in Nat, NEW base \in S, NEW step \in [(1..N) \X S -> S]
  PROVE  \E g : Iterates(g, S, N, base, step)
  <1>. DEFINE Good(n, g) == g[0] = base /\ \A m \in 1..n : g[m] = step[<<m, g[m - 1]>>]
              T == {n \in 0..N : \E g \in [0..n -> S] : Good(n, g)}
  <1>1. 0 \in T
    <2>1. [i \in 0..0 |-> base] \in [0..0 -> S] /\ Good(0, [i \in 0..0 |-> base])
      OBVIOUS
    <2>2. 0 \in 0..N
      OBVIOUS
    <2>. HIDE DEF Good
    <2>. QED
      BY <2>1, <2>2, Zenon
  <1>2. ASSUME NEW n \in 1..N, n - 1 \in T PROVE n \in T
    <2>1. PICK g \in [0..(n - 1) -> S] : Good(n - 1, g)
      BY <1>2
    <2>. DEFINE h == [i \in 0..n |-> IF i = n THEN step[<<n, g[n - 1]>>] ELSE g[i]]
    <2>2. h \in [0..n -> S]
      OBVIOUS
    <2>3. Good(n, h)
      <3>1. h[0] = base
        BY <2>1
      <3>2. ASSUME NEW m \in 1..n PROVE h[m] = step[<<m, h[m - 1]>>]
        <4>1. CASE m = n
          <5>1. h[m - 1] = g[n - 1]
            BY <4>1
          <5>2. h[n] = step[<<n, g[n - 1]>>]
            <6>1. n \in 0..n
              OBVIOUS
            <6>. QED
              BY <6>1, Zenon
          <5>. HIDE DEF h
          <5>. QED
            BY <4>1, <5>1, <5>2, Zenon
        <4>2. CASE m # n
          BY <4>2, <2>1
        <4>. QED
          BY <4>1, <4>2
      <3>. QED
        BY <3>1, <3>2, ZenonT(60)
    <2>4. n \in 0..N
      OBVIOUS
    <2>. HIDE DEF Good, h
    <2>. QED
      BY <2>2, <2>3, <2>4, Zenon
  <1>. HIDE DEF T
  <1>3. N \in T
    BY <1>1, <1>2, Upward
  <1>4. PICK g \in [0..N -> S] : Good(N, g)
    BY <1>3 DEF T
  <1>5. g = [n \in 0..N |-> IF n = 0 THEN base ELSE step[<<n, g[n - 1]>>]]
    BY <1>4
  <1>6. \A n \in 0..N : g[n] \in S
    OBVIOUS
  <1>. QED
    BY <1>5, <1>6, Zenon DEF Iterates

-----------------------------------------------------------------------------
(* buffer_getstr and buffer_put                                             *)

Assoc(A) == \A x, y, z \in Seq(A) : (x \o y) \o z = x \o (y \o z)

\* Concatenation in any order.
LEMMA Associative == \A A : Assoc(A)
  <1>. SUFFICES ASSUME NEW A, NEW x \in Seq(A), NEW y \in Seq(A), NEW z \in Seq(A)
                PROVE  (x \o y) \o z = x \o (y \o z)
    BY Zenon DEF Assoc
  <1>. QED
    BY ConcatAssociative

\* What waits in a chunk.
LEMMA UnflushedIs ==
  ASSUME NEW A, NEW d \in Chunk(A)
  PROVE  /\ Unflushed(d) \in Seq(A)
         /\ d.sp < Len(d.data) => Len(Unflushed(d)) = Len(d.data) - d.sp
  BY DEF Chunk, Unflushed

\* A chunk with one field changed.
LEMMA ChunkExcept ==
  ASSUME NEW A, NEW d \in Chunk(A), NEW x
  PROVE  /\ [d EXCEPT !.data = x] = [data |-> x, sp |-> d.sp]
         /\ [d EXCEPT !.sp = x] = [data |-> d.data, sp |-> x]
  BY DEF Chunk

\* buffer_getstr goes from chunk to chunk.
LEMMA GetstrUpto ==
  ASSUME NEW A, NEW b \in Seq(Chunk(A))
  PROVE  \E U : /\ \A n \in 0..Len(b) : U[n] \in Seq(A)
                /\ U[0] = <<>>
                /\ \A n \in 1..Len(b) : U[n] = U[n - 1] \o Unflushed(b[n])
                /\ buffer_getstr(b) = U[Len(b)]
  <1>. DEFINE N == Len(b)
              Upto[n \in 0..Len(b)] == IF n = 0 THEN <<>> ELSE Upto[n - 1] \o Unflushed(b[n])
              step == [x \in (1..N) \X Seq(A) |-> x[2] \o Unflushed(b[x[1]])]
  <1>1. N \in Nat /\ <<>> \in Seq(A)
    OBVIOUS
  <1>2. step \in [(1..N) \X Seq(A) -> Seq(A)]
    <2>1. ASSUME NEW n \in 1..N, NEW s \in Seq(A) PROVE s \o Unflushed(b[n]) \in Seq(A)
      BY UnflushedIs
    <2>. QED
      BY <2>1
  <1>. HIDE DEF step
  <1>3. PICK g : /\ g = [n \in 0..N |-> IF n = 0 THEN <<>> ELSE step[<<n, g[n - 1]>>]]
                 /\ \A n \in 0..N : g[n] \in Seq(A)
    <2>1. \E g : Iterates(g, Seq(A), N, <<>>, step)
      BY <1>1, <1>2, Recursion, Zenon
    <2>. QED
      BY <2>1, Zenon DEF Iterates
  <1>4. ASSUME NEW n \in 1..N PROVE g[n] = g[n - 1] \o Unflushed(b[n])
    <2>1. n \in 0..N /\ n # 0 /\ n - 1 \in 0..N
      OBVIOUS
    <2>2. g[n] = step[<<n, g[n - 1]>>]
      BY <1>3, <2>1, Zenon
    <2>3. <<n, g[n - 1]>> \in (1..N) \X Seq(A)
      BY <1>3, <2>1, ZenonT(60)
    <2>4. step[<<n, g[n - 1]>>] = g[n - 1] \o Unflushed(b[n])
      BY <2>3, ZenonT(60) DEF step
    <2>. QED
      BY <2>2, <2>4
  <1>5. g = [n \in 0..Len(b) |-> IF n = 0 THEN <<>> ELSE g[n - 1] \o Unflushed(b[n])]
    <2>1. \A n \in 0..Len(b) : g[n] = IF n = 0 THEN <<>> ELSE g[n - 1] \o Unflushed(b[n])
      <3>. SUFFICES ASSUME NEW n \in 0..Len(b)
                    PROVE  g[n] = IF n = 0 THEN <<>> ELSE g[n - 1] \o Unflushed(b[n])
        OBVIOUS
      <3>1. CASE n = 0
        BY <1>3, <3>1, Zenon
      <3>2. CASE n # 0
        <4>1. n \in 1..N
          BY <3>2
        <4>. QED
          BY <1>4, <3>2, <4>1, Zenon
      <3>. QED
        BY <3>1, <3>2, Zenon
    <2>2. \E f : g = [n \in 0..Len(b) |-> f[n]]
      <3>1. g = [n \in 0..Len(b) |-> [m \in 0..N |-> IF m = 0 THEN <<>> ELSE step[<<m, g[m - 1]>>]][n]]
        BY <1>3, Zenon
      <3>. QED
        BY <3>1, Zenon
    <2>. QED
      BY <2>1, <2>2, Zenon
  <1>6. Upto = [n \in 0..Len(b) |-> IF n = 0 THEN <<>> ELSE Upto[n - 1] \o Unflushed(b[n])]
    <2>1. Upto = CHOOSE h : h = [n \in 0..Len(b) |-> IF n = 0 THEN <<>> ELSE h[n - 1] \o Unflushed(b[n])]
      BY Zenon DEF Upto
    <2>. QED
      BY <1>5, <2>1, Zenon
  <1>7. buffer_getstr(b) = Upto[Len(b)]
    BY Zenon DEF buffer_getstr
  <1>. HIDE DEF Upto
  <1>8. 0 \in 0..N /\ \A n \in 1..N : n \in 0..N /\ n # 0
    OBVIOUS
  <1>9. Upto[0] = <<>>
    BY <1>6, <1>8, Zenon
  <1>10. \A n \in 1..N : Upto[n] = Upto[n - 1] \o Unflushed(b[n])
    BY <1>6, <1>8, Zenon
  <1>11. \A n \in 1..N : Upto[n - 1] \in Seq(A) => Upto[n] \in Seq(A)
    <2>. SUFFICES ASSUME NEW n \in 1..N, Upto[n - 1] \in Seq(A) PROVE Upto[n] \in Seq(A)
      OBVIOUS
    <2>1. Unflushed(b[n]) \in Seq(A)
      BY UnflushedIs
    <2>2. Upto[n] = Upto[n - 1] \o Unflushed(b[n])
      BY <1>10, Zenon
    <2>. QED
      BY <2>1, <2>2
  <1>12. \A n \in 0..N : Upto[n] \in Seq(A)
    BY <1>1, <1>9, <1>11, Stays, ZenonT(60)
  <1>. QED
    BY <1>7, <1>9, <1>10, <1>12, Zenon

\* Whatever is put together chunk by chunk is what buffer_getstr returns.
LEMMA GetstrIs ==
  ASSUME NEW A, NEW b \in Seq(Chunk(A)), NEW V, V[0] = <<>>,
         \A n \in 1..Len(b) : V[n] = V[n - 1] \o Unflushed(b[n])
  PROVE  buffer_getstr(b) = V[Len(b)]
  <1>1. PICK U : /\ U[0] = <<>>
                 /\ \A n \in 1..Len(b) : U[n] = U[n - 1] \o Unflushed(b[n])
                 /\ buffer_getstr(b) = U[Len(b)]
    BY GetstrUpto, Zenon
  <1>. DEFINE T == {n \in 0..Len(b) : U[n] = V[n]}
  <1>2. 0 \in T
    BY <1>1
  <1>3. \A n \in 1..Len(b) : n - 1 \in T => n \in T
    <2>1. \A n \in 1..Len(b) : n \in 0..Len(b)
      OBVIOUS
    <2>. QED
      BY <1>1, <2>1, Zenon
  <1>4. Len(b) \in Nat /\ Len(b) \in 0..Len(b)
    OBVIOUS
  <1>. HIDE DEF T
  <1>5. Len(b) \in T
    BY <1>2, <1>3, <1>4, Upward, Zenon
  <1>. QED
    BY <1>1, <1>5, Zenon DEF T

\* The bytes that wait are bytes that were put.
LEMMA GetstrType == ASSUME NEW A, NEW b \in Seq(Chunk(A)) PROVE buffer_getstr(b) \in Seq(A)
  <1>1. Len(b) \in 0..Len(b)
    OBVIOUS
  <1>. QED
    BY <1>1, GetstrUpto, Zenon

\* Nothing waits in an empty buffer.
LEMMA GetstrEmpty == buffer_getstr(<<>>) = <<>>
  <1>. DEFINE V == [n \in {0} |-> <<>>]
  <1>1. <<>> \in Seq(Chunk({})) /\ Len(<<>>) = 0
    OBVIOUS
  <1>2. \A n \in 1..Len(<<>>) : V[n] = V[n - 1] \o Unflushed(<<>>[n])
    OBVIOUS
  <1>3. V[0] = <<>>
    OBVIOUS
  <1>. HIDE DEF V
  <1>. QED
    BY <1>1, <1>2, <1>3, GetstrIs, ZenonT(60)

\* A buffer of one chunk has what waits in that chunk.
LEMMA GetstrOne == ASSUME NEW A, NEW d \in Chunk(A) PROVE buffer_getstr(<<d>>) = Unflushed(d)
  <1>. DEFINE V == [n \in {0, 1} |-> IF n = 0 THEN <<>> ELSE Unflushed(d)]
  <1>1. <<d>> \in Seq(Chunk(A)) /\ Len(<<d>>) = 1 /\ <<d>>[1] = d
    OBVIOUS
  <1>2. Unflushed(d) \in Seq(A)
    BY UnflushedIs
  <1>3. V[1] = V[0] \o Unflushed(d)
    BY <1>2
  <1>4. V[0] = <<>> /\ V[1] = Unflushed(d)
    OBVIOUS
  <1>. HIDE DEF V
  <1>5. \A n \in 1..Len(<<d>>) : V[n] = V[n - 1] \o Unflushed(<<d>>[n])
    <2>. SUFFICES ASSUME NEW n \in 1..1 PROVE V[n] = V[n - 1] \o Unflushed(<<d>>[n])
      BY <1>1, ZenonT(60)
    <2>1. n = 1 /\ n - 1 = 0
      OBVIOUS
    <2>. QED
      BY <1>1, <1>3, <2>1, Zenon
  <1>6. buffer_getstr(<<d>>) = V[Len(<<d>>)]
    BY <1>1, <1>4, <1>5, GetstrIs, Zenon
  <1>. QED
    BY <1>1, <1>4, <1>6, Zenon

\* The chunks of two buffers together hold the bytes of both.
LEMMA GetstrConcat ==
  ASSUME NEW A, NEW a \in Seq(Chunk(A)), NEW b \in Seq(Chunk(A))
  PROVE  buffer_getstr(a \o b) = buffer_getstr(a) \o buffer_getstr(b)
  <1>. DEFINE c == a \o b
  <1>1. /\ c \in Seq(Chunk(A)) /\ Len(c) = Len(a) + Len(b)
        /\ \A n \in 1..Len(a) : c[n] = a[n] /\ n \in 1..Len(c)
        /\ \A n \in 1..Len(b) : c[Len(a) + n] = b[n] /\ Len(a) + n \in 1..Len(c)
    OBVIOUS
  <1>. HIDE DEF c
  <1>2. PICK W : /\ W[0] = <<>>
                 /\ \A n \in 1..Len(c) : W[n] = W[n - 1] \o Unflushed(c[n])
                 /\ buffer_getstr(c) = W[Len(c)]
    BY <1>1, GetstrUpto, Zenon
  <1>3. \A n \in 1..Len(a) : W[n] = W[n - 1] \o Unflushed(a[n])
    BY <1>1, <1>2, Zenon
  <1>4. buffer_getstr(a) = W[Len(a)]
    BY <1>2, <1>3, GetstrIs, Zenon
  <1>5. PICK U : /\ \A n \in 0..Len(b) : U[n] \in Seq(A)
                 /\ U[0] = <<>>
                 /\ \A n \in 1..Len(b) : U[n] = U[n - 1] \o Unflushed(b[n])
                 /\ buffer_getstr(b) = U[Len(b)]
    BY GetstrUpto, Zenon
  <1>. DEFINE T == {n \in 0..Len(b) : W[Len(a) + n] = buffer_getstr(a) \o U[n]}
  <1>6. Len(b) \in Nat /\ 0 \in 0..Len(b) /\ Len(b) \in 0..Len(b) /\ Len(a) \in Nat
    OBVIOUS
  <1>7. 0 \in T
    <2>1. Len(a) + 0 = Len(a)
      BY <1>6
    <2>2. buffer_getstr(a) \o <<>> = buffer_getstr(a)
      BY GetstrType, ConcatEmptySeq
    <2>. QED
      BY <1>4, <1>5, <1>6, <2>1, <2>2, Zenon
  <1>8. ASSUME NEW n \in 1..Len(b), n - 1 \in T PROVE n \in T
    <2>1. n \in 0..Len(b) /\ (Len(a) + n) - 1 = Len(a) + (n - 1) /\ n - 1 \in 0..Len(b)
      OBVIOUS
    <2>2. W[Len(a) + n] = W[(Len(a) + n) - 1] \o Unflushed(b[n])
      <3>1. Len(a) + n \in 1..Len(c) /\ c[Len(a) + n] = b[n]
        BY <1>1, Zenon
      <3>. QED
        BY <1>2, <3>1, Zenon
    <2>3. W[Len(a) + n] = (buffer_getstr(a) \o U[n - 1]) \o Unflushed(b[n])
      BY <1>8, <2>1, <2>2, Zenon
    <2>4. Unflushed(b[n]) \in Seq(A)
      BY UnflushedIs
    <2>5. U[n - 1] \in Seq(A) /\ buffer_getstr(a) \in Seq(A)
      BY <1>5, <2>1, GetstrType, Zenon
    <2>6. (buffer_getstr(a) \o U[n - 1]) \o Unflushed(b[n]) = buffer_getstr(a) \o (U[n - 1] \o Unflushed(b[n]))
      <3>1. Assoc(A)
        BY Associative, Zenon
      <3>. QED
        BY <2>4, <2>5, <3>1, Zenon DEF Assoc
    <2>. QED
      BY <1>5, <2>1, <2>3, <2>6, Zenon
  <1>. HIDE DEF T
  <1>9. Len(b) \in T
    BY <1>6, <1>7, <1>8, Upward, Zenon
  <1>10. W[Len(a) + Len(b)] = buffer_getstr(a) \o U[Len(b)]
    BY <1>9, Zenon DEF T
  <1>. QED
    BY <1>1, <1>2, <1>5, <1>10, Zenon DEF c

\* The rest of a sequence grows with it.
LEMMA RestOfAppend ==
  ASSUME NEW A, NEW s \in Seq(A), NEW c \in A, NEW k \in 0..Len(s)
  PROVE  SubSeq(Append(s, c), k + 1, Len(Append(s, c))) = SubSeq(s, k + 1, Len(s)) \o <<c>>
  <1>. DEFINE x == SubSeq(Append(s, c), k + 1, Len(Append(s, c)))
              y == SubSeq(s, k + 1, Len(s)) \o <<c>>
  <1>1. x \in Seq(A) /\ Len(x) = Len(s) + 1 - k /\ \A i \in 1..Len(x) : x[i] = Append(s, c)[k + i]
    OBVIOUS
  <1>2. /\ y \in Seq(A) /\ Len(y) = Len(s) - k + 1
        /\ \A i \in 1..Len(y) : y[i] = IF i <= Len(s) - k THEN s[k + i] ELSE c
    OBVIOUS
  <1>. HIDE DEF x, y
  <1>3. Len(x) = Len(y) /\ \A i \in 1..Len(x) : x[i] = y[i]
    BY <1>1, <1>2
  <1>4. x = y
    BY <1>1, <1>2, <1>3, SeqEqual
  <1>. QED
    BY <1>4, ZenonT(60) DEF x, y

\* A byte that is put is the last one waiting, and no chunk is left empty.
LEMMA PutByteAdds ==
  ASSUME NEW A, NEW b \in Seq(Chunk(A)), NoEmptyChunk(b), NEW c \in A
  PROVE  /\ PutByte(b, c) \in Seq(Chunk(A)) /\ NoEmptyChunk(PutByte(b, c))
         /\ buffer_getstr(PutByte(b, c)) = buffer_getstr(b) \o <<c>>
  <1>1. CASE b = <<>> \/ Len(b[Len(b)].data) = ChunkSize
    <2>. DEFINE d == [data |-> <<c>>, sp |-> 0]
    <2>1. d \in Chunk(A) /\ d.sp = 0 /\ Len(d.data) = 1
      BY DEF Chunk
    <2>2. PutByte(b, c) = Append(b, d)
      BY <1>1, Zenon DEF PutByte
    <2>3. Unflushed(d) = <<c>>
      <3>1. d.data = <<c>> /\ d.sp + 1 = 1 /\ <<c>> \in Seq(A)
        OBVIOUS
      <3>. QED
        BY <3>1, SubSeqFull, Zenon DEF Unflushed
    <2>. HIDE DEF d
    <2>4. Append(b, d) = b \o <<d>> /\ Append(b, d) \in Seq(Chunk(A)) /\ <<d>> \in Seq(Chunk(A))
      BY <2>1
    <2>5. NoEmptyChunk(Append(b, d))
      <3>1. ASSUME NEW i \in 1..Len(Append(b, d)) PROVE Append(b, d)[i].sp < Len(Append(b, d)[i].data)
        <4>1. CASE i \in 1..Len(b)
          BY <4>1 DEF NoEmptyChunk
        <4>2. CASE i \notin 1..Len(b)
          <5>1. Append(b, d)[i] = d
            BY <4>2
          <5>2. d.sp < Len(d.data)
            BY <2>1
          <5>. QED
            BY <5>1, <5>2, Zenon
        <4>. QED
          BY <4>1, <4>2, Zenon
      <3>. QED
        BY <3>1, Zenon DEF NoEmptyChunk
    <2>6. buffer_getstr(b \o <<d>>) = buffer_getstr(b) \o buffer_getstr(<<d>>)
      BY <2>4, GetstrConcat, Zenon
    <2>7. buffer_getstr(<<d>>) = <<c>>
      BY <2>1, <2>3, GetstrOne, Zenon
    <2>. QED
      BY <2>2, <2>4, <2>5, <2>6, <2>7, Zenon
  <1>2. CASE ~(b = <<>> \/ Len(b[Len(b)].data) = ChunkSize)
    <2>. DEFINE p == SubSeq(b, 1, Len(b) - 1)
                l == b[Len(b)]
                m == [data |-> Append(l.data, c), sp |-> l.sp]
    <2>1. b # <<>> /\ Len(b) \in 1..Len(b)
      BY <1>2
    <2>2. l \in Chunk(A) /\ l.sp < Len(l.data)
      BY <2>1 DEF NoEmptyChunk
    <2>3. PutByte(b, c) = [b EXCEPT ![Len(b)] = m]
      <3>1. PutByte(b, c) = [b EXCEPT ![Len(b)] = [b[Len(b)] EXCEPT !.data = Append(b[Len(b)].data, c)]]
        BY <1>2, Zenon DEF PutByte
      <3>2. [l EXCEPT !.data = Append(l.data, c)] = m
        BY <2>2, ChunkExcept, Zenon
      <3>. QED
        BY <3>1, <3>2, Zenon DEF l
    <2>4. m \in Chunk(A) /\ m.sp < Len(m.data)
      BY <2>2 DEF Chunk
    <2>5. Unflushed(m) = Unflushed(l) \o <<c>>
      <3>1. l.data \in Seq(A) /\ l.sp \in 0..Len(l.data)
        BY <2>2 DEF Chunk
      <3>2. m.data = Append(l.data, c) /\ m.sp = l.sp
        OBVIOUS
      <3>. QED
        BY <3>1, <3>2, RestOfAppend, Zenon DEF Unflushed
    <2>. HIDE DEF l, m
    <2>6. [b EXCEPT ![Len(b)] = m] \in Seq(Chunk(A)) /\ NoEmptyChunk([b EXCEPT ![Len(b)] = m])
      BY <2>1, <2>4 DEF NoEmptyChunk
    <2>7. p \in Seq(Chunk(A)) /\ <<l>> \in Seq(Chunk(A)) /\ <<m>> \in Seq(Chunk(A))
      BY <2>1, <2>2, <2>4
    <2>8. b = p \o <<l>> /\ [b EXCEPT ![Len(b)] = m] = p \o <<m>>
      BY <2>1 DEF l
    <2>. HIDE DEF p
    <2>9. /\ buffer_getstr(p \o <<l>>) = buffer_getstr(p) \o Unflushed(l)
          /\ buffer_getstr(p \o <<m>>) = buffer_getstr(p) \o Unflushed(m)
      BY <2>2, <2>4, <2>7, GetstrConcat, GetstrOne, Zenon
    <2>10. buffer_getstr(p) \o Unflushed(m) = (buffer_getstr(p) \o Unflushed(l)) \o <<c>>
      <3>1. Assoc(A)
        BY Associative, Zenon
      <3>2. buffer_getstr(p) \in Seq(A) /\ Unflushed(l) \in Seq(A) /\ <<c>> \in Seq(A)
        BY <2>2, <2>7, GetstrType, UnflushedIs
      <3>3. (buffer_getstr(p) \o Unflushed(l)) \o <<c>> = buffer_getstr(p) \o (Unflushed(l) \o <<c>>)
        BY <3>1, <3>2, Zenon DEF Assoc
      <3>. QED
        BY <2>5, <3>3, Zenon
    <2>. QED
      BY <2>3, <2>6, <2>8, <2>9, <2>10, Zenon
  <1>. QED
    BY <1>1, <1>2, Zenon

\* buffer_put adds its bytes in their order.
LEMMA PutAdds ==
  ASSUME NEW A, NEW b \in Seq(Chunk(A)), NoEmptyChunk(b), NEW s \in Seq(A)
  PROVE  /\ buffer_put(b, s) \in Seq(Chunk(A)) /\ NoEmptyChunk(buffer_put(b, s))
         /\ buffer_getstr(buffer_put(b, s)) = buffer_getstr(b) \o s
  <1>0. Assoc(A)
    BY Associative, Zenon
  <1>. DEFINE N == Len(s)
              B == {x \in Seq(Chunk(A)) : NoEmptyChunk(x)}
              Put[n \in 0..Len(s)] == IF n = 0 THEN b ELSE PutByte(Put[n - 1], s[n])
              step == [x \in (1..N) \X B |-> PutByte(x[2], s[x[1]])]
  <1>1. N \in Nat /\ b \in B
    OBVIOUS
  <1>2. step \in [(1..N) \X B -> B]
    <2>1. ASSUME NEW n \in 1..N, NEW x \in B PROVE PutByte(x, s[n]) \in B
      <3>1. x \in Seq(Chunk(A)) /\ NoEmptyChunk(x) /\ s[n] \in A
        OBVIOUS
      <3>. QED
        BY <3>1, PutByteAdds, Zenon
    <2>. QED
      BY <2>1
  <1>. HIDE DEF step, B
  <1>3. PICK g : /\ g = [n \in 0..N |-> IF n = 0 THEN b ELSE step[<<n, g[n - 1]>>]]
                 /\ \A n \in 0..N : g[n] \in B
    <2>1. \E g : Iterates(g, B, N, b, step)
      BY <1>1, <1>2, Recursion, Zenon
    <2>. QED
      BY <2>1, Zenon DEF Iterates
  <1>4. ASSUME NEW n \in 1..N PROVE g[n] = PutByte(g[n - 1], s[n])
    <2>1. n \in 0..N /\ n # 0 /\ n - 1 \in 0..N
      OBVIOUS
    <2>2. g[n] = step[<<n, g[n - 1]>>]
      BY <1>3, <2>1, Zenon
    <2>3. <<n, g[n - 1]>> \in (1..N) \X B
      BY <1>3, <2>1
    <2>4. step[<<n, g[n - 1]>>] = PutByte(g[n - 1], s[n])
      BY <2>3 DEF step
    <2>. QED
      BY <2>2, <2>4, Zenon
  <1>5. g = [n \in 0..Len(s) |-> IF n = 0 THEN b ELSE PutByte(g[n - 1], s[n])]
    <2>1. \A n \in 0..Len(s) : g[n] = IF n = 0 THEN b ELSE PutByte(g[n - 1], s[n])
      <3>. SUFFICES ASSUME NEW n \in 0..Len(s)
                    PROVE  g[n] = IF n = 0 THEN b ELSE PutByte(g[n - 1], s[n])
        OBVIOUS
      <3>1. CASE n = 0
        BY <1>3, <3>1, Zenon
      <3>2. CASE n # 0
        <4>1. n \in 1..N
          BY <3>2
        <4>. QED
          BY <1>4, <3>2, <4>1, Zenon
      <3>. QED
        BY <3>1, <3>2, Zenon
    <2>2. \E f : g = [n \in 0..Len(s) |-> f[n]]
      <3>1. g = [n \in 0..Len(s) |-> [m \in 0..N |-> IF m = 0 THEN b ELSE step[<<m, g[m - 1]>>]][n]]
        BY <1>3, Zenon
      <3>. QED
        BY <3>1, Zenon
    <2>. QED
      BY <2>1, <2>2, Zenon
  <1>6. Put = [n \in 0..Len(s) |-> IF n = 0 THEN b ELSE PutByte(Put[n - 1], s[n])]
    <2>1. Put = CHOOSE h : h = [n \in 0..Len(s) |-> IF n = 0 THEN b ELSE PutByte(h[n - 1], s[n])]
      BY Zenon DEF Put
    <2>. QED
      BY <1>5, <2>1, Zenon
  <1>7. buffer_put(b, s) = Put[Len(s)]
    BY Zenon DEF buffer_put
  <1>. HIDE DEF Put
  <1>8. 0 \in 0..N /\ N \in 0..N /\ \A n \in 1..N : n \in 0..N /\ n # 0
    OBVIOUS
  <1>9. Put[0] = b
    BY <1>6, <1>8, Zenon
  <1>10. \A n \in 1..N : Put[n] = PutByte(Put[n - 1], s[n])
    BY <1>6, <1>8, Zenon
  <1>. DEFINE T == {n \in 0..N : Put[n] \in B /\ buffer_getstr(Put[n]) = buffer_getstr(b) \o SubSeq(s, 1, n)}
  <1>11. 0 \in T
    <2>1. SubSeq(s, 1, 0) = <<>> /\ buffer_getstr(b) \o <<>> = buffer_getstr(b)
      BY GetstrType, ConcatEmptySeq
    <2>. QED
      BY <1>1, <1>8, <1>9, <2>1, Zenon
  <1>12. ASSUME NEW n \in 1..N, n - 1 \in T PROVE n \in T
    <2>1. /\ Put[n - 1] \in Seq(Chunk(A)) /\ NoEmptyChunk(Put[n - 1])
          /\ buffer_getstr(Put[n - 1]) = buffer_getstr(b) \o SubSeq(s, 1, n - 1)
      BY <1>12 DEF B
    <2>2. s[n] \in A /\ <<s[n]>> \in Seq(A) /\ SubSeq(s, 1, n - 1) \in Seq(A) /\ n \in 0..N
      OBVIOUS
    <2>3. /\ Put[n] \in Seq(Chunk(A)) /\ NoEmptyChunk(Put[n])
          /\ buffer_getstr(Put[n]) = (buffer_getstr(b) \o SubSeq(s, 1, n - 1)) \o <<s[n]>>
      BY <1>10, <2>1, <2>2, PutByteAdds, Zenon
    <2>4. SubSeq(s, 1, n) = SubSeq(s, 1, n - 1) \o <<s[n]>>
      OBVIOUS
    <2>5. buffer_getstr(b) \in Seq(A)
      BY GetstrType, Zenon
    <2>7. buffer_getstr(Put[n]) = buffer_getstr(b) \o SubSeq(s, 1, n)
      <3>1. (buffer_getstr(b) \o SubSeq(s, 1, n - 1)) \o <<s[n]>> = buffer_getstr(b) \o (SubSeq(s, 1, n - 1) \o <<s[n]>>)
        BY <1>0, <2>2, <2>5, Zenon DEF Assoc
      <3>. QED
        BY <2>3, <2>4, <3>1, Zenon
    <2>. QED
      BY <2>2, <2>3, <2>7, Zenon DEF B
  <1>. HIDE DEF T
  <1>13. N \in T
    BY <1>1, <1>8, <1>11, <1>12, Upward, Zenon
  <1>14. SubSeq(s, 1, N) = s
    BY SubSeqFull
  <1>. QED
    BY <1>7, <1>13, <1>14, Zenon DEF T, B

-----------------------------------------------------------------------------
(* Flushing                                                                 *)

\* A nonempty set of bounded numbers has a greatest one.
LEMMA Highest == ASSUME NEW N \in Nat, NEW T, T \subseteq 0..N, T # {} PROVE \E x \in T : \A y \in T : y <= x
  <1>. DEFINE R == {x \in 0..N : N - x \in T}
  <1>1. R \subseteq Nat /\ R # {}
    <2>1. PICK y \in T : TRUE
      OBVIOUS
    <2>2. N - y \in R
      BY <2>1
    <2>3. R \subseteq Nat
      OBVIOUS
    <2>. HIDE DEF R
    <2>. QED
      BY <2>2, <2>3
  <1>. HIDE DEF R
  <1>2. PICK x \in R : \A y \in R : x <= y
    BY <1>1, Lowest, ZenonT(60)
  <1>3. x \in 0..N /\ N - x \in T
    BY DEF R
  <1>4. ASSUME NEW y \in T PROVE y <= N - x
    <2>1. N - y \in R
      BY DEF R
    <2>. QED
      BY <1>2, <1>3, <2>1
  <1>. QED
    BY <1>3, <1>4

Skips(p, u, r, i) ==
  SubSeq(p \o (u \o r), (Len(p) + i) + 1, Len(p \o (u \o r))) = SubSeq(u, i + 1, Len(u)) \o r

\* Skipping the first of three sequences and part of the second.
LEMMA RestOfConcat ==
  ASSUME NEW A, NEW p \in Seq(A), NEW u \in Seq(A), NEW r \in Seq(A), NEW i \in 0..Len(u)
  PROVE  Skips(p, u, r, i)
  <1>. DEFINE s == p \o (u \o r)
              x == SubSeq(s, (Len(p) + i) + 1, Len(s))
              v == SubSeq(u, i + 1, Len(u))
              y == v \o r
  <1>1. /\ s \in Seq(A) /\ Len(s) = Len(p) + Len(u) + Len(r)
        /\ \A j \in 1..Len(u) : s[Len(p) + j] = u[j]
        /\ \A j \in 1..Len(r) : s[Len(p) + Len(u) + j] = r[j]
    OBVIOUS
  <1>. HIDE DEF s
  <1>2. x \in Seq(A) /\ Len(x) = (Len(u) - i) + Len(r) /\ \A j \in 1..Len(x) : x[j] = s[Len(p) + i + j]
    BY <1>1
  <1>3. v \in Seq(A) /\ Len(v) = Len(u) - i /\ \A j \in 1..Len(v) : v[j] = u[i + j]
    OBVIOUS
  <1>. HIDE DEF x, v
  <1>4. /\ y \in Seq(A) /\ Len(y) = Len(v) + Len(r)
        /\ \A j \in 1..Len(v) : y[j] = v[j]
        /\ \A j \in 1..Len(r) : y[Len(v) + j] = r[j]
    <2>1. v \in Seq(A)
      BY <1>3
    <2>. QED
      BY <2>1
  <1>. HIDE DEF y
  <1>5. ASSUME NEW j \in 1..Len(x) PROVE x[j] = y[j]
    <2>1. CASE j <= Len(v)
      BY <1>1, <1>2, <1>3, <1>4, <2>1
    <2>2. CASE j > Len(v)
      <3>1. j - Len(v) \in 1..Len(r) /\ Len(p) + i + j = Len(p) + Len(u) + (j - Len(v)) /\ j = Len(v) + (j - Len(v))
        BY <1>2, <1>3, <2>2
      <3>2. s[Len(p) + Len(u) + (j - Len(v))] = r[j - Len(v)] /\ y[Len(v) + (j - Len(v))] = r[j - Len(v)]
        BY <1>1, <1>4, <3>1, ZenonT(60)
      <3>. QED
        BY <1>2, <3>1, <3>2, ZenonT(60)
    <2>. QED
      BY <1>2, <1>3, <2>1, <2>2
  <1>6. Len(x) = Len(y)
    BY <1>2, <1>3, <1>4
  <1>7. x = y
    BY <1>2, <1>4, <1>5, <1>6, SeqEqual
  <1>. QED
    BY <1>7, Zenon DEF Skips, x, y, v, s

Replaced(d, e, r) ==
  /\ (<<d>> \o r)[1] = d /\ [(<<d>> \o r) EXCEPT ![1] = e] = <<e>> \o r
  /\ \A i \in 1..Len(<<e>> \o r) :
       (<<e>> \o r)[i] = e \/ (i \in 1..Len(<<d>> \o r) /\ (<<e>> \o r)[i] = (<<d>> \o r)[i])

\* A sequence whose first element is replaced.
LEMMA FirstReplaced ==
  ASSUME NEW S, NEW d \in S, NEW e \in S, NEW r \in Seq(S)
  PROVE  Replaced(d, e, r)
  <1>. DEFINE x == <<d>> \o r
              y == <<e>> \o r
  <1>1. x \in Seq(S) /\ Len(x) = Len(r) + 1 /\ x[1] = d /\ \A i \in 2..Len(x) : x[i] = r[i - 1]
    OBVIOUS
  <1>2. y \in Seq(S) /\ Len(y) = Len(r) + 1 /\ y[1] = e /\ \A i \in 2..Len(y) : y[i] = r[i - 1]
    OBVIOUS
  <1>. HIDE DEF x, y
  <1>. DEFINE z == [x EXCEPT ![1] = e]
  <1>3. z \in Seq(S) /\ Len(z) = Len(x) /\ z[1] = e /\ \A i \in 2..Len(x) : z[i] = x[i]
    BY <1>1
  <1>. HIDE DEF z
  <1>4. Len(z) = Len(y) /\ \A i \in 1..Len(z) : z[i] = y[i]
    BY <1>1, <1>2, <1>3
  <1>5. z = y
    BY <1>2, <1>3, <1>4, SeqEqual
  <1>6. ASSUME NEW i \in 1..Len(y) PROVE y[i] = e \/ (i \in 1..Len(x) /\ y[i] = x[i])
    <2>1. Len(x) = Len(y) /\ (i = 1 \/ i \in 2..Len(y))
      BY <1>1, <1>2
    <2>. QED
      BY <1>1, <1>2, <2>1, Zenon
  <1>. QED
    BY <1>1, <1>5, <1>6, Zenon DEF Replaced, x, y, z

\* Moving sp forward by i skips i of the waiting bytes.
LEMMA SpForward ==
  ASSUME NEW A, NEW d \in Chunk(A), d.sp < Len(d.data), NEW i \in Nat, d.sp + i < Len(d.data)
  PROVE  Unflushed([data |-> d.data, sp |-> d.sp + i]) = SubSeq(Unflushed(d), i + 1, Len(Unflushed(d)))
  <1>. DEFINE q == d.data
              k == d.sp
              u == SubSeq(q, k + 1, Len(q))
              x == SubSeq(q, (k + i) + 1, Len(q))
              y == SubSeq(u, i + 1, Len(u))
  <1>1. q \in Seq(A) /\ k \in Nat /\ k + i < Len(q)
    BY DEF Chunk
  <1>. HIDE DEF q, k
  <1>2. u \in Seq(A) /\ Len(u) = Len(q) - k /\ \A j \in 1..Len(u) : u[j] = q[k + j]
    BY <1>1
  <1>3. x \in Seq(A) /\ Len(x) = Len(q) - (k + i) /\ \A j \in 1..Len(x) : x[j] = q[k + i + j]
    BY <1>1
  <1>. HIDE DEF x, u
  <1>4. y \in Seq(A) /\ Len(y) = Len(u) - i /\ \A j \in 1..Len(y) : y[j] = u[i + j]
    BY <1>1, <1>2
  <1>. HIDE DEF y
  <1>5. ASSUME NEW j \in 1..Len(x) PROVE x[j] = y[j]
    <2>1. j \in 1..Len(y) /\ i + j \in 1..Len(u) /\ k + (i + j) = k + i + j
      BY <1>1, <1>2, <1>3, <1>4
    <2>. QED
      BY <1>2, <1>3, <1>4, <2>1
  <1>6. Len(x) = Len(y)
    BY <1>1, <1>2, <1>3, <1>4
  <1>7. x = y
    BY <1>3, <1>4, <1>5, <1>6, SeqEqual
  <1>. QED
    BY <1>7, ZenonT(60) DEF Unflushed, x, y, u, q, k

Before(b, k) == buffer_getstr(SubSeq(b, 1, k))

\* The chunks before and after a place hold the bytes before and after it.
LEMMA Cut ==
  ASSUME NEW A, NEW b \in Seq(Chunk(A)), NEW k \in 0..Len(b)
  PROVE  /\ SubSeq(b, 1, k) \in Seq(Chunk(A)) /\ SubSeq(b, k + 1, Len(b)) \in Seq(Chunk(A))
         /\ Before(b, k) \in Seq(A)
         /\ buffer_getstr(b) = Before(b, k) \o buffer_getstr(SubSeq(b, k + 1, Len(b)))
  <1>1. SubSeq(b, 1, k) \in Seq(Chunk(A)) /\ SubSeq(b, k + 1, Len(b)) \in Seq(Chunk(A))
    OBVIOUS
  <1>2. SubSeq(b, 1, k) \o SubSeq(b, k + 1, Len(b)) = b
    <2>1. 1 \in 1..(Len(b) + 1) /\ k \in (1 - 1)..Len(b) /\ Len(b) \in k..Len(b)
      OBVIOUS
    <2>2. SubSeq(b, 1, k) \o SubSeq(b, k + 1, Len(b)) = SubSeq(b, 1, Len(b))
      BY <2>1, ConcatAdjacentSubSeq, Zenon
    <2>. QED
      BY <2>2, SubSeqFull, ZenonT(60)
  <1>. QED
    BY <1>1, <1>2, GetstrConcat, GetstrType, Zenon DEF Before

\* Flushing n bytes leaves the others, in chunks none of which is empty.
LEMMA FlushedLeaves ==
  ASSUME NEW A, NEW b \in Seq(Chunk(A)), NoEmptyChunk(b), NEW n \in 0..Len(buffer_getstr(b))
  PROVE  /\ Flushed(b, n) \in Seq(Chunk(A)) /\ NoEmptyChunk(Flushed(b, n))
         /\ buffer_getstr(Flushed(b, n)) = SubSeq(buffer_getstr(b), n + 1, Len(buffer_getstr(b)))
  <1>. DEFINE ends == {e \in 0..Len(b) : Len(Before(b, e)) <= n}
              k == CHOOSE e \in ends : \A f \in ends : f <= e
              in == n - Len(Before(b, k))
              rest == SubSeq(b, k + 1, Len(b))
  <1>1. Flushed(b, n) = IF in = 0 THEN rest ELSE [rest EXCEPT ![1].sp = @ + in]
    BY Zenon DEF Flushed, Before
  <1>2. buffer_getstr(b) \in Seq(A) /\ Len(buffer_getstr(b)) \in Nat /\ n \in Nat /\ Len(b) \in Nat
    BY GetstrType
  <1>3. k \in ends /\ \A f \in ends : f <= k
    <2>1. 0 \in ends
      <3>1. SubSeq(b, 1, 0) = <<>> /\ Len(<<>>) = 0 /\ 0 \in 0..Len(b) /\ 0 <= n
        BY <1>2
      <3>2. Len(Before(b, 0)) = 0
        BY <3>1, GetstrEmpty, Zenon DEF Before
      <3>. QED
        BY <3>1, <3>2, Zenon
    <2>2. ends \subseteq 0..Len(b)
      BY Zenon
    <2>. HIDE DEF ends
    <2>3. \E e \in ends : \A f \in ends : f <= e
      BY <1>2, <2>1, <2>2, Highest, ZenonT(60)
    <2>. QED
      BY <2>3, Zenon
  <1>. HIDE DEF k
  <1>4. k \in 0..Len(b) /\ Len(Before(b, k)) <= n
    BY <1>3
  <1>. HIDE DEF ends
  <1>5. /\ rest \in Seq(Chunk(A)) /\ Before(b, k) \in Seq(A)
        /\ buffer_getstr(b) = Before(b, k) \o buffer_getstr(rest)
    BY <1>4, Cut, Zenon
  <1>6. NoEmptyChunk(rest)
    <2>1. \A i \in 1..Len(rest) : k + i \in 1..Len(b) /\ rest[i] = b[k + i]
      BY <1>4
    <2>. HIDE DEF rest
    <2>. QED
      BY <2>1, Zenon DEF NoEmptyChunk
  <1>7. buffer_getstr(rest) \in Seq(A) /\ in \in Nat /\ Len(Before(b, k)) \in Nat /\ n = Len(Before(b, k)) + in
    BY <1>2, <1>4, <1>5, GetstrType
  <1>8. CASE in = 0
    <2>1. SubSeq(buffer_getstr(b), n + 1, Len(buffer_getstr(b))) = buffer_getstr(rest)
      <3>. DEFINE f == Before(b, k)
                  g == buffer_getstr(rest)
      <3>1. f \in Seq(A) /\ g \in Seq(A) /\ <<>> \in Seq(A) /\ 0 \in 0..Len(g) /\ n + 1 = (Len(f) + 0) + 1 /\ 0 + 1 = 1
        BY <1>5, <1>7, <1>8
      <3>. HIDE DEF f, g
      <3>2. g \o <<>> = g /\ SubSeq(g, 1, Len(g)) = g
        BY <3>1, ConcatEmptySeq, SubSeqFull
      <3>3. SubSeq(f \o (g \o <<>>), (Len(f) + 0) + 1, Len(f \o (g \o <<>>))) = SubSeq(g, 0 + 1, Len(g)) \o <<>>
        <4>1. Skips(f, g, <<>>, 0)
          BY <3>1, RestOfConcat, Zenon
        <4>. QED
          BY <4>1, Zenon DEF Skips
      <3>4. SubSeq(f \o g, n + 1, Len(f \o g)) = g
        BY <3>1, <3>2, <3>3, Zenon
      <3>. QED
        BY <1>5, <3>4, Zenon DEF f, g
    <2>2. Flushed(b, n) = rest
      BY <1>1, <1>8, Zenon
    <2>. QED
      BY <1>5, <1>6, <2>1, <2>2, Zenon
  <1>9. CASE in # 0
    <2>. DEFINE d == b[k + 1]
                r == SubSeq(b, k + 2, Len(b))
                e == [data |-> d.data, sp |-> d.sp + in]
    <2>1. k + 1 \in 1..Len(b)
      <3>1. k # Len(b)
        <4>. SUFFICES ASSUME k = Len(b) PROVE FALSE
          OBVIOUS
        <4>1. SubSeq(b, 1, k) = b
          BY SubSeqFull
        <4>2. Len(Before(b, k)) = Len(buffer_getstr(b))
          BY <4>1, Zenon DEF Before
        <4>. QED
          BY <1>2, <1>7, <1>9, <4>2
      <3>. QED
        BY <1>4, <3>1
    <2>2. d \in Chunk(A) /\ d.sp < Len(d.data)
      BY <2>1 DEF NoEmptyChunk
    <2>3. Unflushed(d) \in Seq(A) /\ Len(Unflushed(d)) = Len(d.data) - d.sp
      BY <2>2, UnflushedIs
    <2>4. in < Len(Unflushed(d))
      <3>1. SubSeq(b, 1, k + 1) = SubSeq(b, 1, k) \o <<d>> /\ SubSeq(b, 1, k) \in Seq(Chunk(A)) /\ <<d>> \in Seq(Chunk(A))
        <4>1. 1 \in 1..Len(b) /\ k + 1 \in 1..Len(b) /\ (k + 1) - 1 = k
          BY <1>4, <2>1
        <4>2. SubSeq(b, 1, k + 1) = SubSeq(b, 1, (k + 1) - 1) \o <<b[k + 1]>>
          BY <4>1, SubSeqRecursiveSecond, Zenon
        <4>3. SubSeq(b, 1, k) \in Seq(Chunk(A))
          BY <1>4, Cut, Zenon
        <4>4. <<d>> \in Seq(Chunk(A))
          BY <2>2
        <4>. QED
          BY <4>1, <4>2, <4>3, <4>4, Zenon
      <3>2. Before(b, k + 1) = Before(b, k) \o Unflushed(d)
        BY <2>2, <3>1, GetstrConcat, GetstrOne, Zenon DEF Before
      <3>3. Len(Before(b, k + 1)) = Len(Before(b, k)) + Len(Unflushed(d))
        BY <1>5, <2>3, <3>2
      <3>4. k + 1 \notin ends
        BY <1>3, <1>4
      <3>5. k + 1 \in 0..Len(b)
        BY <2>1
      <3>6. ~ (Len(Before(b, k + 1)) <= n)
        BY <3>4, <3>5, Zenon DEF ends
      <3>. QED
        BY <1>2, <1>7, <2>3, <3>3, <3>6
    <2>5. e \in Chunk(A) /\ e.sp < Len(e.data)
      <3>1. d.data \in Seq(A) /\ d.sp \in Nat
        BY <2>2 DEF Chunk
      <3>. HIDE DEF d, in
      <3>2. d.sp + in \in Nat /\ d.sp + in < Len(d.data)
        <4>1. in \in Nat /\ Len(d.data) \in Nat
          BY <1>7, <3>1
        <4>. QED
          BY <2>3, <2>4, <3>1, <4>1
      <3>. QED
        BY <3>1, <3>2 DEF Chunk
    <2>6. r \in Seq(Chunk(A)) /\ rest = <<d>> \o r
      BY <1>4, <2>1
    <2>7. Flushed(b, n) = <<e>> \o r
      <3>1. Flushed(b, n) = [rest EXCEPT ![1] = [rest[1] EXCEPT !.sp = rest[1].sp + in]]
        BY <1>1, <1>9, Zenon
      <3>3. [d EXCEPT !.sp = d.sp + in] = e
        BY <2>2, ChunkExcept, Zenon
      <3>. HIDE DEF d, r, e, rest
      <3>0. Replaced(d, e, r)
        BY <2>2, <2>5, <2>6, FirstReplaced, Zenon
      <3>2. rest[1] = d
        BY <2>6, <3>0, Zenon DEF Replaced
      <3>4. [(<<d>> \o r) EXCEPT ![1] = e] = <<e>> \o r
        BY <3>0, Zenon DEF Replaced
      <3>. QED
        BY <2>6, <3>1, <3>2, <3>3, <3>4, Zenon
    <2>8. Unflushed(e) = SubSeq(Unflushed(d), in + 1, Len(Unflushed(d)))
      <3>1. d.sp + in < Len(d.data)
        BY <1>7, <2>2, <2>3, <2>4 DEF Chunk
      <3>. QED
        BY <1>7, <2>2, <3>1, SpForward, Zenon
    <2>. HIDE DEF d, r, e, rest
    <2>9. <<d>> \in Seq(Chunk(A)) /\ <<e>> \in Seq(Chunk(A)) /\ <<e>> \o r \in Seq(Chunk(A))
      BY <2>2, <2>5, <2>6
    <2>10. NoEmptyChunk(<<e>> \o r)
      <3>1. \A i \in 1..Len(<<e>> \o r) : (<<e>> \o r)[i] = e \/ (i \in 1..Len(rest) /\ (<<e>> \o r)[i] = rest[i])
        <4>1. Replaced(d, e, r)
          BY <2>2, <2>5, <2>6, FirstReplaced, Zenon
        <4>. QED
          BY <2>6, <4>1, Zenon DEF Replaced
      <3>. QED
        BY <1>6, <2>5, <3>1, Zenon DEF NoEmptyChunk
    <2>11. /\ buffer_getstr(<<e>> \o r) = Unflushed(e) \o buffer_getstr(r)
           /\ buffer_getstr(rest) = Unflushed(d) \o buffer_getstr(r)
      <3>1. buffer_getstr(<<e>>) = Unflushed(e) /\ buffer_getstr(<<d>>) = Unflushed(d)
        BY <2>2, <2>5, GetstrOne, Zenon
      <3>2. buffer_getstr(<<e>> \o r) = buffer_getstr(<<e>>) \o buffer_getstr(r)
        BY <2>6, <2>9, GetstrConcat, Zenon
      <3>3. buffer_getstr(<<d>> \o r) = buffer_getstr(<<d>>) \o buffer_getstr(r)
        BY <2>6, <2>9, GetstrConcat, Zenon
      <3>. QED
        BY <2>6, <3>1, <3>2, <3>3, Zenon
    <2>12. /\ buffer_getstr(r) \in Seq(A) /\ in \in 0..Len(Unflushed(d))
           /\ n + 1 = (Len(Before(b, k)) + in) + 1
      BY <1>7, <2>3, <2>4, <2>6, GetstrType
    <2>13. SubSeq(buffer_getstr(b), n + 1, Len(buffer_getstr(b))) = Unflushed(e) \o buffer_getstr(r)
      <3>1. buffer_getstr(b) = Before(b, k) \o (Unflushed(d) \o buffer_getstr(r))
        BY <1>5, <2>11, Zenon
      <3>2. SubSeq(Before(b, k) \o (Unflushed(d) \o buffer_getstr(r)), (Len(Before(b, k)) + in) + 1,
                   Len(Before(b, k) \o (Unflushed(d) \o buffer_getstr(r))))
              = SubSeq(Unflushed(d), in + 1, Len(Unflushed(d))) \o buffer_getstr(r)
        <4>1. Skips(Before(b, k), Unflushed(d), buffer_getstr(r), in)
          BY <1>5, <2>3, <2>12, RestOfConcat, Zenon
        <4>. QED
          BY <4>1, Zenon DEF Skips
      <3>. QED
        BY <2>8, <2>12, <3>1, <3>2, Zenon
    <2>. QED
      BY <2>7, <2>9, <2>10, <2>11, <2>13, Zenon
  <1>. QED
    BY <1>8, <1>9, Zenon

-----------------------------------------------------------------------------
(* Lines in what was sent                                                   *)

At(s) == {i \in 1..Len(s) : s[i] = "n"}

\* The lines of a sequence can be counted.
LEMMA NewlinesType ==
  ASSUME NEW A, NEW s \in Seq(A)
  PROVE  /\ Newlines(s) = Cardinality(At(s)) /\ IsFiniteSet(At(s))
         /\ Newlines(s) \in Nat
  <1>1. DOMAIN s = 1..Len(s) /\ Len(s) \in Nat
    OBVIOUS
  <1>2. Newlines(s) = Cardinality(At(s))
    BY <1>1, Zenon DEF Newlines, At
  <1>3. IsFiniteSet(1..Len(s))
    BY <1>1, FS_Interval
  <1>4. IsFiniteSet(At(s))
    <2>1. At(s) \in SUBSET (1..Len(s))
      BY Zenon DEF At
    <2>. QED
      BY <1>3, <2>1, FS_Subset
  <1>. QED
    BY <1>2, <1>4, FS_CardinalityType

\* The lines of two sequences together are those of both.
LEMMA NewlinesConcat ==
  ASSUME NEW A, NEW s \in Seq(A), NEW u \in Seq(A)
  PROVE  Newlines(s \o u) = Newlines(s) + Newlines(u)
  <1>. DEFINE m == Len(s)
              Moved == {i \in (m + 1)..(m + Len(u)) : (s \o u)[i] = "n"}
              f == [j \in At(u) |-> m + j]
  <1>1. /\ s \o u \in Seq(A) /\ m \in Nat /\ Len(u) \in Nat /\ Len(s \o u) = m + Len(u)
        /\ \A i \in 1..m : (s \o u)[i] = s[i]
        /\ \A j \in 1..Len(u) : (s \o u)[m + j] = u[j]
    OBVIOUS
  <1>2. At(s \o u) = At(s) \cup Moved /\ At(s) \cap Moved = {}
    BY <1>1 DEF At
  <1>3. f \in [At(u) -> Moved] /\ \A a, b \in At(u) : f[a] = f[b] => a = b
    BY <1>1 DEF At
  <1>4. ASSUME NEW i \in Moved PROVE \E j \in At(u) : f[j] = i
    <2>1. i - m \in 1..Len(u) /\ m + (i - m) = i
      BY <1>1
    <2>2. u[i - m] = "n"
      BY <1>1, <2>1
    <2>3. i - m \in At(u)
      BY <2>1, <2>2 DEF At
    <2>. QED
      BY <2>1, <2>3
  <1>. HIDE DEF Moved, f
  <1>5. f \in Bijection(At(u), Moved)
    BY <1>3, <1>4, Fun_IsBij
  <1>6. IsFiniteSet(At(s)) /\ IsFiniteSet(At(u))
    BY NewlinesType
  <1>7. IsFiniteSet(Moved) /\ Cardinality(Moved) = Cardinality(At(u))
    BY <1>5, <1>6, FS_Bijection, Fun_ExistsBij
  <1>8. Cardinality(At(s) \cup Moved) = Cardinality(At(s)) + Cardinality(Moved) - Cardinality({})
    BY <1>2, <1>6, <1>7, FS_Union
  <1>9. Newlines(s \o u) = Cardinality(At(s) \cup Moved)
    BY <1>1, <1>2, NewlinesType, ZenonT(60)
  <1>10. /\ Newlines(s) = Cardinality(At(s)) /\ Newlines(s) \in Nat
         /\ Newlines(u) = Cardinality(At(u)) /\ Newlines(u) \in Nat
    BY NewlinesType
  <1>. QED
    BY <1>7, <1>8, <1>9, <1>10, FS_EmptySet

\* Every byte of a session's output is a line; the prompt of a page is none.
LEMMA NewlinesOf ==
  /\ \A s \in Seq({"n"}) : Newlines(s) = Len(s)
  /\ Newlines(<<>>) = 0
  /\ \A c : c # "n" => Newlines(<<c>>) = 0
  <1>1. ASSUME NEW s \in Seq({"n"}) PROVE Newlines(s) = Len(s)
    <2>1. At(s) = 1..Len(s)
      BY DEF At
    <2>2. Newlines(s) = Cardinality(1..Len(s))
      BY <2>1, NewlinesType
    <2>3. Len(s) \in Nat
      OBVIOUS
    <2>. QED
      BY <2>2, <2>3, FS_Interval
  <1>2. Newlines(<<>>) = 0
    <2>1. <<>> \in Seq({"n"}) /\ Len(<<>>) = 0
      OBVIOUS
    <2>. QED
      BY <1>1, <2>1, Zenon
  <1>3. ASSUME NEW c, c # "n" PROVE Newlines(<<c>>) = 0
    <2>1. <<c>> \in Seq({c})
      OBVIOUS
    <2>2. At(<<c>>) = {}
      BY <1>3 DEF At
    <2>. QED
      BY <2>1, <2>2, NewlinesType, FS_EmptySet, ZenonT(60)
  <1>. QED
    BY <1>1, <1>2, <1>3, Zenon

\* What a short write sends has no more lines than the whole.
LEMMA NewlinesPrefix ==
  ASSUME NEW A, NEW s \in Seq(A), NEW k \in 0..Len(s)
  PROVE  Newlines(SubSeq(s, 1, k)) <= Newlines(s)
  <1>1. SubSeq(s, 1, k) \in Seq(A) /\ SubSeq(s, k + 1, Len(s)) \in Seq(A)
    OBVIOUS
  <1>2. SubSeq(s, 1, k) \o SubSeq(s, k + 1, Len(s)) = s
    <2>1. 1 \in 1..(Len(s) + 1) /\ k \in (1 - 1)..Len(s) /\ Len(s) \in k..Len(s)
      OBVIOUS
    <2>2. SubSeq(s, 1, k) \o SubSeq(s, k + 1, Len(s)) = SubSeq(s, 1, Len(s))
      BY <2>1, ConcatAdjacentSubSeq, Zenon
    <2>. QED
      BY <2>2, SubSeqFull, ZenonT(60)
  <1>3. Newlines(s) = Newlines(SubSeq(s, 1, k)) + Newlines(SubSeq(s, k + 1, Len(s)))
    BY <1>1, <1>2, NewlinesConcat, ZenonT(60)
  <1>4. Newlines(SubSeq(s, 1, k)) \in Nat /\ Newlines(SubSeq(s, k + 1, Len(s))) \in Nat
    BY <1>1, NewlinesType, ZenonT(60)
  <1>. QED
    BY <1>3, <1>4

-----------------------------------------------------------------------------
(* The session's buffer: every byte of it is a line                         *)

Buf == {b \in Seq(Chunk({"n"})) : NoEmptyChunk(b)}
Waiting(b) == Len(buffer_getstr(b))

\* What waits in a buffer is a number of lines; none in an empty one.
LEMMA BufWaits ==
  /\ <<>> \in Buf /\ Waiting(<<>>) = 0
  /\ \A b \in Buf : buffer_getstr(b) \in Seq({"n"}) /\ Waiting(b) \in Nat
  <1>1. <<>> \in Buf
    BY DEF Buf, NoEmptyChunk
  <1>2. Waiting(<<>>) = 0
    BY GetstrEmpty DEF Waiting
  <1>3. ASSUME NEW b \in Buf PROVE buffer_getstr(b) \in Seq({"n"}) /\ Waiting(b) \in Nat
    <2>1. buffer_getstr(b) \in Seq({"n"})
      BY GetstrType, Zenon DEF Buf
    <2>. QED
      BY <2>1 DEF Waiting
  <1>. QED
    BY <1>1, <1>2, <1>3, Zenon

\* vty_out adds its lines to those waiting.
LEMMA PutWaits ==
  ASSUME NEW b \in Buf, NEW n \in Nat
  PROVE  /\ buffer_put(b, [i \in 1..n |-> "n"]) \in Buf
         /\ Waiting(buffer_put(b, [i \in 1..n |-> "n"])) = Waiting(b) + n
  <1>. DEFINE s == [i \in 1..n |-> "n"]
  <1>1. s \in Seq({"n"}) /\ Len(s) = n
    OBVIOUS
  <1>. HIDE DEF s
  <1>2. b \in Seq(Chunk({"n"})) /\ NoEmptyChunk(b)
    BY Zenon DEF Buf
  <1>3. /\ buffer_put(b, s) \in Seq(Chunk({"n"})) /\ NoEmptyChunk(buffer_put(b, s))
        /\ buffer_getstr(buffer_put(b, s)) = buffer_getstr(b) \o s
    BY <1>1, <1>2, PutAdds, Zenon
  <1>4. Waiting(buffer_put(b, s)) = Waiting(b) + n
    <2>1. buffer_getstr(b) \in Seq({"n"})
      BY BufWaits
    <2>. QED
      <3>1. Len(buffer_getstr(b) \o s) = Len(buffer_getstr(b)) + n
        BY <1>1, <2>1
      <3>. QED
        BY <1>3, <3>1, Zenon DEF Waiting
  <1>. QED
    BY <1>3, <1>4, Zenon DEF Buf, s

\* A flush takes its lines from those waiting.
LEMMA FlushWaits ==
  ASSUME NEW b \in Buf, NEW n \in 0..Waiting(b)
  PROVE  Flushed(b, n) \in Buf /\ Waiting(Flushed(b, n)) = Waiting(b) - n
  <1>1. b \in Seq(Chunk({"n"})) /\ NoEmptyChunk(b)
    BY Zenon DEF Buf
  <1>2. n \in 0..Len(buffer_getstr(b))
    BY Zenon DEF Waiting
  <1>3. /\ Flushed(b, n) \in Seq(Chunk({"n"})) /\ NoEmptyChunk(Flushed(b, n))
        /\ buffer_getstr(Flushed(b, n)) = SubSeq(buffer_getstr(b), n + 1, Len(buffer_getstr(b)))
    BY <1>1, <1>2, FlushedLeaves, Zenon
  <1>4. Waiting(Flushed(b, n)) = Waiting(b) - n
    BY <1>2, <1>3, BufWaits DEF Waiting
  <1>. QED
    BY <1>3, <1>4, Zenon DEF Buf

Result(f, x, y, z) == f.b = x /\ f.st = y /\ f.out = z

\* The parts of what a flush returns.
LEMMA FlushResult == \A x, y, z : Result([b |-> x, st |-> y, out |-> z], x, y, z)
  BY DEF Result

Rooms == Nat \cup {NULL}

\* buffer_flush_available sends lines that waited, and as many as it sends wait no more.
LEMMA AvailableIs ==
  ASSUME NEW b \in Buf, NEW room \in Rooms,
         NEW f, f = buffer_flush_available(b, room), f.st # "ERROR"
  PROVE  /\ f.b \in Buf /\ f.st = Status(f.b) /\ f.out \in Seq({"n"})
         /\ f.out = <<>> \/ (room \in Nat /\ Len(f.out) <= room)
         /\ Waiting(f.b) = Waiting(b) - Len(f.out)
  <1>1. CASE b = <<>>
    <2>1. f = [b |-> b, st |-> "EMPTY", out |-> <<>>]
      BY <1>1, Zenon DEF buffer_flush_available
    <2>2. f.b = <<>> /\ f.st = "EMPTY" /\ f.out = <<>> /\ <<>> \in Seq({"n"}) /\ Len(<<>>) = 0
      BY <1>1, <2>1
    <2>3. Waiting(f.b) = Waiting(b) - Len(f.out)
      BY <1>1, <2>2, BufWaits
    <2>. QED
      BY <2>2, <2>3, BufWaits, Zenon DEF Status
  <1>2. CASE b # <<>>
    <2>. DEFINE j == Least(MaxChunks, Len(b))
                n == Least(Len(Before(b, j)), room)
                left == Flushed(b, n)
    <2>1. room # NULL
      <3>1. ASSUME room = NULL PROVE f = [b |-> b, st |-> "ERROR", out |-> <<>>]
        BY <1>2, <3>1, Zenon DEF buffer_flush_available
      <3>2. [b |-> b, st |-> "ERROR", out |-> <<>>].st = "ERROR"
        OBVIOUS
      <3>. QED
        BY <3>1, <3>2, Zenon
    <2>2. f = [b |-> left, st |-> Status(left), out |-> SubSeq(buffer_getstr(b), 1, n)]
      BY <1>2, <2>1, Zenon DEF buffer_flush_available, Before
    <2>3. j \in 0..Len(b)
      <3>1. Len(b) \in Nat
        BY DEF Buf
      <3>. QED
        BY <3>1, BufferAssumption DEF Least
    <2>. HIDE DEF j
    <2>4. Len(Before(b, j)) \in 0..Waiting(b)
      <3>1. b \in Seq(Chunk({"n"}))
        BY Zenon DEF Buf
      <3>2. /\ SubSeq(b, j + 1, Len(b)) \in Seq(Chunk({"n"})) /\ Before(b, j) \in Seq({"n"})
            /\ buffer_getstr(b) = Before(b, j) \o buffer_getstr(SubSeq(b, j + 1, Len(b)))
        BY <2>3, <3>1, Cut, Zenon
      <3>3. buffer_getstr(SubSeq(b, j + 1, Len(b))) \in Seq({"n"})
        BY <3>2, GetstrType, Zenon
      <3>. QED
        BY <3>2, <3>3 DEF Waiting
    <2>5. room \in Nat
      BY <2>1 DEF Rooms
    <2>6. n \in 0..Waiting(b) /\ n <= room /\ Waiting(b) \in Nat
      BY <2>4, <2>5, BufWaits DEF Least
    <2>. HIDE DEF n
    <2>7. left \in Buf /\ Waiting(left) = Waiting(b) - n
      BY <2>6, FlushWaits, Zenon
    <2>. HIDE DEF left
    <2>8. f.b = left /\ f.st = Status(left) /\ f.out = SubSeq(buffer_getstr(b), 1, n)
      <3>1. Result(f, left, Status(left), SubSeq(buffer_getstr(b), 1, n))
        BY <2>2, FlushResult, Zenon
      <3>. QED
        BY <3>1, Zenon DEF Result
    <2>9. f.out \in Seq({"n"}) /\ Len(f.out) = n
      BY <2>6, <2>8, BufWaits DEF Waiting
    <2>. QED
      BY <2>5, <2>6, <2>7, <2>8, <2>9, Zenon
  <1>. QED
    BY <1>1, <1>2, Zenon

\* A buffer with a chunk has a line waiting: no chunk is empty.
LEMMA ChunkWaits == ASSUME NEW b \in Buf, b # <<>> PROVE Waiting(b) >= 1
  <1>1. b \in Seq(Chunk({"n"})) /\ NoEmptyChunk(b)
    BY Zenon DEF Buf
  <1>2. 1 \in 0..Len(b) /\ 1 \in 1..Len(b) /\ SubSeq(b, 1, 1) = <<b[1]>>
    <2>1. 1 \in 0..Len(b) /\ 1 \in 1..Len(b)
      BY <1>1
    <2>2. SubSeq(b, 1, 1) \in Seq(Chunk({"n"})) /\ <<b[1]>> \in Seq(Chunk({"n"}))
      BY <1>1, <2>1
    <2>3. Len(SubSeq(b, 1, 1)) = 1 /\ Len(<<b[1]>>) = 1 /\ \A i \in 1..1 : SubSeq(b, 1, 1)[i] = <<b[1]>>[i]
      BY <1>1, <2>1
    <2>. QED
      BY <2>1, <2>2, <2>3, SeqEqual, ZenonT(60)
  <1>3. b[1] \in Chunk({"n"}) /\ b[1].sp < Len(b[1].data)
    BY <1>1, <1>2 DEF NoEmptyChunk
  <1>4. Before(b, 1) = Unflushed(b[1])
    BY <1>2, <1>3, GetstrOne, Zenon DEF Before
  <1>5. Unflushed(b[1]) \in Seq({"n"}) /\ Len(Unflushed(b[1])) = Len(b[1].data) - b[1].sp
    BY <1>3, UnflushedIs
  <1>6. Len(Unflushed(b[1])) >= 1
    BY <1>3, <1>5 DEF Chunk
  <1>7. /\ SubSeq(b, 1 + 1, Len(b)) \in Seq(Chunk({"n"}))
        /\ buffer_getstr(b) = Before(b, 1) \o buffer_getstr(SubSeq(b, 1 + 1, Len(b)))
    BY <1>1, <1>2, Cut, Zenon
  <1>8. buffer_getstr(SubSeq(b, 1 + 1, Len(b))) \in Seq({"n"})
    BY <1>7, GetstrType, Zenon
  <1>9. Len(buffer_getstr(b)) = Len(Unflushed(b[1])) + Len(buffer_getstr(SubSeq(b, 1 + 1, Len(b))))
    BY <1>4, <1>5, <1>7, <1>8
  <1>. QED
    BY <1>5, <1>6, <1>8, <1>9 DEF Waiting

ShownOf(b, width, height) ==
  LET str == buffer_getstr(b)
      Show[n \in 0..Len(str)] ==
        IF n = 0 THEN [column |-> 1, height |-> WindowLines(height), n |-> 0]
        ELSE ShowByte(Show[n - 1], IF width < 1 THEN 1 ELSE width, str[n])
  IN Show[Len(str)].n

Cursor(w) == {p \in [column : Int, height : Nat, n : Nat] : p.height + p.n = w}

\* A line that is shown takes one of the window's lines, until none is left.
LEMMA ShowLine ==
  ASSUME NEW w \in Nat, NEW p \in Cursor(w), NEW width
  PROVE  ShowByte(p, width, "n") \in Cursor(w) /\ ShowByte(p, width, "n").n <= p.n + 1
  <1>1. p \in [column : Int, height : Nat, n : Nat] /\ p.height + p.n = w
    BY DEF Cursor
  <1>2. CASE p.height = 0
    BY <1>1, <1>2 DEF ShowByte
  <1>3. CASE p.height # 0
    <2>. DEFINE q == [column |-> 1, height |-> p.height - 1, n |-> p.n + 1]
    <2>1. "n" # "r"
      OBVIOUS
    <2>2. ShowByte(p, width, "n") = q
      BY <1>3, <2>1, Zenon DEF ShowByte
    <2>3. q \in Cursor(w) /\ q.n <= p.n + 1
      BY <1>1, <1>3 DEF Cursor
    <2>. QED
      BY <2>2, <2>3, Zenon
  <1>. QED
    BY <1>2, <1>3

\* A window shows lines that wait, and at most the lines it has.
LEMMA ShownIs ==
  ASSUME NEW b \in Buf, NEW width, NEW height \in Int
  PROVE  ShownOf(b, width, height) \in 0..Waiting(b) /\ ShownOf(b, width, height) <= WindowLines(height)
  <1>. DEFINE str == buffer_getstr(b)
              N == Len(str)
              w == IF width < 1 THEN 1 ELSE width
              W == WindowLines(height)
              S == Cursor(W)
              base == [column |-> 1, height |-> WindowLines(height), n |-> 0]
              Show[n \in 0..Len(str)] == IF n = 0 THEN base ELSE ShowByte(Show[n - 1], w, str[n])
              step == [x \in (1..N) \X S |-> ShowByte(x[2], w, str[x[1]])]
  <1>1. N \in Nat /\ str \in Seq({"n"}) /\ N = Waiting(b)
    BY BufWaits DEF Waiting
  <1>2. W \in Nat
    BY DEF WindowLines
  <1>3. base \in S
    BY <1>2 DEF Cursor
  <1>. HIDE DEF w, W, base, str
  <1>4. \A n \in 1..N : str[n] = "n"
    BY <1>1
  <1>5. step \in [(1..N) \X S -> S]
    <2>1. ASSUME NEW n \in 1..N, NEW p \in S PROVE ShowByte(p, w, str[n]) \in S
      BY <1>2, <1>4, ShowLine, Zenon
    <2>. QED
      BY <2>1
  <1>. HIDE DEF step, S
  <1>6. PICK g : /\ g = [n \in 0..N |-> IF n = 0 THEN base ELSE step[<<n, g[n - 1]>>]]
                 /\ \A n \in 0..N : g[n] \in S
    <2>1. \E g : Iterates(g, S, N, base, step)
      BY <1>1, <1>3, <1>5, Recursion, Zenon
    <2>. QED
      BY <2>1, Zenon DEF Iterates
  <1>7. ASSUME NEW n \in 1..N PROVE g[n] = ShowByte(g[n - 1], w, str[n])
    <2>1. n \in 0..N /\ n # 0 /\ n - 1 \in 0..N
      BY <1>1
    <2>2. g[n] = step[<<n, g[n - 1]>>]
      BY <1>6, <2>1, Zenon
    <2>3. <<n, g[n - 1]>> \in (1..N) \X S
      BY <1>6, <2>1
    <2>4. step[<<n, g[n - 1]>>] = ShowByte(g[n - 1], w, str[n])
      BY <2>3 DEF step
    <2>. QED
      BY <2>2, <2>4, Zenon
  <1>8. g = [n \in 0..Len(str) |-> IF n = 0 THEN base ELSE ShowByte(g[n - 1], w, str[n])]
    <2>1. \A n \in 0..Len(str) : g[n] = IF n = 0 THEN base ELSE ShowByte(g[n - 1], w, str[n])
      <3>. SUFFICES ASSUME NEW n \in 0..Len(str)
                    PROVE  g[n] = IF n = 0 THEN base ELSE ShowByte(g[n - 1], w, str[n])
        OBVIOUS
      <3>1. CASE n = 0
        BY <1>6, <3>1, Zenon
      <3>2. CASE n # 0
        <4>1. n \in 1..N
          BY <1>1, <3>2
        <4>. QED
          BY <1>7, <3>2, <4>1, Zenon
      <3>. QED
        BY <3>1, <3>2, Zenon
    <2>2. \E f : g = [n \in 0..Len(str) |-> f[n]]
      <3>1. g = [n \in 0..Len(str) |-> [m \in 0..N |-> IF m = 0 THEN base ELSE step[<<m, g[m - 1]>>]][n]]
        BY <1>6, Zenon
      <3>. QED
        BY <3>1, Zenon
    <2>. QED
      BY <2>1, <2>2, Zenon
  <1>9. Show = [n \in 0..Len(str) |-> IF n = 0 THEN base ELSE ShowByte(Show[n - 1], w, str[n])]
    <2>1. Show = CHOOSE h : h = [n \in 0..Len(str) |-> IF n = 0 THEN base ELSE ShowByte(h[n - 1], w, str[n])]
      BY Zenon DEF Show
    <2>. QED
      BY <1>8, <2>1, Zenon
  <1>10. ShownOf(b, width, height) = Show[Len(str)].n
    BY Zenon DEF ShownOf, str, w, base
  <1>. HIDE DEF Show
  <1>11. 0 \in 0..N /\ N \in 0..N /\ \A n \in 1..N : n \in 0..N /\ n # 0
    BY <1>1
  <1>12. Show[0] = base /\ \A n \in 1..N : Show[n] = ShowByte(Show[n - 1], w, "n")
    BY <1>4, <1>9, <1>11, Zenon
  <1>. DEFINE T == {n \in 0..N : Show[n] \in S /\ Show[n].n <= n}
  <1>13. 0 \in T
    <2>1. base.n <= 0
      BY DEF base
    <2>. QED
      BY <1>3, <1>11, <1>12, <2>1, Zenon
  <1>14. ASSUME NEW n \in 1..N, n - 1 \in T PROVE n \in T
    <2>1. Show[n - 1] \in S /\ Show[n - 1].n <= n - 1
      BY <1>14, Zenon
    <2>2. Show[n] \in S /\ Show[n].n <= Show[n - 1].n + 1
      BY <1>2, <1>12, <2>1, ShowLine, Zenon DEF S
    <2>3. Show[n - 1].n \in Nat /\ Show[n].n \in Nat
      BY <2>1, <2>2 DEF S, Cursor
    <2>4. Show[n].n <= n
      BY <1>1, <2>1, <2>2, <2>3
    <2>. QED
      BY <1>11, <2>2, <2>4, Zenon
  <1>. HIDE DEF T
  <1>15. N \in T
    BY <1>1, <1>11, <1>13, <1>14, Upward, Zenon
  <1>16. Show[N] \in S /\ Show[N].n <= N
    BY <1>15, Zenon DEF T
  <1>17. Show[N].n \in 0..N /\ Show[N].n <= W
    BY <1>1, <1>2, <1>16 DEF S, Cursor
  <1>. QED
    BY <1>1, <1>10, <1>17, Zenon DEF W

Iov(b, height, erase) ==
  (IF erase THEN <<"erase">> ELSE <<>>) \o SubSeq(buffer_getstr(b), 1, ShownOf(b, 80, height))
    \o (IF Flushed(b, ShownOf(b, 80, height)) # <<>> /\ ~FALSE THEN <<"more">> ELSE <<>>)

\* What a window sends: the lines shown, and the prompt of the page around them.
LEMMA IovIs ==
  ASSUME NEW b \in Buf, NEW height \in Int, NEW erase \in BOOLEAN
  PROVE  /\ Iov(b, height, erase) \in Seq(Byte)
         /\ Newlines(Iov(b, height, erase)) = ShownOf(b, 80, height)
         /\ Len(Iov(b, height, erase)) <= Waiting(b) + 1
  <1>. DEFINE m == ShownOf(b, 80, height)
              left == Flushed(b, m)
              x == IF erase THEN <<"erase">> ELSE <<>>
              y == SubSeq(buffer_getstr(b), 1, m)
              z == IF left # <<>> /\ ~FALSE THEN <<"more">> ELSE <<>>
  <1>1. m \in 0..Waiting(b) /\ Waiting(b) \in Nat /\ buffer_getstr(b) \in Seq({"n"})
    BY ShownIs, BufWaits
  <1>2. left \in Buf /\ Waiting(left) = Waiting(b) - m
    BY <1>1, FlushWaits, Zenon
  <1>. HIDE DEF m
  <1>3. y \in Seq({"n"}) /\ Len(y) = m
    BY <1>1 DEF Waiting
  <1>. HIDE DEF y, left
  <1>4. x \in Seq(Byte) /\ Len(x) \in Nat /\ Len(x) <= 1 /\ Newlines(x) = 0
    <2>1. CASE erase
      <3>1. x = <<"erase">> /\ "erase" # "n"
        BY <2>1
      <3>2. <<"erase">> \in Seq(Byte) /\ Len(<<"erase">>) = 1
        BY DEF Byte
      <3>. QED
        BY <3>1, <3>2, NewlinesOf
    <2>2. CASE ~erase
      BY <2>2, NewlinesOf
    <2>. QED
      BY <2>1, <2>2
  <1>5. z \in Seq(Byte) /\ Newlines(z) = 0 /\ Len(z) \in 0..1 /\ (Len(z) = 1 => m < Waiting(b))
    <2>1. CASE left # <<>>
      <3>1. z = <<"more">> /\ "more" # "n"
        BY <2>1
      <3>2. <<"more">> \in Seq(Byte) /\ Len(<<"more">>) = 1
        BY DEF Byte
      <3>3. Waiting(left) >= 1
        BY <1>2, <2>1, ChunkWaits
      <3>4. m < Waiting(b)
        BY <1>1, <1>2, <3>3
      <3>. QED
        BY <3>1, <3>2, <3>4, NewlinesOf
    <2>2. CASE left = <<>>
      BY <2>2, NewlinesOf
    <2>. QED
      BY <2>1, <2>2
  <1>. HIDE DEF x, z
  <1>6. y \in Seq(Byte) /\ Newlines(y) = m
    <2>1. y \in Seq(Byte)
      BY <1>3 DEF Byte
    <2>. QED
      BY <1>3, <2>1, NewlinesOf, Zenon
  <1>7. x \o y \in Seq(Byte) /\ (x \o y) \o z \in Seq(Byte) /\ Len((x \o y) \o z) = Len(x) + Len(y) + Len(z)
    BY <1>4, <1>5, <1>6
  <1>8. Newlines((x \o y) \o z) = m
    <2>1. Newlines(x \o y) = Newlines(x) + Newlines(y)
      BY <1>4, <1>6, NewlinesConcat
    <2>2. Newlines((x \o y) \o z) = Newlines(x \o y) + Newlines(z)
      BY <1>5, <1>7, NewlinesConcat, ZenonT(60)
    <2>. QED
      BY <1>1, <1>4, <1>5, <1>6, <2>1, <2>2
  <1>9. Len((x \o y) \o z) <= Waiting(b) + 1
    <2>1. \A w, i, j, k \in Nat : k <= w /\ i <= 1 /\ (j = 0 \/ (j = 1 /\ k < w)) => i + k + j <= w + 1
      OBVIOUS
    <2>2. m \in Nat /\ m <= Waiting(b) /\ Len(x) \in Nat /\ Len(x) <= 1 /\ Len(z) \in Nat /\ (Len(z) = 0 \/ (Len(z) = 1 /\ m < Waiting(b)))
      <3>1. m \in Nat /\ m <= Waiting(b)
        BY <1>1
      <3>2. Len(x) \in Nat /\ Len(x) <= 1
        BY <1>4, Zenon
      <3>3. Len(z) \in Nat /\ (Len(z) = 0 \/ Len(z) = 1)
        BY <1>5
      <3>. QED
        BY <1>5, <3>1, <3>2, <3>3, Zenon
    <2>3. Len(x) + m + Len(z) <= Waiting(b) + 1
      BY <1>1, <2>1, <2>2, Zenon
    <2>. QED
      BY <1>3, <1>7, <2>3, Zenon
  <1>10. Iov(b, height, erase) = (x \o y) \o z
    BY Zenon DEF Iov, x, y, z, left, m
  <1>. QED
    BY <1>7, <1>8, <1>9, <1>10, Zenon DEF m

Windowed(b, height, erase, room) ==
  LET m == ShownOf(b, 80, height)
      iov == Iov(b, height, erase)
  IN  Result(buffer_flush_window(b, 80, height, erase, FALSE, room),
             Flushed(b, m), Status(Flushed(b, m)), SubSeq(iov, 1, Least(Len(iov), room)))

\* buffer_flush_window sends as much of the window as there is room for, and all of the
\* window's lines wait no more.
LEMMA WindowIs ==
  ASSUME NEW b \in Buf, b # <<>>, NEW height \in Int, NEW erase \in BOOLEAN, NEW room \in Nat \ {0}
  PROVE  Windowed(b, height, erase, room)
  <1>. DEFINE m == ShownOf(b, 80, height)
              iov == Iov(b, height, erase)
  <1>1. room \notin {NULL, 0}
    BY BufferAssumption
  <1>2. buffer_flush_window(b, 80, height, erase, FALSE, room)
          = [b |-> Flushed(b, m), st |-> Status(Flushed(b, m)), out |-> SubSeq(iov, 1, Least(Len(iov), room))]
    BY <1>1, Zenon DEF buffer_flush_window, ShownOf, Iov
  <1>. HIDE DEF m, iov
  <1>3. Result(buffer_flush_window(b, 80, height, erase, FALSE, room),
               Flushed(b, m), Status(Flushed(b, m)), SubSeq(iov, 1, Least(Len(iov), room)))
    BY <1>2, FlushResult, Zenon
  <1>. QED
    BY <1>3, Zenon DEF Windowed, m, iov

-----------------------------------------------------------------------------
(* The session                                                              *)

\* struct vty, also while a handler works on it.
Vty == [open : BOOLEAN, console : BOOLEAN, status : {"NORMAL", "MORE", "CLOSE"}, lines : {-1, 0, Height},
        width : {0, 1}, v_timeout : BOOLEAN, t_read : {"none", "fd", "wfd"}, t_write : BOOLEAN,
        t_timeout : BOOLEAN, obuf : Buf, due : Int, short : BOOLEAN]

\* What is due waits in obuf or, as n lines, in the descriptor; and the timer is right.
Held(s, n, console) ==
  /\ s \in Vty /\ s.open /\ s.console = console
  /\ s.short \/ s.due = Waiting(s.obuf) + n
  /\ s.t_timeout = s.v_timeout

\* A session and the bytes q in its descriptor, between two handlers.
Good(s, q) ==
  /\ s \in Vty /\ s.status # "CLOSE" /\ q \in Seq(Byte)
  /\ ~s.open => s = Closed
  /\ s.open => /\ Held(s, Newlines(q), s.console)
               /\ s.t_read # "none" \/ (s.t_write /\ s.lines = 0)
               /\ s.status = "MORE" => s.obuf # <<>> \/ s.t_write
               /\ Waiting(s.obuf) <= MaxQueue + 1
               /\ ~s.console => Len(q) <= Cap

IInv == Good(t, sock) /\ gone \in BOOLEAN /\ vty_timeout_val \in BOOLEAN

\* vty_out: the lines wait, and are due.
LEMMA OutHeld ==
  ASSUME NEW s, NEW m \in Nat, NEW c \in BOOLEAN, Held(s, m, c), NEW n \in Nat
  PROVE  Held(vty_out(s, n), m, c)
  <1>. DEFINE o == buffer_put(s.obuf, [i \in 1..n |-> "n"])
              u == IF s.short THEN 0 ELSE s.due + n
  <1>1. s \in Vty /\ s.obuf \in Buf /\ s.due \in Int
    BY DEF Held, Vty
  <1>2. o \in Buf /\ Waiting(o) = Waiting(s.obuf) + n /\ Waiting(s.obuf) \in Nat
    BY <1>1, PutWaits, BufWaits, ZenonT(60)
  <1>3. vty_out(s, n) = [s EXCEPT !.obuf = o, !.due = u]
    BY Zenon DEF vty_out
  <1>. HIDE DEF o
  <1>4. u \in Int /\ (s.short \/ u = Waiting(o) + m)
    BY <1>1, <1>2 DEF Held
  <1>. HIDE DEF u
  <1>. QED
    BY <1>1, <1>2, <1>3, <1>4, ZenonT(60) DEF Held, Vty

\* The lines a user drops are no longer due.
LEMMA DroppedHeld ==
  ASSUME NEW s, NEW m \in Nat, NEW c \in BOOLEAN, Held(s, m, c)
  PROVE  Held(Dropped(s), m, c)
  <1>. DEFINE o == <<>>
              u == IF s.short THEN 0 ELSE s.due - Waiting(s.obuf)
  <1>1. s \in Vty /\ s.obuf \in Buf /\ s.due \in Int /\ Waiting(s.obuf) \in Nat /\ o \in Buf /\ Waiting(o) = 0
    BY BufWaits DEF Held, Vty
  <1>2. Dropped(s) = [s EXCEPT !.obuf = o, !.due = u]
    BY Zenon DEF Dropped, buffer_reset, Waiting
  <1>3. u \in Int /\ (s.short \/ u = Waiting(o) + m)
    BY <1>1 DEF Held
  <1>. HIDE DEF u, o
  <1>4. [s EXCEPT !.obuf = o, !.due = u] \in Vty
    BY <1>1, <1>3, ZenonT(60) DEF Vty
  <1>. QED
    BY <1>1, <1>2, <1>3, <1>4 DEF Held, Vty

\* A setting of the terminal.
LEMMA SetHeld ==
  ASSUME NEW s, NEW m \in Nat, NEW c \in BOOLEAN, Held(s, m, c)
  PROVE  /\ Held([s EXCEPT !.width = 1], m, c) /\ Held([s EXCEPT !.status = "CLOSE"], m, c)
         /\ Held([s EXCEPT !.lines = 0], m, c) /\ Held([s EXCEPT !.lines = Height], m, c)
         /\ \A on \in BOOLEAN : Held(exec_timeout(s, on), m, c)
  <1>1. Held([s EXCEPT !.width = 1], m, c)
    BY DEF Held, Vty
  <1>2. Held([s EXCEPT !.status = "CLOSE"], m, c)
    BY DEF Held, Vty
  <1>3. Held([s EXCEPT !.lines = 0], m, c) /\ Held([s EXCEPT !.lines = Height], m, c)
    BY DEF Held, Vty
  <1>4. ASSUME NEW on \in BOOLEAN PROVE Held(exec_timeout(s, on), m, c)
    BY ZenonT(60) DEF Held, Vty, exec_timeout, VTY_TIMEOUT_RESET
  <1>. QED
    BY <1>1, <1>2, <1>3, <1>4

\* An input of any kind.
LEMMA OneInputHeld ==
  ASSUME NEW s, NEW m \in Nat, NEW c \in BOOLEAN, Held(s, m, c), NEW i \in Input
  PROVE  Held(OneInput(s, i), m, c)
  <1>1. 1 \in Nat /\ 3 \in Nat /\ TRUE \in BOOLEAN /\ FALSE \in BOOLEAN
    OBVIOUS
  <1>2. Held(vty_out(Dropped(s), 1), m, c) /\ Held(vty_out(s, 3), m, c)
    BY <1>1, OutHeld, DroppedHeld, Zenon
  <1>3. /\ Held(vty_out([s EXCEPT !.lines = 0], 1), m, c) /\ Held(vty_out([s EXCEPT !.lines = Height], 1), m, c)
        /\ Held([s EXCEPT !.width = 1], m, c) /\ Held([s EXCEPT !.status = "CLOSE"], m, c)
    BY <1>1, OutHeld, SetHeld, Zenon
  <1>4. Held(vty_out(exec_timeout(s, TRUE), 1), m, c) /\ Held(vty_out(exec_timeout(s, FALSE), 1), m, c)
    BY <1>1, OutHeld, SetHeld, Zenon
  <1>5. OneInput(s, i) \in {[s EXCEPT !.width = 1], vty_out(Dropped(s), 1), s, vty_out(s, 3), [s EXCEPT !.status = "CLOSE"],
                            vty_out([s EXCEPT !.lines = 0], 1), vty_out([s EXCEPT !.lines = Height], 1),
                            vty_out(exec_timeout(s, TRUE), 1), vty_out(exec_timeout(s, FALSE), 1)}
    BY Zenon DEF OneInput, Input
  <1>. QED
    BY <1>2, <1>3, <1>4, <1>5, Zenon

\* All inputs of a read.
LEMMA InputsHeld ==
  ASSUME NEW s, NEW m \in Nat, NEW c \in BOOLEAN, Held(s, m, c), NEW is \in Seq(Input)
  PROVE  Held(Inputs(s, is), m, c)
  <1>. DEFINE N == Len(is)
              S == {x \in Vty : Held(x, m, c)}
              Upto[n \in 0..Len(is)] == IF n = 0 THEN s ELSE OneInput(Upto[n - 1], is[n])
              step == [x \in (1..N) \X S |-> OneInput(x[2], is[x[1]])]
  <1>1. N \in Nat /\ s \in S
    <2>1. N \in Nat
      OBVIOUS
    <2>. QED
      BY <2>1, Zenon DEF Held
  <1>2. step \in [(1..N) \X S -> S]
    <2>1. ASSUME NEW n \in 1..N, NEW x \in S PROVE OneInput(x, is[n]) \in S
      <3>1. is[n] \in Input
        OBVIOUS
      <3>2. Held(OneInput(x, is[n]), m, c)
        BY <3>1, OneInputHeld, Zenon
      <3>. QED
        BY <3>2, Zenon DEF Held
    <2>. HIDE DEF S
    <2>. QED
      BY <2>1
  <1>. HIDE DEF step, S
  <1>3. PICK g : /\ g = [n \in 0..N |-> IF n = 0 THEN s ELSE step[<<n, g[n - 1]>>]]
                 /\ \A n \in 0..N : g[n] \in S
    <2>1. \E g : Iterates(g, S, N, s, step)
      BY <1>1, <1>2, Recursion, Zenon
    <2>. QED
      BY <2>1, Zenon DEF Iterates
  <1>4. ASSUME NEW n \in 1..N PROVE g[n] = OneInput(g[n - 1], is[n])
    <2>1. n \in 0..N /\ n # 0 /\ n - 1 \in 0..N
      OBVIOUS
    <2>2. g[n] = step[<<n, g[n - 1]>>]
      BY <1>3, <2>1, Zenon
    <2>3. <<n, g[n - 1]>> \in (1..N) \X S
      BY <1>3, <2>1
    <2>4. step[<<n, g[n - 1]>>] = OneInput(g[n - 1], is[n])
      BY <2>3 DEF step
    <2>. QED
      BY <2>2, <2>4, Zenon
  <1>5. g = [n \in 0..Len(is) |-> IF n = 0 THEN s ELSE OneInput(g[n - 1], is[n])]
    <2>1. \A n \in 0..Len(is) : g[n] = IF n = 0 THEN s ELSE OneInput(g[n - 1], is[n])
      <3>. SUFFICES ASSUME NEW n \in 0..Len(is)
                    PROVE  g[n] = IF n = 0 THEN s ELSE OneInput(g[n - 1], is[n])
        OBVIOUS
      <3>1. CASE n = 0
        BY <1>3, <3>1, Zenon
      <3>2. CASE n # 0
        <4>1. n \in 1..N
          BY <3>2
        <4>. QED
          BY <1>4, <3>2, <4>1, Zenon
      <3>. QED
        BY <3>1, <3>2, Zenon
    <2>2. \E f : g = [n \in 0..Len(is) |-> f[n]]
      <3>1. g = [n \in 0..Len(is) |-> [k \in 0..N |-> IF k = 0 THEN s ELSE step[<<k, g[k - 1]>>]][n]]
        BY <1>3, Zenon
      <3>. QED
        BY <3>1, Zenon
    <2>. QED
      BY <2>1, <2>2, Zenon
  <1>6. Upto = [n \in 0..Len(is) |-> IF n = 0 THEN s ELSE OneInput(Upto[n - 1], is[n])]
    <2>1. Upto = CHOOSE h : h = [n \in 0..Len(is) |-> IF n = 0 THEN s ELSE OneInput(h[n - 1], is[n])]
      BY Zenon DEF Upto
    <2>. QED
      BY <1>5, <2>1, Zenon
  <1>7. Inputs(s, is) = Upto[Len(is)]
    BY Zenon DEF Inputs
  <1>. HIDE DEF Upto
  <1>8. 0 \in 0..N /\ N \in 0..N /\ \A n \in 1..N : n \in 0..N /\ n # 0 /\ is[n] \in Input
    OBVIOUS
  <1>9. Upto[0] = s
    BY <1>6, <1>8, Zenon
  <1>10. \A n \in 1..N : Upto[n - 1] \in S => Upto[n] \in S
    <2>. SUFFICES ASSUME NEW n \in 1..N, Upto[n - 1] \in S PROVE Upto[n] \in S
      OBVIOUS
    <2>1. Upto[n] = OneInput(Upto[n - 1], is[n])
      BY <1>6, <1>8, Zenon
    <2>2. Held(OneInput(Upto[n - 1], is[n]), m, c)
      BY <1>8, OneInputHeld, Zenon DEF S
    <2>. QED
      BY <2>1, <2>2, Zenon DEF S, Held
  <1>11. Upto[N] \in S
    BY <1>1, <1>8, <1>9, <1>10, Stays, Zenon
  <1>. QED
    BY <1>7, <1>11, Zenon DEF S

\* exec-timeout is on or off.
LEMMA DefaultsType ==
  ASSUME NEW v \in BOOLEAN, NEW is \in Seq(Input)
  PROVE  Defaults(v, is) \in BOOLEAN
  <1>. DEFINE N == Len(is)
              Upto[n \in 0..Len(is)] == IF n = 0 THEN v ELSE Default(Upto[n - 1], is[n])
              step == [x \in (1..N) \X BOOLEAN |-> Default(x[2], is[x[1]])]
  <1>0. \A x \in BOOLEAN : \A i : Default(x, i) \in BOOLEAN
    BY Zenon DEF Default
  <1>1. N \in Nat
    OBVIOUS
  <1>2. step \in [(1..N) \X BOOLEAN -> BOOLEAN]
    BY <1>0
  <1>. HIDE DEF step
  <1>3. PICK g : /\ g = [n \in 0..N |-> IF n = 0 THEN v ELSE step[<<n, g[n - 1]>>]]
                 /\ \A n \in 0..N : g[n] \in BOOLEAN
    <2>1. \E g : Iterates(g, BOOLEAN, N, v, step)
      BY <1>1, <1>2, Recursion, Zenon
    <2>. QED
      BY <2>1, Zenon DEF Iterates
  <1>4. ASSUME NEW n \in 1..N PROVE g[n] = Default(g[n - 1], is[n])
    <2>1. n \in 0..N /\ n # 0 /\ n - 1 \in 0..N
      OBVIOUS
    <2>2. g[n] = step[<<n, g[n - 1]>>]
      BY <1>3, <2>1, Zenon
    <2>3. <<n, g[n - 1]>> \in (1..N) \X BOOLEAN
      BY <1>3, <2>1
    <2>4. step[<<n, g[n - 1]>>] = Default(g[n - 1], is[n])
      BY <2>3 DEF step
    <2>. QED
      BY <2>2, <2>4, Zenon
  <1>5. g = [n \in 0..Len(is) |-> IF n = 0 THEN v ELSE Default(g[n - 1], is[n])]
    <2>1. \A n \in 0..Len(is) : g[n] = IF n = 0 THEN v ELSE Default(g[n - 1], is[n])
      <3>. SUFFICES ASSUME NEW n \in 0..Len(is)
                    PROVE  g[n] = IF n = 0 THEN v ELSE Default(g[n - 1], is[n])
        OBVIOUS
      <3>1. CASE n = 0
        BY <1>3, <3>1, Zenon
      <3>2. CASE n # 0
        <4>1. n \in 1..N
          BY <3>2
        <4>. QED
          BY <1>4, <3>2, <4>1, Zenon
      <3>. QED
        BY <3>1, <3>2, Zenon
    <2>2. \E f : g = [n \in 0..Len(is) |-> f[n]]
      <3>1. g = [n \in 0..Len(is) |-> [k \in 0..N |-> IF k = 0 THEN v ELSE step[<<k, g[k - 1]>>]][n]]
        BY <1>3, Zenon
      <3>. QED
        BY <3>1, Zenon
    <2>. QED
      BY <2>1, <2>2, Zenon
  <1>6. Upto = [n \in 0..Len(is) |-> IF n = 0 THEN v ELSE Default(Upto[n - 1], is[n])]
    <2>1. Upto = CHOOSE h : h = [n \in 0..Len(is) |-> IF n = 0 THEN v ELSE Default(h[n - 1], is[n])]
      BY Zenon DEF Upto
    <2>. QED
      BY <1>5, <2>1, Zenon
  <1>7. Defaults(v, is) = Upto[Len(is)]
    BY Zenon DEF Defaults
  <1>. HIDE DEF Upto
  <1>8. 0 \in 0..N /\ N \in 0..N /\ \A n \in 1..N : n \in 0..N /\ n # 0
    OBVIOUS
  <1>9. Upto[0] = v
    BY <1>6, <1>8, Zenon
  <1>10. \A n \in 1..N : Upto[n - 1] \in BOOLEAN => Upto[n] \in BOOLEAN
    BY <1>0, <1>6, <1>8, Zenon
  <1>11. Upto[N] \in BOOLEAN
    BY <1>1, <1>8, <1>9, <1>10, Stays, Zenon
  <1>. QED
    BY <1>7, <1>11, Zenon

\* A read is a sequence of inputs.
LEMMA ReadsAreInputs == Reads \subseteq Seq(Input)
  <1>1. \A i \in Input : <<i>> \in Seq(Input)
    OBVIOUS
  <1>2. \A i, j \in Input : <<i, j>> \in Seq(Input)
    OBVIOUS
  <1>3. /\ "q" \in Input /\ "show" \in Input /\ "exit" \in Input /\ "length 0" \in Input
        /\ "timeout" \in Input /\ "naws" \in Input
    BY Zenon DEF Input
  <1>. QED
    BY <1>1, <1>2, <1>3, Zenon DEF Reads

\* What vty_close sends are lines that waited.
LEMMA AllIs ==
  ASSUME NEW b \in Buf, NEW room \in Rooms
  PROVE  buffer_flush_all(b, room).out \in Seq({"n"})
  <1>. DEFINE n == Least(Len(buffer_getstr(b)), room)
              left == Flushed(b, n)
              f == buffer_flush_all(b, room)
  <1>0. <<>> \in Seq({"n"})
    OBVIOUS
  <1>1. CASE b = <<>> \/ room = NULL
    <2>1. Result(f, b, "EMPTY", <<>>) \/ Result(f, b, "ERROR", <<>>)
      BY <1>1, FlushResult, Zenon DEF buffer_flush_all
    <2>. QED
      BY <1>0, <2>1, Zenon DEF Result
  <1>2. CASE b # <<>> /\ room # NULL
    <2>1. f = [b |-> left, st |-> Status(left), out |-> SubSeq(buffer_getstr(b), 1, n)]
      BY <1>2, Zenon DEF buffer_flush_all
    <2>2. n \in 0..Waiting(b)
      <3>1. room \in Nat
        BY <1>2 DEF Rooms
      <3>. QED
        BY <3>1, BufWaits DEF Least, Waiting
    <2>. HIDE DEF n, f, left
    <2>3. Result(f, left, Status(left), SubSeq(buffer_getstr(b), 1, n))
      BY <2>1, FlushResult, Zenon
    <2>4. SubSeq(buffer_getstr(b), 1, n) \in Seq({"n"})
      BY <2>2, BufWaits DEF Waiting
    <2>. QED
      BY <2>3, <2>4, Zenon DEF Result, f
  <1>. QED
    BY <1>1, <1>2, Zenon

\* One page: the lines shown wait no more, they fit in the window, and all of them are
\* sent unless the write is shorter than one that takes everything.
OnePage(f, b, height, erase, room) ==
  /\ f.b \in Buf /\ f.st = Status(f.b) /\ f.out \in Seq(Byte)
  /\ f.out = <<>> \/ Len(f.out) <= room
  /\ Waiting(f.b) <= Waiting(b)
  /\ Newlines(f.out) <= WindowLines(height)
  /\ \A big \in Nat : Waiting(b) < big
       => \/ Len(f.out) < Len(buffer_flush_window(b, 80, height, erase, FALSE, big).out)
          \/ Waiting(b) = Waiting(f.b) + Newlines(f.out)

\* buffer_flush_window sends one page.
LEMMA PageIs ==
  ASSUME NEW b \in Buf, NEW height \in Int, NEW erase \in BOOLEAN, NEW room \in Nat \ {0}
  PROVE  OnePage(buffer_flush_window(b, 80, height, erase, FALSE, room), b, height, erase, room)
  <1>. DEFINE f == buffer_flush_window(b, 80, height, erase, FALSE, room)
              m == ShownOf(b, 80, height)
              iov == Iov(b, height, erase)
              k == Least(Len(iov), room)
              left == Flushed(b, m)
  <1>0. WindowLines(height) \in Nat
    BY DEF WindowLines
  <1>1. CASE b = <<>>
    <2>1. f = [b |-> b, st |-> "EMPTY", out |-> <<>>]
      BY <1>1, Zenon DEF buffer_flush_window
    <2>2. f.b = <<>> /\ f.st = "EMPTY" /\ f.out = <<>>
      <3>1. Result(f, b, "EMPTY", <<>>)
        BY <2>1, FlushResult, Zenon
      <3>. QED
        BY <1>1, <3>1, Zenon DEF Result
    <2>3. <<>> \in Seq(Byte) /\ Newlines(<<>>) = 0 /\ Waiting(<<>>) = 0 /\ <<>> \in Buf /\ Status(<<>>) = "EMPTY"
      BY NewlinesOf, BufWaits DEF Status
    <2>4. 0 <= WindowLines(height) /\ 0 = 0 + 0 /\ 0 <= 0
      BY <1>0
    <2>. HIDE DEF f
    <2>. QED
      BY <1>1, <2>2, <2>3, <2>4, Zenon DEF OnePage, f
  <1>2. CASE b # <<>>
    <2>1. m \in 0..Waiting(b) /\ m <= WindowLines(height) /\ Waiting(b) \in Nat
      BY ShownIs, BufWaits
    <2>2. left \in Buf /\ Waiting(left) = Waiting(b) - m
      BY <2>1, FlushWaits, Zenon
    <2>3. iov \in Seq(Byte) /\ Newlines(iov) = m /\ Len(iov) <= Waiting(b) + 1
      BY IovIs, Zenon
    <2>4. f.b = left /\ f.st = Status(left) /\ f.out = SubSeq(iov, 1, k)
      <3>1. Windowed(b, height, erase, room)
        BY <1>2, WindowIs, Zenon
      <3>. QED
        BY <3>1, Zenon DEF Windowed, Result
    <2>5. ASSUME NEW big \in Nat, Waiting(b) < big
          PROVE  buffer_flush_window(b, 80, height, erase, FALSE, big).out = iov
      <3>1. big \in Nat \ {0}
        BY <2>1, <2>5
      <3>2. buffer_flush_window(b, 80, height, erase, FALSE, big).out = SubSeq(iov, 1, Least(Len(iov), big))
        <4>1. Windowed(b, height, erase, big)
          BY <1>2, <3>1, WindowIs, Zenon
        <4>. QED
          BY <4>1, Zenon DEF Windowed, Result
      <3>. HIDE DEF iov, m
      <3>3. Len(iov) \in Nat
        BY <2>3
      <3>4. Len(iov) <= big
        BY <2>1, <2>3, <2>5, <3>3
      <3>5. Least(Len(iov), big) = Len(iov)
        BY <3>3, <3>4 DEF Least
      <3>6. SubSeq(iov, 1, Len(iov)) = iov
        BY <2>3
      <3>. QED
        BY <3>2, <3>5, <3>6, Zenon
    <2>. HIDE DEF f, m, iov, left
    <2>6. k \in 0..Len(iov) /\ k <= room /\ Len(iov) \in Nat
      BY <2>3 DEF Least
    <2>. HIDE DEF k
    <2>7. f.out \in Seq(Byte) /\ Len(f.out) = k
      BY <2>3, <2>4, <2>6
    <2>8. Newlines(f.out) <= m /\ Newlines(f.out) \in Nat
      BY <2>3, <2>4, <2>6, <2>7, NewlinesPrefix, NewlinesType, Zenon
    <2>9. Newlines(f.out) <= WindowLines(height) /\ Waiting(left) <= Waiting(b)
      BY <1>0, <2>1, <2>2, <2>8
    <2>10. k < Len(iov) \/ Waiting(b) = Waiting(left) + Newlines(f.out)
      <3>1. CASE k = Len(iov)
        <4>1. SubSeq(iov, 1, k) = iov
          BY <2>3, <3>1
        <4>2. Newlines(f.out) = m
          BY <2>3, <2>4, <4>1, Zenon
        <4>. QED
          BY <2>1, <2>2, <4>2
      <3>. QED
        BY <2>6, <3>1
    <2>. QED
      BY <2>2, <2>4, <2>5, <2>6, <2>7, <2>9, <2>10, Zenon DEF OnePage, f
  <1>. QED
    BY <1>1, <1>2, Zenon

-----------------------------------------------------------------------------
(* The handlers keep the session good.                                      *)

\* A session that is closed, whatever is left in the descriptor.
LEMMA ClosedGood == ASSUME NEW q \in Seq(Byte) PROVE Good(Closed, q)
  <1>1. <<>> \in Buf
    BY BufWaits, Zenon
  <1>. DEFINE o == <<>>
  <1>2. Closed = [open |-> FALSE, console |-> FALSE, status |-> "NORMAL", lines |-> -1, width |-> 0,
                  v_timeout |-> FALSE, t_read |-> "none", t_write |-> FALSE, t_timeout |-> FALSE, obuf |-> o,
                  due |-> 0, short |-> FALSE]
    BY Zenon DEF Closed
  <1>. HIDE DEF o
  <1>3. Closed \in Vty /\ Closed.status = "NORMAL" /\ Closed.open = FALSE
    <2>1. o \in Buf
      BY <1>1, Zenon DEF o
    <2>. QED
      BY <1>2, <2>1 DEF Vty
  <1>. QED
    BY <1>3 DEF Good

\* What the descriptor takes: on a telnet connection, up to its capacity.
LEMMA RoomIs ==
  ASSUME IInv, t.open
  PROVE  Room \in Rooms /\ (Room \in Nat /\ ~t.console => Len(sock) + Room = Cap)
  <1>1. /\ t.console \in BOOLEAN /\ sock \in Seq(Byte) /\ (~t.console => Len(sock) <= Cap)
        /\ Len(sock) \in Nat
    BY DEF IInv, Good, Vty
  <1>2. CASE gone
    BY <1>2, BufferAssumption DEF Room, Rooms
  <1>3. CASE ~gone /\ ~t.console
    BY <1>1, <1>3, VtySessionAssumption DEF Room, Rooms
  <1>4. CASE ~gone /\ t.console
    BY <1>1, <1>4, VtySessionAssumption DEF Room, Rooms
  <1>. QED
    BY <1>2, <1>3, <1>4

\* vty_close: what is sent on the way are lines.
LEMMA ClosingGood ==
  ASSUME IInv, t.open, NEW s, s.obuf \in Buf, Closing(s)
  PROVE  Good(t', sock')
  <1>1. sock \in Seq(Byte)
    BY DEF IInv, Good
  <1>2. buffer_flush_all(s.obuf, Room).out \in Seq({"n"})
    BY RoomIs, AllIs, Zenon
  <1>. DEFINE out == buffer_flush_all(s.obuf, Room).out
  <1>3. t' = Closed /\ sock' = sock \o out
    BY Zenon DEF Closing, vty_close
  <1>. HIDE DEF out
  <1>4. out \in Seq(Byte)
    BY <1>2 DEF Byte, out
  <1>5. sock' \in Seq(Byte)
    BY <1>1, <1>3, <1>4
  <1>. QED
    BY <1>3, <1>5, ClosedGood, Zenon

\* An open session that is good holds its output.
LEMMA GoodHeld ==
  ASSUME IInv, t.open
  PROVE  /\ t \in Vty /\ t.console \in BOOLEAN /\ t.lines \in {-1, 0, Height} /\ t.obuf \in Buf
         /\ Newlines(sock) \in Nat /\ sock \in Seq(Byte)
         /\ Held(t, Newlines(sock), t.console)
  <1>1. t \in Vty /\ sock \in Seq(Byte) /\ Held(t, Newlines(sock), t.console)
    BY Zenon DEF IInv, Good
  <1>2. t.console \in BOOLEAN /\ t.lines \in {-1, 0, Height} /\ t.obuf \in Buf
    BY <1>1 DEF Vty
  <1>3. Newlines(sock) \in Nat
    BY <1>1, NewlinesType, Zenon
  <1>. QED
    BY <1>1, <1>2, <1>3, Zenon

\* vty_read.
LEMMA ReadGood ==
  ASSUME IInv, NEW is \in Reads, vty_read(is)
  PROVE  IInv'
  <1>. DEFINE s0 == [t EXCEPT !.t_read = "none"]
              s == Inputs(s0, is)
              acted == IF t.status = "MORE" THEN <<>> ELSE is
              n == Newlines(sock)
  <1>1. /\ t.open /\ Readable
        /\ Waiting(s.obuf) <= MaxQueue
        /\ vty_timeout_val' = Defaults(vty_timeout_val, acted)
        /\ IF s.status = "CLOSE" THEN Closing(s) ELSE t' = ReadDone(s, t.t_read) /\ UNCHANGED <<sock, stdio_vty>>
        /\ UNCHANGED <<gone, flushes>>
    BY Zenon DEF vty_read, Waiting
  <1>2. is \in Seq(Input) /\ <<>> \in Seq(Input)
    BY ReadsAreInputs
  <1>3. vty_timeout_val' \in BOOLEAN /\ gone' \in BOOLEAN
    <2>1. acted \in Seq(Input)
      BY <1>2, Zenon
    <2>. HIDE DEF acted
    <2>. QED
      BY <1>1, <2>1, DefaultsType, Zenon DEF IInv
  <1>4. /\ t \in Vty /\ t.console \in BOOLEAN /\ n \in Nat /\ sock \in Seq(Byte)
        /\ Held(t, n, t.console)
    BY <1>1, GoodHeld, Zenon
  <1>5. Held(s0, n, t.console)
    BY <1>4 DEF Held, Vty
  <1>. HIDE DEF s0, n
  <1>6. Held(s, n, t.console)
    BY <1>2, <1>4, <1>5, InputsHeld, Zenon
  <1>. HIDE DEF s
  <1>7. s \in Vty /\ s.open /\ s.console = t.console /\ s.obuf \in Buf
    BY <1>6 DEF Held, Vty
  <1>8. Good(t', sock')
    <2>1. CASE s.status = "CLOSE"
      <3>1. Closing(s)
        BY <1>1, <2>1, Zenon
      <3>. QED
        BY <1>1, <1>7, <3>1, ClosingGood, Zenon
    <2>2. CASE s.status # "CLOSE"
      <3>. DEFINE r == ReadDone(s, t.t_read)
      <3>1. t' = r /\ sock' = sock
        BY <1>1, <2>2, Zenon
      <3>2. t.t_read \in {"fd", "wfd"}
        BY <1>1, Zenon DEF Readable
      <3>3. r = [s EXCEPT !.t_write = TRUE, !.t_read = t.t_read, !.t_timeout = s.t_timeout \/ s.v_timeout]
        BY <1>7 DEF ReadDone, VTY_READ, VTY_WRITE, Vty
      <3>. HIDE DEF r
      <3>4. /\ r \in Vty /\ r.open /\ r.status # "CLOSE" /\ r.t_read # "none" /\ r.t_write /\ r.obuf = s.obuf
            /\ r.console = t.console
        BY <1>7, <2>2, <3>2, <3>3, ZenonT(60) DEF Vty
      <3>5. Held(r, n, t.console)
        BY <1>6, <1>7, <3>2, <3>3, <3>4 DEF Held, Vty
      <3>6. Waiting(r.obuf) <= MaxQueue + 1
        <4>1. Waiting(s.obuf) \in Nat /\ Waiting(s.obuf) <= MaxQueue
          BY <1>1, <1>7, BufWaits, Zenon
        <4>. QED
          BY <3>4, <4>1, VtySessionAssumption
      <3>7. ~r.console => Len(sock) <= Cap
        BY <1>1, <3>4, Zenon DEF IInv, Good
      <3>. QED
        BY <1>4, <3>1, <3>4, <3>5, <3>6, <3>7, Zenon DEF Good, n
    <2>. QED
      BY <2>1, <2>2, Zenon
  <1>. QED
    BY <1>3, <1>8, Zenon DEF IInv

\* vty_flush once its write task is cleared, what it sends, and whether a page is cut short.
Cleared == [t EXCEPT !.t_write = FALSE, !.t_read = IF t.lines = 0 THEN "none" ELSE @]
Window(room) == buffer_flush_window(Cleared.obuf, 80, IF Cleared.lines >= 0 THEN Cleared.lines ELSE Height,
                                    Cleared.status = "MORE", FALSE, room)
Sent == IF Paged(Cleared) THEN Window(Room) ELSE buffer_flush_available(Cleared.obuf, Room)
Short == Paged(Cleared) /\ Len(Sent.out) < Len(Window(MaxQueue + 2).out)
Ready == [Cleared EXCEPT !.obuf = Sent.b, !.short = @ \/ Short, !.due = IF Cleared.short \/ Short THEN 0 ELSE @]

\* A step of vty_flush in these terms.
LEMMA FlushStep ==
  ASSUME vty_flush
  PROVE  /\ t.open /\ t.t_write /\ Room # 0 /\ UNCHANGED <<gone, vty_timeout_val, keys>>
         /\ IF Sent.st = "ERROR" THEN Closing([Cleared EXCEPT !.obuf = buffer_reset(@)])
            ELSE t' = AfterFlush(Ready, Sent.st) /\ sock' = sock \o Sent.out /\ UNCHANGED stdio_vty
  BY Zenon DEF vty_flush, Cleared, Window, Sent, Short, Ready

\* The session once its write task is cleared.
LEMMA ClearedIs ==
  ASSUME IInv, t.open
  PROVE  /\ Cleared \in Vty /\ Cleared.open /\ Cleared.console = t.console /\ Cleared.status = t.status
         /\ Cleared.lines = t.lines /\ Cleared.width = t.width /\ Cleared.obuf = t.obuf
         /\ Cleared.lines # 0 => Cleared.t_read # "none"
         /\ Held(Cleared, Newlines(sock), t.console)
  <1>1. t \in Vty /\ Held(t, Newlines(sock), t.console)
    BY GoodHeld, Zenon
  <1>2. t.lines # 0 => t.t_read # "none"
    BY Zenon DEF IInv, Good
  <1>. QED
    BY <1>1, <1>2, ZenonT(60) DEF Cleared, Held, Vty

\* What a flush sends, paged or not: as many lines as wait no more, unless a page is cut
\* short; and a page fits in the window.
LEMMA SentIs ==
  ASSUME IInv, t.open, Room # 0, Sent.st # "ERROR"
  PROVE  /\ Sent.b \in Buf /\ Sent.st = Status(Sent.b) /\ Sent.out \in Seq(Byte)
         /\ Sent.out = <<>> \/ (Room \in Nat /\ Len(Sent.out) <= Room)
         /\ Waiting(Sent.b) <= Waiting(t.obuf)
         /\ Short \/ Waiting(t.obuf) = Waiting(Sent.b) + Newlines(Sent.out)
         /\ Paged(t) => Newlines(Sent.out) <= WindowLines(Height)
  <1>1. Room \in Rooms
    BY RoomIs, Zenon
  <1>2. /\ Cleared.lines = t.lines /\ Cleared.width = t.width /\ Cleared.obuf = t.obuf
        /\ Paged(Cleared) = Paged(t)
    BY ClearedIs, Zenon DEF Paged
  <1>3. t.obuf \in Buf /\ t.lines \in {-1, 0, Height} /\ Waiting(t.obuf) \in Nat
    BY GoodHeld, BufWaits, Zenon
  <1>4. CASE ~Paged(t)
    <2>1. Sent = buffer_flush_available(t.obuf, Room)
      BY <1>2, <1>4, Zenon DEF Sent
    <2>2. /\ Sent.b \in Buf /\ Sent.st = Status(Sent.b) /\ Sent.out \in Seq({"n"})
          /\ Sent.out = <<>> \/ (Room \in Nat /\ Len(Sent.out) <= Room)
          /\ Waiting(Sent.b) = Waiting(t.obuf) - Len(Sent.out)
      BY <1>1, <1>3, <2>1, AvailableIs, Zenon
    <2>3. Newlines(Sent.out) = Len(Sent.out)
      BY <2>2, NewlinesOf, Zenon
    <2>4. Sent.out \in Seq(Byte) /\ Len(Sent.out) \in Nat
      BY <2>2 DEF Byte
    <2>5. Waiting(Sent.b) \in Nat
      BY <2>2, BufWaits, Zenon
    <2>6. \A i, j, k \in Nat : i = j - k => i <= j /\ j = i + k
      OBVIOUS
    <2>7. Waiting(Sent.b) <= Waiting(t.obuf) /\ Waiting(t.obuf) = Waiting(Sent.b) + Newlines(Sent.out)
      BY <1>3, <2>2, <2>3, <2>4, <2>5, <2>6, Zenon
    <2>. QED
      BY <1>4, <2>2, <2>4, <2>7, Zenon
  <1>5. CASE Paged(t)
    <2>. DEFINE e == Cleared.status = "MORE"
                h == IF Cleared.lines >= 0 THEN Cleared.lines ELSE Height
    <2>1. h = Height /\ Height \in Int
      <3>1. t.lines # 0
        BY <1>5, Zenon DEF Paged
      <3>. QED
        BY <1>2, <1>3, <3>1, VtySessionAssumption
    <2>2. e \in BOOLEAN
      OBVIOUS
    <2>3. \A room : Window(room) = buffer_flush_window(t.obuf, 80, h, e, FALSE, room)
      BY <1>2, Zenon DEF Window
    <2>. HIDE DEF e, h
    <2>4. \A room : Window(room) = buffer_flush_window(t.obuf, 80, Height, e, FALSE, room)
      BY <2>1, <2>3, Zenon
    <2>5. Sent = Window(Room)
      BY <1>2, <1>5, Zenon DEF Sent
    <2>6. \E room \in Nat \ {0} : Sent = Window(room) /\ (Sent.out = <<>> \/ room = Room)
      <3>1. CASE Room \in Nat
        BY <2>5, <3>1, Zenon
      <3>2. CASE Room \notin Nat
        <4>1. Room = NULL
          BY <1>1, <3>2, Zenon DEF Rooms
        <4>2. t.obuf = <<>>
          <5>1. ASSUME t.obuf # <<>> PROVE \E x : Sent = [b |-> x, st |-> "ERROR", out |-> <<>>]
            BY <2>4, <2>5, <4>1, <5>1, Zenon DEF buffer_flush_window
          <5>2. ASSUME t.obuf # <<>> PROVE \E x : Result(Sent, x, "ERROR", <<>>)
            BY <5>1, <5>2, FlushResult, Zenon
          <5>. QED
            BY <5>2, Zenon DEF Result
        <4>3. \A room : Window(room) = [b |-> t.obuf, st |-> "EMPTY", out |-> <<>>]
          BY <2>4, <4>2, Zenon DEF buffer_flush_window
        <4>4. Result(Sent, t.obuf, "EMPTY", <<>>)
          BY <2>5, <4>3, FlushResult, Zenon
        <4>5. 1 \in Nat \ {0}
          OBVIOUS
        <4>. QED
          BY <2>5, <4>3, <4>4, <4>5, Zenon DEF Result
      <3>. QED
        BY <3>1, <3>2, Zenon
    <2>7. PICK room \in Nat \ {0} : Sent = Window(room) /\ (Sent.out = <<>> \/ room = Room)
      BY <2>6, Zenon
    <2>8. OnePage(Sent, t.obuf, Height, e, room)
      BY <1>3, <2>1, <2>2, <2>4, <2>7, PageIs, Zenon
    <2>9. Short \/ Waiting(t.obuf) = Waiting(Sent.b) + Newlines(Sent.out)
      <3>1. MaxQueue + 2 \in Nat /\ Waiting(t.obuf) < MaxQueue + 2
        <4>1. Waiting(t.obuf) <= MaxQueue + 1
          BY Zenon DEF IInv, Good
        <4>. QED
          BY <1>3, <4>1, VtySessionAssumption
      <3>2. \/ Len(Sent.out) < Len(buffer_flush_window(t.obuf, 80, Height, e, FALSE, MaxQueue + 2).out)
            \/ Waiting(t.obuf) = Waiting(Sent.b) + Newlines(Sent.out)
        BY <2>8, <3>1, Zenon DEF OnePage
      <3>. QED
        BY <1>2, <1>5, <2>4, <3>2, Zenon DEF Short
    <2>10. Sent.out = <<>> \/ (Room \in Nat /\ Len(Sent.out) <= Room)
      BY <2>7, <2>8, Zenon DEF OnePage
    <2>. QED
      BY <2>8, <2>9, <2>10, Zenon DEF OnePage
  <1>. QED
    BY <1>4, <1>5, Zenon

\* The end of vty_flush: reading resumes or goes on, and --More-- is shown over output only.
LEMMA AfterFlushGood ==
  ASSUME NEW s, NEW q \in Seq(Byte), Held(s, Newlines(q), s.console),
         s.lines # 0 => s.t_read # "none", Waiting(s.obuf) <= MaxQueue + 1, ~s.console => Len(q) <= Cap
  PROVE  Good(AfterFlush(s, Status(s.obuf)), q)
  <1>. DEFINE r == AfterFlush(s, Status(s.obuf))
  <1>1. s \in Vty /\ s.open /\ s.t_timeout \in BOOLEAN /\ s.v_timeout \in BOOLEAN /\ s.t_timeout = s.v_timeout /\ s.console \in BOOLEAN
    BY DEF Held, Vty
  <1>2. wfd(s) \in {"fd", "wfd"}
    BY DEF wfd
  <1>3. CASE s.obuf = <<>>
    <2>1. Status(s.obuf) = "EMPTY"
      BY <1>3, Zenon DEF Status
    <2>2. CASE s.lines = 0
      <3>1. r = VTY_READ([s EXCEPT !.status = "NORMAL"], wfd(s))
        BY <2>1, <2>2, Zenon DEF AfterFlush
      <3>. DEFINE w == wfd(s)
      <3>2. r = [s EXCEPT !.status = "NORMAL", !.t_read = w, !.t_timeout = s.t_timeout \/ s.v_timeout]
        BY <1>1, <3>1, ZenonT(60) DEF VTY_READ, Vty
      <3>. HIDE DEF r, w
      <3>3. /\ r \in Vty /\ r.open /\ r.status = "NORMAL" /\ r.t_read = w /\ r.obuf = s.obuf /\ r.console = s.console
            /\ r.due = s.due /\ r.short = s.short /\ r.t_timeout = r.v_timeout
        BY <1>1, <1>2, <3>2, ZenonT(60) DEF Vty, w
      <3>4. w # "none"
        BY <1>2 DEF w
      <3>. QED
        BY <3>3, <3>4 DEF Good, Held, r
    <2>3. CASE s.lines # 0
      <3>1. r = [s EXCEPT !.status = "NORMAL"]
        BY <2>1, <2>3, Zenon DEF AfterFlush
      <3>. HIDE DEF r
      <3>2. /\ r \in Vty /\ r.open /\ r.status = "NORMAL" /\ r.t_read = s.t_read /\ r.obuf = s.obuf /\ r.console = s.console
            /\ r.due = s.due /\ r.short = s.short /\ r.t_timeout = r.v_timeout
        BY <1>1, <3>1 DEF Vty
      <3>. QED
        BY <2>3, <3>2 DEF Good, Held, r
    <2>. QED
      BY <2>2, <2>3, Zenon
  <1>4. CASE s.obuf # <<>>
    <2>1. Status(s.obuf) = "PENDING" /\ "PENDING" # "EMPTY"
      BY <1>4 DEF Status
    <2>2. CASE s.lines = 0
      <3>1. r = VTY_WRITE([s EXCEPT !.status = "MORE"])
        BY <2>1, <2>2, Zenon DEF AfterFlush
      <3>2. r = [s EXCEPT !.status = "MORE", !.t_write = TRUE]
        BY <1>1, <3>1 DEF VTY_WRITE, Vty
      <3>. HIDE DEF r
      <3>3. /\ r \in Vty /\ r.open /\ r.status = "MORE" /\ r.t_write /\ r.lines = 0 /\ r.obuf = s.obuf
            /\ r.console = s.console /\ r.due = s.due /\ r.short = s.short /\ r.t_timeout = r.v_timeout
        BY <1>1, <2>2, <3>2, ZenonT(60) DEF Vty
      <3>. QED
        BY <3>3 DEF Good, Held, r
    <2>3. CASE s.lines # 0
      <3>1. r = [s EXCEPT !.status = "MORE"]
        BY <2>1, <2>3, Zenon DEF AfterFlush
      <3>. HIDE DEF r
      <3>2. /\ r \in Vty /\ r.open /\ r.status = "MORE" /\ r.t_read = s.t_read /\ r.obuf = s.obuf
            /\ r.console = s.console /\ r.due = s.due /\ r.short = s.short /\ r.t_timeout = r.v_timeout
        BY <1>1, <3>1 DEF Vty
      <3>. QED
        BY <1>4, <2>3, <3>2 DEF Good, Held, r
    <2>. QED
      BY <2>2, <2>3, Zenon
  <1>. QED
    BY <1>3, <1>4, Zenon

\* vty_flush.
LEMMA FlushGood ==
  ASSUME IInv, vty_flush
  PROVE  IInv'
  <1>1. /\ t.open /\ Room # 0 /\ UNCHANGED <<gone, vty_timeout_val>>
        /\ IF Sent.st = "ERROR" THEN Closing([Cleared EXCEPT !.obuf = buffer_reset(@)])
           ELSE t' = AfterFlush(Ready, Sent.st) /\ sock' = sock \o Sent.out
    BY FlushStep, Zenon
  <1>2. gone' \in BOOLEAN /\ vty_timeout_val' \in BOOLEAN
    BY <1>1, Zenon DEF IInv
  <1>3. Cleared \in Vty
    BY <1>1, ClearedIs, Zenon
  <1>4. CASE Sent.st = "ERROR"
    <2>. DEFINE o == <<>>
                s == [Cleared EXCEPT !.obuf = o]
    <2>1. Closing(s)
      BY <1>1, <1>4, Zenon DEF buffer_reset
    <2>2. o \in Buf
      BY BufWaits, Zenon
    <2>. HIDE DEF o
    <2>3. s.obuf \in Buf
      BY <1>3, <2>2 DEF Vty
    <2>. HIDE DEF s
    <2>. QED
      BY <1>1, <1>2, <2>1, <2>3, ClosingGood, Zenon DEF IInv
  <1>5. CASE Sent.st # "ERROR"
    <2>. DEFINE q == sock \o Sent.out
    <2>1. t' = AfterFlush(Ready, Sent.st) /\ sock' = q
      BY <1>1, <1>5, Zenon
    <2>2. /\ Sent.b \in Buf /\ Sent.st = Status(Sent.b) /\ Sent.out \in Seq(Byte)
          /\ Sent.out = <<>> \/ (Room \in Nat /\ Len(Sent.out) <= Room)
          /\ Waiting(Sent.b) <= Waiting(t.obuf)
          /\ Short \/ Waiting(t.obuf) = Waiting(Sent.b) + Newlines(Sent.out)
      BY <1>1, <1>5, SentIs, Zenon
    <2>3. t.obuf \in Buf /\ sock \in Seq(Byte) /\ Newlines(sock) \in Nat /\ t.console \in BOOLEAN
      BY <1>1, GoodHeld, Zenon
    <2>4. q \in Seq(Byte) /\ Len(q) = Len(sock) + Len(Sent.out) /\ Len(sock) \in Nat /\ Len(Sent.out) \in Nat
      BY <2>2, <2>3
    <2>5. Newlines(q) = Newlines(sock) + Newlines(Sent.out) /\ Newlines(Sent.out) \in Nat /\ Newlines(q) \in Nat
      <3>1. Newlines(q) = Newlines(sock) + Newlines(Sent.out)
        BY <2>2, <2>3, NewlinesConcat, Zenon
      <3>. HIDE DEF q
      <3>. QED
        BY <2>2, <2>4, <3>1, NewlinesType, Zenon
    <2>. HIDE DEF q
    <2>6. /\ Cleared.open /\ Cleared.console = t.console /\ Cleared.obuf = t.obuf
          /\ Cleared.lines # 0 => Cleared.t_read # "none"
          /\ Held(Cleared, Newlines(sock), t.console)
      BY <1>1, ClearedIs, Zenon
    <2>. DEFINE x == Sent.b
                h == Short
                d == IF Cleared.short \/ h THEN 0 ELSE Cleared.due
    <2>7. Ready = [Cleared EXCEPT !.obuf = x, !.short = Cleared.short \/ h, !.due = d]
      BY Zenon DEF Ready
    <2>8. h \in BOOLEAN /\ x \in Buf
      <3>1. h \in BOOLEAN
        BY Zenon DEF Short
      <3>. QED
        BY <2>2, <3>1, Zenon
    <2>9. Waiting(x) \in Nat /\ Waiting(t.obuf) \in Nat
      BY <2>2, <2>3, BufWaits, Zenon
    <2>10. h \/ Waiting(t.obuf) = Waiting(x) + Newlines(Sent.out)
      BY <2>2, Zenon
    <2>. HIDE DEF x, h
    <2>11. Cleared.short \in BOOLEAN /\ Cleared.due \in Int
      BY <1>3 DEF Vty
    <2>12. d \in Int /\ (Cleared.short \/ h \/ d = Waiting(x) + Newlines(q))
      <3>1. Cleared.short \/ Cleared.due = Waiting(t.obuf) + Newlines(sock)
        BY <2>6, Zenon DEF Held
      <3>. QED
        BY <2>3, <2>5, <2>9, <2>10, <2>11, <3>1
    <2>. HIDE DEF d
    <2>13. /\ Ready \in Vty /\ Ready.open /\ Ready.console = t.console /\ Ready.obuf = x
           /\ Ready.short = (Cleared.short \/ h) /\ Ready.due = d /\ Ready.lines = Cleared.lines
           /\ Ready.t_read = Cleared.t_read /\ Ready.t_timeout = Cleared.t_timeout /\ Ready.v_timeout = Cleared.v_timeout
      BY <1>3, <2>6, <2>7, <2>8, <2>11, <2>12, ZenonT(60) DEF Vty
    <2>14. Held(Ready, Newlines(q), Ready.console)
      BY <2>6, <2>12, <2>13, Zenon DEF Held
    <2>15. Ready.lines # 0 => Ready.t_read # "none"
      BY <2>6, <2>13, Zenon
    <2>16. Waiting(Ready.obuf) <= MaxQueue + 1
      <3>1. Waiting(t.obuf) <= MaxQueue + 1
        BY <1>1, Zenon DEF IInv, Good
      <3>2. Waiting(x) <= Waiting(t.obuf)
        BY <2>2, Zenon DEF x
      <3>. QED
        BY <2>9, <2>13, <3>1, <3>2, VtySessionAssumption
    <2>17. ~Ready.console => Len(q) <= Cap
      <3>. SUFFICES ASSUME ~Ready.console PROVE Len(q) <= Cap
        OBVIOUS
      <3>1. ~t.console /\ Len(sock) <= Cap
        BY <1>1, <2>13, Zenon DEF IInv, Good
      <3>2. CASE Sent.out = <<>>
        BY <2>4, <3>1, <3>2
      <3>3. CASE Room \in Nat /\ Len(Sent.out) <= Room
        <4>1. Len(sock) + Room = Cap
          BY <1>1, <3>1, <3>3, RoomIs, Zenon
        <4>. QED
          BY <2>4, <3>3, <4>1
      <3>. QED
        BY <2>2, <3>2, <3>3, Zenon
    <2>18. Good(AfterFlush(Ready, Status(Ready.obuf)), q)
      BY <2>4, <2>14, <2>15, <2>16, <2>17, AfterFlushGood, Zenon
    <2>. QED
      BY <1>2, <2>1, <2>2, <2>13, <2>18, Zenon DEF IInv, x
  <1>. QED
    BY <1>4, <1>5, Zenon

\* The start of a session: the first output waits, and all tasks are armed.
LEMMA NewGood ==
  ASSUME NEW c \in BOOLEAN, NEW v \in BOOLEAN, NEW p \in BOOLEAN
  PROVE  Good(NewSession([Closed EXCEPT !.open = p, !.console = c, !.v_timeout = v]), <<>>)
  <1>. DEFINE s == [Closed EXCEPT !.open = p, !.console = c, !.v_timeout = v]
              e == <<>>
              o == buffer_put(e, [i \in 1..1 |-> "n"])
              s1 == [s EXCEPT !.open = TRUE]
              s2 == vty_out(s1, 1)
              r == NewSession(s)
  <1>1. o \in Buf /\ Waiting(o) = 1
    <2>1. 1 \in Nat /\ e \in Buf /\ Waiting(e) = 0
      BY BufWaits
    <2>2. o \in Buf /\ Waiting(o) = Waiting(e) + 1
      BY <2>1, PutWaits, Zenon
    <2>. QED
      BY <2>1, <2>2
  <1>2. Closed.obuf = e /\ Closed.short = FALSE /\ Closed.due = 0 /\ Closed.status = "NORMAL" /\ Closed.t_timeout = FALSE
    BY Zenon DEF Closed
  <1>3. Closed \in Vty
    <2>1. <<>> \in Seq(Byte)
      OBVIOUS
    <2>. QED
      BY <2>1, ClosedGood, Zenon DEF Good
  <1>. HIDE DEF e, o
  <1>4. /\ s1 \in Vty /\ s1.obuf = e /\ s1.short = FALSE /\ s1.due = 0 /\ s1.open /\ s1.console = c
        /\ s1.v_timeout = v /\ s1.status = "NORMAL" /\ ~s1.t_timeout
    BY <1>2, <1>3, ZenonT(60) DEF Vty
  <1>. HIDE DEF s1, s
  <1>5. s2 = [s1 EXCEPT !.obuf = o, !.due = 1]
    <2>1. s2 = [s1 EXCEPT !.obuf = o, !.due = IF s1.short THEN 0 ELSE s1.due + 1]
      BY <1>4, Zenon DEF vty_out, o
    <2>2. (IF s1.short THEN 0 ELSE s1.due + 1) = 1
      BY <1>4
    <2>. QED
      BY <2>1, <2>2, Zenon
  <1>. HIDE DEF s2
  <1>6. /\ s2 \in Vty /\ s2.obuf = o /\ s2.due = 1 /\ s2.open /\ s2.console = c /\ s2.v_timeout = v
        /\ s2.status = "NORMAL" /\ ~s2.t_timeout
    <2>. DEFINE d == 1
    <2>1. d \in Int /\ o \in Buf /\ s1 \in Vty
      BY <1>1, <1>4
    <2>2. s2 = [s1 EXCEPT !.obuf = o, !.due = d]
      BY <1>5, Zenon
    <2>. HIDE DEF d
    <2>3. s2 \in Vty
      BY <2>1, <2>2, ZenonT(60) DEF Vty
    <2>4. s2.obuf = o /\ s2.due = d
      BY <2>1, <2>2 DEF Vty
    <2>5. /\ s2.open = s1.open /\ s2.console = s1.console /\ s2.v_timeout = s1.v_timeout
          /\ s2.status = s1.status /\ s2.t_timeout = s1.t_timeout
      BY <2>1, <2>2 DEF Vty
    <2>. QED
      BY <1>4, <2>3, <2>4, <2>5, Zenon DEF d
  <1>7. /\ r \in Vty /\ r.open /\ r.status # "CLOSE" /\ r.console = c /\ r.t_timeout = r.v_timeout /\ r.t_read # "none"
        /\ r.obuf = o /\ r.due = 1 /\ r.t_write
    <2>1. r = VTY_READ(VTY_WRITE(s2), "fd")
      BY Zenon DEF NewSession, s2, s1
    <2>. QED
      BY <1>6, <2>1, ZenonT(60) DEF VTY_READ, VTY_WRITE, Vty
  <1>. HIDE DEF r
  <1>8. <<>> \in Seq(Byte) /\ Newlines(<<>>) = 0 /\ Len(<<>>) = 0
    BY NewlinesOf
  <1>9. 1 = Waiting(o) + 0 /\ Waiting(o) <= MaxQueue + 1 /\ 0 <= Cap
    BY <1>1, VtySessionAssumption
  <1>10. Held(r, Newlines(<<>>), r.console)
    BY <1>7, <1>8, <1>9, Zenon DEF Held
  <1>. QED
    BY <1>7, <1>8, <1>9, <1>10, Zenon DEF Good, r, s

\* The terminal takes a byte: a line that it gets is no longer due.
LEMMA TakenGood ==
  ASSUME IInv, PeerTakes
  PROVE  IInv'
  <1>. DEFINE c == Head(sock)
              q == Tail(sock)
  <1>1. sock \in Seq(Byte) /\ sock # <<>> /\ sock' = q /\ UNCHANGED <<gone, vty_timeout_val>>
    BY Zenon DEF IInv, Good, PeerTakes
  <1>2. t' = IF t.open /\ ~t.short /\ c = "n" THEN [t EXCEPT !.due = @ - 1] ELSE t
    BY Zenon DEF PeerTakes
  <1>3. /\ c \in Byte /\ q \in Seq(Byte) /\ sock = <<c>> \o q /\ <<c>> \in Seq(Byte)
        /\ Len(sock) = Len(q) + 1 /\ Len(q) \in Nat
    <2>1. c \in Byte /\ q \in Seq(Byte) /\ Len(sock) = Len(q) + 1 /\ Len(q) \in Nat /\ Len(<<c>> \o q) = Len(sock)
      BY <1>1
    <2>2. \A i \in 1..Len(sock) : sock[i] = (<<c>> \o q)[i]
      BY <1>1
    <2>3. <<c>> \in Seq(Byte) /\ <<c>> \o q \in Seq(Byte)
      BY <2>1
    <2>4. sock = <<c>> \o q
      BY <1>1, <2>1, <2>2, <2>3, SeqEqual
    <2>. QED
      BY <2>1, <2>3, <2>4, Zenon
  <1>. HIDE DEF c, q
  <1>4. Newlines(sock) = Newlines(<<c>>) + Newlines(q) /\ Newlines(q) \in Nat
    BY <1>3, NewlinesConcat, NewlinesType, Zenon
  <1>5. Newlines(<<c>>) = IF c = "n" THEN 1 ELSE 0
    <2>1. <<"n">> \in Seq({"n"}) /\ Len(<<"n">>) = 1
      OBVIOUS
    <2>2. Newlines(<<"n">>) = 1
      BY <2>1, NewlinesOf, Zenon
    <2>3. c # "n" => Newlines(<<c>>) = 0
      BY NewlinesOf, Zenon
    <2>. QED
      BY <2>2, <2>3, Zenon
  <1>6. Good(t', q)
    <2>1. CASE ~t.open
      <3>1. t' = t /\ t = Closed
        BY <1>2, <2>1, Zenon DEF IInv, Good
      <3>. QED
        BY <1>3, <3>1, ClosedGood, Zenon
    <2>2. CASE t.open
      <3>. DEFINE d == IF ~t.short /\ c = "n" THEN t.due - 1 ELSE t.due
      <3>1. t \in Vty /\ t.obuf \in Buf /\ t.due \in Int /\ t.short \in BOOLEAN
        BY DEF IInv, Good, Vty
      <3>2. t' = [t EXCEPT !.due = d]
        BY <1>2, <2>2, <3>1 DEF Vty
      <3>3. d \in Int /\ (t.short \/ d = Waiting(t.obuf) + Newlines(q))
        <4>1. t.short \/ t.due = Waiting(t.obuf) + Newlines(sock)
          BY <2>2, Zenon DEF IInv, Good, Held
        <4>2. Waiting(t.obuf) \in Nat
          BY <3>1, BufWaits, Zenon
        <4>. QED
          BY <1>4, <1>5, <3>1, <4>1, <4>2
      <3>. HIDE DEF d
      <3>. DEFINE r == [t EXCEPT !.due = d]
      <3>4. /\ r \in Vty /\ r.due = d /\ r.open = t.open /\ r.console = t.console /\ r.status = t.status /\ r.lines = t.lines
            /\ r.v_timeout = t.v_timeout /\ r.t_read = t.t_read /\ r.t_write = t.t_write
            /\ r.t_timeout = t.t_timeout /\ r.obuf = t.obuf /\ r.short = t.short
        BY <3>1, <3>3 DEF Vty
      <3>. HIDE DEF r
      <3>5. Held(r, Newlines(q), r.console)
        BY <2>2, <3>3, <3>4, Zenon DEF IInv, Good, Held
      <3>6. /\ t.status # "CLOSE" /\ (t.t_read # "none" \/ (t.t_write /\ t.lines = 0))
            /\ (t.status = "MORE" => t.obuf # <<>> \/ t.t_write)
            /\ Waiting(t.obuf) <= MaxQueue + 1 /\ (~t.console => Len(sock) <= Cap)
        BY <2>2, Zenon DEF IInv, Good
      <3>7. ~t.console => Len(q) <= Cap
        BY <1>3, <3>6, VtySessionAssumption
      <3>8. Good(r, q)
        BY <1>3, <2>2, <3>4, <3>5, <3>6, <3>7, Zenon DEF Good
      <3>. QED
        BY <3>2, <3>8, Zenon DEF r
    <2>. QED
      BY <2>1, <2>2, Zenon
  <1>. QED
    BY <1>1, <1>6, Zenon DEF IInv

\* A connection is accepted, or the console is opened.
LEMMA StartGood ==
  ASSUME IInv, (\E password \in BOOLEAN : vty_accept(password)) \/ vty_stdio
  PROVE  IInv'
  <1>1. Closed \in Vty /\ <<>> \in Seq(Byte) /\ Good(Closed, <<>>)
    <2>1. <<>> \in Seq(Byte)
      OBVIOUS
    <2>. QED
      BY <2>1, ClosedGood, Zenon DEF Good
  <1>2. Closed.open = FALSE /\ Closed.console = FALSE /\ Closed.v_timeout = FALSE
    BY Zenon DEF Closed
  <1>3. CASE \E password \in BOOLEAN : vty_accept(password)
    <2>. DEFINE s == [Closed EXCEPT !.open = TRUE, !.v_timeout = vty_timeout_val]
    <2>1. /\ sock' = <<>> /\ gone' = FALSE /\ vty_timeout_val' = vty_timeout_val
          /\ t' = NewSession(s) \/ t' = Closed
      BY <1>3, Zenon DEF vty_accept, vty_close
    <2>2. vty_timeout_val \in BOOLEAN
      BY Zenon DEF IInv
    <2>3. s = [Closed EXCEPT !.open = TRUE, !.console = FALSE, !.v_timeout = vty_timeout_val]
      BY <1>1, <1>2, <2>2, ZenonT(60) DEF Vty
    <2>4. Good(NewSession(s), <<>>)
      BY <2>2, <2>3, NewGood, Zenon
    <2>. HIDE DEF s
    <2>. QED
      BY <1>1, <2>1, <2>2, <2>4, Zenon DEF IInv
  <1>4. CASE vty_stdio
    <2>. DEFINE s == [Closed EXCEPT !.console = TRUE]
    <2>1. sock' = <<>> /\ gone' = FALSE /\ vty_timeout_val' = vty_timeout_val /\ t' = NewSession(s)
      BY <1>4, Zenon DEF vty_stdio
    <2>2. s = [Closed EXCEPT !.open = FALSE, !.console = TRUE, !.v_timeout = FALSE]
      BY <1>1, <1>2, ZenonT(60) DEF Vty
    <2>3. Good(NewSession(s), <<>>)
      BY <2>2, NewGood, Zenon
    <2>. HIDE DEF s
    <2>. QED
      BY <2>1, <2>3, Zenon DEF IInv
  <1>. QED
    BY <1>3, <1>4, Zenon

\* The end of file, a read to be retried, the timer, and a peer that goes.
LEMMA OthersGood ==
  ASSUME IInv, ReadEnd \/ ReadRetry \/ vty_timeout \/ PeerGone
  PROVE  IInv'
  <1>1. t.open /\ vty_timeout_val' = vty_timeout_val /\ gone' \in BOOLEAN
    BY Zenon DEF IInv, ReadEnd, ReadRetry, vty_timeout, PeerGone
  <1>2. t \in Vty /\ t.obuf \in Buf /\ t.t_timeout \in BOOLEAN /\ t.v_timeout \in BOOLEAN /\ t.console \in BOOLEAN
    BY <1>1 DEF IInv, Good, Vty
  <1>3. CASE ReadEnd
    <2>. DEFINE s == [t EXCEPT !.t_read = "none", !.status = "CLOSE"]
    <2>1. Closing(s)
      BY <1>3, Zenon DEF ReadEnd
    <2>2. s.obuf \in Buf
      BY <1>2 DEF Vty
    <2>. HIDE DEF s
    <2>. QED
      BY <1>1, <2>1, <2>2, ClosingGood, Zenon DEF IInv
  <1>4. CASE ReadRetry
    <2>1. t' = VTY_READ([t EXCEPT !.t_read = "none"], t.t_read) /\ sock' = sock
      BY <1>4, Zenon DEF ReadRetry
    <2>2. t.t_timeout = t.v_timeout
      BY <1>1, Zenon DEF IInv, Good, Held
    <2>3. t' = t
      BY <1>2, <2>1, <2>2, ZenonT(60) DEF VTY_READ, Vty
    <2>. QED
      BY <1>1, <2>1, <2>3, Zenon DEF IInv
  <1>5. CASE vty_timeout
    <2>. DEFINE u == [t EXCEPT !.t_timeout = FALSE, !.v_timeout = FALSE]
                s == vty_out(Dropped(u), 1)
    <2>1. Closing(s)
      BY <1>5, Zenon DEF vty_timeout
    <2>2. Held(t, Newlines(sock), t.console) /\ Newlines(sock) \in Nat /\ 1 \in Nat
      BY <1>1, GoodHeld, Zenon
    <2>3. Held(u, Newlines(sock), t.console)
      BY <1>2, <2>2, ZenonT(60) DEF Held, Vty
    <2>. HIDE DEF u
    <2>4. Held(s, Newlines(sock), t.console)
      BY <1>2, <2>2, <2>3, DroppedHeld, OutHeld, Zenon
    <2>. HIDE DEF s
    <2>5. s.obuf \in Buf
      BY <2>4 DEF Held, Vty
    <2>. QED
      BY <1>1, <2>1, <2>5, ClosingGood, Zenon DEF IInv
  <1>6. CASE PeerGone
    BY <1>1, <1>6, Zenon DEF IInv, PeerGone
  <1>. QED
    BY <1>3, <1>4, <1>5, <1>6, Zenon

\* No step breaks the invariant, and it holds at the start.
THEOREM Invariance == Spec => []IInv
  <1>1. Init => IInv
    <2>1. <<>> \in Seq(Byte)
      OBVIOUS
    <2>. QED
      BY <2>1, ClosedGood, Zenon DEF Init, IInv
  <1>2. IInv /\ [Next]_vars => IInv'
    <2>. SUFFICES ASSUME IInv, [Next]_vars PROVE IInv'
      OBVIOUS
    <2>1. CASE UNCHANGED vars
      BY <2>1, Zenon DEF vars, IInv
    <2>2. CASE \E is \in Reads : vty_read(is)
      BY <2>2, ReadGood, Zenon
    <2>3. CASE ReadEnd \/ ReadRetry \/ vty_timeout \/ PeerGone
      BY <2>3, OthersGood, Zenon
    <2>4. CASE vty_flush
      BY <2>4, FlushGood, Zenon
    <2>5. CASE (\E password \in BOOLEAN : vty_accept(password)) \/ vty_stdio
      BY <2>5, StartGood, Zenon
    <2>6. CASE PeerTakes
      BY <2>6, TakenGood, Zenon
    <2>. QED
      BY <2>1, <2>2, <2>3, <2>4, <2>5, <2>6, Zenon DEF Next
  <1>. QED
    BY <1>1, <1>2, PTL DEF Spec

-----------------------------------------------------------------------------
(* What follows from it.                                                    *)

\* The output of a session arrives once and in full, for any capacity of the descriptor,
\* any window, any size of the chunks and however it is split into flushes, pages and
\* short writes (vty_out, vty_flush, buffer.c).
THEOREM OutputArrives == Spec => []OutputKept
  <1>1. IInv => OutputKept
    <2>. SUFFICES ASSUME IInv PROVE OutputKept
      OBVIOUS
    <2>1. t \in Vty /\ t.status # "CLOSE" /\ (~t.open => t = Closed)
      BY Zenon DEF IInv, Good
    <2>2. /\ t.status \in {"NORMAL", "MORE"} /\ t.lines \in {-1, 0, Height} /\ t.width \in {0, 1}
          /\ t.t_read \in {"none", "fd", "wfd"} /\ t.obuf \in Buf
      BY <2>1 DEF Vty
    <2>3. \A i \in 1..Len(t.obuf) : 0 <= t.obuf[i].sp /\ t.obuf[i].sp < Len(t.obuf[i].data)
      <3>1. t.obuf \in Seq(Chunk({"n"})) /\ \A i \in 1..Len(t.obuf) : t.obuf[i].sp < Len(t.obuf[i].data)
        BY <2>2, Zenon DEF Buf, NoEmptyChunk
      <3>2. \A i \in 1..Len(t.obuf) : t.obuf[i] \in Chunk({"n"})
        BY <3>1
      <3>3. \A i \in 1..Len(t.obuf) : 0 <= t.obuf[i].sp
        BY <3>2 DEF Chunk
      <3>. QED
        BY <3>1, <3>3, Zenon
    <2>4. NothingLost
      BY Zenon DEF IInv, Good, Held, NothingLost, Waiting
    <2>. QED
      BY <2>1, <2>2, <2>3, <2>4, Zenon DEF OutputKept, TypeOK
  <1>. QED
    BY <1>1, Invariance, PTL

\* An open session always has the task and the timer it needs, and --More-- is never shown
\* with nothing to follow (vty_event, vty_flush, vty_read).
THEOREM AlwaysAttentive == Spec => []Attentive
  <1>1. IInv => Attentive
    BY Zenon DEF IInv, Good, Held, Attentive, Hears, MoreHasOutput, TimerMatches
  <1>. QED
    BY <1>1, Invariance, PTL

\* One flush shows at most one window, whatever waits and however much the write takes
\* (vty_flush, buffer_flush_window).
THEOREM PagesFit == Spec => PageFits
  <1>. DEFINE A == t.open /\ t'.open /\ Paged(t) /\ Len(sock') > Len(sock)
                     => Newlines(sock') - Newlines(sock) <= IF Height >= 2 THEN Height - 1 ELSE 1
  <1>1. IInv /\ [Next]_vars => [A]_vars
    <2>. SUFFICES ASSUME IInv, Next, t.open, t'.open, Paged(t), Len(sock') > Len(sock)
                  PROVE  Newlines(sock') - Newlines(sock) <= IF Height >= 2 THEN Height - 1 ELSE 1
      BY Zenon
    <2>1. sock \in Seq(Byte) /\ Newlines(sock) \in Nat
      BY GoodHeld, Zenon
    <2>2. Len(sock) \in Nat /\ ~(Len(sock) > Len(sock)) /\ (sock # <<>> => ~(Len(Tail(sock)) > Len(sock)))
      BY <2>1
    <2>3. ~Closed.open
      BY Zenon DEF Closed
    <2>4. \A s : ~Closing(s)
      BY <2>3, Zenon DEF Closing, vty_close
    <2>5. vty_flush
      <3>1. ASSUME NEW is \in Reads PROVE ~vty_read(is)
        BY <2>2, <2>4, Zenon DEF vty_read
      <3>2. ~ReadEnd /\ ~vty_timeout
        BY <2>4, Zenon DEF ReadEnd, vty_timeout
      <3>3. ~ReadRetry /\ ~PeerGone /\ ~PeerTakes
        BY <2>2, Zenon DEF ReadRetry, PeerGone, PeerTakes
      <3>4. ~vty_stdio /\ \A password \in BOOLEAN : ~vty_accept(password)
        BY Zenon DEF vty_stdio, vty_accept
      <3>. QED
        BY <3>1, <3>2, <3>3, <3>4, Zenon DEF Next
    <2>6. Room # 0 /\ Sent.st # "ERROR" /\ sock' = sock \o Sent.out
      BY <2>4, <2>5, FlushStep, Zenon
    <2>7. Sent.out \in Seq(Byte) /\ Newlines(Sent.out) <= WindowLines(Height)
      BY <2>6, SentIs, Zenon
    <2>8. Newlines(sock') = Newlines(sock) + Newlines(Sent.out) /\ Newlines(Sent.out) \in Nat
      BY <2>1, <2>6, <2>7, NewlinesConcat, NewlinesType, Zenon
    <2>9. WindowLines(Height) = IF Height >= 2 THEN Height - 1 ELSE 1
      BY VtySessionAssumption DEF WindowLines
    <2>. QED
      BY <2>1, <2>7, <2>8, <2>9, VtySessionAssumption
  <1>. QED
    BY <1>1, Invariance, PTL DEF Spec, PageFits
=============================================================================
