------------------------------- MODULE Buffer -------------------------------
(***************************************************************************)
(* The output buffer of libvui (buffer.c): a list of chunks of ChunkSize   *)
(* bytes, filled at cp and flushed from sp. A buffer is a sequence of      *)
(* [data, sp], data being the bytes below cp. Bytes are "c" (any printing  *)
(* character), "n" (newline) and "r" (carriage return).                    *)
(*                                                                         *)
(* A write to the descriptor is given by room, the number of bytes it      *)
(* takes: NULL for a call that fails for good, 0 for one to retry later.   *)
(***************************************************************************)
EXTENDS Integers, Sequences

CONSTANTS ChunkSize, MaxChunks, NULL

ASSUME BufferAssumption == ChunkSize \in Nat \ {0} /\ MaxChunks \in Nat \ {0} /\ NULL \notin Nat

buffer_new == <<>>
buffer_empty(b) == b = <<>>
buffer_reset(b) == <<>>

Unflushed(d) == SubSeq(d.data, d.sp + 1, Len(d.data))

\* buffer_getstr: the bytes not yet flushed.
buffer_getstr(b) ==
  LET Upto[n \in 0..Len(b)] == IF n = 0 THEN <<>> ELSE Upto[n - 1] \o Unflushed(b[n])
  IN Upto[Len(b)]

\* Variant: a full chunk is not followed by a new one; its last byte is overwritten.
PutByteOver(b, c) ==
  IF b # <<>> /\ Len(b[Len(b)].data) = ChunkSize
    THEN [b EXCEPT ![Len(b)].data[ChunkSize] = c]
    ELSE IF b = <<>> THEN <<[data |-> <<c>>, sp |-> 0]>>
    ELSE [b EXCEPT ![Len(b)].data = Append(@, c)]

\* A byte at cp of the last chunk, or at the start of a new one.
PutByte(b, c) ==
  IF b = <<>> \/ Len(b[Len(b)].data) = ChunkSize THEN Append(b, [data |-> <<c>>, sp |-> 0])
  ELSE [b EXCEPT ![Len(b)].data = Append(@, c)]

buffer_put(b, s) ==
  LET Put[n \in 0..Len(s)] == IF n = 0 THEN b ELSE PutByte(Put[n - 1], s[n])
  IN Put[Len(s)]

\* Variant: the carriage return is sent after the newline.
PutCrlfSwapped(b, s) ==
  LET Put[n \in 0..Len(s)] ==
        IF n = 0 THEN b
        ELSE IF s[n] = "n" THEN PutByte(PutByte(Put[n - 1], "n"), "r") ELSE PutByte(Put[n - 1], s[n])
  IN Put[Len(s)]

buffer_put_crlf(b, s) ==
  LET Put[n \in 0..Len(s)] ==
        IF n = 0 THEN b
        ELSE IF s[n] = "n" THEN PutByte(PutByte(Put[n - 1], "r"), "n") ELSE PutByte(Put[n - 1], s[n])
  IN Put[Len(s)]

Least(a, b) == IF a < b THEN a ELSE b

\* What is left once the first n bytes are flushed: whole chunks are freed.
Flushed(b, n) ==
  LET ends == {k \in 0..Len(b) : Len(buffer_getstr(SubSeq(b, 1, k))) <= n}
      k == CHOOSE e \in ends : \A f \in ends : f <= e
      in == n - Len(buffer_getstr(SubSeq(b, 1, k)))
      rest == SubSeq(b, k + 1, Len(b))
  IN IF in = 0 THEN rest ELSE [rest EXCEPT ![1].sp = @ + in]

Status(b) == IF b = <<>> THEN "EMPTY" ELSE "PENDING"

buffer_flush_available(b, room) ==
  LET chunks == SubSeq(b, 1, Least(MaxChunks, Len(b)))
      n == Least(Len(buffer_getstr(chunks)), room)
      left == Flushed(b, n)
  IN IF b = <<>> THEN [b |-> b, st |-> "EMPTY", out |-> <<>>]
     ELSE IF room = NULL THEN [b |-> b, st |-> "ERROR", out |-> <<>>]
     ELSE [b |-> left, st |-> Status(left), out |-> SubSeq(buffer_getstr(b), 1, n)]

\* Flush until empty, an error, or a write that takes nothing.
buffer_flush_all(b, room) ==
  IF b = <<>> THEN [b |-> b, st |-> "EMPTY", out |-> <<>>]
  ELSE IF room = NULL THEN [b |-> b, st |-> "ERROR", out |-> <<>>]
  ELSE LET n == Least(Len(buffer_getstr(b)), room)
           left == Flushed(b, n)
       IN [b |-> left, st |-> Status(left), out |-> SubSeq(buffer_getstr(b), 1, n)]

\* Where the cursor is and how many lines are left after showing byte c.
ShowByte(p, width, c) ==
  IF p.height = 0 THEN p
  ELSE IF c = "r" THEN [p EXCEPT !.column = 1, !.n = @ + 1]
  ELSE IF c = "n" \/ p.column = width THEN [column |-> 1, height |-> p.height - 1, n |-> p.n + 1]
  ELSE [p EXCEPT !.column = @ + 1, !.n = @ + 1]

\* Variant: no line is kept for the prompt of the next page.
LinesTall(height) == IF height < 1 THEN 1 ELSE height

\* The lines of data in a window of this height: the last one is for " --More-- ".
WindowLines(height) == IF height < 1 THEN 1 ELSE IF height >= 2 THEN height - 1 ELSE height

\* One window of data between an erased and a new " --More-- ". All of it counts as
\* flushed before the write, and the write may be short.
buffer_flush_window(b, width, height, erase, no_more, room) ==
  LET str == buffer_getstr(b)
      Show[n \in 0..Len(str)] ==
        IF n = 0 THEN [column |-> 1, height |-> WindowLines(height), n |-> 0]
        ELSE ShowByte(Show[n - 1], IF width < 1 THEN 1 ELSE width, str[n])
      shown == Show[Len(str)].n
      left == Flushed(b, shown)
      iov == (IF erase THEN <<"erase">> ELSE <<>>) \o SubSeq(str, 1, shown)
             \o (IF left # <<>> /\ ~no_more THEN <<"more">> ELSE <<>>)
  IN IF b = <<>> THEN [b |-> b, st |-> "EMPTY", out |-> <<>>]
     ELSE IF room \in {NULL, 0} THEN [b |-> left, st |-> "ERROR", out |-> <<>>]
     ELSE [b |-> left, st |-> Status(left), out |-> SubSeq(iov, 1, Least(Len(iov), room))]

\* Written at once only when nothing waits; the rest is buffered.
buffer_write(b, s, room) ==
  LET n == IF b # <<>> THEN 0 ELSE Least(Len(s), room)
      left == buffer_put(b, SubSeq(s, n + 1, Len(s)))
  IN IF b = <<>> /\ room = NULL THEN [b |-> b, st |-> "ERROR", out |-> <<>>]
     ELSE [b |-> left, st |-> Status(left), out |-> SubSeq(s, 1, n)]
=============================================================================
