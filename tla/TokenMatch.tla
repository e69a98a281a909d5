-------------------------- MODULE TokenMatch --------------------------
(* How a word of a command line is matched against one token of the      *)
(* command graph (libvui/src/vui/lib/command_match.c, the token level    *)
(* functions).  A word is a sequence of one-character strings; where the *)
(* code moves a pointer, the operators carry the index it points at, and *)
(* the end of the word is the terminating zero.                          *)
EXTENDS Integers, Sequences, FiniteSets

\* enum match_type.
trivial_match == 0
no_match == 1
partly_match == 2
exact_match == 3

DigitSeq == <<"0", "1", "2", "3", "4", "5", "6", "7", "8", "9">>
Digits == {DigitSeq[n] : n \in 1..10}
Hex == Digits \union {"a", "b", "c", "d", "e", "f"}

End == "end"
At(w, i) == IF i <= Len(w) THEN w[i] ELSE End

\* atoi and strtol on digits only.
RECURSIVE Number(_)
Number(w) == IF w = <<>> THEN 0
             ELSE 10 * Number(SubSeq(w, 1, Len(w) - 1))
                  + (CHOOSE n \in 0..9 : DigitSeq[n + 1] = w[Len(w)])

AllIn(w, chars) == \A i \in 1..Len(w) : w[i] \in chars

\* The first position from i on that is not a digit.
AfterDigits(w, i) == CHOOSE j \in i..Len(w) + 1 :
                       /\ At(w, j) \notin Digits
                       /\ \A k \in i..j - 1 : w[k] \in Digits

\* command_match.c match_word: a word that is a prefix of the text.
match_word(text, w) ==
  IF Len(w) > Len(text) \/ SubSeq(text, 1, Len(w)) # w THEN no_match
  ELSE IF Len(w) = Len(text) /\ w # <<>> THEN exact_match ELSE partly_match

\* command_match.c match_range: strtoll reads a sign and digits, which must be
\* the whole word; of the empty word it reads all, as 0.
match_range(min, max, w) ==
  LET signed == At(w, 1) \in {"-", "+"}
      body == IF signed THEN Tail(w) ELSE w
      val == IF At(w, 1) = "-" THEN -Number(body) ELSE Number(body)
  IN IF AllIn(body, Digits) /\ (signed => body # <<>>) /\ val \in min..max
       THEN exact_match ELSE no_match

\* match_ipv4 and match_ipv4_prefix: the digits from i to before j are at
\* most three and at most 255.
Octet(w, i, j) == j - i <= 3 /\ Number(SubSeq(w, i, j - 1)) <= 255

\* command_match.c match_ipv4 from position i, after "dots" dots and "nums"
\* numbers.  A dot at the end is answered before the number is looked at.
RECURSIVE Ipv4From(_, _, _, _)
Ipv4From(w, i, dots, nums) ==
  LET j == AfterDigits(w, i) IN
  CASE At(w, j) \notin {".", End} -> no_match
    [] At(w, j) = "." /\ (dots >= 3 \/ At(w, j + 1) = ".") -> no_match
    [] At(w, j) = "." /\ At(w, j + 1) = End -> partly_match
    [] OTHER -> IF ~Octet(w, i, j) THEN no_match
                ELSE IF At(w, j) = "." THEN Ipv4From(w, j + 1, dots + 1, nums + 1)
                ELSE IF nums + 1 < 4 THEN partly_match ELSE exact_match

match_ipv4(w) == Ipv4From(w, 1, 0, 0)

\* A mask length: the word from position i on.
Mask(w, i, most) ==
  IF AllIn(SubSeq(w, i, Len(w)), Digits) /\ Number(SubSeq(w, i, Len(w))) <= most
    THEN exact_match ELSE no_match

\* command_match.c match_ipv4_prefix.  A slash before the third dot is
\* passed over like a dot, without being counted.
RECURSIVE Ipv4PrefixFrom(_, _, _)
Ipv4PrefixFrom(w, i, dots) ==
  LET j == AfterDigits(w, i) IN
  CASE At(w, j) \notin {".", "/", End} -> no_match
    [] At(w, j) = "." /\ (dots = 3 \/ At(w, j + 1) \in {".", "/"}) -> no_match
    [] At(w, j) = "." /\ At(w, j + 1) = End -> partly_match
    [] OTHER ->
         LET seen == IF At(w, j) = "." THEN dots + 1 ELSE dots IN
         IF ~Octet(w, i, j) THEN no_match
         ELSE IF At(w, j) = End THEN partly_match
         ELSE IF seen = 3 /\ At(w, j) = "/"
           THEN IF At(w, j + 1) = End THEN partly_match ELSE Mask(w, j + 1, 32)
         ELSE Ipv4PrefixFrom(w, j + 1, seen)

match_ipv4_prefix(w) == Ipv4PrefixFrom(w, 1, 0)

-----------------------------------------------------------------------------
(* match_ipv6_prefix walks the word with a state machine; q is the state, *)
(* the colons and numbers so far, whether "::" was seen, and where the    *)
(* number being read starts.  "refused" and "partly" are its returns.     *)

V6Start(w) ==
  LET colon == At(w, 1) = ":" IN
  [state |-> IF w = <<>> THEN "START"
             ELSE IF ~colon THEN "ADDR"
             ELSE IF At(w, 2) \in {":", End} THEN "COLON" ELSE "refused",
   colons |-> IF colon THEN -1 ELSE 0, nums |-> 0, dbl |-> FALSE, sp |-> 1]

V6Colon(w, i, q) ==
  IF At(w, i + 1) = "/" THEN [q EXCEPT !.state = "refused"]
  ELSE IF At(w, i + 1) = ":" THEN [q EXCEPT !.colons = @ + 1, !.state = "DOUBLE"]
  ELSE [q EXCEPT !.colons = @ + 1, !.state = "ADDR", !.sp = i + 1]

\* Variant: the group that "::" stands for is counted like a colon.
V6DoubleCounts(w, i, q) ==
  IF q.dbl \/ At(w, i + 1) = ":" THEN [q EXCEPT !.state = "refused"]
  ELSE [q EXCEPT !.colons = @ + 1, !.nums = @ + 1, !.dbl = TRUE, !.sp = i + 1,
                 !.state = IF At(w, i + 1) = "/" THEN "SLASH" ELSE "ADDR"]

V6Double(w, i, q) ==
  IF q.dbl \/ At(w, i + 1) = ":" THEN [q EXCEPT !.state = "refused"]
  ELSE [q EXCEPT !.colons = IF At(w, i + 1) \in {End, "/"} THEN @ ELSE @ + 1,
                 !.nums = @ + 1, !.dbl = TRUE, !.sp = i + 1,
                 !.state = IF At(w, i + 1) = "/" THEN "SLASH" ELSE "ADDR"]

V6Addr(w, i, q) ==
  LET next == At(w, i + 1) IN
  IF next \notin {":", ".", End, "/"} THEN q
  ELSE IF \/ i - q.sp > 3
          \/ \E k \in q.sp..i : w[k] = "/"
          \/ next = "." /\ q.colons = 0 /\ ~q.dbl
    THEN [q EXCEPT !.state = "refused"]
  ELSE [q EXCEPT !.nums = @ + 1, !.sp = i + 1,
                 !.state = CASE next = ":" -> "COLON" [] next = "." -> "DOT"
                             [] next = "/" -> "SLASH" [] OTHER -> "ADDR"]

\* Too many groups or colons.
V6Limited(r) ==
  IF r.state # "partly" /\ (r.nums > 11 \/ r.colons > 7) THEN [r EXCEPT !.state = "refused"] ELSE r

V6Step(w, i, q) ==
  V6Limited(CASE q.state = "COLON" -> V6Colon(w, i, q)
              [] q.state = "DOUBLE" -> V6Double(w, i, q)
              [] q.state = "ADDR" -> V6Addr(w, i, q)
              [] q.state = "DOT" -> [q EXCEPT !.state = "ADDR"]
              [] q.state = "SLASH" ->
                   [q EXCEPT !.state = IF At(w, i + 1) = End THEN "partly" ELSE "MASK"])

\* The walk: the state when it ends, and the position it ends at.
RECURSIVE V6Walk(_, _, _)
V6Walk(w, i, q) ==
  IF q.state \in {"refused", "partly", "MASK"} \/ i > Len(w) THEN <<q.state, i>>
  ELSE V6Walk(w, i + 1, V6Step(w, i, q))

\* inet_pton of the C library for the texts without dots.
ValidIpv6(w) ==
  LET doubles == {i \in 1..Len(w) - 1 : w[i] = ":" /\ w[i + 1] = ":"}
      starts == {i \in 1..Len(w) : w[i] \in Hex /\ (i = 1 \/ w[i - 1] = ":")}
  IN /\ AllIn(w, Hex \union {":"})
     /\ \A i \in 1..Len(w) - 4 : \E k \in i..i + 4 : w[k] = ":"
     /\ IF doubles = {} THEN Cardinality(starts) = 8 /\ w[1] # ":" /\ w[Len(w)] # ":"
        ELSE /\ Cardinality(doubles) = 1 /\ Cardinality(starts) <= 7
             /\ w[1] = ":" => 1 \in doubles
             /\ w[Len(w)] = ":" => Len(w) - 1 \in doubles

\* What match_ipv6_prefix returns after its walk.
V6Verdict(w, end, prefix) ==
  IF end[1] = "refused" THEN no_match
  ELSE IF end[1] = "partly" THEN partly_match
  ELSE IF ~prefix THEN IF ValidIpv6(w) THEN exact_match ELSE partly_match
  ELSE IF end[1] # "MASK" THEN partly_match
  ELSE Mask(w, end[2], 128)

\* command_match.c match_ipv6_prefix.
match_ipv6_prefix(w, prefix) ==
  IF ~AllIn(w, Hex \union {":", "."} \union (IF prefix THEN {"/"} ELSE {})) THEN no_match
  ELSE V6Verdict(w, V6Walk(w, 1, V6Start(w)), prefix)

-----------------------------------------------------------------------------
\* command_match.c match_mac: six pairs of digits and five colons, then,
\* for a prefix, a slash and a length of at most 48.
MacLen == 17
MaskPart == 3

\* What it returns when position stop is the first past digits and colons.
MacVerdict(w, stop, prefix) ==
  IF \/ Len(w) > MacLen + (IF prefix THEN MaskPart ELSE 0)
     \/ \E i \in 1..stop - 1 : (i % 3 = 0) # (w[i] = ":") THEN no_match
  ELSE IF stop <= MacLen
    THEN IF At(w, stop) = End THEN partly_match ELSE no_match
  ELSE IF ~prefix THEN exact_match
  ELSE IF At(w, stop) = End THEN partly_match
  ELSE IF At(w, stop) # "/" THEN no_match
  ELSE IF stop = Len(w) THEN partly_match
  ELSE Mask(w, stop + 1, 48)

match_mac(w, prefix) ==
  LET good(i) == At(w, i) \in Hex \union {":"}
  IN MacVerdict(w, CHOOSE i \in 1..MacLen + 1 :
                     (i = MacLen + 1 \/ ~good(i)) /\ \A k \in 1..i - 1 : good(k), prefix)

\* command_match.c match_token: Nothing stands for the null pointer that
\* ends a line with a trailing space.
Nothing == <<"nothing">>

match_token(token, w) ==
  IF w = Nothing THEN trivial_match
  ELSE CASE token.type = "WORD" -> match_word(token.text, w)
         [] token.type = "IPV4" -> match_ipv4(w)
         [] token.type = "IPV4_PREFIX" -> match_ipv4_prefix(w)
         [] token.type = "IPV6" -> match_ipv6_prefix(w, FALSE)
         [] token.type = "IPV6_PREFIX" -> match_ipv6_prefix(w, TRUE)
         [] token.type = "RANGE" -> match_range(token.min, token.max, w)
         [] token.type = "VARIABLE" -> exact_match
         [] token.type = "MAC" -> match_mac(w, FALSE)
         [] token.type = "MAC_PREFIX" -> match_mac(w, TRUE)
         [] OTHER -> no_match

-----------------------------------------------------------------------------
(* What the words mean, said without walking them.                         *)

\* The pieces of w between separators.
RECURSIVE Fields(_, _)
Fields(w, seps) ==
  LET cuts == {i \in 1..Len(w) : w[i] \in seps}
      cut == CHOOSE i \in cuts : \A k \in cuts : i <= k
  IN IF cuts = {} THEN <<w>>
     ELSE <<SubSeq(w, 1, cut - 1)>> \o Fields(SubSeq(w, cut + 1, Len(w)), seps)

IsNumber(w, most) == w # <<>> /\ AllIn(w, Digits) /\ Number(w) <= most
IsOctet(w) == Len(w) <= 3 /\ IsNumber(w, 255)
IsIpv4(w) == LET f == Fields(w, {"."}) IN Len(f) = 4 /\ \A k \in 1..4 : IsOctet(f[k])
IsMac(w) == LET f == Fields(w, {":"})
            IN Len(f) = 6 /\ \A k \in 1..6 : Len(f[k]) = 2 /\ AllIn(f[k], Hex)

\* An address, or an address, a slash and a length.
IsPrefix(w, IsAddress(_), bits) ==
  LET f == Fields(w, {"/"}) IN Len(f) = 2 /\ IsAddress(f[1]) /\ IsNumber(f[2], bits)

ValidWord(type, w) ==
  CASE type = "IPV4" -> IsIpv4(w)
    [] type = "IPV4_PREFIX" -> IsPrefix(w, IsIpv4, 32)
    [] type = "IPV6" -> ValidIpv6(w)
    [] type = "IPV6_PREFIX" -> IsPrefix(w, ValidIpv6, 128)
    [] type = "MAC" -> IsMac(w)
    [] type = "MAC_PREFIX" -> IsPrefix(w, IsMac, 48)

\* A word spells a number: a sign, zeros and its digits; the empty word spells 0.
Spells(w, n) ==
  \/ w = <<>> /\ n = 0
  \/ \E sign \in {<<>>, <<"+">>, <<"-">>}, zeros \in 0..Len(w), d \in 0..(IF n < 0 THEN -n ELSE n) :
       /\ n = IF sign = <<"-">> THEN -d ELSE d
       /\ w = sign \o [i \in 1..zeros |-> "0"] \o (IF d < 10 THEN <<>> ELSE <<DigitSeq[(d \div 10) + 1]>>)
                   \o <<DigitSeq[(d % 10) + 1]>>

\* What the code lets through besides: a dotted quad may start with its first
\* dot, slashes may stand among the groups before the third dot of a prefix, and
\* the address of an IPv6 prefix is only walked, never read.
LenientWord(type, w) ==
  LET f == Fields(w, {"/"})
      mask == f[Len(f)]
      head == SubSeq(w, 1, Len(w) - Len(mask) - 1)
      groups == Fields(head, {".", "/"})
  IN CASE type = "IPV4" -> IsIpv4(<<"0">> \o w)
       [] type = "IPV4_PREFIX" -> /\ Len(f) > 1 /\ IsNumber(mask, 32)
                                  /\ Len(Fields(head, {"."})) = 4
                                  /\ \A k \in 1..Len(groups) : groups[k] = <<>> \/ IsOctet(groups[k])
       [] type = "IPV6_PREFIX" -> Len(f) = 2 /\ IsNumber(mask, 128)
       [] OTHER -> FALSE
=============================================================================
