----------------------------- MODULE MCLibrary -----------------------------
(***************************************************************************)
(* The parts of libvui that do not meet in the daemon, each driven by      *)
(* every sequence of its calls within the bounds below: the command graph  *)
(* and what completes from it (CmdGraph, CmdLine), the words of a command  *)
(* line (TokenMatch, CmdLine), the containers (Containers, Typesafe,       *)
(* PQueue), the output buffer (Buffer), the prefixes and socket addresses  *)
(* (Prefix), the signals (Signals) and the privileges (Privs).  "part"     *)
(* says which of them a behaviour uses; the others stay as they were made. *)
(***************************************************************************)
EXTENDS CmdLine, Typesafe, Prefix, PQueue, Signals, Privs

CONSTANTS MaxInstalls,   \* calls of install_element and uninstall_element
          Seeds,         \* [type, word]: where typing starts
          Typed(_),      \* the characters typed for a token of a type
          MaxTyped,      \* characters typed after the seed
          Chars, MaxText,\* the characters of a command line, and how many
          Timers, Due,   \* the nodes of a priority queue and their keys
          MaxBytes       \* bytes put into the output buffer

VARIABLES part,
          ops,           \* calls made on the command graph
          seed, word,    \* a word being typed
          text,          \* a command line being typed
          queue, queued, \* a priority queue, and what should be in it
          obuf, put, out \* an output buffer, what was put in and what came out

commandVars == <<graph, others, installed, ops>>
wordVars == <<seed, word, text>>
queueVars == <<queue, queued>>
bufferVars == <<obuf, put, out>>

OutBuffer == INSTANCE Buffer WITH ChunkSize <- 2, MaxChunks <- 2

\* VIEW_NODE has a command that "do" may begin, CONFIG_NODE another.
OtherNodes == [VIEW |-> WithCommand(EmptyGraph, "v1", 1), CONFIG |-> WithCommand(EmptyGraph, "c2", 1)]

MCInit ==
  /\ part \in {"commands", "hash", "vector", "list", "typesafe", "prefix", "word", "line",
             "queue", "buffer", "signals", "privs"}
  /\ CmdInit /\ ops = 0
  /\ others = IF part = "commands" THEN OtherNodes ELSE <<>>
  /\ ContainersInit
  /\ IF part = "typesafe" THEN TypesafeInit
     ELSE kind = NULL /\ box = NULL /\ order = <<>> /\ kept = {}
  /\ IF part = "prefix" THEN PrefixInit ELSE topic = NULL /\ x = NULL /\ y = NULL
  /\ IF part = "word" THEN \E s \in Seeds : seed = s /\ word = s.word ELSE seed = NULL /\ word = <<>>
  /\ text = <<>>
  /\ queue = [array |-> <<>>, index |-> [t \in Timers |-> 0]] /\ queued = {}
  /\ obuf = <<>> /\ put = <<>> /\ out = <<>>
  /\ SignalsInit
  /\ IF part = "privs" THEN PrivsInit
     ELSE /\ cred = NULL /\ user = FALSE /\ zuid = 0 /\ zsuid = 0 /\ change = "unset"
          /\ phase = "preinit" /\ refcount = 0 /\ holder = Nobody /\ inside = {}

Install ==
  /\ ops < MaxInstalls
  /\ ops' = ops + 1
  /\ \E el \in Commands : install_element(el) \/ uninstall_element(el)
  /\ UNCHANGED others

\* A slash is followed by at most three characters: a length of four digits is
\* refused like one of three.
Type(c) ==
  /\ Len(word) < Len(seed.word) + MaxTyped
  /\ Len(word) > 3 => word[Len(word) - 3] # "/"
  /\ word' = Append(word, c)
  /\ UNCHANGED <<seed, text>>

TypeLine(c) ==
  /\ Len(text) < MaxText
  /\ text' = Append(text, c)
  /\ UNCHANGED <<seed, word>>

Enqueue(t) ==
  /\ t \notin queued
  /\ queue' = pqueue_enqueue(queue, t, Due)
  /\ queued' = queued \union {t}

Dequeue ==
  /\ queued # {}
  /\ queue' = pqueue_dequeue(queue, Due)
  /\ queued' = queued \ {queue.array[1]}

RemoveAt(t) ==
  /\ t \in queued
  /\ queue' = pqueue_remove_at(queue, queue.index[t], Due)
  /\ queued' = queued \ {t}

\* Bytes are put in, written through, or flushed, the descriptor taking some of them.
Crlf(s) == IF s[Len(s)] = "n" THEN SubSeq(s, 1, Len(s) - 1) \o <<"r", "n">> ELSE s

BufferPut(s) ==
  /\ Len(put) < MaxBytes
  /\ \/ obuf' = OutBuffer!buffer_put(obuf, s) /\ put' = put \o s
     \/ obuf' = OutBuffer!buffer_put_crlf(obuf, s) /\ put' = put \o Crlf(s)
  /\ UNCHANGED out

Write(r) == r.st # "ERROR" /\ obuf' = r.b /\ out' = out \o r.out

BufferWrite(s, room) ==
  /\ Len(put) < MaxBytes
  /\ Write(OutBuffer!buffer_write(obuf, s, room))
  /\ put' = put \o s

BufferFlush(room) ==
  /\ obuf # <<>>
  /\ Write(OutBuffer!buffer_flush_available(obuf, room)) \/ Write(OutBuffer!buffer_flush_all(obuf, room))
  /\ UNCHANGED put

\* One step of the part in use; the rest is unchanged.
MCNext ==
  /\ UNCHANGED part
  /\ \/ part = "commands" /\ Install
     \/ part # "commands" /\ UNCHANGED commandVars
  /\ \/ part = "hash" /\ HashNext
     \/ part = "vector" /\ VectorNext
     \/ part = "list" /\ ListNext
     \/ part \notin {"hash", "vector", "list"} /\ UNCHANGED containerVars
  /\ \/ part = "typesafe" /\ TypesafeNext
     \/ part # "typesafe" /\ UNCHANGED typesafeVars
  /\ UNCHANGED prefixVars
  /\ \/ part = "word" /\ \E c \in Typed(seed.type) : Type(c)
     \/ part = "line" /\ \E c \in Chars : TypeLine(c)
     \/ part \notin {"word", "line"} /\ UNCHANGED wordVars
  /\ \/ part = "queue" /\ ((\E t \in Timers : Enqueue(t) \/ RemoveAt(t)) \/ Dequeue)
     \/ part # "queue" /\ UNCHANGED queueVars
  /\ \/ part = "buffer" /\ \E s \in {<<"c">>, <<"n">>, <<"c", "c", "n">>} :
                             BufferPut(s) \/ \E room \in 0..3 : BufferWrite(s, room) \/ BufferFlush(room)
     \/ part # "buffer" /\ UNCHANGED bufferVars
  /\ \/ part = "signals" /\ SignalsNext
     \/ part # "signals" /\ UNCHANGED signalVars
  /\ \/ part = "privs" /\ PrivsNext
     \/ part # "privs" /\ UNCHANGED privsVars

-----------------------------------------------------------------------------
Range11 == [type |-> "RANGE", min |-> -1, max |-> 11]

\* Somebody typing towards an address is never told that it is wrong: every
\* word that is an address matches exactly, and no beginning of it is refused
\* (match_ipv4, match_ipv4_prefix, match_ipv6_prefix, match_mac).
WordsTaken ==
  part = "word" /\ seed.type # "RANGE" /\ ValidWord(seed.type, word) =>
    /\ match_token([type |-> seed.type], word) = exact_match
    /\ \A n \in 1..Len(word) - 1 : match_token([type |-> seed.type], SubSeq(word, 1, n)) # no_match

\* The matchers take nothing else for an exact match, up to the few words
\* LenientWord describes, which the address parser behind them must refuse.
OnlyAddresses ==
  part = "word" /\ seed.type # "RANGE" /\ match_token([type |-> seed.type], word) = exact_match =>
    ValidWord(seed.type, word) \/ LenientWord(seed.type, word)

\* A range takes the numbers in it, however they are spelled, and nothing else but
\* the empty word, which it takes for 0 (match_range).
RangesTaken ==
  part = "word" /\ seed.type = "RANGE" =>
    (match_token(Range11, word) = exact_match) = (\E n \in Range11.min..Range11.max : Spells(word, n))

\* Every line somebody types is cut into its words (cmd_make_strvec).
LineIsWords == part = "line" => LineSplits(text)

\* Lines are cut into their words, and words are taken for what they are.
WordsRight == LineIsWords /\ WordsTaken /\ OnlyAddresses /\ RangesTaken

\* Whatever was put in, taken out or removed from the middle: the priority queue
\* holds what it should, its first node is due first, and each node knows its place.
QueueFirstIsLeast ==
  /\ {queue.array[i] : i \in 1..Len(queue.array)} = queued
  /\ Len(queue.array) = Cardinality(queued)
  /\ HeapOrdered(queue, Due) /\ KnowsPosition(queue)

\* Hash tables, vectors and queues stand for a set, a map and an order after any
\* calls, and lists for a sequence until one without a tail is appended to
\* (hash.c, vector.c, linklist.c, pqueue.c).
ContainersRight == HashIsSet /\ VectorIsMap /\ ListIsSequence /\ QueueFirstIsLeast

\* The output buffer neither loses, repeats nor reorders a byte: what came out
\* followed by what it holds is what was put in, newlines sent as "\r\n" where
\* asked, and no chunk is ever empty or too long (buffer_put, buffer_put_crlf,
\* buffer_write, buffer_flush_available, buffer_flush_all).
BufferKeepsOrder ==
  /\ out \o OutBuffer!buffer_getstr(obuf) = put
  /\ \A k \in 1..Len(obuf) : Len(obuf[k].data) \in 1..2 /\ obuf[k].sp < Len(obuf[k].data)
-----------------------------------------------------------------------------
(* The instance.                                                           *)

\* Commands that share words, fork, join, repeat and abbreviate one another.
W(t) == [Token("WORD", t, 0) EXCEPT !.varname = NULL]
V(t) == Token("VARIABLE", t, 0)
R(a, b) == [Token("RANGE", <<"(", ")">>, 0) EXCEPT !.min = a, !.max = b]
Sel(o, alts) == [open |-> o, alts |-> alts, varname |-> NULL]
Cmd(items, attr) == [items |-> items, attr |-> attr, variadic |-> FALSE]
ab == <<"a", "b">>
ccd == Sel("<", << <<W(<<"c">>)>>, <<W(<<"c", "d">>)>> >>)

MCDefinition == [
  c1 |-> Cmd(<<W(ab), ccd>>, 0),
  c2 |-> Cmd(<<W(ab), ccd, W(<<"e">>)>>, 2),
  c3 |-> Cmd(<<W(<<"a">>), V(<<"X">>)>>, 0),
  c4 |-> Cmd(<<W(ab), Sel("{", << <<W(<<"c">>), R(1, 5)>>, <<W(<<"e">>)>> >>)>>, 0),
  c5 |-> Cmd(<<Sel("[", << <<W(No)>> >>), W(ab), R(3, 7)>>, 0),
  c6 |-> [Cmd(<<W(ab), V(<<"X">>)>>, 1) EXCEPT !.variadic = TRUE],
  v1 |-> Cmd(<<V(<<"X">>), W(ab), ccd>>, 0)]

WordSet == {<<"a">>, ab, <<"c">>, <<"e">>, <<"4">>, <<"n">>}
MCLines == UNION {[1..n -> WordSet] : n \in 1..2}
           \union {<<a, b, c>> : a \in {<<"a">>, ab}, b \in WordSet \ {<<"a">>, <<"n">>}, c \in WordSet \ {<<"a">>, <<"n">>}}

\* Two signals that would end the program, or be ignored, without a handler.
MCClass == <<"exit", "ignore">>

\* Two of the data collide at every table size.
MCHashKey == [d \in Data |-> IF d = 3 THEN 5 ELSE d]

MCWeight == <<1, 2, 2, 3, 4>>
MCHashValue == <<2, 2, 3, 7>>
MCDue == [t \in Timers |-> IF t = 3 THEN 2 ELSE t]

\* Prefixes with bytes of two bits, so that every length is reached.
MCBlen == [INET |-> 4, INET6 |-> 5, ETHERNET |-> 2, EVPN |-> 1, UNSPEC |-> 2]
A6 == {<<1,2,0,3,1>>, <<1,2,0,3,0>>, <<1,3,1,2,3>>, <<3,0,0,0,1>>, <<0,0,0,0,0>>, <<1,2,1,0,0>>}
P6 == [family : {"INET6"}, prefixlen : 0..10, val : A6]
A4 == {<<a,b,c,d>> : a \in 0..3, b \in {0, 2}, c \in {1, 3}, d \in {0, 1, 3}} \union {<<0,0,0,0>>}
P4 == [family : {"INET"}, prefixlen : 0..8, val : A4]
PE == [family : {"ETHERNET"}, prefixlen : 0..4, val : {<<1,2>>, <<1,3>>, <<3,0>>}]
Near(a, b) == Cardinality({i \in DOMAIN a : a[i] # b[i]}) <= 1
\* The memory behind an EVPN prefix differs or not; two flowspec prefixes share
\* their rules, one points at others, and what is behind the pointer differs.
PV == {[family |-> "EVPN", prefixlen |-> n, val |-> <<a, b, 0, 0, 0, 0, 0, 0>>] : n \in 0..2, a \in {1, 3}, b \in {0, 2}}
PU == [family : {"UNSPEC"}, prefixlen : {0, 3}, val : {<<1,2>>, <<1,3>>}]
PF == {[family |-> "FLOWSPEC", prefixlen |-> 0, fslen |-> n, ptr |-> <<a, 1, b>>,
        rules |-> SubSeq(IF a = 3 THEN <<1,2,2>> ELSE <<1,2,3>>, 1, n)] : n \in 0..3, a \in 1..3, b \in {0, 1}}
MCPairs ==
  (P6 \X P6) \union {q \in P4 \X P4 : Near(q[1].val, q[2].val) /\ q[2].prefixlen \in {0, 3, 5, 8}}
  \union (PV \X PV) \union (PU \X PU) \union (PF \X PF)
  \union (PE \X PE) \union (PE \X {q \in P4 : q.val[2] = 2 /\ q.prefixlen >= 4})
MCSockets ==
  [family : {"INET6"}, addr : A6 \union {<<2,0,0,0,1>>, <<3,1,2,0,1>>, <<3,0,2,0,1>>}, scope : 0..2, port : {1}]
  \union [family : {"INET"}, addr : {<<0,0,0,1>>, <<2,0,0,1>>}, scope : {0}, port : {1}]

\* Typing from nothing, and on from the middle of a long address.
Seed(type, word0) == [type |-> type, word |-> word0]
Pair == <<"1", "1", ":">>
MCSeeds ==
  {Seed(t, <<>>) : t \in {"IPV4", "IPV4_PREFIX", "IPV6", "IPV6_PREFIX", "MAC", "RANGE"}}
  \union {Seed("IPV4", <<"2", "5", ".", "5", ".">>), Seed("IPV4_PREFIX", <<"5", ".", "5", ".">>),
          Seed("IPV6", <<"1", ":", "1", ":", "1", ":", "1", ":", "1", ":", "1", ":">>),
          Seed("IPV6", <<"1", "1", "1", "1", ":", ":", "1", ":", "1", ":", "1", ":">>),
          Seed("IPV6_PREFIX", <<"1", ":", "1", ":", "1", ":", "1", ":", ":">>),
          Seed("MAC", Pair \o Pair \o Pair \o Pair),
          Seed("MAC_PREFIX", Pair \o Pair \o Pair \o Pair \o Pair),
          Seed("MAC_PREFIX", Pair \o Pair \o Pair \o Pair \o Pair \o <<"1">>)}
MCTyped(type) ==
  CASE type = "IPV4" -> {"2", "5", "."}
    [] type = "IPV4_PREFIX" -> {"3", ".", "/"}
    [] type = "IPV6" -> {"1", ":"}
    [] type = "MAC" -> {"1", ":"}
    [] type = "RANGE" -> {"-", "+", "0", "1"}
    [] OTHER -> {"1", ":", "/"}
=============================================================================
