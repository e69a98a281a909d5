-------------------------- MODULE NetlinkSyncProofs --------------------------
(***************************************************************************)
(* Proofs about NetlinkSync, for any interfaces, addresses, routes, pairs, *)
(* length of the socket's buffer and number of restarts: what VPP knows of *)
(* the paired interfaces agrees with the kernel.                           *)
(*                                                                         *)
(* The argument follows one object (a link, an address, a prefix) through  *)
(* the socket: the last message about it that waits there says what the    *)
(* kernel has now, and when none waits, what the daemon has made of the    *)
(* earlier ones (the cache, then VPP) is what the kernel has.              *)
(***************************************************************************)
EXTENDS NetlinkSync, TLAPS

LOCAL WF == INSTANCE WellFoundedInduction

LinkMsg == [kind : {"link", "dellink"}, k : Kif, flags : SUBSET Flag, change : SUBSET Flag]
AddrMsg == [kind : {"addr"}, k : Kif, a : Addr, is_new : BOOLEAN]
RouteMsg == [kind : {"route"}, d : Dst, r : Route, is_new : BOOLEAN]
SidMsg == [kind : {"sid"}, s : Sid, k : Kif, is_new : BOOLEAN]
DoneMsg == [kind : {"done"}]
Msg == LinkMsg \cup AddrMsg \cup RouteMsg \cup SidMsg \cup DoneMsg

\* The messages about one object, and those of them that say what the kernel has.
LinkOf(k) == {m \in Msg : m.kind = "link" /\ m.k = k}
Ups(k) == {m \in LinkOf(k) : "UP" \in m.change}
Gone(k) == {m \in Msg : m.kind = "dellink" /\ m.k = k}
LinkNow(k) == {m \in LinkOf(k) : "UP" \in m.flags <=> "UP" \in kernel.link[k]}
AddrOf(k, a) == {m \in Msg : m.kind = "addr" /\ m.k = k /\ m.a = a}
AddrNow(k, a) == {m \in AddrOf(k, a) : m.is_new <=> <<k, a>> \in kernel.addr}
RouteOf(d) == {m \in Msg : m.kind = "route" /\ m.d = d}
RouteNow(d) == {m \in RouteOf(d) : kernel.route[d] = IF m.is_new THEN m.r ELSE None}

-----------------------------------------------------------------------------
(* Messages in a queue                                                      *)

\* No message of C waits in q.
Free(q, C) == \A i \in DOMAIN q : q[i] \notin C

\* A message of S behind which no message of C waits is one of G.
Last(q, S, C, G) ==
  \A i \in DOMAIN q : q[i] \in S /\ (\A j \in DOMAIN q : j > i => q[j] \notin C) => q[i] \in G

\* A message of S waits before every one of D.
Before(q, S, D) == \E i \in DOMAIN q : q[i] \in S /\ \A j \in DOMAIN q : q[j] \in D => i < j

\* At most one message of D waits.
Single(q, D) == \A i, j \in DOMAIN q : q[i] \in D /\ q[j] \in D => i = j

-----------------------------------------------------------------------------
(* The inductive invariant                                                  *)

Types ==
  /\ TypeOK
  /\ queue \in Seq(Msg)
  /\ dump = [kind |-> dump.kind, todo |-> dump.todo]
  /\ changes \in Nat /\ restarts \in Nat

\* The pairs of the configuration file stay in front.
BootFirst ==
  Len(BootPairs) <= Len(interfaces) /\ \A i \in DOMAIN BootPairs : interfaces[i] = BootPairs[i]

\* The thread waits for the end of at most one dump.
OneDump ==
  /\ phase = "open" => queue = <<>> /\ links = <<>>
  /\ phase \in {"open", "cache"} => pos = 1
  /\ dump.kind # "none" => /\ <<phase, dump.kind>> \in {<<"cache", "link">>, <<"addr", "addr">>, <<"route", "route">>}
                           /\ Free(queue, DoneMsg)
  /\ phase \in {"sync", "listen"} => Free(queue, DoneMsg)
  /\ Single(queue, DoneMsg)

\* Until the dumps begin, a VPP that routerd has not served before is empty.
Empty ==
  restarts = 0 /\ phase \in {"open", "cache", "sync"} =>
    vpp.addr = {} /\ \A d \in Dst : vpp.route[d] = None

\* Until the dumps begin, monitor has not been called and nothing is misread.
NoneMisread == phase \in {"open", "cache", "sync"} => misread = {}

Same(F, k) == "UP" \in F <=> "UP" \in kernel.link[k]

\* Link k, which the kernel still has.
LinkInv(k) ==
  /\ Free(queue, Gone(k))
  /\ Last(queue, LinkOf(k), Ups(k), LinkNow(k))
  /\ phase \in {"cache", "sync"} /\ Free(queue, Ups(k)) =>
       \A i \in DOMAIN links : links[i].k = k => Same(links[i].flags, k)
  /\ phase = "cache" =>
       \/ \E i \in DOMAIN links : links[i].k = k
       \/ Before(queue, LinkOf(k), DoneMsg)
       \/ dump.kind = "link" /\ k \in dump.todo
  /\ phase = "sync" => \E i \in DOMAIN links : links[i].k = k
  /\ /\ \/ phase = "sync" /\ \E i \in 1 .. pos - 1 : links[i].k = k
        \/ phase \in {"addr", "route", "listen"}
     /\ k \in Paired /\ Free(queue, Ups(k))
     => (vpp.up[Kernel2Vpp(k)] <=> "UP" \in kernel.link[k] \/ k \in misread)

AddrInv(k, a) ==
  /\ Last(queue, AddrOf(k, a), AddrOf(k, a), AddrNow(k, a))
  /\ phase \in {"addr", "route", "listen"} /\ k \in Paired /\ Free(queue, AddrOf(k, a)) =>
       /\ <<k, a>> \in kernel.addr =>
            <<Kernel2Vpp(k), a>> \in vpp.addr \/ (dump.kind = "addr" /\ <<k, a>> \in dump.todo)
       /\ restarts = 0 /\ <<Kernel2Vpp(k), a>> \in vpp.addr => <<k, a>> \in kernel.addr

RouteInv(d) ==
  /\ Last(queue, RouteOf(d), RouteOf(d), RouteNow(d))
  /\ phase \in {"addr", "route", "listen"} /\ restarts = 0 /\ Free(queue, RouteOf(d)) =>
       (kernel.route[d] = None => vpp.route[d] = None)
  /\ phase \in {"route", "listen"} /\ Free(queue, RouteOf(d)) =>
       (kernel.route[d] # None /\ kernel.route[d].oif \in Paired =>
          Carries(vpp.route[d], kernel.route[d]) \/ (dump.kind = "route" /\ d \in dump.todo))

IInv ==
  /\ Types /\ BootFirst /\ OneDump /\ Empty /\ NoneMisread
  /\ phase # "open" /\ ~lost =>
       /\ \A k \in Kif : kernel.link[k] # None => LinkInv(k)
       /\ \A k \in Kif, a \in Addr : AddrInv(k, a)
       /\ \A d \in Dst : RouteInv(d)

-----------------------------------------------------------------------------
(* Lemmas about queues                                                      *)

\* A queue without its head, and with one more message.
LEMMA Shapes ==
  ASSUME NEW M, NEW q \in Seq(M), NEW m \in M
  PROVE  /\ Append(q, m) \in Seq(M) /\ Len(Append(q, m)) = Len(q) + 1
         /\ DOMAIN Append(q, m) = DOMAIN q \cup {Len(q) + 1}
         /\ Append(q, m)[Len(q) + 1] = m
         /\ \A i \in DOMAIN q : i \in Nat /\ i <= Len(q) /\ Append(q, m)[i] = q[i]
         /\ q # <<>> => /\ Tail(q) \in Seq(M) /\ Head(q) \in M /\ Head(q) = q[1] /\ 1 \in DOMAIN q
                        /\ Len(Tail(q)) = Len(q) - 1
                        /\ \A i \in DOMAIN Tail(q) : i + 1 \in DOMAIN q /\ Tail(q)[i] = q[i + 1]
                        /\ \A i \in DOMAIN q : i = 1 \/ i - 1 \in DOMAIN Tail(q)
  OBVIOUS

\* What a sequence with one more element has is old or new.
LEMMA AppendShape ==
  ASSUME NEW M, NEW q \in Seq(M), NEW m \in M, NEW i \in DOMAIN Append(q, m)
  PROVE  (i \in DOMAIN q /\ Append(q, m)[i] = q[i]) \/ Append(q, m)[i] = m
  OBVIOUS

\* What remains of a sequence once its first element is read.
LEMMA TailShape ==
  ASSUME NEW M, NEW q \in Seq(M), q # <<>>
  PROVE  /\ Head(q) \in M /\ 1 \in DOMAIN q /\ Head(q) = q[1]
         /\ \A i \in DOMAIN Tail(q) : i + 1 \in DOMAIN q /\ Tail(q)[i] = q[i + 1]
  OBVIOUS

\* An element of a sequence over a set is in the set.
LEMMA Element == ASSUME NEW S, NEW q \in Seq(S), NEW i \in DOMAIN q PROVE q[i] \in S
  OBVIOUS

\* Whether a message of C waits, after one more came and after the first was read.
LEMMA FreeStep ==
  ASSUME NEW M, NEW q \in Seq(M), NEW m \in M, NEW C
  PROVE  /\ Free(Append(q, m), C) <=> Free(q, C) /\ m \notin C
         /\ q # <<>> => (Free(q, C) <=> Free(Tail(q), C) /\ Head(q) \notin C)
  <1>1. Free(Append(q, m), C) <=> Free(q, C) /\ m \notin C
    BY Shapes DEF Free
  <1>2. ASSUME q # <<>> PROVE Free(q, C) <=> Free(Tail(q), C) /\ Head(q) \notin C
    <2>1. ASSUME Free(q, C) PROVE Free(Tail(q), C) /\ Head(q) \notin C
      BY <1>2, <2>1, Shapes DEF Free
    <2>2. ASSUME Free(Tail(q), C), Head(q) \notin C PROVE Free(q, C)
      <3>. SUFFICES ASSUME NEW i \in DOMAIN q PROVE q[i] \notin C
        BY DEF Free
      <3>1. i = 1 \/ (i - 1 \in DOMAIN Tail(q) /\ Tail(q)[i - 1] = q[i])
        BY <1>2
      <3>. QED
        BY <1>2, <2>2, <3>1 DEF Free
    <2>. QED
      BY <2>1, <2>2
  <1>. QED
    BY <1>1, <1>2

\* What the last message says, when one more comes: one of C makes the earlier
\* ones old, whatever they said (H in place of G).
LEMMA LastAppend ==
  ASSUME NEW M, NEW q \in Seq(M), NEW m \in M, NEW S, NEW C, NEW G, NEW H,
         Last(q, S, C, G), m \in S => m \in H, m \in C \/ G = H
  PROVE  Last(Append(q, m), S, C, H)
  <1>. SUFFICES ASSUME NEW i \in DOMAIN Append(q, m), Append(q, m)[i] \in S,
                       \A j \in DOMAIN Append(q, m) : j > i => Append(q, m)[j] \notin C
                PROVE  Append(q, m)[i] \in H
    BY DEF Last
  <1>1. CASE i = Len(q) + 1
    BY <1>1
  <1>2. CASE i \in DOMAIN q
    <2>1. Append(q, m)[i] = q[i] /\ m \notin C
      BY <1>2
    <2>2. \A j \in DOMAIN q : j > i => q[j] \notin C
      BY <1>2
    <2>. QED
      BY <1>2, <2>1, <2>2 DEF Last
  <1>. QED
    BY <1>1, <1>2, Shapes

\* ... and when the first is read.
LEMMA LastTail ==
  ASSUME NEW M, NEW q \in Seq(M), q # <<>>, NEW S, NEW C, NEW G, Last(q, S, C, G)
  PROVE  /\ Last(Tail(q), S, C, G)
         /\ Head(q) \in S /\ Free(Tail(q), C) => Head(q) \in G
  <1>1. Last(Tail(q), S, C, G)
    <2>. SUFFICES ASSUME NEW i \in DOMAIN Tail(q), Tail(q)[i] \in S,
                         \A j \in DOMAIN Tail(q) : j > i => Tail(q)[j] \notin C
                  PROVE  Tail(q)[i] \in G
      BY DEF Last
    <2>1. i + 1 \in DOMAIN q /\ Tail(q)[i] = q[i + 1]
      OBVIOUS
    <2>2. ASSUME NEW j \in DOMAIN q, j > i + 1 PROVE q[j] \notin C
      <3>1. j - 1 \in DOMAIN Tail(q) /\ j - 1 > i /\ Tail(q)[j - 1] = q[j]
        BY <2>2
      <3>. QED
        BY <3>1
    <2>. QED
      BY <2>1, <2>2 DEF Last
  <1>2. ASSUME Head(q) \in S, Free(Tail(q), C) PROVE Head(q) \in G
    <2>1. 1 \in DOMAIN q /\ q[1] = Head(q)
      OBVIOUS
    <2>2. ASSUME NEW j \in DOMAIN q, j > 1 PROVE q[j] \notin C
      <3>1. j - 1 \in DOMAIN Tail(q) /\ Tail(q)[j - 1] = q[j]
        BY <2>2
      <3>. QED
        BY <1>2, <3>1 DEF Free
    <2>. QED
      BY <1>2, <2>1, <2>2 DEF Last
  <1>. QED
    BY <1>1, <1>2

\* A message of S before the end D of a dump.
LEMMA BeforeStep ==
  ASSUME NEW M, NEW q \in Seq(M), NEW m \in M, NEW S, NEW D
  PROVE  /\ Before(q, S, D) => Before(Append(q, m), S, D)
         /\ Free(q, D) /\ m \in S /\ m \notin D => Before(Append(q, m), S, D)
         /\ q # <<>> /\ Before(q, S, D) => Head(q) \notin D
         /\ q # <<>> /\ Before(q, S, D) /\ Head(q) \notin S => Before(Tail(q), S, D)
  <1>1. ASSUME Before(q, S, D) PROVE Before(Append(q, m), S, D)
    <2>1. PICK i \in DOMAIN q : q[i] \in S /\ \A j \in DOMAIN q : q[j] \in D => i < j
      BY <1>1 DEF Before
    <2>2. i \in DOMAIN Append(q, m) /\ Append(q, m)[i] \in S
      BY <2>1
    <2>3. \A j \in DOMAIN Append(q, m) : Append(q, m)[j] \in D => i < j
      BY <2>1
    <2>. QED
      BY <2>2, <2>3 DEF Before
  <1>2. ASSUME Free(q, D), m \in S, m \notin D PROVE Before(Append(q, m), S, D)
    <2>1. Len(q) + 1 \in DOMAIN Append(q, m) /\ Append(q, m)[Len(q) + 1] \in S
      BY <1>2
    <2>2. \A j \in DOMAIN Append(q, m) : Append(q, m)[j] \notin D
      BY <1>2 DEF Free
    <2>. QED
      BY <2>1, <2>2 DEF Before
  <1>3. ASSUME q # <<>>, Before(q, S, D) PROVE Head(q) \notin D
    BY <1>3 DEF Before
  <1>4. ASSUME q # <<>>, Before(q, S, D), Head(q) \notin S PROVE Before(Tail(q), S, D)
    <2>1. PICK i \in DOMAIN q : q[i] \in S /\ \A j \in DOMAIN q : q[j] \in D => i < j
      BY <1>4 DEF Before
    <2>2. i # 1 /\ i - 1 \in DOMAIN Tail(q) /\ Tail(q)[i - 1] \in S
      BY <1>4, <2>1
    <2>3. ASSUME NEW j \in DOMAIN Tail(q), Tail(q)[j] \in D PROVE i - 1 < j
      <3>1. j + 1 \in DOMAIN q /\ Tail(q)[j] = q[j + 1]
        BY <1>4
      <3>. QED
        BY <2>1, <2>3, <3>1
    <2>. QED
      BY <2>2, <2>3 DEF Before
  <1>. QED
    BY <1>1, <1>2, <1>3, <1>4

\* At most one end of a dump waits.
LEMMA SingleStep ==
  ASSUME NEW M, NEW q \in Seq(M), NEW m \in M, NEW D, Single(q, D)
  PROVE  /\ m \notin D \/ Free(q, D) => Single(Append(q, m), D)
         /\ q # <<>> => Single(Tail(q), D)
         /\ q # <<>> /\ Head(q) \in D => Free(Tail(q), D)
  <1>1. ASSUME m \notin D \/ Free(q, D) PROVE Single(Append(q, m), D)
    <2>. SUFFICES ASSUME NEW i \in DOMAIN Append(q, m), NEW j \in DOMAIN Append(q, m),
                         Append(q, m)[i] \in D, Append(q, m)[j] \in D
                  PROVE  i = j
      BY DEF Single
    <2>. QED
      BY <1>1 DEF Single, Free
  <1>2. ASSUME q # <<>> PROVE Single(Tail(q), D)
    <2>. SUFFICES ASSUME NEW i \in DOMAIN Tail(q), NEW j \in DOMAIN Tail(q),
                         Tail(q)[i] \in D, Tail(q)[j] \in D
                  PROVE  i = j
      BY DEF Single
    <2>1. i + 1 \in DOMAIN q /\ j + 1 \in DOMAIN q /\ q[i + 1] \in D /\ q[j + 1] \in D
      BY <1>2
    <2>. QED
      BY <2>1 DEF Single
  <1>3. ASSUME q # <<>>, Head(q) \in D PROVE Free(Tail(q), D)
    <2>. SUFFICES ASSUME NEW i \in DOMAIN Tail(q), Tail(q)[i] \in D PROVE FALSE
      BY DEF Free
    <2>1. i + 1 \in DOMAIN q /\ 1 \in DOMAIN q /\ q[i + 1] \in D /\ q[1] \in D /\ i + 1 # 1
      BY <1>3
    <2>. QED
      BY <2>1 DEF Single
  <1>. QED
    BY <1>1, <1>2, <1>3

-----------------------------------------------------------------------------
(* Lemmas about the translation                                             *)

\* Kernel2Vpp, as a function of rd_ctx.interfaces.
At(q, k) == {i \in DOMAIN q : q[i].kern_ifindex = k}
Find(q, k) ==
  IF At(q, k) = {} THEN 0
  ELSE q[CHOOSE i \in At(q, k) : \A j \in At(q, k) : i <= j].vpp_ifindex

\* ifindex_kernel2vpp looks the interface up in the list of pairs, now and after
\* a step.
LEMMA FindIs == \A k : Kernel2Vpp(k) = Find(interfaces, k) /\ Kernel2Vpp(k)' = Find(interfaces', k)
  BY DEF Kernel2Vpp, Naming, Find, At

\* A nonempty set of positions has a first one.
LEMMA Least == ASSUME NEW T, T \subseteq Nat, T # {} PROVE \E x \in T : \A y \in T : x <= y
  <1>. DEFINE R == {ss \in Nat \X Nat : ss[1] < ss[2]}
  <1>1. WF!IsWellFoundedOn(R, Nat)
    BY WF!NatLessThanWellFounded DEF WF!OpToRel
  <1>. HIDE DEF R
  <1>2. PICK x \in T : \A y \in T : ~ (<<y, x>> \in R)
    BY <1>1, WF!WFMin, ZenonT(60)
  <1>3. ASSUME NEW y \in T PROVE x <= y
    <2>1. <<y, x>> \in Nat \X Nat /\ x \in Nat /\ y \in Nat
      OBVIOUS
    <2>2. ~ (y < x)
      BY <1>2, <2>1 DEF R
    <2>. QED
      BY <2>1, <2>2
  <1>. QED
    BY <1>3

\* The first match is found.
LEMMA Found ==
  ASSUME NEW q \in Seq(Entry), NEW k, At(q, k) # {}
  PROVE  \E i \in At(q, k) : (\A j \in At(q, k) : i <= j) /\ Find(q, k) = q[i].vpp_ifindex
  <1>. DEFINE T == At(q, k)
  <1>1. T \subseteq Nat /\ T # {}
    BY DEF At
  <1>2. \E x \in T : \A y \in T : x <= y
    BY <1>1, Least, ZenonT(60)
  <1>. QED
    BY <1>2, ZenonT(60) DEF Find

\* The first entry that names the interface decides.
LEMMA FoundIs ==
  ASSUME NEW q \in Seq(Entry), NEW k, NEW i \in At(q, k), \A j \in At(q, k) : i <= j
  PROVE  Find(q, k) = q[i].vpp_ifindex
  <1>1. PICK n \in At(q, k) : (\A j \in At(q, k) : n <= j) /\ Find(q, k) = q[n].vpp_ifindex
    BY Found
  <1>2. n = i
    BY <1>1 DEF At
  <1>. QED
    BY <1>1, <1>2

\* The translation of an interface is one of VPP's, or 0.
LEMMA FindType == ASSUME NEW q \in Seq(Entry), NEW k PROVE Find(q, k) \in Vif \cup {0}
  <1>1. CASE At(q, k) = {}
    BY <1>1 DEF Find
  <1>2. CASE At(q, k) # {}
    <2>1. PICK n \in At(q, k) : Find(q, k) = q[n].vpp_ifindex
      BY <1>2, Found
    <2>2. n \in DOMAIN q /\ q[n] \in Entry
      BY DEF At
    <2>. QED
      BY <2>1, <2>2 DEF Entry
  <1>. QED
    BY <1>1, <1>2

\* A pair added at the end does not change what is found already.
LEMMA FindKept ==
  ASSUME NEW q \in Seq(Entry), NEW e \in Entry, NEW k, At(q, k) # {}
  PROVE  Find(Append(q, e), k) = Find(q, k)
  <1>1. PICK n \in At(q, k) : (\A j \in At(q, k) : n <= j) /\ Find(q, k) = q[n].vpp_ifindex
    BY Found
  <1>2. n \in At(Append(q, e), k) /\ Append(q, e)[n] = q[n] /\ Append(q, e) \in Seq(Entry)
    BY DEF At
  <1>3. ASSUME NEW j \in At(Append(q, e), k) PROVE n <= j
    <2>1. j \in DOMAIN Append(q, e) /\ n \in DOMAIN q
      BY DEF At
    <2>2. CASE j \in DOMAIN q
      <3>1. Append(q, e)[j] = q[j]
        BY <2>2
      <3>. QED
        BY <1>1, <2>2, <3>1 DEF At
    <2>. QED
      BY <2>1, <2>2
  <1>4. Find(Append(q, e), k) = Append(q, e)[n].vpp_ifindex
    <2>. DEFINE r == Append(q, e)
    <2>1. r \in Seq(Entry) /\ n \in At(r, k) /\ \A j \in At(r, k) : n <= j
      BY <1>2, <1>3
    <2>. HIDE DEF r
    <2>2. Find(r, k) = r[n].vpp_ifindex
      BY <2>1, FoundIs
    <2>. QED
      BY <2>2 DEF r
  <1>. QED
    BY <1>1, <1>2, <1>4

\* The commands of a running daemon only shrink the set of paired interfaces, and
\* those that stay are translated as before.
LEMMA PairedKept ==
  ASSUME Types, BootFirst, NEW e \in Entry, interfaces' = Append(interfaces, e), NEW k \in Paired'
  PROVE  k \in Paired /\ Kernel2Vpp(k)' = Kernel2Vpp(k)
  <1>1. interfaces \in Seq(Entry) /\ BootPairs \in Seq(Entry)
    BY PairsAssumption DEF Types, TypeOK
  <1>2. k \in Kif /\ (\E i \in DOMAIN BootPairs : BootPairs[i].kern_ifindex = k)
    BY DEF Paired
  <1>3. At(interfaces, k) # {}
    BY <1>1, <1>2 DEF BootFirst, At
  <1>4. Find(interfaces', k) = Find(interfaces, k)
    BY <1>1, <1>3, FindKept
  <1>5. Find(interfaces, k) # 0
    BY <1>4, FindIs DEF Paired
  <1>6. ASSUME NEW j \in Kif \ {k} PROVE Find(interfaces, j) # Find(interfaces, k)
    <2>1. CASE At(interfaces, j) = {}
      BY <1>5, <2>1 DEF Find
    <2>2. CASE At(interfaces, j) # {}
      <3>1. Find(interfaces', j) = Find(interfaces, j)
        BY <1>1, <2>2, FindKept
      <3>2. Find(interfaces', j) # Find(interfaces', k)
        BY FindIs DEF Paired
      <3>. QED
        BY <1>4, <3>1, <3>2
    <2>. QED
      BY <2>1, <2>2
  <1>. QED
    BY <1>2, <1>4, <1>5, <1>6, FindIs DEF Paired

\* While the list of pairs stays, so do the paired interfaces and their
\* translation.
LEMMA SamePairs ==
  ASSUME UNCHANGED interfaces PROVE Paired' = Paired /\ \A k : Kernel2Vpp(k)' = Kernel2Vpp(k)
  BY DEF Paired, Kernel2Vpp, Naming

-----------------------------------------------------------------------------
(* Types                                                                    *)

KernelOK ==
  kernel \in [link : [Kif -> (SUBSET Flag) \cup {None}], addr : SUBSET (Kif \X Addr),
              route : [Dst -> Route \cup {None}], sid : [Sid -> Kif \cup {None}]]

VppOK ==
  vpp \in [up : [Vif -> BOOLEAN], addr : SUBSET (Vif \X Addr),
           route : [Dst -> VppRoute \cup {None}], sid : [Sid -> Vif \cup {None, 0}]]

QueueOK ==
  /\ queue \in Seq(Msg) /\ Len(queue) <= QueueLen
  /\ dump.kind \in {"none", "link", "addr", "route"} /\ dump.todo \subseteq Everything(dump.kind)
  /\ dump = [kind |-> dump.kind, todo |-> dump.todo]

DaemonOK ==
  /\ phase \in {"open", "cache", "sync", "addr", "route", "listen"}
  /\ links \in Seq([k : Kif, flags : SUBSET Flag]) /\ pos \in 1 .. Len(links) + 1
  /\ interfaces \in Seq(Entry)
  /\ lost \in BOOLEAN /\ misread \subseteq Kif /\ changes \in Nat /\ restarts \in Nat

\* The types, by part of the state.
LEMMA TypesAre == Types <=> KernelOK /\ VppOK /\ QueueOK /\ DaemonOK
  BY Zenon DEF Types, TypeOK, KernelOK, VppOK, QueueOK, DaemonOK

\* The same after a step.
LEMMA TypesAreNext == Types' <=> KernelOK' /\ VppOK' /\ QueueOK' /\ DaemonOK'
  BY Zenon DEF Types, TypeOK, KernelOK, VppOK, QueueOK, DaemonOK

\* What a message of each kind carries.
LEMMA Fields ==
  ASSUME NEW m \in Msg
  PROVE  /\ m.kind \in {"link", "dellink", "addr", "route", "sid", "done"}
         /\ m.kind \in {"link", "dellink"} =>
              m.k \in Kif /\ m.flags \in SUBSET Flag /\ m.change \in SUBSET Flag
         /\ m.kind = "addr" => m.k \in Kif /\ m.a \in Addr /\ m.is_new \in BOOLEAN
         /\ m.kind = "route" => m.d \in Dst /\ m.r \in Route /\ m.is_new \in BOOLEAN
         /\ m.kind = "sid" => m.s \in Sid /\ m.k \in Kif /\ m.is_new \in BOOLEAN
         /\ m.kind = "done" <=> m \in DoneMsg
  BY DEF Msg, LinkMsg, AddrMsg, RouteMsg, SidMsg, DoneMsg

\* The messages of the kernel.
LEMMA Sent ==
  /\ \A k \in Kif, F, G \in SUBSET Flag :
       /\ [kind |-> "link", k |-> k, flags |-> F, change |-> G] \in Msg
       /\ [kind |-> "dellink", k |-> k, flags |-> F, change |-> G] \in Msg
  /\ \A k \in Kif, a \in Addr, b \in BOOLEAN : [kind |-> "addr", k |-> k, a |-> a, is_new |-> b] \in Msg
  /\ \A d \in Dst, r \in Route, b \in BOOLEAN : [kind |-> "route", d |-> d, r |-> r, is_new |-> b] \in Msg
  /\ \A s \in Sid, k \in Kif, b \in BOOLEAN : [kind |-> "sid", s |-> s, k |-> k, is_new |-> b] \in Msg
  /\ [kind |-> "done"] \in Msg /\ [kind |-> "done"] \in DoneMsg
  BY DEF Msg, LinkMsg, AddrMsg, RouteMsg, SidMsg, DoneMsg

\* ifindex_kernel2vpp returns an interface of VPP, or 0.
LEMMA Kernel2VppType ==
  ASSUME Types, NEW k PROVE Kernel2Vpp(k) \in Vif \cup {0}
  BY FindIs, FindType DEF Types, TypeOK

\* A notification.
LEMMA NotifyTypes ==
  ASSUME Types, NEW m \in Msg, Notify(m), KernelOK'
  PROVE  /\ Types'
         /\ UNCHANGED <<dump, phase, links, pos, interfaces, vpp, misread, restarts>>
         /\ phase # "open" /\ ~lost' => ~lost /\ queue' = Append(queue, m)
         /\ phase = "open" => UNCHANGED <<queue, lost>>
         /\ lost => lost'
         /\ UNCHANGED queue \/ (phase # "open" /\ queue' = Append(queue, m))
  <1>1. UNCHANGED <<dump, phase, links, pos, interfaces, vpp, misread, restarts>>
    BY DEF Notify
  <1>2. \/ UNCHANGED <<queue, lost>> /\ phase = "open"
        \/ UNCHANGED lost /\ queue' = Append(queue, m) /\ Len(queue) < QueueLen /\ phase # "open"
        \/ UNCHANGED queue /\ lost' = TRUE /\ phase # "open"
    BY Zenon DEF Notify
  <1>3. changes' \in Nat
    BY DEF Types, TypeOK, Notify
  <1>4. queue \in Seq(Msg) /\ Len(queue) <= QueueLen /\ QueueLen \in Nat
    BY LimitsAssumption, Zenon DEF Types, TypeOK
  <1>5. queue' \in Seq(Msg) /\ Len(queue') <= QueueLen
    BY <1>2, <1>4
  <1>6. QueueOK'
    BY <1>1, <1>5, TypesAre, Zenon DEF QueueOK, Everything
  <1>7. VppOK'
    BY <1>1, TypesAre, Zenon DEF VppOK
  <1>8. lost' \in BOOLEAN
    BY <1>2, TypesAre, Zenon DEF DaemonOK
  <1>9. DaemonOK'
    BY <1>1, <1>3, <1>8, TypesAre, Zenon DEF DaemonOK
  <1>10. Types'
    BY <1>6, <1>7, <1>9, TypesAreNext, Zenon
  <1>11. /\ phase # "open" /\ ~lost' => ~lost /\ queue' = Append(queue, m)
         /\ phase = "open" => UNCHANGED <<queue, lost>>
         /\ lost => lost'
    <2>1. lost' = lost \/ lost' = TRUE
      BY <1>2, Zenon
    <2>2. lost \in BOOLEAN
      BY TypesAre, Zenon DEF DaemonOK
    <2>3. lost => lost'
      BY <2>1, <2>2, ZenonT(60)
    <2>4. CASE UNCHANGED <<queue, lost>> /\ phase = "open"
      BY <2>3, <2>4
    <2>5. CASE UNCHANGED lost /\ queue' = Append(queue, m) /\ phase # "open"
      BY <2>3, <2>5
    <2>6. CASE UNCHANGED queue /\ lost' = TRUE /\ phase # "open"
      BY <2>3, <2>6, ZenonT(60)
    <2>. QED
      BY <1>2, <2>4, <2>5, <2>6, Zenon
  <1>. QED
    BY <1>1, <1>2, <1>10, <1>11, Zenon

\* Each change of the kernel keeps its type, and sends a message.
LEMMA SetFlagsTypes ==
  ASSUME Types, NEW k \in Kif, NEW F \in SUBSET Flag, SetFlags(k, F)
  PROVE  \E G \in SUBSET Flag :
           LET m == [kind |-> "link", k |-> k, flags |-> F, change |-> G]
           IN  /\ m \in Msg /\ Notify(m) /\ KernelOK'
               /\ G = (F \ kernel.link[k]) \cup (kernel.link[k] \ F)
               /\ kernel.link[k] # None
               /\ kernel' = [kernel EXCEPT !.link[k] = F]
  <1>. DEFINE G == (F \ kernel.link[k]) \cup (kernel.link[k] \ F)
              m == [kind |-> "link", k |-> k, flags |-> F, change |-> G]
  <1>1. /\ Notify(m) /\ kernel.link[k] # None
        /\ kernel' = [kernel EXCEPT !.link[k] = F]
    BY Zenon DEF SetFlags
  <1>2. KernelOK
    BY TypesAre
  <1>3. kernel.link[k] \in SUBSET Flag
    BY <1>1, <1>2 DEF KernelOK
  <1>4. G \in SUBSET Flag
    BY <1>3
  <1>5. m \in Msg
    BY <1>4, Sent, Zenon
  <1>6. KernelOK'
    BY <1>1, <1>2 DEF KernelOK
  <1>. QED
    BY <1>1, <1>4, <1>5, <1>6, Zenon

\* ip link del keeps the kernel's types and sends RTM_DELLINK.
LEMMA DelLinkTypes ==
  ASSUME Types, NEW k \in Kif, DelLink(k)
  PROVE  \E F \in SUBSET Flag :
           LET m == [kind |-> "dellink", k |-> k, flags |-> F, change |-> Flag]
           IN  m \in Msg /\ Notify(m) /\ KernelOK' /\ kernel' = [kernel EXCEPT !.link[k] = None]
  <1>. DEFINE F == kernel.link[k] \ {"UP"}
              m == [kind |-> "dellink", k |-> k, flags |-> F, change |-> Flag]
  <1>1. Notify(m) /\ kernel.link[k] # None /\ kernel' = [kernel EXCEPT !.link[k] = None]
    BY Zenon DEF DelLink
  <1>2. KernelOK
    BY TypesAre
  <1>3. F \in SUBSET Flag
    BY <1>1, <1>2 DEF KernelOK
  <1>5. m \in Msg
    BY <1>3, Sent, Zenon
  <1>6. KernelOK'
    BY <1>1, <1>2 DEF KernelOK
  <1>. QED
    BY <1>1, <1>3, <1>5, <1>6, Zenon

\* ip addr add and del change one address and say so.
LEMMA SetAddrTypes ==
  ASSUME Types, NEW k \in Kif, NEW a \in Addr, NEW b \in BOOLEAN, SetAddr(k, a, b)
  PROVE  LET m == [kind |-> "addr", k |-> k, a |-> a, is_new |-> b]
         IN  /\ m \in Msg /\ Notify(m) /\ KernelOK'
             /\ kernel'.link = kernel.link /\ kernel'.route = kernel.route
             /\ kernel'.addr = IF b THEN kernel.addr \cup {<<k, a>>} ELSE kernel.addr \ {<<k, a>>}
  <1>. DEFINE m == [kind |-> "addr", k |-> k, a |-> a, is_new |-> b]
  <1>1. Notify(m) /\ kernel' = [kernel EXCEPT !.addr = IF b THEN @ \cup {<<k, a>>} ELSE @ \ {<<k, a>>}]
    BY Zenon DEF SetAddr
  <1>2. KernelOK
    BY TypesAre
  <1>3. m \in Msg
    BY Sent, Zenon
  <1>4. /\ kernel'.link = kernel.link /\ kernel'.route = kernel.route
        /\ kernel'.addr = IF b THEN kernel.addr \cup {<<k, a>>} ELSE kernel.addr \ {<<k, a>>}
    BY <1>1, <1>2 DEF KernelOK
  <1>5. KernelOK'
    BY <1>1, <1>2 DEF KernelOK
  <1>. QED
    BY <1>1, <1>3, <1>4, <1>5, Zenon

\* ip route add sets the route of one prefix and sends it.
LEMMA AddRouteTypes ==
  ASSUME Types, NEW d \in Dst, NEW r \in Route, AddRoute(d, r)
  PROVE  LET m == [kind |-> "route", d |-> d, r |-> r, is_new |-> TRUE]
         IN  /\ m \in Msg /\ Notify(m) /\ KernelOK'
             /\ kernel'.link = kernel.link /\ kernel'.addr = kernel.addr
             /\ kernel'.route = [kernel.route EXCEPT ![d] = r]
  <1>. DEFINE m == [kind |-> "route", d |-> d, r |-> r, is_new |-> TRUE]
  <1>1. Notify(m) /\ kernel' = [kernel EXCEPT !.route[d] = r]
    BY Zenon DEF AddRoute
  <1>2. KernelOK
    BY TypesAre
  <1>3. m \in Msg
    BY Sent, Zenon
  <1>4. /\ kernel'.link = kernel.link /\ kernel'.addr = kernel.addr
        /\ kernel'.route = [kernel.route EXCEPT ![d] = r]
    BY <1>1, <1>2 DEF KernelOK
  <1>5. KernelOK'
    BY <1>1, <1>2 DEF KernelOK
  <1>. QED
    BY <1>1, <1>3, <1>4, <1>5, Zenon

\* ip route del removes the route of one prefix and sends it.
LEMMA DelRouteTypes ==
  ASSUME Types, NEW d \in Dst, DelRoute(d)
  PROVE  \E r \in Route :
           LET m == [kind |-> "route", d |-> d, r |-> r, is_new |-> FALSE]
           IN  /\ m \in Msg /\ Notify(m) /\ KernelOK'
               /\ kernel'.link = kernel.link /\ kernel'.addr = kernel.addr
               /\ kernel'.route = [kernel.route EXCEPT ![d] = None]
  <1>. DEFINE r == kernel.route[d]
              m == [kind |-> "route", d |-> d, r |-> r, is_new |-> FALSE]
  <1>1. Notify(m) /\ kernel' = [kernel EXCEPT !.route[d] = None] /\ r # None
    BY Zenon DEF DelRoute
  <1>2. KernelOK
    BY TypesAre
  <1>3. r \in Route
    BY <1>1, <1>2 DEF KernelOK
  <1>4. m \in Msg
    BY <1>3, Sent, Zenon
  <1>5. /\ kernel'.link = kernel.link /\ kernel'.addr = kernel.addr
        /\ kernel'.route = [kernel.route EXCEPT ![d] = None]
    BY <1>1, <1>2 DEF KernelOK
  <1>6. KernelOK'
    BY <1>1, <1>2 DEF KernelOK
  <1>. QED
    BY <1>1, <1>3, <1>4, <1>5, <1>6, Zenon

\* A seg6local route leaves links, addresses and the other routes alone.
LEMMA SetSidTypes ==
  ASSUME Types, NEW s \in Sid, NEW k \in Kif, NEW b \in BOOLEAN, SetSid(s, k, b)
  PROVE  LET m == [kind |-> "sid", s |-> s, k |-> k, is_new |-> b]
         IN  /\ m \in Msg /\ Notify(m) /\ KernelOK'
             /\ kernel'.link = kernel.link /\ kernel'.addr = kernel.addr /\ kernel'.route = kernel.route
  <1>. DEFINE m == [kind |-> "sid", s |-> s, k |-> k, is_new |-> b]
  <1>1. Notify(m) /\ kernel' = [kernel EXCEPT !.sid[s] = IF b THEN k ELSE None]
    BY Zenon DEF SetSid
  <1>2. KernelOK
    BY TypesAre
  <1>3. m \in Msg
    BY Sent, Zenon
  <1>4. kernel'.link = kernel.link /\ kernel'.addr = kernel.addr /\ kernel'.route = kernel.route
    BY <1>1, <1>2 DEF KernelOK
  <1>5. KernelOK'
    BY <1>1, <1>2 DEF KernelOK
  <1>. QED
    BY <1>1, <1>3, <1>4, <1>5, Zenon

\* The parts of a dump.
LEMMA SendDumpIs ==
  ASSUME Types, SendDump
  PROVE  /\ Types' /\ UNCHANGED <<kernel, phase, links, pos, interfaces, vpp, lost, misread, changes, restarts>>
         /\ dump.kind # "none"
         /\ \/ /\ dump.kind = "link" /\ dump'.kind = "link"
               /\ \E k \in Kif : /\ k \in dump.todo /\ dump'.todo = dump.todo \ {k}
                                 /\ kernel.link[k] # None /\ kernel.link[k] \in SUBSET Flag
                                 /\ queue' = Append(queue, [kind |-> "link", k |-> k, flags |-> kernel.link[k], change |-> {}])
            \/ /\ dump.kind = "addr" /\ dump'.kind = "addr"
               /\ \E k \in Kif, a \in Addr :
                    /\ <<k, a>> \in dump.todo /\ dump'.todo = dump.todo \ {<<k, a>>}
                    /\ <<k, a>> \in kernel.addr
                    /\ queue' = Append(queue, [kind |-> "addr", k |-> k, a |-> a, is_new |-> TRUE])
            \/ /\ dump.kind = "route" /\ dump'.kind = "route"
               /\ \E d \in Dst : /\ d \in dump.todo /\ dump'.todo = dump.todo \ {d}
                                 /\ kernel.route[d] # None /\ kernel.route[d] \in Route
                                 /\ queue' = Append(queue, [kind |-> "route", d |-> d, r |-> kernel.route[d], is_new |-> TRUE])
            \/ /\ dump' = NoDump /\ queue' = Append(queue, [kind |-> "done"])
               /\ dump.kind = "link" => \A k \in Kif : k \in dump.todo => kernel.link[k] = None
               /\ dump.kind = "addr" => \A x \in kernel.addr : x \notin dump.todo
               /\ dump.kind = "route" => \A d \in Dst : d \in dump.todo => kernel.route[d] = None
  <1>. DEFINE here == Present(dump.kind, dump.todo)
  <1>1. /\ UNCHANGED <<kernel, phase, links, pos, interfaces, vpp, lost, misread, changes, restarts>>
        /\ dump.kind # "none" /\ Len(queue) < QueueLen
        /\ \/ \E x \in here : /\ queue' = Append(queue, Part(dump.kind, x))
                              /\ dump' = [dump EXCEPT !.todo = @ \ {x}]
           \/ here = {} /\ queue' = Append(queue, [kind |-> "done"]) /\ dump' = NoDump
    BY Zenon DEF SendDump
  <1>2. KernelOK /\ VppOK /\ QueueOK /\ DaemonOK
    BY TypesAre, Zenon
  <1>3. dump.kind \in {"link", "addr", "route"} /\ dump.todo \subseteq Everything(dump.kind)
    BY <1>1, <1>2 DEF QueueOK
  <1>4. KernelOK' /\ VppOK' /\ DaemonOK'
    BY <1>1, <1>2, Zenon DEF KernelOK, VppOK, DaemonOK
  <1>5. ASSUME NEW m \in Msg, queue' = Append(queue, m) PROVE queue' \in Seq(Msg) /\ Len(queue') <= QueueLen
    BY <1>1, <1>2, <1>5, LimitsAssumption DEF QueueOK
  <1>6. ASSUME NEW x \in here
        PROVE  /\ x \in dump.todo /\ Part(dump.kind, x) \in Msg
               /\ dump.kind = "link" => x \in Kif /\ kernel.link[x] # None /\ kernel.link[x] \in SUBSET Flag
               /\ dump.kind = "addr" => x \in kernel.addr
               /\ dump.kind = "route" => x \in Dst /\ kernel.route[x] # None /\ kernel.route[x] \in Route
    <2>2. CASE dump.kind = "link"
      <3>1. x \in dump.todo /\ x \in Kif /\ kernel.link[x] # None
        BY <1>3, <2>2 DEF Present, Everything
      <3>2. kernel.link[x] \in SUBSET Flag
        BY <1>2, <3>1 DEF KernelOK
      <3>3. Part(dump.kind, x) \in Msg
        BY <2>2, <3>1, <3>2, Sent, ZenonT(60) DEF Part
      <3>. QED
        BY <2>2, <3>1, <3>2, <3>3
    <2>3. CASE dump.kind = "addr"
      <3>1. x \in dump.todo /\ x \in kernel.addr
        BY <1>3, <2>3 DEF Present, Everything
      <3>2. x[1] \in Kif /\ x[2] \in Addr
        BY <1>2, <3>1 DEF KernelOK
      <3>3. Part(dump.kind, x) \in Msg
        BY <2>3, <3>1, <3>2, Sent, ZenonT(60) DEF Part
      <3>. QED
        BY <2>3, <3>1, <3>2, <3>3
    <2>4. CASE dump.kind = "route"
      <3>1. x \in dump.todo /\ x \in Dst /\ kernel.route[x] # None
        BY <1>3, <2>4 DEF Present, Everything
      <3>2. kernel.route[x] \in Route
        BY <1>2, <3>1 DEF KernelOK
      <3>3. Part(dump.kind, x) \in Msg
        BY <2>4, <3>1, <3>2, Sent, ZenonT(60) DEF Part
      <3>. QED
        BY <2>4, <3>1, <3>2, <3>3
    <2>. QED
      BY <1>3, <2>2, <2>3, <2>4
  <1>7. CASE \E x \in here : /\ queue' = Append(queue, Part(dump.kind, x))
                             /\ dump' = [dump EXCEPT !.todo = @ \ {x}]
    <2>1. PICK x \in here : queue' = Append(queue, Part(dump.kind, x)) /\ dump' = [dump EXCEPT !.todo = @ \ {x}]
      BY <1>7, ZenonT(60)
    <2>2. dump'.kind = dump.kind /\ dump'.todo = dump.todo \ {x} /\ dump' = [kind |-> dump'.kind, todo |-> dump'.todo]
      BY <1>2, <2>1, ZenonT(60) DEF QueueOK
    <2>. HIDE DEF here
    <2>3. QueueOK'
      <3>1. queue' \in Seq(Msg) /\ Len(queue') <= QueueLen
        BY <1>5, <1>6, <2>1
      <3>2. dump'.kind \in {"none", "link", "addr", "route"} /\ dump'.todo \subseteq Everything(dump'.kind)
        BY <1>3, <2>2
      <3>. QED
        BY <2>2, <3>1, <3>2, Zenon DEF QueueOK, Everything
    <2>4. Types'
      BY <1>4, <2>3, TypesAreNext, Zenon
    <2>5. CASE dump.kind = "link"
      <3>1. Part(dump.kind, x) = [kind |-> "link", k |-> x, flags |-> kernel.link[x], change |-> {}]
        BY <2>5 DEF Part
      <3>. QED
        BY <1>1, <1>6, <2>1, <2>2, <2>4, <2>5, <3>1, Zenon
    <2>6. CASE dump.kind = "addr"
      <3>1. PICK k \in Kif, a \in Addr : x = <<k, a>>
        BY <1>2, <1>6, <2>6 DEF KernelOK
      <3>2. Part(dump.kind, x) = [kind |-> "addr", k |-> k, a |-> a, is_new |-> TRUE]
        BY <2>6, <3>1 DEF Part
      <3>. QED
        BY <1>1, <1>6, <2>1, <2>2, <2>4, <2>6, <3>1, <3>2, ZenonT(60)
    <2>7. CASE dump.kind = "route"
      <3>1. Part(dump.kind, x) = [kind |-> "route", d |-> x, r |-> kernel.route[x], is_new |-> TRUE]
        BY <2>7 DEF Part
      <3>. QED
        BY <1>1, <1>6, <2>1, <2>2, <2>4, <2>7, <3>1, Zenon
    <2>. QED
      BY <1>3, <2>5, <2>6, <2>7, ZenonT(60)
  <1>8. CASE here = {} /\ queue' = Append(queue, [kind |-> "done"]) /\ dump' = NoDump
    <2>1. queue' \in Seq(Msg) /\ Len(queue') <= QueueLen
      BY <1>5, <1>8, Sent
    <2>2. QueueOK'
      BY <1>8, <2>1 DEF QueueOK, NoDump, Everything
    <2>3. Types'
      BY <1>4, <2>2, TypesAreNext, Zenon
    <2>4. /\ dump.kind = "link" => \A k \in Kif : k \in dump.todo => kernel.link[k] = None
          /\ dump.kind = "addr" => \A x \in kernel.addr : x \notin dump.todo
          /\ dump.kind = "route" => \A d \in Dst : d \in dump.todo => kernel.route[d] = None
      BY <1>8 DEF Present
    <2>. QED
      BY <1>1, <1>8, <2>3, <2>4, Zenon
  <1>. QED
    BY <1>1, <1>7, <1>8, Zenon

-----------------------------------------------------------------------------
(* The updates of VPP                                                       *)

\* An update that was not lost was made.
LEMMA PushIs ==
  ASSUME NEW v, Push(v) \/ (Ignore /\ v = vpp), lost \in BOOLEAN
  PROVE  lost' \in BOOLEAN /\ (lost => lost') /\ (vpp' = v \/ vpp' = vpp) /\ (~lost' => ~lost /\ vpp' = v)
  <1>1. CASE vpp' = v /\ lost' = lost
    BY <1>1
  <1>2. CASE vpp' = vpp /\ lost' = TRUE
    BY <1>2
  <1>3. CASE vpp' = vpp /\ lost' = lost /\ v = vpp
    BY <1>3
  <1>. QED
    BY <1>1, <1>2, <1>3, Zenon DEF Push, Ignore

\* The parts of VPP's state that a message changes.
LinkSet(m) ==
  IF "UP" \in m.change /\ Kernel2Vpp(m.k) # 0
  THEN [vpp EXCEPT !.up[Kernel2Vpp(m.k)] = m.flags \cap m.change # {}] ELSE vpp

AddrSet(m) ==
  IF Kernel2Vpp(m.k) # 0
  THEN [vpp EXCEPT !.addr = IF m.is_new THEN @ \cup {<<Kernel2Vpp(m.k), m.a>>}
                            ELSE @ \ {<<Kernel2Vpp(m.k), m.a>>}] ELSE vpp

RouteSet(m, gw) ==
  [vpp EXCEPT !.route[m.d] = IF m.is_new THEN [gw |-> gw, oif |-> Kernel2Vpp(m.r.oif)] ELSE None]

SidSet(m) == [vpp EXCEPT !.sid[m.s] = Kernel2Vpp(0)]

\* monitor makes at most one update of VPP, the one its hook computes from the
\* message.
LEMMA MonitorIs ==
  ASSUME NEW m \in Msg, Monitor(m)
  PROVE  \E v : /\ Push(v) \/ (Ignore /\ v = vpp)
                /\ m.kind = "link" => v = LinkSet(m)
                /\ m.kind = "addr" => v = AddrSet(m)
                /\ m.kind = "route" => \E gw \in Gw \cup {NoGw} : v = RouteSet(m, gw) /\ (m.r.gw # NoGw => gw = m.r.gw)
                /\ m.kind = "sid" => v = SidSet(m)
                /\ m.kind \in {"dellink", "done"} => v = vpp
  <1>1. CASE m.kind = "link"
    <2>1. LinkHook(m)
      BY <1>1 DEF Monitor
    <2>2. Push(LinkSet(m)) \/ (Ignore /\ LinkSet(m) = vpp)
      BY <2>1, Zenon DEF LinkHook, LinkSet
    <2>. QED
      BY <1>1, <2>2
  <1>2. CASE m.kind = "addr"
    <2>1. AddrHook(m)
      BY <1>2 DEF Monitor
    <2>2. Push(AddrSet(m)) \/ (Ignore /\ AddrSet(m) = vpp)
      BY <2>1, Zenon DEF AddrHook, AddrSet
    <2>. QED
      BY <1>2, <2>2
  <1>3. CASE m.kind = "route"
    <2>1. RouteHook(m) /\ m.r \in Route
      BY <1>3, Fields DEF Monitor
    <2>2. PICK gw \in IF m.r.gw = NoGw THEN Gw \cup {NoGw} ELSE {m.r.gw} : Push(RouteSet(m, gw))
      BY <2>1, Zenon DEF RouteHook, RouteSet
    <2>3. gw \in Gw \cup {NoGw} /\ (m.r.gw # NoGw => gw = m.r.gw)
      BY <2>1, <2>2 DEF Route
    <2>. QED
      BY <1>3, <2>2, <2>3
  <1>4. CASE m.kind = "sid"
    <2>1. Push(SidSet(m))
      BY <1>4 DEF Monitor, SidHook, SidSet
    <2>. QED
      BY <1>4, <2>1
  <1>5. CASE m.kind \in {"dellink", "done"}
    <2>1. Ignore
      BY <1>5 DEF Monitor
    <2>. QED
      BY <1>5, <2>1
  <1>. QED
    BY <1>1, <1>2, <1>3, <1>4, <1>5, Fields

\* What a message changes in VPP has the right type ...
LEMMA MonitorTypes ==
  ASSUME Types, NEW m \in Msg, Monitor(m)
  PROVE  VppOK' /\ lost' \in BOOLEAN /\ (lost => lost')
  <1>0. VppOK /\ lost \in BOOLEAN /\ (\A k : Kernel2Vpp(k) \in Vif \cup {0})
    BY TypesAre, Kernel2VppType, Zenon DEF DaemonOK
  <1>1. PICK v : /\ Push(v) \/ (Ignore /\ v = vpp)
                 /\ m.kind = "link" => v = LinkSet(m)
                 /\ m.kind = "addr" => v = AddrSet(m)
                 /\ m.kind = "route" => \E gw \in Gw \cup {NoGw} : v = RouteSet(m, gw)
                 /\ m.kind = "sid" => v = SidSet(m)
                 /\ m.kind \in {"dellink", "done"} => v = vpp
    BY MonitorIs, Zenon
  <1>2. (vpp' = v \/ vpp' = vpp) /\ lost' \in BOOLEAN /\ (lost => lost')
    BY <1>0, <1>1, PushIs, Zenon
  <1>. SUFFICES v \in [up : [Vif -> BOOLEAN], addr : SUBSET (Vif \X Addr),
                       route : [Dst -> VppRoute \cup {None}], sid : [Sid -> Vif \cup {None, 0}]]
    BY <1>0, <1>2, Zenon DEF VppOK
  <1>3. CASE m.kind = "link"
    <2>1. v = LinkSet(m)
      BY <1>1, <1>3
    <2>. DEFINE n == Kernel2Vpp(m.k)
                b == m.flags \cap m.change # {}
    <2>2. v = vpp \/ (v = [vpp EXCEPT !.up[n] = b] /\ n \in Vif /\ b \in BOOLEAN)
      BY <1>0, <2>1, Zenon DEF LinkSet
    <2>. HIDE DEF n, b
    <2>. QED
      BY <1>0, <2>2 DEF VppOK
  <1>4. CASE m.kind = "addr"
    <2>1. v = AddrSet(m) /\ m.a \in Addr
      BY <1>1, <1>4, Fields
    <2>. DEFINE n == Kernel2Vpp(m.k)
    <2>2. v = vpp \/ (n \in Vif /\ v = [vpp EXCEPT !.addr = IF m.is_new THEN @ \cup {<<n, m.a>>} ELSE @ \ {<<n, m.a>>}])
      BY <1>0, <2>1, Zenon DEF AddrSet
    <2>. HIDE DEF n
    <2>. QED
      BY <1>0, <2>1, <2>2 DEF VppOK
  <1>5. CASE m.kind = "route"
    <2>1. PICK gw \in Gw \cup {NoGw} : v = RouteSet(m, gw)
      BY <1>1, <1>5
    <2>. DEFINE n == Kernel2Vpp(m.r.oif)
                r == IF m.is_new THEN [gw |-> gw, oif |-> n] ELSE None
    <2>2. m.d \in Dst /\ v = [vpp EXCEPT !.route[m.d] = r] /\ n \in Vif \cup {0}
      BY <1>0, <1>5, <2>1, Fields DEF RouteSet
    <2>. HIDE DEF n
    <2>3. r \in VppRoute \cup {None}
      BY <2>2 DEF VppRoute
    <2>. HIDE DEF r
    <2>. QED
      BY <1>0, <2>2, <2>3 DEF VppOK
  <1>6. CASE m.kind = "sid"
    <2>. DEFINE n == Kernel2Vpp(0)
    <2>1. v = [vpp EXCEPT !.sid[m.s] = n] /\ n \in Vif \cup {0}
      BY <1>0, <1>1, <1>6 DEF SidSet
    <2>. HIDE DEF n
    <2>. QED
      BY <1>0, <2>1 DEF VppOK
  <1>. QED
    BY <1>0, <1>1, <1>3, <1>4, <1>5, <1>6, Fields DEF VppOK

\* Translation of paired interfaces is one to one.
LEMMA PairedIs ==
  ASSUME Types, NEW k \in Paired
  PROVE  k \in Kif /\ Kernel2Vpp(k) \in Vif /\ Kernel2Vpp(k) # 0
         /\ \A j \in Kif : Kernel2Vpp(j) = Kernel2Vpp(k) => j = k
  BY Kernel2VppType DEF Paired

\* ... and is about the interface, the address or the prefix of the message only.
LEMMA MonitorUp ==
  ASSUME Types, NEW m \in Msg, Monitor(m), ~lost', NEW k \in Paired
  PROVE  /\ m \notin Ups(k) => /\ vpp'.up[Kernel2Vpp(k)] = vpp.up[Kernel2Vpp(k)]
                               /\ k \in misread' <=> k \in misread
         /\ m \in Ups(k) => (vpp'.up[Kernel2Vpp(k)] <=> "UP" \in m.flags \/ k \in misread')
  <1>0. VppOK /\ lost \in BOOLEAN
    BY TypesAre, Zenon DEF DaemonOK
  <1>1. PICK v : /\ Push(v) \/ (Ignore /\ v = vpp)
                 /\ m.kind = "link" => v = LinkSet(m)
                 /\ m.kind = "addr" => v = AddrSet(m)
                 /\ m.kind = "route" => \E gw \in Gw \cup {NoGw} : v = RouteSet(m, gw)
                 /\ m.kind = "sid" => v = SidSet(m)
                 /\ m.kind \in {"dellink", "done"} => v = vpp
    BY MonitorIs, Zenon
  <1>2. vpp' = v
    BY <1>0, <1>1, PushIs, Zenon
  <1>3. CASE m.kind # "link"
    <2>1. m \notin Ups(k)
      BY <1>3, Zenon DEF Ups, LinkOf
    <2>2. v.up = vpp.up
      <3>1. CASE m.kind = "addr"
        BY <1>0, <1>1, <3>1 DEF VppOK, AddrSet
      <3>2. CASE m.kind = "route"
        <4>1. PICK gw : v = RouteSet(m, gw)
          BY <1>1, <3>2, Zenon
        <4>. QED
          BY <1>0, <4>1 DEF VppOK, RouteSet
      <3>3. CASE m.kind = "sid"
        BY <1>0, <1>1, <3>3 DEF VppOK, SidSet
      <3>. QED
        BY <1>1, <1>3, <3>1, <3>2, <3>3, Fields
    <2>3. misread' = misread
      BY <1>3 DEF Monitor, Misreading
    <2>. QED
      BY <1>2, <2>1, <2>2, <2>3
  <1>4. CASE m.kind = "link"
    <2>. DEFINE n == Kernel2Vpp(m.k)
                b == m.flags \cap m.change # {}
                w == Kernel2Vpp(k)
    <2>1. w \in Vif /\ w # 0 /\ (n = w => m.k = k)
      BY <1>4, PairedIs, Fields
    <2>2. vpp' = IF "UP" \in m.change /\ n # 0 THEN [vpp EXCEPT !.up[n] = b] ELSE vpp
      BY <1>1, <1>2, <1>4 DEF LinkSet
    <2>3. m \in Ups(k) <=> m.k = k /\ "UP" \in m.change
      BY <1>4, Zenon DEF Ups, LinkOf
    <2>4. m.k = k => n = w
      OBVIOUS
    <2>. HIDE DEF n, w
    <2>5. /\ m \in Ups(k) => (b <=> "UP" \in m.flags \/ k \in misread')
          /\ m \notin Ups(k) => (k \in misread' <=> k \in misread)
      <3>1. misread' = IF "UP" \notin m.change THEN misread
                       ELSE IF "UP" \notin m.flags /\ b THEN misread \cup {m.k} ELSE misread \ {m.k}
        BY <1>4 DEF Monitor, Misreading
      <3>2. "UP" \in m.change /\ "UP" \in m.flags => b
        OBVIOUS
      <3>. HIDE DEF b
      <3>. QED
        BY <2>3, <3>1, <3>2
    <2>. HIDE DEF b
    <2>6. ASSUME m \notin Ups(k) PROVE vpp'.up[w] = vpp.up[w]
      BY <1>0, <2>1, <2>2, <2>3, <2>4, <2>6 DEF VppOK
    <2>7. ASSUME m \in Ups(k) PROVE vpp'.up[w] <=> "UP" \in m.flags \/ k \in misread'
      <3>1. vpp' = [vpp EXCEPT !.up[w] = b]
        BY <2>1, <2>2, <2>3, <2>4, <2>7, Zenon
      <3>2. vpp'.up[w] = b
        BY <1>0, <2>1, <3>1 DEF VppOK
      <3>. QED
        BY <2>5, <2>7, <3>2
    <2>. QED
      BY <2>5, <2>6, <2>7 DEF w
  <1>. QED
    BY <1>3, <1>4

\* ... in the addresses of a paired interface, what addr_analyze_and_hook was
\* told, and no other address.
LEMMA MonitorAddr ==
  ASSUME Types, NEW m \in Msg, Monitor(m), ~lost', NEW k \in Paired, NEW a \in Addr
  PROVE  /\ m \notin AddrOf(k, a) => (<<Kernel2Vpp(k), a>> \in vpp'.addr <=> <<Kernel2Vpp(k), a>> \in vpp.addr)
         /\ m \in AddrOf(k, a) => (<<Kernel2Vpp(k), a>> \in vpp'.addr <=> m.is_new)
  <1>0. VppOK /\ lost \in BOOLEAN
    BY TypesAre, Zenon DEF DaemonOK
  <1>1. PICK v : /\ Push(v) \/ (Ignore /\ v = vpp)
                 /\ m.kind = "link" => v = LinkSet(m)
                 /\ m.kind = "addr" => v = AddrSet(m)
                 /\ m.kind = "route" => \E gw \in Gw \cup {NoGw} : v = RouteSet(m, gw)
                 /\ m.kind = "sid" => v = SidSet(m)
                 /\ m.kind \in {"dellink", "done"} => v = vpp
    BY MonitorIs, Zenon
  <1>2. vpp' = v
    BY <1>0, <1>1, PushIs, Zenon
  <1>3. CASE m.kind # "addr"
    <2>1. m \notin AddrOf(k, a)
      BY <1>3, Zenon DEF AddrOf
    <2>2. v.addr = vpp.addr
      <3>1. CASE m.kind = "link"
        BY <1>0, <1>1, <3>1 DEF VppOK, LinkSet
      <3>2. CASE m.kind = "route"
        <4>1. PICK gw : v = RouteSet(m, gw)
          BY <1>1, <3>2, Zenon
        <4>. QED
          BY <1>0, <4>1 DEF VppOK, RouteSet
      <3>3. CASE m.kind = "sid"
        BY <1>0, <1>1, <3>3 DEF VppOK, SidSet
      <3>. QED
        BY <1>1, <1>3, <3>1, <3>2, <3>3, Fields
    <2>. QED
      BY <1>2, <2>1, <2>2
  <1>4. CASE m.kind = "addr"
    <2>. DEFINE n == Kernel2Vpp(m.k)
                w == Kernel2Vpp(k)
    <2>1. w \in Vif /\ w # 0 /\ (n = w => m.k = k) /\ m.is_new \in BOOLEAN
      BY <1>4, PairedIs, Fields
    <2>2. vpp' = IF n # 0 THEN [vpp EXCEPT !.addr = IF m.is_new THEN @ \cup {<<n, m.a>>} ELSE @ \ {<<n, m.a>>}]
                 ELSE vpp
      BY <1>1, <1>2, <1>4 DEF AddrSet
    <2>3. m \in AddrOf(k, a) <=> m.k = k /\ m.a = a
      BY <1>4, Zenon DEF AddrOf
    <2>4. m.k = k => n = w
      OBVIOUS
    <2>. HIDE DEF n, w
    <2>5. vpp'.addr = IF n # 0 THEN IF m.is_new THEN vpp.addr \cup {<<n, m.a>>} ELSE vpp.addr \ {<<n, m.a>>}
                      ELSE vpp.addr
      BY <1>0, <2>2 DEF VppOK
    <2>6. ASSUME m \notin AddrOf(k, a) PROVE <<w, a>> \in vpp'.addr <=> <<w, a>> \in vpp.addr
      <3>1. <<w, a>> # <<n, m.a>>
        BY <2>1, <2>3, <2>6
      <3>. QED
        BY <2>5, <3>1
    <2>7. ASSUME m \in AddrOf(k, a) PROVE <<w, a>> \in vpp'.addr <=> m.is_new
      BY <2>1, <2>3, <2>4, <2>5, <2>7
    <2>. QED
      BY <2>6, <2>7 DEF w
  <1>. QED
    BY <1>3, <1>4

\* ... and in the routes, what route_analyze_and_hook was told, and no other
\* prefix.
LEMMA MonitorRoute ==
  ASSUME Types, NEW m \in Msg, Monitor(m), ~lost', NEW d \in Dst
  PROVE  /\ m \notin RouteOf(d) => vpp'.route[d] = vpp.route[d]
         /\ m \in RouteOf(d) /\ ~m.is_new => vpp'.route[d] = None
         /\ m \in RouteOf(d) /\ m.is_new => Carries(vpp'.route[d], m.r)
  <1>0. VppOK /\ lost \in BOOLEAN
    BY TypesAre, Zenon DEF DaemonOK
  <1>1. PICK v : /\ Push(v) \/ (Ignore /\ v = vpp)
                 /\ m.kind = "link" => v = LinkSet(m)
                 /\ m.kind = "addr" => v = AddrSet(m)
                 /\ m.kind = "route" => \E gw \in Gw \cup {NoGw} : v = RouteSet(m, gw) /\ (m.r.gw # NoGw => gw = m.r.gw)
                 /\ m.kind = "sid" => v = SidSet(m)
                 /\ m.kind \in {"dellink", "done"} => v = vpp
    BY MonitorIs, Zenon
  <1>2. vpp' = v
    BY <1>0, <1>1, PushIs, Zenon
  <1>3. CASE m.kind # "route"
    <2>1. m \notin RouteOf(d)
      BY <1>3, Zenon DEF RouteOf
    <2>2. v.route = vpp.route
      <3>1. CASE m.kind = "link"
        BY <1>0, <1>1, <3>1 DEF VppOK, LinkSet
      <3>2. CASE m.kind = "addr"
        BY <1>0, <1>1, <3>2 DEF VppOK, AddrSet
      <3>3. CASE m.kind = "sid"
        BY <1>0, <1>1, <3>3 DEF VppOK, SidSet
      <3>. QED
        BY <1>1, <1>3, <3>1, <3>2, <3>3, Fields
    <2>. QED
      BY <1>2, <2>1, <2>2
  <1>4. CASE m.kind = "route"
    <2>1. PICK gw \in Gw \cup {NoGw} : v = RouteSet(m, gw) /\ (m.r.gw # NoGw => gw = m.r.gw)
      BY <1>1, <1>4, Zenon
    <2>. DEFINE n == Kernel2Vpp(m.r.oif)
                x == IF m.is_new THEN [gw |-> gw, oif |-> n] ELSE None
    <2>2. vpp' = [vpp EXCEPT !.route[m.d] = x] /\ m.d \in Dst /\ m.is_new \in BOOLEAN
      BY <1>2, <1>4, <2>1, Fields DEF RouteSet
    <2>3. m \in RouteOf(d) <=> m.d = d
      BY <1>4, Zenon DEF RouteOf
    <2>4. (~m.is_new => x = None) /\ (m.is_new => Carries(x, m.r))
      <3>1. n \in Vif \cup {0}
        BY Kernel2VppType
      <3>2. ASSUME m.is_new PROVE x # None /\ x.oif = n /\ x.gw = gw
        <4>. HIDE DEF n
        <4>1. [gw |-> gw, oif |-> n] \in VppRoute
          BY <3>1 DEF VppRoute
        <4>. QED
          BY <3>2, <4>1, NoneAssumption
      <3>. QED
        BY <2>1, <3>2 DEF Carries
    <2>. HIDE DEF x
    <2>5. vpp'.route[d] = IF m.d = d THEN x ELSE vpp.route[d]
      BY <1>0, <2>2 DEF VppOK
    <2>. QED
      BY <2>3, <2>4, <2>5, Zenon
  <1>. QED
    BY <1>3, <1>4

-----------------------------------------------------------------------------
(* The steps of the thread keep the types                                   *)

\* A dump begins with everything still to be visited.
LEMMA RequestOK ==
  ASSUME NEW kind \in {"link", "addr", "route"}, Request(kind)
  PROVE  /\ dump'.kind = kind /\ dump'.todo = Everything(kind)
         /\ dump' = [kind |-> dump'.kind, todo |-> dump'.todo]
  BY DEF Request

\* netlink_open keeps the types.
LEMMA OpenTypes == ASSUME Types, Open PROVE Types'
  <1>1. KernelOK /\ VppOK /\ QueueOK /\ DaemonOK
    BY TypesAre, Zenon
  <1>2. KernelOK' /\ VppOK'
    BY <1>1, Zenon DEF Open, KernelOK, VppOK
  <1>3. dump'.kind = "link" /\ dump'.todo = Everything("link") /\ dump' = [kind |-> dump'.kind, todo |-> dump'.todo]
    BY RequestOK DEF Open
  <1>4. QueueOK'
    BY <1>1, <1>3 DEF Open, QueueOK, Everything
  <1>5. DaemonOK'
    BY <1>1 DEF Open, DaemonOK
  <1>. QED
    BY <1>2, <1>4, <1>5, TypesAreNext, Zenon

\* The end of vpp_sync_with_nlc keeps the types.
LEMMA SyncDoneTypes == ASSUME Types, SyncDone PROVE Types'
  <1>1. KernelOK /\ VppOK /\ QueueOK /\ DaemonOK
    BY TypesAre, Zenon
  <1>2. KernelOK' /\ VppOK'
    BY <1>1, Zenon DEF SyncDone, KernelOK, VppOK
  <1>3. dump'.kind = "addr" /\ dump'.todo = Everything("addr") /\ dump' = [kind |-> dump'.kind, todo |-> dump'.todo]
    BY RequestOK DEF SyncDone
  <1>4. QueueOK'
    BY <1>1, <1>3 DEF SyncDone, QueueOK, Everything
  <1>5. DaemonOK'
    BY <1>1 DEF SyncDone, DaemonOK
  <1>. QED
    BY <1>2, <1>4, <1>5, TypesAreNext, Zenon

\* c is the cache after link message m.
Stored(c, m) ==
  /\ c \in Seq([k : Kif, flags : SUBSET Flag]) /\ Len(c) = Len(links) + 1
  /\ c[Len(links) + 1].k = m.k /\ c[Len(links) + 1].flags = m.flags
  /\ \A i \in DOMAIN links : c[i].k = links[i].k
  /\ \A i \in DOMAIN c : IF c[i].k = m.k THEN c[i].flags = m.flags
                         ELSE i \in DOMAIN links /\ c[i] = links[i]

\* The entries of the cache after a link message.
LEMMA CacheUpdateIs ==
  ASSUME DaemonOK, NEW m \in Msg, m.kind \in {"link", "dellink"}
  PROVE  Stored(CacheUpdate(m), m)
  <1>. DEFINE e == [k |-> m.k, flags |-> m.flags]
              E == [k : Kif, flags : SUBSET Flag]
              l == [i \in DOMAIN links |-> IF links[i].k = m.k THEN e ELSE links[i]]
  <1>1. e \in E /\ e.k = m.k /\ e.flags = m.flags
    BY Fields
  <1>2. CacheUpdate(m) = Append(l, e)
    BY Zenon DEF CacheUpdate
  <1>3. links \in Seq(E)
    BY Zenon DEF DaemonOK
  <1>. HIDE DEF e, E
  <1>4. l \in Seq(E) /\ Len(l) = Len(links) /\ DOMAIN l = DOMAIN links
    BY <1>1, <1>3
  <1>5. \A i \in DOMAIN links : l[i] = IF links[i].k = m.k THEN e ELSE links[i]
    OBVIOUS
  <1>. HIDE DEF l
  <1>6. /\ Append(l, e) \in Seq(E) /\ Len(Append(l, e)) = Len(links) + 1 /\ Append(l, e)[Len(links) + 1] = e
        /\ \A i \in DOMAIN links : Append(l, e)[i] = l[i]
        /\ DOMAIN Append(l, e) = DOMAIN links \cup {Len(links) + 1}
    BY <1>1, <1>3, <1>4
  <1>7. \A i \in DOMAIN links : Append(l, e)[i].k = links[i].k
    BY <1>1, <1>5, <1>6, Zenon
  <1>8. ASSUME NEW i \in DOMAIN Append(l, e)
        PROVE  IF Append(l, e)[i].k = m.k THEN Append(l, e)[i].flags = m.flags
               ELSE i \in DOMAIN links /\ Append(l, e)[i] = links[i]
    <2>1. CASE i \in DOMAIN links
      BY <1>1, <1>5, <1>6, <2>1, Zenon
    <2>2. CASE i = Len(links) + 1
      BY <1>1, <1>6, <2>2, Zenon
    <2>. QED
      BY <1>6, <2>1, <2>2, Zenon
  <1>. QED
    BY <1>1, <1>2, <1>6, <1>7, <1>8, Zenon DEF E, Stored

\* cache_callback keeps the types.
LEMMA ReceiveCacheTypes == ASSUME Types, ReceiveCache PROVE Types' /\ Head(queue) \in Msg
  <1>1. KernelOK /\ VppOK /\ QueueOK /\ DaemonOK
    BY TypesAre, Zenon
  <1>2. KernelOK' /\ VppOK'
    BY <1>1, Zenon DEF ReceiveCache, KernelOK, VppOK
  <1>3. queue # <<>> /\ queue' = Tail(queue) /\ queue \in Seq(Msg) /\ Len(queue) <= QueueLen /\ QueueLen \in Nat
    BY <1>1, LimitsAssumption, Zenon DEF ReceiveCache, QueueOK
  <1>4. queue' \in Seq(Msg) /\ Len(queue') <= QueueLen /\ Head(queue) \in Msg
    BY <1>3
  <1>5. QueueOK'
    BY <1>1, <1>4, Zenon DEF ReceiveCache, QueueOK, Everything
  <1>6. links' \in Seq([k : Kif, flags : SUBSET Flag]) /\ (links' = links \/ Len(links') = Len(links) + 1)
    <2>1. CASE Head(queue).kind \in {"link", "dellink"}
      <3>1. links' = CacheUpdate(Head(queue)) /\ Stored(CacheUpdate(Head(queue)), Head(queue))
        BY <1>1, <1>4, <2>1, CacheUpdateIs, Zenon DEF ReceiveCache
      <3>. QED
        BY <3>1, Zenon DEF Stored
    <2>2. CASE Head(queue).kind \notin {"link", "dellink"}
      BY <1>1, <2>2, Zenon DEF ReceiveCache, DaemonOK
    <2>. QED
      BY <2>1, <2>2
  <1>7. pos' \in 1 .. Len(links') + 1
    <2>1. pos' = pos /\ pos \in 1 .. Len(links) + 1 /\ Len(links) \in Nat
      BY <1>1 DEF ReceiveCache, DaemonOK
    <2>. QED
      BY <1>6, <2>1
  <1>8. phase' \in {"open", "cache", "sync", "addr", "route", "listen"}
    BY <1>1, Zenon DEF ReceiveCache, DaemonOK
  <1>9. DaemonOK'
    BY <1>1, <1>6, <1>7, <1>8, Zenon DEF ReceiveCache, DaemonOK
  <1>. QED
    BY <1>2, <1>4, <1>5, <1>9, TypesAreNext, Zenon

\* What vpp_sync_with_nlc makes of the entry it is at.
SyncSet ==
  IF Kernel2Vpp(links[pos].k) # 0
  THEN [vpp EXCEPT !.up[Kernel2Vpp(links[pos].k)] = "UP" \in links[pos].flags] ELSE vpp

\* One turn of vpp_sync_with_nlc sets the state of one interface, unless the
\* update is lost.
LEMMA SyncLinkIs ==
  ASSUME Types, SyncLink
  PROVE  /\ Types' /\ (lost => lost') /\ (~lost' => ~lost /\ vpp' = SyncSet)
         /\ vpp'.addr = vpp.addr /\ vpp'.route = vpp.route
         /\ pos \in DOMAIN links /\ links[pos].k \in Kif
  <1>1. KernelOK /\ VppOK /\ QueueOK /\ DaemonOK
    BY TypesAre, Zenon
  <1>2. KernelOK' /\ QueueOK'
    BY <1>1, Zenon DEF SyncLink, KernelOK, QueueOK, Everything
  <1>3. Push(SyncSet) \/ (Ignore /\ SyncSet = vpp)
    BY Zenon DEF SyncLink, SyncSet
  <1>4. lost' \in BOOLEAN /\ (lost => lost') /\ (vpp' = SyncSet \/ vpp' = vpp) /\ (~lost' => ~lost /\ vpp' = SyncSet)
    BY <1>1, <1>3, PushIs, Zenon DEF DaemonOK
  <1>5. pos \in DOMAIN links /\ links[pos].k \in Kif /\ pos' \in 1 .. Len(links) + 1
    <2>1. links \in Seq([k : Kif, flags : SUBSET Flag]) /\ pos \in 1 .. Len(links) + 1
      BY <1>1, Zenon DEF DaemonOK
    <2>2. pos <= Len(links) /\ pos' = pos + 1
      BY Zenon DEF SyncLink
    <2>3. pos \in DOMAIN links /\ pos' \in 1 .. Len(links) + 1
      BY <2>1, <2>2
    <2>4. links[pos] \in [k : Kif, flags : SUBSET Flag]
      BY <2>1, <2>3, Element, Zenon
    <2>. QED
      BY <2>3, <2>4
  <1>. DEFINE n == Kernel2Vpp(links[pos].k)
              b == "UP" \in links[pos].flags
  <1>6. SyncSet = vpp \/ (n \in Vif /\ b \in BOOLEAN /\ SyncSet = [vpp EXCEPT !.up[n] = b])
    <2>1. n \in Vif \cup {0}
      BY Kernel2VppType
    <2>2. b \in BOOLEAN
      OBVIOUS
    <2>. QED
      BY <2>1, <2>2, Zenon DEF SyncSet
  <1>. HIDE DEF n, b
  <1>7. VppOK' /\ vpp'.addr = vpp.addr /\ vpp'.route = vpp.route
    BY <1>1, <1>4, <1>6 DEF VppOK
  <1>8. DaemonOK'
    BY <1>1, <1>4, <1>5, Zenon DEF SyncLink, DaemonOK
  <1>. QED
    BY <1>2, <1>4, <1>5, <1>7, <1>8, TypesAreNext, Zenon

\* netlink_listen and netlink_listen_until_done hand the first message to monitor;
\* the end of a dump may lead to the next one.
Serve == UntilDone \/ Listen

\* Serving a message: it goes to monitor, and NLMSG_DONE leads to the next dump.
LEMMA ServeIs ==
  ASSUME Types, Serve
  PROVE  /\ Types' /\ Head(queue) \in Msg /\ queue # <<>> /\ queue' = Tail(queue)
         /\ Monitor(Head(queue)) /\ (lost => lost')
         /\ UNCHANGED <<kernel, links, pos, interfaces, restarts>>
         /\ phase \in {"addr", "route", "listen"}
         /\ \/ UNCHANGED <<phase, dump>> /\ (Head(queue).kind # "done" \/ phase = "listen")
            \/ /\ Head(queue).kind = "done" /\ phase = "addr" /\ phase' = "route"
               /\ dump'.kind = "route" /\ dump'.todo = Dst
            \/ /\ Head(queue).kind = "done" /\ phase = "route" /\ phase' = "listen" /\ UNCHANGED dump
  <1>1. KernelOK /\ VppOK /\ QueueOK /\ DaemonOK
    BY TypesAre, Zenon
  <1>2. /\ queue # <<>> /\ queue' = Tail(queue)
        /\ UNCHANGED <<kernel, links, pos, interfaces, changes, restarts>>
        /\ phase \in {"addr", "route", "listen"}
    BY DEF Serve, UntilDone, Listen
  <1>3. queue \in Seq(Msg) /\ Len(queue) <= QueueLen /\ QueueLen \in Nat
    BY <1>1, LimitsAssumption, Zenon DEF QueueOK
  <1>4. queue' \in Seq(Msg) /\ Len(queue') <= QueueLen /\ Head(queue) \in Msg
    BY <1>2, <1>3
  <1>5. \/ UNCHANGED <<phase, dump>> /\ Monitor(Head(queue)) /\ (Head(queue).kind # "done" \/ phase = "listen")
        \/ Head(queue).kind = "done" /\ Ignore /\ UNCHANGED misread /\ phase = "addr" /\ phase' = "route" /\ Request("route")
        \/ Head(queue).kind = "done" /\ Ignore /\ UNCHANGED misread /\ phase = "route" /\ phase' = "listen" /\ UNCHANGED dump
    <2>1. CASE UntilDone
      <3>1. phase = "addr" \/ phase = "route"
        BY <2>1 DEF UntilDone
      <3>. QED
        BY <2>1, <3>1, Zenon DEF UntilDone
    <2>2. CASE Listen
      BY <2>2, Zenon DEF Listen
    <2>. QED
      BY <2>1, <2>2 DEF Serve
  <1>6. Monitor(Head(queue))
    BY <1>5 DEF Monitor, Misreading
  <1>7. VppOK' /\ lost' \in BOOLEAN /\ (lost => lost')
    BY <1>4, <1>6, MonitorTypes, Zenon
  <1>8. ASSUME Request("route")
        PROVE  dump'.kind = "route" /\ dump'.todo = Dst /\ dump' = [kind |-> dump'.kind, todo |-> dump'.todo]
    BY <1>8 DEF Request, Everything
  <1>9. QueueOK'
    <2>1. CASE UNCHANGED dump
      BY <1>1, <1>4, <2>1, Zenon DEF QueueOK, Everything
    <2>2. CASE Request("route")
      BY <1>4, <1>8, <2>2 DEF QueueOK, Everything
    <2>. QED
      BY <1>5, <2>1, <2>2, Zenon
  <1>10. phase' \in {"open", "cache", "sync", "addr", "route", "listen"}
    BY <1>1, <1>5, Zenon DEF DaemonOK
  <1>14. misread' \subseteq Kif
    <2>1. misread' = Misreading(Head(queue)) /\ misread \subseteq Kif
      BY <1>1, <1>6, Zenon DEF Monitor, DaemonOK
    <2>2. Head(queue).kind = "link" => Head(queue).k \in Kif
      BY <1>4, Fields
    <2>. QED
      BY <2>1, <2>2 DEF Misreading
  <1>11. DaemonOK'
    BY <1>1, <1>2, <1>7, <1>10, <1>14, Zenon DEF DaemonOK
  <1>12. KernelOK'
    BY <1>1, <1>2, Zenon DEF KernelOK
  <1>13. Types'
    BY <1>7, <1>9, <1>11, <1>12, TypesAreNext, Zenon
  <1>. QED
    BY <1>2, <1>4, <1>5, <1>6, <1>7, <1>8, <1>13, Zenon

\* A command adds a pair at the end of the list.
LEMMA AddInterfaceTypes ==
  ASSUME Types, NEW e \in Entry, AddInterface(e)
  PROVE  Types' /\ interfaces' = Append(interfaces, e)
  <1>1. KernelOK /\ VppOK /\ QueueOK /\ DaemonOK
    BY TypesAre, Zenon
  <1>2. KernelOK' /\ VppOK' /\ QueueOK'
    BY <1>1, Zenon DEF AddInterface, KernelOK, VppOK, QueueOK, Everything
  <1>3. interfaces' \in Seq(Entry) /\ interfaces' = Append(interfaces, e)
    BY <1>1 DEF AddInterface, DaemonOK
  <1>4. DaemonOK'
    BY <1>1, <1>3, Zenon DEF AddInterface, DaemonOK
  <1>. QED
    BY <1>2, <1>3, <1>4, TypesAreNext, Zenon

\* A restart keeps the types.
LEMMA RestartTypes == ASSUME Types, Restart PROVE Types'
  <1>1. KernelOK /\ VppOK /\ QueueOK /\ DaemonOK
    BY TypesAre, Zenon
  <1>2. KernelOK' /\ VppOK'
    BY <1>1, Zenon DEF Restart, KernelOK, VppOK
  <1>3. QueueOK'
    BY LimitsAssumption DEF Restart, QueueOK, Everything, NoDump
  <1>4. DaemonOK'
    <2>1. restarts' \in Nat
      BY <1>1 DEF Restart, DaemonOK
    <2>2. links' = <<>> /\ pos' = 1 /\ interfaces' \in Seq(Entry) /\ lost' \in BOOLEAN /\ phase' = "open"
      BY PairsAssumption, Zenon DEF Restart
    <2>. DEFINE E == [k : Kif, flags : SUBSET Flag]
    <2>. HIDE DEF E
    <2>3. links' \in Seq(E) /\ pos' \in 1 .. Len(links') + 1
      BY <2>2
    <2>. QED
      BY <1>1, <2>1, <2>2, <2>3, Zenon DEF Restart, DaemonOK, E
  <1>. QED
    BY <1>2, <1>3, <1>4, TypesAreNext, Zenon

\* Every change of the kernel is a notification.
LEMMA KernelChangeIs ==
  ASSUME Types, KernelChange
  PROVE  \E m \in Msg : Notify(m) /\ KernelOK' /\ m \notin DoneMsg
  <1>1. ASSUME NEW k \in Kif, NEW F \in SUBSET Flag, SetFlags(k, F)
        PROVE  \E m \in Msg : Notify(m) /\ KernelOK' /\ m.kind # "done"
    <2>1. PICK G : LET m == [kind |-> "link", k |-> k, flags |-> F, change |-> G]
                   IN  m \in Msg /\ Notify(m) /\ KernelOK'
      BY <1>1, SetFlagsTypes, Zenon
    <2>2. [kind |-> "link", k |-> k, flags |-> F, change |-> G].kind # "done"
      OBVIOUS
    <2>. QED
      BY <2>1, <2>2, Zenon
  <1>2. ASSUME NEW k \in Kif, DelLink(k)
        PROVE  \E m \in Msg : Notify(m) /\ KernelOK' /\ m.kind # "done"
    BY <1>2, DelLinkTypes, ZenonT(60)
  <1>3. ASSUME NEW k \in Kif, NEW a \in Addr, NEW b \in BOOLEAN, SetAddr(k, a, b)
        PROVE  \E m \in Msg : Notify(m) /\ KernelOK' /\ m.kind # "done"
    <2>1. [kind |-> "addr", k |-> k, a |-> a, is_new |-> b].kind # "done"
      OBVIOUS
    <2>. QED
      BY <1>3, <2>1, SetAddrTypes, Zenon
  <1>4. ASSUME NEW d \in Dst, NEW r \in Route, AddRoute(d, r)
        PROVE  \E m \in Msg : Notify(m) /\ KernelOK' /\ m.kind # "done"
    BY <1>4, AddRouteTypes, ZenonT(60)
  <1>5. ASSUME NEW d \in Dst, DelRoute(d)
        PROVE  \E m \in Msg : Notify(m) /\ KernelOK' /\ m.kind # "done"
    BY <1>5, DelRouteTypes, ZenonT(60)
  <1>6. ASSUME NEW s \in Sid, NEW k \in Kif, NEW b \in BOOLEAN, SetSid(s, k, b)
        PROVE  \E m \in Msg : Notify(m) /\ KernelOK' /\ m.kind # "done"
    BY <1>6, SetSidTypes, ZenonT(60)
  <1>7. \E m \in Msg : Notify(m) /\ KernelOK' /\ m.kind # "done"
    BY <1>1, <1>2, <1>3, <1>4, <1>5, <1>6, Zenon DEF KernelChange
  <1>. QED
    BY <1>7, Fields, Zenon

-----------------------------------------------------------------------------
(* One dump at a time                                                       *)

\* The message [kind |-> "done"] is the only one that ends a dump.
LEMMA OneDumpAppend ==
  ASSUME Types, OneDump, NEW m \in Msg, m \notin DoneMsg, queue' = Append(queue, m), phase # "open",
         UNCHANGED <<phase, links, pos>>, dump'.kind = dump.kind
  PROVE  OneDump'
  <1>1. queue \in Seq(Msg)
    BY DEF Types
  <1>2. (Free(queue', DoneMsg) <=> Free(queue, DoneMsg)) /\ Single(queue', DoneMsg)
    BY <1>1, FreeStep, SingleStep, Zenon DEF OneDump
  <1>. QED
    BY <1>2, Zenon DEF OneDump

\* Every step keeps it that at most one dump is awaited.
LEMMA OneDumpStep ==
  ASSUME IInv, [Next]_vars
  PROVE  OneDump'
  <1>0. Types /\ OneDump
    BY DEF IInv
  <1>1. queue \in Seq(Msg) /\ dump.kind \in {"none", "link", "addr", "route"}
    BY <1>0 DEF Types, TypeOK
  <1>2. CASE KernelChange
    <2>1. PICK m \in Msg : Notify(m) /\ KernelOK' /\ m \notin DoneMsg
      BY <1>0, <1>2, KernelChangeIs
    <2>2. /\ UNCHANGED <<dump, phase, links, pos>>
          /\ UNCHANGED queue \/ (phase # "open" /\ queue' = Append(queue, m))
      BY <1>0, <2>1, NotifyTypes, Zenon
    <2>3. CASE UNCHANGED queue
      BY <1>0, <2>2, <2>3, Zenon DEF OneDump
    <2>. QED
      BY <1>0, <2>1, <2>2, <2>3, OneDumpAppend, Zenon
  <1>3. CASE SendDump
    <2>1. /\ UNCHANGED <<phase, links, pos>> /\ dump.kind # "none" /\ phase # "open" /\ Free(queue, DoneMsg)
          /\ phase \notin {"sync", "listen"}
      BY <1>0, <1>3, SendDumpIs DEF OneDump
    <2>2. CASE dump'.kind = dump.kind
      <3>1. PICK m \in Msg : m.kind # "done" /\ queue' = Append(queue, m)
        <4>1. CASE dump.kind = "link"
          <5>1. PICK k \in Kif : /\ kernel.link[k] \in SUBSET Flag
                                 /\ queue' = Append(queue, [kind |-> "link", k |-> k, flags |-> kernel.link[k], change |-> {}])
            <6>1. dump' # NoDump /\ dump.kind # "addr" /\ dump.kind # "route"
              BY <2>2, <4>1 DEF NoDump
            <6>. QED
              BY <1>0, <1>3, <6>1, SendDumpIs, Zenon
          <5>. DEFINE m == [kind |-> "link", k |-> k, flags |-> kernel.link[k], change |-> {}]
          <5>2. m \in Msg /\ m.kind # "done"
            BY <5>1, Sent, ZenonT(60)
          <5>. QED
            BY <5>1, <5>2, Zenon
        <4>2. CASE dump.kind = "addr"
          <5>1. PICK k \in Kif, a \in Addr : queue' = Append(queue, [kind |-> "addr", k |-> k, a |-> a, is_new |-> TRUE])
            <6>1. dump' # NoDump /\ dump.kind # "link" /\ dump.kind # "route"
              BY <2>2, <4>2 DEF NoDump
            <6>. QED
              BY <1>0, <1>3, <6>1, SendDumpIs, Zenon
          <5>. DEFINE m == [kind |-> "addr", k |-> k, a |-> a, is_new |-> TRUE]
          <5>2. m \in Msg /\ m.kind # "done"
            BY Sent, ZenonT(60)
          <5>. QED
            BY <5>1, <5>2, Zenon
        <4>3. CASE dump.kind = "route"
          <5>1. PICK d \in Dst : /\ kernel.route[d] \in Route
                                 /\ queue' = Append(queue, [kind |-> "route", d |-> d, r |-> kernel.route[d], is_new |-> TRUE])
            <6>1. dump' # NoDump /\ dump.kind # "link" /\ dump.kind # "addr"
              BY <2>2, <4>3 DEF NoDump
            <6>. QED
              BY <1>0, <1>3, <6>1, SendDumpIs, Zenon
          <5>. DEFINE m == [kind |-> "route", d |-> d, r |-> kernel.route[d], is_new |-> TRUE]
          <5>2. m \in Msg /\ m.kind # "done"
            BY <5>1, Sent, ZenonT(60)
          <5>. QED
            BY <5>1, <5>2, Zenon
        <4>. QED
          BY <1>1, <2>1, <4>1, <4>2, <4>3
      <3>2. m \notin DoneMsg
        BY <3>1, Fields, Zenon
      <3>. QED
        BY <1>0, <2>1, <2>2, <3>1, <3>2, OneDumpAppend, Zenon
    <2>3. CASE dump' = NoDump /\ queue' = Append(queue, [kind |-> "done"])
      <3>1. Single(queue', DoneMsg)
        BY <1>0, <1>1, <2>1, <2>3, Sent, SingleStep, Zenon DEF OneDump
      <3>2. dump'.kind = "none"
        BY <2>3 DEF NoDump
      <3>. QED
        BY <1>0, <2>1, <3>1, <3>2 DEF OneDump
    <2>. QED
      BY <1>0, <1>3, <2>2, <2>3, SendDumpIs, Zenon
  <1>4. CASE Open
    <2>1. Free(queue, DoneMsg) /\ Single(queue, DoneMsg)
      BY <1>0, <1>4 DEF Open, OneDump, Free, Single
    <2>2. dump'.kind = "link"
      BY <1>4, RequestOK DEF Open
    <2>. QED
      BY <1>0, <1>4, <2>1, <2>2 DEF Open, OneDump
  <1>5. CASE ReceiveCache
    <2>1. queue # <<>> /\ queue' = Tail(queue) /\ UNCHANGED <<dump, pos>> /\ phase = "cache" /\ Head(queue) \in Msg
      BY <1>0, <1>5, ReceiveCacheTypes, Zenon DEF ReceiveCache
    <2>2. (Free(queue, DoneMsg) => Free(queue', DoneMsg)) /\ Single(queue', DoneMsg)
      BY <1>0, <1>1, <2>1, FreeStep, SingleStep, Zenon DEF OneDump
    <2>3. CASE Head(queue).kind = "done"
      <3>1. Head(queue) \in DoneMsg
        BY <2>1, <2>3, Fields, Zenon
      <3>2. Free(queue', DoneMsg)
        BY <1>0, <1>1, <2>1, <3>1, SingleStep, Zenon DEF OneDump
      <3>3. ~ Free(queue, DoneMsg)
        BY <1>1, <2>1, <3>1, FreeStep, Zenon
      <3>4. phase' = "sync" /\ dump.kind = "none"
        BY <1>0, <1>5, <2>3, <3>3, Zenon DEF ReceiveCache, OneDump
      <3>. QED
        BY <2>1, <2>2, <3>2, <3>4 DEF OneDump
    <2>4. CASE Head(queue).kind # "done"
      <3>1. phase' = "cache"
        BY <1>5, <2>1, <2>4, Zenon DEF ReceiveCache
      <3>. QED
        BY <1>0, <2>1, <2>2, <3>1 DEF OneDump
    <2>. QED
      BY <2>3, <2>4
  <1>6. CASE SyncLink
    BY <1>0, <1>6 DEF SyncLink, OneDump
  <1>7. CASE SyncDone
    <2>1. dump'.kind = "addr"
      BY <1>7, RequestOK DEF SyncDone
    <2>. QED
      BY <1>0, <1>7, <2>1 DEF SyncDone, OneDump
  <1>8. CASE Serve
    <2>1. /\ queue # <<>> /\ queue' = Tail(queue) /\ UNCHANGED <<links, pos>> /\ Head(queue) \in Msg
          /\ phase \in {"addr", "route", "listen"}
      BY <1>0, <1>8, ServeIs, Zenon
    <2>2. (Free(queue, DoneMsg) => Free(queue', DoneMsg)) /\ Single(queue', DoneMsg)
      BY <1>0, <1>1, <2>1, FreeStep, SingleStep, Zenon DEF OneDump
    <2>3. CASE UNCHANGED <<phase, dump>>
      BY <1>0, <2>1, <2>2, <2>3 DEF OneDump
    <2>4. CASE Head(queue).kind = "done" /\ ~ UNCHANGED <<phase, dump>>
      <3>1. Head(queue) \in DoneMsg
        BY <2>1, <2>4, Fields, Zenon
      <3>2. Free(queue', DoneMsg)
        BY <1>0, <1>1, <2>1, <3>1, SingleStep, Zenon DEF OneDump
      <3>3. ~ Free(queue, DoneMsg)
        BY <1>1, <2>1, <3>1, FreeStep, Zenon
      <3>4. dump.kind = "none"
        BY <1>0, <3>3, Zenon DEF OneDump
      <3>5. (phase' = "route" /\ dump'.kind = "route") \/ (phase' = "listen" /\ dump'.kind = "none")
        BY <1>0, <1>8, <2>4, <3>4, ServeIs, Zenon
      <3>. QED
        BY <2>1, <2>2, <3>2, <3>5 DEF OneDump
    <2>. QED
      BY <1>0, <1>8, <2>3, <2>4, ServeIs, Zenon
  <1>9. ASSUME NEW e \in Entry, AddInterface(e) PROVE OneDump'
    BY <1>0, <1>9, Zenon DEF AddInterface, OneDump
  <1>10. CASE Restart
    BY <1>10 DEF Restart, OneDump, NoDump, Free, Single
  <1>11. CASE UNCHANGED vars
    BY <1>0, <1>11, Zenon DEF vars, OneDump
  <1>. QED
    BY <1>2, <1>3, <1>4, <1>5, <1>6, <1>7, <1>8, <1>9, <1>10, <1>11, Zenon DEF Next, NetlinkManager, Serve

-----------------------------------------------------------------------------
(* What the kernel sends                                                    *)

\* Message m says what the kernel has now, and what it does not speak of is as before.
LinkSaid(m, k) ==
  kernel'.link[k] # None =>
    /\ kernel.link[k] # None /\ m \notin Gone(k)
    /\ m \in LinkOf(k) => ("UP" \in m.flags <=> "UP" \in kernel'.link[k])
    /\ m \notin Ups(k) => ("UP" \in kernel'.link[k] <=> "UP" \in kernel.link[k])

AddrSaid(m, k, a) ==
  /\ m \in AddrOf(k, a) => (m.is_new <=> <<k, a>> \in kernel'.addr)
  /\ m \notin AddrOf(k, a) => (<<k, a>> \in kernel'.addr <=> <<k, a>> \in kernel.addr)

RouteSaid(m, d) ==
  /\ m \in RouteOf(d) => kernel'.route[d] = IF m.is_new THEN m.r ELSE None
  /\ m \notin RouteOf(d) => kernel'.route[d] = kernel.route[d]

Said(m) ==
  /\ \A k \in Kif : LinkSaid(m, k)
  /\ \A k \in Kif, a \in Addr : AddrSaid(m, k, a)
  /\ \A d \in Dst : RouteSaid(m, d)

\* A dump has sent m, or will still send what it has to.
DumpKept(m) ==
  /\ \A k \in Kif : dump.kind = "link" /\ k \in dump.todo /\ kernel.link[k] # None /\ m \notin LinkOf(k) =>
                      dump'.kind = "link" /\ k \in dump'.todo
  /\ \A x \in kernel.addr : dump.kind = "addr" /\ x \in dump.todo /\ m \notin AddrOf(x[1], x[2]) =>
                              dump'.kind = "addr" /\ x \in dump'.todo
  /\ \A d \in Dst : dump.kind = "route" /\ d \in dump.todo /\ kernel.route[d] # None /\ m \notin RouteOf(d) =>
                      dump'.kind = "route" /\ d \in dump'.todo

\* A message that is not about links, addresses or routes is about none of them.
LEMMA NotAbout ==
  ASSUME NEW m
  PROVE  /\ m.kind # "link" => \A k : m \notin LinkOf(k) /\ m \notin Ups(k)
         /\ m.kind # "dellink" => \A k : m \notin Gone(k)
         /\ m.kind # "addr" => \A k, a : m \notin AddrOf(k, a)
         /\ m.kind # "route" => \A d : m \notin RouteOf(d)
  BY Zenon DEF LinkOf, Ups, Gone, AddrOf, RouteOf

\* A message that is not about links says nothing wrong about them ...
LEMMA SameLinks ==
  ASSUME NEW m, m.kind # "link", m.kind # "dellink", kernel'.link = kernel.link
  PROVE  \A k \in Kif : LinkSaid(m, k)
  BY NotAbout, Zenon DEF LinkSaid

\* ... nor about addresses ...
LEMMA SameAddrs ==
  ASSUME NEW m, m.kind # "addr", kernel'.addr = kernel.addr
  PROVE  \A k \in Kif, a \in Addr : AddrSaid(m, k, a)
  BY NotAbout, Zenon DEF AddrSaid

\* ... nor about routes.
LEMMA SameRoutes ==
  ASSUME NEW m, m.kind # "route", kernel'.route = kernel.route
  PROVE  \A d \in Dst : RouteSaid(m, d)
  BY NotAbout, Zenon DEF RouteSaid

\* The notification of each change says what the kernel has now: of ip link set,
LEMMA SetFlagsSaid ==
  ASSUME Types, NEW k \in Kif, NEW F \in SUBSET Flag, SetFlags(k, F)
  PROVE  \E m \in Msg : Notify(m) /\ KernelOK' /\ Said(m)
  <1>1. PICK G \in SUBSET Flag :
           LET m == [kind |-> "link", k |-> k, flags |-> F, change |-> G]
           IN  /\ m \in Msg /\ Notify(m) /\ KernelOK'
               /\ G = (F \ kernel.link[k]) \cup (kernel.link[k] \ F)
               /\ kernel.link[k] # None
               /\ kernel' = [kernel EXCEPT !.link[k] = F]
    BY SetFlagsTypes, Zenon
  <1>. DEFINE m == [kind |-> "link", k |-> k, flags |-> F, change |-> G]
  <1>2. m.kind = "link" /\ m.k = k /\ m.flags = F /\ m.change = G
    OBVIOUS
  <1>3. m \in Msg /\ Notify(m) /\ KernelOK'
    BY <1>1, Zenon
  <1>. HIDE DEF m
  <1>4. KernelOK
    BY TypesAre
  <1>5. /\ kernel'.addr = kernel.addr /\ kernel'.route = kernel.route
        /\ \A j \in Kif : kernel'.link[j] = IF j = k THEN F ELSE kernel.link[j]
    BY <1>1, <1>4 DEF KernelOK
  <1>6. ASSUME NEW j \in Kif PROVE LinkSaid(m, j)
    <2>1. m \notin Gone(j)
      BY <1>2, NotAbout
    <2>2. CASE j # k
      <3>1. m \notin LinkOf(j) /\ m \notin Ups(j)
        BY <1>2, <2>2, Zenon DEF LinkOf, Ups
      <3>. QED
        BY <1>5, <2>1, <2>2, <3>1, Zenon DEF LinkSaid
    <2>3. CASE j = k
      <3>1. m \in Ups(j) <=> "UP" \in G
        BY <1>2, <1>3, <2>3, Zenon DEF LinkOf, Ups
      <3>2. "UP" \notin G => ("UP" \in F <=> "UP" \in kernel.link[k])
        BY <1>1
      <3>. QED
        BY <1>1, <1>2, <1>5, <2>1, <2>3, <3>1, <3>2, Zenon DEF LinkSaid
    <2>. QED
      BY <2>2, <2>3
  <1>7. (\A j \in Kif, a \in Addr : AddrSaid(m, j, a)) /\ (\A d \in Dst : RouteSaid(m, d))
    BY <1>2, <1>5, SameAddrs, SameRoutes
  <1>. QED
    BY <1>3, <1>6, <1>7, Zenon DEF Said

\* of ip link del,
LEMMA DelLinkSaid ==
  ASSUME Types, NEW k \in Kif, DelLink(k)
  PROVE  \E m \in Msg : Notify(m) /\ KernelOK' /\ Said(m)
  <1>1. PICK F \in SUBSET Flag :
           LET m == [kind |-> "dellink", k |-> k, flags |-> F, change |-> Flag]
           IN  m \in Msg /\ Notify(m) /\ KernelOK' /\ kernel' = [kernel EXCEPT !.link[k] = None]
    BY DelLinkTypes, Zenon
  <1>. DEFINE m == [kind |-> "dellink", k |-> k, flags |-> F, change |-> Flag]
  <1>2. m.kind = "dellink" /\ m.k = k
    OBVIOUS
  <1>3. m \in Msg /\ Notify(m) /\ KernelOK'
    BY <1>1, Zenon
  <1>. HIDE DEF m
  <1>4. KernelOK
    BY TypesAre
  <1>5. /\ kernel'.addr = kernel.addr /\ kernel'.route = kernel.route
        /\ \A j \in Kif : kernel'.link[j] = IF j = k THEN None ELSE kernel.link[j]
    BY <1>1, <1>4 DEF KernelOK
  <1>6. ASSUME NEW j \in Kif PROVE LinkSaid(m, j)
    <2>1. m \notin LinkOf(j) /\ m \notin Ups(j)
      BY <1>2, NotAbout
    <2>2. CASE j # k
      <3>1. m \notin Gone(j)
        BY <1>2, <2>2, Zenon DEF Gone
      <3>. QED
        BY <1>5, <2>1, <2>2, <3>1, Zenon DEF LinkSaid
    <2>3. CASE j = k
      BY <1>5, <2>3, Zenon DEF LinkSaid
    <2>. QED
      BY <2>2, <2>3
  <1>7. (\A j \in Kif, a \in Addr : AddrSaid(m, j, a)) /\ (\A d \in Dst : RouteSaid(m, d))
    BY <1>2, <1>5, SameAddrs, SameRoutes
  <1>. QED
    BY <1>3, <1>6, <1>7, Zenon DEF Said

\* of ip addr add and del,
LEMMA SetAddrSaid ==
  ASSUME Types, NEW k \in Kif, NEW a \in Addr, NEW b \in BOOLEAN, SetAddr(k, a, b)
  PROVE  \E m \in Msg : Notify(m) /\ KernelOK' /\ Said(m)
  <1>. DEFINE m == [kind |-> "addr", k |-> k, a |-> a, is_new |-> b]
  <1>1. /\ m \in Msg /\ Notify(m) /\ KernelOK'
        /\ kernel'.link = kernel.link /\ kernel'.route = kernel.route
        /\ kernel'.addr = IF b THEN kernel.addr \cup {<<k, a>>} ELSE kernel.addr \ {<<k, a>>}
    BY SetAddrTypes, Zenon
  <1>2. m.kind = "addr" /\ m.k = k /\ m.a = a /\ m.is_new = b
    OBVIOUS
  <1>. HIDE DEF m
  <1>3. ASSUME NEW j \in Kif, NEW c \in Addr PROVE AddrSaid(m, j, c)
    <2>1. m \in AddrOf(j, c) <=> j = k /\ c = a
      BY <1>1, <1>2, Zenon DEF AddrOf
    <2>2. <<j, c>> = <<k, a>> <=> j = k /\ c = a
      OBVIOUS
    <2>. QED
      BY <1>1, <1>2, <2>1, <2>2 DEF AddrSaid
  <1>4. (\A j \in Kif : LinkSaid(m, j)) /\ (\A d \in Dst : RouteSaid(m, d))
    BY <1>1, <1>2, SameLinks, SameRoutes, ZenonT(60)
  <1>. QED
    BY <1>1, <1>3, <1>4, Zenon DEF Said

\* of ip route add,
LEMMA AddRouteSaid ==
  ASSUME Types, NEW d \in Dst, NEW r \in Route, AddRoute(d, r)
  PROVE  \E m \in Msg : Notify(m) /\ KernelOK' /\ Said(m)
  <1>. DEFINE m == [kind |-> "route", d |-> d, r |-> r, is_new |-> TRUE]
  <1>1. /\ m \in Msg /\ Notify(m) /\ KernelOK'
        /\ kernel'.link = kernel.link /\ kernel'.addr = kernel.addr
        /\ kernel'.route = [kernel.route EXCEPT ![d] = r]
    BY AddRouteTypes, Zenon
  <1>2. m.kind = "route" /\ m.d = d /\ m.r = r /\ m.is_new
    OBVIOUS
  <1>. HIDE DEF m
  <1>3. KernelOK
    BY TypesAre
  <1>4. \A c \in Dst : kernel'.route[c] = IF c = d THEN r ELSE kernel.route[c]
    BY <1>1, <1>3 DEF KernelOK
  <1>5. ASSUME NEW c \in Dst PROVE RouteSaid(m, c)
    <2>1. m \in RouteOf(c) <=> c = d
      BY <1>1, <1>2, Zenon DEF RouteOf
    <2>. QED
      BY <1>2, <1>4, <2>1, Zenon DEF RouteSaid
  <1>6. (\A j \in Kif : LinkSaid(m, j)) /\ (\A j \in Kif, a \in Addr : AddrSaid(m, j, a))
    BY <1>1, <1>2, SameLinks, SameAddrs
  <1>. QED
    BY <1>1, <1>5, <1>6, Zenon DEF Said

\* of ip route del,
LEMMA DelRouteSaid ==
  ASSUME Types, NEW d \in Dst, DelRoute(d)
  PROVE  \E m \in Msg : Notify(m) /\ KernelOK' /\ Said(m)
  <1>0. PICK r \in Route :
           LET m == [kind |-> "route", d |-> d, r |-> r, is_new |-> FALSE]
           IN  /\ m \in Msg /\ Notify(m) /\ KernelOK'
               /\ kernel'.link = kernel.link /\ kernel'.addr = kernel.addr
               /\ kernel'.route = [kernel.route EXCEPT ![d] = None]
    BY DelRouteTypes, Zenon
  <1>. DEFINE m == [kind |-> "route", d |-> d, r |-> r, is_new |-> FALSE]
  <1>1. /\ m \in Msg /\ Notify(m) /\ KernelOK'
        /\ kernel'.link = kernel.link /\ kernel'.addr = kernel.addr
        /\ kernel'.route = [kernel.route EXCEPT ![d] = None]
    BY <1>0, Zenon
  <1>2. m.kind = "route" /\ m.d = d /\ ~m.is_new
    OBVIOUS
  <1>. HIDE DEF m
  <1>3. KernelOK
    BY TypesAre
  <1>4. \A c \in Dst : kernel'.route[c] = IF c = d THEN None ELSE kernel.route[c]
    BY <1>1, <1>3 DEF KernelOK
  <1>5. ASSUME NEW c \in Dst PROVE RouteSaid(m, c)
    <2>1. m \in RouteOf(c) <=> c = d
      BY <1>1, <1>2, Zenon DEF RouteOf
    <2>. QED
      BY <1>2, <1>4, <2>1, Zenon DEF RouteSaid
  <1>6. (\A j \in Kif : LinkSaid(m, j)) /\ (\A j \in Kif, a \in Addr : AddrSaid(m, j, a))
    BY <1>1, <1>2, SameLinks, SameAddrs
  <1>. QED
    BY <1>1, <1>5, <1>6, Zenon DEF Said

\* and of a seg6local route.
LEMMA SetSidSaid ==
  ASSUME Types, NEW s \in Sid, NEW k \in Kif, NEW b \in BOOLEAN, SetSid(s, k, b)
  PROVE  \E m \in Msg : Notify(m) /\ KernelOK' /\ Said(m)
  <1>. DEFINE m == [kind |-> "sid", s |-> s, k |-> k, is_new |-> b]
  <1>1. /\ m \in Msg /\ Notify(m) /\ KernelOK'
        /\ kernel'.link = kernel.link /\ kernel'.addr = kernel.addr /\ kernel'.route = kernel.route
    BY SetSidTypes, Zenon
  <1>2. m.kind = "sid"
    OBVIOUS
  <1>. HIDE DEF m
  <1>3. /\ \A j \in Kif : LinkSaid(m, j)
        /\ \A j \in Kif, a \in Addr : AddrSaid(m, j, a)
        /\ \A d \in Dst : RouteSaid(m, d)
    BY <1>1, <1>2, SameLinks, SameAddrs, SameRoutes
  <1>. QED
    BY <1>1, <1>3, Zenon DEF Said

\* A message that comes, from a change or from a dump, with everything that it changes.
LEMMA Arrival ==
  ASSUME Types, KernelChange \/ SendDump, phase # "open", ~lost'
  PROVE  \E m \in Msg : /\ queue' = Append(queue, m) /\ Said(m) /\ DumpKept(m) /\ ~lost
                        /\ UNCHANGED <<phase, links, pos, interfaces, vpp, misread, restarts>>
  <1>1. CASE KernelChange
    <2>1. PICK m \in Msg : Notify(m) /\ KernelOK' /\ Said(m)
      BY <1>1, SetFlagsSaid, DelLinkSaid, SetAddrSaid, AddRouteSaid, DelRouteSaid, SetSidSaid, Zenon
      DEF KernelChange
    <2>2. /\ queue' = Append(queue, m) /\ ~lost
          /\ UNCHANGED <<dump, phase, links, pos, interfaces, vpp, misread, restarts>>
      BY <2>1, NotifyTypes, Zenon
    <2>3. DumpKept(m)
      BY <2>2, Zenon DEF DumpKept
    <2>. QED
      BY <2>1, <2>2, <2>3, Zenon
  <1>2. CASE SendDump
    <2>0. ~lost /\ UNCHANGED <<kernel, phase, links, pos, interfaces, vpp, misread, restarts>> /\ KernelOK
      <3>1. UNCHANGED <<kernel, phase, links, pos, interfaces, vpp, lost, misread, restarts>>
        BY <1>2 DEF SendDump
      <3>2. ~lost
        BY <3>1
      <3>. QED
        BY <3>1, <3>2, TypesAre
    <2>1. CASE dump.kind = "link" /\ dump'.kind = "link"
      <3>1. PICK k \in Kif : /\ k \in dump.todo /\ dump'.todo = dump.todo \ {k}
                             /\ kernel.link[k] # None /\ kernel.link[k] \in SUBSET Flag
                             /\ queue' = Append(queue, [kind |-> "link", k |-> k, flags |-> kernel.link[k], change |-> {}])
        <4>1. dump' # NoDump /\ dump.kind # "addr" /\ dump.kind # "route"
          BY <2>1 DEF NoDump
        <4>. QED
          BY <1>2, <4>1, SendDumpIs, Zenon
      <3>. DEFINE m == [kind |-> "link", k |-> k, flags |-> kernel.link[k], change |-> {}]
      <3>2. m \in Msg /\ m.kind = "link" /\ m.k = k /\ m.flags = kernel.link[k] /\ m.change = {}
        BY <3>1, Sent, ZenonT(60)
      <3>3. queue' = Append(queue, m)
        BY <3>1, Zenon
      <3>. HIDE DEF m
      <3>4. ASSUME NEW j \in Kif PROVE (m \in LinkOf(j) <=> j = k) /\ m \notin Ups(j) /\ m \notin Gone(j)
        BY <3>2, NotAbout DEF LinkOf, Ups
      <3>5. \A j \in Kif : LinkSaid(m, j)
        BY <2>0, <3>2, <3>4, Zenon DEF LinkSaid
      <3>6. (\A j \in Kif, a \in Addr : AddrSaid(m, j, a)) /\ (\A d \in Dst : RouteSaid(m, d))
        BY <2>0, <3>2, SameAddrs, SameRoutes
      <3>7. DumpKept(m)
        BY <2>1, <3>1, <3>4 DEF DumpKept
      <3>. QED
        BY <2>0, <3>2, <3>3, <3>5, <3>6, <3>7, Zenon DEF Said
    <2>2. CASE dump.kind = "addr" /\ dump'.kind = "addr"
      <3>1. PICK k \in Kif, a \in Addr :
                    /\ <<k, a>> \in dump.todo /\ dump'.todo = dump.todo \ {<<k, a>>}
                    /\ <<k, a>> \in kernel.addr
                    /\ queue' = Append(queue, [kind |-> "addr", k |-> k, a |-> a, is_new |-> TRUE])
        <4>1. dump' # NoDump /\ dump.kind # "link" /\ dump.kind # "route"
          BY <2>2 DEF NoDump
        <4>. QED
          BY <1>2, <4>1, SendDumpIs, Zenon
      <3>. DEFINE m == [kind |-> "addr", k |-> k, a |-> a, is_new |-> TRUE]
      <3>2. m \in Msg /\ m.kind = "addr" /\ m.k = k /\ m.a = a /\ m.is_new
        BY Sent, ZenonT(60)
      <3>3. queue' = Append(queue, m)
        BY <3>1, Zenon
      <3>. HIDE DEF m
      <3>4. ASSUME NEW j \in Kif, NEW c \in Addr PROVE m \in AddrOf(j, c) <=> j = k /\ c = a
        BY <3>2, Zenon DEF AddrOf
      <3>5. \A j \in Kif, c \in Addr : AddrSaid(m, j, c)
        BY <2>0, <3>1, <3>2, <3>4, Zenon DEF AddrSaid
      <3>6. (\A j \in Kif : LinkSaid(m, j)) /\ (\A d \in Dst : RouteSaid(m, d))
        BY <2>0, <3>2, SameLinks, SameRoutes
      <3>7. DumpKept(m)
        <4>1. ASSUME NEW x \in kernel.addr, m \notin AddrOf(x[1], x[2]) PROVE x # <<k, a>>
          BY <3>4, <4>1
        <4>. QED
          BY <2>2, <3>1, <4>1 DEF DumpKept
      <3>. QED
        BY <2>0, <3>2, <3>3, <3>5, <3>6, <3>7, Zenon DEF Said
    <2>3. CASE dump.kind = "route" /\ dump'.kind = "route"
      <3>1. PICK d \in Dst : /\ d \in dump.todo /\ dump'.todo = dump.todo \ {d}
                             /\ kernel.route[d] # None /\ kernel.route[d] \in Route
                             /\ queue' = Append(queue, [kind |-> "route", d |-> d, r |-> kernel.route[d], is_new |-> TRUE])
        <4>1. dump' # NoDump /\ dump.kind # "link" /\ dump.kind # "addr"
          BY <2>3 DEF NoDump
        <4>. QED
          BY <1>2, <4>1, SendDumpIs, Zenon
      <3>. DEFINE m == [kind |-> "route", d |-> d, r |-> kernel.route[d], is_new |-> TRUE]
      <3>2. m \in Msg /\ m.kind = "route" /\ m.d = d /\ m.r = kernel.route[d] /\ m.is_new
        BY <3>1, Sent, ZenonT(60)
      <3>3. queue' = Append(queue, m)
        BY <3>1, Zenon
      <3>. HIDE DEF m
      <3>4. ASSUME NEW c \in Dst PROVE m \in RouteOf(c) <=> c = d
        BY <3>2, Zenon DEF RouteOf
      <3>5. \A c \in Dst : RouteSaid(m, c)
        BY <2>0, <3>2, <3>4, Zenon DEF RouteSaid
      <3>6. (\A j \in Kif : LinkSaid(m, j)) /\ (\A j \in Kif, a \in Addr : AddrSaid(m, j, a))
        BY <2>0, <3>2, SameLinks, SameAddrs
      <3>7. DumpKept(m)
        BY <2>3, <3>1, <3>4 DEF DumpKept
      <3>. QED
        BY <2>0, <3>2, <3>3, <3>5, <3>6, <3>7, Zenon DEF Said
    <2>4. CASE /\ dump' = NoDump /\ queue' = Append(queue, [kind |-> "done"])
               /\ dump.kind = "link" => \A k \in Kif : k \in dump.todo => kernel.link[k] = None
               /\ dump.kind = "addr" => \A x \in kernel.addr : x \notin dump.todo
               /\ dump.kind = "route" => \A d \in Dst : d \in dump.todo => kernel.route[d] = None
      <3>. DEFINE m == [kind |-> "done"]
      <3>1. m \in Msg /\ m.kind = "done"
        BY Sent, ZenonT(60)
      <3>2. queue' = Append(queue, m)
        BY <2>4, Zenon
      <3>. HIDE DEF m
      <3>3. /\ \A j \in Kif : LinkSaid(m, j)
            /\ \A j \in Kif, a \in Addr : AddrSaid(m, j, a)
            /\ \A d \in Dst : RouteSaid(m, d)
        BY <2>0, <3>1, SameLinks, SameAddrs, SameRoutes
      <3>4. DumpKept(m)
        BY <2>4, Zenon DEF DumpKept
      <3>. QED
        BY <2>0, <3>1, <3>2, <3>3, <3>4, Zenon DEF Said
    <2>. QED
      BY <1>2, <2>1, <2>2, <2>3, <2>4, SendDumpIs, Zenon
  <1>. QED
    BY <1>1, <1>2

-----------------------------------------------------------------------------
(* Addresses                                                                *)

\* A message arrives.
LEMMA AddrArrival ==
  ASSUME Types, NEW k \in Kif, NEW a \in Addr, AddrInv(k, a), NEW m \in Msg, queue' = Append(queue, m),
         Said(m), DumpKept(m), UNCHANGED <<phase, interfaces, vpp, restarts>>
  PROVE  AddrInv(k, a)'
  <1>. DEFINE S == AddrOf(k, a)
              G == AddrNow(k, a)
              H == AddrNow(k, a)'
  <1>1. queue \in Seq(Msg) /\ Last(queue, S, S, G)
    BY Zenon DEF Types, AddrInv
  <1>2. AddrSaid(m, k, a)
    BY Zenon DEF Said
  <1>3. m \in S => m \in H
    BY <1>2, Zenon DEF AddrSaid, AddrNow
  <1>4. m \in S \/ G = H
    BY <1>2 DEF AddrSaid, AddrNow
  <1>5. (m \notin S => (<<k, a>> \in kernel'.addr <=> <<k, a>> \in kernel.addr))
        /\ Paired' = Paired /\ Kernel2Vpp(k)' = Kernel2Vpp(k)
    BY <1>2, SamePairs, Zenon DEF AddrSaid
  <1>6. m \notin S /\ <<k, a>> \in kernel.addr /\ dump.kind = "addr" /\ <<k, a>> \in dump.todo =>
          dump'.kind = "addr" /\ <<k, a>> \in dump'.todo
    BY DEF DumpKept
  <1>7. AddrInv(k, a)' <=>
          /\ Last(queue', S, S, H)
          /\ phase' \in {"addr", "route", "listen"} /\ k \in Paired' /\ Free(queue', S) =>
               /\ <<k, a>> \in kernel'.addr =>
                    <<Kernel2Vpp(k)', a>> \in vpp'.addr \/ (dump'.kind = "addr" /\ <<k, a>> \in dump'.todo)
               /\ restarts' = 0 /\ <<Kernel2Vpp(k)', a>> \in vpp'.addr => <<k, a>> \in kernel'.addr
    BY Zenon DEF AddrInv
  <1>8. /\ phase \in {"addr", "route", "listen"} /\ k \in Paired /\ Free(queue, S) =>
             /\ <<k, a>> \in kernel.addr =>
                  <<Kernel2Vpp(k), a>> \in vpp.addr \/ (dump.kind = "addr" /\ <<k, a>> \in dump.todo)
             /\ restarts = 0 /\ <<Kernel2Vpp(k), a>> \in vpp.addr => <<k, a>> \in kernel.addr
    BY Zenon DEF AddrInv
  <1>. HIDE DEF S, G, H
  <1>9. Last(queue', S, S, H)
    BY <1>1, <1>3, <1>4, LastAppend, Zenon
  <1>10. Free(queue', S) => Free(queue, S) /\ m \notin S
    BY <1>1, FreeStep, Zenon
  <1>. QED
    BY <1>5, <1>6, <1>7, <1>8, <1>9, <1>10, Zenon

\* The thread reads a message into the cache or hands it to monitor.
LEMMA AddrRead ==
  ASSUME Types, NEW k \in Kif, NEW a \in Addr, AddrInv(k, a), queue # <<>>, queue' = Tail(queue),
         UNCHANGED <<kernel, interfaces, restarts>>,
         \/ phase' \notin {"addr", "route", "listen"}
         \/ Serve /\ ~lost' /\ OneDump
  PROVE  AddrInv(k, a)'
  <1>. DEFINE S == AddrOf(k, a)
              G == AddrNow(k, a)
              m == Head(queue)
              v == Kernel2Vpp(k)
  <1>1. queue \in Seq(Msg) /\ Last(queue, S, S, G) /\ AddrNow(k, a)' = G
    BY Zenon DEF Types, AddrInv, AddrNow
  <1>2. AddrInv(k, a)' <=>
          /\ Last(queue', S, S, G)
          /\ phase' \in {"addr", "route", "listen"} /\ k \in Paired' /\ Free(queue', S) =>
               /\ <<k, a>> \in kernel'.addr =>
                    <<Kernel2Vpp(k)', a>> \in vpp'.addr \/ (dump'.kind = "addr" /\ <<k, a>> \in dump'.todo)
               /\ restarts' = 0 /\ <<Kernel2Vpp(k)', a>> \in vpp'.addr => <<k, a>> \in kernel'.addr
    BY <1>1, Zenon DEF AddrInv
  <1>3. /\ phase \in {"addr", "route", "listen"} /\ k \in Paired /\ Free(queue, S) =>
             /\ <<k, a>> \in kernel.addr =>
                  <<v, a>> \in vpp.addr \/ (dump.kind = "addr" /\ <<k, a>> \in dump.todo)
             /\ restarts = 0 /\ <<v, a>> \in vpp.addr => <<k, a>> \in kernel.addr
    BY Zenon DEF AddrInv
  <1>4. Paired' = Paired /\ Kernel2Vpp(k)' = v /\ m \in Msg
    BY <1>1, SamePairs
  <1>5. m \in G => (m.is_new <=> <<k, a>> \in kernel.addr)
    BY Zenon DEF AddrNow
  <1>6. ASSUME Serve, ~lost', k \in Paired
        PROVE  /\ m \notin S => (<<v, a>> \in vpp'.addr <=> <<v, a>> \in vpp.addr)
               /\ m \in S => (<<v, a>> \in vpp'.addr <=> m.is_new)
    BY <1>4, <1>6, MonitorAddr, ServeIs, Zenon
  <1>7. ASSUME Serve, OneDump, dump.kind = "addr" PROVE UNCHANGED dump /\ phase \in {"addr", "route", "listen"}
    <2>1. phase = "addr" /\ Free(queue, DoneMsg)
      BY <1>7 DEF OneDump
    <2>2. m.kind # "done"
      <3>1. m \notin DoneMsg
        BY <1>1, <1>4, <2>1, FreeStep, Zenon
      <3>. QED
        BY <1>4, <3>1, Fields, Zenon
    <2>. QED
      BY <1>7, <2>2, ServeIs, Zenon
  <1>. HIDE DEF S, G, m, v
  <1>8. Last(queue', S, S, G) /\ (m \in S /\ Free(queue', S) => m \in G)
    BY <1>1, LastTail, Zenon DEF m
  <1>9. Free(queue', S) /\ m \notin S => Free(queue, S)
    BY <1>1, <1>4, FreeStep, Zenon DEF m
  <1>10. CASE phase' \notin {"addr", "route", "listen"}
    BY <1>2, <1>8, <1>10, Zenon
  <1>11. CASE Serve /\ ~lost' /\ OneDump
    <2>. SUFFICES ASSUME k \in Paired, Free(queue', S)
                  PROVE  /\ <<k, a>> \in kernel.addr =>
                              <<v, a>> \in vpp'.addr \/ (dump'.kind = "addr" /\ <<k, a>> \in dump'.todo)
                         /\ restarts = 0 /\ <<v, a>> \in vpp'.addr => <<k, a>> \in kernel.addr
      BY <1>2, <1>4, <1>8, Zenon
    <2>1. CASE m \in S
      BY <1>5, <1>6, <1>8, <1>11, <2>1, Zenon
    <2>2. CASE m \notin S
      <3>1. phase \in {"addr", "route", "listen"}
        BY <1>11, ServeIs, Zenon
      <3>. QED
        BY <1>3, <1>6, <1>7, <1>9, <1>11, <2>2, <3>1, Zenon
    <2>. QED
      BY <2>1, <2>2
  <1>. QED
    BY <1>10, <1>11

\* Every step keeps the invariant of an address.
LEMMA AddrStep ==
  ASSUME IInv, [Next]_vars, ~lost', phase' # "open", NEW k \in Kif, NEW a \in Addr
  PROVE  AddrInv(k, a)'
  <1>0. Types /\ BootFirst /\ OneDump /\ Empty /\ (phase # "open" /\ ~lost => AddrInv(k, a))
    BY Zenon DEF IInv
  <1>1. CASE KernelChange \/ SendDump
    <2>1. phase # "open"
      <3>1. CASE KernelChange
        BY <1>0, <3>1, KernelChangeIs, NotifyTypes
      <3>2. CASE SendDump
        BY <3>2 DEF SendDump
      <3>. QED
        BY <1>1, <3>1, <3>2
    <2>2. PICK m \in Msg : /\ queue' = Append(queue, m) /\ Said(m) /\ DumpKept(m) /\ ~lost
                           /\ UNCHANGED <<phase, links, pos, interfaces, vpp, misread, restarts>>
      BY <1>0, <1>1, <2>1, Arrival
    <2>. QED
      BY <1>0, <2>1, <2>2, AddrArrival, Zenon
  <1>2. CASE Open
    <2>1. queue' = <<>> /\ phase' = "cache"
      BY <1>0, <1>2 DEF Open, OneDump
    <2>. QED
      BY <2>1 DEF AddrInv, Last
  <1>3. CASE ReceiveCache
    <2>1. /\ phase # "open" /\ ~lost /\ phase' \notin {"addr", "route", "listen"}
          /\ queue # <<>> /\ queue' = Tail(queue) /\ UNCHANGED <<kernel, interfaces, restarts>>
      BY <1>3 DEF ReceiveCache
    <2>. QED
      BY <1>0, <2>1, AddrRead, Zenon
  <1>4. CASE SyncLink
    <2>1. phase = "sync" /\ phase' = "sync" /\ ~lost /\ UNCHANGED <<kernel, queue>>
      BY <1>0, <1>4, SyncLinkIs DEF SyncLink
    <2>. QED
      BY <1>0, <2>1, ZenonT(60) DEF AddrInv, AddrNow
  <1>5. CASE SyncDone
    <2>1. /\ phase = "sync" /\ ~lost /\ UNCHANGED <<kernel, queue, vpp, interfaces, restarts>>
          /\ dump'.kind = "addr" /\ dump'.todo = Kif \X Addr
      BY <1>5, RequestOK DEF SyncDone, Everything
    <2>2. restarts = 0 => vpp.addr = {}
      BY <1>0, <2>1, Zenon DEF Empty
    <2>3. AddrNow(k, a)' = AddrNow(k, a) /\ Last(queue, AddrOf(k, a), AddrOf(k, a), AddrNow(k, a))
      BY <1>0, <2>1, Zenon DEF AddrNow, AddrInv
    <2>. QED
      BY <2>1, <2>2, <2>3, ZenonT(60) DEF AddrInv
  <1>6. CASE Serve
    <2>1. /\ queue # <<>> /\ queue' = Tail(queue) /\ UNCHANGED <<kernel, interfaces, restarts>>
          /\ phase # "open" /\ ~lost
      BY <1>0, <1>6, ServeIs
    <2>. QED
      BY <1>0, <1>6, <2>1, AddrRead, Zenon
  <1>7. ASSUME NEW e \in Entry, AddInterface(e) PROVE AddrInv(k, a)'
    <2>1. UNCHANGED <<kernel, queue, dump, phase, vpp, lost, restarts>> /\ interfaces' = Append(interfaces, e)
      BY <1>7 DEF AddInterface
    <2>2. k \in Paired' => k \in Paired /\ Kernel2Vpp(k)' = Kernel2Vpp(k)
      BY <1>0, <2>1, PairedKept, Zenon
    <2>3. AddrInv(k, a)
      BY <1>0, <2>1
    <2>. QED
      BY <2>1, <2>2, <2>3, Zenon DEF AddrInv, AddrNow
  <1>8. CASE Restart
    BY <1>8 DEF Restart
  <1>9. CASE UNCHANGED vars
    <2>1. /\ UNCHANGED <<kernel, queue, dump, phase, vpp, restarts, interfaces>>
          /\ phase # "open" /\ ~lost /\ Paired' = Paired /\ Kernel2Vpp(k)' = Kernel2Vpp(k)
      BY <1>9, SamePairs DEF vars
    <2>. QED
      BY <1>0, <2>1, Zenon DEF AddrInv, AddrNow
  <1>. QED
    BY <1>1, <1>2, <1>3, <1>4, <1>5, <1>6, <1>7, <1>8, <1>9, Zenon DEF Next, NetlinkManager, Serve

-----------------------------------------------------------------------------
(* Routes                                                                   *)

\* A message arrives.
LEMMA RouteArrival ==
  ASSUME Types, NEW d \in Dst, RouteInv(d), NEW m \in Msg, queue' = Append(queue, m),
         Said(m), DumpKept(m), UNCHANGED <<phase, interfaces, vpp, restarts>>
  PROVE  RouteInv(d)'
  <1>. DEFINE S == RouteOf(d)
              G == RouteNow(d)
              H == RouteNow(d)'
  <1>1. queue \in Seq(Msg) /\ Last(queue, S, S, G)
    BY Zenon DEF Types, RouteInv
  <1>2. RouteSaid(m, d)
    BY Zenon DEF Said
  <1>3. m \in S => m \in H
    BY <1>2, Zenon DEF RouteSaid, RouteNow
  <1>4. m \in S \/ G = H
    BY <1>2 DEF RouteSaid, RouteNow
  <1>5. /\ m \notin S => kernel'.route[d] = kernel.route[d]
        /\ Paired' = Paired
    BY <1>2, SamePairs, Zenon DEF RouteSaid
  <1>6. m \notin S /\ kernel.route[d] # None /\ dump.kind = "route" /\ d \in dump.todo =>
          dump'.kind = "route" /\ d \in dump'.todo
    BY Zenon DEF DumpKept
  <1>7. Last(queue', S, S, H)
    <2>. HIDE DEF S, G, H
    <2>. QED
      BY <1>1, <1>3, <1>4, LastAppend, Zenon
  <1>8. Free(queue', S) => Free(queue, S) /\ m \notin S
    <2>. HIDE DEF S
    <2>. QED
      BY <1>1, FreeStep, Zenon
  <1>9. CASE m \in S
    BY <1>7, <1>8, <1>9, Zenon DEF RouteInv
  <1>10. CASE m \notin S
    <2>1. /\ phase' \in {"addr", "route", "listen"} /\ restarts' = 0 /\ Free(queue', S) =>
               (kernel'.route[d] = None => vpp'.route[d] = None)
      BY <1>5, <1>8, <1>10, Zenon DEF RouteInv
    <2>2. ASSUME phase' \in {"route", "listen"}, Free(queue', S), kernel'.route[d] # None,
                 kernel'.route[d].oif \in Paired'
          PROVE  Carries(vpp.route[d], kernel.route[d])' \/ (dump'.kind = "route" /\ d \in dump'.todo)
      <3>1. kernel'.route[d] = kernel.route[d] /\ Free(queue, S)
        BY <1>5, <1>8, <1>10, <2>2, Zenon
      <3>2. Carries(vpp.route[d], kernel.route[d]) \/ (dump.kind = "route" /\ d \in dump.todo)
        BY <1>5, <2>2, <3>1, Zenon DEF RouteInv
      <3>3. Carries(vpp.route[d], kernel.route[d])' <=> Carries(vpp.route[d], kernel.route[d])
        BY <3>1, SamePairs, ZenonT(60) DEF Carries
      <3>. QED
        BY <1>6, <1>10, <2>2, <3>1, <3>2, <3>3, Zenon
    <2>. QED
      BY <1>7, <2>1, <2>2, Zenon DEF RouteInv
  <1>. QED
    BY <1>9, <1>10

\* The thread reads a message into the cache or hands it to monitor.
LEMMA RouteRead ==
  ASSUME Types, NEW d \in Dst, RouteInv(d), queue # <<>>, queue' = Tail(queue),
         UNCHANGED <<kernel, interfaces, restarts>>,
         \/ phase' \notin {"addr", "route", "listen"}
         \/ Serve /\ ~lost' /\ OneDump
  PROVE  RouteInv(d)'
  <1>. DEFINE S == RouteOf(d)
              G == RouteNow(d)
              m == Head(queue)
              r == kernel.route[d]
  <1>1. queue \in Seq(Msg) /\ Last(queue, S, S, G) /\ RouteNow(d)' = G
    BY Zenon DEF Types, RouteInv, RouteNow
  <1>2. Paired' = Paired /\ (Carries(vpp.route[d], kernel.route[d])' <=> Carries(vpp'.route[d], r)) /\ m \in Msg
    BY <1>1, SamePairs DEF Carries
  <1>3. RouteInv(d)' <=>
          /\ Last(queue', S, S, G)
          /\ phase' \in {"addr", "route", "listen"} /\ restarts' = 0 /\ Free(queue', S) =>
               (r = None => vpp'.route[d] = None)
          /\ phase' \in {"route", "listen"} /\ Free(queue', S) =>
               (r # None /\ r.oif \in Paired' =>
                  Carries(vpp'.route[d], r) \/ (dump'.kind = "route" /\ d \in dump'.todo))
    BY <1>1, <1>2, Zenon DEF RouteInv
  <1>4. /\ phase \in {"addr", "route", "listen"} /\ restarts = 0 /\ Free(queue, S) =>
             (r = None => vpp.route[d] = None)
        /\ phase \in {"route", "listen"} /\ Free(queue, S) =>
             (r # None /\ r.oif \in Paired =>
                Carries(vpp.route[d], r) \/ (dump.kind = "route" /\ d \in dump.todo))
    BY Zenon DEF RouteInv
  <1>5. m \in G => (r = None /\ ~m.is_new) \/ (r = m.r /\ m.is_new)
    BY Zenon DEF RouteNow
  <1>6. m \in S => m.r # None
    BY <1>2, Fields, NoneAssumption, Zenon DEF RouteOf
  <1>7. ASSUME Serve, ~lost'
        PROVE  /\ m \notin S => vpp'.route[d] = vpp.route[d]
               /\ m \in S /\ ~m.is_new => vpp'.route[d] = None
               /\ m \in S /\ m.is_new => Carries(vpp'.route[d], m.r)
    BY <1>2, <1>7, MonitorRoute, ServeIs, Zenon
  <1>8. ASSUME Serve, OneDump
        PROVE  /\ phase \in {"addr", "route", "listen"}
               /\ dump.kind = "route" => UNCHANGED dump
               /\ phase = "addr" /\ phase' \in {"route", "listen"} => dump'.kind = "route" /\ d \in dump'.todo
    <2>1. CASE dump.kind = "route"
      <3>1. phase = "route" /\ Free(queue, DoneMsg)
        BY <1>8, <2>1 DEF OneDump
      <3>2. m.kind # "done"
        <4>1. m \notin DoneMsg
          BY <1>1, <1>2, <3>1, FreeStep, Zenon
        <4>. QED
          BY <1>2, <4>1, Fields, Zenon
      <3>3. UNCHANGED <<phase, dump>> /\ phase # "addr"
        BY <1>8, <3>1, <3>2, ServeIs
      <3>. QED
        BY <3>1, <3>3
    <2>2. CASE dump.kind # "route"
      BY <1>8, <2>2, ServeIs
    <2>. QED
      BY <2>1, <2>2
  <1>. HIDE DEF S, G, m, r
  <1>9. Last(queue', S, S, G) /\ (m \in S /\ Free(queue', S) => m \in G)
    BY <1>1, LastTail, Zenon DEF m
  <1>10. Free(queue', S) /\ m \notin S => Free(queue, S)
    BY <1>1, <1>2, FreeStep, Zenon DEF m
  <1>11. CASE phase' \notin {"addr", "route", "listen"}
    BY <1>3, <1>9, <1>11
  <1>12. CASE Serve /\ ~lost' /\ OneDump
    <2>1. CASE m \in S
      BY <1>3, <1>5, <1>6, <1>7, <1>9, <1>12, <2>1, Zenon
    <2>2. CASE m \notin S
      <3>1. restarts = 0 /\ Free(queue', S) => (r = None => vpp'.route[d] = None)
        BY <1>4, <1>7, <1>8, <1>10, <1>12, <2>2, Zenon
      <3>2. phase' \in {"route", "listen"} /\ Free(queue', S) =>
               (r # None /\ r.oif \in Paired =>
                  Carries(vpp'.route[d], r) \/ (dump'.kind = "route" /\ d \in dump'.todo))
        <4>1. CASE phase = "addr"
          BY <1>8, <1>12, <4>1, Zenon
        <4>2. CASE phase # "addr"
          <5>1. phase \in {"route", "listen"}
            BY <1>8, <1>12, <4>2
          <5>. QED
            BY <1>4, <1>7, <1>8, <1>10, <1>12, <2>2, <5>1, Zenon
        <4>. QED
          BY <4>1, <4>2
      <3>. QED
        BY <1>2, <1>3, <1>9, <3>1, <3>2, Zenon
    <2>. QED
      BY <2>1, <2>2
  <1>. QED
    BY <1>11, <1>12

\* Every step keeps the invariant of a prefix.
LEMMA RouteStep ==
  ASSUME IInv, [Next]_vars, ~lost', phase' # "open", NEW d \in Dst
  PROVE  RouteInv(d)'
  <1>0. Types /\ BootFirst /\ OneDump /\ Empty /\ (phase # "open" /\ ~lost => RouteInv(d))
    BY Zenon DEF IInv
  <1>1. CASE KernelChange \/ SendDump
    <2>1. phase # "open"
      <3>1. CASE KernelChange
        BY <1>0, <3>1, KernelChangeIs, NotifyTypes
      <3>2. CASE SendDump
        BY <3>2 DEF SendDump
      <3>. QED
        BY <1>1, <3>1, <3>2
    <2>2. PICK m \in Msg : /\ queue' = Append(queue, m) /\ Said(m) /\ DumpKept(m) /\ ~lost
                           /\ UNCHANGED <<phase, links, pos, interfaces, vpp, misread, restarts>>
      BY <1>0, <1>1, <2>1, Arrival
    <2>. QED
      BY <1>0, <2>1, <2>2, RouteArrival, Zenon
  <1>2. CASE Open
    <2>1. queue' = <<>> /\ phase' = "cache"
      BY <1>0, <1>2 DEF Open, OneDump
    <2>. QED
      BY <2>1 DEF RouteInv, Last
  <1>3. CASE ReceiveCache
    <2>1. /\ phase # "open" /\ ~lost /\ phase' \notin {"addr", "route", "listen"}
          /\ queue # <<>> /\ queue' = Tail(queue) /\ UNCHANGED <<kernel, interfaces, restarts>>
      BY <1>3 DEF ReceiveCache
    <2>. QED
      BY <1>0, <2>1, RouteRead, Zenon
  <1>4. CASE SyncLink
    <2>1. phase = "sync" /\ phase' = "sync" /\ ~lost /\ UNCHANGED <<kernel, queue>>
      BY <1>0, <1>4, SyncLinkIs DEF SyncLink
    <2>. QED
      BY <1>0, <2>1, ZenonT(60) DEF RouteInv, RouteNow
  <1>5. CASE SyncDone
    <2>1. phase = "sync" /\ phase' = "addr" /\ ~lost /\ UNCHANGED <<kernel, queue, vpp, restarts>>
      BY <1>5 DEF SyncDone
    <2>2. restarts = 0 => vpp.route[d] = None
      BY <1>0, <2>1, Zenon DEF Empty
    <2>3. RouteNow(d)' = RouteNow(d) /\ Last(queue, RouteOf(d), RouteOf(d), RouteNow(d))
      BY <1>0, <2>1, Zenon DEF RouteNow, RouteInv
    <2>. QED
      BY <2>1, <2>2, <2>3, ZenonT(60) DEF RouteInv
  <1>6. CASE Serve
    <2>1. /\ queue # <<>> /\ queue' = Tail(queue) /\ UNCHANGED <<kernel, interfaces, restarts>>
          /\ phase # "open" /\ ~lost
      BY <1>0, <1>6, ServeIs, ZenonT(60)
    <2>. QED
      BY <1>0, <1>6, <2>1, RouteRead, Zenon
  <1>7. ASSUME NEW e \in Entry, AddInterface(e) PROVE RouteInv(d)'
    <2>1. UNCHANGED <<kernel, queue, dump, phase, vpp, lost, restarts>> /\ interfaces' = Append(interfaces, e)
      BY <1>7 DEF AddInterface
    <2>2. \A k \in Paired' : k \in Paired /\ Kernel2Vpp(k)' = Kernel2Vpp(k)
      BY <1>0, <2>1, PairedKept, Zenon
    <2>3. RouteInv(d) /\ RouteNow(d)' = RouteNow(d)
      BY <1>0, <2>1, Zenon DEF RouteNow
    <2>4. kernel.route[d].oif \in Paired' =>
            /\ kernel.route[d].oif \in Paired
            /\ Carries(vpp.route[d], kernel.route[d])' <=> Carries(vpp.route[d], kernel.route[d])
      BY <2>1, <2>2, Zenon DEF Carries
    <2>. QED
      BY <2>1, <2>3, <2>4, Zenon DEF RouteInv
  <1>8. CASE Restart
    BY <1>8 DEF Restart
  <1>9. CASE UNCHANGED vars
    <2>1. /\ UNCHANGED <<kernel, queue, dump, phase, vpp, restarts, interfaces>> /\ phase # "open" /\ ~lost
          /\ Paired' = Paired
      BY <1>9, SamePairs DEF vars
    <2>2. Carries(vpp.route[d], kernel.route[d])' <=> Carries(vpp.route[d], kernel.route[d])
      BY <2>1, SamePairs, Zenon DEF Carries
    <2>. QED
      BY <1>0, <2>1, <2>2, Zenon DEF RouteInv, RouteNow
  <1>. QED
    BY <1>1, <1>2, <1>3, <1>4, <1>5, <1>6, <1>7, <1>8, <1>9, Zenon DEF Next, NetlinkManager, Serve

-----------------------------------------------------------------------------
(* Links                                                                    *)

\* A message arrives.
LEMMA LinkArrival ==
  ASSUME Types, OneDump, NEW k \in Kif, kernel.link[k] # None => LinkInv(k), kernel'.link[k] # None,
         NEW m \in Msg, queue' = Append(queue, m),
         Said(m), DumpKept(m), UNCHANGED <<phase, links, pos, interfaces, vpp, misread>>
  PROVE  LinkInv(k)'
  <1>. DEFINE S == LinkOf(k)
              C == Ups(k)
              G == LinkNow(k)
              H == LinkNow(k)'
              D == Gone(k)
  <1>1. /\ kernel.link[k] # None /\ m \notin D
        /\ m \in S => ("UP" \in m.flags <=> "UP" \in kernel'.link[k])
        /\ m \notin C => ("UP" \in kernel'.link[k] <=> "UP" \in kernel.link[k])
    BY Zenon DEF Said, LinkSaid
  <1>2. queue \in Seq(Msg) /\ LinkInv(k) /\ Last(queue, S, C, G) /\ Free(queue, D)
    BY <1>1, Zenon DEF Types, LinkInv
  <1>3. m \in S => m \in H
    BY <1>1, Zenon DEF LinkNow
  <1>4. m \in C \/ G = H
    BY <1>1, ZenonT(60) DEF LinkNow
  <1>5. Last(queue', S, C, H)
    <2>. HIDE DEF S, C, G, H
    <2>. QED
      BY <1>2, <1>3, <1>4, LastAppend, Zenon
  <1>6. (Free(queue', C) => Free(queue, C) /\ m \notin C) /\ Free(queue', D)
    <2>. HIDE DEF C, D
    <2>. QED
      BY <1>1, <1>2, FreeStep, Zenon
  <1>8. ASSUME phase' \in {"cache", "sync"}, Free(queue', C), NEW i \in DOMAIN links', links'[i].k = k
        PROVE  "UP" \in links'[i].flags <=> "UP" \in kernel'.link[k]
    BY <1>1, <1>2, <1>6, <1>8, Zenon DEF LinkInv, Same
  <1>9. ASSUME phase' = "cache"
        PROVE  \/ \E i \in DOMAIN links' : links'[i].k = k
               \/ Before(queue', S, DoneMsg)
               \/ dump'.kind = "link" /\ k \in dump'.todo
    <2>1. CASE \E i \in DOMAIN links : links[i].k = k
      BY <2>1, Zenon
    <2>2. CASE Before(queue, S, DoneMsg)
      <3>. HIDE DEF S
      <3>. QED
        BY <1>2, <2>2, BeforeStep, Zenon
    <2>3. CASE dump.kind = "link" /\ k \in dump.todo
      <3>1. CASE m \in S
        <4>1. Free(queue, DoneMsg)
          BY <2>3 DEF OneDump
        <4>2. m \notin DoneMsg
          BY <3>1, Fields DEF LinkOf
        <4>. HIDE DEF S
        <4>. QED
          BY <1>2, <3>1, <4>1, <4>2, BeforeStep, Zenon
      <3>2. CASE m \notin S
        BY <1>1, <2>3, <3>2, Zenon DEF DumpKept
      <3>. QED
        BY <3>1, <3>2, ZenonT(60)
    <2>. QED
      BY <1>2, <1>9, <2>1, <2>2, <2>3, Zenon DEF LinkInv
  <1>10. phase' = "sync" => \E i \in DOMAIN links' : links'[i].k = k
    BY <1>2, Zenon DEF LinkInv
  <1>11. ASSUME \/ phase' = "sync" /\ \E i \in 1 .. pos' - 1 : links'[i].k = k
                \/ phase' \in {"addr", "route", "listen"},
                k \in Paired', Free(queue', C)
         PROVE  vpp'.up[Kernel2Vpp(k)'] <=> "UP" \in kernel'.link[k] \/ k \in misread'
    <2>1. Paired' = Paired /\ Kernel2Vpp(k)' = Kernel2Vpp(k)
      BY SamePairs
    <2>2. vpp.up[Kernel2Vpp(k)] <=> "UP" \in kernel.link[k] \/ k \in misread
      BY <1>2, <1>6, <1>11, <2>1, Zenon DEF LinkInv
    <2>. QED
      BY <1>1, <1>6, <1>11, <2>1, <2>2, Zenon
  <1>. QED
    BY <1>5, <1>6, <1>8, <1>9, <1>10, <1>11, Zenon DEF LinkInv, Same

\* The first message is read.
LEMMA LinkTail ==
  ASSUME Types, NEW k \in Kif, LinkInv(k), queue # <<>>, queue' = Tail(queue), UNCHANGED kernel
  PROVE  /\ Head(queue) \in Msg /\ Head(queue) \notin Gone(k)
         /\ Head(queue) \in LinkOf(k) /\ Free(queue', Ups(k)) =>
              ("UP" \in Head(queue).flags <=> "UP" \in kernel.link[k])
         /\ Free(queue', Ups(k)) /\ Head(queue) \notin Ups(k) => Free(queue, Ups(k))
         /\ Free(queue', Gone(k))
         /\ Last(queue', LinkOf(k), Ups(k), LinkNow(k)')
  <1>. DEFINE S == LinkOf(k)
              C == Ups(k)
              G == LinkNow(k)
              D == Gone(k)
              m == Head(queue)
  <1>1. /\ queue \in Seq(Msg) /\ Last(queue, S, C, G) /\ Free(queue, D) /\ LinkNow(k)' = G
    BY Zenon DEF Types, LinkInv, LinkNow
  <1>2. m \in G => ("UP" \in m.flags <=> "UP" \in kernel.link[k])
    BY Zenon DEF LinkNow
  <1>3. m \in Msg
    BY <1>1, TailShape, Zenon
  <1>. HIDE DEF S, C, G, D, m
  <1>4. m \notin D /\ Free(queue', D) /\ (Free(queue', C) /\ m \notin C => Free(queue, C))
    BY <1>1, <1>3, FreeStep, Zenon DEF m
  <1>5. Last(queue', S, C, G) /\ (m \in S /\ Free(queue', C) => m \in G)
    BY <1>1, LastTail, Zenon DEF m
  <1>. QED
    BY <1>1, <1>2, <1>3, <1>4, <1>5, Zenon DEF S, C, G, D, m

\* ... into the cache.
LEMMA LinkCache ==
  ASSUME Types, OneDump, NEW k \in Kif, LinkInv(k), ReceiveCache
  PROVE  LinkInv(k)'
  <1>. DEFINE m == Head(queue)
  <1>1. phase = "cache" /\ queue # <<>> /\ queue' = Tail(queue) /\ UNCHANGED <<kernel, dump, pos, interfaces, vpp>>
    BY DEF ReceiveCache
  <1>2. /\ m \in Msg /\ m \notin Gone(k)
        /\ m \in LinkOf(k) /\ Free(queue', Ups(k)) => ("UP" \in m.flags <=> "UP" \in kernel.link[k])
        /\ Free(queue', Ups(k)) /\ m \notin Ups(k) => Free(queue, Ups(k))
        /\ Free(queue', Gone(k))
        /\ Last(queue', LinkOf(k), Ups(k), LinkNow(k)')
    BY <1>1, LinkTail, Zenon
  <1>3. DaemonOK /\ queue \in Seq(Msg)
    BY TypesAre DEF QueueOK
  <1>4. phase' = IF m.kind = "done" THEN "sync" ELSE "cache"
    BY <1>1, Zenon DEF ReceiveCache
  <1>5. CASE m.kind \in {"link", "dellink"}
    <2>1. links' = CacheUpdate(m) /\ phase' = "cache"
      BY <1>4, <1>5 DEF ReceiveCache
    <2>. HIDE DEF m
    <2>2. /\ links' \in Seq([k : Kif, flags : SUBSET Flag]) /\ Len(links') = Len(links) + 1
          /\ links'[Len(links) + 1].k = m.k
          /\ \A i \in DOMAIN links : links'[i].k = links[i].k
          /\ \A i \in DOMAIN links' : IF links'[i].k = m.k THEN links'[i].flags = m.flags
                                      ELSE i \in DOMAIN links /\ links'[i] = links[i]
      <3>1. m \in Msg /\ DaemonOK
        BY <1>2, <1>3, Zenon
      <3>2. Stored(links', m)
        BY <1>5, <2>1, <3>1, CacheUpdateIs, Zenon
      <3>. QED
        BY <3>2, Zenon DEF Stored
    <2>3. DOMAIN links \subseteq DOMAIN links' /\ Len(links) + 1 \in DOMAIN links'
      BY <1>3, <2>2 DEF DaemonOK
    <2>4. m.k = k <=> m \in LinkOf(k)
      BY <1>2, <1>5, Zenon DEF LinkOf, Gone
    <2>5. ASSUME Free(queue', Ups(k)), NEW i \in DOMAIN links', links'[i].k = k
          PROVE  "UP" \in links'[i].flags <=> "UP" \in kernel.link[k]
      <3>1. CASE m.k = k
        BY <1>2, <2>2, <2>4, <2>5, <3>1, Zenon
      <3>2. CASE m.k # k
        <4>1. m \notin Ups(k)
          BY <2>4, <3>2, Zenon DEF Ups
        <4>2. i \in DOMAIN links /\ links'[i] = links[i] /\ Free(queue, Ups(k))
          BY <1>2, <2>2, <2>5, <3>2, <4>1, Zenon
        <4>. QED
          BY <1>1, <2>5, <4>2, Zenon DEF LinkInv, Same
      <3>. QED
        BY <3>1, <3>2
    <2>6. \/ \E i \in DOMAIN links' : links'[i].k = k
          \/ Before(queue', LinkOf(k), DoneMsg)
          \/ dump'.kind = "link" /\ k \in dump'.todo
      <3>1. CASE m.k = k
        BY <2>2, <2>3, <3>1, Zenon
      <3>2. CASE m.k # k
        <4>1. CASE \E i \in DOMAIN links : links[i].k = k
          BY <2>2, <2>3, <4>1
        <4>2. CASE Before(queue, LinkOf(k), DoneMsg)
          BY <1>1, <1>2, <1>3, <2>4, <3>2, <4>2, BeforeStep, Zenon DEF m
        <4>3. CASE dump.kind = "link" /\ k \in dump.todo
          BY <1>1, <4>3, Zenon
        <4>. QED
          BY <1>1, <4>1, <4>2, <4>3, Zenon DEF LinkInv
      <3>. QED
        BY <3>1, <3>2
    <2>7. phase' # "sync" /\ phase' \notin {"addr", "route", "listen"}
      BY <2>1
    <2>. QED
      BY <1>1, <1>2, <2>5, <2>6, <2>7, Zenon DEF LinkInv, Same
  <1>6. CASE m.kind \notin {"link", "dellink"}
    <2>1. links' = links
      BY <1>6, Zenon DEF ReceiveCache
    <2>. HIDE DEF m
    <2>2. m \notin LinkOf(k) /\ m \notin Ups(k)
      BY <1>6, NotAbout
    <2>3. ASSUME Free(queue', Ups(k)), NEW i \in DOMAIN links', links'[i].k = k
          PROVE  "UP" \in links'[i].flags <=> "UP" \in kernel.link[k]
      BY <1>1, <1>2, <2>1, <2>2, <2>3, Zenon DEF LinkInv, Same
    <2>4. \/ \E i \in DOMAIN links : links[i].k = k
          \/ Before(queue, LinkOf(k), DoneMsg)
          \/ dump.kind = "link" /\ k \in dump.todo
      BY <1>1, Zenon DEF LinkInv
    <2>5. Before(queue, LinkOf(k), DoneMsg) => Before(queue', LinkOf(k), DoneMsg) /\ m \notin DoneMsg
      BY <1>1, <1>2, <1>3, <2>2, BeforeStep, Zenon DEF m
    <2>6. CASE m.kind = "done"
      <3>1. m \in DoneMsg
        BY <1>2, <2>6, Fields, Zenon
      <3>2. ~ Free(queue, DoneMsg)
        BY <1>1, <1>2, <1>3, <3>1, FreeStep, Zenon DEF m
      <3>3. dump.kind = "none" /\ pos = 1
        BY <1>1, <3>2 DEF OneDump
      <3>4. phase' = "sync" /\ \E i \in DOMAIN links : links[i].k = k
        BY <1>4, <2>4, <2>5, <2>6, <3>1, <3>3
      <3>5. phase' \notin {"addr", "route", "listen"} /\ phase' # "cache" /\ 1 .. pos' - 1 = {}
        BY <1>1, <3>3, <3>4
      <3>. QED
        BY <1>1, <1>2, <2>1, <2>3, <3>4, <3>5, Zenon DEF LinkInv, Same
    <2>7. CASE m.kind # "done"
      <3>1. phase' = "cache" /\ phase' # "sync" /\ phase' \notin {"addr", "route", "listen"}
        BY <1>4, <2>7
      <3>. QED
        BY <1>1, <1>2, <2>1, <2>3, <2>4, <2>5, <3>1, Zenon DEF LinkInv, Same
    <2>. QED
      BY <2>6, <2>7
  <1>. QED
    BY <1>5, <1>6

\* ... or handed to monitor.
LEMMA LinkServe ==
  ASSUME Types, NEW k \in Kif, LinkInv(k), Serve, ~lost'
  PROVE  LinkInv(k)'
  <1>. DEFINE m == Head(queue)
              v == Kernel2Vpp(k)
  <1>1. /\ queue # <<>> /\ queue' = Tail(queue) /\ UNCHANGED <<kernel, links, pos, interfaces>>
        /\ Monitor(m) /\ phase \in {"addr", "route", "listen"}
    BY ServeIs, Zenon
  <1>2. /\ m \in Msg
        /\ m \in LinkOf(k) /\ Free(queue', Ups(k)) => ("UP" \in m.flags <=> "UP" \in kernel.link[k])
        /\ Free(queue', Ups(k)) /\ m \notin Ups(k) => Free(queue, Ups(k))
        /\ Free(queue', Gone(k))
        /\ Last(queue', LinkOf(k), Ups(k), LinkNow(k)')
    BY <1>1, LinkTail, Zenon
  <1>3. phase' \in {"addr", "route", "listen"}
    BY <1>1, ServeIs
  <1>4. phase' # "cache" /\ phase' # "sync" /\ phase' \notin {"cache", "sync"}
    BY <1>3
  <1>5. Paired' = Paired /\ Kernel2Vpp(k)' = v
    BY <1>1, SamePairs
  <1>6. ASSUME k \in Paired, Free(queue', Ups(k)) PROVE vpp'.up[v] <=> "UP" \in kernel.link[k] \/ k \in misread'
    <2>1. CASE m \in Ups(k)
      <3>1. m \in LinkOf(k)
        BY <2>1, Zenon DEF Ups
      <3>2. vpp'.up[v] <=> "UP" \in m.flags \/ k \in misread'
        BY <1>1, <1>2, <1>6, <2>1, MonitorUp, Zenon
      <3>. QED
        BY <1>2, <1>6, <3>1, <3>2, Zenon
    <2>2. CASE m \notin Ups(k)
      <3>1. vpp'.up[v] = vpp.up[v] /\ (k \in misread' <=> k \in misread)
        BY <1>1, <1>2, <1>6, <2>2, MonitorUp, Zenon
      <3>2. vpp.up[v] <=> "UP" \in kernel.link[k] \/ k \in misread
        BY <1>1, <1>2, <1>6, <2>2, Zenon DEF LinkInv
      <3>. QED
        BY <3>1, <3>2, Zenon
    <2>. QED
      BY <2>1, <2>2
  <1>. QED
    BY <1>1, <1>2, <1>4, <1>5, <1>6, Zenon DEF LinkInv

\* An entry of the cache is copied to VPP.
LEMMA LinkSync ==
  ASSUME Types, NoneMisread, NEW k \in Kif, LinkInv(k), SyncLink, ~lost'
  PROVE  LinkInv(k)'
  <1>. DEFINE v == Kernel2Vpp(k)
              n == Kernel2Vpp(links[pos].k)
              b == "UP" \in links[pos].flags
  <1>1. /\ phase = "sync" /\ phase' = "sync" /\ UNCHANGED <<kernel, queue, links, interfaces>> /\ pos' = pos + 1
        /\ misread = {} /\ misread' = {}
    BY DEF SyncLink, NoneMisread
  <1>2. vpp' = SyncSet /\ pos \in DOMAIN links /\ links[pos].k \in Kif
    BY SyncLinkIs, Zenon
  <1>3. VppOK /\ DaemonOK
    BY TypesAre, Zenon
  <1>4. pos' - 1 = pos /\ pos \in Nat /\ 1 .. pos = (1 .. pos - 1) \cup {pos}
    BY <1>1, <1>3 DEF DaemonOK
  <1>5. Paired' = Paired /\ Kernel2Vpp(k)' = v
    BY <1>1, SamePairs
  <1>6. ASSUME k \in Paired, Free(queue, Ups(k)), NEW i \in 1 .. pos, links[i].k = k
        PROVE  vpp'.up[v] <=> "UP" \in kernel.link[k] \/ k \in misread'
    <2>0. k \notin misread /\ k \notin misread'
      BY <1>1
    <2>1. v \in Vif /\ v # 0 /\ (n = v => links[pos].k = k)
      BY <1>2, <1>6, PairedIs
    <2>2. vpp' = IF n # 0 THEN [vpp EXCEPT !.up[n] = b] ELSE vpp
      BY <1>2, Zenon DEF SyncSet
    <2>3. b \in BOOLEAN
      OBVIOUS
    <2>4. links[pos].k = k => n = v
      OBVIOUS
    <2>5. links[pos].k = k => (b <=> "UP" \in kernel.link[k])
      BY <1>1, <1>2, <1>6, Zenon DEF LinkInv, Same
    <2>. HIDE DEF n, v, b
    <2>6. CASE links[pos].k = k
      <3>1. vpp' = [vpp EXCEPT !.up[v] = b]
        BY <2>1, <2>2, <2>4, <2>6, Zenon
      <3>2. vpp'.up[v] = b
        BY <1>3, <2>1, <3>1 DEF VppOK
      <3>. QED
        BY <2>0, <2>5, <2>6, <3>2, Zenon
    <2>7. CASE links[pos].k # k
      <3>1. i \in 1 .. pos - 1
        BY <1>4, <1>6, <2>7
      <3>2. vpp.up[v] <=> "UP" \in kernel.link[k]
        BY <1>1, <1>6, <2>0, <3>1, Zenon DEF LinkInv, v
      <3>3. vpp'.up[v] = vpp.up[v]
        BY <1>3, <2>1, <2>2, <2>7 DEF VppOK
      <3>. QED
        BY <2>0, <3>2, <3>3, Zenon
    <2>. QED
      BY <2>6, <2>7
  <1>7. LinkNow(k)' = LinkNow(k) /\ \A F : Same(F, k)' <=> Same(F, k)
    BY <1>1, Zenon DEF LinkNow, Same
  <1>8. phase' \notin {"addr", "route", "listen"} /\ phase' # "cache"
    BY <1>1
  <1>9. /\ Free(queue, Gone(k))
        /\ Last(queue, LinkOf(k), Ups(k), LinkNow(k))
        /\ Free(queue, Ups(k)) => \A i \in DOMAIN links : links[i].k = k => Same(links[i].flags, k)
        /\ \E i \in DOMAIN links : links[i].k = k
    BY <1>1, Zenon DEF LinkInv
  <1>. QED
    BY <1>1, <1>4, <1>5, <1>6, <1>7, <1>8, <1>9, Zenon DEF LinkInv

\* Every step keeps the invariant of a link that the kernel still has.
LEMMA LinkStep ==
  ASSUME IInv, [Next]_vars, ~lost', phase' # "open", NEW k \in Kif, kernel'.link[k] # None
  PROVE  LinkInv(k)'
  <1>0. Types /\ BootFirst /\ OneDump /\ Empty /\ NoneMisread /\ (phase # "open" /\ ~lost /\ kernel.link[k] # None => LinkInv(k))
    BY Zenon DEF IInv
  <1>1. CASE KernelChange \/ SendDump
    <2>1. phase # "open"
      <3>1. CASE KernelChange
        BY <1>0, <3>1, KernelChangeIs, NotifyTypes
      <3>2. CASE SendDump
        BY <3>2 DEF SendDump
      <3>. QED
        BY <1>1, <3>1, <3>2
    <2>2. PICK m \in Msg : /\ queue' = Append(queue, m) /\ Said(m) /\ DumpKept(m) /\ ~lost
                           /\ UNCHANGED <<phase, links, pos, interfaces, vpp, misread, restarts>>
      BY <1>0, <1>1, <2>1, Arrival
    <2>. QED
      BY <1>0, <2>1, <2>2, LinkArrival, Zenon
  <1>2. CASE Open
    <2>1. queue' = <<>> /\ phase' = "cache" /\ links' = <<>>
      BY <1>0, <1>2 DEF Open, OneDump
    <2>2. dump'.kind = "link" /\ k \in dump'.todo
      BY <1>2, RequestOK DEF Open, Everything
    <2>3. Free(queue', LinkOf(k)) /\ Free(queue', Ups(k)) /\ Free(queue', Gone(k))
      BY <2>1 DEF Free
    <2>4. Last(queue', LinkOf(k), Ups(k), LinkNow(k)') /\ DOMAIN links' = {} /\ DOMAIN queue' = {}
      BY <2>1 DEF Last
    <2>. QED
      BY <2>1, <2>2, <2>3, <2>4, Zenon DEF LinkInv
  <1>3. CASE ReceiveCache
    <2>1. phase # "open" /\ ~lost /\ kernel.link[k] # None
      BY <1>3 DEF ReceiveCache
    <2>. QED
      BY <1>0, <1>3, <2>1, LinkCache, Zenon
  <1>4. CASE SyncLink
    <2>1. phase # "open" /\ ~lost /\ kernel.link[k] # None
      BY <1>0, <1>4, SyncLinkIs DEF SyncLink
    <2>. QED
      BY <1>0, <1>4, <2>1, LinkSync, Zenon
  <1>5. CASE SyncDone
    <2>1. /\ phase = "sync" /\ phase' = "addr" /\ ~lost /\ UNCHANGED <<kernel, queue, vpp, interfaces, links, misread>>
          /\ pos > Len(links)
      BY <1>5 DEF SyncDone
    <2>2. LinkInv(k)
      BY <1>0, <2>1
    <2>3. PICK i \in DOMAIN links : links[i].k = k
      BY <2>1, <2>2, Zenon DEF LinkInv
    <2>4. i \in 1 .. pos - 1
      BY <1>0, <2>1 DEF Types, TypeOK
    <2>5. Paired' = Paired /\ Kernel2Vpp(k)' = Kernel2Vpp(k) /\ LinkNow(k)' = LinkNow(k)
      BY <2>1, SamePairs, Zenon DEF LinkNow
    <2>6. k \in Paired /\ Free(queue, Ups(k)) =>
            (vpp.up[Kernel2Vpp(k)] <=> "UP" \in kernel.link[k] \/ k \in misread)
      BY <2>1, <2>2, <2>3, <2>4, Zenon DEF LinkInv
    <2>7. /\ Free(queue, Gone(k))
          /\ Last(queue, LinkOf(k), Ups(k), LinkNow(k))
      BY <2>2, Zenon DEF LinkInv
    <2>8. phase' # "cache" /\ phase' # "sync"
      BY <2>1
    <2>. QED
      BY <2>1, <2>5, <2>6, <2>7, <2>8, Zenon DEF LinkInv
  <1>6. CASE Serve
    <2>1. phase # "open" /\ ~lost /\ kernel.link[k] # None
      BY <1>0, <1>6, ServeIs
    <2>. QED
      BY <1>0, <1>6, <2>1, LinkServe, Zenon
  <1>7. ASSUME NEW e \in Entry, AddInterface(e) PROVE LinkInv(k)'
    <2>1. UNCHANGED <<kernel, queue, dump, phase, links, pos, vpp, lost, misread>> /\ interfaces' = Append(interfaces, e)
      BY <1>7 DEF AddInterface
    <2>2. k \in Paired' => k \in Paired /\ Kernel2Vpp(k)' = Kernel2Vpp(k)
      BY <1>0, <2>1, PairedKept, Zenon
    <2>3. LinkInv(k) /\ LinkNow(k)' = LinkNow(k) /\ \A F : Same(F, k)' <=> Same(F, k)
      BY <1>0, <2>1, Zenon DEF LinkNow, Same
    <2>. QED
      BY <2>1, <2>2, <2>3, Zenon DEF LinkInv
  <1>8. CASE Restart
    BY <1>8 DEF Restart
  <1>9. CASE UNCHANGED vars
    <2>1. /\ UNCHANGED <<kernel, queue, dump, phase, links, pos, vpp, interfaces, misread>> /\ phase # "open" /\ ~lost
          /\ Paired' = Paired /\ Kernel2Vpp(k)' = Kernel2Vpp(k)
      BY <1>9, SamePairs DEF vars
    <2>2. LinkInv(k) /\ LinkNow(k)' = LinkNow(k) /\ \A F : Same(F, k)' <=> Same(F, k)
      BY <1>0, <2>1, Zenon DEF LinkNow, Same
    <2>. QED
      BY <2>1, <2>2, Zenon DEF LinkInv
  <1>. QED
    BY <1>1, <1>2, <1>3, <1>4, <1>5, <1>6, <1>7, <1>8, <1>9, Zenon DEF Next, NetlinkManager, Serve

-----------------------------------------------------------------------------
(* The invariant                                                            *)

\* Every step keeps the types.
LEMMA TypesStep == ASSUME Types, [Next]_vars PROVE Types'
  <1>1. CASE KernelChange
    <2>1. PICK m \in Msg : Notify(m) /\ KernelOK'
      BY <1>1, KernelChangeIs, Zenon
    <2>. QED
      BY <2>1, NotifyTypes, Zenon
  <1>2. CASE SendDump
    BY <1>2, SendDumpIs, Zenon
  <1>3. CASE Open
    BY <1>3, OpenTypes, Zenon
  <1>4. CASE ReceiveCache
    BY <1>4, ReceiveCacheTypes, Zenon
  <1>5. CASE SyncLink
    BY <1>5, SyncLinkIs, Zenon
  <1>6. CASE SyncDone
    BY <1>6, SyncDoneTypes, Zenon
  <1>7. CASE Serve
    BY <1>7, ServeIs, Zenon
  <1>8. ASSUME NEW e \in Entry, AddInterface(e) PROVE Types'
    BY <1>8, AddInterfaceTypes, Zenon
  <1>9. CASE Restart
    BY <1>9, RestartTypes, Zenon
  <1>10. CASE UNCHANGED vars
    <2>1. UNCHANGED <<kernel, vpp>> /\ UNCHANGED <<queue, dump>>
          /\ UNCHANGED <<phase, links, pos, interfaces, lost, misread, changes, restarts>>
      BY <1>10, Zenon DEF vars
    <2>2. KernelOK /\ VppOK /\ QueueOK /\ DaemonOK
      BY TypesAre, Zenon
    <2>3. KernelOK' /\ VppOK'
      BY <2>1, <2>2, Zenon DEF KernelOK, VppOK
    <2>4. QueueOK'
      BY <2>1, <2>2, Zenon DEF QueueOK, Everything
    <2>5. DaemonOK'
      BY <2>1, <2>2, Zenon DEF DaemonOK
    <2>. QED
      BY <2>3, <2>4, <2>5, TypesAreNext, Zenon
  <1>. QED
    BY <1>1, <1>2, <1>3, <1>4, <1>5, <1>6, <1>7, <1>8, <1>9, <1>10, Zenon DEF Next, NetlinkManager, Serve

\* The pairs of the configuration file stay in front: commands only append to
\* rd_ctx.interfaces, and a restart begins with the file again.
LEMMA BootFirstStep == ASSUME Types, BootFirst, [Next]_vars PROVE BootFirst'
  <1>1. BootPairs \in Seq(Entry) /\ interfaces \in Seq(Entry)
    BY PairsAssumption, Zenon DEF Types, TypeOK
  <1>2. ASSUME UNCHANGED interfaces PROVE BootFirst'
    BY <1>2, Zenon DEF BootFirst
  <1>3. ASSUME NEW e \in Entry, AddInterface(e) PROVE BootFirst'
    <2>1. interfaces' = Append(interfaces, e)
      BY <1>3, Zenon DEF AddInterface
    <2>2. Len(interfaces') = Len(interfaces) + 1 /\ Len(interfaces) \in Nat /\ Len(BootPairs) \in Nat
          /\ DOMAIN BootPairs = 1 .. Len(BootPairs)
          /\ \A i \in 1 .. Len(interfaces) : interfaces'[i] = interfaces[i]
      BY <1>1, <2>1
    <2>. QED
      BY <2>2 DEF BootFirst
  <1>4. CASE Restart
    <2>1. interfaces' = BootPairs
      BY <1>4, Zenon DEF Restart
    <2>. QED
      BY <1>1, <2>1 DEF BootFirst
  <1>5. CASE KernelChange
    <2>1. PICK m \in Msg : Notify(m)
      BY <1>5, KernelChangeIs, Zenon
    <2>. QED
      BY <1>2, <2>1, Zenon DEF Notify
  <1>6. CASE SendDump \/ Open \/ ReceiveCache \/ SyncLink \/ SyncDone \/ UntilDone \/ Listen
    <2>1. UNCHANGED interfaces
      BY <1>6, Zenon DEF SendDump, Open, ReceiveCache, SyncLink, SyncDone, UntilDone, Listen
    <2>. QED
      BY <1>2, <2>1
  <1>7. CASE UNCHANGED vars
    BY <1>2, <1>7, Zenon DEF vars
  <1>. QED
    BY <1>3, <1>4, <1>5, <1>6, <1>7, Zenon DEF Next, NetlinkManager

\* Nothing writes an address or a route to VPP before the dumps begin.
LEMMA EmptyStep == ASSUME Types, Empty, [Next]_vars PROVE Empty'
  <1>1. ASSUME UNCHANGED restarts, vpp'.addr = vpp.addr, vpp'.route = vpp.route,
               phase' \in {"open", "cache", "sync"} => phase \in {"open", "cache", "sync"}
        PROVE  Empty'
    BY <1>1, Zenon DEF Empty
  <1>2. CASE KernelChange
    <2>1. PICK m \in Msg : Notify(m)
      BY <1>2, KernelChangeIs, Zenon
    <2>. QED
      BY <1>1, <2>1, Zenon DEF Notify
  <1>3. CASE SendDump
    BY <1>1, <1>3, Zenon DEF SendDump
  <1>4. CASE Open \/ ReceiveCache
    <2>1. phase \in {"open", "cache", "sync"} /\ UNCHANGED <<vpp, restarts>>
      BY <1>4 DEF Open, ReceiveCache
    <2>. QED
      BY <1>1, <2>1, Zenon
  <1>5. CASE SyncLink
    <2>1. vpp'.addr = vpp.addr /\ vpp'.route = vpp.route
      BY <1>5, SyncLinkIs, Zenon
    <2>. QED
      BY <1>1, <1>5, <2>1, Zenon DEF SyncLink
  <1>6. CASE SyncDone
    <2>1. phase' = "addr"
      BY <1>6, Zenon DEF SyncDone
    <2>. QED
      BY <2>1 DEF Empty
  <1>7. CASE Serve
    <2>1. phase' \in {"addr", "route", "listen"}
      BY <1>7, ServeIs
    <2>. QED
      BY <2>1 DEF Empty
  <1>8. ASSUME NEW e \in Entry, AddInterface(e) PROVE Empty'
    BY <1>1, <1>8, Zenon DEF AddInterface
  <1>9. CASE Restart
    <2>1. restarts' = restarts + 1 /\ restarts \in Nat
      BY <1>9, Zenon DEF Restart, Types
    <2>2. restarts' # 0
      BY <2>1
    <2>. QED
      BY <2>2, Zenon DEF Empty
  <1>10. CASE UNCHANGED vars
    BY <1>1, <1>10, Zenon DEF vars
  <1>. QED
    BY <1>2, <1>3, <1>4, <1>5, <1>6, <1>7, <1>8, <1>9, <1>10, Zenon DEF Next, NetlinkManager, Serve

\* Only monitor changes what is misread, and it runs when the dumps have begun.
LEMMA NoneMisreadStep == ASSUME Types, NoneMisread, [Next]_vars PROVE NoneMisread'
  <1>1. ASSUME UNCHANGED misread, phase' \in {"open", "cache", "sync"} => phase \in {"open", "cache", "sync"}
        PROVE  NoneMisread'
    BY <1>1, Zenon DEF NoneMisread
  <1>2. CASE KernelChange
    <2>1. PICK m \in Msg : Notify(m)
      BY <1>2, KernelChangeIs, Zenon
    <2>. QED
      BY <1>1, <2>1, Zenon DEF Notify
  <1>3. CASE SendDump
    BY <1>1, <1>3, Zenon DEF SendDump
  <1>4. CASE Open \/ ReceiveCache \/ SyncLink
    <2>1. phase \in {"open", "cache", "sync"} /\ UNCHANGED misread
      BY <1>4 DEF Open, ReceiveCache, SyncLink
    <2>. QED
      BY <1>1, <2>1, Zenon
  <1>5. CASE SyncDone
    <2>1. phase' = "addr"
      BY <1>5, Zenon DEF SyncDone
    <2>. QED
      BY <2>1 DEF NoneMisread
  <1>6. CASE Serve
    <2>1. phase' \in {"addr", "route", "listen"}
      BY <1>6, ServeIs
    <2>. QED
      BY <2>1 DEF NoneMisread
  <1>7. ASSUME NEW e \in Entry, AddInterface(e) PROVE NoneMisread'
    BY <1>1, <1>7, Zenon DEF AddInterface
  <1>8. CASE Restart
    <2>1. misread' = {}
      BY <1>8, Zenon DEF Restart
    <2>. QED
      BY <2>1, Zenon DEF NoneMisread
  <1>9. CASE UNCHANGED vars
    BY <1>1, <1>9, Zenon DEF vars
  <1>. QED
    BY <1>2, <1>3, <1>4, <1>5, <1>6, <1>7, <1>8, <1>9, Zenon DEF Next, NetlinkManager, Serve

\* routerd starts with nothing received and nothing asked for.
LEMMA InitIInv == ASSUME Init PROVE IInv
  <1>1. KernelOK /\ VppOK
    <2>1. PICK l \in [Kif -> SUBSET Flag], a \in SUBSET (Kif \X Addr), r \in [Dst -> Route \cup {None}] :
            kernel = [link |-> l, addr |-> a, route |-> r, sid |-> [s \in Sid |-> None]]
      BY DEF Init
    <2>2. PICK u \in [Vif -> BOOLEAN] :
            vpp = [up |-> u, addr |-> {}, route |-> [d \in Dst |-> None], sid |-> [s \in Sid |-> None]]
      BY ZenonT(60) DEF Init
    <2>. QED
      BY <2>1, <2>2, ZenonT(60) DEF KernelOK, VppOK
  <1>2. QueueOK
    BY LimitsAssumption DEF Init, QueueOK, NoDump, Everything
  <1>3. DaemonOK
    <2>1. phase = "open" /\ links = <<>> /\ pos = 1 /\ interfaces \in Seq(Entry) /\ changes = 0 /\ restarts = 0
      BY PairsAssumption, Zenon DEF Init
    <2>2. lost \in BOOLEAN /\ misread \subseteq Kif
      BY Zenon DEF Init
    <2>3. links \in Seq([k : Kif, flags : SUBSET Flag]) /\ pos \in 1 .. Len(links) + 1
      BY <2>1
    <2>4. phase \in {"open", "cache", "sync", "addr", "route", "listen"} /\ changes \in Nat /\ restarts \in Nat
      BY <2>1
    <2>. QED
      BY <2>1, <2>2, <2>3, <2>4, Zenon DEF DaemonOK
  <1>4. BootFirst
    BY PairsAssumption DEF Init, BootFirst
  <1>5. queue = <<>> /\ links = <<>> /\ pos = 1 /\ dump.kind = "none" /\ phase = "open"
    BY DEF Init, NoDump
  <1>6. OneDump
    BY <1>5 DEF OneDump, Free, Single
  <1>7. Empty /\ NoneMisread
    BY DEF Init, Empty, NoneMisread
  <1>. QED
    BY <1>1, <1>2, <1>3, <1>4, <1>5, <1>6, <1>7, TypesAre, Zenon DEF IInv

\* Every step keeps the invariant.
LEMMA NextIInv == ASSUME IInv, [Next]_vars PROVE IInv'
  <1>1. Types /\ BootFirst /\ OneDump /\ Empty /\ NoneMisread
    BY Zenon DEF IInv
  <1>2. Types' /\ BootFirst' /\ OneDump' /\ Empty' /\ NoneMisread'
    BY <1>1, TypesStep, BootFirstStep, OneDumpStep, EmptyStep, NoneMisreadStep, Zenon
  <1>3. ASSUME phase' # "open", ~lost'
        PROVE  /\ \A k \in Kif : kernel'.link[k] # None => LinkInv(k)'
               /\ \A k \in Kif, a \in Addr : AddrInv(k, a)'
               /\ \A d \in Dst : RouteInv(d)'
    BY <1>3, LinkStep, AddrStep, RouteStep, Zenon
  <1>. QED
    BY <1>2, <1>3, Zenon DEF IInv

\* Links agree because the last link message that waits for an interface says what
\* the kernel has, and when none that changes its state waits, VPP was told.
LEMMA LinksFollow == ASSUME IInv PROVE LinksAgree
  <1>. SUFFICES ASSUME phase \in {"addr", "route", "listen"}, ~lost, NEW k \in Paired, kernel.link[k] # None,
                       \A i \in DOMAIN queue : queue[i].kind = "link" => queue[i].k # k
                PROVE  vpp.up[Kernel2Vpp(k)] <=> "UP" \in kernel.link[k] \/ k \in misread
    BY Zenon DEF LinksAgree, Handled
  <1>1. k \in Kif /\ phase # "open"
    BY DEF Paired
  <1>2. LinkInv(k)
    BY <1>1, Zenon DEF IInv
  <1>3. Free(queue, Ups(k))
    BY DEF Free, Ups, LinkOf, LinkMsg
  <1>. QED
    BY <1>2, <1>3, Zenon DEF LinkInv

\* Addresses agree once the dump of the addresses is over.
LEMMA AddrsFollow == ASSUME IInv PROVE AddrsAgree
  <1>. SUFFICES ASSUME phase \in {"route", "listen"}, ~lost, NEW k \in Paired, NEW a \in Addr,
                       \A i \in DOMAIN queue : queue[i].kind = "addr" => ~(queue[i].k = k /\ queue[i].a = a)
                PROVE  /\ <<k, a>> \in kernel.addr => <<Kernel2Vpp(k), a>> \in vpp.addr
                       /\ restarts = 0 /\ <<Kernel2Vpp(k), a>> \in vpp.addr => <<k, a>> \in kernel.addr
    BY Zenon DEF AddrsAgree, Handled
  <1>1. k \in Kif /\ phase # "open" /\ phase \in {"addr", "route", "listen"}
    BY DEF Paired
  <1>2. AddrInv(k, a)
    BY <1>1, Zenon DEF IInv
  <1>3. Free(queue, AddrOf(k, a))
    BY DEF Free, AddrOf, AddrMsg
  <1>4. dump.kind # "addr"
    <2>1. OneDump
      BY Zenon DEF IInv
    <2>. QED
      BY <2>1 DEF OneDump
  <1>. QED
    BY <1>1, <1>2, <1>3, <1>4, Zenon DEF AddrInv

\* Routes agree once the dump of the routes is over.
LEMMA RoutesFollow == ASSUME IInv PROVE RoutesAgree
  <1>. SUFFICES ASSUME phase = "listen", ~lost, NEW d \in Dst,
                       \A i \in DOMAIN queue : queue[i].kind = "route" => queue[i].d # d
                PROVE  /\ kernel.route[d] # None =>
                            (kernel.route[d].oif \in Paired => Carries(vpp.route[d], kernel.route[d]))
                       /\ restarts = 0 /\ kernel.route[d] = None => vpp.route[d] = None
    BY Zenon DEF RoutesAgree, Handled
  <1>1. phase # "open" /\ phase \in {"addr", "route", "listen"} /\ phase \in {"route", "listen"}
    OBVIOUS
  <1>2. RouteInv(d)
    BY <1>1, Zenon DEF IInv
  <1>3. Free(queue, RouteOf(d))
    BY DEF Free, RouteOf, RouteMsg
  <1>4. dump.kind # "route"
    <2>1. OneDump
      BY Zenon DEF IInv
    <2>. QED
      BY <2>1 DEF OneDump
  <1>. QED
    BY <1>1, <1>2, <1>3, <1>4, Zenon DEF RouteInv

-----------------------------------------------------------------------------
(* Theorems                                                                 *)

\* The inductive invariant holds in every state of netlink_manager, the kernel,
\* VPP and the commands, for every number of interfaces, addresses, prefixes,
\* flags, pairs, changes and restarts, and every length of the socket's buffer.
THEOREM Invariance == Spec => []IInv
  <1>1. Init => IInv
    BY InitIInv
  <1>2. IInv /\ [Next]_vars => IInv'
    BY NextIInv
  <1>. QED
    BY <1>1, <1>2, PTL DEF Spec

\* The state and the addresses that VPP has for a paired interface are the kernel's
\* as soon as no message about them waits, whatever changes during the start and
\* across restarts; VPP has an interface up that the kernel has down exactly when
\* link_analyze_and_hook misread its last change of IFF_UP.
THEOREM InterfacesFollow == Spec => []InterfacesAgree
  <1>1. IInv => InterfacesAgree
    BY LinksFollow, AddrsFollow, Zenon DEF InterfacesAgree, IInv, Types
  <1>. QED
    BY <1>1, Invariance, PTL

\* Links agree in the same way, and every route of the kernel over a paired interface
\* is in VPP, over the interface it is paired with and through the kernel's gateway
\* if there is one, as soon as no message about the prefix waits: also when a route
\* replaced another one (route_analyze_and_hook).
THEOREM ForwardingFollows == Spec => []ForwardingAgrees
  <1>1. IInv => ForwardingAgrees
    BY LinksFollow, RoutesFollow, Zenon DEF ForwardingAgrees
  <1>. QED
    BY <1>1, Invariance, PTL
=============================================================================
