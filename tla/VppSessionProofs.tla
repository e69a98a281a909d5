-------------------------- MODULE VppSessionProofs --------------------------
(***************************************************************************)
(* Proofs about VppSession, for any number of threads, interfaces and      *)
(* addresses: a command that reports success has changed VPP, no way out   *)
(* of a command leaves its connection behind, no command runs on another's *)
(* connection, and without a timeout show vpp interface prints every       *)
(* interface and has stored every address. All of it holds until one       *)
(* thread takes another's connection down (cut): nothing is claimed of a   *)
(* process that goes on after that.                                        *)
(*                                                                         *)
(* The argument follows one connection. VPP answers in order, so the       *)
(* replies that wait in the queue and the requests VPP has not served form *)
(* one stream, and the pong of the ping the command sent cuts it in two:   *)
(* Split says what may stand before the cut and after it, on whichever     *)
(* side of VPP the cut is. Requests of earlier connections do not matter:  *)
(* they carry another client, and no client is used twice.                 *)
(***************************************************************************)
EXTENDS VppSession, TLAPS

-----------------------------------------------------------------------------
(* The inductive invariant                                                  *)

Replies ==
  [kind : {"interface"}, arg : Iface] \cup [kind : {"address"}, arg : HasAddr]
  \cup [kind : {"entry"}, arg : {0, 1}] \cup [kind : {"pong"}, arg : {0}]
  \cup [kind : {"retval"}, arg : {"ok", "failed"}]

Requests ==
  [client : Nat, kind : {"addresses"}, arg : Iface \X BOOLEAN]
  \cup [client : Nat, kind : {"change", "interfaces", "list", "ping"}, arg : {0}]

Threads ==
  [pc : {"idle", "send", "wait", "list", "links", "addrs"}, cmd : Commands \cup {"none"},
   n : 0 .. MaxCommands, links : Seq(Replies), addrs : Seq(Replies), late : BOOLEAN,
   result : {"none", "ok", "failed", "timeout", "refused", "unreachable"}]

Types ==
  /\ client \in 0 .. MaxCommands /\ rx \in BOOLEAN /\ count \in 0 .. MaxCommands
  /\ applied \subseteq 1 .. MaxCommands
  /\ toVpp \in Seq(Requests) /\ queue \in Seq(Replies)
  /\ th \in [Thread -> Threads]

\* The requests of connection c among v.
Of(v, c) == {i \in DOMAIN v : v[i].client = c}

Only(q, K) == \A i \in DOMAIN q : q[i].kind \in K
Asked(v, c, K) == \A i \in Of(v, c) : v[i].kind \in K

PongAt(q, A, B) ==
  \E p \in DOMAIN q :
    /\ q[p].kind = "pong"
    /\ \A i \in DOMAIN q : (i < p => q[i].kind \in A) /\ (i > p => q[i].kind \in B)

PingAt(v, c, A, B) ==
  \E p \in Of(v, c) :
    /\ v[p].kind = "ping"
    /\ \A i \in Of(v, c) : (i < p => v[i].kind \in A) /\ (i > p => v[i].kind \in B)

\* Replies of the kinds A, asked for by the kinds RA, come before the pong;
\* those of the kinds B, asked for by RB, after it.
Split(q, v, c, A, B, RA, RB) ==
  \/ Only(q, A) /\ PingAt(v, c, RA, RB)
  \/ PongAt(q, A, B) /\ Asked(v, c, RB)

Has(s, kind, x) == \E i \in DOMAIN s : s[i] = Reply(kind, x)

\* The detail is in the queue, or VPP is yet to be asked for it.
LinkComes(q, v, c, x) ==
  Has(q, "interface", x) \/ \E i \in Of(v, c) : v[i].kind = "interfaces"
AddressComes(q, v, c, x) ==
  Has(q, "address", x) \/ \E i \in Of(v, c) : v[i].kind = "addresses" /\ v[i].arg = x

AllLinks(s) == \A x \in Iface : Has(s.links, "interface", x)
AllAddresses(s) == \A x \in HasAddr : Has(s.addrs, "address", x)

\* What a thread with connection c finds in the queue and still has with VPP.
Waiting(s, q, v, c) ==
  /\ s.pc = "send" =>
       q = <<>> /\ Of(v, c) = {} /\ s.links = <<>> /\ s.addrs = <<>> /\ ~s.late
  /\ s.pc = "wait" =>
       s.cmd # "interface" /\ Only(q, {"retval"}) /\ Asked(v, c, {"change"})
  /\ s.pc = "list" => s.cmd = "list"
  /\ s.pc = "links" =>
       /\ s.cmd = "interface" /\ ~s.late /\ s.addrs = <<>>
       /\ Split(q, v, c, {"interface"}, {"address"}, {"interfaces"}, {"addresses"})
       /\ \A x \in Iface : Has(s.links, "interface", x) \/ LinkComes(q, v, c, x)
       /\ \A x \in HasAddr : Has(s.links, "interface", x[1]) => AddressComes(q, v, c, x)
  /\ s.pc = "addrs" =>
       /\ s.cmd = "interface"
       /\ ~s.late => /\ Split(q, v, c, {"address"}, {}, {"addresses"}, {})
                     /\ AllLinks(s)
                     /\ \A x \in HasAddr : Has(s.addrs, "address", x)
                                           \/ AddressComes(q, v, c, x)

\* What a thread has printed or returned, whoever is connected by now.
Told(s, done) ==
  /\ ~s.late => Only(s.links, {"interface"}) /\ Only(s.addrs, {"address"})
  /\ s.result = "ok" /\ s.cmd \in {"set", "loopback"} => s.n \in done
  /\ s.result = "ok" /\ s.cmd = "interface" /\ ~s.late => AllLinks(s) /\ AllAddresses(s)

Busy(t) == th[t].pc # "idle"

\* Connections are told apart by their number; a busy thread has the open one.
Numbered ==
  /\ client <= count
  /\ \A i \in DOMAIN toVpp : toVpp[i].client # 0 /\ toVpp[i].client <= count
  /\ \A t \in Thread : th[t].n <= count
  /\ \A t, u \in Thread : th[t].n = th[u].n /\ th[t].n # 0 => t = u
  /\ \A t \in Thread : Busy(t) =>
       /\ th[t].n = client /\ client # 0 /\ th[t].result = "none"
       /\ th[t].cmd \in Command[t] \ {"open", "close"}
       /\ rx => th[t].cmd = "loopback"
  /\ client # 0 /\ ~rx => \E t \in Thread : Busy(t)

\* A success VPP has reported is one it has made.
OkIsReal == Has(queue, "retval", "ok") => client \in applied

IInv ==
  /\ Types /\ Numbered
  /\ client # 0 => OkIsReal
  /\ \A t \in Thread : Told(th[t], applied)
  /\ \A t \in Thread : Waiting(th[t], queue, toVpp, client)

\* The shared memory is mapped under a thread in a command.
Mapped == mapped \in BOOLEAN /\ \A t \in Thread : Busy(t) => mapped

SessionInv == ~cut => IInv /\ Mapped

-----------------------------------------------------------------------------
(* Sequences                                                                *)

\* Where the elements of Tail(s) stand in s.
LEMMA TailAt ==
  ASSUME NEW S, NEW s \in Seq(S), s # <<>>
  PROVE  /\ Tail(s) \in Seq(S) /\ Head(s) \in S /\ Head(s) = s[1] /\ 1 \in DOMAIN s
         /\ \A i \in DOMAIN s : i \in Nat /\ i >= 1
         /\ \A i \in DOMAIN Tail(s) : i + 1 \in DOMAIN s /\ Tail(s)[i] = s[i + 1] /\ i \in Nat /\ i >= 1
         /\ \A i \in DOMAIN s : i # 1 => i - 1 \in DOMAIN Tail(s) /\ Tail(s)[i - 1] = s[i]
  OBVIOUS

\* Where the elements of s and of r stand in s \o r.
LEMMA ConcatAt ==
  ASSUME NEW S, NEW s \in Seq(S), NEW r \in Seq(S)
  PROVE  /\ s \o r \in Seq(S) /\ Len(s) \in Nat
         /\ \A i \in DOMAIN s : i \in Nat /\ i >= 1 /\ i <= Len(s)
         /\ \A i \in DOMAIN s : i \in DOMAIN (s \o r) /\ (s \o r)[i] = s[i]
         /\ \A i \in DOMAIN r : i \in Nat /\ i >= 1
                                /\ i + Len(s) \in DOMAIN (s \o r) /\ (s \o r)[i + Len(s)] = r[i]
         /\ \A i \in DOMAIN (s \o r) :
              \/ i \in DOMAIN s
              \/ i > Len(s) /\ i - Len(s) \in DOMAIN r /\ (s \o r)[i] = r[i - Len(s)]
  OBVIOUS

\* A request of another connection leaves the stream of c as it is.
LEMMA PassOf ==
  ASSUME NEW R, NEW v \in Seq(R), v # <<>>, NEW c, Head(v).client # c
  PROVE  /\ \A i \in Of(v, c) : i - 1 \in Of(Tail(v), c) /\ Tail(v)[i - 1] = v[i] /\ i \in Nat
         /\ \A i \in Of(Tail(v), c) : i + 1 \in Of(v, c) /\ Tail(v)[i] = v[i + 1] /\ i \in Nat
  BY TailAt DEF Of

\* VPP serving another connection does not disturb the split of the stream.
LEMMA PassSplit ==
  ASSUME NEW q, NEW R, NEW v \in Seq(R), v # <<>>, NEW c, Head(v).client # c,
         NEW A, NEW B, NEW RA, NEW RB, Split(q, v, c, A, B, RA, RB)
  PROVE  Split(q, Tail(v), c, A, B, RA, RB)
  <1>0. /\ \A i \in Of(v, c) : i - 1 \in Of(Tail(v), c) /\ Tail(v)[i - 1] = v[i] /\ i \in Nat
        /\ \A i \in Of(Tail(v), c) : i + 1 \in Of(v, c) /\ Tail(v)[i] = v[i + 1] /\ i \in Nat
    BY PassOf, ZenonT(60)
  <1>1. PingAt(v, c, RA, RB) => PingAt(Tail(v), c, RA, RB)
    <2>. SUFFICES ASSUME PingAt(v, c, RA, RB) PROVE PingAt(Tail(v), c, RA, RB)
      OBVIOUS
    <2>1. PICK p \in Of(v, c) :
            /\ v[p].kind = "ping"
            /\ \A i \in Of(v, c) : (i < p => v[i].kind \in RA) /\ (i > p => v[i].kind \in RB)
      BY DEF PingAt
    <2>2. p - 1 \in Of(Tail(v), c) /\ Tail(v)[p - 1].kind = "ping" /\ p \in Nat
      BY <2>1, <1>0, ZenonT(60)
    <2>3. ASSUME NEW i \in Of(Tail(v), c)
          PROVE  /\ i < p - 1 => Tail(v)[i].kind \in RA
                 /\ i > p - 1 => Tail(v)[i].kind \in RB
      <3>1. i + 1 \in Of(v, c) /\ Tail(v)[i] = v[i + 1] /\ i \in Nat
        BY <1>0, ZenonT(60)
      <3>2. (i + 1 < p => v[i + 1].kind \in RA) /\ (i + 1 > p => v[i + 1].kind \in RB)
        BY <2>1, <3>1
      <3>3. (i < p - 1 => i + 1 < p) /\ (i > p - 1 => i + 1 > p)
        BY <2>2, <3>1
      <3>. QED
        BY <3>1, <3>2, <3>3, Zenon
    <2>. QED
      BY <2>2, <2>3, ZenonT(60) DEF PingAt
  <1>2. Asked(v, c, RB) => Asked(Tail(v), c, RB)
    BY <1>0, ZenonT(60) DEF Asked
  <1>. QED
    BY <1>1, <1>2 DEF Split

\* VPP serves a request of c: what is asked for before the ping is answered
\* before the pong.
LEMMA ServeSplit ==
  ASSUME NEW S, NEW q \in Seq(S), NEW rs \in Seq(S), NEW R, NEW v \in Seq(R), v # <<>>,
         NEW c, Head(v).client = c, NEW A, NEW B, NEW RA, NEW RB,
         Split(q, v, c, A, B, RA, RB), "ping" \notin RA, "ping" \notin RB,
         Head(v).kind = "ping" => rs = <<Reply("pong", 0)>>,
         Head(v).kind \in RA => Only(rs, A),
         Head(v).kind \in RB => Only(rs, B)
  PROVE  Split(q \o rs, Tail(v), c, A, B, RA, RB)
  <1>0. 1 \in Of(v, c) /\ v[1] = Head(v)
    BY TailAt DEF Of
  <1>1. \A i \in Of(Tail(v), c) : i + 1 \in Of(v, c) /\ Tail(v)[i] = v[i + 1] /\ i \in Nat /\ i >= 1
    BY TailAt DEF Of
  <1>c. /\ \A i \in DOMAIN q : i \in Nat /\ i >= 1 /\ i <= Len(q)
        /\ \A i \in DOMAIN q : i \in DOMAIN (q \o rs) /\ (q \o rs)[i] = q[i]
        /\ \A i \in DOMAIN rs : i \in Nat /\ i >= 1
                                 /\ i + Len(q) \in DOMAIN (q \o rs) /\ (q \o rs)[i + Len(q)] = rs[i]
        /\ \A i \in DOMAIN (q \o rs) :
             \/ i \in DOMAIN q
             \/ i > Len(q) /\ i - Len(q) \in DOMAIN rs /\ (q \o rs)[i] = rs[i - Len(q)]
        /\ Len(q) \in Nat
    OBVIOUS
  <1>2. CASE Only(q, A) /\ PingAt(v, c, RA, RB)
    <2>1. PICK p \in Of(v, c) :
            /\ v[p].kind = "ping"
            /\ \A i \in Of(v, c) : (i < p => v[i].kind \in RA) /\ (i > p => v[i].kind \in RB)
      BY <1>2 DEF PingAt
    <2>2. p \in Nat /\ p >= 1
      BY TailAt DEF Of
    <2>3. CASE p = 1
      <3>1. Asked(Tail(v), c, RB)
        <4>. SUFFICES ASSUME NEW i \in Of(Tail(v), c) PROVE Tail(v)[i].kind \in RB
          BY ZenonT(60) DEF Asked
        <4>1. i + 1 \in Of(v, c) /\ Tail(v)[i] = v[i + 1] /\ i \in Nat /\ i >= 1
          BY <1>1, ZenonT(60)
        <4>3. i + 1 > p
          BY <4>1, <2>3
        <4>2. v[i + 1].kind \in RB
          <5>1. i + 1 > p => v[i + 1].kind \in RB
            BY <2>1, <4>1, Zenon
          <5>. QED
            BY <4>3, <5>1, Zenon
        <4>. QED
          BY <4>1, <4>2, Zenon
      <3>2. rs = <<Reply("pong", 0)>>
        BY <1>0, <2>1, <2>3
      <3>3. 1 \in DOMAIN rs /\ rs[1].kind = "pong" /\ \A i \in DOMAIN rs : i = 1
        BY <3>2 DEF Reply
      <3>4. 1 + Len(q) \in DOMAIN (q \o rs) /\ (q \o rs)[1 + Len(q)].kind = "pong" /\ Len(q) \in Nat
        BY <3>3, <1>c
      <3>5. ASSUME NEW i \in DOMAIN (q \o rs)
            PROVE  /\ i < 1 + Len(q) => (q \o rs)[i].kind \in A
                   /\ i > 1 + Len(q) => (q \o rs)[i].kind \in B
        <4>1. CASE i \in DOMAIN q
          BY <4>1, <1>2, <3>4, <1>c DEF Only
        <4>2. CASE i > Len(q) /\ i - Len(q) \in DOMAIN rs
          <5>1. i - Len(q) = 1
            BY <4>2, <3>3
          <5>2. i \in Nat
            BY <1>c
          <5>. QED
            BY <5>1, <5>2, <3>4
        <4>. QED
          BY <4>1, <4>2, <1>c
      <3>6. PongAt(q \o rs, A, B)
        BY <3>4, <3>5 DEF PongAt
      <3>. QED
        BY <3>1, <3>6 DEF Split
    <2>4. CASE p # 1
      <3>1. Head(v).kind \in RA
        BY <1>0, <2>1, <2>2, <2>4
      <3>2. Only(q \o rs, A)
        BY <3>1, <1>2, <1>c DEF Only
      <3>3. p - 1 \in Of(Tail(v), c) /\ Tail(v)[p - 1] = v[p]
        BY <2>4, TailAt DEF Of
      <3>4. ASSUME NEW i \in Of(Tail(v), c)
            PROVE  /\ i < p - 1 => Tail(v)[i].kind \in RA
                   /\ i > p - 1 => Tail(v)[i].kind \in RB
        <4>1. i + 1 \in Of(v, c) /\ Tail(v)[i] = v[i + 1] /\ i \in Nat
          BY <1>1, ZenonT(60)
        <4>2. (i + 1 < p => v[i + 1].kind \in RA) /\ (i + 1 > p => v[i + 1].kind \in RB)
          BY <2>1, <4>1
        <4>3. (i < p - 1 => i + 1 < p) /\ (i > p - 1 => i + 1 > p)
          BY <2>2, <4>1
        <4>. QED
          BY <4>1, <4>2, <4>3, Zenon
      <3>. QED
        BY <3>2, <3>3, <3>4, <2>1, ZenonT(60) DEF Split, PingAt
    <2>. QED
      BY <2>3, <2>4
  <1>3. CASE PongAt(q, A, B) /\ Asked(v, c, RB)
    <2>1. Asked(Tail(v), c, RB)
      BY <1>1, <1>3, ZenonT(60) DEF Asked
    <2>2. Only(rs, B)
      BY <1>0, <1>3 DEF Asked
    <2>3. PICK p \in DOMAIN q :
            /\ q[p].kind = "pong"
            /\ \A i \in DOMAIN q : (i < p => q[i].kind \in A) /\ (i > p => q[i].kind \in B)
      BY <1>3 DEF PongAt
    <2>4. p \in DOMAIN (q \o rs) /\ (q \o rs)[p].kind = "pong" /\ p \in Nat /\ p <= Len(q) /\ Len(q) \in Nat
      BY <2>3, <1>c
    <2>5. ASSUME NEW i \in DOMAIN (q \o rs)
          PROVE  /\ i < p => (q \o rs)[i].kind \in A
                 /\ i > p => (q \o rs)[i].kind \in B
      <3>1. CASE i \in DOMAIN q
        BY <3>1, <2>3, <1>c
      <3>2. CASE i > Len(q) /\ i - Len(q) \in DOMAIN rs /\ (q \o rs)[i] = rs[i - Len(q)]
        BY <3>2, <2>2, <2>4 DEF Only
      <3>. QED
        BY <3>1, <3>2, <1>c
    <2>. QED
      BY <2>1, <2>4, <2>5, ZenonT(60) DEF Split, PongAt
  <1>. QED
    BY <1>2, <1>3 DEF Split

\* The thread reads the first reply.
LEMMA ReadSplit ==
  ASSUME NEW S, NEW q \in Seq(S), q # <<>>, NEW v, NEW c, NEW A, NEW B, NEW RA, NEW RB,
         Split(q, v, c, A, B, RA, RB), "pong" \notin A
  PROVE  /\ Head(q).kind # "pong" => Head(q).kind \in A /\ Split(Tail(q), v, c, A, B, RA, RB)
         /\ Head(q).kind = "pong" => Only(Tail(q), B) /\ Asked(v, c, RB)
  <1>0. /\ Head(q) = q[1] /\ 1 \in DOMAIN q
        /\ \A i \in DOMAIN q : i \in Nat /\ i >= 1
        /\ \A i \in DOMAIN Tail(q) : i + 1 \in DOMAIN q /\ Tail(q)[i] = q[i + 1] /\ i \in Nat /\ i >= 1
        /\ \A i \in DOMAIN q : i # 1 => i - 1 \in DOMAIN Tail(q) /\ Tail(q)[i - 1] = q[i]
    BY TailAt
  <1>1. CASE Only(q, A) /\ PingAt(v, c, RA, RB)
    <2>1. Head(q).kind \in A
      BY <1>1, <1>0 DEF Only
    <2>2. Only(Tail(q), A)
      BY <1>1, <1>0 DEF Only
    <2>. QED
      BY <1>1, <2>1, <2>2 DEF Split
  <1>2. CASE PongAt(q, A, B) /\ Asked(v, c, RB)
    <2>1. PICK p \in DOMAIN q :
            /\ q[p].kind = "pong"
            /\ \A i \in DOMAIN q : (i < p => q[i].kind \in A) /\ (i > p => q[i].kind \in B)
      BY <1>2 DEF PongAt
    <2>2. p \in Nat /\ p >= 1
      BY <1>0
    <2>3. CASE p = 1
      <3>1. Head(q).kind = "pong"
        BY <2>1, <2>3, <1>0
      <3>2. Only(Tail(q), B)
        BY <2>1, <2>3, <1>0 DEF Only
      <3>. QED
        BY <1>2, <3>1, <3>2
    <2>4. CASE p # 1
      <3>1. Head(q).kind \in A
        BY <2>1, <2>2, <2>4, <1>0
      <3>2. p - 1 \in DOMAIN Tail(q) /\ Tail(q)[p - 1].kind = "pong"
        BY <2>1, <2>4, <1>0
      <3>3. ASSUME NEW i \in DOMAIN Tail(q)
            PROVE  /\ i < p - 1 => Tail(q)[i].kind \in A
                   /\ i > p - 1 => Tail(q)[i].kind \in B
        BY <2>1, <2>2, <1>0
      <3>4. PongAt(Tail(q), A, B)
        BY <3>2, <3>3 DEF PongAt
      <3>. QED
        BY <1>2, <3>1, <3>4 DEF Split
    <2>. QED
      BY <2>3, <2>4
  <1>. QED
    BY <1>1, <1>2 DEF Split

\* The thread sends what is to be answered after the pong.
LEMMA SendSplit ==
  ASSUME NEW q, NEW R, NEW v \in Seq(R), NEW rs \in Seq(R), NEW c,
         NEW A, NEW B, NEW RA, NEW RB, Split(q, v, c, A, B, RA, RB), Only(rs, RB)
  PROVE  Split(q, v \o rs, c, A, B, RA, RB)
  <1>1. \A i \in Of(v, c) : i \in Of(v \o rs, c) /\ (v \o rs)[i] = v[i] /\ i \in Nat /\ i <= Len(v)
    BY ConcatAt DEF Of
  <1>2. \A i \in Of(v \o rs, c) :
          \/ i \in Of(v, c) /\ (v \o rs)[i] = v[i]
          \/ i > Len(v) /\ (v \o rs)[i].kind \in RB
    BY ConcatAt DEF Of, Only
  <1>3. CASE Only(q, A) /\ PingAt(v, c, RA, RB)
    <2>1. PICK p \in Of(v, c) :
            /\ v[p].kind = "ping"
            /\ \A i \in Of(v, c) : (i < p => v[i].kind \in RA) /\ (i > p => v[i].kind \in RB)
      BY <1>3 DEF PingAt
    <2>2. ASSUME NEW i \in Of(v \o rs, c)
          PROVE  /\ i < p => (v \o rs)[i].kind \in RA
                 /\ i > p => (v \o rs)[i].kind \in RB
      <3>1. p \in Nat /\ p <= Len(v) /\ Len(v) \in Nat /\ i \in Nat
        BY <1>1, ConcatAt DEF Of
      <3>2. CASE i \in Of(v, c) /\ (v \o rs)[i] = v[i]
        BY <2>1, <3>2
      <3>3. CASE i > Len(v) /\ (v \o rs)[i].kind \in RB
        <4>1. ~(i < p)
          BY <3>1, <3>3
        <4>. QED
          BY <4>1, <3>3, Zenon
      <3>. QED
        BY <1>2, <3>2, <3>3, ZenonT(60)
    <2>. QED
      BY <1>1, <1>3, <2>1, <2>2, ZenonT(60) DEF Split, PingAt
  <1>4. CASE PongAt(q, A, B) /\ Asked(v, c, RB)
    BY <1>2, <1>4, ZenonT(60) DEF Split, Asked
  <1>. QED
    BY <1>3, <1>4 DEF Split

\* The thread sends a ping after what it asked for.
LEMMA PingLast ==
  ASSUME NEW R, NEW v \in Seq(R), NEW rs \in Seq(R), NEW c, NEW K, Asked(v, c, K),
         rs # <<>>, \A i \in DOMAIN rs : rs[i].client = c,
         rs[Len(rs)].kind = "ping", \A i \in DOMAIN rs : i # Len(rs) => rs[i].kind \in K,
         NEW B
  PROVE  PingAt(v \o rs, c, K, B)
  <1>. DEFINE p == Len(rs) + Len(v)
  <1>1. Len(rs) \in DOMAIN rs /\ Len(rs) \in Nat /\ \A i \in DOMAIN rs : i <= Len(rs)
    OBVIOUS
  <1>2. p \in Of(v \o rs, c) /\ (v \o rs)[p].kind = "ping" /\ p \in Nat /\ Len(v) \in Nat
    BY <1>1, ConcatAt DEF Of
  <1>3. ASSUME NEW i \in Of(v \o rs, c)
        PROVE  (i < p => (v \o rs)[i].kind \in K) /\ ~(i > p)
    <2>1. i \in DOMAIN (v \o rs) /\ (v \o rs)[i].client = c
      BY DEF Of
    <2>2. CASE i \in DOMAIN v
      <3>1. i \in Of(v, c) /\ (v \o rs)[i] = v[i] /\ i <= Len(v) /\ i \in Nat
        BY <2>1, <2>2, ConcatAt DEF Of
      <3>. QED
        BY <3>1, <1>1, <1>2 DEF Asked
    <2>3. CASE i > Len(v) /\ i - Len(v) \in DOMAIN rs /\ (v \o rs)[i] = rs[i - Len(v)]
      <3>1. i \in Nat
        BY <2>1, ConcatAt
      <3>. QED
        BY <2>3, <3>1, <1>1, <1>2
    <2>. QED
      BY <2>1, <2>2, <2>3, ConcatAt
  <1>. QED
    BY <1>2, <1>3, ZenonT(60) DEF PingAt

\* A reply stays in the queue until it is read.
LEMMA HasConcat ==
  ASSUME NEW S, NEW s \in Seq(S), NEW r \in Seq(S), NEW kind, NEW x,
         Has(s, kind, x) \/ Has(r, kind, x)
  PROVE  Has(s \o r, kind, x)
  BY ConcatAt DEF Has

\* A reply of a sequence is its first one or one of the rest.
LEMMA HasTail ==
  ASSUME NEW S, NEW s \in Seq(S), s # <<>>, NEW kind, NEW x, Has(s, kind, x)
  PROVE  Head(s) = Reply(kind, x) \/ Has(Tail(s), kind, x)
  <1>1. PICK i \in DOMAIN s : s[i] = Reply(kind, x)
    BY DEF Has
  <1>2. CASE i = 1
    BY <1>1, <1>2, TailAt
  <1>3. CASE i # 1
    <2>1. i - 1 \in DOMAIN Tail(s) /\ Tail(s)[i - 1] = s[i]
      BY <1>3, TailAt
    <2>. QED
      BY <1>1, <2>1 DEF Has
  <1>. QED
    BY <1>2, <1>3

\* A longer sequence keeps its replies, and has the new one.
LEMMA HasAppend ==
  ASSUME NEW S, NEW s \in Seq(S), NEW m \in S, NEW kind, NEW x,
         Has(s, kind, x) \/ m = Reply(kind, x)
  PROVE  Has(Append(s, m), kind, x)
  <1>1. CASE Has(s, kind, x)
    <2>1. PICK i \in DOMAIN s : s[i] = Reply(kind, x)
      BY <1>1 DEF Has
    <2>2. i \in DOMAIN Append(s, m) /\ Append(s, m)[i] = s[i]
      OBVIOUS
    <2>. QED
      BY <2>1, <2>2 DEF Has
  <1>2. CASE m = Reply(kind, x)
    <2>1. Len(s) + 1 \in DOMAIN Append(s, m) /\ Append(s, m)[Len(s) + 1] = m
      OBVIOUS
    <2>. QED
      BY <1>2, <2>1 DEF Has
  <1>. QED
    BY <1>1, <1>2

\* Adding a reply of a kind in K leaves only kinds in K.
LEMMA OnlyAppend ==
  ASSUME NEW S, NEW s \in Seq(S), NEW m \in S, NEW K, Only(s, K), m.kind \in K
  PROVE  Only(Append(s, m), K)
  BY DEF Only

\* The rest of a sequence has only the kinds of the whole, and so has its first
\* reply.
LEMMA OnlyTail ==
  ASSUME NEW S, NEW s \in Seq(S), s # <<>>, NEW K, Only(s, K)
  PROVE  Only(Tail(s), K) /\ Head(s).kind \in K
  BY TailAt DEF Only

\* A request stays until VPP serves it.
LEMMA OfTail ==
  ASSUME NEW R, NEW v \in Seq(R), v # <<>>, NEW c, NEW i \in Of(v, c)
  PROVE  v[i] = Head(v) \/ (i - 1 \in Of(Tail(v), c) /\ Tail(v)[i - 1] = v[i])
  BY TailAt DEF Of

-----------------------------------------------------------------------------
(* What VPP answers                                                         *)

\* What VPP answers to each kind of request.
LEMMA DetailsOf ==
  ASSUME NEW r \in Requests
  PROVE  /\ r.kind = "interfaces" => /\ Details(r) \in Seq(Replies)
                                     /\ Only(Details(r), {"interface"})
                                     /\ \A x \in Iface : Has(Details(r), "interface", x)
         /\ r.kind = "addresses" => /\ Details(r) \in Seq(Replies)
                                    /\ Only(Details(r), {"address"})
                                    /\ r.arg \in HasAddr => Has(Details(r), "address", r.arg)
         /\ r.kind = "list" => Details(r) \in Seq(Replies) /\ Only(Details(r), {"entry"})
         /\ r.kind = "ping" => Details(r) = <<Reply("pong", 0)>> /\ Details(r) \in Seq(Replies)
  <1>1. CASE r.kind = "interfaces"
    <2>1. Details(r) = [i \in DOMAIN Ifaces |-> Reply("interface", Ifaces[i])]
      BY <1>1 DEF Details
    <2>2. /\ Ifaces \in Seq(Iface) /\ Len(Ifaces) \in Nat /\ DOMAIN Ifaces = 1 .. Len(Ifaces)
          /\ \A i \in DOMAIN Ifaces : Ifaces[i] \in Iface
      BY InterfaceAssumption
    <2>3. Details(r) \in Seq(Replies)
      <3>1. \A i \in DOMAIN Ifaces : Reply("interface", Ifaces[i]) \in Replies
        BY <2>2 DEF Reply, Replies
      <3>. QED
        BY <2>1, <2>2, <3>1
    <2>4. Only(Details(r), {"interface"})
      BY <2>1 DEF Only, Reply
    <2>5. \A x \in Iface : Has(Details(r), "interface", x)
      <3>1. \A x \in Iface : \E i \in DOMAIN Ifaces : Ifaces[i] = x
        BY DEF Iface, Range
      <3>. QED
        BY <2>1, <3>1 DEF Has
    <2>. QED
      BY <1>1, <2>3, <2>4, <2>5
  <1>2. CASE r.kind = "addresses"
    <2>1. Details(r) = IF r.arg \in HasAddr THEN <<Reply("address", r.arg)>> ELSE <<>>
      BY <1>2 DEF Details
    <2>2. CASE r.arg \in HasAddr
      <3>1. Details(r) = <<Reply("address", r.arg)>> /\ Reply("address", r.arg) \in Replies
        BY <2>1, <2>2 DEF Reply, Replies
      <3>2. Reply("address", r.arg).kind = "address"
        BY DEF Reply
      <3>. QED
        BY <1>2, <3>1, <3>2 DEF Only, Has
    <2>3. CASE r.arg \notin HasAddr
      BY <1>2, <2>1, <2>3 DEF Only
    <2>. QED
      BY <2>2, <2>3
  <1>3. CASE r.kind = "list"
    <2>1. Details(r) = <<Reply("entry", 0), Reply("entry", 1)>>
      BY <1>3 DEF Details
    <2>2. Reply("entry", 0) \in Replies /\ Reply("entry", 1) \in Replies
      BY DEF Reply, Replies
    <2>3. Reply("entry", 0).kind = "entry" /\ Reply("entry", 1).kind = "entry"
      BY DEF Reply
    <2>. QED
      BY <1>3, <2>1, <2>2, <2>3 DEF Only
  <1>4. CASE r.kind = "ping"
    <2>1. Details(r) = <<Reply("pong", 0)>>
      BY <1>4 DEF Details
    <2>2. Reply("pong", 0) \in Replies
      BY DEF Reply, Replies
    <2>. QED
      BY <1>4, <2>1, <2>2
  <1>. QED
    BY <1>1, <1>2, <1>3, <1>4

\* A detail that is still to come comes, when VPP serves any request, ...
LEMMA ServeComes ==
  ASSUME NEW q \in Seq(Replies), NEW v \in Seq(Requests), v # <<>>, NEW c,
         NEW rs \in Seq(Replies), Head(v).kind # "change" => rs = Details(Head(v)),
         NEW w, w = IF Head(v).client = c THEN q \o rs ELSE q
  PROVE  /\ \A x \in Iface : LinkComes(q, v, c, x) => LinkComes(w, Tail(v), c, x)
         /\ \A x \in HasAddr : AddressComes(q, v, c, x) => AddressComes(w, Tail(v), c, x)
  <1>0. Head(v) \in Requests
    BY TailAt
  <1>1. ASSUME NEW kind, NEW x, Has(q, kind, x) PROVE Has(w, kind, x)
    BY <1>1, HasConcat
  <1>2. ASSUME NEW kind, NEW x, Has(rs, kind, x), Head(v).client = c PROVE Has(w, kind, x)
    BY <1>2, HasConcat
  <1>3. ASSUME NEW x \in Iface, LinkComes(q, v, c, x) PROVE LinkComes(w, Tail(v), c, x)
    <2>1. CASE Has(q, "interface", x)
      BY <1>1, <2>1 DEF LinkComes
    <2>2. CASE \E i \in Of(v, c) : v[i].kind = "interfaces"
      <3>1. PICK i \in Of(v, c) : v[i].kind = "interfaces"
        BY <2>2
      <3>2. CASE v[i] = Head(v)
        <4>1. Head(v).client = c /\ Head(v).kind = "interfaces"
          BY <3>1, <3>2 DEF Of
        <4>2. rs = Details(Head(v))
          BY <4>1
        <4>3. Has(rs, "interface", x)
          BY <1>0, <4>1, <4>2, DetailsOf
        <4>. QED
          BY <1>2, <4>1, <4>3 DEF LinkComes
      <3>3. CASE i - 1 \in Of(Tail(v), c) /\ Tail(v)[i - 1] = v[i]
        BY <3>1, <3>3, ZenonT(60) DEF LinkComes
      <3>. QED
        BY <3>2, <3>3, OfTail, ZenonT(60)
    <2>. QED
      BY <1>3, <2>1, <2>2, ZenonT(60) DEF LinkComes
  <1>4. ASSUME NEW x \in HasAddr, AddressComes(q, v, c, x) PROVE AddressComes(w, Tail(v), c, x)
    <2>1. CASE Has(q, "address", x)
      BY <1>1, <2>1 DEF AddressComes
    <2>2. CASE \E i \in Of(v, c) : v[i].kind = "addresses" /\ v[i].arg = x
      <3>1. PICK i \in Of(v, c) : v[i].kind = "addresses" /\ v[i].arg = x
        BY <2>2
      <3>2. CASE v[i] = Head(v)
        <4>1. Head(v).client = c /\ Head(v).kind = "addresses" /\ Head(v).arg = x
          BY <3>1, <3>2 DEF Of
        <4>2. rs = Details(Head(v))
          BY <4>1
        <4>3. Has(rs, "address", x)
          BY <1>0, <4>1, <4>2, DetailsOf
        <4>. QED
          BY <1>2, <4>1, <4>3 DEF AddressComes
      <3>3. CASE i - 1 \in Of(Tail(v), c) /\ Tail(v)[i - 1] = v[i]
        BY <3>1, <3>3, ZenonT(60) DEF AddressComes
      <3>. QED
        BY <3>2, <3>3, OfTail, ZenonT(60)
    <2>. QED
      BY <1>4, <2>1, <2>2, ZenonT(60) DEF AddressComes
  <1>. QED
    BY <1>3, <1>4

\* ... or is the reply that is read ...
LEMMA ReadComes ==
  ASSUME NEW q \in Seq(Replies), q # <<>>, NEW v, NEW c, NEW x
  PROVE  /\ LinkComes(q, v, c, x) => Head(q) = Reply("interface", x) \/ LinkComes(Tail(q), v, c, x)
         /\ AddressComes(q, v, c, x) => Head(q) = Reply("address", x) \/ AddressComes(Tail(q), v, c, x)
  BY HasTail DEF LinkComes, AddressComes

\* ... and more requests do not change that.
LEMMA SendComes ==
  ASSUME NEW q, NEW v \in Seq(Requests), NEW rs \in Seq(Requests), NEW c, NEW x
  PROVE  /\ LinkComes(q, v, c, x) => LinkComes(q, v \o rs, c, x)
         /\ AddressComes(q, v, c, x) => AddressComes(q, v \o rs, c, x)
  <1>1. \A i \in Of(v, c) : i \in Of(v \o rs, c) /\ (v \o rs)[i] = v[i]
    BY ConcatAt DEF Of
  <1>. QED
    BY <1>1, ZenonT(60) DEF LinkComes, AddressComes

\* What VPP does to the thread that waits.
LEMMA ServeWaiting ==
  ASSUME NEW s, NEW q \in Seq(Replies), NEW v \in Seq(Requests), v # <<>>, NEW c,
         NEW rs \in Seq(Replies), Waiting(s, q, v, c),
         Head(v).kind # "change" => rs = Details(Head(v)),
         Head(v).kind = "change" => Only(rs, {"retval"}),
         NEW w, w = IF Head(v).client = c THEN q \o rs ELSE q
  PROVE  Waiting(s, w, Tail(v), c)
  <1>0. Head(v) \in Requests /\ Tail(v) \in Seq(Requests)
    BY TailAt
  <1>1. ASSUME NEW K, Asked(v, c, K) PROVE Asked(Tail(v), c, K)
    <2>1. \A i \in Of(Tail(v), c) : i + 1 \in Of(v, c) /\ Tail(v)[i] = v[i + 1]
      BY TailAt DEF Of
    <2>. QED
      BY <1>1, <2>1, ZenonT(60) DEF Asked
  <1>2. Head(v).client = c => 1 \in Of(v, c) /\ v[1] = Head(v)
    BY TailAt DEF Of
  <1>3. s.pc = "send" => w = <<>> /\ Of(Tail(v), c) = {}
    <2>. SUFFICES ASSUME s.pc = "send" PROVE w = <<>> /\ Of(Tail(v), c) = {}
      OBVIOUS
    <2>1. q = <<>> /\ Of(v, c) = {}
      BY DEF Waiting
    <2>2. Head(v).client # c
      BY <1>2, <2>1
    <2>. QED
      BY <2>1, <2>2, PassOf
  <1>4. s.pc = "wait" => Only(w, {"retval"}) /\ Asked(Tail(v), c, {"change"})
    <2>. SUFFICES ASSUME s.pc = "wait" PROVE Only(w, {"retval"}) /\ Asked(Tail(v), c, {"change"})
      OBVIOUS
    <2>1. Only(q, {"retval"}) /\ Asked(v, c, {"change"})
      BY DEF Waiting
    <2>2. Head(v).client = c => Only(rs, {"retval"})
      BY <1>2, <2>1 DEF Asked
    <2>3. Only(w, {"retval"})
      <3>1. CASE Head(v).client # c
        BY <2>1, <3>1
      <3>2. CASE Head(v).client = c
        <4>1. w = q \o rs /\ Only(rs, {"retval"})
          BY <2>2, <3>2
        <4>. QED
          BY <2>1, <4>1, ConcatAt DEF Only
      <3>. QED
        BY <3>1, <3>2
    <2>. QED
      BY <1>1, <2>1, <2>3
  <1>5. ASSUME NEW A, NEW B, NEW RA, NEW RB, Split(q, v, c, A, B, RA, RB),
               "ping" \notin RA, "ping" \notin RB,
               Head(v).kind \in RA => Only(rs, A), Head(v).kind \in RB => Only(rs, B)
        PROVE  Split(w, Tail(v), c, A, B, RA, RB)
    <2>1. CASE Head(v).client # c
      BY <1>5, <2>1, PassSplit
    <2>2. CASE Head(v).client = c
      <3>1. Head(v).kind = "ping" => rs = <<Reply("pong", 0)>>
        BY <1>0, DetailsOf
      <3>. QED
        BY <1>5, <2>2, <3>1, ServeSplit, ZenonT(60)
    <2>. QED
      BY <2>1, <2>2
  <1>6. /\ Head(v).kind = "interfaces" => Only(rs, {"interface"})
        /\ Head(v).kind = "addresses" => Only(rs, {"address"})
    BY <1>0, DetailsOf
  <1>7. s.pc = "links" => Split(w, Tail(v), c, {"interface"}, {"address"}, {"interfaces"}, {"addresses"})
    <2>1. /\ Head(v).kind \in {"interfaces"} => Only(rs, {"interface"})
          /\ Head(v).kind \in {"addresses"} => Only(rs, {"address"})
          /\ "ping" \notin {"interfaces"} /\ "ping" \notin {"addresses"}
      BY <1>6
    <2>2. s.pc = "links" => Split(q, v, c, {"interface"}, {"address"}, {"interfaces"}, {"addresses"})
      BY DEF Waiting
    <2>. QED
      BY <1>5, <2>1, <2>2, ZenonT(60)
  <1>8. s.pc = "addrs" /\ ~s.late => Split(w, Tail(v), c, {"address"}, {}, {"addresses"}, {})
    <2>1. /\ Head(v).kind \in {"addresses"} => Only(rs, {"address"})
          /\ Head(v).kind \in {} => Only(rs, {})
          /\ "ping" \notin {"addresses"} /\ "ping" \notin {}
      BY <1>6
    <2>2. s.pc = "addrs" /\ ~s.late => Split(q, v, c, {"address"}, {}, {"addresses"}, {})
      BY DEF Waiting
    <2>. QED
      BY <1>5, <2>1, <2>2
  <1>9. /\ \A x \in Iface : LinkComes(q, v, c, x) => LinkComes(w, Tail(v), c, x)
        /\ \A x \in HasAddr : AddressComes(q, v, c, x) => AddressComes(w, Tail(v), c, x)
    BY ServeComes, ZenonT(60)
  <1>. QED
    BY <1>3, <1>4, <1>7, <1>8, <1>9 DEF Waiting

-----------------------------------------------------------------------------
(* One thread moves                                                         *)

\* At most one thread has a session.
LEMMA OneBusy ==
  ASSUME IInv, NEW t \in Thread, NEW u \in Thread, Busy(t), Busy(u)
  PROVE  t = u
  BY DEF IInv, Numbered

\* A thread without a session waits for nothing.
LEMMA IdleWaits ==
  ASSUME NEW s, s.pc = "idle", NEW q, NEW v, NEW c
  PROVE  Waiting(s, q, v, c)
  BY DEF Waiting

\* Thread t becomes s; a thread that is busy meanwhile is not disturbed.
LEMMA ThreadStep ==
  ASSUME IInv, NEW t \in Thread, NEW s \in Threads, th' = [th EXCEPT ![t] = s],
         client' \in 0 .. MaxCommands, rx' \in BOOLEAN, count' \in 0 .. MaxCommands,
         toVpp' \in Seq(Requests), queue' \in Seq(Replies), applied' = applied,
         client' <= count',
         \A i \in DOMAIN toVpp' : toVpp'[i].client # 0 /\ toVpp'[i].client <= count',
         \/ count' = count /\ s.n = th[t].n
         \/ count' = count + 1 /\ s.n = count + 1,
         Told(s, applied), Waiting(s, queue', toVpp', client'),
         client' # 0 => OkIsReal',
         s.pc # "idle" => /\ s.n = client' /\ client' # 0 /\ s.result = "none"
                          /\ s.cmd \in Command[t] \ {"open", "close"}
                          /\ rx' => s.cmd = "loopback",
         client' # 0 /\ ~rx' => s.pc # "idle" \/ \E u \in Thread \ {t} : Busy(u),
         \A u \in Thread \ {t} : Busy(u) =>
           client' = client /\ rx' = rx /\ queue' = queue /\ toVpp' = toVpp
  PROVE  IInv'
  <1>1. th'[t] = s /\ \A u \in Thread \ {t} : th'[u] = th[u]
    BY DEF IInv, Types
  <1>2. Types'
    BY DEF IInv, Types
  <1>3. Numbered'
    <2>0. count \in Nat /\ count' \in Nat /\ count <= count' /\ s.n <= count'
          /\ \A u \in Thread : th[u].n \in Nat /\ th[u].n <= count
      <3>1. \A r \in Threads : r.n \in 0 .. MaxCommands
        BY ZenonT(60) DEF Threads
      <3>2. count \in 0 .. MaxCommands /\ MaxCommands \in Nat /\ \A u \in Thread : th[u] \in Threads
        BY BoundAssumption DEF IInv, Types
      <3>3. \A u \in Thread : th[u].n \in Nat
        BY <3>1, <3>2
      <3>4. \A u \in Thread : th[u].n <= count
        BY ZenonT(60) DEF IInv, Numbered
      <3>5. count \in Nat /\ count' \in Nat /\ s.n <= count'
        BY <3>2, <3>3, <3>4
      <3>. QED
        BY <3>3, <3>4, <3>5
    <2>1. \A u \in Thread : th'[u].n <= count'
      BY <1>1, <2>0
    <2>2. \A u, w \in Thread : th'[u].n = th'[w].n /\ th'[u].n # 0 => u = w
      <3>0. \A u, w \in Thread : th[u].n = th[w].n /\ th[u].n # 0 => u = w
        BY Zenon DEF IInv, Numbered
      <3>1. ASSUME NEW u \in Thread \ {t}, th[u].n # 0 PROVE th[u].n # s.n
        <4>1. CASE s.n = th[t].n
          BY <3>0, <3>1, <4>1, Zenon
        <4>2. CASE s.n = count + 1
          BY <2>0, <4>2
        <4>. QED
          BY <4>1, <4>2, Zenon
      <3>2. SUFFICES ASSUME NEW u \in Thread, NEW w \in Thread, th'[u].n = th'[w].n, th'[u].n # 0
                     PROVE  u = w
        BY Zenon
      <3>3. CASE u = t /\ w # t
        <4>1. th'[u] = s /\ th'[w] = th[w] /\ w \in Thread \ {t}
          BY <1>1, <3>3, Zenon
        <4>. QED
          BY <3>1, <3>2, <4>1, Zenon
      <3>4. CASE u # t /\ w = t
        <4>1. th'[w] = s /\ th'[u] = th[u] /\ u \in Thread \ {t}
          BY <1>1, <3>4, Zenon
        <4>. QED
          BY <3>1, <3>2, <4>1, Zenon
      <3>5. CASE u # t /\ w # t
        <4>1. th'[u] = th[u] /\ th'[w] = th[w]
          BY <1>1, <3>5, Zenon
        <4>. QED
          BY <3>0, <3>2, <4>1, Zenon
      <3>. QED
        BY <3>3, <3>4, <3>5, Zenon
    <2>3. ASSUME NEW u \in Thread, th'[u].pc # "idle"
          PROVE  /\ th'[u].n = client' /\ client' # 0 /\ th'[u].result = "none"
                 /\ th'[u].cmd \in Command[u] \ {"open", "close"}
                 /\ rx' => th'[u].cmd = "loopback"
      <3>1. CASE u = t
        BY <1>1, <2>3, <3>1, ZenonT(60)
      <3>2. CASE u # t
        <4>1. th'[u] = th[u] /\ Busy(u) /\ client' = client /\ rx' = rx
          BY <1>1, <2>3, <3>2 DEF Busy
        <4>. QED
          BY <4>1, ZenonT(60) DEF IInv, Numbered
      <3>. QED
        BY <3>1, <3>2, ZenonT(60)
    <2>4. client' # 0 /\ ~rx' => \E u \in Thread : th'[u].pc # "idle"
      BY <1>1 DEF Busy
    <2>. QED
      BY <2>1, <2>2, <2>3, <2>4, ZenonT(60) DEF Numbered, Busy
  <1>4. \A u \in Thread : Told(th'[u], applied')
    BY <1>1, ZenonT(60) DEF IInv
  <1>5. ASSUME NEW u \in Thread PROVE Waiting(th'[u], queue', toVpp', client')
    <2>1. CASE u = t
      BY <1>1, <2>1, ZenonT(60)
    <2>2. CASE u # t /\ Busy(u)
      BY <1>1, <2>2, ZenonT(60) DEF IInv
    <2>3. CASE u # t /\ ~Busy(u)
      BY <1>1, <2>3, IdleWaits, ZenonT(60) DEF Busy
    <2>. QED
      BY <2>1, <2>2, <2>3, ZenonT(60)
  <1>. QED
    BY <1>2, <1>3, <1>4, <1>5 DEF IInv

\* A thread that goes on with its command.
LEMMA Continues ==
  ASSUME IInv, NEW t \in Thread, Busy(t), NEW s \in Threads, th' = [th EXCEPT ![t] = s],
         s.pc # "idle", s.n = th[t].n, s.cmd = th[t].cmd, s.result = th[t].result,
         client' = client, rx' = rx, applied' = applied, count' = count,
         toVpp' \in Seq(Requests), queue' \in Seq(Replies),
         \A i \in DOMAIN toVpp' : toVpp'[i].client # 0 /\ toVpp'[i].client <= count,
         Has(queue', "retval", "ok") => Has(queue, "retval", "ok"),
         Told(s, applied), Waiting(s, queue', toVpp', client)
  PROVE  IInv'
  <1>1. /\ th[t].n = client /\ client # 0 /\ th[t].result = "none"
        /\ th[t].cmd \in Command[t] \ {"open", "close"}
        /\ rx => th[t].cmd = "loopback"
    BY ZenonT(60) DEF IInv, Numbered
  <1>2. OkIsReal'
    BY <1>1, ZenonT(60) DEF IInv, OkIsReal
  <1>3. \A u \in Thread \ {t} : ~Busy(u)
    BY OneBusy, ZenonT(60)
  <1>4. client \in 0 .. MaxCommands /\ rx \in BOOLEAN /\ count \in 0 .. MaxCommands /\ client <= count
    BY ZenonT(60) DEF IInv, Types, Numbered
  <1>. QED
    BY <1>1, <1>2, <1>3, <1>4, ThreadStep, ZenonT(60)

\* A thread whose command is over.
LEMMA Ends ==
  ASSUME IInv, NEW t \in Thread, Busy(t), NEW s \in Threads, th' = [th EXCEPT ![t] = s],
         s.pc = "idle", s.n = th[t].n, Disconnect,
         toVpp' = toVpp, applied' = applied, count' = count, Told(s, applied)
  PROVE  IInv'
  <1>1. client' = 0 /\ rx' = FALSE /\ queue' = <<>>
    BY DEF Disconnect
  <1>2. \A u \in Thread \ {t} : ~Busy(u)
    BY OneBusy
  <1>3. /\ count \in 0 .. MaxCommands /\ toVpp \in Seq(Requests) /\ MaxCommands \in Nat
        /\ \A i \in DOMAIN toVpp : toVpp[i].client # 0 /\ toVpp[i].client <= count
    BY BoundAssumption, ZenonT(60) DEF IInv, Types, Numbered
  <1>4. Waiting(s, queue', toVpp', client')
    BY IdleWaits
  <1>5. client' \in 0 .. MaxCommands /\ queue' \in Seq(Replies) /\ client' <= count'
    BY <1>1, <1>3
  <1>6. rx' \in BOOLEAN
    BY <1>1, Zenon
  <1>. QED
    BY <1>1, <1>2, <1>3, <1>4, <1>5, <1>6, ThreadStep, ZenonT(60)

\* Reading a return value keeps the invariant.
LEMMA RetvalStep ==
  ASSUME IInv, NEW t \in Thread, Retval(t)
  PROVE  IInv'
  <1>. DEFINE s == [th[t] EXCEPT !.pc = "idle", !.result = Replied(th[t].cmd, Head(queue).arg)]
  <1>0. th \in [Thread -> Threads] /\ queue \in Seq(Replies) /\ queue # <<>> /\ th[t].pc = "wait"
    BY DEF IInv, Types, Retval
  <1>2. Busy(t)
    BY <1>0 DEF Busy
  <1>3. Only(queue, {"retval"}) /\ th[t].cmd # "interface"
    BY <1>0, ZenonT(60) DEF IInv, Waiting
  <1>4. Head(queue) \in Replies /\ Head(queue).kind = "retval" /\ Head(queue) = queue[1] /\ 1 \in DOMAIN queue
    BY <1>0, <1>3, TailAt DEF Only
  <1>1. th' = [th EXCEPT ![t] = s]
    <2>1. PICK v \in {"ok", "failed"} : IsRetval(Head(queue), v) /\ Report(t, Replied(th[t].cmd, v))
      BY DEF Retval
    <2>2. v = Head(queue).arg
      BY <1>4, <2>1 DEF IsRetval
    <2>. QED
      BY <1>0, <2>1, <2>2, ZenonT(60) DEF Report
  <1>5. Head(queue).arg \in {"ok", "failed"}
        /\ (Head(queue).arg = "ok" => Head(queue) = Reply("retval", "ok"))
    BY <1>4 DEF Replies, Reply
  <1>6. Replied(th[t].cmd, Head(queue).arg) \in {"ok", "failed"}
    BY <1>5 DEF Replied
  <1>7. s \in Threads
    BY <1>0, <1>6, ZenonT(60) DEF Threads
  <1>8. Told(s, applied)
    <2>1. s.cmd = th[t].cmd /\ s.n = th[t].n /\ s.links = th[t].links /\ s.addrs = th[t].addrs
          /\ s.late = th[t].late /\ s.result = Replied(th[t].cmd, Head(queue).arg)
      BY <1>0 DEF Threads
    <2>2. s.result = "ok" /\ s.cmd \in {"set", "loopback"} => s.n \in applied
      <3>. SUFFICES ASSUME s.result = "ok", s.cmd \in {"set", "loopback"} PROVE s.n \in applied
        OBVIOUS
      <3>1. Head(queue).arg = "ok"
        BY <2>1 DEF Replied
      <3>2. Has(queue, "retval", "ok")
        BY <1>4, <1>5, <3>1 DEF Has
      <3>3. client # 0 /\ th[t].n = client
        BY <1>2 DEF IInv, Numbered
      <3>. QED
        BY <2>1, <3>2, <3>3 DEF IInv, OkIsReal
    <2>3. Told(th[t], applied)
      BY DEF IInv
    <2>. QED
      BY <1>3, <2>1, <2>2, <2>3 DEF Told
  <1>9. s.pc = "idle" /\ s.n = th[t].n
    BY <1>0 DEF Threads
  <1>10. Disconnect /\ toVpp' = toVpp /\ applied' = applied /\ count' = count
    BY DEF Retval
  <1>. HIDE DEF s
  <1>. QED
    BY <1>1, <1>2, <1>7, <1>8, <1>9, <1>10, Ends, ZenonT(60)

\* Reading an entry of a list keeps the invariant.
LEMMA ListEntryStep ==
  ASSUME IInv, NEW t \in Thread, ListEntry(t)
  PROVE  IInv'
  <1>0. /\ th \in [Thread -> Threads] /\ queue \in Seq(Replies) /\ queue # <<>> /\ th[t].pc = "list"
        /\ toVpp \in Seq(Requests) /\ Busy(t) /\ th[t].cmd = "list" /\ Told(th[t], applied)
    BY ZenonT(60) DEF IInv, Types, ListEntry, Busy, Waiting
  <1>1. CASE Head(queue).kind = "pong"
    <2>. DEFINE s == [th[t] EXCEPT !.pc = "idle", !.result = "ok"]
    <2>1. th' = [th EXCEPT ![t] = s]
      BY <1>0, <1>1, ZenonT(60) DEF ListEntry, Report
    <2>2. s \in Threads
      BY <1>0, ZenonT(60) DEF Threads
    <2>3. s.pc = "idle" /\ s.cmd = th[t].cmd /\ s.n = th[t].n /\ s.links = th[t].links
          /\ s.addrs = th[t].addrs /\ s.late = th[t].late /\ s.result = "ok"
      BY <1>0 DEF Threads
    <2>4. Told(s, applied)
      BY <1>0, <2>3 DEF Told
    <2>5. Disconnect /\ toVpp' = toVpp /\ applied' = applied /\ count' = count
      BY <1>1 DEF ListEntry
    <2>. HIDE DEF s
    <2>. QED
      BY <1>0, <2>1, <2>2, <2>3, <2>4, <2>5, Ends, ZenonT(60)
  <1>2. CASE Head(queue).kind # "pong"
    <2>1. /\ queue' = Tail(queue) /\ client' = client /\ rx' = rx /\ toVpp' = toVpp
          /\ applied' = applied /\ count' = count /\ th' = th
      BY <1>2 DEF ListEntry
    <2>2. th' = [th EXCEPT ![t] = th[t]] /\ th[t] \in Threads
      BY <1>0, <2>1
    <2>3. queue' \in Seq(Replies) /\ (Has(queue', "retval", "ok") => Has(queue, "retval", "ok"))
      BY <1>0, <2>1, TailAt DEF Has
    <2>4. Waiting(th[t], queue', toVpp', client)
      BY <1>0 DEF Waiting
    <2>5. \A i \in DOMAIN toVpp' : toVpp'[i].client # 0 /\ toVpp'[i].client <= count
      BY <2>1, ZenonT(60) DEF IInv, Numbered
    <2>. QED
      BY <1>0, <2>1, <2>2, <2>3, <2>4, <2>5, Continues, ZenonT(60)
  <1>. QED
    BY <1>1, <1>2

\* Giving up after the timeout keeps the invariant.
LEMMA TimeoutStep ==
  ASSUME IInv, NEW t \in Thread, Timeout(t)
  PROVE  IInv'
  <1>. DEFINE s == [th[t] EXCEPT !.pc = "idle", !.late = TRUE, !.result = TimedOut(th[t].cmd)]
  <1>0. th \in [Thread -> Threads] /\ th[t].pc \in {"wait", "list", "addrs"} /\ Busy(t)
    BY DEF IInv, Types, Timeout, Busy
  <1>1. th' = [th EXCEPT ![t] = s]
    BY <1>0, ZenonT(60) DEF Timeout
  <1>2. s \in Threads
    <2>1. TimedOut(th[t].cmd) \in {"ok", "timeout"}
      BY DEF TimedOut
    <2>. QED
      BY <1>0, <2>1, ZenonT(60) DEF Threads
  <1>3. s.pc = "idle" /\ s.cmd = th[t].cmd /\ s.n = th[t].n /\ s.late /\ s.result = TimedOut(th[t].cmd)
    BY <1>0 DEF Threads
  <1>4. Told(s, applied)
    BY <1>3 DEF Told, TimedOut
  <1>5. Disconnect /\ toVpp' = toVpp /\ applied' = applied /\ count' = count
    BY DEF Timeout
  <1>. HIDE DEF s
  <1>. QED
    BY <1>0, <1>1, <1>2, <1>3, <1>4, <1>5, Ends, ZenonT(60)

\* A request of the connection is a request.
LEMMA RequestType ==
  ASSUME client \in Nat, NEW x \in Iface, NEW b \in BOOLEAN
  PROVE  Request("addresses", <<x, b>>) \in Requests
  BY DEF Request, Requests

\* A request without an argument is a request of its connection.
LEMMA PingType ==
  ASSUME client \in Nat, NEW kind \in {"change", "interfaces", "list", "ping"}
  PROVE  Request(kind, 0) \in Requests /\ Request(kind, 0).kind = kind /\ Request(kind, 0).client = client
  BY DEF Request, Requests

\* What a busy thread sends carries its connection.
LEMMA SendNumbered ==
  ASSUME IInv, client # 0, NEW rs \in Seq(Requests), \A i \in DOMAIN rs : rs[i].client = client
  PROVE  /\ toVpp \o rs \in Seq(Requests)
         /\ \A i \in DOMAIN (toVpp \o rs) :
              (toVpp \o rs)[i].client # 0 /\ (toVpp \o rs)[i].client <= count
  <1>1. toVpp \in Seq(Requests) /\ client <= count
        /\ \A i \in DOMAIN toVpp : toVpp[i].client # 0 /\ toVpp[i].client <= count
    BY ZenonT(60) DEF IInv, Types, Numbered
  <1>2. toVpp \o rs \in Seq(Requests)
    BY <1>1
  <1>3. ASSUME NEW i \in DOMAIN (toVpp \o rs)
        PROVE  (toVpp \o rs)[i].client # 0 /\ (toVpp \o rs)[i].client <= count
    <2>1. \/ i \in DOMAIN toVpp /\ (toVpp \o rs)[i] = toVpp[i]
          \/ i - Len(toVpp) \in DOMAIN rs /\ (toVpp \o rs)[i] = rs[i - Len(toVpp)]
      BY <1>1
    <2>. QED
      BY <1>1, <2>1
  <1>. QED
    BY <1>2, <1>3

\* Sending the requests of a command keeps the invariant.
LEMMA SendStep ==
  ASSUME IInv, NEW t \in Thread, Send(t)
  PROVE  IInv'
  <1>0. /\ th \in [Thread -> Threads] /\ th[t].pc = "send" /\ Busy(t) /\ toVpp \in Seq(Requests)
        /\ queue \in Seq(Replies) /\ Told(th[t], applied) /\ client \in Nat
    BY BoundAssumption DEF IInv, Types, Send, Busy
  <1>1. /\ queue = <<>> /\ Of(toVpp, client) = {} /\ th[t].links = <<>> /\ th[t].addrs = <<>>
        /\ ~th[t].late
    BY <1>0, ZenonT(60) DEF IInv, Waiting
  <1>2. client # 0
    BY <1>0, ZenonT(60) DEF IInv, Numbered
  <1>3. /\ queue' = queue /\ client' = client /\ rx' = rx /\ applied' = applied /\ count' = count
    BY DEF Send
  <1>4. ASSUME NEW rs \in Seq(Requests), \A i \in DOMAIN rs : rs[i].client = client,
               toVpp' = toVpp \o rs, NEW pc \in {"links", "list", "wait"},
               th' = [th EXCEPT ![t].pc = pc],
               Waiting([th[t] EXCEPT !.pc = pc], queue, toVpp \o rs, client)
        PROVE  IInv'
    <2>. DEFINE s == [th[t] EXCEPT !.pc = pc]
    <2>1. th' = [th EXCEPT ![t] = s]
      BY <1>0, <1>4
    <2>2. s \in Threads
      BY <1>0, ZenonT(60) DEF Threads
    <2>3. s.pc # "idle" /\ s.cmd = th[t].cmd /\ s.n = th[t].n /\ s.links = th[t].links
          /\ s.addrs = th[t].addrs /\ s.late = th[t].late /\ s.result = th[t].result
      BY <1>0 DEF Threads
    <2>4. Told(s, applied)
      BY <1>0, <2>3 DEF Told, AllLinks, AllAddresses
    <2>5. /\ toVpp' \in Seq(Requests)
          /\ \A i \in DOMAIN toVpp' : toVpp'[i].client # 0 /\ toVpp'[i].client <= count
      BY <1>2, <1>4, SendNumbered
    <2>6. Waiting(s, queue', toVpp', client)
      BY <1>3, <1>4
    <2>7. queue' \in Seq(Replies) /\ (Has(queue', "retval", "ok") => Has(queue, "retval", "ok"))
      BY <1>0, <1>3
    <2>. HIDE DEF s
    <2>. QED
      BY <1>0, <1>3, <2>1, <2>2, <2>3, <2>4, <2>5, <2>6, <2>7, Continues, ZenonT(60)
  <1>5. CASE th[t].cmd = "interface"
    <2>. DEFINE rs == <<Request("interfaces", 0), Request("ping", 0)>>
                s == [th[t] EXCEPT !.pc = "links"]
    <2>1. toVpp' = toVpp \o rs /\ th' = [th EXCEPT ![t].pc = "links"]
      BY <1>5 DEF Send
    <2>2. /\ rs \in Seq(Requests) /\ rs # <<>> /\ \A i \in DOMAIN rs : rs[i].client = client
          /\ rs[Len(rs)].kind = "ping" /\ \A i \in DOMAIN rs : i # Len(rs) => rs[i].kind \in {"interfaces"}
          /\ 1 \in Of(rs, client) /\ rs[1].kind = "interfaces"
      BY <1>0, PingType DEF Of
    <2>3. s.pc = "links" /\ s.cmd = "interface" /\ s.links = <<>> /\ s.addrs = <<>> /\ ~s.late
      BY <1>0, <1>1, <1>5 DEF Threads
    <2>. HIDE DEF rs, s
    <2>4. PingAt(toVpp \o rs, client, {"interfaces"}, {"addresses"})
      BY <1>0, <1>1, <2>2, PingLast, ZenonT(60) DEF Asked
    <2>5. Split(queue, toVpp \o rs, client, {"interface"}, {"address"}, {"interfaces"}, {"addresses"})
      BY <1>1, <2>4 DEF Split, Only
    <2>6. \E i \in Of(toVpp \o rs, client) : (toVpp \o rs)[i].kind = "interfaces"
      <3>1. /\ 1 + Len(toVpp) \in DOMAIN (toVpp \o rs)
            /\ (toVpp \o rs)[1 + Len(toVpp)] = rs[1] /\ rs[1].client = client
        BY <1>0, <2>2, ConcatAt DEF Of
      <3>2. 1 + Len(toVpp) \in Of(toVpp \o rs, client)
        BY <3>1 DEF Of
      <3>. QED
        BY <2>2, <3>1, <3>2
    <2>7. \A x \in Iface : LinkComes(queue, toVpp \o rs, client, x)
      BY <2>6, ZenonT(60) DEF LinkComes
    <2>8. \A x : ~Has(s.links, "interface", x)
      BY <2>3 DEF Has
    <2>9. Waiting(s, queue, toVpp \o rs, client)
      BY <2>3, <2>5, <2>7, <2>8 DEF Waiting
    <2>. QED
      BY <1>4, <2>1, <2>2, <2>9, ZenonT(60) DEF s
  <1>6. CASE th[t].cmd = "list"
    <2>. DEFINE rs == <<Request("list", 0), Request("ping", 0)>>
                s == [th[t] EXCEPT !.pc = "list"]
    <2>1. toVpp' = toVpp \o rs /\ th' = [th EXCEPT ![t].pc = "list"]
      BY <1>6 DEF Send
    <2>2. rs \in Seq(Requests) /\ \A i \in DOMAIN rs : rs[i].client = client
      BY <1>0, PingType
    <2>3. s.pc = "list" /\ s.cmd = "list"
      BY <1>0, <1>6 DEF Threads
    <2>. HIDE DEF rs, s
    <2>4. Waiting(s, queue, toVpp \o rs, client)
      BY <2>3 DEF Waiting
    <2>. QED
      BY <1>4, <2>1, <2>2, <2>4, ZenonT(60) DEF s
  <1>7. CASE th[t].cmd \notin {"interface", "list"}
    <2>. DEFINE rs == <<Request("change", 0)>>
                s == [th[t] EXCEPT !.pc = "wait"]
    <2>1. toVpp' = toVpp \o rs /\ th' = [th EXCEPT ![t].pc = "wait"]
      BY <1>7, ZenonT(60) DEF Send
    <2>2. rs \in Seq(Requests) /\ \A i \in DOMAIN rs : rs[i].client = client /\ rs[i].kind = "change"
      BY <1>0, PingType
    <2>3. s.pc = "wait" /\ s.cmd # "interface"
      BY <1>0, <1>7 DEF Threads
    <2>. HIDE DEF rs, s
    <2>4. Asked(toVpp \o rs, client, {"change"})
      <3>1. \A i \in Of(toVpp \o rs, client) : i \in Of(toVpp, client) \/ (toVpp \o rs)[i].kind = "change"
        BY <1>0, <2>2, ConcatAt DEF Of
      <3>. QED
        BY <1>1, <3>1, ZenonT(60) DEF Asked
    <2>5. Waiting(s, queue, toVpp \o rs, client)
      BY <1>1, <2>3, <2>4 DEF Waiting, Only
    <2>. QED
      BY <1>4, <2>1, <2>2, <2>5, ZenonT(60) DEF s
  <1>. QED
    BY <1>5, <1>6, <1>7

\* A detail names an interface, or one that has an address.
LEMMA ReplyFacts ==
  ASSUME NEW m \in Replies
  PROVE  /\ m.kind = "interface" => m.arg \in Iface /\ m = Reply("interface", m.arg)
         /\ m.kind = "address" => m.arg \in HasAddr /\ m = Reply("address", m.arg)
  BY DEF Replies, Reply

\* Replies are equal only when kind and argument are.
LEMMA ReplyInjective ==
  ASSUME NEW k, NEW l, NEW x, NEW y, Reply(k, x) = Reply(l, y)
  PROVE  k = l /\ x = y
  <1>1. Reply(k, x).kind = k /\ Reply(k, x).arg = x /\ Reply(l, y).kind = l /\ Reply(l, y).arg = y
    BY DEF Reply
  <1>. QED
    BY <1>1

\* A reply of a longer sequence was there before or is the new one.
LEMMA AppendedHas ==
  ASSUME NEW S, NEW s \in Seq(S), NEW m \in S, NEW kind, NEW x, Has(Append(s, m), kind, x)
  PROVE  Has(s, kind, x) \/ m = Reply(kind, x)
  <1>1. PICK i \in DOMAIN Append(s, m) : Append(s, m)[i] = Reply(kind, x)
    BY DEF Has
  <1>2. (i \in DOMAIN s /\ Append(s, m)[i] = s[i]) \/ Append(s, m)[i] = m
    OBVIOUS
  <1>. QED
    BY <1>1, <1>2 DEF Has

\* A sequence of other kinds does not have the reply.
LEMMA OnlyHas ==
  ASSUME NEW s, NEW K, Only(s, K), NEW kind, kind \notin K, NEW x
  PROVE  ~Has(s, kind, x)
  BY DEF Only, Has, Reply

\* An interface is read: its addresses are asked for.
LEMMA LinkReadStep ==
  ASSUME IInv, NEW t \in Thread, Link(t), Head(queue).kind # "pong"
  PROVE  IInv'
  <1>. DEFINE m == Head(queue)
              rs == <<Request("addresses", <<m.arg, FALSE>>), Request("addresses", <<m.arg, TRUE>>)>>
              s == [th[t] EXCEPT !.links = Append(@, m)]
              v == toVpp \o rs
  <1>0. /\ th \in [Thread -> Threads] /\ th[t].pc = "links" /\ Busy(t) /\ toVpp \in Seq(Requests)
        /\ queue \in Seq(Replies) /\ Told(th[t], applied) /\ client \in Nat /\ queue # <<>>
    BY BoundAssumption DEF IInv, Types, Link, Busy
  <1>1. /\ th[t].cmd = "interface" /\ ~th[t].late /\ th[t].addrs = <<>>
        /\ Split(queue, toVpp, client, {"interface"}, {"address"}, {"interfaces"}, {"addresses"})
        /\ \A x \in Iface : Has(th[t].links, "interface", x) \/ LinkComes(queue, toVpp, client, x)
        /\ \A x \in HasAddr : Has(th[t].links, "interface", x[1]) => AddressComes(queue, toVpp, client, x)
    BY <1>0, ZenonT(60) DEF IInv, Waiting
  <1>2. client # 0 /\ th[t].result = "none"
    BY <1>0, ZenonT(60) DEF IInv, Numbered
  <1>3. /\ queue' = Tail(queue) /\ toVpp' = v /\ th' = [th EXCEPT ![t].links = Append(@, m)]
        /\ client' = client /\ rx' = rx /\ applied' = applied /\ count' = count
    BY DEF Link
  <1>4. m.kind = "interface" /\ Split(Tail(queue), toVpp, client, {"interface"}, {"address"}, {"interfaces"}, {"addresses"})
    BY <1>0, <1>1, ReadSplit
  <1>5. m \in Replies /\ m.arg \in Iface /\ m = Reply("interface", m.arg) /\ Tail(queue) \in Seq(Replies)
    BY <1>0, <1>4, TailAt, ReplyFacts, ZenonT(60)
  <1>6. /\ rs \in Seq(Requests) /\ \A i \in DOMAIN rs : rs[i].client = client
        /\ Only(rs, {"addresses"}) /\ rs[1].kind = "addresses" /\ rs[2].kind = "addresses"
        /\ rs[1].arg = <<m.arg, FALSE>> /\ rs[2].arg = <<m.arg, TRUE>> /\ 1 \in DOMAIN rs /\ 2 \in DOMAIN rs
    <2>1. /\ Request("addresses", <<m.arg, FALSE>>) \in Requests
          /\ Request("addresses", <<m.arg, TRUE>>) \in Requests
      BY <1>0, <1>5, RequestType, ZenonT(60)
    <2>2. ASSUME NEW x PROVE /\ Request("addresses", x).client = client
                             /\ Request("addresses", x).kind = "addresses"
                             /\ Request("addresses", x).arg = x
      BY DEF Request
    <2>3. /\ DOMAIN rs = {1, 2} /\ rs[1] = Request("addresses", <<m.arg, FALSE>>)
          /\ rs[2] = Request("addresses", <<m.arg, TRUE>>)
      OBVIOUS
    <2>4. rs \in Seq(Requests)
      BY <2>1
    <2>. HIDE DEF rs
    <2>5. Only(rs, {"addresses"})
      BY <2>2, <2>3 DEF Only
    <2>6. \A i \in DOMAIN rs : rs[i].client = client
      BY <2>2, <2>3
    <2>7. 1 \in DOMAIN rs /\ 2 \in DOMAIN rs
      BY <2>3
    <2>8. /\ rs[1].kind = "addresses" /\ rs[2].kind = "addresses"
          /\ rs[1].arg = <<m.arg, FALSE>> /\ rs[2].arg = <<m.arg, TRUE>>
      BY <2>2, <2>3, Zenon
    <2>. QED
      BY <2>4, <2>5, <2>6, <2>7, <2>8, Zenon
  <1>7. th' = [th EXCEPT ![t] = s]
    BY <1>0, <1>3
  <1>8. th[t] \in Threads /\ th[t].links \in Seq(Replies)
    BY <1>0 DEF Threads
  <1>9. Append(th[t].links, m) \in Seq(Replies)
    BY <1>5, <1>8
  <1>10. s \in Threads
    BY <1>8, <1>9, ZenonT(60) DEF Threads
  <1>11. s.pc = "links" /\ s.cmd = "interface" /\ s.n = th[t].n /\ s.links = Append(th[t].links, m)
         /\ s.addrs = <<>> /\ ~s.late /\ s.result = "none"
    BY <1>0, <1>1, <1>2, <1>8 DEF Threads
  <1>. HIDE DEF m, rs, s
  <1>12. Told(s, applied)
    <2>1. Only(th[t].links, {"interface"})
      BY <1>0, <1>1, ZenonT(60) DEF Told
    <2>2. Only(s.links, {"interface"})
      BY <1>4, <1>5, <1>8, <1>11, <2>1, OnlyAppend, SMTT(30)
    <2>3. Only(s.addrs, {"address"})
      BY <1>11 DEF Only
    <2>. QED
      BY <1>11, <2>2, <2>3 DEF Told
  <1>13. Split(Tail(queue), v, client, {"interface"}, {"address"}, {"interfaces"}, {"addresses"})
    BY <1>0, <1>4, <1>6, SendSplit
  <1>14. ASSUME NEW x \in Iface
         PROVE  Has(s.links, "interface", x) \/ LinkComes(Tail(queue), v, client, x)
    <2>1. CASE Has(th[t].links, "interface", x)
      BY <1>5, <1>8, <1>11, <2>1, HasAppend, ZenonT(60)
    <2>2. CASE LinkComes(queue, toVpp, client, x)
      <3>1. Head(queue) = Reply("interface", x) \/ LinkComes(Tail(queue), toVpp, client, x)
        BY <1>0, <2>2, ReadComes
      <3>2. CASE Head(queue) = Reply("interface", x)
        BY <1>5, <1>8, <1>11, <3>2, HasAppend DEF m
      <3>3. CASE LinkComes(Tail(queue), toVpp, client, x)
        BY <1>0, <1>6, <3>3, SendComes, ZenonT(60)
      <3>. QED
        BY <3>1, <3>2, <3>3
    <2>. QED
      BY <1>1, <2>1, <2>2, ZenonT(60)
  <1>15. ASSUME NEW x \in HasAddr, Has(s.links, "interface", x[1])
         PROVE  AddressComes(Tail(queue), v, client, x)
    <2>1. Has(th[t].links, "interface", x[1]) \/ m = Reply("interface", x[1])
      BY <1>5, <1>8, <1>11, <1>15, AppendedHas
    <2>2. CASE Has(th[t].links, "interface", x[1])
      <3>1. AddressComes(queue, toVpp, client, x)
        BY <1>1, <2>2, ZenonT(60)
      <3>2. Head(queue) # Reply("address", x)
        BY <1>4 DEF Reply, m
      <3>3. AddressComes(Tail(queue), toVpp, client, x)
        BY <1>0, <3>1, <3>2, ReadComes
      <3>. QED
        BY <1>0, <1>6, <3>3, SendComes, ZenonT(60)
    <2>3. CASE m = Reply("interface", x[1])
      <3>1. m.arg = x[1]
        BY <1>5, <2>3, ReplyInjective
      <3>2. x = <<m.arg, FALSE>> \/ x = <<m.arg, TRUE>>
        <4>1. x = <<x[1], x[2]>> /\ x[2] \in BOOLEAN
          BY InterfaceAssumption
        <4>2. x[2] = FALSE \/ x[2] = TRUE
          BY <4>1, Zenon
        <4>. QED
          BY <3>1, <4>1, <4>2, ZenonT(60)
      <3>3. PICK j \in DOMAIN rs : rs[j].arg = x /\ rs[j].kind = "addresses" /\ rs[j].client = client
        BY <1>6, <3>2, ZenonT(60)
      <3>4. j + Len(toVpp) \in DOMAIN v /\ v[j + Len(toVpp)] = rs[j]
        <4>1. toVpp \in Seq(Requests) /\ rs \in Seq(Requests)
          BY <1>0, <1>6
        <4>2. \A i \in DOMAIN rs : i + Len(toVpp) \in DOMAIN (toVpp \o rs)
                                   /\ (toVpp \o rs)[i + Len(toVpp)] = rs[i]
          BY <4>1
        <4>. QED
          BY <4>2
      <3>5. j + Len(toVpp) \in Of(v, client)
        BY <3>3, <3>4 DEF Of
      <3>. QED
        BY <3>3, <3>4, <3>5 DEF AddressComes
    <2>. QED
      BY <2>1, <2>2, <2>3
  <1>16. Waiting(s, queue', toVpp', client)
    BY <1>3, <1>11, <1>13, <1>14, <1>15 DEF Waiting
  <1>17. /\ toVpp' \in Seq(Requests)
         /\ \A i \in DOMAIN toVpp' : toVpp'[i].client # 0 /\ toVpp'[i].client <= count
    BY <1>2, <1>3, <1>6, SendNumbered, ZenonT(60)
  <1>18. queue' \in Seq(Replies) /\ (Has(queue', "retval", "ok") => Has(queue, "retval", "ok"))
    BY <1>0, <1>3, TailAt DEF Has
  <1>. HIDE DEF v
  <1>19. s.pc # "idle" /\ s.cmd = th[t].cmd /\ s.result = th[t].result /\ s.n = th[t].n
    BY <1>1, <1>2, <1>11, ZenonT(60)
  <1>. QED
    BY <1>0, <1>3, <1>7, <1>10, <1>12, <1>16, <1>17, <1>18, <1>19, Continues, ZenonT(60)

\* The first pong: every interface has been read, and every address that is
\* not in the queue has been asked for.
LEMMA LinksReadStep ==
  ASSUME IInv, NEW t \in Thread, Link(t), Head(queue).kind = "pong"
  PROVE  IInv'
  <1>. DEFINE rs == <<Request("ping", 0)>>
              s == [th[t] EXCEPT !.pc = "addrs"]
  <1>0. /\ th \in [Thread -> Threads] /\ th[t].pc = "links" /\ Busy(t) /\ toVpp \in Seq(Requests)
        /\ queue \in Seq(Replies) /\ Told(th[t], applied) /\ client \in Nat /\ queue # <<>>
    BY BoundAssumption DEF IInv, Types, Link, Busy
  <1>1. /\ th[t].cmd = "interface" /\ ~th[t].late /\ th[t].addrs = <<>>
        /\ Split(queue, toVpp, client, {"interface"}, {"address"}, {"interfaces"}, {"addresses"})
        /\ \A x \in Iface : Has(th[t].links, "interface", x) \/ LinkComes(queue, toVpp, client, x)
        /\ \A x \in HasAddr : Has(th[t].links, "interface", x[1]) => AddressComes(queue, toVpp, client, x)
    BY <1>0 DEF IInv, Waiting
  <1>2. client # 0 /\ th[t].result = "none"
    BY <1>0, ZenonT(60) DEF IInv, Numbered
  <1>3. /\ queue' = Tail(queue) /\ toVpp' = Append(toVpp, Request("ping", 0))
        /\ th' = [th EXCEPT ![t].pc = "addrs"]
        /\ client' = client /\ rx' = rx /\ applied' = applied /\ count' = count
    BY DEF Link
  <1>4. Only(Tail(queue), {"address"}) /\ Asked(toVpp, client, {"addresses"})
    BY <1>0, <1>1, ReadSplit, ZenonT(60)
  <1>5. /\ rs \in Seq(Requests) /\ rs # <<>> /\ \A i \in DOMAIN rs : rs[i].client = client
        /\ rs[Len(rs)].kind = "ping" /\ \A i \in DOMAIN rs : i # Len(rs) => rs[i].kind \in {"addresses"}
    BY <1>0, PingType
  <1>6. toVpp' = toVpp \o rs
    BY <1>0, <1>3, PingType
  <1>7. th' = [th EXCEPT ![t] = s]
    BY <1>0, <1>3
  <1>8. s \in Threads
    BY <1>0, ZenonT(60) DEF Threads
  <1>9. s.pc = "addrs" /\ s.cmd = "interface" /\ s.n = th[t].n /\ s.links = th[t].links
        /\ s.addrs = <<>> /\ ~s.late /\ s.result = "none"
    BY <1>0, <1>1, <1>2 DEF Threads
  <1>. HIDE DEF rs, s
  <1>10. Told(s, applied)
    BY <1>0, <1>1, <1>9, ZenonT(60) DEF Told
  <1>11. Split(Tail(queue), toVpp', client, {"address"}, {}, {"addresses"}, {})
    <2>1. PingAt(toVpp \o rs, client, {"addresses"}, {})
      BY <1>0, <1>4, <1>5, PingLast, ZenonT(60)
    <2>. QED
      BY <1>4, <1>6, <2>1 DEF Split
  <1>12. ASSUME NEW kind, kind # "pong", NEW x, Has(queue, kind, x) PROVE Has(Tail(queue), kind, x)
    <2>1. Head(queue) # Reply(kind, x)
      BY <1>12 DEF Reply
    <2>. QED
      BY <1>0, <1>12, <2>1, HasTail
  <1>13. AllLinks(s)
    <2>. SUFFICES ASSUME NEW x \in Iface PROVE Has(th[t].links, "interface", x)
      BY <1>9, ZenonT(60) DEF AllLinks
    <2>1. ~Has(queue, "interface", x)
      BY <1>4, <1>12, OnlyHas
    <2>2. ~\E i \in Of(toVpp, client) : toVpp[i].kind = "interfaces"
      BY <1>4 DEF Asked
    <2>. QED
      BY <1>1, <2>1, <2>2, ZenonT(60) DEF LinkComes
  <1>14. ASSUME NEW x \in HasAddr PROVE AddressComes(Tail(queue), toVpp', client, x)
    <2>1. x[1] \in Iface
      BY InterfaceAssumption
    <2>2. AddressComes(queue, toVpp, client, x)
      BY <1>1, <1>9, <1>13, <2>1, ZenonT(60) DEF AllLinks
    <2>3. AddressComes(Tail(queue), toVpp, client, x)
      BY <1>12, <2>2 DEF AddressComes
    <2>. QED
      BY <1>0, <1>5, <1>6, <2>3, SendComes, ZenonT(60)
  <1>15. Waiting(s, queue', toVpp', client)
    BY <1>3, <1>9, <1>11, <1>13, <1>14 DEF Waiting
  <1>16. /\ toVpp' \in Seq(Requests)
         /\ \A i \in DOMAIN toVpp' : toVpp'[i].client # 0 /\ toVpp'[i].client <= count
    BY <1>2, <1>5, <1>6, SendNumbered
  <1>17. queue' \in Seq(Replies) /\ (Has(queue', "retval", "ok") => Has(queue, "retval", "ok"))
    BY <1>0, <1>3, TailAt DEF Has
  <1>18. s.pc # "idle" /\ s.cmd = th[t].cmd /\ s.result = th[t].result /\ s.n = th[t].n
    BY <1>1, <1>2, <1>9, ZenonT(60)
  <1>. QED
    BY <1>0, <1>3, <1>7, <1>8, <1>10, <1>15, <1>16, <1>17, <1>18, Continues, ZenonT(60)

\* Giving up on the interfaces keeps the invariant.
LEMMA TimeoutLinksStep ==
  ASSUME IInv, NEW t \in Thread, TimeoutLinks(t)
  PROVE  IInv'
  <1>. DEFINE rs == <<Request("ping", 0)>>
              s == [th[t] EXCEPT !.pc = "addrs", !.late = TRUE]
  <1>0. /\ th \in [Thread -> Threads] /\ th[t].pc = "links" /\ Busy(t) /\ toVpp \in Seq(Requests)
        /\ queue \in Seq(Replies) /\ client \in Nat
    BY BoundAssumption DEF IInv, Types, TimeoutLinks, Busy
  <1>1. th[t].cmd = "interface"
    BY <1>0 DEF IInv, Waiting
  <1>2. client # 0 /\ th[t].result = "none"
    BY <1>0, ZenonT(60) DEF IInv, Numbered
  <1>3. /\ queue' = queue /\ toVpp' = Append(toVpp, Request("ping", 0))
        /\ th' = [th EXCEPT ![t].pc = "addrs", ![t].late = TRUE]
        /\ client' = client /\ rx' = rx /\ applied' = applied /\ count' = count
    BY DEF TimeoutLinks
  <1>4. rs \in Seq(Requests) /\ \A i \in DOMAIN rs : rs[i].client = client
    BY <1>0, PingType
  <1>5. toVpp' = toVpp \o rs
    BY <1>0, <1>3, PingType
  <1>6. th' = [th EXCEPT ![t] = s]
    BY <1>0, <1>3, ZenonT(60)
  <1>7. s \in Threads
    BY <1>0, ZenonT(60) DEF Threads
  <1>8. s.pc = "addrs" /\ s.cmd = "interface" /\ s.n = th[t].n /\ s.late /\ s.result = "none"
    BY <1>0, <1>1, <1>2 DEF Threads
  <1>. HIDE DEF rs, s
  <1>9. Told(s, applied) /\ Waiting(s, queue', toVpp', client)
    BY <1>8 DEF Told, Waiting
  <1>10. /\ toVpp' \in Seq(Requests)
         /\ \A i \in DOMAIN toVpp' : toVpp'[i].client # 0 /\ toVpp'[i].client <= count
    BY <1>2, <1>4, <1>5, SendNumbered
  <1>11. s.pc # "idle" /\ s.cmd = th[t].cmd /\ s.result = th[t].result /\ s.n = th[t].n
    BY <1>1, <1>2, <1>8
  <1>. QED
    BY <1>0, <1>3, <1>6, <1>7, <1>9, <1>10, <1>11, Continues, ZenonT(60)

\* The addresses, up to the second pong.
LEMMA AddressStep ==
  ASSUME IInv, NEW t \in Thread, Address(t)
  PROVE  IInv'
  <1>. DEFINE m == Head(queue)
  <1>0. /\ th \in [Thread -> Threads] /\ th[t].pc = "addrs" /\ Busy(t) /\ toVpp \in Seq(Requests)
        /\ queue \in Seq(Replies) /\ Told(th[t], applied) /\ queue # <<>>
        /\ m \in Replies /\ Tail(queue) \in Seq(Replies)
    BY TailAt DEF IInv, Types, Address, Busy
  <1>1. /\ th[t].cmd = "interface"
        /\ ~th[t].late => /\ Split(queue, toVpp, client, {"address"}, {}, {"addresses"}, {})
                          /\ AllLinks(th[t])
                          /\ \A x \in HasAddr : Has(th[t].addrs, "address", x)
                                                \/ AddressComes(queue, toVpp, client, x)
    BY <1>0 DEF IInv, Waiting
  <1>2. client # 0 /\ th[t].result = "none"
    BY <1>0, ZenonT(60) DEF IInv, Numbered
  <1>3. CASE m.kind = "pong"
    <2>. DEFINE s == [th[t] EXCEPT !.pc = "idle", !.result = "ok"]
    <2>1. th' = [th EXCEPT ![t] = s]
      BY <1>0, <1>3, ZenonT(60) DEF Address, Report
    <2>2. s \in Threads
      BY <1>0, ZenonT(60) DEF Threads
    <2>3. s.pc = "idle" /\ s.cmd = "interface" /\ s.n = th[t].n /\ s.links = th[t].links
          /\ s.addrs = th[t].addrs /\ s.late = th[t].late /\ s.result = "ok"
      BY <1>0, <1>1 DEF Threads
    <2>4. Disconnect /\ toVpp' = toVpp /\ applied' = applied /\ count' = count
      BY <1>3 DEF Address
    <2>. HIDE DEF s
    <2>5. ASSUME ~th[t].late, NEW x \in HasAddr PROVE Has(th[t].addrs, "address", x)
      <3>1. Only(Tail(queue), {}) /\ Asked(toVpp, client, {})
        BY <1>0, <1>1, <1>3, <2>5, ReadSplit
      <3>2. Head(queue) # Reply("address", x)
        BY <1>3 DEF Reply
      <3>3. ~Has(Tail(queue), "address", x)
        BY <3>1, OnlyHas
      <3>4. ~Has(queue, "address", x)
        BY <1>0, <3>2, <3>3, HasTail
      <3>5. ~AddressComes(queue, toVpp, client, x)
        BY <3>1, <3>4 DEF AddressComes, Asked
      <3>. QED
        BY <1>1, <2>5, <3>5, ZenonT(60)
    <2>6. Told(s, applied)
      BY <1>0, <1>1, <2>3, <2>5, ZenonT(60) DEF Told, AllLinks, AllAddresses
    <2>. QED
      BY <1>0, <2>1, <2>2, <2>3, <2>4, <2>6, Ends, ZenonT(60)
  <1>4. CASE m.kind # "pong"
    <2>. DEFINE s == [th[t] EXCEPT !.addrs = Append(@, m)]
    <2>1. /\ queue' = Tail(queue) /\ client' = client /\ rx' = rx /\ toVpp' = toVpp
          /\ applied' = applied /\ count' = count /\ th' = [th EXCEPT ![t].addrs = Append(@, m)]
      BY <1>4 DEF Address
    <2>2. th' = [th EXCEPT ![t] = s]
      BY <1>0, <2>1
    <2>3. th[t] \in Threads /\ th[t].addrs \in Seq(Replies)
      BY <1>0, ZenonT(60) DEF Threads
    <2>4. Append(th[t].addrs, m) \in Seq(Replies)
      BY <1>0, <2>3
    <2>5. s \in Threads
      BY <2>3, <2>4, ZenonT(60) DEF Threads
    <2>6. s.pc = "addrs" /\ s.cmd = "interface" /\ s.n = th[t].n /\ s.links = th[t].links
          /\ s.addrs = Append(th[t].addrs, m) /\ s.late = th[t].late /\ s.result = "none"
      BY <1>0, <1>1, <1>2, <2>3 DEF Threads
    <2>. HIDE DEF s, m
    <2>7. ASSUME ~th[t].late
          PROVE  /\ m.kind = "address"
                 /\ Split(Tail(queue), toVpp, client, {"address"}, {}, {"addresses"}, {})
      BY <1>0, <1>1, <1>4, <2>7, ReadSplit DEF m
    <2>8. Told(s, applied)
      <3>1. ~th[t].late => Only(s.addrs, {"address"})
        <4>. SUFFICES ASSUME ~th[t].late PROVE Only(Append(th[t].addrs, m), {"address"})
          BY <2>6, Zenon
        <4>1. Only(th[t].addrs, {"address"}) /\ m.kind \in {"address"} /\ m \in Replies
          BY <1>0, <2>7, ZenonT(60) DEF Told, m
        <4>. QED
          BY <2>3, <4>1, OnlyAppend, Zenon
      <3>. QED
        BY <1>0, <2>6, <3>1, ZenonT(60) DEF Told
    <2>9. ASSUME ~th[t].late, NEW x \in HasAddr
          PROVE  Has(s.addrs, "address", x) \/ AddressComes(Tail(queue), toVpp, client, x)
      <3>1. CASE Has(th[t].addrs, "address", x)
        BY <1>0, <2>3, <2>6, <3>1, HasAppend, ZenonT(60)
      <3>2. CASE AddressComes(queue, toVpp, client, x)
        <4>1. m = Reply("address", x) \/ AddressComes(Tail(queue), toVpp, client, x)
          BY <1>0, <3>2, ReadComes DEF m
        <4>. QED
          BY <1>0, <2>3, <2>6, <4>1, HasAppend, ZenonT(60)
      <3>. QED
        BY <1>1, <2>9, <3>1, <3>2, ZenonT(60)
    <2>10. Waiting(s, queue', toVpp', client)
      BY <1>1, <2>1, <2>6, <2>7, <2>9 DEF Waiting, AllLinks
    <2>11. queue' \in Seq(Replies) /\ (Has(queue', "retval", "ok") => Has(queue, "retval", "ok"))
      BY <1>0, <2>1, TailAt DEF Has
    <2>12. \A i \in DOMAIN toVpp' : toVpp'[i].client # 0 /\ toVpp'[i].client <= count
      BY <2>1 DEF IInv, Numbered
    <2>13. s.pc # "idle" /\ s.cmd = th[t].cmd /\ s.result = th[t].result /\ s.n = th[t].n
      BY <1>1, <1>2, <2>6, ZenonT(60)
    <2>. QED
      BY <1>0, <2>1, <2>2, <2>5, <2>8, <2>10, <2>11, <2>12, <2>13, Continues, ZenonT(60)
  <1>. QED
    BY <1>3, <1>4

-----------------------------------------------------------------------------
(* A command starts                                                         *)

\* A thread without a session, field by field.
LEMMA IdleType ==
         /\ Idle \in Threads /\ Idle.pc = "idle" /\ Idle.cmd = "none" /\ Idle.n = 0 /\ Idle.links = <<>>
         /\ Idle.addrs = <<>> /\ Idle.late = FALSE /\ Idle.result = "none"
  <1>1. <<>> \in Seq(Replies) /\ 0 \in 0 .. MaxCommands
    BY BoundAssumption
  <1>. QED
    BY <1>1 DEF Idle, Threads

\* A thread that has collected and returned nothing has told nothing wrong.
LEMMA ToldStart ==
  ASSUME NEW s, s.links = <<>>, s.addrs = <<>>, s.result = "ok" => s.cmd \in {"open", "close"}
  PROVE  Told(s, applied)
  BY DEF Told, Only

\* A command that does not get a connection, and vpe disconnect.
LEMMA Refused ==
  ASSUME NEW c \in Commands, count + 1 \in 0 .. MaxCommands,
         NEW r \in {"ok", "refused", "unreachable"}, r = "ok" => c = "close",
         NEW s, s = [Idle EXCEPT !.cmd = c, !.n = count + 1, !.result = r]
  PROVE  s \in Threads /\ s.pc = "idle" /\ s.n = count + 1 /\ Told(s, applied)
  <1>1. s \in Threads
    BY IdleType, BoundAssumption, ZenonT(60) DEF Threads
  <1>2. s.pc = "idle" /\ s.cmd = c /\ s.n = count + 1 /\ s.result = r /\ s.links = <<>> /\ s.addrs = <<>>
    BY IdleType, BoundAssumption DEF Threads
  <1>. QED
    BY <1>1, <1>2, ToldStart, ZenonT(60)

\* connect_to_vpp keeps the invariant.
LEMMA ConnectStep ==
  ASSUME IInv, NEW t \in Thread, NEW c \in Commands, Connect(t, c)
  PROVE  IInv'
  <1>0. /\ th[t].pc = "idle" /\ c \in Command[t] \ {"close"} /\ count < MaxCommands
        /\ count' = count + 1 /\ toVpp' = toVpp /\ applied' = applied
    BY DEF Connect
  <1>1. /\ count \in Nat /\ MaxCommands \in Nat /\ client \in 0 .. MaxCommands /\ rx \in BOOLEAN
        /\ client <= count /\ toVpp \in Seq(Requests) /\ queue \in Seq(Replies)
        /\ \A i \in DOMAIN toVpp :
             toVpp[i].client \in Nat /\ toVpp[i].client # 0 /\ toVpp[i].client <= count
    <2>1. /\ count \in 0 .. MaxCommands /\ MaxCommands \in Nat /\ client \in 0 .. MaxCommands
          /\ rx \in BOOLEAN /\ client <= count /\ toVpp \in Seq(Requests) /\ queue \in Seq(Replies)
          /\ \A i \in DOMAIN toVpp : toVpp[i].client # 0 /\ toVpp[i].client <= count
      BY BoundAssumption, ZenonT(60) DEF IInv, Types, Numbered
    <2>2. \A r \in Requests : r.client \in Nat
      BY DEF Requests
    <2>. QED
      BY <2>1, <2>2
  <1>2. count + 1 \in 0 .. MaxCommands /\ client <= count + 1
    BY <1>0, <1>1
  <1>3. \A i \in DOMAIN toVpp : toVpp[i].client # 0 /\ toVpp[i].client <= count + 1
    BY <1>1
  <1>4. ASSUME NEW r \in {"refused", "unreachable"},
               th' = [th EXCEPT ![t] = [Idle EXCEPT !.cmd = c, !.n = count + 1, !.result = r]],
               client' = client, rx' = rx, queue' = queue
        PROVE  IInv'
    <2>. DEFINE s == [Idle EXCEPT !.cmd = c, !.n = count + 1, !.result = r]
    <2>1. th' = [th EXCEPT ![t] = s]
      BY <1>4
    <2>2. s \in Threads /\ s.pc = "idle" /\ s.n = count + 1 /\ Told(s, applied)
      BY <1>2, Refused, ZenonT(60)
    <2>. HIDE DEF s
    <2>3. Waiting(s, queue', toVpp', client')
      BY <2>2, IdleWaits
    <2>4. client' # 0 => OkIsReal'
      BY <1>0, <1>4 DEF IInv, OkIsReal
    <2>5. client # 0 /\ ~rx => \E u \in Thread \ {t} : Busy(u)
      BY <1>0, ZenonT(60) DEF IInv, Numbered, Busy
    <2>. QED
      BY <1>0, <1>1, <1>2, <1>3, <1>4, <2>1, <2>2, <2>3, <2>4, <2>5, ThreadStep, ZenonT(60)
  <1>5. ASSUME client = 0, client' = count + 1, rx' = (c \in {"loopback", "open"}), queue' = <<>>,
               th' = [th EXCEPT ![t] = [Idle EXCEPT !.cmd = c, !.n = count + 1,
                                          !.pc = IF c = "open" THEN "idle" ELSE "send",
                                          !.result = IF c = "open" THEN "ok" ELSE "none"]]
        PROVE  IInv'
    <2>. DEFINE pc == IF c = "open" THEN "idle" ELSE "send"
                r == IF c = "open" THEN "ok" ELSE "none"
                s == [Idle EXCEPT !.cmd = c, !.n = count + 1, !.pc = pc, !.result = r]
    <2>1. th' = [th EXCEPT ![t] = s]
      BY <1>5
    <2>2. pc \in {"idle", "send"} /\ r \in {"none", "ok"} /\ (r = "ok" => c = "open")
      OBVIOUS
    <2>3. /\ s \in Threads /\ s.pc = pc /\ s.cmd = c /\ s.n = count + 1 /\ s.result = r
          /\ s.links = <<>> /\ s.addrs = <<>> /\ s.late = FALSE /\ Told(s, applied)
      <3>. HIDE DEF pc, r
      <3>1. s \in Threads
        BY <1>2, <2>2, IdleType, ZenonT(60) DEF Threads
      <3>2. /\ s.pc = pc /\ s.cmd = c /\ s.n = count + 1 /\ s.result = r /\ s.links = <<>> /\ s.addrs = <<>>
            /\ s.late = FALSE
        BY IdleType DEF Threads
      <3>. HIDE DEF s
      <3>. QED
        BY <2>2, <3>1, <3>2, ToldStart
    <2>. HIDE DEF s
    <2>4. s.pc # "idle" => s.pc = "send" /\ s.result = "none" /\ c # "open"
      BY <2>3
    <2>5. c # "open" => s.pc # "idle"
      BY <2>3
    <2>. HIDE DEF pc, r
    <2>6. Of(toVpp, count + 1) = {}
      BY <1>1 DEF Of
    <2>7. Waiting(s, queue', toVpp', client')
      BY <1>0, <1>5, <2>3, <2>4, <2>6 DEF Waiting
    <2>8. OkIsReal'
      BY <1>5 DEF OkIsReal, Has
    <2>9. rx' \in BOOLEAN /\ (~rx' => c # "open") /\ (rx' /\ c # "open" => c = "loopback")
      <3>1. rx' \in BOOLEAN
        <4>1. (c \in {"loopback", "open"}) \in BOOLEAN
          OBVIOUS
        <4>. QED
          BY <1>5, <4>1, Zenon
      <3>2. c \in {"loopback", "open"} <=> c = "loopback" \/ c = "open"
        OBVIOUS
      <3>3. rx' <=> c \in {"loopback", "open"}
        BY <1>5, Zenon
      <3>. QED
        BY <3>1, <3>2, <3>3, Zenon
    <2>10. client' \in 0 .. MaxCommands /\ client' <= count' /\ client' # 0 /\ queue' \in Seq(Replies)
      BY <1>0, <1>1, <1>2, <1>5
    <2>11. \A u \in Thread : ~Busy(u)
      BY <1>5 DEF IInv, Numbered
    <2>12. s.pc # "idle" => /\ s.n = client' /\ client' # 0 /\ s.result = "none"
                            /\ s.cmd \in Command[t] \ {"open", "close"}
                            /\ rx' => s.cmd = "loopback"
      BY <1>0, <1>5, <2>3, <2>4, <2>9, <2>10, Zenon
    <2>13. client' # 0 /\ ~rx' => s.pc # "idle"
      BY <2>5, <2>9, Zenon
    <2>. QED
      BY <1>0, <1>1, <1>2, <1>3, <2>1, <2>3, <2>7, <2>8, <2>9, <2>10, <2>11, <2>12, <2>13, ThreadStep, ZenonT(60)
  <1>6. \/ \E r \in {"refused", "unreachable"} :
             /\ th' = [th EXCEPT ![t] = [Idle EXCEPT !.cmd = c, !.n = count + 1, !.result = r]]
             /\ client' = client /\ rx' = rx /\ queue' = queue
        \/ /\ client = 0 /\ client' = count + 1 /\ rx' = (c \in {"loopback", "open"}) /\ queue' = <<>>
           /\ th' = [th EXCEPT ![t] = [Idle EXCEPT !.cmd = c, !.n = count + 1,
                                          !.pc = IF c = "open" THEN "idle" ELSE "send",
                                          !.result = IF c = "open" THEN "ok" ELSE "none"]]
    BY Zenon DEF Connect
  <1>. QED
    BY <1>4, <1>5, <1>6

\* vpe disconnect keeps the invariant when it takes nobody's connection away.
LEMMA CloseStep ==
  ASSUME IInv, NEW t \in Thread, Close(t), ~cut'
  PROVE  IInv'
  <1>. DEFINE s == [Idle EXCEPT !.cmd = "close", !.n = count + 1, !.result = "ok"]
  <1>0. /\ th[t].pc = "idle" /\ "close" \in Command[t] /\ count < MaxCommands
        /\ count' = count + 1 /\ toVpp' = toVpp /\ applied' = applied
        /\ client' = 0 /\ rx' = FALSE /\ queue' = <<>>
    BY DEF Close, Disconnect
  <1>1. /\ count \in 0 .. MaxCommands /\ MaxCommands \in Nat /\ toVpp \in Seq(Requests)
        /\ \A i \in DOMAIN toVpp : toVpp[i].client # 0 /\ toVpp[i].client <= count
    BY BoundAssumption, ZenonT(60) DEF IInv, Types, Numbered
  <1>2. \A i \in DOMAIN toVpp : toVpp[i].client # 0 /\ toVpp[i].client <= count + 1
    <2>1. \A r \in Requests : r.client \in Nat
      BY DEF Requests
    <2>. QED
      BY <1>1, <2>1
  <1>3. th' = [th EXCEPT ![t] = s]
    BY DEF Close
  <1>4. count + 1 \in 0 .. MaxCommands /\ "close" \in Commands
    BY <1>0, <1>1 DEF Commands
  <1>5. s \in Threads /\ s.pc = "idle" /\ s.n = count + 1 /\ Told(s, applied)
    BY <1>4, Refused, ZenonT(60)
  <1>. HIDE DEF s
  <1>6. Waiting(s, queue', toVpp', client')
    BY <1>5, IdleWaits
  <1>7. ASSUME NEW u \in Thread, Busy(u) PROVE FALSE
    BY <1>7, Zenon DEF Close, InCommand, Busy
  <1>8. client' \in 0 .. MaxCommands /\ queue' \in Seq(Replies) /\ client' <= count'
    BY <1>0, <1>1
  <1>9. rx' \in BOOLEAN
    BY <1>0, Zenon
  <1>. QED
    BY <1>0, <1>1, <1>2, <1>3, <1>4, <1>5, <1>6, <1>7, <1>8, <1>9, ThreadStep, ZenonT(60)

-----------------------------------------------------------------------------
(* VPP and the rx pthread                                                   *)

\* A reply of a concatenation is one of its parts'.
LEMMA ConcatHas ==
  ASSUME NEW S, NEW s \in Seq(S), NEW r \in Seq(S), NEW kind, NEW x, Has(s \o r, kind, x)
  PROVE  Has(s, kind, x) \/ Has(r, kind, x)
  <1>1. PICK i \in DOMAIN (s \o r) : (s \o r)[i] = Reply(kind, x)
    BY DEF Has
  <1>2. (i \in DOMAIN s /\ (s \o r)[i] = s[i]) \/ (i - Len(s) \in DOMAIN r /\ (s \o r)[i] = r[i - Len(s)])
    BY ConcatAt
  <1>. QED
    BY <1>1, <1>2 DEF Has

\* VPP serving a request keeps the invariant.
LEMMA ServeStep ==
  ASSUME IInv, Serve
  PROVE  IInv'
  <1>. DEFINE r == Head(toVpp)
  <1>0. /\ toVpp # <<>> /\ toVpp \in Seq(Requests) /\ queue \in Seq(Replies) /\ r \in Requests
        /\ toVpp' = Tail(toVpp) /\ toVpp' \in Seq(Requests) /\ r = toVpp[1] /\ 1 \in DOMAIN toVpp
        /\ client' = client /\ rx' = rx /\ count' = count /\ th' = th
    BY TailAt DEF IInv, Types, Serve
  <1>1. r.client \in 1 .. MaxCommands
    <2>1. r.client # 0 /\ r.client <= count /\ count \in 0 .. MaxCommands /\ MaxCommands \in Nat
      BY <1>0, BoundAssumption, ZenonT(60) DEF IInv, Types, Numbered
    <2>2. r.client \in Nat
      BY <1>0 DEF Requests
    <2>. QED
      BY <2>1, <2>2
  <1>2. \E rs \in Seq(Replies) :
          /\ r.kind # "change" => rs = Details(r)
          /\ r.kind = "change" => Only(rs, {"retval"})
          /\ queue' = IF r.client = client THEN queue \o rs ELSE queue
          /\ applied' = applied \/ applied' = applied \cup {r.client}
          /\ Has(rs, "retval", "ok") => r.client \in applied'
    <2>1. CASE r.kind = "change" /\ applied' = applied \cup {r.client} /\ Answer(<<Reply("retval", "ok")>>)
      <3>1. Reply("retval", "ok") \in Replies /\ Reply("retval", "ok").kind = "retval"
        BY DEF Reply, Replies
      <3>2. <<Reply("retval", "ok")>> \in Seq(Replies) /\ Only(<<Reply("retval", "ok")>>, {"retval"})
        BY <3>1 DEF Only
      <3>. QED
        BY <2>1, <3>2, ZenonT(60) DEF Answer
    <2>2. CASE r.kind = "change" /\ applied' = applied /\ Answer(<<Reply("retval", "failed")>>)
      <3>1. /\ Reply("retval", "failed") \in Replies /\ Reply("retval", "failed").kind = "retval"
            /\ Reply("retval", "failed") # Reply("retval", "ok")
        BY DEF Reply, Replies
      <3>2. /\ <<Reply("retval", "failed")>> \in Seq(Replies)
            /\ Only(<<Reply("retval", "failed")>>, {"retval"})
            /\ ~Has(<<Reply("retval", "failed")>>, "retval", "ok")
        BY <3>1 DEF Only, Has
      <3>. QED
        BY <2>2, <3>2, ZenonT(60) DEF Answer
    <2>3. CASE r.kind # "change" /\ Answer(Details(r)) /\ applied' = applied
      <3>1. /\ Details(r) \in Seq(Replies)
            /\ \/ Only(Details(r), {"interface"}) \/ Only(Details(r), {"address"})
               \/ Only(Details(r), {"entry"}) \/ Details(r) = <<Reply("pong", 0)>>
        <4>1. r.kind \in {"interfaces", "addresses", "list", "ping"}
          BY <1>0, <2>3 DEF Requests
        <4>. QED
          BY <1>0, <4>1, DetailsOf
      <3>2. ~Has(Details(r), "retval", "ok")
        <4>1. Reply("pong", 0).kind = "pong"
          BY DEF Reply
        <4>2. Only(<<Reply("pong", 0)>>, {"pong"})
          BY <4>1 DEF Only
        <4>3. \E k \in {"interface", "address", "entry", "pong"} : Only(Details(r), {k})
          BY <3>1, <4>2
        <4>. QED
          BY <4>3, OnlyHas
      <3>. QED
        BY <2>3, <3>1, <3>2, ZenonT(60) DEF Answer
    <2>. QED
      BY <2>1, <2>2, <2>3, ZenonT(60) DEF Serve
  <1>3. PICK rs \in Seq(Replies) :
          /\ r.kind # "change" => rs = Details(r)
          /\ r.kind = "change" => Only(rs, {"retval"})
          /\ queue' = IF r.client = client THEN queue \o rs ELSE queue
          /\ applied' = applied \/ applied' = applied \cup {r.client}
          /\ Has(rs, "retval", "ok") => r.client \in applied'
    BY <1>2
  <1>4. queue' \in Seq(Replies)
    BY <1>0, <1>3, ConcatAt
  <1>5. applied \subseteq applied' /\ applied' \subseteq 1 .. MaxCommands
    BY <1>1, <1>3, ZenonT(60) DEF IInv, Types
  <1>6. Types'
    BY <1>0, <1>4, <1>5 DEF IInv, Types
  <1>7. Numbered'
    <2>1. \A i \in DOMAIN toVpp' : toVpp'[i].client # 0 /\ toVpp'[i].client <= count
      <3>1. \A i \in DOMAIN toVpp : toVpp[i].client # 0 /\ toVpp[i].client <= count
        BY Zenon DEF IInv, Numbered
      <3>2. \A i \in DOMAIN Tail(toVpp) : i + 1 \in DOMAIN toVpp /\ Tail(toVpp)[i] = toVpp[i + 1]
        BY <1>0, TailAt
      <3>. QED
        BY <1>0, <3>1, <3>2, Zenon
    <2>. QED
      BY <1>0, <2>1, ZenonT(60) DEF IInv, Numbered, Busy
  <1>8. client' # 0 => OkIsReal'
    <2>. SUFFICES ASSUME client # 0, Has(queue', "retval", "ok") PROVE client \in applied'
      BY <1>0 DEF OkIsReal
    <2>1. Has(queue, "retval", "ok") \/ (r.client = client /\ Has(rs, "retval", "ok"))
      BY <1>0, <1>3, ConcatHas
    <2>. QED
      BY <1>3, <1>5, <2>1 DEF IInv, OkIsReal
  <1>9. \A t \in Thread : Told(th'[t], applied')
    BY <1>0, <1>5, ZenonT(60) DEF IInv, Told
  <1>10. ASSUME NEW t \in Thread PROVE Waiting(th'[t], queue', toVpp', client')
    <2>1. Waiting(th[t], queue, toVpp, client)
      BY DEF IInv
    <2>. HIDE DEF r
    <2>. QED
      BY <1>0, <1>3, <2>1, ServeWaiting, ZenonT(60) DEF r
  <1>. QED
    BY <1>6, <1>7, <1>8, <1>9, <1>10, ZenonT(60) DEF IInv

\* The rx pthread exists only in the session of create loopback and in one
\* with no command, so what it takes away is nothing show vpp interface waits for.
LEMMA RxStep ==
  ASSUME IInv, RxThread
  PROVE  IInv'
  <1>0. /\ rx /\ queue # <<>> /\ queue \in Seq(Replies) /\ queue' = Tail(queue)
        /\ queue' \in Seq(Replies) /\ toVpp' = toVpp /\ applied' = applied
        /\ client' = client /\ rx' = rx /\ count' = count /\ th' = th
    BY TailAt DEF IInv, Types, RxThread
  <1>1. Types' /\ Numbered'
    BY <1>0, ZenonT(60) DEF IInv, Types, Numbered, Busy
  <1>2. client' # 0 => OkIsReal'
    <2>1. Has(queue', "retval", "ok") => Has(queue, "retval", "ok")
      BY <1>0, TailAt DEF Has
    <2>. QED
      BY <1>0, <2>1 DEF IInv, OkIsReal
  <1>3. ASSUME NEW t \in Thread PROVE Waiting(th'[t], queue', toVpp', client')
    <2>1. CASE ~Busy(t)
      BY <1>0, <2>1, IdleWaits, ZenonT(60) DEF Busy
    <2>2. CASE Busy(t)
      <3>1. th[t].cmd = "loopback" /\ Waiting(th[t], queue, toVpp, client)
        BY <1>0, <2>2, ZenonT(60) DEF IInv, Numbered
      <3>2. th[t].pc = "wait" => Only(queue', {"retval"})
        BY <1>0, <3>1, OnlyTail DEF Waiting
      <3>. QED
        BY <1>0, <3>1, <3>2, ZenonT(60) DEF Waiting
    <2>. QED
      BY <2>1, <2>2
  <1>. QED
    BY <1>0, <1>1, <1>2, <1>3 DEF IInv

-----------------------------------------------------------------------------
(* Theorems                                                                 *)

\* No thread has a session at first.
LEMMA InitIInv == Init => IInv
  <1>. SUFFICES ASSUME Init PROVE IInv
    OBVIOUS
  <1>1. th = [t \in Thread |-> Idle] /\ \A t \in Thread : th[t] = Idle
    BY DEF Init
  <1>2. Types
    <2>1. rx \in BOOLEAN
      BY Zenon DEF Init
    <2>2. th \in [Thread -> Threads]
      BY <1>1, IdleType
    <2>3. /\ client \in 0 .. MaxCommands /\ count \in 0 .. MaxCommands /\ applied = {}
          /\ toVpp = <<>> /\ queue = <<>>
      BY BoundAssumption DEF Init
    <2>. QED
      BY <2>1, <2>2, <2>3 DEF Types
  <1>3. Numbered
    BY <1>1, IdleType DEF Init, Numbered, Busy
  <1>4. Told(Idle, applied) /\ Waiting(Idle, queue, toVpp, client)
    BY IdleType, ToldStart, IdleWaits
  <1>. QED
    BY <1>1, <1>2, <1>3, <1>4 DEF IInv, Init

\* Every step keeps the invariant, short of taking a connection down.
LEMMA NextIInv ==
  ASSUME IInv, [Next]_vars, ~cut'
  PROVE  IInv'
  <1>1. CASE Serve
    BY <1>1, ServeStep
  <1>2. CASE RxThread
    BY <1>2, RxStep
  <1>3. ASSUME NEW t \in Thread, Step(t) PROVE IInv'
    <2>1. CASE Link(t)
      BY <2>1, LinkReadStep, LinksReadStep
    <2>. QED
      BY <1>3, <2>1, SendStep, RetvalStep, ListEntryStep, AddressStep, TimeoutStep, TimeoutLinksStep
      DEF Step
  <1>4. ASSUME NEW t \in Thread, Close(t) PROVE IInv'
    BY <1>4, CloseStep
  <1>5. ASSUME NEW t \in Thread, NEW c \in Commands, Connect(t, c) PROVE IInv'
    BY <1>5, ConnectStep
  <1>6. CASE UNCHANGED vars
    BY <1>6, ZenonT(60) DEF vars, IInv, Types, Numbered, OkIsReal, Busy
  <1>. QED
    BY <1>1, <1>2, <1>3, <1>4, <1>5, <1>6 DEF Next

\* A step of a command leaves the mapping to the command, or ends the only one.
LEMMA StepMapped ==
  ASSUME IInv, Mapped, NEW t \in Thread, Step(t)
  PROVE  Mapped'
  <1>0. th \in [Thread -> Threads] /\ Busy(t)
    BY DEF IInv, Types, Busy, Step, Send, Retval, ListEntry, Link, Address, Timeout, TimeoutLinks
  <1>1. \A u \in Thread \ {t} : ~Busy(u)
    BY <1>0, OneBusy, Zenon
  <1>2. \A u \in Thread \ {t} : th'[u] = th[u]
    BY <1>0 DEF Step, Send, Retval, ListEntry, Link, Address, Timeout, TimeoutLinks, Report
  <1>3. mapped
    BY <1>0, Zenon DEF Mapped
  <1>4. mapped' = mapped \/ (mapped' = FALSE /\ th'[t].pc = "idle")
    <2>1. Send(t) \/ Link(t) \/ TimeoutLinks(t) => mapped' = mapped
      BY Zenon DEF Send, Link, TimeoutLinks
    <2>2. ASSUME NEW r, Report(t, r) PROVE th'[t].pc = "idle"
      BY <1>0, <2>2 DEF Report, Threads
    <2>3. Retval(t) => mapped' = FALSE /\ th'[t].pc = "idle"
      BY <2>2, Zenon DEF Retval, Disconnect
    <2>4. ListEntry(t) \/ Address(t) => mapped' = mapped \/ (mapped' = FALSE /\ th'[t].pc = "idle")
      BY <2>2, Zenon DEF ListEntry, Address, Disconnect
    <2>5. Timeout(t) => mapped' = FALSE /\ th'[t].pc = "idle"
      BY <1>0 DEF Timeout, Disconnect, Threads
    <2>. QED
      BY <2>1, <2>3, <2>4, <2>5, Zenon DEF Step
  <1>. QED
    BY <1>1, <1>2, <1>3, <1>4, Zenon DEF Mapped, Busy

\* The mapping goes only when no command runs, short of a cut.
LEMMA NextMapped ==
  ASSUME IInv, Mapped, [Next]_vars, ~cut'
  PROVE  Mapped'
  <1>1. CASE Serve \/ RxThread \/ UNCHANGED vars
    BY <1>1, Zenon DEF Serve, RxThread, vars, Mapped, Busy
  <1>2. ASSUME NEW t \in Thread, Close(t) PROVE Mapped'
    <2>1. mapped' = FALSE /\ ~InCommand
      BY <1>2, Zenon DEF Close, Disconnect
    <2>2. \A u \in Thread : th'[u].pc = "idle"
      <3>1. th' = [th EXCEPT ![t] = [Idle EXCEPT !.cmd = "close", !.n = count + 1, !.result = "ok"]]
            /\ th \in [Thread -> Threads]
        BY <1>2 DEF Close, IInv, Types
      <3>2. [Idle EXCEPT !.cmd = "close", !.n = count + 1, !.result = "ok"].pc = "idle"
        BY DEF Idle
      <3>. QED
        BY <2>1, <3>1, <3>2 DEF InCommand
    <2>. QED
      BY <2>1, <2>2, Zenon DEF Mapped, Busy
  <1>3. ASSUME NEW t \in Thread, NEW c \in Commands, Connect(t, c) PROVE Mapped'
    <2>0. th \in [Thread -> Threads] /\ th[t].pc = "idle"
      BY <1>3 DEF Connect, IInv, Types
    <2>1. CASE mapped' = TRUE
      BY <2>1, Zenon DEF Mapped
    <2>2. ASSUME NEW r, RegionExit(t),
                 th' = [th EXCEPT ![t] = [Idle EXCEPT !.cmd = c, !.n = count + 1, !.result = r]]
          PROVE  Mapped'
      <3>1. [Idle EXCEPT !.cmd = c, !.n = count + 1, !.result = r].pc = "idle"
        BY DEF Idle
      <3>2. \A u \in Thread : th'[u].pc # "idle" => th[u].pc # "idle"
        BY <2>0, <2>2, <3>1
      <3>3. CASE t = "netlink"
        <4>1. mapped' \in BOOLEAN /\ (mapped => mapped')
          BY <2>2, <3>3, Zenon DEF RegionExit, Mapped
        <4>. QED
          BY <3>2, <4>1, Zenon DEF Mapped, Busy
      <3>4. CASE t # "netlink"
        <4>1. mapped' \in BOOLEAN /\ ~InCommand
          BY <2>2, <3>4, Zenon DEF RegionExit
        <4>. QED
          BY <3>2, <4>1, Zenon DEF Mapped, Busy, InCommand
      <3>. QED
        BY <3>3, <3>4
    <2>3. \/ mapped' = TRUE
          \/ \E r \in {"refused", "unreachable"} :
               /\ RegionExit(t)
               /\ th' = [th EXCEPT ![t] = [Idle EXCEPT !.cmd = c, !.n = count + 1, !.result = r]]
      BY <1>3, Zenon DEF Connect
    <2>. QED
      BY <2>1, <2>2, <2>3
  <1>4. ASSUME NEW t \in Thread, Step(t) PROVE Mapped'
    BY <1>4, StepMapped
  <1>. QED
    BY <1>1, <1>2, <1>3, <1>4, Zenon DEF Next

\* A connection taken down stays in the books.
LEMMA CutStays == [Next]_vars /\ cut => cut'
  <1>. SUFFICES ASSUME [Next]_vars, cut PROVE cut'
    OBVIOUS
  <1>1. CASE Serve \/ RxThread \/ UNCHANGED vars
    BY <1>1, Zenon DEF Serve, RxThread, vars
  <1>2. ASSUME NEW t \in Thread, Step(t) PROVE cut'
    BY <1>2, Zenon DEF Step, Send, Retval, ListEntry, Link, Address, Timeout, TimeoutLinks
  <1>3. ASSUME NEW t \in Thread, Close(t) PROVE cut'
    BY <1>3, Zenon DEF Close
  <1>4. ASSUME NEW t \in Thread, NEW c \in Commands, Connect(t, c) PROVE cut'
    BY <1>4, Zenon DEF Connect, RegionExit
  <1>. QED
    BY <1>1, <1>2, <1>3, <1>4, Zenon DEF Next

\* Until a connection is taken down, the connection, the stream of replies and
\* the threads agree in every state.
THEOREM Invariance == Spec => []SessionInv
  <1>1. Init => SessionInv
    <2>1. Init => Mapped
      <3>. SUFFICES ASSUME Init PROVE Mapped
        OBVIOUS
      <3>1. mapped \in BOOLEAN
        BY Zenon DEF Init
      <3>2. \A t \in Thread : th[t].pc = "idle"
        BY IdleType DEF Init
      <3>. QED
        BY <3>1, <3>2, Zenon DEF Mapped, Busy
    <2>. QED
      BY <2>1, InitIInv DEF SessionInv
  <1>2. SessionInv /\ [Next]_vars => SessionInv'
    BY NextIInv, NextMapped, CutStays, Zenon DEF SessionInv
  <1>. QED
    BY <1>1, <1>2, PTL DEF Spec

\* A command of any thread that reports success has changed VPP: the reply it
\* takes for its own is its own, however many commands before it gave up on
\* theirs (connect_to_vpp, msg_loop and the W macro of each command).
THEOREM Successes == Spec => []SuccessIsReal
  <1>1. SessionInv => SuccessIsReal
    BY ZenonT(60) DEF SessionInv, IInv, Told, SuccessIsReal
  <1>. QED
    BY <1>1, Invariance, PTL

\* Every way out of every command disconnects: with all threads idle only a
\* session of vpe connect, which has an rx pthread, is open; and a command that
\* runs has the connection and the mapping to itself, although each connect and
\* disconnect of any thread replaces both for the process.
THEOREM Sessions == Spec => []SessionsSound
  <1>1. IInv /\ Mapped => TypeOK
    <2>. SUFFICES ASSUME IInv, Mapped PROVE TypeOK
      OBVIOUS
    <2>1. mapped \in BOOLEAN /\ rx \in BOOLEAN
      BY Zenon DEF IInv, Types, Mapped
    <2>. QED
      BY <2>1, BoundAssumption DEF IInv, Types, Threads, TypeOK
  <1>2. IInv => SessionsEnd
    BY ZenonT(60) DEF IInv, Numbered, Busy, SessionsEnd, InCommand
  <1>3. IInv /\ Mapped => SessionsOwned
    <2>. SUFFICES ASSUME IInv, Mapped, NEW t \in Thread, Busy(t)
                  PROVE  /\ client = th[t].n /\ mapped
                         /\ \A u \in Thread : Busy(u) => u = t
      BY Zenon DEF SessionsOwned, Busy
    <2>1. client = th[t].n
      BY ZenonT(60) DEF IInv, Numbered
    <2>2. mapped
      BY Zenon DEF Mapped
    <2>. QED
      BY <2>1, <2>2, OneBusy, Zenon
  <1>4. SessionInv => SessionsSound
    BY <1>1, <1>2, <1>3, Zenon DEF SessionInv, SessionsSound
  <1>. QED
    BY <1>4, Invariance, PTL

\* show vpp interface: the first pong comes after the last interface and before
\* the first address, and the second after the last address, for any number of
\* interfaces and addresses and however VPP and the thread interleave; so every
\* interface is printed and every address has been stored.
THEOREM Shows == Spec => []ShowIsRight
  <1>1. IInv => DetailsInPhase
    <2>. SUFFICES ASSUME IInv, NEW t \in Thread, ~th[t].late
                  PROVE  /\ \A m \in Range(th[t].links) : m.kind = "interface"
                         /\ \A m \in Range(th[t].addrs) : m.kind = "address"
      BY Zenon DEF DetailsInPhase
    <2>1. Only(th[t].links, {"interface"}) /\ Only(th[t].addrs, {"address"})
      BY Zenon DEF IInv, Told
    <2>. QED
      BY <2>1 DEF Only, Range
  <1>2. IInv => ShowComplete
    <2>. SUFFICES ASSUME IInv, NEW t \in Thread, th[t].cmd = "interface", th[t].result = "ok", ~th[t].late
                  PROVE  /\ {m.arg : m \in Range(th[t].links)} = Iface
                         /\ {m.arg : m \in Range(th[t].addrs)} = HasAddr
      <3>. SUFFICES ASSUME NEW t \in Thread, th[t].cmd = "interface", th[t].result = "ok"
                    PROVE  {l.idx : l \in Printed(th[t])} = {m.arg : m \in Range(th[t].links)}
        BY ZenonT(60) DEF ShowComplete
      <3>1. Printed(th[t]) = {[idx |-> m.arg, internet |-> {}] : m \in Range(th[t].links)}
        BY DEF Printed
      <3>2. ASSUME NEW x, NEW y PROVE [idx |-> x, internet |-> y].idx = x
        OBVIOUS
      <3>. QED
        <4>. DEFINE S == Range(th[t].links)
                    P == {[idx |-> m.arg, internet |-> {}] : m \in S}
        <4>. HIDE DEF S
        <4>1. ASSUME NEW m \in S PROVE m.arg \in {l.idx : l \in P}
          <5>1. [idx |-> m.arg, internet |-> {}] \in P
            OBVIOUS
          <5>. QED
            BY <3>2, <5>1, Zenon
        <4>2. ASSUME NEW l \in P PROVE l.idx \in {m.arg : m \in S}
          <5>1. PICK m \in S : l = [idx |-> m.arg, internet |-> {}]
            OBVIOUS
          <5>. QED
            BY <3>2, <5>1, Zenon
        <4>3. {l.idx : l \in P} = {m.arg : m \in S}
          <5>. HIDE DEF P
          <5>. QED
            BY <4>1, <4>2
        <4>. QED
          BY <3>1, <4>3, Zenon DEF S
    <2>1. /\ Only(th[t].links, {"interface"}) /\ Only(th[t].addrs, {"address"})
          /\ AllLinks(th[t]) /\ AllAddresses(th[t])
      BY ZenonT(60) DEF IInv, Told
    <2>2. th[t].links \in Seq(Replies) /\ th[t].addrs \in Seq(Replies)
      BY DEF IInv, Types, Threads
    <2>3. ASSUME NEW s \in Seq(Replies), NEW kind, NEW S, Only(s, {kind}), kind \in {"interface", "address"},
                 S = (IF kind = "interface" THEN Iface ELSE HasAddr), \A x \in S : Has(s, kind, x)
          PROVE  {m.arg : m \in Range(s)} = S
      <3>1. ASSUME NEW i \in DOMAIN s PROVE s[i].arg \in S
        <4>1. s[i] \in Replies /\ s[i].kind = kind
          BY <2>3 DEF Only
        <4>. QED
          BY <2>3, <4>1, ReplyFacts
      <3>2. ASSUME NEW x \in S PROVE \E i \in DOMAIN s : s[i].arg = x
        <4>1. PICK i \in DOMAIN s : s[i] = Reply(kind, x)
          BY <2>3 DEF Has
        <4>. QED
          BY <4>1 DEF Reply
      <3>. QED
        BY <3>1, <3>2 DEF Range
    <2>. QED
      BY <2>1, <2>2, <2>3, ZenonT(60) DEF AllLinks, AllAddresses
  <1>. QED
    <2>1. SessionInv => ShowIsRight
      BY <1>1, <1>2, Zenon DEF SessionInv, ShowIsRight
    <2>. QED
      BY <2>1, Invariance, PTL
=============================================================================
