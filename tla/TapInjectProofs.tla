--------------------------- MODULE TapInjectProofs ---------------------------
(***************************************************************************)
(* The tables of the cplane_netdev plugin stay sound for any number of     *)
(* interfaces, descriptors, kernel devices and buffers, and the plugin     *)
(* implements the one-to-one pairing of TapPairing.                        *)
(*                                                                         *)
(* Both rest on two facts about the maps m, the descriptor table d and the *)
(* kernel indices u given out so far. Linked holds always: connecting uses *)
(* a free descriptor and a new index, so it cannot redirect a tap that     *)
(* stands. Exact holds while operators are careful: then the reverse maps  *)
(* and the open descriptors hold nothing but the taps that stand.          *)
(***************************************************************************)
EXTENDS TapInject, TLAPS

MapType == [fd_of : [Iface -> Fd \cup {None}], if_of : [Iface -> Idx \cup {None}],
            sw_of_fd : [Fd -> Iface \cup {None}], sw_of_if : [Idx -> Iface \cup {None}]]
FdType == [Fd -> Idx \cup {None}]

\* Each tap leads to an open device, and from there back; no device has two
\* descriptors; every device, open or in a table, was given out.
Linked(m, d, u) ==
  /\ \A i \in Tapped(m) :
       /\ m.if_of[i] # None /\ d[m.fd_of[i]] = m.if_of[i]
       /\ m.sw_of_fd[m.fd_of[i]] = i /\ m.sw_of_if[m.if_of[i]] = i
  /\ \A f \in Fd : d[f] # None => d[f] \in u
  /\ \A f, g \in Fd : d[f] # None /\ d[f] = d[g] => f = g
  /\ \A k \in Idx : m.sw_of_if[k] # None => k \in u

\* Taps belong to interfaces VPP has; an open descriptor and an entry of the
\* reverse map belong to a tap.
Exact(m, d, p) ==
  /\ Tapped(m) \subseteq p
  /\ \A f \in Fd : d[f] # None => \E i \in Iface : m.fd_of[i] = f
  /\ \A k \in Idx : m.sw_of_if[k] # None =>
       m.sw_of_if[k] \in Tapped(m) /\ m.if_of[m.sw_of_if[k]] = k

IInv ==
  /\ TypeOK /\ RxBuffersFit
  /\ Linked(im, fds, used)
  /\ ~careless => Exact(im, fds, present)

-----------------------------------------------------------------------------
(* Connecting                                                               *)

\* What tap_inject_insert_tap for the interfaces of S writes, and what it
\* leaves alone.
Inserted(S, a, b, m, d) ==
  /\ \A i \in S : /\ m.fd_of[i] = a[i] /\ m.if_of[i] = b[i]
                  /\ m.sw_of_fd[a[i]] = i /\ m.sw_of_if[b[i]] = i /\ d[a[i]] = b[i]
  /\ \A i \in Iface \ S : m.fd_of[i] = im.fd_of[i] /\ m.if_of[i] = im.if_of[i]
  /\ \A f \in Fd : (\A i \in S : a[i] # f) => m.sw_of_fd[f] = im.sw_of_fd[f] /\ d[f] = fds[f]
  /\ \A k \in Idx : (\A i \in S : b[i] # k) => m.sw_of_if[k] = im.sw_of_if[k]

\* With distinct descriptors and indices, every interface of S gets its own.
LEMMA InsertWrites ==
  ASSUME im \in MapType, fds \in FdType,
         NEW S \in SUBSET Iface, NEW a \in [S -> Fd], NEW b \in [S -> Idx], Fresh(S, a, b)
  PROVE  /\ Inserted(S, a, b, InsertTaps(im, S, a, b), WithDevices(S, a, b))
         /\ InsertTaps(im, S, a, b) \in MapType
         /\ WithDevices(S, a, b) \in FdType
<1> DEFINE m == InsertTaps(im, S, a, b)
           d == WithDevices(S, a, b)
<1>1. ASSUME NEW i \in S PROVE (CHOOSE j \in S : a[j] = a[i]) = i /\ (CHOOSE j \in S : b[j] = b[i]) = i
  BY DEF Fresh
<1>2. m.fd_of = [i \in Iface |-> IF i \in S THEN a[i] ELSE im.fd_of[i]]
  BY DEF InsertTaps
<1>3. m.if_of = [i \in Iface |-> IF i \in S THEN b[i] ELSE im.if_of[i]]
  BY DEF InsertTaps
<1>4. m.sw_of_fd = [f \in Fd |-> IF \E i \in S : a[i] = f
                                 THEN CHOOSE i \in S : a[i] = f ELSE im.sw_of_fd[f]]
  BY DEF InsertTaps
<1>5. m.sw_of_if = [k \in Idx |-> IF \E i \in S : b[i] = k
                                  THEN CHOOSE i \in S : b[i] = k ELSE im.sw_of_if[k]]
  BY DEF InsertTaps
<1>6. d = [f \in Fd |-> IF \E i \in S : a[i] = f THEN b[CHOOSE i \in S : a[i] = f] ELSE fds[f]]
  BY DEF WithDevices
<1>7. m.fd_of \in [Iface -> Fd \cup {None}] /\ m.if_of \in [Iface -> Idx \cup {None}]
  BY <1>2, <1>3 DEF MapType
<1>8. m.sw_of_fd \in [Fd -> Iface \cup {None}]
  <2>1. ASSUME NEW f \in Fd PROVE m.sw_of_fd[f] \in Iface \cup {None}
    <3>1. CASE \E i \in S : a[i] = f
      <4>1. (CHOOSE i \in S : a[i] = f) \in S
        BY <3>1
      <4> QED
        BY <1>4, <3>1, <4>1
    <3>2. CASE ~\E i \in S : a[i] = f
      BY <1>4, <3>2 DEF MapType
    <3> QED
      BY <3>1, <3>2
  <2> QED
    BY <1>4, <2>1
<1>9. m.sw_of_if \in [Idx -> Iface \cup {None}]
  <2>1. ASSUME NEW k \in Idx PROVE m.sw_of_if[k] \in Iface \cup {None}
    <3>1. CASE \E i \in S : b[i] = k
      <4>1. (CHOOSE i \in S : b[i] = k) \in S
        BY <3>1
      <4> QED
        BY <1>5, <3>1, <4>1
    <3>2. CASE ~\E i \in S : b[i] = k
      BY <1>5, <3>2 DEF MapType
    <3> QED
      BY <3>1, <3>2
  <2> QED
    BY <1>5, <2>1
<1>10. d \in FdType
  <2>1. ASSUME NEW f \in Fd PROVE d[f] \in Idx \cup {None}
    <3>1. CASE \E i \in S : a[i] = f
      <4>1. (CHOOSE i \in S : a[i] = f) \in S
        BY <3>1
      <4> QED
        BY <1>6, <3>1, <4>1
    <3>2. CASE ~\E i \in S : a[i] = f
      BY <1>6, <3>2 DEF FdType
    <3> QED
      BY <3>1, <3>2
  <2> QED
    BY <1>6, <2>1 DEF FdType
<1>11. m \in MapType
  <2>1. m = [fd_of |-> m.fd_of, if_of |-> m.if_of, sw_of_fd |-> m.sw_of_fd, sw_of_if |-> m.sw_of_if]
    BY DEF InsertTaps
  <2> HIDE DEF m
  <2> QED
    BY <1>7, <1>8, <1>9, <2>1 DEF MapType
<1>12. ASSUME NEW i \in S
       PROVE  /\ m.fd_of[i] = a[i] /\ m.if_of[i] = b[i]
              /\ m.sw_of_fd[a[i]] = i /\ m.sw_of_if[b[i]] = i /\ d[a[i]] = b[i]
  <2>1. i \in Iface /\ a[i] \in Fd /\ b[i] \in Idx
    OBVIOUS
  <2> HIDE DEF m, d
  <2> QED
    BY <1>1, <1>2, <1>3, <1>4, <1>5, <1>6, <2>1
<1>13. ASSUME NEW i \in Iface \ S PROVE m.fd_of[i] = im.fd_of[i] /\ m.if_of[i] = im.if_of[i]
  BY <1>2, <1>3
<1>14. ASSUME NEW f \in Fd, \A i \in S : a[i] # f
       PROVE  m.sw_of_fd[f] = im.sw_of_fd[f] /\ d[f] = fds[f]
  BY <1>4, <1>6, <1>14
<1>15. ASSUME NEW k \in Idx, \A i \in S : b[i] # k PROVE m.sw_of_if[k] = im.sw_of_if[k]
  BY <1>5, <1>15
<1> HIDE DEF m, d
<1>16. Inserted(S, a, b, m, d)
  BY <1>12, <1>13, <1>14, <1>15 DEF Inserted
<1> QED
  BY <1>10, <1>11, <1>16 DEF m, d

\* Connecting S keeps the maps linked: the descriptors were free and the
\* devices new, so no other tap is redirected.
LEMMA InsertLinked ==
  ASSUME im \in MapType, fds \in FdType, Linked(im, fds, used),
         NEW S \in SUBSET Iface, NEW a \in [S -> Fd], NEW b \in [S -> Idx], Fresh(S, a, b),
         NEW m \in MapType, NEW d \in FdType, Inserted(S, a, b, m, d)
  PROVE  Linked(m, d, used \cup {b[i] : i \in S})
<1> DEFINE u == used \cup {b[i] : i \in S}
<1>0. \A i \in S : i \in Iface /\ a[i] \in Fd /\ b[i] \in Idx /\ a[i] # None /\ b[i] # None /\ b[i] \in u
  BY SetsAssumption
<1>1. ASSUME NEW i \in Tapped(m)
      PROVE  /\ m.if_of[i] # None /\ d[m.fd_of[i]] = m.if_of[i]
             /\ m.sw_of_fd[m.fd_of[i]] = i /\ m.sw_of_if[m.if_of[i]] = i
  <2>1. CASE i \in S
    BY <1>0, <2>1 DEF Inserted
  <2>2. CASE i \notin S
    <3>1. i \in Tapped(im) /\ m.fd_of[i] = im.fd_of[i] /\ m.if_of[i] = im.if_of[i]
      BY <2>2 DEF Inserted, Tapped
    <3>2. im.fd_of[i] \in Fd /\ im.if_of[i] \in Idx
      BY <3>1 DEF Linked, Tapped, MapType
    <3>3. im.if_of[i] \in used
      BY <3>1, <3>2 DEF Linked
    <3>4. \A j \in S : a[j] # im.fd_of[i] /\ b[j] # im.if_of[i]
      BY <3>1, <3>2, <3>3 DEF Linked, Fresh
    <3> QED
      BY <3>1, <3>2, <3>4 DEF Linked, Inserted
  <2> QED
    BY <2>1, <2>2
<1>2. ASSUME NEW f \in Fd, d[f] # None
      PROVE  \/ \E i \in S : a[i] = f /\ d[f] = b[i]
             \/ d[f] = fds[f] /\ d[f] \in used /\ \A i \in S : a[i] # f
  BY <1>2 DEF Inserted, Linked
<1>3. ASSUME NEW f \in Fd, NEW g \in Fd, d[f] # None, d[f] = d[g] PROVE f = g
  <2>0. \/ \E j \in S : a[j] = g /\ d[g] = b[j]
        \/ d[g] = fds[g] /\ d[g] \in used
    BY <1>2, <1>3
  <2>1. CASE \E i \in S : a[i] = f /\ d[f] = b[i]
    <3>1. PICK i \in S : a[i] = f /\ d[f] = b[i]
      BY <2>1
    <3>2. PICK j \in S : a[j] = g /\ d[g] = b[j]
      BY <1>3, <2>0, <3>1 DEF Fresh
    <3>3. i = j
      BY <1>3, <3>1, <3>2, ZenonT(60) DEF Fresh
    <3> QED
      BY <3>1, <3>2, <3>3
  <2>2. CASE d[f] = fds[f] /\ d[f] \in used
    <3>1. d[g] = fds[g]
      BY <1>3, <2>0, <2>2 DEF Fresh
    <3> QED
      BY <1>3, <2>2, <3>1, ZenonT(60) DEF Linked
  <2> QED
    BY <1>2, <1>3, <2>1, <2>2
<1>4. ASSUME NEW k \in Idx, m.sw_of_if[k] # None PROVE k \in u
  <2>1. CASE \E i \in S : b[i] = k
    BY <2>1
  <2>2. CASE \A i \in S : b[i] # k
    BY <1>4, <2>2 DEF Inserted, Linked
  <2> QED
    BY <2>1, <2>2
<1>5. ASSUME NEW f \in Fd, d[f] # None PROVE d[f] \in u
  BY <1>0, <1>2, <1>5
<1> QED
  BY <1>1, <1>3, <1>4, <1>5 DEF Linked

\* Connecting interfaces that have no tap keeps the maps exact.
LEMMA InsertExact ==
  ASSUME im \in MapType, fds \in FdType, Linked(im, fds, used), Exact(im, fds, present),
         NEW S \in SUBSET Iface, NEW a \in [S -> Fd], NEW b \in [S -> Idx], Fresh(S, a, b),
         NEW m \in MapType, NEW d \in FdType, Inserted(S, a, b, m, d),
         S \subseteq present, Tapped(im) \cap S = {}
  PROVE  Exact(m, d, present)
<1>0. \A i \in S : i \in Iface /\ a[i] \in Fd /\ b[i] \in Idx /\ a[i] # None /\ b[i] # None
  BY SetsAssumption
<1>1. \A i \in Tapped(m) : i \in S \/ i \in Tapped(im)
  BY DEF Tapped, Inserted
<1>2. \A i \in Tapped(im) : i \in Tapped(m) /\ m.fd_of[i] = im.fd_of[i] /\ m.if_of[i] = im.if_of[i]
  BY DEF Tapped, Inserted
<1>3. \A i \in S : i \in Tapped(m)
  BY <1>0 DEF Tapped, Inserted
<1>4. ASSUME NEW f \in Fd, d[f] # None PROVE \E i \in Iface : m.fd_of[i] = f
  <2>1. CASE \E i \in S : a[i] = f
    BY <1>0, <2>1 DEF Inserted
  <2>2. CASE \A i \in S : a[i] # f
    <3>1. fds[f] # None
      BY <1>4, <2>2 DEF Inserted
    <3>2. PICK i \in Iface : im.fd_of[i] = f
      BY <3>1 DEF Exact
    <3>3. i \in Tapped(im)
      BY <3>2, SetsAssumption DEF Tapped
    <3> QED
      BY <1>2, <3>2, <3>3
  <2> QED
    BY <2>1, <2>2
<1>5. ASSUME NEW k \in Idx, m.sw_of_if[k] # None
      PROVE  m.sw_of_if[k] \in Tapped(m) /\ m.if_of[m.sw_of_if[k]] = k
  <2>1. CASE \E i \in S : b[i] = k
    BY <1>0, <1>3, <2>1 DEF Inserted
  <2>2. CASE \A i \in S : b[i] # k
    <3>1. m.sw_of_if[k] = im.sw_of_if[k]
      BY <2>2 DEF Inserted
    <3> QED
      BY <1>2, <1>5, <3>1 DEF Exact
  <2> QED
    BY <2>1, <2>2
<1> QED
  BY <1>1, <1>4, <1>5 DEF Exact

-----------------------------------------------------------------------------
(* Disconnecting                                                            *)

\* The descriptor table after the taps of T are closed.
Closed(m, d, T) == [f \in Fd |-> IF \E i \in T : m.fd_of[i] = f THEN None ELSE d[f]]

\* Closing taps keeps the maps linked and exact.
LEMMA DeleteKeeps ==
  ASSUME NEW m \in MapType, NEW d \in FdType, NEW u, Linked(m, d, u),
         NEW T \in SUBSET Tapped(m)
  PROVE  /\ DeleteTaps(m, T) \in MapType /\ Closed(m, d, T) \in FdType
         /\ Linked(DeleteTaps(m, T), Closed(m, d, T), u)
         /\ \A p : Exact(m, d, p) => Exact(DeleteTaps(m, T), Closed(m, d, T), p)
         /\ Tapped(DeleteTaps(m, T)) = Tapped(m) \ T
<1> DEFINE n == DeleteTaps(m, T)
           e == Closed(m, d, T)
<1>1. /\ n.fd_of = [i \in Iface |-> IF i \in T THEN None ELSE m.fd_of[i]]
      /\ n.if_of = [i \in Iface |-> IF i \in T THEN None ELSE m.if_of[i]]
  BY DEF DeleteTaps
<1>2. n.sw_of_fd = [f \in Fd |-> IF \E i \in T : m.fd_of[i] = f THEN None ELSE m.sw_of_fd[f]]
  BY DEF DeleteTaps
<1>3. n.sw_of_if = [k \in Idx |-> IF \E i \in T : m.if_of[i] = k THEN None ELSE m.sw_of_if[k]]
  BY DEF DeleteTaps
<1>4. e = [f \in Fd |-> IF \E i \in T : m.fd_of[i] = f THEN None ELSE d[f]]
  BY DEF Closed
<1>5. n \in MapType
  <2>1. n = [fd_of |-> n.fd_of, if_of |-> n.if_of, sw_of_fd |-> n.sw_of_fd, sw_of_if |-> n.sw_of_if]
    BY DEF DeleteTaps
  <2>2. n.fd_of \in [Iface -> Fd \cup {None}] /\ n.if_of \in [Iface -> Idx \cup {None}]
    BY <1>1 DEF MapType
  <2>3. n.sw_of_fd \in [Fd -> Iface \cup {None}] /\ n.sw_of_if \in [Idx -> Iface \cup {None}]
    BY <1>2, <1>3 DEF MapType
  <2> HIDE DEF n
  <2> QED
    BY <2>1, <2>2, <2>3 DEF MapType
<1>6. e \in FdType
  BY <1>4 DEF FdType
<1> HIDE DEF n, e
<1>7. Tapped(n) = Tapped(m) \ T
  BY <1>1 DEF Tapped
<1>8. \A i \in Tapped(m) : m.fd_of[i] \in Fd /\ m.if_of[i] \in Idx
  BY DEF Tapped, MapType, Linked
<1>9. ASSUME NEW i \in Tapped(n)
      PROVE  /\ n.fd_of[i] = m.fd_of[i] /\ n.if_of[i] = m.if_of[i]
             /\ n.sw_of_fd[m.fd_of[i]] = i /\ n.sw_of_if[m.if_of[i]] = i /\ e[m.fd_of[i]] = m.if_of[i]
  <2>1. i \in Tapped(m) /\ i \notin T /\ i \in Iface
    BY <1>7 DEF Tapped
  <2>2. \A j \in T : m.fd_of[j] # m.fd_of[i] /\ m.if_of[j] # m.if_of[i]
    BY <2>1 DEF Linked
  <2> QED
    BY <1>1, <1>2, <1>3, <1>4, <1>8, <2>1, <2>2 DEF Linked
<1>10. Linked(n, e, u)
  <2>1. \A i \in Tapped(n) : i \in Tapped(m)
    BY <1>7
  <2> QED
    BY <1>3, <1>4, <1>9, <2>1 DEF Linked
<1>11. ASSUME NEW p, Exact(m, d, p) PROVE Exact(n, e, p)
  <2>1. ASSUME NEW f \in Fd, e[f] # None PROVE \E i \in Iface : n.fd_of[i] = f
    <3>1. d[f] # None /\ \A i \in T : m.fd_of[i] # f
      BY <1>4, <2>1
    <3>2. PICK i \in Iface : m.fd_of[i] = f
      BY <1>11, <3>1 DEF Exact
    <3> QED
      BY <1>1, <3>1, <3>2
  <2>2. ASSUME NEW k \in Idx, n.sw_of_if[k] # None
        PROVE  n.sw_of_if[k] \in Tapped(n) /\ n.if_of[n.sw_of_if[k]] = k
    <3>1. n.sw_of_if[k] = m.sw_of_if[k] /\ \A i \in T : m.if_of[i] # k
      BY <1>3, <2>2
    <3>2. m.sw_of_if[k] \in Tapped(m) /\ m.if_of[m.sw_of_if[k]] = k
      BY <1>11, <2>2, <3>1 DEF Exact
    <3> QED
      BY <1>7, <1>9, <3>1, <3>2
  <2> QED
    BY <1>7, <1>11, <2>1, <2>2 DEF Exact
<1> QED
  BY <1>5, <1>6, <1>7, <1>10, <1>11 DEF n, e

-----------------------------------------------------------------------------
(* The pairs tap_inject_dump reports                                        *)

Dump(m) == {x \in Iface \X Idx : m.sw_of_if[x[2]] = x[1]}

\* Connecting interfaces that have no tap adds one pair for each, between
\* interfaces that are in no pair yet.
LEMMA InsertPairs ==
  ASSUME im \in MapType, fds \in FdType, Linked(im, fds, used), Exact(im, fds, present),
         NEW S \in SUBSET Iface, NEW a \in [S -> Fd], NEW b \in [S -> Idx], Fresh(S, a, b),
         NEW m \in MapType, NEW d \in FdType, Inserted(S, a, b, m, d),
         Tapped(im) \cap S = {}
  PROVE  /\ Dump(im) \subseteq Dump(m)
         /\ \A x \in Dump(m) \ Dump(im) : x[1] \in S /\ x[2] = b[x[1]]
         /\ \A x \in Dump(m) \ Dump(im), y \in Dump(im) : x[1] # y[1] /\ x[2] # y[2]
         /\ \A x, y \in Dump(m) \ Dump(im) : x[1] = y[1] \/ x[2] = y[2] => x = y
<1>0. \A x : x \in Dump(im) => x \in Iface \X Idx /\ x[1] # None /\ im.sw_of_if[x[2]] = x[1]
  BY SetsAssumption DEF Dump
<1>1. \A i \in S : i \in Iface /\ b[i] \in Idx /\ b[i] \notin used
  BY DEF Fresh
<1>2. ASSUME NEW y \in Dump(im)
      PROVE  y[1] \notin S /\ \A i \in S : b[i] # y[2]
  <2>1. y[1] \in Tapped(im) /\ y[2] \in used
    BY <1>0 DEF Exact, Linked
  <2> QED
    BY <1>1, <2>1
<1>3. Dump(im) \subseteq Dump(m)
  BY <1>0, <1>2 DEF Dump, Inserted
<1>4. ASSUME NEW x \in Dump(m) \ Dump(im) PROVE x[1] \in S /\ x[2] = b[x[1]]
  <2>1. x \in Iface \X Idx /\ m.sw_of_if[x[2]] = x[1] /\ im.sw_of_if[x[2]] # x[1]
    BY DEF Dump
  <2>2. PICK i \in S : b[i] = x[2]
    BY <2>1 DEF Inserted
  <2> QED
    BY <2>1, <2>2 DEF Inserted
<1>5. ASSUME NEW x \in Dump(m) \ Dump(im), NEW y \in Dump(im) PROVE x[1] # y[1] /\ x[2] # y[2]
  BY <1>2, <1>4
<1>6. ASSUME NEW x \in Dump(m) \ Dump(im), NEW y \in Dump(m) \ Dump(im), x[1] = y[1] \/ x[2] = y[2]
      PROVE  x = y
  <2>1. x \in Iface \X Idx /\ y \in Iface \X Idx
    BY DEF Dump
  <2>2. x[1] = y[1] /\ x[2] = y[2]
    BY <1>4, <1>6 DEF Fresh
  <2> QED
    BY <2>1, <2>2
<1> QED
  BY <1>3, <1>4, <1>5, <1>6

\* Disconnecting every interface ends every pair.
LEMMA DeletePairs ==
  ASSUME NEW m \in MapType, NEW d \in FdType, NEW u, Linked(m, d, u), NEW p, Exact(m, d, p)
  PROVE  Dump(DeleteTaps(m, p \cap Tapped(m))) = {}
<1> DEFINE n == DeleteTaps(m, p \cap Tapped(m))
<1>1. p \cap Tapped(m) = Tapped(m)
  BY DEF Exact
<1>2. Tapped(n) = {}
  BY <1>1, DeleteKeeps
<1>3. Exact(n, Closed(m, d, p \cap Tapped(m)), p)
  BY <1>1, DeleteKeeps
<1> HIDE DEF n
<1>4. ASSUME NEW k \in Idx PROVE n.sw_of_if[k] = None
  BY <1>2, <1>3 DEF Exact
<1>5. Dump(n) = {}
  BY <1>4, SetsAssumption DEF Dump
<1> QED
  BY <1>5 DEF n

-----------------------------------------------------------------------------
(* The actions                                                              *)

\* The pairs of the refinement mapping, and a step of the abstract
\* specification or a stutter.
Pair == IF careless THEN {} ELSE TapInjectDump
PairStep == [Pairing!Next]_Pair

Nodes == {"arp-input", "ip4-icmp-input", "ip4-udp-lookup", "punt", "tap-inject-neigh", "tap-inject-tx"}

\* Each of the three tables of next nodes names nodes.
LEMMA NodeTypes ==
  /\ [p \in Proto |-> CASE p = "ARP" -> "arp-input"
                        [] p = "ICMP" -> "ip4-icmp-input"
                        [] OTHER -> "punt"] \in [Proto -> Nodes]
  /\ [p \in Proto |-> CASE p = "ARP" -> "arp-input"
                        [] p = "ICMP" -> "ip4-icmp-input"
                        [] p = "UDP" -> "ip4-udp-lookup"
                        [] OTHER -> "punt"] \in [Proto -> Nodes]
  /\ [p \in Proto |-> IF p = "ARP" THEN "tap-inject-neigh" ELSE "tap-inject-tx"] \in [Proto -> Nodes]
BY DEF Nodes

\* VPP starts with tap-inject disabled and no pair.
LEMMA InitIInv == Init => IInv
<1> SUFFICES ASSUME Init PROVE IInv
  OBVIOUS
<1>1. im \in MapType
  BY DEF Init, MapType
<1>2. node_of \in [Proto -> Nodes]
  BY NodeTypes DEF Init
<1>3. TypeOK
  <2>1. /\ present \subseteq Iface /\ fds \in [Fd -> Idx \cup {None}] /\ used \subseteq Idx
        /\ rx_file_descriptors \in Seq(Fd) /\ rx_buffers \in Nat /\ avail \in Nat
        /\ phase \in {"epoll", "rx", "process"}
    BY NumbersAssumption DEF Init
  <2>2. enabled \in BOOLEAN /\ config_enable \in BOOLEAN /\ careless \in BOOLEAN
    BY ZenonT(60) DEF Init
  <2> QED
    BY <1>1, <1>2, <2>1, <2>2 DEF TypeOK, MapType, Nodes
<1>4. Tapped(im) = {} /\ \A k \in Idx : im.sw_of_if[k] = None
  BY DEF Init, Tapped
<1>5. \A f \in Fd : fds[f] = None
  BY DEF Init
<1>6. Linked(im, fds, used) /\ Exact(im, fds, present)
  BY <1>4, <1>5 DEF Linked, Exact
<1>7. RxBuffersFit
  BY NumbersAssumption DEF Init, RxBuffersFit
<1> QED
  BY <1>3, <1>6, <1>7 DEF IInv

\* The type of what a step changes, put together.
LEMMA TypeNext ==
  ASSUME TypeOK, present' \subseteq Iface, enabled' \in BOOLEAN, config_enable' \in BOOLEAN,
         node_of' \in [Proto -> Nodes], im' \in MapType, fds' \in FdType, used' \subseteq Idx,
         careless' \in BOOLEAN, UNCHANGED <<rx_file_descriptors, rx_buffers, avail, phase>>
  PROVE  TypeOK'
BY DEF TypeOK, MapType, FdType, Nodes

\* Adding pairs is Connect of the abstract specification.
LEMMA ConnectPairs ==
  ASSUME ~careless, ~careless',
         Dump(im) \subseteq Dump(im'),
         \A x \in Dump(im') \ Dump(im), y \in Dump(im) : x[1] # y[1] /\ x[2] # y[2],
         \A x, y \in Dump(im') \ Dump(im) : x[1] = y[1] \/ x[2] = y[2] => x = y
  PROVE  PairStep
<1>1. Pair = Dump(im) /\ Pair' = Dump(im')
  BY DEF Pair, TapInjectDump, Dump
<1>2. CASE Dump(im') = Dump(im)
  BY <1>1, <1>2 DEF PairStep
<1>3. CASE Dump(im') # Dump(im)
  <2>1. Dump(im') \subseteq Iface \X Idx
    BY DEF Dump
  <2>2. Pairing!Connect
    BY <1>1, <1>3, <2>1 DEF Pairing!Connect, Pairing!OneToOne, Pair
  <2> QED
    BY <2>2 DEF PairStep, Pairing!Next
<1> QED
  BY <1>2, <1>3

\* Ending every pair, or being careless once, is DisconnectAll.
LEMMA DisconnectsPair == (careless' \/ Dump(im') = {}) => PairStep
<1> SUFFICES ASSUME careless' \/ Dump(im') = {} PROVE PairStep
  OBVIOUS
<1>1. Pair' = {}
  BY DEF Pair, TapInjectDump, Dump
<1>2. Pairing!DisconnectAll
  BY <1>1 DEF Pairing!DisconnectAll, Pair
<1> QED
  BY <1>2 DEF PairStep, Pairing!Next

\* Enabling, from the CLI or the API: with an error the taps made so far are
\* closed again, with all others.
LEMMA EnableStep ==
  ASSUME IInv, NEW cli \in BOOLEAN, EnableTapInject(cli) PROVE IInv' /\ PairStep
<1>0. TypeOK /\ im \in MapType /\ fds \in FdType /\ Linked(im, fds, used) /\ used \subseteq Idx
  BY DEF IInv, TypeOK, MapType, FdType
<1>1. PICK S \in SUBSET (present \cap Eth), stop \in SUBSET (present \cap Eth) :
      \E a \in [S -> Fd], b \in [S -> Idx] :
        EnableAll(S, stop, a, b) /\ config_enable' = (config_enable \/ (cli /\ stop = {}))
  BY DEF EnableTapInject
<1>2. PICK a \in [S -> Fd], b \in [S -> Idx] :
        EnableAll(S, stop, a, b) /\ config_enable' = (config_enable \/ (cli /\ stop = {}))
  BY <1>1
<1>3. UNCHANGED <<present, rx_file_descriptors, rx_buffers, avail, phase>>
  BY DEF EnableTapInject
<1> DEFINE m == InsertTaps(im, S, a, b)
           d == WithDevices(S, a, b)
           u == used \cup {b[i] : i \in S}
<1>4. S \in SUBSET Iface /\ S \subseteq present
  BY <1>0 DEF TypeOK
<1>5. Fresh(S, a, b) /\ used' = u
  BY <1>2 DEF EnableAll
<1>6. m \in MapType /\ d \in FdType /\ Inserted(S, a, b, m, d)
  BY <1>0, <1>4, <1>5, InsertWrites
<1>7. careless' \in BOOLEAN /\ (~careless' => ~careless /\ Tapped(im) \cap S = {})
  BY <1>2, Zenon DEF EnableAll
<1>8. config_enable' \in BOOLEAN
  BY <1>2, Zenon
<1>9. CASE stop = {}
  <2>1. Register /\ im' = m /\ fds' = d
    BY <1>2, <1>9 DEF EnableAll
  <2> HIDE DEF m, d
  <2>2. Linked(m, d, u)
    BY <1>0, <1>4, <1>5, <1>6, InsertLinked
  <2>3. ~careless' => Exact(im, fds, present) /\ Exact(m, d, present)
    BY <1>0, <1>4, <1>5, <1>6, <1>7, InsertExact DEF IInv
  <2>4. enabled' \in BOOLEAN /\ node_of' \in [Proto -> Nodes]
    BY <2>1, <1>0, NodeTypes, ZenonT(60) DEF Register, TypeOK, Nodes
  <2>5. used' \subseteq Idx /\ present' \subseteq Iface
    BY <1>0, <1>3, <1>5 DEF TypeOK
  <2>6. TypeOK'
    BY <1>0, <1>3, <1>6, <1>7, <1>8, <2>1, <2>4, <2>5, TypeNext
  <2>7. IInv'
    BY <1>3, <1>5, <2>1, <2>2, <2>3, <2>6 DEF IInv, RxBuffersFit
  <2>8. CASE careless'
    BY <2>7, <2>8, DisconnectsPair
  <2>9. CASE ~careless'
    <3>1. Exact(im, fds, present) /\ ~careless /\ Tapped(im) \cap S = {}
      BY <1>7, <2>3, <2>9
    <3>2. /\ Dump(im) \subseteq Dump(m)
          /\ \A x \in Dump(m) \ Dump(im), y \in Dump(im) : x[1] # y[1] /\ x[2] # y[2]
          /\ \A x, y \in Dump(m) \ Dump(im) : x[1] = y[1] \/ x[2] = y[2] => x = y
      BY <1>0, <1>4, <1>5, <1>6, <3>1, InsertPairs, SMTT(30)
    <3>3. /\ Dump(im) \subseteq Dump(im')
          /\ \A x \in Dump(im') \ Dump(im), y \in Dump(im) : x[1] # y[1] /\ x[2] # y[2]
          /\ \A x, y \in Dump(im') \ Dump(im) : x[1] = y[1] \/ x[2] = y[2] => x = y
      BY <2>1, <3>2
    <3>4. PairStep
      BY <2>9, <3>1, <3>3, ConnectPairs, ZenonT(60)
    <3> QED
      BY <2>7, <3>4
  <2> QED
    BY <2>7, <2>8, <2>9
<1>10. CASE stop # {}
  <2>1. im' = DeleteTaps(m, present \cap Tapped(m)) /\ fds' = Closed(m, d, present \cap Tapped(m))
    BY <1>2, <1>10 DEF EnableAll, DisconnectTaps, Closed
  <2>2. enabled' \in BOOLEAN /\ node_of' \in [Proto -> Nodes]
    BY <1>2, <1>10, NodeTypes, ZenonT(60) DEF EnableAll
  <2> HIDE DEF m, d
  <2>3. Linked(m, d, u)
    BY <1>0, <1>4, <1>5, <1>6, InsertLinked
  <2>4. im' \in MapType /\ fds' \in FdType /\ Linked(im', fds', u)
    BY <1>6, <2>1, <2>3, DeleteKeeps
  <2>5. ASSUME ~careless' PROVE Exact(im', fds', present) /\ Dump(im') = {}
    <3>1. Exact(m, d, present)
      BY <1>0, <1>4, <1>5, <1>6, <1>7, <2>5, InsertExact DEF IInv
    <3> QED
      BY <1>6, <2>1, <2>3, <3>1, DeleteKeeps, DeletePairs
  <2>6. used' \subseteq Idx /\ present' \subseteq Iface
    BY <1>0, <1>3, <1>5 DEF TypeOK
  <2>7. TypeOK'
    BY <1>0, <1>3, <1>7, <1>8, <2>2, <2>4, <2>6, TypeNext
  <2>8. IInv'
    BY <1>3, <1>5, <2>4, <2>5, <2>7 DEF IInv, RxBuffersFit
  <2>9. PairStep
    BY <2>5, DisconnectsPair
  <2> QED
    BY <2>8, <2>9
<1> QED
  BY <1>9, <1>10

\* Disabling closes the taps of every interface VPP still has.
LEMMA DisableStep ==
  ASSUME IInv, NEW cli \in BOOLEAN, DisableTapInject(cli) PROVE IInv' /\ PairStep
<1>0. TypeOK /\ im \in MapType /\ fds \in FdType /\ Linked(im, fds, used)
  BY DEF IInv, TypeOK, MapType, FdType
<1> DEFINE T == present \cap Tapped(im)
<1>1. im' = DeleteTaps(im, T) /\ fds' = Closed(im, fds, T)
  BY DEF DisableTapInject, DisconnectTaps, Closed
<1>2. UNCHANGED <<present, used, rx_file_descriptors, rx_buffers, avail, phase, careless>>
  BY DEF DisableTapInject
<1>3. im' \in MapType /\ fds' \in FdType /\ Linked(im', fds', used)
  BY <1>0, <1>1, DeleteKeeps
<1>4. ASSUME ~careless PROVE Exact(im', fds', present) /\ Dump(im') = {}
  <2>1. Exact(im, fds, present)
    BY <1>4 DEF IInv
  <2> QED
    BY <1>0, <1>1, <2>1, DeleteKeeps, DeletePairs
<1>5. enabled' \in BOOLEAN /\ config_enable' \in BOOLEAN
  BY Zenon DEF DisableTapInject
<1>6. node_of' \in [Proto -> Nodes]
  BY <1>0, NodeTypes DEF DisableTapInject, Unregistered, TypeOK, Nodes
<1>7. present' \subseteq Iface /\ used' \subseteq Idx /\ careless' \in BOOLEAN
  BY <1>0, <1>2 DEF TypeOK
<1>8. TypeOK'
  BY <1>0, <1>2, <1>3, <1>5, <1>6, <1>7, TypeNext
<1>9. IInv'
  BY <1>2, <1>3, <1>4, <1>8 DEF IInv, RxBuffersFit
<1>10. PairStep
  BY <1>2, <1>4, DisconnectsPair
<1> QED
  BY <1>9, <1>10

\* create cplane-netdev connects one interface, whether it has a tap or not.
LEMMA CreateStep ==
  ASSUME IInv, NEW i \in Iface, CreateCplaneNetdev(i) PROVE IInv' /\ PairStep
<1>0. TypeOK /\ im \in MapType /\ fds \in FdType /\ Linked(im, fds, used) /\ used \subseteq Idx
  BY DEF IInv, TypeOK, MapType, FdType
<1>1. PICK f \in Fd, k \in Idx :
        /\ Fresh({i}, [j \in {i} |-> f], [j \in {i} |-> k])
        /\ im' = InsertTaps(im, {i}, [j \in {i} |-> f], [j \in {i} |-> k])
        /\ fds' = WithDevices({i}, [j \in {i} |-> f], [j \in {i} |-> k])
        /\ used' = used \cup {k}
  BY ZenonT(60) DEF CreateCplaneNetdev
<1> DEFINE S == {i}
           a == [j \in {i} |-> f]
           b == [j \in {i} |-> k]
<1>2. /\ i \in present
      /\ UNCHANGED <<present, enabled, config_enable, node_of,
                     rx_file_descriptors, rx_buffers, avail, phase>>
  BY DEF CreateCplaneNetdev
<1>3. S \in SUBSET Iface /\ a \in [S -> Fd] /\ b \in [S -> Idx] /\ S \subseteq present
  BY <1>2
<1>4. used' = used \cup {b[j] : j \in S}
  BY <1>1
<1>5. careless' \in BOOLEAN /\ (~careless' => ~careless /\ i \notin Tapped(im))
  BY Zenon DEF CreateCplaneNetdev
<1>6. Fresh(S, a, b)
  BY <1>1
<1>7. im' \in MapType /\ fds' \in FdType /\ Inserted(S, a, b, im', fds')
  BY <1>0, <1>1, <1>3, <1>6, InsertWrites
<1> HIDE DEF a, b
<1>8. Linked(im', fds', used')
  BY <1>0, <1>3, <1>4, <1>6, <1>7, InsertLinked
<1>9. ~careless' => Tapped(im) \cap S = {}
  BY <1>5
<1> HIDE DEF S
<1>10. ~careless' => Exact(im, fds, present) /\ Exact(im', fds', present)
  BY <1>0, <1>3, <1>5, <1>6, <1>7, <1>9, InsertExact DEF IInv
<1>11. /\ present' \subseteq Iface /\ used' \subseteq Idx
       /\ enabled' \in BOOLEAN /\ config_enable' \in BOOLEAN /\ node_of' \in [Proto -> Nodes]
  BY <1>0, <1>1, <1>2 DEF TypeOK, Nodes
<1>12. TypeOK'
  BY <1>0, <1>2, <1>5, <1>7, <1>11, TypeNext
<1>13. IInv'
  BY <1>2, <1>8, <1>10, <1>12 DEF IInv, RxBuffersFit
<1>14. CASE careless'
  BY <1>13, <1>14, DisconnectsPair
<1>15. CASE ~careless'
  <2>1. /\ Dump(im) \subseteq Dump(im')
        /\ \A x \in Dump(im') \ Dump(im), y \in Dump(im) : x[1] # y[1] /\ x[2] # y[2]
        /\ \A x, y \in Dump(im') \ Dump(im) : x[1] = y[1] \/ x[2] = y[2] => x = y
    BY <1>0, <1>3, <1>6, <1>7, <1>9, <1>10, <1>15, InsertPairs
  <2> QED
    BY <1>5, <1>13, <1>15, <2>1, ConnectPairs
<1> QED
  BY <1>14, <1>15

\* VPP's interfaces come and go under the taps.
LEMMA InterfaceStep ==
  ASSUME IInv, NEW i \in Iface, AddInterface(i) \/ DelInterface(i) PROVE IInv' /\ PairStep
<1>0. TypeOK
  BY DEF IInv
<1>1. UNCHANGED <<enabled, config_enable, node_of, im, fds, used,
                  rx_file_descriptors, rx_buffers, avail, phase>>
  BY DEF AddInterface, DelInterface
<1>2. /\ careless' \in BOOLEAN /\ present' \subseteq Iface
      /\ ~careless' => ~careless
      /\ ~careless' => \A j \in Tapped(im) : j \in present => j \in present'
  <2>1. CASE AddInterface(i)
    BY <1>0, <2>1 DEF AddInterface, TypeOK
  <2>2. CASE DelInterface(i)
    <3>1. careless' \in BOOLEAN /\ (~careless' => ~careless /\ i \notin Tapped(im))
      BY <2>2, Zenon DEF DelInterface
    <3>2. present' = present \ {i}
      BY <2>2 DEF DelInterface
    <3> QED
      BY <1>0, <3>1, <3>2 DEF TypeOK
  <2> QED
    BY <2>1, <2>2
<1>3. TypeOK'
  BY <1>0, <1>1, <1>2, TypeNext DEF TypeOK, MapType, FdType, Nodes
<1>4. ~careless' => Exact(im, fds, present)'
  BY <1>1, <1>2 DEF IInv, Exact
<1>5. IInv'
  BY <1>1, <1>3, <1>4 DEF IInv, RxBuffersFit
<1>6. CASE careless'
  BY <1>5, <1>6, DisconnectsPair
<1>7. CASE ~careless'
  BY <1>1, <1>2, <1>5, <1>7 DEF PairStep, Pair, TapInjectDump
<1> QED
  BY <1>6, <1>7

\* The data path moves buffers and descriptors, never the maps.
LEMMA DataStep ==
  ASSUME IInv, \/ \E i \in Iface : NeighborArp(i)
               \/ \E f \in Fd : TapRead(f)
               \/ TapRx \/ NextPhase
               \/ UNCHANGED vars
  PROVE  IInv' /\ PairStep
<1>0. TypeOK /\ RxBuffersFit
  BY DEF IInv
<1>1. UNCHANGED <<present, enabled, config_enable, node_of, im, fds, used, careless>>
  BY DEF NeighborArp, TapRead, TapRx, NextPhase, vars
<1>2. /\ rx_file_descriptors' \in Seq(Fd) /\ rx_buffers' \in Nat /\ avail' \in Nat
      /\ phase' \in {"epoll", "rx", "process"} /\ rx_buffers' <= NumAlloc
  <2>1. CASE \E i \in Iface : NeighborArp(i)
    BY <1>0, <2>1 DEF NeighborArp, TypeOK, RxBuffersFit
  <2>2. CASE \E f \in Fd : TapRead(f)
    BY <1>0, <2>2 DEF TapRead, TypeOK, RxBuffersFit
  <2>3. CASE TapRx
    <3>1. phase' = phase /\ rx_file_descriptors # <<>>
      BY <2>3 DEF TapRx
    <3>2. rx_file_descriptors' \in Seq(Fd)
      <4>1. rx_file_descriptors' \in {<<>>, Tail(rx_file_descriptors)}
        BY <2>3 DEF TapRx
      <4>2. rx_file_descriptors \in Seq(Fd)
        BY <1>0 DEF TypeOK
      <4>3. Tail(rx_file_descriptors) \in Seq(Fd) /\ <<>> \in Seq(Fd)
        BY <3>1, <4>2
      <4> QED
        BY <4>1, <4>3, ZenonT(60)
    <3>3. rx_buffers' \in Nat /\ avail' \in Nat /\ rx_buffers' <= NumAlloc
      <4>1. CASE UNCHANGED <<rx_buffers, avail>>
        BY <1>0, <4>1 DEF TypeOK, RxBuffersFit
      <4>2. CASE ~UNCHANGED <<rx_buffers, avail>>
        <5>1. PICK n \in 0 .. NumAlloc :
                /\ Refill(n)
                /\ \/ /\ rx_buffers + n >= MTU_BUFFERS
                      /\ rx_buffers' = rx_buffers + n - MTU_BUFFERS
                      /\ avail' = avail - n + MTU_BUFFERS
                   \/ rx_buffers' = rx_buffers + n /\ avail' = avail - n
          BY <2>3, <4>2 DEF TapRx
        <5>2. n \in Nat /\ n <= avail /\ rx_buffers + n <= NumAlloc
          BY <1>0, <5>1, NumbersAssumption DEF Refill, MTU_BUFFERS, TypeOK, RxBuffersFit
        <5> QED
          BY <1>0, <5>1, <5>2, NumbersAssumption DEF MTU_BUFFERS, TypeOK
      <4> QED
        BY <4>1, <4>2
    <3> QED
      BY <1>0, <3>1, <3>2, <3>3 DEF TypeOK
  <2>4. CASE NextPhase
    BY <1>0, <2>4 DEF NextPhase, TypeOK, RxBuffersFit
  <2>5. CASE UNCHANGED vars
    BY <1>0, <2>5 DEF vars, TypeOK, RxBuffersFit
  <2> QED
    BY <2>1, <2>2, <2>3, <2>4, <2>5
<1>3. TypeOK'
  BY <1>0, <1>1, <1>2 DEF TypeOK
<1>4. IInv'
  BY <1>1, <1>2, <1>3 DEF IInv, RxBuffersFit, Linked, Exact
<1>5. PairStep
  BY <1>1 DEF PairStep, Pair, TapInjectDump
<1> QED
  BY <1>4, <1>5

\* Every step keeps the invariant, and is a step or a stutter of the pairing.
LEMMA NextStep == ASSUME IInv, [Next]_vars PROVE IInv' /\ PairStep
<1>1. CASE \E cli \in BOOLEAN : EnableTapInject(cli) \/ DisableTapInject(cli)
  BY <1>1, EnableStep, DisableStep
<1>2. CASE \E i \in Iface : CreateCplaneNetdev(i) \/ AddInterface(i) \/ DelInterface(i)
  BY <1>2, CreateStep, InterfaceStep
<1>3. CASE \/ \E i \in Iface : NeighborArp(i)
           \/ \E f \in Fd : TapRead(f)
           \/ TapRx \/ NextPhase
           \/ UNCHANGED vars
  BY <1>3, DataStep
<1> QED
  BY <1>1, <1>2, <1>3 DEF Next

-----------------------------------------------------------------------------
(* Theorems                                                                 *)

\* The invariant holds in every state of the plugin.
LEMMA Invariance == Spec => []IInv
<1>1. IInv /\ [Next]_vars => IInv'
  BY NextStep
<1> QED
  BY <1>1, InitIInv, PTL DEF Spec

\* Linked gives the two ways of a packet: what VPP writes for interface i goes
\* to a device whose packets come back to i.
LEMMA LinkedPointBack == IInv => TapsPointBack /\ NoOrphanTap
<1> SUFFICES ASSUME IInv PROVE TapsPointBack /\ NoOrphanTap
  OBVIOUS
<1>0. im \in MapType /\ fds \in FdType
  BY DEF IInv, TypeOK, MapType, FdType
<1>1. ASSUME NEW i \in Tapped(im)
      PROVE  /\ fds[im.fd_of[i]] = im.if_of[i] /\ im.if_of[i] # None
             /\ ToVpp(ToKernel(i)) = {i}
             /\ im.sw_of_if[im.if_of[i]] = i
  <2>1. /\ im.if_of[i] # None /\ fds[im.fd_of[i]] = im.if_of[i]
        /\ im.sw_of_fd[im.fd_of[i]] = i /\ im.sw_of_if[im.if_of[i]] = i
    BY DEF IInv, Linked
  <2>2. i \in Iface /\ im.fd_of[i] \in Fd /\ im.fd_of[i] # None /\ i # None
    BY <1>0, SetsAssumption DEF Tapped, MapType
  <2>3. ToKernel(i) = im.if_of[i]
    BY <2>1, <2>2 DEF ToKernel
  <2>4. {g \in Fd : fds[g] = im.if_of[i]} = {im.fd_of[i]}
    <3>1. ASSUME NEW g \in Fd, fds[g] = im.if_of[i] PROVE g = im.fd_of[i]
      BY <2>1, <2>2, <3>1, SMTT(30) DEF IInv, Linked
    <3> QED
      BY <2>1, <2>2, <3>1
  <2>5. ToVpp(im.if_of[i]) = {i}
    BY <2>1, <2>2, <2>4 DEF ToVpp
  <2> QED
    BY <2>1, <2>3, <2>5
<1>2. TapsPointBack
  BY <1>1 DEF TapsPointBack
<1>3. NoOrphanTap
  BY DEF IInv, Exact, NoOrphanTap
<1> QED
  BY <1>2, <1>3

\* For any interfaces, descriptors, devices and buffers: an interface's tap is
\* a live device that leads back to it in all four tables, the receive buffers
\* fit, and careful operators leak no descriptor.
THEOREM Sound == Spec => []TapsSound
<1>1. IInv => TapsSound
  BY LinkedPointBack DEF IInv, TapsSound
<1> QED
  BY <1>1, Invariance, PTL

\* The plugin implements the one-to-one pairing of VPP and kernel interfaces:
\* every step of it connects interfaces that are in no pair, ends all pairs, or
\* leaves what tap_inject_dump reports alone.
THEOREM Implements == Spec => PairingSpec
<1>1. Init => Pairing!Init
  <2> SUFFICES ASSUME Init PROVE Pairing!Init
    OBVIOUS
  <2>1. \A k \in Idx : im.sw_of_if[k] = None
    BY DEF Init
  <2>2. TapInjectDump = {}
    BY <2>1, SetsAssumption DEF TapInjectDump
  <2> QED
    BY <2>2 DEF Pairing!Init
<1>2. IInv /\ [Next]_vars => [Pairing!Next]_(IF careless THEN {} ELSE TapInjectDump)
  BY NextStep DEF PairStep, Pair
<1> QED
  BY <1>1, <1>2, Invariance, PTL DEF Spec, PairingSpec, Pairing!Spec

\* What the abstract specification promises of a pairing, the plugin's dump
\* keeps: no interface of either side is ever in two pairs.
THEOREM DumpOneToOne == Spec => [](~careless => Pairing!OneToOne(TapInjectDump))
<1>1. IInv => (~careless => Pairing!OneToOne(TapInjectDump))
  <2> SUFFICES ASSUME IInv, ~careless PROVE Pairing!OneToOne(TapInjectDump)
    OBVIOUS
  <2>1. ASSUME NEW x \in TapInjectDump
        PROVE  x \in Iface \X Idx /\ im.if_of[x[1]] = x[2] /\ im.sw_of_if[x[2]] = x[1]
    BY SetsAssumption DEF IInv, Exact, TapInjectDump
  <2>2. ASSUME NEW x \in TapInjectDump, NEW y \in TapInjectDump, x[1] = y[1] \/ x[2] = y[2]
        PROVE  x = y
    BY <2>1, <2>2
  <2> QED
    BY <2>2 DEF Pairing!OneToOne
<1> QED
  BY <1>1, Invariance, PTL
=============================================================================
