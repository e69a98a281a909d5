------------------------------ MODULE TapPairing ------------------------------
(***************************************************************************)
(* What the cplane_netdev plugin promises the routing daemon: at any time  *)
(* VPP interfaces and kernel interfaces are paired one to one. The daemon  *)
(* reads the pairing with tap_inject_dump and translates every netlink     *)
(* event through it.                                                       *)
(***************************************************************************)
CONSTANTS Iface, Idx   \* interface indices of VPP and of the kernel
VARIABLE pair          \* a set of <<VPP interface, kernel interface>>

OneToOne(p) == \A x, y \in p : x[1] = y[1] \/ x[2] = y[2] => x = y

Init == pair = {}

\* New pairs never touch an interface, of either side, that has one already.
Connect ==
  LET new == pair' \ pair
  IN  /\ pair \subseteq pair'
      /\ new # {} /\ new \subseteq Iface \X Idx /\ OneToOne(new)
      /\ \A x \in new, y \in pair : x[1] # y[1] /\ x[2] # y[2]

\* Pairs end all together.
DisconnectAll == pair' = {}

Next == Connect \/ DisconnectAll

Spec == Init /\ [][Next]_pair

\* The pairing is one to one.
Matching == OneToOne(pair)
=============================================================================
