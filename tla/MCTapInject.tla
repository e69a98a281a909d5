----------------------------- MODULE MCTapInject -----------------------------
(* Instance of TapInject: three interfaces, of which local0 (0) is not      *)
(* Ethernet. Descriptors and kernel indices are only compared, so they are   *)
(* symmetric; kernel indices bound how many taps are ever created.           *)
EXTENDS TapInject, TLC

CONSTANTS fd1, fd2, fd3, k1, k2, k3, k4
Ifaces == 0 .. 2
EthIfaces == {1, 2}
Fds == {fd1, fd2, fd3}
Kernel4 == {k1, k2, k3, k4}
Symmetry4 == Permutations(Fds) \cup Permutations(Kernel4)
=============================================================================
