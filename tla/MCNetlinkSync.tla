---------------------------- MODULE MCNetlinkSync ----------------------------
(* Instances of NetlinkSync: kernel interfaces 1 and 2, of which the         *)
(* configuration pairs the first.                                            *)
EXTENDS NetlinkSync

CONSTANTS a1, g1, g2, d1, s1
Pair(k, v) == [kern_ifindex |-> k, vpp_ifindex |-> v]
OnePair == <<Pair(1, 1)>>
=============================================================================
