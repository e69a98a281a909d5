----------------------------- MODULE MCTapMirror -----------------------------
(***************************************************************************)
(* Instances of TapMirror.  The name of node ip4nc (ip4-input-no-checksum) *)
(* begins with the name of node ip4 (ip4-input), tap10 begins with tap1;   *)
(* no node is called `ip', which both of them begin with.                  *)
(***************************************************************************)
EXTENDS TapMirror

CONSTANTS ip, ip4, ip4nc, arp, tap1, tap10, tap2

Reflexive(S) == {<<x, x>> : x \in S}

\* Three nodes, and a name that is no node's.
Nodes == {ip4, ip4nc, arp}
Names == Nodes \cup {ip}
NamesPrefix == Reflexive(Names) \cup {<<ip4nc, ip4>>, <<ip4nc, ip>>, <<ip4, ip>>}

\* Nodes whose names are no prefixes of one another.
PlainNodes == {ip4, arp}
PlainPrefix == Reflexive(PlainNodes)

Taps == {tap1, tap10}
TapsPrefix == Reflexive(Taps) \cup {<<tap10, tap1>>}
PlainTaps == {tap1, tap2}
PlainTapsPrefix == Reflexive(PlainTaps)
=============================================================================
