---------------------------- MODULE MCVppSession ----------------------------
(* Instances of VppSession: the VUI thread with every command and the        *)
(* netlink thread with its updates.                                          *)
EXTENDS VppSession

CONSTANTS if0, if1

BothThreads == {"vui", "netlink"}
CommandsAndUpdates == [t \in {"vui", "netlink"} |-> IF t = "vui" THEN Commands ELSE {"set"}]
ShowAndUpdate == [t \in {"vui", "netlink"} |-> IF t = "vui" THEN {"list", "interface"} ELSE {"set"}]
TwoIfaces == <<if0, if1>>
Addresses == {<<if0, FALSE>>, <<if1, FALSE>>, <<if1, TRUE>>}
=============================================================================
