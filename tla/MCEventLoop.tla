---------------------------- MODULE MCEventLoop ----------------------------
EXTENDS EventLoop
CONSTANTS o1, o2, h1

MCObj == {o1, o2}
MCUses == [o \in MCObj |-> IF o = o1 THEN {"READ", "TIMER", "EVENT"} ELSE {"READ", "WRITE"}]
MCHelper == {h1}
MCHelperKinds == {"READ"}
MCAsync == {<<o1, "TIMER">>}
MCClosable == {o2}
=============================================================================
