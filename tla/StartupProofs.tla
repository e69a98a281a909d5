---------------------------- MODULE StartupProofs ----------------------------
(***************************************************************************)
(* Proofs about Startup, for every try-count, interval, connection time    *)
(* and number of polls. The argument is a budget: as long as the VUI       *)
(* thread has not started, the clock never passes the end of the call the  *)
(* thread is blocked in, and that end never passes the seconds the         *)
(* commands up to that call may use; main's polls in turn never exceed the *)
(* clock. So main can only run out of polls when the whole budget allows   *)
(* that many seconds.                                                      *)
(***************************************************************************)
EXTENDS Startup, TLAPS

\* The longest turn of the loop of wait_startup_config_process_done.
Turn == ConnectTime + ReplyTime.wait + Interval

\* The seconds of the turns made when t tries are left.
Used(t) == (TryCount - t) * Turn

WaitTotal == TryCount * Turn
TapTotal == ConnectTime + ReplyTime.tap
SyncTotal == ConnectTime + ReplyTime.sync

InCall(t) == IF blocked = "call" THEN t ELSE 0

\* The seconds the VUI thread may have used by the end of its current call.
Spent ==
  /\ vui = 1 => vuiWake = 0 /\ tries = TryCount
  /\ vui = 2 => vuiWake <= Used(tries) + InCall(ConnectTime + ReplyTime.wait)
  /\ vui = 3 => vuiWake <= WaitTotal + InCall(TapTotal)
  /\ vui = 4 => vuiWake <= WaitTotal + TapTotal + InCall(SyncTotal)
  /\ vui = 5 => vuiWake <= WaitTotal + TapTotal + SyncTotal

Control ==
  /\ blocked = "sleep" => vui = 2
  /\ blocked = "call" => vui \in 2 .. 4
  /\ vui = 2 /\ blocked # "sleep" => tries > 0
  /\ vui_manager_started => vui = 5
  /\ netlink => vui_manager_started
  /\ main = "join" => vui_manager_started

Clock ==
  /\ ~vui_manager_started => now <= vuiWake
  /\ polls <= mainWake
  /\ main = "decide" /\ ~vui_manager_started => polls = Polls /\ mainWake <= now

IInv == TypeOK /\ Control /\ Spent /\ Clock /\ QuitsOnlyWhenLate

-----------------------------------------------------------------------------

\* The commands of the configuration file, and how long their replies may take.
LEMMA ConfigFacts ==
  /\ Len(Config) = 4
  /\ Config[1] = "monitor" /\ Config[2] = "wait" /\ Config[3] = "tap-inject" /\ Config[4] = "sync"
  /\ ReplyTime.wait = 1 /\ ReplyTime.tap = 1 /\ ReplyTime.sync = 3
BY DEF Config, ReplyTime

\* The times of the start are natural numbers, and the budget is their sum.
LEMMA TotalFacts ==
  /\ Turn \in Nat /\ Turn = ConnectTime + 1 + Interval
  /\ WaitTotal \in Nat
  /\ TapTotal \in Nat /\ TapTotal = ConnectTime + 1
  /\ SyncTotal \in Nat /\ SyncTotal = ConnectTime + 3
  /\ Budget = WaitTotal + TapTotal + SyncTotal
<1>1. Turn \in Nat /\ Turn = ConnectTime + 1 + Interval
  BY StartupAssumption, ConfigFacts DEF Turn
<1>2. WaitTotal \in Nat
  BY <1>1, StartupAssumption DEF WaitTotal
<1>3. /\ TapTotal \in Nat /\ TapTotal = ConnectTime + 1
      /\ SyncTotal \in Nat /\ SyncTotal = ConnectTime + 3
  BY StartupAssumption, ConfigFacts DEF TapTotal, SyncTotal
<1>4. Budget = WaitTotal + TapTotal + SyncTotal
  BY <1>1, <1>2, <1>3, StartupAssumption, ConfigFacts DEF Budget, WaitTotal, TapTotal, SyncTotal, Turn
<1> QED  BY <1>1, <1>2, <1>3, <1>4

\* A try more costs one turn, and no try is left only when all were paid for.
LEMMA UsedFacts ==
  /\ Used(TryCount) = 0
  /\ Used(0) = WaitTotal
  /\ \A t \in 1 .. TryCount : Used(t) \in Nat /\ Used(t - 1) = Used(t) + Turn
                              /\ Used(t) + Turn <= WaitTotal
<1>1. PICK T \in Nat : T = Turn  BY TotalFacts
<1>2. /\ (TryCount - TryCount) * T = 0
      /\ (TryCount - 0) * T = TryCount * T
  BY <1>1, StartupAssumption
<1>3. ASSUME NEW t \in 1 .. TryCount
      PROVE  /\ (TryCount - t) * T \in Nat
             /\ (TryCount - (t - 1)) * T = (TryCount - t) * T + T
             /\ (TryCount - t) * T + T <= TryCount * T
  <2>1. PICK d \in Nat : d = TryCount - t  BY <1>3, StartupAssumption
  <2>2. TryCount - (t - 1) = d + 1 /\ t - 1 \in Nat /\ TryCount = (d + 1) + (t - 1)
    BY <2>1, StartupAssumption
  <2>3. d * T \in Nat /\ (d + 1) * T = d * T + T  BY <1>1, <2>1
  <2>4. (t - 1) * T \in Nat  BY <1>1, <2>2
  <2>5. TryCount * T = (d + 1) * T + (t - 1) * T  BY <1>1, <2>1, <2>2
  <2> QED  BY <1>1, <2>1, <2>2, <2>3, <2>4, <2>5
<1> QED  BY <1>1, <1>2, <1>3 DEF Used, WaitTotal

-----------------------------------------------------------------------------

\* The start begins in the invariant.
LEMMA InitIInv == Init => IInv
<1> SUFFICES ASSUME Init PROVE IInv  OBVIOUS
<1>1. vui \in {1, 5}  BY ConfigFacts DEF Init
<1>2. TypeOK
  <2>1. vui_manager_started \in BOOLEAN /\ monitor \in BOOLEAN /\ netlink \in BOOLEAN
        /\ vppDone \in BOOLEAN /\ hasty \in BOOLEAN
    BY Zenon DEF Init
  <2> QED  BY <1>1, <2>1, StartupAssumption, ConfigFacts DEF Init, TypeOK
<1>3. Control  BY <1>1 DEF Init, Control
<1>4. Spent  BY <1>1, TotalFacts, StartupAssumption DEF Init, Spent
<1>5. Clock  BY StartupAssumption DEF Init, Clock
<1>6. QuitsOnlyWhenLate  BY DEF Init, QuitsOnlyWhenLate
<1> QED  BY <1>2, <1>3, <1>4, <1>5, <1>6 DEF IInv

\* The types are kept by every step.
LEMMA StepTypes == IInv /\ [Next]_vars => TypeOK'
<1> SUFFICES ASSUME IInv, [Next]_vars PROVE TypeOK'  OBVIOUS
<1> USE ConfigFacts, StartupAssumption DEF IInv, TypeOK, MainVars, VuiVars
<1>1. CASE MainPoll
  <2>1. polls' \in 0 .. Polls /\ mainWake' \in Nat /\ main' \in {"poll", "decide"}
    BY <1>1 DEF MainPoll
  <2> QED  BY <1>1, <2>1 DEF MainPoll
<1>2. CASE MainDecide  BY <1>2 DEF MainDecide
<1>3. CASE Monitor  BY <1>3 DEF Monitor, VuiAt, NextCommand
<1>4. CASE Wait  BY <1>4 DEF Wait, VuiAt, NextCommand, Call, Control
<1>5. CASE TapInject
  <2>1. hasty' \in BOOLEAN  BY <1>5, Zenon DEF TapInject
  <2> QED  BY <1>5, <2>1 DEF TapInject, VuiAt, NextCommand, Call
<1>6. CASE Sync  BY <1>6 DEF Sync, VuiAt, NextCommand, Call
<1>7. CASE Started  BY <1>7 DEF Started
<1>8. ASSUME NEW b \in BOOLEAN, MonitorCommand(b) PROVE TypeOK'
  BY <1>8 DEF MonitorCommand
<1>9. CASE VppFinishes  BY <1>9 DEF VppFinishes
<1>10. CASE Tick  BY <1>10 DEF Tick
<1>11. CASE UNCHANGED vars  BY <1>11 DEF vars
<1> QED
  BY <1>1, <1>2, <1>3, <1>4, <1>5, <1>6, <1>7, <1>8, <1>9, <1>10, <1>11 DEF Next, VuiManager

\* So is what relates the position of the VUI thread to the flags.
LEMMA StepControl == IInv /\ [Next]_vars => Control'
<1> SUFFICES ASSUME IInv, [Next]_vars PROVE Control'  OBVIOUS
<1> USE ConfigFacts, StartupAssumption DEF IInv, TypeOK, Control, MainVars, VuiVars
<1>1. CASE MainPoll  BY <1>1 DEF MainPoll
<1>2. CASE MainDecide  BY <1>2 DEF MainDecide
<1>3. CASE Monitor  BY <1>3 DEF Monitor, VuiAt, NextCommand, Spent
<1>4. CASE Wait  BY <1>4 DEF Wait, VuiAt, NextCommand, Call
<1>5. CASE TapInject  BY <1>5 DEF TapInject, VuiAt, NextCommand, Call
<1>6. CASE Sync  BY <1>6 DEF Sync, VuiAt, NextCommand, Call
<1>7. CASE Started  BY <1>7 DEF Started
<1>8. ASSUME NEW b \in BOOLEAN, MonitorCommand(b) PROVE Control'
  BY <1>8 DEF MonitorCommand
<1>9. CASE VppFinishes  BY <1>9 DEF VppFinishes
<1>10. CASE Tick  BY <1>10 DEF Tick
<1>11. CASE UNCHANGED vars  BY <1>11 DEF vars
<1> QED
  BY <1>1, <1>2, <1>3, <1>4, <1>5, <1>6, <1>7, <1>8, <1>9, <1>10, <1>11 DEF Next, VuiManager

\* The VUI thread never uses more time than its commands may take. Only its
\* own steps move vuiWake; each one starts at the end of the call before it.
LEMMA StepSpent == IInv /\ [Next]_vars => Spent'
<1> SUFFICES ASSUME IInv, [Next]_vars PROVE Spent'  OBVIOUS
<1> USE ConfigFacts, StartupAssumption, TotalFacts, UsedFacts DEF IInv
<1>0. ASSUME UNCHANGED <<vui, tries, vuiWake, blocked>> PROVE Spent'
  BY <1>0 DEF Spent, InCall
<1>1. CASE MainPoll  BY <1>0, <1>1 DEF MainPoll, VuiVars
<1>2. CASE MainDecide  BY <1>0, <1>2 DEF MainDecide, VuiVars
<1>3. CASE Monitor
  <2>1. vui = 1 /\ vui' = 2 /\ vuiWake' = 0 /\ tries' = TryCount /\ blocked' = "no"
    BY <1>3 DEF Monitor, VuiAt, NextCommand, Spent, TypeOK
  <2> QED  BY <2>1 DEF Spent, InCall
<1>4. CASE Wait
  <2>1. vui = 2 /\ vuiWake = now /\ vuiWake <= Used(tries) + InCall(ConnectTime + 1)
        /\ now \in Nat /\ tries \in 0 .. TryCount
    BY <1>4 DEF Wait, VuiAt, Spent, Clock, Control, TypeOK
  <2>2. ASSUME vui' = 3, blocked' = "no", vuiWake' <= WaitTotal PROVE Spent'
    BY <2>2 DEF Spent, InCall
  <2>3. ASSUME vui' = 2, vuiWake' <= Used(tries') + InCall(ConnectTime + 1)' PROVE Spent'
    BY <2>3 DEF Spent, InCall
  <2>4. CASE Call(ReplyTime.wait) /\ UNCHANGED <<vui, tries>>
    BY <2>1, <2>3, <2>4 DEF Call, InCall, Control
  <2>5. CASE blocked = "call" /\ NextCommand /\ UNCHANGED tries
    BY <2>1, <2>2, <2>5 DEF NextCommand, InCall, Control
  <2>6. CASE /\ blocked = "call" /\ tries' = tries - 1 /\ blocked' = "sleep"
             /\ vuiWake' = now + Interval /\ UNCHANGED vui
    BY <2>1, <2>3, <2>6 DEF InCall, Control
  <2>7. CASE blocked = "sleep" /\ UNCHANGED <<vui, vuiWake, tries>> /\ blocked' = "no"
    BY <2>1, <2>3, <2>7 DEF InCall
  <2>8. CASE blocked = "sleep" /\ ~(tries > 0) /\ NextCommand /\ UNCHANGED tries
    BY <2>1, <2>2, <2>8 DEF InCall, NextCommand
  <2> QED  BY <1>4, <2>4, <2>5, <2>6, <2>7, <2>8 DEF Wait
<1>5. CASE TapInject
  <2>1. vui = 3 /\ vuiWake = now /\ vuiWake <= WaitTotal + InCall(TapTotal) /\ now \in Nat
    BY <1>5 DEF TapInject, VuiAt, Spent, Clock, Control, TypeOK
  <2>2. CASE Call(ReplyTime.tap) /\ UNCHANGED vui
    BY <2>1, <2>2 DEF Call, InCall, Spent
  <2>3. CASE blocked = "call" /\ NextCommand
    BY <2>1, <2>3 DEF NextCommand, InCall, Spent
  <2> QED  BY <1>5, <2>2, <2>3 DEF TapInject
<1>6. CASE Sync
  <2>1. vui = 4 /\ vuiWake = now /\ vuiWake <= WaitTotal + TapTotal + InCall(SyncTotal)
        /\ now \in Nat
    BY <1>6 DEF Sync, VuiAt, Spent, Clock, Control, TypeOK
  <2>2. CASE Call(ReplyTime.sync) /\ UNCHANGED vui
    BY <2>1, <2>2 DEF Call, InCall, Spent
  <2>3. CASE blocked = "call" /\ NextCommand
    BY <2>1, <2>3 DEF NextCommand, InCall, Spent
  <2> QED  BY <1>6, <2>2, <2>3 DEF Sync
<1>7. CASE Started  BY <1>0, <1>7 DEF Started
<1>8. ASSUME NEW b \in BOOLEAN, MonitorCommand(b) PROVE Spent'
  BY <1>0, <1>8 DEF MonitorCommand
<1>9. CASE VppFinishes  BY <1>0, <1>9 DEF VppFinishes, VuiVars
<1>10. CASE Tick  BY <1>0, <1>10 DEF Tick, VuiVars
<1>11. CASE UNCHANGED vars  BY <1>0, <1>11 DEF vars
<1> QED
  BY <1>1, <1>2, <1>3, <1>4, <1>5, <1>6, <1>7, <1>8, <1>9, <1>10, <1>11 DEF Next, VuiManager

\* The clock waits for a VUI thread that can run, and main's polls for the clock.
LEMMA StepClock == IInv /\ [Next]_vars => Clock'
<1> SUFFICES ASSUME IInv, [Next]_vars PROVE Clock'  OBVIOUS
<1> USE ConfigFacts, StartupAssumption DEF IInv, TypeOK, Clock, MainVars, VuiVars
<1>1. CASE MainPoll  BY <1>1 DEF MainPoll
<1>2. CASE MainDecide  BY <1>2 DEF MainDecide
<1>3. CASE Monitor  BY <1>3 DEF Monitor, NextCommand
<1>4. CASE Wait  BY <1>4 DEF Wait, NextCommand, Call
<1>5. CASE TapInject  BY <1>5 DEF TapInject, NextCommand, Call
<1>6. CASE Sync  BY <1>6 DEF Sync, NextCommand, Call
<1>7. CASE Started  BY <1>7 DEF Started
<1>8. ASSUME NEW b \in BOOLEAN, MonitorCommand(b) PROVE Clock'
  BY <1>8 DEF MonitorCommand
<1>9. CASE VppFinishes  BY <1>9 DEF VppFinishes
<1>10. CASE Tick  BY <1>10 DEF Tick
<1>11. CASE UNCHANGED vars  BY <1>11 DEF vars
<1> QED
  BY <1>1, <1>2, <1>3, <1>4, <1>5, <1>6, <1>7, <1>8, <1>9, <1>10, <1>11 DEF Next, VuiManager

\* main only exits when the clock, hence the budget, has reached its last poll.
LEMMA StepQuit == IInv /\ [Next]_vars => QuitsOnlyWhenLate'
<1> SUFFICES ASSUME IInv, [Next]_vars, main' = "exited" PROVE Budget >= Polls
  BY DEF QuitsOnlyWhenLate
<1>1. CASE main = "exited"  BY <1>1 DEF IInv, QuitsOnlyWhenLate
<1>2. CASE main # "exited"
  <2>1. MainDecide
    BY <1>2 DEF Next, vars, MainPoll, VuiManager, Monitor, Wait, TapInject, Sync, Started,
                MonitorCommand, VppFinishes, Tick, MainVars
  <2>2. main = "decide" /\ ~vui_manager_started  BY <2>1 DEF MainDecide
  <2>3. polls = Polls /\ mainWake <= now /\ now <= vuiWake /\ polls <= mainWake
    BY <2>2 DEF IInv, Clock
  <2>4. vuiWake <= Budget
    <3> USE ConfigFacts, StartupAssumption, TotalFacts, UsedFacts DEF IInv, TypeOK
    <3>1. CASE vui = 1  BY <3>1 DEF Spent
    <3>2. CASE vui = 2
      <4>1. tries = 0 => blocked = "sleep"  BY <3>2 DEF Control
      <4> QED  BY <3>2, <4>1 DEF Spent, InCall
    <3>3. CASE vui \in {3, 4, 5}  BY <3>3 DEF Spent, InCall
    <3> QED  BY <3>1, <3>2, <3>3
  <2> QED
    BY <2>3, <2>4, TotalFacts, StartupAssumption DEF IInv, TypeOK
<1> QED  BY <1>1, <1>2

\* IInv is inductive.
THEOREM Invariance == Spec => []IInv
<1>1. IInv /\ [Next]_vars => IInv'
  BY StepTypes, StepControl, StepSpent, StepClock, StepQuit DEF IInv
<1> QED  BY InitIInv, <1>1, PTL DEF Spec

\* Startup is type correct (main.cc, vpp_cli.c).
THEOREM TypeCorrect == Spec => []TypeOK
<1>1. IInv => TypeOK  BY DEF IInv
<1> QED  BY Invariance, <1>1, PTL

\* The netlink thread is never started before the configuration file has been
\* read to its end (main.cc: vui_manager_started is set after vui_read_conf).
THEOREM ConfigFirst == Spec => []NetlinkAfterConfig
<1>1. IInv => NetlinkAfterConfig
  BY ConfigFacts DEF IInv, Control, NetlinkAfterConfig
<1> QED  BY Invariance, <1>1, PTL

\* main exits while the VUI thread is still busy only if the file's commands
\* may take as many seconds as main polls: for any try-count and interval with
\* Budget < Polls routerd never gives up on a slow VPP.
THEOREM NoEarlyQuit == Spec => []QuitsOnlyWhenLate
<1>1. IInv => QuitsOnlyWhenLate  BY DEF IInv
<1> QED  BY Invariance, <1>1, PTL

-----------------------------------------------------------------------------
\* How the VUI thread gets past the wait: VPP was done, which it stays, or no
\* try is left, and tries is not touched later.
WaitOver ==
  /\ vui = 3 => vppDone \/ tries = 0
  /\ hasty => vui > 2 /\ tries = 0

\* Once the wait for VPP is over it stays over.
LEMMA StepWaitOver == IInv /\ WaitOver /\ [Next]_vars => WaitOver'
<1> SUFFICES ASSUME IInv, WaitOver, [Next]_vars PROVE WaitOver'  OBVIOUS
<1> USE ConfigFacts, StartupAssumption DEF IInv, TypeOK, WaitOver, MainVars, VuiVars
<1>1. CASE MainPoll  BY <1>1 DEF MainPoll
<1>2. CASE MainDecide  BY <1>2 DEF MainDecide
<1>3. CASE Monitor  BY <1>3 DEF Monitor, VuiAt, NextCommand
<1>4. CASE Wait  BY <1>4 DEF Wait, VuiAt, NextCommand, Call
<1>5. CASE TapInject  BY <1>5 DEF TapInject, VuiAt, NextCommand, Call
<1>6. CASE Sync  BY <1>6 DEF Sync, VuiAt, NextCommand, Call
<1>7. CASE Started  BY <1>7 DEF Started
<1>8. ASSUME NEW b \in BOOLEAN, MonitorCommand(b) PROVE WaitOver'
  BY <1>8 DEF MonitorCommand
<1>9. CASE VppFinishes  BY <1>9 DEF VppFinishes
<1>10. CASE Tick  BY <1>10 DEF Tick
<1>11. CASE UNCHANGED vars  BY <1>11 DEF vars
<1> QED
  BY <1>1, <1>2, <1>3, <1>4, <1>5, <1>6, <1>7, <1>8, <1>9, <1>10, <1>11 DEF Next, VuiManager

\* wait-startup-config-process-done lets enable tap-inject reach a VPP that is
\* still starting only after all its tries, for every try-count and interval.
THEOREM WaitHonest == Spec => []HastyOnlyWhenSpent
<1>1. Init => WaitOver  BY ConfigFacts DEF Init, WaitOver
<1>2. WaitOver => HastyOnlyWhenSpent  BY DEF WaitOver, HastyOnlyWhenSpent
<1> QED  BY Invariance, StepWaitOver, <1>1, <1>2, PTL DEF Spec

\* The order of the start, as it is model-checked (main, vui_manager,
\* wait_startup_config_process_done).
THEOREM OrderKept == Spec => []StartOrdered
BY ConfigFirst, WaitHonest, PTL DEF StartOrdered
=============================================================================
