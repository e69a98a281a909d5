------------------------------- MODULE Startup -------------------------------
(***************************************************************************)
(* How routerd starts. main launches the VUI thread (vui_manager), which   *)
(* reads the configuration file and runs its commands before it says       *)
(* vui_manager_started; main polls that flag once a second, gives up after *)
(* ten polls, and then starts the netlink thread if the monitor is enabled *)
(* at that moment. The commands of routerd.conf talk to VPP, which may     *)
(* still be running its own startup configuration.                         *)
(*                                                                         *)
(* Time is counted in seconds. The threads run as soon as they can: the    *)
(* clock only advances while every thread of them sleeps or waits for VPP. *)
(***************************************************************************)
EXTENDS Integers, Sequences

CONSTANTS
  Polls,       \* turns of main's loop, 10
  TryCount,    \* wait-startup-config-process-done try-count <(1-99)>
  Interval,    \* ... interval <(0-10)>
  ConnectTime, \* external: seconds connect_to_vpp may take
  MonitorLine  \* the netlink node of the file says monitor enable (else disable)

ASSUME StartupAssumption ==
  /\ Polls \in Nat /\ TryCount \in Nat \ {0} /\ Interval \in Nat /\ ConnectTime \in Nat
  /\ MonitorLine \in BOOLEAN

\* The commands of routerd.conf, in its order.
Config == <<"monitor", "wait", "tap-inject", "sync">>

\* The SVM_Q_TIMEDWAIT limits of the replies they wait for, in seconds.
ReplyTime == [wait |-> 1, tap |-> 1, sync |-> 3]

VARIABLES
  now,          \* the clock
  main, polls, mainWake,   \* main: "poll", "decide", "join" or "exited"; turns; end of its sleep
  vui, tries, vuiWake,     \* VUI thread: the command of Config it runs; tries of wait left; end of
                           \* the call it is blocked in
  blocked,      \* what the VUI thread is blocked in: "no", "call" or "sleep"
  vui_manager_started,
  monitor,      \* _netlink_monitor_is_enable
  netlink,      \* the netlink thread runs
  vppDone,      \* VPP's startup-config-process is done (external)
  hasty         \* tap-inject was requested before that

vars == <<now, main, polls, mainWake, vui, tries, vuiWake, blocked, vui_manager_started,
          monitor, netlink, vppDone, hasty>>

Init ==
  /\ now = 0
  /\ main = "poll" /\ polls = 0 /\ mainWake = 0
  /\ vui \in {1, Len(Config) + 1}   \* no file: no command
  /\ tries = TryCount /\ vuiWake = 0 /\ blocked = "no"
  /\ vui_manager_started = FALSE
  /\ monitor = FALSE /\ netlink = FALSE
  /\ vppDone \in BOOLEAN /\ hasty = FALSE

-----------------------------------------------------------------------------
(* main                                                                     *)

MainVars == <<main, polls, mainWake>>
VuiVars == <<vui, tries, vuiWake, blocked, vui_manager_started, monitor, hasty>>

\* One turn of the loop: break, or sleep(1); or its end.
MainPoll ==
  /\ main = "poll" /\ mainWake <= now
  /\ IF vui_manager_started \/ polls = Polls
     THEN main' = "decide" /\ UNCHANGED <<polls, mainWake>>
     ELSE polls' = polls + 1 /\ mainWake' = now + 1 /\ UNCHANGED main
  /\ UNCHANGED <<now, VuiVars, netlink, vppDone>>

\* Variant: main waits for the monitor to be enabled.
MainDecideWaits ==
  /\ main = "decide" /\ (vui_manager_started => monitor)
  /\ main' = IF vui_manager_started THEN "join" ELSE "exited"
  /\ netlink' = (vui_manager_started /\ monitor)
  /\ UNCHANGED <<now, polls, mainWake, VuiVars, vppDone>>

\* exit(1), or the netlink thread if it is configured; then join.
MainDecide ==
  /\ main = "decide"
  /\ main' = IF vui_manager_started THEN "join" ELSE "exited"
  /\ netlink' = (vui_manager_started /\ monitor)
  /\ UNCHANGED <<now, polls, mainWake, VuiVars, vppDone>>

-----------------------------------------------------------------------------
(* vui_manager: the commands of the configuration file                      *)

VuiAt(command) ==
  /\ main # "exited" /\ vui <= Len(Config) /\ Config[vui] = command /\ vuiWake <= now

NextCommand == vui' = vui + 1 /\ blocked' = "no" /\ UNCHANGED vuiWake

\* connect_to_vpp and the wait for the reply, limited to t seconds.
Call(t) ==
  /\ blocked = "no" /\ blocked' = "call"
  /\ \E d \in 0 .. ConnectTime + t : vuiWake' = now + d

Monitor ==
  /\ VuiAt("monitor")
  /\ monitor' = MonitorLine /\ NextCommand
  /\ UNCHANGED <<now, MainVars, tries, vui_manager_started, netlink, vppDone, hasty>>

\* Variant: try_cnt is not a limit; the command returns only when VPP is done.
WaitForever ==
  /\ VuiAt("wait")
  /\ \/ Call(ReplyTime.wait) /\ UNCHANGED vui
     \/ blocked = "call" /\ vppDone /\ NextCommand
     \/ blocked = "call" /\ blocked' = "sleep" /\ vuiWake' = now + Interval /\ UNCHANGED vui
     \/ blocked = "sleep" /\ blocked' = "no" /\ UNCHANGED <<vui, vuiWake>>
  /\ UNCHANGED <<now, MainVars, tries, vui_manager_started, monitor, netlink, vppDone, hasty>>

\* wait_startup_config_process_done: vpp_startup_config_process_is_done, and
\* sleep(interval) after every try that says no or times out.
Wait ==
  /\ VuiAt("wait")
  /\ \/ Call(ReplyTime.wait) /\ UNCHANGED <<vui, tries>>
     \/ /\ blocked = "call"
        /\ \/ vppDone /\ NextCommand /\ UNCHANGED tries
           \/ /\ tries' = tries - 1 /\ blocked' = "sleep" /\ vuiWake' = now + Interval
              /\ UNCHANGED vui
     \/ /\ blocked = "sleep"
        /\ IF tries > 0 THEN blocked' = "no" /\ UNCHANGED <<vui, vuiWake>> ELSE NextCommand
        /\ UNCHANGED tries
  /\ UNCHANGED <<now, MainVars, vui_manager_started, monitor, netlink, vppDone, hasty>>

\* enable tap-inject: CMD_SUCCESS whatever VPP says.
TapInject ==
  /\ VuiAt("tap-inject")
  /\ \/ Call(ReplyTime.tap) /\ hasty' = ~vppDone /\ UNCHANGED vui
     \/ blocked = "call" /\ NextCommand /\ UNCHANGED hasty
  /\ UNCHANGED <<now, MainVars, tries, vui_manager_started, monitor, netlink, vppDone>>

\* enable cplane-netdev sync
Sync ==
  /\ VuiAt("sync")
  /\ \/ Call(ReplyTime.sync) /\ UNCHANGED vui
     \/ blocked = "call" /\ NextCommand
  /\ UNCHANGED <<now, MainVars, tries, vui_manager_started, monitor, netlink, vppDone, hasty>>

\* Variant: the flag is set before the configuration is read.
StartedFirst ==
  /\ ~vui_manager_started /\ main # "exited"
  /\ vui_manager_started' = TRUE
  /\ UNCHANGED <<now, MainVars, vui, tries, vuiWake, blocked, monitor, netlink, vppDone, hasty>>

\* vui_read_conf is over.
Started ==
  /\ vui > Len(Config) /\ ~vui_manager_started /\ main # "exited"
  /\ vui_manager_started' = TRUE
  /\ UNCHANGED <<now, MainVars, vui, tries, vuiWake, blocked, monitor, netlink, vppDone, hasty>>

\* vui_run: an operator types monitor enable or monitor disable.
MonitorCommand(is_enable) ==
  /\ vui_manager_started /\ main # "exited"
  /\ monitor' = is_enable
  /\ UNCHANGED <<now, MainVars, vui, tries, vuiWake, blocked, vui_manager_started,
                 netlink, vppDone, hasty>>

VuiManager == Monitor \/ Wait \/ TapInject \/ Sync \/ Started

-----------------------------------------------------------------------------
(* VPP and the clock (external)                                             *)

VppFinishes ==
  /\ ~vppDone /\ vppDone' = TRUE
  /\ UNCHANGED <<now, MainVars, VuiVars, netlink>>

Tick ==
  /\ main = "poll" /\ mainWake > now
  /\ vui_manager_started \/ vuiWake > now
  /\ now' = now + 1
  /\ UNCHANGED <<MainVars, VuiVars, netlink, vppDone>>

Next ==
  \/ MainPoll \/ MainDecide \/ VuiManager \/ VppFinishes \/ Tick
  \/ \E is_enable \in BOOLEAN : MonitorCommand(is_enable)

Spec == Init /\ [][Next]_vars

\* Threads that can run do run, and time passes.
FairSpec == Spec /\ WF_vars(MainPoll) /\ WF_vars(MainDecide) /\ WF_vars(VuiManager) /\ WF_vars(Tick)

-----------------------------------------------------------------------------
(* Properties                                                               *)

TypeOK ==
  /\ now \in Nat /\ polls \in 0 .. Polls /\ mainWake \in Nat /\ vuiWake \in Nat
  /\ main \in {"poll", "decide", "join", "exited"}
  /\ vui \in 1 .. Len(Config) + 1 /\ tries \in 0 .. TryCount
  /\ blocked \in {"no", "call", "sleep"}
  /\ vui_manager_started \in BOOLEAN /\ monitor \in BOOLEAN /\ netlink \in BOOLEAN
  /\ vppDone \in BOOLEAN /\ hasty \in BOOLEAN

\* The seconds the configuration file can keep the VUI thread busy.
Budget ==
  TryCount * (ConnectTime + ReplyTime.wait + Interval)
    + (ConnectTime + ReplyTime.tap) + (ConnectTime + ReplyTime.sync)

\* The netlink thread only runs when the configuration has been read to its
\* end, so the interface pairs that enable cplane-netdev sync adds are there
\* when it synchronises VPP, and no command of the file races with it.
NetlinkAfterConfig == netlink => vui > Len(Config)

\* main gives up on a VUI thread that is merely slow only if the commands of
\* the configuration file can take as long as its polls: with a smaller
\* try-count and interval routerd never exits while it starts.
QuitsOnlyWhenLate == main = "exited" => Budget >= Polls

\* If the configuration fits in the time main waits, routerd comes up, whatever
\* VPP answers and whether or not VPP ever finishes its own startup.
StartsUp == Budget < Polls => <>(main = "join")

\* "Wait VPP's startup-config-process was done": enable tap-inject reaches a VPP
\* that is still starting only if every try of the wait was used up.
HastyOnlyWhenSpent == hasty => tries = 0

\* The parts start in their order: VPP before the taps unless the wait for it was used
\* up, and the configuration before the netlink thread (main, vui_manager,
\* wait_startup_config_process_done).
StartOrdered == NetlinkAfterConfig /\ HastyOnlyWhenSpent

=============================================================================
