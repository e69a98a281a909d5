----------------------------- MODULE VppSession -----------------------------
(***************************************************************************)
(* The sessions of routerd with VPP's binary API. Every command of the VUI *)
(* thread and every update of the netlink thread connects, sends its       *)
(* requests, reads replies until it has what it wants or a wait times out, *)
(* and disconnects. The two threads share one api_main: one connection and *)
(* one reply queue, with no lock.                                          *)
(*                                                                         *)
(* External: VPP serves requests first in first out; each connection has a *)
(* fresh reply queue, and replies to a connection that is gone are lost; a *)
(* process that is connected already is refused another connection; a      *)
(* connection maps VPP's shared memory, and a disconnect, or the           *)
(* svm_region_exit of a command that could not connect, unmaps it for the  *)
(* whole process. A thread whose connection another thread takes down that *)
(* way may fault, which stops every thread, or go on with whatever         *)
(* connection is there.                                                    *)
(***************************************************************************)
EXTENDS Integers, Sequences, Functions

CONSTANTS
  Thread,       \* a subset of {"vui", "netlink"}
  Command,      \* [Thread -> the commands it runs]
  Ifaces,       \* VPP's interfaces, in its order
  HasAddr,      \* the <<interface, is_ipv6>> that have an address
  MaxCommands   \* bound: commands run in all

\* set: set_link, set_addr, set_route, set_interface_address, ip_adddel_route.
\* state: set_interface_state. loopback: create_loopback_interface.
\* tap-inject: enable_tap_inject. info: show_vpp_proc_info, show_vpp_node_info.
\* list: show_vpp_ip_fib, show_vpp_tap_inject, enable_cplane_netdev_sync.
\* interface: show_vpp_interface. open, close: vpe connect, vpe disconnect.
Commands == {"set", "state", "loopback", "tap-inject", "info", "list", "interface",
             "open", "close"}

Iface == Range(Ifaces)

ASSUME CommandAssumption == Command \in [Thread -> SUBSET Commands]
ASSUME InterfaceAssumption == Ifaces \in Seq(Iface) /\ HasAddr \subseteq Iface \X BOOLEAN
ASSUME BoundAssumption == MaxCommands \in Nat

VARIABLES
  client,   \* api_main: the command whose connection is open, 0 if none
  rx,       \* it has an rx pthread
  mapped,   \* external: VPP's shared memory is mapped
  toVpp,    \* requests VPP has not served
  queue,    \* am->vl_input_queue: replies not read
  applied,  \* external: the commands whose change VPP has made
  count,    \* commands started
  th,       \* [Thread -> what the thread is doing and what came of it]
  cut       \* history: a command took down the connection or the mapping
            \* that another thread was using

vars == <<client, rx, mapped, toVpp, queue, applied, count, th, cut>>

Idle == [pc |-> "idle", cmd |-> "none", n |-> 0, links |-> <<>>, addrs |-> <<>>,
         late |-> FALSE, result |-> "none"]

Init ==
  /\ client = 0 /\ rx = FALSE /\ mapped = FALSE /\ toVpp = <<>> /\ queue = <<>>
  /\ applied = {} /\ count = 0 /\ cut = FALSE
  /\ th = [t \in Thread |-> Idle]

Request(kind, arg) == [client |-> client, kind |-> kind, arg |-> arg]
Reply(kind, arg) == [kind |-> kind, arg |-> arg]

-----------------------------------------------------------------------------
(* VPP (external)                                                           *)

\* The details VPP answers a dump with, in its order.
Details(r) ==
  CASE r.kind = "interfaces" -> [i \in DOMAIN Ifaces |-> Reply("interface", Ifaces[i])]
    [] r.kind = "addresses" -> IF r.arg \in HasAddr THEN <<Reply("address", r.arg)>> ELSE <<>>
    [] r.kind = "list" -> <<Reply("entry", 0), Reply("entry", 1)>>
    [] r.kind = "ping" -> <<Reply("pong", 0)>>

Answer(rs) == queue' = IF Head(toVpp).client = client THEN queue \o rs ELSE queue

Serve ==
  /\ toVpp # <<>> /\ toVpp' = Tail(toVpp)
  /\ LET r == Head(toVpp)
     IN  IF r.kind = "change"
         THEN \/ applied' = applied \cup {r.client} /\ Answer(<<Reply("retval", "ok")>>)
              \/ applied' = applied /\ Answer(<<Reply("retval", "failed")>>)
         ELSE Answer(Details(r)) /\ UNCHANGED applied
  /\ UNCHANGED <<client, rx, mapped, count, th, cut>>

\* The rx pthread reads replies like the thread that waits for them, and has
\* no handler for any.
RxThread ==
  /\ rx /\ queue # <<>> /\ queue' = Tail(queue)
  /\ UNCHANGED <<client, rx, mapped, toVpp, applied, count, th, cut>>

-----------------------------------------------------------------------------
(* One command                                                              *)

\* vl_client_disconnect_from_vlib
Disconnect == client' = 0 /\ rx' = FALSE /\ mapped' = FALSE /\ queue' = <<>>

InCommand == \E t \in Thread : th[t].pc # "idle"

\* After a failed connect every command of the VUI calls svm_region_exit, the
\* updates of the netlink thread do not.
RegionExit(t) ==
  /\ mapped' = (mapped /\ t = "netlink")
  /\ cut' = (cut \/ (t # "netlink" /\ InCommand))

Report(t, result) == th' = [th EXCEPT ![t].pc = "idle", ![t].result = result]

\* connect_to_vpp: VPP may not be there; the process may be connected already.
Connect(t, c) ==
  /\ th[t].pc = "idle" /\ c \in Command[t] \ {"close"} /\ count < MaxCommands
  /\ count' = count + 1
  /\ \/ /\ client # 0 /\ RegionExit(t)
        /\ th' = [th EXCEPT ![t] = [Idle EXCEPT !.cmd = c, !.n = count + 1, !.result = "refused"]]
        /\ UNCHANGED <<client, rx, queue>>
     \/ /\ client = 0 /\ RegionExit(t)
        /\ th' = [th EXCEPT ![t] = [Idle EXCEPT !.cmd = c, !.n = count + 1, !.result = "unreachable"]]
        /\ UNCHANGED <<client, rx, queue>>
     \/ /\ client = 0
        /\ client' = count + 1 /\ rx' = (c \in {"loopback", "open"}) /\ mapped' = TRUE
        /\ queue' = <<>> /\ UNCHANGED cut
        /\ th' = [th EXCEPT ![t] = [Idle EXCEPT !.cmd = c, !.n = count + 1,
                                       !.pc = IF c = "open" THEN "idle" ELSE "send",
                                       !.result = IF c = "open" THEN "ok" ELSE "none"]]
  /\ UNCHANGED <<toVpp, applied>>

\* vpe_disconnect: whoever opened the connection, and if there is none.
Close(t) ==
  /\ th[t].pc = "idle" /\ "close" \in Command[t] /\ count < MaxCommands
  /\ Disconnect /\ count' = count + 1
  /\ cut' = (cut \/ InCommand)
  /\ th' = [th EXCEPT ![t] = [Idle EXCEPT !.cmd = "close", !.n = count + 1, !.result = "ok"]]
  /\ UNCHANGED <<toVpp, applied>>

\* Variant: the ping leaves before the dump.
SendPingFirst(t) ==
  /\ th[t].pc = "send"
  /\ LET c == th[t].cmd
     IN  /\ toVpp' = toVpp \o
              (CASE c = "interface" -> <<Request("ping", 0), Request("interfaces", 0)>>
                 [] c = "list" -> <<Request("list", 0), Request("ping", 0)>>
                 [] OTHER -> <<Request("change", 0)>>)
         /\ th' = [th EXCEPT ![t].pc = CASE c = "interface" -> "links"
                                         [] c = "list" -> "list"
                                         [] OTHER -> "wait"]
  /\ UNCHANGED <<client, rx, mapped, queue, applied, count, cut>>

Send(t) ==
  /\ th[t].pc = "send"
  /\ LET c == th[t].cmd
     IN  /\ toVpp' = toVpp \o
              (CASE c = "interface" -> <<Request("interfaces", 0), Request("ping", 0)>>
                 [] c = "list" -> <<Request("list", 0), Request("ping", 0)>>
                 [] OTHER -> <<Request("change", 0)>>)
         /\ th' = [th EXCEPT ![t].pc = CASE c = "interface" -> "links"
                                         [] c = "list" -> "list"
                                         [] OTHER -> "wait"]
  /\ UNCHANGED <<client, rx, mapped, queue, applied, count, cut>>

\* What a command makes of a reply, and of a timeout.
Replied(c, retval) == IF c \in {"tap-inject", "info"} THEN "ok" ELSE retval
TimedOut(c) == IF c \in {"set", "loopback", "info"} THEN "timeout" ELSE "ok"

\* What the commands with one request read as the reply's return value: it is
\* whatever stands there when the message is another one.
IsRetval(m, v) == m.kind = "retval" => m.arg = v

\* Variant: the error return leaves the connection open.
RetvalStays(t) ==
  /\ th[t].pc = "wait" /\ queue # <<>>
  /\ IF Head(queue).arg = "ok" THEN Disconnect ELSE UNCHANGED <<client, rx, mapped, queue>>
  /\ \E v \in {"ok", "failed"} : IsRetval(Head(queue), v) /\ Report(t, Replied(th[t].cmd, v))
  /\ UNCHANGED <<toVpp, applied, count, cut>>

\* The commands with one request: the first message is the reply.
Retval(t) ==
  /\ th[t].pc = "wait" /\ queue # <<>> /\ Disconnect
  /\ \E v \in {"ok", "failed"} : IsRetval(Head(queue), v) /\ Report(t, Replied(th[t].cmd, v))
  /\ UNCHANGED <<toVpp, applied, count, cut>>

\* list: entries until the pong.
ListEntry(t) ==
  /\ th[t].pc = "list" /\ queue # <<>>
  /\ IF Head(queue).kind = "pong"
     THEN Disconnect /\ Report(t, "ok")
     ELSE queue' = Tail(queue) /\ UNCHANGED <<client, rx, mapped, th>>
  /\ UNCHANGED <<toVpp, applied, count, cut>>

\* interface: each interface's two address dumps are requested while the
\* interfaces are still being read.
Link(t) ==
  /\ th[t].pc = "links" /\ queue # <<>> /\ queue' = Tail(queue)
  /\ LET m == Head(queue)
     IN  IF m.kind = "pong"
         THEN /\ toVpp' = Append(toVpp, Request("ping", 0))
              /\ th' = [th EXCEPT ![t].pc = "addrs"]
         ELSE /\ toVpp' = toVpp \o <<Request("addresses", <<m.arg, FALSE>>),
                                     Request("addresses", <<m.arg, TRUE>>)>>
              /\ th' = [th EXCEPT ![t].links = Append(@, m)]
  /\ UNCHANGED <<client, rx, mapped, applied, count, cut>>

\* The addresses are stored, up to the second pong; then the interfaces are
\* printed (Printed, below).
Address(t) ==
  /\ th[t].pc = "addrs" /\ queue # <<>>
  /\ LET m == Head(queue)
     IN  IF m.kind = "pong"
         THEN Disconnect /\ Report(t, "ok")
         ELSE /\ queue' = Tail(queue) /\ UNCHANGED <<client, rx, mapped>>
              /\ th' = [th EXCEPT ![t].addrs = Append(@, m)]
  /\ UNCHANGED <<toVpp, applied, count, cut>>

\* Variant: every command takes a timeout for success.
TimeoutSucceeds(t) ==
  /\ th[t].pc \in {"wait", "list", "addrs"} /\ queue = <<>>
  /\ Disconnect
  /\ th' = [th EXCEPT ![t].pc = "idle", ![t].late = TRUE, ![t].result = "ok"]
  /\ UNCHANGED <<toVpp, applied, count, cut>>

\* svm_queue_sub gives up on an empty queue. set_interface_state, enable_tap_inject
\* and the dumps report success all the same.
Timeout(t) ==
  /\ th[t].pc \in {"wait", "list", "addrs"} /\ queue = <<>>
  /\ Disconnect
  /\ th' = [th EXCEPT ![t].pc = "idle", ![t].late = TRUE,
                      ![t].result = TimedOut(th[t].cmd)]
  /\ UNCHANGED <<toVpp, applied, count, cut>>

\* Variant: the wait for the interfaces has no limit (SVM_Q_WAIT).
TimeoutLinksNever(t) ==
  /\ th[t].pc = "links" /\ FALSE
  /\ UNCHANGED vars

\* The interfaces are late: the addresses are asked for all the same.
TimeoutLinks(t) ==
  /\ th[t].pc = "links" /\ queue = <<>>
  /\ toVpp' = Append(toVpp, Request("ping", 0))
  /\ th' = [th EXCEPT ![t].pc = "addrs", ![t].late = TRUE]
  /\ UNCHANGED <<client, rx, mapped, queue, applied, count, cut>>

\* What show vpp interface prints when it is done: a paragraph for each
\* interface stored. The code that formats the stored addresses is commented
\* out, so each paragraph lists no address ("none").
Printed(s) ==
  IF s.cmd = "interface" /\ s.result = "ok"
  THEN {[idx |-> m.arg, internet |-> {}] : m \in Range(s.links)} ELSE {}

Step(t) ==
  \/ Send(t) \/ Retval(t) \/ ListEntry(t) \/ Link(t) \/ Address(t)
  \/ Timeout(t) \/ TimeoutLinks(t)

Next ==
  \/ Serve \/ RxThread
  \/ \E t \in Thread : Step(t) \/ Close(t) \/ \E c \in Commands : Connect(t, c)

Spec == Init /\ [][Next]_vars

\* A thread that waits goes on when a reply is there or the wait is over; VPP
\* need not answer at all.
FairSpec == Spec /\ \A t \in Thread : WF_vars(Step(t))

-----------------------------------------------------------------------------
(* Properties                                                               *)

TypeOK ==
  /\ client \in 0 .. MaxCommands /\ rx \in BOOLEAN /\ mapped \in BOOLEAN
  /\ count \in 0 .. MaxCommands /\ applied \subseteq 1 .. MaxCommands
  /\ \A t \in Thread :
       /\ th[t].pc \in {"idle", "send", "wait", "list", "links", "addrs"}
       /\ th[t].cmd \in Commands \cup {"none"} /\ th[t].n \in 0 .. MaxCommands
       /\ th[t].result \in {"none", "ok", "failed", "timeout", "refused", "unreachable"}

\* A command that changes VPP and reports success has changed it, however many
\* commands before it timed out and left requests or replies behind, and
\* whatever the other thread does short of taking its connection down. (Except
\* set interface state, for which a timeout is a success.)
SuccessIsReal ==
  ~cut => \A t \in Thread :
    th[t].cmd \in {"set", "loopback"} /\ th[t].result = "ok" => th[t].n \in applied

\* Every way out of a command closes its connection: with all threads idle the
\* process is connected only in a session vpe connect opened. A connection left
\* behind would refuse every later command.
SessionsEnd == ~InCommand /\ client # 0 => rx

\* A thread in a command has the connection to itself, and the shared memory is
\* mapped under it, although every connect and disconnect of either thread
\* replaces both for the whole process.
SessionsOwned ==
  \A t \in Thread : th[t].pc # "idle" =>
    /\ client = th[t].n /\ mapped
    /\ \A u \in Thread : th[u].pc # "idle" => u = t

\* show vpp interface takes interfaces for interfaces and addresses for
\* addresses: although address dumps are requested while interface details are
\* still arriving, the first pong separates the two, unless a wait was over
\* before VPP answered.
DetailsInPhase ==
  \A t \in Thread : ~th[t].late =>
    /\ \A m \in Range(th[t].links) : m.kind = "interface"
    /\ \A m \in Range(th[t].addrs) : m.kind = "address"

\* ... and the second pong comes after the last address: with no timeout the
\* command prints every interface, and has stored every address of it.
ShowComplete ==
  \A t \in Thread :
    th[t].cmd = "interface" /\ th[t].result = "ok" /\ ~th[t].late =>
      /\ {l.idx : l \in Printed(th[t])} = Iface
      /\ {m.arg : m \in Range(th[t].addrs)} = HasAddr

\* "Show VPP interface information", with "Internet address: ...": the
\* paragraph of an interface lists the addresses the interface has.
AddressesShown ==
  ~cut => \A t \in Thread :
    ~th[t].late => \A l \in Printed(th[t]) : l.internet = {a \in HasAddr : a[1] = l.idx}

\* No thread stays in a command: every wait has a limit.
CommandsEnd == \A t \in Thread : th[t].pc # "idle" ~> th[t].pc = "idle"

\* "netlinkd should be hookable following action very-very correctry": no
\* update of the netlink thread is dropped because a command of the VUI thread
\* happens to be connected.
UpdatesNotRefused == "netlink" \in Thread => th["netlink"].result # "refused"

\* No way out of a command leaves the session in a state the next one cannot
\* start from, and no command runs on a connection that is not its own, until
\* vpe disconnect or a failed connect of one thread takes the connection or
\* its memory away from a command of the other.
SessionsSound == ~cut => TypeOK /\ SessionsEnd /\ SessionsOwned

\* What show vpp interface stores is sorted into interfaces and addresses and
\* complete, and so is the list of the interfaces it prints.
ShowIsRight == ~cut => DetailsInPhase /\ ShowComplete
=============================================================================
