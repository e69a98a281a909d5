----------------------------- MODULE NetlinkSync -----------------------------
(***************************************************************************)
(* The netlink thread of routerd (netlink_manager): it subscribes to       *)
(* rtnetlink, reads the kernel's links into a cache, copies their state to *)
(* VPP, asks for dumps of the addresses and the routes, and then follows   *)
(* every notification. Kernel interfaces are translated to VPP interfaces  *)
(* by rd_ctx.interfaces.                                                   *)
(*                                                                         *)
(* The kernel and VPP are external. The kernel changes while the daemon    *)
(* starts, while a dump is going on, and while the thread waits for VPP;   *)
(* its notifications reach the thread in order, or are dropped when the    *)
(* socket is full.                                                         *)
(***************************************************************************)
EXTENDS Integers, Sequences

CONSTANTS
  Kif, Vif,     \* interface indices of the kernel and of VPP (0: none found)
  BootPairs,    \* rd_ctx.interfaces as the configuration file leaves it
  Addr, Dst, Gw, Sid,   \* addresses, route prefixes, gateways, segment ids
  Flag,         \* interface flags; IFF_UP is "UP"
  NoGw,         \* a route without RTA_GATEWAY
  None,
  QueueLen,     \* datagrams the socket's receive buffer holds
  MaxPairs,     \* bound: entries of rd_ctx.interfaces
  MaxChanges,   \* bound: changes of the kernel's state
  MaxRestarts   \* bound: restarts of routerd

Entry == [kern_ifindex : Kif, vpp_ifindex : Vif \cup {0}]
Route == [gw : Gw \cup {NoGw}, oif : Kif]
VppRoute == [gw : Gw \cup {NoGw}, oif : Vif \cup {0}]

ASSUME IndexAssumption == Kif \subseteq Nat \ {0} /\ Vif \subseteq Nat \ {0}
ASSUME PairsAssumption == BootPairs \in Seq(Entry)
ASSUME NoneAssumption ==
  /\ None \notin Route /\ None \notin VppRoute /\ \A F \in SUBSET Flag : None # F
  /\ None \notin Kif /\ None \notin Vif /\ None # 0 /\ NoGw \notin Gw
ASSUME LimitsAssumption ==
  /\ QueueLen \in Nat \ {0} /\ MaxPairs \in Nat /\ MaxChanges \in Nat /\ MaxRestarts \in Nat

VARIABLES
  kernel,      \* the kernel's links, addresses, routes and seg6local routes
  queue,       \* datagrams waiting in the netlink socket
  dump,        \* the dump the kernel is sending: its kind and what it still has to visit
  phase,       \* where netlink_manager is
  links,       \* nlc->links
  pos,         \* vpp_sync_with_nlc: the next entry of links
  interfaces,  \* rd_ctx.interfaces
  vpp,         \* VPP's view of the same objects
  lost,        \* since routerd started, a notification or an update of VPP was lost
  misread,     \* interfaces whose last change of IFF_UP was taken for the opposite
  changes, restarts

vars == <<kernel, queue, dump, phase, links, pos, interfaces, vpp, lost, misread, changes, restarts>>

NoDump == [kind |-> "none", todo |-> {}]

Init ==
  /\ kernel \in [link : [Kif -> SUBSET Flag], addr : SUBSET (Kif \X Addr),
                 route : [Dst -> Route \cup {None}], sid : {[s \in Sid |-> None]}]
  /\ vpp \in [up : [Vif -> BOOLEAN], addr : {{}},
              route : {[d \in Dst |-> None]}, sid : {[s \in Sid |-> None]}]
  /\ queue = <<>> /\ dump = NoDump
  /\ phase = "open" /\ links = <<>> /\ pos = 1
  /\ interfaces = BootPairs
  /\ lost = FALSE /\ misread = {} /\ changes = 0 /\ restarts = 0

-----------------------------------------------------------------------------
(* The kernel (external)                                                    *)

\* A multicast notification: nobody listens before the socket is open, and a
\* full socket drops it (recvmsg then says ENOBUFS, which the daemon skips).
Notify(m) ==
  /\ changes < MaxChanges /\ changes' = changes + 1
  /\ IF phase = "open" THEN UNCHANGED <<queue, lost>>
     ELSE IF Len(queue) < QueueLen THEN queue' = Append(queue, m) /\ UNCHANGED lost
     ELSE lost' = TRUE /\ UNCHANGED queue
  /\ UNCHANGED <<dump, phase, links, pos, interfaces, vpp, misread, restarts>>

\* ip link set dev k ...: RTM_NEWLINK with the new flags and the mask of those
\* that changed.
SetFlags(k, F) ==
  LET change == (F \ kernel.link[k]) \cup (kernel.link[k] \ F)
  IN  /\ kernel.link[k] # None /\ change # {}
      /\ kernel' = [kernel EXCEPT !.link[k] = F]
      /\ Notify([kind |-> "link", k |-> k, flags |-> F, change |-> change])

\* ip link del k, once it has no address and no route left: RTM_DELLINK.
DelLink(k) ==
  /\ kernel.link[k] # None
  /\ \A x \in kernel.addr : x[1] # k
  /\ \A d \in Dst : kernel.route[d] # None => kernel.route[d].oif # k
  /\ \A s \in Sid : kernel.sid[s] # k
  /\ kernel' = [kernel EXCEPT !.link[k] = None]
  /\ Notify([kind |-> "dellink", k |-> k, flags |-> kernel.link[k] \ {"UP"}, change |-> Flag])

SetAddr(k, a, is_new) ==
  /\ kernel.link[k] # None /\ (<<k, a>> \in kernel.addr <=> ~is_new)
  /\ kernel' = [kernel EXCEPT !.addr = IF is_new THEN @ \cup {<<k, a>>} ELSE @ \ {<<k, a>>}]
  /\ Notify([kind |-> "addr", k |-> k, a |-> a, is_new |-> is_new])

\* Adding a route replaces the one to the same prefix.
AddRoute(d, r) ==
  /\ kernel.link[r.oif] # None /\ kernel.route[d] # r
  /\ kernel' = [kernel EXCEPT !.route[d] = r]
  /\ Notify([kind |-> "route", d |-> d, r |-> r, is_new |-> TRUE])

DelRoute(d) ==
  /\ kernel.route[d] # None
  /\ kernel' = [kernel EXCEPT !.route[d] = None]
  /\ Notify([kind |-> "route", d |-> d, r |-> kernel.route[d], is_new |-> FALSE])

\* ip route add/del s encap seg6local action End.DX4 nh4 .. dev k
SetSid(s, k, is_new) ==
  /\ kernel.link[k] # None /\ kernel.sid[s] = IF is_new THEN None ELSE k
  /\ kernel' = [kernel EXCEPT !.sid[s] = IF is_new THEN k ELSE None]
  /\ Notify([kind |-> "sid", s |-> s, k |-> k, is_new |-> is_new])

KernelChange ==
  \/ \E k \in Kif, F \in SUBSET Flag : SetFlags(k, F)
  \/ \E k \in Kif : DelLink(k)
  \/ \E k \in Kif, a \in Addr, is_new \in BOOLEAN : SetAddr(k, a, is_new)
  \/ \E d \in Dst, r \in Route : AddRoute(d, r)
  \/ \E d \in Dst : DelRoute(d)
  \/ \E s \in Sid, k \in Kif, is_new \in BOOLEAN : SetSid(s, k, is_new)

\* The objects of a dump still to be visited that exist now.
Present(kind, todo) ==
  CASE kind = "link"  -> {k \in todo : kernel.link[k] # None}
    [] kind = "addr"  -> todo \cap kernel.addr
    [] kind = "route" -> {d \in todo : kernel.route[d] # None}
    [] OTHER          -> {}

\* What a dump says of object x. No flag counts as changed.
Part(kind, x) ==
  CASE kind = "link"  -> [kind |-> "link", k |-> x, flags |-> kernel.link[x], change |-> {}]
    [] kind = "addr"  -> [kind |-> "addr", k |-> x[1], a |-> x[2], is_new |-> TRUE]
    [] kind = "route" -> [kind |-> "route", d |-> x, r |-> kernel.route[x], is_new |-> TRUE]

\* The kernel continues the dump when there is room, and ends it with NLMSG_DONE.
SendDump ==
  /\ dump.kind # "none" /\ Len(queue) < QueueLen
  /\ LET here == Present(dump.kind, dump.todo)
     IN  \/ \E x \in here :
              /\ queue' = Append(queue, Part(dump.kind, x))
              /\ dump' = [dump EXCEPT !.todo = @ \ {x}]
         \/ /\ here = {}
            /\ queue' = Append(queue, [kind |-> "done"])
            /\ dump' = NoDump
  /\ UNCHANGED <<kernel, phase, links, pos, interfaces, vpp, lost, misread, changes, restarts>>

-----------------------------------------------------------------------------
(* Translation and the updates of VPP                                       *)

\* Positions of rd_ctx.interfaces that name kernel interface k.
Naming(k) == {i \in DOMAIN interfaces : interfaces[i].kern_ifindex = k}

\* ifindex_kernel2vpp: the first match, or 0.
Kernel2Vpp(k) ==
  IF Naming(k) = {} THEN 0
  ELSE interfaces[CHOOSE i \in Naming(k) : \A j \in Naming(k) : i <= j].vpp_ifindex

\* connect_to_vpp, the request, the reply, disconnect: the update is made, or,
\* when VPP cannot be reached or refuses, dropped with a line of output.
Push(v) ==
  \/ vpp' = v /\ UNCHANGED lost
  \/ UNCHANGED vpp /\ lost' = TRUE

Ignore == UNCHANGED <<vpp, lost>>

\* link_analyze_and_hook (monitor_NEWLINK): the state is ifi_flags & ifi_change,
\* of which IFF_UP is only one bit.
LinkHook(m) ==
  LET v == Kernel2Vpp(m.k)
  IN  IF "UP" \in m.change /\ v # 0
      THEN Push([vpp EXCEPT !.up[v] = m.flags \cap m.change # {}])
      ELSE Ignore

\* addr_analyze_and_hook (monitor_NEWADDR, monitor_DELADDR) of an IPv4 address.
AddrHook(m) ==
  LET v == Kernel2Vpp(m.k)
  IN  IF v # 0
      THEN Push([vpp EXCEPT !.addr = IF m.is_new THEN @ \cup {<<v, m.a>>} ELSE @ \ {<<v, m.a>>}])
      ELSE Ignore

\* Variant: a prefix VPP knows already is left alone.
RouteHookKeeps(m) ==
  IF m.is_new /\ vpp.route[m.d] # None THEN Ignore
  ELSE Push([vpp EXCEPT !.route[m.d] = IF m.is_new THEN [gw |-> m.r.gw, oif |-> Kernel2Vpp(m.r.oif)]
                                       ELSE None])

\* route_analyze_and_hook of an IPv4 route (monitor_NEWROUTE, monitor_DELROUTE):
\* without a gateway inet_pton leaves the next hop uninitialised; an interface
\* that is not paired becomes interface 0. is_multipath = 0 replaces the route.
RouteHook(m) ==
  \E gw \in IF m.r.gw = NoGw THEN Gw \cup {NoGw} ELSE {m.r.gw} :
    Push([vpp EXCEPT !.route[m.d] = IF m.is_new THEN [gw |-> gw, oif |-> Kernel2Vpp(m.r.oif)]
                                    ELSE None])

\* route_analyze_and_hook of an End.DX4 route: is_new is not looked at, and the
\* interface is atoi of its name, which is 0.
SidHook(m) == Push([vpp EXCEPT !.sid[m.s] = Kernel2Vpp(0)])

\* History: a link that went down while another flag was set in the same change is
\* taken for one that went up.
Misreading(m) ==
  IF m.kind # "link" \/ "UP" \notin m.change THEN misread
  ELSE IF "UP" \notin m.flags /\ m.flags \cap m.change # {} THEN misread \cup {m.k}
  ELSE misread \ {m.k}

\* monitor: RTM_DELLINK and NLMSG_DONE change nothing.
Monitor(m) ==
  /\ misread' = Misreading(m)
  /\ CASE m.kind = "link"  -> LinkHook(m)
       [] m.kind = "addr"  -> AddrHook(m)
       [] m.kind = "route" -> RouteHook(m)
       [] m.kind = "sid"   -> SidHook(m)
       [] OTHER            -> Ignore

-----------------------------------------------------------------------------
(* netlink_manager                                                          *)

Everything(kind) ==
  CASE kind = "link" -> Kif [] kind = "addr" -> Kif \X Addr [] kind = "route" -> Dst
    [] OTHER -> {}

\* netlink_dump_link, netlink_dump_addr, netlink_dump_route.
Request(kind) == dump' = [kind |-> kind, todo |-> Everything(kind)]

\* netlink_open subscribes to all groups; netlink_cache_alloc asks for the links.
Open ==
  /\ phase = "open" /\ phase' = "cache"
  /\ Request("link")
  /\ UNCHANGED <<kernel, queue, links, pos, interfaces, vpp, lost, misread, changes, restarts>>

\* Variant: an interface that is in the cache is not updated.
CacheUpdateKeeps(m) ==
  IF \E i \in DOMAIN links : links[i].k = m.k THEN links
  ELSE Append(links, [k |-> m.k, flags |-> m.flags])

\* netlink_cache_update_link: every entry of the interface, and one more.
CacheUpdate(m) ==
  LET e == [k |-> m.k, flags |-> m.flags]
  IN  Append([i \in DOMAIN links |-> IF links[i].k = m.k THEN e ELSE links[i]], e)

\* netlink_listen with cache_callback: RTM_NEWLINK and RTM_DELLINK are stored,
\* NLMSG_DONE ends it, everything else is dropped.
ReceiveCache ==
  /\ phase = "cache" /\ queue # <<>>
  /\ queue' = Tail(queue)
  /\ links' = IF Head(queue).kind \in {"link", "dellink"} THEN CacheUpdate(Head(queue)) ELSE links
  /\ phase' = IF Head(queue).kind = "done" THEN "sync" ELSE phase
  /\ UNCHANGED <<kernel, dump, pos, interfaces, vpp, lost, misread, changes, restarts>>

\* One turn of vpp_sync_with_nlc.
SyncLink ==
  /\ phase = "sync" /\ pos <= Len(links)
  /\ pos' = pos + 1
  /\ LET v == Kernel2Vpp(links[pos].k)
     IN  IF v # 0 THEN Push([vpp EXCEPT !.up[v] = "UP" \in links[pos].flags]) ELSE Ignore
  /\ UNCHANGED <<kernel, queue, dump, phase, links, interfaces, misread, changes, restarts>>

\* ... and after the last one, netlink_dump_addr.
SyncDone ==
  /\ phase = "sync" /\ pos > Len(links)
  /\ phase' = "addr" /\ Request("addr")
  /\ UNCHANGED <<kernel, queue, links, pos, interfaces, vpp, lost, misread, changes, restarts>>

\* Variant: netlink_listen in place of netlink_listen_until_done.
UntilDoneNever ==
  /\ phase \in {"addr", "route"} /\ queue # <<>>
  /\ queue' = Tail(queue)
  /\ Monitor(Head(queue)) /\ UNCHANGED <<phase, dump>>
  /\ UNCHANGED <<kernel, links, pos, interfaces, changes, restarts>>

\* netlink_listen_until_done: NLMSG_DONE of the addresses leads to
\* netlink_dump_route, that of the routes to netlink_listen.
UntilDone ==
  /\ phase \in {"addr", "route"} /\ queue # <<>>
  /\ queue' = Tail(queue)
  /\ IF Head(queue).kind # "done" THEN Monitor(Head(queue)) /\ UNCHANGED <<phase, dump>>
     ELSE /\ Ignore /\ UNCHANGED misread
          /\ IF phase = "addr" THEN phase' = "route" /\ Request("route")
             ELSE phase' = "listen" /\ UNCHANGED dump
  /\ UNCHANGED <<kernel, links, pos, interfaces, changes, restarts>>

Listen ==
  /\ phase = "listen" /\ queue # <<>>
  /\ queue' = Tail(queue)
  /\ Monitor(Head(queue))
  /\ UNCHANGED <<kernel, dump, phase, links, pos, interfaces, changes, restarts>>

NetlinkManager == Open \/ ReceiveCache \/ SyncLink \/ SyncDone \/ UntilDone \/ Listen

-----------------------------------------------------------------------------
(* The rest of routerd                                                      *)

\* set interface netlink-pair, or enable cplane-netdev sync once more, in the
\* VUI thread: rd_ctx.add_interface appends without looking.
AddInterface(e) ==
  /\ Len(interfaces) < MaxPairs
  /\ interfaces' = Append(interfaces, e)
  /\ UNCHANGED <<kernel, queue, dump, phase, links, pos, vpp, lost, misread, changes, restarts>>

\* routerd ends and is started again with the same configuration; VPP goes on.
Restart ==
  /\ phase # "open" /\ restarts < MaxRestarts
  /\ restarts' = restarts + 1
  /\ queue' = <<>> /\ dump' = NoDump
  /\ phase' = "open" /\ links' = <<>> /\ pos' = 1
  /\ interfaces' = BootPairs /\ lost' = FALSE /\ misread' = {}
  /\ UNCHANGED <<kernel, vpp, changes>>

Next ==
  \/ KernelChange \/ SendDump \/ NetlinkManager \/ Restart
  \/ \E e \in Entry : AddInterface(e)

Spec == Init /\ [][Next]_vars

\* The thread never stops (each wait for VPP ends after a second), and the
\* kernel goes on with a dump whenever there is room.
FairSpec == Spec /\ WF_vars(NetlinkManager) /\ WF_vars(SendDump)

-----------------------------------------------------------------------------
(* Properties                                                               *)

TypeOK ==
  /\ kernel \in [link : [Kif -> (SUBSET Flag) \cup {None}], addr : SUBSET (Kif \X Addr),
                 route : [Dst -> Route \cup {None}], sid : [Sid -> Kif \cup {None}]]
  /\ vpp \in [up : [Vif -> BOOLEAN], addr : SUBSET (Vif \X Addr),
              route : [Dst -> VppRoute \cup {None}], sid : [Sid -> Vif \cup {None, 0}]]
  /\ Len(queue) <= QueueLen
  /\ dump.kind \in {"none", "link", "addr", "route"} /\ dump.todo \subseteq Everything(dump.kind)
  /\ phase \in {"open", "cache", "sync", "addr", "route", "listen"}
  /\ links \in Seq([k : Kif, flags : SUBSET Flag]) /\ pos \in 1 .. Len(links) + 1
  /\ interfaces \in Seq(Entry)
  /\ lost \in BOOLEAN /\ misread \subseteq Kif

\* Kernel interfaces the configuration file pairs with an interface of VPP that
\* no other kernel interface is paired with.
Paired == {k \in Kif : /\ \E i \in DOMAIN BootPairs : BootPairs[i].kern_ifindex = k
                      /\ Kernel2Vpp(k) # 0
                      /\ \A j \in Kif \ {k} : Kernel2Vpp(j) # Kernel2Vpp(k)}

\* The daemon has handled every message about x.
Handled(kind, P(_)) == \A i \in DOMAIN queue : queue[i].kind = kind => ~P(queue[i])

\* Once a start is over, the administrative state of a paired interface is the
\* same in VPP as in the kernel, as soon as no link message of it is waiting:
\* whatever changed between the subscription, the dump, the copy of the cache
\* to VPP and the first notification, and across restarts. The exception is an
\* interface whose last change of IFF_UP link_analyze_and_hook misread: it is down
\* and VPP has it up.
LinksAgree ==
  phase \in {"addr", "route", "listen"} /\ ~lost =>
    \A k \in Paired :
      LET Of(m) == m.k = k
      IN  kernel.link[k] # None /\ Handled("link", Of) =>
            (vpp.up[Kernel2Vpp(k)] <=> "UP" \in kernel.link[k] \/ k \in misread)

\* The administrative states are the same without exception. They are not:
\* link_analyze_and_hook tests flags & change, in which other flags are set too.
LinksExact ==
  phase \in {"addr", "route", "listen"} /\ ~lost =>
    \A k \in Paired :
      LET Of(m) == m.k = k
      IN  kernel.link[k] # None /\ Handled("link", Of) =>
            (vpp.up[Kernel2Vpp(k)] <=> "UP" \in kernel.link[k])

\* Once the dump of the addresses is over, VPP has every address of a paired
\* interface, and until routerd is restarted no other one of it, as soon as no
\* message about that address is waiting.
AddrsAgree ==
  phase \in {"route", "listen"} /\ ~lost =>
    \A k \in Paired, a \in Addr :
      LET Of(m) == m.k = k /\ m.a = a
      IN  Handled("addr", Of) =>
            /\ <<k, a>> \in kernel.addr => <<Kernel2Vpp(k), a>> \in vpp.addr
            /\ restarts = 0 /\ <<Kernel2Vpp(k), a>> \in vpp.addr => <<k, a>> \in kernel.addr

\* VPP's route v leaves by the interface of kernel route r, through its gateway if
\* it has one.
Carries(v, r) ==
  v # None /\ v.oif = Kernel2Vpp(r.oif) /\ (r.gw # NoGw => v.gw = r.gw)

\* The same for IPv4 routes: once their dump is over, a route of the kernel over a
\* paired interface is in VPP, over that interface and through its gateway if it
\* has one, also after it replaced another one; until a restart a prefix without a
\* route has none. The next hop that VPP has for a route without a gateway is
\* anything: set_route does not initialise it.
RoutesAgree ==
  phase = "listen" /\ ~lost =>
    \A d \in Dst :
      LET Of(m) == m.d = d
      IN  Handled("route", Of) =>
            /\ kernel.route[d] # None =>
                 (kernel.route[d].oif \in Paired => Carries(vpp.route[d], kernel.route[d]))
            /\ restarts = 0 /\ kernel.route[d] = None => vpp.route[d] = None

\* A route without a gateway has none in VPP either. It may have one:
\* set_route sends a next hop that it did not initialise.
NextHopsExact ==
  phase = "listen" /\ ~lost =>
    \A d \in Dst :
      LET Of(m) == m.d = d
      IN  Handled("route", Of) /\ kernel.route[d] # None /\ kernel.route[d].oif \in Paired =>
            vpp.route[d] = [gw |-> kernel.route[d].gw, oif |-> Kernel2Vpp(kernel.route[d].oif)]

\* End.DX4 routes are followed like the others: VPP's segment id goes away with
\* the route, and forwards to the interface the route names.
SidsAgree ==
  phase = "listen" /\ queue = <<>> /\ ~lost =>
    \A s \in Sid :
      /\ kernel.sid[s] = None => vpp.sid[s] = None
      /\ kernel.sid[s] \in Paired /\ vpp.sid[s] # None => vpp.sid[s] = Kernel2Vpp(kernel.sid[s])

\* When the kernel stops changing, VPP follows for good: the start ends, the queue
\* drains, and links (but for the misread ones), addresses and routes (but for next
\* hops that do not exist) agree, or something was lost.
Converges ==
  <>[](lost \/ (phase = "listen" /\ queue = <<>> /\ LinksAgree /\ AddrsAgree /\ RoutesAgree))

\* What VPP knows of the paired interfaces is what the kernel has, but for misread
\* states: their state and their addresses (link_analyze_and_hook,
\* addr_analyze_and_hook, vpp_sync_with_nlc).
InterfacesAgree == TypeOK /\ LinksAgree /\ AddrsAgree

\* What VPP forwards by is the kernel's: every route over a paired interface is there
\* with that interface and its gateway (route_analyze_and_hook), over links whose
\* state agrees. Nothing is said of the next hop of a route without a gateway, nor of
\* a link whose last change was misread.
ForwardingAgrees == LinksAgree /\ RoutesAgree
=============================================================================
