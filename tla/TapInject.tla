------------------------------ MODULE TapInject ------------------------------
(***************************************************************************)
(* The cplane_netdev VPP plugin ("tap-inject"). Every Ethernet interface   *)
(* of VPP gets a tap device in the kernel; control-plane packets that VPP  *)
(* receives are written to the tap, packets the kernel sends on the tap    *)
(* are transmitted by VPP. Four maps tie the two sides together.           *)
(*                                                                         *)
(* All of it runs on VPP's main thread, whose loop (external) polls the    *)
(* descriptors (tap_inject_tap_read), runs the input node tap-inject-rx,   *)
(* and then the process nodes that serve CLI and API requests.             *)
(***************************************************************************)
EXTENDS Integers, Sequences, FiniteSets

CONSTANTS
  Iface,     \* sw_if_index (= hw_if_index) values, numbers in pool order
  Eth,       \* the interfaces whose class is Ethernet
  Fd,        \* descriptors left for taps
  Idx,       \* kernel interface indices; the kernel gives out each once
  None,      \* ~0
  NumAlloc,  \* NUM_BUFFERS_TO_ALLOC, the capacity of rx_buffers
  NBuffers   \* packet buffers VPP has

ASSUME SetsAssumption ==
  /\ Iface \subseteq Nat /\ Eth \subseteq Iface
  /\ None \notin Iface /\ None \notin Fd /\ None \notin Idx
ASSUME NumbersAssumption ==
  NumAlloc \in Nat \ {0} /\ NBuffers \in Nat

MTU_BUFFERS == 1   \* (1500 + 2048 - 1) / 2048

Proto == {"ARP", "ICMP", "OSPF", "TCP", "UDP"}

VARIABLES
  present,        \* VPP's interfaces (external)
  enabled,        \* TAP_INJECT_F_ENABLED
  config_enable,  \* TAP_INJECT_F_CONFIG_ENABLE
  node_of,        \* the graph node each protocol's packets go to
  im,             \* the four maps of cplane_netdev_main_t
  fds,            \* kernel: the tap (its interface index) behind each descriptor
  used,           \* kernel: interface indices given out so far
  rx_file_descriptors,
  rx_buffers,     \* vec_len(im->rx_buffers)
  avail,          \* free buffers in VPP's pool
  phase,          \* main loop: "epoll", "rx" or "process"
  careless        \* history: an interface with a tap was connected again or deleted

vars == <<present, enabled, config_enable, node_of, im, fds, used,
          rx_file_descriptors, rx_buffers, avail, phase, careless>>

Init ==
  /\ present \in SUBSET Iface
  /\ enabled = FALSE /\ config_enable = FALSE
  /\ node_of = [p \in Proto |-> CASE p = "ARP" -> "arp-input"
                                  [] p = "ICMP" -> "ip4-icmp-input"
                                  [] p = "UDP" -> "ip4-udp-lookup"
                                  [] OTHER -> "punt"]
  /\ im = [fd_of |-> [i \in Iface |-> None],    \* sw_if_index_to_tap_fd
           if_of |-> [i \in Iface |-> None],    \* sw_if_index_to_tap_if_index
           sw_of_fd |-> [f \in Fd |-> None],    \* tap_fd_to_sw_if_index
           sw_of_if |-> [k \in Idx |-> None]]   \* tap_if_index_to_sw_if_index
  /\ fds = [f \in Fd |-> None] /\ used = {}
  /\ rx_file_descriptors = <<>>
  /\ rx_buffers = 0 /\ avail = NBuffers
  /\ phase = "process"
  /\ careless = FALSE

-----------------------------------------------------------------------------
(* The maps                                                                 *)

Tapped(m) == {i \in Iface : m.fd_of[i] # None}

\* tap_inject_insert_tap for each interface i of S, with descriptor a[i] and
\* kernel interface b[i].
InsertTaps(m, S, a, b) ==
  [fd_of |-> [i \in Iface |-> IF i \in S THEN a[i] ELSE m.fd_of[i]],
   if_of |-> [i \in Iface |-> IF i \in S THEN b[i] ELSE m.if_of[i]],
   sw_of_fd |-> [f \in Fd |-> IF \E i \in S : a[i] = f
                              THEN CHOOSE i \in S : a[i] = f ELSE m.sw_of_fd[f]],
   sw_of_if |-> [k \in Idx |-> IF \E i \in S : b[i] = k
                               THEN CHOOSE i \in S : b[i] = k ELSE m.sw_of_if[k]]]

\* Variant: the entry of sw_if_index_to_tap_fd is not reset.
DeleteKeepsFd(m, S) ==
  [fd_of |-> m.fd_of,
   if_of |-> [i \in Iface |-> IF i \in S THEN None ELSE m.if_of[i]],
   sw_of_fd |-> [f \in Fd |-> IF \E i \in S : m.fd_of[i] = f THEN None ELSE m.sw_of_fd[f]],
   sw_of_if |-> [k \in Idx |-> IF \E i \in S : m.if_of[i] = k THEN None ELSE m.sw_of_if[k]]]

\* Variant: no hash_unset.
DeleteKeepsHash(m, S) ==
  [fd_of |-> [i \in Iface |-> IF i \in S THEN None ELSE m.fd_of[i]],
   if_of |-> [i \in Iface |-> IF i \in S THEN None ELSE m.if_of[i]],
   sw_of_fd |-> [f \in Fd |-> IF \E i \in S : m.fd_of[i] = f THEN None ELSE m.sw_of_fd[f]],
   sw_of_if |-> m.sw_of_if]

\* tap_inject_delete_tap for each interface of S.
DeleteTaps(m, S) ==
  [fd_of |-> [i \in Iface |-> IF i \in S THEN None ELSE m.fd_of[i]],
   if_of |-> [i \in Iface |-> IF i \in S THEN None ELSE m.if_of[i]],
   sw_of_fd |-> [f \in Fd |-> IF \E i \in S : m.fd_of[i] = f THEN None ELSE m.sw_of_fd[f]],
   sw_of_if |-> [k \in Idx |-> IF \E i \in S : m.if_of[i] = k THEN None ELSE m.sw_of_if[k]]]

\* The kernel hands out, for the interfaces of S, distinct descriptors that are
\* free and distinct interface indices that are new.
Fresh(S, a, b) ==
  /\ \A i \in S : fds[a[i]] = None /\ b[i] \notin used
  /\ \A i, j \in S : i # j => a[i] # a[j] /\ b[i] # b[j]

-----------------------------------------------------------------------------
(* enable tap-inject, disable tap-inject, from the CLI and from the API     *)

\* tap_inject_enable and tap_inject_disable: does nothing when already done.
Register ==
  IF enabled THEN UNCHANGED <<enabled, node_of>>
  ELSE /\ enabled' = TRUE
       /\ node_of' = [p \in Proto |-> IF p = "ARP" THEN "tap-inject-neigh" ELSE "tap-inject-tx"]

Unregistered ==
  IF enabled
  THEN [p \in Proto |-> CASE p = "ARP" -> "arp-input"
                          [] p = "ICMP" -> "ip4-icmp-input"
                          [] OTHER -> "punt"]
  ELSE node_of

\* tap_inject_iface_isr of interfaces_to_disable: close the taps of S in maps m
\* and descriptor table d. An interface without a tap is an ignored error.
DisconnectTaps(m, d, S) ==
  LET T == S \cap Tapped(m)
  IN  /\ im' = DeleteTaps(m, T)
      /\ fds' = [f \in Fd |-> IF \E i \in T : m.fd_of[i] = f THEN None ELSE d[f]]

\* tap_inject_iface_isr of interfaces_to_enable. Interfaces are connected in
\* pool order up to the first error, at `stop'. Those in S get a tap; a TUNSETIFF
\* that fails counts as success and leaves the interface without one.
Connectable(S, stop) ==
  /\ S \subseteq {i \in present \cap Eth : \A j \in stop : i < j}
  /\ stop \subseteq present \cap Eth /\ Cardinality(stop) <= 1

WithDevices(S, a, b) == [f \in Fd |-> IF \E i \in S : a[i] = f
                                      THEN b[CHOOSE i \in S : a[i] = f] ELSE fds[f]]

\* tap_inject_enable_disable_all_interfaces(1); after an error the callers
\* disable everything again.
EnableAll(S, stop, a, b) ==
  /\ Connectable(S, stop) /\ Fresh(S, a, b)
  /\ careless' = (careless \/ Tapped(im) \cap S # {})
  /\ used' = used \cup {b[i] : i \in S}
  /\ IF stop = {}
     THEN /\ Register
          /\ im' = InsertTaps(im, S, a, b)
          /\ fds' = WithDevices(S, a, b)
     ELSE /\ DisconnectTaps(InsertTaps(im, S, a, b), WithDevices(S, a, b), present)
          /\ enabled' = FALSE
          /\ node_of' = [p \in Proto |-> CASE p = "ARP" -> "arp-input"
                                           [] p = "ICMP" -> "ip4-icmp-input"
                                           [] OTHER -> "punt"]

\* enable_disable_tap_inject_cmd_fn (cli) and
\* vl_api_tap_inject_enable_disable_t_handler with is_enable set.
EnableTapInject(cli) ==
  /\ phase = "process"
  /\ \E S, stop \in SUBSET (present \cap Eth) :
     \E a \in [S -> Fd], b \in [S -> Idx] :
       /\ EnableAll(S, stop, a, b)
       /\ config_enable' = (config_enable \/ (cli /\ stop = {}))
  /\ UNCHANGED <<present, rx_file_descriptors, rx_buffers, avail, phase>>

DisableTapInject(cli) ==
  /\ phase = "process"
  /\ enabled' = FALSE /\ node_of' = Unregistered
  /\ DisconnectTaps(im, fds, present)
  /\ config_enable' = (config_enable /\ ~cli)
  /\ UNCHANGED <<present, used, rx_file_descriptors, rx_buffers, avail, phase, careless>>

\* create cplane-netdev id i: one interface, enabled or not. It may fail.
CreateCplaneNetdev(i) ==
  /\ phase = "process" /\ i \in present \cap Eth
  /\ careless' = (careless \/ i \in Tapped(im))
  /\ \E f \in Fd, k \in Idx :
       LET a == [j \in {i} |-> f]  b == [j \in {i} |-> k]
       IN  /\ Fresh({i}, a, b)
           /\ im' = InsertTaps(im, {i}, a, b)
           /\ fds' = WithDevices({i}, a, b)
           /\ used' = used \cup {k}
  /\ UNCHANGED <<present, enabled, config_enable, node_of,
                 rx_file_descriptors, rx_buffers, avail, phase>>

\* VPP creates and deletes interfaces without telling the plugin (external).
AddInterface(i) ==
  /\ phase = "process" /\ i \notin present
  /\ present' = present \cup {i}
  /\ UNCHANGED <<enabled, config_enable, node_of, im, fds, used,
                 rx_file_descriptors, rx_buffers, avail, phase, careless>>

DelInterface(i) ==
  /\ phase = "process" /\ i \in present
  /\ careless' = (careless \/ i \in Tapped(im))
  /\ present' = present \ {i}
  /\ UNCHANGED <<enabled, config_enable, node_of, im, fds, used,
                 rx_file_descriptors, rx_buffers, avail, phase>>

-----------------------------------------------------------------------------
(* The data path                                                            *)

\* tap_inject_tx: a packet received on interface i is written to the device
\* behind the descriptor of i; without one it is dropped. All buffers are freed.
ToKernel(i) == IF im.fd_of[i] = None THEN None ELSE fds[im.fd_of[i]]

\* tap_rx: what the kernel sends on device k is read from its descriptor and
\* handed to the output node of the interface found there.
ToVpp(k) == {im.sw_of_fd[f] : f \in {g \in Fd : fds[g] = k}} \ {None}

\* tap_inject_neighbor, an ARP packet of interface i: with a tap it is written
\* there and then freed or passed to arp-input; without one it is not freed.
NeighborArp(i) ==
  /\ phase = "process" /\ i \in present
  /\ node_of["ARP"] = "tap-inject-neigh"
  /\ avail > 0
  /\ avail' = IF im.fd_of[i] = None THEN avail - 1 ELSE avail
  /\ UNCHANGED <<present, enabled, config_enable, node_of, im, fds, used,
                 rx_file_descriptors, rx_buffers, phase, careless>>

\* tap_inject_tap_read: the descriptor of a tap is readable.
TapRead(f) ==
  /\ phase = "epoll" /\ fds[f] # None
  /\ \A n \in DOMAIN rx_file_descriptors : rx_file_descriptors[n] # f
  /\ rx_file_descriptors' = Append(rx_file_descriptors, f)
  /\ UNCHANGED <<present, enabled, config_enable, node_of, im, fds, used,
                 rx_buffers, avail, phase, careless>>

\* The refill at the head of tap_rx: n buffers are moved from the pool, as many
\* as NumAlloc or all that are left.
Refill(n) ==
  n = IF rx_buffers >= MTU_BUFFERS THEN 0
      ELSE IF NumAlloc <= avail THEN NumAlloc ELSE avail

\* One turn of the loop of tap_inject_rx. A failing tap_rx ends the loop, and the
\* descriptors behind it are forgotten. A buffer read into is transmitted by
\* VPP, and then back in the pool.
TapRx ==
  /\ phase = "rx" /\ rx_file_descriptors # <<>>
  /\ \/ /\ im.sw_of_fd[Head(rx_file_descriptors)] = None
        /\ rx_file_descriptors' = <<>>
        /\ UNCHANGED <<rx_buffers, avail>>
     \/ /\ im.sw_of_fd[Head(rx_file_descriptors)] # None
        /\ \E n \in 0 .. NumAlloc :
             /\ Refill(n)
             /\ \/ /\ rx_buffers + n >= MTU_BUFFERS
                   /\ rx_file_descriptors' = Tail(rx_file_descriptors)
                   /\ rx_buffers' = rx_buffers + n - MTU_BUFFERS
                   /\ avail' = avail - n + MTU_BUFFERS
                \/ /\ rx_file_descriptors' = <<>>      \* no buffer, or readv failed
                   /\ rx_buffers' = rx_buffers + n
                   /\ avail' = avail - n
  /\ UNCHANGED <<present, enabled, config_enable, node_of, im, fds, used, phase, careless>>

\* The main loop (external): interrupts of tap-inject-rx are served before the
\* process nodes run.
NextPhase ==
  /\ phase = "rx" => rx_file_descriptors = <<>>
  /\ phase' = CASE phase = "epoll" -> "rx" [] phase = "rx" -> "process" [] OTHER -> "epoll"
  /\ UNCHANGED <<present, enabled, config_enable, node_of, im, fds, used,
                 rx_file_descriptors, rx_buffers, avail, careless>>

Next ==
  \/ \E cli \in BOOLEAN : EnableTapInject(cli) \/ DisableTapInject(cli)
  \/ \E i \in Iface : CreateCplaneNetdev(i) \/ AddInterface(i) \/ DelInterface(i)
  \/ \E i \in Iface : NeighborArp(i)
  \/ \E f \in Fd : TapRead(f)
  \/ TapRx \/ NextPhase

Spec == Init /\ [][Next]_vars

-----------------------------------------------------------------------------
(* Properties                                                               *)

TypeOK ==
  /\ present \subseteq Iface
  /\ enabled \in BOOLEAN /\ config_enable \in BOOLEAN
  /\ node_of \in [Proto -> {"arp-input", "ip4-icmp-input", "ip4-udp-lookup", "punt",
                            "tap-inject-neigh", "tap-inject-tx"}]
  /\ im \in [fd_of : [Iface -> Fd \cup {None}], if_of : [Iface -> Idx \cup {None}],
             sw_of_fd : [Fd -> Iface \cup {None}], sw_of_if : [Idx -> Iface \cup {None}]]
  /\ fds \in [Fd -> Idx \cup {None}]
  /\ used \subseteq Idx
  /\ rx_file_descriptors \in Seq(Fd)
  /\ rx_buffers \in Nat /\ avail \in Nat
  /\ phase \in {"epoll", "rx", "process"} /\ careless \in BOOLEAN

\* The tap an interface points to is a live device that points back to that
\* interface in every map, whatever is connected twice, deleted or fails half
\* way: packets VPP writes reach a device whose packets come back to the same
\* interface, and tap_inject_dump reports that device.
TapsPointBack ==
  \A i \in Tapped(im) :
    /\ fds[im.fd_of[i]] = im.if_of[i] /\ im.if_of[i] # None
    /\ ToVpp(ToKernel(i)) = {i}
    /\ im.sw_of_if[im.if_of[i]] = i

\* rx_buffers never holds more than the NUM_BUFFERS_TO_ALLOC it was allocated
\* for: the refill appends a whole batch, and only to a list below one MTU.
RxBuffersFit == rx_buffers <= NumAlloc

\* Careful operators leak no descriptor: every open tap belongs to an interface.
NoOrphanTap == ~careless => \A f \in Fd : fds[f] # None => \E i \in Iface : im.fd_of[i] = f

\* tap_inject_dump answers with one pair for each entry of
\* tap_if_index_to_sw_if_index.
TapInjectDump == {x \in Iface \X Idx : im.sw_of_if[x[2]] = x[1]}

\* The plugin implements the one-to-one pairing while operators are careful:
\* a pair is never changed, only made anew or ended with all others
\* (tap_inject_insert_tap, tap_inject_delete_tap and the loops around them).
Pairing == INSTANCE TapPairing WITH pair <- IF careless THEN {} ELSE TapInjectDump
PairingSpec == Pairing!Spec

\* The plugin's tables, devices and receive buffers are sound in every state, however
\* enabling, disabling, creating and receiving follow each other and fail.
TapsSound == TypeOK /\ TapsPointBack /\ RxBuffersFit /\ NoOrphanTap
=============================================================================
