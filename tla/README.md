# A TLA+ model of routerd

routerd keeps VPP, a user-space packet processor, in step with the Linux kernel: what `ip link`,
`ip addr` and `ip route` do to kernel interfaces is repeated on the VPP interfaces they are paired
with. This directory holds TLA+ modules for the parts of the system, TLC configurations that check
them on small instances, and TLAPS proofs of the results that hold for every instance. All paths
below are relative to the repository, which the project calls `src/`.

## The system and its parts

| part | where | modelled by |
| --- | --- | --- |
| cplane-netdev plugin (tap-inject) | `cplane_netdev/cplane_netdev.c` | `TapInject`, promise in `TapPairing`, proofs in `TapInjectProofs` |
| tap-mirror plugin | `tap_mirror/tap_mirror.c`, `tap_mirror_cli.c` | `TapMirror`, proofs in `TapMirrorProofs` |
| netlink thread | `src/netlink.cc`, `libyalin/yalin/netlink_{socket,cache}.cc` | `NetlinkSync`, proofs in `NetlinkSyncProofs` |
| VPP API client | `src/vpp.c`, `src/vpp_cli.c` | `VppSession`, proofs in `VppSessionProofs` |
| start of the daemon | `src/main.cc`, `src/routerd.conf`, `src/vpp_cli.c` | `Startup`, proofs in `StartupProofs` |
| libvui, event loop | `libvui/src/vui/lib/thread.c`, `pqueue.c` | `EventLoop`, `PQueue` |
| libvui, terminal | `vty.c`, `buffer.c` | `VtyLine` (keys), `VtySession` (tasks and output), `Buffer`; proofs in `VtySessionProofs` |
| libvui, shell | `command.c`, `command_node.c`, `vty.c` | `Shell`, proofs in `ShellProofs` |
| libvui, command parser | `command_graph.c`, `command_match.c`, `command_parse.y`, `graph.c`, `command.c`, `frrstr.c` | `CmdGraph`, `TokenMatch`, `CmdLine` |
| libvui, containers and addresses | `hash.c`, `vector.c`, `linklist.c`, `typesafe.c`, `prefix.c`, `sockunion.c` | `Containers`, `Typesafe`, `Prefix` |
| libvui, signals and privileges | `sigevent.c`, `privs.c` | `Signals`, `Privs`, proofs in `ProcessProofs` |
| message views, debugging tools, experiments | `libyalin/yalin/core`, `libyalin/tools`, `netlink_scripts`, `misc/emu` | not modelled |

How they interact: inside VPP, the cplane-netdev plugin creates one tap device per Ethernet
interface, so that each VPP interface has a kernel twin, and moves packets between the two. The
daemon reads the pairs (`enable cplane-netdev sync`, `tap_inject_dump`), subscribes to the kernel's
netlink notifications and translates every event through the pairs into requests of VPP's binary
API. The VUI thread runs the configuration file and the operator's commands, over the same API
connection; it is an event loop of libvui whose tasks are the reads, writes and timeouts of terminal
sessions, and each line a session completes goes through the shell to the command graph. The
tap-mirror plugin is independent of the rest: it hooks a graph node of VPP and copies the node's
packets to a tap device.

## Modules

**TapMirror** models the plugin's whole state: `contexts` (`xm->contexts`, with the vectors
`tap_names` and `tap_fds` as one sequence `taps`), the `function` pointer of each node, the process'
descriptor table `fds`, the events `pending` for the redirector process, the free buffers `avail`,
and which half of VPP's main loop runs (`phase`: the graph of nodes, or the processes, among them the
command line). `SetTapMirror` is the command, `InputFn` the hook that runs in a node's place,
`Redirector` the process. Names match by `memcmp` over the length of the name asked for; this is the
constant relation `NodePrefix`/`TapPrefix`, and a search for `ip4-input` finds the context of
`ip4-input-no-checksum`. `lent` is a history variable: the descriptors that `get_tapfd` or
`get_or_open_tapfd` gave to a tap of another name this way. A failed assertion or a null pointer stops
the process (`fault`). That such a frame is then handed to the other node's function too is not followed:
packets have no contents here.

**TapInject** models the three lookup tables of `cplane_netdev_main_t` (interface to descriptor,
descriptor to interface, kernel index to interface), the tap devices that exist, the registrations of
`tap_inject_enable`, and the pool of receive buffers. Actions: enabling and disabling (API and command
line; with the stop at the first interface that cannot be connected and the rollback the callers do),
`create cplane-netdev`, interfaces coming and going in VPP, transmit, ARP, and `tap_rx` with its bulk
refill. **TapPairing** is the abstract specification: a set of pairs that is one to one at all times,
grows by fresh pairs, and is emptied as a whole. `PairingSpec` states that TapInject implements it,
under the mapping `pair <- TapInjectDump`, the set of pairs `vl_api_tap_inject_dump_t_handler` sends.

**NetlinkSync** has the kernel (external: links with flags, addresses, routes, End.DX4 routes, a
bounded socket buffer, dumps sent part by part as the buffer has room), the netlink thread and VPP's
copy. `phase` is the position in `netlink_manager`: `open`, `cache` (`netlink_cache_alloc`), `sync`
(`vpp_sync_with_nlc`), `addr` and `route` (`netlink_listen_until_done`), `listen`. A message is
handled as the code does: `LinkHook`, `AddrHook`, `RouteHook`, `SidHook`. A message may report several
flags changed at once; `misread` is a history variable with the interfaces that the hook took to be up
because another flag of the same change was set. A route has a gateway or none, and the next hop sent for
none is any value. An update of VPP either happens or is lost (`Push`, `lost`). The operator may add pairs (`AddInterface`), and routerd may be
restarted while VPP goes on (`Restart`).

**VppSession** models what one command does with the connection: connect, send, read until the pong
or the first reply, time out, disconnect; `th[t].pc` is the loop a thread is in. Commands are grouped
by the loop they run and by what they report: `set`, `state`, `loopback`, `tap-inject`, `info`,
`list`, `interface`, `open` and `close`. Both threads use the one connection of the process: a connect
while there is one is refused, `vpe disconnect` takes down any, and the `svm_region_exit` after a failed
connect unmaps the shared memory (`mapped`) for every thread. `cut` is a history variable: a thread lost
its connection or its memory this way in the middle of a command. Afterwards it may fault or go on with
whatever connection is there. VPP is external: it serves requests in order and may answer late, with an
error, or never. That a second connection of the same process is refused is the behaviour of VPP 19.08's
client library, the version the repository names.

**Startup** models `main`, the VUI thread's run through `routerd.conf`, and time in seconds.
`MainPoll` is a turn of main's ten-second loop, `Wait` the retry loop of
`wait-startup-config-process-done`, `Call` a request with its time limit. The threads run as soon as
they can; only `sleep` and waiting for VPP take time. `monitor enable` may be typed at any later time.

**EventLoop** models a `thread_master` with its owner and other POSIX threads. A task is in the ready,
event or unused list, the timer heap (`PQueue`), or a slot of the descriptor arrays; `m` holds these,
`pc` is the owner's place in `thread_fetch`, `copy` the array it polls with. Scheduling, cancelling
one task, cancelling by argument and cancelling from another thread (a request in a batch, and a wait
until the owner has gone through it) are actions; a section under the mutex is one step.

**VtyLine** takes bytes through the telnet, escape and key states of `vty_read` to each editing
function, and includes the terminal at the other end: the echo moves its cursor and changes its row.
**VtySession** is the life of a session from `vty_accept` or `vty_stdio` to `vty_close`: which of the
read, write and timeout tasks is armed, paging, and what waits in `obuf` and in the descriptor.
**Buffer** is `buffer.c` as operators on a sequence of chunks.

**Shell** models the nodes a session moves between, the passwords in `struct host`, the search of a
command in the parent nodes, `do`, and the reading of the configuration file with the copy of its
backup, a crash at any step and a restart. `Sessions` are followed one by one; `Elsewhere` is a command
that any other session runs, by what it does to the host.

**CmdGraph** builds the graph of a definition as the parser's actions do, merges and unmerges it, and
matches, disambiguates and completes lines. **TokenMatch** is the matching of one word with one token,
**CmdLine** what cuts a line into words, looks it up in the graph of the session's node, or after `do` of
`ENABLE_NODE`, and makes the lists that `?` and TAB show. **Containers** and **Typesafe** are the data
structures as operators beside what they stand for. A linked list may have a head and no tail, as
`listnode_add_head` leaves it, and `torn` remembers that something was then appended to it. The sorted
list's `_find` is as the macro has it (`typesafe.h:501-505`): the comparison's result is assigned after
`< 0` was applied to it, so that it returns the next greater item when the one asked for is missing.
**Prefix** has the masks, containment, comparison and text of addresses, for any width of a byte, with the
branches for EVPN, flowspec and unspecified prefixes. **Signals** has the handler,
which any thread may run at any point, against `quagga_sigevent_process`; **Privs** the changes of the
effective user, one system call a step, with a count of users under a mutex.

The modules whose names begin with `MC` name the instances' sets; `MCLibrary` drives the parts of
libvui that share no state, one of them in each behaviour. Definitions marked "Variant" are faulty
forms of the definition that follows them; they show that each property can fail.

## Runs

| run | configuration | instance | what it shows |
| --- | --- | --- | --- |
| `tap_mirror` | `MCTapMirror.cfg` | 3 nodes, two of whose names begin alike, a name that is no node's, 2 taps, one a prefix of the other, 2 slots, one clone in flight; 278,358 states | a hooked node has a context and the right function to go back to, and no event meets an empty slot (`ContextsSound`) or one that a search for its node does not find (`EventsKeepTheirNode`); descriptors in use are open and drive their tap, unless they were lent to it by name (`TapFdsOpen`) |
| `tap_inject` | `MCTapInject.cfg` | 3 interfaces, one not Ethernet, any order of enables | tables point back at each other, the receive vector never runs short of buffers, no tap outlives its entry (`TapsSound`); TapInject implements TapPairing (`PairingSpec`); the last two as long as taps were enabled only while disabled |
| `netlink_interfaces` | `NetlinkIfaces.cfg` | a paired and an unpaired interface, links and one address, 2 changes, a restart, a pair added at run time; 2,393,140 states | links agree once copied, addresses once their dump is over (`InterfacesAgree`) |
| `netlink` | `Netlink.cfg` | one interface with two flags that change one by one or together, an address, a prefix with two gateways or none and a segment id, 2 changes, a restart; 1,039,720 states | links and routes agree, up to misread flags and next hops that do not exist (`ForwardingAgrees`); the daemon comes to rest in this agreement (`Converges`) |
| `vpp` | `Vpp.cfg` | VUI thread with every command, netlink thread with its updates, 2 interfaces with 3 addresses, 4 commands; 195,682 states | until one thread cuts the other's connection: a reported success is real (`SuccessIsReal`), no connection is left or used by two (`SessionsSound`), `show vpp interface` keeps its two dumps apart and misses nothing (`ShowIsRight`); every command ends (`CommandsEnd`) |
| `startup` | `Startup.cfg` | try-count 5, interval 0: 9 seconds of main's 10; 2,494 states | main gives up only when the configuration can be late (`QuitsOnlyWhenLate`), threads start in order (`StartOrdered`), routerd starts (`StartsUp`), no deadlock |
| `event_loop` | `EventLoop.cfg` | 2 objects, 2 tasks, one helper thread | every task is where its type says and no slot dangles (`TasksAccounted`), no wanted descriptor is left out of the poll (`NotDeaf`), the loop ends only when nothing waits (`EndsOnlyIdle`), scheduled tasks run and other threads' cancels return (`TasksRun`) |
| `vty_line` | `VtyLine.cfg` | lines of 3 letters, a ring of 3, 4 lines run | the screen shows the line and the cursor (`LineShown`), the ring holds the latest lines and browsing walks them (`HistoryKept`), a sequence cut by the end of a read means the same (`SplitReads`) |
| `vty_session` | `VtySession.cfg` | chunks of 2 bytes, a descriptor that takes 3, pages of 3 lines, 5 bytes waiting | output is neither lost nor repeated (`OutputKept`), a session that waits for its peer hears it (`Attentive`), a page fits its window (`PageFits`), output, pages and dead sessions end (`OutputEnds`) |
| `shell` | `Shell.cfg` | a session and all others, 2 passwords, one application node, a backup of 2 reads, 2 lines in the file; 215,550 states | no replaced password is compared with (`NoOldPassword`), the mode is right and earned (`ModesRight`), commands are found in the parents (`CommandsFound`), the file is whole or missing (`ConfWhole`) |
| `library` | `Library.cfg` | the small sets of `MCLibrary`: 6 commands in 3 nodes, 4 data, 5 items, 6 timers, lines of 6 characters, addresses of 2-bit bytes, 2 signals, 3 users of privileges; 207,070 states | each algorithm computes what it stands for: `GraphRight`, `MatchesBest`, `CompletionRight`, `WordsRight`, `ContainersRight`, `TypesafeRight`, `BufferKeepsOrder`, `PrefixesRight`; `NoSignalForgotten`, `PrivsRight` |
| `tap_mirror_freed` | `TapMirrorFreed.cfg` | 2 nodes, 2 taps | a violation: reset the last tap, enable another before the next packet, and the new tap goes with the context (`FreedOnlyWhenEmpty`) |

Some properties are conjunctions; their parts are defined, with a comment each, before them.

### Known disagreements

Besides `tap_mirror_freed`, these configurations end with a counterexample, each to something the
repository says of the program:

| configuration | what happens |
| --- | --- |
| `TapMirrorClone.cfg` with `MCTapMirror` | two events in one turn of the redirector: a clone leaks, in the end `assert(n_cloned == 2)` fails |
| `TapMirrorNodes.cfg` with `MCTapMirror` | `ip4-input` is mirrored, then `ip4-input-no-checksum` gets a slot before its own (one that was freed): packets of `ip4-input` go to the taps set for the other node, not those of "set tap-mirror {node <node-name>} {tap <tap-name>}" (`tap_mirror.c:460`) |
| `TapMirrorTaps.cfg` with `MCTapMirror` | `tap1` is set after `tap10` and gets its descriptor, so its packets go to `tap10`; "if tap referencing node is nothing, close(fd)" (`tap_mirror.c:421`), but the users are looked for by name, and a reset of `tap10` closes what `tap1` uses |
| `NetlinkFlags.cfg` with `MCNetlinkSync` | UP cleared and PROMISC set in one message: VPP's interface goes up |
| `NetlinkNextHops.cfg` with `MCNetlinkSync` | `ip route add 20.0.0.1/24 dev net0`, one of the actions that "netlinkd should be hookable following action very-very correctry" names (`README.md:37`, `:49`): VPP's route gets a next hop that `set_route` never initialised |
| `NetlinkSids.cfg` with `MCNetlinkSync` | End.DX4 routes never have the interface they name, and are never removed |
| `VppThreads.cfg` with `MCVppSession` | a VUI command is connected: an update of the netlink thread is dropped |
| `VppAddresses.cfg` with `MCVppSession` | `show vpp interface` reads every address and prints "Internet address: none": the code that formats them is commented out |
| `EventLoopAsync.cfg` with `MCEventLoop` | the task that another thread cancels is running and itself cancels something: this serves the whole batch, and `thread_cancel_async` returns before the task completes, though its comment says it "blocks until it completes" |
| `LibraryExact.cfg` with `MCLibrary` | "invariant: count is the number of listnodes in the list" (`linklist.h:43`): `listnode_add_head` on an empty list sets no tail, and a sorted addition at the end then drops the nodes before it; nothing in the daemon calls it |
| `LibraryExact.cfg` with `MCLibrary` | "When string format is invalid return 0" (`prefix.c:842`), but a length of 256 is cut to 0 and read; the common bits of EVPN prefixes exceed "maximum prefix length for the address family" (`prefix.c:770`), whose size in bits is taken for bytes; flowspec prefixes with the same rules are not the same for `prefix_same`, which compares pointers |

`LibraryExact.cfg` checks four invariants; `tlc -continue` reports the violations of all.

The models also contain behaviour that no run asks about, because nothing in the repository states
otherwise: a reset of a tap that was never set closes descriptor 0; after VPP stalls for three seconds,
`show vpp interface` stores late interface details as addresses; `vpe disconnect`, or any command of the
VUI that fails to connect, takes the connection away from an update of the netlink thread; `monitor enable` typed after the start is shown as enabled and starts nothing;
`show history` never lists the oldest line of a full ring; a page whose write is short loses the rest;
a password set while encryption is on is gone once it is off.

**Bounds.** Two nodes, taps or interfaces are enough for the cases the code tells apart (mine, another,
none); names add a pair that begins alike, and a search text that is only the beginning of both. Two
descriptors let one be shared and one be reused. A frame of several packets is several frames of one
packet before the processes run again, so frames have one; no property of `tap_mirror` relates two clones,
so one is in flight at a time (`TapMirrorClone.cfg` has more). The hooks of links, addresses
and routes share no state but the queue and the pairs, so one run has two interfaces with links and
addresses, the other all kinds on one interface. A queue of two lets a
notification arrive before, between and after parts of a dump, and lets one be lost. Two or three
kernel changes let an object change, change back and be replaced. `MaxCommands` lets several commands
of both threads follow one that timed out and left requests behind. Two tasks let a cancel name one while the other
runs, and let a freed task struct be reused. Lines of three letters have a first, a middle and a last
place, and a full one; four runs fill the ring of three and turn it. Chunks of two bytes and a
descriptor of three let every write end inside, at and after a chunk. The commands of `MCLibrary` share
a first word, a selector, an optional token and a variable, so that four calls merge,
unmerge and merge again; timers and items fill three levels of a heap. Arithmetic on prefixes does
not depend on the width of a byte, so 2-bit bytes allow every prefix to be tried; lengths as text have
the code's width. Deadlock checking is off where the bounded
environment, or an aborted process, may leave nothing to do.

**Fairness.** `NetlinkSync`: the netlink thread is never blocked for good (each wait for VPP ends after
a second), and the kernel continues a dump when there is room. `VppSession`: a thread goes on when a
reply is there or its wait is over; VPP need not ever answer. `Startup`: threads that can run do, and
time passes; nothing is assumed of VPP. `EventLoop`: the owner is not stopped for good, handlers return,
poll reports a descriptor that is ready again and again (`SF` on leaving the poll), time passes, and a
helper that was signalled wakes. `VtySession`: the write task runs when the descriptor has room, the
read task when the peer has gone, and the terminal takes what it was sent; nobody need press a key. The
other modules state safety only.

## Proofs

Every safety property of the runs is proved for all values of the constants, but those of `EventLoop`,
`VtyLine` and the algorithms of `MCLibrary`. The assumptions are the named `ASSUME`s of the modules
(sizes are natural numbers, `None` is no interface, and the like) and what is said below. Each proof
has the same shape: an inductive invariant, a lemma for each action that it is kept, and the
property from the invariant.

**TapMirrorProofs**, for any nodes and taps and any number of slots, descriptors and
buffers, whatever their names: `ContextsHold` (`ContextsSound`, from `TypeCorrect`, `HookSafety` and
`ContextSafety`), `EventSafety` (`EventsKeepTheirNode`) and `DescriptorSafety` (`TapFdsOpen`). Of the names
they use only that each is a prefix of itself. `NoNullContext` is not inductive alone: a context is freed only
while the graph runs, and events of the freed slot are safe because the redirector's pending events
are taken with the phase of the main loop into account; the invariant carries this relation.

**TapInjectProofs**, for any interfaces, descriptors, kernel devices and buffers: `Sound` (`TapsSound`),
`Implements` (`PairingSpec`, the refinement of TapPairing) and `DumpOneToOne`, what the abstract
specification promises of a pairing, read off the plugin's dump. The invariant has two parts. `Linked`
holds always: each tap leads to an open device and back, and every device was given out once, so a new
descriptor and a new index cannot redirect a tap that stands. `Exact` holds while taps are enabled only
when disabled (`~careless`): the reverse tables and the open descriptors hold nothing but taps that
stand. The refinement needs both, because a stale entry in the reverse table would let a new pair
share a side with an old one.

**NetlinkSyncProofs**, for any interfaces, addresses, prefixes, flags, pairs and sizes of the socket
buffer, and any number of changes and restarts: `InterfacesFollow` (`InterfacesAgree`)
and `ForwardingFollows` (`ForwardingAgrees`). Nothing is assumed of the flags that change together: the
state of a link in VPP is the kernel's, or up for an interface in `misread`, and the invariant says which
of the two the last message about the link will make it. The properties say nothing while
messages wait, so none is inductive. The invariant follows each object through the socket: the last
message about it that waits says what the kernel has now (`Last`), and when none waits (`Free`), what
the daemon has made of the earlier ones (its cache, then VPP) is what the kernel has, or the object is
still to be dumped. The reasons a phase needs are in `OneDump` (a dump belongs to its phase, and one
end of a dump waits at most) and `Empty` (VPP has nothing before the first dumps).

**VppSessionProofs**, for any threads, interfaces, addresses and number of commands: `Successes`
(`SuccessIsReal`), `Sessions` (`SessionsSound`) and `Shows` (`ShowIsRight`). VPP answers in order, so the
replies that wait and the requests not yet served are one stream, and the pong of the command's ping
cuts it in two: `Split` says which kinds may stand before the cut and after it, on whichever side of VPP
it is. Requests that an earlier command left behind carry another client, and no client number is used
twice (`Numbered`). All of it is claimed while no thread cut another's connection (`~cut`), and that is
enough for any commands on any threads: a connect finds the process connected or has it for itself, so a
thread inside a command is alone there (`SessionInv`, which adds to the stream who owns the connection and
that the memory is mapped).

**StartupProofs**, for every number of polls, try-count, interval and connection time:
`NoEarlyQuit` (`QuitsOnlyWhenLate`) and `OrderKept` (`StartOrdered`, from `ConfigFirst` and
`WaitHonest`; the latter rests on `WaitOver`: past the wait, VPP is done or no try is left). The
inductive invariant is a budget: before the VUI thread has started, the clock is at most the end of
its current call, that end is at most the seconds its commands may have used so far (`Spent`), and
main's polls are at most the clock (`Clock`). With the values of `routerd.conf` (try-count 5,
interval 1) the budget is 14 seconds with an immediate connection, more than the 10 main waits; a
configuration with a budget of 9 or less cannot make main give up.

**ShellProofs**, for any sessions, passwords, application nodes and length of the backup:
`OldPasswordsGone` (`NoOldPassword`), `ModesFollow` (`ModesRight`), `ConfNeverHalf` (`ConfWhole`) and
`LinesFindCommands` (`CommandsFound`). The inductive invariant has three parts that share no variable:
`HostOK` (each pair of copies of a password holds the current one or nothing, by the setting of
encryption), `TtyOK` (what each session's node says of its flags) and `BootOK` (how far the copy of the
backup is, at each place of the recovery). `CommandsFound` is about every line in a reachable state:
it follows from the types and from how many parents a node has.

**VtySessionProofs**, for any size of chunks, capacity of the descriptor, window and bound on what
waits: `OutputArrives` (`OutputKept`), `AlwaysAttentive` (`Attentive`) and the action property `PagesFit`
(`PageFits`). The first part are lemmas about `buffer.c`: bytes that are put are the last ones waiting,
whatever chunks they fall in (`PutAdds`); a flush of *n* bytes leaves the rest and no empty chunk
(`FlushedLeaves`); a window shows no more lines than it has, and what it shows waits no more
(`ShownIs`, `WindowIs`). The loops of the code are functions from an index to the next; that such a
function exists and what it keeps is proved once, from the least number of a set (`Lowest`, `Upward`,
`Recursion`, `Stays`). The invariant `Good` adds to the properties what makes them inductive: no chunk is
empty, a telnet descriptor holds at most its capacity (or the room would be negative), and what waits
is bounded, so that a write of everything is one that is not short.

**ProcessProofs** proves `NeverForgotten` (`NoSignalForgotten`) for any number of signals and threads.
The property says of each due signal who will still act (a handler between its two assignments, the
master's flag, or the loop before it has passed the signal) and is inductive once the signals that the
handlers and the loop are at are known to be in the table. It also proves `PrivilegesRight`
(`PrivsRight`) for any users: the count of uses is the number of blocks inside and the one in the
mutex that is already, or still, counted (`Counted`), and the credentials follow from who is inside and
whether the one in the mutex is lowering (`Switched`).

**Only model-checked.** All liveness (`Converges`, `CommandsEnd`, `StartsUp`, `TasksRun`, `OutputEnds`):
the prover has neither `ENABLED` nor fairness. `EventLoop` and the algorithms of `MCLibrary` (heaps,
graphs, matching, containers, prefixes): most are recursive operators, which the prover does not take,
and what they compute for every input would need induction over data. `VtyLine`: what the keys do to a
line is a long list of cases on sequences, tried in full for short lines.

## What is left out

Contents of packets and messages, statistics counters, IPv6 addresses and routes in the hooks (the
code ignores them), neighbours (only counted), VRFs and multicast. The kernel's silent removal of
routes when a link goes down is not modelled: no netlink message tells the daemon. The data race on
`rd_ctx.interfaces` is modelled as an atomic append. What a thread reads after its memory was unmapped is
modelled only as far as it goes on with the connection there is. VPP sends all details of one dump in one step. Time of VPP's own work appears in `Startup` only.

## Not modelled

- libvui: code for the vtysh server and for capabilities, which the build leaves out (`VTYSH`,
  `HAVE_CAPABILITIES`); the output filter, which nothing sets; `xpath_index`; writing the
  configuration back, banners and the show commands, which only print; completion handlers for
  variables, of which the daemon registers none; the lexer of definition strings; `memory.c`, `qobj.c`,
  `printfrr`, logging and the CPU accounting, on which no behaviour depends; the socket wrappers, one
  system call each; the red-black tree, whose code is not in the repository.
- `src/src/log.cc` and the tap node: output, and one-shot device creation.
- libyalin's attribute views and tools: read-only parsing and printing of messages. NetlinkSync works
  on what the messages mean.
- `netlink_scripts`, `misc/emu`: stand-alone experiments.
- The composition of NetlinkSync with VppSession and TapPairing: the pairs are read once by a
  command, and `Push` already allows each update to be lost, which is what a session can do to it.
