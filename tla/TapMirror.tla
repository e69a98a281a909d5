------------------------------ MODULE TapMirror ------------------------------
(***************************************************************************)
(* The tap_mirror VPP plugin: `set tap-mirror node N tap T [reset]` swaps  *)
(* the function of graph node N for tap_mirror_input_fn, which clones      *)
(* every packet of N and signals the clone to the process node             *)
(* tap-mirror-redirector, which writes it to the taps attached to N.       *)
(*                                                                         *)
(* Everything runs on VPP's main thread: graph nodes, CLI commands and the *)
(* redirector never preempt one another, but they interleave, and a        *)
(* context is freed by the data path (request_to_free), not by the CLI.    *)
(***************************************************************************)
EXTENDS Integers, Sequences, FiniteSets

CONSTANTS
  Node,        \* names an operator may type for a graph node
  KnownNode,   \* the ones the VPP graph really has
  Tap,         \* names of tap devices
  NodePrefix,  \* <<a, b>>: name a begins with name b (memcmp over strlen(b))
  TapPrefix,   \* the same for tap names
  NSlots,      \* vec_len(contexts), 9 in tap_mirror_init
  MaxFd,       \* descriptors are 0 .. MaxFd; 0 is standard input
  NBuffers,    \* packet buffers VPP has for clones
  MaxFrame,    \* n_vectors of a frame
  MaxTaps,     \* bound: entries of one context's tap_fds
  NULL, Mirror, Free, Stdin

ASSUME NamesAssumption ==
  /\ KnownNode \subseteq Node
  /\ NodePrefix \subseteq Node \X Node /\ \A n \in Node : <<n, n>> \in NodePrefix
  /\ TapPrefix \subseteq Tap \X Tap /\ \A t \in Tap : <<t, t>> \in TapPrefix
ASSUME BoundsAssumption ==
  /\ NSlots \in Nat \ {0} /\ MaxFd \in Nat /\ NBuffers \in Nat
  /\ MaxFrame \in Nat \ {0} /\ MaxTaps \in Nat
ASSUME DistinctAssumption ==
  /\ Mirror \notin Node
  /\ Free \notin Tap /\ Stdin \notin Tap /\ Free # Stdin
  /\ NULL \notin {Free, Stdin}

Slot == 0 .. NSlots - 1
Fd == 0 .. MaxFd
TapEntry == [name : Tap \cup {NULL}, fd : Fd]
Context == [target_node_name : Node, target_fn : Node \cup {Mirror},
            taps : Seq(TapEntry), request_to_free : BOOLEAN]

ASSUME NullAssumption == NULL \notin Context /\ NULL \notin Tap

\* An entry of tap_fds and tap_names that every loop skips because its
\* descriptor is not positive: reset, a failed open, or descriptor 0.
Dead == [name |-> NULL, fd |-> 0]

VARIABLES
  contexts,  \* xm->contexts: [Slot -> Context or NULL]
  flagged,   \* TAP_MIRROR_F_ENABLED is set in xm->flags
  function,  \* runtime->function of each node: its own (the node's name) or Mirror
  fds,       \* the descriptor table: Free, Stdin or the tap a descriptor drives
  linkUp,    \* tap devices that are administratively up
  pending,   \* events of the redirector: per event type, the mirrored node of each clone
  avail,     \* free packet buffers
  phase,     \* what VPP's main loop is running: "graph" or "process" nodes
  fault,     \* "none", or what stopped the process
  lent       \* history: descriptors that a tap of another name was given, until no
             \* entry holds them

vars == <<contexts, flagged, function, fds, linkUp, pending, avail, phase, fault, lent>>

Init ==
  /\ contexts = [s \in Slot |-> NULL]
  /\ flagged = FALSE
  /\ function = [n \in Node |-> n]
  /\ fds = [f \in Fd |-> IF f = 0 THEN Stdin ELSE Free]
  /\ linkUp = {}
  /\ pending = [s \in Slot |-> <<>>]
  /\ avail = NBuffers
  /\ phase = "process"
  /\ fault = "none"
  /\ lent = {}

-----------------------------------------------------------------------------
(* Look-ups: every one takes the first match, and a match is a prefix.      *)

InUse(ctxs) == {s \in Slot : ctxs[s] # NULL}

\* The loops of get_event_type, get_or_new_tap_mirror_context and
\* get_tap_mirror_context: slots whose node name begins with n.
Matching(n) == {s \in InUse(contexts) : <<contexts[s].target_node_name, n>> \in NodePrefix}

\* s is the slot those loops stop at.
FirstMatch(s, n) == s \in Matching(n) /\ \A r \in Matching(n) : s <= r

\* A live entry of a tap whose name begins with t.
Hit(entry, t) == entry.fd > 0 /\ <<entry.name, t>> \in TapPrefix

\* get_tapfd: the positions <<slot, index>> of such entries, over all contexts.
TapAt(ctxs, t) ==
  {p \in UNION {{s} \X DOMAIN ctxs[s].taps : s \in InUse(ctxs)} :
      Hit(ctxs[p[1]].taps[p[2]], t)}

\* The position its nested loops return.
FirstTapAt(p, ctxs, t) ==
  /\ p \in TapAt(ctxs, t)
  /\ \A q \in TapAt(ctxs, t) : p[1] < q[1] \/ (p[1] = q[1] /\ p[2] <= q[2])

\* The descriptors that live entries hold.
Held(ctxs) == {f \in Fd : \E s \in InUse(ctxs) : \E i \in DOMAIN ctxs[s].taps :
                            f > 0 /\ ctxs[s].taps[i].fd = f}

\* open(2) takes the lowest free descriptor.
LowestFree(f) == f \in Fd /\ fds[f] = Free /\ \A g \in 0 .. f - 1 : fds[g] # Free

-----------------------------------------------------------------------------
(* set tap-mirror node n tap t                                              *)

\* set_link_up_down on an existing device; its failure is ignored.
SetLinkUp(t) ==
  linkUp' \in {linkUp} \cup {linkUp \cup {t} : f \in {g \in Fd : fds'[g] = t}}

\* vec_add1 of the descriptor and the name to the context in slot s of ctxs.
WithTap(ctxs, s, t, fd) ==
  [ctxs EXCEPT ![s].taps = Append(@, IF fd = 0 THEN Dead ELSE [name |-> t, fd |-> fd])]

\* tap_mirror_context_add_new_tap on slot s of ctxs: an existing descriptor is
\* shared, otherwise /dev/net/tun is opened; the entry is added even if that failed.
AddNewTap(ctxs, s, t) ==
  /\ Len(ctxs[s].taps) < MaxTaps
  /\ IF TapAt(ctxs, t) # {}
     THEN \E p \in TapAt(ctxs, t) :
            /\ FirstTapAt(p, ctxs, t)
            /\ contexts' = WithTap(ctxs, s, t, ctxs[p[1]].taps[p[2]].fd)
            /\ lent' = lent \cup {f \in {ctxs[p[1]].taps[p[2]].fd} : ctxs[p[1]].taps[p[2]].name # t}
            /\ UNCHANGED fds
     ELSE /\ \/ \E fd \in Fd :
                  /\ LowestFree(fd)
                  /\ \A f \in Fd : fds[f] # t       \* else TUNSETIFF says EBUSY
                  /\ contexts' = WithTap(ctxs, s, t, fd)
                  /\ fds' = [fds EXCEPT ![fd] = t]
             \/ contexts' = WithTap(ctxs, s, t, 0) /\ UNCHANGED fds   \* open or TUNSETIFF failed
          /\ UNCHANGED lent
  /\ SetLinkUp(t)

\* get_or_new_tap_mirror_context, "search exist": the context is returned as it is.
EnableExisting(n, t) ==
  /\ \E s \in Slot : FirstMatch(s, n) /\ AddNewTap(contexts, s, t)
  /\ UNCHANGED function

\* Variant: no search for a context of the node before one is created.
EnableNewUnsearched(n, t) ==
  /\ n \in KnownNode
  /\ \E s \in Slot :
       /\ contexts[s] = NULL
       /\ AddNewTap([contexts EXCEPT ![s] = [target_node_name |-> n, target_fn |-> function[n],
                                             taps |-> <<>>, request_to_free |-> FALSE]], s, t)
  /\ function' = [function EXCEPT ![n] = Mirror]

\* get_or_new_tap_mirror_context, "create new": the first empty slot, and the
\* node's function is saved and replaced.
EnableNew(n, t) ==
  /\ Matching(n) = {} /\ n \in KnownNode
  /\ \E s \in Slot :
       /\ contexts[s] = NULL /\ \A r \in 0 .. s - 1 : contexts[r] # NULL
       /\ AddNewTap([contexts EXCEPT ![s] = [target_node_name |-> n, target_fn |-> function[n],
                                             taps |-> <<>>, request_to_free |-> FALSE]], s, t)
  /\ function' = [function EXCEPT ![n] = Mirror]

\* "create miss": no such node, or every slot is taken.
EnableMiss(n) ==
  /\ Matching(n) = {}
  /\ n \notin KnownNode \/ InUse(contexts) = Slot
  /\ UNCHANGED <<contexts, function, fds, linkUp, lent>>

EnableTapMirror(n, t) ==
  /\ fault = "none" /\ phase = "process"
  /\ flagged' = TRUE
  /\ EnableExisting(n, t) \/ EnableNew(n, t) \/ EnableMiss(n)
  /\ UNCHANGED <<pending, avail, phase, fault>>

-----------------------------------------------------------------------------
(* set tap-mirror node n tap t reset                                        *)

\* close(2) of fd: a tap device goes away with its descriptor.
Close(fd) ==
  /\ fds' = [fds EXCEPT ![fd] = Free]
  /\ linkUp' = linkUp \ {fds[fd]}

\* fd is the descriptor disable_tap_mirror ends up with: the last one it drops,
\* or the 0 that tap_fd was initialised to.
DroppedFd(fd, taps, t) ==
  LET hits == {i \in DOMAIN taps : Hit(taps[i], t)}
  IN  \/ hits = {} /\ fd = 0
      \/ \E i \in hits : (\A j \in hits : j <= i) /\ fd = taps[i].fd

Without(taps, t) == [i \in DOMAIN taps |-> IF Hit(taps[i], t) THEN Dead ELSE taps[i]]

NoTaps(taps) == \A i \in DOMAIN taps : taps[i].fd = 0

\* Variant: the CLI frees the context itself.
ResetFreesAtOnce(c, t) ==
  LET rest == Without(c.taps, t)
  IN  IF NoTaps(rest) THEN NULL ELSE [c EXCEPT !.taps = rest]

\* The context after the reset: without taps it asks to be freed.
ResetContext(c, t) ==
  LET rest == Without(c.taps, t)
  IN  [c EXCEPT !.taps = rest, !.request_to_free = @ \/ NoTaps(rest)]

\* Variant: the descriptor is closed although other contexts share it.
CloseAlways(fd, t) == Close(fd)

\* "if tap referencing node is nothing, close(fd)"
CloseIfUnused(fd, t) ==
  IF TapAt(contexts', t) = {} THEN Close(fd) ELSE UNCHANGED <<fds, linkUp>>

DisableTapMirror(n, t) ==
  /\ fault = "none" /\ phase = "process"
  /\ \E s \in Slot, fd \in Fd :
       /\ FirstMatch(s, n)
       /\ DroppedFd(fd, contexts[s].taps, t)
       /\ contexts' = [contexts EXCEPT ![s] = ResetContext(contexts[s], t)]
       /\ CloseIfUnused(fd, t)
  /\ lent' = lent \cap Held(contexts')
  /\ UNCHANGED <<flagged, function, pending, avail, phase, fault>>

\* set_tap_mirror_fn, once both names are given.
SetTapMirror(n, t, is_reset) ==
  IF is_reset THEN DisableTapMirror(n, t) ELSE EnableTapMirror(n, t)

-----------------------------------------------------------------------------
(* The data path                                                            *)

\* Variant: the packets are signalled before request_to_free is looked at.
SignalThenFree(s) ==
  /\ function' = [function EXCEPT ![contexts[s].target_node_name] = contexts[s].target_fn]
  /\ contexts' = [contexts EXCEPT ![s] = NULL]
  /\ pending' = [pending EXCEPT ![s] = Append(@, contexts[s].target_node_name)]
  /\ UNCHANGED <<avail, fault>>

\* request_to_free: the node gets its function back and the slot is emptied.
FreeContext(s) ==
  /\ function' = [function EXCEPT ![contexts[s].target_node_name] = contexts[s].target_fn]
  /\ contexts' = [contexts EXCEPT ![s] = NULL]
  /\ UNCHANGED <<pending, avail, fault>>

\* Clone each packet of the frame and signal it, with the slot as event type.
MirrorFrame(s, n, k) ==
  /\ IF k <= avail
     THEN /\ pending' = [pending EXCEPT ![s] = @ \o [i \in 1 .. k |-> n]]
          /\ avail' = avail - k
          /\ UNCHANGED fault
     ELSE /\ fault' = "assert"          \* assert(n_cloned == 2)
          /\ UNCHANGED <<pending, avail>>
  /\ UNCHANGED <<contexts, function>>

\* tap_mirror_input_fn on a frame of k packets of node n; the saved function
\* of the node then gets the frame.
InputFn(n, k) ==
  /\ fault = "none" /\ phase = "graph"
  /\ function[n] = Mirror
  /\ IF Matching(n) = {}
     THEN /\ fault' = "nocontext"       \* vec_elt(contexts, -1)
          /\ UNCHANGED <<contexts, function, pending, avail>>
     ELSE \E s \in Slot :
            /\ FirstMatch(s, n)
            /\ IF contexts[s].request_to_free THEN FreeContext(s) ELSE MirrorFrame(s, n, k)
  /\ lent' = lent \cap Held(contexts')
  /\ UNCHANGED <<flagged, fds, linkUp, phase>>

\* One turn of tap_mirror_redirector_fn: vlib_process_get_events hands over
\* every event of one type, but only the first clone is written and freed.
Redirector(s) ==
  /\ fault = "none" /\ phase = "process"
  /\ pending[s] # <<>>
  /\ pending' = [pending EXCEPT ![s] = <<>>]
  /\ IF contexts[s] = NULL
     THEN fault' = "nullctx" /\ UNCHANGED avail
     ELSE avail' = avail + 1 /\ UNCHANGED fault
  /\ UNCHANGED <<contexts, flagged, function, fds, linkUp, phase, lent>>

-----------------------------------------------------------------------------
(* VPP's main loop (external): process nodes, then the frames of the graph. *)
(* A signalled process is resumed in the next process pass, and             *)
(* vlib_process_suspend(vm, 0) does not yield, so the redirector has taken  *)
(* every event before graph nodes are dispatched again.                     *)

DispatchGraph ==
  /\ fault = "none" /\ phase = "process"
  /\ \A s \in Slot : pending[s] = <<>>
  /\ phase' = "graph"
  /\ UNCHANGED <<contexts, flagged, function, fds, linkUp, pending, avail, fault, lent>>

RunProcesses ==
  /\ fault = "none" /\ phase = "graph"
  /\ phase' = "process"
  /\ UNCHANGED <<contexts, flagged, function, fds, linkUp, pending, avail, fault, lent>>

Next ==
  \/ \E n \in Node, t \in Tap, is_reset \in BOOLEAN : SetTapMirror(n, t, is_reset)
  \/ \E n \in Node, k \in 1 .. MaxFrame : InputFn(n, k)
  \/ \E s \in Slot : Redirector(s)
  \/ DispatchGraph \/ RunProcesses

Spec == Init /\ [][Next]_vars

-----------------------------------------------------------------------------
(* Properties                                                               *)

TypeOK ==
  /\ contexts \in [Slot -> Context \cup {NULL}]
  /\ flagged \in BOOLEAN
  /\ function \in [Node -> Node \cup {Mirror}]
  /\ fds \in [Fd -> Tap \cup {Free, Stdin}]
  /\ linkUp \subseteq Tap
  /\ pending \in [Slot -> Seq(Node)]
  /\ avail \in Nat
  /\ phase \in {"graph", "process"}
  /\ fault \in {"none", "assert", "nocontext", "nullctx"}
  /\ lent \subseteq Fd

\* A node runs tap_mirror_input_fn exactly while one context, and only one,
\* is its own, and that context remembers the node's real function. Otherwise
\* packets of the node would be lost, or input_fn would call itself.
HookConsistent ==
  /\ \A n \in Node : function[n] \in {n, Mirror}
  /\ \A n \in Node : function[n] = Mirror <=>
        \E s \in InUse(contexts) : contexts[s].target_node_name = n
  /\ \A s, r \in InUse(contexts) :
        contexts[s].target_node_name = contexts[r].target_node_name => s = r
  /\ \A s \in InUse(contexts) : contexts[s].target_fn = contexts[s].target_node_name

\* tap_mirror_input_fn and the redirector never index contexts with -1 and
\* never follow a NULL context: freeing is left to the data path, so an event
\* already signalled still finds its context.
NoNullContext == fault \notin {"nocontext", "nullctx"}

\* Hooks and contexts belong to each other in every state, and whoever follows one finds
\* the other (enable_tap_mirror, disable_tap_mirror, tap_mirror_input_fn).
ContextsSound == TypeOK /\ HookConsistent /\ NoNullContext

\* A clone waiting for the redirector is written to the taps of a context that
\* is still there and that get_event_type would find for the node it was cloned
\* from: its own, or one of a node whose name begins with its node's name. No
\* slot that is freed and reused in between gives it to any other node's taps.
EventsKeepTheirNode ==
  \A s \in Slot : pending[s] # <<>> =>
    /\ contexts[s] # NULL
    /\ \A i \in DOMAIN pending[s] : <<contexts[s].target_node_name, pending[s][i]>> \in NodePrefix

\* A clone waiting for the redirector is written to the taps of its own node. This
\* fails when the names of two mirrored nodes begin alike: get_event_type compares
\* as many characters as the node's own name has.
EventsKeepOwnNode ==
  \A s \in Slot : pending[s] # <<>> =>
    /\ contexts[s] # NULL
    /\ \A i \in DOMAIN pending[s] : pending[s][i] = contexts[s].target_node_name

\* Every descriptor the redirector would write to is open and drives the tap it
\* was configured for, although contexts share descriptors by name and reset closes
\* them by name: but for a descriptor that get_tapfd gave to a tap of another name.
TapFdsOpen ==
  \A s \in InUse(contexts) : \A i \in DOMAIN contexts[s].taps :
    contexts[s].taps[i].fd > 0 =>
      contexts[s].taps[i].fd \in lent \/ fds[contexts[s].taps[i].fd] = contexts[s].taps[i].name

\* The same of every descriptor. This fails when tap10 is set before tap1: get_tapfd
\* answers tap1 with the descriptor of tap10.
TapFdsOwn ==
  \A s \in InUse(contexts) : \A i \in DOMAIN contexts[s].taps :
    contexts[s].taps[i].fd > 0 => fds[contexts[s].taps[i].fd] = contexts[s].taps[i].name

\* "if no tap-fds delete ctx request": a context is freed only when it has no
\* tap left.
FreedOnlyWhenEmpty ==
  [][\A s \in InUse(contexts) : contexts'[s] = NULL => NoTaps(contexts[s].taps)]_vars

\* assert(n_cloned == 2): cloning fails only when the clones still waiting for
\* the redirector leave less than a frame's worth of buffers.
CloneAssertion ==
  fault = "assert" =>
    MaxFrame + Cardinality(UNION {{s} \X DOMAIN pending[s] : s \in Slot}) > NBuffers

=============================================================================
