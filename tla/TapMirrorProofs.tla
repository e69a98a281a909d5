--------------------------- MODULE TapMirrorProofs ---------------------------
(***************************************************************************)
(* Proofs about TapMirror, for any number of slots, nodes, taps, buffers.  *)
(***************************************************************************)
EXTENDS TapMirror, TLAPS

\* A context that EnableNew puts into a slot.
NewContext(n) == [target_node_name |-> n, target_fn |-> function[n],
                  taps |-> <<>>, request_to_free |-> FALSE]

\* Adding a tap to slot s of ctxs changes that slot's taps and nothing else
\* about the contexts, and leaves descriptors and links well typed.
LEMMA AddNewTapEffect ==
  ASSUME TypeOK, NEW ctxs \in [Slot -> Context \cup {NULL}], NEW s \in Slot,
         ctxs[s] # NULL, NEW t \in Tap, AddNewTap(ctxs, s, t)
  PROVE  /\ \E e \in TapEntry :
              contexts' = [ctxs EXCEPT ![s].taps = Append(@, e)]
         /\ fds' \in [Fd -> Tap \cup {Free, Stdin}]
         /\ linkUp' \subseteq Tap
         /\ lent' \subseteq Fd
<1>1. fds' \in [Fd -> Tap \cup {Free, Stdin}]
  BY DEF AddNewTap, TypeOK
<1>2. linkUp' \subseteq Tap
  BY DEF AddNewTap, SetLinkUp, TypeOK
<1>3. 0 \in Fd
  BY BoundsAssumption DEF Fd
<1>4. \A fd \in Fd : (IF fd = 0 THEN Dead ELSE [name |-> t, fd |-> fd]) \in TapEntry
  BY <1>3 DEF Dead, TapEntry
<1>5. \A p \in TapAt(ctxs, t) : ctxs[p[1]].taps[p[2]].fd \in Fd
  <2> SUFFICES ASSUME NEW p \in TapAt(ctxs, t) PROVE ctxs[p[1]].taps[p[2]].fd \in Fd
    OBVIOUS
  <2>1. PICK r \in InUse(ctxs) : p \in {r} \X DOMAIN ctxs[r].taps
    BY DEF TapAt
  <2>2. ctxs[r] \in Context
    BY DEF InUse
  <2>3. p[1] = r /\ p[2] \in DOMAIN ctxs[r].taps
    BY <2>1
  <2>4. ctxs[r].taps[p[2]] \in TapEntry
    BY <2>2, <2>3 DEF Context
  <2> QED
    BY <2>3, <2>4 DEF TapEntry
<1>6. \E fd \in Fd : contexts' = WithTap(ctxs, s, t, fd)
  BY <1>3, <1>5 DEF AddNewTap
<1>7. lent' \subseteq Fd
  BY <1>5 DEF AddNewTap, TypeOK
<1> QED
  BY <1>1, <1>2, <1>4, <1>6, <1>7, Zenon DEF WithTap

\* What HookConsistent reads of a context is untouched from a to b.
SameHooks(a, b) ==
  /\ InUse(a) = InUse(b)
  /\ \A s \in InUse(a) : /\ a[s].target_node_name = b[s].target_node_name
                         /\ a[s].target_fn = b[s].target_fn

\* Appending a tap keeps a context a context with the same hook.
LEMMA AppendTap ==
  ASSUME NEW ctxs \in [Slot -> Context \cup {NULL}], NEW s \in Slot,
         ctxs[s] # NULL, NEW e \in TapEntry,
         contexts' = [ctxs EXCEPT ![s].taps = Append(@, e)]
  PROVE  /\ contexts' \in [Slot -> Context \cup {NULL}]
         /\ SameHooks(ctxs, contexts')
         /\ \A r \in InUse(ctxs) : contexts'[r].request_to_free = ctxs[r].request_to_free
         /\ \A r \in Slot \ {s} : contexts'[r] = ctxs[r]
         /\ contexts'[s].taps = Append(ctxs[s].taps, e)
<1>1. ctxs[s] \in Context
  OBVIOUS
<1>2. Append(ctxs[s].taps, e) \in Seq(TapEntry)
  BY <1>1 DEF Context
<1> DEFINE c == [ctxs[s] EXCEPT !.taps = Append(ctxs[s].taps, e)]
<1>3. /\ c \in Context
      /\ c.target_node_name = ctxs[s].target_node_name
      /\ c.target_fn = ctxs[s].target_fn
      /\ c.request_to_free = ctxs[s].request_to_free
      /\ c.taps = Append(ctxs[s].taps, e)
  BY <1>1, <1>2, Zenon DEF Context
<1>4. c # NULL
  BY <1>3, NullAssumption, Zenon
<1>5. contexts' = [ctxs EXCEPT ![s] = c]
  OBVIOUS
<1> HIDE DEF c
<1>6. InUse(contexts') = InUse(ctxs)
  BY <1>4, <1>5, Zenon DEF InUse
<1> QED
  BY <1>3, <1>5, <1>6, Zenon DEF SameHooks, InUse

\* The context a reset leaves in slot s keeps its hook and its type.
LEMMA DropTap ==
  ASSUME TypeOK, NEW s \in Slot, contexts[s] # NULL, NEW t \in Tap,
         contexts' = [contexts EXCEPT ![s] = ResetContext(contexts[s], t)]
  PROVE  /\ contexts' \in [Slot -> Context \cup {NULL}]
         /\ SameHooks(contexts, contexts')
         /\ \A r \in Slot \ {s} : contexts'[r] = contexts[r]
         /\ contexts'[s].taps = Without(contexts[s].taps, t)
<1> DEFINE rest == Without(contexts[s].taps, t)
<1>1. contexts[s] \in Context
  BY DEF TypeOK
<1>2. Dead \in TapEntry
  BY BoundsAssumption DEF Dead, TapEntry, Fd
<1>3. rest \in Seq(TapEntry)
  <2>1. PICK k \in Nat : DOMAIN contexts[s].taps = 1 .. k
    BY <1>1 DEF Context
  <2>2. \A i \in 1 .. k : contexts[s].taps[i] \in TapEntry
    BY <1>1, <2>1 DEF Context
  <2>3. rest \in [1 .. k -> TapEntry]
    BY <1>2, <2>1, <2>2 DEF Without
  <2> QED
    BY <2>3
<1>4. NoTaps(rest) \in BOOLEAN
  BY DEF NoTaps
<1> HIDE DEF rest
<1> DEFINE c == [contexts[s] EXCEPT !.taps = rest,
                   !.request_to_free = contexts[s].request_to_free \/ NoTaps(rest)]
<1>5. /\ c \in Context
      /\ c.target_node_name = contexts[s].target_node_name
      /\ c.target_fn = contexts[s].target_fn
      /\ c.taps = rest
  BY <1>1, <1>3, <1>4, Zenon DEF Context
<1>6. c # NULL
  BY <1>5, NullAssumption
<1>7. contexts' = [contexts EXCEPT ![s] = c]
  BY DEF ResetContext, rest
<1> HIDE DEF c
<1>8. InUse(contexts') = InUse(contexts)
  BY <1>6, <1>7 DEF InUse, TypeOK
<1> QED
  BY <1>5, <1>7, <1>8 DEF SameHooks, InUse, TypeOK, rest

\* HookConsistent survives any change that keeps the hooks.
LEMMA HooksKept ==
  ASSUME TypeOK, HookConsistent, SameHooks(contexts, contexts'), function' = function
  PROVE  HookConsistent'
<1> DEFINE U == InUse(contexts)
<1>1. InUse(contexts)' = U
  BY DEF SameHooks, InUse
<1>2. \A s \in U : /\ contexts'[s].target_node_name = contexts[s].target_node_name
                  /\ contexts'[s].target_fn = contexts[s].target_fn
  BY DEF SameHooks
<1> HIDE DEF U
<1> QED
  BY <1>1, <1>2 DEF HookConsistent, U

\* An event waiting for the redirector has its context, and while the graph
\* runs that context has not asked to be freed: request_to_free is set and
\* acted upon in different phases, with the events consumed in between.
PendingInv ==
  \A s \in Slot : pending[s] # <<>> =>
    /\ contexts[s] # NULL
    /\ phase = "graph" => ~contexts[s].request_to_free

\* The inductive invariant.
IInv == TypeOK /\ HookConsistent /\ PendingInv /\ NoNullContext

\* VPP starts with no node mirrored.
LEMMA InitIInv == Init => IInv
<1> SUFFICES ASSUME Init PROVE IInv
  OBVIOUS
<1>1. TypeOK
  <2>1. fds \in [Fd -> Tap \cup {Free, Stdin}]
    BY DEF Init
  <2>2. pending \in [Slot -> Seq(Node)]
    <3>1. <<>> \in Seq(Node)
      OBVIOUS
    <3> QED
      BY <3>1 DEF Init
  <2>3. avail \in Nat
    BY BoundsAssumption DEF Init
  <2> QED
    BY <2>1, <2>2, <2>3, Zenon DEF Init, TypeOK
<1>2. InUse(contexts) = {}
  BY DEF Init, InUse
<1>3. HookConsistent
  BY <1>2, DistinctAssumption DEF Init, HookConsistent
<1>4. PendingInv /\ NoNullContext
  BY DEF Init, PendingInv, NoNullContext
<1> QED
  BY <1>1, <1>3, <1>4 DEF IInv

\* set tap-mirror: a tap is added to a context that exists.
LEMMA EnableExistingStep ==
  ASSUME IInv, NEW n \in Node, NEW t \in Tap, EnableTapMirror(n, t), EnableExisting(n, t)
  PROVE  IInv'
<1> USE DEF IInv
<1>1. PICK s \in Slot : FirstMatch(s, n) /\ AddNewTap(contexts, s, t)
  BY DEF EnableExisting
<1>2. contexts \in [Slot -> Context \cup {NULL}] /\ contexts[s] # NULL
  BY <1>1 DEF FirstMatch, Matching, InUse, TypeOK
<1>3. /\ \E e \in TapEntry : contexts' = [contexts EXCEPT ![s].taps = Append(@, e)]
      /\ fds' \in [Fd -> Tap \cup {Free, Stdin}]
      /\ linkUp' \subseteq Tap
      /\ lent' \subseteq Fd
  BY <1>1, <1>2, AddNewTapEffect
<1>4. /\ contexts' \in [Slot -> Context \cup {NULL}]
      /\ SameHooks(contexts, contexts')
      /\ \A r \in InUse(contexts) : contexts'[r].request_to_free = contexts[r].request_to_free
  BY <1>2, <1>3, AppendTap, Zenon
<1>5. TypeOK'
  BY <1>3, <1>4 DEF TypeOK, EnableTapMirror, EnableExisting
<1>6. HookConsistent'
  BY <1>4, HooksKept DEF EnableExisting
<1>7. PendingInv' /\ NoNullContext'
  BY <1>4 DEF EnableTapMirror, PendingInv, NoNullContext, SameHooks, InUse
<1> QED
  BY <1>5, <1>6, <1>7

\* set tap-mirror: a context is created in an empty slot.
LEMMA EnableNewStep ==
  ASSUME IInv, NEW n \in Node, NEW t \in Tap, EnableTapMirror(n, t), EnableNew(n, t)
  PROVE  IInv'
<1> USE DEF IInv
<1> DEFINE c == NewContext(n)
<1>1. PICK s \in Slot : contexts[s] = NULL /\ AddNewTap([contexts EXCEPT ![s] = c], s, t)
  BY Zenon DEF EnableNew, NewContext
<1> DEFINE ctxs == [contexts EXCEPT ![s] = c]
<1>2. /\ c \in Context /\ c.target_node_name = n
      /\ c.target_fn = function[n] /\ c.request_to_free = FALSE
  BY DEF NewContext, Context, TypeOK
<1>3. c # NULL
  BY <1>2, NullAssumption
<1>4. ctxs \in [Slot -> Context \cup {NULL}] /\ ctxs[s] = c
  BY <1>2 DEF TypeOK
<1>5. InUse(ctxs) = InUse(contexts) \cup {s} /\ s \notin InUse(contexts)
  BY <1>1, <1>3 DEF InUse, TypeOK
<1>6. \A r \in InUse(contexts) : ctxs[r] = contexts[r]
  BY <1>5 DEF InUse, TypeOK
<1>7. \A r \in InUse(contexts) : contexts[r].target_node_name # n
  BY NamesAssumption, Zenon DEF EnableNew, Matching
<1>8. function[n] = n
  BY <1>7 DEF HookConsistent
<1> HIDE DEF c, ctxs
<1>9. /\ \E e \in TapEntry : contexts' = [ctxs EXCEPT ![s].taps = Append(@, e)]
      /\ fds' \in [Fd -> Tap \cup {Free, Stdin}]
      /\ linkUp' \subseteq Tap
      /\ lent' \subseteq Fd
  BY <1>1, <1>3, <1>4, AddNewTapEffect, Zenon DEF ctxs
<1>10. /\ contexts' \in [Slot -> Context \cup {NULL}]
       /\ SameHooks(ctxs, contexts')
       /\ \A r \in InUse(ctxs) : contexts'[r].request_to_free = ctxs[r].request_to_free
  BY <1>3, <1>4, <1>9, AppendTap, Zenon
<1>11. function' = [function EXCEPT ![n] = Mirror] /\ function \in [Node -> Node \cup {Mirror}]
  BY DEF EnableNew, TypeOK
<1>12. TypeOK'
  BY <1>9, <1>10, <1>11 DEF TypeOK, EnableTapMirror
<1>13. InUse(contexts') = InUse(contexts) \cup {s}
  BY <1>5, <1>10 DEF SameHooks
<1>14. /\ \A r \in InUse(contexts) :
            /\ contexts'[r].target_node_name = contexts[r].target_node_name
            /\ contexts'[r].target_fn = contexts[r].target_fn
            /\ contexts'[r].request_to_free = contexts[r].request_to_free
       /\ contexts'[s].target_node_name = n /\ contexts'[s].target_fn = n
  BY <1>2, <1>4, <1>5, <1>6, <1>8, <1>10 DEF SameHooks
<1>15. HookConsistent'
  BY <1>5, <1>7, <1>11, <1>13, <1>14, DistinctAssumption DEF HookConsistent
<1>16. PendingInv' /\ NoNullContext'
  BY <1>13, <1>14 DEF EnableTapMirror, PendingInv, NoNullContext, InUse
<1> QED
  BY <1>12, <1>15, <1>16

\* set tap-mirror ... reset.
LEMMA DisableStep ==
  ASSUME IInv, NEW n \in Node, NEW t \in Tap, DisableTapMirror(n, t)
  PROVE  IInv'
<1> USE DEF IInv
<1>1. PICK s \in Slot, fd \in Fd :
         /\ FirstMatch(s, n)
         /\ contexts' = [contexts EXCEPT ![s] = ResetContext(contexts[s], t)]
         /\ Close(fd) \/ UNCHANGED <<fds, linkUp>>
  BY Zenon DEF DisableTapMirror, CloseIfUnused
<1>2. contexts[s] # NULL
  BY <1>1 DEF FirstMatch, Matching, InUse
<1>3. /\ contexts' \in [Slot -> Context \cup {NULL}]
      /\ SameHooks(contexts, contexts')
  BY <1>1, <1>2, DropTap, Zenon
<1>4. fds' \in [Fd -> Tap \cup {Free, Stdin}] /\ linkUp' \subseteq Tap
  BY <1>1 DEF Close, TypeOK
<1>5. TypeOK'
  BY <1>3, <1>4 DEF TypeOK, DisableTapMirror
<1>6. HookConsistent'
  BY <1>3, HooksKept DEF DisableTapMirror
<1>7. PendingInv' /\ NoNullContext'
  BY <1>3 DEF DisableTapMirror, PendingInv, NoNullContext, SameHooks, InUse
<1> QED
  BY <1>5, <1>6, <1>7

\* A frame of a mirrored node.
LEMMA InputFnStep ==
  ASSUME IInv, NEW n \in Node, NEW k \in 1 .. MaxFrame, InputFn(n, k)
  PROVE  IInv'
<1> USE DEF IInv
<1>1. Matching(n) # {}
  BY NamesAssumption, Zenon DEF InputFn, HookConsistent, Matching
<1>2. PICK s \in Slot :
        /\ FirstMatch(s, n)
        /\ IF contexts[s].request_to_free THEN FreeContext(s) ELSE MirrorFrame(s, n, k)
  BY <1>1 DEF InputFn
<1>3. contexts[s] # NULL /\ s \in InUse(contexts) /\ contexts[s] \in Context
  BY <1>2 DEF FirstMatch, Matching, InUse, TypeOK
<1>4. CASE contexts[s].request_to_free
  <2> DEFINE m == contexts[s].target_node_name
  <2>1. /\ contexts' = [contexts EXCEPT ![s] = NULL]
        /\ function' = [function EXCEPT ![m] = contexts[s].target_fn]
        /\ UNCHANGED <<pending, avail, fault>>
    BY <1>2, <1>4 DEF FreeContext
  <2>2. m \in Node /\ contexts[s].target_fn = m /\ m # Mirror
    BY <1>3, DistinctAssumption DEF HookConsistent, Context
  <2>3. TypeOK'
    BY <2>1, <2>2 DEF TypeOK, InputFn
  <2>4. InUse(contexts)' = InUse(contexts) \ {s}
    BY <2>1 DEF InUse, TypeOK
  <2>5. \A r \in InUse(contexts) \ {s} :
          contexts'[r] = contexts[r] /\ contexts[r].target_node_name # m
    BY <1>3, <2>1 DEF InUse, TypeOK, HookConsistent
  <2>6. function' = [function EXCEPT ![m] = m] /\ function \in [Node -> Node \cup {Mirror}]
    BY <2>1, <2>2 DEF TypeOK
  <2>7. contexts[s].target_node_name = m
    OBVIOUS
  <2> HIDE DEF m
  <2>8. \A x \in Node : function'[x] \in {x, Mirror}
    BY <2>2, <2>6 DEF HookConsistent
  <2>9. \A x \in Node : function'[x] = Mirror <=>
            \E r \in InUse(contexts) \ {s} : contexts[r].target_node_name = x
    <3> SUFFICES ASSUME NEW x \in Node
                 PROVE  function'[x] = Mirror <=>
                          \E r \in InUse(contexts) \ {s} : contexts[r].target_node_name = x
      OBVIOUS
    <3>1. CASE x = m
      BY <3>1, <2>2, <2>5, <2>6
    <3>2. CASE x # m
      <4>1. function'[x] = function[x]
        BY <3>2, <2>6
      <4>2. function[x] = Mirror <=> \E r \in InUse(contexts) : contexts[r].target_node_name = x
        BY DEF HookConsistent
      <4> QED
        BY <3>2, <2>7, <4>1, <4>2
    <3> QED
      BY <3>1, <3>2
  <2>10. HookConsistent'
    BY <2>4, <2>5, <2>8, <2>9 DEF HookConsistent
  <2>11. PendingInv' /\ NoNullContext'
    BY <1>4, <2>1 DEF PendingInv, NoNullContext, InputFn, TypeOK
  <2> QED
    BY <2>3, <2>10, <2>11
<1>5. CASE ~contexts[s].request_to_free
  <2>1. MirrorFrame(s, n, k)
    BY <1>2, <1>5
  <2>2. pending' \in [Slot -> Seq(Node)]
    <3>1. [i \in 1 .. k |-> n] \in Seq(Node)
      BY BoundsAssumption
    <3>2. pending[s] \o [i \in 1 .. k |-> n] \in Seq(Node)
      BY <3>1 DEF TypeOK
    <3> QED
      BY <2>1, <3>2, Zenon DEF MirrorFrame, TypeOK
  <2>3. avail' \in Nat
    BY <2>1, BoundsAssumption DEF MirrorFrame, TypeOK
  <2>4. TypeOK'
    BY <2>1, <2>2, <2>3 DEF TypeOK, MirrorFrame, InputFn
  <2>5. SameHooks(contexts, contexts') /\ function' = function
    BY <2>1 DEF SameHooks, MirrorFrame
  <2>6. HookConsistent'
    BY <2>5, HooksKept
  <2>7. PendingInv'
    BY <1>3, <1>5, <2>1 DEF PendingInv, MirrorFrame, InputFn, TypeOK
  <2>8. NoNullContext'
    BY <2>1 DEF NoNullContext, MirrorFrame
  <2> QED
    BY <2>4, <2>6, <2>7, <2>8
<1> QED
  BY <1>4, <1>5

\* One turn of the redirector.
LEMMA RedirectorStep ==
  ASSUME IInv, NEW s \in Slot, Redirector(s)
  PROVE  IInv'
<1> USE DEF IInv
<1>1. contexts[s] # NULL
  BY DEF Redirector, PendingInv
<1>2. <<>> \in Seq(Node)
  OBVIOUS
<1>3. TypeOK'
  BY <1>1, <1>2 DEF Redirector, TypeOK
<1>4. SameHooks(contexts, contexts') /\ function' = function
  BY DEF SameHooks, Redirector
<1>5. HookConsistent'
  BY <1>4, HooksKept
<1>6. PendingInv' /\ NoNullContext'
  BY <1>1 DEF Redirector, PendingInv, NoNullContext, TypeOK
<1> QED
  BY <1>3, <1>5, <1>6

\* The steps of VPP's main loop, and steps that change nothing.
LEMMA LoopStep ==
  ASSUME IInv, DispatchGraph \/ RunProcesses \/ UNCHANGED vars
  PROVE  IInv'
<1> USE DEF IInv
<1>1. TypeOK'
  BY DEF DispatchGraph, RunProcesses, vars, TypeOK
<1>2. SameHooks(contexts, contexts') /\ function' = function
  BY DEF SameHooks, DispatchGraph, RunProcesses, vars
<1>3. HookConsistent'
  BY <1>2, HooksKept
<1>4. PendingInv' /\ NoNullContext'
  BY DEF DispatchGraph, RunProcesses, vars, PendingInv, NoNullContext
<1> QED
  BY <1>1, <1>3, <1>4

\* set tap-mirror on a name that gets no context changes only the flag.
LEMMA EnableMissStep ==
  ASSUME IInv, NEW n \in Node, NEW t \in Tap, EnableTapMirror(n, t), EnableMiss(n)
  PROVE  IInv'
<1> USE DEF IInv
<1>1. TypeOK'
  BY DEF EnableTapMirror, EnableMiss, TypeOK
<1>2. SameHooks(contexts, contexts') /\ function' = function
  BY DEF SameHooks, EnableMiss
<1>3. HookConsistent'
  BY <1>2, HooksKept
<1>4. PendingInv' /\ NoNullContext'
  BY DEF EnableTapMirror, EnableMiss, PendingInv, NoNullContext
<1> QED
  BY <1>1, <1>3, <1>4

\* The inductive invariant holds in every reachable state.
THEOREM Invariance == Spec => []IInv
<1>1. IInv /\ [Next]_vars => IInv'
  <2> SUFFICES ASSUME IInv, [Next]_vars PROVE IInv'
    OBVIOUS
  <2>1. ASSUME NEW n \in Node, NEW t \in Tap, NEW is_reset \in BOOLEAN,
               SetTapMirror(n, t, is_reset)
        PROVE  IInv'
    <3>1. DisableTapMirror(n, t) \/ EnableTapMirror(n, t)
      BY <2>1 DEF SetTapMirror
    <3>2. EnableTapMirror(n, t) => EnableExisting(n, t) \/ EnableNew(n, t) \/ EnableMiss(n)
      BY DEF EnableTapMirror
    <3> QED
      BY <3>1, <3>2, DisableStep, EnableExistingStep, EnableNewStep, EnableMissStep
  <2>2. ASSUME NEW n \in Node, NEW k \in 1 .. MaxFrame, InputFn(n, k) PROVE IInv'
    BY <2>2, InputFnStep
  <2>3. ASSUME NEW s \in Slot, Redirector(s) PROVE IInv'
    BY <2>3, RedirectorStep
  <2>4. CASE DispatchGraph \/ RunProcesses \/ UNCHANGED vars
    BY <2>4, LoopStep
  <2> QED
    BY <2>1, <2>2, <2>3, <2>4 DEF Next
<1> QED
  BY <1>1, InitIInv, PTL DEF Spec

\* Every variable keeps its type.
THEOREM TypeCorrect == Spec => []TypeOK
<1>1. IInv => TypeOK
  BY DEF IInv
<1> QED
  BY <1>1, Invariance, PTL

\* A node runs tap_mirror_input_fn exactly while it has one context, whatever
\* the names: prefix matching picks the wrong context but never breaks the hook.
THEOREM HookSafety == Spec => []HookConsistent
<1>1. IInv => HookConsistent
  BY DEF IInv
<1> QED
  BY <1>1, Invariance, PTL

\* No NULL or missing context is ever followed by input_fn or the redirector.
THEOREM ContextSafety == Spec => []NoNullContext
<1>1. IInv => NoNullContext
  BY DEF IInv
<1> QED
  BY <1>1, Invariance, PTL

-----------------------------------------------------------------------------

\* Hooks, contexts and types together, as they are model-checked (enable_tap_mirror,
\* disable_tap_mirror, tap_mirror_input_fn).
THEOREM ContextsHold == Spec => []ContextsSound
BY TypeCorrect, HookSafety, ContextSafety, PTL DEF ContextsSound

\* Whatever the names, a clone reaches the taps of a context that get_event_type finds
\* for its node, never those of a slot that was freed or given to another node since.
THEOREM EventSafety == Spec => []EventsKeepTheirNode
<1>1. Init => EventsKeepTheirNode
  BY DEF Init, EventsKeepTheirNode
<1>2. IInv /\ EventsKeepTheirNode /\ [Next]_vars => EventsKeepTheirNode'
  <2> SUFFICES ASSUME IInv, EventsKeepTheirNode, [Next]_vars PROVE EventsKeepTheirNode'
    OBVIOUS
  <2>1. ASSUME \A s \in Slot : pending[s] # <<>> => contexts'[s] # NULL
                   /\ contexts'[s].target_node_name = contexts[s].target_node_name,
               pending' = pending
        PROVE  EventsKeepTheirNode'
    BY <2>1 DEF EventsKeepTheirNode
  <2>2. ASSUME SameHooks(contexts, contexts'), pending' = pending
        PROVE  EventsKeepTheirNode'
    BY <2>1, <2>2 DEF SameHooks, EventsKeepTheirNode, InUse
  <2>3. ASSUME NEW n \in Node, NEW t \in Tap, EnableTapMirror(n, t)
        PROVE  EventsKeepTheirNode'
    <3>1. pending' = pending
      BY <2>3 DEF EnableTapMirror
    <3>2. CASE EnableMiss(n)
      BY <3>1, <3>2 DEF EnableMiss, EventsKeepTheirNode
    <3>3. ASSUME NEW s \in Slot, NEW ctxs \in [Slot -> Context \cup {NULL}],
                 ctxs[s] # NULL, AddNewTap(ctxs, s, t),
                 \A r \in Slot : contexts[r] # NULL => ctxs[r] = contexts[r]
          PROVE  EventsKeepTheirNode'
      <4>1. \E e \in TapEntry : contexts' = [ctxs EXCEPT ![s].taps = Append(@, e)]
        BY <3>3, AddNewTapEffect DEF IInv
      <4>2. SameHooks(ctxs, contexts')
        BY <3>3, <4>1, AppendTap, Zenon
      <4> QED
        BY <2>1, <3>1, <3>3, <4>2 DEF SameHooks, EventsKeepTheirNode, InUse
    <3>4. CASE EnableExisting(n, t)
      <4>1. PICK s \in Slot : FirstMatch(s, n) /\ AddNewTap(contexts, s, t)
        BY <3>4 DEF EnableExisting
      <4>2. contexts \in [Slot -> Context \cup {NULL}] /\ contexts[s] # NULL
        BY <4>1 DEF FirstMatch, Matching, InUse, TypeOK, IInv
      <4> QED
        BY <3>3, <4>1, <4>2
    <3>5. CASE EnableNew(n, t)
      <4>1. PICK s \in Slot :
              contexts[s] = NULL /\ AddNewTap([contexts EXCEPT ![s] = NewContext(n)], s, t)
        BY <3>5, Zenon DEF EnableNew, NewContext
      <4> DEFINE ctxs == [contexts EXCEPT ![s] = NewContext(n)]
      <4>2. NewContext(n) \in Context /\ NewContext(n) # NULL
        <5>1. NewContext(n) \in Context
          BY DEF NewContext, Context, TypeOK, IInv
        <5> QED
          BY <5>1, NullAssumption
      <4>3. /\ ctxs \in [Slot -> Context \cup {NULL}] /\ ctxs[s] # NULL
            /\ \A r \in Slot : contexts[r] # NULL => ctxs[r] = contexts[r]
        BY <4>1, <4>2 DEF TypeOK, IInv
      <4>4. AddNewTap(ctxs, s, t)
        BY <4>1
      <4> HIDE DEF ctxs
      <4> QED
        BY <3>3, <4>3, <4>4
    <3> QED
      BY <2>3, <3>2, <3>4, <3>5 DEF EnableTapMirror
  <2>4. ASSUME NEW n \in Node, NEW t \in Tap, DisableTapMirror(n, t)
        PROVE  EventsKeepTheirNode'
    <3>1. PICK s \in Slot :
             /\ FirstMatch(s, n)
             /\ contexts' = [contexts EXCEPT ![s] = ResetContext(contexts[s], t)]
      BY <2>4, Zenon DEF DisableTapMirror
    <3>2. contexts[s] # NULL
      BY <3>1 DEF FirstMatch, Matching, InUse
    <3>3. SameHooks(contexts, contexts')
      BY <3>1, <3>2, DropTap, Zenon DEF IInv
    <3> QED
      BY <2>2, <2>4, <3>3 DEF DisableTapMirror
  <2>5. ASSUME NEW n \in Node, NEW k \in 1 .. MaxFrame, InputFn(n, k)
        PROVE  EventsKeepTheirNode'
    <3>1. Matching(n) # {}
      BY <2>5, NamesAssumption, Zenon DEF InputFn, HookConsistent, Matching, IInv
    <3>2. PICK s \in Slot :
            /\ FirstMatch(s, n)
            /\ IF contexts[s].request_to_free THEN FreeContext(s) ELSE MirrorFrame(s, n, k)
      BY <2>5, <3>1 DEF InputFn
    <3> DEFINE Finds(x) == <<contexts[s].target_node_name, x>> \in NodePrefix
    <3>3. contexts[s] # NULL /\ Finds(n)
      BY <3>2 DEF FirstMatch, Matching, InUse
    <3> HIDE DEF Finds
    <3>4. CASE contexts[s].request_to_free
      <4>1. pending[s] = <<>>
        BY <2>5, <3>4 DEF IInv, PendingInv, InputFn
      <4>2. contexts' = [contexts EXCEPT ![s] = NULL] /\ pending' = pending
        BY <3>2, <3>4 DEF FreeContext
      <4> QED
        BY <2>1, <4>1, <4>2 DEF EventsKeepTheirNode, IInv, TypeOK
    <3>5. CASE ~contexts[s].request_to_free
      <4>1. contexts' = contexts
            /\ \/ pending' = [pending EXCEPT ![s] = @ \o [i \in 1 .. k |-> n]]
               \/ pending' = pending
        BY <3>2, <3>5, Zenon DEF MirrorFrame
      <4>2. pending[s] \in Seq(Node) /\ [i \in 1 .. k |-> n] \in Seq(Node)
        BY BoundsAssumption DEF IInv, TypeOK
      <4>3. \A i \in DOMAIN pending[s] : Finds(pending[s][i])
        BY <3>3 DEF EventsKeepTheirNode, Finds
      <4>4. \A j \in DOMAIN (pending[s] \o [i \in 1 .. k |-> n]) :
              Finds((pending[s] \o [i \in 1 .. k |-> n])[j])
        BY <3>3, <4>2, <4>3
      <4>5. \A r \in Slot \ {s} : pending'[r] = pending[r]
        BY <4>1 DEF IInv, TypeOK
      <4>6. \A j \in DOMAIN pending'[s] : Finds(pending'[s][j])
        BY <4>1, <4>3, <4>4, Zenon DEF IInv, TypeOK
      <4> QED
        BY <3>3, <4>1, <4>5, <4>6 DEF EventsKeepTheirNode, Finds
    <3> QED
      BY <3>4, <3>5
  <2>6. ASSUME NEW s \in Slot, Redirector(s) PROVE EventsKeepTheirNode'
    BY <2>6 DEF Redirector, EventsKeepTheirNode, IInv, TypeOK
  <2>7. CASE DispatchGraph \/ RunProcesses \/ UNCHANGED vars
    BY <2>7 DEF DispatchGraph, RunProcesses, vars, EventsKeepTheirNode
  <2> QED
    BY <2>3, <2>4, <2>5, <2>6, <2>7 DEF Next, SetTapMirror
<1> QED
  BY <1>1, <1>2, Invariance, PTL DEF Spec

\* Every live descriptor of the contexts a is open on the tap it is stored under, but
\* for those lent to a tap of another name.
EntriesOpen(a) ==
  \A r \in InUse(a) : \A i \in DOMAIN a[r].taps :
     a[r].taps[i].fd > 0 => a[r].taps[i].fd \in lent \/ fds[a[r].taps[i].fd] = a[r].taps[i].name

\* Adding a tap to ctxs keeps every live descriptor of the contexts that is not lent
\* open on its own tap: a descriptor is shared under its name or lent, and a new one
\* was free.
LEMMA AddNewTapOpen ==
  ASSUME TypeOK, NEW ctxs \in [Slot -> Context \cup {NULL}],
         NEW s \in Slot, ctxs[s] # NULL, NEW t \in Tap, AddNewTap(ctxs, s, t),
         EntriesOpen(ctxs)
  PROVE  TapFdsOpen'
<1> DEFINE Entry(fd) == IF fd = 0 THEN Dead ELSE [name |-> t, fd |-> fd]
<1>0. lent \subseteq lent'
  BY DEF AddNewTap
<1>1. PICK fd \in Fd :
        /\ contexts' = WithTap(ctxs, s, t, fd)
        /\ \/ fds' = fds /\ (fd > 0 => fd \in lent' \/ fds[fd] = t)
           \/ fds[fd] = Free /\ fds' = [fds EXCEPT ![fd] = t]
  <2> DEFINE At(p) == ctxs[p[1]].taps[p[2]]
  <2>1. ASSUME NEW p \in TapAt(ctxs, t)
        PROVE  At(p).fd \in Fd /\ (At(p).name = t => At(p).fd \in lent \/ fds[At(p).fd] = t)
    <3>1. PICK r \in InUse(ctxs) : p \in {r} \X DOMAIN ctxs[r].taps
      BY <2>1 DEF TapAt
    <3>2. p[1] = r /\ p[2] \in DOMAIN ctxs[r].taps /\ ctxs[r] \in Context
      BY <3>1 DEF InUse
    <3>3. ctxs[r].taps[p[2]] \in TapEntry
      BY <3>2 DEF Context
    <3>4. ctxs[r].taps[p[2]].fd > 0
      BY <2>1, <3>2 DEF TapAt, Hit
    <3> QED
      BY <3>2, <3>3, <3>4 DEF TapEntry, EntriesOpen
  <2>2. 0 \in Fd
    BY BoundsAssumption DEF Fd
  <2>3. CASE \E p \in TapAt(ctxs, t) :
               /\ contexts' = WithTap(ctxs, s, t, At(p).fd)
               /\ At(p).name # t => At(p).fd \in lent'
               /\ UNCHANGED fds
    BY <1>0, <2>1, <2>3, Zenon
  <2>4. CASE \E fd \in Fd :
               /\ fds[fd] = Free
               /\ contexts' = WithTap(ctxs, s, t, fd)
               /\ fds' = [fds EXCEPT ![fd] = t]
    BY <2>4, Zenon
  <2>5. CASE contexts' = WithTap(ctxs, s, t, 0) /\ UNCHANGED fds
    BY <2>2, <2>5
  <2>6. CASE TapAt(ctxs, t) # {}
    <3>1. PICK p \in TapAt(ctxs, t) :
            /\ contexts' = WithTap(ctxs, s, t, At(p).fd)
            /\ lent' = lent \cup {f \in {At(p).fd} : At(p).name # t}
            /\ UNCHANGED fds
      BY <2>6, Zenon DEF AddNewTap
    <3> QED
      BY <2>3, <3>1
  <2> QED
    BY <2>4, <2>5, <2>6 DEF AddNewTap, LowestFree
<1>2. Entry(fd) \in TapEntry /\ (Entry(fd).fd > 0 => Entry(fd).fd = fd /\ Entry(fd).name = t)
  BY <1>1 DEF TapEntry, Dead, Fd
<1>9. contexts' = [ctxs EXCEPT ![s].taps = Append(@, Entry(fd))]
  BY <1>1 DEF WithTap
<1> HIDE DEF Entry
<1>3. /\ contexts' \in [Slot -> Context \cup {NULL}]
      /\ InUse(ctxs) = InUse(contexts')
      /\ \A r \in Slot \ {s} : contexts'[r] = ctxs[r]
      /\ contexts'[s].taps = Append(ctxs[s].taps, Entry(fd))
  <2>1. PICK e \in TapEntry : e = Entry(fd)
    BY <1>2
  <2>2. contexts' = [ctxs EXCEPT ![s].taps = Append(@, e)]
    BY <1>9, <2>1
  <2>3. /\ contexts' \in [Slot -> Context \cup {NULL}]
        /\ SameHooks(ctxs, contexts')
        /\ \A r \in InUse(ctxs) : contexts'[r].request_to_free = ctxs[r].request_to_free
        /\ \A r \in Slot \ {s} : contexts'[r] = ctxs[r]
        /\ contexts'[s].taps = Append(ctxs[s].taps, e)
    <3>1. s \in Slot /\ ctxs \in [Slot -> Context \cup {NULL}] /\ ctxs[s] # NULL /\ e \in TapEntry
      OBVIOUS
    <3> QED
      BY ONLY <2>2, <3>1, AppendTap, Zenon
  <2> QED
    BY <2>1, <2>3 DEF SameHooks
<1>4. ctxs[s].taps \in Seq(TapEntry)
  BY DEF Context
<1>5. fd \in lent' \/ fds'[fd] = t \/ fd = 0
  <2>1. fd = 0 \/ fd > 0
    BY BoundsAssumption DEF Fd
  <2> QED
    BY <1>1, <2>1 DEF TypeOK
<1>6. ASSUME NEW r \in InUse(ctxs), NEW i \in DOMAIN ctxs[r].taps, ctxs[r].taps[i].fd > 0
      PROVE  ctxs[r].taps[i].fd \in lent' \/ fds'[ctxs[r].taps[i].fd] = ctxs[r].taps[i].name
  <2>0. CASE ctxs[r].taps[i].fd \in lent
    BY <1>0, <2>0
  <2>1. ctxs[r] \in Context
    BY DEF InUse
  <2>2. ctxs[r].taps[i] \in TapEntry
    BY <2>1 DEF Context
  <2>3. ctxs[r].taps[i].fd \in Fd /\ ctxs[r].taps[i].name \in Tap \cup {NULL}
    BY <2>2 DEF TapEntry
  <2>4. ctxs[r].taps[i].fd \notin lent => fds[ctxs[r].taps[i].fd] = ctxs[r].taps[i].name
    BY <1>6 DEF EntriesOpen
  <2>5. CASE fds' = fds
    BY <2>0, <2>4, <2>5
  <2>6. CASE ctxs[r].taps[i].fd \notin lent /\ fds[fd] = Free /\ fds' = [fds EXCEPT ![fd] = t]
    <3>1. ctxs[r].taps[i].name \in Tap
      BY <2>3, <2>4, <2>6, DistinctAssumption DEF TypeOK
    <3>2. ctxs[r].taps[i].fd # fd
      BY <2>4, <2>6, <3>1, DistinctAssumption
    <3> QED
      BY <2>3, <2>4, <2>6, <3>2 DEF TypeOK
  <2> QED
    BY <1>1, <2>0, <2>5, <2>6
<1>7. ASSUME NEW r \in InUse(contexts'), NEW i \in DOMAIN contexts'[r].taps,
             contexts'[r].taps[i].fd > 0
      PROVE  \/ contexts'[r].taps[i].fd \in lent'
             \/ fds'[contexts'[r].taps[i].fd] = contexts'[r].taps[i].name
  <2>1. CASE r # s
    BY <1>3, <1>6, <1>7, <2>1 DEF InUse
  <2>2. CASE r = s /\ i \in DOMAIN ctxs[s].taps
    <3>1. contexts'[r].taps[i] = ctxs[s].taps[i]
      BY <1>2, <1>3, <1>4, <2>2
    <3> QED
      BY <1>3, <1>6, <1>7, <2>2, <3>1, ZenonT(60)
  <2>3. CASE r = s /\ i \notin DOMAIN ctxs[s].taps
    <3>1. contexts'[r].taps[i] = Entry(fd)
      BY <1>2, <1>3, <1>4, <1>7, <2>3
    <3> QED
      BY <1>2, <1>5, <1>7, <3>1
  <2> QED
    BY <2>1, <2>2, <2>3
<1>8. InUse(contexts') = InUse(contexts)'
  BY DEF InUse
<1> QED
  BY <1>7, <1>8 DEF TapFdsOpen

\* Whatever the names, the redirector writes only to open descriptors of the configured
\* taps, but for a descriptor that get_tapfd gave to a tap of another name: reset, which
\* drops and looks up entries by prefix, closes a descriptor only after the last entry
\* of its tap is gone.
THEOREM DescriptorSafety == Spec => []TapFdsOpen
<1>1. Init => TapFdsOpen
  BY DEF Init, TapFdsOpen, InUse
<1>2. IInv /\ TapFdsOpen /\ [Next]_vars => TapFdsOpen'
  <2> SUFFICES ASSUME IInv, TapFdsOpen, [Next]_vars PROVE TapFdsOpen'
    OBVIOUS
  <2>1. ASSUME NEW n \in Node, NEW t \in Tap, EnableTapMirror(n, t)
        PROVE  TapFdsOpen'
    <3>1. CASE EnableMiss(n)
      BY <3>1 DEF EnableMiss, TapFdsOpen, InUse
    <3>2. CASE EnableExisting(n, t)
      <4>1. PICK s \in Slot : FirstMatch(s, n) /\ AddNewTap(contexts, s, t)
        BY <3>2 DEF EnableExisting
      <4>2. contexts \in [Slot -> Context \cup {NULL}] /\ contexts[s] # NULL
        BY <4>1 DEF FirstMatch, Matching, InUse, TypeOK, IInv
      <4>3. TypeOK
        BY DEF IInv
      <4> QED
        BY <4>1, <4>2, <4>3, AddNewTapOpen DEF TapFdsOpen, EntriesOpen
    <3>3. CASE EnableNew(n, t)
      <4>1. PICK s \in Slot :
              contexts[s] = NULL /\ AddNewTap([contexts EXCEPT ![s] = NewContext(n)], s, t)
        BY <3>3, Zenon DEF EnableNew, NewContext
      <4> DEFINE ctxs == [contexts EXCEPT ![s] = NewContext(n)]
      <4>2. NewContext(n) \in Context /\ NewContext(n).taps = <<>>
        <5>1. function[n] \in Node \cup {Mirror}
          BY DEF TypeOK, IInv
        <5> QED
          BY <5>1 DEF NewContext, Context
      <4>3. ctxs \in [Slot -> Context \cup {NULL}] /\ ctxs[s] # NULL
        BY <4>1, <4>2, NullAssumption DEF TypeOK, IInv
      <4>4. EntriesOpen(ctxs)
        <5>1. ASSUME NEW r \in InUse(ctxs), NEW i \in DOMAIN ctxs[r].taps,
                     ctxs[r].taps[i].fd > 0
              PROVE  ctxs[r].taps[i].fd \in lent \/ fds[ctxs[r].taps[i].fd] = ctxs[r].taps[i].name
          <6>1. contexts \in [Slot -> Context \cup {NULL}]
            BY DEF TypeOK, IInv
          <6>2. r # s
            BY <4>2, <5>1, <6>1 DEF InUse
          <6>3. r \in InUse(contexts) /\ ctxs[r] = contexts[r]
            BY <6>1, <6>2 DEF InUse
          <6> QED
            BY <5>1, <6>3 DEF TapFdsOpen
        <5> QED
          BY <5>1 DEF EntriesOpen
      <4>5. AddNewTap(ctxs, s, t) /\ TypeOK
        BY <4>1 DEF IInv
      <4> HIDE DEF ctxs
      <4> QED
        BY <4>3, <4>4, <4>5, AddNewTapOpen
    <3> QED
      BY <2>1, <3>1, <3>2, <3>3 DEF EnableTapMirror
  <2>2. ASSUME NEW n \in Node, NEW t \in Tap, DisableTapMirror(n, t)
        PROVE  TapFdsOpen'
    <3>1. PICK s \in Slot, d \in Fd :
             /\ FirstMatch(s, n)
             /\ DroppedFd(d, contexts[s].taps, t)
             /\ contexts' = [contexts EXCEPT ![s] = ResetContext(contexts[s], t)]
             /\ IF TapAt(contexts', t) = {} THEN Close(d) ELSE UNCHANGED <<fds, linkUp>>
      BY <2>2, Zenon DEF DisableTapMirror, CloseIfUnused
    <3>2. contexts[s] # NULL /\ contexts[s] \in Context
      BY <3>1 DEF FirstMatch, Matching, InUse, IInv, TypeOK
    <3>3. /\ contexts' \in [Slot -> Context \cup {NULL}]
          /\ SameHooks(contexts, contexts')
          /\ \A r \in Slot \ {s} : contexts'[r] = contexts[r]
          /\ contexts'[s].taps = Without(contexts[s].taps, t)
      BY <3>1, <3>2, DropTap, Zenon DEF IInv
    <3>4. \* what is left of each context was there before
          ASSUME NEW r \in InUse(contexts'), NEW i \in DOMAIN contexts'[r].taps,
                 contexts'[r].taps[i].fd > 0
          PROVE  /\ contexts'[r].taps[i] \in TapEntry
                 /\ \/ contexts'[r].taps[i].fd \in lent'
                    \/ /\ contexts'[r].taps[i].fd \notin lent
                       /\ fds[contexts'[r].taps[i].fd] = contexts'[r].taps[i].name
      <4>1. r \in InUse(contexts) /\ r \in Slot /\ contexts'[r] \in Context
        BY <3>3 DEF SameHooks, InUse
      <4>2. contexts'[r].taps[i] \in TapEntry
        BY <4>1 DEF Context
      <4>3. i \in DOMAIN contexts[r].taps /\ contexts'[r].taps[i] = contexts[r].taps[i]
        BY <3>3, <3>4, <4>1 DEF Dead, Without
      <4>4. \/ contexts'[r].taps[i].fd \in lent
            \/ fds[contexts'[r].taps[i].fd] = contexts'[r].taps[i].name
        BY <3>4, <4>1, <4>3 DEF TapFdsOpen
      <4>5. contexts'[r].taps[i].fd \in Held(contexts')
        BY <3>4, <4>2 DEF Held, TapEntry
      <4>6. lent' = lent \cap Held(contexts')
        BY <2>2 DEF DisableTapMirror
      <4> QED
        BY <4>2, <4>4, <4>5, <4>6
    <3>5. CASE TapAt(contexts', t) # {}
      <4>1. fds' = fds
        BY <3>1, <3>5, Zenon
      <4> QED
        BY <3>4, <4>1 DEF TapFdsOpen, InUse
    <3>6. CASE TapAt(contexts', t) = {}
      <4>1. fds' = [fds EXCEPT ![d] = Free]
        BY <3>1, <3>6 DEF Close
      <4>2. d = 0 \/ d \in lent \/ <<fds[d], t>> \in TapPrefix
        <5>1. ASSUME NEW i \in DOMAIN contexts[s].taps, Hit(contexts[s].taps[i], t)
              PROVE  \/ contexts[s].taps[i].fd \in lent
                     \/ <<fds[contexts[s].taps[i].fd], t>> \in TapPrefix
          BY <3>2, <5>1 DEF TapFdsOpen, InUse, Hit
        <5> QED
          BY <3>1, <5>1 DEF DroppedFd
      <4>3. ASSUME NEW r \in InUse(contexts'), NEW i \in DOMAIN contexts'[r].taps,
                   contexts'[r].taps[i].fd > 0
            PROVE  \/ contexts'[r].taps[i].fd \in lent'
                   \/ fds'[contexts'[r].taps[i].fd] = contexts'[r].taps[i].name
        <5>1. <<contexts'[r].taps[i].name, t>> \notin TapPrefix
          <6>1. <<r, i>> \in UNION {{q} \X DOMAIN contexts'[q].taps : q \in InUse(contexts')}
            OBVIOUS
          <6>2. ~Hit(contexts'[r].taps[i], t)
            BY <3>6, <6>1 DEF TapAt
          <6> QED
            BY <4>3, <6>2 DEF Hit
        <5>2. CASE contexts'[r].taps[i].fd \in lent'
          BY <5>2
        <5>3. CASE contexts'[r].taps[i].fd \notin lent'
          <6>1. /\ contexts'[r].taps[i] \in TapEntry /\ contexts'[r].taps[i].fd \notin lent
                /\ fds[contexts'[r].taps[i].fd] = contexts'[r].taps[i].name
            BY <3>4, <4>3, <5>3
          <6>2. contexts'[r].taps[i].fd # d
            BY <4>2, <4>3, <5>1, <6>1
          <6> QED
            BY <4>1, <6>1, <6>2 DEF TapEntry, IInv, TypeOK
        <5> QED
          BY <5>2, <5>3
      <4> QED
        BY <4>3 DEF TapFdsOpen, InUse
    <3> QED
      BY <3>5, <3>6
  <2>3. ASSUME NEW n \in Node, NEW k \in 1 .. MaxFrame, InputFn(n, k)
        PROVE  TapFdsOpen'
    <3>1. fds' = fds
      BY <2>3 DEF InputFn
    <3>2. \A r \in InUse(contexts') : r \in InUse(contexts) /\ contexts'[r] = contexts[r]
      BY <2>3 DEF InputFn, FreeContext, MirrorFrame, InUse, IInv, TypeOK
    <3>3. lent' = lent \cap Held(contexts')
      BY <2>3 DEF InputFn
    <3>4. ASSUME NEW r \in InUse(contexts'), NEW i \in DOMAIN contexts'[r].taps,
                 contexts'[r].taps[i].fd > 0
          PROVE  contexts'[r].taps[i].fd \in Held(contexts')
      <4>1. contexts'[r] \in Context
        BY <3>2 DEF InUse, IInv, TypeOK
      <4>2. contexts'[r].taps[i] \in TapEntry
        BY <4>1 DEF Context
      <4> QED
        BY <3>4, <4>2 DEF Held, TapEntry
    <3>5. ASSUME NEW r \in InUse(contexts'), NEW i \in DOMAIN contexts'[r].taps,
                 contexts'[r].taps[i].fd > 0
          PROVE  \/ contexts'[r].taps[i].fd \in lent'
                 \/ fds'[contexts'[r].taps[i].fd] = contexts'[r].taps[i].name
      BY <3>1, <3>2, <3>3, <3>4, <3>5 DEF TapFdsOpen
    <3> QED
      BY <3>5 DEF TapFdsOpen, InUse
  <2>4. CASE UNCHANGED <<contexts, fds, lent>>
    BY <2>4 DEF TapFdsOpen, InUse
  <2> QED
    BY <2>1, <2>2, <2>3, <2>4 DEF Next, SetTapMirror, Redirector, DispatchGraph, RunProcesses, vars
<1> QED
  BY <1>1, <1>2, Invariance, PTL DEF Spec
=============================================================================
