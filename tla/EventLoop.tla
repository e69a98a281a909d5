------------------------------ MODULE EventLoop ------------------------------
(***************************************************************************)
(* libvui's event loop (thread.c): a thread_master whose owner, the main   *)
(* thread, runs "while (thread_fetch(...)) thread_call(...)". A task       *)
(* (struct thread) waits for a descriptor, a time or its turn, is moved to *)
(* the ready list and run once. Other POSIX threads may schedule tasks and *)
(* cancel them while the owner sleeps in poll().                           *)
(*                                                                         *)
(* Every object o that schedules tasks owns a descriptor (written o too),  *)
(* a t_ptr slot for each kind of task and is the argument of its tasks, as *)
(* struct vty does. A section under master->mtx is one step.               *)
(***************************************************************************)
EXTENDS Integers, Sequences, FiniteSets, SequencesExt, PQueue

CONSTANTS
  Obj,         \* objects with a descriptor and tasks
  Uses,        \* the kinds of task each object schedules
  NTasks,      \* bound: task structs that can be allocated
  UnuseDepth,  \* THREAD_UNUSED_DEPTH
  Helper,      \* other POSIX threads that use the master
  HelperKinds, \* the kinds of task the helpers schedule
  Async,       \* what the helpers cancel: tasks by slot, or events by argument
  Closable,    \* objects whose descriptor is closed and opened again
  MaxDelay,    \* bound: longest timer, in ticks
  MaxLate,     \* bound: how late the owner may be
  NULL

ASSUME EventLoopAssumption ==
  /\ NTasks \in Nat \ {0} /\ UnuseDepth \in Nat
  /\ MaxDelay \in Nat /\ MaxLate \in Nat
  /\ Uses \in [Obj -> SUBSET {"READ", "WRITE", "TIMER", "EVENT"}]
  /\ HelperKinds \subseteq {"READ", "WRITE", "TIMER", "EVENT"}
  /\ Async \subseteq Obj \X {"READ", "WRITE", "TIMER", "EVENT", "arg"}
  /\ Closable \subseteq Obj
  /\ NULL \notin Obj /\ NULL \notin Helper

Task == 1..NTasks
Kind == {"READ", "WRITE", "TIMER", "EVENT"}
Direction(k) == IF k = "READ" THEN "IN" ELSE "OUT"

VARIABLES
  m,        \* struct thread_master, with the users' t_ptr slots as m.ptr
  pc,       \* owner: "fetch", "poll", "polled", "run", "dead" or "fault"
  fetch,    \* the copy of the task being run
  copy,     \* handler.copy: what poll() looks at
  revents,  \* poll()'s answer for each entry of copy
  poked,    \* io_pipe holds a byte
  helper,   \* each helper: "idle", or blocked in thread_cancel_async
  open      \* objects whose descriptor is open

vars == <<m, pc, fetch, copy, revents, poked, helper, open>>

Blank == [type |-> "free", add_type |-> "free", arg |-> NULL, ref |-> FALSE, sands |-> 0]

Init ==
  /\ m = [task |-> [t \in Task |-> Blank],
          ptr |-> [o \in Obj |-> [k \in Kind |-> NULL]],
          read |-> [o \in Obj |-> NULL], write |-> [o \in Obj |-> NULL],
          timer |-> [array |-> <<>>, index |-> [t \in Task |-> 0]],
          event |-> <<>>, ready |-> <<>>, unuse |-> <<>>,
          pfds |-> [i \in 1..Cardinality(Obj) |-> [fd |-> NULL, events |-> {}]],
          pfdcount |-> 0, cancel_req |-> <<>>, canceled |-> TRUE]
  /\ pc = "run" /\ fetch = Blank   \* main schedules the first tasks itself
  /\ copy = <<>> /\ revents = <<>> /\ poked = FALSE
  /\ helper = [h \in Helper |-> "idle"]
  /\ open = Obj

-----------------------------------------------------------------------------
(* Task structs                                                             *)

FreeTasks(mm) == {t \in Task : mm.task[t].type = "free"}
MaySchedule(mm) == mm.unuse # <<>> \/ FreeTasks(mm) # {}

\* The struct thread_get hands out: the oldest unused one, or a new one.
NextTask(mm) == IF mm.unuse # <<>> THEN Head(mm.unuse)
                ELSE CHOOSE t \in FreeTasks(mm) : \A u \in FreeTasks(mm) : t <= u

thread_get(mm, kind, o, ref, sands) ==
  LET t == NextTask(mm)
  IN [mm EXCEPT
        !.unuse = IF @ = <<>> THEN @ ELSE Tail(@),
        !.task[t] = [type |-> kind, add_type |-> kind, arg |-> o, ref |-> ref,
                     sands |-> sands],
        !.timer.index[t] = 0,
        !.ptr[o][kind] = IF ref THEN t ELSE @]

thread_add_unuse(mm, t) ==
  LET kept == Len(mm.unuse) < UnuseDepth
  IN [mm EXCEPT
        !.task[t] = [Blank EXCEPT !.type = IF kept THEN "UNUSED" ELSE "free"],
        !.timer.index[t] = 0,
        !.unuse = IF kept THEN Append(@, t) ELSE @]

\* *thread->ref = NULL
ClearRef(mm, x) == IF x.ref THEN [mm EXCEPT !.ptr[x.arg][x.add_type] = NULL] ELSE mm

Sands(mm) == [t \in Task |-> mm.task[t].sands]

-----------------------------------------------------------------------------
(* The poll array. Only the first pfdcount entries count; moving entries    *)
(* down leaves the events of the last one behind, and a new entry ORs its   *)
(* event into what it finds there.                                          *)

PfdOf(mm, o) == {i \in 1..mm.pfdcount : mm.pfds[i].fd = o}

RemovePfd(mm, i) ==
  [mm EXCEPT !.pfds = [j \in DOMAIN @ |-> CASE i <= j /\ j < mm.pfdcount -> @[j + 1]
                                            [] j = mm.pfdcount -> [@[j] EXCEPT !.fd = NULL]
                                            [] OTHER -> @[j]],
             !.pfdcount = @ - 1]

AddPfd(mm, o, ev) ==
  LET old == PfdOf(mm, o)
      pos == IF old # {} THEN CHOOSE i \in old : TRUE ELSE mm.pfdcount + 1
  IN [mm EXCEPT !.pfds[pos] = [fd |-> o, events |-> @.events \cup {ev}],
                !.pfdcount = IF old # {} THEN @ ELSE @ + 1]

\* Variant: the entry is removed although the other event is still wanted.
CancelRwWhole(mm, o, ev) ==
  IF PfdOf(mm, o) = {} THEN mm ELSE RemovePfd(mm, CHOOSE i \in PfdOf(mm, o) : TRUE)

thread_cancel_rw(mm, o, ev) ==
  IF PfdOf(mm, o) = {} THEN mm
  ELSE LET i == CHOOSE i \in PfdOf(mm, o) : TRUE
           cut == [mm EXCEPT !.pfds[i].events = @ \ {ev}]
       IN IF cut.pfds[i].events = {} THEN RemovePfd(cut, i) ELSE cut

-----------------------------------------------------------------------------
(* Cancellation                                                             *)

\* An event-object request takes the object's tasks out of one list.
Purge(mm, list, o) ==
  LET hit(t) == mm.task[t].arg = o
      drop(acc, t) == thread_add_unuse(ClearRef(acc, acc.task[t]), t)
  IN FoldLeft(drop, [mm EXCEPT ![list] = SelectSeq(@, LAMBDA t : ~hit(t))],
              SelectSeq(mm[list], hit))

OwnStructure(type) == CASE type = "TIMER" -> "queue"
                       [] type \in {"EVENT", "READY"} -> "list"
                       [] OTHER -> "array"

First(now) == IF "queue" \in now THEN "queue" ELSE IF "list" \in now THEN "list" ELSE "array"

\* The structure the task of a request is taken from. set are the variables of
\* do_thread_cancel (queue, list, thread_array, tested in this order) that
\* earlier requests set: none is cleared between two requests.
Route(set, type) == First(set \cup {OwnStructure(type)})

\* Take task t out of the structure its type says it is in.
TakeOut(mm, t) ==
  LET x == mm.task[t]
  IN CASE x.type = "READ" -> [thread_cancel_rw(mm, x.arg, "IN") EXCEPT !.read[x.arg] = NULL]
       [] x.type = "WRITE" -> [thread_cancel_rw(mm, x.arg, "OUT") EXCEPT !.write[x.arg] = NULL]
       [] x.type = "TIMER" -> [mm EXCEPT !.timer = pqueue_remove_at(@, @.index[t], Sands(mm))]
       [] x.type = "EVENT" -> [mm EXCEPT !.event = Remove(@, t)]
       [] OTHER -> [mm EXCEPT !.ready = Remove(@, t)]

\* One request of the batch. s is the master, the variables set so far, and
\* whether a request touched a freed struct or took its task from the wrong
\* structure (an assertion, or a task left behind where it was).
CancelOne(s, cr) ==
  LET t == IF cr.thread # NULL THEN cr.thread ELSE s.m.ptr[cr.arg][cr.kind]
      x == s.m.task[t]
      from == Route(s.set, x.type)
  IN CASE cr.kind = "arg" ->
            [s EXCEPT !.m = Purge(Purge(@, "event", cr.arg), "ready", cr.arg)]
       [] cr.kind # "arg" /\ t = NULL -> s
       [] cr.kind # "arg" /\ t # NULL /\ x.type = "UNUSED" -> s
       [] cr.kind # "arg" /\ t # NULL /\ x.type = "free" -> [s EXCEPT !.fault = TRUE]
       [] OTHER ->
            [m |-> thread_add_unuse(ClearRef(TakeOut(s.m, t), x), t),
             set |-> s.set \cup {OwnStructure(x.type)},
             fault |-> s.fault \/ from # OwnStructure(x.type)]

do_thread_cancel(mm) ==
  LET s == FoldLeft(CancelOne, [m |-> mm, set |-> {}, fault |-> FALSE], mm.cancel_req)
  IN [m |-> IF s.fault THEN s.m ELSE [s.m EXCEPT !.cancel_req = <<>>, !.canceled = TRUE],
      fault |-> s.fault]

\* thread_cancel and thread_cancel_event, by the owner: the whole batch runs at once.
CancelNow(cr) ==
  LET r == do_thread_cancel([m EXCEPT !.cancel_req = Append(@, cr)])
  IN /\ pc = "run"
     /\ m' = r.m
     /\ pc' = IF r.fault THEN "fault" ELSE pc
     /\ UNCHANGED <<fetch, copy, revents, poked, helper, open>>

thread_cancel(o, k) ==
  m.ptr[o][k] # NULL /\ CancelNow([thread |-> m.ptr[o][k], arg |-> o, kind |-> k])

thread_cancel_event(o) == CancelNow([thread |-> NULL, arg |-> o, kind |-> "arg"])

\* thread_cancel_async: post the request, wake the owner and wait. "during" notes
\* that the task to be cancelled is running at this moment.
thread_cancel_async(h, o, k) ==
  /\ helper[h] = "idle" /\ pc \notin {"dead", "fault"}
  /\ m' = [m EXCEPT !.canceled = FALSE,
                    !.cancel_req = Append(@, [thread |-> NULL, arg |-> o, kind |-> k])]
  /\ poked' = TRUE
  /\ helper' = [helper EXCEPT ![h] = IF pc = "run" /\ fetch.ref /\ fetch.arg = o /\ fetch.add_type = k
                                     THEN "during" ELSE "wait"]
  /\ UNCHANGED <<pc, fetch, copy, revents, open>>

AsyncDone(h) ==
  /\ helper[h] # "idle" /\ m.canceled
  /\ helper' = [helper EXCEPT ![h] = "idle"]
  /\ UNCHANGED <<m, pc, fetch, copy, revents, poked, open>>

-----------------------------------------------------------------------------
(* Scheduling, by the running task or by a helper. A slot that is set means *)
(* the task is already scheduled and the call returns NULL.                 *)

Caller(kind) == \/ pc = "run"
                \/ /\ pc \in {"fetch", "poll", "polled"} /\ kind \in HelperKinds
                   /\ \E h \in Helper : helper[h] = "idle"

Schedule(kind, o, mm) ==
  /\ Caller(kind) /\ kind \in Uses[o] /\ m.ptr[o][kind] = NULL /\ MaySchedule(m)
  /\ m' = mm /\ poked' = TRUE
  /\ UNCHANGED <<pc, fetch, copy, revents, helper, open>>

thread_add_read(o) ==
  /\ o \in open
  /\ Schedule("READ", o, [AddPfd(thread_get(m, "READ", o, TRUE, 0), o, "IN")
                            EXCEPT !.read[o] = NextTask(m)])

thread_add_write(o) ==
  /\ o \in open
  /\ Schedule("WRITE", o, [AddPfd(thread_get(m, "WRITE", o, TRUE, 0), o, "OUT")
                             EXCEPT !.write[o] = NextTask(m)])

thread_add_timer(o, delay) ==
  LET mm == thread_get(m, "TIMER", o, TRUE, delay)
  IN Schedule("TIMER", o, [mm EXCEPT !.timer = pqueue_enqueue(@, NextTask(m), Sands(mm))])

\* t_ptr may be NULL: nothing outside then refers to the event.
thread_add_event(o, ref) ==
  Schedule("EVENT", o, [thread_get(m, "EVENT", o, ref, 0) EXCEPT !.event = Append(@, NextTask(m))])

-----------------------------------------------------------------------------
(* thread_fetch                                                             *)

\* Variant: the slot of the task that is about to run is not cleared.
RunReadyKeepsRef(mm) ==
  LET t == Head(mm.ready)
  IN /\ m' = thread_add_unuse([mm EXCEPT !.ready = Tail(@)], t)
     /\ fetch' = mm.task[t] /\ pc' = "run"
     /\ UNCHANGED <<copy, revents>>

\* Pop the ready list: the task is copied to fetch, its struct is unused again
\* before the task runs, and its slot is cleared.
RunReady(mm) ==
  LET t == Head(mm.ready)
      x == mm.task[t]
  IN /\ m' = ClearRef(thread_add_unuse([mm EXCEPT !.ready = Tail(@)], t), x)
     /\ fetch' = x /\ pc' = "run"
     /\ UNCHANGED <<copy, revents>>

\* The tasks ts join the ready list. (Their expiry time no longer matters.)
MakeReady(mm, ts) ==
  [mm EXCEPT !.ready = @ \o ts,
             !.task = [t \in Task |-> IF t \in ToSet(ts) THEN [@[t] EXCEPT !.type = "READY", !.sands = 0] ELSE @[t]]]

\* thread_process: every event becomes ready.
PostEvents(mm) == MakeReady([mm EXCEPT !.event = <<>>], mm.event)

\* Variant: a pending timer does not keep the loop alive.
GoPollForgetsTimers(mm) ==
  LET now == PostEvents(mm)
  IN /\ m' = now
     /\ pc' = IF now.ready = <<>> /\ now.pfdcount = 0 THEN "dead" ELSE "poll"
     /\ copy' = SubSeq([i \in 1..Len(now.pfds) |-> now.pfds[i]], 1, now.pfdcount)
     /\ revents' = <<>> /\ fetch' = Blank

\* No task is ready: sleep in poll() until the first timer, or die when there
\* is neither a task nor a descriptor to wait for.
GoPoll(mm) ==
  LET now == PostEvents(mm)
      none == now.ready = <<>> /\ now.timer.array = <<>>
  IN /\ m' = now
     /\ pc' = IF none /\ now.pfdcount = 0 THEN "dead" ELSE "poll"
     /\ copy' = SubSeq([i \in 1..Len(now.pfds) |-> now.pfds[i]], 1, now.pfdcount)
     /\ revents' = <<>> /\ fetch' = Blank

thread_fetch ==
  LET r == do_thread_cancel(m)
  IN /\ pc = "fetch"
     /\ IF r.fault THEN m' = r.m /\ pc' = "fault" /\ UNCHANGED <<fetch, copy, revents>>
        ELSE IF r.m.ready # <<>> THEN RunReady(r.m)
        ELSE GoPoll(r.m)
     /\ UNCHANGED <<poked, helper, open>>

\* poll() (external). It reports only what an entry asks for, a hangup whatever
\* it asks for, and a descriptor that is closed as invalid; it returns nothing
\* only after its timeout or when the pipe woke it.
TimeoutOver == \/ m.ready # <<>>   \* events were posted: a zero timeout
               \/ m.timer.array # <<>> /\ m.task[m.timer.array[1]].sands <= 0

fd_poll ==
  /\ pc = "poll"
  /\ \E rev \in [1..Len(copy) -> SUBSET {"IN", "OUT", "HUP", "NVAL"}] :
       /\ \A i \in 1..Len(copy) :
            IF copy[i].fd \in open THEN rev[i] \subseteq copy[i].events \cup {"HUP"} ELSE rev[i] = {"NVAL"}
       /\ (\A i \in 1..Len(copy) : rev[i] = {}) => poked \/ TimeoutOver
       /\ revents' = rev
  /\ pc' = "polled" /\ poked' = FALSE
  /\ UNCHANGED <<m, fetch, copy, helper, open>>

\* poll() fails: EINTR starts the loop again, any other error ends it.
PollFails(intr) ==
  /\ pc = "poll"
  /\ pc' = IF intr THEN "fetch" ELSE "dead"
  /\ copy' = <<>>
  /\ UNCHANGED <<m, fetch, revents, poked, helper, open>>

\* thread_process_timers
RECURSIVE PostTimers(_)
PostTimers(mm) ==
  LET a == mm.timer.array
  IN IF a = <<>> \/ mm.task[Head(a)].sands > 0 THEN mm
     ELSE PostTimers(MakeReady([mm EXCEPT !.timer = pqueue_dequeue(@, Sands(mm))], <<Head(a)>>))

\* thread_process_io_helper for one direction of the descriptor at position i.
IoHelper(mm, i, o, kind) ==
  LET arr == IF kind = "READ" THEN "read" ELSE "write"
      cut == [mm EXCEPT !.pfds[i].events = @ \ {Direction(kind)}]
      t == mm[arr][o]
  IN IF t = NULL THEN cut ELSE MakeReady([cut EXCEPT ![arr][o] = NULL], <<t>>)

\* thread_process_io: position i of pfds stands for entry n of the copy; removing
\* an invalid descriptor shifts both.
RECURSIVE PostIo(_, _, _)
PostIo(mm, n, i) ==
  IF n > Len(copy) THEN mm
  ELSE LET o == copy[n].fd
           rev == revents[n]
           in == IF rev \cap {"IN", "HUP"} # {} THEN IoHelper(mm, i, o, "READ") ELSE mm
           out == IF "OUT" \in rev THEN IoHelper(in, i, o, "WRITE") ELSE in
       IN IF "NVAL" \in rev THEN PostIo(RemovePfd(out, i), n + 1, i)
          ELSE PostIo(out, n + 1, i + 1)

\* Variant: timers are looked at only when no descriptor is ready.
ProcessIoFirst ==
  /\ pc = "polled"
  /\ m' = IF \A n \in 1..Len(copy) : revents[n] = {} THEN PostTimers(m) ELSE PostIo(m, 1, 1)
  /\ pc' = "fetch" /\ copy' = <<>> /\ revents' = <<>>
  /\ UNCHANGED <<fetch, poked, helper, open>>

\* Back from poll() with the lock held: due timers, then descriptors.
Process ==
  /\ pc = "polled"
  /\ m' = PostIo(PostTimers(m), 1, 1)
  /\ pc' = "fetch" /\ copy' = <<>> /\ revents' = <<>>
  /\ UNCHANGED <<fetch, poked, helper, open>>

\* thread_call: the task returns.
thread_call ==
  /\ pc = "run" /\ pc' = "fetch"
  /\ helper' = [h \in Helper |-> IF helper[h] = "during" THEN "wait" ELSE helper[h]]
  /\ fetch' = Blank
  /\ UNCHANGED <<m, copy, revents, poked, open>>

-----------------------------------------------------------------------------
(* What running tasks do besides                                            *)

\* A task closes its object's descriptor once nothing waits for it (vty_close),
\* and may get the same number again from accept().
CloseOrReopen(o) ==
  /\ pc = "run" /\ o \in Closable /\ m.ptr[o]["READ"] = NULL /\ m.ptr[o]["WRITE"] = NULL
  /\ open' = IF o \in open THEN open \ {o} ELSE open \cup {o}
  /\ UNCHANGED <<m, pc, fetch, copy, revents, poked, helper>>

\* Time passes for every timer alike.
Tick ==
  /\ m.timer.array # <<>> /\ pc \notin {"dead", "fault"}
  /\ \A i \in 1..Len(m.timer.array) : m.task[m.timer.array[i]].sands > 0 - MaxLate
  /\ m' = [m EXCEPT !.task = [t \in Task |-> IF @[t].type = "TIMER" THEN [@[t] EXCEPT !.sands = @ - 1] ELSE @[t]]]
  /\ UNCHANGED <<pc, fetch, copy, revents, poked, helper, open>>

Owner == thread_fetch \/ fd_poll \/ Process \/ thread_call

\* The owner's steps are those that change pc. It must move on except in poll(),
\* which need not return before it has a reason to.
MustMove == \/ pc \in {"fetch", "polled", "run"}
            \/ pc = "poll" /\ (poked \/ TimeoutOver)
OwnerMoves == MustMove /\ pc' \in {"fetch", "poll", "polled", "run", "dead", "fault"} \ {pc}

UserStep ==
  \/ \E o \in Obj :
       \/ thread_add_read(o) \/ thread_add_write(o)
       \/ \E d \in 0..MaxDelay : thread_add_timer(o, d)
       \/ \E ref \in BOOLEAN : thread_add_event(o, ref)
       \/ \E k \in Uses[o] : thread_cancel(o, k)
       \/ thread_cancel_event(o)
       \/ CloseOrReopen(o)
       \/ \E h \in Helper, k \in {x[2] : x \in {y \in Async : y[1] = o}} : thread_cancel_async(h, o, k)

Next == Owner \/ UserStep \/ Tick \/ (\E h \in Helper : AsyncDone(h)) \/ (\E i \in BOOLEAN : PollFails(i))

\* The owner keeps running and every task returns; time passes (only the bound
\* MaxLate ever holds it up, hence SF); a helper that may leave pthread_cond_wait
\* does; signals do not interrupt every poll().
Fairness == /\ WF_pc(OwnerMoves) /\ SF_pc(OwnerMoves /\ pc' = "polled")
            /\ SF_vars(Tick) /\ \A h \in Helper : WF_helper(AsyncDone(h))

Spec == Init /\ [][Next]_vars /\ Fairness

-----------------------------------------------------------------------------
(* Properties                                                               *)

Users(kind) == {o \in Obj : kind \in Uses[o]}
Stopped == pc \in {"dead", "fault"}
Idle(t) == m.task[t].type \in {"free", "UNUSED"}

TypeOK ==
  /\ m.task \in [Task -> [type : Kind \cup {"READY", "UNUSED", "free"}, add_type : Kind \cup {"free"},
                          arg : Obj \cup {NULL}, ref : BOOLEAN,
                          sands : (0 - MaxLate)..MaxDelay]]
  /\ m.ptr \in [Obj -> [Kind -> Task \cup {NULL}]]
  /\ m.pfdcount \in 0..Cardinality(Obj)
  /\ pc \in {"fetch", "poll", "polled", "run", "dead", "fault"}
  /\ helper \in [Helper -> {"idle", "wait", "during"}]
  /\ open \subseteq Obj

Where(t) ==
  {<<"READ", o>> : o \in {x \in Obj : m.read[x] = t}} \cup {<<"WRITE", o>> : o \in {x \in Obj : m.write[x] = t}}
  \cup {<<"TIMER", i>> : i \in {x \in 1..Len(m.timer.array) : m.timer.array[x] = t}}
  \cup {<<"EVENT", i>> : i \in {x \in 1..Len(m.event) : m.event[x] = t}}
  \cup {<<"READY", i>> : i \in {x \in 1..Len(m.ready) : m.ready[x] = t}}
  \cup {<<"UNUSED", i>> : i \in {x \in 1..Len(m.unuse) : m.unuse[x] = t}}

\* Every task struct is in exactly one structure of the master, the one its type
\* names: what do_thread_cancel searches, and why no task runs twice or is
\* reused while it is still scheduled (thread_get, thread_add_unuse).
OnePlace ==
  pc # "fault" =>
    \A t \in Task :
      /\ m.task[t].type = "free" <=> Where(t) = {}
      /\ Cardinality(Where(t)) <= 1
      /\ \A w \in Where(t) : /\ w[1] = m.task[t].type
                             /\ w[1] \in {"READ", "WRITE"} => w[2] = m.task[t].arg

\* A user's t_ptr is set exactly while its task waits or is ready: it never
\* points to a struct that ran, was cancelled or was handed to someone else,
\* although structs are reused at once.
RefsRight ==
  pc # "fault" =>
    /\ \A o \in Obj, k \in Kind :
         m.ptr[o][k] # NULL =>
           LET x == m.task[m.ptr[o][k]]
           IN ~Idle(m.ptr[o][k]) /\ x.ref /\ x.arg = o /\ x.add_type = k
    /\ \A t \in Task : m.task[t].ref => m.ptr[m.task[t].arg][m.task[t].add_type] = t

\* A task that waits for a descriptor is really polled for: the poll array has one
\* entry for it that asks for the event, also when other threads add entries
\* while the owner polls with a copy, whose positions still agree.
NotDeaf ==
  pc # "fault" =>
    /\ \A o \in Obj :
         /\ Cardinality(PfdOf(m, o)) <= 1
         /\ m.read[o] # NULL => \E i \in PfdOf(m, o) : "IN" \in m.pfds[i].events
         /\ m.write[o] # NULL => \E i \in PfdOf(m, o) : "OUT" \in m.pfds[i].events
    /\ \A n \in 1..Len(copy) : n <= m.pfdcount /\ m.pfds[n].fd = copy[n].fd

\* do_thread_cancel meets a freed struct or takes a task from the wrong structure
\* only when two requests share a batch, one of them posted by another thread.
FaultNeedsBatch ==
  pc = "fault" => Len(m.cancel_req) >= 2 /\ \E h \in Helper : helper[h] # "idle"

\* Unless poll() fails, the loop ends only when no task at all is scheduled.
EndsOnlyIdle == [][pc = "fetch" /\ pc' = "dead" => \A t \in Task : Idle(t)' ]_vars

\* A scheduled event runs or is cancelled, whatever else becomes ready meanwhile.
EventRuns == \A o \in Users("EVENT") : m.ptr[o]["EVENT"] # NULL ~> m.ptr[o]["EVENT"] = NULL \/ Stopped

\* A timer runs or is cancelled: events and descriptors cannot keep the owner from
\* looking at the clock.
TimerRuns == \A o \in Users("TIMER") : m.ptr[o]["TIMER"] # NULL ~> m.ptr[o]["TIMER"] = NULL \/ Stopped

\* thread_cancel_async returns as long as the owner's loop goes on: the request
\* wakes it from poll().
AsyncReturns == \A h \in Helper : helper[h] # "idle" ~> helper[h] = "idle" \/ Stopped

\* Every task is accounted for: it is in the one structure its state says, its user's
\* reference follows it, and cancelling meets no freed task outside a shared batch.
TasksAccounted == TypeOK /\ OnePlace /\ RefsRight /\ FaultNeedsBatch

\* Whatever is asked of the loop is done while it goes on: events, timers and the
\* cancellations of other threads.
TasksRun == EventRuns /\ TimerRuns /\ AsyncReturns

\* "If the thread is currently running, execution blocks until it completes."
\* (the comment on thread_cancel_async)
AsyncBlocks == [][\A h \in Helper : helper[h] = "during" => helper'[h] # "idle"]_vars
=============================================================================
