------------------------------ MODULE Signals ------------------------------
(***************************************************************************)
(* Signals of a program that uses libvui (sigevent.c).  The handler of a   *)
(* signal only sets two flags, its own and the master's; the event loop    *)
(* calls quagga_sigevent_process, which looks at the master's flag first   *)
(* and calls the program's handlers.  A signal is taken by any thread of   *)
(* the process, at any point of what the loop is doing.                    *)
(*                                                                         *)
(* The signals are 1..N in the order of the array given to signal_init;    *)
(* none is listed twice.                                                   *)
(***************************************************************************)
EXTENDS Integers

CONSTANTS N,        \* sigc
          Class,    \* which list of trap_default_signals names the signal
          Takers    \* the threads that take signals

ASSUME SignalsAssumption == N \in Nat /\ Class \in [1..N -> {"exit", "core", "ignore"}]

VARIABLES disp,     \* what the kernel does with each signal
          stage,    \* signal_init: signals given a default, then their own handler
          master,   \* sigmaster.caught
          caught,   \* signals[i].caught
          at,       \* where quagga_sigevent_process is, and the signal it looks at
          taken,    \* the signal each thread's handler runs for, and its next step
          owed,     \* history: a call of the program's handler is due
          alive

signalVars == <<disp, stage, master, caught, at, taken, owed, alive>>

Outside == [step |-> "outside", sig |-> 0]
NoSignal == [step |-> "none", sig |-> 0]

SignalsInit ==
  /\ disp = [i \in 1..N |-> "default"]
  /\ stage = 0
  /\ master = FALSE
  /\ caught = [i \in 1..N |-> FALSE]
  /\ at = Outside
  /\ taken = [t \in Takers |-> NoSignal]
  /\ owed = [i \in 1..N |-> FALSE]
  /\ alive = TRUE

\* sigmaster.sigc is set last but one, sigmaster.signals last.
SizeOnly == stage = 2 * N + 1
Registered == stage = 2 * N + 2

\* signal_init: trap_default_signals gives every signal that has none a handler
\* that ends the program, or ignores it; then signal_set replaces those of the
\* program's own signals, and the array is registered.
signal_init ==
  /\ ~Registered
  /\ stage' = stage + 1
  /\ disp' = [i \in 1..N |-> IF stage + 1 = i THEN (IF disp[i] = "default" THEN Class[i] ELSE disp[i])
                             ELSE IF stage + 1 = N + i THEN "flag" ELSE disp[i]]
  /\ UNCHANGED <<master, caught, at, taken, owed, alive>>

\* A signal arrives.  exit_handler and core_handler do not return.  The mask of
\* the handler is full: a thread takes no second signal meanwhile.
Arrive(t, i) ==
  /\ taken[t] = NoSignal
  /\ \/ /\ disp[i] = "flag"
        /\ taken' = [taken EXCEPT ![t] = [step |-> "mark", sig |-> i]]
        /\ UNCHANGED alive
     \/ disp[i] = "ignore" /\ UNCHANGED <<taken, alive>>
     \/ disp[i] \notin {"flag", "ignore"} /\ alive' = FALSE /\ UNCHANGED taken
  /\ UNCHANGED <<disp, stage, master, caught, at, owed>>

\* Variant: the master's flag is set before the signal's own.
HandlerMasterFirst(t) ==
  LET i == taken[t].sig IN
  /\ \/ /\ taken[t].step = "mark"
        /\ master' = TRUE
        /\ taken' = [taken EXCEPT ![t].step = "tell"]
        /\ UNCHANGED <<caught, owed>>
     \/ /\ taken[t].step = "tell"
        /\ caught' = [caught EXCEPT ![i] = Registered \/ caught[i]]
        /\ owed' = [owed EXCEPT ![i] = Registered \/ owed[i]]
        /\ taken' = [taken EXCEPT ![t] = NoSignal]
        /\ UNCHANGED master
  /\ UNCHANGED <<disp, stage, at, alive>>

\* quagga_signal_handler: nothing is marked before the array is registered, and
\* between its size and the array itself a handler reads through a null pointer.
quagga_signal_handler(t) ==
  LET i == taken[t].sig IN
  /\ \/ /\ taken[t].step = "mark" /\ ~SizeOnly
        /\ caught' = [caught EXCEPT ![i] = Registered \/ caught[i]]
        /\ owed' = [owed EXCEPT ![i] = Registered \/ owed[i]]
        /\ taken' = [taken EXCEPT ![t].step = "tell"]
        /\ UNCHANGED <<master, alive>>
     \/ /\ taken[t].step = "mark" /\ SizeOnly
        /\ alive' = FALSE
        /\ UNCHANGED <<master, caught, owed, taken>>
     \/ /\ taken[t].step = "tell"
        /\ master' = TRUE
        /\ taken' = [taken EXCEPT ![t] = NoSignal]
        /\ UNCHANGED <<caught, owed, alive>>
  /\ UNCHANGED <<disp, stage, at>>

\* The next round of the loop over the signals, or its end.
Look(i) == IF i > N THEN Outside ELSE [step |-> "look", sig |-> i]

\* quagga_sigevent_process, one access to a flag at a time.
quagga_sigevent_process ==
  LET i == at.sig IN
  /\ Registered
  /\ \/ /\ at = Outside /\ master
        /\ at' = [step |-> "reset", sig |-> 0]
        /\ UNCHANGED <<master, caught, owed>>
     \/ /\ at.step = "reset"
        /\ master' = FALSE
        /\ at' = Look(1)
        /\ UNCHANGED <<caught, owed>>
     \/ /\ at.step = "look"
        /\ at' = IF caught[i] THEN [at EXCEPT !.step = "clear"] ELSE Look(i + 1)
        /\ UNCHANGED <<master, caught, owed>>
     \/ /\ at.step = "clear"
        /\ caught' = [caught EXCEPT ![i] = FALSE]
        /\ at' = [at EXCEPT !.step = "call"]
        /\ UNCHANGED <<master, owed>>
     \/ /\ at.step = "call"          \* the program's handler
        /\ owed' = [owed EXCEPT ![i] = FALSE]
        /\ at' = Look(i + 1)
        /\ UNCHANGED <<master, caught>>
  /\ UNCHANGED <<disp, stage, taken, alive>>

SignalsNext ==
  /\ alive
  /\ \/ signal_init
     \/ \E t \in Takers : quagga_signal_handler(t) \/ \E i \in 1..N : Arrive(t, i)
     \/ quagga_sigevent_process

SignalsSpec == SignalsInit /\ [][SignalsNext]_signalVars

-----------------------------------------------------------------------------
SignalsTypeOK ==
  /\ disp \in [1..N -> {"default", "exit", "core", "ignore", "flag"}]
  /\ stage \in 0..2 * N + 2
  /\ master \in BOOLEAN /\ alive \in BOOLEAN
  /\ caught \in [1..N -> BOOLEAN] /\ owed \in [1..N -> BOOLEAN]
  /\ at \in [step : {"outside", "reset", "look", "clear", "call"}, sig : 0..N]
  /\ taken \in [Takers -> [step : {"none", "mark", "tell"}, sig : 0..N]]

\* The loop will still come to signal i in the round it is in.
StillAhead(i) ==
  \/ at.step = "reset"
  \/ at.step \in {"look", "clear"} /\ at.sig <= i
  \/ at.step = "call" /\ at.sig < i

\* A signal that was marked is never forgotten, whichever way its handlers and
\* the loop interleave: its flag is up until the program's handler is about to
\* be called, and while it is up either the loop is still on its way to it, or
\* the master's flag will send the loop round again (quagga_signal_handler sets
\* the flags in the order in which quagga_sigevent_process must not reset them).
NoSignalForgotten ==
  \A i \in 1..N :
    /\ owed[i] => caught[i] \/ at = [step |-> "call", sig |-> i]
    /\ caught[i] => \/ master \/ StillAhead(i)
                    \/ \E t \in Takers : taken[t] = [step |-> "tell", sig |-> i]
=============================================================================
