---------------------------- MODULE ProcessProofs ----------------------------
(***************************************************************************)
(* Proofs about what the process has of the system: its privileges (Privs) *)
(* and its signals (Signals).                                              *)
(*                                                                         *)
(* Privs, for every set of user ids and every finite set of uses of        *)
(* privileges.  Two facts carry the argument.  The count is the number of  *)
(* blocks that run, corrected by the one that is inside the mutex; and the *)
(* credentials zprivs_init leaves always allow both switches, because the  *)
(* real user is still the one the program was started by and the saved one *)
(* is the user it runs as.                                                 *)
(*                                                                         *)
(* Signals, for every number of signals and every set of threads.  The     *)
(* invariant is NoSignalForgotten itself, once the signals a handler and   *)
(* the loop are at are known to be signals of the array.                   *)
(***************************************************************************)
EXTENDS Privs, Signals, FiniteSetTheorems, TLAPS

-----------------------------------------------------------------------------
(* Privileges                                                               *)

Raising == holder # Nobody /\ holder.op = "raise"
Lowering == holder # Nobody /\ holder.op = "lower"

\* The use inside the mutex is counted though it does not run.
Extra == IF (Raising /\ holder.counted) \/ (Lowering /\ ~holder.counted) THEN 1 ELSE 0

Counted ==
  /\ refcount = Cardinality(inside) + Extra
  /\ holder # Nobody => holder.use \notin inside
  /\ phase \in {"preinit", "init"} => inside = {} /\ holder = Nobody

\* What the start has fixed.
Started ==
  /\ ~user => zuid = 0
  /\ phase \in {"preinit", "init"} => cred.real = cred.eff /\ cred.saved = cred.eff
  /\ phase = "preinit" => change = "unset"
  /\ phase \in {"init", "ready"} /\ change = "null" => ~user
  /\ phase = "init" => change # "uid"
  /\ phase = "ready" => change # "unset"

\* While the program uses its privileges.
Switched ==
  phase = "ready" /\ change = "uid" /\ zuid # 0 =>
    /\ cred.real = zsuid
    /\ zsuid # zuid => zsuid = 0 /\ cred.saved = zuid
    /\ inside # {} \/ Lowering => cred.eff = zsuid
    /\ inside = {} /\ ~Lowering => cred.eff = zuid

PrivsInv == PrivsTypeOK /\ Counted /\ Started /\ Switched /\ PrivsGivenUp

-----------------------------------------------------------------------------
\* The number of blocks that run.
LEMMA Blocks ==
  ASSUME PrivsTypeOK
  PROVE  /\ IsFiniteSet(inside) /\ Cardinality(inside) \in Nat
         /\ (Cardinality(inside) = 0) <=> (inside = {})
         /\ \A u \in Uses :
              /\ u \in inside => Cardinality(inside \ {u}) = Cardinality(inside) - 1
              /\ u \notin inside => /\ Cardinality(inside \union {u}) = Cardinality(inside) + 1
                                    /\ inside \ {u} = inside
<1>1. IsFiniteSet(inside)
  BY PrivsAssumption, FS_Subset DEF PrivsTypeOK
<1>2. QED
  BY <1>1, FS_EmptySet, FS_CardinalityType, FS_AddElement, FS_RemoveElement, ZenonT(60)

\* What a successful or refused switch leaves.
LEMMA Switch ==
  ASSUME NEW c \in [real : Uids, eff : Uids, saved : Uids], NEW id \in Uids
  PROVE  /\ seteuid(c, id) \in [real : Uids, eff : Uids, saved : Uids]
         /\ seteuid(c, id).real = c.real /\ seteuid(c, id).saved = c.saved
         /\ c.eff = 0 \/ id \in {c.real, c.eff, c.saved} => seteuid(c, id).eff = id
         /\ ~(c.eff = 0 \/ id \in {c.real, c.eff, c.saved}) => seteuid(c, id) = c
BY DEF seteuid, Root

\* The process starts with what it was given.
LEMMA PrivsInitStep == PrivsInit => PrivsInv
<1> SUFFICES ASSUME PrivsInit PROVE PrivsInv
  OBVIOUS
<1>1. PrivsTypeOK
  BY PrivsAssumption DEF PrivsInit, PrivsTypeOK
<1>2. Counted
  BY FS_EmptySet DEF PrivsInit, Counted, Extra, Raising, Lowering
<1>3. Started /\ Switched /\ PrivsGivenUp
  BY DEF PrivsInit, Started, Switched, PrivsGivenUp
<1>4. QED
  BY <1>1, <1>2, <1>3 DEF PrivsInv

\* zprivs_preinit keeps the invariant.
LEMMA PreinitStep == PrivsInv /\ zprivs_preinit => PrivsInv'
<1> SUFFICES ASSUME PrivsInv, zprivs_preinit PROVE PrivsInv'
  OBVIOUS
<1> USE DEF zprivs_preinit, Exit
<1>1. PrivsTypeOK'
  BY PrivsAssumption DEF PrivsInv, PrivsTypeOK, Locked
<1>2. Counted'
  BY DEF PrivsInv, Counted, Extra, Raising, Lowering
<1>3. Started' /\ Switched' /\ PrivsGivenUp'
  BY DEF PrivsInv, Started, Switched, PrivsGivenUp
<1>4. QED
  BY <1>1, <1>2, <1>3 DEF PrivsInv

\* zprivs_init keeps the invariant.
LEMMA InitialStep == PrivsInv /\ zprivs_init => PrivsInv'
<1> SUFFICES ASSUME PrivsInv, zprivs_init PROVE PrivsInv'
  OBVIOUS
<1>1. PrivsTypeOK'
  BY PrivsAssumption DEF PrivsInv, PrivsTypeOK, Locked, zprivs_init, Exit, setreuid, Keep
<1>2. Counted'
  BY DEF PrivsInv, Counted, Extra, Raising, Lowering, zprivs_init, Exit
<1>3. Started' /\ PrivsGivenUp'
  BY DEF PrivsInv, Started, PrivsGivenUp, zprivs_init, Exit
<1>4. Switched'
  <2> SUFFICES ASSUME phase' = "ready", change' = "uid", zuid' # 0 PROVE Switched'
    BY DEF Switched
  <2>1. /\ change = "unset" /\ zsuid' = cred.eff /\ zuid' = zuid
        /\ cred' = IF cred.eff # zuid THEN setreuid(cred, Keep, zuid) ELSE cred
        /\ cred.real = cred.eff /\ cred.saved = cred.eff
        /\ user
        /\ inside' = {} /\ holder' = Nobody
        /\ cred.eff # zuid => cred.eff = 0
    BY DEF zprivs_init, Exit, PrivsInv, Started, Counted, Root
  <2>2. CASE cred.eff = zuid
    BY <2>1, <2>2 DEF Switched, Lowering
  <2>3. CASE cred.eff # zuid
    <3>1. setreuid(cred, Keep, zuid) = [real |-> cred.real, eff |-> zuid, saved |-> zuid]
      BY <2>1, <2>3, PrivsAssumption DEF setreuid, MaySet, Root, Keep
    <3>2. QED
      BY <2>1, <2>3, <3>1 DEF Switched, Lowering
  <2>4. QED
    BY <2>2, <2>3
<1>5. QED
  BY <1>1, <1>2, <1>3, <1>4 DEF PrivsInv

\* Taking the mutex of a change keeps the invariant.
LEMMA LockStep == ASSUME NEW u \in Uses PROVE PrivsInv /\ Lock(u) => PrivsInv'
<1> SUFFICES ASSUME PrivsInv, Lock(u) PROVE PrivsInv'
  OBVIOUS
<1>1. PrivsTypeOK'
  BY DEF PrivsInv, PrivsTypeOK, Locked, Lock
<1>2. Counted'
  <2>1. CASE u \in inside
    BY <2>1, Blocks DEF PrivsInv, Counted, Extra, Raising, Lowering, Lock, Nobody
  <2>2. CASE u \notin inside
    BY <2>2, Blocks DEF PrivsInv, Counted, Extra, Raising, Lowering, Lock, Nobody
  <2>3. QED
    BY <2>1, <2>2
<1>3. Started' /\ PrivsGivenUp'
  BY DEF PrivsInv, Started, PrivsGivenUp, Lock
<1>4. Switched'
  BY DEF PrivsInv, Switched, Lowering, Lock, Nobody
<1>5. QED
  BY <1>1, <1>2, <1>3, <1>4 DEF PrivsInv

\* Counting the references keeps the invariant.
LEMMA CountStep == PrivsInv /\ Count => PrivsInv'
<1> SUFFICES ASSUME PrivsInv, Count PROVE PrivsInv'
  OBVIOUS
<1>0. holder \in Locked /\ holder' \in Locked /\ holder' # Nobody
      /\ holder'.op = holder.op /\ holder'.use = holder.use /\ holder'.counted
  BY DEF PrivsInv, PrivsTypeOK, Count, Locked, Nobody
<1>1. PrivsTypeOK'
  BY <1>0 DEF PrivsInv, PrivsTypeOK, Count
<1>2. Counted'
  BY <1>0, Blocks DEF PrivsInv, Counted, Extra, Raising, Lowering, Count, Locked
<1>3. Started' /\ PrivsGivenUp'
  BY DEF PrivsInv, Started, PrivsGivenUp, Count
<1>4. Switched'
  BY <1>0 DEF PrivsInv, Switched, Lowering, Count
<1>5. QED
  BY <1>1, <1>2, <1>3, <1>4 DEF PrivsInv

\* The credentials after a switch, or without one.
LEMMA ChangedFacts ==
  ASSUME PrivsInv, NEW op \in {"raise", "lower"}
  PROVE  /\ Changed(op) \in [real : Uids, eff : Uids, saved : Uids]
         /\ phase = "ready" /\ change = "uid" /\ zuid # 0 =>
              /\ Changed(op).real = cred.real /\ Changed(op).saved = cred.saved
              /\ Changed(op).eff = IF op = "raise" THEN zsuid ELSE zuid
         /\ phase \in {"ending", "ended"} /\ zuid # 0 /\ zsuid # zuid => Changed(op) = cred
<1> DEFINE id == IF op = "raise" THEN zsuid ELSE zuid
<1>1. cred \in [real : Uids, eff : Uids, saved : Uids] /\ id \in Uids
  BY DEF PrivsInv, PrivsTypeOK
<1>2. Changed(op) \in [real : Uids, eff : Uids, saved : Uids]
  BY <1>1, Switch DEF Changed
<1>3. ASSUME phase = "ready", change = "uid", zuid # 0
      PROVE  /\ Changed(op).real = cred.real /\ Changed(op).saved = cred.saved
             /\ Changed(op).eff = id
  <2>1. /\ cred.real = zsuid
        /\ zsuid # zuid => zsuid = 0 /\ cred.saved = zuid
        /\ cred.eff = zsuid \/ cred.eff = zuid
    BY <1>3 DEF PrivsInv, Switched
  <2>2. CASE zsuid = zuid
    BY <1>3, <2>1, <2>2 DEF Changed
  <2>3. CASE zsuid # zuid
    <3>1. Changed(op) = seteuid(cred, id)
      BY <1>3, <2>3 DEF Changed
    <3>2. id \in {cred.real, cred.eff, cred.saved}
      BY <2>1, <2>3
    <3> HIDE DEF id
    <3>3. QED
      BY <1>1, <3>1, <3>2, Switch
  <2>4. QED
    BY <2>2, <2>3
<1>4. ASSUME phase \in {"ending", "ended"}, zuid # 0, zsuid # zuid
      PROVE  Changed(op) = cred
  <2>1. cred = [real |-> zuid, eff |-> zuid, saved |-> zuid]
    BY <1>4 DEF PrivsInv, PrivsGivenUp
  <2>2. seteuid(cred, zsuid) = cred /\ seteuid(cred, zuid) = cred
    BY <1>4, <2>1 DEF seteuid, Root
  <2>3. QED
    BY <2>2 DEF Changed
<1>5. QED
  BY <1>2, <1>3, <1>4

\* _zprivs_raise keeps the invariant.
LEMMA RaiseStep == PrivsInv /\ _zprivs_raise => PrivsInv'
<1> SUFFICES ASSUME PrivsInv, _zprivs_raise PROVE PrivsInv'
  OBVIOUS
<1>0. /\ holder \in Locked /\ holder.op = "raise" /\ holder.counted /\ holder.use \in Uses
      /\ holder.use \notin inside /\ refcount = Cardinality(inside) + 1
      /\ holder' = Nobody /\ inside' = inside \union {holder.use} /\ inside' # {}
  BY DEF PrivsInv, PrivsTypeOK, Counted, Extra, Raising, Lowering, _zprivs_raise, Locked
<1>1. PrivsTypeOK'
  BY <1>0, ChangedFacts DEF PrivsInv, PrivsTypeOK, _zprivs_raise
<1>2. Counted'
  BY <1>0, Blocks DEF PrivsInv, Counted, Extra, Raising, Lowering, _zprivs_raise
<1>3. Started' /\ PrivsGivenUp'
  <2>1. PrivsGivenUp'
    BY ChangedFacts DEF PrivsInv, PrivsGivenUp, _zprivs_raise
  <2>2. Started'
    BY <1>0 DEF PrivsInv, Started, Counted, _zprivs_raise
  <2>3. QED
    BY <2>1, <2>2
<1>4. Switched'
  <2>1. CASE refcount = 1
    BY <2>1, <1>0, ChangedFacts DEF PrivsInv, Switched, _zprivs_raise
  <2>2. CASE refcount # 1
    <3>1. inside # {}
      BY <2>2, <1>0, Blocks DEF PrivsInv
    <3>2. QED
      BY <2>2, <3>1, <1>0 DEF PrivsInv, Switched, Lowering, _zprivs_raise
  <2>3. QED
    BY <2>1, <2>2
<1>5. QED
  BY <1>1, <1>2, <1>3, <1>4 DEF PrivsInv

\* _zprivs_lower keeps the invariant.
LEMMA LowerStep == PrivsInv /\ _zprivs_lower => PrivsInv'
<1> SUFFICES ASSUME PrivsInv, _zprivs_lower PROVE PrivsInv'
  OBVIOUS
<1>0. /\ Lowering /\ holder.counted
      /\ refcount = Cardinality(inside)
      /\ holder' = Nobody /\ inside' = inside
  BY Blocks DEF PrivsInv, Counted, Extra, Raising, Lowering, _zprivs_lower
<1>1. PrivsTypeOK'
  BY <1>0, ChangedFacts DEF PrivsInv, PrivsTypeOK, _zprivs_lower
<1>2. Counted'
  BY <1>0, Blocks DEF PrivsInv, Counted, Extra, Raising, Lowering, _zprivs_lower
<1>3. PrivsGivenUp'
  BY ChangedFacts DEF PrivsInv, PrivsGivenUp, _zprivs_lower
<1>4. Started'
  BY <1>0 DEF PrivsInv, Started, Counted, Lowering, _zprivs_lower
<1>5. Switched'
  <2>1. CASE inside = {}
    BY <2>1, <1>0, Blocks, ChangedFacts DEF PrivsInv, Switched, Lowering, _zprivs_lower
  <2>2. CASE inside # {}
    BY <2>2, <1>0, Blocks DEF PrivsInv, Switched, Lowering, _zprivs_lower
  <2>3. QED
    BY <2>1, <2>2
<1>6. QED
  BY <1>1, <1>2, <1>3, <1>4, <1>5 DEF PrivsInv

\* zprivs_terminate keeps the invariant.
LEMMA TerminateStep == PrivsInv /\ zprivs_terminate => PrivsInv'
<1> SUFFICES ASSUME PrivsInv, zprivs_terminate PROVE PrivsInv'
  OBVIOUS
<1>1. PrivsTypeOK'
  BY PrivsAssumption DEF PrivsInv, PrivsTypeOK, zprivs_terminate, GiveUp, setreuid, Keep
<1>2. Counted'
  BY DEF PrivsInv, Counted, Extra, Raising, Lowering, zprivs_terminate
<1>3. Started' /\ Switched'
  BY DEF PrivsInv, Started, Switched, zprivs_terminate
<1>4. PrivsGivenUp'
  <2> SUFFICES ASSUME zuid # 0, zsuid # zuid PROVE cred' = [real |-> zuid, eff |-> zuid, saved |-> zuid]
    BY DEF PrivsGivenUp, zprivs_terminate
  <2>1. CASE phase = "ending"
    BY <2>1 DEF PrivsInv, PrivsGivenUp, zprivs_terminate
  <2>2. CASE phase = "ready"
    <3>1. change = "uid"
      BY <2>2 DEF PrivsInv, PrivsTypeOK, Started
    <3>2. cred.eff = zuid \/ cred.eff = 0
      BY <3>1, <2>2 DEF PrivsInv, Switched
    <3>3. MaySet(cred, zuid, zuid)
      BY <3>2 DEF MaySet, Root
    <3>4. setreuid(cred, zuid, zuid) = [real |-> zuid, eff |-> zuid, saved |-> zuid]
      BY <3>3, PrivsAssumption DEF setreuid, Keep, PrivsInv, PrivsTypeOK
    <3>5. QED
      BY <2>2, <3>4 DEF zprivs_terminate, GiveUp
  <2>3. QED
    BY <2>1, <2>2 DEF zprivs_terminate
<1>5. QED
  BY <1>1, <1>2, <1>3, <1>4 DEF PrivsInv

\* The invariant implies what the runs check.
LEMMA Implied == PrivsInv => PrivsTypeOK /\ PrivsFollowUse /\ PrivsGivenUp
<1> SUFFICES ASSUME PrivsInv PROVE PrivsFollowUse
  BY DEF PrivsInv
<1>1. QED
  BY DEF PrivsInv, Switched, PrivsFollowUse, Lowering

\* The invariant holds in every state of the privilege functions (privs.c).
THEOREM PrivsInvariance == PrivsSpec => []PrivsInv
<1>1. PrivsInv /\ [PrivsNext]_privsVars => PrivsInv'
  <2> SUFFICES ASSUME PrivsInv, [PrivsNext]_privsVars PROVE PrivsInv'
    OBVIOUS
  <2>1. CASE UNCHANGED privsVars
    BY <2>1 DEF privsVars, PrivsInv, PrivsTypeOK, Counted, Extra, Raising, Lowering, Started, Switched, PrivsGivenUp
  <2>2. CASE PrivsNext
    BY <2>2, PreinitStep, InitialStep, LockStep, CountStep, RaiseStep, LowerStep, TerminateStep DEF PrivsNext
  <2>3. QED
    BY <2>1, <2>2
<1>2. QED
  BY PrivsInitStep, <1>1, PTL DEF PrivsSpec

\* While any block of any thread runs the process is privileged, and after the
\* last one it is not (_zprivs_raise, _zprivs_lower and their common count).
THEOREM FollowUse == PrivsSpec => []PrivsFollowUse
BY PrivsInvariance, Implied, PTL

\* Privileges that were given up by zprivs_terminate never come back.
THEOREM GivenUp == PrivsSpec => []PrivsGivenUp
BY PrivsInvariance, Implied, PTL

\* Both together, as they are model-checked.
THEOREM PrivilegesRight == PrivsSpec => []PrivsRight
BY FollowUse, GivenUp, PTL DEF PrivsRight

-----------------------------------------------------------------------------
(* Signals                                                                 *)

\* The signals the handlers and the loop are at.
Indexed ==
  /\ at.step \in {"look", "clear", "call"} => at.sig \in 1..N
  /\ at.step = "outside" => at = Outside
  /\ \A t \in Takers : taken[t].step # "none" => taken[t].sig \in 1..N

SignalsInv == SignalsTypeOK /\ Indexed /\ NoSignalForgotten

-----------------------------------------------------------------------------

\* Before signal_init nothing is caught.
LEMMA SignalsInitStep == SignalsInit => SignalsInv
<1> SUFFICES ASSUME SignalsInit PROVE SignalsInv
  OBVIOUS
<1>1. N \in Nat /\ 0 \in 0..N /\ 0 \in 0..2 * N + 2
  BY SignalsAssumption
<1>2. SignalsTypeOK
  BY <1>1 DEF SignalsInit, SignalsTypeOK, Outside, NoSignal
<1>3. Indexed
  BY DEF SignalsInit, Indexed, Outside, NoSignal
<1>4. NoSignalForgotten
  BY DEF SignalsInit, NoSignalForgotten
<1>5. QED
  BY <1>2, <1>3, <1>4 DEF SignalsInv

\* signal_init keeps the invariant.
LEMMA SetupStep == SignalsInv /\ signal_init => SignalsInv'
<1> SUFFICES ASSUME SignalsInv, signal_init PROVE SignalsInv'
  OBVIOUS
<1>1. SignalsTypeOK'
  BY SignalsAssumption DEF SignalsInv, SignalsTypeOK, signal_init, Registered
<1>2. Indexed' /\ NoSignalForgotten'
  BY DEF SignalsInv, Indexed, NoSignalForgotten, StillAhead, signal_init, Outside
<1>3. QED
  BY <1>1, <1>2 DEF SignalsInv

\* The arrival of a signal in any thread keeps the invariant.
LEMMA ArriveStep == ASSUME NEW t \in Takers, NEW i \in 1..N PROVE SignalsInv /\ Arrive(t, i) => SignalsInv'
<1> SUFFICES ASSUME SignalsInv, Arrive(t, i) PROVE SignalsInv'
  OBVIOUS
<1>0. /\ UNCHANGED <<disp, stage, master, caught, at, owed>>
      /\ taken[t].step = "none"
      /\ \/ UNCHANGED taken
         \/ taken' = [taken EXCEPT ![t] = [step |-> "mark", sig |-> i]]
      /\ alive' \in BOOLEAN
  <2>1. alive' \in BOOLEAN
    BY Zenon DEF Arrive, SignalsInv, SignalsTypeOK
  <2>2. QED
    BY <2>1 DEF Arrive, NoSignal
<1>a. i \in 0..N
  BY SignalsAssumption
<1>1. SignalsTypeOK'
  <2> DEFINE Taken == [step : {"none", "mark", "tell"}, sig : 0..N]
  <2>1. taken \in [Takers -> Taken]
    BY DEF SignalsInv, SignalsTypeOK
  <2>2. [step |-> "mark", sig |-> i] \in Taken
    BY <1>a
  <2>3. taken' \in [Takers -> Taken]
    <3> HIDE DEF Taken
    <3> QED
      BY <1>0, <2>1, <2>2
  <2>4. QED
    BY <1>0, <2>3 DEF SignalsInv, SignalsTypeOK
<1>2. Indexed'
  <2>1. ASSUME NEW s \in Takers, taken'[s].step # "none" PROVE taken'[s].sig \in 1..N
    BY <1>0, <2>1 DEF SignalsInv, SignalsTypeOK, Indexed
  <2>2. QED
    BY <1>0, <2>1 DEF SignalsInv, Indexed, Outside
<1>3. NoSignalForgotten'
  <2> SUFFICES ASSUME NEW j \in 1..N, caught[j], ~master, ~StillAhead(j)
               PROVE  \E s \in Takers : taken'[s] = [step |-> "tell", sig |-> j]
    BY <1>0 DEF NoSignalForgotten, StillAhead, SignalsInv
  <2>1. PICK s \in Takers : taken[s] = [step |-> "tell", sig |-> j]
    BY DEF SignalsInv, NoSignalForgotten
  <2>2. s # t
    BY <1>0, <2>1
  <2>3. taken'[s] = taken[s]
    BY <1>0, <2>2 DEF SignalsInv, SignalsTypeOK
  <2>4. QED
    BY <2>1, <2>3
<1>4. QED
  BY <1>1, <1>2, <1>3 DEF SignalsInv

\* quagga_signal_handler keeps the invariant.
LEMMA HandlerStep == ASSUME NEW t \in Takers PROVE SignalsInv /\ quagga_signal_handler(t) => SignalsInv'
<1> SUFFICES ASSUME SignalsInv, quagga_signal_handler(t) PROVE SignalsInv'
  OBVIOUS
<1> DEFINE i == taken[t].sig
<1>0. /\ UNCHANGED <<disp, stage, at>>
      /\ taken[t] = [step |-> taken[t].step, sig |-> i]
      /\ i \in 1..N
  BY DEF quagga_signal_handler, SignalsInv, SignalsTypeOK, Indexed
<1>1. CASE /\ taken[t].step = "mark"
           /\ caught' = [caught EXCEPT ![i] = Registered \/ caught[i]]
           /\ owed' = [owed EXCEPT ![i] = Registered \/ owed[i]]
           /\ taken' = [taken EXCEPT ![t].step = "tell"]
           /\ UNCHANGED <<master, alive>>
  <2>1. /\ taken'[t] = [step |-> "tell", sig |-> i]
        /\ \A s \in Takers : s # t => taken'[s] = taken[s]
        /\ taken' \in [Takers -> [step : {"none", "mark", "tell"}, sig : 0..N]]
    BY <1>0, <1>1 DEF SignalsInv, SignalsTypeOK
  <2>2. /\ caught' \in [1..N -> BOOLEAN] /\ owed' \in [1..N -> BOOLEAN]
        /\ owed'[i] => caught'[i] \/ owed[i]
        /\ caught[i] => caught'[i]
        /\ \A j \in 1..N : j # i => caught'[j] = caught[j] /\ owed'[j] = owed[j]
    BY <1>0, <1>1 DEF SignalsInv, SignalsTypeOK, Registered
  <2>3. SignalsTypeOK' /\ Indexed'
    BY <1>0, <1>1, <2>1, <2>2 DEF SignalsInv, SignalsTypeOK, Indexed, Outside
  <2>4. NoSignalForgotten'
    <3> SUFFICES ASSUME NEW j \in 1..N
                 PROVE  /\ owed'[j] => caught'[j] \/ at' = [step |-> "call", sig |-> j]
                        /\ caught'[j] => \/ master' \/ StillAhead(j)'
                                         \/ \E s \in Takers : taken'[s] = [step |-> "tell", sig |-> j]
      BY DEF NoSignalForgotten
    <3> HIDE DEF i
    <3>1. CASE j = i
      BY <1>0, <2>1, <2>2, <3>1 DEF SignalsInv, NoSignalForgotten
    <3>2. CASE j # i
      <4>1. ASSUME NEW s \in Takers, taken[s] = [step |-> "tell", sig |-> j]
            PROVE  taken'[s] = [step |-> "tell", sig |-> j]
        BY <1>1, <2>1, <4>1
      <4>2. QED
        BY <1>0, <1>1, <2>2, <3>2, <4>1 DEF SignalsInv, NoSignalForgotten, StillAhead
    <3>3. QED
      BY <3>1, <3>2
  <2>5. QED
    BY <2>3, <2>4 DEF SignalsInv
<1>2. CASE /\ taken[t].step = "tell"
           /\ master' = TRUE
           /\ taken' = [taken EXCEPT ![t] = NoSignal]
           /\ UNCHANGED <<caught, owed, alive>>
  <2>1. SignalsTypeOK' /\ Indexed'
    BY <1>0, <1>2, SignalsAssumption DEF SignalsInv, SignalsTypeOK, Indexed, NoSignal, Outside
  <2>2. NoSignalForgotten'
    BY <1>0, <1>2 DEF SignalsInv, NoSignalForgotten
  <2>3. QED
    BY <2>1, <2>2 DEF SignalsInv
<1>3. CASE alive' = FALSE /\ UNCHANGED <<master, caught, owed, taken>>
  <2>1. alive' \in BOOLEAN
    BY <1>3, Zenon
  <2>2. SignalsTypeOK' /\ Indexed' /\ NoSignalForgotten'
    BY <1>0, <1>3, <2>1 DEF SignalsInv, SignalsTypeOK, Indexed, NoSignalForgotten, StillAhead, Outside
  <2>3. QED
    BY <2>2 DEF SignalsInv
<1>4. QED
  BY <1>1, <1>2, <1>3 DEF quagga_signal_handler

\* quagga_sigevent_process keeps the invariant.
LEMMA ProcessStep == SignalsInv /\ quagga_sigevent_process => SignalsInv'
<1> SUFFICES ASSUME SignalsInv, quagga_sigevent_process PROVE SignalsInv'
  OBVIOUS
<1> DEFINE i == at.sig
<1>0. /\ UNCHANGED <<disp, stage, taken, alive>>
      /\ N \in Nat /\ i \in 0..N
      /\ at = [step |-> at.step, sig |-> i]
  BY SignalsAssumption DEF quagga_sigevent_process, SignalsInv, SignalsTypeOK
<1>1. CASE at = Outside /\ at' = [step |-> "reset", sig |-> 0] /\ UNCHANGED <<master, caught, owed>>
  <2>1. SignalsTypeOK' /\ Indexed'
    BY <1>0, <1>1 DEF SignalsInv, SignalsTypeOK, Indexed
  <2>2. NoSignalForgotten'
    BY <1>1 DEF SignalsInv, NoSignalForgotten, StillAhead, Outside
  <2>3. QED
    BY <2>1, <2>2 DEF SignalsInv
<1>2. CASE at.step = "reset" /\ master' = FALSE /\ at' = Look(1) /\ UNCHANGED <<caught, owed>>
  <2>0. at' = Outside \/ (at' = [step |-> "look", sig |-> 1] /\ 1 \in 1..N)
    BY <1>0, <1>2 DEF Look
  <2>1. SignalsTypeOK' /\ Indexed'
    <3>a. master' \in BOOLEAN
      BY <1>2, Zenon
    <3>b. at' \in [step : {"outside", "reset", "look", "clear", "call"}, sig : 0..N]
      BY <1>0, <2>0 DEF Outside
    <3>1. SignalsTypeOK'
      BY <1>0, <1>2, <3>a, <3>b, Zenon DEF SignalsInv, SignalsTypeOK
    <3>2. Indexed'
      BY <1>0, <2>0 DEF SignalsInv, Indexed, Outside
    <3>3. QED
      BY <3>1, <3>2
  <2>2. ASSUME NEW j \in 1..N PROVE StillAhead(j)'
    BY <1>0, <1>2 DEF StillAhead, Look
  <2>3. NoSignalForgotten'
    BY <1>2, <2>2 DEF SignalsInv, NoSignalForgotten
  <2>4. QED
    BY <2>1, <2>3 DEF SignalsInv
<1>3. CASE /\ at.step = "look"
           /\ at' = IF caught[i] THEN [at EXCEPT !.step = "clear"] ELSE Look(i + 1)
           /\ UNCHANGED <<master, caught, owed>>
  <2>1. SignalsTypeOK' /\ Indexed'
    BY <1>0, <1>3, SMTT(40) DEF SignalsInv, SignalsTypeOK, Indexed, Look, Outside
  <2>2. ASSUME NEW j \in 1..N, caught[j], StillAhead(j) PROVE StillAhead(j)'
    BY <1>0, <1>3, <2>2 DEF StillAhead, Look, SignalsInv, Indexed
  <2>3. NoSignalForgotten'
    BY <1>0, <1>3, <2>2 DEF SignalsInv, NoSignalForgotten
  <2>4. QED
    BY <2>1, <2>3 DEF SignalsInv
<1>4. CASE /\ at.step = "clear"
           /\ caught' = [caught EXCEPT ![i] = FALSE]
           /\ at' = [at EXCEPT !.step = "call"]
           /\ UNCHANGED <<master, owed>>
  <2>1. SignalsTypeOK' /\ Indexed'
    BY <1>0, <1>4 DEF SignalsInv, SignalsTypeOK, Indexed, Outside
  <2>2. at' = [step |-> "call", sig |-> i]
    BY <1>0, <1>4
  <2>3. ASSUME NEW j \in 1..N, j # i
        PROVE  caught'[j] = caught[j] /\ (StillAhead(j) => StillAhead(j)')
    BY <1>0, <1>4, <2>2, <2>3 DEF StillAhead, SignalsInv, SignalsTypeOK
  <2>4. ~caught'[i]
    BY <1>0, <1>4 DEF SignalsInv, SignalsTypeOK, Indexed
  <2>5. NoSignalForgotten'
    <3> SUFFICES ASSUME NEW j \in 1..N
                 PROVE  /\ owed'[j] => caught'[j] \/ at' = [step |-> "call", sig |-> j]
                        /\ caught'[j] => \/ master' \/ StillAhead(j)'
                                         \/ \E s \in Takers : taken'[s] = [step |-> "tell", sig |-> j]
      BY DEF NoSignalForgotten
    <3> HIDE DEF i
    <3>1. CASE j = i
      BY <2>2, <2>4, <3>1
    <3>2. CASE j # i
      BY <1>0, <1>4, <2>3, <3>2 DEF SignalsInv, NoSignalForgotten
    <3>3. QED
      BY <3>1, <3>2
  <2>6. QED
    BY <2>1, <2>5 DEF SignalsInv
<1>5. CASE /\ at.step = "call"
           /\ owed' = [owed EXCEPT ![i] = FALSE]
           /\ at' = Look(i + 1)
           /\ UNCHANGED <<master, caught>>
  <2>0. /\ at' = Outside \/ (at' = [step |-> "look", sig |-> i + 1] /\ i + 1 \in 1..N)
        /\ i < N => at' = [step |-> "look", sig |-> i + 1]
    BY <1>0, <1>5 DEF Look
  <2>1. SignalsTypeOK' /\ Indexed'
    BY <1>0, <1>5, <2>0 DEF SignalsInv, SignalsTypeOK, Indexed, Outside
  <2>2. ASSUME NEW j \in 1..N, StillAhead(j) PROVE StillAhead(j)'
    <3>1. i < j
      BY <1>5, <2>2 DEF StillAhead
    <3>2. at' = [step |-> "look", sig |-> i + 1] /\ i + 1 <= j
      BY <1>0, <2>0, <3>1
    <3>3. QED
      BY <3>2 DEF StillAhead
  <2>3. ASSUME NEW j \in 1..N, owed'[j] PROVE caught[j]
    <3>1. j # i /\ owed[j]
      BY <1>5, <2>3 DEF SignalsInv, SignalsTypeOK
    <3>2. at # [step |-> "call", sig |-> j]
      BY <3>1
    <3>3. QED
      BY <3>1, <3>2 DEF SignalsInv, NoSignalForgotten
  <2>4. NoSignalForgotten'
    BY <1>0, <1>5, <2>2, <2>3 DEF SignalsInv, NoSignalForgotten
  <2>5. QED
    BY <2>1, <2>4 DEF SignalsInv
<1>6. QED
  BY <1>1, <1>2, <1>3, <1>4, <1>5 DEF quagga_sigevent_process

\* The invariant holds in every state of the signal handling (sigevent.c).
THEOREM SignalsInvariance == SignalsSpec => []SignalsInv
<1>1. SignalsInv /\ [SignalsNext]_signalVars => SignalsInv'
  <2> SUFFICES ASSUME SignalsInv, [SignalsNext]_signalVars PROVE SignalsInv'
    OBVIOUS
  <2>1. CASE UNCHANGED signalVars
    BY <2>1 DEF signalVars, SignalsInv, SignalsTypeOK, Indexed, NoSignalForgotten, StillAhead, Outside
  <2>2. CASE SignalsNext
    BY <2>2, SetupStep, ArriveStep, HandlerStep, ProcessStep DEF SignalsNext
  <2>3. QED
    BY <2>1, <2>2
<1>2. QED
  BY SignalsInitStep, <1>1, PTL DEF SignalsSpec

\* No signal that was marked is forgotten, however its handlers and the event
\* loop interleave (quagga_signal_handler and quagga_sigevent_process).
THEOREM NeverForgotten == SignalsSpec => []NoSignalForgotten
<1>1. SignalsInv => NoSignalForgotten
  BY DEF SignalsInv
<1>2. QED
  BY SignalsInvariance, <1>1, PTL
=============================================================================
