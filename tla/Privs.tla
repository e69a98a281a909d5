------------------------------- MODULE Privs -------------------------------
(***************************************************************************)
(* The privileges of a program that uses libvui (privs.c), as built here:  *)
(* without capabilities, so that raising and lowering switch the effective *)
(* user of the whole process.  A use of privileges is a block between      *)
(* _zprivs_raise and _zprivs_lower; the threads of the process, and nested *)
(* blocks of one thread, share one count of uses under a mutex.            *)
(*                                                                         *)
(* Credentials are [real, eff, saved]; user 0 is root.                     *)
(***************************************************************************)
EXTENDS Integers, FiniteSets

CONSTANTS Uids, Uses

ASSUME PrivsAssumption == Uids \subseteq Nat /\ 0 \in Uids /\ IsFiniteSet(Uses)

VARIABLES cred,       \* of the process
          user,       \* a user is configured
          zuid,       \* zprivs_state.zuid
          zsuid,      \* zprivs_state.zsuid
          change,     \* zprivs->change
          phase,      \* the program's own calls: init, then use, then terminate
          refcount,   \* process_refs.refcount
          holder,     \* who is inside the mutex, doing what; or Nobody
          inside      \* the blocks that run

privsVars == <<cred, user, zuid, zsuid, change, phase, refcount, holder, inside>>

Nobody == [op |-> "none"]

\* seteuid(2) and setreuid(2), Keep standing for -1: the new credentials, or the
\* old ones when the kernel refuses.
Keep == -1
Root(c) == c.eff = 0
seteuid(c, id) == IF Root(c) \/ id \in {c.real, c.eff, c.saved} THEN [c EXCEPT !.eff = id] ELSE c
MaySet(c, r, e) == \/ Root(c)
                   \/ r \in {Keep, c.real, c.eff} /\ e \in {c.real, c.eff, c.saved}
setreuid(c, r, e) ==
  IF ~MaySet(c, r, e) THEN c
  ELSE [real |-> IF r = Keep THEN c.real ELSE r, eff |-> e,
        saved |-> IF r # Keep \/ e # c.real THEN e ELSE c.saved]

\* The program is started by root or by somebody else, never set-user-id.
PrivsInit ==
  /\ \E u \in Uids : cred = [real |-> u, eff |-> u, saved |-> u]
  /\ user \in BOOLEAN
  /\ zuid = 0 /\ zsuid = 0
  /\ change = "unset"
  /\ phase = "preinit"
  /\ refcount = 0 /\ holder = Nobody /\ inside = {}

Exit == phase' = "exited" /\ UNCHANGED <<cred, user, zuid, zsuid, change, refcount, holder, inside>>

\* zprivs_preinit: a user or group that does not exist ends the program.  Without
\* any of them the handlers do nothing.
zprivs_preinit ==
  /\ phase = "preinit"
  /\ \/ /\ phase' = "init"
        /\ IF user THEN zuid' \in Uids ELSE UNCHANGED zuid
        /\ \/ UNCHANGED change
           \/ ~user /\ change' = "null"       \* no group either
        /\ UNCHANGED <<cred, user, zsuid, refcount, holder, inside>>
     \/ Exit

\* zprivs_init: groups first, while that is allowed; then the user.  Changing to
\* another user needs root for the groups already.
zprivs_init ==
  /\ phase = "init"
  /\ \/ /\ change = "null"
        /\ phase' = "ready"
        /\ UNCHANGED <<cred, user, zuid, zsuid, change, refcount, holder, inside>>
     \/ /\ change = "unset"
        /\ user /\ cred.eff # zuid => Root(cred)
        /\ zsuid' = cred.eff
        /\ cred' = IF zuid # 0 /\ cred.eff # zuid THEN setreuid(cred, Keep, zuid) ELSE cred
        /\ change' = "uid"
        /\ phase' = "ready"
        /\ UNCHANGED <<user, zuid, refcount, holder, inside>>
     \/ change = "unset" /\ Exit

\* zprivs->change: zprivs_change_uid or zprivs_change_null.
Changed(op) ==
  IF change = "null" \/ zsuid = zuid THEN cred
  ELSE seteuid(cred, IF op = "raise" THEN zsuid ELSE zuid)

\* The mutex, taken to raise for a block that starts or to lower for one that ends.
Lock(u) ==
  /\ phase \in {"ready", "ending", "ended"}
  /\ holder = Nobody
  /\ holder' = [op |-> IF u \in inside THEN "lower" ELSE "raise", use |-> u, counted |-> FALSE]
  /\ inside' = inside \ {u}
  /\ UNCHANGED <<cred, user, zuid, zsuid, change, phase, refcount>>

Count ==
  /\ holder # Nobody
  /\ ~holder.counted
  /\ refcount' = IF holder.op = "raise" THEN refcount + 1 ELSE refcount - 1
  /\ holder' = [holder EXCEPT !.counted = TRUE]
  /\ UNCHANGED <<cred, user, zuid, zsuid, change, phase, inside>>

\* The rest of _zprivs_raise: the first use switches.
_zprivs_raise ==
  /\ holder # Nobody
  /\ holder.op = "raise" /\ holder.counted
  /\ cred' = IF refcount = 1 THEN Changed("raise") ELSE cred
  /\ inside' = inside \union {holder.use}
  /\ holder' = Nobody
  /\ UNCHANGED <<user, zuid, zsuid, change, phase, refcount>>

\* The rest of _zprivs_lower: the last use switches back.
_zprivs_lower ==
  /\ holder # Nobody
  /\ holder.op = "lower" /\ holder.counted
  /\ cred' = IF refcount = 0 THEN Changed("lower") ELSE cred
  /\ holder' = Nobody
  /\ UNCHANGED <<user, zuid, zsuid, change, phase, refcount, inside>>

\* Variant: only the effective user is given up.
GiveUpEffective(c, id) == seteuid(c, id)

GiveUp(c, id) == setreuid(c, id, id)

\* zprivs_terminate gives the privileges up for good, without the mutex, and only
\* then changes the handlers.
zprivs_terminate ==
  \/ /\ phase = "ready"
     /\ phase' = "ending"
     /\ cred' = IF zuid # 0 /\ zsuid # zuid THEN GiveUp(cred, zuid) ELSE cred
     /\ UNCHANGED <<user, zuid, zsuid, change, refcount, holder, inside>>
  \/ /\ phase = "ending"
     /\ phase' = "ended"
     /\ change' = "null"
     /\ UNCHANGED <<cred, user, zuid, zsuid, refcount, holder, inside>>

PrivsNext ==
  \/ zprivs_preinit \/ zprivs_init
  \/ \E u \in Uses : Lock(u)
  \/ Count \/ _zprivs_raise \/ _zprivs_lower
  \/ zprivs_terminate

PrivsSpec == PrivsInit /\ [][PrivsNext]_privsVars

-----------------------------------------------------------------------------
Locked == [op : {"raise", "lower"}, use : Uses, counted : BOOLEAN]

PrivsTypeOK ==
  /\ cred \in [real : Uids, eff : Uids, saved : Uids]
  /\ user \in BOOLEAN /\ zuid \in Uids /\ zsuid \in Uids
  /\ change \in {"unset", "null", "uid"}
  /\ phase \in {"preinit", "init", "ready", "ending", "ended", "exited"}
  /\ refcount \in Int
  /\ holder \in Locked \union {Nobody}
  /\ inside \subseteq Uses

\* While any block of any thread runs, the process has the privileges it was
\* started with, and once the last one has ended it has only those of its user:
\* no thread loses privileges it still uses because another is done with its own
\* (_zprivs_raise and _zprivs_lower, the count they share, and the credentials
\* zprivs_init leaves behind, from which raising must remain possible).
PrivsFollowUse ==
  phase = "ready" /\ change = "uid" /\ zuid # 0 =>
    /\ inside # {} => cred.eff = zsuid
    /\ inside = {} /\ holder = Nobody => cred.eff = zuid

\* After zprivs_terminate the process is its user and nobody else, and no raise
\* still under way, or begun later, brings the privileges back.
PrivsGivenUp ==
  phase \in {"ending", "ended"} /\ zuid # 0 /\ zsuid # zuid =>
    cred = [real |-> zuid, eff |-> zuid, saved |-> zuid]

\* Privileges are there while they are used and only then, and for good gone at the end
\* (_zprivs_raise, _zprivs_lower, zprivs_terminate).
PrivsRight == PrivsFollowUse /\ PrivsGivenUp
=============================================================================
