--------------------------- MODULE SysCallsProofs ---------------------------
(***************************************************************************)
(* The calls of sys.c, for any tasks, ids, limits, maps and processes.     *)
(*                                                                         *)
(* Each part is proved by itself, from an invariant of its own, and then   *)
(* of the composition, in which a behaviour of Spec is one of each part.   *)
(***************************************************************************)
EXTENDS SysCalls, Recursion, FiniteSetTheorems

-----------------------------------------------------------------------------
(* Identity (TaskIds).  IdsInv is inductive.  It says more than what is to *)
(* be shown: that no capability is effective that is not permitted.        *)
(* Without it a task that has dropped what it was permitted could still be *)
(* capable of SETUID.                                                      *)
IdsInv ==
  /\ IdsTypeOK /\ CountedForItsUser
  /\ cred.effective \subseteq cred.permitted

(* new differs from the credentials in user ids at most.                   *)
UserIdsOnly(new) ==
  /\ new \in Cred
  /\ new.user = cred.user /\ AllGids(new) = AllGids(cred)
  /\ new.permitted = cred.permitted /\ new.effective = cred.effective

(* Where new may come from, and that it has the id for files go along.     *)
Lawful(new) ==
  /\ ~capable(cred, "SETUID") => AllUids(new) \subseteq AllUids(cred)
  /\ ROOT \in RealUids(cred) /\ ROOT \notin RealUids(new) => new.fsuid # ROOT
  /\ ROOT \notin AllUids(cred) /\ ~capable(cred, "SETUID") => ROOT \notin AllUids(new)

LEMMA KeepIsNoId == KEEP \notin Uids /\ KEEP \notin Gids
BY IdsAssumption DEF IdsAssumption, KEEP

(* fix_setuid changes capabilities only, and takes them away with root.    *)
LEMMA FixedFacts ==
  ASSUME IdsInv, NEW new, UserIdsOnly(new), NEW asked \in BOOLEAN,
         ~asked => new.uid = cred.uid
  PROVE  /\ Fixed(new, asked) \in Cred
         /\ Fixed(new, asked).user = new.uid /\ Fixed(new, asked).uid = new.uid
         /\ AllUids(Fixed(new, asked)) = AllUids(new) /\ RealUids(Fixed(new, asked)) = RealUids(new)
         /\ Fixed(new, asked).fsuid = new.fsuid
         /\ AllGids(Fixed(new, asked)) = AllGids(new)
         /\ Fixed(new, asked).permitted \subseteq cred.permitted
         /\ Fixed(new, asked).effective \subseteq Fixed(new, asked).permitted
         /\ ROOT \in RealUids(cred) /\ ROOT \notin RealUids(new) => Fixed(new, asked).permitted = {}
<1> DEFINE counted == IF asked THEN [new EXCEPT !.user = new.uid] ELSE new
<1>1. /\ counted \in Cred /\ counted.user = new.uid /\ counted.uid = new.uid
      /\ AllUids(counted) = AllUids(new) /\ RealUids(counted) = RealUids(new)
      /\ counted.fsuid = new.fsuid /\ AllGids(counted) = AllGids(new)
      /\ counted.permitted = cred.permitted /\ counted.effective = cred.effective
  BY DEF UserIdsOnly, Cred, AllUids, RealUids, AllGids, RealGids, IdsInv, CountedForItsUser
<1> DEFINE lost == ROOT \in RealUids(cred) /\ ROOT \notin RealUids(counted)
           kept == IF lost THEN {} ELSE counted.permitted
           eff  == IF lost \/ (cred.euid = ROOT /\ counted.euid # ROOT) THEN {}
                   ELSE IF cred.euid # ROOT /\ counted.euid = ROOT THEN kept
                   ELSE counted.effective
<1>2. Fixed(new, asked) = [counted EXCEPT !.permitted = kept, !.effective = eff]
  BY <1>1 DEF Fixed, fix_setuid, Cred
<1>3. kept \in SUBSET Caps /\ eff \in SUBSET Caps /\ kept \subseteq cred.permitted
  BY <1>1 DEF Cred
<1>4. eff \subseteq kept
  BY <1>1 DEF IdsInv
<1> HIDE DEF counted, kept, eff
<1>5. /\ Fixed(new, asked) \in Cred /\ Fixed(new, asked).permitted = kept /\ Fixed(new, asked).effective = eff
      /\ Fixed(new, asked).user = counted.user /\ Fixed(new, asked).uid = counted.uid
      /\ Fixed(new, asked).euid = counted.euid /\ Fixed(new, asked).suid = counted.suid
      /\ Fixed(new, asked).fsuid = counted.fsuid
      /\ Fixed(new, asked).gid = counted.gid /\ Fixed(new, asked).egid = counted.egid
      /\ Fixed(new, asked).sgid = counted.sgid /\ Fixed(new, asked).fsgid = counted.fsgid
  BY <1>1, <1>2, <1>3 DEF Cred
<1>6. /\ AllUids(Fixed(new, asked)) = AllUids(counted) /\ RealUids(Fixed(new, asked)) = RealUids(counted)
      /\ AllGids(Fixed(new, asked)) = AllGids(counted)
  BY <1>5 DEF AllUids, RealUids, AllGids, RealGids
<1>7. ROOT \in RealUids(cred) /\ ROOT \notin RealUids(new) => kept = {}
  BY <1>1 DEF kept
<1> QED BY <1>1, <1>3, <1>4, <1>5, <1>6, <1>7

(* A call that sets user ids and finishes with ones it may have.           *)
LEMMA FinishStep ==
  ASSUME IdsInv, NEW new, UserIdsOnly(new), Lawful(new), NEW asked \in BOOLEAN,
         ~asked => new.uid = cred.uid, Finish(new, asked)
  PROVE  IdsInv' /\ IdsStep
<1>1. exceeded' \in BOOLEAN
  BY DEF Finish, set_user, IdsInv, IdsTypeOK
<1>2. CASE UNCHANGED cred
  BY <1>1, <1>2 DEF IdsInv, IdsTypeOK, CountedForItsUser, IdsStep, NoNewIds, DropIsComplete,
                    DropLasts, Dropped
<1>3. CASE cred' = Fixed(new, asked)
  <2>1. IdsInv'
    BY <1>1, <1>3, FixedFacts DEF IdsInv, IdsTypeOK, CountedForItsUser
  <2>2. NoNewIds
    BY <1>3, FixedFacts DEF NoNewIds, UserIdsOnly, Lawful
  <2>3. DropIsComplete
    BY <1>3, FixedFacts DEF DropIsComplete, Lawful
  <2>4. DropLasts
    <3>1. cred.permitted = {} => ~capable(cred, "SETUID")
      BY DEF IdsInv, capable
    <3> QED BY <1>3, <3>1, FixedFacts DEF DropLasts, Dropped, Lawful
  <2> QED BY <2>1, <2>2, <2>3, <2>4 DEF IdsStep
<1> QED BY <1>2, <1>3 DEF Finish

(* A call that sets group ids.                                             *)
GroupIdsOnly ==
  /\ cred' \in Cred /\ UNCHANGED exceeded
  /\ cred'.user = cred.user /\ cred'.uid = cred.uid /\ cred'.euid = cred.euid
  /\ cred'.suid = cred.suid /\ cred'.fsuid = cred.fsuid
  /\ cred'.permitted = cred.permitted /\ cred'.effective = cred.effective
  /\ ~capable(cred, "SETGID") => AllGids(cred') \subseteq AllGids(cred)

LEMMA GroupStep ==
  ASSUME IdsInv, GroupIdsOnly
  PROVE  IdsInv' /\ IdsStep
<1>1. AllUids(cred') = AllUids(cred) /\ RealUids(cred') = RealUids(cred)
  BY DEF GroupIdsOnly, AllUids, RealUids
<1>2. IdsInv'
  BY DEF IdsInv, IdsTypeOK, CountedForItsUser, GroupIdsOnly
<1> QED
  BY <1>1, <1>2 DEF GroupIdsOnly, IdsStep, NoNewIds, DropIsComplete, DropLasts, Dropped

-----------------------------------------------------------------------------
LEMMA SetreuidStep ==
  ASSUME IdsInv, NEW r \in Uids \cup {KEEP}, NEW e \in Uids \cup {KEEP}, setreuid(r, e)
  PROVE  IdsInv' /\ IdsStep
<1> DEFINE new == AfterSetreuid(cred, r, e)
<1>1. /\ Or(r, cred.uid) \in Uids /\ Or(e, cred.euid) \in Uids
      /\ new \in Cred /\ new.uid = Or(r, cred.uid) /\ new.euid = Or(e, cred.euid)
      /\ new.suid \in {cred.suid, Or(e, cred.euid)} /\ new.fsuid = new.euid
      /\ new.user = cred.user /\ new.gid = cred.gid /\ new.egid = cred.egid
      /\ new.sgid = cred.sgid /\ new.fsgid = cred.fsgid
      /\ new.permitted = cred.permitted /\ new.effective = cred.effective
  BY KeepIsNoId DEF AfterSetreuid, Or, Given, IdsInv, IdsTypeOK, Cred
<1> HIDE DEF new
<1>2. UserIdsOnly(new)
  BY <1>1 DEF UserIdsOnly, AllGids, RealGids
<1>3. ~capable(cred, "SETUID") => Or(r, cred.uid) \in RealUids(cred) /\
        Or(e, cred.euid) \in RealUids(cred)
  BY DEF setreuid, MaySetreuid, Or, Given, RealUids
<1>4. Lawful(new)
  BY <1>1, <1>3 DEF Lawful, AllUids, RealUids
<1>5. Finish(new, new.uid # cred.uid)
  BY DEF setreuid, new
<1> QED BY <1>2, <1>4, <1>5, FinishStep

LEMMA SetresuidStep ==
  ASSUME IdsInv, NEW r \in Uids \cup {KEEP}, NEW e \in Uids \cup {KEEP},
         NEW s \in Uids \cup {KEEP}, setresuid(r, e, s)
  PROVE  IdsInv' /\ IdsStep
<1> DEFINE new == [cred EXCEPT !.uid = Or(r, @), !.euid = Or(e, @), !.suid = Or(s, @),
                               !.fsuid = Or(e, cred.euid)]
<1>1. /\ Or(r, cred.uid) \in Uids /\ Or(e, cred.euid) \in Uids /\ Or(s, cred.suid) \in Uids
      /\ new \in Cred /\ new.uid = Or(r, cred.uid) /\ new.euid = Or(e, cred.euid)
      /\ new.suid = Or(s, cred.suid) /\ new.fsuid = new.euid
      /\ new.user = cred.user /\ new.gid = cred.gid /\ new.egid = cred.egid
      /\ new.sgid = cred.sgid /\ new.fsgid = cred.fsgid
      /\ new.permitted = cred.permitted /\ new.effective = cred.effective
  BY KeepIsNoId DEF Or, Given, IdsInv, IdsTypeOK, Cred
<1>0. Finish(new, Given(r) /\ r # cred.uid)
  BY DEF setresuid
<1> HIDE DEF new
<1>2. UserIdsOnly(new)
  BY <1>1 DEF UserIdsOnly, AllGids, RealGids
<1>3. ~capable(cred, "SETUID") =>
        {Or(r, cred.uid), Or(e, cred.euid), Or(s, cred.suid)} \subseteq RealUids(cred)
  BY DEF setresuid, Or, Given, RealUids
<1>4. Lawful(new)
  BY <1>1, <1>3 DEF Lawful, AllUids, RealUids
<1>5. (Given(r) /\ r # cred.uid) \in BOOLEAN /\ (~(Given(r) /\ r # cred.uid) => new.uid = cred.uid)
  BY <1>1 DEF Or
<1> QED BY <1>0, <1>2, <1>4, <1>5, FinishStep

LEMMA SetuidStep ==
  ASSUME IdsInv, NEW u \in Uids, setuid(u)
  PROVE  IdsInv' /\ IdsStep
<1> DEFINE own == [cred EXCEPT !.euid = u, !.fsuid = u]
           all == [own EXCEPT !.uid = u, !.suid = u]
<1>1. /\ own \in Cred /\ own.euid = u /\ own.fsuid = u /\ own.uid = cred.uid
      /\ own.suid = cred.suid /\ own.user = cred.user
      /\ own.gid = cred.gid /\ own.egid = cred.egid /\ own.sgid = cred.sgid
      /\ own.fsgid = cred.fsgid
      /\ own.permitted = cred.permitted /\ own.effective = cred.effective
  BY DEF IdsInv, IdsTypeOK, Cred
<1>2. /\ all \in Cred /\ RealUids(all) = {u} /\ AllUids(all) = {u} /\ all.fsuid = u /\ all.uid = u
      /\ all.user = cred.user /\ AllGids(all) = AllGids(cred)
      /\ all.permitted = cred.permitted /\ all.effective = cred.effective
  BY DEF IdsInv, IdsTypeOK, Cred, RealUids, AllUids, AllGids, RealGids
<1>3. \/ capable(cred, "SETUID") /\ Finish(all, u # cred.uid)
      \/ u \in {cred.uid, cred.suid} /\ Finish(own, FALSE)
  BY DEF setuid
<1> HIDE DEF own, all
<1>4. CASE capable(cred, "SETUID") /\ Finish(all, u # cred.uid)
  <2>1. UserIdsOnly(all)
    BY <1>2 DEF UserIdsOnly
  <2>2. Lawful(all)
    BY <1>2, <1>4 DEF Lawful
  <2> QED BY <1>2, <1>4, <2>1, <2>2, FinishStep
<1>5. CASE u \in {cred.uid, cred.suid} /\ Finish(own, FALSE)
  <2>1. UserIdsOnly(own)
    BY <1>1 DEF UserIdsOnly, AllGids, RealGids
  <2>2. Lawful(own)
    BY <1>1, <1>5 DEF Lawful, RealUids, AllUids
  <2> QED BY <1>1, <1>5, <2>1, <2>2, FinishStep
<1> QED BY <1>3, <1>4, <1>5

LEMMA SetfsuidStep ==
  ASSUME IdsInv, NEW u \in Uids, setfsuid(u)
  PROVE  IdsInv' /\ IdsStep
<1>1. /\ cred' \in Cred /\ cred'.fsuid = u /\ cred'.user = cred.user
      /\ cred'.uid = cred.uid /\ cred'.euid = cred.euid /\ cred'.suid = cred.suid
      /\ cred'.gid = cred.gid /\ cred'.egid = cred.egid /\ cred'.sgid = cred.sgid
      /\ cred'.fsgid = cred.fsgid
      /\ cred'.permitted = cred.permitted /\ cred'.effective = cred.effective
  BY DEF setfsuid, IdsInv, IdsTypeOK, Cred
<1>2. IdsInv'
  BY <1>1 DEF setfsuid, IdsInv, IdsTypeOK, CountedForItsUser
<1>3. cred.permitted = {} => ~capable(cred, "SETUID")
  BY DEF IdsInv, capable
<1>4. RealUids(cred') = RealUids(cred) /\ AllGids(cred') = AllGids(cred)
  BY <1>1 DEF RealUids, AllGids, RealGids
<1> QED
  BY <1>1, <1>2, <1>3, <1>4 DEF setfsuid, IdsStep, NoNewIds, DropIsComplete, DropLasts, Dropped,
                                 AllUids
-----------------------------------------------------------------------------
LEMMA SetregidStep ==
  ASSUME IdsInv, NEW r \in Gids \cup {KEEP}, NEW e \in Gids \cup {KEEP}, setregid(r, e)
  PROVE  IdsInv' /\ IdsStep
<1>1. /\ cred' \in Cred /\ cred'.gid = Or(r, cred.gid) /\ cred'.egid = Or(e, cred.egid)
      /\ cred'.sgid \in {cred.sgid, cred'.egid} /\ cred'.fsgid = cred'.egid
      /\ cred'.user = cred.user /\ cred'.uid = cred.uid /\ cred'.euid = cred.euid
      /\ cred'.suid = cred.suid /\ cred'.fsuid = cred.fsuid
      /\ cred'.permitted = cred.permitted /\ cred'.effective = cred.effective
  BY KeepIsNoId DEF setregid, Or, Given, IdsInv, IdsTypeOK, Cred
<1>2. ~capable(cred, "SETGID") => {Or(r, cred.gid), Or(e, cred.egid)} \subseteq AllGids(cred)
  BY DEF setregid, Or, Given, AllGids, RealGids
<1>3. GroupIdsOnly
  BY <1>1, <1>2 DEF GroupIdsOnly, AllGids, RealGids, setregid
<1> QED BY <1>3, GroupStep

LEMMA SetresgidStep ==
  ASSUME IdsInv, NEW r \in Gids \cup {KEEP}, NEW e \in Gids \cup {KEEP},
         NEW s \in Gids \cup {KEEP}, setresgid(r, e, s)
  PROVE  IdsInv' /\ IdsStep
<1>1. /\ cred' \in Cred /\ cred'.gid = Or(r, cred.gid) /\ cred'.egid = Or(e, cred.egid)
      /\ cred'.sgid = Or(s, cred.sgid) /\ cred'.fsgid = cred'.egid
      /\ cred'.user = cred.user /\ cred'.uid = cred.uid /\ cred'.euid = cred.euid
      /\ cred'.suid = cred.suid /\ cred'.fsuid = cred.fsuid
      /\ cred'.permitted = cred.permitted /\ cred'.effective = cred.effective
  BY KeepIsNoId DEF setresgid, Or, Given, IdsInv, IdsTypeOK, Cred
<1>2. ~capable(cred, "SETGID") =>
        {Or(r, cred.gid), Or(e, cred.egid), Or(s, cred.sgid)} \subseteq AllGids(cred)
  BY DEF setresgid, Or, Given, AllGids, RealGids
<1>3. GroupIdsOnly
  BY <1>1, <1>2 DEF GroupIdsOnly, AllGids, RealGids, setresgid
<1> QED BY <1>3, GroupStep

LEMMA SetgidStep ==
  ASSUME IdsInv, NEW g \in Gids, setgid(g) \/ setfsgid(g)
  PROVE  IdsInv' /\ IdsStep
<1>1. /\ cred' \in Cred /\ UNCHANGED exceeded
      /\ {cred'.gid, cred'.egid, cred'.sgid, cred'.fsgid} \subseteq AllGids(cred) \cup {g}
      /\ cred'.user = cred.user /\ cred'.uid = cred.uid /\ cred'.euid = cred.euid
      /\ cred'.suid = cred.suid /\ cred'.fsuid = cred.fsuid
      /\ cred'.permitted = cred.permitted /\ cred'.effective = cred.effective
  BY DEF setgid, setfsgid, IdsInv, IdsTypeOK, Cred, AllGids, RealGids
<1>2. ~capable(cred, "SETGID") => g \in AllGids(cred)
  BY DEF setgid, setfsgid, AllGids, RealGids
<1>3. GroupIdsOnly
  BY <1>1, <1>2 DEF GroupIdsOnly, AllGids, RealGids
<1> QED BY <1>3, GroupStep

LEMMA CapsetStep ==
  ASSUME IdsInv, NEW p \in SUBSET Caps, NEW e \in SUBSET Caps, capset(p, e)
  PROVE  IdsInv' /\ IdsStep
<1>1. /\ cred' \in Cred /\ cred'.permitted = p /\ cred'.effective = e
      /\ cred'.user = cred.user /\ cred'.uid = cred.uid /\ cred'.euid = cred.euid
      /\ cred'.suid = cred.suid /\ cred'.fsuid = cred.fsuid
      /\ cred'.gid = cred.gid /\ cred'.egid = cred.egid
      /\ cred'.sgid = cred.sgid /\ cred'.fsgid = cred.fsgid
  BY DEF capset, IdsInv, IdsTypeOK, Cred
<1>2. /\ AllUids(cred') = AllUids(cred) /\ RealUids(cred') = RealUids(cred)
      /\ AllGids(cred') = AllGids(cred)
  BY <1>1 DEF AllUids, RealUids, AllGids, RealGids
<1>3. IdsInv'
  BY <1>1 DEF capset, IdsInv, IdsTypeOK, CountedForItsUser
<1> QED
  BY <1>1, <1>2, <1>3 DEF capset, IdsStep, NoNewIds, DropIsComplete, DropLasts, Dropped
-----------------------------------------------------------------------------
LEMMA IdsInitInv == IdsInit => IdsInv
<1> SUFFICES ASSUME IdsInit PROVE IdsInv
  OBVIOUS
<1> PICK u \in Uids, e \in Uids, g \in Gids, h \in Gids, p \in {{}, Caps} :
      cred = [uid |-> u, euid |-> e, suid |-> e, fsuid |-> e, user |-> u,
              gid |-> g, egid |-> h, sgid |-> h, fsgid |-> h,
              permitted |-> p, effective |-> p]
  BY DEF IdsInit
<1> QED BY DEF IdsInit, IdsInv, IdsTypeOK, CountedForItsUser, Cred

LEMMA IdsNextInv == IdsInv /\ [IdsNext]_ids => IdsInv' /\ [IdsStep]_ids
<1> SUFFICES ASSUME IdsInv, [IdsNext]_ids PROVE IdsInv' /\ [IdsStep]_ids
  OBVIOUS
<1>1. CASE UserCalls
  BY <1>1, SetreuidStep, SetresuidStep, SetuidStep, SetfsuidStep DEF UserCalls
<1>2. CASE GroupCalls
  BY <1>2, SetregidStep, SetresgidStep, SetgidStep DEF GroupCalls
<1>3. CASE CapCalls
  BY <1>3, CapsetStep DEF CapCalls
<1>4. CASE UNCHANGED ids
  BY <1>4 DEF ids, IdsInv, IdsTypeOK, CountedForItsUser
<1> QED BY <1>1, <1>2, <1>3, <1>4 DEF IdsNext

(* sys.c:567: the swap of the real and the effective id that regains root. *)
LEMMA SwapWorks == IdsInv => SwapRegains
<1> SUFFICES ASSUME IdsInv, cred.euid = ROOT, cred.uid # ROOT PROVE SwapRegains
  BY DEF SwapRegains
<1> DEFINE swap(c) == fix_setuid(c, AfterSetreuid(c, c.euid, c.uid))
           once    == swap(cred)
           twice   == swap(once)
<1>1. cred \in Cred /\ KEEP \notin Uids /\ ROOT \in Uids
  BY KeepIsNoId, IdsAssumption DEF IdsInv, IdsTypeOK, IdsAssumption
<1>2. /\ once \in Cred /\ once.uid = ROOT /\ once.euid = cred.uid /\ once.suid = cred.uid
      /\ once.permitted = cred.permitted /\ once.effective = {}
  BY <1>1 DEF fix_setuid, AfterSetreuid, RealUids, Or, Given, Cred
<1> HIDE DEF once
<1>3. /\ twice.uid = cred.uid /\ twice.euid = ROOT /\ twice.suid = ROOT
      /\ twice.effective = cred.permitted
  BY <1>1, <1>2 DEF fix_setuid, AfterSetreuid, RealUids, Or, Given, Cred
<1> HIDE DEF twice
<1>4. RealUids(twice) \subseteq RealUids(cred)
  BY <1>3 DEF RealUids
<1>5. MaySetreuid(cred, cred.euid, cred.uid) /\ MaySetreuid(once, once.euid, once.uid)
  BY DEF MaySetreuid, RealUids
<1> QED BY <1>2, <1>3, <1>4, <1>5 DEF SwapRegains, once, twice

(* A task is counted for the user it is, can swap its way back to root,    *)
(* gets no id without a right to it, and drops its privileges completely   *)
(* and for good (setuid(2) and its kin, sys.c:349-878).                    *)
THEOREM Identity == IdsSpec => IdsHold
<1>1. IdsInv => IdsAlways
  BY SwapWorks DEF IdsInv, IdsAlways
<1>2. IdsSpec => []IdsInv /\ [][IdsStep]_ids
  BY IdsInitInv, IdsNextInv, PTL DEF IdsSpec
<1> QED BY <1>1, <1>2, PTL DEF IdsHold

(* The type invariant of the credentials.                                  *)
THEOREM IdsTyped == IdsSpec => []IdsTypeOK
<1>1. IdsInv => IdsTypeOK
  BY DEF IdsInv
<1> QED BY <1>1, IdsInitInv, IdsNextInv, PTL DEF IdsSpec

-----------------------------------------------------------------------------
(* Sessions and groups (TaskTree).  What is missing for induction is       *)
(* NumberInSession: a process and the group that has its number are in one *)
(* session, be the process in that group or not.  It is what lets a        *)
(* process start, or come back to, the group of its own number.            *)
Shape ==
  /\ tasks \subseteq Pids /\ leader \subseteq tasks
  /\ pgrp \in [Pids -> Pids] /\ session \in [Pids -> Pids]

NumberInSession == \A p, q \in tasks : pgrp[q] = p => session[q] = session[p]

TreeInv == Shape /\ GroupInOneSession /\ LeadersLead /\ NumberInSession

LeaderStays == \A p \in leader \cap leader' : session'[p] = session[p] /\ pgrp'[p] = pgrp[p]

LEMMA ForkStep ==
  ASSUME TreeInv, NEW p \in Pids, NEW c \in Pids, fork(p, c)
  PROVE  TreeInv' /\ LeaderStays
<1>1. /\ p \in tasks /\ c \notin tasks /\ \A q \in tasks : pgrp[q] # c /\ session[q] # c
      /\ tasks' = tasks \cup {c} /\ leader' = leader
      /\ pgrp' = [pgrp EXCEPT ![c] = pgrp[p]] /\ session' = [session EXCEPT ![c] = session[p]]
  BY DEF fork, Unused
<1>2. \A q \in tasks : pgrp'[q] = pgrp[q] /\ session'[q] = session[q]
  BY <1>1 DEF TreeInv, Shape
<1>3. pgrp'[c] = pgrp[p] /\ session'[c] = session[p]
  BY <1>1 DEF TreeInv, Shape
<1>4. Shape' /\ LeaderStays
  BY <1>1, <1>2 DEF TreeInv, Shape, LeaderStays
<1>5. GroupInOneSession'
  BY <1>1, <1>2, <1>3 DEF TreeInv, GroupInOneSession, getpgid, getsid
<1>6. LeadersLead'
  BY <1>1, <1>2, <1>3 DEF TreeInv, Shape, LeadersLead, getpgid, getsid
<1>7. NumberInSession'
  BY <1>1, <1>2, <1>3 DEF TreeInv, NumberInSession
<1> QED BY <1>4, <1>5, <1>6, <1>7 DEF TreeInv

LEMMA ExitStep ==
  ASSUME TreeInv, NEW p \in Pids, exit(p)
  PROVE  TreeInv' /\ LeaderStays
<1>1. /\ tasks' = tasks \ {p} /\ leader' = leader \ {p}
      /\ pgrp' = [pgrp EXCEPT ![p] = p] /\ session' = [session EXCEPT ![p] = p]
  BY DEF exit
<1>2. \A q \in tasks' : pgrp'[q] = pgrp[q] /\ session'[q] = session[q]
  BY <1>1 DEF TreeInv, Shape
<1>3. Shape' /\ LeaderStays
  BY <1>1, <1>2 DEF TreeInv, Shape, LeaderStays
<1> QED
  BY <1>1, <1>2, <1>3 DEF TreeInv, GroupInOneSession, LeadersLead, getpgid, getsid, NumberInSession

LEMMA SetpgidStep ==
  ASSUME TreeInv, NEW current \in Pids, NEW pid \in Pids, NEW pgid \in Pids,
         setpgid(current, pid, pgid)
  PROVE  TreeInv' /\ LeaderStays
<1>1. /\ current \in tasks /\ pid \in tasks /\ pid \notin leader
      /\ session[pid] = session[current]
      /\ pgid # pid => \E g \in tasks : pgrp[g] = pgid /\ session[g] = session[current]
      /\ tasks' = tasks /\ leader' = leader /\ session' = session
      /\ pgrp' = [pgrp EXCEPT ![pid] = pgid]
  BY DEF setpgid, Members
<1>2. pgrp'[pid] = pgid /\ \A q \in tasks \ {pid} : pgrp'[q] = pgrp[q]
  BY <1>1 DEF TreeInv, Shape
<1>3. Shape' /\ LeaderStays
  BY <1>1, <1>2 DEF TreeInv, Shape, LeaderStays
<1>4. \A q \in tasks : pgrp[q] = pgid => session[q] = session[pid]
  BY <1>1 DEF TreeInv, GroupInOneSession, getpgid, getsid, NumberInSession
<1>5. GroupInOneSession'
  BY <1>1, <1>2, <1>4 DEF TreeInv, GroupInOneSession, getpgid, getsid
<1>6. pgid \in tasks => session[pgid] = session[pid]
  BY <1>1 DEF TreeInv, NumberInSession
<1>7. NumberInSession'
  BY <1>1, <1>2, <1>6 DEF TreeInv, NumberInSession
<1>8. LeadersLead'
  BY <1>1, <1>2 DEF TreeInv, LeadersLead, getpgid, getsid
<1> QED BY <1>3, <1>5, <1>7, <1>8 DEF TreeInv

LEMMA SetsidStep ==
  ASSUME TreeInv, NEW current \in Pids, setsid(current)
  PROVE  TreeInv' /\ LeaderStays
<1>1. /\ current \in tasks /\ current \notin leader
      /\ \A q \in tasks : pgrp[q] # current
      /\ tasks' = tasks /\ leader' = leader \cup {current}
      /\ session' = [session EXCEPT ![current] = current]
      /\ pgrp' = [pgrp EXCEPT ![current] = current]
  BY DEF setsid, Members
<1>2. /\ pgrp'[current] = current /\ session'[current] = current
      /\ \A q \in tasks \ {current} : pgrp'[q] = pgrp[q] /\ session'[q] = session[q]
  BY <1>1 DEF TreeInv, Shape
<1>3. Shape' /\ LeaderStays
  BY <1>1, <1>2 DEF TreeInv, Shape, LeaderStays
<1>4. GroupInOneSession' /\ LeadersLead'
  BY <1>1, <1>2 DEF TreeInv, GroupInOneSession, LeadersLead, getpgid, getsid
<1>5. NumberInSession'
  BY <1>1, <1>2 DEF TreeInv, NumberInSession
<1> QED BY <1>3, <1>4, <1>5 DEF TreeInv

LEMMA TreeInitInv == TreeInit => TreeInv
BY PidsAssumption DEF PidsAssumption, TreeInit, TreeInv, Shape, GroupInOneSession,
     LeadersLead, getpgid, getsid,
                      NumberInSession

LEMMA TreeNextInv == TreeInv /\ [TreeNext]_tree => TreeInv' /\ [LeaderStays]_tree
<1> SUFFICES ASSUME TreeInv, [TreeNext]_tree PROVE TreeInv' /\ [LeaderStays]_tree
  OBVIOUS
<1>1. ASSUME UNCHANGED <<tasks, pgrp, session, leader>>
      PROVE  TreeInv' /\ LeaderStays
  BY <1>1 DEF TreeInv, Shape, GroupInOneSession, LeadersLead, getpgid, getsid,
       NumberInSession, LeaderStays
<1>2. CASE UNCHANGED tree
  BY <1>1, <1>2 DEF tree, groups
<1>3. ASSUME NEW p \in Pids, execve(p) \/ walk_process_tree(p)
      PROVE  TreeInv' /\ LeaderStays
  BY <1>1, <1>3 DEF execve, walk_process_tree, groups
<1>4. ASSUME NEW p \in Pids, NEW on \in BOOLEAN, set_child_subreaper(p, on)
      PROVE  TreeInv' /\ LeaderStays
  BY <1>1, <1>4 DEF set_child_subreaper, groups
<1> QED
  BY <1>2, <1>3, <1>4, ForkStep, ExitStep, SetpgidStep, SetsidStep DEF TreeNext

(* A process group never comes to lie in two sessions (setpgid, setsid and *)
(* fork, sys.c:976-1165).                                                  *)
THEOREM OneSession == TreeSpec => []GroupInOneSession
<1>1. TreeInv => GroupInOneSession
  BY DEF TreeInv
<1> QED BY <1>1, TreeInitInv, TreeNextInv, PTL DEF TreeSpec

(* The leader of a session leads a group in it that has its number.        *)
THEOREM Leaders == TreeSpec => []LeadersLead
<1>1. TreeInv => LeadersLead
  BY DEF TreeInv
<1> QED BY <1>1, TreeInitInv, TreeNextInv, PTL DEF TreeSpec

(* The leader of a session stays in it, and in its group.                  *)
THEOREM LeadersKeepIt == TreeSpec => LeadersStay
<1>1. TreeSpec => [][LeaderStays]_tree
  BY TreeInitInv, TreeNextInv, PTL DEF TreeSpec
<1> QED BY <1>1 DEF LeadersStay, LeaderStays

-----------------------------------------------------------------------------
(* Subreapers (TaskTree).  Processes are a tree below child_reaper: each   *)
(* is deeper than its parent.  And a process has has_child_subreaper as    *)
(* soon as its parent has it, or is a subreaper that has done its walk;    *)
(* what SubreaperIsFound says of all descendants follows step by step.     *)
Places ==
  /\ child_reaper \in tasks /\ child_reaper \notin has_child_subreaper
  /\ tasks \subseteq Pids /\ real_parent \in [Pids -> Pids]
  /\ forknoexec \subseteq tasks /\ is_child_subreaper \subseteq tasks
  /\ has_child_subreaper \subseteq tasks /\ walking \subseteq tasks

Deeper(depth) ==
  /\ depth \in [Pids -> Nat] /\ depth[child_reaper] = 0
  /\ \A c \in tasks \ {child_reaper} :
       real_parent[c] \in tasks /\ depth[real_parent[c]] < depth[c]

Passed ==
  \A p \in has_child_subreaper \cup (is_child_subreaper \ walking) :
    Children(p) \subseteq has_child_subreaper

Offspring == Places /\ (\E depth : Deeper(depth)) /\ Passed

(* The rounds of a walk, for the processes Next[c] it goes to from each c. *)
Rounds(r, first, Next_) ==
  /\ r \in [0..Cardinality(Pids) -> SUBSET Pids] /\ r[0] = first
  /\ \A i \in 1..Cardinality(Pids) : r[i] = r[i - 1] \cup UNION {Next_[c] : c \in r[i - 1]}

LEMMA PidsCount == Cardinality(Pids) \in Nat
BY PidsAssumption, FS_CardinalityType DEF PidsAssumption

LEMMA RoundsExist ==
  ASSUME NEW to \in [Pids -> SUBSET Pids], NEW first \in SUBSET Pids
  PROVE  \E r : Rounds(r, first, to)
<1> DEFINE N == Cardinality(Pids)
           on == [X \in SUBSET Pids |-> X \cup UNION {to[c] : c \in X}]
           way == [i \in 1..N |-> on]
<1>1. on \in [SUBSET Pids -> SUBSET Pids]
  OBVIOUS
<1>2. way \in Ways(N, SUBSET Pids) /\ N \in Nat
  BY <1>1, PidsCount DEF Ways
<1>3. PICK r : Follows(r, N, SUBSET Pids, first, way)
  BY <1>2, StepByStep
<1>4. \A i \in 1..N : r[i - 1] \in SUBSET Pids
  BY <1>2, <1>3 DEF Follows
<1>5. \A i \in 1..N : r[i] = r[i - 1] \cup UNION {to[c] : c \in r[i - 1]}
  BY <1>3, <1>4 DEF Follows
<1> QED BY <1>3, <1>5 DEF Follows, Rounds

(* A walk stays within what its steps do not lead out of.                  *)
LEMMA RoundsWithin ==
  ASSUME NEW to \in [Pids -> SUBSET Pids], NEW first, NEW r, Rounds(r, first, to),
         NEW S, first \subseteq S, \A c \in S \cap Pids : to[c] \subseteq S
  PROVE  r[Cardinality(Pids)] \subseteq S
<1> DEFINE N == Cardinality(Pids)
           T == {i \in 0..N : r[i] \subseteq S}
<1>0. N \in Nat
  BY PidsCount
<1>1. 0 \in T
  BY <1>0 DEF Rounds
<1>2. ASSUME NEW i \in 0..(N - 1), i \in T PROVE i + 1 \in T
  <2>1. i + 1 \in 1..N /\ i + 1 \in 0..N /\ i + 1 - 1 = i /\ i \in 0..N
    BY <1>0
  <2>2. r[i + 1] = r[i] \cup UNION {to[c] : c \in r[i]} /\ r[i] \in SUBSET Pids
    BY <2>1 DEF Rounds
  <2>3. \A c \in r[i] : to[c] \subseteq S
    BY <1>2, <2>2
  <2> QED BY <1>2, <2>1, <2>2, <2>3
<1> HIDE DEF T
<1>3. \A i \in 0..N : i \in T
  BY <1>0, <1>1, <1>2, UpTo
<1> QED BY <1>0, <1>3 DEF T

(* After as many rounds as there are processes there is nowhere to go on.  *)
LEMMA RoundsAreEnough ==
  ASSUME NEW to \in [Pids -> SUBSET Pids], NEW first, NEW r, Rounds(r, first, to)
  PROVE  /\ first \subseteq r[Cardinality(Pids)]
         /\ \A c \in r[Cardinality(Pids)] : to[c] \subseteq r[Cardinality(Pids)]
<1> DEFINE N == Cardinality(Pids)
           Closed(X) == \A c \in X : to[c] \subseteq X
           T == {i \in 0..N : first \subseteq r[i] /\ (Closed(r[i]) \/ Cardinality(r[i]) >= i)}
<1>0. N \in Nat /\ IsFiniteSet(Pids)
  BY PidsCount, PidsAssumption DEF PidsAssumption
<1>1. \A X \in SUBSET Pids : IsFiniteSet(X) /\ Cardinality(X) \in Nat
  BY <1>0, FS_Subset, FS_CardinalityType
<1>2. \A i \in 0..N : r[i] \in SUBSET Pids
  BY DEF Rounds
<1>3. 0 \in T
  <2>1. r[0] = first /\ 0 \in 0..N
    BY <1>0 DEF Rounds
  <2>2. Cardinality(r[0]) >= 0
    BY <1>1, <1>2, <2>1
  <2> QED BY <2>1, <2>2
<1>4. ASSUME NEW i \in 0..(N - 1), i \in T PROVE i + 1 \in T
  <2>1. i + 1 \in 1..N /\ i + 1 \in 0..N /\ i + 1 - 1 = i /\ i \in 0..N
    BY <1>0
  <2> DEFINE A == r[i]   B == r[i + 1]
  <2>2. B = A \cup UNION {to[c] : c \in A} /\ A \in SUBSET Pids /\ B \in SUBSET Pids
    BY <1>2, <2>1 DEF Rounds
  <2>3. first \subseteq A /\ (Closed(A) \/ Cardinality(A) >= i)
    BY <1>4
  <2> HIDE DEF A, B
  <2>4. first \subseteq B
    BY <2>2, <2>3
  <2>5. CASE Closed(A)
    <3>1. B = A
      BY <2>2, <2>5
    <3> QED BY <2>1, <2>4, <2>5, <3>1 DEF B
  <2>6. CASE ~Closed(A)
    <3>1. A # B /\ A \in SUBSET B
      BY <2>2, <2>6
    <3>2. IsFiniteSet(B) /\ Cardinality(A) \in Nat /\ Cardinality(B) \in Nat
      BY <1>1, <2>2
    <3>3. Cardinality(A) <= Cardinality(B) /\ Cardinality(B) # Cardinality(A)
      BY <3>1, <3>2, FS_Subset
    <3>4. Cardinality(B) >= i + 1
      BY <2>1, <2>3, <2>6, <3>2, <3>3
    <3> QED BY <2>1, <2>4, <3>4 DEF B
  <2> QED BY <2>5, <2>6
<1> HIDE DEF T
<1>5. \A i \in 0..N : i \in T
  BY <1>0, <1>3, <1>4, UpTo
<1>6. first \subseteq r[N] /\ (Closed(r[N]) \/ Cardinality(r[N]) >= N) /\ r[N] \in SUBSET Pids
  BY <1>0, <1>2, <1>5 DEF T
<1>7. CASE Cardinality(r[N]) >= N
  <2>1. Cardinality(r[N]) <= N /\ Cardinality(r[N]) \in Nat
    BY <1>0, <1>1, <1>6, FS_Subset
  <2>2. Cardinality(Pids) = Cardinality(r[N])
    BY <1>0, <1>7, <2>1
  <2>3. r[N] = Pids
    BY <1>0, <1>6, <2>2, FS_Subset
  <2> QED BY <1>6, <2>3
<1> QED BY <1>6, <1>7

LEMMA DescendantsRounds ==
  ASSUME tasks \subseteq Pids, NEW p \in Pids
  PROVE  \E r : Rounds(r, Children(p), [c \in Pids |-> Children(c)])
                /\ r[Cardinality(Pids)] = Descendants(p)
<1> DEFINE N == Cardinality(Pids)
           to == [c \in Pids |-> Children(c)]
           it == CHOOSE f : f = [n \in 0..N |-> IF n = 0 THEN Children(p)
                                 ELSE f[n - 1] \cup UNION {Children(c) : c \in f[n - 1]}]
<1>1. Descendants(p) = it[N]
  BY Zenon DEF Descendants, Walk
<1>2. to \in [Pids -> SUBSET Pids] /\ Children(p) \in SUBSET Pids
  BY DEF Children
<1>3. PICK r : Rounds(r, Children(p), to)
  BY <1>2, RoundsExist
<1>4. \A i \in 1..N : r[i - 1] \in SUBSET Pids /\
        r[i] = r[i - 1] \cup UNION {to[c] : c \in r[i - 1]}
  BY <1>3, PidsCount DEF Rounds
<1>5. \A i \in 1..N : r[i] = r[i - 1] \cup UNION {Children(c) : c \in r[i - 1]}
  <2>1. \A c \in Pids : to[c] = Children(c)
    OBVIOUS
  <2> HIDE DEF to
  <2>2. \A X \in SUBSET Pids : UNION {to[c] : c \in X} = UNION {Children(c) : c \in X}
    BY <2>1
  <2> QED BY <1>4, <2>2
<1>6. r = [n \in 0..N |-> IF n = 0 THEN Children(p)
                          ELSE r[n - 1] \cup UNION {Children(c) : c \in r[n - 1]}]
  BY <1>3, <1>5, PidsCount DEF Rounds
<1>7. it = [n \in 0..N |-> IF n = 0 THEN Children(p)
                           ELSE it[n - 1] \cup UNION {Children(c) : c \in it[n - 1]}]
  BY <1>6, Zenon
<1> HIDE DEF it, to
<1> DEFINE Round(X) == X \cup UNION {Children(c) : c \in X}
<1>12. \A i \in 1..N : it[i] = Round(it[i - 1]) /\ r[i] = Round(r[i - 1])
  <2> TAKE i \in 1..N
  <2>1. i \in 0..N /\ i # 0
    BY PidsCount
  <2>2. it[i] = Round(it[i - 1])
    BY <1>7, <2>1
  <2> QED BY <1>5, <2>2
<1> HIDE DEF Round
<1> DEFINE T == {i \in 0..N : it[i] = r[i]}
<1>8. 0 \in T
  BY <1>6, <1>7, PidsCount
<1>9. ASSUME NEW i \in 0..(N - 1), i \in T PROVE i + 1 \in T
  <2>1. i + 1 \in 1..N /\ i + 1 \in 0..N /\ i + 1 - 1 = i /\ it[i] = r[i]
    BY <1>9, PidsCount
  <2>2. it[i + 1] = Round(it[i]) /\ r[i + 1] = Round(r[i])
    BY <1>12, <2>1
  <2> QED BY <2>1, <2>2
<1> HIDE DEF T
<1>10. \A i \in 0..N : i \in T
  BY <1>8, <1>9, PidsCount, UpTo
<1>11. it[N] = r[N]
  BY <1>10, PidsCount DEF T
<1> QED BY <1>1, <1>3, <1>11 DEF to

LEMMA UnflaggedRounds ==
  ASSUME tasks \subseteq Pids, NEW p \in Pids
  PROVE  \E r : Rounds(r, Unflagged(p), [c \in Pids |-> Unflagged(c)])
                /\ r[Cardinality(Pids)] = Walk(p, Unflagged)
<1> DEFINE N == Cardinality(Pids)
           to == [c \in Pids |-> Unflagged(c)]
           it == CHOOSE f : f = [n \in 0..N |-> IF n = 0 THEN Unflagged(p)
                                 ELSE f[n - 1] \cup UNION {Unflagged(c) : c \in f[n - 1]}]
<1>1. Walk(p, Unflagged) = it[N]
  BY Zenon DEF Walk
<1>2. to \in [Pids -> SUBSET Pids] /\ Unflagged(p) \in SUBSET Pids
  BY DEF Unflagged, Children
<1>3. PICK r : Rounds(r, Unflagged(p), to)
  BY <1>2, RoundsExist
<1>4. \A i \in 1..N : r[i - 1] \in SUBSET Pids /\
        r[i] = r[i - 1] \cup UNION {to[c] : c \in r[i - 1]}
  BY <1>3, PidsCount DEF Rounds
<1>5. \A i \in 1..N : r[i] = r[i - 1] \cup UNION {Unflagged(c) : c \in r[i - 1]}
  <2>1. \A c \in Pids : to[c] = Unflagged(c)
    OBVIOUS
  <2> HIDE DEF to
  <2>2. \A X \in SUBSET Pids : UNION {to[c] : c \in X} = UNION {Unflagged(c) : c \in X}
    BY <2>1
  <2> QED BY <1>4, <2>2
<1>6. r = [n \in 0..N |-> IF n = 0 THEN Unflagged(p)
                          ELSE r[n - 1] \cup UNION {Unflagged(c) : c \in r[n - 1]}]
  BY <1>3, <1>5, PidsCount DEF Rounds
<1>7. it = [n \in 0..N |-> IF n = 0 THEN Unflagged(p)
                           ELSE it[n - 1] \cup UNION {Unflagged(c) : c \in it[n - 1]}]
  BY <1>6, Zenon
<1> HIDE DEF it, to
<1> DEFINE Round(X) == X \cup UNION {Unflagged(c) : c \in X}
<1>12. \A i \in 1..N : it[i] = Round(it[i - 1]) /\ r[i] = Round(r[i - 1])
  <2> TAKE i \in 1..N
  <2>1. i \in 0..N /\ i # 0
    BY PidsCount
  <2>2. it[i] = Round(it[i - 1])
    BY <1>7, <2>1
  <2> QED BY <1>5, <2>2
<1> HIDE DEF Round
<1> DEFINE T == {i \in 0..N : it[i] = r[i]}
<1>8. 0 \in T
  BY <1>6, <1>7, PidsCount
<1>9. ASSUME NEW i \in 0..(N - 1), i \in T PROVE i + 1 \in T
  <2>1. i + 1 \in 1..N /\ i + 1 \in 0..N /\ i + 1 - 1 = i /\ it[i] = r[i]
    BY <1>9, PidsCount
  <2>2. it[i + 1] = Round(it[i]) /\ r[i + 1] = Round(r[i])
    BY <1>12, <2>1
  <2> QED BY <2>1, <2>2
<1> HIDE DEF T
<1>10. \A i \in 0..N : i \in T
  BY <1>8, <1>9, PidsCount, UpTo
<1>11. it[N] = r[N]
  BY <1>10, PidsCount DEF T
<1> QED BY <1>1, <1>3, <1>11 DEF to

(* All descendants are where each child is.                                *)
LEMMA DescendantsWithin ==
  ASSUME tasks \subseteq Pids, NEW p \in Pids, NEW S,
         Children(p) \subseteq S, \A c \in S : Children(c) \subseteq S
  PROVE  Descendants(p) \subseteq S
<1> DEFINE to == [c \in Pids |-> Children(c)]
<1>1. to \in [Pids -> SUBSET Pids] /\ \A c \in S \cap Pids : to[c] \subseteq S
  BY DEF Children
<1>2. PICK r : Rounds(r, Children(p), to) /\ r[Cardinality(Pids)] = Descendants(p)
  BY DescendantsRounds
<1> HIDE DEF to
<1> QED BY <1>1, <1>2, RoundsWithin

(* Descendants are deeper.                                                 *)
LEMMA DescendantsAreDeeper ==
  ASSUME Places, NEW depth, Deeper(depth), NEW p \in tasks, NEW q \in Descendants(p)
  PROVE  q \in tasks /\ depth[p] < depth[q]
<1> DEFINE S == {c \in tasks : depth[p] < depth[c]}
<1>1. \A c \in tasks : depth[c] \in Nat
  BY DEF Places, Deeper
<1>2. Children(p) \subseteq S
  BY DEF Deeper, Children
<1>3. \A c \in S : Children(c) \subseteq S
  BY <1>1 DEF Deeper, Children
<1>4. p \in Pids /\ tasks \subseteq Pids
  BY DEF Places
<1> HIDE DEF S
<1>5. Descendants(p) \subseteq S
  BY <1>2, <1>3, <1>4, DescendantsWithin
<1> QED BY <1>5 DEF S

(* The walk of prctl leaves nobody out that has the flag above it.         *)
LEMMA WalkIsClosed ==
  ASSUME Places, NEW p \in tasks
  PROVE  LET reached == Walk(p, Unflagged) IN
         /\ Children(p) \subseteq has_child_subreaper \cup reached
         /\ \A c \in reached : Children(c) \subseteq has_child_subreaper \cup reached
         /\ reached \subseteq tasks \ {child_reaper}
<1> DEFINE to == [c \in Pids |-> Unflagged(c)]
           reached == Walk(p, Unflagged)
<1>1. to \in [Pids -> SUBSET Pids] /\ p \in Pids /\ tasks \subseteq Pids
  BY DEF Unflagged, Children, Places
<1>2. PICK r : Rounds(r, Unflagged(p), to) /\ r[Cardinality(Pids)] = reached
  BY <1>1, UnflaggedRounds
<1> HIDE DEF reached
<1>3. \A c \in Pids : to[c] = Unflagged(c)
  OBVIOUS
<1> HIDE DEF to
<1>4. Unflagged(p) \subseteq reached /\ \A c \in reached : to[c] \subseteq reached
  BY <1>1, <1>2, RoundsAreEnough
<1> DEFINE S == tasks \ {child_reaper}
<1>5. Unflagged(p) \subseteq S /\ \A c \in S \cap Pids : to[c] \subseteq S
  BY <1>3 DEF Unflagged, Children
<1>6. reached \subseteq S
  BY <1>1, <1>2, <1>5, RoundsWithin
<1>7. \A c \in reached : Unflagged(c) \subseteq reached
  BY <1>1, <1>3, <1>4, <1>6
<1>8. /\ Children(p) \subseteq has_child_subreaper \cup reached
      /\ \A c \in reached : Children(c) \subseteq has_child_subreaper \cup reached
  BY <1>4, <1>7 DEF Unflagged
<1> QED BY <1>6, <1>8 DEF reached

(* The one that takes over the children of p is above p, or child_reaper.  *)
LEMMA NewReaperFacts ==
  ASSUME Places, NEW depth, Deeper(depth), NEW p \in tasks
  PROVE  /\ NewReaper(p) \in tasks
         /\ NewReaper(p) # child_reaper => depth[NewReaper(p)] < depth[p]
         /\ NewReaper(p) # child_reaper => p \in has_child_subreaper
<1> DEFINE above == {a \in is_child_subreaper : p \in Descendants(a)}
<1>1. CASE p \notin has_child_subreaper \/ above = {}
  BY <1>1 DEF NewReaper, Places
<1>2. CASE ~(p \notin has_child_subreaper \/ above = {})
  <2>1. \A a \in above : a \in tasks /\ depth[a] < depth[p] /\ depth[a] \in Nat
    BY DescendantsAreDeeper DEF Places, Deeper
  <2>2. depth[p] \in Nat
    BY DEF Places, Deeper
  <2> DEFINE T == {depth[p] - depth[a] : a \in above}
  <2> HIDE DEF above
  <2>3. T \in SUBSET Nat /\ T # {}
    BY <1>2, <2>1, <2>2
  <2>4. PICK m \in T : \A k \in T : m <= k
    BY <2>3, LeastNumber
  <2>5. PICK a \in above : m = depth[p] - depth[a]
    BY <2>4
  <2>6. \A b \in above : depth[b] <= depth[a]
    <3> TAKE b \in above
    <3>1. depth[p] - depth[b] \in T
      OBVIOUS
    <3> QED BY <2>1, <2>2, <2>4, <2>5, <3>1
  <2>7. \A b \in above : b \notin Descendants(a)
    BY <2>1, <2>6, DescendantsAreDeeper
  <2>8. above \cap Descendants(a) = {}
    BY <2>7
  <2>9. NewReaper(p) \in above
    <3>1. NewReaper(p) = CHOOSE b \in above : above \cap Descendants(b) = {}
      BY <1>2 DEF NewReaper, above
    <3> QED BY <2>8, <3>1
  <2> QED BY <1>2, <2>1, <2>9
<1> QED BY <1>1, <1>2

(* When child_reaper is a subreaper that has done its walk, all have the   *)
(* flag.                                                                   *)
LEMMA RootReaps ==
  ASSUME Offspring, child_reaper \in is_child_subreaper \ walking
  PROVE  tasks \ {child_reaper} \subseteq has_child_subreaper
<1>1. PICK depth : Deeper(depth)
  BY DEF Offspring
<1> DEFINE Out == (tasks \ {child_reaper}) \ has_child_subreaper
           T == {depth[c] : c \in Out}
<1>2. \A c \in tasks : depth[c] \in Nat
  BY <1>1 DEF Offspring, Places, Deeper
<1> SUFFICES ASSUME Out # {} PROVE FALSE
  OBVIOUS
<1>3. T \in SUBSET Nat /\ T # {}
  BY <1>2
<1>4. PICK m \in T : \A k \in T : m <= k
  BY <1>3, LeastNumber
<1>5. PICK c \in Out : m = depth[c]
  BY <1>4
<1>6. real_parent[c] \in tasks /\ depth[real_parent[c]] < depth[c] /\ c \in Children(real_parent[c])
  BY <1>1, <1>5 DEF Deeper, Children
<1>7. real_parent[c] \notin Out
  <2>1. \A b \in Out : depth[c] <= depth[b]
    BY <1>4, <1>5
  <2> QED BY <1>2, <1>6, <2>1
<1>8. Children(real_parent[c]) \subseteq has_child_subreaper
  BY <1>6, <1>7 DEF Offspring, Passed
<1> QED BY <1>5, <1>6, <1>8

LEMMA OffspringInit == TreeInit => Offspring
<1> SUFFICES ASSUME TreeInit PROVE Offspring
  OBVIOUS
<1>1. Places
  BY PidsAssumption DEF PidsAssumption, TreeInit, Places
<1>2. PICK depth : depth = [p \in Pids |-> 0]
  OBVIOUS
<1>3. Deeper(depth)
  BY <1>2, PidsAssumption DEF PidsAssumption, TreeInit, Deeper
<1>4. Passed
  BY DEF TreeInit, Passed
<1> QED BY <1>1, <1>3, <1>4 DEF Offspring

(* Most calls leave the tree and the flags as they are.                    *)
LEMMA SameOffspring ==
  ASSUME Offspring, UNCHANGED <<tasks, real_parent, reapers>>, forknoexec' \subseteq tasks
  PROVE  Offspring'
<1>1. Places'
  BY DEF Offspring, Places, reapers
<1>2. PICK depth : Deeper(depth)
  BY DEF Offspring
<1>3. Deeper(depth)'
  BY <1>2 DEF Deeper
<1>4. Passed'
  BY DEF Offspring, Passed, Children, reapers
<1> QED BY <1>1, <1>3, <1>4 DEF Offspring

LEMMA ForkOffspring ==
  ASSUME Offspring, NEW p \in Pids, NEW c \in Pids, fork(p, c)
  PROVE  Offspring'
<1>1. /\ p \in tasks /\ c \notin tasks /\ tasks' = tasks \cup {c}
      /\ real_parent' = [real_parent EXCEPT ![c] = p] /\ forknoexec' = forknoexec \cup {c}
      /\ has_child_subreaper' = IF p \in is_child_subreaper \cup has_child_subreaper
                                THEN has_child_subreaper \cup {c} ELSE has_child_subreaper
      /\ UNCHANGED <<is_child_subreaper, walking>>
  BY DEF fork, Unused
<1>2. c # child_reaper /\ child_reaper \in tasks
  BY <1>1 DEF Offspring, Places
<1>3. Places'
  BY <1>1, <1>2 DEF Offspring, Places
<1>4. PICK depth : Deeper(depth)
  BY DEF Offspring
<1>5. real_parent'[c] = p /\ \A q \in tasks : real_parent'[q] = real_parent[q]
  BY <1>1 DEF Offspring, Places
<1>6. PICK below : below = [depth EXCEPT ![c] = depth[p] + 1]
  OBVIOUS
<1>7. /\ depth[p] \in Nat /\ below \in [Pids -> Nat] /\ below[c] = depth[p] + 1
      /\ \A q \in tasks : below[q] = depth[q]
  BY <1>1, <1>4, <1>6 DEF Deeper, Offspring, Places
<1>8. Deeper(below)'
  <2>1. below[child_reaper] = 0
    BY <1>2, <1>4, <1>7 DEF Deeper
  <2>2. ASSUME NEW q \in tasks' \ {child_reaper}
        PROVE  real_parent'[q] \in tasks' /\ below[real_parent'[q]] < below[q]
    <3>1. CASE q = c
      BY <1>1, <1>5, <1>7, <3>1
    <3>2. CASE q # c
      <4>1. q \in tasks \ {child_reaper} /\ real_parent'[q] = real_parent[q]
        BY <1>1, <1>5, <3>2
      <4>2. real_parent[q] \in tasks /\ depth[real_parent[q]] < depth[q]
        BY <1>4, <4>1 DEF Deeper
      <4> QED BY <1>1, <1>7, <4>1, <4>2
    <3> QED BY <3>1, <3>2
  <2> QED BY <1>7, <2>1, <2>2 DEF Deeper
<1>9. Passed'
  <2> SUFFICES ASSUME NEW q, q \in has_child_subreaper' \cup (is_child_subreaper' \ walking'),
                      NEW d \in Children(q)'
               PROVE  d \in has_child_subreaper'
    BY DEF Passed
  <2>1. d \in tasks' \ {child_reaper} /\ real_parent'[d] = q
    BY DEF Children
  <2>2. CASE d = c
    <3>1. p = q
      BY <1>5, <2>1, <2>2
    <3>2. p \in is_child_subreaper \cup has_child_subreaper
      BY <1>1, <3>1
    <3> QED BY <1>1, <2>2, <3>2
  <2>3. CASE d # c
    <3>1. d \in Children(q) /\ q \in tasks
      BY <1>1, <1>4, <1>5, <2>1, <2>3 DEF Children, Deeper
    <3>2. q \in has_child_subreaper \cup (is_child_subreaper \ walking)
      BY <1>1, <3>1
    <3> QED BY <1>1, <3>1, <3>2 DEF Offspring, Passed
  <2> QED BY <2>2, <2>3
<1> QED BY <1>3, <1>8, <1>9 DEF Offspring

LEMMA ExitOffspring ==
  ASSUME Offspring, NEW p \in Pids, exit(p)
  PROVE  Offspring'
<1> DEFINE heir == NewReaper(p)
<1>1. /\ p \in tasks \ {child_reaper} /\ tasks' = tasks \ {p}
      /\ real_parent' = [c \in Pids |-> IF c \in Children(p) THEN heir
                                        ELSE IF c = p THEN child_reaper ELSE real_parent[c]]
      /\ forknoexec' = forknoexec \ {p} /\ is_child_subreaper' = is_child_subreaper \ {p}
      /\ has_child_subreaper' = has_child_subreaper \ {p} /\ walking' = walking \ {p}
  BY DEF exit
<1>2. PICK depth : Deeper(depth)
  BY DEF Offspring
<1>3. /\ heir \in tasks
      /\ heir # child_reaper => depth[heir] < depth[p]
      /\ heir # child_reaper => p \in has_child_subreaper
  BY <1>1, <1>2, NewReaperFacts DEF Offspring
<1> HIDE DEF heir
<1>4. \A c \in tasks : depth[c] \in Nat
  BY <1>2 DEF Deeper, Offspring, Places
<1>5. heir # p
  BY <1>1, <1>3, <1>4
<1>6. Places'
  BY <1>1, <1>3, PidsAssumption DEF Offspring, Places, PidsAssumption
<1>7. \A c \in tasks' \ {child_reaper} :
        /\ c \in tasks /\ c # p /\ c # child_reaper
        /\ c \in Children(p) => real_parent'[c] = heir
        /\ c \notin Children(p) => real_parent'[c] = real_parent[c] /\ real_parent[c] # p
  BY <1>1 DEF Children, Offspring, Places
<1>8. Deeper(depth)'
  <2>1. ASSUME NEW c \in tasks' \ {child_reaper}
        PROVE  real_parent'[c] \in tasks' /\ depth[real_parent'[c]] < depth[c]
    <3>1. real_parent[c] \in tasks /\ depth[real_parent[c]] < depth[c]
      BY <1>2, <1>7 DEF Deeper
    <3>2. CASE c \in Children(p)
      <4>1. real_parent'[c] = heir /\ real_parent[c] = p
        BY <1>7, <3>2 DEF Children
      <4>2. depth[heir] < depth[c]
        <5>1. CASE heir = child_reaper
          BY <1>2, <1>4, <1>7, <3>1, <5>1 DEF Deeper
        <5>2. CASE heir # child_reaper
          <6>1. depth[heir] \in Nat /\ depth[p] \in Nat /\ depth[c] \in Nat
            BY <1>1, <1>3, <1>4, <1>7
          <6>2. depth[heir] < depth[p] /\ depth[p] < depth[c]
            BY <1>3, <3>1, <4>1, <5>2
          <6> QED BY <6>1, <6>2
        <5> QED BY <5>1, <5>2
      <4> QED BY <1>1, <1>3, <1>5, <4>1, <4>2
    <3>3. CASE c \notin Children(p)
      BY <1>1, <1>7, <3>1, <3>3
    <3> QED BY <3>2, <3>3
  <2> QED BY <1>2, <2>1 DEF Deeper
<1>9. Passed'
  <2> SUFFICES ASSUME NEW q, q \in has_child_subreaper' \cup (is_child_subreaper' \ walking'),
                      NEW c \in Children(q)'
               PROVE  c \in has_child_subreaper'
    BY DEF Passed
  <2>1. c \in tasks' \ {child_reaper} /\ real_parent'[c] = q
    BY DEF Children
  <2>2. q \in has_child_subreaper \cup (is_child_subreaper \ walking)
    BY <1>1
  <2>3. c \in has_child_subreaper
    <3>1. CASE c \in Children(p)
      <4>1. q = heir
        BY <1>7, <2>1, <3>1
      <4>2. p \in has_child_subreaper
        <5>1. CASE heir = child_reaper
          <6>1. child_reaper \in is_child_subreaper \ walking
            BY <2>2, <4>1, <5>1 DEF Offspring, Places
          <6> QED BY <1>1, <6>1, RootReaps
        <5>2. CASE heir # child_reaper
          BY <1>3, <5>2
        <5> QED BY <5>1, <5>2
      <4> QED BY <3>1, <4>2 DEF Offspring, Passed
    <3>2. CASE c \notin Children(p)
      <4>1. c \in Children(q)
        BY <1>7, <2>1, <3>2 DEF Children
      <4> QED BY <2>2, <4>1 DEF Offspring, Passed
    <3> QED BY <3>1, <3>2
  <2> QED BY <1>1, <1>7, <2>1, <2>3
<1> QED BY <1>6, <1>8, <1>9 DEF Offspring

LEMMA SubreaperOffspring ==
  ASSUME Offspring, NEW me \in Pids, NEW on \in BOOLEAN, set_child_subreaper(me, on)
  PROVE  Offspring'
<1>1. /\ me \in tasks \ walking
      /\ is_child_subreaper' = IF on THEN is_child_subreaper \cup {me}
                               ELSE is_child_subreaper \ {me}
      /\ walking' = IF on THEN walking \cup {me} ELSE walking
      /\ UNCHANGED <<tasks, real_parent, forknoexec, has_child_subreaper>>
  BY DEF set_child_subreaper
<1>2. Places'
  BY <1>1 DEF Offspring, Places
<1>3. PICK depth : Deeper(depth)
  BY DEF Offspring
<1>4. Deeper(depth)'
  BY <1>1, <1>3 DEF Deeper
<1>5. is_child_subreaper' \ walking' \subseteq is_child_subreaper \ walking
  BY <1>1
<1>6. Passed'
  BY <1>1, <1>5 DEF Offspring, Passed, Children
<1> QED BY <1>2, <1>4, <1>6 DEF Offspring

LEMMA WalkOffspring ==
  ASSUME Offspring, NEW me \in Pids, walk_process_tree(me)
  PROVE  Offspring'
<1> DEFINE reached == Walk(me, Unflagged)
<1>1. /\ me \in walking /\ has_child_subreaper' = has_child_subreaper \cup reached
      /\ walking' = walking \ {me}
      /\ UNCHANGED <<tasks, real_parent, forknoexec, is_child_subreaper>>
  BY DEF walk_process_tree
<1>2. /\ Children(me) \subseteq has_child_subreaper \cup reached
      /\ \A c \in reached : Children(c) \subseteq has_child_subreaper \cup reached
      /\ reached \subseteq tasks \ {child_reaper}
  BY <1>1, WalkIsClosed DEF Offspring, Places
<1> HIDE DEF reached
<1>3. Places'
  BY <1>1, <1>2 DEF Offspring, Places
<1>4. PICK depth : Deeper(depth)
  BY DEF Offspring
<1>5. Deeper(depth)'
  BY <1>1, <1>4 DEF Deeper
<1>6. \A p : Children(p)' = Children(p)
  BY <1>1 DEF Children
<1>7. Passed'
  <2> SUFFICES ASSUME NEW p, p \in has_child_subreaper' \cup (is_child_subreaper' \ walking')
               PROVE  Children(p) \subseteq has_child_subreaper \cup reached
    BY <1>1, <1>6 DEF Passed
  <2>1. \/ p \in reached \/ p = me
        \/ p \in has_child_subreaper \cup (is_child_subreaper \ walking)
    BY <1>1
  <2> QED BY <1>2, <2>1 DEF Offspring, Passed
<1> QED BY <1>3, <1>5, <1>7 DEF Offspring

LEMMA OffspringNext == Offspring /\ [TreeNext]_tree => Offspring'
<1> SUFFICES ASSUME Offspring, [TreeNext]_tree PROVE Offspring'
  OBVIOUS
<1>0. forknoexec \subseteq tasks
  BY DEF Offspring, Places
<1>1. CASE UNCHANGED tree
  BY <1>0, <1>1, SameOffspring DEF tree
<1>2. ASSUME NEW p \in Pids,
             \/ execve(p) \/ setsid(p)
             \/ \E pid, pgid \in Pids : setpgid(p, pid, pgid)
      PROVE  Offspring'
  <2>1. UNCHANGED <<tasks, real_parent, reapers>> /\ forknoexec' \subseteq tasks
    BY <1>0, <1>2 DEF execve, setsid, setpgid
  <2> QED BY <2>1, SameOffspring
<1> QED
  BY <1>1, <1>2, ForkOffspring, ExitOffspring, SubreaperOffspring, WalkOffspring DEF TreeNext

LEMMA OffspringHolds == TreeInv /\ Offspring => TreeAlways
<1> SUFFICES ASSUME TreeInv, Offspring PROVE TreeAlways
  OBVIOUS
<1>1. TreeTypeOK
  BY DEF TreeInv, Shape, Offspring, Places, TreeTypeOK
<1>2. FlagGoesDown
  BY DEF Offspring, Passed, FlagGoesDown
<1>3. SubreaperIsFound
  <2> SUFFICES ASSUME NEW p \in is_child_subreaper \ walking
               PROVE  Descendants(p) \subseteq has_child_subreaper
    BY DEF SubreaperIsFound
  <2>1. p \in Pids /\ tasks \subseteq Pids
    BY DEF Offspring, Places
  <2>2. /\ Children(p) \subseteq has_child_subreaper
        /\ \A c \in has_child_subreaper : Children(c) \subseteq has_child_subreaper
    BY DEF Offspring, Passed
  <2> QED BY <2>1, <2>2, DescendantsWithin
<1> QED BY <1>1, <1>2, <1>3 DEF TreeInv, TreeAlways

(* For any processes: groups lie in one session, leaders lead, and orphans *)
(* find the subreaper above them, also those that were forked, or lost a   *)
(* parent, while the walk was on its way (sys.c:976-1196, 2209-2253).      *)
THEOREM TreeKept == TreeSpec => []TreeAlways
BY TreeInitInv, TreeNextInv, OffspringInit, OffspringNext, OffspringHolds, PTL DEF TreeSpec

-----------------------------------------------------------------------------
(* Limits and priorities (TaskLimits).  TimerInTime is not inductive: of   *)
(* the calls that have a timer still to set, one must be about to set it   *)
(* in time.  And a call that has been checked must ask for a soft limit    *)
(* within its hard limit.                                                  *)
TimerComing ==
  \A t \in Tasks :
    \/ rlim[t]["CPU"].rlim_cur = INFINITY
    \/ cpu_timer[t] <= rlim[t]["CPU"].rlim_cur
    \/ \E c \in Tasks : /\ call[c].at = "timer" /\ call[c].tsk = t
                        /\ call[c].new.rlim_cur <= rlim[t]["CPU"].rlim_cur

AskedInOrder ==
  /\ \A t \in Tasks, r \in Resources : rlim[t][r].rlim_cur <= rlim[t][r].rlim_max
  /\ \A c \in Tasks : call[c].at # "idle" => call[c].new.rlim_cur <= call[c].new.rlim_max

LimitsInv == LimitsTypeOK /\ AskedInOrder /\ TimerComing /\ NiceWithinGrant

(* What a step does for HardLimitsFall.                                    *)
OnlyAdminsRaise ==
  \A t \in Tasks, res \in Resources :
    rlim'[t][res].rlim_max > rlim[t][res].rlim_max =>
      \E c \in Tasks : /\ ns_capable(c, "RESOURCE") /\ call[c].at = "checked"
                       /\ call[c].tsk = t /\ call'[c] # call[c]

LEMMA CallFacts ==
  ASSUME LimitsTypeOK, NEW c \in Tasks
  PROVE  /\ call[c].at \in {"idle", "checked", "timer"}
         /\ call[c].at = "idle" <=> call[c] = IDLE
         /\ call[c].at # "idle" =>
              /\ call[c].tsk \in Tasks /\ call[c].resource \in Resources
              /\ call[c].new \in rlimit
              /\ call[c] = [at |-> call[c].at, tsk |-> call[c].tsk,
                            resource |-> call[c].resource, new |-> call[c].new]
<1>1. call[c] \in Calls
  BY DEF LimitsTypeOK
<1>2. CASE call[c] = IDLE
  BY <1>2 DEF IDLE
<1>3. CASE call[c] \in [at: {"checked", "timer"}, tsk: Tasks, resource: Resources, new: rlimit]
  BY <1>3 DEF IDLE
<1> QED BY <1>1, <1>2, <1>3 DEF Calls

LEMMA ReachType ==
  ASSUME NEW l \in Nat
  PROVE  Reach(l) \in Nat /\ (l <= MaxNice + 1 => Reach(l) = MaxNice + 1 - l)
BY LimitsAssumption DEF LimitsAssumption, Reach

LEMMA ReachFalls ==
  ASSUME NEW l \in Nat, NEW m \in Nat, l <= m
  PROVE  Reach(m) <= Reach(l)
BY LimitsAssumption DEF LimitsAssumption, Reach

LEMMA LowerFacts ==
  ASSUME NEW a \in Nat, NEW b \in Nat
  PROVE  Lower(a, b) \in Nat /\ Lower(a, b) <= a /\ Lower(a, b) <= b
BY DEF Lower

LEMMA LimitsInitInv == LimitsInit => LimitsInv
<1> SUFFICES ASSUME LimitsInit PROVE LimitsInv
  OBVIOUS
<1>0. /\ INIT_RLIMITS \in [Resources -> rlimit] /\ INFINITY \in Nat /\ MaxNice \in Nat
      /\ {"NICE", "CPU"} \subseteq Resources
      /\ \A r \in Resources : INIT_RLIMITS[r].rlim_cur <= INIT_RLIMITS[r].rlim_max
  BY LimitsAssumption DEF LimitsAssumption, rlimit
<1>1. rlim = [t \in Tasks |-> INIT_RLIMITS] /\ nice \in [Tasks -> 0..MaxNice]
  BY DEF LimitsInit
<1>2. \A t \in Tasks, r \in Resources :
        rlim[t][r] = INIT_RLIMITS[r] /\ rlim[t][r] \in rlimit
        /\ rlim[t][r].rlim_cur \in 0..INFINITY /\ rlim[t][r].rlim_max \in Nat
  BY <1>0, <1>1 DEF rlimit
<1>3. \A t \in Tasks : /\ cpu_timer[t] = rlim[t]["CPU"].rlim_cur /\ call[t] = IDLE
                       /\ granted[t] = Lower(nice[t], Reach(rlim[t]["NICE"].rlim_max))
  BY DEF LimitsInit
<1>4. \A t \in Tasks : /\ granted[t] \in 0..MaxNice /\ granted[t] <= nice[t]
                       /\ granted[t] <= Reach(rlim[t]["NICE"].rlim_max)
                       /\ nice[t] \in Nat /\ Reach(rlim[t]["NICE"].rlim_max) \in Nat
  <2> TAKE t \in Tasks
  <2>1. nice[t] \in Nat /\ nice[t] <= MaxNice
    BY <1>0, <1>1
  <2>2. Reach(rlim[t]["NICE"].rlim_max) \in Nat
    BY <1>0, <1>2, ReachType
  <2>3. /\ granted[t] \in Nat /\ granted[t] <= nice[t]
        /\ granted[t] <= Reach(rlim[t]["NICE"].rlim_max)
    BY <1>3, <2>1, <2>2, LowerFacts
  <2> QED BY <1>0, <2>1, <2>2, <2>3
<1>5. LimitsTypeOK
  <2>1. DOMAIN task_cred = Tasks /\ \A t \in Tasks : task_cred[t] \in Identities[t]
    BY DEF LimitsInit
  <2>2. cpu_timer \in [Tasks -> 0..INFINITY] /\ granted \in [Tasks -> 0..MaxNice]
    BY <1>0, <1>2, <1>3, <1>4 DEF LimitsInit
  <2>3. call \in [Tasks -> Calls]
    BY DEF LimitsInit, Calls
  <2> QED BY <1>0, <1>1, <2>1, <2>2, <2>3 DEF LimitsTypeOK
<1>6. AskedInOrder
  BY <1>0, <1>2, <1>3 DEF AskedInOrder, IDLE
<1>7. TimerComing
  BY <1>0, <1>2, <1>3 DEF TimerComing
<1>8. NiceWithinGrant
  BY <1>4 DEF NiceWithinGrant
<1> QED BY <1>5, <1>6, <1>7, <1>8 DEF LimitsInv

(* Another identity leaves all that was granted as it is.                  *)
LEMMA CredStep ==
  ASSUME LimitsInv, NEW t \in Tasks, NEW identity \in Identities[t], commit_creds(t, identity)
  PROVE  LimitsInv' /\ OnlyAdminsRaise
<1>1. /\ task_cred' = [task_cred EXCEPT ![t] = identity]
      /\ UNCHANGED <<rlim, nice, cpu_timer, call, granted>>
  BY DEF commit_creds
<1>2. LimitsTypeOK'
  BY <1>1 DEF LimitsInv, LimitsTypeOK
<1>3. AskedInOrder' /\ TimerComing' /\ NiceWithinGrant'
  BY <1>1 DEF LimitsInv, AskedInOrder, TimerComing, NiceWithinGrant
<1>4. OnlyAdminsRaise
  <2>1. \A u \in Tasks, r \in Resources : rlim[u][r].rlim_max \in Nat
    BY DEF LimitsInv, LimitsTypeOK, rlimit
  <2> QED BY <1>1, <2>1 DEF OnlyAdminsRaise
<1> QED BY <1>2, <1>3, <1>4 DEF LimitsInv

LEMMA PrlimitStep ==
  ASSUME LimitsInv, NEW t \in Tasks, NEW p \in Tasks, NEW res \in Resources,
         NEW new \in rlimit, prlimit64(t, p, res, new)
  PROVE  LimitsInv' /\ OnlyAdminsRaise
<1> DEFINE asked == [at |-> "checked", tsk |-> p, resource |-> res, new |-> new]
<1>1. /\ call[t].at = "idle" /\ new.rlim_cur <= new.rlim_max
      /\ call' = [call EXCEPT ![t] = asked]
      /\ UNCHANGED <<task_cred, rlim, nice, cpu_timer, granted>>
  BY DEF prlimit64, IDLE
<1>2. asked \in Calls /\ asked.at = "checked" /\ asked.new = new
  BY DEF Calls
<1> HIDE DEF asked
<1>3. call'[t] = asked /\ \A c \in Tasks \ {t} : call'[c] = call[c]
  BY <1>1 DEF LimitsInv, LimitsTypeOK
<1>4. LimitsTypeOK'
  BY <1>1, <1>2 DEF LimitsInv, LimitsTypeOK
<1>5. AskedInOrder'
  BY <1>1, <1>2, <1>3 DEF LimitsInv, AskedInOrder
<1>6. TimerComing'
  <2> SUFFICES ASSUME NEW u \in Tasks,
                      rlim[u]["CPU"].rlim_cur # INFINITY, ~(cpu_timer[u] <= rlim[u]["CPU"].rlim_cur)
               PROVE  \E c \in Tasks : /\ call'[c].at = "timer" /\ call'[c].tsk = u
                                       /\ call'[c].new.rlim_cur <= rlim[u]["CPU"].rlim_cur
    BY <1>1 DEF TimerComing
  <2>1. PICK c \in Tasks : /\ call[c].at = "timer" /\ call[c].tsk = u
                           /\ call[c].new.rlim_cur <= rlim[u]["CPU"].rlim_cur
    BY DEF LimitsInv, TimerComing
  <2> QED BY <2>1, <1>1, <1>3
<1>7. NiceWithinGrant' /\ OnlyAdminsRaise
  <2>1. \A u \in Tasks, r \in Resources : rlim[u][r].rlim_max \in Nat
    BY DEF LimitsInv, LimitsTypeOK, rlimit
  <2> QED BY <1>1, <2>1 DEF LimitsInv, NiceWithinGrant, OnlyAdminsRaise
<1> QED BY <1>4, <1>5, <1>6, <1>7 DEF LimitsInv

LEMMA DoPrlimitStep ==
  ASSUME LimitsInv, NEW t \in Tasks, do_prlimit(t)
  PROVE  LimitsInv' /\ OnlyAdminsRaise
<1> DEFINE p == call[t].tsk   res == call[t].resource   new == call[t].new
<1>1. /\ call[t].at = "checked" /\ p \in Tasks /\ res \in Resources /\ new \in rlimit
      /\ call[t] = [at |-> "checked", tsk |-> p, resource |-> res, new |-> new]
  BY CallFacts DEF do_prlimit, LimitsInv
<1>2. UNCHANGED <<task_cred, nice, cpu_timer>>
  BY DEF do_prlimit
<1>3. new.rlim_cur <= new.rlim_max
  BY <1>1 DEF LimitsInv, AskedInOrder
<1>0. /\ \A u \in Tasks, r \in Resources :
           rlim[u][r] \in rlimit /\ rlim[u][r].rlim_cur \in Nat /\ rlim[u][r].rlim_max \in Nat
      /\ new.rlim_cur \in Nat /\ new.rlim_max \in Nat /\ INFINITY \in Nat
      /\ \A u \in Tasks : nice[u] \in Nat /\ granted[u] \in Nat /\ cpu_timer[u] \in Nat
                          /\ granted[u] <= MaxNice
      /\ MaxNice \in Nat /\ {"NICE", "CPU"} \subseteq Resources
  BY <1>1, LimitsAssumption DEF LimitsInv, LimitsTypeOK, rlimit, LimitsAssumption
<1>4. CASE call' = [call EXCEPT ![t] = IDLE] /\ UNCHANGED <<rlim, granted>>
  <2>1. call'[t] = IDLE /\ \A c \in Tasks \ {t} : call'[c] = call[c]
    BY <1>4 DEF LimitsInv, LimitsTypeOK
  <2>2. LimitsTypeOK'
    BY <1>2, <1>4 DEF LimitsInv, LimitsTypeOK, Calls
  <2>3. AskedInOrder'
    BY <1>2, <1>4, <2>1 DEF LimitsInv, AskedInOrder, IDLE
  <2>4. TimerComing'
    <3> SUFFICES ASSUME NEW u \in Tasks,
                        rlim[u]["CPU"].rlim_cur # INFINITY,
                            ~(cpu_timer[u] <= rlim[u]["CPU"].rlim_cur)
                 PROVE  \E c \in Tasks : /\ call'[c].at = "timer" /\ call'[c].tsk = u
                                         /\ call'[c].new.rlim_cur <= rlim[u]["CPU"].rlim_cur
      BY <1>2, <1>4 DEF TimerComing
    <3>1. PICK c \in Tasks : /\ call[c].at = "timer" /\ call[c].tsk = u
                             /\ call[c].new.rlim_cur <= rlim[u]["CPU"].rlim_cur
      BY DEF LimitsInv, TimerComing
    <3> QED BY <3>1, <1>1, <2>1
  <2>5. NiceWithinGrant' /\ OnlyAdminsRaise
    BY <1>0, <1>2, <1>4 DEF LimitsInv, NiceWithinGrant, OnlyAdminsRaise
  <2> QED BY <2>2, <2>3, <2>4, <2>5 DEF LimitsInv
<1>5. ASSUME new.rlim_max <= rlim[p][res].rlim_max \/ ns_capable(t, "RESOURCE"),
             rlim' = [rlim EXCEPT ![p][res] = new],
             granted' = IF ns_capable(t, "RESOURCE") /\ res = "NICE"
                        THEN [granted EXCEPT ![p] = Lower(@, Reach(new.rlim_max))] ELSE granted,
             call' = [call EXCEPT ![t] = IF res = "CPU" /\ new.rlim_cur # INFINITY
                                         THEN [call[t] EXCEPT !.at = "timer"] ELSE IDLE]
      PROVE  LimitsInv' /\ OnlyAdminsRaise
  <2>1. /\ rlim'[p][res] = new
        /\ \A u \in Tasks, r \in Resources : u # p \/ r # res => rlim'[u][r] = rlim[u][r]
        /\ \A u \in Tasks, r \in Resources : rlim'[u][r] \in rlimit
        /\ rlim' \in [Tasks -> [Resources -> rlimit]]
    BY <1>1, <1>5 DEF LimitsInv, LimitsTypeOK
  <2> DEFINE next == IF res = "CPU" /\ new.rlim_cur # INFINITY
                     THEN [at |-> "timer", tsk |-> p, resource |-> res, new |-> new] ELSE IDLE
  <2>2. call' = [call EXCEPT ![t] = next]
    <3>1. [call[t] EXCEPT !.at = "timer"]
            = [at |-> "timer", tsk |-> p, resource |-> res, new |-> new]
      BY <1>1
    <3> QED BY <1>5, <3>1
  <2>3. /\ next \in Calls /\ (next.at # "idle" => next.new = new)
        /\ next.at \in {"idle", "timer"}
        /\ res = "CPU" /\ new.rlim_cur # INFINITY => next.at = "timer" /\ next.tsk = p /\
             next.new = new
    BY <1>1 DEF Calls, IDLE
  <2> HIDE DEF next
  <2>4. call'[t] = next /\ \A c \in Tasks \ {t} : call'[c] = call[c]
    BY <2>2 DEF LimitsInv, LimitsTypeOK
  <2>5. Reach(new.rlim_max) \in Nat /\ Lower(granted[p], Reach(new.rlim_max)) \in Nat
        /\ Lower(granted[p], Reach(new.rlim_max)) <= granted[p]
        /\ Lower(granted[p], Reach(new.rlim_max)) <= Reach(new.rlim_max)
    <3>1. Reach(new.rlim_max) \in Nat
      BY <1>0, ReachType
    <3>2. granted[p] \in Nat
      BY <1>0, <1>1
    <3> QED BY <3>1, <3>2, LowerFacts
  <2>6. /\ \A u \in Tasks : granted'[u] \in Nat /\ granted'[u] <= granted[u]
        /\ ns_capable(t, "RESOURCE") /\ res = "NICE" => granted'[p] <= Reach(new.rlim_max)
        /\ granted' \in [Tasks -> 0..MaxNice]
    <3>1. CASE ns_capable(t, "RESOURCE") /\ res = "NICE"
      <4> DEFINE less == Lower(granted[p], Reach(new.rlim_max))
      <4>1. granted' = [granted EXCEPT ![p] = less] /\ less \in 0..MaxNice
        BY <1>0, <1>1, <1>5, <2>5, <3>1
      <4> HIDE DEF less
      <4>2. less <= granted[p] /\ less <= Reach(new.rlim_max)
        BY <2>5 DEF less
      <4> QED BY <1>0, <1>1, <4>1, <4>2 DEF LimitsInv, LimitsTypeOK
    <3>2. CASE ~(ns_capable(t, "RESOURCE") /\ res = "NICE")
      BY <1>0, <1>5, <3>2 DEF LimitsInv, LimitsTypeOK
    <3> QED BY <3>1, <3>2
  <2>7. LimitsTypeOK'
    BY <1>2, <2>1, <2>2, <2>3, <2>6 DEF LimitsInv, LimitsTypeOK
  <2>8. AskedInOrder'
    <3>1. \A u \in Tasks, r \in Resources : rlim'[u][r].rlim_cur <= rlim'[u][r].rlim_max
      BY <1>3, <2>1 DEF LimitsInv, AskedInOrder
    <3>2. \A c \in Tasks : call'[c].at # "idle" => call'[c].new.rlim_cur <= call'[c].new.rlim_max
      BY <1>3, <2>3, <2>4 DEF LimitsInv, AskedInOrder
    <3> QED BY <3>1, <3>2 DEF AskedInOrder
  <2>9. TimerComing'
    <3> SUFFICES ASSUME NEW u \in Tasks,
                        rlim'[u]["CPU"].rlim_cur # INFINITY,
                        ~(cpu_timer[u] <= rlim'[u]["CPU"].rlim_cur)
                 PROVE  \E c \in Tasks : /\ call'[c].at = "timer" /\ call'[c].tsk = u
                                         /\ call'[c].new.rlim_cur <= rlim'[u]["CPU"].rlim_cur
      BY <1>2 DEF TimerComing
    <3>1. CASE u = p /\ res = "CPU"
      <4>1. next.at = "timer" /\ next.tsk = u /\ next.new = new /\ rlim'[u]["CPU"] = new
        BY <2>1, <2>3, <3>1
      <4> QED BY <1>0, <2>4, <4>1
    <3>2. CASE ~(u = p /\ res = "CPU")
      <4>1. rlim'[u]["CPU"] = rlim[u]["CPU"]
        BY <1>0, <2>1, <3>2
      <4>2. PICK c \in Tasks : /\ call[c].at = "timer" /\ call[c].tsk = u
                               /\ call[c].new.rlim_cur <= rlim[u]["CPU"].rlim_cur
        BY <4>1 DEF LimitsInv, TimerComing
      <4> QED BY <4>1, <4>2, <1>1, <2>4
    <3> QED BY <3>1, <3>2
  <2>10. NiceWithinGrant'
    <3> SUFFICES ASSUME NEW u \in Tasks
                 PROVE  nice[u] >= granted'[u] /\ Reach(rlim'[u]["NICE"].rlim_max) >= granted'[u]
      BY <1>2 DEF NiceWithinGrant
    <3>1. nice[u] >= granted[u] /\ Reach(rlim[u]["NICE"].rlim_max) >= granted[u]
      BY DEF LimitsInv, NiceWithinGrant
    <3>2. nice[u] >= granted'[u]
      BY <1>0, <2>6, <3>1
    <3>3. CASE u = p /\ res = "NICE"
      <4>1. rlim'[u]["NICE"] = new
        BY <2>1, <3>3
      <4>2. CASE ns_capable(t, "RESOURCE")
        BY <1>0, <2>5, <2>6, <3>2, <3>3, <4>1, <4>2
      <4>3. CASE ~ns_capable(t, "RESOURCE")
        <5>1. Reach(rlim[p][res].rlim_max) <= Reach(new.rlim_max)
              /\ Reach(rlim[p][res].rlim_max) \in Nat
          BY <1>0, <1>1, <1>5, <4>3, ReachType, ReachFalls
        <5> QED BY <1>0, <2>5, <2>6, <3>1, <3>2, <3>3, <4>1, <5>1
      <4> QED BY <4>2, <4>3
    <3>4. CASE ~(u = p /\ res = "NICE")
      <4>1. rlim'[u]["NICE"] = rlim[u]["NICE"] /\ Reach(rlim[u]["NICE"].rlim_max) \in Nat
        <5>1. rlim'[u]["NICE"] = rlim[u]["NICE"] /\ rlim[u]["NICE"].rlim_max \in Nat
          BY <1>0, <2>1, <3>4
        <5> QED BY <5>1, ReachType
      <4> QED BY <1>0, <2>6, <3>1, <3>2, <4>1
    <3> QED BY <3>3, <3>4
  <2>11. OnlyAdminsRaise
    <3> SUFFICES ASSUME NEW u \in Tasks, NEW r \in Resources,
                        rlim'[u][r].rlim_max > rlim[u][r].rlim_max
                 PROVE  \E c \in Tasks : /\ ns_capable(c, "RESOURCE") /\ call[c].at = "checked"
                                         /\ call[c].tsk = u /\ call'[c] # call[c]
      BY DEF OnlyAdminsRaise
    <3>1. u = p /\ r = res
      BY <1>0, <2>1
    <3>2. ns_capable(t, "RESOURCE")
      BY <1>0, <1>1, <1>5, <2>1, <3>1
    <3> QED BY <1>1, <2>3, <2>4, <3>1, <3>2
  <2> QED BY <2>7, <2>8, <2>9, <2>10, <2>11 DEF LimitsInv
<1> QED BY <1>4, <1>5 DEF do_prlimit

LEMMA UpdateTimerStep ==
  ASSUME LimitsInv, NEW t \in Tasks, update_rlimit_cpu(t)
  PROVE  LimitsInv' /\ OnlyAdminsRaise
<1> DEFINE p == call[t].tsk   new == call[t].new
<1>1. call[t].at = "timer" /\ p \in Tasks /\ new \in rlimit
  BY CallFacts DEF update_rlimit_cpu, LimitsInv
<1>0. /\ \A u \in Tasks, r \in Resources : rlim[u][r].rlim_cur \in Nat /\
           rlim[u][r].rlim_max \in Nat
      /\ new.rlim_cur \in 0..INFINITY /\ INFINITY \in Nat
      /\ \A u \in Tasks : cpu_timer[u] \in Nat /\ cpu_timer[u] <= INFINITY
      /\ {"NICE", "CPU"} \subseteq Resources
  BY <1>1, LimitsAssumption DEF LimitsInv, LimitsTypeOK, rlimit, LimitsAssumption
<1> DEFINE next == Lower(cpu_timer[p], new.rlim_cur)
<1>2. /\ cpu_timer' = [cpu_timer EXCEPT ![p] = next]
      /\ call' = [call EXCEPT ![t] = IDLE] /\ UNCHANGED <<task_cred, rlim, nice, granted>>
  BY DEF update_rlimit_cpu
<1>3. next \in 0..INFINITY /\ next <= cpu_timer[p] /\ next <= new.rlim_cur
  <2>1. cpu_timer[p] \in Nat /\ new.rlim_cur \in Nat
    BY <1>0, <1>1
  <2>2. next \in Nat /\ next <= cpu_timer[p] /\ next <= new.rlim_cur
    BY <2>1, LowerFacts
  <2> QED BY <1>0, <2>1, <2>2
<1> HIDE DEF next
<1>4. /\ call'[t] = IDLE /\ \A c \in Tasks \ {t} : call'[c] = call[c]
      /\ cpu_timer'[p] = next /\ \A u \in Tasks \ {p} : cpu_timer'[u] = cpu_timer[u]
  BY <1>1, <1>2 DEF LimitsInv, LimitsTypeOK
<1>5. LimitsTypeOK'
  BY <1>1, <1>2, <1>3 DEF LimitsInv, LimitsTypeOK, Calls
<1>6. AskedInOrder'
  BY <1>2, <1>4 DEF LimitsInv, AskedInOrder, IDLE
<1>7. TimerComing'
  <2> SUFFICES ASSUME NEW u \in Tasks, rlim[u]["CPU"].rlim_cur # INFINITY,
                      ~(cpu_timer'[u] <= rlim[u]["CPU"].rlim_cur)
               PROVE  \E c \in Tasks : /\ call'[c].at = "timer" /\ call'[c].tsk = u
                                       /\ call'[c].new.rlim_cur <= rlim[u]["CPU"].rlim_cur
    BY <1>2 DEF TimerComing
  <2>1. ~(cpu_timer[u] <= rlim[u]["CPU"].rlim_cur)
    BY <1>0, <1>1, <1>3, <1>4
  <2>2. PICK c \in Tasks : /\ call[c].at = "timer" /\ call[c].tsk = u
                           /\ call[c].new.rlim_cur <= rlim[u]["CPU"].rlim_cur
    BY <2>1 DEF LimitsInv, TimerComing
  <2>3. c # t
    BY <1>0, <1>3, <1>4, <2>2
  <2> QED BY <2>2, <2>3, <1>4
<1>8. NiceWithinGrant' /\ OnlyAdminsRaise
  BY <1>0, <1>2 DEF LimitsInv, NiceWithinGrant, OnlyAdminsRaise
<1> QED BY <1>5, <1>6, <1>7, <1>8 DEF LimitsInv

LEMMA SetpriorityStep ==
  ASSUME LimitsInv, NEW t \in Tasks, NEW of \in SUBSET Tasks, NEW n \in 0..MaxNice,
         setpriority(t, of, n)
  PROVE  LimitsInv' /\ OnlyAdminsRaise
<1> DEFINE changed == {p \in of : set_one_prio(t, p, n) = "ok"}
<1>1. /\ nice' = [p \in Tasks |-> IF p \in changed THEN n ELSE nice[p]]
      /\ granted' = [p \in Tasks |-> IF p \in changed /\ ns_capable(t, "NICE")
                                     THEN Lower(granted[p], n) ELSE granted[p]]
      /\ UNCHANGED <<task_cred, rlim, cpu_timer, call>>
  BY DEF setpriority
<1>0. /\ \A u \in Tasks : /\ nice[u] \in 0..MaxNice /\ granted[u] \in 0..MaxNice
                          /\ rlim[u]["NICE"].rlim_max \in Nat /\ rlim[u]["NICE"].rlim_cur \in Nat
                          /\ rlim[u]["NICE"].rlim_cur <= rlim[u]["NICE"].rlim_max
      /\ \A u \in Tasks, r \in Resources : rlim[u][r].rlim_max \in Nat
      /\ MaxNice \in Nat
  BY LimitsAssumption DEF LimitsInv, LimitsTypeOK, AskedInOrder, rlimit, LimitsAssumption
<1>2. \A u \in Tasks : /\ Lower(granted[u], n) \in 0..MaxNice
                       /\ Lower(granted[u], n) <= granted[u] /\ Lower(granted[u], n) <= n
  <2> TAKE u \in Tasks
  <2>1. granted[u] \in Nat /\ granted[u] <= MaxNice /\ n \in Nat
    BY <1>0
  <2>2. Lower(granted[u], n) \in Nat /\ Lower(granted[u], n) <= granted[u] /\
          Lower(granted[u], n) <= n
    BY <2>1, LowerFacts
  <2> QED BY <1>0, <2>1, <2>2
<1>3. \A p \in changed : ns_capable(t, "NICE") \/ n >= nice[p] \/
        nice_to_rlimit(n) <= rlim[p]["NICE"].rlim_cur
  <2> TAKE p \in changed
  <2>1. set_one_prio(t, p, n) = "ok" /\ p \in Tasks
    OBVIOUS
  <2> QED BY <1>0, <2>1 DEF set_one_prio, can_nice, nice_to_rlimit
<1> HIDE DEF changed
<1>4. LimitsTypeOK'
  BY <1>0, <1>1, <1>2 DEF LimitsInv, LimitsTypeOK
<1>5. AskedInOrder' /\ TimerComing'
  BY <1>1 DEF LimitsInv, AskedInOrder, TimerComing
<1>6. OnlyAdminsRaise
  BY <1>0, <1>1 DEF OnlyAdminsRaise
<1>7. NiceWithinGrant'
  <2> SUFFICES ASSUME NEW u \in Tasks
               PROVE  nice'[u] >= granted'[u] /\ Reach(rlim[u]["NICE"].rlim_max) >= granted'[u]
    BY <1>1 DEF NiceWithinGrant
  <2>1. nice[u] >= granted[u] /\ Reach(rlim[u]["NICE"].rlim_max) >= granted[u]
        /\ Reach(rlim[u]["NICE"].rlim_max) \in Nat
    BY <1>0, ReachType DEF LimitsInv, NiceWithinGrant
  <2>2. CASE u \notin changed
    BY <1>1, <2>1, <2>2
  <2>3. CASE u \in changed /\ ns_capable(t, "NICE")
    <3>1. nice'[u] = n /\ granted'[u] = Lower(granted[u], n)
      BY <1>1, <2>3
    <3> QED BY <1>0, <1>2, <2>1, <3>1
  <2>4. CASE u \in changed /\ ~ns_capable(t, "NICE")
    <3>1. nice'[u] = n /\ granted'[u] = granted[u]
      BY <1>1, <2>4
    <3>2. CASE n >= nice[u]
      BY <1>0, <2>1, <3>1, <3>2
    <3>3. CASE nice_to_rlimit(n) <= rlim[u]["NICE"].rlim_cur
      <4>1. MaxNice + 1 - n <= rlim[u]["NICE"].rlim_max
        BY <1>0, <3>3 DEF nice_to_rlimit
      <4>2. Reach(rlim[u]["NICE"].rlim_max) <= Reach(MaxNice + 1 - n)
            /\ Reach(MaxNice + 1 - n) = n
        <5>1. MaxNice + 1 - n \in Nat /\ MaxNice + 1 - n <= MaxNice + 1
              /\ MaxNice + 1 - (MaxNice + 1 - n) = n
          BY <1>0
        <5> QED BY <1>0, <4>1, <5>1, ReachType, ReachFalls
      <4> QED BY <1>0, <2>1, <3>1, <4>2
    <3> QED BY <1>3, <2>4, <3>2, <3>3
  <2> QED BY <2>2, <2>3, <2>4
<1> QED BY <1>4, <1>5, <1>6, <1>7 DEF LimitsInv

LEMMA LimitsNextInv == LimitsInv /\ [LimitsNext]_limits => LimitsInv' /\ [OnlyAdminsRaise]_limits
<1> SUFFICES ASSUME LimitsInv, [LimitsNext]_limits PROVE LimitsInv' /\ [OnlyAdminsRaise]_limits
  OBVIOUS
<1>1. CASE UNCHANGED limits
  BY <1>1 DEF limits, LimitsInv, LimitsTypeOK, AskedInOrder, TimerComing, NiceWithinGrant
<1>2. \A r \in Resources : Requests[r] \subseteq rlimit
  BY LimitsAssumption DEF LimitsAssumption, rlimit
<1>3. CASE LimitsNext
  <2>1. PICK t \in Tasks :
          \/ \E identity \in Identities[t] : commit_creds(t, identity)
          \/ \E p \in Tasks, res \in Resources : \E new \in Requests[res] :
               prlimit64(t, p, res, new)
          \/ do_prlimit(t) \/ update_rlimit_cpu(t)
          \/ \E of \in Selected, n \in 0..MaxNice : setpriority(t, of, n)
    BY <1>3 DEF LimitsNext
  <2>2. ASSUME NEW p \in Tasks, NEW res \in Resources, NEW new \in Requests[res],
               prlimit64(t, p, res, new)
        PROVE  LimitsInv' /\ OnlyAdminsRaise
    BY <1>2, <2>2, PrlimitStep
  <2>3. ASSUME NEW of \in Selected, NEW n \in 0..MaxNice, setpriority(t, of, n)
        PROVE  LimitsInv' /\ OnlyAdminsRaise
    BY <2>3, SetpriorityStep DEF Selected
  <2> QED BY <2>1, <2>2, <2>3, CredStep, DoPrlimitStep, UpdateTimerStep
<1> QED BY <1>1, <1>3

(* What a program is told of a limit keeps the order of its two parts, and *)
(* is no less than what it takes to be given it again.                     *)
LEMMA ToldInOrder == LimitsTypeOK /\ AskedInOrder => LimitsOrdered
<1> SUFFICES ASSUME LimitsTypeOK, AskedInOrder, NEW t \in Tasks, NEW res \in Resources
             PROVE  LET r == getrlimit(t, res) back == FromCompatPair(ToCompatPair(r))
                        old == old_getrlimit(t, res) IN
                    /\ r.rlim_cur <= r.rlim_max
                    /\ ToCompatPair(r).rlim_cur <= ToCompatPair(r).rlim_max
                    /\ back.rlim_cur >= r.rlim_cur /\ back.rlim_cur <= back.rlim_max
                    /\ old.rlim_cur <= old.rlim_max /\ (r.rlim_max <= OLD_INFINITY => old = r)
  BY DEF LimitsOrdered
<1> DEFINE r == rlim[t][res]
<1>1. /\ r \in rlimit /\ r.rlim_cur \in 0..INFINITY /\ r.rlim_max \in 0..INFINITY
      /\ r = [rlim_cur |-> r.rlim_cur, rlim_max |-> r.rlim_max]
      /\ r.rlim_cur <= r.rlim_max
  BY DEF LimitsTypeOK, AskedInOrder, rlimit
<1>2. /\ OLD_INFINITY \in Nat /\ COMPAT_INFINITY \in Nat /\ INFINITY \in Nat
      /\ COMPAT_INFINITY <= INFINITY
  BY LimitsAssumption DEF LimitsAssumption
<1> HIDE DEF r
<1>3. ToCompat(r.rlim_cur) <= ToCompat(r.rlim_max)
  BY <1>1, <1>2 DEF ToCompat
<1>4. /\ FromCompat(ToCompat(r.rlim_cur)) >= r.rlim_cur
      /\ FromCompat(ToCompat(r.rlim_cur)) <= FromCompat(ToCompat(r.rlim_max))
  BY <1>1, <1>2 DEF ToCompat, FromCompat
<1>5. /\ ToOld(r.rlim_cur) <= ToOld(r.rlim_max)
      /\ r.rlim_max <= OLD_INFINITY => ToOld(r.rlim_cur) = r.rlim_cur /\
           ToOld(r.rlim_max) = r.rlim_max
  BY <1>1, <1>2 DEF ToOld
<1> QED BY <1>1, <1>3, <1>4, <1>5 DEF getrlimit, old_getrlimit, ToCompatPair, FromCompatPair, r

(* The table a fold over a sequence is defined by: for each set of places  *)
(* what the fold over them answers, the last place last.                   *)
Folded(g, n, V, base, op) ==
  /\ g \in [SUBSET (1..n) -> V]
  /\ \A S \in SUBSET (1..n) : g[S] = IF S = {} THEN base ELSE op[Max(S)][g[S \ {Max(S)}]]

LEMMA LastPlace ==
  ASSUME NEW n \in Nat, NEW S \in SUBSET (1..n), S # {}
  PROVE  Max(S) \in S /\ \A i \in S : i <= Max(S)
<1> DEFINE T == {n - i : i \in S}
<1>1. T \in SUBSET Nat /\ T # {}
  <2>1. \A i \in S : n - i \in Nat
    OBVIOUS
  <2>2. PICK s \in S : TRUE
    OBVIOUS
  <2> QED BY <2>1, <2>2
<1>2. PICK m \in T : \A k \in T : m <= k
  BY <1>1, LeastNumber
<1>3. PICK i \in S : m = n - i
  BY <1>2
<1>4. \A k \in S : i >= k
  <2> TAKE k \in S
  <2>1. n - k \in T /\ k \in Int /\ i \in Int
    OBVIOUS
  <2>2. n - i <= n - k
    BY <1>2, <1>3, <2>1
  <2> HIDE DEF T
  <2> QED BY <2>1, <2>2
<1>5. Max(S) \in S /\ \A k \in S : Max(S) >= k
  BY <1>4 DEF Max
<1> QED BY <1>5

LEMMA FoldTable ==
  ASSUME NEW n \in Nat, NEW V, NEW base \in V, NEW op \in Ways(n, V)
  PROVE  \E g : Folded(g, n, V, base, op)
<1> DEFINE Good(g, m) ==
             /\ g \in [SUBSET (1..m) -> V]
             /\ \A S \in SUBSET (1..m) : g[S] = IF S = {} THEN base ELSE op[Max(S)][g[S \ {Max(S)}]]
           T == {m \in 0..n : \E g : Good(g, m)}
<1>0. \A i \in 1..n : op[i] \in [V -> V]
  BY DEF Ways
<1>1. 0 \in T
  <2>1. PICK g : g = [S \in SUBSET (1..0) |-> base]
    OBVIOUS
  <2>2. \A S \in SUBSET (1..0) : S = {}
    OBVIOUS
  <2>3. Good(g, 0)
    BY <2>1, <2>2
  <2> HIDE DEF Good
  <2> QED BY <2>3
<1>2. ASSUME NEW m \in 0..(n - 1), m \in T PROVE m + 1 \in T
  <2>1. PICK g : Good(g, m)
    BY <1>2
  <2> DEFINE h == [S \in SUBSET (1..(m + 1)) |->
                     IF m + 1 \in S THEN op[m + 1][g[S \ {m + 1}]] ELSE g[S]]
  <2>2. \A S \in SUBSET (1..(m + 1)) :
          /\ m + 1 \in S => Max(S) = m + 1 /\ S \ {m + 1} \in SUBSET (1..m)
          /\ m + 1 \notin S => S \in SUBSET (1..m)
    <3> TAKE S \in SUBSET (1..(m + 1))
    <3>1. \A i \in 1..(m + 1) : i = m + 1 \/ i \in 1..m
      OBVIOUS
    <3>2. ASSUME m + 1 \in S PROVE Max(S) = m + 1
      <4>0. m + 1 \in Nat /\ S # {}
        BY <3>2
      <4> HIDE DEF h, T
      <4>1. Max(S) \in S /\ \A i \in S : i <= Max(S)
        BY <4>0, LastPlace
      <4>2. Max(S) \in 1..(m + 1) /\ m + 1 <= Max(S)
        BY <3>2, <4>1
      <4> QED BY <4>2
    <3> QED BY <3>1, <3>2
  <2>3. h \in [SUBSET (1..(m + 1)) -> V]
    <3>1. m + 1 \in 1..n
      OBVIOUS
    <3> QED BY <1>0, <2>1, <2>2, <3>1
  <2>4. \A S \in SUBSET (1..(m + 1)) :
          h[S] = IF S = {} THEN base ELSE op[Max(S)][h[S \ {Max(S)}]]
    <3> TAKE S \in SUBSET (1..(m + 1))
    <3>1. \A R \in SUBSET (1..m) : R \in SUBSET (1..(m + 1)) /\ m + 1 \notin R /\ h[R] = g[R]
      OBVIOUS
    <3>2. CASE m + 1 \in S
      <4>1. Max(S) = m + 1 /\ S \ {m + 1} \in SUBSET (1..m) /\ h[S \ {m + 1}] = g[S \ {m + 1}]
        BY <2>2, <3>1, <3>2
      <4> QED BY <3>2, <4>1
    <3>3. CASE m + 1 \notin S
      <4>1. S \in SUBSET (1..m) /\ h[S] = g[S]
        BY <2>2, <3>1, <3>3
      <4>2. S \ {Max(S)} \in SUBSET (1..m) /\ h[S \ {Max(S)}] = g[S \ {Max(S)}]
        BY <3>1, <4>1
      <4> QED BY <2>1, <4>1, <4>2
    <3> QED BY <3>2, <3>3
  <2> HIDE DEF h
  <2>5. Good(h, m + 1)
    BY <2>3, <2>4
  <2>6. m + 1 \in 0..n
    OBVIOUS
  <2> HIDE DEF Good
  <2> QED BY <2>5, <2>6
<1> HIDE DEF T
<1>3. n \in T
  BY <1>1, <1>2, UpTo
<1> QED BY <1>3 DEF T, Folded

LEMMA FirstPlaces ==
  ASSUME NEW m \in Nat, NEW i \in 1..m
  PROVE  /\ 1..i \in SUBSET (1..m) /\ 1..i # {}
         /\ Max(1..i) = i /\ (1..i) \ {i} = 1..(i - 1)
<1>1. 1..i \in SUBSET (1..m) /\ 1..i # {} /\ (1..i) \ {i} = 1..(i - 1)
  OBVIOUS
<1>2. Max(1..i) \in 1..i /\ \A k \in 1..i : k <= Max(1..i)
  BY <1>1, LastPlace
<1> QED BY <1>1, <1>2

(* The answers a task gets one after the other, as setpriority goes on.    *)
AnswerAfter(c, p, n, error) ==
  LET one == set_one_prio(c, p, n)
  IN  IF one # "ok" THEN one ELSE IF error = "ESRCH" THEN "ok" ELSE error

LEMMA AnswerSteps ==
  ASSUME NEW m \in Nat, NEW order \in [1..m -> Tasks], NEW c, NEW n
  PROVE  \E h : /\ h[0] = "ESRCH"
                /\ \A i \in 1..m : h[i] = AnswerAfter(c, order[i], n, h[i - 1])
                /\ h[m] = Answer(c, order, n)
<1> DEFINE V == {"ESRCH", "ok", "EPERM", "EACCES"}
           op == [i \in 1..m |-> [e \in V |-> AnswerAfter(c, order[i], n, e)]]
           it == CHOOSE f : f = [S \in SUBSET DOMAIN order |->
                   IF S = {} THEN "ESRCH"
                   ELSE AnswerAfter(c, order[Max(S)], n, f[S \ {Max(S)}])]
<1>0. DOMAIN order = 1..m
  OBVIOUS
<1>1. Answer(c, order, n) = it[DOMAIN order]
  BY Zenon DEF Answer, FoldLeft, MapThenFoldSet, AnswerAfter
<1>2. op \in Ways(m, V)
  BY DEF Ways, AnswerAfter, set_one_prio
<1>3. PICK g : Folded(g, m, V, "ESRCH", op)
  BY <1>2, FoldTable
<1>4. \A S \in SUBSET (1..m) : S # {} =>
         /\ Max(S) \in 1..m /\ S \ {Max(S)} \in SUBSET (1..m)
         /\ op[Max(S)][g[S \ {Max(S)}]] = AnswerAfter(c, order[Max(S)], n, g[S \ {Max(S)}])
  <2> TAKE S \in SUBSET (1..m)
  <2> HAVE S # {}
  <2>1. Max(S) \in 1..m /\ S \ {Max(S)} \in SUBSET (1..m)
    BY LastPlace
  <2>2. g[S \ {Max(S)}] \in V
    BY <1>3, <2>1 DEF Folded
  <2> QED BY <2>1, <2>2
<1>5. g = [S \in SUBSET DOMAIN order |->
             IF S = {} THEN "ESRCH" ELSE AnswerAfter(c, order[Max(S)], n, g[S \ {Max(S)}])]
  <2>1. \A S \in SUBSET (1..m) :
          g[S] = IF S = {} THEN "ESRCH" ELSE AnswerAfter(c, order[Max(S)], n, g[S \ {Max(S)}])
    BY <1>3, <1>4 DEF Folded
  <2> QED BY <1>0, <1>3, <2>1 DEF Folded
<1>6. it = [S \in SUBSET DOMAIN order |->
             IF S = {} THEN "ESRCH" ELSE AnswerAfter(c, order[Max(S)], n, it[S \ {Max(S)}])]
  BY <1>5, Zenon
<1> HIDE DEF it, op, V
<1>7. /\ it[1..0] = "ESRCH"
      /\ \A i \in 1..m : it[1..i] = AnswerAfter(c, order[i], n, it[1..(i - 1)])
  <2>1. {} \in SUBSET (1..m) /\ 1..0 = {}
    OBVIOUS
  <2>2. it[{}] = "ESRCH"
    BY <1>0, <1>6, <2>1
  <2>3. ASSUME NEW i \in 1..m
        PROVE  it[1..i] = AnswerAfter(c, order[i], n, it[1..(i - 1)])
    <3>1. /\ 1..i \in SUBSET (1..m) /\ 1..i # {}
          /\ Max(1..i) = i /\ (1..i) \ {i} = 1..(i - 1)
      BY FirstPlaces
    <3>2. it[1..i] = AnswerAfter(c, order[Max(1..i)], n, it[(1..i) \ {Max(1..i)}])
      BY <1>0, <1>6, <3>1
    <3> QED BY <3>1, <3>2
  <2> QED BY <2>1, <2>2, <2>3
<1> DEFINE h == [i \in 0..m |-> it[1..i]]
<1>8. h[0] = it[1..0] /\ h[m] = it[1..m] /\ \A i \in 1..m : h[i] = it[1..i] /\
        h[i - 1] = it[1..(i - 1)]
  OBVIOUS
<1> HIDE DEF h
<1>9. /\ h[0] = "ESRCH" /\ h[m] = Answer(c, order, n)
      /\ \A i \in 1..m : h[i] = AnswerAfter(c, order[i], n, h[i - 1])
  BY <1>0, <1>1, <1>7, <1>8
<1> QED BY <1>9

(* It is "ok" after some tasks, and no failure, exactly when each is.      *)
LEMMA AnswerIsWhole ==
  ASSUME NEW m \in Nat, NEW order \in [1..m -> Tasks], NEW c, NEW n, m # 0
  PROVE  Answer(c, order, n) = "ok" <=> \A i \in 1..m : set_one_prio(c, order[i], n) = "ok"
<1> DEFINE one(i) == set_one_prio(c, order[i], n)
<1>1. PICK h : /\ h[0] = "ESRCH"
               /\ \A i \in 1..m : h[i] = AnswerAfter(c, order[i], n, h[i - 1])
               /\ h[m] = Answer(c, order, n)
  BY AnswerSteps
<1>2. \A i \in 1..m : one(i) \in {"ok", "EPERM", "EACCES"}
  BY DEF set_one_prio
<1>3. \A i \in 1..m : h[i] = IF one(i) # "ok" THEN one(i)
                             ELSE IF h[i - 1] = "ESRCH" THEN "ok" ELSE h[i - 1]
  BY <1>1 DEF AnswerAfter
<1> HIDE DEF one
<1> DEFINE T == {i \in 0..m : /\ h[i] = "ESRCH" <=> i = 0
                              /\ i # 0 => (h[i] = "ok" <=> \A k \in 1..i : one(k) = "ok")}
<1>4. 0 \in T
  BY <1>1
<1>5. ASSUME NEW i \in 0..(m - 1), i \in T PROVE i + 1 \in T
  <2>1. i + 1 \in 1..m /\ i + 1 - 1 = i /\ i + 1 # 0 /\ (i # 0 => i \in 1..m)
    OBVIOUS
  <2>2. h[i + 1] = IF one(i + 1) # "ok" THEN one(i + 1) ELSE IF h[i] = "ESRCH" THEN "ok" ELSE h[i]
    BY <1>3, <2>1
  <2>3. \A k \in 1..(i + 1) : k = i + 1 \/ k \in 1..i
    OBVIOUS
  <2>4. one(i + 1) \in {"ok", "EPERM", "EACCES"}
    BY <1>2, <2>1
  <2>5. h[i + 1] # "ESRCH"
    BY <2>2, <2>4
  <2>6. 1..i \in SUBSET (1..(i + 1)) /\ i + 1 \in 1..(i + 1)
    OBVIOUS
  <2>7. h[i + 1] = "ok" <=> \A k \in 1..(i + 1) : one(k) = "ok"
    <3>1. CASE i = 0
      BY <1>1, <2>2, <2>4, <2>3, <2>6, <3>1
    <3>2. CASE i # 0
      <4>1. h[i] # "ESRCH" /\ (h[i] = "ok" <=> \A k \in 1..i : one(k) = "ok")
        BY <1>5, <3>2
      <4> QED BY <2>2, <2>3, <2>4, <2>6, <4>1
    <3> QED BY <3>1, <3>2
  <2> QED BY <2>1, <2>5, <2>7
<1> HIDE DEF T
<1>6. \A i \in 0..m : i \in T
  BY <1>4, <1>5, UpTo
<1>7. m \in T
  BY <1>6
<1> QED BY <1>1, <1>7 DEF one, T

(* The best priority found so far, as getpriority goes on.                 *)
BestAfter(p, best) == IF nice_to_rlimit(nice[p]) > best THEN nice_to_rlimit(nice[p]) ELSE best

LEMMA BestSteps ==
  ASSUME LimitsTypeOK, NEW m \in Nat, NEW order \in [1..m -> Tasks]
  PROVE  \E h : /\ h[0] = ESRCH
                /\ \A i \in 1..m : h[i] = BestAfter(order[i], h[i - 1])
                /\ h[m] = getpriority(order)
<1> DEFINE V == Int
           op == [i \in 1..m |-> [e \in V |-> BestAfter(order[i], e)]]
           it == CHOOSE f : f = [S \in SUBSET DOMAIN order |->
                   IF S = {} THEN ESRCH ELSE BestAfter(order[Max(S)], f[S \ {Max(S)}])]
<1>0. DOMAIN order = 1..m
  OBVIOUS
<1>1. getpriority(order) = it[DOMAIN order]
  BY Zenon DEF getpriority, FoldLeft, MapThenFoldSet, BestAfter
<1>2. op \in Ways(m, V) /\ ESRCH \in V
  <2>1. \A i \in 1..m : nice[order[i]] \in Int
    BY DEF LimitsTypeOK
  <2>2. MaxNice \in Int
    BY LimitsAssumption DEF LimitsAssumption
  <2>3. \A i \in 1..m, e \in Int : BestAfter(order[i], e) \in Int
    BY <2>1, <2>2 DEF BestAfter, nice_to_rlimit
  <2> QED BY <2>3 DEF Ways, ESRCH
<1>3. PICK g : Folded(g, m, V, ESRCH, op)
  BY <1>2, FoldTable
<1>4. \A S \in SUBSET (1..m) : S # {} =>
         /\ Max(S) \in 1..m /\ S \ {Max(S)} \in SUBSET (1..m)
         /\ op[Max(S)][g[S \ {Max(S)}]] = BestAfter(order[Max(S)], g[S \ {Max(S)}])
  <2> TAKE S \in SUBSET (1..m)
  <2> HAVE S # {}
  <2>1. Max(S) \in 1..m /\ S \ {Max(S)} \in SUBSET (1..m)
    BY LastPlace
  <2>2. g[S \ {Max(S)}] \in V
    BY <1>3, <2>1 DEF Folded
  <2> QED BY <2>1, <2>2
<1>5. g = [S \in SUBSET DOMAIN order |->
             IF S = {} THEN ESRCH ELSE BestAfter(order[Max(S)], g[S \ {Max(S)}])]
  <2>1. \A S \in SUBSET (1..m) :
          g[S] = IF S = {} THEN ESRCH ELSE BestAfter(order[Max(S)], g[S \ {Max(S)}])
    BY <1>3, <1>4 DEF Folded
  <2> QED BY <1>0, <1>3, <2>1 DEF Folded
<1>6. it = [S \in SUBSET DOMAIN order |->
             IF S = {} THEN ESRCH ELSE BestAfter(order[Max(S)], it[S \ {Max(S)}])]
  BY <1>5, Zenon
<1> HIDE DEF it, op, V
<1>7. /\ it[1..0] = ESRCH
      /\ \A i \in 1..m : it[1..i] = BestAfter(order[i], it[1..(i - 1)])
  <2>1. {} \in SUBSET (1..m) /\ 1..0 = {}
    OBVIOUS
  <2>2. it[{}] = ESRCH
    BY <1>0, <1>6, <2>1
  <2>3. ASSUME NEW i \in 1..m
        PROVE  it[1..i] = BestAfter(order[i], it[1..(i - 1)])
    <3>1. /\ 1..i \in SUBSET (1..m) /\ 1..i # {}
          /\ Max(1..i) = i /\ (1..i) \ {i} = 1..(i - 1)
      BY FirstPlaces
    <3>2. it[1..i] = BestAfter(order[Max(1..i)], it[(1..i) \ {Max(1..i)}])
      BY <1>0, <1>6, <3>1
    <3> QED BY <3>1, <3>2
  <2> QED BY <2>1, <2>2, <2>3
<1> DEFINE h == [i \in 0..m |-> it[1..i]]
<1>8. h[0] = it[1..0] /\ h[m] = it[1..m] /\ \A i \in 1..m : h[i] = it[1..i] /\
        h[i - 1] = it[1..(i - 1)]
  OBVIOUS
<1> HIDE DEF h
<1>9. /\ h[0] = ESRCH /\ h[m] = getpriority(order)
      /\ \A i \in 1..m : h[i] = BestAfter(order[i], h[i - 1])
  BY <1>0, <1>1, <1>7, <1>8
<1> QED BY <1>9

LEMMA BestIsFound ==
  ASSUME LimitsTypeOK, NEW m \in Nat, NEW order \in [1..m -> Tasks], m # 0
  PROVE  /\ getpriority(order) > 0
         /\ \E i \in 1..m : \A k \in 1..m :
              getpriority(order) = nice_to_rlimit(nice[order[i]]) /\
                  nice[order[i]] <= nice[order[k]]
<1> DEFINE at(i) == nice_to_rlimit(nice[order[i]])
<1>1. PICK h : /\ h[0] = ESRCH
               /\ \A i \in 1..m : h[i] = BestAfter(order[i], h[i - 1])
               /\ h[m] = getpriority(order)
  BY BestSteps
<1>2. \A i \in 1..m : /\ nice[order[i]] \in Int /\ at(i) \in Int /\ at(i) > 0
                      /\ at(i) = MaxNice + 1 - nice[order[i]] /\ MaxNice \in Int
  <2>1. MaxNice \in Nat /\ nice \in [Tasks -> 0..MaxNice]
    BY LimitsAssumption DEF LimitsTypeOK, LimitsAssumption
  <2> QED BY <2>1 DEF nice_to_rlimit
<1>3. \A i \in 1..m : h[i] = IF at(i) > h[i - 1] THEN at(i) ELSE h[i - 1]
  BY <1>1 DEF BestAfter
<1> HIDE DEF at
<1> DEFINE T == {i \in 0..m : i # 0 => \E k \in 1..i : h[i] = at(k) /\ \A j \in 1..i :
      at(j) <= at(k)}
<1>4. 0 \in T
  OBVIOUS
<1>5. ASSUME NEW i \in 0..(m - 1), i \in T PROVE i + 1 \in T
  <2>1. i + 1 \in 1..m /\ i + 1 - 1 = i /\ i + 1 \in 0..m /\ (i # 0 => i \in 1..m)
    OBVIOUS
  <2>2. h[i + 1] = IF at(i + 1) > h[i] THEN at(i + 1) ELSE h[i]
    BY <1>3, <2>1
  <2>3. 1..i \in SUBSET (1..(i + 1)) /\ i + 1 \in 1..(i + 1)
        /\ (\A k \in 1..(i + 1) : k = i + 1 \/ k \in 1..i) /\ 1..i \in SUBSET (1..m)
    OBVIOUS
  <2>4. at(i + 1) \in Int /\ at(i + 1) > 0 /\ \A k \in 1..i : at(k) \in Int
    BY <1>2, <2>1, <2>3
  <2>5. \E k \in 1..(i + 1) : h[i + 1] = at(k) /\ \A j \in 1..(i + 1) : at(j) <= at(k)
    <3>1. CASE i = 0
      <4>1. h[i + 1] = at(i + 1)
        BY <1>1, <2>2, <2>4, <3>1 DEF ESRCH
      <4>2. \A j \in 1..(i + 1) : j = i + 1
        BY <3>1
      <4>3. \A j \in 1..(i + 1) : at(j) <= at(i + 1)
        BY <2>4, <4>2
      <4> QED BY <2>3, <4>1, <4>3
    <3>2. CASE i # 0
      <4>1. PICK k \in 1..i : h[i] = at(k) /\ \A j \in 1..i : at(j) <= at(k)
        BY <1>5, <3>2
      <4>2. CASE at(i + 1) > h[i]
        <5>1. h[i + 1] = at(i + 1)
          BY <2>2, <4>2
        <5>2. \A j \in 1..(i + 1) : at(j) <= at(i + 1)
          BY <2>3, <2>4, <4>1, <4>2
        <5> QED BY <2>3, <5>1, <5>2
      <4>3. CASE ~(at(i + 1) > h[i])
        <5>1. h[i + 1] = at(k) /\ k \in 1..(i + 1)
          BY <2>2, <2>3, <4>1, <4>3
        <5>2. \A j \in 1..(i + 1) : at(j) <= at(k)
          BY <2>3, <2>4, <4>1, <4>3
        <5> QED BY <5>1, <5>2
      <4> QED BY <4>2, <4>3
    <3> QED BY <3>1, <3>2
  <2> QED BY <2>1, <2>5
<1> HIDE DEF T
<1>6. \A i \in 0..m : i \in T
  BY <1>4, <1>5, UpTo
<1>7. PICK k \in 1..m : h[m] = at(k) /\ \A j \in 1..m : at(j) <= at(k)
  <2>1. m \in T
    BY <1>6
  <2> QED BY <2>1 DEF T
<1>8. \A j \in 1..m : nice[order[k]] <= nice[order[j]]
  <2> TAKE j \in 1..m
  <2>1. at(j) <= at(k)
    BY <1>7
  <2> QED BY <1>2, <2>1
<1>9. getpriority(order) = at(k) /\ at(k) > 0
  BY <1>1, <1>2, <1>7
<1> QED BY <1>8, <1>9 DEF at

(* An order visits a finite set whole.                                     *)
LEMMA OrderIsWhole ==
  ASSUME NEW S, IsFiniteSet(S), S # {}, NEW order \in SetToSeqs(S)
  PROVE  \E m \in Nat \ {0} : order \in [1..m -> S] /\ \A p \in S : \E i \in 1..m : order[i] = p
<1> DEFINE m == Cardinality(S)
<1>1. m \in Nat /\ m # 0
  BY FS_CardinalityType, FS_EmptySet
<1>2. order \in [1..m -> S] /\ \A i, j \in 1..m : i # j => order[i] # order[j]
  BY DEF SetToSeqs
<1>3. order \in Injection(1..m, S)
  BY <1>2 DEF Injection, IsInjective
<1>4. Cardinality(1..m) = m
  BY <1>1, FS_Interval
<1>5. order \in Surjection(1..m, S)
  BY <1>3, <1>4, FS_Injection
<1>6. \A p \in S : \E i \in 1..m : order[i] = p
  BY <1>5 DEF Surjection
<1> HIDE DEF m
<1> QED BY <1>1, <1>2, <1>6

LEMMA AnswersAreTold == LimitsTypeOK => AnswersTell
<1> SUFFICES ASSUME LimitsTypeOK, NEW c \in Tasks, NEW of \in Selected, NEW n \in 0..MaxNice,
                    NEW order \in SetToSeqs(of)
             PROVE  /\ Answer(c, order, n) = "ok" <=> \A p \in of : set_one_prio(c, p, n) = "ok"
                    /\ getpriority(order) > 0
                    /\ \E p \in of : \A q \in of :
                         getpriority(order) = nice_to_rlimit(nice[p]) /\ nice[p] <= nice[q]
  BY DEF AnswersTell
<1>1. of \in SUBSET Tasks /\ of # {} /\ IsFiniteSet(of)
  BY LimitsAssumption, FS_Subset DEF LimitsAssumption, Selected
<1>2. PICK m \in Nat \ {0} : order \in [1..m -> of] /\ \A p \in of : \E i \in 1..m : order[i] = p
  BY <1>1, OrderIsWhole
<1>3. m \in Nat /\ m # 0 /\ order \in [1..m -> Tasks] /\ \A i \in 1..m : order[i] \in of
  BY <1>1, <1>2
<1>4. Answer(c, order, n) = "ok" <=> \A i \in 1..m : set_one_prio(c, order[i], n) = "ok"
  BY <1>3, AnswerIsWhole
<1>5. Answer(c, order, n) = "ok" <=> \A p \in of : set_one_prio(c, p, n) = "ok"
  <2>1. (\A i \in 1..m : set_one_prio(c, order[i], n) = "ok")
           <=> \A p \in of : set_one_prio(c, p, n) = "ok"
    BY <1>2, <1>3
  <2> QED BY <1>4, <2>1
<1>6. /\ getpriority(order) > 0
      /\ \E i \in 1..m : \A k \in 1..m :
           getpriority(order) = nice_to_rlimit(nice[order[i]]) /\ nice[order[i]] <= nice[order[k]]
  BY <1>3, BestIsFound
<1>7. \E p \in of : \A q \in of :
        getpriority(order) = nice_to_rlimit(nice[p]) /\ nice[p] <= nice[q]
  <2>1. PICK i \in 1..m : \A k \in 1..m :
          getpriority(order) = nice_to_rlimit(nice[order[i]]) /\ nice[order[i]] <= nice[order[k]]
    BY <1>6
  <2>2. \A q \in of :
          getpriority(order) = nice_to_rlimit(nice[order[i]]) /\ nice[order[i]] <= nice[q]
    BY <1>2, <2>1
  <2> QED BY <1>3, <2>2
<1> QED BY <1>5, <1>6, <1>7

LEMMA LimitsInvHolds == LimitsInv => LimitsAlways
<1> SUFFICES ASSUME LimitsInv PROVE LimitsAlways
  OBVIOUS
<1>1. TimerInTime
  BY DEF LimitsInv, TimerComing, TimerInTime
<1> QED BY <1>1, ToldInOrder, AnswersAreTold DEF LimitsInv, LimitsAlways

(* For any tasks and limits: soft limits stay within hard ones, the timer  *)
(* comes in time, no priority is reached that nobody granted, and          *)
(* setpriority and getpriority answer for all they were asked about        *)
(* (sys.c:200-345, 1381-1655).                                             *)
THEOREM LimitsHold == LimitsSpec => []LimitsAlways
BY LimitsInitInv, LimitsNextInv, LimitsInvHolds, PTL DEF LimitsSpec

-----------------------------------------------------------------------------
(* The map of a process (TaskMm).  What a thread has had validated and has *)
(* still to write must be in order by itself, since no lock keeps it from  *)
(* being written over any other map; within the limit of its time; and     *)
(* what it copies to the vector must end where the vector ends.            *)
Validated(m) == m \in [Fields -> Nat] /\ Ordered(m) /\ m.end_data < m.start_brk

Vector == {v \in [1..AT_VECTOR -> Nat] : v[AT_VECTOR] = AT_NULL}

ToWrite == {w \in [at: {"map"}, map: [Fields -> Nat], auxv: Vectors \cup {NONE}, limit: Nat] :
              Validated(w.map) /\ DataSize(w.map) <= w.limit}

Exchanges == [at: {"exe", "xchg"}, exe: Files, next: ToWrite \cup {OUT}]

Copies == [at: {"auxv"}, locked: BOOLEAN, auxv: Vector, i: 1..AT_VECTOR, len: 1..AT_VECTOR]

MmInv ==
  /\ mm \in [Fields -> Nat] /\ MapInOrder
  /\ saved_auxv \in Vector /\ data_limit \in Nat
  /\ prctl \in [Threads -> {OUT} \cup ToWrite \cup Exchanges \cup Copies]
  /\ \A t \in Threads : prctl[t].at = "auxv" => prctl[t].i <= prctl[t].len

LEMMA FieldNames ==
  \A m \in [Fields -> Nat] :
    /\ m.start_code \in Nat /\ m.end_code \in Nat /\ m.start_data \in Nat /\ m.end_data \in Nat
    /\ m.start_brk \in Nat /\ m.brk \in Nat /\ m.arg_start \in Nat /\ m.arg_end \in Nat
    /\ m.env_start \in Nat /\ m.env_end \in Nat
BY DEF Fields

LEMMA MmStates ==
  ASSUME MmInv, NEW t \in Threads
  PROVE  /\ prctl[t].at \in {"out", "map", "exe", "xchg", "auxv"}
         /\ prctl[t].at = "map" => prctl[t] \in ToWrite
         /\ prctl[t].at \in {"exe", "xchg"} => prctl[t] \in Exchanges
         /\ prctl[t].at = "auxv" => prctl[t] \in Copies
         /\ prctl[t] # OUT => prctl[t].at # "out"
<1>1. prctl[t] \in {OUT} \cup ToWrite \cup Exchanges \cup Copies
  BY DEF MmInv
<1>2. OUT.at = "out"
  BY DEF OUT
<1>3. \A w \in ToWrite : w.at = "map"
  BY DEF ToWrite
<1>4. \A w \in Exchanges : w.at \in {"exe", "xchg"}
  BY DEF Exchanges
<1>5. \A w \in Copies : w.at = "auxv"
  BY DEF Copies
<1> HIDE DEF OUT
<1> QED BY <1>1, <1>2, <1>3, <1>4, <1>5

(* A step that changes what one thread is about, and nothing else.         *)
LEMMA OneThread ==
  ASSUME MmInv, NEW t \in Threads, NEW next \in {OUT} \cup ToWrite \cup Exchanges \cup Copies,
         next.at = "auxv" => next.i <= next.len,
         prctl' = [prctl EXCEPT ![t] = next],
         mm' \in [Fields -> Nat], MapInOrder', saved_auxv' \in Vector, UNCHANGED data_limit
  PROVE  MmInv'
<1>1. prctl'[t] = next /\ \A u \in Threads \ {t} : prctl'[u] = prctl[u]
  BY DEF MmInv
<1>2. prctl' \in [Threads -> {OUT} \cup ToWrite \cup Exchanges \cup Copies]
  BY DEF MmInv
<1>3. \A u \in Threads : prctl'[u].at = "auxv" => prctl'[u].i <= prctl'[u].len
  BY <1>1 DEF MmInv
<1> QED BY <1>2, <1>3 DEF MmInv

LEMMA ValidatedMap ==
  ASSUME NEW m \in [Fields -> Nat], validate_prctl_map_addr(m)
  PROVE  Validated(m) /\ DataSize(m) <= data_limit
BY FieldNames DEF Validated, validate_prctl_map_addr, check_data_rlimit

LEMMA EndedVector ==
  ASSUME NEW v \in Vectors
  PROVE  Ended(v) \in Vector
<1>1. v \in [1..AT_VECTOR -> Nat] /\ AT_VECTOR \in 1..AT_VECTOR
  BY MmAssumption DEF MmAssumption
<1> QED BY <1>1 DEF Ended, Vector, AT_NULL

LEMMA MmInitInv == MmInit => MmInv
<1> SUFFICES ASSUME MmInit PROVE MmInv
  OBVIOUS
<1>1. /\ mm \in ExecMaps /\ mm \in [Fields -> Nat]
      /\ Ordered(mm) /\ mm.end_data <= mm.start_brk /\ data_limit \in Nat
  BY MmAssumption DEF MmAssumption, MmInit
<1>2. saved_auxv \in Vector
  BY MmAssumption DEF MmAssumption, MmInit, Vector, AT_NULL
<1>3. prctl \in [Threads -> {OUT}] /\ OUT.at = "out"
  BY DEF MmInit, OUT
<1> HIDE DEF OUT
<1> QED BY <1>1, <1>2, <1>3 DEF MmInv, MapInOrder

LEMMA SetFieldStep ==
  ASSUME MmInv, NEW t \in Threads, NEW change \in Changes, prctl_set_mm(t, change)
  PROVE  MmInv' /\ MmStep
<1> DEFINE new == [mm EXCEPT ![change.field] = change.addr]
<1>1. new \in [Fields -> Nat]
  BY MmAssumption DEF MmAssumption, MmInv
<1>2. /\ validate_prctl_map_addr(new) /\ mm' = new /\ UNCHANGED <<saved_auxv, data_limit, prctl>>
  BY DEF prctl_set_mm
<1> HIDE DEF new
<1>3. Validated(new) /\ DataSize(new) <= data_limit
  BY <1>1, <1>2, ValidatedMap
<1>4. new.end_data \in Nat /\ new.start_brk \in Nat
  BY <1>1, FieldNames
<1>5. MmStep
  <2>1. DataWithinLimit
    <3>1. DataSize(new) \in Int /\ data_limit \in Int
      BY <1>1, FieldNames DEF DataSize, MmInv
    <3> QED BY <1>2, <1>3, <3>1 DEF DataWithinLimit
  <2> QED BY <1>2, <1>3, <1>4, <2>1 DEF MmStep, HeapStaysAbove, Validated
<1> QED BY <1>1, <1>2, <1>3, <1>4, <1>5 DEF MmInv, MapInOrder, Validated

LEMMA SetMapStep ==
  ASSUME MmInv, NEW t \in Threads, NEW map \in Maps, NEW vector \in Vectors \cup {NONE},
         NEW exe \in Files \cup {NONE}, prctl_set_mm_map(t, map, vector, exe)
  PROVE  MmInv' /\ MmStep
<1> DEFINE write == [at |-> "map", map |-> map, auxv |-> vector, limit |-> data_limit]
<1>1. /\ validate_prctl_map_addr(map)
      /\ prctl' = [prctl EXCEPT ![t] = IF exe = NONE THEN write ELSE Exchange(exe, write)]
      /\ UNCHANGED <<mm, saved_auxv, data_limit>>
  BY DEF prctl_set_mm_map
<1>2. map \in [Fields -> Nat]
  BY MmAssumption DEF MmAssumption
<1>3. Validated(map) /\ DataSize(map) <= data_limit
  BY <1>1, <1>2, ValidatedMap
<1>4. write \in ToWrite /\ write.at = "map"
  BY <1>2, <1>3 DEF ToWrite, MmInv
<1> HIDE DEF write
<1>5. exe # NONE => Exchange(exe, write) \in Exchanges /\ Exchange(exe, write).at = "exe"
  BY <1>4 DEF Exchange, Exchanges
<1>6. MapInOrder' /\ MmStep
  BY <1>1 DEF MmInv, MapInOrder, MmStep, HeapStaysAbove, DataWithinLimit
<1>7. CASE exe = NONE
  BY <1>1, <1>4, <1>6, <1>7, OneThread DEF MmInv
<1>8. CASE exe # NONE
  BY <1>1, <1>5, <1>6, <1>8, OneThread DEF MmInv
<1> QED BY <1>7, <1>8

LEMMA SetAuxvStep ==
  ASSUME MmInv, NEW t \in Threads, NEW vector \in Vectors, NEW len \in 1..AT_VECTOR,
         prctl_set_auxv(t, vector, len)
  PROVE  MmInv' /\ MmStep
<1> DEFINE next == Copy(FALSE, Ended(vector), len)
<1>1. prctl' = [prctl EXCEPT ![t] = next] /\ UNCHANGED <<mm, saved_auxv, data_limit>>
  BY DEF prctl_set_auxv
<1>2. next \in Copies /\ next.i <= next.len
  BY EndedVector, MmAssumption DEF MmAssumption, Copy, Copies
<1> HIDE DEF next
<1>3. MapInOrder' /\ MmStep
  BY <1>1 DEF MmInv, MapInOrder, MmStep, HeapStaysAbove, DataWithinLimit
<1> QED BY <1>1, <1>2, <1>3, OneThread DEF MmInv

LEMMA ExeFileStep ==
  ASSUME MmInv, NEW t \in Threads,
         (\E exe \in Files : set_exe_file(t, exe)) \/ check_exe_file(t) \/ xchg_exe_file(t)
  PROVE  MmInv' /\ MmStep
<1>1. UNCHANGED <<mm, saved_auxv, data_limit>>
  BY DEF set_exe_file, check_exe_file, xchg_exe_file
<1>2. MapInOrder' /\ MmStep
  BY <1>1 DEF MmInv, MapInOrder, MmStep, HeapStaysAbove, DataWithinLimit
<1>3. OUT.at = "out" /\ (\A w \in Exchanges : w.at # "auxv") /\ \A w \in ToWrite : w.at # "auxv"
  BY DEF OUT, Exchanges, ToWrite
<1>4. PICK next \in {OUT} \cup ToWrite \cup Exchanges : prctl' = [prctl EXCEPT ![t] = next]
  <2>1. CASE \E exe \in Files : set_exe_file(t, exe)
    <3>1. PICK exe \in Files : prctl' = [prctl EXCEPT ![t] = Exchange(exe, OUT)]
      BY <2>1 DEF set_exe_file
    <3>2. Exchange(exe, OUT) \in Exchanges
      BY DEF Exchange, Exchanges
    <3> QED BY <3>1, <3>2
  <2>2. CASE check_exe_file(t)
    <3>1. /\ prctl[t] \in Exchanges
          /\ prctl' = [prctl EXCEPT ![t] = IF file_mapped THEN OUT ELSE [@ EXCEPT !.at = "xchg"]]
      BY <2>2, MmStates DEF check_exe_file
    <3>2. [prctl[t] EXCEPT !.at = "xchg"] \in Exchanges
      BY <3>1 DEF Exchanges
    <3> QED BY <3>1, <3>2
  <2>3. CASE xchg_exe_file(t)
    <3>1. prctl[t] \in Exchanges /\ prctl' = [prctl EXCEPT ![t] = @.next]
      BY <2>3, MmStates DEF xchg_exe_file
    <3>2. prctl[t].next \in ToWrite \cup {OUT}
      BY <3>1 DEF Exchanges
    <3> QED BY <3>1, <3>2
  <2> QED BY <2>1, <2>2, <2>3
<1> HIDE DEF OUT
<1>5. next.at # "auxv"
  BY <1>3
<1> QED BY <1>1, <1>2, <1>4, <1>5, OneThread DEF MmInv

LEMMA WriteMapStep ==
  ASSUME MmInv, NEW t \in Threads, write_map(t)
  PROVE  MmInv' /\ MmStep
<1> DEFINE c == prctl[t]
           next == IF c.auxv = NONE THEN OUT ELSE Copy(TRUE, Ended(c.auxv), AT_VECTOR)
<1>1. /\ c \in ToWrite /\ mm' = c.map /\ prctl' = [prctl EXCEPT ![t] = next] /\ UNCHANGED <<saved_auxv, data_limit>>
  BY MmStates DEF write_map
<1>2. c.map \in [Fields -> Nat] /\ Validated(c.map) /\ c.auxv \in Vectors \cup {NONE}
  BY <1>1 DEF ToWrite
<1>3. next \in {OUT} \cup Copies /\ (next.at = "auxv" => next.i <= next.len)
  <2>1. CASE c.auxv = NONE
    BY <2>1 DEF OUT
  <2>2. CASE c.auxv # NONE
    <3>1. Ended(c.auxv) \in Vector
      BY <1>2, <2>2, EndedVector
    <3> QED BY <2>2, <3>1, MmAssumption DEF MmAssumption, Copy, Copies
  <2> QED BY <2>1, <2>2
<1> HIDE DEF next, c
<1>4. c.map.end_data \in Nat /\ c.map.start_brk \in Nat
  BY <1>2, FieldNames
<1>5. MapInOrder' /\ MmStep
  <2>1. DataWithinLimit
    <3>1. /\ c.at = "map" /\ DataSize(c.map) <= c.limit /\ c.limit \in Nat /\ data_limit \in Nat
          /\ DataSize(c.map) \in Int
      BY <1>1, <1>2, FieldNames DEF ToWrite, DataSize, MmInv
    <3>2. prctl'[t] = next /\ next # c
      <4>1. prctl'[t] = next
        BY <1>1 DEF MmInv
      <4>2. \A w \in {OUT} \cup Copies : w.at # "map"
        BY DEF OUT, Copies
      <4> QED BY <1>3, <3>1, <4>1, <4>2
    <3> QED BY <1>1, <3>1, <3>2 DEF DataWithinLimit, c
  <2> QED BY <1>1, <1>2, <1>4, <2>1 DEF MapInOrder, MmStep, HeapStaysAbove, Validated
<1>6. mm' \in [Fields -> Nat] /\ saved_auxv' \in Vector
  BY <1>1, <1>2 DEF MmInv
<1> QED BY <1>1, <1>3, <1>5, <1>6, OneThread

LEMMA CopyAuxvStep ==
  ASSUME MmInv, NEW t \in Threads, copy_auxv(t)
  PROVE  MmInv' /\ MmStep
<1> DEFINE c == prctl[t]
           next == IF c.i = c.len THEN OUT ELSE [c EXCEPT !.i = @ + 1]
<1>1. /\ c \in Copies /\ c.at = "auxv" /\ c.i <= c.len
      /\ saved_auxv' = [saved_auxv EXCEPT ![c.i] = c.auxv[c.i]]
      /\ prctl' = [prctl EXCEPT ![t] = next] /\ UNCHANGED <<mm, data_limit>>
  BY MmStates DEF copy_auxv, MmInv
<1>2. c.auxv \in Vector /\ c.i \in 1..AT_VECTOR /\ c.len \in 1..AT_VECTOR
  BY <1>1 DEF Copies
<1>3. saved_auxv' \in Vector
  <2>1. c.auxv \in [1..AT_VECTOR -> Nat] /\ c.auxv[AT_VECTOR] = AT_NULL
    BY <1>2 DEF Vector
  <2>2. PICK entry \in Nat : entry = c.auxv[c.i]
    BY <1>2, <2>1
  <2>3. saved_auxv \in [1..AT_VECTOR -> Nat] /\ saved_auxv[AT_VECTOR] = AT_NULL
    BY DEF MmInv, Vector
  <2>4. saved_auxv' = [saved_auxv EXCEPT ![c.i] = entry] /\ (c.i = AT_VECTOR => entry = AT_NULL)
    BY <1>1, <2>1, <2>2
  <2>5. saved_auxv' \in [1..AT_VECTOR -> Nat]
    BY <2>3, <2>4
  <2>6. saved_auxv'[AT_VECTOR] = AT_NULL
    <3>1. AT_VECTOR \in 1..AT_VECTOR
      BY MmAssumption DEF MmAssumption
    <3> QED BY <2>3, <2>4, <3>1
  <2> QED BY <2>5, <2>6 DEF Vector
<1>4. next \in {OUT} \cup Copies /\ (next.at = "auxv" => next.i <= next.len)
  <2>1. CASE c.i = c.len
    BY <2>1 DEF OUT
  <2>2. CASE c.i # c.len
    <3>1. c.i + 1 \in 1..AT_VECTOR /\ c.i + 1 <= c.len
      BY <1>1, <1>2, <2>2, MmAssumption DEF MmAssumption
    <3>2. next = [c EXCEPT !.i = c.i + 1]
      BY <2>2
    <3>3. next \in Copies /\ next.i = c.i + 1 /\ next.len = c.len
      BY <1>1, <3>1, <3>2 DEF Copies
    <3> QED BY <3>1, <3>3
  <2> QED BY <2>1, <2>2
<1> HIDE DEF next, c
<1>5. MapInOrder' /\ MmStep /\ mm' \in [Fields -> Nat]
  BY <1>1 DEF MmInv, MapInOrder, MmStep, HeapStaysAbove, DataWithinLimit
<1> QED BY <1>1, <1>3, <1>4, <1>5, OneThread

LEMMA BrkStep ==
  ASSUME MmInv, NEW brk \in Nat, sys_brk(brk)
  PROVE  MmInv' /\ MmStep
<1> DEFINE new == [mm EXCEPT !.brk = brk]
<1>1. /\ brk \in mm.start_brk..(TASK_SIZE - 1) /\ check_data_rlimit(new)
      /\ mm' = new /\ UNCHANGED <<saved_auxv, data_limit, prctl>>
  BY DEF sys_brk
<1>2. new \in [Fields -> Nat] /\ new.brk = brk /\ \A f \in Fields \ {"brk"} : new[f] = mm[f]
  BY DEF MmInv, Fields
<1> HIDE DEF new
<1>3. /\ new.start_code = mm.start_code /\ new.end_code = mm.end_code
      /\ new.start_data = mm.start_data /\ new.end_data = mm.end_data
      /\ new.start_brk = mm.start_brk /\ new.arg_start = mm.arg_start
      /\ new.arg_end = mm.arg_end /\ new.env_start = mm.env_start /\ new.env_end = mm.env_end
  BY <1>2 DEF Fields
<1>4. mm.start_brk <= brk
  BY <1>1
<1>5. Ordered(new) /\ new.end_data <= new.start_brk
  BY <1>2, <1>3, <1>4 DEF MmInv, MapInOrder, Ordered
<1>6. MmStep
  <2>1. DataSize(new) <= data_limit /\ DataSize(new) \in Int /\ data_limit \in Int
    BY <1>1, <1>2, FieldNames DEF check_data_rlimit, DataSize, MmInv
  <2> QED BY <1>1, <1>3, <2>1 DEF MmStep, HeapStaysAbove, DataWithinLimit
<1>7. MapInOrder'
  BY <1>1, <1>5 DEF MapInOrder
<1> QED BY <1>1, <1>2, <1>6, <1>7 DEF MmInv

LEMMA MmNextInv == MmInv /\ [MmNext]_mmv => MmInv' /\ [MmStep]_mmv
<1> SUFFICES ASSUME MmInv, [MmNext]_mmv PROVE MmInv' /\ [MmStep]_mmv
  OBVIOUS
<1>1. ASSUME UNCHANGED <<mm, saved_auxv, prctl>>, data_limit' \in Nat PROVE MmInv' /\ MmStep
  BY <1>1 DEF MmInv, MapInOrder, MmStep, HeapStaysAbove, DataWithinLimit
<1>2. CASE UNCHANGED mmv
  BY <1>1, <1>2 DEF mmv, MmInv
<1>3. ASSUME NEW t \in Threads,
             \/ \E c \in Changes : prctl_set_mm(t, c)
             \/ \E m \in Maps, v \in Vectors \cup {NONE}, f \in Files \cup {NONE} :
                  prctl_set_mm_map(t, m, v, f)
             \/ \E v \in Vectors, n \in 1..AT_VECTOR : prctl_set_auxv(t, v, n)
             \/ \E f \in Files : set_exe_file(t, f)
             \/ check_exe_file(t) \/ xchg_exe_file(t) \/ write_map(t) \/ copy_auxv(t)
      PROVE  MmInv' /\ MmStep
  BY <1>3, SetFieldStep, SetMapStep, SetAuxvStep, ExeFileStep, WriteMapStep, CopyAuxvStep
<1>4. ASSUME NEW a \in Breaks, sys_brk(a) PROVE MmInv' /\ MmStep
  <2>1. a \in Nat
    <3>1. a \in mm.start_brk..(TASK_SIZE - 1) /\ mm.start_brk \in Nat
      BY <1>4, FieldNames DEF sys_brk, MmInv
    <3> QED BY <3>1, MmAssumption DEF MmAssumption
  <2> QED BY <1>4, <2>1, BrkStep
<1>5. ASSUME NEW a \in Tops, munmap(a) PROVE MmInv' /\ MmStep
  BY <1>1, <1>5 DEF munmap, MmInv
<1>6. ASSUME NEW l \in DataLimits, set_data_limit(l) PROVE MmInv' /\ MmStep
  <2>1. l \in Nat
    BY MmAssumption DEF MmAssumption
  <2> QED BY <1>1, <1>6, <2>1 DEF set_data_limit
<1> QED BY <1>2, <1>3, <1>4, <1>5, <1>6 DEF MmNext

LEMMA MmInvHolds == MmInv => MmAlways
BY DEF MmInv, MmAlways, AuxvEnds, Vector

-----------------------------------------------------------------------------
(* Use (TaskUsage).  First, sums over sets of threads: what                *)
(* SumFunctionOnSet answers does not depend on the order it adds in.       *)
First(S) == CHOOSE x \in S : TRUE

Added(g, S, f) ==
  /\ DOMAIN g = SUBSET S
  /\ \A R \in SUBSET S : g[R] = IF R = {} THEN 0 ELSE f[First(R)] + g[R \ {First(R)}]

NatSums(g, S, f) == f \in [S -> Nat] /\ g \in [SUBSET S -> Nat] /\ Added(g, S, f)

UpToSize(S, m) == {R \in SUBSET S : Cardinality(R) <= m}

LEMMA Smaller ==
  ASSUME NEW S, IsFiniteSet(S), NEW R \in SUBSET S
  PROVE  /\ IsFiniteSet(R) /\ Cardinality(R) \in Nat /\ Cardinality(R) <= Cardinality(S)
         /\ Cardinality(R) = 0 <=> R = {}
         /\ \A x \in R : R \ {x} \in SUBSET S /\ Cardinality(R \ {x}) = Cardinality(R) - 1
<1>1. IsFiniteSet(R) /\ Cardinality(R) \in Nat /\ Cardinality(R) <= Cardinality(S)
  BY FS_Subset, FS_CardinalityType
<1>2. Cardinality(R) = 0 <=> R = {}
  BY <1>1, FS_EmptySet
<1>3. \A x \in R : R \ {x} \in SUBSET S /\ Cardinality(R \ {x}) = Cardinality(R) - 1
  BY <1>1, FS_RemoveElement
<1> QED BY <1>1, <1>2, <1>3

LEMMA SumTable ==
  ASSUME NEW S, IsFiniteSet(S), NEW f \in [S -> Nat]
  PROVE  \E g \in [SUBSET S -> Nat] : Added(g, S, f)
<1> DEFINE N == Cardinality(S)
           Good(g, m) == /\ g \in [UpToSize(S, m) -> Nat]
                         /\ \A R \in UpToSize(S, m) :
                              g[R] = IF R = {} THEN 0 ELSE f[First(R)] + g[R \ {First(R)}]
           T == {m \in 0..N : \E g : Good(g, m)}
<1>0. N \in Nat
  BY FS_CardinalityType
<1>a. \A R \in SUBSET S : R # {} => First(R) \in R
  BY DEF First
<1>1. 0 \in T
  <2>1. \A R \in UpToSize(S, 0) : R = {}
    BY Smaller DEF UpToSize
  <2>2. PICK g : g = [R \in UpToSize(S, 0) |-> 0]
    OBVIOUS
  <2>3. Good(g, 0)
    BY <2>1, <2>2
  <2> HIDE DEF Good
  <2> QED BY <1>0, <2>3
<1>2. ASSUME NEW m \in 0..(N - 1), m \in T PROVE m + 1 \in T
  <2>1. PICK g : Good(g, m)
    BY <1>2
  <2>2. \A R \in UpToSize(S, m + 1) :
          R # {} => /\ R \in SUBSET S /\ First(R) \in R /\ f[First(R)] \in Nat
                    /\ R \ {First(R)} \in UpToSize(S, m)
    <3> TAKE R \in UpToSize(S, m + 1)
    <3> HAVE R # {}
    <3>1. R \in SUBSET S /\ Cardinality(R) <= m + 1
      BY DEF UpToSize
    <3>2. First(R) \in R
      BY <1>a, <3>1
    <3>3. R \ {First(R)} \in SUBSET S /\ Cardinality(R \ {First(R)}) = Cardinality(R) - 1
          /\ Cardinality(R) \in Nat
      BY <3>1, <3>2, Smaller
    <3> QED BY <1>0, <3>1, <3>2, <3>3 DEF UpToSize
  <2>3. UpToSize(S, m) \subseteq UpToSize(S, m + 1)
    BY <1>0, Smaller DEF UpToSize
  <2> DEFINE h == [R \in UpToSize(S, m + 1) |->
                     IF R = {} THEN 0 ELSE f[First(R)] + g[R \ {First(R)}]]
  <2>4. \A R \in UpToSize(S, m) : h[R] = g[R]
    BY <2>1, <2>3
  <2>5. h \in [UpToSize(S, m + 1) -> Nat]
    BY <2>1, <2>2
  <2>6. \A R \in UpToSize(S, m + 1) :
          h[R] = IF R = {} THEN 0 ELSE f[First(R)] + h[R \ {First(R)}]
    BY <2>2, <2>4
  <2> HIDE DEF h
  <2>7. Good(h, m + 1)
    BY <2>5, <2>6
  <2>8. m + 1 \in 0..N
    BY <1>0
  <2> HIDE DEF Good
  <2> QED BY <2>7, <2>8
<1> HIDE DEF T
<1>3. \A i \in 0..N : i \in T
  BY <1>0, <1>1, <1>2, UpTo
<1>4. PICK g : Good(g, N)
  <2>1. N \in T
    BY <1>0, <1>3
  <2> HIDE DEF Good
  <2> QED BY <2>1 DEF T
<1>5. UpToSize(S, N) = SUBSET S
  BY Smaller DEF UpToSize
<1>6. g \in [SUBSET S -> Nat] /\ Added(g, S, f)
  BY <1>4, <1>5 DEF Added
<1> QED BY <1>6

(* Two tables that are so defined agree where both say something.          *)
LEMMA SameSums ==
  ASSUME NEW S, IsFiniteSet(S), NEW f, NEW g, NEW h, NEW R \in SUBSET S,
         Added(g, S, f), Added(h, R, f)
  PROVE  g[R] = h[R]
<1> DEFINE N == Cardinality(R)
           T == {m \in 0..N : \A Q \in UpToSize(R, m) : g[Q] = h[Q]}
<1>0. IsFiniteSet(R) /\ N \in Nat
  BY Smaller
<1>a. \A Q \in SUBSET R : Q # {} => First(Q) \in Q
  BY DEF First
<1>1. 0 \in T
  <2>1. \A Q \in UpToSize(R, 0) : Q = {}
    BY <1>0, Smaller DEF UpToSize
  <2>2. g[{}] = 0 /\ h[{}] = 0
    BY DEF Added
  <2>3. \A Q \in UpToSize(R, 0) : g[Q] = h[Q]
    <3> TAKE Q \in UpToSize(R, 0)
    <3>1. Q = {}
      BY <2>1
    <3> QED BY <2>2, <3>1
  <2> QED BY <1>0, <2>3
<1>2. ASSUME NEW m \in 0..(N - 1), m \in T PROVE m + 1 \in T
  <2>1. ASSUME NEW Q \in UpToSize(R, m + 1) PROVE g[Q] = h[Q]
    <3>1. Q \in SUBSET R /\ Q \in SUBSET S /\ Cardinality(Q) <= m + 1
      BY DEF UpToSize
    <3>2. CASE Q = {}
      BY <3>2 DEF Added
    <3>3. CASE Q # {}
      <4>1. First(Q) \in Q
        BY <1>a, <3>1, <3>3
      <4>2. Q \ {First(Q)} \in SUBSET R /\ Cardinality(Q \ {First(Q)}) = Cardinality(Q) - 1
            /\ Cardinality(Q) \in Nat
        BY <1>0, <3>1, <4>1, Smaller
      <4>3. Q \ {First(Q)} \in UpToSize(R, m)
        BY <1>0, <3>1, <4>2 DEF UpToSize
      <4>4. g[Q \ {First(Q)}] = h[Q \ {First(Q)}]
        BY <1>2, <4>3
      <4>5. g[Q] = f[First(Q)] + g[Q \ {First(Q)}] /\ h[Q] = f[First(Q)] + h[Q \ {First(Q)}]
        BY <3>1, <3>3 DEF Added
      <4> QED BY <4>4, <4>5
    <3> QED BY <3>2, <3>3
  <2>2. m + 1 \in 0..N
    BY <1>0
  <2> QED BY <2>1, <2>2
<1> HIDE DEF T
<1>3. \A i \in 0..N : i \in T
  BY <1>0, <1>1, <1>2, UpTo
<1>4. N \in T /\ R \in UpToSize(R, N)
  BY <1>0, <1>3 DEF UpToSize
<1> QED BY <1>4 DEF T

(* A sum may be taken with any element first.                              *)
LEMMA AnyFirst ==
  ASSUME NEW S, IsFiniteSet(S), NEW f, NEW g, NatSums(g, S, f),
         NEW Q \in SUBSET S, NEW q \in Q
  PROVE  g[Q] = f[q] + g[Q \ {q}]
<1> DEFINE N == Cardinality(S)
           T == {m \in 0..N : \A R \in UpToSize(S, m) : \A x \in R : g[R] = f[x] + g[R \ {x}]}
<1>0. N \in Nat
  BY FS_CardinalityType
<1>c. f \in [S -> Nat] /\ g \in [SUBSET S -> Nat] /\ Added(g, S, f)
  BY DEF NatSums
<1>a. \A R \in SUBSET S : R # {} => First(R) \in R
  BY DEF First
<1>b. \A R \in SUBSET S : g[R] \in Nat
  BY <1>c
<1>1. 0 \in T
  <2>1. \A R \in UpToSize(S, 0) : R = {}
    BY Smaller DEF UpToSize
  <2> QED BY <1>0, <2>1
<1>2. ASSUME NEW m \in 0..(N - 1), m \in T PROVE m + 1 \in T
  <2>1. ASSUME NEW R \in UpToSize(S, m + 1), NEW x \in R PROVE g[R] = f[x] + g[R \ {x}]
    <3> DEFINE y == First(R)
    <3>1. R \in SUBSET S /\ Cardinality(R) <= m + 1 /\ y \in R
      BY <1>a DEF UpToSize
    <3> HIDE DEF y
    <3>2. g[R] = f[y] + g[R \ {y}]
      BY <1>c, <3>1 DEF Added, y
    <3>3. \A z \in R : R \ {z} \in UpToSize(S, m)
      <4> TAKE z \in R
      <4>1. R \ {z} \in SUBSET S /\ Cardinality(R \ {z}) = Cardinality(R) - 1 /\
              Cardinality(R) \in Nat
        BY <3>1, Smaller
      <4> QED BY <1>0, <3>1, <4>1 DEF UpToSize
    <3>4. CASE x = y
      BY <3>2, <3>4
    <3>5. CASE x # y
      <4>1. x \in R \ {y} /\ y \in R \ {x}
        BY <3>1, <3>5
      <4>2. PICK rest \in SUBSET S : rest = (R \ {y}) \ {x} /\ rest = (R \ {x}) \ {y}
        BY <3>1
      <4>6. R \ {y} \in UpToSize(S, m) /\ R \ {x} \in UpToSize(S, m)
        BY <3>1, <3>3
      <4>7. \A P \in UpToSize(S, m) : \A z \in P : g[P] = f[z] + g[P \ {z}]
        BY <1>2
      <4>3. g[R \ {y}] = f[x] + g[rest]
        BY <4>1, <4>2, <4>6, <4>7
      <4>4. g[R \ {x}] = f[y] + g[rest]
        BY <4>1, <4>2, <4>6, <4>7
      <4>5. f[x] \in Nat /\ f[y] \in Nat /\ g[rest] \in Nat
        BY <1>c, <3>1
      <4> QED BY <3>2, <4>3, <4>4, <4>5
    <3> QED BY <3>4, <3>5
  <2>2. m + 1 \in 0..N
    BY <1>0
  <2> QED BY <2>1, <2>2
<1> HIDE DEF T
<1>3. \A i \in 0..N : i \in T
  BY <1>0, <1>1, <1>2, UpTo
<1>4. N \in T /\ UpToSize(S, N) = SUBSET S
  BY <1>0, <1>3, Smaller DEF UpToSize
<1> QED BY <1>4 DEF T

(* The table of all sums over sets of threads.                             *)
SumsOf(g, S, f) ==
  /\ g \in [SUBSET S -> Nat] /\ g[{}] = 0
  /\ \A R \in SUBSET S : /\ g[R] = SumFunctionOnSet(f, R)
                         /\ \A x \in R : g[R] = f[x] + g[R \ {x}]

LEMMA SumsExist ==
  ASSUME NEW S, IsFiniteSet(S), NEW f \in [S -> Nat]
  PROVE  \E g : SumsOf(g, S, f)
<1>1. PICK g \in [SUBSET S -> Nat] : Added(g, S, f)
  BY SumTable
<1>2. ASSUME NEW R \in SUBSET S PROVE g[R] = SumFunctionOnSet(f, R)
  <2> DEFINE it == CHOOSE h : h = [Q \in SUBSET R |->
                     IF Q = {} THEN 0
                     ELSE f[CHOOSE x \in Q : TRUE] + h[Q \ {CHOOSE x \in Q : TRUE}]]
  <2>1. SumFunctionOnSet(f, R) = it[R]
    BY Zenon DEF SumFunctionOnSet, FoldFunctionOnSet, MapThenFoldSet
  <2>2. PICK h : h = [Q \in SUBSET R |-> g[Q]]
    OBVIOUS
  <2>3. \A Q \in SUBSET R : Q # {} => Q \ {First(Q)} \in SUBSET R
    OBVIOUS
  <2>4. \A Q \in SUBSET R : h[Q] = IF Q = {} THEN 0 ELSE f[First(Q)] + h[Q \ {First(Q)}]
    BY <1>1, <2>2, <2>3 DEF Added
  <2>5. h = [Q \in SUBSET R |-> IF Q = {} THEN 0 ELSE f[First(Q)] + h[Q \ {First(Q)}]]
    BY <2>2, <2>4
  <2>6. it = [Q \in SUBSET R |->
                IF Q = {} THEN 0
                ELSE f[CHOOSE x \in Q : TRUE] + it[Q \ {CHOOSE x \in Q : TRUE}]]
    BY <2>5, Zenon DEF First
  <2> HIDE DEF it
  <2>7. it = [Q \in SUBSET R |-> IF Q = {} THEN 0 ELSE f[First(Q)] + it[Q \ {First(Q)}]]
    BY <2>6, Zenon DEF First
  <2>8. Added(it, R, f)
    BY <2>7 DEF Added
  <2> QED BY <1>1, <2>1, <2>8, SameSums
<1>3. g[{}] = 0
  BY <1>1 DEF Added
<1>4. \A R \in SUBSET S : \A x \in R : g[R] = f[x] + g[R \ {x}]
  <2>1. NatSums(g, S, f)
    BY <1>1 DEF NatSums
  <2>2. ASSUME NEW R \in SUBSET S, NEW x \in R PROVE g[R] = f[x] + g[R \ {x}]
    BY <2>1, AnyFirst
  <2> QED BY <2>2
<1>5. SumsOf(g, S, f)
  BY <1>1, <1>2, <1>3, <1>4 DEF SumsOf
<1> QED BY <1>5

(* What the process has used, and what a call under way will at least have *)
(* counted when it has visited all threads there are.  The sum of a call   *)
(* that holds siglock, with what its threads to visit have used, is        *)
(* between what was told before and what the process has used.             *)
Total == signal.used + SumFunctionOnSet(used, group)

UsageTyped ==
  /\ group \in SUBSET ThreadGroup /\ used \in [ThreadGroup -> Nat]
  /\ signal = [used |-> signal.used, cused |-> signal.cused]
  /\ signal.used \in Nat /\ signal.cused \in Nat
  /\ siglock \in BOOLEAN
  /\ reader = [who |-> reader.who, visited |-> reader.visited, sum |-> reader.sum]
  /\ reader.who \in RUSAGE \cup {"times", "none"} /\ reader.sum \in Nat
  /\ reader.who = "none" => reader = NOCALL
  /\ siglock <=> reader.who \in RUSAGE
  /\ last \in [RUSAGE \cup TMS -> Nat]

ToldBefore ==
  /\ last["SELF"] <= Total /\ last["CHILDREN"] <= signal.cused
  /\ last["BOTH"] <= Total + signal.cused
  /\ last["tms_utime"] <= Total /\ last["tms_cutime"] <= signal.cused

Counting ==
  LET all == reader.sum + SumFunctionOnSet(used, group \ reader.visited) IN
  /\ reader.who = "SELF" => last["SELF"] <= all /\ all <= Total
  /\ reader.who = "CHILDREN" => last["CHILDREN"] <= reader.sum /\ reader.sum <= signal.cused
  /\ reader.who = "BOTH" => last["BOTH"] <= all /\ all <= Total + signal.cused
  /\ reader.who = "times" => last["tms_utime"] <= reader.sum /\ reader.sum <= Total

UsageInv == UsageTyped /\ ToldBefore /\ Counting

LEMMA Sums ==
  ASSUME UsageTyped
  PROVE  /\ SumFunctionOnSet(used, {}) = 0
         /\ \A R \in SUBSET ThreadGroup :
              /\ SumFunctionOnSet(used, R) \in Nat
              /\ \A x \in R : SumFunctionOnSet(used, R) = used[x] + SumFunctionOnSet(used, R \ {x})
<1>1. PICK g : SumsOf(g, ThreadGroup, used)
  BY SumsExist, UsageAssumption DEF UsageAssumption, UsageTyped
<1>2. \A R \in SUBSET ThreadGroup : \A x \in R : R \ {x} \in SUBSET ThreadGroup
  OBVIOUS
<1>3. {} \in SUBSET ThreadGroup
  OBVIOUS
<1> QED BY <1>1, <1>2, <1>3 DEF SumsOf

(* A thread that has used one more adds one to the sums it is in.          *)
LEMMA MoreUsed ==
  ASSUME UsageTyped, UsageTyped', NEW t \in ThreadGroup, used' = [used EXCEPT ![t] = @ + 1]
  PROVE  \A R \in SUBSET ThreadGroup :
           SumFunctionOnSet(used', R) = SumFunctionOnSet(used, R) + (IF t \in R THEN 1 ELSE 0)
<1>1. PICK g : SumsOf(g, ThreadGroup, used)
  BY SumsExist, UsageAssumption DEF UsageAssumption, UsageTyped
<1>2. PICK h : SumsOf(h, ThreadGroup, used')
  BY SumsExist, UsageAssumption DEF UsageAssumption, UsageTyped
<1>3. IsFiniteSet(ThreadGroup)
  BY UsageAssumption DEF UsageAssumption
<1> DEFINE N == Cardinality(ThreadGroup)
           more(R) == IF t \in R THEN 1 ELSE 0
           T == {m \in 0..N : \A R \in UpToSize(ThreadGroup, m) : h[R] = g[R] + more(R)}
<1>4. N \in Nat
  BY <1>3, FS_CardinalityType
<1>5. \A x \in ThreadGroup : used[x] \in Nat /\ used'[x] = used[x] + (IF x = t THEN 1 ELSE 0)
  BY DEF UsageTyped
<1>6. 0 \in T
  <2>1. \A R \in UpToSize(ThreadGroup, 0) : R = {}
    BY <1>3, Smaller DEF UpToSize
  <2>2. h[{}] = g[{}] + more({})
    BY <1>1, <1>2 DEF SumsOf
  <2>3. \A R \in UpToSize(ThreadGroup, 0) : h[R] = g[R] + more(R)
    <3> TAKE R \in UpToSize(ThreadGroup, 0)
    <3>1. R = {}
      BY <2>1
    <3> QED BY <2>2, <3>1
  <2> QED BY <1>4, <2>3
<1>7. ASSUME NEW m \in 0..(N - 1), m \in T PROVE m + 1 \in T
  <2>1. ASSUME NEW R \in UpToSize(ThreadGroup, m + 1) PROVE h[R] = g[R] + more(R)
    <3>1. R \in SUBSET ThreadGroup /\ Cardinality(R) <= m + 1
      BY DEF UpToSize
    <3>2. CASE R = {}
      BY <1>1, <1>2, <3>2 DEF SumsOf
    <3>3. CASE R # {}
      <4>1. PICK x \in R : TRUE
        BY <3>3
      <4>2. R \ {x} \in SUBSET ThreadGroup /\ Cardinality(R \ {x}) = Cardinality(R) - 1
            /\ Cardinality(R) \in Nat
        BY <1>3, <3>1, Smaller
      <4>3. R \ {x} \in UpToSize(ThreadGroup, m)
        BY <1>4, <3>1, <4>2 DEF UpToSize
      <4>4. h[R \ {x}] = g[R \ {x}] + more(R \ {x})
        BY <1>7, <4>3
      <4>5. g[R] = used[x] + g[R \ {x}] /\ h[R] = used'[x] + h[R \ {x}] /\ g[R \ {x}] \in Nat
        BY <1>1, <1>2, <3>1, <4>2 DEF SumsOf
      <4>6. x \in ThreadGroup /\ used[x] \in Nat /\ used'[x] = used[x] + (IF x = t THEN 1 ELSE 0)
        BY <1>5, <3>1
      <4>7. more(R) = more(R \ {x}) + (IF x = t THEN 1 ELSE 0) /\ more(R \ {x}) \in Nat
        OBVIOUS
      <4> HIDE DEF more
      <4> QED BY <4>4, <4>5, <4>6, <4>7
    <3> QED BY <3>2, <3>3
  <2>2. m + 1 \in 0..N
    BY <1>4
  <2> QED BY <2>1, <2>2
<1> HIDE DEF T
<1>8. \A i \in 0..N : i \in T
  BY <1>4, <1>6, <1>7, UpTo
<1>9. N \in T /\ UpToSize(ThreadGroup, N) = SUBSET ThreadGroup
  BY <1>3, <1>4, <1>8, Smaller DEF UpToSize
<1>10. \A R \in SUBSET ThreadGroup : h[R] = g[R] + more(R)
  BY <1>9 DEF T
<1> QED BY <1>1, <1>2, <1>10 DEF SumsOf

LEMMA UsageInitInv == UsageInit => UsageInv
<1> SUFFICES ASSUME UsageInit PROVE UsageInv
  OBVIOUS
<1>1. UsageTyped
  BY DEF UsageInit, UsageTyped, NOCALL, RUSAGE, TMS
<1>2. SumFunctionOnSet(used, group) \in Nat
  BY <1>1, Sums DEF UsageTyped
<1>3. ToldBefore
  BY <1>2 DEF UsageInit, ToldBefore, Total, RUSAGE, TMS
<1>4. Counting
  BY DEF UsageInit, Counting, NOCALL
<1> QED BY <1>1, <1>3, <1>4 DEF UsageInv

LEMMA UsageTypedNext == UsageTyped /\ [UsageNext]_usage => UsageTyped'
<1> SUFFICES ASSUME UsageTyped, [UsageNext]_usage PROVE UsageTyped'
  OBVIOUS
<1>0. /\ SumFunctionOnSet(used, group) \in Nat
      /\ RUSAGE \cap {"times", "none"} = {} /\ TMS \subseteq RUSAGE \cup TMS
      /\ \A t \in ThreadGroup : used[t] \in Nat
  BY Sums DEF UsageTyped, RUSAGE, TMS
<1>1. ASSUME NEW t \in ThreadGroup, switch(t) PROVE UsageTyped'
  BY <1>1 DEF UsageTyped, switch
<1>2. ASSUME NEW t \in ThreadGroup, exit_signal(t) PROVE UsageTyped'
  BY <1>0, <1>2 DEF UsageTyped, exit_signal
<1>3. ASSUME NEW t \in ThreadGroup, accumulate_thread_rusage(t) PROVE UsageTyped'
  <2>1. /\ reader.who \in RUSAGE /\ UNCHANGED <<group, used, signal, siglock, last>>
        /\ reader' = [reader EXCEPT !.visited = @ \cup {t}, !.sum = @ + used[t]]
    BY <1>3 DEF accumulate_thread_rusage
  <2>2. /\ reader' = [who |-> reader'.who, visited |-> reader'.visited, sum |-> reader'.sum]
        /\ reader'.who = reader.who /\ reader'.sum = reader.sum + used[t]
    BY <2>1 DEF UsageTyped
  <2> QED BY <1>0, <2>1, <2>2 DEF UsageTyped
<1>4. ASSUME NEW n \in 1..MaxUse, wait(n) PROVE UsageTyped'
  <2>1. n \in Nat
    BY UsageAssumption DEF UsageAssumption
  <2> QED BY <1>4, <2>1 DEF UsageTyped, wait
<1>5. ASSUME NEW w \in RUSAGE, getrusage(w) PROVE UsageTyped'
  BY <1>0, <1>5 DEF UsageTyped, getrusage, NOCALL
<1>6. CASE getrusage_return
  BY <1>0, <1>6 DEF UsageTyped, getrusage_return, NOCALL
<1>7. CASE times
  BY <1>0, <1>7 DEF UsageTyped, times, thread_group_cputime, NOCALL
<1>8. CASE do_sys_times
  BY <1>0, <1>8 DEF UsageTyped, do_sys_times, NOCALL, TMS
<1>9. CASE UNCHANGED usage
  BY <1>9 DEF UsageTyped, usage
<1> QED
  BY <1>1, <1>2, <1>3, <1>4, <1>5, <1>6, <1>7, <1>8, <1>9 DEF UsageNext

LEMMA UsageNextInv == UsageInv /\ [UsageNext]_usage => UsageInv' /\ [SamplesGrow]_usage
<1> SUFFICES ASSUME UsageInv, [UsageNext]_usage
             PROVE  ToldBefore' /\ Counting' /\ [SamplesGrow]_usage
  BY UsageTypedNext DEF UsageInv
<1>a. UsageTyped /\ UsageTyped' /\ ToldBefore /\ Counting
  BY UsageTypedNext DEF UsageInv
<1>b. /\ group \in SUBSET ThreadGroup /\ group \ reader.visited \in SUBSET ThreadGroup
      /\ signal.used \in Nat /\ signal.cused \in Nat /\ reader.sum \in Nat
  BY <1>a DEF UsageTyped
<1>c. \A w \in RUSAGE \cup TMS : last[w] \in Nat
  BY <1>a DEF UsageTyped
<1>d. last' = last => SamplesGrow
  BY <1>c DEF SamplesGrow
<1>e. \A R \in SUBSET ThreadGroup : SumFunctionOnSet(used, R) \in Nat
  BY <1>a, Sums
<1>f. Total \in Nat
  BY <1>b, <1>e DEF Total
<1>g. {"SELF", "CHILDREN", "BOTH", "tms_utime", "tms_cutime"} = RUSAGE \cup TMS
      /\ RUSAGE = {"SELF", "CHILDREN", "BOTH"} /\ "times" \notin RUSAGE
  BY DEF RUSAGE, TMS
<1>1. ASSUME NEW t \in ThreadGroup, switch(t) PROVE ToldBefore' /\ Counting' /\ [SamplesGrow]_usage
  <2>1. \A R \in SUBSET ThreadGroup :
          SumFunctionOnSet(used', R) = SumFunctionOnSet(used, R) + (IF t \in R THEN 1 ELSE 0)
    BY <1>1, <1>a, MoreUsed DEF switch
  <2>2. t \in group /\ UNCHANGED <<group, signal, siglock, reader, last>>
    BY <1>1 DEF switch
  <2> DEFINE left == group \ reader.visited
  <2>3. /\ SumFunctionOnSet(used', group) = SumFunctionOnSet(used, group) + 1
        /\ \/ SumFunctionOnSet(used', left) = SumFunctionOnSet(used, left)
           \/ SumFunctionOnSet(used', left) = SumFunctionOnSet(used, left) + 1
        /\ SumFunctionOnSet(used, left) \in Nat /\ SumFunctionOnSet(used, group) \in Nat
    BY <1>b, <1>e, <2>1, <2>2
  <2>4. Total' = Total + 1
    BY <1>b, <2>2, <2>3 DEF Total
  <2>5. ToldBefore'
    BY <1>a, <1>b, <1>c, <1>f, <1>g, <2>2, <2>4 DEF ToldBefore
  <2>6. Counting'
    BY <1>a, <1>b, <1>c, <1>f, <1>g, <2>2, <2>3, <2>4 DEF Counting
  <2> QED BY <1>d, <2>2, <2>5, <2>6
<1>2. ASSUME NEW t \in ThreadGroup, exit_signal(t)
      PROVE  ToldBefore' /\ Counting' /\ [SamplesGrow]_usage
  <2>1. /\ ~siglock /\ t \in group /\ group' = group \ {t}
        /\ signal' = [signal EXCEPT !.used = @ + used[t]]
        /\ UNCHANGED <<used, siglock, reader, last>>
    BY <1>2 DEF exit_signal
  <2>2. SumFunctionOnSet(used, group) = used[t] + SumFunctionOnSet(used, group \ {t})
        /\ SumFunctionOnSet(used, group \ {t}) \in Nat /\ used[t] \in Nat
    BY <1>a, <1>b, <1>e, <2>1, Sums DEF UsageTyped
  <2>3. signal'.used = signal.used + used[t] /\ signal'.cused = signal.cused
    BY <1>a, <2>1 DEF UsageTyped
  <2>4. Total' = Total
    BY <1>b, <2>1, <2>2, <2>3 DEF Total
  <2>5. ToldBefore'
    BY <1>a, <2>1, <2>3, <2>4 DEF ToldBefore
  <2>6. reader.who \notin RUSAGE
    BY <1>a, <2>1 DEF UsageTyped
  <2>7. Counting'
    BY <1>a, <1>g, <2>1, <2>3, <2>4, <2>6 DEF Counting
  <2> QED BY <1>d, <2>1, <2>5, <2>7
<1>3. ASSUME NEW t \in ThreadGroup, accumulate_thread_rusage(t)
      PROVE  ToldBefore' /\ Counting' /\ [SamplesGrow]_usage
  <2>1. /\ reader.who \in RUSAGE /\ t \in Unvisited
        /\ reader' = [reader EXCEPT !.visited = @ \cup {t}, !.sum = @ + used[t]]
        /\ UNCHANGED <<group, used, signal, siglock, last>>
    BY <1>3 DEF accumulate_thread_rusage
  <2> DEFINE left == group \ reader.visited
             rest == left \ {t}
  <2>2. reader.who # "CHILDREN" /\ t \in left
    BY <2>1 DEF Unvisited
  <2>3. reader'.who = reader.who /\ reader'.visited = reader.visited \cup {t}
        /\ reader'.sum = reader.sum + used[t]
    BY <1>a, <2>1 DEF UsageTyped
  <2>4. group' \ reader'.visited = rest
    BY <2>1, <2>3
  <2>5. SumFunctionOnSet(used, left) = used[t] + SumFunctionOnSet(used, rest)
        /\ SumFunctionOnSet(used, rest) \in Nat /\ used[t] \in Nat
    BY <1>a, <1>b, <1>e, <2>2, Sums DEF UsageTyped
  <2>6. reader.sum + SumFunctionOnSet(used, left) = reader'.sum + SumFunctionOnSet(used, rest)
    BY <1>b, <2>3, <2>5
  <2>7. Total' = Total
    BY <2>1 DEF Total
  <2>8. ToldBefore'
    BY <1>a, <2>1, <2>7 DEF ToldBefore
  <2>9. Counting'
    BY <1>a, <1>g, <2>1, <2>2, <2>3, <2>4, <2>6, <2>7 DEF Counting
  <2> QED BY <1>d, <2>1, <2>8, <2>9
<1>4. ASSUME NEW n \in 1..MaxUse, wait(n) PROVE ToldBefore' /\ Counting' /\ [SamplesGrow]_usage
  <2>1. n \in Nat /\ ~siglock /\ signal' = [signal EXCEPT !.cused = @ + n]
        /\ UNCHANGED <<group, used, siglock, reader, last>>
    BY <1>4, UsageAssumption DEF UsageAssumption, wait
  <2>2. signal'.used = signal.used /\ signal'.cused = signal.cused + n
    BY <1>a, <2>1 DEF UsageTyped
  <2>3. Total' = Total
    BY <2>1, <2>2 DEF Total
  <2>4. ToldBefore'
    BY <1>a, <1>b, <1>c, <1>f, <1>g, <2>1, <2>2, <2>3 DEF ToldBefore
  <2>5. reader.who \notin RUSAGE
    BY <1>a, <2>1 DEF UsageTyped
  <2>6. Counting'
    BY <1>a, <1>g, <2>1, <2>2, <2>3, <2>5 DEF Counting
  <2> QED BY <1>d, <2>1, <2>4, <2>6
<1>5. ASSUME NEW w \in RUSAGE, getrusage(w) PROVE ToldBefore' /\ Counting' /\ [SamplesGrow]_usage
  <2>1. /\ reader' = [who |-> w, visited |-> {},
                     sum |-> (IF w = "SELF" THEN 0 ELSE signal.cused)
                           + (IF w = "CHILDREN" THEN 0 ELSE signal.used)]
        /\ UNCHANGED <<group, used, signal, last>>
    BY <1>5 DEF getrusage
  <2>2. group' \ reader'.visited = group /\ reader'.who = w
    BY <2>1
  <2>3. /\ w = "SELF" => reader'.sum = signal.used
        /\ w = "CHILDREN" => reader'.sum = signal.cused
        /\ w = "BOTH" => reader'.sum = signal.cused + signal.used
    BY <1>b, <2>1
  <2>4. Total' = Total /\ SumFunctionOnSet(used, group) \in Nat
        /\ Total = signal.used + SumFunctionOnSet(used, group)
    BY <1>b, <1>e, <2>1 DEF Total
  <2>5. ToldBefore'
    BY <1>a, <2>1, <2>4 DEF ToldBefore
  <2>6. Counting'
    BY <1>a, <1>b, <1>c, <1>f, <1>g, <2>1, <2>2, <2>3, <2>4 DEF Counting, ToldBefore
  <2> QED BY <1>d, <2>1, <2>5, <2>6
<1>6. CASE getrusage_return
  <2>1. /\ reader.who \in RUSAGE /\ Unvisited = {}
        /\ last' = [last EXCEPT ![reader.who] = reader.sum]
        /\ reader' = NOCALL /\ UNCHANGED <<group, used, signal>>
    BY <1>6 DEF getrusage_return
  <2>2. reader.who # "CHILDREN" => SumFunctionOnSet(used, group \ reader.visited) = 0
    BY <1>a, <2>1, Sums DEF Unvisited
  <2>3. Total' = Total
    BY <2>1 DEF Total
  <2>4. /\ reader.who = "SELF" => last["SELF"] <= reader.sum /\ reader.sum <= Total
        /\ reader.who = "CHILDREN" => last["CHILDREN"] <= reader.sum /\ reader.sum <= signal.cused
        /\ reader.who = "BOTH" => last["BOTH"] <= reader.sum /\ reader.sum <= Total + signal.cused
    BY <1>a, <1>b, <2>2 DEF Counting
  <2>5. \A v \in RUSAGE \cup TMS : last'[v] = IF v = reader.who THEN reader.sum ELSE last[v]
    BY <1>a, <2>1 DEF UsageTyped
  <2>6. ToldBefore'
    BY <1>a, <1>g, <2>1, <2>3, <2>4, <2>5 DEF ToldBefore
  <2>7. Counting'
    BY <2>1 DEF Counting, NOCALL
  <2>8. SamplesGrow
    BY <1>b, <1>c, <1>g, <2>1, <2>4, <2>5 DEF SamplesGrow
  <2> QED BY <2>6, <2>7, <2>8
<1>7. CASE times
  <2>1. /\ reader' = [who |-> "times", visited |-> group, sum |-> Total]
        /\ UNCHANGED <<group, used, signal, last>>
    BY <1>7 DEF times, thread_group_cputime, Total
  <2>2. Total' = Total
    BY <2>1 DEF Total
  <2>3. ToldBefore'
    BY <1>a, <2>1, <2>2 DEF ToldBefore
  <2>4. reader'.who = "times" /\ reader'.sum = Total
    BY <2>1
  <2>5. Counting'
    BY <1>a, <1>c, <1>f, <1>g, <2>1, <2>2, <2>4 DEF Counting, ToldBefore
  <2> QED BY <1>d, <2>1, <2>3, <2>5
<1>8. CASE do_sys_times
  <2>1. /\ reader.who = "times" /\ reader' = NOCALL /\ UNCHANGED <<group, used, signal>>
        /\ last' = [last EXCEPT !.tms_utime = reader.sum, !.tms_cutime = signal.cused]
    BY <1>8 DEF do_sys_times
  <2>2. Total' = Total
    BY <2>1 DEF Total
  <2>3. last["tms_utime"] <= reader.sum /\ reader.sum <= Total
    BY <1>a, <2>1 DEF Counting
  <2>4. /\ last'["SELF"] = last["SELF"] /\ last'["CHILDREN"] = last["CHILDREN"]
        /\ last'["BOTH"] = last["BOTH"] /\ last'["tms_utime"] = reader.sum
        /\ last'["tms_cutime"] = signal.cused
    BY <1>a, <2>1 DEF UsageTyped, RUSAGE, TMS
  <2>5. ToldBefore'
    BY <1>a, <1>b, <2>1, <2>2, <2>3, <2>4 DEF ToldBefore
  <2>6. Counting'
    BY <2>1 DEF Counting, NOCALL
  <2>7. SamplesGrow
    BY <1>a, <1>b, <1>c, <1>g, <2>3, <2>4 DEF SamplesGrow, ToldBefore
  <2> QED BY <2>5, <2>6, <2>7
<1>9. CASE UNCHANGED usage
  BY <1>9, <1>a DEF usage, ToldBefore, Counting, Total
<1> QED
  BY <1>1, <1>2, <1>3, <1>4, <1>5, <1>6, <1>7, <1>8, <1>9 DEF UsageNext

(* What a process is told of its use never shrinks, though its threads run *)
(* and exit while it is added up (sys.c:945-994, 1660-1807).               *)
THEOREM SamplesHold == UsageSpec => [][SamplesGrow]_usage
BY UsageInitInv, UsageNextInv, PTL DEF UsageSpec

-----------------------------------------------------------------------------
(* Options (TaskOptions).                                                  *)
OptionsInv ==
  /\ opt = [pdeath_signal |-> opt.pdeath_signal, dumpable |-> opt.dumpable,
            timer_slack_ns |-> opt.timer_slack_ns, no_new_privs |-> opt.no_new_privs,
            thp_disable |-> opt.thp_disable]
  /\ mce \subseteq {"PROCESS", "EARLY"} /\ PolicyIsTold

LEMMA OptionsInitInv == OptionsInit => OptionsInv
BY OptionsAssumption DEF OptionsAssumption, OptionsInit, OptionsInv, PolicyIsTold, mce_kill_get

LEMMA OptionsNextInv == OptionsInv /\ [OptionsNext]_options => OptionsInv' /\ [OptionsStay]_options
<1> SUFFICES ASSUME OptionsInv, [OptionsNext]_options PROVE OptionsInv' /\ [OptionsStay]_options
  OBVIOUS
<1>1. CASE UNCHANGED options
  BY <1>1 DEF options, OptionsInv, PolicyIsTold, mce_kill_get
<1>2. ASSUME NEW s, set_pdeathsig(s) PROVE OptionsInv' /\ OptionsStay
  BY <1>2 DEF set_pdeathsig, OptionsInv, PolicyIsTold, mce_kill_get, OptionsStay, Told
<1>3. ASSUME NEW d, set_dumpable(d) PROVE OptionsInv' /\ OptionsStay
  BY <1>3 DEF set_dumpable, OptionsInv, PolicyIsTold, mce_kill_get, OptionsStay, Told,
              DUMP_DISABLE, DUMP_USER, DUMP_ROOT
<1>9. ASSUME commit_ids PROVE OptionsInv' /\ OptionsStay
  BY <1>9 DEF commit_ids, OptionsInv, PolicyIsTold, mce_kill_get, OptionsStay, Told
<1>4. ASSUME NEW n \in Slacks, set_timerslack(n) PROVE OptionsInv' /\ OptionsStay
  <2>1. n \in Nat /\ DefaultSlack \in Nat \ {0}
    BY OptionsAssumption DEF OptionsAssumption
  <2> QED BY <1>4, <2>1 DEF set_timerslack, OptionsInv, PolicyIsTold, mce_kill_get,
        OptionsStay, Told
<1>5. ASSUME NEW on, set_thp_disable(on) PROVE OptionsInv' /\ OptionsStay
  BY <1>5 DEF set_thp_disable, OptionsInv, PolicyIsTold, mce_kill_get, OptionsStay, Told
<1>6. ASSUME NEW v, NEW r, set_no_new_privs(v, r) PROVE OptionsInv' /\ OptionsStay
  BY <1>6 DEF set_no_new_privs, OptionsInv, PolicyIsTold, mce_kill_get, OptionsStay, Told
<1>7. CASE mce_kill_clear
  BY <1>7 DEF mce_kill_clear, OptionsInv, PolicyIsTold, mce_kill_get, OptionsStay, Told
<1>8. ASSUME NEW p \in {"EARLY", "LATE", "DEFAULT", "invalid"}, mce_kill_set(p)
      PROVE  OptionsInv' /\ OptionsStay
  BY <1>8 DEF mce_kill_set, OptionsInv, PolicyIsTold, mce_kill_get, OptionsStay, Told
<1> QED BY <1>1, <1>2, <1>3, <1>4, <1>5, <1>6, <1>7, <1>8, <1>9 DEF OptionsNext

(* The policy a task is told is the one it chose, no_new_privs is for good *)
(* and nobody makes itself dumpable for root (prctl, sys.c:2266-2451).     *)
THEOREM OptionsHold == OptionsSpec => []PolicyIsTold /\ [][OptionsStay]_options
<1>1. OptionsInv => PolicyIsTold
  BY DEF OptionsInv
<1> QED BY <1>1, OptionsInitInv, OptionsNextInv, PTL DEF OptionsSpec

-----------------------------------------------------------------------------
(* Names (UtsNames).  A name is one that was set, except while its setter  *)
(* is between its head and its tail; then it has the head of that one.     *)
(* What a reader has copied are the heads of names that stay as they are   *)
(* until it has copied the tails.                                          *)
Setting(c, f) == uts_call[c].at = "tail" /\ uts_call[c].field = f

CallsTyped ==
  \A c \in Callers :
    /\ uts_call[c].at \in {"out", "tail", "copy", "told", "old"}
    /\ uts_call[c].at = "tail" => uts_call[c].field \in FieldsOf /\ uts_call[c].name \in Names
    /\ uts_call[c].at = "copy" => DOMAIN uts_call[c].tmp \subseteq FieldsOf

SemKept ==
  /\ uts_sem = [readers |-> uts_sem.readers, writer |-> uts_sem.writer]
  /\ uts_sem.readers \subseteq Callers /\ uts_sem.writer \subseteq Callers
  /\ \A c, d \in uts_sem.writer : c = d
  /\ uts_sem.writer # {} => uts_sem.readers = {}
  /\ \A c \in Callers : /\ uts_call[c].at = "tail" <=> c \in uts_sem.writer
                        /\ uts_call[c].at = "copy" <=> c \in uts_sem.readers

NamesSet ==
  \A f \in FieldsOf :
    /\ utsname[f] = <<utsname[f][1], utsname[f][2]>>
    /\ (\A c \in Callers : ~Setting(c, f)) => utsname[f] \in Names
    /\ \A c \in Callers : Setting(c, f) => utsname[f][1] = uts_call[c].name[1]

HeadsCopied ==
  \A c \in Callers : uts_call[c].at = "copy" =>
    \A f \in DOMAIN uts_call[c].tmp : uts_call[c].tmp[f][1] = utsname[f][1]

NamesInv ==
  /\ utsname = [f \in FieldsOf |-> utsname[f]]
  /\ uts_call = [c \in Callers |-> uts_call[c]]
  /\ CallsTyped /\ SemKept /\ NamesSet /\ HeadsCopied /\ NamesAreWhole /\ OldNamesBegin

LEMMA NamesInitInv == UtsInit => NamesInv
<1> SUFFICES ASSUME UtsInit PROVE NamesInv
  OBVIOUS
<1>1. PICK n \in Names : utsname = [f \in FieldsOf |-> n]
  BY DEF UtsInit
<1>2. n = <<n[1], n[2]>>
  BY NamesAssumption DEF NamesAssumption
<1>3. /\ uts_sem = [readers |-> {}, writer |-> {}]
      /\ uts_call = [c \in Callers |-> NotCalling] /\ NotCalling.at = "out"
  BY DEF UtsInit, NotCalling
<1> HIDE DEF NotCalling
<1>4. NamesSet
  <2>1. \A f \in FieldsOf : utsname[f] = n
    BY <1>1
  <2>2. \A c \in Callers, f \in FieldsOf : ~Setting(c, f)
    BY <1>3 DEF Setting
  <2> QED BY <1>2, <2>1, <2>2 DEF NamesSet
<1>5. CallsTyped /\ SemKept /\ HeadsCopied /\ NamesAreWhole /\ OldNamesBegin
  BY <1>3 DEF CallsTyped, SemKept, HeadsCopied, NamesAreWhole, OldNamesBegin
<1> QED BY <1>1, <1>3, <1>4, <1>5 DEF NamesInv

(* What the steps have in common: one caller goes on to its next state.    *)
LEMMA CallersApart ==
  ASSUME NamesInv, NEW c \in Callers, NEW next, uts_call' = [uts_call EXCEPT ![c] = next]
  PROVE  /\ uts_call'[c] = next /\ \A d \in Callers \ {c} : uts_call'[d] = uts_call[d]
         /\ uts_call' = [d \in Callers |-> uts_call'[d]]
BY DEF NamesInv

LEMMA WholeWhenUnset ==
  ASSUME NamesInv, uts_sem.writer = {}, NEW f \in FieldsOf
  PROVE  utsname[f] \in Names
BY DEF NamesInv, SemKept, NamesSet, Setting

LEMMA SetNameStep ==
  ASSUME NamesInv, NEW c \in Callers, NEW field \in FieldsOf, NEW name \in Names,
         set_name(c, field, name)
  PROVE  NamesInv'
<1> DEFINE next == [at |-> "tail", field |-> field, name |-> name]
<1>1. /\ uts_call[c].at = "out" /\ uts_sem.writer = {} /\ uts_sem.readers = {}
      /\ uts_sem' = [uts_sem EXCEPT !.writer = {c}]
      /\ utsname' = [utsname EXCEPT ![field][1] = name[1]]
      /\ uts_call' = [uts_call EXCEPT ![c] = next]
  BY DEF set_name, down_write, NotCalling
<1>2. next.at = "tail" /\ next.field = field /\ next.name = name
  OBVIOUS
<1> HIDE DEF next
<1>3. /\ uts_call'[c] = next /\ \A d \in Callers \ {c} : uts_call'[d] = uts_call[d]
      /\ uts_call' = [d \in Callers |-> uts_call'[d]]
  BY <1>1, CallersApart
<1>4. /\ uts_sem'.writer = {c} /\ uts_sem'.readers = {}
      /\ uts_sem' = [readers |-> uts_sem'.readers, writer |-> uts_sem'.writer]
  BY <1>1 DEF NamesInv, SemKept
<1>5. \A d \in Callers : uts_call[d].at # "tail" /\ uts_call[d].at # "copy"
  BY <1>1 DEF NamesInv, SemKept
<1>6. PICK old : old = utsname[field] /\ old = <<old[1], old[2]>>
  BY DEF NamesInv, NamesSet
<1>7. /\ utsname'[field] = <<name[1], old[2]>>
      /\ \A f \in FieldsOf \ {field} : utsname'[f] = utsname[f]
      /\ utsname' = [f \in FieldsOf |-> utsname'[f]]
  <2>1. utsname' = [utsname EXCEPT ![field] = [old EXCEPT ![1] = name[1]]]
    BY <1>1, <1>6
  <2>2. [old EXCEPT ![1] = name[1]] = <<name[1], old[2]>>
    BY <1>6
  <2> QED BY <2>1, <2>2 DEF NamesInv
<1>8. CallsTyped'
  BY <1>2, <1>3 DEF NamesInv, CallsTyped
<1>9. SemKept'
  BY <1>2, <1>3, <1>4, <1>5 DEF SemKept
<1>10. NamesSet'
  <2> SUFFICES ASSUME NEW f \in FieldsOf
               PROVE  /\ utsname'[f] = <<utsname'[f][1], utsname'[f][2]>>
                      /\ (\A d \in Callers : ~Setting(d, f)') => utsname'[f] \in Names
                      /\ \A d \in Callers : Setting(d, f)' => utsname'[f][1] = uts_call'[d].name[1]
    BY DEF NamesSet
  <2>1. \A d \in Callers \ {c} : ~Setting(d, f)' /\ ~Setting(d, f)
    BY <1>3, <1>5 DEF Setting
  <2>2. CASE f = field
    <3>1. Setting(c, f)'
      BY <1>2, <1>3, <2>2 DEF Setting
    <3>2. utsname'[f] = <<name[1], old[2]>>
      BY <1>7, <2>2
    <3> QED BY <1>2, <1>3, <2>1, <3>1, <3>2
  <2>3. CASE f # field
    <3>1. ~Setting(c, f)' /\ ~Setting(c, f) /\ utsname'[f] = utsname[f]
      BY <1>1, <1>2, <1>3, <1>7, <2>3 DEF Setting
    <3> QED BY <2>1, <3>1 DEF NamesInv, NamesSet
  <2> QED BY <2>2, <2>3
<1>11. HeadsCopied' /\ NamesAreWhole' /\ OldNamesBegin'
  BY <1>2, <1>3, <1>5 DEF NamesInv, HeadsCopied, NamesAreWhole, OldNamesBegin
<1> QED BY <1>3, <1>7, <1>8, <1>9, <1>10, <1>11 DEF NamesInv

LEMMA SetTailStep ==
  ASSUME NamesInv, NEW c \in Callers, set_tail(c)
  PROVE  NamesInv'
<1> DEFINE field == uts_call[c].field   name == uts_call[c].name
<1>1. /\ uts_call[c].at = "tail"
      /\ utsname' = [utsname EXCEPT ![field][2] = name[2]]
      /\ uts_sem' = [readers |-> uts_sem.readers \ {c}, writer |-> uts_sem.writer \ {c}]
      /\ uts_call' = [uts_call EXCEPT ![c] = NotCalling]
  BY DEF set_tail, up
<1>2. field \in FieldsOf /\ name \in Names /\ NotCalling.at = "out"
  BY <1>1 DEF NamesInv, CallsTyped, NotCalling
<1>3. /\ uts_call'[c] = NotCalling /\ \A d \in Callers \ {c} : uts_call'[d] = uts_call[d]
      /\ uts_call' = [d \in Callers |-> uts_call'[d]]
  BY <1>1, CallersApart
<1> HIDE DEF NotCalling
<1>4. uts_sem.writer = {c} /\ uts_sem.readers = {} /\ uts_sem'.writer = {} /\ uts_sem'.readers = {}
  BY <1>1 DEF NamesInv, SemKept
<1>5. \A d \in Callers \ {c} : uts_call[d].at # "tail" /\ uts_call[d].at # "copy"
  BY <1>4 DEF NamesInv, SemKept
<1>6. Setting(c, field)
  BY <1>1 DEF Setting
<1>7. PICK old : old = utsname[field] /\ old = <<old[1], old[2]>> /\ old[1] = name[1]
  BY <1>2, <1>6 DEF NamesInv, NamesSet
<1>8. name = <<name[1], name[2]>>
  BY <1>2, NamesAssumption DEF NamesAssumption
<1>9. /\ utsname'[field] = name
      /\ \A f \in FieldsOf \ {field} : utsname'[f] = utsname[f]
      /\ utsname' = [f \in FieldsOf |-> utsname'[f]]
  <2>1. utsname' = [utsname EXCEPT ![field] = [old EXCEPT ![2] = name[2]]]
    BY <1>1, <1>7
  <2>2. [old EXCEPT ![2] = name[2]] = <<name[1], name[2]>>
    BY <1>7
  <2> QED BY <1>2, <1>8, <2>1, <2>2 DEF NamesInv
<1>10. CallsTyped'
  BY <1>2, <1>3 DEF NamesInv, CallsTyped
<1>11. SemKept'
  BY <1>1, <1>2, <1>3, <1>4, <1>5 DEF SemKept
<1>12. NamesSet'
  <2> SUFFICES ASSUME NEW f \in FieldsOf
               PROVE  /\ utsname'[f] = <<utsname'[f][1], utsname'[f][2]>>
                      /\ (\A d \in Callers : ~Setting(d, f)') => utsname'[f] \in Names
                      /\ \A d \in Callers : Setting(d, f)' => utsname'[f][1] = uts_call'[d].name[1]
    BY DEF NamesSet
  <2>1. \A d \in Callers : ~Setting(d, f)'
    BY <1>2, <1>3, <1>5 DEF Setting
  <2>2. CASE f = field
    BY <1>2, <1>8, <1>9, <2>1, <2>2
  <2>3. CASE f # field
    <3>1. utsname'[f] = utsname[f] /\ \A d \in Callers : ~Setting(d, f)
      BY <1>5, <1>9, <2>3 DEF Setting
    <3> QED BY <2>1, <3>1 DEF NamesInv, NamesSet
  <2> QED BY <2>2, <2>3
<1>13. HeadsCopied' /\ NamesAreWhole' /\ OldNamesBegin'
  BY <1>2, <1>3, <1>5 DEF NamesInv, HeadsCopied, NamesAreWhole, OldNamesBegin
<1> QED BY <1>3, <1>9, <1>10, <1>11, <1>12, <1>13 DEF NamesInv

(* Steps of readers leave the names and who sets them alone.               *)
LEMMA ReaderStep ==
  ASSUME NamesInv, NEW c \in Callers, NEW next, UNCHANGED utsname,
         uts_call[c].at # "tail", next.at \in {"out", "copy", "told", "old"},
         uts_call' = [uts_call EXCEPT ![c] = next],
         next.at = "copy" => /\ DOMAIN next.tmp \subseteq FieldsOf
                             /\ \A f \in DOMAIN next.tmp : next.tmp[f][1] = utsname[f][1],
         next.at = "told" => \A f \in DOMAIN next.answer : next.answer[f] \in Names,
         next.at = "old" => \E n \in Names : next.answer = n[1],
         SemKept'
  PROVE  NamesInv'
<1>1. /\ uts_call'[c] = next /\ \A d \in Callers \ {c} : uts_call'[d] = uts_call[d]
      /\ uts_call' = [d \in Callers |-> uts_call'[d]]
  BY CallersApart
<1>2. CallsTyped'
  BY <1>1 DEF NamesInv, CallsTyped
<1>3. \A d \in Callers, f \in FieldsOf : /\ Setting(d, f)' <=> Setting(d, f)
                                         /\ Setting(d, f) => uts_call'[d] = uts_call[d]
  BY <1>1 DEF Setting
<1>4. NamesSet'
  BY <1>3 DEF NamesInv, NamesSet
<1>5. HeadsCopied'
  BY <1>1 DEF NamesInv, HeadsCopied
<1>6. NamesAreWhole' /\ OldNamesBegin'
  BY <1>1 DEF NamesInv, NamesAreWhole, OldNamesBegin
<1> QED BY <1>1, <1>2, <1>4, <1>5, <1>6 DEF NamesInv

LEMMA CopyStep ==
  ASSUME NamesInv, NEW c \in Callers, NEW of \in SUBSET FieldsOf, copy(c, of)
  PROVE  NamesInv'
<1> DEFINE next == [at |-> "copy", tmp |-> [f \in of |-> <<utsname[f][1], NUL>>]]
<1>1. /\ uts_call[c].at = "out" /\ uts_sem.writer = {}
      /\ uts_sem' = [uts_sem EXCEPT !.readers = @ \cup {c}]
      /\ uts_call' = [uts_call EXCEPT ![c] = next] /\ UNCHANGED utsname
  BY DEF copy, down_read, NotCalling
<1>2. /\ next.at = "copy" /\ DOMAIN next.tmp \subseteq FieldsOf
      /\ \A f \in DOMAIN next.tmp : next.tmp[f][1] = utsname[f][1]
  OBVIOUS
<1> HIDE DEF next
<1>3. /\ uts_call'[c] = next /\ \A d \in Callers \ {c} : uts_call'[d] = uts_call[d]
  BY <1>1, CallersApart
<1>4. uts_sem'.readers = uts_sem.readers \cup {c} /\ uts_sem'.writer = {}
      /\ uts_sem' = [readers |-> uts_sem'.readers, writer |-> uts_sem'.writer]
  BY <1>1 DEF NamesInv, SemKept
<1>5. SemKept'
  BY <1>1, <1>2, <1>3, <1>4 DEF NamesInv, SemKept
<1> QED BY <1>1, <1>2, <1>5, ReaderStep

LEMMA CopyTailStep ==
  ASSUME NamesInv, NEW c \in Callers, copy_tail(c)
  PROVE  NamesInv'
<1> DEFINE tmp == uts_call[c].tmp
           next == [at |-> "told", answer |-> [f \in DOMAIN tmp |-> <<tmp[f][1], utsname[f][2]>>]]
<1>1. /\ uts_call[c].at = "copy"
      /\ uts_sem' = [readers |-> uts_sem.readers \ {c}, writer |-> uts_sem.writer \ {c}]
      /\ uts_call' = [uts_call EXCEPT ![c] = next] /\ UNCHANGED utsname
  BY DEF copy_tail, up
<1>2. uts_sem.writer = {} /\ DOMAIN tmp \subseteq FieldsOf
  BY <1>1 DEF NamesInv, SemKept, CallsTyped
<1>3. \A f \in DOMAIN tmp : <<tmp[f][1], utsname[f][2]>> \in Names
  <2> TAKE f \in DOMAIN tmp
  <2>1. tmp[f][1] = utsname[f][1]
    BY <1>1 DEF NamesInv, HeadsCopied
  <2>2. utsname[f] \in Names /\ utsname[f] = <<utsname[f][1], utsname[f][2]>>
    BY <1>2, WholeWhenUnset, NamesAssumption DEF NamesAssumption
  <2> QED BY <2>1, <2>2
<1>4. next.at = "told" /\ \A f \in DOMAIN next.answer : next.answer[f] \in Names
  BY <1>3
<1> HIDE DEF next
<1>5. /\ uts_call'[c] = next /\ \A d \in Callers \ {c} : uts_call'[d] = uts_call[d]
  BY <1>1, CallersApart
<1>6. SemKept'
  BY <1>1, <1>2, <1>4, <1>5 DEF NamesInv, SemKept
<1> QED BY <1>1, <1>4, <1>6, ReaderStep

LEMMA OldNameStep ==
  ASSUME NamesInv, NEW c \in Callers, olduname(c) \/ uname_return(c)
  PROVE  NamesInv'
<1>1. PICK next : /\ uts_call' = [uts_call EXCEPT ![c] = next]
                  /\ next.at \in {"out", "old"}
                  /\ next.at = "old" => \E n \in Names : next.answer = n[1]
  <2>1. CASE olduname(c)
    <3> DEFINE next == [at |-> "old", answer |-> utsname["nodename"][1]]
    <3>1. uts_sem.writer = {} /\ uts_call' = [uts_call EXCEPT ![c] = next]
      BY <2>1 DEF olduname
    <3>2. utsname["nodename"] \in Names
      BY <3>1, WholeWhenUnset DEF FieldsOf
    <3>3. next.at = "old" /\ \E n \in Names : next.answer = n[1]
      BY <3>2
    <3> HIDE DEF next
    <3> QED BY <3>1, <3>3
  <2>2. CASE uname_return(c)
    <3>1. uts_call' = [uts_call EXCEPT ![c] = NotCalling] /\ NotCalling.at = "out"
      BY <2>2 DEF uname_return, NotCalling
    <3> HIDE DEF NotCalling
    <3> QED BY <3>1
  <2> QED BY <2>1, <2>2
<1>2. uts_call[c].at \in {"out", "told", "old"} /\ UNCHANGED <<utsname, uts_sem>>
  BY DEF olduname, uname_return, NotCalling
<1>3. /\ uts_call'[c] = next /\ \A d \in Callers \ {c} : uts_call'[d] = uts_call[d]
  BY <1>1, CallersApart
<1>4. SemKept'
  BY <1>1, <1>2, <1>3 DEF NamesInv, SemKept
<1> QED BY <1>1, <1>2, <1>4, ReaderStep

LEMMA NamesNextInv == NamesInv /\ [UtsNext]_uts => NamesInv'
<1> SUFFICES ASSUME NamesInv, [UtsNext]_uts PROVE NamesInv'
  OBVIOUS
<1>1. CASE UNCHANGED uts
  <2>1. utsname' = utsname /\ uts_sem' = uts_sem /\ uts_call' = uts_call
    BY <1>1 DEF uts
  <2>2. CallsTyped' /\ SemKept' /\ HeadsCopied' /\ NamesAreWhole' /\ OldNamesBegin'
    BY <2>1 DEF NamesInv, CallsTyped, SemKept, HeadsCopied, NamesAreWhole, OldNamesBegin
  <2>3. NamesSet'
    BY <2>1 DEF NamesInv, NamesSet, Setting
  <2> QED BY <2>1, <2>2, <2>3 DEF NamesInv
<1>2. ASSUME NEW c \in Callers, NEW n \in Names, sethostname(c, n) \/ setdomainname(c, n)
      PROVE  NamesInv'
  BY <1>2, SetNameStep DEF sethostname, setdomainname, FieldsOf
<1>3. ASSUME NEW c \in Callers, newuname(c) \/ uname(c) \/ gethostname(c)
      PROVE  NamesInv'
  <2>1. FieldsOf \in SUBSET FieldsOf /\ {"nodename"} \in SUBSET FieldsOf
    BY DEF FieldsOf
  <2> QED BY <1>3, <2>1, CopyStep DEF newuname, uname, gethostname
<1> QED BY <1>1, <1>2, <1>3, SetTailStep, CopyTailStep, OldNameStep DEF UtsNext

LEMMA NamesInvHolds == NamesInv => NamesAlways
<1> SUFFICES ASSUME NamesInv PROVE NamesAlways
  OBVIOUS
<1>1. uts_sem.writer = {} \/ \E c \in Callers : uts_sem.writer = {c}
  BY DEF NamesInv, SemKept
<1>2. Cardinality(uts_sem.writer) <= 1
  BY <1>1, FS_EmptySet, FS_Singleton
<1> QED BY <1>2 DEF NamesInv, SemKept, NamesAlways, UtsSemHeld

(* However many callers set names and ask for them at once, each is told   *)
(* names that were set, and those whole (sys.c:1236-1385).                 *)
THEOREM NamesHold == UtsSpec => []NamesAlways
BY NamesInitInv, NamesNextInv, NamesInvHolds, PTL DEF UtsSpec

-----------------------------------------------------------------------------
(* Memory (SysInfo).  The powers of two, and the doublings of the loop.    *)
LEMMA Powers ==
  /\ Pow2 \in [0..(W + PAGE_SHIFT) -> Nat \ {0}] /\ Pow2[0] = 1
  /\ \A n \in 1..(W + PAGE_SHIFT) : Pow2[n] = 2 * Pow2[n - 1]
<1> DEFINE N == W + PAGE_SHIFT
           V == Nat \ {0}
<1>1. N \in Nat
  BY SysInfoAssumption DEF SysInfoAssumption
<1> HIDE DEF N
<1>2. PICK way : way = [i \in 1..N |-> [v \in V |-> 2 * v]]
  OBVIOUS
<1>3. way \in Ways(N, V) /\ 1 \in V /\ \A i \in 1..N : \A v \in V : way[i][v] = 2 * v
  BY <1>2 DEF Ways
<1>4. PICK f : Follows(f, N, V, 1, way)
  BY <1>1, <1>3, StepByStep
<1>5. f \in [0..N -> V] /\ f[0] = 1 /\ \A i \in 1..N : f[i] = 2 * f[i - 1]
  <2>1. \A i \in 1..N : i - 1 \in 0..N
    BY <1>1
  <2> QED BY <1>3, <1>4, <2>1 DEF Follows
<1>6. f = [n \in 0..N |-> IF n = 0 THEN 1 ELSE 2 * f[n - 1]]
  <2>1. \A n \in 0..N : f[n] = IF n = 0 THEN 1 ELSE 2 * f[n - 1]
    <3> TAKE n \in 0..N
    <3>1. n = 0 \/ n \in 1..N
      BY <1>1
    <3> QED BY <1>5, <3>1
  <2> QED BY <1>5, <2>1
<1>7. f = [n \in 0..(W + PAGE_SHIFT) |-> IF n = 0 THEN 1 ELSE 2 * f[n - 1]]
  BY <1>6 DEF N
<1>8. Pow2 = [n \in 0..(W + PAGE_SHIFT) |-> IF n = 0 THEN 1 ELSE 2 * Pow2[n - 1]]
  BY <1>7, Zenon DEF Pow2
<1>9. DOMAIN Pow2 = 0..N /\ \A n \in 0..N : Pow2[n] = IF n = 0 THEN 1 ELSE 2 * Pow2[n - 1]
  <2> HIDE DEF Pow2
  <2> QED BY <1>8 DEF N
<1>10. Pow2 = [n \in 0..N |-> Pow2[n]]
  BY <1>8, Zenon DEF N
<1> DEFINE T == {n \in 0..N : Pow2[n] \in V}
<1>11. 0 \in T
  BY <1>1, <1>9
<1>12. \A n \in 0..(N - 1) : n \in T => n + 1 \in T
  <2> TAKE n \in 0..(N - 1)
  <2> HAVE n \in T
  <2>1. n + 1 \in 0..N /\ n + 1 # 0 /\ n + 1 - 1 = n
    BY <1>1
  <2>2. Pow2[n + 1] = 2 * Pow2[n] /\ Pow2[n] \in V
    BY <1>9, <2>1
  <2> QED BY <2>1, <2>2
<1>13. \A n \in 0..N : n \in T
  <2> HIDE DEF T
  <2> QED BY <1>1, <1>11, <1>12, UpTo
<1>14. \A n \in 1..N : n \in 0..N /\ n # 0
  BY <1>1
<1>15. Pow2 \in [0..N -> V]
  BY <1>10, <1>13
<1>16. Pow2[0] = 1 /\ \A n \in 1..N : Pow2[n] = 2 * Pow2[n - 1]
  BY <1>1, <1>9, <1>14
<1> QED BY <1>15, <1>16 DEF N

LEMMA Modulus ==
  ASSUME NEW M \in Nat \ {0}, NEW x \in Nat
  PROVE  /\ x % M \in 0..(M - 1)
         /\ x < M => x % M = x
         /\ M <= x /\ x < 2 * M => x % M = x - M
<1>1. x % M \in 0..(M - 1)
  OBVIOUS
<1>2. x < M => x % M = x
  OBVIOUS
<1>3. M <= x /\ x < 2 * M => x % M = x - M
  OBVIOUS
<1> QED BY <1>1, <1>2, <1>3

LEMMA Quotient ==
  ASSUME NEW M \in Nat \ {0}, NEW x \in Nat
  PROVE  x \div M \in Nat /\ (x \div M) * M <= x /\ x < (x \div M) * M + M
<1>1. x \div M \in Nat
  OBVIOUS
<1>2. (x \div M) * M <= x
  OBVIOUS
<1>3. x < (x \div M) * M + M
  OBVIOUS
<1> QED BY <1>1, <1>2, <1>3

LEMMA PowersAdd ==
  ASSUME NEW a \in Nat, NEW b \in Nat, a + b <= W + PAGE_SHIFT
  PROVE  Pow2[a + b] = Pow2[a] * Pow2[b]
<1> DEFINE T == {n \in 0..b : Pow2[a + n] = Pow2[a] * Pow2[n]}
<1>0. W + PAGE_SHIFT \in Nat
  BY SysInfoAssumption DEF SysInfoAssumption
<1>1. \A n \in 0..b : /\ Pow2[n] \in Nat /\ Pow2[a + n] \in Nat /\ Pow2[a] \in Nat
                      /\ n # b => /\ Pow2[n + 1] = 2 * Pow2[n]
                                  /\ Pow2[a + (n + 1)] = 2 * Pow2[a + n]
  <2> TAKE n \in 0..b
  <2>1. n \in 0..(W + PAGE_SHIFT) /\ a + n \in 0..(W + PAGE_SHIFT) /\ a \in 0..(W + PAGE_SHIFT)
    BY <1>0
  <2>2. n # b => /\ n + 1 \in 1..(W + PAGE_SHIFT) /\ n + 1 - 1 = n
                 /\ a + (n + 1) \in 1..(W + PAGE_SHIFT) /\ a + (n + 1) - 1 = a + n
    BY <1>0
  <2> QED BY <2>1, <2>2, Powers
<1>2. 0 \in T
  BY <1>1, Powers
<1>3. ASSUME NEW n \in 0..(b - 1), n \in T PROVE n + 1 \in T
  <2>1. PICK x \in Nat, y \in Nat : x = Pow2[a] /\ y = Pow2[n]
    BY <1>1
  <2>2. Pow2[a + n] = x * y /\ Pow2[n + 1] = 2 * y /\ Pow2[a + (n + 1)] = 2 * (x * y)
    BY <1>1, <1>3, <2>1
  <2>3. 2 * (x * y) = x * (2 * y)
    OBVIOUS
  <2> QED BY <2>1, <2>2, <2>3
<1> HIDE DEF T
<1>4. \A n \in 0..b : n \in T
  BY <1>2, <1>3, UpTo
<1> QED BY <1>4 DEF T

(* The words there are, and the totals of the rounds.                      *)
Word == 0..(Pow2[W] - 1)

LEMMA WordFacts ==
  /\ W \in 0..(W + PAGE_SHIFT) /\ C \in 0..(W + PAGE_SHIFT) /\ PAGE_SHIFT \in Nat
  /\ C + PAGE_SHIFT <= W + PAGE_SHIFT /\ C \in Nat
  /\ Pow2[W] \in Nat \ {0} /\ Pow2[C] \in Nat \ {0} /\ Pow2[PAGE_SHIFT] \in Nat \ {0}
  /\ Word \subseteq Nat /\ \A x \in Nat : Wrap(x) \in Word
<1>1. W \in Nat /\ C \in Nat /\ C <= W /\ PAGE_SHIFT \in Nat
  BY SysInfoAssumption DEF SysInfoAssumption
<1>2. W \in 0..(W + PAGE_SHIFT) /\ C \in 0..(W + PAGE_SHIFT)
      /\ PAGE_SHIFT \in 0..(W + PAGE_SHIFT)
  BY <1>1
<1>3. Pow2[W] \in Nat \ {0} /\ Pow2[C] \in Nat \ {0} /\ Pow2[PAGE_SHIFT] \in Nat \ {0}
  BY <1>2, Powers
<1>4. \A x \in Nat : Wrap(x) \in Word
  BY <1>3, Modulus DEF Wrap, Word
<1>5. Word \subseteq Nat
  BY <1>3 DEF Word
<1> QED BY <1>1, <1>2, <1>3, <1>4, <1>5

Rounded(total, m) ==
  /\ total \in [0..PAGE_SHIFT -> Word] /\ total[0] = Wrap(m.ram + m.swap)
  /\ \A n \in 1..PAGE_SHIFT : total[n] = Wrap(2 * total[n - 1])

LEMMA Totals ==
  ASSUME NEW m, m.ram \in Nat, m.swap \in Nat
  PROVE  Rounded(mem_total(m), m)
<1> DEFINE Is(total) == total = [n \in 0..PAGE_SHIFT |->
                          IF n = 0 THEN Wrap(m.ram + m.swap) ELSE Wrap(2 * total[n - 1])]
           it == CHOOSE total : Is(total)
<1>1. mem_total(m) = it
  BY Zenon DEF mem_total
<1>2. PICK way : way = [i \in 1..PAGE_SHIFT |-> [v \in Word |-> Wrap(2 * v)]]
  OBVIOUS
<1>3. \A v \in Word : Wrap(2 * v) \in Word
  BY WordFacts
<1>4. way \in Ways(PAGE_SHIFT, Word) /\ Wrap(m.ram + m.swap) \in Word
      /\ \A i \in 1..PAGE_SHIFT : \A v \in Word : way[i][v] = Wrap(2 * v)
  BY <1>2, <1>3, WordFacts DEF Ways
<1>5. PICK f : Follows(f, PAGE_SHIFT, Word, Wrap(m.ram + m.swap), way)
  BY <1>4, WordFacts, StepByStep
<1>6. Rounded(f, m)
  <2>1. \A i \in 1..PAGE_SHIFT : i - 1 \in 0..PAGE_SHIFT
    BY WordFacts
  <2> QED BY <1>4, <1>5, <2>1 DEF Follows, Rounded
<1>7. Is(f)
  <2>1. \A n \in 0..PAGE_SHIFT : n = 0 \/ n \in 1..PAGE_SHIFT
    BY WordFacts
  <2> QED BY <1>6, <2>1 DEF Rounded
<1>8. Is(it)
  <2> HIDE DEF Is
  <2> QED BY <1>7
<1> HIDE DEF it
<1>9. /\ it[0] = Wrap(m.ram + m.swap)
      /\ \A n \in 1..PAGE_SHIFT : it[n] = Wrap(2 * it[n - 1])
  <2>1. /\ DOMAIN it = 0..PAGE_SHIFT
        /\ \A n \in 0..PAGE_SHIFT :
             it[n] = IF n = 0 THEN Wrap(m.ram + m.swap) ELSE Wrap(2 * it[n - 1])
    BY <1>8
  <2>2. 0 \in 0..PAGE_SHIFT /\ \A n \in 1..PAGE_SHIFT : n \in 0..PAGE_SHIFT /\ n # 0
    BY WordFacts
  <2> QED BY <2>1, <2>2
<1> DEFINE T == {n \in 0..PAGE_SHIFT : it[n] \in Word}
<1>10. 0 \in T
  BY <1>4, <1>9, WordFacts
<1>11. ASSUME NEW n \in 0..(PAGE_SHIFT - 1), n \in T PROVE n + 1 \in T
  <2>1. n + 1 \in 1..PAGE_SHIFT /\ n + 1 \in 0..PAGE_SHIFT /\ n + 1 - 1 = n
    BY WordFacts
  <2>2. it[n + 1] = Wrap(2 * it[n + 1 - 1])
    BY <1>9, <2>1
  <2>3. it[n] \in Word
    BY <1>11
  <2>4. it[n + 1] \in Word
    BY <1>3, <2>1, <2>2, <2>3
  <2> QED BY <2>1, <2>4
<1>12. \A n \in 0..PAGE_SHIFT : n \in T
  <2> HIDE DEF T
  <2> QED BY <1>10, <1>11, WordFacts, UpTo
<1>13. it \in [0..PAGE_SHIFT -> Word]
  <2>1. it = [n \in 0..PAGE_SHIFT |-> it[n]]
    BY <1>8, Zenon
  <2> QED BY <1>12, <2>1
<1> QED BY <1>1, <1>9, <1>13 DEF Rounded

LEMMA MemoryFacts ==
  ASSUME NEW m \in Memory
  PROVE  /\ m.ram \in Word /\ m.free \in Word /\ m.swap \in Word
         /\ m.shift \in 0..PAGE_SHIFT
         /\ m = [ram |-> m.ram, free |-> m.free, swap |-> m.swap, shift |-> m.shift]
<1>1. \A x \in Amounts : x \in Word
  BY SysInfoAssumption, Zenon DEF SysInfoAssumption, Word
<1> QED BY <1>1 DEF Memory

(* What there is of memory in bytes, when the amounts are in 2^n of them.  *)
LEMMA NoOverflow ==
  ASSUME NEW m \in Memory
  PROVE  Overflows(m) <=> (m.ram + m.swap) * Pow2[m.shift] >= Pow2[W]
<1> DEFINE sum == m.ram + m.swap
           M == Pow2[W]
           s == m.shift
<1>1. PICK total : total = mem_total(m) /\ Rounded(total, m)
  <2>1. m.ram \in Nat /\ m.swap \in Nat
    BY MemoryFacts, WordFacts
  <2> QED BY <2>1, Totals
<1>2. m.ram \in 0..(M - 1) /\ m.swap \in 0..(M - 1) /\ s \in 0..PAGE_SHIFT /\ M \in Nat \ {0}
      /\ sum \in Nat /\ PAGE_SHIFT \in Nat
  BY MemoryFacts, WordFacts DEF Word
<1>3. \A n \in 0..PAGE_SHIFT : Pow2[n] \in Nat \ {0} /\ n \in 0..(W + PAGE_SHIFT)
  <2> TAKE n \in 0..PAGE_SHIFT
  <2>1. n \in 0..(W + PAGE_SHIFT)
    BY WordFacts
  <2> QED BY <2>1, Powers
<1>4. \A n \in 1..PAGE_SHIFT : Pow2[n] = 2 * Pow2[n - 1] /\ n - 1 \in 0..PAGE_SHIFT
  <2> TAKE n \in 1..PAGE_SHIFT
  <2>1. n \in 1..(W + PAGE_SHIFT)
    BY WordFacts
  <2> QED BY <1>2, <2>1, Powers
<1> DEFINE Exact(n) == sum * Pow2[n]
<1>5. /\ \A n \in 0..PAGE_SHIFT : Exact(n) \in Nat
      /\ \A n \in 1..PAGE_SHIFT : Exact(n) = 2 * Exact(n - 1)
      /\ Exact(0) = sum
  <2>1. \A n \in 0..PAGE_SHIFT : Exact(n) \in Nat
    BY <1>2, <1>3
  <2>2. ASSUME NEW n \in 1..PAGE_SHIFT PROVE Exact(n) = 2 * Exact(n - 1)
    <3>1. PICK p \in Nat : p = Pow2[n - 1]
      BY <1>3, <1>4
    <3>2. Exact(n) = sum * (2 * p) /\ Exact(n - 1) = sum * p
      BY <1>4, <3>1
    <3>3. sum * (2 * p) = 2 * (sum * p)
      BY <1>2
    <3> QED BY <3>2, <3>3
  <2>3. Exact(0) = sum
    BY <1>2, Powers
  <2> QED BY <2>1, <2>2, <2>3
<1>6. /\ total[0] = Wrap(sum) /\ \A n \in 1..PAGE_SHIFT : total[n] = Wrap(2 * total[n - 1])
      /\ \A n \in 0..PAGE_SHIFT : total[n] \in 0..(M - 1)
  BY <1>1, <1>2 DEF Rounded, Word
<1> HIDE DEF sum, M, Exact
<1>7. \A x \in Nat : (x < M => Wrap(x) = x) /\ (M <= x /\ x < 2 * M => Wrap(x) = x - M)
  BY <1>2, Modulus DEF Wrap, M
<1>8. Overflows(m) <=> \/ total[0] < m.ram \/ total[0] < m.swap
                       \/ \E n \in 1..s : total[n] < total[n - 1]
  BY <1>1 DEF Overflows
<1>9. ASSUME ~Overflows(m) PROVE Exact(s) < M
  <2>1. sum < M
    BY <1>2, <1>6, <1>7, <1>8, <1>9 DEF sum
  <2>2. \A n \in 1..s : total[n] >= total[n - 1]
    BY <1>2, <1>6, <1>8, <1>9
  <2> DEFINE T == {n \in 0..s : total[n] = Exact(n) /\ Exact(n) < M}
  <2>3. 0 \in T
    BY <1>2, <1>5, <1>6, <1>7, <2>1
  <2>4. ASSUME NEW n \in 0..(s - 1), n \in T PROVE n + 1 \in T
    <3>1. n + 1 \in 1..s /\ n + 1 \in 1..PAGE_SHIFT /\ n + 1 - 1 = n /\ n \in 0..PAGE_SHIFT
          /\ n + 1 \in 0..s
      BY <1>2
    <3>2. PICK x \in 0..(M - 1) : x = total[n]
      BY <1>6, <3>1
    <3>3. total[n + 1] = Wrap(2 * x) /\ total[n + 1] >= x /\ Exact(n) = x
          /\ Exact(n + 1) = 2 * x
      BY <1>5, <1>6, <2>2, <2>4, <3>1, <3>2
    <3>4. 2 * x < M
      BY <1>2, <1>7, <3>2, <3>3
    <3>5. total[n + 1] = Exact(n + 1) /\ Exact(n + 1) < M
      BY <1>2, <1>7, <3>2, <3>3, <3>4
    <3> QED BY <3>1, <3>5
  <2>5. s \in T
    <3> HIDE DEF T
    <3>1. s \in Nat /\ s \in 0..s
      BY <1>2
    <3> QED BY <2>3, <2>4, <3>1, UpTo
  <2> QED BY <2>5
<1>10. ASSUME Exact(s) < M PROVE ~Overflows(m)
  <2>1. \A n \in 0..s : Exact(n) < M
    <3> DEFINE T == {n \in 0..s : Exact(s - n) < M}
    <3>1. 0 \in T
      BY <1>2, <1>10
    <3>2. ASSUME NEW n \in 0..(s - 1), n \in T PROVE n + 1 \in T
      <4>1. s - n \in 1..PAGE_SHIFT /\ s - n - 1 = s - (n + 1) /\ n + 1 \in 0..s
            /\ s - n - 1 \in 0..PAGE_SHIFT
        BY <1>2
      <4>2. Exact(s - n) = 2 * Exact(s - (n + 1)) /\ Exact(s - (n + 1)) \in Nat
            /\ Exact(s - n) < M
        BY <1>5, <3>2, <4>1
      <4> QED BY <1>2, <4>1, <4>2
    <3>3. \A n \in 0..s : n \in T
      <4> HIDE DEF T
      <4> QED BY <1>2, <3>1, <3>2, UpTo
    <3>4. \A n \in 0..s : s - n \in 0..s /\ s - (s - n) = n
      BY <1>2
    <3> QED BY <3>3, <3>4
  <2>2. sum < M /\ total[0] = sum
    <3>1. 0 \in 0..s /\ Exact(0) = sum
      BY <1>2, <1>5
    <3>2. sum < M
      BY <2>1, <3>1
    <3> QED BY <1>2, <1>6, <1>7, <3>2
  <2> DEFINE T == {n \in 0..s : total[n] = Exact(n)}
  <2>3. 0 \in T
    BY <1>2, <1>5, <2>2
  <2>4. ASSUME NEW n \in 0..(s - 1), n \in T PROVE n + 1 \in T
    <3>1. n + 1 \in 1..PAGE_SHIFT /\ n + 1 - 1 = n /\ n + 1 \in 0..s
      BY <1>2
    <3>2. total[n + 1] = Wrap(2 * Exact(n)) /\ Exact(n + 1) = 2 * Exact(n)
          /\ Exact(n + 1) \in Nat /\ Exact(n + 1) < M
      <4>1. total[n + 1] = Wrap(2 * total[n + 1 - 1]) /\ Exact(n + 1) = 2 * Exact(n + 1 - 1)
        BY <1>5, <1>6, <3>1
      <4> QED BY <1>2, <1>5, <2>1, <2>4, <3>1, <4>1
    <3>3. total[n + 1] = Exact(n + 1)
      BY <1>7, <3>2
    <3> QED BY <3>1, <3>3
  <2>5. \A n \in 0..s : n \in T
    <3> HIDE DEF T
    <3> QED BY <1>2, <2>3, <2>4, UpTo
  <2>6. \A n \in 1..s : ~(total[n] < total[n - 1])
    <3> TAKE n \in 1..s
    <3>1. n \in 0..s /\ n - 1 \in 0..s /\ n \in 1..PAGE_SHIFT /\ n - 1 \in 0..PAGE_SHIFT
      BY <1>2
    <3>2. total[n] = Exact(n) /\ total[n - 1] = Exact(n - 1)
      BY <2>5, <3>1
    <3>3. Exact(n) = 2 * Exact(n - 1) /\ Exact(n - 1) \in Nat
      BY <1>5, <3>1
    <3> QED BY <3>2, <3>3
  <2>7. ~(total[0] < m.ram) /\ ~(total[0] < m.swap)
    BY <1>2, <2>2 DEF sum
  <2> QED BY <1>8, <2>6, <2>7
<1>11. Exact(s) = (m.ram + m.swap) * Pow2[m.shift] /\ M = Pow2[W] /\ Exact(s) \in Nat
  BY <1>2, <1>5 DEF Exact, sum, M
<1> QED BY <1>2, <1>9, <1>10, <1>11

LEMMA Monotone ==
  ASSUME NEW a \in Nat, NEW b \in Nat, NEW r \in Nat
  PROVE  /\ a <= b => a * r <= b * r
         /\ a * r < b * r => a < b
<1>1. a <= b => a * r <= b * r
  <2> SUFFICES ASSUME a <= b PROVE a * r <= b * r
    OBVIOUS
  <2>1. PICK d \in Nat : b = a + d
    <3>1. b - a \in Nat /\ b = a + (b - a)
      OBVIOUS
    <3> QED BY <3>1
  <2>2. b * r = a * r + d * r /\ d * r \in Nat /\ a * r \in Nat
    BY <2>1
  <2> QED BY <2>2
<1>2. a * r < b * r => a < b
  <2> SUFFICES ASSUME b <= a PROVE ~(a * r < b * r)
    OBVIOUS
  <2>1. PICK d \in Nat : a = b + d
    <3>1. a - b \in Nat /\ a = b + (a - b)
      OBVIOUS
    <3> QED BY <3>1
  <2>2. a * r = b * r + d * r /\ d * r \in Nat /\ b * r \in Nat
    BY <2>1
  <2> QED BY <2>2
<1> QED BY <1>1, <1>2

(* What is divided by a power of two, and multiplied by the other part of  *)
(* a larger one, is told to the last unit of that.                         *)
LEMMA Rounding ==
  ASSUME NEW x \in Nat, NEW p \in Nat \ {0}, NEW r \in Nat \ {0}, NEW g, g = p * r
  PROVE  (x \div p) * g <= x * r /\ x * r < (x \div p) * g + g
<1>1. PICK q \in Nat : q = x \div p /\ q * p <= x /\ x < q * p + p
  BY Quotient
<1>2. q * p \in Nat /\ q * p + p \in Nat /\ x + 1 \in Nat /\ x + 1 <= q * p + p
  BY <1>1
<1>3. (q * p) * r <= x * r
  BY <1>1, <1>2, Monotone
<1>4. (x + 1) * r <= (q * p + p) * r
  BY <1>2, Monotone
<1>5. (q * p) * r = q * g /\ (q * p + p) * r = q * g + g /\ (x + 1) * r = x * r + r
      /\ x * r \in Nat /\ q * g \in Nat /\ g \in Nat
  BY <1>1
<1> QED BY <1>1, <1>3, <1>4, <1>5

SysInfoInv ==
  /\ memory \in Memory /\ memory.free <= memory.ram
  /\ info # NOINFO => /\ info = do_sysinfo(memory)
                      /\ compat = Cut(ScaledDown(info))

LEMMA SysInfoInitInv == SysInfoInit => SysInfoInv
BY DEF SysInfoInit, SysInfoInv

LEMMA SysInfoNextInv == SysInfoInv /\ [SysInfoNext]_sysinfos => SysInfoInv'
BY DEF SysInfoInv, SysInfoNext, sysinfo, sysinfos

(* What sysinfo tells a program is the memory there is, in bytes if their  *)
(* sum can be told.                                                        *)
LEMMA InfoIsExact ==
  ASSUME NEW m \in Memory, m.free <= m.ram
  PROVE  LET told == do_sysinfo(m) IN
         /\ told.ram \in Nat /\ told.free \in Nat /\ told.swap \in Nat
         /\ told.shift \in 0..PAGE_SHIFT /\ told.free <= told.ram
         /\ told = [ram |-> told.ram, free |-> told.free, swap |-> told.swap,
                    shift |-> told.shift]
         /\ Bytes(told) = Bytes(m)
         /\ Bytes(m).ram + Bytes(m).swap < Pow2[W] => told.shift = 0
<1>0. /\ m.ram \in Nat /\ m.free \in Nat /\ m.swap \in Nat /\ m.shift \in 0..PAGE_SHIFT
      /\ m = [ram |-> m.ram, free |-> m.free, swap |-> m.swap, shift |-> m.shift]
      /\ 0 \in 0..PAGE_SHIFT
  BY MemoryFacts, WordFacts
<1>1. PICK p \in Nat \ {0} : p = Pow2[m.shift]
  <2>1. m.shift \in 0..(W + PAGE_SHIFT)
    BY <1>0, WordFacts
  <2> QED BY <2>1, Powers
<1>2. PICK M \in Nat \ {0} : M = Pow2[W]
  BY WordFacts
<1>3. Overflows(m) <=> (m.ram + m.swap) * p >= M
  BY <1>1, <1>2, NoOverflow
<1>4. /\ (m.ram + m.swap) * p = m.ram * p + m.swap * p
      /\ m.ram * p \in Nat /\ m.free * p \in Nat /\ m.swap * p \in Nat
      /\ m.free * p <= m.ram * p
  BY <1>0, <1>1, Monotone
<1>5. Bytes(m) = [ram |-> m.ram * p, free |-> m.free * p, swap |-> m.swap * p]
  BY <1>1 DEF Bytes
<1>6. CASE Overflows(m)
  <2>1. do_sysinfo(m) = m
    BY <1>6 DEF do_sysinfo
  <2>2. ~(m.ram * p + m.swap * p < M)
    BY <1>1, <1>2, <1>3, <1>4, <1>6
  <2> QED BY <1>0, <1>2, <1>5, <2>1, <2>2
<1>7. CASE ~Overflows(m)
  <2>1. do_sysinfo(m) = Shifted(m, m.shift)
    BY <1>7 DEF do_sysinfo
  <2>2. m.ram * p < M /\ m.free * p < M /\ m.swap * p < M
    BY <1>2, <1>3, <1>4, <1>7
  <2>3. Wrap(m.ram * p) = m.ram * p /\ Wrap(m.free * p) = m.free * p
        /\ Wrap(m.swap * p) = m.swap * p
    BY <1>2, <1>4, <2>2, Modulus DEF Wrap
  <2>4. PICK x \in Nat, y \in Nat, z \in Nat : x = m.ram * p /\ y = m.free * p /\ z = m.swap * p
    BY <1>4
  <2>5. Shifted(m, m.shift) = [ram |-> x, free |-> y, swap |-> z, shift |-> 0]
    BY <1>0, <1>1, <2>3, <2>4 DEF Shifted
  <2>6. Bytes(Shifted(m, m.shift)) = [ram |-> x, free |-> y, swap |-> z]
    BY <2>4, <2>5, Powers DEF Bytes
  <2>7. y <= x
    BY <1>4, <2>4
  <2> QED BY <1>0, <1>5, <2>1, <2>4, <2>5, <2>6, <2>7
<1> QED BY <1>6, <1>7

LEMMA CompatIsNear ==
  ASSUME NEW i, i.ram \in Nat, i.free \in Nat, i.swap \in Nat, i.shift \in 0..PAGE_SHIFT,
         i.free <= i.ram,
         i = [ram |-> i.ram, free |-> i.free, swap |-> i.swap, shift |-> i.shift],
         Bytes(i).ram < Pow2[C + PAGE_SHIFT], Bytes(i).swap < Pow2[C + PAGE_SHIFT]
  PROVE  LET c == Bytes(Cut(ScaledDown(i))) IN
         Near(c.ram, Bytes(i).ram) /\ Near(c.free, Bytes(i).free) /\ Near(c.swap, Bytes(i).swap)
<1> DEFINE by == PAGE_SHIFT - i.shift
<1>1. PICK r \in Nat \ {0}, p \in Nat \ {0}, g \in Nat \ {0}, m \in Nat \ {0} :
        /\ r = Pow2[i.shift] /\ p = Pow2[by] /\ g = Pow2[PAGE_SHIFT] /\ m = Pow2[C]
        /\ g = p * r /\ Pow2[C + PAGE_SHIFT] = m * g
  <2>1. by \in Nat /\ i.shift \in Nat /\ by + i.shift = PAGE_SHIFT
        /\ by \in 0..(W + PAGE_SHIFT) /\ i.shift \in 0..(W + PAGE_SHIFT)
        /\ PAGE_SHIFT <= W + PAGE_SHIFT /\ PAGE_SHIFT \in Nat /\ C \in Nat
        /\ C + PAGE_SHIFT <= W + PAGE_SHIFT
    BY WordFacts
  <2>2. Pow2[PAGE_SHIFT] = Pow2[by] * Pow2[i.shift]
    BY <2>1, PowersAdd
  <2>3. Pow2[C + PAGE_SHIFT] = Pow2[C] * Pow2[PAGE_SHIFT]
    BY <2>1, PowersAdd
  <2> QED BY <2>1, <2>2, <2>3, Powers, WordFacts
<1>2. /\ Bytes(i) = [ram |-> i.ram * r, free |-> i.free * r, swap |-> i.swap * r]
      /\ i.ram * r \in Nat /\ i.free * r \in Nat /\ i.swap * r \in Nat
      /\ i.free * r <= i.ram * r /\ i.ram * r < m * g /\ i.swap * r < m * g
  <2>1. Bytes(i) = [ram |-> i.ram * r, free |-> i.free * r, swap |-> i.swap * r]
    BY <1>1 DEF Bytes
  <2>2. i.free * r <= i.ram * r
    BY Monotone
  <2> QED BY <1>1, <2>1, <2>2
<1>3. CASE i.ram < Pow2[C] /\ i.swap < Pow2[C]
  <2>1. ScaledDown(i) = i
    BY <1>3 DEF ScaledDown
  <2>2. i.ram % m = i.ram /\ i.free % m = i.free /\ i.swap % m = i.swap
    BY <1>1, <1>3, Modulus
  <2>3. Cut(i) = i
    BY <1>1, <2>2 DEF Cut
  <2> QED BY <1>1, <1>2, <2>1, <2>3 DEF Near
<1>4. CASE ~(i.ram < Pow2[C] /\ i.swap < Pow2[C])
  <2>1. ASSUME NEW x \in Nat, x * r < m * g
        PROVE  /\ x \div p \in Nat /\ (x \div p) % m = x \div p
               /\ Near((x \div p) * g, x * r)
    <3>1. PICK q \in Nat : q = x \div p
      BY Quotient
    <3>2. q * g <= x * r /\ x * r < q * g + g
      BY <1>1, <3>1, Rounding
    <3>3. q * g \in Nat /\ m * g \in Nat /\ x * r \in Nat
      OBVIOUS
    <3>4. q * g < m * g
      BY <2>1, <3>2, <3>3
    <3>5. q < m
      BY <3>4, Monotone
    <3>6. q % m = q
      BY <3>5, Modulus
    <3> QED BY <1>1, <3>1, <3>2, <3>6 DEF Near
  <2>2. i.free * r < m * g
    <3>1. m * g \in Nat
      OBVIOUS
    <3> QED BY <1>2, <3>1
  <2>3. PICK x \in Nat, y \in Nat, z \in Nat :
          x = i.ram \div p /\ y = i.free \div p /\ z = i.swap \div p
    BY <1>2, <2>1, <2>2
  <2>4. /\ x % m = x /\ y % m = y /\ z % m = z
        /\ Near(x * g, i.ram * r) /\ Near(y * g, i.free * r) /\ Near(z * g, i.swap * r)
    BY <1>2, <2>1, <2>2, <2>3
  <2>5. ScaledDown(i) = [ram |-> x, free |-> y, swap |-> z, shift |-> PAGE_SHIFT]
    BY <1>1, <1>4, <2>3 DEF ScaledDown
  <2>6. PICK s : s = [ram |-> x, free |-> y, swap |-> z, shift |-> PAGE_SHIFT]
    OBVIOUS
  <2>7. Cut(s) = s
    <3>1. Cut(s) = [s EXCEPT !.ram = x % m, !.free = y % m, !.swap = z % m]
      BY <1>1, <2>6 DEF Cut
    <3> QED BY <2>4, <2>6, <3>1
  <2>8. Bytes(s) = [ram |-> x * g, free |-> y * g, swap |-> z * g]
    BY <1>1, <2>6 DEF Bytes
  <2>9. Bytes(Cut(ScaledDown(i))) = [ram |-> x * g, free |-> y * g, swap |-> z * g]
    <3>1. ScaledDown(i) = s
      BY <2>5, <2>6
    <3> QED BY <2>7, <2>8, <3>1
  <2> QED BY <1>2, <2>4, <2>9
<1> QED BY <1>3, <1>4

LEMMA SysInfoInvTells == SysInfoInv => SysInfoTells
<1> SUFFICES ASSUME SysInfoInv, info # NOINFO PROVE SysInfoTells
  BY DEF SysInfoTells
<1>1. memory \in Memory /\ memory.free <= memory.ram /\ info = do_sysinfo(memory)
      /\ compat = Cut(ScaledDown(info))
  BY DEF SysInfoInv
<1>2. /\ info.ram \in Nat /\ info.free \in Nat /\ info.swap \in Nat
      /\ info.shift \in 0..PAGE_SHIFT /\ info.free <= info.ram
      /\ info = [ram |-> info.ram, free |-> info.free, swap |-> info.swap, shift |-> info.shift]
      /\ Bytes(info) = Bytes(memory)
      /\ Bytes(memory).ram + Bytes(memory).swap < Pow2[W] => info.shift = 0
  BY <1>1, InfoIsExact
<1>3. Bytes(info).ram < Pow2[C + PAGE_SHIFT] /\ Bytes(info).swap < Pow2[C + PAGE_SHIFT] =>
        LET c == Bytes(compat) IN
        /\ Near(c.ram, Bytes(info).ram) /\ Near(c.free, Bytes(info).free)
        /\ Near(c.swap, Bytes(info).swap)
  BY <1>1, <1>2, CompatIsNear
<1> QED BY <1>2, <1>3 DEF SysInfoTells

(* A program is told all of the memory there is, and one of 32 bits to the *)
(* page (sysinfo, sys.c:2517-2654).                                        *)
THEOREM InfoHolds == SysInfoSpec => []SysInfoTells
BY SysInfoInitInv, SysInfoNextInv, SysInfoInvTells, PTL DEF SysInfoSpec

-----------------------------------------------------------------------------
(* A behaviour of the calls of sys.c is one of each of its parts.          *)
LEMMA PartSpecs ==
  Spec => IdsSpec /\ TreeSpec /\ LimitsSpec /\ MmSpec /\ UsageSpec /\ OptionsSpec /\ UtsSpec
          /\ SysInfoSpec
<1>1. Init => IdsInit /\ TreeInit /\ LimitsInit /\ MmInit /\ UsageInit /\ OptionsInit /\ UtsInit
                /\ SysInfoInit
  BY DEF Init
<1> DEFINE All == <<subject, ids, tree, limits, mmv, usage, options, uts, sysinfos>>
<1>2. [Next]_All => [IdsNext]_ids /\ [TreeNext]_tree /\ [LimitsNext]_limits /\ [MmNext]_mmv
                    /\ [UsageNext]_usage /\ [OptionsNext]_options /\ [UtsNext]_uts
                    /\ [SysInfoNext]_sysinfos
  BY DEF Next, IdsNext
<1> QED
  BY <1>1, <1>2, PTL DEF Spec, IdsSpec, TreeSpec, LimitsSpec, MmSpec, UsageSpec,
       OptionsSpec, UtsSpec,
              SysInfoSpec

(* A task may use what its limits and priorities say, and its memory is    *)
(* where its map says, whatever calls race (setrlimit, setpriority, and    *)
(* prctl(PR_SET_MM), sys.c:200-345, 1381-1655, 1830-2205).                 *)
THEOREM Bounds == Spec => BoundsHold
<1>1. LimitsSpec => [][OnlyAdminsRaise]_limits
  BY LimitsInitInv, LimitsNextInv, PTL DEF LimitsSpec
<1>2. LimitsSpec => HardLimitsFall
  BY <1>1 DEF HardLimitsFall, OnlyAdminsRaise
<1>3. MmSpec => []MmAlways /\ [][MmStep]_mmv
  BY MmInitInv, MmNextInv, MmInvHolds, PTL DEF MmSpec
<1>4. LimitsAlways => On({"limits"}, LimitsAlways)
  BY DEF On
<1>5. MmAlways => On({"mm"}, MmAlways)
  BY DEF On
<1> QED
  BY <1>2, <1>3, <1>4, <1>5, PartSpecs, LimitsHold, PTL DEF BoundsHold

(* What tasks are told by several calls is told whole, whoever changes it  *)
(* meanwhile: use, options, names and memory.                              *)
THEOREM Telling == Spec => ToldWhole
<1>1. NamesAlways => On({"names"}, NamesAlways)
  BY DEF On
<1>2. PolicyIsTold => On({"options"}, PolicyIsTold)
  BY DEF On
<1>3. SysInfoTells => On({"sysinfo"}, SysInfoTells)
  BY DEF On
<1> QED
  BY <1>1, <1>2, <1>3, PartSpecs, NamesHold, OptionsHold, InfoHolds, SamplesHold, PTL DEF ToldWhole

(* The same of identity, in the composition.                              *)
THEOREM IdentityHolds == Spec => IdsHold
BY PartSpecs, Identity

(* A process group lies in one session, leaders stay in theirs, and        *)
(* orphans find the subreaper above them, whatever else happens.           *)
THEOREM Tree == Spec => TreeHolds
<1>1. TreeAlways => On({"tree"}, TreeAlways)
  BY DEF On
<1> QED BY <1>1, PartSpecs, TreeKept, LeadersKeepIt, PTL DEF TreeHolds
=============================================================================
