------------------------------ MODULE TaskIds ------------------------------
(***************************************************************************)
(* The credentials of a task under the calls of linux-5.5.y/kernel/sys.c   *)
(* that set user and group ids.                                            *)
(*                                                                         *)
(* Only the task itself changes its credentials, so a call is one step.    *)
(* One that is refused before it reaches set_user changes nothing and is   *)
(* no step.  Other processes of a user come and go: whether set_user finds *)
(* their number at the limit may go either way.  What the security hooks   *)
(* and capset do is the kernel's (security/commoncap.c), which is not in   *)
(* this repository.                                                        *)
(***************************************************************************)
EXTENDS Integers

CONSTANTS
  Uids, Gids,     (* ids, those of root among them                         *)
  ROOT            (* user id 0                                             *)

ASSUME IdsAssumption == ROOT \in Uids /\ Uids \subseteq Nat /\ Gids \subseteq Nat

VARIABLES
  cred,           (* current_cred()                                        *)
  exceeded        (* PF_NPROC_EXCEEDED is set                              *)

ids == <<cred, exceeded>>

Caps == {"SETUID", "SETGID"}

Cred == [uid: Uids, euid: Uids, suid: Uids, fsuid: Uids, user: Uids,
         gid: Gids, egid: Gids, sgid: Gids, fsgid: Gids,
         permitted: SUBSET Caps, effective: SUBSET Caps]

(* What getresuid and getresgid tell, and with it the id used for files.   *)
RealUids(c) == {c.uid, c.euid, c.suid}
RealGids(c) == {c.gid, c.egid, c.sgid}
AllUids(c)  == RealUids(c) \cup {c.fsuid}
AllGids(c)  == RealGids(c) \cup {c.fsgid}

(* A login, a program with the set-user-id bit, one with file capabilities. *)
IdsInit ==
  /\ \E u, e \in Uids, g, h \in Gids, p \in {{}, Caps} :
       /\ e = ROOT => p = Caps
       /\ cred = [uid |-> u, euid |-> e, suid |-> e, fsuid |-> e, user |-> u,
                  gid |-> g, egid |-> h, sgid |-> h, fsgid |-> h,
                  permitted |-> p, effective |-> p]
  /\ exceeded = FALSE

(* An argument of -1 keeps what there is.                                  *)
KEEP == -1
Given(arg)   == arg # KEEP
Or(arg, old) == IF Given(arg) THEN arg ELSE old

capable(c, cap) == cap \in c.effective

(* cap_task_fix_setuid                                                     *)
fix_setuid(old, new) ==
  LET lost == ROOT \in RealUids(old) /\ ROOT \notin RealUids(new)
      kept == IF lost THEN {} ELSE new.permitted
  IN  [new EXCEPT
         !.permitted = kept,
         !.effective = IF lost \/ (old.euid = ROOT /\ new.euid # ROOT) THEN {}
                       ELSE IF old.euid # ROOT /\ new.euid = ROOT THEN kept
                       ELSE @]
-----------------------------------------------------------------------------
(* set_user for new: counted for the user of its real id, and the flag is  *)
(* set or cleared, before the hooks are asked.  INIT_USER has no limit.    *)
set_user(new) ==
  exceeded' \in IF new.uid = ROOT THEN {FALSE} ELSE BOOLEAN

(* The rest of a call that sets user ids, which has set_user called or     *)
(* not: security_task_fix_setuid, and commit_creds, or abort_creds when a  *)
(* security module refuses.                                                *)
Fixed(new, counted) ==
  fix_setuid(cred, IF counted THEN [new EXCEPT !.user = new.uid] ELSE new)

Finish(new, counted) ==
  /\ IF counted THEN set_user(new) ELSE UNCHANGED exceeded
  /\ \/ cred' = Fixed(new, counted)
     \/ UNCHANGED cred

MaySetreuid(c, ruid, euid) ==
  /\ Given(ruid) => ruid \in {c.uid, c.euid} \/ capable(c, "SETUID")
  /\ Given(euid) => euid \in RealUids(c) \/ capable(c, "SETUID")

AfterSetreuid(c, ruid, euid) ==
  [c EXCEPT !.uid = Or(ruid, @), !.euid = Or(euid, @),
            !.suid = IF Given(ruid) \/ (Given(euid) /\ euid # c.uid)
                     THEN Or(euid, c.euid) ELSE @,
            !.fsuid = Or(euid, c.euid)]

setreuid(ruid, euid) ==
  LET new == AfterSetreuid(cred, ruid, euid)
  IN  MaySetreuid(cred, ruid, euid) /\ Finish(new, new.uid # cred.uid)

setuid(uid) ==
  LET own == [cred EXCEPT !.euid = uid, !.fsuid = uid]
  IN  \/ /\ capable(cred, "SETUID")
         /\ Finish([own EXCEPT !.uid = uid, !.suid = uid], uid # cred.uid)
      \/ /\ ~capable(cred, "SETUID")
         /\ uid \in {cred.uid, cred.suid}
         /\ Finish(own, FALSE)

(* Mutant: the id used for files is left where it was.                     *)
KeepsFsuid(ruid, euid, suid) ==
  /\ \/ capable(cred, "SETUID")
     \/ {ruid, euid, suid} \ {KEEP} \subseteq RealUids(cred)
  /\ Finish([cred EXCEPT !.uid = Or(ruid, @), !.euid = Or(euid, @), !.suid = Or(suid, @)],
            Given(ruid) /\ ruid # cred.uid)

setresuid(ruid, euid, suid) ==
  /\ \/ capable(cred, "SETUID")
     \/ {ruid, euid, suid} \ {KEEP} \subseteq RealUids(cred)
  /\ Finish([cred EXCEPT !.uid = Or(ruid, @), !.euid = Or(euid, @), !.suid = Or(suid, @),
                         !.fsuid = Or(euid, cred.euid)],
            Given(ruid) /\ ruid # cred.uid)

setfsuid(uid) ==
  /\ uid \in AllUids(cred) \/ capable(cred, "SETUID")
  /\ cred' = [cred EXCEPT !.fsuid = uid]
  /\ UNCHANGED exceeded

setregid(rgid, egid) ==
  /\ Given(rgid) => rgid \in {cred.gid, cred.egid} \/ capable(cred, "SETGID")
  /\ Given(egid) => egid \in RealGids(cred) \/ capable(cred, "SETGID")
  /\ cred' = [cred EXCEPT !.gid = Or(rgid, @), !.egid = Or(egid, @),
                          !.sgid = IF Given(rgid) \/ (Given(egid) /\ egid # cred.gid)
                                   THEN Or(egid, cred.egid) ELSE @,
                          !.fsgid = Or(egid, cred.egid)]
  /\ UNCHANGED exceeded

setgid(gid) ==
  /\ \/ /\ capable(cred, "SETGID")
        /\ cred' = [cred EXCEPT !.gid = gid, !.egid = gid, !.sgid = gid, !.fsgid = gid]
     \/ /\ ~capable(cred, "SETGID")
        /\ gid \in {cred.gid, cred.sgid}
        /\ cred' = [cred EXCEPT !.egid = gid, !.fsgid = gid]
  /\ UNCHANGED exceeded

setresgid(rgid, egid, sgid) ==
  /\ \/ capable(cred, "SETGID")
     \/ {rgid, egid, sgid} \ {KEEP} \subseteq RealGids(cred)
  /\ cred' = [cred EXCEPT !.gid = Or(rgid, @), !.egid = Or(egid, @), !.sgid = Or(sgid, @),
                          !.fsgid = Or(egid, cred.egid)]
  /\ UNCHANGED exceeded

setfsgid(gid) ==
  /\ gid \in AllGids(cred) \/ capable(cred, "SETGID")
  /\ cred' = [cred EXCEPT !.fsgid = gid]
  /\ UNCHANGED exceeded

(* capset: a task may give capabilities up, and put on those it has.       *)
capset(permitted, effective) ==
  /\ permitted \subseteq cred.permitted /\ effective \subseteq permitted
  /\ cred' = [cred EXCEPT !.permitted = permitted, !.effective = effective]
  /\ UNCHANGED exceeded

UserCalls ==
  \/ \E r, e \in Uids \cup {KEEP} : setreuid(r, e)
  \/ \E r, e, s \in Uids \cup {KEEP} : setresuid(r, e, s)
  \/ \E u \in Uids : setuid(u) \/ setfsuid(u)

GroupCalls ==
  \/ \E r, e \in Gids \cup {KEEP} : setregid(r, e)
  \/ \E r, e, s \in Gids \cup {KEEP} : setresgid(r, e, s)
  \/ \E g \in Gids : setgid(g) \/ setfsgid(g)

CapCalls == \E p, e \in SUBSET Caps : capset(p, e)

IdsNext == UserCalls \/ GroupCalls \/ CapCalls

IdsSpec == IdsInit /\ [][IdsNext]_ids
-----------------------------------------------------------------------------
IdsTypeOK == cred \in Cred /\ exceeded \in BOOLEAN

(* A task is counted for the user whose real id it has, whatever calls     *)
(* brought it there: each of them calls set_user by itself, under a        *)
(* condition of its own.                                                   *)
CountedForItsUser == cred.user = cred.uid

(* Without the capability no sequence of calls brings a task to an id it   *)
(* does not have already.                                                  *)
NoNewIds ==
  /\ ~capable(cred, "SETUID") => AllUids(cred') \subseteq AllUids(cred)
  /\ ~capable(cred, "SETGID") => AllGids(cred') \subseteq AllGids(cred)

(* sys.c:486: a setuid program can completely drop its privileges.  Once   *)
(* root is in none of the three ids, it is not the id used for files       *)
(* either, and the capabilities are gone,                                  *)
DropIsComplete ==
  ROOT \in RealUids(cred) /\ ROOT \notin RealUids(cred') =>
    cred'.fsuid # ROOT /\ cred'.permitted = {}

(* and they stay dropped.                                                  *)
Dropped(c) == ROOT \notin AllUids(c) /\ c.permitted = {}
DropLasts  == Dropped(cred) => Dropped(cred')

(* sys.c:567: a root program may drop its privileges for a time and regain *)
(* them by swapping the real and the effective id.                         *)
SwapRegains ==
  LET swap(c) == fix_setuid(c, AfterSetreuid(c, c.euid, c.uid))
  IN  cred.euid = ROOT /\ cred.uid # ROOT =>
        /\ MaySetreuid(cred, cred.euid, cred.uid)
        /\ MaySetreuid(swap(cred), swap(cred).euid, swap(cred).uid)
        /\ swap(cred).effective = {}
        /\ RealUids(swap(swap(cred))) \subseteq RealUids(cred)
        /\ swap(swap(cred)).euid = ROOT /\ swap(swap(cred)).effective = cred.permitted

(* The credentials calls, taken together: what a task is counted for, what *)
(* it may become, and what dropping privileges means.                      *)
IdsAlways == CountedForItsUser /\ SwapRegains
IdsStep   == NoNewIds /\ DropIsComplete /\ DropLasts
IdsHold   == []IdsAlways /\ [][IdsStep]_ids
=============================================================================
