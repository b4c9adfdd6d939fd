------------------------------ MODULE TaskTree ------------------------------
(***************************************************************************)
(* Sessions, process groups and child subreapers: setpgid, setsid and      *)
(* prctl(PR_SET_CHILD_SUBREAPER) of linux-5.5.y/kernel/sys.c, against      *)
(* fork, execve and exit.                                                  *)
(*                                                                         *)
(* setpgid and setsid hold tasklist_lock from their checks to their        *)
(* changes: one step.  prctl sets its flag outside it and then walks the   *)
(* tree under it: two.  Threads act for the leader of their group, and the *)
(* id of another thread is refused, so processes are all there is.  A      *)
(* process leaves when it has been waited for.  There is one PID           *)
(* namespace: child_reaper, at which the walk stops, is its init, the one  *)
(* process nobody is the parent of.                                        *)
(***************************************************************************)
EXTENDS Naturals, FiniteSets

CONSTANTS
  Pids, child_reaper,
  Reapers         (* bound: the processes that ask to be a subreaper       *)

ASSUME PidsAssumption == child_reaper \in Pids /\ Reapers \subseteq Pids /\ IsFiniteSet(Pids)

VARIABLES
  tasks,          (* processes                                             *)
  real_parent, pgrp, session,
  leader,         (* signal->leader                                        *)
  forknoexec,     (* PF_FORKNOEXEC                                         *)
  is_child_subreaper, has_child_subreaper,
  walking         (* processes in prctl, before its walk                   *)

groups    == <<pgrp, session, leader>>
reapers   == <<is_child_subreaper, has_child_subreaper, walking>>
tree      == <<tasks, real_parent, groups, forknoexec, reapers>>

TreeInit ==
  /\ tasks = {child_reaper}
  /\ real_parent = [p \in Pids |-> child_reaper]
  /\ pgrp = [p \in Pids |-> p] /\ session = [p \in Pids |-> p]
  /\ leader = {child_reaper} /\ forknoexec = {}
  /\ is_child_subreaper = {} /\ has_child_subreaper = {} /\ walking = {}

Children(p) == {c \in tasks \ {child_reaper} : real_parent[c] = p}
Members(g)  == {p \in tasks : pgrp[p] = g}

(* What a walk from p reaches that goes on through From(c) at each c.      *)
Walk(p, From(_)) ==
  LET reach[n \in 0..Cardinality(Pids)] ==
        IF n = 0 THEN From(p) ELSE reach[n - 1] \cup UNION {From(c) : c \in reach[n - 1]}
  IN  reach[Cardinality(Pids)]

Descendants(p) == Walk(p, Children)
-----------------------------------------------------------------------------
(* A number is free when no process, group or session has it.              *)
Unused(c) == c \notin tasks /\ \A p \in tasks : pgrp[p] # c /\ session[p] # c

(* copy_process attaches the child and takes over the flag under the lock. *)
fork(p, c) ==
  /\ p \in tasks /\ Unused(c)
  /\ tasks' = tasks \cup {c}
  /\ real_parent' = [real_parent EXCEPT ![c] = p]
  /\ pgrp' = [pgrp EXCEPT ![c] = pgrp[p]]
  /\ session' = [session EXCEPT ![c] = session[p]]
  /\ forknoexec' = forknoexec \cup {c}
  /\ has_child_subreaper' = IF p \in is_child_subreaper \cup has_child_subreaper
                            THEN has_child_subreaper \cup {c} ELSE has_child_subreaper
  /\ UNCHANGED <<leader, is_child_subreaper, walking>>

execve(p) ==
  /\ p \in tasks
  /\ forknoexec' = forknoexec \ {p}
  /\ UNCHANGED <<tasks, real_parent, groups, reapers>>

(* find_new_reaper: the nearest subreaper above, if there can be one.      *)
NewReaper(p) ==
  LET above == {a \in is_child_subreaper : p \in Descendants(a)}
  IN  IF p \notin has_child_subreaper \/ above = {} THEN child_reaper
      ELSE CHOOSE a \in above : above \cap Descendants(a) = {}

exit(p) ==
  /\ p \in tasks \ {child_reaper}
  /\ tasks' = tasks \ {p}
  /\ real_parent' = [c \in Pids |-> IF c \in Children(p) THEN NewReaper(p)
                                    ELSE IF c = p THEN child_reaper ELSE real_parent[c]]
  /\ pgrp' = [pgrp EXCEPT ![p] = p] /\ session' = [session EXCEPT ![p] = p]
  /\ leader' = leader \ {p} /\ forknoexec' = forknoexec \ {p}
  /\ is_child_subreaper' = is_child_subreaper \ {p}
  /\ has_child_subreaper' = has_child_subreaper \ {p}
  /\ walking' = walking \ {p}
-----------------------------------------------------------------------------
(* Mutant: the leader of a session may be moved.                           *)
MovesLeaders(current, pid, pgid) ==
  /\ {current, pid} \subseteq tasks
  /\ IF pid # child_reaper /\ real_parent[pid] = current
     THEN session[pid] = session[current] /\ pid \in forknoexec
     ELSE pid = current
  /\ pgid # pid => \E g \in Members(pgid) : session[g] = session[current]
  /\ pgrp' = [pgrp EXCEPT ![pid] = pgid]
  /\ UNCHANGED <<tasks, real_parent, session, leader, forknoexec, reapers>>

(* setpgid(pid, pgid) called by current: of itself or of a child in the    *)
(* same session that has not called execve.  Leaders of sessions stay.     *)
setpgid(current, pid, pgid) ==
  /\ {current, pid} \subseteq tasks
  /\ IF pid # child_reaper /\ real_parent[pid] = current
     THEN session[pid] = session[current] /\ pid \in forknoexec
     ELSE pid = current
  /\ pid \notin leader
  /\ pgid # pid => \E g \in Members(pgid) : session[g] = session[current]
  /\ pgrp' = [pgrp EXCEPT ![pid] = pgid]
  /\ UNCHANGED <<tasks, real_parent, session, leader, forknoexec, reapers>>

(* Mutant: nobody looks whether a group of that number exists.             *)
setsid_AnyGroup(current) ==
  /\ current \in tasks /\ current \notin leader
  /\ leader' = leader \cup {current}
  /\ session' = [session EXCEPT ![current] = current]
  /\ pgrp' = [pgrp EXCEPT ![current] = current]
  /\ UNCHANGED <<tasks, real_parent, forknoexec, reapers>>

(* setsid fails for a leader, and when a group has the number already.     *)
setsid(current) ==
  /\ current \in tasks /\ current \notin leader
  /\ Members(current) = {}
  /\ leader' = leader \cup {current}
  /\ session' = [session EXCEPT ![current] = current]
  /\ pgrp' = [pgrp EXCEPT ![current] = current]
  /\ UNCHANGED <<tasks, real_parent, forknoexec, reapers>>

(* prctl(PR_SET_CHILD_SUBREAPER, on)                                       *)
set_child_subreaper(me, on) ==
  /\ me \in (tasks \cap Reapers) \ walking
  /\ is_child_subreaper' = IF on THEN is_child_subreaper \cup {me}
                           ELSE is_child_subreaper \ {me}
  /\ walking' = IF on THEN walking \cup {me} ELSE walking
  /\ UNCHANGED <<tasks, real_parent, groups, forknoexec, has_child_subreaper>>

(* Mutant: a process that is on its way itself is left to its own walk.    *)
LeftToItself(p) == Children(p) \ (has_child_subreaper \cup walking)

(* walk_process_tree with propagate_has_child_subreaper: below a process   *)
(* that has the flag already nothing is visited, nor below the init of a   *)
(* namespace, which is no child of any here.                               *)
Unflagged(p) == Children(p) \ has_child_subreaper

walk_process_tree(me) ==
  /\ me \in walking
  /\ has_child_subreaper' = has_child_subreaper \cup Walk(me, Unflagged)
  /\ walking' = walking \ {me}
  /\ UNCHANGED <<tasks, real_parent, groups, forknoexec, is_child_subreaper>>

TreeNext ==
  \E p \in Pids :
    \/ execve(p) \/ exit(p) \/ setsid(p) \/ walk_process_tree(p)
    \/ \E c \in Pids : fork(p, c)
    \/ \E pid, pgid \in Pids : setpgid(p, pid, pgid)
    \/ \E on \in BOOLEAN : set_child_subreaper(p, on)

TreeSpec == TreeInit /\ [][TreeNext]_tree
-----------------------------------------------------------------------------
TreeTypeOK ==
  /\ tasks \subseteq Pids /\ child_reaper \in tasks
  /\ real_parent \in [Pids -> Pids]
  /\ pgrp \in [Pids -> Pids] /\ session \in [Pids -> Pids]
  /\ leader \subseteq tasks /\ forknoexec \subseteq tasks
  /\ is_child_subreaper \subseteq tasks /\ has_child_subreaper \subseteq tasks
  /\ walking \subseteq tasks

(* What a process is told of another, or of itself.                        *)
getpgid(p) == pgrp[p]
getsid(p)  == session[p]

(* A process group lies in one session, whichever way its members came to  *)
(* it: by fork, by a call of their own or of their parent, with the number *)
(* used again after its first owner has gone.  (The author of setpgid says *)
(* he does not know, sys.c:972.)                                           *)
GroupInOneSession ==
  \A p, q \in tasks : getpgid(p) = getpgid(q) => getsid(p) = getsid(q)

(* The leader of a session leads a group of its own in it, and it is the   *)
(* process whose number the session has.                                   *)
LeadersLead ==
  \A p \in tasks : (p \in leader <=> getsid(p) = p) /\ (p \in leader => getpgid(p) = p)

(* sys.c:2209: below a process with has_child_subreaper all have it, which *)
(* is why the walk may stop there.                                         *)
FlagGoesDown ==
  \A p \in has_child_subreaper : Children(p) \subseteq has_child_subreaper

(* When prctl has returned, every process below is one whose orphans will  *)
(* look for a subreaper, those forked while it was on its way included.    *)
SubreaperIsFound ==
  \A p \in is_child_subreaper \ walking : Descendants(p) \subseteq has_child_subreaper

(* Sessions, groups and subreapers, taken together.                        *)
TreeAlways == TreeTypeOK /\ GroupInOneSession /\ LeadersLead /\ FlagGoesDown /\ SubreaperIsFound

(* The leader of a session never leaves it.                                *)
LeadersStay ==
  [][\A p \in leader \cap leader' : session'[p] = session[p] /\ pgrp'[p] = pgrp[p]]_tree
=============================================================================
