----------------------------- MODULE TaskLimits -----------------------------
(***************************************************************************)
(* Resource limits and priorities: setrlimit, prlimit64 and setpriority of *)
(* linux-5.5.y/kernel/sys.c, called by tasks at the same time.             *)
(*                                                                         *)
(* A change of a limit is checked by its caller first, made under          *)
(* task_lock, and a limit of CPU time passed on to the timers after the    *)
(* lock is released: three steps.  setpriority is one step, as it changes  *)
(* each task once.  Limits count up to INFINITY, and COMPAT_INFINITY is    *)
(* the largest of them a 32 bit program can be told.                       *)
(*                                                                         *)
(* Whether a call may do what it asks for is up to the credentials of its  *)
(* caller and of the task it is about, and those are changed by other      *)
(* calls (TaskIds, capset, execve): here a task that is in none of these   *)
(* calls may take on any identity it may have at any time.                 *)
(***************************************************************************)
EXTENDS Integers, FiniteSets, Sequences, SequencesExt

CONSTANTS
  Tasks,
  Identities,     (* the credentials [uid, euid, caps] each task may have  *)
  Resources,
  INIT_RLIMITS,   (* the limits the first task starts with                 *)
  Requests,       (* Requests[r]: the limits asked for of resource r       *)
  MaxNice,        (* nice values are 0..MaxNice, for MIN_NICE..MAX_NICE    *)
  nr_open,
  OLD_INFINITY, COMPAT_INFINITY, INFINITY  (* the largest that an old, a 32 bit and any program is told *)

ASSUME LimitsAssumption ==
  /\ IsFiniteSet(Tasks)
  /\ MaxNice \in Nat /\ nr_open \in Nat
  /\ {OLD_INFINITY, COMPAT_INFINITY, INFINITY} \subseteq Nat
  /\ OLD_INFINITY <= COMPAT_INFINITY /\ COMPAT_INFINITY <= INFINITY
  /\ {"NICE", "CPU"} \subseteq Resources
  /\ Requests \in [Resources -> SUBSET [rlim_cur: 0..INFINITY, rlim_max: 0..INFINITY]]
  /\ INIT_RLIMITS \in [Resources -> [rlim_cur: 0..INFINITY, rlim_max: 0..INFINITY]]
  /\ \A r \in Resources : INIT_RLIMITS[r].rlim_cur <= INIT_RLIMITS[r].rlim_max

VARIABLES
  task_cred,      (* of each task                                          *)
  rlim,           (* of each task, for each resource                       *)
  nice,
  cpu_timer,      (* when the timer for CPU time of a task expires         *)
  call,           (* the limit each task is about to change, and how far   *)
  granted         (* history: the best nice value an administrator, or the
                     start of the task, has left within its reach          *)

limits == <<task_cred, rlim, nice, cpu_timer, call, granted>>

rlimit == [rlim_cur: 0..INFINITY, rlim_max: 0..INFINITY]
IDLE   == [at |-> "idle"]
Calls  == {IDLE} \cup [at: {"checked", "timer"}, tsk: Tasks, resource: Resources, new: rlimit]

(* CAP_SYS_RESOURCE is "RESOURCE", CAP_SYS_NICE is "NICE".                *)
ns_capable(t, cap) == cap \in task_cred[t].caps

(* nice_to_rlimit, and back: a limit of n allows MaxNice + 1 - n.          *)
nice_to_rlimit(n) == MaxNice + 1 - n
Reach(limit) == IF limit > MaxNice + 1 THEN 0 ELSE MaxNice + 1 - limit
Lower(a, b)  == IF a < b THEN a ELSE b

(* Tasks start with the limits of init_task, at any priority, and with     *)
(* nothing granted that is better than that or than their hard limit.      *)
LimitsInit ==
  /\ task_cred \in {f \in [Tasks -> UNION {Identities[t] : t \in Tasks}] :
                     \A t \in Tasks : f[t] \in Identities[t]}
  /\ rlim = [t \in Tasks |-> INIT_RLIMITS]
  /\ nice \in [Tasks -> 0..MaxNice]
  /\ cpu_timer = [t \in Tasks |-> rlim[t]["CPU"].rlim_cur]
  /\ call = [t \in Tasks |-> IDLE]
  /\ granted = [t \in Tasks |-> Lower(nice[t], Reach(rlim[t]["NICE"].rlim_max))]

(* Another identity: set*id, capset, or a program that brings one.  A task *)
(* in a call of this module is in no other.                                *)
commit_creds(t, cred_of) ==
  /\ call[t] = IDLE
  /\ task_cred' = [task_cred EXCEPT ![t] = cred_of]
  /\ UNCHANGED <<rlim, nice, cpu_timer, call, granted>>
-----------------------------------------------------------------------------
(* 32 bit programs: what they are told of a limit, and what is made of one *)
(* they ask for.                                                           *)
ToCompat(l)   == IF l > COMPAT_INFINITY THEN COMPAT_INFINITY ELSE l
FromCompat(l) == IF l = COMPAT_INFINITY THEN INFINITY ELSE l

ToCompatPair(r)   == [rlim_cur |-> ToCompat(r.rlim_cur), rlim_max |-> ToCompat(r.rlim_max)]
FromCompatPair(r) == [rlim_cur |-> FromCompat(r.rlim_cur), rlim_max |-> FromCompat(r.rlim_max)]

(* What a task is told of its own limits, and what old programs are.       *)
getrlimit(t, r) == rlim[t][r]

ToOld(l) == IF l > OLD_INFINITY THEN OLD_INFINITY ELSE l
old_getrlimit(t, r) == [rlim_cur |-> ToOld(getrlimit(t, r).rlim_cur), rlim_max |-> ToOld(getrlimit(t, r).rlim_max)]

(* check_prlimit_permission: all ids of the task are the caller's.  Here   *)
(* those that are not kept (saved and group ids) are, whenever uid and     *)
(* euid are.                                                               *)
check_prlimit_permission(current, task) ==
  \/ current = task
  \/ {task_cred[task].uid, task_cred[task].euid} = {task_cred[current].uid}
  \/ ns_capable(current, "RESOURCE")

(* prlimit64, setrlimit and the compat setrlimit, and the checks of        *)
(* do_prlimit that look at nothing but the request.                        *)
prlimit64(current, tsk, resource, new) ==
  /\ call[current] = IDLE
  /\ check_prlimit_permission(current, tsk)
  /\ new.rlim_cur <= new.rlim_max
  /\ resource = "NOFILE" => new.rlim_max <= nr_open
  /\ call' = [call EXCEPT ![current] =
                [at |-> "checked", tsk |-> tsk, resource |-> resource, new |-> new]]
  /\ UNCHANGED <<task_cred, rlim, nice, cpu_timer, granted>>

(* Mutant: the hard limit is looked at before the lock is taken, by        *)
(* whoever asked first.                                                    *)
UncheckedLimit(current) ==
  LET c == call[current] IN
  /\ c.at = "checked"
  /\ rlim' = [rlim EXCEPT ![c.tsk][c.resource] = c.new]
  /\ call' = [call EXCEPT ![current] = IF c.resource = "CPU" /\ c.new.rlim_cur # INFINITY
                                       THEN [c EXCEPT !.at = "timer"] ELSE IDLE]
  /\ UNCHANGED <<task_cred, nice, cpu_timer, granted>>

(* do_prlimit under task_lock.  Refused: a hard limit that would rise.     *)
do_prlimit(current) ==
  LET c == call[current] IN
  /\ c.at = "checked"
  /\ \/ /\ c.new.rlim_max > rlim[c.tsk][c.resource].rlim_max /\ ~ns_capable(current, "RESOURCE")
        /\ call' = [call EXCEPT ![current] = IDLE]
        /\ UNCHANGED <<rlim, granted>>
     \/ /\ c.new.rlim_max <= rlim[c.tsk][c.resource].rlim_max \/ ns_capable(current, "RESOURCE")
        /\ rlim' = [rlim EXCEPT ![c.tsk][c.resource] = c.new]
        /\ granted' = IF ns_capable(current, "RESOURCE") /\ c.resource = "NICE"
                      THEN [granted EXCEPT ![c.tsk] = Lower(@, Reach(c.new.rlim_max))]
                      ELSE granted
        /\ call' = [call EXCEPT ![current] = IF c.resource = "CPU" /\ c.new.rlim_cur # INFINITY
                                             THEN [c EXCEPT !.at = "timer"] ELSE IDLE]
  /\ UNCHANGED <<task_cred, nice, cpu_timer>>

(* update_rlimit_cpu: the timer is only ever brought forward.              *)
update_rlimit_cpu(current) ==
  LET c == call[current] IN
  /\ c.at = "timer"
  /\ cpu_timer' = [cpu_timer EXCEPT ![c.tsk] = Lower(@, c.new.rlim_cur)]
  /\ call' = [call EXCEPT ![current] = IDLE]
  /\ UNCHANGED <<task_cred, rlim, nice, granted>>
-----------------------------------------------------------------------------
(* The caller has the effective id of one of the ids of p.                 *)
set_one_prio_perm(current, p) ==
  \/ task_cred[current].euid \in {task_cred[p].uid, task_cred[p].euid}
  \/ ns_capable(current, "NICE")

(* can_nice of kernel/sched/core.c                                         *)
can_nice(current, p, niceval) ==
  nice_to_rlimit(niceval) <= rlim[p]["NICE"].rlim_cur \/ ns_capable(current, "NICE")

(* What set_one_prio answers for p, and whether it changes p.              *)
set_one_prio(current, p, niceval) ==
  IF ~set_one_prio_perm(current, p) THEN "EPERM"
  ELSE IF niceval < nice[p] /\ ~can_nice(current, p, niceval) THEN "EACCES"
  ELSE "ok"

(* The tasks a call is about: one, a process group, those of a user.  Any  *)
(* set of tasks may be a group.                                            *)
Selected == (SUBSET Tasks) \ {{}}

(* The answer, in the order the tasks are visited in: a failure stays, and *)
(* success only takes the place of "there was none".                       *)
Answer(current, order, niceval) ==
  FoldLeft(LAMBDA error, p :
             LET one == set_one_prio(current, p, niceval)
             IN  IF one # "ok" THEN one ELSE IF error = "ESRCH" THEN "ok" ELSE error,
           "ESRCH", order)

setpriority(current, chosen, niceval) ==
  LET changed == {p \in chosen : set_one_prio(current, p, niceval) = "ok"} IN
  /\ nice' = [p \in Tasks |-> IF p \in changed THEN niceval ELSE nice[p]]
  /\ granted' = [p \in Tasks |-> IF p \in changed /\ ns_capable(current, "NICE")
                                 THEN Lower(granted[p], niceval) ELSE granted[p]]
  /\ UNCHANGED <<task_cred, rlim, cpu_timer, call>>

(* The best of them, as a number no error can be taken for.                *)
ESRCH == -3
getpriority(order) ==
  FoldLeft(LAMBDA best, p : IF nice_to_rlimit(nice[p]) > best THEN nice_to_rlimit(nice[p]) ELSE best,
           ESRCH, order)

LimitsNext ==
  \E t \in Tasks :
    \/ \E identity \in Identities[t] : commit_creds(t, identity)
    \/ \E p \in Tasks, res \in Resources : \E new \in Requests[res] : prlimit64(t, p, res, new)
    \/ do_prlimit(t) \/ update_rlimit_cpu(t)
    \/ \E chosen \in Selected, n \in 0..MaxNice : setpriority(t, chosen, n)

LimitsSpec == LimitsInit /\ [][LimitsNext]_limits
-----------------------------------------------------------------------------
LimitsTypeOK ==
  /\ DOMAIN task_cred = Tasks /\ \A t \in Tasks : task_cred[t] \in Identities[t]
  /\ rlim \in [Tasks -> [Resources -> rlimit]]
  /\ nice \in [Tasks -> 0..MaxNice] /\ granted \in [Tasks -> 0..MaxNice]
  /\ cpu_timer \in [Tasks -> 0..INFINITY]
  /\ call \in [Tasks -> Calls]

(* No interleaving of calls leaves a soft limit above its hard limit, and  *)
(* a 32 bit program is never told of more, nor given less when it asks for *)
(* what it was told.  An old program may ask for what it was told and lose *)
(* no more than what lies above the largest limit it knows.                *)
LimitsOrdered ==
  \A t \in Tasks, res \in Resources :
    LET r == getrlimit(t, res) back == FromCompatPair(ToCompatPair(r)) old == old_getrlimit(t, res) IN
    /\ r.rlim_cur <= r.rlim_max
    /\ ToCompatPair(r).rlim_cur <= ToCompatPair(r).rlim_max
    /\ back.rlim_cur >= r.rlim_cur /\ back.rlim_cur <= back.rlim_max
    /\ old.rlim_cur <= old.rlim_max /\ (r.rlim_max <= OLD_INFINITY => old = r)

(* The timer a limit of CPU time is enforced by expires no later than the  *)
(* limit says, whatever the order in which two calls that changed it get   *)
(* from the lock to the timer.                                             *)
TimerInTime ==
  \A t \in Tasks :
    \/ \E c \in Tasks : call[c].at = "timer" /\ call[c].tsk = t
    \/ rlim[t]["CPU"].rlim_cur = INFINITY
    \/ cpu_timer[t] <= rlim[t]["CPU"].rlim_cur

(* No sequence of changes of priorities and of limits by tasks without the *)
(* capabilities, whoever they are and become, brings a task to a better    *)
(* priority than it started with and somebody with a capability granted.   *)
NiceWithinGrant ==
  \A t \in Tasks : nice[t] >= granted[t] /\ Reach(rlim[t]["NICE"].rlim_max) >= granted[t]

(* setpriority answers 0 exactly when it changes every task it is asked    *)
(* to, and getpriority a positive number, that of the best of them: in     *)
(* whatever order the tasks are visited.                                   *)
AnswersTell ==
  \A c \in Tasks, chosen \in Selected, n \in 0..MaxNice :
    \A order \in SetToSeqs(chosen) :
      /\ Answer(c, order, n) = "ok" <=> \A p \in chosen : set_one_prio(c, p, n) = "ok"
      /\ getpriority(order) > 0
      /\ \E p \in chosen : \A q \in chosen :
           getpriority(order) = nice_to_rlimit(nice[p]) /\ nice[p] <= nice[q]

(* Limits and priorities, taken together.                                  *)
LimitsAlways == LimitsTypeOK /\ LimitsOrdered /\ TimerInTime /\ NiceWithinGrant /\ AnswersTell

(* A hard limit rises by the hand of a task with CAP_SYS_RESOURCE only,    *)
(* even when somebody lowers it while another call is between its check    *)
(* and the lock.                                                           *)
HardLimitsFall ==
  [][\A t \in Tasks, res \in Resources :
       rlim'[t][res].rlim_max > rlim[t][res].rlim_max =>
         \E c \in Tasks : /\ ns_capable(c, "RESOURCE") /\ call[c].at = "checked"
                          /\ call[c].tsk = t /\ call'[c] # call[c]]_limits
=============================================================================
