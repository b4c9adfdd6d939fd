----------------------------- MODULE TaskUsage ------------------------------
(***************************************************************************)
(* getrusage and times of linux-5.5.y/kernel/sys.c: a process adds up what *)
(* its threads have used, while they run and exit.                         *)
(*                                                                         *)
(* A reader takes siglock, reads what the signal struct holds of threads   *)
(* that are gone and of children, and then goes from thread to thread.     *)
(* The counters of a running thread have no lock.  One counter stands for  *)
(* the six of struct rusage.  RUSAGE_THREAD reads those of one thread.     *)
(* times takes no lock: thread_group_cputime, which is not in this         *)
(* repository, adds up the process and tries again when a thread exits     *)
(* meanwhile, and the children are read after it.                          *)
(***************************************************************************)
EXTENDS Naturals, FiniteSets, Functions

CONSTANTS
  ThreadGroup,    (* threads of the process                                *)
  MaxUse          (* bound: what a thread, or the children, may use        *)

ASSUME UsageAssumption == MaxUse \in Nat /\ IsFiniteSet(ThreadGroup)

VARIABLES
  group,          (* the threads that have not exited                      *)
  used,           (* nvcsw of each                                         *)
  signal,         (* [used, cused]: of threads that exited, of children    *)
  siglock,        (* held by a reader                                      *)
  reader,         (* [who, visited, sum] of the call under way             *)
  last            (* history: what the last call for each who has told     *)

usage == <<group, used, signal, siglock, reader, last>>

RUSAGE == {"SELF", "CHILDREN", "BOTH"}
TMS    == {"tms_utime", "tms_cutime"}

(* No call is under way.                                                   *)
NOCALL == [who |-> "none", visited |-> {}, sum |-> 0]

UsageInit ==
  /\ group = ThreadGroup /\ used = [t \in ThreadGroup |-> 0]
  /\ signal = [used |-> 0, cused |-> 0]
  /\ siglock = FALSE /\ reader = NOCALL
  /\ last = [w \in RUSAGE \cup TMS |-> 0]
-----------------------------------------------------------------------------
(* The scheduler, and a child that is waited for (under siglock).          *)
switch(t) ==
  /\ t \in group /\ used[t] < MaxUse
  /\ used' = [used EXCEPT ![t] = @ + 1]
  /\ UNCHANGED <<group, signal, siglock, reader, last>>

wait(n) ==
  /\ ~siglock /\ signal.cused + n <= MaxUse
  /\ signal' = [signal EXCEPT !.cused = @ + n]
  /\ UNCHANGED <<group, used, siglock, reader, last>>

(* __exit_signal: what the thread used goes to the signal struct.          *)
exit_signal(t) ==
  /\ ~siglock /\ t \in group /\ Cardinality(group) > 1
  /\ group' = group \ {t}
  /\ signal' = [signal EXCEPT !.used = @ + used[t]]
  /\ UNCHANGED <<used, siglock, reader, last>>

(* getrusage takes the lock, and reads what it reads before the threads.   *)
getrusage(who) ==
  /\ reader = NOCALL /\ ~siglock
  /\ siglock' = TRUE
  /\ reader' = [who |-> who, visited |-> {},
                sum |-> (IF who = "SELF" THEN 0 ELSE signal.cused)
                      + (IF who = "CHILDREN" THEN 0 ELSE signal.used)]
  /\ UNCHANGED <<group, used, signal, last>>

(* Nothing is left to visit for RUSAGE_CHILDREN.                           *)
Unvisited == IF reader.who = "CHILDREN" THEN {} ELSE group \ reader.visited

accumulate_thread_rusage(t) ==
  /\ reader.who \in RUSAGE /\ t \in Unvisited
  /\ reader' = [reader EXCEPT !.visited = @ \cup {t}, !.sum = @ + used[t]]
  /\ UNCHANGED <<group, used, signal, siglock, last>>

getrusage_return ==
  /\ reader.who \in RUSAGE /\ Unvisited = {}
  /\ last' = [last EXCEPT ![reader.who] = reader.sum]
  /\ siglock' = FALSE /\ reader' = NOCALL
  /\ UNCHANGED <<group, used, signal>>

thread_group_cputime == signal.used + SumFunctionOnSet(used, group)

times ==
  /\ reader = NOCALL
  /\ reader' = [who |-> "times", visited |-> group, sum |-> thread_group_cputime]
  /\ UNCHANGED <<group, used, signal, siglock, last>>

do_sys_times ==
  /\ reader.who = "times"
  /\ last' = [last EXCEPT !.tms_utime = reader.sum, !.tms_cutime = signal.cused]
  /\ reader' = NOCALL
  /\ UNCHANGED <<group, used, signal, siglock>>

UsageNext ==
  \/ \E t \in ThreadGroup : switch(t) \/ exit_signal(t) \/ accumulate_thread_rusage(t)
  \/ \E n \in 1..MaxUse : wait(n)
  \/ \E w \in RUSAGE : getrusage(w)
  \/ getrusage_return \/ times \/ do_sys_times

UsageSpec == UsageInit /\ [][UsageNext]_usage
-----------------------------------------------------------------------------
(* sys.c:1660-1697: what a process is told of its use never shrinks from   *)
(* one call to the next, though threads exit between the reads of one.     *)
SamplesGrow == \A w \in RUSAGE \cup TMS : last'[w] >= last[w]
=============================================================================
