------------------------------ MODULE KeyStats ------------------------------
(***************************************************************************)
(* The keyboard statistics module of hw4-keystats (kernel/kmodule.c): an   *)
(* interrupt handler that counts, a timer callback that reports the count  *)
(* and arms the timer again, and the unloading of the module, which races  *)
(* with both.  Each runs on a CPU of its own; a step is one access to what *)
(* they share.  The kernel's part (interrupts, timers, del_timer_sync) is  *)
(* modelled as far as the module relies on it.                             *)
(***************************************************************************)
EXTENDS Integers

CONSTANTS
  STOPPED_VALUE,  (* what the counter is set to when the module goes        *)
  MINUTE, HZ,     (* the period in seconds, ticks per second                *)
  Wrap,           (* jiffies counts modulo Wrap                             *)
  MaxLate,        (* ticks a due timer or its callback waits at most        *)
  MaxKeys         (* interrupts in a behaviour                              *)

ASSUME KeyStatsAssumption ==
  /\ STOPPED_VALUE \in Int /\ STOPPED_VALUE < 0
  /\ MINUTE \in Nat \ {0} /\ HZ \in Nat \ {0}
  /\ Wrap \in Nat \ {0} /\ MaxLate \in Nat /\ MaxKeys \in Nat
  /\ 2 * (MINUTE * HZ + MaxLate) < Wrap

VARIABLES
  counter,        (* the atomic_t                                           *)
  pending,        (* the timer is armed                                     *)
  expires,        (* timer.expires                                          *)
  jiffies,
  module,         (* how far init or exit has come                          *)
  callback,       (* how far collect_stats has come                         *)
  value,          (* its local: what it took from the counter               *)
  keys, reported  (* history: all interrupts, all that were reported        *)

timer == <<pending, expires>>
vars  == <<counter, timer, jiffies, module, callback, value, keys, reported>>

Ticks   == 0 .. Wrap - 1
Loaded  == {"running", "freed", "stopped"}

-----------------------------------------------------------------------------
Init ==
  /\ counter = 0 /\ value = 0 /\ keys = 0 /\ reported = 0
  /\ pending = FALSE /\ jiffies \in Ticks /\ expires = 0
  /\ module = "loading" /\ callback = "none"

(* time_after compares the signed difference of two jiffies.               *)
time_after(a, b) == 2 * ((b - a) % Wrap) >= Wrap

(* Mutants of rescheduled: jiffies does not wrap; the timer may be set     *)
(* into the past.                                                          *)
RescheduledUnwrapped(delay_sec, from) == from + delay_sec * HZ

RescheduledBlindly(delay_sec, from) == (from + delay_sec * HZ) % Wrap

(* reschedule: the new value of expires.                                   *)
rescheduled(delay_sec, from) ==
  LET j1 == (from + delay_sec * HZ) % Wrap
      j2 == (jiffies + HZ) % Wrap
  IN  IF time_after(j1, j2) THEN j1 ELSE j2

(* first_module_init: the interrupt first, then the timer.                 *)
request_irq ==
  /\ module = "loading"
  /\ module' \in {"counting", "failed"}
  /\ UNCHANGED <<counter, timer, jiffies, callback, value, keys, reported>>

first_module_init ==
  /\ module = "counting"
  /\ module' = "running"
  /\ expires' = rescheduled(MINUTE, jiffies) /\ pending' = TRUE
  /\ UNCHANGED <<counter, jiffies, callback, value, keys, reported>>

keyboard_irq_handler ==
  /\ module \in {"counting", "running"} /\ keys < MaxKeys
  /\ counter' = counter + 1 /\ keys' = keys + 1
  /\ UNCHANGED <<timer, jiffies, module, callback, value, reported>>

(* MaxLate stands for any delay short of half the range of jiffies.        *)
Tick ==
  /\ pending \/ callback # "none" => (jiffies - expires) % Wrap # MaxLate
  /\ jiffies' = (jiffies + 1) % Wrap
  /\ UNCHANGED <<counter, timer, module, callback, value, keys, reported>>

(* A timer that is due is taken off its list and its function called; one  *)
(* that runs is not called a second time.                                  *)
Fire ==
  /\ pending /\ callback = "none" /\ ~time_after(expires, jiffies)
  /\ pending' = FALSE /\ callback' = "called"
  /\ UNCHANGED <<counter, expires, jiffies, module, value, keys, reported>>

(* Mutants of Collect: the counter is not cleared; the callback takes zero *)
(* for a stop; it does not look for a stop.                                *)
CollectWithoutClearing ==
  /\ callback = "called"
  /\ value' = counter
  /\ callback' = IF counter < 0 THEN "none" ELSE "counted"
  /\ UNCHANGED <<counter, timer, jiffies, module, keys, reported>>

CollectStopsAtZero ==
  /\ callback = "called"
  /\ value' = counter /\ counter' = 0
  /\ callback' = IF counter <= 0 THEN "none" ELSE "counted"
  /\ UNCHANGED <<timer, jiffies, module, keys, reported>>

CollectIgnoresStop ==
  /\ callback = "called"
  /\ value' = counter /\ counter' = 0
  /\ callback' = "counted"
  /\ UNCHANGED <<timer, jiffies, module, keys, reported>>

(* collect_stats.                                                          *)
Collect ==
  /\ callback = "called"
  /\ value' = counter /\ counter' = 0
  /\ callback' = IF counter < 0 THEN "none" ELSE "counted"
  /\ UNCHANGED <<timer, jiffies, module, keys, reported>>

Report ==
  /\ callback = "counted"
  /\ reported' = reported + value /\ value' = 0
  /\ expires' = rescheduled(MINUTE, expires)
  /\ callback' = "rescheduled"
  /\ UNCHANGED <<counter, pending, jiffies, module, keys>>

add_timer ==
  /\ callback = "rescheduled"
  /\ pending' = TRUE /\ callback' = "none"
  /\ UNCHANGED <<counter, expires, jiffies, module, value, keys, reported>>

(* first_module_exit: free_irq waits for a handler that runs.              *)
free_irq ==
  /\ module = "running"
  /\ module' = "freed"
  /\ UNCHANGED <<counter, timer, jiffies, callback, value, keys, reported>>

(* Mutant of first_module_exit: the counter is left as it is.              *)
ExitWithoutStop ==
  /\ module = "freed"
  /\ module' = "stopped"
  /\ UNCHANGED <<counter, timer, jiffies, callback, value, keys, reported>>

first_module_exit ==
  /\ module = "freed"
  /\ counter' = STOPPED_VALUE /\ module' = "stopped"
  /\ UNCHANGED <<timer, jiffies, callback, value, keys, reported>>

(* Mutant of del_timer_sync: del_timer, which does not wait.               *)
DelTimer ==
  /\ module = "stopped"
  /\ pending' = FALSE /\ module' = "gone"
  /\ UNCHANGED <<counter, expires, jiffies, callback, value, keys, reported>>

(* del_timer_sync tries again for as long as the callback runs.            *)
del_timer_sync ==
  /\ module = "stopped" /\ callback = "none"
  /\ pending' = FALSE /\ module' = "gone"
  /\ UNCHANGED <<counter, expires, jiffies, callback, value, keys, reported>>

Unload   == free_irq \/ first_module_exit \/ del_timer_sync
Collects == Collect \/ Report \/ add_timer

Next == \/ request_irq \/ first_module_init \/ keyboard_irq_handler
        \/ Tick \/ Fire \/ Collects \/ Unload

(* Time passes, a due timer fires, a callback or an unloading that has     *)
(* begun goes on; nobody has to unload the module.                         *)
Spec == /\ Init /\ [][Next]_vars
        /\ WF_vars(Tick) /\ WF_vars(Fire) /\ WF_vars(Collects)
        /\ WF_vars(first_module_exit \/ del_timer_sync)
-----------------------------------------------------------------------------
TypeOK ==
  /\ counter \in Int /\ value \in Int /\ keys \in Nat /\ reported \in Int
  /\ pending \in BOOLEAN /\ expires \in Ticks /\ jiffies \in Ticks
  /\ module \in {"loading", "counting", "failed", "gone"} \cup Loaded
  /\ callback \in {"none", "called", "counted", "rescheduled"}

(* Until exit stores STOPPED_VALUE over the counter every interrupt is in  *)
(* the counter, in the hands of the callback, or reported.                 *)
NoKeyLost ==
  module \in {"counting", "running", "freed"} => keys = reported + value + counter

(* A module that is gone has no timer left that could call into it.        *)
NothingRunsAfterExit ==
  module = "gone" => ~pending /\ callback = "none"

(* add_timer may not be given a timer that is armed, and while the module  *)
(* runs its timer is armed or its callback is about to arm it: the         *)
(* statistics never stop before the module is unloaded.                    *)
AlwaysArmedOnce ==
  /\ module \in {"running", "freed"} => (pending <=> callback = "none")
  /\ callback = "rescheduled" => ~pending

(* Once exit has stored STOPPED_VALUE no callback takes what it finds for  *)
(* a count, or arms the timer again.                                       *)
NoReportAfterStop ==
  module = "stopped" /\ callback = "called" => counter < 0

(* However late a callback is, it sets the timer at least a second and at  *)
(* most a minute ahead, across a wrap of jiffies too.                      *)
AheadOfTime ==
  [][expires' # expires =>
       (expires' - jiffies) % Wrap \in HZ .. MINUTE * HZ]_vars

(* Unloading does not hang on a callback that keeps arming its timer.      *)
ExitEnds == module = "freed" ~> module = "gone"

(* The count is reported again and again for as long as nobody unloads.    *)
KeepsReporting == module = "running" ~> callback = "counted" \/ module # "running"
=============================================================================
