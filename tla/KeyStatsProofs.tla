--------------------------- MODULE KeyStatsProofs ---------------------------
(***************************************************************************)
(* Proofs about KeyStats, for every period, tick rate, lateness and number *)
(* of interrupts.                                                          *)
(***************************************************************************)
EXTENDS KeyStats, TLAPS

USE DEF timer, Loaded

Entered == {"loading", "counting", "failed"}
Counts  == {"counting", "running", "freed"}

(* What the callback finds and leaves: before exit stores STOPPED_VALUE    *)
(* the counter is a count and the callback holds one only between its      *)
(* exchange and its report; afterwards the first callback that takes the   *)
(* stop leaves no timer behind.                                            *)
Course ==
  /\ module \in Entered => ~pending /\ callback = "none"
  /\ module = "loading" => keys = reported + value + counter
  /\ module \in Entered \cup Counts =>
       counter >= 0 /\ (callback # "counted" => value = 0)
  /\ callback # "none" => ~pending
  /\ module = "stopped" => counter < 0 \/ (callback = "none" /\ ~pending)
  /\ module \in {"running", "freed"} /\ callback = "none" => pending

IInv == TypeOK /\ Course /\ NoKeyLost /\ NothingRunsAfterExit
-----------------------------------------------------------------------------
LEMMA Rescheduled ==
  ASSUME NEW d \in Nat, NEW j \in Ticks, jiffies \in Ticks
  PROVE  rescheduled(d, j) \in Ticks
<1>1. (j + d * HZ) % Wrap \in Ticks /\ (jiffies + HZ) % Wrap \in Ticks
  <2>1. j + d * HZ \in Nat /\ jiffies + HZ \in Nat
    BY KeyStatsAssumption DEF Ticks
  <2> QED BY <2>1, KeyStatsAssumption DEF Ticks
<1> QED BY <1>1 DEF rescheduled

LEMMA InitIInv == Init => IInv
<1>1. 0 \in Ticks
  BY KeyStatsAssumption DEF Ticks
<1> SUFFICES ASSUME Init PROVE IInv
  OBVIOUS
<1>2. TypeOK
  <2>1. pending \in BOOLEAN
    BY DEF Init
  <2>2. counter \in Int /\ value \in Int /\ keys \in Nat /\ reported \in Int
    BY DEF Init
  <2>3. expires \in Ticks /\ jiffies \in Ticks
    BY <1>1 DEF Init
  <2>4. /\ module \in {"loading", "counting", "failed", "gone"} \cup Loaded
        /\ callback \in {"none", "called", "counted", "rescheduled"}
    BY DEF Init
  <2> QED BY <2>1, <2>2, <2>3, <2>4 DEF TypeOK
<1>3. Course
  BY DEF Init, Course, Entered, Counts
<1> QED BY <1>2, <1>3 DEF Init, IInv, NoKeyLost, NothingRunsAfterExit

LEMMA IInvStep == IInv /\ [Next]_vars => IInv'
<1> SUFFICES ASSUME IInv, [Next]_vars PROVE IInv'
  OBVIOUS
<1> USE DEF IInv, TypeOK, Course, Entered, Counts, NoKeyLost, NothingRunsAfterExit
<1>1. CASE UNCHANGED vars
  <2>1. UNCHANGED <<counter, pending, expires, jiffies, module, callback, value, keys,
                    reported>>
    BY <1>1 DEF vars
  <2>2. TypeOK'
    BY <2>1
  <2>3. Course' /\ NoKeyLost' /\ NothingRunsAfterExit'
    BY <2>1
  <2> QED BY <2>2, <2>3
<1>2. CASE request_irq
  BY <1>2 DEF request_irq
<1>3. CASE first_module_init
  <2>1. expires' \in Ticks
    BY <1>3, Rescheduled, KeyStatsAssumption DEF first_module_init
  <2> QED BY <1>3, <2>1 DEF first_module_init
<1>4. CASE keyboard_irq_handler
  BY <1>4 DEF keyboard_irq_handler
<1>5. CASE Tick
  <2>1. jiffies' \in Ticks
    BY <1>5, KeyStatsAssumption DEF Tick, Ticks
  <2> QED BY <1>5, <2>1 DEF Tick
<1>6. CASE Fire
  BY <1>6 DEF Fire
<1>7. CASE Collect
  BY <1>7 DEF Collect
<1>8. CASE Report
  <2>1. expires' \in Ticks
    BY <1>8, Rescheduled, KeyStatsAssumption DEF Report
  <2> QED BY <1>8, <2>1 DEF Report
<1>9. CASE add_timer
  BY <1>9 DEF add_timer
<1>10. CASE free_irq
  BY <1>10 DEF free_irq
<1>11. CASE first_module_exit
  BY <1>11, KeyStatsAssumption DEF first_module_exit
<1>12. CASE del_timer_sync
  BY <1>12 DEF del_timer_sync
<1> QED
  BY <1>1, <1>2, <1>3, <1>4, <1>5, <1>6, <1>7, <1>8, <1>9, <1>10, <1>11, <1>12
  DEF Next, Collects, Unload

LEMMA SpecIInv == Spec => []IInv
BY InitIInv, IInvStep, PTL DEF Spec
-----------------------------------------------------------------------------
THEOREM TypeCorrect == Spec => []TypeOK
<1>1. IInv => TypeOK
  BY DEF IInv
<1> QED BY <1>1, SpecIInv, PTL

(* keyboard_irq_handler's increments and collect_stats' exchange: every    *)
(* interrupt before the unloading is counted once, however they interleave.*)
THEOREM KeysConserved == Spec => []NoKeyLost
<1>1. IInv => NoKeyLost
  BY DEF IInv
<1> QED BY <1>1, SpecIInv, PTL

(* Unloading leaves no armed timer and no running callback behind.         *)
THEOREM ExitIsQuiet == Spec => []NothingRunsAfterExit
<1>1. IInv => NothingRunsAfterExit
  BY DEF IInv
<1> QED BY <1>1, SpecIInv, PTL

(* collect_stats never arms an armed timer, and never lets the statistics  *)
(* stop while the module is loaded.                                        *)
THEOREM ArmedOnce == Spec => []AlwaysArmedOnce
<1>1. IInv => AlwaysArmedOnce
  BY DEF IInv, Course, TypeOK, AlwaysArmedOnce
<1> QED BY <1>1, SpecIInv, PTL

(* A callback that comes after STOPPED_VALUE was stored sees it.           *)
THEOREM StopIsSeen == Spec => []NoReportAfterStop
<1>1. IInv => NoReportAfterStop
  BY DEF IInv, Course, NoReportAfterStop
<1> QED BY <1>1, SpecIInv, PTL
-----------------------------------------------------------------------------
(* The timer across a wrap of jiffies.  An armed timer, or one whose       *)
(* callback runs, is at most a period ahead or at most MaxLate late; and   *)
(* a callback that has still to reschedule it is late.                     *)
Late  == (jiffies - expires) % Wrap
Ahead == (expires - jiffies) % Wrap

Timely ==
  /\ pending \/ callback # "none" => Late <= MaxLate \/ Ahead <= MINUTE * HZ
  /\ callback \in {"called", "counted"} => Late <= MaxLate

(* Differences and sums of jiffies.                                        *)
LEMMA Modulus ==
  ASSUME NEW n \in Nat \ {0}, NEW x \in Nat
  PROVE  x < 2 * n => x % n = IF x < n THEN x ELSE x - n
<1>1. x < n => x % n = x
  OBVIOUS
<1>2. n <= x /\ x < 2 * n => x % n = x - n
  OBVIOUS
<1> QED BY <1>1, <1>2

LEMMA Modulo ==
  /\ \A a, b \in Ticks : (a - b) % Wrap = IF a >= b THEN a - b ELSE a - b + Wrap
  /\ \A a \in Ticks, k \in Nat :
       k < Wrap => (a + k) % Wrap = IF a + k < Wrap THEN a + k ELSE a + k - Wrap
<1>1. ASSUME NEW a \in Ticks, NEW b \in Ticks
      PROVE  (a - b) % Wrap = IF a >= b THEN a - b ELSE a - b + Wrap
  BY KeyStatsAssumption DEF Ticks
<1>2. ASSUME NEW a \in Ticks, NEW k \in Nat, k < Wrap
      PROVE  (a + k) % Wrap = IF a + k < Wrap THEN a + k ELSE a + k - Wrap
  <2>1. PICK x \in Nat : x = a + k
    BY KeyStatsAssumption DEF Ticks
  <2>4. a \in Nat /\ Wrap \in Nat \ {0}
    BY KeyStatsAssumption DEF Ticks
  <2>2. x < 2 * Wrap /\ Wrap \in Nat \ {0}
    BY <1>2, <2>1, KeyStatsAssumption DEF Ticks
  <2>3. x % Wrap = IF x < Wrap THEN x ELSE x - Wrap
    BY <2>2, Modulus
  <2> QED BY <2>1, <2>3, <2>4
<1> QED BY <1>1, <1>2

(* The period and a second, as ticks.                                      *)
LEMMA Periods ==
  /\ MINUTE * HZ \in Nat /\ HZ \in Nat \ {0} /\ HZ <= MINUTE * HZ
  /\ MaxLate \in Nat /\ 2 * (MINUTE * HZ + MaxLate) < Wrap /\ Wrap \in Nat
<1>1. PICK m \in Nat : MINUTE = m + 1
  <2>1. MINUTE - 1 \in Nat /\ MINUTE = MINUTE - 1 + 1
    BY KeyStatsAssumption
  <2> QED BY <2>1
<1>2. MINUTE * HZ = m * HZ + HZ /\ m * HZ \in Nat
  BY <1>1, KeyStatsAssumption
<1> QED BY <1>2, KeyStatsAssumption

(* reschedule sets a timer ahead, whether it is given now or the time a    *)
(* timer was due that is late.                                             *)
LEMMA RescheduledAhead ==
  ASSUME jiffies \in Ticks, NEW from \in Ticks, (jiffies - from) % Wrap <= MaxLate
  PROVE  (rescheduled(MINUTE, from) - jiffies) % Wrap \in HZ .. MINUTE * HZ
<1> DEFINE j1 == (from + MINUTE * HZ) % Wrap
           j2 == (jiffies + HZ) % Wrap
<1>1. PICK M \in Nat : M = MINUTE * HZ /\ HZ <= M /\ 2 * (M + MaxLate) < Wrap
  BY Periods
<1>2. HZ \in Nat \ {0} /\ MaxLate \in Nat /\ Wrap \in Nat
  BY Periods
<1>3. j1 = IF from + M < Wrap THEN from + M ELSE from + M - Wrap
  BY <1>1, <1>2, Modulo
<1>4. j2 = IF jiffies + HZ < Wrap THEN jiffies + HZ ELSE jiffies + HZ - Wrap
  BY <1>1, <1>2, Modulo
<1>5. jiffies \in 0 .. Wrap - 1 /\ from \in 0 .. Wrap - 1
  BY DEF Ticks
<1>6. (jiffies - from) % Wrap = IF jiffies >= from THEN jiffies - from ELSE jiffies - from + Wrap
  BY Modulo
<1>7. rescheduled(MINUTE, from) = IF time_after(j1, j2) THEN j1 ELSE j2
  BY DEF rescheduled
<1> HIDE DEF j1, j2
<1>8. j1 \in Ticks /\ j2 \in Ticks
  BY <1>1, <1>2, <1>3, <1>4, <1>5 DEF Ticks
<1>9. /\ (j2 - j1) % Wrap = IF j2 >= j1 THEN j2 - j1 ELSE j2 - j1 + Wrap
      /\ (j1 - jiffies) % Wrap = IF j1 >= jiffies THEN j1 - jiffies ELSE j1 - jiffies + Wrap
      /\ (j2 - jiffies) % Wrap = IF j2 >= jiffies THEN j2 - jiffies ELSE j2 - jiffies + Wrap
  BY <1>8, Modulo
<1>10. (j2 - jiffies) % Wrap = HZ
  BY <1>1, <1>2, <1>4, <1>5, <1>9
<1>11. PICK L \in 0 .. MaxLate : L = (jiffies - from) % Wrap
  BY <1>2, <1>5, <1>6
<1>12. ASSUME time_after(j1, j2) PROVE (j1 - jiffies) % Wrap \in HZ .. M
  <2>1. 2 * ((j2 - j1) % Wrap) >= Wrap
    BY <1>12 DEF time_after
  <2>2. L < M
    BY <2>1, <1>1, <1>2, <1>3, <1>4, <1>5, <1>6, <1>9, <1>11
  <2>3. (j1 - jiffies) % Wrap = M - L
    BY <2>2, <1>1, <1>2, <1>3, <1>5, <1>6, <1>9, <1>11
  <2>4. HZ <= M - L
    BY <2>1, <2>2, <1>1, <1>2, <1>3, <1>4, <1>5, <1>6, <1>9, <1>11
  <2> QED BY <2>2, <2>3, <2>4, <1>1, <1>2
<1> QED BY <1>1, <1>2, <1>7, <1>10, <1>12

LEMMA TimelyStep ==
  ASSUME IInv, Timely, [Next]_vars
  PROVE  Timely' /\ (expires' # expires => (expires' - jiffies) % Wrap \in HZ .. MINUTE * HZ)
<1>1. jiffies \in Ticks /\ expires \in Ticks /\ TypeOK
  BY DEF IInv, TypeOK
<1>2. TypeOK'
  BY IInvStep DEF IInv
<1>3. jiffies' \in Ticks /\ expires' \in Ticks
  BY <1>2 DEF TypeOK
<1>4. PICK M \in Nat : M = MINUTE * HZ /\ 2 * (M + MaxLate) < Wrap
  BY Periods
<1>5. MaxLate \in Nat /\ Wrap \in Nat \ {0} /\ HZ \in Nat
  BY Periods, KeyStatsAssumption
<1>6. ASSUME UNCHANGED <<jiffies, expires>>,
             pending' \/ callback' # "none" => pending \/ callback # "none",
             callback' \in {"called", "counted"} => callback \in {"called", "counted"}
      PROVE  Timely'
  BY <1>6 DEF Timely, Late, Ahead
<1>7. CASE first_module_init
  <2>1. (jiffies - jiffies) % Wrap <= MaxLate
    BY <1>1, <1>5, Modulo DEF Ticks
  <2>2. expires' = rescheduled(MINUTE, jiffies) /\ UNCHANGED <<jiffies, callback>>
    BY <1>7 DEF first_module_init
  <2>3. (expires' - jiffies) % Wrap \in HZ .. MINUTE * HZ
    BY <1>1, <2>1, <2>2, RescheduledAhead
  <2>4. callback = "none"
    BY <1>7 DEF IInv, Course, first_module_init, Entered
  <2> QED BY <1>4, <1>5, <2>2, <2>3, <2>4 DEF Timely, Late, Ahead
<1>8. CASE Report
  <2>1. Late <= MaxLate
    BY <1>8 DEF Timely, Report
  <2>2. expires' = rescheduled(MINUTE, expires) /\ callback' = "rescheduled" /\ jiffies' = jiffies
    BY <1>8 DEF Report
  <2>3. (expires' - jiffies) % Wrap \in HZ .. MINUTE * HZ
    BY <1>1, <2>1, <2>2, RescheduledAhead DEF Late
  <2> QED BY <1>4, <1>5, <2>2, <2>3 DEF Timely, Late, Ahead
<1>9. CASE Tick
  <2>1. /\ pending \/ callback # "none" => Late # MaxLate
        /\ jiffies' = (jiffies + 1) % Wrap /\ UNCHANGED <<expires, pending, callback>>
    BY <1>9 DEF Tick, Late, timer
  <2>2. /\ jiffies' = IF jiffies + 1 < Wrap THEN jiffies + 1 ELSE jiffies + 1 - Wrap
        /\ jiffies \in 0 .. Wrap - 1 /\ expires \in 0 .. Wrap - 1
    BY <1>1, <1>4, <1>5, <2>1, Periods, Modulo DEF Ticks
  <2>3. /\ Late = IF jiffies >= expires THEN jiffies - expires ELSE jiffies - expires + Wrap
        /\ Ahead = IF expires >= jiffies THEN expires - jiffies ELSE expires - jiffies + Wrap
    BY <1>1, Modulo DEF Late, Ahead
  <2>4. /\ Late' = IF jiffies' >= expires' THEN jiffies' - expires' ELSE jiffies' - expires' + Wrap
        /\ Ahead' = IF expires' >= jiffies' THEN expires' - jiffies' ELSE expires' - jiffies' + Wrap
    BY <1>3, Modulo DEF Late, Ahead
  <2>5. ASSUME pending \/ callback # "none", Late <= MaxLate PROVE Late' <= MaxLate
    BY <1>4, <1>5, <2>1, <2>2, <2>3, <2>4, <2>5
  <2>6. ASSUME pending \/ callback # "none", Ahead <= M PROVE Late' <= MaxLate \/ Ahead' <= M
    BY <1>4, <1>5, <2>1, <2>2, <2>3, <2>4, <2>6
  <2>7. Timely'
    BY <1>4, <2>1, <2>5, <2>6 DEF Timely
  <2> QED BY <2>1, <2>7
<1>10. CASE Fire
  <2>1. pending /\ ~(2 * Late >= Wrap) /\ UNCHANGED <<expires, jiffies>>
    BY <1>10 DEF Fire, time_after, Late
  <2>2. /\ Late = IF jiffies >= expires THEN jiffies - expires ELSE jiffies - expires + Wrap
        /\ Ahead = IF expires >= jiffies THEN expires - jiffies ELSE expires - jiffies + Wrap
        /\ jiffies \in 0 .. Wrap - 1 /\ expires \in 0 .. Wrap - 1
    BY <1>1, Modulo DEF Late, Ahead, Ticks
  <2>3. Late <= MaxLate \/ Ahead <= M
    BY <1>4, <2>1 DEF Timely
  <2>4. Late <= MaxLate
    BY <1>4, <1>5, <2>1, <2>2, <2>3
  <2>5. Late' = Late
    BY <2>1 DEF Late
  <2> QED BY <2>1, <2>4, <2>5 DEF Timely
<1>11. CASE Collect
  BY <1>6, <1>11 DEF Collect, timer
<1>12. CASE add_timer
  BY <1>6, <1>12 DEF add_timer
<1>13. CASE request_irq \/ keyboard_irq_handler \/ Unload \/ UNCHANGED vars
  BY <1>6, <1>13 DEF request_irq, keyboard_irq_handler, Unload, free_irq, first_module_exit,
                    del_timer_sync, vars, timer
<1> QED
  BY <1>7, <1>8, <1>9, <1>10, <1>11, <1>12, <1>13 DEF Next, Collects

(* However late the callback is, the timer is set at least a second and at *)
(* most a minute ahead, across a wrap of jiffies too (reschedule).         *)
THEOREM SetAhead == Spec => AheadOfTime
<1>1. Init => Timely
  BY DEF Init, Timely
<1>2. Spec => []IInv
  BY SpecIInv
<1> DEFINE Step == expires' # expires => (expires' - jiffies) % Wrap \in HZ .. MINUTE * HZ
<1>3. IInv /\ Timely /\ [Next]_vars => Timely' /\ Step
  BY TimelyStep
<1> HIDE DEF Step
<1>4. Spec => [][Step]_vars
  BY <1>1, <1>2, <1>3, PTL DEF Spec
<1> QED BY <1>4 DEF AheadOfTime, Step
=============================================================================
