------------------------------ MODULE SysInfo -------------------------------
(***************************************************************************)
(* sysinfo of linux-5.5.y/kernel/sys.c: the amounts of memory it tells, in *)
(* bytes if they can be counted so and in units otherwise, and what a      *)
(* 32 bit program is told of them.  Words have W bits, those of a 32 bit   *)
(* program C; PAGE_SHIFT is the largest shift.                             *)
(***************************************************************************)
EXTENDS Naturals

CONSTANTS W, C, PAGE_SHIFT, Amounts

(* 2^n, for all the powers that words and shifts can call for.             *)
Pow2[n \in 0..(W + PAGE_SHIFT)] == IF n = 0 THEN 1 ELSE 2 * Pow2[n - 1]

ASSUME SysInfoAssumption ==
  /\ W \in Nat /\ C \in Nat /\ C <= W /\ PAGE_SHIFT \in Nat
  /\ Amounts \subseteq 0..(Pow2[W] - 1)

VARIABLES
  memory,         (* si_meminfo and si_swapinfo: [ram, free, swap, shift],
                     in units of 2^shift bytes                             *)
  info,           (* what sysinfo answers                                  *)
  compat          (* what a 32 bit program is told                         *)

sysinfos == <<memory, info, compat>>

Memory == [ram: Amounts, free: Amounts, swap: Amounts, shift: 0..PAGE_SHIFT]
NOINFO == [ram |-> 0, free |-> 0, swap |-> 0, shift |-> 0]

SysInfoInit ==
  /\ memory \in {m \in Memory : m.free <= m.ram}
  /\ info = NOINFO /\ compat = NOINFO
-----------------------------------------------------------------------------
Wrap(n) == n % Pow2[W]

Shifted(m, by) ==
  [ram |-> Wrap(m.ram * Pow2[by]), free |-> Wrap(m.free * Pow2[by]), swap |-> Wrap(m.swap * Pow2[by]),
   shift |-> m.shift - by]

(* The total of mem_total after n rounds of the loop.                      *)
mem_total(m) ==
  LET total[n \in 0..PAGE_SHIFT] ==
        IF n = 0 THEN Wrap(m.ram + m.swap) ELSE Wrap(2 * total[n - 1])
  IN  total

(* The tests for overflow, one for the sum and one in each round.          *)
Overflows(m) ==
  LET total == mem_total(m) IN
  \/ total[0] < m.ram \/ total[0] < m.swap
  \/ \E n \in 1..m.shift : total[n] < total[n - 1]

do_sysinfo(m) == IF Overflows(m) THEN m ELSE Shifted(m, m.shift)

(* compat_sysinfo: scaled down to pages if the totals do not fit, and then *)
(* each is cut to its C bits.                                              *)
ScaledDown(m) ==
  LET by == PAGE_SHIFT - m.shift IN
  IF m.ram < Pow2[C] /\ m.swap < Pow2[C] THEN m
  ELSE [ram |-> m.ram \div Pow2[by], free |-> m.free \div Pow2[by], swap |-> m.swap \div Pow2[by],
        shift |-> PAGE_SHIFT]

Cut(m) == [m EXCEPT !.ram = @ % Pow2[C], !.free = @ % Pow2[C], !.swap = @ % Pow2[C]]

sysinfo ==
  /\ info' = do_sysinfo(memory)
  /\ compat' = Cut(ScaledDown(do_sysinfo(memory)))
  /\ UNCHANGED memory

SysInfoNext == sysinfo

SysInfoSpec == SysInfoInit /\ [][SysInfoNext]_sysinfos
-----------------------------------------------------------------------------
Bytes(m) == [ram |-> m.ram * Pow2[m.shift], free |-> m.free * Pow2[m.shift], swap |-> m.swap * Pow2[m.shift]]

Near(told, exact) == told <= exact /\ exact < told + Pow2[PAGE_SHIFT]

(* Nothing is lost by the shifts: what is told is the memory there is, in  *)
(* bytes whenever the sum of it can be; and a 32 bit program is told it to *)
(* the page, if the number of pages can be told.                           *)
SysInfoTells ==
  info # NOINFO =>
    LET exact == Bytes(memory) c == Bytes(compat) IN
    /\ Bytes(info) = exact
    /\ exact.ram + exact.swap < Pow2[W] => info.shift = 0
    /\ exact.ram < Pow2[C + PAGE_SHIFT] /\ exact.swap < Pow2[C + PAGE_SHIFT] =>
         Near(c.ram, exact.ram) /\ Near(c.free, exact.free) /\ Near(c.swap, exact.swap)
=============================================================================
