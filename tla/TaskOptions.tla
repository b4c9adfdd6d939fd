---------------------------- MODULE TaskOptions -----------------------------
(***************************************************************************)
(* What a task chooses for itself with prctl of linux-5.5.y/kernel/sys.c:  *)
(* the options that are kept in the task, and what the calls that ask for  *)
(* them answer.  A call that is refused has no effect but where it is a    *)
(* step here.                                                              *)
(***************************************************************************)
EXTENDS Integers

CONSTANTS
  Signals,        (* numbers valid_signal accepts                          *)
  Slacks,         (* timer slacks asked for, 0 among them                  *)
  DefaultSlack,
  suid_dumpable   (* fs.suid_dumpable                                      *)

ASSUME OptionsAssumption ==
  /\ Signals \subseteq Nat /\ Slacks \subseteq Nat /\ DefaultSlack \in Nat \ {0}
  /\ suid_dumpable \in 0..2

DUMP_DISABLE == 0
DUMP_USER == 1
DUMP_ROOT == 2

VARIABLES
  opt,            (* pdeath_signal, dumpable, timer_slack_ns, no_new_privs,
                     thp_disable                                           *)
  mce,            (* PF_MCE_PROCESS and PF_MCE_EARLY that are set          *)
  chosen          (* history: the last policy PR_MCE_KILL was called with
                     and accepted, or "any" after it refused one           *)

options == <<opt, mce, chosen>>

OptionsInit ==
  /\ \E d \in {DUMP_USER, DUMP_ROOT} :
       opt = [pdeath_signal |-> 0, dumpable |-> d, timer_slack_ns |-> DefaultSlack,
              no_new_privs |-> FALSE, thp_disable |-> FALSE]
  /\ mce = {} /\ chosen = "DEFAULT"
-----------------------------------------------------------------------------
set_pdeathsig(sig) ==
  opt' = [opt EXCEPT !.pdeath_signal = sig] /\ UNCHANGED <<mce, chosen>>

(* SUID_DUMP_ROOT is the kernel's to set (execve of a program one may not  *)
(* read); a task cannot.                                                   *)
set_dumpable(value) ==
  /\ value \in {DUMP_DISABLE, DUMP_USER}
  /\ opt' = [opt EXCEPT !.dumpable = value] /\ UNCHANGED <<mce, chosen>>

(* commit_creds of a call that changes the effective ids (TaskIds).        *)
commit_ids ==
  /\ opt' = [opt EXCEPT !.dumpable = suid_dumpable, !.pdeath_signal = 0]
  /\ UNCHANGED <<mce, chosen>>

set_timerslack(ns) ==
  /\ opt' = [opt EXCEPT !.timer_slack_ns = IF ns <= 0 THEN DefaultSlack ELSE ns]
  /\ UNCHANGED <<mce, chosen>>

set_thp_disable(on) ==
  opt' = [opt EXCEPT !.thp_disable = on] /\ UNCHANGED <<mce, chosen>>

set_no_new_privs(value, rest) ==
  /\ value = 1 /\ rest = 0
  /\ opt' = [opt EXCEPT !.no_new_privs = TRUE] /\ UNCHANGED <<mce, chosen>>

(* PR_MCE_KILL_CLEAR                                                       *)
mce_kill_clear ==
  /\ mce' = mce \ {"PROCESS"} /\ chosen' = "DEFAULT"
  /\ UNCHANGED opt

(* PR_MCE_KILL_SET: PF_MCE_PROCESS is set before the policy is looked at,  *)
(* and stays when it is refused.                                           *)
mce_kill_set(policy) ==
  /\ mce' = CASE policy = "EARLY"   -> {"PROCESS", "EARLY"}
              [] policy = "LATE"    -> (mce \cup {"PROCESS"}) \ {"EARLY"}
              [] policy = "DEFAULT" -> (mce \cup {"PROCESS"}) \ {"PROCESS", "EARLY"}
              [] OTHER              -> mce \cup {"PROCESS"}
  /\ chosen' = IF policy \in {"EARLY", "LATE", "DEFAULT"} THEN policy ELSE "any"
  /\ UNCHANGED opt

(* PR_MCE_KILL_GET                                                         *)
mce_kill_get ==
  IF "PROCESS" \in mce THEN IF "EARLY" \in mce THEN "EARLY" ELSE "LATE" ELSE "DEFAULT"

(* PR_GET_NO_NEW_PRIVS, PR_GET_THP_DISABLE and the other questions.        *)
Told(option) == opt[option]

(* Options kept by the architecture, by seccomp and by perf events, those  *)
(* that only tell, and the two that are other modules (TaskMm, TaskTree)   *)
(* leave this state alone.                                                 *)
OptionsNext ==
  \/ \E s \in Signals : set_pdeathsig(s)
  \/ \E d \in {DUMP_DISABLE, DUMP_USER, DUMP_ROOT} : set_dumpable(d)
  \/ commit_ids
  \/ \E n \in Slacks : set_timerslack(n)
  \/ \E on \in BOOLEAN : set_thp_disable(on)
  \/ \E v, r \in {0, 1} : set_no_new_privs(v, r)
  \/ mce_kill_clear
  \/ \E p \in {"EARLY", "LATE", "DEFAULT", "invalid"} : mce_kill_set(p)

OptionsSpec == OptionsInit /\ [][OptionsNext]_options
-----------------------------------------------------------------------------
(* A task is told the policy for memory failures it chose last, whatever   *)
(* order it chose and cleared them in, unless it was refused one since;    *)
(* and a slack it asked to forget is the default one, never none.          *)
PolicyIsTold ==
  /\ chosen # "any" => mce_kill_get = chosen
  /\ opt.timer_slack_ns > 0

(* no_new_privs is for good, and no call makes a task SUID_DUMP_ROOT, nor  *)
(* a change of its ids but where fs.suid_dumpable says so.                 *)
OptionsStay ==
  /\ Told("no_new_privs") => Told("no_new_privs")'
  /\ Told("dumpable")' = DUMP_ROOT /\ suid_dumpable # DUMP_ROOT => Told("dumpable") = DUMP_ROOT
=============================================================================
