---------------------------- MODULE MCSysCalls ------------------------------
EXTENDS SysCalls, TLC

CONSTANTS a, b    (* the tasks                                             *)

(* A limit of CPU time is lowered, and asked for again as it was; one of   *)
(* priority is raised.                                                     *)
MCRequests ==
  [r \in Resources |-> {[rlim_cur |-> p[1], rlim_max |-> p[2]] :
                          p \in IF r = "CPU" THEN {<<0, 2>>, <<1, 1>>}
                                ELSE {<<2, 2>>}}]

(* INIT_RLIMITS: nothing for NICE, no limit of CPU time.                   *)
MCInitLimits ==
  [r \in Resources |-> IF r = "NICE" THEN [rlim_cur |-> 0, rlim_max |-> 0]
                       ELSE [rlim_cur |-> INFINITY, rlim_max |-> INFINITY]]

(* A user, in a program of its own or of another user, and that other one, *)
(* with the capabilities or without.                                       *)
MCIdentities == (a :> {[uid |-> 1, euid |-> e, caps |-> {}] : e \in {1, 2}})
             @@ (b :> {[uid |-> 2, euid |-> 2, caps |-> c] : c \in {{}, {"RESOURCE", "NICE"}}})

(* The map of a program, and one of another that is to take its place.     *)
MapOf(code, data, brk) ==
  [f \in Fields |-> CASE f = "start_code" -> code[1] [] f = "end_code" -> code[2]
                      [] f = "start_data" -> data[1] [] f = "end_data" -> data[2]
                      [] f = "start_brk"  -> brk[1]  [] f = "brk"      -> brk[2]
                      [] OTHER -> mmap_min_addr]
MCExecMaps == {MapOf(<<1, 2>>, <<1, 2>>, <<2, 2>>)}
MCMaps     == {MapOf(<<1, 2>>, <<2, 2>>, <<3, 4>>)}
MCChanges  == [field : {"end_data"}, addr : {1, 2}] \cup [field : {"start_brk"}, addr : {2, 3}]
                \cup {[field |-> "brk", addr |-> 4], [field |-> "arg_end", addr |-> 3]}
MCVectors  == {<<1, 1>>}

(* Processes that do not ask to be subreapers are alike.                   *)
MCSymmetry == Permutations(Pids \ (Reapers \cup {child_reaper}))

MCNames == {<<"host", "name">>, <<"box", NUL>>}
=============================================================================
