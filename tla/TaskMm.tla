------------------------------- MODULE TaskMm -------------------------------
(***************************************************************************)
(* The fields of mm_struct that say where a process keeps what, and its    *)
(* auxiliary vector: prctl(PR_SET_MM) of linux-5.5.y/kernel/sys.c, called  *)
(* by threads that share them, against sys_brk and the unmapping of files. *)
(*                                                                         *)
(* One field is changed in one step, under arg_lock.  A whole map is       *)
(* validated before any lock is taken, then written under arg_lock, then   *)
(* its vector copied under mmap_sem alone, while another thread may copy   *)
(* one under its own task_lock: entry by entry.                            *)
(*                                                                         *)
(* The limit of the data is not the map's: setrlimit and prlimit64 (see    *)
(* TaskLimits) change it under a lock none of these calls takes, so here   *)
(* it may change at any time.  A call that checks and writes under one     *)
(* lock of the map is one step, since a limit that changes in between may  *)
(* as well have changed after.                                             *)
(***************************************************************************)
EXTENDS Naturals

CONSTANTS
  Threads,
  mmap_min_addr, TASK_SIZE,
  DataLimits,     (* what RLIMIT_DATA is set to                            *)
  Changes,        (* [field, addr] of the changes of a single field        *)
  Breaks, Tops,   (* what sys_brk asks for; what munmap leaves             *)
  Maps,           (* the maps PR_SET_MM_MAP is called with                 *)
  ExecMaps,       (* the maps execve makes                                 *)
  Vectors,        (* auxiliary vectors of programs: entries 1..AT_VECTOR   *)
  AT_VECTOR,
  Files, NONE     (* executables                                           *)

Fields == {"start_code", "end_code", "start_data", "end_data", "start_brk", "brk",
           "start_stack", "arg_start", "arg_end", "env_start", "env_end"}

(* What find_vma must find: these are read by way of /proc.                *)
OnStack == {"start_stack", "arg_start", "arg_end", "env_start", "env_end"}

AT_NULL == 0

VARIABLES
  mm,             (* Fields -> address                                     *)
  saved_auxv, exe_file,
  file_mapped,    (* a part of exe_file is mapped                          *)
  vma,            (* the highest mapped address                            *)
  data_limit,     (* rlimit(RLIMIT_DATA)                                   *)
  prctl           (* what each thread is about                             *)

mmv == <<mm, saved_auxv, exe_file, file_mapped, vma, data_limit, prctl>>

OUT == [at |-> "out"]

Ordered(m) ==
  /\ m.start_code < m.end_code /\ m.start_data <= m.end_data /\ m.start_brk <= m.brk
  /\ m.arg_start <= m.arg_end /\ m.env_start <= m.env_end

DataSize(m) == (m.brk - m.start_brk) + (m.end_data - m.start_data)

check_data_rlimit(m) == DataSize(m) <= data_limit

ASSUME MmAssumption ==
  /\ mmap_min_addr \in Nat /\ TASK_SIZE \in Nat /\ DataLimits \subseteq Nat
  /\ Maps \cup ExecMaps \subseteq [Fields -> Nat]
  /\ \A m \in ExecMaps : Ordered(m) /\ m.end_data <= m.start_brk /\ m.brk = m.start_brk
  /\ Changes \subseteq [field: Fields, addr: Nat]
  /\ AT_VECTOR \in Nat \ {0} /\ Vectors \subseteq [1..AT_VECTOR -> Nat]

MmInit ==
  /\ mm \in ExecMaps
  /\ saved_auxv = [i \in 1..AT_VECTOR |-> AT_NULL]
  /\ exe_file \in Files /\ file_mapped = TRUE
  /\ vma = TASK_SIZE /\ data_limit \in DataLimits
  /\ prctl = [t \in Threads |-> OUT]

(* The part of prctl_set_mm_map that holds mmap_sem.                       *)
Reading == \E t \in Threads : prctl[t].at = "auxv" /\ prctl[t].locked
-----------------------------------------------------------------------------
validate_prctl_map_addr(m) ==
  /\ \A f \in Fields : m[f] \in mmap_min_addr..(TASK_SIZE - 1)
  /\ Ordered(m)
  /\ m.start_brk > m.end_data /\ m.brk > m.end_data
  /\ check_data_rlimit(m)

(* prctl_set_mm with the name of a field.                                  *)
prctl_set_mm(t, change) ==
  LET new == [mm EXCEPT ![change.field] = change.addr] IN
  /\ prctl[t] = OUT
  /\ validate_prctl_map_addr(new)
  /\ change.field \in OnStack => change.addr < vma
  /\ mm' = new
  /\ UNCHANGED <<saved_auxv, exe_file, file_mapped, vma, data_limit, prctl>>

(* The last entry of a vector must be AT_NULL.                             *)
Ended(vector) == [vector EXCEPT ![AT_VECTOR] = AT_NULL]

Copy(locked, vector, len) ==
  [at |-> "auxv", locked |-> locked, auxv |-> vector, i |-> 1, len |-> len]

(* prctl_set_mm_exe_file, with what follows it: refused while the old file *)
(* is mapped.                                                              *)
Exchange(exe, next) == [at |-> "exe", exe |-> exe, next |-> next]

(* prctl_set_mm_map: what is asked for is looked at first.  It may come    *)
(* with a vector, and with a file for /proc/pid/exe.  limit is history:    *)
(* what RLIMIT_DATA was when it was looked at.                             *)
prctl_set_mm_map(t, map, vector, exe) ==
  LET write == [at |-> "map", map |-> map, auxv |-> vector, limit |-> data_limit] IN
  /\ prctl[t] = OUT
  /\ validate_prctl_map_addr(map)
  /\ prctl' = [prctl EXCEPT ![t] = IF exe = NONE THEN write ELSE Exchange(exe, write)]
  /\ UNCHANGED <<mm, saved_auxv, exe_file, file_mapped, vma, data_limit>>

(* prctl_set_mm with PR_SET_MM_EXE_FILE                                    *)
set_exe_file(t, exe) ==
  /\ prctl[t] = OUT
  /\ prctl' = [prctl EXCEPT ![t] = Exchange(exe, OUT)]
  /\ UNCHANGED <<mm, saved_auxv, exe_file, file_mapped, vma, data_limit>>

check_exe_file(t) ==
  /\ prctl[t].at = "exe"
  /\ prctl' = [prctl EXCEPT ![t] = IF file_mapped THEN OUT ELSE [@ EXCEPT !.at = "xchg"]]
  /\ UNCHANGED <<mm, saved_auxv, exe_file, file_mapped, vma, data_limit>>

(* The file is exchanged without a lock.                                   *)
xchg_exe_file(t) ==
  /\ prctl[t].at = "xchg"
  /\ exe_file' = prctl[t].exe /\ file_mapped' \in BOOLEAN
  /\ prctl' = [prctl EXCEPT ![t] = @.next]
  /\ UNCHANGED <<mm, saved_auxv, vma, data_limit>>

(* Under arg_lock.  mmap_sem stays held, for reading, for the vector.      *)
write_map(t) ==
  LET c == prctl[t] IN
  /\ c.at = "map"
  /\ mm' = c.map
  /\ prctl' = [prctl EXCEPT ![t] = IF c.auxv = NONE THEN OUT
                                   ELSE Copy(TRUE, Ended(c.auxv), AT_VECTOR)]
  /\ UNCHANGED <<saved_auxv, exe_file, file_mapped, vma, data_limit>>

(* prctl_set_auxv: any number of entries.                                  *)
prctl_set_auxv(t, vector, len) ==
  /\ prctl[t] = OUT
  /\ prctl' = [prctl EXCEPT ![t] = Copy(FALSE, Ended(vector), len)]
  /\ UNCHANGED <<mm, saved_auxv, exe_file, file_mapped, vma, data_limit>>

(* memcpy to saved_auxv, which nothing guards.                             *)
copy_auxv(t) ==
  LET c == prctl[t] IN
  /\ c.at = "auxv"
  /\ saved_auxv' = [saved_auxv EXCEPT ![c.i] = c.auxv[c.i]]
  /\ prctl' = [prctl EXCEPT ![t] = IF c.i = c.len THEN OUT ELSE [c EXCEPT !.i = @ + 1]]
  /\ UNCHANGED <<mm, exe_file, file_mapped, vma, data_limit>>

(* sys_brk of mm/mmap.c, which has mmap_sem for writing.                   *)
sys_brk(brk) ==
  /\ ~Reading
  /\ brk \in mm.start_brk..(TASK_SIZE - 1) /\ check_data_rlimit([mm EXCEPT !.brk = brk])
  /\ mm' = [mm EXCEPT !.brk = brk]
  /\ UNCHANGED <<saved_auxv, exe_file, file_mapped, vma, data_limit, prctl>>

(* munmap, of the file or of what is highest; mmap of the file.            *)
munmap(addr) ==
  /\ ~Reading
  /\ \/ file_mapped' = ~file_mapped /\ UNCHANGED vma
     \/ addr < vma /\ vma' = addr /\ UNCHANGED file_mapped
  /\ UNCHANGED <<mm, saved_auxv, exe_file, data_limit, prctl>>

(* setrlimit and prlimit64.                                                *)
set_data_limit(limit) ==
  /\ data_limit' = limit
  /\ UNCHANGED <<mm, saved_auxv, exe_file, file_mapped, vma, prctl>>

MmNext ==
  \/ \E t \in Threads :
       \/ \E c \in Changes : prctl_set_mm(t, c)
       \/ \E m \in Maps, v \in Vectors \cup {NONE}, f \in Files \cup {NONE} :
            prctl_set_mm_map(t, m, v, f)
       \/ \E v \in Vectors, n \in 1..AT_VECTOR : prctl_set_auxv(t, v, n)
       \/ \E f \in Files : set_exe_file(t, f)
       \/ check_exe_file(t) \/ xchg_exe_file(t) \/ write_map(t) \/ copy_auxv(t)
  \/ \E a \in Breaks : sys_brk(a)
  \/ \E a \in Tops : munmap(a)
  \/ \E l \in DataLimits : set_data_limit(l)

MmSpec == MmInit /\ [][MmNext]_mmv
-----------------------------------------------------------------------------
(* The map of a process is in order, with the heap above the data, though  *)
(* it is made of changes of single fields, of whole maps that were looked  *)
(* at before a lock was taken, and of what sys_brk does.                   *)
MapInOrder == Ordered(mm) /\ mm.end_data <= mm.start_brk

(* The auxiliary vector ends, however two threads that write one mix.      *)
AuxvEnds == saved_auxv[AT_VECTOR] = AT_NULL

(* Once the heap is above the data it stays there: sys.c:1914.             *)
HeapStaysAbove == mm.start_brk > mm.end_data => mm'.start_brk > mm'.end_data

(* No change of the map takes the data above its limit, but one: a whole   *)
(* map that was looked at under a higher limit, which has been lowered     *)
(* before it was written.                                                  *)
DataWithinLimit ==
  mm' # mm /\ DataSize(mm') > data_limit =>
    \E t \in Threads :
      /\ prctl[t].at = "map" /\ mm' = prctl[t].map /\ prctl'[t] # prctl[t]
      /\ DataSize(mm') <= prctl[t].limit /\ data_limit < prctl[t].limit

MmStep   == HeapStaysAbove /\ DataWithinLimit
MmAlways == MapInOrder /\ AuxvEnds
=============================================================================
