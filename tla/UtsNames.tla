----------------------------- MODULE UtsNames -------------------------------
(***************************************************************************)
(* The names of the system: newuname, uname, gethostname, sethostname and  *)
(* setdomainname of linux-5.5.y/kernel/sys.c under uts_sem.                *)
(*                                                                         *)
(* A name has a head, which memcpy writes, and a tail, which memset clears *)
(* when the new name is shorter: setting one takes two steps, and so does  *)
(* reading one.  A tail of NUL is a name that is its head alone.           *)
(***************************************************************************)
EXTENDS Naturals, FiniteSets

CONSTANTS
  Callers,
  Names,          (* <<head, tail>> of the names that are set              *)
  NUL

ASSUME NamesAssumption == \A n \in Names : n = <<n[1], n[2]>> /\ n[1] # NUL

FieldsOf == {"nodename", "domainname"}

VARIABLES
  utsname,        (* the two names                                         *)
  uts_sem,        (* [readers, writer]                                     *)
  uts_call        (* what each caller is about                             *)

uts == <<utsname, uts_sem, uts_call>>

NotCalling == [at |-> "out"]

UtsInit ==
  /\ \E n \in Names : utsname = [f \in FieldsOf |-> n]
  /\ uts_sem = [readers |-> {}, writer |-> {}]
  /\ uts_call = [c \in Callers |-> NotCalling]
-----------------------------------------------------------------------------
(* Mutant: a writer that looks at writers only.                            *)
AmongWriters(c) ==
  /\ uts_sem.writer = {}
  /\ uts_sem' = [uts_sem EXCEPT !.writer = {c}]

down_write(c) ==
  /\ uts_sem.writer = {} /\ uts_sem.readers = {}
  /\ uts_sem' = [uts_sem EXCEPT !.writer = {c}]

down_read(c) ==
  /\ uts_sem.writer = {}
  /\ uts_sem' = [uts_sem EXCEPT !.readers = @ \cup {c}]

up(c) == uts_sem' = [readers |-> uts_sem.readers \ {c}, writer |-> uts_sem.writer \ {c}]

(* A name is set under the lock: its head, then its tail.                  *)
set_name(c, field, name) ==
  /\ uts_call[c] = NotCalling
  /\ down_write(c)
  /\ utsname' = [utsname EXCEPT ![field][1] = name[1]]
  /\ uts_call' = [uts_call EXCEPT ![c] = [at |-> "tail", field |-> field, name |-> name]]

sethostname(c, name)   == set_name(c, "nodename", name)
setdomainname(c, name) == set_name(c, "domainname", name)

set_tail(c) ==
  LET call == uts_call[c] IN
  /\ call.at = "tail"
  /\ utsname' = [utsname EXCEPT ![call.field][2] = call.name[2]]
  /\ up(c)
  /\ uts_call' = [uts_call EXCEPT ![c] = NotCalling]

(* Names are copied under the lock, and given to the caller after it.      *)
copy(c, fields) ==
  /\ uts_call[c] = NotCalling
  /\ down_read(c)
  /\ uts_call' = [uts_call EXCEPT ![c] =
                    [at |-> "copy", tmp |-> [f \in fields |-> <<utsname[f][1], NUL>>]]]
  /\ UNCHANGED utsname

(* The struct of uname has no domain name; gethostname copies one name.    *)
newuname(c)    == copy(c, FieldsOf)
uname(c)       == copy(c, {"nodename"})
gethostname(c) == copy(c, {"nodename"})

copy_tail(c) ==
  LET call == uts_call[c] IN
  /\ call.at = "copy"
  /\ up(c)
  /\ uts_call' = [uts_call EXCEPT ![c] =
                    [at |-> "told",
                     answer |-> [f \in DOMAIN call.tmp |-> <<call.tmp[f][1], utsname[f][2]>>]]]
  /\ UNCHANGED utsname

(* olduname has room for the head of the name alone: one memcpy, and the   *)
(* lock is given back.                                                     *)
olduname(c) ==
  /\ uts_call[c] = NotCalling
  /\ uts_sem.writer = {}
  /\ uts_call' = [uts_call EXCEPT ![c] = [at |-> "old", answer |-> utsname["nodename"][1]]]
  /\ UNCHANGED <<utsname, uts_sem>>

uname_return(c) ==
  /\ uts_call[c].at \in {"told", "old"}
  /\ uts_call' = [uts_call EXCEPT ![c] = NotCalling]
  /\ UNCHANGED <<utsname, uts_sem>>

UtsNext ==
  \E c \in Callers :
    \/ \E n \in Names : sethostname(c, n) \/ setdomainname(c, n)
    \/ newuname(c) \/ uname(c) \/ gethostname(c) \/ olduname(c)
    \/ set_tail(c) \/ copy_tail(c) \/ uname_return(c)

UtsSpec == UtsInit /\ [][UtsNext]_uts
-----------------------------------------------------------------------------
(* Nobody is told a name that was never set: the head of one with the tail *)
(* of another.                                                             *)
NamesAreWhole ==
  \A c \in Callers : uts_call[c].at = "told" =>
    \A f \in DOMAIN uts_call[c].answer : uts_call[c].answer[f] \in Names

(* An old program is told how such a name begins.                          *)
OldNamesBegin ==
  \A c \in Callers : uts_call[c].at = "old" => \E n \in Names : uts_call[c].answer = n[1]

(* uts_sem is held for writing by one caller, or for reading by any.       *)
UtsSemHeld ==
  /\ Cardinality(uts_sem.writer) <= 1
  /\ uts_sem.writer # {} => uts_sem.readers = {}
  /\ \A c \in Callers : uts_call[c].at = "tail" <=> c \in uts_sem.writer

NamesAlways == NamesAreWhole /\ OldNamesBegin /\ UtsSemHeld
=============================================================================
