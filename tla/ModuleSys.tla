----------------------------- MODULE ModuleSys -----------------------------
(***************************************************************************)
(* The system calls that hw3-kernel adds to the kernel (the end of         *)
(* linux-5.5.y/kernel/sys.c) and the life of the module that serves them   *)
(* (kernel/kmodule.c).  A call reads the published descriptor, looks up    *)
(* the module by the name inside it, and holds a reference while it calls  *)
(* into the module.  The descriptor lies in the memory of the module, so   *)
(* calls race with rmmod and with the insmod that install.sh runs next.    *)
(*                                                                         *)
(* What runs under module_mutex is one step.  The three calls differ only  *)
(* in the arguments they pass on.                                          *)
(***************************************************************************)
EXTENDS Naturals, FiniteSets

CONSTANTS
  Callers,        (* tasks that make system calls                          *)
  MaxLoads        (* how often the module is loaded in a behaviour         *)

ASSUME LoadsAssumption == MaxLoads \in Nat

VARIABLES
  module_sys_descritor, (* whose descriptor is published: the number of a
                           load, NULL for none                             *)
  load,           (* the load the kernel's list of modules has, or had last *)
  phase,          (* how far it has come                                   *)
  mapped,         (* loads whose memory is there                           *)
  refs,           (* callers that hold a reference on the current load     *)
  pc,             (* of each caller                                        *)
  dsc,            (* the descriptor it has read                            *)
  astray          (* history: callers that have looked at a descriptor whose
                     memory was gone, or have taken their reference on a
                     load other than the descriptor's                      *)

kernel == <<load, phase, mapped>>
vars   == <<module_sys_descritor, kernel, refs, pc, dsc, astray>>

NULL == 0

(* module_is_live: coming or live, not going.                              *)
Live   == {"init", "published", "live"}
Listed == Live \cup {"exit", "retracted", "cleared"}
Using  == {"call", "inside"}

Init ==
  /\ module_sys_descritor = NULL
  /\ load = 0 /\ phase = "out" /\ mapped = {} /\ refs = {}
  /\ pc = [c \in Callers |-> "idle"]
  /\ dsc = [c \in Callers |-> NULL]
  /\ astray = {}
-----------------------------------------------------------------------------
(* The caller goes on to where; a descriptor that is gone may just as well *)
(* make it fault or, as it reads anything there, return.                   *)
Gone(c) == dsc[c] \notin mapped

GoTo(c, where) == pc' = [pc EXCEPT ![c] = where]

Return(c) ==
  /\ GoTo(c, "idle")
  /\ astray' = astray \ {c}
  /\ dsc' = [dsc EXCEPT ![c] = NULL]
  /\ UNCHANGED <<module_sys_descritor, kernel, refs>>

Fault(c) ==
  /\ pc[c] \in {"check", "lookup", "call", "inside"} /\ dsc[c] # NULL /\ Gone(c)
  /\ GoTo(c, "dead")
  /\ UNCHANGED <<module_sys_descritor, kernel, refs, dsc, astray>>

(* dsc = READ_ONCE(module_sys_descritor)                                   *)
read_once(c) ==
  /\ pc[c] = "idle"
  /\ GoTo(c, "check")
  /\ dsc' = [dsc EXCEPT ![c] = module_sys_descritor]
  /\ UNCHANGED <<module_sys_descritor, kernel, refs, astray>>

(* !dsc || !(dsc->sys_ptr).  The module fills in all three functions.      *)
check(c) ==
  /\ pc[c] = "check"
  /\ \/ /\ dsc[c] = NULL \/ Gone(c)
        /\ Return(c)
     \/ /\ dsc[c] # NULL
        /\ GoTo(c, "lookup")
        /\ astray' = IF Gone(c) THEN astray \cup {c} ELSE astray
        /\ UNCHANGED <<module_sys_descritor, kernel, refs, dsc>>

(* Mutants of module_get_by_name: the reference is not taken; a module     *)
(* that is coming is waited for.                                           *)
FindWithoutGet(c) ==
  /\ pc[c] = "lookup"
  /\ \/ /\ phase \notin Live \/ Gone(c)
        /\ Return(c)
     \/ /\ phase \in Live
        /\ GoTo(c, "call")
        /\ astray' = IF Gone(c) \/ dsc[c] # load THEN astray \cup {c} ELSE astray
        /\ UNCHANGED <<module_sys_descritor, kernel, refs, dsc>>

WaitForInit(c) ==
  /\ pc[c] = "lookup" /\ phase \notin {"init", "published"}
  /\ \/ /\ phase # "live" \/ Gone(c)
        /\ Return(c)
     \/ /\ phase = "live"
        /\ refs' = refs \cup {c}
        /\ GoTo(c, "call")
        /\ astray' = IF Gone(c) \/ dsc[c] # load THEN astray \cup {c} ELSE astray
        /\ UNCHANGED <<module_sys_descritor, kernel, dsc>>

(* module_get_by_name: every load has the same name, so the one in the     *)
(* list is found, whichever the name was read from.  try_module_get refuses *)
(* a module that is going; it accepts NULL, which is then returned.        *)
module_get_by_name(c) ==
  /\ pc[c] = "lookup"
  /\ \/ /\ phase \notin Live \/ Gone(c)
        /\ Return(c)
     \/ /\ phase \in Live
        /\ refs' = refs \cup {c}
        /\ GoTo(c, "call")
        /\ astray' = IF Gone(c) \/ dsc[c] # load THEN astray \cup {c} ELSE astray
        /\ UNCHANGED <<module_sys_descritor, kernel, dsc>>

(* dsc->sys_ptr(ptr): into the module, and back.                           *)
sys_ptr(c) ==
  /\ pc[c] = "call"
  /\ GoTo(c, "inside")
  /\ UNCHANGED <<module_sys_descritor, kernel, refs, dsc, astray>>

(* Mutant of module_put: the call returns what the module returned.        *)
ReturnWithoutPut(c) ==
  /\ pc[c] = "inside"
  /\ GoTo(c, "idle")
  /\ dsc' = [dsc EXCEPT ![c] = NULL] /\ astray' = astray \ {c}
  /\ UNCHANGED <<module_sys_descritor, kernel, refs>>

module_put(c) ==
  /\ pc[c] = "inside"
  /\ refs' = refs \ {c}
  /\ GoTo(c, "idle")
  /\ dsc' = [dsc EXCEPT ![c] = NULL] /\ astray' = astray \ {c}
  /\ UNCHANGED <<module_sys_descritor, kernel>>

(* The rest of a call that has begun.                                      *)
Call(c) == check(c) \/ module_get_by_name(c) \/ sys_ptr(c) \/ module_put(c)
-----------------------------------------------------------------------------
callers == <<refs, pc, dsc, astray>>

(* insmod: memory, a place in the list, then first_module_init.            *)
insmod ==
  /\ phase = "out" /\ load < MaxLoads
  /\ phase' = "init" /\ load' = load + 1 /\ mapped' = mapped \cup {load + 1}
  /\ UNCHANGED <<module_sys_descritor, callers>>

(* Without a device number init fails, before it has published anything.   *)
register_chrdev_fails ==
  /\ phase = "init"
  /\ phase' = "cleared"
  /\ UNCHANGED <<module_sys_descritor, load, mapped, callers>>

module_sys_publish ==
  /\ phase = "init"
  /\ module_sys_descritor' = load /\ phase' = "published"
  /\ UNCHANGED <<load, mapped, callers>>

first_module_init ==
  /\ phase = "published"
  /\ phase' = "live"
  /\ UNCHANGED <<module_sys_descritor, load, mapped, callers>>

(* rmmod refuses while there are references; then nobody gets a new one,   *)
(* and first_module_exit runs.                                             *)
rmmod ==
  /\ phase = "live" /\ refs = {}
  /\ phase' = "exit"
  /\ UNCHANGED <<module_sys_descritor, load, mapped, callers>>

(* Mutant of module_sys_retract: the descriptor stays published.           *)
ExitWithoutRetract ==
  /\ phase = "exit"
  /\ phase' = "retracted"
  /\ UNCHANGED <<module_sys_descritor, load, mapped, callers>>

module_sys_retract ==
  /\ phase = "exit"
  /\ module_sys_descritor' = NULL /\ phase' = "retracted"
  /\ UNCHANGED <<load, mapped, callers>>

(* Mutant of phonedir_free: exit waits until nobody makes a call.          *)
FreeWhenQuiet ==
  /\ phase = "retracted" /\ \A c \in Callers : pc[c] = "idle"
  /\ phase' = "cleared"
  /\ UNCHANGED <<module_sys_descritor, load, mapped, callers>>

(* phonedir_free(&phone_directory), without the lock of the directory.     *)
phonedir_free ==
  /\ phase = "retracted"
  /\ phase' = "cleared"
  /\ UNCHANGED <<module_sys_descritor, load, mapped, callers>>

(* free_module takes the module off the list, with what is left of its     *)
(* references, and then frees its memory.                                  *)
unlist ==
  /\ phase = "cleared"
  /\ phase' = "out" /\ refs' = {}
  /\ UNCHANGED <<module_sys_descritor, load, mapped, pc, dsc, astray>>

free_module ==
  \E n \in mapped :
    /\ n # load \/ phase = "out"
    /\ mapped' = mapped \ {n}
    /\ UNCHANGED <<module_sys_descritor, load, phase, callers>>

Unload == module_sys_retract \/ phonedir_free \/ unlist

Next ==
  \/ \E c \in Callers : read_once(c) \/ Call(c) \/ Fault(c)
  \/ insmod \/ register_chrdev_fails \/ module_sys_publish \/ first_module_init
  \/ rmmod \/ Unload \/ free_module

(* A call that has begun and an exit that has begun go on.                 *)
Spec == /\ Init /\ [][Next]_vars
        /\ \A c \in Callers : WF_vars(Call(c))
        /\ WF_vars(Unload)
-----------------------------------------------------------------------------
TypeOK ==
  /\ module_sys_descritor \in Nat /\ load \in Nat /\ mapped \subseteq 1 .. load
  /\ phase \in Listed \cup {"out"}
  /\ refs \subseteq Callers /\ astray \subseteq Callers
  /\ pc \in [Callers -> {"idle", "check", "lookup", "call", "inside", "dead"}]
  /\ dsc \in [Callers -> Nat]

(* As long as its descriptor was there when it looked, a call is in a      *)
(* module whose exit has not begun and cannot begin: first_module_exit     *)
(* frees the directory without taking its lock.                            *)
NeverInsideGone ==
  \A c \in Callers \ astray :
    pc[c] \in Using => dsc[c] = load /\ load \in mapped /\ phase \in Live

(* A call that starts now reads no pointer into memory that is gone, or    *)
(* that a load other than the current one has left behind.                 *)
PublishedIsMapped ==
  module_sys_descritor # NULL =>
    /\ module_sys_descritor = load /\ load \in mapped
    /\ phase \in {"published", "live", "exit"}

(* What misleads a call is a pointer it read before exit retracted it: a    *)
(* call that holds the pointer published now finds what it points to.      *)
OnlyOldPointersMislead ==
  \A c \in astray : dsc[c] # module_sys_descritor

(* Each call gives back the reference it took, on every path, or rmmod     *)
(* would be refused for ever.                                              *)
NoReferenceLeaks ==
  \A c \in Callers \ astray : c \in refs <=> pc[c] \in Using

(* Calls come back, whatever becomes of the module.                        *)
EveryCallReturns ==
  \A c \in Callers : pc[c] # "idle" ~> pc[c] \in {"idle", "dead"}

(* exit takes no lock that a call could hold: it ends whatever calls do.   *)
ExitEnds == phase = "exit" ~> phase = "out"
=============================================================================
