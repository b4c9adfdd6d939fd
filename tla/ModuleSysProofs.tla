-------------------------- MODULE ModuleSysProofs --------------------------
(***************************************************************************)
(* Proofs about ModuleSys, for any callers and any number of loads.  That  *)
(* a call never runs in a module that is gone rests on three things at     *)
(* once: the reference keeps rmmod out, nobody can hold the descriptor of  *)
(* a load that has not published it, and what is listed is mapped.         *)
(***************************************************************************)
EXTENDS ModuleSys, TLAPS

(* No caller can have the descriptor of a load before it is published.     *)
DescriptorsKnown ==
  \A c \in Callers : dsc[c] <= load /\ (phase = "init" => dsc[c] < load)

ListedIsMapped == phase \in Listed => load \in mapped

(* Callers that have not looked the module up have no reference, whatever  *)
(* they have been led to.                                                  *)
NoneBefore ==
  \A c \in Callers : pc[c] \in {"idle", "check", "lookup"} => c \notin refs

(* Who looks a module up, or has been misled, has read some descriptor.    *)
HasDescriptor ==
  \A c \in Callers : /\ pc[c] = "lookup" \/ c \in astray => dsc[c] # NULL
                     /\ c \in astray => pc[c] \notin {"idle", "check"}

IInv == /\ TypeOK
        /\ NeverInsideGone /\ PublishedIsMapped /\ NoReferenceLeaks
        /\ DescriptorsKnown /\ ListedIsMapped /\ NoneBefore
        /\ OnlyOldPointersMislead /\ HasDescriptor

USE DEF NULL, Live, Listed, Using

LEMMA InitIInv == Init => IInv
BY LoadsAssumption
   DEF Init, IInv, TypeOK, NeverInsideGone, PublishedIsMapped, NoReferenceLeaks,
       DescriptorsKnown, ListedIsMapped, NoneBefore,
           OnlyOldPointersMislead, HasDescriptor, kernel

(* The steps of a call.  They leave the kernel's view of the module alone. *)
LEMMA CallerStep ==
  ASSUME IInv, NEW c \in Callers, read_once(c) \/ Call(c) \/ Fault(c)
  PROVE  IInv'
<1> USE DEF IInv
<1>1. /\ UNCHANGED <<module_sys_descritor, load, phase, mapped>>
      /\ \A d \in Callers \ {c} : /\ pc'[d] = pc[d] /\ dsc'[d] = dsc[d]
                                  /\ d \in refs' <=> d \in refs
                                  /\ d \in astray' <=> d \in astray
  BY DEF TypeOK, read_once, Call, check, module_get_by_name, sys_ptr, module_put,
         Fault, Return, GoTo, kernel
<1>2. TypeOK'
  <2>1. /\ pc' \in [Callers -> {"idle", "check", "lookup", "call", "inside", "dead"}]
        /\ dsc' \in [Callers -> Nat]
    <3>. /\ pc \in [Callers -> {"idle", "check", "lookup", "call", "inside", "dead"}]
         /\ dsc \in [Callers -> Nat] /\ module_sys_descritor \in Nat
      BY DEF TypeOK
    <3>1. CASE read_once(c)  BY <3>1 DEF read_once, GoTo
    <3>2. CASE check(c)      BY <3>2 DEF check, Return, GoTo
    <3>3. CASE module_get_by_name(c)
      BY <3>3 DEF module_get_by_name, Return, GoTo
    <3>4. CASE sys_ptr(c)    BY <3>4 DEF sys_ptr, GoTo
    <3>5. CASE module_put(c) BY <3>5 DEF module_put, GoTo
    <3>6. CASE Fault(c)      BY <3>6 DEF Fault, GoTo
    <3>. QED BY <3>1, <3>2, <3>3, <3>4, <3>5, <3>6 DEF Call
  <2>2. refs' \subseteq Callers /\ astray' \subseteq Callers
    BY DEF TypeOK, read_once, Call, check, module_get_by_name, sys_ptr, module_put,
           Fault, Return
  <2>. QED BY <1>1, <2>1, <2>2 DEF TypeOK
<1>3. /\ dsc'[c] <= load /\ (phase = "init" => dsc'[c] < load)
  <2>1. dsc'[c] \in {dsc[c], module_sys_descritor, NULL}
    BY DEF TypeOK, read_once, Call, check, module_get_by_name, sys_ptr, module_put,
           Fault, Return, GoTo
  <2>2. phase = "init" => load \in Nat \ {0}
    BY DEF TypeOK, ListedIsMapped
  <2>3. /\ module_sys_descritor <= load
        /\ phase = "init" => module_sys_descritor < load
    BY <2>2 DEF TypeOK, PublishedIsMapped
  <2>. QED BY <2>1, <2>2, <2>3 DEF TypeOK, DescriptorsKnown
<1>4. c \notin astray' /\ pc'[c] \in Using =>
        dsc'[c] = load /\ load \in mapped /\ phase \in Live /\ c \in refs'
  <2>1. CASE read_once(c)  BY <2>1 DEF TypeOK, read_once, GoTo
  <2>2. CASE check(c)      BY <2>2 DEF TypeOK, check, Return, GoTo
  <2>3. CASE module_get_by_name(c)
    BY <2>3 DEF TypeOK, module_get_by_name, Return, GoTo, Gone, ListedIsMapped
  <2>4. CASE sys_ptr(c)
    BY <2>4 DEF TypeOK, sys_ptr, GoTo, NeverInsideGone, NoReferenceLeaks
  <2>5. CASE module_put(c) BY <2>5 DEF TypeOK, module_put, GoTo
  <2>6. CASE Fault(c)      BY <2>6 DEF TypeOK, Fault, GoTo
  <2>. QED BY <2>1, <2>2, <2>3, <2>4, <2>5, <2>6 DEF Call
<1>5. pc'[c] \in {"idle", "check", "lookup"} => c \notin refs'
  BY DEF TypeOK, read_once, Call, check, module_get_by_name, sys_ptr, module_put,
         Fault, Return, GoTo, NoneBefore
<1>6. c \notin astray' /\ pc'[c] = "dead" => c \notin refs'
  <2>1. CASE read_once(c) \/ Call(c)
    <3>1. pc'[c] # "dead"
      BY <2>1 DEF TypeOK, read_once, Call, check, module_get_by_name, sys_ptr,
                  module_put, Return, GoTo
    <3>. QED BY <3>1
  <2>2. CASE Fault(c)
    <3>1. refs' = refs /\ astray' = astray /\ dsc[c] \notin mapped
      BY <2>2 DEF Fault, Gone
    <3>2. c \notin astray => pc[c] \notin Using
      BY <3>1 DEF NeverInsideGone
    <3>. QED BY <3>1, <3>2 DEF NoReferenceLeaks
  <2>. QED BY <2>1, <2>2
<1>7. NeverInsideGone'
  BY <1>1, <1>4 DEF NeverInsideGone
<1>8. NoReferenceLeaks'
  BY <1>1, <1>2, <1>4, <1>5, <1>6 DEF NoReferenceLeaks, TypeOK
<1>9. DescriptorsKnown'
  BY <1>1, <1>3 DEF DescriptorsKnown
<1>10. PublishedIsMapped' /\ ListedIsMapped'
  BY <1>1 DEF PublishedIsMapped, ListedIsMapped
<1>11. NoneBefore'
  BY <1>1, <1>5 DEF NoneBefore
<1>12. HasDescriptor'
  <2>1. /\ pc'[c] = "lookup" \/ c \in astray' => dsc'[c] # NULL
        /\ c \in astray' => pc'[c] \notin {"idle", "check"}
    BY DEF TypeOK, read_once, Call, check, module_get_by_name, sys_ptr, module_put,
           Fault, Return, GoTo, HasDescriptor
  <2>. QED BY <1>1, <2>1 DEF HasDescriptor
<1>13. c \in astray' => dsc'[c] # module_sys_descritor
  <2>1. CASE c \in astray
    BY <2>1 DEF TypeOK, read_once, Call, check, module_get_by_name, sys_ptr, module_put,
                Fault, Return, GoTo, HasDescriptor, OnlyOldPointersMislead
  <2>2. CASE c \notin astray /\ c \in astray'
    <3>1. dsc'[c] = dsc[c] /\ (dsc[c] \notin mapped \/ dsc[c] # load)
      BY <2>2 DEF read_once, Call, check, module_get_by_name, sys_ptr, module_put,
                  Fault, Return, Gone
    <3>2. dsc'[c] # NULL
      BY <2>2, <1>12 DEF HasDescriptor
    <3>. QED BY <3>1, <3>2 DEF PublishedIsMapped
  <2>. QED BY <2>1, <2>2
<1>14. OnlyOldPointersMislead'
  BY <1>1, <1>2, <1>13 DEF OnlyOldPointersMislead, TypeOK
<1>. QED BY <1>2, <1>7, <1>8, <1>9, <1>10, <1>11, <1>12, <1>14

(* The steps of loading and unloading.  They leave the callers alone.      *)
LEMMA ModuleStep ==
  ASSUME IInv,
         \/ insmod \/ register_chrdev_fails \/ module_sys_publish
         \/ first_module_init \/ rmmod \/ Unload \/ free_module
  PROVE  IInv'
<1> USE DEF IInv
<1>1. CASE insmod
  <2>1. \A c \in Callers \ astray : pc[c] \notin Using
    BY <1>1 DEF insmod, NeverInsideGone, TypeOK
  <2>2. module_sys_descritor = NULL
    BY <1>1 DEF insmod, PublishedIsMapped
  <2>. QED
    BY <1>1, <2>1, <2>2
       DEF insmod, callers, TypeOK, NeverInsideGone, PublishedIsMapped,
           NoReferenceLeaks, DescriptorsKnown, ListedIsMapped, NoneBefore,
           OnlyOldPointersMislead, HasDescriptor
<1>2. CASE register_chrdev_fails
  <2>1. \A c \in Callers \ astray : pc[c] \notin Using
    BY <1>2 DEF register_chrdev_fails, NeverInsideGone, DescriptorsKnown, TypeOK
  <2>. QED
    BY <1>2, <2>1
       DEF register_chrdev_fails, callers, TypeOK, NeverInsideGone, PublishedIsMapped,
           NoReferenceLeaks, DescriptorsKnown, ListedIsMapped, NoneBefore,
           OnlyOldPointersMislead, HasDescriptor
<1>3. CASE module_sys_publish
  BY <1>3 DEF module_sys_publish, callers, TypeOK, NeverInsideGone, PublishedIsMapped,
              NoReferenceLeaks, DescriptorsKnown, ListedIsMapped, NoneBefore,
           OnlyOldPointersMislead, HasDescriptor
<1>4. CASE first_module_init
  BY <1>4 DEF first_module_init, callers, TypeOK, NeverInsideGone, PublishedIsMapped,
              NoReferenceLeaks, DescriptorsKnown, ListedIsMapped, NoneBefore,
           OnlyOldPointersMislead, HasDescriptor
<1>5. CASE rmmod
  <2>1. \A c \in Callers \ astray : pc[c] \notin Using
    BY <1>5 DEF rmmod, NoReferenceLeaks, TypeOK
  <2>. QED
    BY <1>5, <2>1 DEF rmmod, callers, TypeOK, NeverInsideGone, PublishedIsMapped,
                      NoReferenceLeaks, DescriptorsKnown, ListedIsMapped, NoneBefore,
           OnlyOldPointersMislead, HasDescriptor
<1>6. CASE Unload
  <2>1. \A c \in Callers \ astray : pc[c] \notin Using
    BY <1>6 DEF Unload, module_sys_retract, phonedir_free, unlist, NeverInsideGone, TypeOK
  <2>2. CASE module_sys_retract
    BY <2>1, <2>2
       DEF module_sys_retract, callers, TypeOK, NeverInsideGone, PublishedIsMapped,
           NoReferenceLeaks, DescriptorsKnown, ListedIsMapped, NoneBefore,
           OnlyOldPointersMislead, HasDescriptor
  <2>3. CASE phonedir_free
    BY <2>1, <2>3
       DEF phonedir_free, callers, TypeOK, NeverInsideGone, PublishedIsMapped,
           NoReferenceLeaks, DescriptorsKnown, ListedIsMapped, NoneBefore,
           OnlyOldPointersMislead, HasDescriptor
  <2>4. CASE unlist
    BY <2>1, <2>4
       DEF unlist, TypeOK, NeverInsideGone, PublishedIsMapped,
           NoReferenceLeaks, DescriptorsKnown, ListedIsMapped, NoneBefore,
           OnlyOldPointersMislead, HasDescriptor
  <2>. QED BY <1>6, <2>2, <2>3, <2>4 DEF Unload
<1>7. CASE free_module
  BY <1>7 DEF free_module, callers, TypeOK, NeverInsideGone, PublishedIsMapped,
              NoReferenceLeaks, DescriptorsKnown, ListedIsMapped, NoneBefore,
           OnlyOldPointersMislead, HasDescriptor
<1>. QED BY <1>1, <1>2, <1>3, <1>4, <1>5, <1>6, <1>7

LEMMA NextIInv == IInv /\ [Next]_vars => IInv'
<1> SUFFICES ASSUME IInv, [Next]_vars PROVE IInv'
  OBVIOUS
<1>1. CASE Next
  <2>1. CASE \E c \in Callers : read_once(c) \/ Call(c) \/ Fault(c)
    BY <2>1, CallerStep
  <2>2. CASE \/ insmod \/ register_chrdev_fails \/ module_sys_publish
             \/ first_module_init \/ rmmod \/ Unload \/ free_module
    BY <2>2, ModuleStep
  <2>. QED BY <1>1, <2>1, <2>2 DEF Next
<1>2. CASE UNCHANGED vars
  BY <1>2 DEF vars, kernel, IInv, TypeOK, NeverInsideGone, PublishedIsMapped,
              NoReferenceLeaks, DescriptorsKnown, ListedIsMapped, NoneBefore,
           OnlyOldPointersMislead, HasDescriptor
<1>. QED BY <1>1, <1>2

LEMMA Invariance == Spec => []IInv
<1>. QED BY InitIInv, NextIInv, PTL DEF Spec

(* The calls and the module keep to their types: loads are numbers, and    *)
(* only loads that have happened have memory.                              *)
THEOREM TypeCorrect == Spec => []TypeOK
<1>1. IInv => TypeOK  BY DEF IInv
<1>. QED BY <1>1, Invariance, PTL

(* sys_add, sys_del and sys_find run in a module that is there, and before *)
(* its exit frees the directory.                                           *)
THEOREM CallsArePinned == Spec => []NeverInsideGone
<1>1. IInv => NeverInsideGone  BY DEF IInv
<1>. QED BY <1>1, Invariance, PTL

(* exit retracts the descriptor early enough.                              *)
THEOREM DescriptorIsMapped == Spec => []PublishedIsMapped
<1>1. IInv => PublishedIsMapped  BY DEF IInv
<1>. QED BY <1>1, Invariance, PTL

(* The window in which a call can be misled is the one before the retract. *)
THEOREM NewPointersAreGood == Spec => []OnlyOldPointersMislead
<1>1. IInv => OnlyOldPointersMislead  BY DEF IInv
<1>. QED BY <1>1, Invariance, PTL

(* References are balanced.                                                *)
THEOREM ReferencesBalance == Spec => []NoReferenceLeaks
<1>1. IInv => NoReferenceLeaks  BY DEF IInv
<1>. QED BY <1>1, Invariance, PTL
=============================================================================
