----------------------------- MODULE SysCalls -------------------------------
(***************************************************************************)
(* The calls of linux-5.5.y/kernel/sys.c.                                  *)
(*                                                                         *)
(* The file holds parts that take no lock of each other's.  Where one      *)
(* reads what the calls of another change, its module has that changed by  *)
(* a step of its own, in any way and at any time: the credentials limits   *)
(* and priorities ask about (TaskLimits), the limit of the data of a map   *)
(* (TaskMm), and what a change of ids resets (TaskOptions).  So each part  *)
(* has at least the behaviours it has beside the others, and an execution  *)
(* of all of them tells of each what it tells alone.  A behaviour here is  *)
(* one of a single part, the subject; the others stay at a start of        *)
(* theirs.  User and group ids are set apart too: they have only the       *)
(* capabilities in common, those of one are what its own calls, and        *)
(* capset, leave.                                                          *)
(***************************************************************************)
EXTENDS TaskIds, TaskTree, TaskLimits, TaskMm, TaskUsage, TaskOptions, UtsNames, SysInfo

VARIABLE subject  (* the part                                              *)

Subjects == {"users", "groups", "tree", "limits", "mm", "usage", "options", "names", "sysinfo"}

(* One start of each part that has several.                                *)
StillUsers   == AllUids(cred) = {ROOT}
StillGroups  == AllGids(cred) = {CHOOSE g \in Gids : TRUE}
StillLimits  == \A t \in Tasks : nice[t] = MaxNice /\ task_cred[t] = CHOOSE i \in Identities[t] : TRUE
StillMm      == mm = (CHOOSE m \in ExecMaps : TRUE) /\ exe_file = (CHOOSE f \in Files : TRUE)
                  /\ data_limit = CHOOSE l \in DataLimits : TRUE
StillOptions == opt.dumpable = DUMP_USER
StillNames   == \A f \in FieldsOf : utsname[f] = CHOOSE n \in Names : TRUE
StillSysInfo == memory = CHOOSE m \in Memory : m.free <= m.ram

Init ==
  /\ subject \in Subjects
  /\ IdsInit /\ (subject = "users" \/ StillUsers) /\ (subject = "groups" \/ StillGroups)
  /\ TreeInit
  /\ LimitsInit /\ (subject = "limits" \/ StillLimits)
  /\ MmInit /\ (subject = "mm" \/ StillMm)
  /\ UsageInit
  /\ OptionsInit /\ (subject = "options" \/ StillOptions)
  /\ UtsInit /\ (subject = "names" \/ StillNames)
  /\ SysInfoInit /\ (subject = "sysinfo" \/ StillSysInfo)

Next ==
  \/ /\ subject = "users" /\ (UserCalls \/ CapCalls)
     /\ UNCHANGED <<subject, tree, limits, mmv, usage, options, uts, sysinfos>>
  \/ /\ subject = "groups" /\ (GroupCalls \/ CapCalls)
     /\ UNCHANGED <<subject, tree, limits, mmv, usage, options, uts, sysinfos>>
  \/ /\ subject = "tree" /\ TreeNext
     /\ UNCHANGED <<subject, ids, limits, mmv, usage, options, uts, sysinfos>>
  \/ /\ subject = "limits" /\ LimitsNext
     /\ UNCHANGED <<subject, ids, tree, mmv, usage, options, uts, sysinfos>>
  \/ /\ subject = "mm" /\ MmNext
     /\ UNCHANGED <<subject, ids, tree, limits, usage, options, uts, sysinfos>>
  \/ /\ subject = "usage" /\ UsageNext
     /\ UNCHANGED <<subject, ids, tree, limits, mmv, options, uts, sysinfos>>
  \/ /\ subject = "options" /\ OptionsNext
     /\ UNCHANGED <<subject, ids, tree, limits, mmv, usage, uts, sysinfos>>
  \/ /\ subject = "names" /\ UtsNext
     /\ UNCHANGED <<subject, ids, tree, limits, mmv, usage, options, sysinfos>>
  \/ /\ subject = "sysinfo" /\ SysInfoNext
     /\ UNCHANGED <<subject, ids, tree, limits, mmv, usage, options, uts>>

Spec == Init /\ [][Next]_<<subject, ids, tree, limits, mmv, usage, options, uts, sysinfos>>
-----------------------------------------------------------------------------
(* Each of these is about the parts it names, when they are the subject.   *)
On(parts, P) == subject \in parts => P

(* What a task is: its sessions and groups, and where its orphans go.      *)
TreeHolds == []On({"tree"}, TreeAlways) /\ LeadersStay

(* What a task may use, and where its memory is: limits, priorities and    *)
(* the map, none of which a race of the calls that set them may break.     *)
BoundsHold ==
  /\ []On({"limits"}, LimitsAlways) /\ []On({"mm"}, MmAlways)
  /\ HardLimitsFall /\ [][MmStep]_mmv

(* What a task is told, it is told whole: its use, its options, the names  *)
(* and the memory of the system.                                           *)
ToldWhole ==
  /\ []On({"names"}, NamesAlways) /\ []On({"options"}, PolicyIsTold)
  /\ []On({"sysinfo"}, SysInfoTells)
  /\ [][SamplesGrow]_usage /\ [][OptionsStay]_options
=============================================================================
