SPECIFICATION Spec
CONSTANTS
  Uids = {0, 1, 2}
  Gids = {0, 1}
  ROOT = 0
  Pids = {init, p, q, r}
  child_reaper = init
  Reapers = {init, p}
  Tasks = {a, b}
  a = a
  b = b
  Identities <- MCIdentities
  INIT_RLIMITS <- MCInitLimits
  Resources = {"NICE", "CPU"}
  Requests <- MCRequests
  MaxNice = 1
  nr_open = 2
  OLD_INFINITY = 1
  COMPAT_INFINITY = 1
  INFINITY = 2
  Threads = {t, u}
  mmap_min_addr = 1
  TASK_SIZE = 5
  DataLimits = {0, 2}
  Changes <- MCChanges
  Breaks = {3}
  Tops = {2}
  Maps <- MCMaps
  ExecMaps <- MCExecMaps
  Vectors <- MCVectors
  AT_VECTOR = 2
  Files = {f}
  NONE = NONE
  ThreadGroup = {1, 2, 3}
  MaxUse = 1
  Signals = {0, 1}
  Slacks = {0, 1}
  DefaultSlack = 2
  suid_dumpable = 0
  Callers = {x, y, z}
  NUL = NUL
  Names <- MCNames
  W = 6
  C = 3
  PAGE_SHIFT = 2
  Amounts = {0, 1, 3, 7, 8, 15, 16, 31, 32, 63}
SYMMETRY MCSymmetry
CHECK_DEADLOCK FALSE
PROPERTIES IdsHold TreeHolds BoundsHold ToldWhole
