SPECIFICATION Spec
CONSTANTS
  Threads = {t1, t2}
  None = None
  Surnames = {s1}
  RecSize = 2
  NameLen = 1
  USER_BUF_CAP = 3
  MaxOps = 3
SYMMETRY Clients
INVARIANTS HolderAgrees WalkedEntriesStay ExecutedInOrder NeverOverruns ReadsWhatWasFound WholeQuants DoneWhenWritten
