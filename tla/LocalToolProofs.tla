--------------------------- MODULE LocalToolProofs ---------------------------
(***************************************************************************)
(* Proofs about LocalTool, for every number of processes, blocks and       *)
(* commands and every capacity of the blocks: as long as no command is cut *)
(* short half way and no two are in each other's way, the commands keep    *)
(* every file and tell what is in it (KeepsAndTells).                      *)
(*                                                                         *)
(* LInv is the invariant behind it.  It gives every file its blocks (lay)  *)
(* while they are being linked, and says of each process what the file it  *)
(* is at work on is like at the place where it is, what it has loaded of   *)
(* the table, and how much of a file it reads it has read.                 *)
(***************************************************************************)
EXTENDS LocalTool, Recursion

(* How many cells block number o of a file holds, and all before it.       *)
Room(o)   == IF o = 0 THEN FirstCap ELSE CommonCap
Before(o) == IF o = 0 THEN 0 ELSE FirstCap + (o - 1) * CommonCap

(* The blocks before number o + 1 hold what is before o, and o.            *)
LEMMA BeforeStep ==
  ASSUME NEW o \in Nat
  PROVE  /\ Before(o) \in Nat /\ Room(o) \in Nat \ {0} /\ Room(o) <= CommonCap
         /\ Before(o + 1) = Before(o) + Room(o)
<1>1. CASE o = 0
  BY <1>1, LocalAssumption DEF Before, Room
<1>2. CASE o # 0
  <2>1. (o - 1) * CommonCap \in Nat /\ o * CommonCap = (o - 1) * CommonCap + CommonCap
    <3>1. PICK m \in Nat : o = m + 1
      <4>1. o - 1 \in Nat /\ o = (o - 1) + 1
        BY <1>2
      <4> QED BY <4>1
    <3> QED BY <3>1, LocalAssumption
  <2>2. o + 1 - 1 = o /\ o + 1 # 0
    OBVIOUS
  <2> QED BY <1>2, <2>1, <2>2, LocalAssumption DEF Before, Room
<1> QED BY <1>1, <1>2

(* Behind the first block every block holds as much as any other.          *)
LEMMA BeforeAfter == \A d \in Nat : Before(1 + d) = FirstCap + d * CommonCap
<1>1. ASSUME NEW d \in Nat PROVE Before(1 + d) = FirstCap + d * CommonCap
  <2>1. PICK k \in Nat : k = 1 + d
    OBVIOUS
  <2>2. k # 0 /\ k - 1 = d
    BY <2>1
  <2>3. Before(k) = FirstCap + (k - 1) * CommonCap
    BY <2>2 DEF Before
  <2> QED BY <2>1, <2>2, <2>3
<1> QED BY <1>1

(* An earlier block ends before a later one begins.                        *)
LEMMA BeforeGrows ==
  ASSUME NEW a \in Nat, NEW b \in Nat, a < b
  PROVE  Before(a) + Room(a) <= Before(b)
<1>1. PICK d \in Nat : b = a + 1 + d
  <2>1. b - a - 1 \in Nat /\ b = a + 1 + (b - a - 1)
    OBVIOUS
  <2> QED BY <2>1
<1>2. Before(a + 1) = FirstCap + a * CommonCap /\ Before(b) = FirstCap + (a + d) * CommonCap
  BY <1>1 DEF Before
<1>3. a * CommonCap \in Nat /\ d * CommonCap \in Nat
      /\ (a + d) * CommonCap = a * CommonCap + d * CommonCap
  BY <1>1, LocalAssumption
<1>4. Before(a + 1) = Before(a) + Room(a)
  BY BeforeStep
<1> QED BY <1>2, <1>3, <1>4, LocalAssumption

(* The blocks a file of a size needs: the last of them is not empty, if it *)
(* is not the only one.                                                    *)
LEMMA Required ==
  ASSUME NEW size \in Nat
  PROVE  LET n == get_blocks_required(size) IN
         /\ n \in Nat \ {0} /\ size <= Before(n)
         /\ \A o \in Nat : o < n /\ o # 0 => Before(o) < size
<1>1. CASE size <= FirstCap
  <2>1. get_blocks_required(size) = 1
    BY <1>1 DEF get_blocks_required
  <2>2. Before(1) = FirstCap
    <3>1. (1 - 1) * CommonCap = 0
      BY LocalAssumption
    <3> QED BY <3>1, LocalAssumption DEF Before
  <2> QED BY <1>1, <2>1, <2>2
<1>2. CASE ~(size <= FirstCap)
  <2> DEFINE x == size - FirstCap + CommonCap - 1
             d == x \div CommonCap
  <2>1. x \in Nat /\ CommonCap \in Nat \ {0} /\ x - CommonCap + 1 = size - FirstCap
        /\ FirstCap \in Nat
        /\ 0 < size - FirstCap
    BY <1>2, LocalAssumption
  <2>2. d \in Nat /\ d * CommonCap <= x /\ x < d * CommonCap + CommonCap /\ d * CommonCap \in Nat
    <3> HIDE DEF x
    <3>1. d \in Nat
      BY <2>1
    <3>2. x = CommonCap * d + (x % CommonCap) /\ x % CommonCap \in 0..(CommonCap - 1)
      BY <2>1
    <3>3. CommonCap * d = d * CommonCap /\ d * CommonCap \in Nat
      BY <3>1, <2>1
    <3> QED BY <2>1, <3>1, <3>2, <3>3
  <2>3. get_blocks_required(size) = 1 + d
    BY <1>2 DEF get_blocks_required
  <2>4. d # 0
    <3>1. CommonCap <= x
      BY <2>1
    <3> QED BY <3>1, <2>1, <2>2
  <2>5. Before(1 + d) = FirstCap + d * CommonCap
    BY <2>2, BeforeAfter
  <2>6. size <= Before(1 + d)
    <3> HIDE DEF x, d
    <3> QED BY <2>1, <2>2, <2>5
  <2>7. Before(d) < size
    <3>1. PICK e \in Nat : d = e + 1
      <4>1. d - 1 \in Nat /\ d = d - 1 + 1
        BY <2>2, <2>4
      <4> QED BY <4>1
    <3>2. Before(d) = FirstCap + e * CommonCap /\ d * CommonCap = e * CommonCap + CommonCap
          /\ e * CommonCap \in Nat
      <4>1. d - 1 = e
        BY <3>1
      <4>2. (e + 1) * CommonCap = e * CommonCap + CommonCap /\ e * CommonCap \in Nat
        BY <2>1
      <4> HIDE DEF d
      <4> QED BY <3>1, <2>4, <4>1, <4>2 DEF Before
    <3> HIDE DEF x, d
    <3> QED BY <2>1, <2>2, <3>2
  <2>8. ASSUME NEW o \in Nat, o < 1 + d, o # 0 PROVE Before(o) < size
    <3>1. CASE o = d
      BY <3>1, <2>7
    <3>2. CASE o # d
      <4> HIDE DEF d
      <4>1. o < d /\ Before(o) \in Nat /\ Room(o) \in Nat /\ Before(d) \in Nat
        BY <2>2, <2>8, <3>2, BeforeStep
      <4>2. Before(o) + Room(o) <= Before(d)
        BY <2>2, <4>1, BeforeGrows
      <4> QED BY <4>1, <4>2, <2>7
    <3> QED BY <3>1, <3>2
  <2> HIDE DEF d
  <2> QED BY <2>2, <2>3, <2>6, <2>8
<1> QED BY <1>1, <1>2

(* A longer file does not need fewer blocks.                               *)
LEMMA RequiredGrows ==
  ASSUME NEW a \in Nat, NEW b \in Nat, a <= b
  PROVE  get_blocks_required(a) <= get_blocks_required(b)
<1>1. PICK m \in Nat : m = get_blocks_required(a)
  BY Required
<1>2. PICK n \in Nat : n = get_blocks_required(b) /\ n # 0
  BY Required
<1>3. ASSUME n < m PROVE FALSE
  <2>1. Before(n) < a /\ b <= Before(n) /\ Before(n) \in Nat
    BY <1>1, <1>2, <1>3, Required, BeforeStep
  <2> QED BY <2>1
<1> QED BY <1>1, <1>2, <1>3
-----------------------------------------------------------------------------
(* The files, by their first blocks.                                       *)
Heads == DOMAIN shadow

(* The locals of a process.                                                *)
Fields == {"at", "cmd", "depth", "file", "count", "offset", "want", "block", "ord", "inner",
           "left", "buf", "after", "chunk", "found", "bits", "made", "item_index", "todo", "stack",
           "claims", "base", "disturbed"}

(* c is a sequence, of whatever elements.                                  *)
IsSeq(c) == Len(c) \in Nat /\ c = [i \in 1..Len(c) |-> c[i]]

(* The types of the image and of the table of processes.                   *)
ImageTyped ==
  /\ lookup_table \subseteq Block /\ cont \in [Block -> Block]
  /\ inode = [b \in Block |-> inode[b]]
  /\ \A b \in Block : /\ inode[b] = [size |-> inode[b].size, flags |-> inode[b].flags,
                                     last |-> inode[b].last]
                      /\ inode[b].size \in Nat
  /\ cells = [b \in Block |-> cells[b]]
  /\ \A b \in Block : cells[b] = [k \in 1..CommonCap |-> cells[b][k]]
  /\ begun \in Nat
  /\ proc = [p \in Processes |-> proc[p]]

(* The types of the locals the proofs need.                                *)
ProcTyped(p) ==
  /\ DOMAIN proc[p] = Fields /\ proc[p].claims \in BOOLEAN
  /\ At(p, "idle") => proc[p] = IDLE
  /\ proc[p].cmd.offset \in Nat /\ proc[p].cmd.chunks \in Seq(Seq(STRING))
  /\ proc[p].chunk \in Nat \ {0}

-----------------------------------------------------------------------------
(* lay[h] are the blocks of file h, as far as they are linked.             *)
Laid(lay) ==
  /\ Metadata \subseteq lookup_table
  /\ DOMAIN lay = Heads
  /\ \A h \in Heads : /\ lay[h] \in Seq(lookup_table \ Metadata) /\ Len(lay[h]) # 0
                      /\ lay[h][1] = h
                      /\ \A i \in 1..(Len(lay[h]) - 1) : cont[lay[h][i]] = lay[h][i + 1]
  /\ \A g, h \in Heads : \A i \in 1..Len(lay[g]), j \in 1..Len(lay[h]) :
       lay[g][i] = lay[h][j] => g = h /\ i = j

(* The blocks of h hold c, as far as c goes.                               *)
Holds(lay, h, c) ==
  /\ Len(c) <= Before(Len(lay[h]))
  /\ \A i \in 1..Len(lay[h]) : \A k \in 1..Room(i - 1) :
       Before(i - 1) + k <= Len(c) => cells[lay[h][i]][k] = c[Before(i - 1) + k]

(* As many blocks as the size asks for, and last_inode is the last one.    *)
Full(lay, h) ==
  Len(lay[h]) = get_blocks_required(inode[h].size) /\ inode[h].last = lay[h][Len(lay[h])]

(* The file is all there: its size, its blocks and its cells.              *)
Whole(lay, h) == inode[h].size = Len(shadow[h]) /\ Full(lay, h) /\ Holds(lay, h, shadow[h])

(* So is every file nobody is at work on.                                  *)
FilesWhole(lay) ==
  /\ \A h \in Heads : IsSeq(shadow[h])
  /\ \A h \in Unclaimed : Whole(lay, h)

-----------------------------------------------------------------------------

(* Where the data of p ends, and how much of it is there.                  *)
EndOf(p) == proc[p].offset + Len(Data(p))
Done(p)  == Len(Data(p)) - proc[p].left

(* p has something to put into its file: a chunk, an item for the file it  *)
(* has made, one of the items it keeps.                                    *)
Writes(p) ==
  /\ proc[p].offset \in Nat
  /\ \/ /\ Is(p, {"write"}) /\ proc[p].chunk <= Len(proc[p].cmd.chunks)
        /\ inode[proc[p].file].flags = FILE
     \/ Is(p, Makes) /\ proc[p].made # 0
     \/ Is(p, {"rm"}) /\ IsSeq(proc[p].todo) /\ proc[p].todo # <<>>

(* p is at work on its file, but has not begun to change it.               *)
Prepares(p) ==
  \/ /\ Is(p, {"rm"}) /\ proc[p].disturbed = "no"
     /\ \/ At(p, "listed")
        \/ proc[p].at \in {"read", "get"} /\ proc[p].after = "listed"
  \/ Is(p, {"rm"}) /\ At(p, "reappend") /\ IsSeq(proc[p].todo)
  \/ Is(p, {"rm"}) /\ At(p, "append") /\ IsSeq(proc[p].todo) /\ proc[p].todo # <<>>
  \/ At(p, "change") /\ Writes(p)
  \/ /\ At(p, "truncate") /\ Writes(p) /\ Data(p) # <<>>
     /\ proc[p].offset <= inode[proc[p].file].size /\ inode[proc[p].file].size < EndOf(p)

(* It is adding blocks to it, or giving blocks back.                       *)
Growing(p) == \/ proc[p].at \in {"extend", "scan", "link"}
              \/ InTable(p) /\ ~Purging(p)

Shrinking(p) == \/ proc[p].at \in {"purge_blocks", "purged", "shrunk"}
                \/ InTable(p) /\ Purging(p)

(* The size is stored, the blocks up to number ord are there, and the old  *)
(* contents are.                                                           *)
Grows(lay, p) ==
  LET s == proc[p] f == proc[p].file IN
  /\ Writes(p) /\ Data(p) # <<>>
  /\ inode[f].size = EndOf(p) /\ s.offset <= Len(shadow[f]) /\ Len(shadow[f]) < EndOf(p)
  /\ Holds(lay, f, shadow[f])
  /\ s.ord = Len(lay[f]) /\ s.block = lay[f][Len(lay[f])]
  /\ s.left = get_blocks_required(EndOf(p)) /\ s.ord <= s.left
  /\ s.at # "extend" => s.ord < s.left

Larger(a, b) == IF a > b THEN a ELSE b

(* All the blocks are there, and the data up to where p stands.            *)
Puts(lay, p) ==
  LET s == proc[p] f == proc[p].file IN
  /\ Writes(p)
  /\ inode[f].size = Larger(EndOf(p), Len(shadow[f])) /\ s.offset <= Len(shadow[f])
  /\ Full(lay, f)
  /\ s.left \in 1..Len(Data(p))
  /\ s.ord \in Nat /\ s.ord < Len(lay[f]) /\ s.block = lay[f][s.ord + 1]
  /\ s.inner \in Nat /\ Before(s.ord) + s.inner = s.offset + Done(p)
  /\ Holds(lay, f, Overlaid(shadow[f], s.offset, SubSeq(Data(p), 1, Done(p))))

(* The file is empty, and only its first block belongs to it.              *)
Shrinks(lay, p) ==
  LET s == proc[p] f == proc[p].file IN
  /\ Is(p, {"rm"}) /\ s.after = "shrunk" /\ s.block \in Block /\ IsSeq(s.todo)
  /\ inode[f].size = 0 /\ shadow[f] = <<>> /\ Len(lay[f]) = 1

(* Where a command at work on a file may be, and what its file is like.    *)
Claiming(lay, p) ==
  proc[p].claims =>
    /\ proc[p].file \in Heads
    /\ \/ Prepares(p) /\ Whole(lay, proc[p].file)
       \/ Growing(p) /\ Grows(lay, p)
       \/ Shrinking(p) /\ Shrinks(lay, p)
       \/ At(p, "put") /\ Puts(lay, p)

InFile(p) == proc[p].file \in Heads

(* Where the others may be.                                                *)
Unclaiming(p) ==
  ~proc[p].claims =>
    \/ At(p, "idle")
    \/ Is(p, {"init"}) /\ proc[p].at \in {"format", "scan", "mark", "store", "init"}
       /\ proc[p].made = 0
    \/ ~Is(p, {"init"}) /\ proc[p].made = 0 /\ proc[p].at \in {"locate", "trace", "find", "printed"}
    \/ ~Is(p, {"init"}) /\ proc[p].made = 0 /\ At(p, "cat") /\ proc[p].after = "cat"
    \/ ~Is(p, {"init"}) /\ proc[p].made = 0 /\ proc[p].at \in {"read", "get"}
       /\ proc[p].after \in {"find", "cat", "printed"}
    \/ Is(p, Makes) /\ proc[p].made = 0 /\ proc[p].at \in {"scan", "mark", "store", "init"} /\ InFile(p)
    \/ Is(p, Makes) /\ proc[p].made # 0 /\ At(p, "append") /\ InFile(p)
    \/ Is(p, {"write"}) /\ At(p, "write") /\ InFile(p) /\ proc[p].offset \in Nat
    \/ Is(p, {"rm"}) /\ proc[p].at \in {"purge", "items"}
    \/ Is(p, {"rm"}) /\ proc[p].at \in {"read", "get"} /\ proc[p].after = "items"
    \/ Is(p, {"rm"}) /\ At(p, "purge_blocks") /\ proc[p].after = "purge"
    \/ Is(p, {"rm"}) /\ proc[p].at \in {"mark", "store", "purged"} /\ Purging(p) /\ proc[p].after = "purge"

(* What p has loaded of the table is what the table holds; a bit to set is *)
(* clear.                                                                  *)
Taking(p) ==
  /\ InTable(p) => proc[p].found \in Block /\ (~Purging(p) => proc[p].found \notin lookup_table)
  /\ At(p, "purged") => proc[p].block \in Block
  /\ At(p, "store") => proc[p].bits = lookup_table \cap Byte(proc[p].found)

(* p has marked a block to use it next.                                    *)
Waits(p) == proc[p].at \in {"link", "init"}

(* That block is in no file, and no other command waits for it.            *)
Taken(lay, p) ==
  Waits(p) =>
    /\ proc[p].found \in lookup_table \ Metadata
    /\ \A h \in Heads : \A i \in 1..Len(lay[h]) : lay[h][i] # proc[p].found
    /\ \A q \in Processes \ {p} : Waits(q) => proc[q].found # proc[p].found

-----------------------------------------------------------------------------

(* p reads a file, or has just read it.                                    *)
Reader(p) == \/ proc[p].at \in {"find", "listed", "printed", "cat"}
             \/ proc[p].at \in {"read", "get"} /\ proc[p].after \in {"find", "listed", "printed", "cat"}

(* What it has read of it is right.                                        *)
Agree(p) ==
  \A i \in 1..Len(proc[p].buf) : i <= Len(proc[p].base) => proc[p].buf[i] = proc[p].base[i]

(* The file is there and holds what p should read; as long as it is not    *)
(* disturbed there is no more of it.                                       *)
SeesFile(lay, p) ==
  LET s == proc[p] f == proc[p].file IN
  /\ f \in Heads /\ Holds(lay, f, s.base) /\ Len(s.base) <= inode[f].size
  /\ s.disturbed = "no" => Len(s.base) = inode[f].size

(* At the beginning of read_file: what is asked for.                       *)
AtRead(p) ==
  LET s == proc[p] IN
  At(p, "read") =>
    /\ s.offset = Len(s.buf) /\ s.want \in Nat
    /\ s.after = "cat" /\ s.disturbed = "no" => Len(s.buf) <= Len(s.base)
    /\ s.after # "cat" => /\ s.buf = <<>> /\ s.want = s.count /\ Len(s.base) <= s.count
                          /\ s.disturbed = "no" => s.count = Len(s.base)

(* Between two memcpys: where in the file, and how much is left.           *)
AtGet(lay, p) ==
  LET s == proc[p] f == proc[p].file IN
  At(p, "get") =>
    /\ s.left \in Nat \ {0} /\ s.ord \in Nat /\ s.inner \in Nat /\ s.block \in Block
    /\ Before(s.ord) + s.inner = Len(s.buf)
    /\ s.ord = 0 \/ Before(s.ord) < Len(s.base) => s.block = lay[f][s.ord + 1]
    /\ s.after = "cat" /\ s.disturbed = "no" => Len(s.buf) + s.left <= Len(s.base)
    /\ s.after # "cat" => /\ s.count \in Nat /\ Len(s.base) <= Len(s.buf) + s.left
                          /\ s.disturbed = "no" =>
                               s.count = Len(s.base) /\ Len(s.base) = Len(s.buf) + s.left

(* A reader has all of the file, or is on its way.                         *)
Sees(lay, p) ==
  LET s == proc[p] IN
  /\ SeesFile(lay, p) /\ IsSeq(s.base) /\ IsSeq(s.buf) /\ Agree(p)
  /\ s.after = "cat" => s.want = BufSize
  /\ s.at \in {"find", "listed", "printed"} =>
       Len(s.base) <= Len(s.buf) /\ (s.disturbed = "no" => Len(s.base) = Len(s.buf))
  /\ At(p, "cat") => s.after = "cat" /\ (s.disturbed = "no" => Len(s.buf) <= Len(s.base))
  /\ AtRead(p) /\ AtGet(lay, p)

(* That is so for each reader that is not disturbed by a change.           *)
Reading(lay, p) ==
  Reader(p) /\ proc[p].disturbed # "changed" =>
      proc[p].disturbed \in {"no", "grown"} /\ Sees(lay, p)

(* The one who changes a file knows its readers disturbed.                 *)
Beside(p, q) ==
  Reader(p) /\ proc[p].disturbed # "changed" /\ Claims(q, proc[p].file) =>
    /\ Is(q, {"rm"}) => proc[q].at \in {"read", "get", "listed"}
    /\ Is(q, Makes) => Len(proc[p].base) <= Len(shadow[proc[q].file])

(* mkfile and mkdir write behind the end.                                  *)
Appends(p) ==
  proc[p].claims /\ Is(p, Makes) => proc[p].offset = Len(shadow[proc[p].file])

(* All that is said of one command.                                        *)
Fine(lay, p) == ProcTyped(p) /\ Claiming(lay, p) /\ Unclaiming(p) /\ Taking(p) /\ Taken(lay, p)
                /\ Reading(lay, p) /\ Appends(p)

(* All that is said of the image and the commands, for the blocks that lay *)
(* gives each file.                                                        *)
Kept(lay) ==
  /\ ImageTyped /\ Laid(lay) /\ FilesWhole(lay) /\ superblock = "whole"
  /\ \A p \in Processes : Fine(lay, p) /\ \A q \in Processes \ {p} : Beside(p, q)

(* As long as nothing is broken and nobody has raced there are such        *)
(* blocks.                                                                 *)
LInv == ~broken /\ ~raced => ~Race /\ \E lay : Kept(lay)
-----------------------------------------------------------------------------
(* The locals of q are the same, but for whether it is disturbed.          *)
SameBut(q) ==
  /\ proc'[q].at = proc[q].at /\ proc'[q].cmd = proc[q].cmd /\ proc'[q].depth = proc[q].depth
  /\ proc'[q].file = proc[q].file /\ proc'[q].count = proc[q].count
  /\ proc'[q].offset = proc[q].offset /\ proc'[q].want = proc[q].want
  /\ proc'[q].block = proc[q].block /\ proc'[q].ord = proc[q].ord /\ proc'[q].inner = proc[q].inner
  /\ proc'[q].left = proc[q].left /\ proc'[q].buf = proc[q].buf /\ proc'[q].after = proc[q].after
  /\ proc'[q].chunk = proc[q].chunk /\ proc'[q].found = proc[q].found
  /\ proc'[q].bits = proc[q].bits
  /\ proc'[q].made = proc[q].made /\ proc'[q].item_index = proc[q].item_index
  /\ proc'[q].todo = proc[q].todo /\ proc'[q].stack = proc[q].stack
  /\ proc'[q].claims = proc[q].claims /\ proc'[q].base = proc[q].base
  /\ proc'[q].disturbed \in {proc[q].disturbed, "grown", "changed"}
  /\ proc[q].disturbed = "changed" \/ proc[q].claims => proc'[q].disturbed = proc[q].disturbed
  /\ DOMAIN proc'[q] = DOMAIN proc[q]
  /\ At(q, "idle") => proc'[q] = proc[q]

(* A step leaves file h as it is.                                          *)
Steady(lay, lay2, h) ==
  /\ h \in Heads /\ h \in Heads' /\ lay2[h] = lay[h] /\ shadow'[h] = shadow[h]
  /\ inode'[h] = inode[h]
  /\ \A i \in 1..Len(lay[h]) : cells'[lay[h][i]] = cells[lay[h][i]]

(* A file none of whose blocks, inode and contents changes: it holds what  *)
(* it held.                                                                *)
LEMMA HoldsSteady ==
  ASSUME NEW lay, NEW lay2, NEW h, Steady(lay, lay2, h), NEW c, Holds(lay, h, c)
  PROVE  Holds(lay2, h, c)'
<1>1. lay2[h] = lay[h]
  BY DEF Steady
<1>2. Len(c) <= Before(Len(lay[h]))
  BY DEF Holds
<1>3. \A i \in 1..Len(lay[h]) : \A k \in 1..Room(i - 1) :
        Before(i - 1) + k <= Len(c) => cells'[lay[h][i]][k] = c[Before(i - 1) + k]
  BY DEF Holds, Steady
<1> QED BY <1>1, <1>2, <1>3 DEF Holds

(* It is whole if it was.                                                  *)
LEMMA WholeSteady ==
  ASSUME NEW lay, NEW lay2, NEW h, Steady(lay, lay2, h), Whole(lay, h)
  PROVE  Whole(lay2, h)'
<1>1. Holds(lay2, h, shadow[h])'
  BY HoldsSteady DEF Steady, Whole, Holds
<1> QED BY <1>1 DEF Steady, Whole, Full, get_blocks_required

(* What q is about to write does not depend on whether it is disturbed.    *)
LEMMA DataSame ==
  ASSUME NEW q, SameBut(q)
  PROVE  Data(q)' = Data(q)
BY DEF SameBut, Data, Is, Name, Makes, Cell

(* Nor does that it is about to write.                                     *)
LEMMA WritesSame ==
  ASSUME NEW q, SameBut(q), inode'[proc[q].file].flags = inode[proc[q].file].flags, Writes(q)
  PROVE  Writes(q)'
BY DEF SameBut, Writes, Is, Makes, IsSeq

(* Nor that it has not begun to change its file, which stays as it is.     *)
LEMMA PreparesSteady ==
  ASSUME NEW lay, NEW lay2, NEW q, SameBut(q), proc[q].claims, Steady(lay, lay2, proc[q].file),
         Prepares(q)
  PROVE  Prepares(q)'
<1>1. /\ At(q, "change") /\ Writes(q) => At(q, "change")' /\ Writes(q)'
      /\ At(q, "truncate") /\ Writes(q) => At(q, "truncate")' /\ Writes(q)'
  BY WritesSame DEF SameBut, At, Steady
<1>2. CASE ~At(q, "change") /\ ~At(q, "truncate")
  BY <1>2 DEF Prepares, SameBut, At, Is, IsSeq
<1>3. CASE At(q, "change")
  BY <1>1, <1>3 DEF Prepares, SameBut, At
<1>4. CASE At(q, "truncate")
  BY <1>1, <1>4, DataSame DEF Prepares, SameBut, At, Steady, EndOf
<1> QED BY <1>2, <1>3, <1>4

(* A command at work on a file that stays as it is is where it was with    *)
(* it.                                                                     *)
LEMMA ClaimingSteady ==
  ASSUME NEW lay, NEW lay2, NEW q, SameBut(q), proc[q].claims => Steady(lay, lay2, proc[q].file),
         Claiming(lay, q)
  PROVE  Claiming(lay2, q)'
<1> SUFFICES ASSUME proc[q].claims PROVE Claiming(lay2, q)'
  BY DEF Claiming, SameBut
<1> DEFINE f == proc[q].file
<1>1. Steady(lay, lay2, f) /\ f \in Heads /\ f \in Heads' /\ proc'[q].file = f
  BY DEF Claiming, SameBut, Steady
<1>2. Data(q)' = Data(q) /\ EndOf(q)' = EndOf(q) /\ Done(q)' = Done(q)
  BY DataSame DEF EndOf, Done, SameBut
<1>3. Writes(q) => Writes(q)'
  BY WritesSame, <1>1 DEF Steady
<1>4. CASE Prepares(q) /\ Whole(lay, f)
  BY <1>1, <1>4, PreparesSteady, WholeSteady DEF Claiming
<1>5. CASE Growing(q) /\ Grows(lay, q)
  <2>1. Growing(q)'
    BY <1>5 DEF Growing, InTable, Purging, At, Is, SameBut
  <2>2. PICK c : c = shadow[f]
    OBVIOUS
  <2>3. PICK e : e = EndOf(q)
    OBVIOUS
  <2>4. Holds(lay, f, c)
    BY <1>5, <2>2 DEF Grows
  <2>5. Holds(lay2, f, c)'
    BY <1>1, <2>4, HoldsSteady
  <2>6. c = shadow[f]' /\ e = EndOf(q)'
    BY <1>1, <1>2, <2>2, <2>3 DEF Steady
  <2>7. Holds(lay2, f, shadow[f])'
    BY <2>5, <2>6
  <2>8. Writes(q)' /\ Data(q)' # <<>>
    BY <1>2, <1>3, <1>5 DEF Grows
  <2>9. /\ inode'[f].size = e /\ proc'[q].offset <= Len(c) /\ Len(c) < e
        /\ proc'[q].ord = Len(lay2[f]) /\ proc'[q].block = lay2[f][Len(lay2[f])]
        /\ proc'[q].left = get_blocks_required(e) /\ proc'[q].ord <= proc'[q].left
        /\ proc'[q].at # "extend" => proc'[q].ord < proc'[q].left
    BY <1>1, <1>5, <2>2, <2>3 DEF Grows, SameBut, Steady
  <2>10. proc'[q].left = get_blocks_required(e)'
    BY <2>9 DEF get_blocks_required
  <2>11. Grows(lay2, q)'
    BY <1>1, <2>6, <2>7, <2>8, <2>9, <2>10 DEF Grows
  <2> QED BY <1>1, <2>1, <2>11 DEF Claiming
<1>6. CASE Shrinking(q) /\ Shrinks(lay, q)
  <2>1. Shrinking(q)'
    BY <1>6 DEF Shrinking, InTable, Purging, At, Is, SameBut
  <2>2. Shrinks(lay2, q)'
    BY <1>1, <1>6 DEF Shrinks, Is, SameBut, Steady, IsSeq
  <2> QED BY <1>1, <2>1, <2>2 DEF Claiming
<1>7. CASE At(q, "put") /\ Puts(lay, q)
  <2>1. PICK c : c = Overlaid(shadow[f], proc[q].offset, SubSeq(Data(q), 1, Done(q)))
    OBVIOUS
  <2>2. c = Overlaid(shadow[f], proc[q].offset, SubSeq(Data(q), 1, Done(q)))'
    BY <1>1, <1>2, <2>1 DEF Overlaid, Steady, SameBut
  <2>3. Holds(lay2, f, c)'
    BY <1>1, <1>7, <2>1, HoldsSteady DEF Puts
  <2>4. Holds(lay2, f, Overlaid(shadow[f], proc[q].offset, SubSeq(Data(q), 1, Done(q))))'
    BY SMTT(30), <2>2, <2>3
  <2>5. Full(lay2, f)'
    BY <1>1, <1>7 DEF Puts, Full, Steady, get_blocks_required
  <2>6. PICK e, d, l : e = EndOf(q) /\ d = Done(q) /\ l = Larger(e, Len(shadow[f]))
    OBVIOUS
  <2>7. e = EndOf(q)' /\ d = Done(q)' /\ l = Larger(e, Len(shadow'[f]))
    BY <1>1, <1>2, <2>6 DEF Steady
  <2>8. /\ inode'[f].size = l /\ proc'[q].offset <= Len(shadow'[f])
        /\ proc'[q].left \in 1..Len(Data(q)) /\ proc'[q].ord \in Nat
        /\ proc'[q].ord < Len(lay2[f]) /\ proc'[q].block = lay2[f][proc'[q].ord + 1]
        /\ proc'[q].inner \in Nat /\ Before(proc'[q].ord) + proc'[q].inner = proc'[q].offset + d
    BY <1>1, <1>7, <2>6 DEF Puts, SameBut, Steady
  <2>9. Before(proc[q].ord)' = Before(proc'[q].ord)
    BY DEF Before
  <2>14. Larger(EndOf(q), Len(shadow[proc[q].file]))' = l
    BY <1>1, <2>7 DEF Larger
  <2>10. proc'[q].left \in 1..Len(Data(q)')
    BY <1>2, <2>8
  <2>11. Writes(q)'
    BY <1>3, <1>7 DEF Puts
  <2>13. Puts(lay2, q)'
    BY <1>1, <2>4, <2>5, <2>7, <2>8, <2>9, <2>10, <2>11, <2>14 DEF Puts
  <2> QED BY <1>1, <1>7, <2>13 DEF Claiming, At, SameBut
<1> QED BY <1>4, <1>5, <1>6, <1>7 DEF Claiming

(* A command at work on no file is where it was.                           *)
LEMMA UnclaimingSame ==
  ASSUME NEW q, SameBut(q), Heads \subseteq Heads', Unclaiming(q)
  PROVE  Unclaiming(q)'
BY DEF Unclaiming, SameBut, At, Is, InFile, Purging, Makes

(* What a command at the table has loaded is still what the table holds.   *)
LEMMA TakingSame ==
  ASSUME NEW q, SameBut(q), lookup_table' = lookup_table, Taking(q)
  PROVE  Taking(q)'
BY DEF Taking, SameBut, At, Is, InTable, Purging, Byte

(* The locals of a command keep their types.                               *)
LEMMA ProcTypedSame ==
  ASSUME NEW q, SameBut(q), ProcTyped(q)
  PROVE  ProcTyped(q)'
BY DEF ProcTyped, SameBut, At

(* A reader goes on reading what it has found, as long as that is there.   *)
LEMMA ReadingOn ==
  ASSUME NEW lay, NEW lay2, NEW q, SameBut(q), Reading(lay, q),
         Reader(q) /\ proc'[q].disturbed # "changed" =>
           /\ SeesFile(lay2, q)'
           /\ \A o \in Nat : o = 0 \/ Before(o) < Len(proc[q].base) =>
                lay2[proc[q].file][o + 1] = lay[proc[q].file][o + 1]
  PROVE  Reading(lay2, q)'
<1> SUFFICES ASSUME Reader(q)', proc'[q].disturbed # "changed"
             PROVE  proc'[q].disturbed \in {"no", "grown"} /\ Sees(lay2, q)'
  BY DEF Reading
<1>1. Reader(q) /\ proc[q].disturbed # "changed"
  BY DEF Reader, SameBut
<1>2. Sees(lay, q) /\ proc[q].disturbed \in {"no", "grown"}
  BY <1>1 DEF Reading
<1>3. proc'[q].disturbed \in {"no", "grown"}
      /\ (proc'[q].disturbed = "no" => proc[q].disturbed = "no")
  BY <1>2 DEF SameBut
<1>4. SeesFile(lay2, q)'
  BY <1>1
<1>5. IsSeq(proc[q].base)' /\ IsSeq(proc[q].buf)' /\ Agree(q)' /\ AtRead(q)'
  BY <1>2, <1>3 DEF Sees, IsSeq, Agree, AtRead, SameBut, At
<1>6. AtGet(lay2, q)'
  <2> SUFFICES ASSUME At(q, "get")' PROVE AtGet(lay2, q)'
    BY DEF AtGet
  <2>1. At(q, "get") /\ AtGet(lay, q)
    BY <1>2 DEF Sees, At, SameBut
  <2>2. proc[q].ord \in Nat
    BY <2>1 DEF AtGet
  <2>3. proc[q].ord = 0 \/ Before(proc[q].ord) < Len(proc[q].base) =>
          proc[q].block = lay2[proc[q].file][proc[q].ord + 1]
    BY <1>1, <2>1, <2>2 DEF AtGet
  <2> QED BY <1>3, <2>1, <2>3 DEF AtGet, SameBut, Before
<1> QED BY <1>2, <1>3, <1>4, <1>5, <1>6 DEF Sees, SameBut, At

(* A reader of a file that stays as it is still sees it.                   *)
LEMMA ReadingSteady ==
  ASSUME NEW lay, NEW lay2, NEW q, SameBut(q), Reading(lay, q),
         Reader(q) /\ proc'[q].disturbed # "changed" => Steady(lay, lay2, proc[q].file)
  PROVE  Reading(lay2, q)'
<1>1. ASSUME Reader(q), proc'[q].disturbed # "changed" PROVE SeesFile(lay2, q)'
  <2>1. Steady(lay, lay2, proc[q].file) /\ SeesFile(lay, q)
    BY <1>1 DEF Reading, Sees, SameBut
  <2>2. PICK c : c = proc[q].base
    OBVIOUS
  <2>a. PICK h : h = proc[q].file
    OBVIOUS
  <2>b. Holds(lay, h, c) /\ Steady(lay, lay2, h)
    BY <2>1, <2>2, <2>a DEF SeesFile
  <2>3. Holds(lay2, h, c)'
    BY <2>b, HoldsSteady
  <2>4. proc'[q].disturbed = "no" => proc[q].disturbed = "no"
    BY DEF SameBut
  <2>5. Holds(lay2, proc[q].file, proc[q].base)'
    BY <2>2, <2>3, <2>a DEF SameBut
  <2> QED BY <2>1, <2>4, <2>5 DEF SeesFile, Steady, SameBut
<1>2. ASSUME Reader(q), proc'[q].disturbed # "changed"
      PROVE  lay2[proc[q].file] = lay[proc[q].file]
  BY <1>2 DEF Steady
<1> QED BY <1>1, <1>2, ReadingOn

(* A command that appends to a directory still does so at its end.         *)
LEMMA AppendsSame ==
  ASSUME NEW q, SameBut(q), Appends(q),
         proc[q].claims => shadow'[proc[q].file] = shadow[proc[q].file]
  PROVE  Appends(q)'
BY DEF Appends, SameBut, Is, Makes

(* Neither of two commands, one reading what the other changes, notices a  *)
(* third.                                                                  *)
LEMMA BesideSame ==
  ASSUME NEW p, NEW q, SameBut(p), SameBut(q), Beside(p, q),
         proc[q].claims => shadow'[proc[q].file] = shadow[proc[q].file]
  PROVE  Beside(p, q)'
BY DEF Beside, SameBut, Is, Makes, Claims, Reader
-----------------------------------------------------------------------------
(* The fields of p that are not in S stay as they are.                     *)
Same(p, S) ==
  /\ "at" \in S \/ proc'[p].at = proc[p].at
  /\ "cmd" \in S \/ proc'[p].cmd = proc[p].cmd
  /\ "depth" \in S \/ proc'[p].depth = proc[p].depth
  /\ "file" \in S \/ proc'[p].file = proc[p].file
  /\ "count" \in S \/ proc'[p].count = proc[p].count
  /\ "offset" \in S \/ proc'[p].offset = proc[p].offset
  /\ "want" \in S \/ proc'[p].want = proc[p].want
  /\ "block" \in S \/ proc'[p].block = proc[p].block
  /\ "ord" \in S \/ proc'[p].ord = proc[p].ord
  /\ "inner" \in S \/ proc'[p].inner = proc[p].inner
  /\ "left" \in S \/ proc'[p].left = proc[p].left
  /\ "buf" \in S \/ proc'[p].buf = proc[p].buf
  /\ "after" \in S \/ proc'[p].after = proc[p].after
  /\ "chunk" \in S \/ proc'[p].chunk = proc[p].chunk
  /\ "found" \in S \/ proc'[p].found = proc[p].found
  /\ "bits" \in S \/ proc'[p].bits = proc[p].bits
  /\ "made" \in S \/ proc'[p].made = proc[p].made
  /\ "item_index" \in S \/ proc'[p].item_index = proc[p].item_index
  /\ "todo" \in S \/ proc'[p].todo = proc[p].todo
  /\ "stack" \in S \/ proc'[p].stack = proc[p].stack
  /\ "claims" \in S \/ proc'[p].claims = proc[p].claims
  /\ "base" \in S \/ proc'[p].base = proc[p].base
  /\ "disturbed" \in S \/ proc'[p].disturbed = proc[p].disturbed

(* The locals of p after a step: the fields of new, and the others as they *)
(* were.                                                                   *)
LEMMA Joined ==
  ASSUME NEW p, DOMAIN proc[p] = Fields, NEW new, DOMAIN new \subseteq Fields,
         proc'[p] = new ++ proc[p]
  PROVE  /\ DOMAIN proc'[p] = Fields
         /\ \A x \in DOMAIN new : proc'[p][x] = new[x]
         /\ Same(p, DOMAIN new)
<1>1. DOMAIN proc'[p] = Fields /\ \A x \in DOMAIN new : proc'[p][x] = new[x]
  BY DEF ++
<1>2. \A x \in Fields : x \in DOMAIN new \/ proc'[p][x] = proc[p][x]
  BY DEF ++
<1>3. Same(p, DOMAIN new)
  BY <1>2 DEF Same, Fields
<1> QED BY <1>1, <1>3

(* A step of p leaves the locals of every other process as they are.       *)
LEMMA OnlyOne ==
  ASSUME NEW p \in Processes, proc = [q \in Processes |-> proc[q]], NEW r,
         proc' = [proc EXCEPT ![p] = r]
  PROVE  /\ proc'[p] = r /\ proc' = [q \in Processes |-> proc'[q]]
         /\ \A q \in Processes \ {p} : proc'[q] = proc[q] /\ SameBut(q)
<1>1. proc'[p] = r /\ \A q \in Processes \ {p} : proc'[q] = proc[q]
  OBVIOUS
<1>2. DOMAIN proc = Processes
  OBVIOUS
<1>3. proc' = [q \in Processes |-> proc'[q]]
  BY <1>2
<1> QED BY <1>1, <1>3 DEF SameBut

(* What is left to show of a step of p.                                    *)
LEMMA KeptStep ==
  ASSUME NEW lay, NEW lay2, Kept(lay), NEW p \in Processes, \A q \in Processes \ {p} : SameBut(q),
         Heads \subseteq Heads', ImageTyped', Laid(lay2)', superblock' = "whole",
         \A h \in Heads' : \/ h \in Heads /\ Steady(lay, lay2, h) /\ ~Claims(p, h)
                           \/ IsSeq(shadow[h])' /\ (Claims(p, h)' \/ Whole(lay2, h)'),
         \A q \in Processes \ {p} :
           /\ Taking(q)' /\ Taken(lay2, q)'
           /\ proc[q].claims => Steady(lay, lay2, proc[q].file)
           /\ Reader(q) /\ proc'[q].disturbed # "changed" =>
                  Steady(lay, lay2, proc[q].file) \/ Reading(lay2, q)',
         Fine(lay2, p)', \A q \in Processes \ {p} : Beside(p, q)' /\ Beside(q, p)'
  PROVE  Kept(lay2)'
<1>1. ASSUME NEW q \in Processes \ {p} PROVE Fine(lay2, q)'
  <2>1. Fine(lay, q) /\ SameBut(q)
    BY DEF Kept
  <2>2. ProcTyped(q)'
    BY <2>1, ProcTypedSame DEF Fine
  <2>3. Claiming(lay2, q)'
    BY <2>1, ClaimingSteady DEF Fine
  <2>4. Unclaiming(q)'
    BY <2>1, UnclaimingSame DEF Fine
  <2>5. Reading(lay2, q)'
    <3>1. CASE Reader(q) /\ proc'[q].disturbed # "changed" => Steady(lay, lay2, proc[q].file)
      BY <2>1, <3>1, ReadingSteady DEF Fine
    <3> QED BY <3>1
  <2>6. Appends(q)'
    <3>1. proc[q].claims => shadow'[proc[q].file] = shadow[proc[q].file]
      BY DEF Steady
    <3> QED BY <2>1, <3>1, AppendsSame DEF Fine
  <2> QED BY <2>2, <2>3, <2>4, <2>5, <2>6 DEF Fine
<1>2. ASSUME NEW q \in Processes \ {p}, NEW r \in Processes \ {q}, r # p PROVE Beside(q, r)'
  <2>1. SameBut(q) /\ SameBut(r) /\ Beside(q, r)
    BY <1>2 DEF Kept
  <2>2. proc[r].claims => shadow'[proc[r].file] = shadow[proc[r].file]
    BY <1>2 DEF Steady
  <2> QED BY <2>1, <2>2, BesideSame
<1>3. FilesWhole(lay2)'
  <2>1. ASSUME NEW h \in Heads' PROVE IsSeq(shadow[h])'
    BY DEF Steady, Kept, FilesWhole, IsSeq
  <2>2. ASSUME NEW h \in Unclaimed' PROVE Whole(lay2, h)'
    <3>1. h \in Heads' /\ ~Claims(p, h)'
      BY DEF Unclaimed, Heads
    <3>2. CASE h \in Heads /\ Steady(lay, lay2, h) /\ ~Claims(p, h)
      <4>1. ASSUME NEW q \in Processes \ {p} PROVE ~Claims(q, h)
        BY DEF Unclaimed, Claims, SameBut
      <4>2. h \in Unclaimed
        BY <3>2, <4>1 DEF Unclaimed, Heads
      <4> QED BY <3>2, <4>2, WholeSteady DEF Kept, FilesWhole
    <3> QED BY <3>1, <3>2
  <2> QED BY <2>1, <2>2 DEF FilesWhole
<1>4. \A q \in Processes : Fine(lay2, q)' /\ \A r \in Processes \ {q} : Beside(q, r)'
  BY <1>1, <1>2
<1> QED BY <1>3, <1>4 DEF Kept

(* A step that changes nothing of the image.                               *)
Quiet == UNCHANGED <<lookup_table, cont, inode, cells, superblock, shadow>> /\ begun' \in Nat

(* A step that leaves the image and the files as they are.                 *)
LEMMA QuietStep ==
  ASSUME NEW lay, Kept(lay), NEW p \in Processes, Quiet, NEW r, proc' = [proc EXCEPT ![p] = r],
         Fine(lay, p)', ~Waits(p)',
         proc[p].claims => \/ proc'[p].claims /\ proc'[p].file = proc[p].file
                           \/ Whole(lay, proc[p].file),
         \A q \in Processes \ {p} : Beside(p, q)' /\ Beside(q, p)'
  PROVE  Kept(lay)'
<1>1. ImageTyped /\ Laid(lay) /\ FilesWhole(lay) /\ superblock = "whole"
      /\ \A q \in Processes : Fine(lay, q)
  BY DEF Kept
<1>2. /\ proc' = [q \in Processes |-> proc'[q]]
      /\ \A q \in Processes \ {p} : proc'[q] = proc[q] /\ SameBut(q)
  BY <1>1, OnlyOne DEF ImageTyped
<1>3. Heads' = Heads /\ \A h \in Heads : Steady(lay, lay, h)
  BY DEF Quiet, Heads, Steady
<1>4. ImageTyped'
  BY <1>1, <1>2 DEF ImageTyped, Quiet
<1>5. Laid(lay)'
  BY <1>1, <1>3 DEF Laid, Quiet
<1>6. ASSUME NEW h \in Heads'
      PROVE  \/ h \in Heads /\ Steady(lay, lay, h) /\ ~Claims(p, h)
             \/ IsSeq(shadow[h])' /\ (Claims(p, h)' \/ Whole(lay, h)')
  <2>1. h \in Heads /\ Steady(lay, lay, h)
    BY <1>3
  <2>2. CASE Claims(p, h)
    <3>1. h = proc[p].file /\ proc[p].claims
      BY <2>2 DEF Claims
    <3>2. IsSeq(shadow[h])'
      BY <1>1, <2>1 DEF FilesWhole, Steady, IsSeq
    <3>3. CASE proc'[p].claims /\ proc'[p].file = proc[p].file
      BY <3>1, <3>2, <3>3 DEF Claims
    <3>4. CASE Whole(lay, proc[p].file)
      BY <2>1, <3>1, <3>2, <3>4, WholeSteady
    <3> QED BY <3>1, <3>3, <3>4
  <2> QED BY <2>1, <2>2
<1>7. ASSUME NEW q \in Processes \ {p}
      PROVE  /\ Taking(q)' /\ Taken(lay, q)'
             /\ proc[q].claims => Steady(lay, lay, proc[q].file)
             /\ Reader(q) /\ proc'[q].disturbed # "changed" =>
                  Steady(lay, lay, proc[q].file) \/ Reading(lay, q)'
  <2>1. Fine(lay, q) /\ SameBut(q) /\ proc'[q] = proc[q]
    BY <1>1, <1>2
  <2>2. Taking(q)'
    BY <2>1, TakingSame DEF Fine, Quiet
  <2>3. Taken(lay, q)'
    <3>1. ASSUME NEW s \in Processes \ {q}, Waits(s)', Waits(q)
          PROVE proc'[s].found # proc'[q].found
      <4>1. s # p /\ proc'[s] = proc[s] /\ Waits(s)
        BY <1>2, <3>1 DEF Waits
      <4> QED BY <2>1, <3>1, <4>1 DEF Fine, Taken
    <3> QED BY <2>1, <1>3, <3>1 DEF Fine, Taken, Waits, Quiet
  <2>4. proc[q].claims => proc[q].file \in Heads
    BY <2>1 DEF Fine, Claiming
  <2>5. Reader(q) /\ proc'[q].disturbed # "changed" => proc[q].file \in Heads
    BY <2>1 DEF Fine, Reading, Sees, SeesFile
  <2> QED BY <1>3, <2>2, <2>3, <2>4, <2>5
<1>8. superblock' = "whole" /\ Heads \subseteq Heads'
  BY <1>1, <1>3 DEF Quiet
<1> QED BY <1>2, <1>4, <1>5, <1>6, <1>7, <1>8, KeptStep
-----------------------------------------------------------------------------
(* Of the places where it is not at the table.                             *)
LEMMA NotAtTable ==
  ASSUME NEW p, proc'[p].at \notin {"mark", "store", "purged"}
  PROVE  Taking(p)'
BY DEF Taking, InTable, At

(* What is to show of a process that is neither at a file nor at the table.*)
LEMMA PlainFine ==
  ASSUME NEW lay, NEW p, ProcTyped(p)', ~proc'[p].claims, Unclaiming(p)', ~Reader(p)', Taking(p)',
         proc'[p].at \notin {"link", "init"}
  PROVE  Fine(lay, p)' /\ ~Waits(p)' /\ \A q \in Processes \ {p} : Beside(p, q)' /\ Beside(q, p)'
<1>1. Taken(lay, p)' /\ ~Waits(p)'
  BY DEF Taken, Waits
<1>2. Claiming(lay, p)' /\ Reading(lay, p)' /\ Appends(p)'
  BY DEF Claiming, Reading, Appends
<1>3. \A q \in Processes \ {p} : Beside(p, q)' /\ Beside(q, p)'
  BY DEF Beside, Claims
<1> QED BY <1>1, <1>2, <1>3 DEF Fine

(* What Goes does: the image stays, and p has the fields of new.           *)
LEMMA GoesOn ==
  ASSUME NEW lay, Kept(lay), NEW p \in Processes, NEW new, Goes(p, new), DOMAIN new \subseteq Fields
  PROVE  /\ Quiet /\ proc' = [proc EXCEPT ![p] = new ++ proc[p]] /\ DOMAIN proc'[p] = Fields
         /\ \A x \in DOMAIN new : proc'[p][x] = new[x]
         /\ Same(p, DOMAIN new)
<1>1. /\ begun \in Nat /\ proc = [q \in Processes |-> proc[q]] /\ DOMAIN proc[p] = Fields
  BY DEF Kept, ImageTyped, Fine, ProcTyped
<1>2. Quiet /\ proc' = [proc EXCEPT ![p] = new ++ proc[p]]
  BY <1>1 DEF Goes, Becomes, Quiet, image
<1>3. proc'[p] = new ++ proc[p]
  BY <1>1, <1>2
<1> QED BY <1>1, <1>2, <1>3, Joined

(* A step to such a place that leaves no file half changed.                *)
LEMMA PlainStep ==
  ASSUME NEW lay, Kept(lay), NEW p \in Processes, NEW new, Goes(p, new),
         DOMAIN new \subseteq Fields,
         ProcTyped(p)', ~proc'[p].claims, Unclaiming(p)', ~Reader(p)', Taking(p)',
         proc'[p].at \notin {"link", "init"}, proc[p].claims => Whole(lay, proc[p].file)
  PROVE  Kept(lay)'
BY GoesOn, PlainFine, QuietStep

(* The fields the type is about are seldom changed.                        *)
LEMMA TypedStill ==
  ASSUME NEW p, ProcTyped(p), DOMAIN proc'[p] = Fields, proc'[p].at # "idle",
         \/ proc'[p].claims = proc[p].claims
         \/ proc'[p].claims = TRUE
         \/ proc'[p].claims = FALSE,
         proc'[p].cmd = proc[p].cmd, proc'[p].chunk \in Nat \ {0}
  PROVE  ProcTyped(p)'
<1>1. proc'[p].claims \in BOOLEAN
  BY Zenon DEF ProcTyped
<1> QED BY <1>1 DEF ProcTyped, At

(* Of a process that runs no command.                                      *)
LEMMA IdleFine ==
  ASSUME NEW lay, NEW p, proc'[p] = IDLE
  PROVE  Fine(lay, p)' /\ ~Waits(p)' /\ ~Reader(p)' /\ ~proc'[p].claims
<1>1. DOMAIN proc'[p] = Fields
  BY DEF Fields, IDLE
<1>2. proc'[p].claims = FALSE /\ proc'[p].at = "idle" /\ proc'[p].chunk = 1
      /\ proc'[p].cmd.offset = 0 /\ proc'[p].cmd.chunks = <<>>
  BY DEF IDLE, NOCMD
<1>3. proc'[p].claims \in BOOLEAN
  <2>1. IDLE.claims = FALSE
    BY DEF IDLE
  <2>2. proc'[p].claims = FALSE
    BY Zenon, <2>1
  <2> QED BY Zenon, <2>2
<1>4. proc'[p].cmd.chunks \in Seq(Seq(STRING)) /\ proc'[p].chunk \in Nat \ {0}
      /\ proc'[p].cmd.offset \in Nat
  <2>1. <<>> \in Seq(Seq(STRING))
    OBVIOUS
  <2> QED BY <1>2, <2>1
<1>5. proc'[p] = IDLE'
  BY DEF IDLE, NOCMD
<1>6. ProcTyped(p)'
  BY <1>1, <1>3, <1>4, <1>5 DEF ProcTyped
<1>7. Unclaiming(p)' /\ ~Reader(p)'
  BY <1>2 DEF Unclaiming, At, Reader
<1>8. Fine(lay, p)' /\ ~Waits(p)'
  BY <1>2, <1>6, <1>7, NotAtTable, PlainFine
<1> QED BY <1>2, <1>7, <1>8

(* A command ends, and leaves its file whole.                              *)
LEMMA ExitKept ==
  ASSUME NEW lay, Kept(lay), NEW p \in Processes, Exit(p),
         proc[p].claims => Whole(lay, proc[p].file)
  PROVE  Kept(lay)'
<1>1. begun \in Nat /\ proc = [q \in Processes |-> proc[q]]
  BY DEF Kept, ImageTyped
<1>2. Quiet /\ proc' = [proc EXCEPT ![p] = IDLE]
  BY <1>1 DEF Exit, Quiet, image
<1>3. proc'[p] = IDLE
  BY <1>1, <1>2
<1>4. Fine(lay, p)' /\ ~Waits(p)' /\ ~Reader(p)' /\ ~proc'[p].claims
  BY <1>3, IdleFine
<1>5. \A q \in Processes \ {p} : Beside(p, q)' /\ Beside(q, p)'
  BY <1>4 DEF Beside, Claims
<1> QED BY <1>2, <1>4, <1>5, QuietStep

(* Of a command at a file that it has not begun to change.                 *)
LEMMA Prepared ==
  ASSUME NEW lay, Kept(lay), NEW p \in Processes, proc[p].claims,
         proc[p].at \in {"read", "get", "listed", "reappend", "append", "change", "truncate"}
  PROVE  Prepares(p) /\ Whole(lay, proc[p].file) /\ proc[p].file \in Heads
BY DEF Kept, Fine, Claiming, Growing, Shrinking, InTable, At

(* A signal ends a command that leaves no file half changed: that breaks   *)
(* nothing.                                                                *)
LEMMA BreaksKept ==
  ASSUME NEW lay, Kept(lay), NEW p \in Processes, Breaks(p), ~broken'
  PROVE  Kept(lay)'
<1>1. Exit(p) /\ ~HalfWay(p)
  BY DEF Breaks
<1>2. proc[p].claims => Whole(lay, proc[p].file)
  BY <1>1, Prepared DEF HalfWay
<1> QED BY <1>1, <1>2, ExitKept

(* printed ends a command, and trace_file_blocks only goes from block to   *)
(* block.                                                                  *)
LEMMA CatKept ==
  ASSUME NEW lay, Kept(lay), NEW p \in Processes, printed(p) \/ trace_file_blocks(p)
  PROVE  Kept(lay)'
<1>1. Fine(lay, p)
  BY DEF Kept
<1>2. ~proc[p].claims /\ ~Is(p, {"init"}) /\ proc[p].made = 0
  BY <1>1 DEF printed, trace_file_blocks, Fine, Claiming, Unclaiming, Prepares, Growing,
     Shrinking, InTable, At
<1>3. CASE Exit(p)
  BY <1>2, <1>3, ExitKept
<1>4. ASSUME NEW new, new = Next1(p) ++ [left |-> proc[p].left - 1], Goes(p, new), At(p, "trace")
      PROVE Kept(lay)'
  <2>1. DOMAIN new = {"block", "ord", "left"}
    BY <1>4 DEF Next1, ++
  <2>2. DOMAIN new \subseteq Fields
    BY <2>1 DEF Fields
  <2>3. Same(p, {"block", "ord", "left"}) /\ DOMAIN proc'[p] = Fields
    BY <1>4, <2>1, <2>2, GoesOn
  <2>4. proc'[p].at = "trace" /\ proc'[p].cmd = proc[p].cmd /\ proc'[p].chunk = proc[p].chunk
        /\ proc'[p].claims = proc[p].claims /\ proc'[p].made = proc[p].made
    BY <1>4, <2>3 DEF Same, At
  <2>5. ProcTyped(p)'
    BY <1>1, <1>2, <2>3, <2>4, TypedStill DEF Fine, ProcTyped
  <2>6. Unclaiming(p)' /\ ~Reader(p)'
    BY <1>2, <2>4 DEF Unclaiming, Reader, At, Is
  <2>7. Taking(p)'
    BY <2>4, NotAtTable
  <2> QED BY <1>2, <1>4, <2>2, <2>4, <2>5, <2>6, <2>7, PlainStep
<1> QED BY <1>3, <1>4 DEF printed, trace_file_blocks, Ends, Dies

(* What a command has is its own: the file it is at stays the same, and    *)
(* the readers of it too.                                                  *)
LEMMA BesideOn ==
  ASSUME NEW p, NEW q, Beside(q, p), proc'[q] = proc[q], shadow' = shadow,
         proc[p].claims, proc'[p].cmd = proc[p].cmd, proc'[p].file = proc[p].file,
         Is(p, {"rm"}) /\ proc[p].at \in {"read", "get", "listed"} =>
             proc'[p].at \in {"read", "get", "listed"}
  PROVE  Beside(q, p)'
BY DEF Beside, Reader, Claims, Is

(* Unless they race, no two commands are at work on one file.              *)
LEMMA NoOther ==
  ASSUME NEW p \in Processes, NEW q \in Processes \ {p}, ~Race, proc[p].claims, proc[q].claims
  PROVE  proc[p].file # proc[q].file
BY DEF Race, Claims

(* A step of a command at a file that changes nothing of the image.        *)
LEMMA ClaimStep ==
  ASSUME NEW lay, Kept(lay), NEW p \in Processes, NEW new, Goes(p, new),
         DOMAIN new \subseteq Fields,
         ~Race', proc[p].claims, proc'[p].claims, proc'[p].cmd = proc[p].cmd,
         proc'[p].chunk = proc[p].chunk,
         proc'[p].file = proc[p].file, proc'[p].at \notin {"idle", "link", "init"},
         Claiming(lay, p)', Taking(p)', Reading(lay, p)',
         proc'[p].offset = proc[p].offset \/ ~Is(p, Makes),
         Is(p, {"rm"}) /\ proc[p].at \in {"read", "get", "listed"} =>
             proc'[p].at \in {"read", "get", "listed"}
  PROVE  Kept(lay)'
<1>1. Fine(lay, p) /\ \A q \in Processes \ {p} : Beside(q, p)
  BY DEF Kept
<1>2. Quiet /\ proc' = [proc EXCEPT ![p] = new ++ proc[p]] /\ DOMAIN proc'[p] = Fields
  BY GoesOn
<1>3. \A q \in Processes \ {p} : proc'[q] = proc[q]
  BY <1>2, OnlyOne DEF Kept, ImageTyped
<1>4. ProcTyped(p)'
  BY <1>1, <1>2, TypedStill DEF Fine, ProcTyped
<1>5. Appends(p)'
  <2>1. Appends(p)
    BY <1>1 DEF Fine
  <2> QED BY <2>1, <1>2 DEF Appends, Quiet, Is
<1>6. Fine(lay, p)' /\ ~Waits(p)'
  BY <1>4, <1>5 DEF Fine, Waits, Taken, Unclaiming
<1>7. ASSUME NEW q \in Processes \ {p} PROVE Beside(p, q)' /\ Beside(q, p)'
  <2>1. Beside(q, p)'
    BY <1>1, <1>2, <1>3, BesideOn DEF Quiet
  <2>2. Beside(p, q)'
    BY DEF Race, Beside, Claims
  <2> QED BY <2>1, <2>2
<1> QED BY <1>2, <1>6, <1>7, QuietStep
-----------------------------------------------------------------------------
(* What a command writes does not depend on where it is.                   *)
LEMMA DataOn ==
  ASSUME NEW p, proc'[p].cmd = proc[p].cmd, proc'[p].chunk = proc[p].chunk,
         proc'[p].made = proc[p].made,
         proc'[p].todo = proc[p].todo, proc'[p].file = proc[p].file, proc'[p].offset = proc[p].offset
  PROVE  /\ Data(p)' = Data(p) /\ EndOf(p)' = EndOf(p)
         /\ inode' = inode /\ Writes(p) => Writes(p)'
<1>1. Data(p)' = Data(p)
  BY DEF Data, Is, Name, Makes, Cell
<1>2. EndOf(p)' = EndOf(p)
  BY <1>1 DEF EndOf
<1>3. inode' = inode /\ Writes(p) => Writes(p)'
  BY DEF Writes, Is, Makes, IsSeq
<1> QED BY <1>1, <1>2, <1>3

(* What no cell of is changed is still held.                               *)
LEMMA HoldsOn ==
  ASSUME NEW lay, NEW h, NEW c, cells' = cells, Holds(lay, h, c)
  PROVE  Holds(lay, h, c)'
BY DEF Holds

(* At the table a command that needs blocks stays as it is otherwise.      *)
LEMMA GrowsOn ==
  ASSUME NEW lay, NEW p, UNCHANGED <<inode, cells, shadow>>, Same(p, {"at", "found", "bits"}),
         Grows(lay, p),
         proc'[p].at # "extend" => proc[p].ord < proc[p].left
  PROVE  Grows(lay, p)'
<1> DEFINE f == proc[p].file
<1>1. /\ proc'[p].cmd = proc[p].cmd /\ proc'[p].chunk = proc[p].chunk
      /\ proc'[p].made = proc[p].made
      /\ proc'[p].todo = proc[p].todo /\ proc'[p].file = f /\ proc'[p].offset = proc[p].offset
      /\ proc'[p].ord = proc[p].ord /\ proc'[p].left = proc[p].left
      /\ proc'[p].block = proc[p].block
  BY DEF Same
<1>2. inode' = inode /\ shadow' = shadow /\ cells' = cells
  OBVIOUS
<1>3. Data(p)' = Data(p) /\ EndOf(p)' = EndOf(p) /\ Writes(p)'
  BY <1>1, <1>2, DataOn DEF Grows
<1>4. PICK c, e : c = shadow[f] /\ e = EndOf(p)
  OBVIOUS
<1>5. Holds(lay, f, c)'
  <2>1. PICK h : h = f
    OBVIOUS
  <2>2. Holds(lay, h, c)
    BY <1>4, <2>1 DEF Grows
  <2>3. Holds(lay, h, c)'
    BY <1>2, <2>2, HoldsOn
  <2> QED BY <1>1, <2>1, <2>3
<1>6. proc'[p].left = get_blocks_required(e)'
  BY <1>1, <1>4 DEF Grows, get_blocks_required
<1> QED BY <1>1, <1>2, <1>3, <1>4, <1>5, <1>6 DEF Grows

(* A command that gives blocks back goes on with another one.              *)
LEMMA ShrinksOn ==
  ASSUME NEW lay, NEW p, UNCHANGED <<inode, cells, shadow>>,
         Same(p, {"at", "found", "bits", "block"}), proc'[p].block \in Block,
         Shrinks(lay, p)
  PROVE  Shrinks(lay, p)'
BY DEF Shrinks, Same, Is, IsSeq

(* A command that is at none of the places of a reader reads nothing.      *)
LEMMA NotReading ==
  ASSUME NEW lay, NEW p, proc'[p].at \notin {"find", "listed", "printed", "cat", "read", "get"}
  PROVE  ~Reader(p)' /\ Reading(lay, p)'
BY DEF Reading, Reader

(* A step at the table.                                                    *)
LEMMA TableStep ==
  ASSUME NEW lay, Kept(lay), NEW p \in Processes, ~Race', NEW new, Goes(p, new),
         DOMAIN new \subseteq {"at", "found", "bits"},
         proc[p].at \in {"extend", "scan", "mark", "purge_blocks"},
         proc'[p].at \in {"scan", "mark", "store"},
         At(p, "extend") => proc'[p].at = "scan" /\ proc[p].ord < proc[p].left,
         At(p, "purge_blocks") => Purging(p)' /\ proc'[p].at # "scan" /\ Is(p, {"rm"}),
         At(p, "scan") => ~Purging(p)' /\ proc'[p].at # "scan",
         At(p, "mark") => proc'[p].found = proc[p].found /\ proc'[p].at # "scan",
         Taking(p)'
  PROVE  Kept(lay)'
<1>1. Fine(lay, p)
  BY DEF Kept
<1>2. DOMAIN new \subseteq Fields
  BY DEF Fields
<1>3. Quiet /\ DOMAIN proc'[p] = Fields /\ Same(p, DOMAIN new)
  BY <1>2, GoesOn
<1>4. Same(p, {"at", "found", "bits"})
  BY <1>3 DEF Same
<1>5. /\ proc'[p].cmd = proc[p].cmd /\ proc'[p].chunk = proc[p].chunk
      /\ proc'[p].made = proc[p].made
      /\ proc'[p].claims = proc[p].claims /\ proc'[p].file = proc[p].file
      /\ proc'[p].offset = proc[p].offset /\ proc'[p].block = proc[p].block
      /\ proc'[p].after = proc[p].after
  BY <1>4 DEF Same
<1>6. ~Reader(p)' /\ Reading(lay, p)'
  BY NotReading
<1>7. CASE proc[p].claims
  <2>1. Claiming(lay, p)
    BY <1>1 DEF Fine
  <2>2. CASE Growing(p) /\ Grows(lay, p)
    <3>1. proc[p].ord < proc[p].left
      BY <2>2 DEF Grows, At
    <3>2. Grows(lay, p)'
      BY <1>3, <1>4, <2>2, <3>1, GrowsOn DEF Quiet
    <3>3. Growing(p)'
      BY <1>5, <2>2 DEF Growing, InTable, Purging, At, Is
    <3>4. Claiming(lay, p)'
      BY <1>3, <1>5, <1>7, <2>1, <3>2, <3>3 DEF Claiming, Quiet, Heads
    <3> QED BY <1>2, <1>5, <1>6, <1>7, <3>4, ClaimStep DEF At
  <2>3. CASE Shrinking(p) /\ Shrinks(lay, p)
    <3>1. Shrinks(lay, p)'
      <4>1. proc[p].block \in Block
        BY <2>3 DEF Shrinks
      <4> QED BY <1>3, <1>4, <1>5, <2>3, <4>1, ShrinksOn DEF Same, Quiet
    <3>2. Shrinking(p)'
      BY <1>5, <2>3 DEF Shrinking, InTable, Purging, At, Is
    <3>3. Claiming(lay, p)'
      BY <1>3, <1>5, <1>7, <2>1, <3>1, <3>2 DEF Claiming, Quiet, Heads
    <3> QED BY <1>2, <1>5, <1>6, <1>7, <3>3, ClaimStep DEF At
  <2> QED BY <1>7, <2>1, <2>2, <2>3 DEF Claiming, Prepares, At
<1>8. CASE ~proc[p].claims
  <2>1. ProcTyped(p)'
    BY <1>1, <1>3, <1>5, TypedStill DEF Fine, ProcTyped
  <2>2. Unclaiming(p)'
    BY <1>1, <1>3, <1>5, <1>8 DEF Fine, Unclaiming, Quiet, At, Is, Purging, InFile, Heads, Makes
  <2> QED BY <1>2, <1>5, <1>6, <1>8, <2>1, <2>2, PlainStep
<1> QED BY <1>7, <1>8

(* extend goes to look for a free block.                                   *)
LEMMA ScanStarts ==
  ASSUME NEW lay, Kept(lay), NEW p \in Processes, ~Race', At(p, "extend"),
         proc[p].ord < proc[p].left,
         Goes(p, [at |-> "scan"])
  PROVE  Kept(lay)'
<1>1. PICK new : new = [at |-> "scan"]
  OBVIOUS
<1>2. DOMAIN new = {"at"} /\ DOMAIN new \subseteq Fields
  BY <1>1 DEF Fields
<1>3. proc'[p].at = "scan"
  BY <1>1, <1>2, GoesOn
<1> QED BY <1>1, <1>2, <1>3, TableStep, NotAtTable DEF At

(* First finds the least number of a set.                                  *)
LEMMA FirstOf ==
  ASSUME NEW T \in SUBSET Nat, T # {}
  PROVE  First(T) \in T /\ \A k \in T : First(T) <= k
BY LeastNumber DEF First

(* get_next_free_block_index finds a block that is not marked, or the      *)
(* command fails before it has changed anything that matters.              *)
LEMMA ScanKept ==
  ASSUME NEW lay, Kept(lay), NEW p \in Processes, ~Race', ~broken', get_next_free_block_index(p)
  PROVE  Kept(lay)'
<1> DEFINE free == (0 .. 8 * ((blocks_count + 7) \div 8) - 1) \ lookup_table
<1>1. At(p, "scan")
      /\ (Breaks(p) \/ (free \cap Block # {} /\ Goes(p, [at |-> "mark", found |-> First(free)])))
  BY DEF get_next_free_block_index
<1>2. CASE Breaks(p)
  BY <1>2, BreaksKept
<1>3. CASE free \cap Block # {} /\ Goes(p, [at |-> "mark", found |-> First(free)])
  <2>1. PICK b : b = First(free)
    OBVIOUS
  <2>2. PICK new : new = [at |-> "mark", found |-> b]
    OBVIOUS
  <2>3. b \in Block \ lookup_table
    <3>1. free \in SUBSET Nat /\ free # {}
      BY <1>3
    <3>2. b \in free /\ \A k \in free : b <= k
      BY <2>1, <3>1, FirstOf
    <3>3. PICK k \in free : k \in Block
      BY <1>3
    <3> HIDE DEF free
    <3>4. b \in Nat /\ b <= k
      BY <3>1, <3>2
    <3>5. b \in Block
      BY <3>3, <3>4, LocalAssumption DEF Block
    <3> QED BY <3>2, <3>5 DEF free
  <2>4. Goes(p, new)
    BY <1>3, <2>1, <2>2
  <2>5. DOMAIN new = {"at", "found"} /\ DOMAIN new \subseteq Fields
    BY <2>2 DEF Fields
  <2>6. Quiet /\ Same(p, DOMAIN new) /\ proc'[p].at = "mark" /\ proc'[p].found = b
    BY <2>2, <2>4, <2>5, GoesOn
  <2>7. lookup_table' = lookup_table /\ proc'[p].block = proc[p].block /\ proc'[p].cmd = proc[p].cmd
    BY <2>5, <2>6 DEF Quiet, Same
  <2>8. ~Purging(p)'
    <3> SUFFICES ASSUME Purging(p)' PROVE FALSE
      OBVIOUS
    <3>1. Is(p, {"rm"}) /\ proc[p].block = b
      BY <2>6, <2>7 DEF Purging, Is
    <3>2. proc[p].claims /\ Grows(lay, p) /\ proc[p].file \in Heads
      BY <1>1, <3>1 DEF Kept, Fine, Claiming, Unclaiming, Prepares, Growing, Shrinking, InTable,
         At, Is, Makes
    <3>3. lay[proc[p].file] \in Seq(lookup_table \ Metadata) /\ Len(lay[proc[p].file]) # 0
      BY <3>2 DEF Kept, Laid
    <3>4. proc[p].block \in lookup_table
      BY <3>2, <3>3 DEF Grows
    <3> QED BY <2>3, <3>1, <3>4
  <2>9. Taking(p)'
    BY <2>3, <2>6, <2>7, <2>8 DEF Taking, InTable, At, Block
  <2> QED BY <1>1, <2>4, <2>5, <2>6, <2>8, <2>9, TableStep DEF At
<1> QED BY <1>1, <1>2, <1>3

(* load_byte: the byte it has loaded is the one in the table.              *)
LEMMA LoadKept ==
  ASSUME NEW lay, Kept(lay), NEW p \in Processes, ~Race', load_byte(p)
  PROVE  Kept(lay)'
<1>1. PICK new : new = [at |-> "store", bits |-> lookup_table \cap Byte(proc[p].found)]
      /\ Goes(p, new) /\ At(p, "mark")
  BY DEF load_byte
<1>2. DOMAIN new = {"at", "bits"} /\ DOMAIN new \subseteq Fields
  BY <1>1 DEF Fields
<1>3. Quiet /\ Same(p, DOMAIN new) /\ proc'[p].at = "store"
      /\ proc'[p].bits = lookup_table \cap Byte(proc[p].found)
  BY <1>1, <1>2, GoesOn
<1>4. /\ lookup_table' = lookup_table /\ proc'[p].found = proc[p].found
      /\ proc'[p].block = proc[p].block
      /\ proc'[p].cmd = proc[p].cmd
  BY <1>2, <1>3 DEF Quiet, Same
<1>5. Taking(p)
  BY DEF Kept, Fine
<1>6. Taking(p)'
  BY <1>1, <1>3, <1>4, <1>5 DEF Taking, InTable, At, Purging, Is, Byte
<1> QED BY <1>1, <1>2, <1>3, <1>4, <1>6, TableStep DEF At
-----------------------------------------------------------------------------
(* The first block of a file, and what is known of all its blocks.         *)
LEMMA HeadIsBlock ==
  ASSUME NEW lay, Kept(lay), NEW h \in Heads
  PROVE  /\ h \in Block \ Metadata /\ h \in lookup_table /\ lay[h][1] = h
         /\ lay[h] \in Seq(Block) /\ Len(lay[h]) \in Nat \ {0}
         /\ \A i \in 1..Len(lay[h]) : lay[h][i] \in lookup_table \ Metadata
         /\ inode[h].size \in Nat /\ cells[h] = [k \in 1..CommonCap |-> cells[h][k]]
<1>1. lay[h] \in Seq(lookup_table \ Metadata) /\ Len(lay[h]) # 0 /\ lay[h][1] = h
      /\ lookup_table \subseteq Block
  BY DEF Kept, Laid, ImageTyped
<1>2. Len(lay[h]) \in Nat \ {0} /\ \A i \in 1..Len(lay[h]) : lay[h][i] \in lookup_table \ Metadata
  BY <1>1
<1>3. lay[h] \in Seq(Block)
  BY <1>1
<1>4. h \in lookup_table \ Metadata /\ h \in Block
  BY <1>1, <1>2
<1> QED BY <1>1, <1>2, <1>3, <1>4 DEF Kept, ImageTyped

(* start: a process that was idle is at no file and not at the table yet.  *)
LEMMA StartKept ==
  ASSUME NEW lay, Kept(lay), NEW p \in Processes, start(p)
  PROVE  Kept(lay)'
<1>1. At(p, "idle") /\ proc[p] = IDLE /\ begun \in Nat /\ proc = [q \in Processes |-> proc[q]]
      /\ DOMAIN proc[p] = Fields /\ ~proc[p].claims
  <2>1. At(p, "idle") /\ proc[p] = IDLE /\ begun \in Nat
        /\ proc = [q \in Processes |-> proc[q]] /\ DOMAIN proc[p] = Fields
    BY DEF start, Kept, ImageTyped, Fine, ProcTyped
  <2>2. ~IDLE.claims
    BY DEF IDLE
  <2> QED BY <2>1, <2>2
<1>2. Quiet
  BY <1>1 DEF start, Quiet, image
<1>3. PICK c \in CommandLine :
        IF c.type # "init" /\ ~ValidPath(c.path) THEN UNCHANGED proc
        ELSE Becomes(p, [at |-> IF c.type = "init" THEN "format" ELSE "locate",
                         cmd |-> IF c.type = "init" THEN c ELSE [c EXCEPT !.path = split_path(c.path)]])
  <2>1. ASSUME begun < Len(Prelude) PROVE Prelude[begun + 1] \in CommandLine
    BY <1>1, <2>1, LocalAssumption
  <2>2. \A c \in IF begun < Len(Prelude) THEN {Prelude[begun + 1]} ELSE Commands : c \in CommandLine
    BY <2>1, LocalAssumption
  <2> QED BY <2>2 DEF start
<1>4. CASE UNCHANGED proc
  <2>1. proc' = [proc EXCEPT ![p] = proc[p]] /\ proc'[p] = proc[p]
    BY <1>1, <1>4
  <2>2. ProcTyped(p)' /\ Unclaiming(p)'
    <3>1. IDLE' = IDLE
      BY DEF IDLE, NOCMD
    <3>2. ProcTyped(p)
      BY DEF Kept, Fine
    <3> QED BY <1>1, <2>1, <3>1, <3>2 DEF ProcTyped, Unclaiming, At
  <2>3. ~proc'[p].claims /\ proc'[p].at = "idle" /\ ~Reader(p)'
    BY <1>1, <2>1 DEF At, Reader
  <2> QED BY <1>1, <1>2, <2>1, <2>2, <2>3, NotAtTable, PlainFine, QuietStep
<1>5. ASSUME NEW new, Becomes(p, new),
             new = [at |-> IF c.type = "init" THEN "format" ELSE "locate",
                    cmd |-> IF c.type = "init" THEN c ELSE [c EXCEPT !.path = split_path(c.path)]]
      PROVE  Kept(lay)'
  <2>1. DOMAIN new = {"at", "cmd"} /\ DOMAIN new \subseteq Fields
    BY <1>5 DEF Fields
  <2>2. proc' = [proc EXCEPT ![p] = new ++ proc[p]] /\ proc'[p] = new ++ proc[p]
    BY <1>1, <1>5 DEF Becomes
  <2>3. DOMAIN proc'[p] = Fields /\ Same(p, DOMAIN new) /\ proc'[p].at = new.at
        /\ proc'[p].cmd = new.cmd
    BY <1>1, <2>1, <2>2, Joined
  <2>4. c.type \in Types /\ c.offset \in Nat /\ c.chunks \in Seq(Seq(STRING))
        /\ DOMAIN c = {"type", "path", "offset", "chunks"}
    BY <1>3 DEF CommandLine
  <2>5. /\ new.cmd.type = c.type /\ new.cmd.offset = c.offset /\ new.cmd.chunks = c.chunks
        /\ new.at = IF c.type = "init" THEN "format" ELSE "locate"
    BY <1>5, <2>4
  <2>6. proc'[p].claims = proc[p].claims /\ proc'[p].chunk = proc[p].chunk
        /\ proc'[p].made = proc[p].made
    BY <2>1, <2>3 DEF Same
  <2>7. proc[p].made = 0 /\ proc[p].chunk = 1
    BY <1>1 DEF IDLE
  <2>8. proc'[p].claims \in BOOLEAN
    BY Zenon, <2>6 DEF Kept, Fine, ProcTyped
  <2>9. ProcTyped(p)'
    BY <2>3, <2>4, <2>5, <2>6, <2>7, <2>8 DEF ProcTyped, At
  <2>10. Unclaiming(p)'
    BY <2>3, <2>5, <2>6, <2>7 DEF Unclaiming, At, Is
  <2>11. ~proc'[p].claims /\ proc'[p].at \in {"format", "locate"} /\ ~Reader(p)'
    BY SMTT(30), <1>1, <2>3, <2>5, <2>6 DEF Reader
  <2> QED BY <1>1, <1>2, <2>2, <2>9, <2>10, <2>11, NotAtTable, PlainFine, QuietStep
<1> QED BY <1>3, <1>4, <1>5

(* find_directory_item relies on nothing that it has read, and changes     *)
(* nothing.                                                                *)
LEMMA FindKept ==
  ASSUME NEW lay, Kept(lay), NEW p \in Processes, find_directory_item(p)
  PROVE  Kept(lay)'
<1>1. Fine(lay, p) /\ At(p, "find")
  BY Zenon DEF find_directory_item, Kept
<1>2. ~proc[p].claims /\ ~Is(p, {"init"}) /\ proc[p].made = 0
  BY <1>1 DEF Fine, Claiming, Unclaiming, Prepares, Growing, Shrinking, InTable, At
<1>3. CASE Exit(p)
  BY <1>2, <1>3, ExitKept
<1>4. ASSUME NEW d, NEW f, NEW new, new = [file |-> f, depth |-> d, at |-> "locate"], Goes(p, new)
      PROVE  Kept(lay)'
  <2>1. DOMAIN new = {"file", "depth", "at"} /\ DOMAIN new \subseteq Fields
    BY <1>4 DEF Fields
  <2>2. DOMAIN proc'[p] = Fields /\ Same(p, DOMAIN new) /\ proc'[p].at = "locate"
    BY <1>4, <2>1, GoesOn
  <2>3. proc'[p].claims = proc[p].claims /\ proc'[p].chunk = proc[p].chunk
        /\ proc'[p].made = proc[p].made
        /\ proc'[p].cmd = proc[p].cmd
    BY <2>1, <2>2 DEF Same
  <2>4. ProcTyped(p)'
    BY <1>1, <2>2, <2>3, TypedStill DEF Fine, ProcTyped
  <2>5. Unclaiming(p)' /\ ~Reader(p)'
    BY <1>2, <2>2, <2>3 DEF Unclaiming, Reader, At, Is
  <2> QED BY <1>2, <1>4, <2>1, <2>2, <2>3, <2>4, <2>5, NotAtTable, PlainStep
<1> QED BY Zenon, <1>3, <1>4 DEF find_directory_item, Dies, Ends

(* purged: the next block to give back is only a number.                   *)
LEMMA PurgedKept ==
  ASSUME NEW lay, Kept(lay), NEW p \in Processes, ~Race', purged(p)
  PROVE  Kept(lay)'
<1>1. Fine(lay, p) /\ At(p, "purged")
  BY DEF purged, Kept
<1>2. proc[p].block \in Block /\ cont[proc[p].block] \in Block
  BY <1>1 DEF Fine, Taking, Kept, ImageTyped
<1>3. PICK b, new : b \in Block /\ new = [at |-> "purge_blocks", block |-> b] /\ Goes(p, new)
  BY <1>2 DEF purged
<1>4. DOMAIN new = {"at", "block"} /\ DOMAIN new \subseteq Fields
  BY <1>3 DEF Fields
<1>5. Quiet /\ DOMAIN proc'[p] = Fields /\ Same(p, DOMAIN new) /\ proc'[p].at = "purge_blocks"
      /\ proc'[p].block = b
  BY <1>3, <1>4, GoesOn
<1>6. proc'[p].claims = proc[p].claims /\ proc'[p].chunk = proc[p].chunk
      /\ proc'[p].file = proc[p].file
      /\ proc'[p].cmd = proc[p].cmd /\ proc'[p].after = proc[p].after
      /\ proc'[p].offset = proc[p].offset
  BY <1>4, <1>5 DEF Same
<1>7. Taking(p)' /\ ~Reader(p)' /\ Reading(lay, p)'
  BY <1>5, NotAtTable, NotReading
<1>8. CASE proc[p].claims
  <2>1. Shrinks(lay, p) /\ proc[p].file \in Heads
    BY <1>1, <1>8 DEF Fine, Claiming, Prepares, Growing, Shrinking, InTable, At
  <2>2. Same(p, {"at", "found", "bits", "block"})
    BY <1>4, <1>5 DEF Same
  <2>3. Shrinks(lay, p)'
    BY <1>3, <1>5, <2>1, <2>2, ShrinksOn DEF Quiet
  <2>4. Claiming(lay, p)'
    BY <1>5, <1>6, <2>1, <2>3 DEF Claiming, Shrinking, Quiet, Heads
  <2> QED BY <1>1, <1>3, <1>4, <1>5, <1>6, <1>7, <1>8, <2>4, ClaimStep DEF At
<1>9. CASE ~proc[p].claims
  <2>1. Is(p, {"rm"}) /\ proc[p].after = "purge"
    BY <1>1, <1>9 DEF Fine, Unclaiming, At
  <2>2. ProcTyped(p)'
    BY <1>1, <1>5, <1>6, TypedStill DEF Fine, ProcTyped
  <2>3. Unclaiming(p)'
    BY <1>5, <1>6, <2>1 DEF Unclaiming, At, Is
  <2> QED BY <1>3, <1>4, <1>5, <1>6, <1>7, <1>9, <2>2, <2>3, PlainStep
<1> QED BY <1>8, <1>9
-----------------------------------------------------------------------------
(* One block of a file that is given back, or of none any more.            *)
LEMMA PurgeKept ==
  ASSUME NEW lay, Kept(lay), NEW p \in Processes, ~Race', purge_blocks(p)
  PROVE  Kept(lay)'
<1>1. Fine(lay, p) /\ At(p, "purge_blocks")
  BY DEF purge_blocks, Kept
<1>2. proc[p].claims => Shrinks(lay, p) /\ proc[p].file \in Heads
  BY <1>1 DEF Fine, Claiming, Prepares, Growing, Shrinking, InTable, At
<1>3. ~proc[p].claims => Is(p, {"rm"}) /\ proc[p].after = "purge"
  BY <1>1 DEF Fine, Unclaiming, At
<1>4. CASE proc[p].block >= blocks_count /\ Dies(p)
  <2>1. ~proc[p].claims
    BY <1>2, <1>4, LocalAssumption DEF Shrinks, Block
  <2> QED BY <1>4, <2>1, ExitKept DEF Dies, Ends
<1>5. CASE proc[p].block \in Block \ {0} /\ Goes(p, [at |-> "mark", found |-> proc[p].block])
  <2>1. PICK new : new = [at |-> "mark", found |-> proc[p].block] /\ Goes(p, new)
    BY <1>5
  <2>2. DOMAIN new = {"at", "found"} /\ DOMAIN new \subseteq Fields
    BY <2>1 DEF Fields
  <2>3. Same(p, DOMAIN new) /\ proc'[p].at = "mark" /\ proc'[p].found = proc[p].block
    BY <2>1, <2>2, GoesOn
  <2>4. proc'[p].block = proc[p].block /\ proc'[p].cmd = proc[p].cmd
    BY <2>2, <2>3 DEF Same
  <2>5. Is(p, {"rm"})
    BY <1>2, <1>3 DEF Shrinks
  <2>6. Purging(p)'
    BY <2>3, <2>4, <2>5 DEF Purging, Is
  <2>7. Taking(p)'
    BY <1>5, <2>3, <2>6 DEF Taking, InTable, At, Block
  <2> QED BY <1>1, <2>1, <2>2, <2>3, <2>5, <2>6, <2>7, TableStep DEF At
<1>6. CASE Goes(p, [at |-> proc[p].after, found |-> 0])
  <2>1. PICK new : new = [at |-> proc[p].after, found |-> 0] /\ Goes(p, new)
    BY <1>6
  <2>2. DOMAIN new = {"at", "found"} /\ DOMAIN new \subseteq Fields
    BY <2>1 DEF Fields
  <2>3. Quiet /\ DOMAIN proc'[p] = Fields /\ Same(p, DOMAIN new) /\ proc'[p].at = proc[p].after
    BY <2>1, <2>2, GoesOn
  <2>4. proc'[p].claims = proc[p].claims /\ proc'[p].chunk = proc[p].chunk
        /\ proc'[p].file = proc[p].file
        /\ proc'[p].cmd = proc[p].cmd /\ proc'[p].after = proc[p].after
        /\ proc'[p].offset = proc[p].offset
        /\ proc'[p].block = proc[p].block
    BY <2>2, <2>3 DEF Same
  <2>5. CASE proc[p].claims
    <3>1. Shrinks(lay, p) /\ proc[p].file \in Heads /\ proc[p].after = "shrunk"
      BY <1>2, <2>5 DEF Shrinks
    <3>2. Same(p, {"at", "found", "bits", "block"})
      BY <2>2, <2>3 DEF Same
    <3>3. Shrinks(lay, p)'
      <4>1. proc'[p].block \in Block
        BY <2>4, <3>1 DEF Shrinks
      <4> QED BY <2>3, <3>1, <3>2, <4>1, ShrinksOn DEF Quiet
    <3>4. Claiming(lay, p)'
      BY <2>3, <2>4, <3>1, <3>3 DEF Claiming, Shrinking, Quiet, Heads
    <3>5. Taking(p)' /\ Reading(lay, p)'
      BY <2>3, <3>1, NotAtTable, NotReading
    <3> QED BY <1>1, <2>1, <2>2, <2>3, <2>4, <2>5, <3>1, <3>4, <3>5, ClaimStep DEF At
  <2>6. CASE ~proc[p].claims
    <3>1. Is(p, {"rm"}) /\ proc[p].after = "purge"
      BY <1>3, <2>6
    <3>2. Taking(p)' /\ ~Reader(p)'
      BY <2>3, <3>1, NotAtTable, NotReading
    <3>3. ProcTyped(p)'
      BY <1>1, <2>3, <2>4, <3>1, TypedStill DEF Fine, ProcTyped
    <3>4. Unclaiming(p)'
      BY <2>3, <2>4, <3>1 DEF Unclaiming, At, Is
    <3> QED BY <2>1, <2>2, <2>3, <2>4, <2>6, <3>1, <3>2, <3>3, <3>4, PlainStep
  <2> QED BY <2>5, <2>6
<1> QED BY <1>4, <1>5, <1>6 DEF purge_blocks

(* A step that changes nothing of the image keeps a file whole.            *)
LEMMA WholeOn ==
  ASSUME NEW lay, NEW h \in Heads, Quiet, Whole(lay, h)
  PROVE  Whole(lay, h)' /\ h \in Heads'
<1>1. Steady(lay, lay, h)
  BY DEF Quiet, Steady, Heads
<1> QED BY <1>1, WholeSteady DEF Steady

(* reappend: the file is whole between two items, and is let go of behind  *)
(* the last.                                                               *)
LEMMA ReappendKept ==
  ASSUME NEW lay, Kept(lay), NEW p \in Processes, ~Race', reappend(p)
  PROVE  Kept(lay)'
<1>1. Fine(lay, p) /\ At(p, "reappend")
  BY DEF reappend, Kept
<1>2. proc[p].claims
  BY <1>1 DEF Fine, Unclaiming, At
<1>3. Prepares(p) /\ Whole(lay, proc[p].file) /\ proc[p].file \in Heads
  BY <1>1, <1>2, Prepared DEF At
<1>4. Is(p, {"rm"}) /\ IsSeq(proc[p].todo)
  BY <1>1, <1>3 DEF Prepares, At
<1>5. CASE proc[p].todo # <<>> /\ Goes(p, [at |-> "append"])
  <2>1. PICK new : new = [at |-> "append"] /\ Goes(p, new)
    BY <1>5
  <2>2. DOMAIN new = {"at"} /\ DOMAIN new \subseteq Fields
    BY <2>1 DEF Fields
  <2>3. Quiet /\ Same(p, DOMAIN new) /\ proc'[p].at = "append"
    BY <2>1, <2>2, GoesOn
  <2>4. proc'[p].claims = proc[p].claims /\ proc'[p].chunk = proc[p].chunk
        /\ proc'[p].file = proc[p].file
        /\ proc'[p].cmd = proc[p].cmd /\ proc'[p].todo = proc[p].todo
        /\ proc'[p].offset = proc[p].offset
    BY <2>2, <2>3 DEF Same
  <2>5. Prepares(p)'
    BY <1>4, <1>5, <2>3, <2>4 DEF Prepares, At, Is, IsSeq
  <2>6. Claiming(lay, p)'
    BY <1>3, <2>3, <2>4, <2>5, WholeOn DEF Claiming
  <2>7. Taking(p)' /\ Reading(lay, p)'
    BY <2>3, NotAtTable, NotReading
  <2> QED BY <1>1, <1>2, <2>1, <2>2, <2>3, <2>4, <2>6, <2>7, ClaimStep DEF At
<1>6. ASSUME NEW s, NEW new, new = [at |-> "purge", claims |-> FALSE, stack |-> s], Goes(p, new)
      PROVE  Kept(lay)'
  <2>1. DOMAIN new = {"at", "claims", "stack"} /\ DOMAIN new \subseteq Fields
    BY <1>6 DEF Fields
  <2>2. DOMAIN proc'[p] = Fields /\ Same(p, DOMAIN new) /\ proc'[p].at = "purge"
        /\ proc'[p].claims = FALSE
    BY <1>6, <2>1, GoesOn
  <2>3. proc'[p].chunk = proc[p].chunk /\ proc'[p].cmd = proc[p].cmd
    BY <2>1, <2>2 DEF Same
  <2>4. ProcTyped(p)'
    BY <1>1, <2>2, <2>3, TypedStill DEF Fine, ProcTyped
  <2>5. Unclaiming(p)'
    BY <1>4, <2>2, <2>3 DEF Unclaiming, At, Is
  <2>6. Taking(p)' /\ ~Reader(p)'
    BY <2>2, NotAtTable, NotReading
  <2> QED BY <1>3, <1>6, <2>1, <2>2, <2>4, <2>5, <2>6, PlainStep
<1> QED BY <1>5, <1>6 DEF reappend

(* The index of the item taken for an inode: nothing of it is relied on.   *)
LEMMA RemovedKept ==
  ASSUME NEW lay, Kept(lay), NEW p \in Processes, ~Race', purge_file(p) \/ purge_items(p)
  PROVE  Kept(lay)'
<1>1. Fine(lay, p) /\ proc[p].at \in {"purge", "items"}
  BY DEF purge_file, purge_items, Kept, At
<1>2. ~proc[p].claims /\ Is(p, {"rm"})
  BY <1>1 DEF Fine, Claiming, Unclaiming, Prepares, Growing, Shrinking, InTable, At, Is, Makes
<1>3. CASE Exit(p)
  BY <1>2, <1>3, ExitKept
<1>4. ASSUME NEW new, Goes(p, new), DOMAIN new \subseteq Fields \ {"cmd", "chunk"},
             \/ proc'[p].claims = proc[p].claims
             \/ proc'[p].claims = FALSE,
             \/ proc'[p].at = "purge"
             \/ proc'[p].at = "purge_blocks" /\ proc'[p].after = "purge"
             \/ proc'[p].at = "read" /\ proc'[p].after = "items"
      PROVE  Kept(lay)'
  <2>1. DOMAIN new \subseteq Fields
    BY <1>4
  <2>2. DOMAIN proc'[p] = Fields /\ Same(p, DOMAIN new)
    BY <1>4, <2>1, GoesOn
  <2>3. proc'[p].chunk = proc[p].chunk /\ proc'[p].cmd = proc[p].cmd
    BY <1>4, <2>2 DEF Same
  <2>4. ProcTyped(p)'
    BY <1>1, <1>4, <2>2, <2>3, TypedStill DEF Fine, ProcTyped
  <2>5. Unclaiming(p)'
    BY <1>2, <1>4, <2>2, <2>3 DEF Unclaiming, At, Is
  <2>6. Taking(p)' /\ ~Reader(p)' /\ ~proc'[p].claims
    BY <1>2, <1>4, NotAtTable DEF Reader
  <2> QED BY <1>2, <1>4, <2>1, <2>4, <2>5, <2>6, PlainStep
<1>5. ASSUME NEW b, read_directory(p, b, "items") PROVE Kept(lay)'
  <2>1. CASE Dies(p)
    BY <1>3, <2>1 DEF Dies, Ends
  <2>2. ASSUME NEW n, NEW c, NEW d, NEW x, NEW new, Goes(p, new), x = FALSE,
               new = [at |-> "read", file |-> b, count |-> n, offset |-> 0, want |-> n, buf |-> <<>>,
                      after |-> "items", claims |-> x, base |-> c, disturbed |-> d]
        PROVE  Kept(lay)'
    <3>1. DOMAIN new = {"at", "file", "count", "offset", "want", "buf", "after", "claims", "base", "disturbed"}
      BY <2>2
    <3>2. DOMAIN new \subseteq Fields \ {"cmd", "chunk"}
      BY <3>1 DEF Fields
    <3>3. proc'[p].at = "read" /\ proc'[p].after = "items" /\ proc'[p].claims = FALSE
      BY <2>2, <3>1, <3>2, GoesOn
    <3> QED BY <1>4, <2>2, <3>2, <3>3
  <2>3. ("items" = "listed") = FALSE
    OBVIOUS
  <2> QED BY <1>5, <2>1, <2>2, <2>3 DEF read_directory
<1>6. ASSUME NEW b, NEW s, NEW new, Goes(p, new),
             new = [at |-> "purge_blocks", block |-> b, stack |-> s, after |-> "purge"]
      PROVE  Kept(lay)'
  <2>1. DOMAIN new = {"at", "block", "stack", "after"}
    BY <1>6
  <2>2. DOMAIN new \subseteq Fields \ {"cmd", "chunk"} /\ DOMAIN new \subseteq Fields
    BY <2>1 DEF Fields
  <2>3. proc'[p].at = "purge_blocks" /\ proc'[p].after = "purge" /\ proc'[p].claims = proc[p].claims
    BY <1>6, <2>1, <2>2, GoesOn DEF Same
  <2> QED BY <1>4, <1>6, <2>2, <2>3
<1>7. ASSUME NEW s, NEW new, Goes(p, new), new = [at |-> "purge", stack |-> s] PROVE Kept(lay)'
  <2>1. DOMAIN new = {"at", "stack"}
    BY <1>7
  <2>2. DOMAIN new \subseteq Fields \ {"cmd", "chunk"} /\ DOMAIN new \subseteq Fields
    BY <2>1 DEF Fields
  <2>3. proc'[p].at = "purge" /\ proc'[p].claims = proc[p].claims
    BY <1>7, <2>1, <2>2, GoesOn DEF Same
  <2> QED BY <1>4, <1>7, <2>2, <2>3
<1>8. CASE purge_file(p)
  BY <1>3, <1>5, <1>6, <1>8 DEF purge_file, Dies, Ends
<1>9. CASE purge_items(p)
  BY <1>7, <1>9 DEF purge_items
<1> QED BY <1>8, <1>9
-----------------------------------------------------------------------------
(* A function of 1..n is a sequence of length n.                           *)
LEMMA FunIsSeq ==
  ASSUME NEW n \in Nat, NEW c, c = [i \in 1..n |-> c[i]]
  PROVE  Len(c) = n /\ IsSeq(c) /\ c \in Seq({c[i] : i \in 1..n})
<1>1. c \in [1..n -> {c[i] : i \in 1..n}]
  OBVIOUS
<1>2. c \in Seq({c[i] : i \in 1..n})
  BY <1>1
<1>3. Len(c) = n
  BY <1>1, <1>2
<1> QED BY <1>2, <1>3 DEF IsSeq

(* Every member of Seq(S) is one.                                          *)
LEMMA SeqIsSeq ==
  ASSUME NEW S, NEW c \in Seq(S)
  PROVE  IsSeq(c)
BY DEF IsSeq

(* And is a member of Seq of its own elements.                             *)
LEMMA IsSeqIn ==
  ASSUME NEW c, IsSeq(c)
  PROVE  c \in Seq({c[i] : i \in 1..Len(c)}) /\ Len(c) \in Nat
BY FunIsSeq DEF IsSeq

(* The first n elements of a sequence.                                     *)
LEMMA StartOf ==
  ASSUME NEW c, IsSeq(c), NEW n \in 0..Len(c)
  PROVE  LET s == SubSeq(c, 1, n) IN IsSeq(s) /\ Len(s) = n /\ \A i \in 1..n : s[i] = c[i]
<1>1. PICK S : c \in Seq(S) /\ Len(c) \in Nat
  BY IsSeqIn
<1>2. SubSeq(c, 1, n) \in Seq(S) /\ Len(SubSeq(c, 1, n)) = n
  BY <1>1
<1>3. \A i \in 1..n : SubSeq(c, 1, n)[i] = c[i]
  BY <1>1
<1> QED BY <1>2, <1>3, SeqIsSeq

(* What a command is about to write is a sequence, put at an offset that   *)
(* is a number.                                                            *)
LEMMA DataSeq ==
  ASSUME NEW p, ProcTyped(p), Writes(p)
  PROVE  IsSeq(Data(p)) /\ Len(Data(p)) \in Nat /\ proc[p].offset \in Nat /\ EndOf(p) \in Nat
<1>1. ASSUME Is(p, {"write"}) PROVE IsSeq(Data(p)) /\ Len(Data(p)) \in Nat
  <2>1. PICK d : d = proc[p].cmd.chunks[proc[p].chunk]
    OBVIOUS
  <2>2. proc[p].chunk \in 1..Len(proc[p].cmd.chunks)
    BY <1>1 DEF ProcTyped, Writes, Is, Makes
  <2>3. d \in Seq(STRING)
    BY <2>1, <2>2 DEF ProcTyped
  <2>7. Data(p) = [i \in DOMAIN proc[p].cmd.chunks[proc[p].chunk] |-> Cell(proc[p].cmd.chunks[proc[p].chunk][i])]
    <3> DEFINE w == [i \in DOMAIN proc[p].cmd.chunks[proc[p].chunk] |-> Cell(proc[p].cmd.chunks[proc[p].chunk][i])]
               x == <<[name |-> Name(p), inode |-> proc[p].made]>>
               y == <<Head(proc[p].todo)>>
    <3>1. Data(p) = CASE Is(p, {"write"}) -> w [] Is(p, Makes) -> x [] OTHER -> y
      BY DEF Data
    <3>2. ~Is(p, Makes)
      BY <1>1 DEF Is, Makes
    <3> HIDE DEF w, x, y
    <3>3. Data(p) = w
      BY <1>1, <3>1, <3>2
    <3> QED BY <3>3 DEF w
  <2>4. Data(p) = [i \in DOMAIN d |-> Cell(d[i])]
    BY Zenon, <2>1, <2>7
  <2>5. Len(d) \in Nat /\ DOMAIN d = 1..Len(d)
    BY <2>3
  <2>6. Data(p) = [i \in 1..Len(d) |-> Data(p)[i]]
    BY <2>4, <2>5
  <2> QED BY <2>5, <2>6, FunIsSeq
<1>2. ASSUME ~Is(p, {"write"}) PROVE IsSeq(Data(p)) /\ Len(Data(p)) \in Nat
  <2>1. PICK x : Data(p) = <<x>>
    BY <1>2 DEF Data
  <2>2. <<x>> \in Seq({x}) /\ Len(<<x>>) = 1
    OBVIOUS
  <2>3. IsSeq(<<x>>) /\ Len(<<x>>) \in Nat
    BY <2>2, SeqIsSeq
  <2> QED BY <2>1, <2>3
<1>3. IsSeq(Data(p)) /\ Len(Data(p)) \in Nat
  BY <1>1, <1>2
<1>4. proc[p].offset \in Nat
  BY DEF Writes
<1> QED BY <1>3, <1>4 DEF EndOf

(* What Overlaid makes of an old sequence.                                 *)
LEMMA OverlaidIs ==
  ASSUME NEW old, IsSeq(old), NEW off \in Nat, NEW new, IsSeq(new)
  PROVE  LET c == Overlaid(old, off, new) IN
         /\ IsSeq(c) /\ Len(c) = Larger(off + Len(new), Len(old)) /\ Len(c) \in Nat
         /\ \A i \in 1..Len(c) : c[i] = IF i > off /\ i <= off + Len(new) THEN new[i - off]
                                        ELSE IF i \in 1..Len(old) THEN old[i] ELSE BLANK
<1>1. PICK c : c = Overlaid(old, off, new)
  OBVIOUS
<1>2. PICK n : n = Larger(off + Len(new), Len(old))
  OBVIOUS
<1>3. n \in Nat /\ Len(new) \in Nat /\ Len(old) \in Nat
  BY <1>2 DEF Larger, IsSeq
<1>4. DOMAIN old = 1..Len(old)
  BY DEF IsSeq
<1>5. c = [i \in 1..n |-> IF i > off /\ i <= off + Len(new) THEN new[i - off]
                          ELSE IF i \in 1..Len(old) THEN old[i] ELSE BLANK]
  BY Zenon, <1>1, <1>2, <1>3, <1>4 DEF Overlaid, Larger
<1>6. Len(c) = n /\ IsSeq(c)
  <2>1. c = [i \in 1..n |-> c[i]]
    BY <1>5
  <2> QED BY <1>3, <2>1, FunIsSeq
<1> QED BY <1>1, <1>2, <1>3, <1>5, <1>6

(* Two sequences with the same elements are the same.                      *)
LEMMA SameSeq ==
  ASSUME NEW a, NEW b, IsSeq(a), IsSeq(b), Len(a) = Len(b), \A i \in 1..Len(a) : a[i] = b[i]
  PROVE  a = b
BY DEF IsSeq

(* No new cells change nothing.                                            *)
LEMMA NothingOverlaid ==
  ASSUME NEW old, IsSeq(old), NEW off \in Nat, off <= Len(old), NEW new, IsSeq(new), Len(new) = 0
  PROVE  Overlaid(old, off, new) = old
<1>1. PICK c : c = Overlaid(old, off, new)
  OBVIOUS
<1>2. Len(old) \in Nat
  BY DEF IsSeq
<1>3. IsSeq(c) /\ Len(c) = Len(old)
  BY <1>1, <1>2, OverlaidIs DEF Larger
<1>4. \A i \in 1..Len(c) : c[i] = old[i]
  <2> SUFFICES ASSUME NEW i \in 1..Len(c) PROVE c[i] = old[i]
    OBVIOUS
  <2>1. c[i] = IF i > off /\ i <= off + Len(new) THEN new[i - off]
               ELSE IF i \in 1..Len(old) THEN old[i] ELSE BLANK
    BY <1>1, OverlaidIs
  <2> QED BY <1>2, <1>3, <2>1
<1> QED BY <1>1, <1>3, <1>4, SameSeq

(* Nothing is put yet.                                                     *)
LEMMA PutStarts ==
  ASSUME NEW lay, NEW p, NEW f, Writes(p)', NEW d, IsSeq(d), d = Data(p)', d # <<>>,
         proc'[p].file = f, proc'[p].block = f, proc'[p].ord = 0,
         proc'[p].inner = proc'[p].offset, proc'[p].left = Len(d),
         inode'[f].size = Larger(proc'[p].offset + Len(d), Len(shadow'[f])),
         proc'[p].offset <= Len(shadow'[f]),
         Full(lay, f)', NEW c, c = shadow'[f], IsSeq(c), Holds(lay, f, c)', lay[f][1] = f, Len(lay[f]) \in Nat \ {0}
  PROVE  Puts(lay, p)'
<1>1. Len(d) \in Nat /\ Len(c) \in Nat /\ proc'[p].offset \in Nat
  BY DEF IsSeq, Writes
<1>2. Len(d) # 0
  <2>1. d \in Seq({d[i] : i \in 1..Len(d)})
    BY IsSeqIn
  <2> QED BY <2>1
<1>3. EndOf(p)' = proc'[p].offset + Len(d) /\ Done(p)' = 0
  BY <1>1 DEF EndOf, Done
<1>4. PICK e : e = SubSeq(d, 1, 0)
  OBVIOUS
<1>5. IsSeq(e) /\ Len(e) = 0
  BY <1>1, <1>4, StartOf
<1>6. Overlaid(c, proc'[p].offset, e) = c
  BY <1>1, <1>5, NothingOverlaid
<1>7. (Overlaid(shadow[f], proc[p].offset, SubSeq(Data(p), 1, Done(p))))' = Overlaid(c, proc'[p].offset, e)
  BY <1>3, <1>4 DEF Overlaid
<1>8. PICK z : z = Overlaid(shadow[f], proc[p].offset, SubSeq(Data(p), 1, Done(p)))'
  OBVIOUS
<1>9. Holds(lay, f, Overlaid(shadow[f], proc[p].offset, SubSeq(Data(p), 1, Done(p))))'
  <2>1. z = c
    BY <1>6, <1>7, <1>8
  <2> QED BY <1>8, <2>1
<1>10. inode'[f].size = (Larger(EndOf(p), Len(shadow[f])))'
  BY <1>3 DEF Larger
<1>11. (Before(proc[p].ord) + proc[p].inner = proc[p].offset + Done(p))'
  BY <1>1, <1>3 DEF Before
<1>12. (proc[p].left \in 1..Len(Data(p)))' /\ proc'[p].ord \in Nat /\ proc'[p].inner \in Nat
       /\ proc'[p].ord < Len(lay[f]) /\ proc'[p].block = lay[f][proc'[p].ord + 1]
  BY <1>1, <1>2
<1> QED BY <1>9, <1>10, <1>11, <1>12 DEF Puts
-----------------------------------------------------------------------------
(* A command that takes a file to change it finds it whole.                *)
LEMMA NobodysIsWhole ==
  ASSUME NEW lay, Kept(lay), NEW h \in Heads, \A q \in Processes : ~Claims(q, h)
  PROVE  Whole(lay, h) /\ IsSeq(shadow[h])
BY DEF Kept, FilesWhole, Unclaimed, Heads

(* A command takes a file: it is whole, and so nobody else is at work on   *)
(* it.                                                                     *)
LEMMA ClaimStarts ==
  ASSUME NEW lay, Kept(lay), NEW p \in Processes, NEW new, Goes(p, new),
         DOMAIN new \subseteq Fields, ~Race',
         ~proc[p].claims, proc'[p].claims = TRUE, proc'[p].cmd = proc[p].cmd,
         proc'[p].chunk = proc[p].chunk,
         proc'[p].file \in Heads, proc'[p].at \in {"change", "read"}, Prepares(p)',
         Reading(lay, p)',
         Is(p, Makes) => proc'[p].offset = Len(shadow[proc'[p].file]),
         Is(p, {"rm"}) => proc'[p].at = "read"
  PROVE  Kept(lay)'
<1>1. Fine(lay, p) /\ \A q \in Processes \ {p} : Fine(lay, q)
  BY DEF Kept
<1>2. Quiet /\ proc' = [proc EXCEPT ![p] = new ++ proc[p]] /\ DOMAIN proc'[p] = Fields
  BY GoesOn
<1>3. \A q \in Processes \ {p} : proc'[q] = proc[q]
  BY <1>2, OnlyOne DEF Kept, ImageTyped
<1>4. PICK f \in Heads : f = proc'[p].file
  OBVIOUS
<1>5. Whole(lay, f)
  <2>1. ASSUME NEW q \in Processes \ {p} PROVE ~Claims(q, f)
    BY <1>3, <1>4 DEF Race, Claims
  <2>2. ~Claims(p, f)
    BY DEF Claims
  <2> QED BY <2>1, <2>2, NobodysIsWhole
<1>6. ProcTyped(p)'
  BY <1>1, <1>2, TypedStill DEF Fine, ProcTyped
<1>7. Claiming(lay, p)'
  <2>1. Whole(lay, f)' /\ f \in Heads'
    BY <1>2, <1>5, WholeOn
  <2> QED BY <1>4, <2>1 DEF Claiming
<1>8. Appends(p)' /\ Unclaiming(p)' /\ Taking(p)' /\ Taken(lay, p)' /\ ~Waits(p)'
  <2>1. Appends(p)'
    BY <1>2, <1>4 DEF Appends, Quiet, Is
  <2>2. Taking(p)' /\ Taken(lay, p)' /\ ~Waits(p)'
    BY NotAtTable DEF Taken, Waits
  <2>3. Unclaiming(p)'
    BY DEF Unclaiming
  <2> QED BY <2>1, <2>2, <2>3
<1>9. Fine(lay, p)'
  BY <1>6, <1>7, <1>8 DEF Fine
<1>10. ASSUME NEW q \in Processes \ {p} PROVE Beside(p, q)' /\ Beside(q, p)'
  <2>1. Beside(p, q)'
    BY DEF Race, Beside, Claims
  <2>2. Beside(q, p)'
    <3> SUFFICES ASSUME Reader(q), proc[q].disturbed # "changed", proc[q].file = f
                 PROVE  /\ Is(p, {"rm"})' => proc'[p].at \in {"read", "get", "listed"}
                        /\ Is(p, Makes)' => Len(proc[q].base) <= Len(shadow[f])
      BY <1>2, <1>3, <1>4 DEF Beside, Claims, Reader, Quiet
    <3>1. Len(proc[q].base) <= inode[f].size
      BY <1>1 DEF Fine, Reading, Sees, SeesFile
    <3> QED BY <1>5, <3>1 DEF Whole, Is
  <2> QED BY <2>1, <2>2
<1> QED BY <1>2, <1>8, <1>9, <1>10, QuietStep

(* perform_write takes its file for each chunk, if it is a file, or ends.  *)
LEMMA WriteBegins ==
  ASSUME NEW lay, Kept(lay), NEW p \in Processes, ~Race', perform_write(p)
  PROVE  Kept(lay)'
<1>1. Fine(lay, p) /\ At(p, "write")
  BY DEF perform_write, Kept
<1>2. ~proc[p].claims /\ Is(p, {"write"}) /\ InFile(p) /\ proc[p].offset \in Nat
  BY <1>1 DEF Fine, Claiming, Unclaiming, Prepares, Growing, Shrinking, InTable, At
<1>3. CASE Exit(p)
  BY <1>2, <1>3, ExitKept
<1>4. ASSUME NEW new, new = [at |-> "change", claims |-> TRUE], Goes(p, new),
             ~(proc[p].chunk > Len(proc[p].cmd.chunks)), inode[proc[p].file].flags = FILE
      PROVE  Kept(lay)'
  <2>1. DOMAIN new = {"at", "claims"} /\ DOMAIN new \subseteq Fields
    BY <1>4 DEF Fields
  <2>2. Quiet /\ Same(p, DOMAIN new) /\ proc'[p].at = "change" /\ proc'[p].claims = TRUE
    BY <1>4, <2>1, GoesOn
  <2>3. proc'[p].chunk = proc[p].chunk /\ proc'[p].cmd = proc[p].cmd /\ proc'[p].file = proc[p].file
        /\ proc'[p].offset = proc[p].offset
    BY <2>1, <2>2 DEF Same
  <2>4. Reading(lay, p)'
    BY <2>2, NotReading
  <2>5. proc[p].chunk <= Len(proc[p].cmd.chunks)
    <3>1. Len(proc[p].cmd.chunks) \in Nat /\ proc[p].chunk \in Nat
      BY <1>1 DEF Fine, ProcTyped
    <3> QED BY <1>4, <3>1
  <2>6. Prepares(p)'
    BY <1>2, <1>4, <2>2, <2>3, <2>5 DEF Prepares, Writes, At, Is, Quiet
  <2>7. ~Is(p, Makes) /\ ~Is(p, {"rm"})
    BY <1>2 DEF Is, Makes
  <2> QED BY <1>2, <1>4, <2>1, <2>2, <2>3, <2>4, <2>6, <2>7, ClaimStarts DEF InFile
<1> QED BY <1>3, <1>4 DEF perform_write, Dies, Ends

(* append_directory takes a directory, to write behind its end.            *)
LEMMA AppendKept ==
  ASSUME NEW lay, Kept(lay), NEW p \in Processes, ~Race', append_directory(p)
  PROVE  Kept(lay)'
<1>1. Fine(lay, p) /\ At(p, "append")
  BY DEF append_directory, Kept
<1>2. CASE Exit(p)
  BY <1>1, <1>2, ExitKept, Prepared DEF At
<1>3. ASSUME NEW n, NEW new, new = [at |-> "change", claims |-> TRUE, offset |-> n], Goes(p, new),
             n = inode[proc[p].file].size
      PROVE  Kept(lay)'
  <2>1. DOMAIN new = {"at", "claims", "offset"} /\ DOMAIN new \subseteq Fields
    BY <1>3 DEF Fields
  <2>2. Quiet /\ Same(p, DOMAIN new) /\ proc'[p].at = "change" /\ proc'[p].claims = TRUE
        /\ proc'[p].offset = n
    BY <1>3, <2>1, GoesOn
  <2>3. proc'[p].chunk = proc[p].chunk /\ proc'[p].cmd = proc[p].cmd /\ proc'[p].file = proc[p].file
        /\ proc'[p].made = proc[p].made /\ proc'[p].todo = proc[p].todo
    BY <2>1, <2>2 DEF Same
  <2>4. Reading(lay, p)' /\ Taking(p)'
    BY <2>2, NotReading, NotAtTable
  <2>5. CASE proc[p].claims
    <3>1. Prepares(p) /\ Whole(lay, proc[p].file) /\ proc[p].file \in Heads
      BY <1>1, <2>5, Prepared DEF At
    <3>2. Is(p, {"rm"}) /\ IsSeq(proc[p].todo) /\ proc[p].todo # <<>> /\ n \in Nat
      BY <1>1, <1>3, <3>1, HeadIsBlock DEF Prepares, At
    <3>3. Prepares(p)'
      BY <2>2, <2>3, <3>2 DEF Prepares, Writes, At, Is, IsSeq
    <3>4. Claiming(lay, p)'
      BY <2>2, <2>3, <3>1, <3>3, WholeOn DEF Claiming
    <3>5. ~Is(p, Makes)
      BY <3>2 DEF Is, Makes
    <3> QED BY <1>1, <1>3, <2>1, <2>2, <2>3, <2>4, <2>5, <3>4, <3>5, ClaimStep DEF At
  <2>6. CASE ~proc[p].claims
    <3>1. Is(p, Makes) /\ proc[p].made # 0 /\ proc[p].file \in Heads
      BY <1>1, <2>6 DEF Fine, Unclaiming, At, InFile
    <3>2. n \in Nat
      BY <1>3, <3>1, HeadIsBlock
    <3>3. Prepares(p)'
      BY <2>2, <2>3, <3>1, <3>2 DEF Prepares, Writes, At, Is, Makes
    <3>4. ~Is(p, {"rm"})
      BY <3>1 DEF Is, Makes
    <3>5. n = Len(shadow[proc[p].file])
      <4>1. \A q \in Processes : ~Claims(q, proc[p].file)
        <5>1. \A q \in Processes \ {p} : proc'[q] = proc[q]
          <6>1. proc' = [proc EXCEPT ![p] = new ++ proc[p]]
            BY <1>3, <2>1, GoesOn
          <6> QED BY <6>1, OnlyOne DEF Kept, ImageTyped
        <5>2. ASSUME NEW q \in Processes \ {p} PROVE ~Claims(q, proc[p].file)
          BY <2>2, <2>3, <5>1 DEF Race, Claims
        <5> QED BY <2>6, <5>2 DEF Claims
      <4> QED BY <1>3, <3>1, <4>1, NobodysIsWhole DEF Whole
    <3> QED BY <1>3, <2>1, <2>2, <2>3, <2>4, <2>6, <3>1, <3>3, <3>4, <3>5, ClaimStarts
  <2> QED BY <2>5, <2>6
<1> QED BY <1>2, <1>3 DEF append_directory, Dies, Ends
-----------------------------------------------------------------------------
(* A step that changes one file only, by the one who has claimed it.       *)
LEMMA FileStep ==
  ASSUME NEW lay, NEW lay2, Kept(lay), NEW p \in Processes, NEW f, proc[p].claims,
         proc[p].file = f, ~Race,
         lookup_table' = lookup_table, superblock' = "whole", Heads' = Heads, ImageTyped',
         Laid(lay2)',
         \A h \in Heads \ {f} : Steady(lay, lay2, h),
         \A q \in Processes \ {p} : SameBut(q),
         IsSeq(shadow[f])',
         \/ proc'[p].claims /\ proc'[p].file = f
         \/ Whole(lay2, f)',
         \A q \in Processes \ {p} : Waits(q) => \A i \in 1..Len(lay2[f]) : lay2[f][i] # proc[q].found,
         ~Waits(p)', Fine(lay2, p)',
         \A q \in Processes \ {p} :
           Reader(q) /\ proc[q].file = f /\ proc'[q].disturbed # "changed" => Reading(lay2, q)',
         \A q \in Processes \ {p} : Beside(p, q)' /\ Beside(q, p)'
  PROVE  Kept(lay2)'
<1>1. \A q \in Processes : Fine(lay, q)
  BY DEF Kept
<1>2. ASSUME NEW h \in Heads'
      PROVE  \/ h \in Heads /\ Steady(lay, lay2, h) /\ ~Claims(p, h)
             \/ IsSeq(shadow[h])' /\ (Claims(p, h)' \/ Whole(lay2, h)')
  <2>1. CASE h = f
    BY <2>1 DEF Claims
  <2>2. CASE h # f
    BY <2>2 DEF Claims
  <2> QED BY <2>1, <2>2
<1>3. ASSUME NEW q \in Processes \ {p}
      PROVE  /\ Taking(q)' /\ Taken(lay2, q)'
             /\ proc[q].claims => Steady(lay, lay2, proc[q].file)
             /\ Reader(q) /\ proc'[q].disturbed # "changed" =>
                  Steady(lay, lay2, proc[q].file) \/ Reading(lay2, q)'
  <2>1. Fine(lay, q) /\ SameBut(q)
    BY <1>1
  <2>2. Taking(q)'
    BY <2>1, TakingSame DEF Fine
  <2>3. Taken(lay2, q)'
    <3> SUFFICES ASSUME Waits(q)' PROVE Taken(lay2, q)'
      BY DEF Taken
    <3>1. Waits(q) /\ proc'[q].found = proc[q].found
      BY <2>1 DEF Waits, SameBut
    <3>2. ASSUME NEW s \in Processes \ {q}, Waits(s)' PROVE proc'[s].found # proc'[q].found
      <4>1. s # p /\ SameBut(s)
        BY <3>2
      <4>2. Waits(s) /\ proc'[s].found = proc[s].found
        BY <3>2, <4>1 DEF SameBut, Waits
      <4> QED BY <2>1, <3>1, <4>2 DEF Fine, Taken
    <3>3. ASSUME NEW h \in Heads, NEW i \in 1..Len(lay2[h]) PROVE lay2[h][i] # proc[q].found
      <4>1. CASE h = f
        BY <3>1, <3>3, <4>1
      <4>2. CASE h # f
        BY <2>1, <3>1, <3>3, <4>2 DEF Fine, Taken, Steady
      <4> QED BY <4>1, <4>2
    <3>4. proc[q].found \in lookup_table \ Metadata
      BY <2>1, <3>1 DEF Fine, Taken
    <3> QED BY <3>1, <3>2, <3>3, <3>4 DEF Taken
  <2>4. proc[q].claims => Steady(lay, lay2, proc[q].file)
    <3> SUFFICES ASSUME proc[q].claims PROVE Steady(lay, lay2, proc[q].file)
      OBVIOUS
    <3>1. proc[q].file # f
      BY NoOther
    <3>2. proc[q].file \in Heads
      BY <2>1 DEF Fine, Claiming
    <3> QED BY <3>1, <3>2
  <2>5. Reader(q) /\ proc'[q].disturbed # "changed" =>
            Steady(lay, lay2, proc[q].file) \/ Reading(lay2, q)'
    <3> SUFFICES ASSUME Reader(q), proc'[q].disturbed # "changed", proc[q].file # f
                 PROVE  Steady(lay, lay2, proc[q].file)
      OBVIOUS
    <3>1. proc[q].disturbed # "changed"
      BY <2>1 DEF SameBut
    <3>2. proc[q].file \in Heads
      BY <2>1, <3>1 DEF Fine, Reading, Sees, SeesFile
    <3> QED BY <3>2
  <2> QED BY <2>2, <2>3, <2>4, <2>5
<1> QED BY <1>2, <1>3, KeptStep

(* What Disturbs does to the others: a reader of the file of p knows.      *)
LEMMA DisturbsOthers ==
  ASSUME NEW p \in Processes, NEW new, NEW how \in {"grown", "changed"}, Disturbs(p, new, how),
         ~Race, proc[p].claims,
         \A q \in Processes : At(q, "idle") => proc[q] = IDLE, \A q \in Processes : DOMAIN proc[q] = Fields
  PROVE  /\ proc'[p] = new ++ proc[p] /\ proc' = [q \in Processes |-> proc'[q]]
         /\ \A q \in Processes \ {p} : SameBut(q)
         /\ \A q \in Processes \ {p} : Reader(q) /\ proc[q].file = proc[p].file => proc'[q].disturbed \in {how, "changed"}
<1>1. /\ proc' = [q \in Processes |-> proc'[q]] /\ proc'[p] = new ++ proc[p]
  BY DEF Disturbs
<1>2. ASSUME NEW q \in Processes \ {p}
      PROVE  /\ SameBut(q)
             /\ Reader(q) /\ proc[q].file = proc[p].file => proc'[q].disturbed \in {how, "changed"}
  <2>1. proc'[q] = IF proc[q].file = proc[p].file /\ ~At(q, "idle") /\ proc[q].disturbed # "changed"
                   THEN [proc[q] EXCEPT !.disturbed = how] ELSE proc[q]
    BY DEF Disturbs
  <2>2. CASE proc[q].file = proc[p].file /\ ~At(q, "idle") /\ proc[q].disturbed # "changed"
    <3>1. proc'[q] = [proc[q] EXCEPT !.disturbed = how]
      BY <2>1, <2>2
    <3>2. ~proc[q].claims
      BY <2>2, NoOther
    <3>3. DOMAIN proc'[q] = Fields /\ proc'[q].disturbed = how
          /\ \A x \in Fields \ {"disturbed"} : proc'[q][x] = proc[q][x]
      BY <3>1 DEF Fields
    <3>4. SameBut(q)
      BY <2>2, <3>2, <3>3 DEF SameBut, Fields, At
    <3> QED BY <3>3, <3>4
  <2>3. CASE ~(proc[q].file = proc[p].file /\ ~At(q, "idle") /\ proc[q].disturbed # "changed")
    <3>1. proc'[q] = proc[q]
      BY <2>1, <2>3
    <3> QED BY <2>3, <3>1 DEF SameBut, Reader, At
  <2> QED BY <2>2, <2>3
<1> QED BY <1>1, <1>2
-----------------------------------------------------------------------------
(* A step of p that goes on with its file is noticed by no reader of it    *)
(* that was not disturbed before.                                          *)
LEMMA BesideStill ==
  ASSUME NEW p, NEW q, Beside(q, p), SameBut(q), shadow' = shadow,
         proc[p].claims, proc'[p].cmd = proc[p].cmd, proc'[p].file = proc[p].file,
         Is(p, {"rm"}) /\ proc[p].at \in {"read", "get", "listed"} =>
             proc'[p].at \in {"read", "get", "listed"}
  PROVE  Beside(q, p)'
BY DEF Beside, Reader, Claims, Is, SameBut

(* The fields that Put sets, and those that extend is entered with.        *)
PutNames == {"at", "block", "ord", "inner", "left"}

(* The locals of p after Put.                                              *)
LEMMA PutFields ==
  ASSUME NEW p, DOMAIN proc[p] = Fields
  PROVE  /\ DOMAIN Put(p) = PutNames /\ PutNames \subseteq Fields
         /\ proc'[p] = Put(p) ++ proc[p] =>
              /\ DOMAIN proc'[p] = Fields /\ Same(p, PutNames)
              /\ proc'[p].at = "put" /\ proc'[p].block = proc[p].file /\ proc'[p].ord = 0
              /\ proc'[p].inner = proc[p].offset /\ proc'[p].left = Len(Data(p))
<1>1. PICK f, o, n : f = proc[p].file /\ o = proc[p].offset /\ n = Len(Data(p))
  OBVIOUS
<1>2. PICK new : new = Put(p)
  OBVIOUS
<1>3. new = [at |-> "put", block |-> f, ord |-> 0, inner |-> o, left |-> n]
  BY <1>1, <1>2 DEF Put
<1>4. DOMAIN new = PutNames /\ PutNames \subseteq Fields
  BY <1>3 DEF PutNames, Fields
<1>5. /\ new["at"] = "put" /\ new["block"] = f /\ new["ord"] = 0 /\ new["inner"] = o
      /\ new["left"] = n
  BY <1>3
<1>6. ASSUME proc'[p] = new ++ proc[p]
      PROVE  /\ DOMAIN proc'[p] = Fields /\ Same(p, PutNames)
             /\ \A x \in PutNames : proc'[p][x] = new[x]
  BY <1>4, <1>6, Joined
<1> QED BY <1>1, <1>2, <1>4, <1>5, <1>6 DEF PutNames

(* Only a chunk that is read can be empty.                                 *)
LEMMA NoData ==
  ASSUME NEW p, Writes(p), Data(p) = <<>>
  PROVE  Is(p, {"write"})
<1> SUFFICES ASSUME ~Is(p, {"write"}) PROVE FALSE
  OBVIOUS
<1>1. PICK x : Data(p) = <<x>>
  BY DEF Data
<1> QED BY <1>1

(* Of what p does when it goes on to put its data, and where it stands.    *)
LEMMA PutClaims ==
  ASSUME NEW lay, Kept(lay), NEW p \in Processes, NEW f \in Heads, proc[p].claims, proc[p].file = f,
         Writes(p), Data(p) # <<>>, proc'[p] = Put(p) ++ proc[p],
         shadow' = shadow, cells' = cells, inode'[f].flags = inode[f].flags,
         inode'[f].size = Larger(EndOf(p), Len(shadow[f])), proc[p].offset <= Len(shadow[f]),
         Full(lay, f)', Holds(lay, f, shadow[f])
  PROVE  /\ Claiming(lay, p)' /\ Taking(p)' /\ Reading(lay, p)' /\ ~Waits(p)'
         /\ proc'[p].at = "put" /\ DOMAIN proc'[p] = Fields /\ Same(p, PutNames)
<1>1. ProcTyped(p) /\ DOMAIN proc[p] = Fields
  BY DEF Kept, Fine, ProcTyped
<1>2. /\ DOMAIN proc'[p] = Fields /\ Same(p, PutNames)
      /\ proc'[p].at = "put" /\ proc'[p].block = proc[p].file /\ proc'[p].ord = 0
      /\ proc'[p].inner = proc[p].offset /\ proc'[p].left = Len(Data(p))
  BY <1>1, PutFields
<1>3. proc'[p].chunk = proc[p].chunk /\ proc'[p].cmd = proc[p].cmd /\ proc'[p].file = proc[p].file
      /\ proc'[p].made = proc[p].made /\ proc'[p].todo = proc[p].todo
      /\ proc'[p].offset = proc[p].offset
      /\ proc'[p].claims = proc[p].claims
  BY <1>2 DEF Same, PutNames
<1>4. Data(p)' = Data(p)
  BY <1>3, DataOn
<1>5. Writes(p)'
  BY <1>3 DEF Writes, Is, Makes, IsSeq
<1>6. PICK d, c : d = Data(p) /\ c = shadow[f]
  OBVIOUS
<1>7. IsSeq(d) /\ Len(d) \in Nat /\ IsSeq(c)
  BY <1>1, <1>6, DataSeq DEF Kept, FilesWhole
<1>8. Holds(lay, f, c)'
  BY <1>6, HoldsOn
<1>9. lay[f][1] = f /\ Len(lay[f]) \in Nat \ {0}
  BY HeadIsBlock
<1>10. inode'[f].size = Larger(proc'[p].offset + Len(d), Len(shadow'[f]))
  BY <1>3, <1>6 DEF EndOf
<1>11. Puts(lay, p)'
  <2>1. d = Data(p)' /\ d # <<>> /\ c = shadow'[f] /\ proc'[p].file = f /\ proc'[p].block = f
        /\ proc'[p].inner = proc'[p].offset /\ proc'[p].left = Len(d)
        /\ proc'[p].offset <= Len(shadow'[f])
    BY <1>2, <1>3, <1>4, <1>6
  <2> QED BY <1>2, <1>5, <1>7, <1>8, <1>9, <1>10, <2>1, PutStarts
<1>12. Claiming(lay, p)'
  BY <1>2, <1>3, <1>11 DEF Claiming, At, Heads
<1> QED BY <1>2, <1>12, NotAtTable, NotReading DEF Waits

(* write_file_unchecked: the file is whole up to truncate_file, or nothing *)
(* has to be added.                                                        *)
LEMMA ChangeKept ==
  ASSUME NEW lay, Kept(lay), NEW p \in Processes, ~Race', write_file_unchecked(p)
  PROVE  Kept(lay)'
<1>1. Fine(lay, p) /\ At(p, "change")
  BY DEF write_file_unchecked, Kept
<1>2. proc[p].claims
  BY <1>1 DEF Fine, Unclaiming, At
<1>3. Prepares(p) /\ Whole(lay, proc[p].file) /\ proc[p].file \in Heads
  BY <1>1, <1>2, Prepared DEF At
<1>4. Writes(p)
  BY <1>1, <1>3 DEF Prepares, At
<1>5. CASE Exit(p)
  BY <1>3, <1>5, ExitKept
<1>6. ASSUME NEW new, new = [at |-> "write", claims |-> FALSE, chunk |-> proc[p].chunk + 1],
             Goes(p, new), Data(p) = <<>>
      PROVE  Kept(lay)'
  <2>1. DOMAIN new = {"at", "claims", "chunk"} /\ DOMAIN new \subseteq Fields
    BY <1>6 DEF Fields
  <2>2. /\ Quiet /\ DOMAIN proc'[p] = Fields /\ Same(p, DOMAIN new)
        /\ proc'[p].at = "write" /\ proc'[p].claims = FALSE /\ proc'[p].chunk = proc[p].chunk + 1
    BY <1>6, <2>1, GoesOn
  <2>3. proc'[p].cmd = proc[p].cmd /\ proc'[p].file = proc[p].file
        /\ proc'[p].offset = proc[p].offset
    BY <2>1, <2>2 DEF Same
  <2>4. proc'[p].chunk \in Nat \ {0}
    BY <1>1, <2>2 DEF Fine, ProcTyped
  <2>5. ProcTyped(p)'
    BY <1>1, <2>2, <2>3, <2>4, TypedStill DEF Fine
  <2>6. Is(p, {"write"}) /\ proc[p].offset \in Nat
    BY <1>4, <1>6, NoData DEF Writes
  <2>7. Unclaiming(p)'
    BY <1>3, <2>2, <2>3, <2>6 DEF Unclaiming, At, Is, InFile, Quiet, Heads
  <2>8. Taking(p)' /\ ~Reader(p)'
    BY <2>2, NotAtTable, NotReading
  <2> QED BY <1>3, <1>6, <2>1, <2>2, <2>5, <2>7, <2>8, PlainStep
<1>7. ASSUME NEW new, new = [at |-> "truncate"], Goes(p, new), Data(p) # <<>>,
             proc[p].offset <= inode[proc[p].file].size, proc[p].offset + Len(Data(p)) > inode[proc[p].file].size
      PROVE  Kept(lay)'
  <2>1. DOMAIN new = {"at"} /\ DOMAIN new \subseteq Fields
    BY <1>7 DEF Fields
  <2>2. Quiet /\ Same(p, DOMAIN new) /\ proc'[p].at = "truncate"
    BY <1>7, <2>1, GoesOn
  <2>3. proc'[p].chunk = proc[p].chunk /\ proc'[p].cmd = proc[p].cmd /\ proc'[p].file = proc[p].file
        /\ proc'[p].made = proc[p].made /\ proc'[p].todo = proc[p].todo
        /\ proc'[p].offset = proc[p].offset
        /\ proc'[p].claims = proc[p].claims
    BY <2>1, <2>2 DEF Same
  <2>4. Data(p)' = Data(p) /\ EndOf(p)' = EndOf(p) /\ Writes(p)' /\ inode' = inode
    BY <1>4, <2>2, <2>3, DataOn DEF Quiet
  <2>5. inode[proc[p].file].size < EndOf(p)
    <3>1. inode[proc[p].file].size \in Nat /\ EndOf(p) \in Nat
      BY <1>1, <1>3, <1>4, HeadIsBlock, DataSeq DEF Fine
    <3> QED BY <1>7, <3>1 DEF EndOf
  <2>6. Prepares(p)'
    BY <1>7, <2>2, <2>3, <2>4, <2>5 DEF Prepares, At
  <2>7. Claiming(lay, p)'
    BY <1>3, <2>2, <2>3, <2>6, WholeOn DEF Claiming
  <2>8. Taking(p)' /\ Reading(lay, p)'
    BY <2>2, NotAtTable, NotReading
  <2> QED BY <1>1, <1>2, <1>7, <2>1, <2>2, <2>3, <2>7, <2>8, ClaimStep DEF At
<1>8. ASSUME NEW new, new = Put(p), Goes(p, new), Data(p) # <<>>,
             proc[p].offset <= inode[proc[p].file].size, ~(proc[p].offset + Len(Data(p)) > inode[proc[p].file].size)
      PROVE  Kept(lay)'
  <2>1. DOMAIN proc[p] = Fields
    BY <1>1 DEF Fine, ProcTyped
  <2>2. DOMAIN new = PutNames /\ DOMAIN new \subseteq Fields
    BY <1>8, <2>1, PutFields
  <2>3. Quiet /\ proc' = [proc EXCEPT ![p] = new ++ proc[p]]
    BY <1>8, <2>2, GoesOn
  <2>4. proc'[p] = Put(p) ++ proc[p]
    BY <1>8, <2>3, OnlyOne DEF Kept, ImageTyped
  <2>5. PICK f \in Heads : f = proc[p].file
    BY <1>3
  <2>6. inode[f].size = Larger(EndOf(p), Len(shadow[f])) /\ proc[p].offset <= Len(shadow[f])
    <3>1. inode[f].size \in Nat /\ EndOf(p) \in Nat /\ inode[f].size = Len(shadow[f])
      BY <1>1, <1>3, <1>4, <2>5, HeadIsBlock, DataSeq DEF Fine, Whole
    <3> QED BY <1>8, <2>5, <3>1 DEF EndOf, Larger
  <2>7. Full(lay, f)'
    BY <1>3, <2>3, <2>5 DEF Whole, Full, Quiet, get_blocks_required
  <2>8. /\ Claiming(lay, p)' /\ Taking(p)' /\ Reading(lay, p)' /\ proc'[p].at = "put"
        /\ Same(p, PutNames)
    BY <1>2, <1>3, <1>4, <1>8, <2>3, <2>4, <2>5, <2>6, <2>7, PutClaims DEF Quiet, Whole
  <2>9. proc'[p].chunk = proc[p].chunk /\ proc'[p].cmd = proc[p].cmd /\ proc'[p].file = proc[p].file
        /\ proc'[p].offset = proc[p].offset /\ proc'[p].claims = proc[p].claims
    BY <2>8 DEF Same, PutNames
  <2> QED BY <1>1, <1>2, <1>8, <2>2, <2>8, <2>9, ClaimStep DEF At
<1>9. CASE /\ Data(p) # <<>> /\ proc[p].offset <= inode[proc[p].file].size
           /\ Goes(p, IF proc[p].offset + Len(Data(p)) > inode[proc[p].file].size THEN [at |-> "truncate"] ELSE Put(p))
  BY <1>7, <1>8, <1>9
<1> QED BY <1>5, <1>6, <1>9 DEF write_file_unchecked, Dies, Ends
-----------------------------------------------------------------------------
(* What an inode of one file is set to.                                    *)
LEMMA InodeTyped ==
  ASSUME ImageTyped, NEW f \in Block, inode' = [b \in Block |-> inode'[b]],
         \A b \in Block \ {f} : inode'[b] = inode[b],
         inode'[f] = [size |-> inode'[f].size, flags |-> inode'[f].flags, last |-> inode'[f].last],
         inode'[f].size \in Nat, UNCHANGED <<lookup_table, cont, cells, begun>>, proc' = [q \in Processes |-> proc'[q]]
  PROVE  ImageTyped'
BY DEF ImageTyped

(* An inode of which the size is stored.                                   *)
LEMMA SizeOf ==
  ASSUME ImageTyped, NEW f \in Block, NEW n \in Nat, inode' = [inode EXCEPT ![f].size = n]
  PROVE  /\ inode' = [b \in Block |-> inode'[b]] /\ \A b \in Block \ {f} : inode'[b] = inode[b]
         /\ inode'[f] = [size |-> n, flags |-> inode[f].flags, last |-> inode[f].last]
<1>1. inode = [b \in Block |-> inode[b]]
      /\ inode[f] = [size |-> inode[f].size, flags |-> inode[f].flags, last |-> inode[f].last]
  BY DEF ImageTyped
<1>2. inode' = [b \in Block |-> inode'[b]] /\ \A b \in Block \ {f} : inode'[b] = inode[b]
  BY <1>1
<1>3. inode'[f] = [inode[f] EXCEPT !.size = n]
  BY <1>1
<1> QED BY <1>1, <1>2, <1>3

(* An inode of which last_inode is stored.                                 *)
LEMMA LastOf ==
  ASSUME ImageTyped, NEW f \in Block, NEW n, inode' = [inode EXCEPT ![f].last = n]
  PROVE  /\ inode' = [b \in Block |-> inode'[b]] /\ \A b \in Block \ {f} : inode'[b] = inode[b]
         /\ inode'[f] = [size |-> inode[f].size, flags |-> inode[f].flags, last |-> n]
<1>1. inode = [b \in Block |-> inode[b]]
      /\ inode[f] = [size |-> inode[f].size, flags |-> inode[f].flags, last |-> inode[f].last]
  BY DEF ImageTyped
<1>2. inode' = [b \in Block |-> inode'[b]] /\ \A b \in Block \ {f} : inode'[b] = inode[b]
  BY <1>1
<1>3. inode'[f] = [inode[f] EXCEPT !.last = n]
  BY <1>1
<1> QED BY <1>1, <1>2, <1>3

(* A step of p that changes the inode of its file, and no more of the image.*)
LEMMA InodeStep ==
  ASSUME NEW lay, Kept(lay), NEW p \in Processes, NEW f \in Heads, proc[p].claims,
         proc[p].file = f, ~Race, ~Race',
         UNCHANGED <<lookup_table, cont, cells, superblock, begun, shadow>>,
         inode' = [b \in Block |-> inode'[b]], \A b \in Block \ {f} : inode'[b] = inode[b],
         inode'[f] = [size |-> inode'[f].size, flags |-> inode[f].flags, last |-> inode'[f].last],
         inode'[f].size \in Nat, inode[f].size <= inode'[f].size,
         proc' = [q \in Processes |-> proc'[q]],
         \A q \in Processes \ {p} : SameBut(q),
         \/ inode'[f].size = inode[f].size
         \/ \A q \in Processes \ {p} : Reader(q) /\ proc[q].file = f => proc'[q].disturbed \in {"grown", "changed"},
         DOMAIN proc'[p] = Fields, proc'[p].claims = proc[p].claims, proc'[p].chunk = proc[p].chunk,
         proc'[p].cmd = proc[p].cmd, proc'[p].file = f, proc'[p].offset = proc[p].offset,
         proc'[p].at \notin {"idle", "link", "init"}, proc[p].at \notin {"read", "get", "listed"},
         Claiming(lay, p)', Taking(p)', Reading(lay, p)'
  PROVE  Kept(lay)'
<1>1. Fine(lay, p) /\ ImageTyped /\ Laid(lay) /\ FilesWhole(lay) /\ superblock = "whole"
      /\ f \in Block
      /\ \A q \in Processes \ {p} : Fine(lay, q) /\ Beside(q, p)
  <2>1. f \in Block
    BY HeadIsBlock
  <2> QED BY <2>1 DEF Kept
<1>2. ImageTyped'
  BY <1>1, InodeTyped
<1>3. Laid(lay)' /\ Heads' = Heads
  BY <1>1 DEF Laid, Heads
<1>4. \A h \in Heads \ {f} : Steady(lay, lay, h)
  BY HeadIsBlock DEF Steady, Heads
<1>5. IsSeq(shadow[f])'
  BY <1>1 DEF FilesWhole, IsSeq
<1>6. ASSUME NEW q \in Processes \ {p}, Waits(q)
      PROVE \A i \in 1..Len(lay[f]) : lay[f][i] # proc[q].found
  BY <1>1, <1>6 DEF Fine, Taken
<1>7. Fine(lay, p)' /\ ~Waits(p)'
  <2>1. ProcTyped(p)'
    BY <1>1, TypedStill DEF Fine, ProcTyped
  <2>2. Appends(p)'
    BY <1>1 DEF Fine, Appends, Is
  <2> QED BY <2>1, <2>2 DEF Fine, Waits, Taken, Unclaiming
<1>8. ASSUME NEW q \in Processes \ {p}, Reader(q), proc[q].file = f, proc'[q].disturbed # "changed"
      PROVE  Reading(lay, q)'
  <2>1. SameBut(q) /\ Reading(lay, q) /\ proc[q].disturbed # "changed"
    BY <1>1, <1>8 DEF Fine, SameBut
  <2>2. SeesFile(lay, q)
    BY <1>8, <2>1 DEF Reading, Sees
  <2>3. PICK c : c = proc[q].base
    OBVIOUS
  <2>4. Holds(lay, f, c) /\ Len(c) <= inode[f].size
        /\ (proc[q].disturbed = "no" => Len(c) = inode[f].size)
    BY <1>8, <2>2, <2>3 DEF SeesFile
  <2>5. Holds(lay, f, c)'
    BY <2>4, HoldsOn
  <2>6. Len(c) \in Nat /\ inode[f].size \in Nat
    BY <1>1, <1>8, <2>1, <2>3, HeadIsBlock DEF Reading, Sees, IsSeq
  <2>7. proc'[q].disturbed = "no" => inode'[f].size = inode[f].size /\ proc[q].disturbed = "no"
    BY <1>8, <2>1 DEF SameBut
  <2>8. SeesFile(lay, q)'
    BY <1>3, <1>8, <2>1, <2>3, <2>4, <2>5, <2>6, <2>7 DEF SeesFile, SameBut
  <2> QED BY <2>1, <2>8, ReadingOn
<1>9. ASSUME NEW q \in Processes \ {p} PROVE Beside(p, q)' /\ Beside(q, p)'
  <2>1. Beside(q, p)'
    BY <1>1, BesideStill
  <2>2. Beside(p, q)'
    BY DEF Race, Beside, Claims
  <2> QED BY <2>1, <2>2
<1> QED BY <1>1, <1>2, <1>3, <1>4, <1>5, <1>6, <1>7, <1>8, <1>9, FileStep

(* extend: another block is needed, or last_inode is stored and all the    *)
(* blocks are there.                                                       *)
LEMMA ExtendKept ==
  ASSUME NEW lay, Kept(lay), NEW p \in Processes, ~Race, ~Race', extend(p)
  PROVE  Kept(lay)'
<1>1. Fine(lay, p) /\ At(p, "extend") /\ ImageTyped
  BY DEF extend, Kept
<1>2. CASE proc[p].ord < proc[p].left /\ Goes(p, [at |-> "scan"])
  BY <1>1, <1>2, ScanStarts
<1>3. CASE /\ proc[p].ord = proc[p].left
           /\ inode' = [inode EXCEPT ![proc[p].file].last = proc[p].block]
           /\ Becomes(p, Put(p))
           /\ UNCHANGED <<lookup_table, cont, cells, superblock, begun, shadow>>
  <2>1. PICK f : f = proc[p].file
    OBVIOUS
  <2>2. proc[p].claims /\ Grows(lay, p) /\ f \in Heads
    BY <1>1, <2>1 DEF Fine, Claiming, Unclaiming, Prepares, Growing, Shrinking, InTable, At
  <2>3. f \in Block /\ inode[f].size \in Nat
    BY <2>2, HeadIsBlock
  <2>4. /\ inode' = [b \in Block |-> inode'[b]] /\ \A b \in Block \ {f} : inode'[b] = inode[b]
        /\ inode'[f] = [size |-> inode[f].size, flags |-> inode[f].flags, last |-> proc[p].block]
    BY <1>1, <1>3, <2>1, <2>3, LastOf
  <2>5. inode'[f].size = inode[f].size /\ inode'[f].flags = inode[f].flags
        /\ inode'[f].last = proc[p].block
    BY <2>4
  <2>6. proc' = [proc EXCEPT ![p] = Put(p) ++ proc[p]]
    BY <1>3 DEF Becomes
  <2>7. proc'[p] = Put(p) ++ proc[p] /\ proc' = [q \in Processes |-> proc'[q]]
        /\ \A q \in Processes \ {p} : SameBut(q)
    BY <1>1, <2>6, OnlyOne DEF ImageTyped
  <2>8. Full(lay, f)'
    <3>1. Len(lay[f]) = get_blocks_required(inode[f].size) /\ proc[p].block = lay[f][Len(lay[f])]
      BY <1>3, <2>1, <2>2 DEF Grows
    <3> QED BY <2>5, <3>1 DEF Full, get_blocks_required
  <2>9. Writes(p) /\ Data(p) # <<>> /\ inode[f].size = EndOf(p) /\ proc[p].offset <= Len(shadow[f])
        /\ Len(shadow[f]) < EndOf(p) /\ Holds(lay, f, shadow[f])
    BY <2>1, <2>2 DEF Grows
  <2>10. inode'[f].size = Larger(EndOf(p), Len(shadow[f]))
    <3>1. EndOf(p) \in Nat /\ Len(shadow[f]) \in Nat
      BY <1>1, <2>2, <2>9, DataSeq DEF Fine, Kept, FilesWhole, IsSeq
    <3> QED BY <2>5, <2>9, <3>1 DEF Larger
  <2>11. /\ Claiming(lay, p)' /\ Taking(p)' /\ Reading(lay, p)' /\ ~Waits(p)'
         /\ proc'[p].at = "put" /\ DOMAIN proc'[p] = Fields /\ Same(p, PutNames)
    BY <1>3, <2>1, <2>2, <2>5, <2>7, <2>8, <2>9, <2>10, PutClaims
  <2>12. proc'[p].chunk = proc[p].chunk /\ proc'[p].cmd = proc[p].cmd
         /\ proc'[p].file = proc[p].file
         /\ proc'[p].offset = proc[p].offset /\ proc'[p].claims = proc[p].claims
    BY <2>11 DEF Same, PutNames
  <2>13. inode'[f] = [size |-> inode'[f].size, flags |-> inode[f].flags, last |-> inode'[f].last]
    BY <2>4, <2>5
  <2>14. inode'[f].size \in Nat /\ inode[f].size <= inode'[f].size
    BY <2>3, <2>5
  <2>15. proc[p].at \notin {"read", "get", "listed"} /\ proc'[p].at \notin {"idle", "link", "init"}
    BY <1>1, <2>11 DEF At
  <2>16. proc[p].claims /\ proc[p].file = f /\ f \in Heads /\ proc'[p].file = f
    BY <2>1, <2>2, <2>12
  <2> QED BY <1>3, <2>4, <2>5, <2>7, <2>11, <2>12, <2>13, <2>14, <2>15, <2>16, InodeStep
<1> QED BY <1>2, <1>3 DEF extend
-----------------------------------------------------------------------------
ExtendFields(b, n, m) == [at |-> "extend", block |-> b, ord |-> n, left |-> m]

(* The locals of p as it begins to extend its file.                        *)
LEMMA GrowFields ==
  ASSUME NEW p, DOMAIN proc[p] = Fields, NEW b, NEW n, NEW m,
         proc'[p] = ExtendFields(b, n, m) ++ proc[p]
  PROVE  /\ DOMAIN proc'[p] = Fields /\ Same(p, {"at", "block", "ord", "left"})
         /\ proc'[p].at = "extend" /\ proc'[p].block = b /\ proc'[p].ord = n /\ proc'[p].left = m
<1>1. PICK new : new = ExtendFields(b, n, m)
  OBVIOUS
<1>2. DOMAIN new = {"at", "block", "ord", "left"} /\ DOMAIN new \subseteq Fields
  BY <1>1 DEF Fields, ExtendFields
<1>3. new["at"] = "extend" /\ new["block"] = b /\ new["ord"] = n /\ new["left"] = m
  BY <1>1 DEF ExtendFields
<1>4. proc'[p] = new ++ proc[p]
  BY <1>1
<1>5. DOMAIN proc'[p] = Fields /\ Same(p, DOMAIN new) /\ \A x \in DOMAIN new : proc'[p][x] = new[x]
  BY <1>2, <1>4, Joined
<1> QED BY <1>2, <1>3, <1>5

(* truncate_file: the size is stored before the blocks are there, and the  *)
(* readers are disturbed.                                                  *)
LEMMA TruncateKept ==
  ASSUME NEW lay, Kept(lay), NEW p \in Processes, ~Race, ~Race', truncate_file(p)
  PROVE  Kept(lay)'
<1>1. Fine(lay, p) /\ At(p, "truncate") /\ ImageTyped /\ DOMAIN proc[p] = Fields
  BY DEF truncate_file, Kept, Fine, ProcTyped
<1>2. proc[p].claims
  BY <1>1 DEF Fine, Unclaiming, At
<1>3. PICK f \in Heads : f = proc[p].file /\ Prepares(p) /\ Whole(lay, f)
  BY <1>1, <1>2, Prepared DEF At
<1>4. PICK new, old, size : new = EndOf(p) /\ size = inode[f].size
      /\ old = get_blocks_required(size)
  OBVIOUS
<1>5. Writes(p) /\ Data(p) # <<>> /\ proc[p].offset <= size /\ size < new
  BY <1>1, <1>3, <1>4 DEF Prepares, At
<1>6. f \in Block /\ size \in Nat /\ new \in Nat /\ size = Len(shadow[f])
      /\ Holds(lay, f, shadow[f])
      /\ Len(lay[f]) = old /\ inode[f].last = lay[f][Len(lay[f])]
  BY <1>1, <1>3, <1>4, <1>5, HeadIsBlock, DataSeq DEF Fine, Whole, Full
<1>7. inode' = [inode EXCEPT ![f].size = new]
  BY <1>3, <1>4 DEF truncate_file, EndOf
<1>8. UNCHANGED <<lookup_table, cont, cells, superblock, begun, shadow>>
  BY DEF truncate_file
<1>9. PICK how, r :
        /\ how \in {"grown", "changed"} /\ Disturbs(p, r, how)
        /\ r = IF get_blocks_required(new) > old THEN ExtendFields(inode[f].last, old, get_blocks_required(new)) ELSE Put(p)
  BY <1>3, <1>4 DEF truncate_file, EndOf, ExtendFields
<1>10. /\ proc'[p] = r ++ proc[p] /\ proc' = [q \in Processes |-> proc'[q]]
       /\ \A q \in Processes \ {p} : SameBut(q)
       /\ \A q \in Processes \ {p} : Reader(q) /\ proc[q].file = f => proc'[q].disturbed \in {"grown", "changed"}
  <2>1. \A q \in Processes : (At(q, "idle") => proc[q] = IDLE) /\ DOMAIN proc[q] = Fields
    BY DEF Kept, Fine, ProcTyped
  <2> QED BY <1>2, <1>3, <1>9, <2>1, DisturbsOthers
<1>11. /\ inode' = [b \in Block |-> inode'[b]] /\ \A b \in Block \ {f} : inode'[b] = inode[b]
       /\ inode'[f] = [size |-> new, flags |-> inode[f].flags, last |-> inode[f].last]
  BY <1>1, <1>6, <1>7, SizeOf
<1>12. inode'[f].size = new /\ inode'[f].flags = inode[f].flags /\ inode'[f].last = inode[f].last
  BY <1>11
<1>13. inode'[f] = [size |-> inode'[f].size, flags |-> inode[f].flags, last |-> inode'[f].last]
  BY <1>11, <1>12
<1>14. inode'[f].size \in Nat /\ inode[f].size <= inode'[f].size
  BY <1>4, <1>5, <1>6, <1>12
<1>15. old \in Nat /\ get_blocks_required(new) \in Nat /\ old <= get_blocks_required(new)
  <2>1. size \in Nat /\ new \in Nat /\ size <= new
    BY <1>5, <1>6
  <2>2. \A n \in Nat : get_blocks_required(n) \in Nat
    BY Required
  <2> QED BY <1>4, <2>1, <2>2, RequiredGrows
<1>16. ASSUME /\ Claiming(lay, p)' /\ Taking(p)' /\ Reading(lay, p)' /\ DOMAIN proc'[p] = Fields
              /\ Same(p, {"at", "block", "ord", "inner", "left"})
              /\ proc'[p].at \in {"extend", "put"}
       PROVE  Kept(lay)'
  <2>1. proc'[p].chunk = proc[p].chunk /\ proc'[p].cmd = proc[p].cmd /\ proc'[p].file = proc[p].file
        /\ proc'[p].offset = proc[p].offset /\ proc'[p].claims = proc[p].claims
    BY <1>16 DEF Same
  <2>2. proc[p].at \notin {"read", "get", "listed"} /\ proc'[p].at \notin {"idle", "link", "init"}
    BY <1>1, <1>16 DEF At
  <2> QED BY <1>2, <1>3, <1>8, <1>10, <1>11, <1>12, <1>13, <1>14, <1>16, <2>1, <2>2, InodeStep
<1>17. CASE get_blocks_required(new) > old
  <2>1. PICK b, m : b = inode[f].last /\ m = get_blocks_required(new)
    OBVIOUS
  <2>2. proc'[p] = ExtendFields(b, old, m) ++ proc[p]
    BY <1>9, <1>10, <1>17, <2>1
  <2>3. /\ DOMAIN proc'[p] = Fields /\ Same(p, {"at", "block", "ord", "left"})
        /\ proc'[p].at = "extend" /\ proc'[p].block = b /\ proc'[p].ord = old /\ proc'[p].left = m
    BY <1>1, <2>2, GrowFields
  <2>4. proc'[p].chunk = proc[p].chunk /\ proc'[p].cmd = proc[p].cmd /\ proc'[p].file = f
        /\ proc'[p].offset = proc[p].offset /\ proc'[p].claims = proc[p].claims
        /\ proc'[p].made = proc[p].made /\ proc'[p].todo = proc[p].todo
    BY <1>3, <2>3 DEF Same
  <2>5. Data(p)' = Data(p) /\ EndOf(p)' = new
    BY <1>3, <1>4, <2>4, DataOn
  <2>6. Writes(p)'
    BY <1>3, <1>5, <1>12, <2>4 DEF Writes, Is, Makes, IsSeq
  <2>7. PICK c : c = shadow[f]
    OBVIOUS
  <2>8. Holds(lay, f, c)'
    BY <1>6, <1>8, <2>7, HoldsOn
  <2>9. proc'[p].left = get_blocks_required(EndOf(p))'
    BY <2>1, <2>3, <2>5 DEF get_blocks_required
  <2>10. Grows(lay, p)'
    BY <1>5, <1>6, <1>8, <1>12, <1>15, <2>1, <2>3, <2>4, <2>5, <2>6, <2>7, <2>8, <2>9 DEF Grows
  <2>11. Claiming(lay, p)'
    BY <1>3, <1>8, <2>3, <2>4, <2>10 DEF Claiming, Growing, Heads
  <2>12. Taking(p)' /\ Reading(lay, p)'
    BY <2>3, NotAtTable, NotReading
  <2>13. Same(p, {"at", "block", "ord", "inner", "left"})
    BY <2>3 DEF Same
  <2> QED BY <1>16, <2>3, <2>11, <2>12, <2>13
<1>18. CASE ~(get_blocks_required(new) > old)
  <2>1. proc'[p] = Put(p) ++ proc[p]
    BY <1>9, <1>10, <1>18
  <2>2. Full(lay, f)'
    <3>1. get_blocks_required(new) = old
      BY <1>15, <1>18
    <3> QED BY <1>6, <1>12, <3>1 DEF Full, get_blocks_required
  <2>3. inode'[f].size = Larger(EndOf(p), Len(shadow[f])) /\ proc[p].offset <= Len(shadow[f])
    BY <1>4, <1>5, <1>6, <1>12 DEF Larger
  <2>4. /\ Claiming(lay, p)' /\ Taking(p)' /\ Reading(lay, p)'
        /\ proc'[p].at = "put" /\ DOMAIN proc'[p] = Fields /\ Same(p, PutNames)
    BY SMTT(30), <1>2, <1>3, <1>5, <1>6, <1>8, <1>12, <2>1, <2>2, <2>3, PutClaims
  <2> QED BY <1>16, <2>4 DEF PutNames
<1> QED BY <1>17, <1>18

(* shrunk: last_inode is stored; the empty file is whole then.             *)
LEMMA ShrunkKept ==
  ASSUME NEW lay, Kept(lay), NEW p \in Processes, ~Race, ~Race', shrunk(p)
  PROVE  Kept(lay)'
<1>1. Fine(lay, p) /\ At(p, "shrunk") /\ ImageTyped /\ DOMAIN proc[p] = Fields
  BY DEF shrunk, Kept, Fine, ProcTyped
<1>2. proc[p].claims
  BY <1>1 DEF Fine, Unclaiming, At
<1>3. PICK f \in Heads : f = proc[p].file /\ Shrinks(lay, p)
  BY <1>1, <1>2 DEF Fine, Claiming, Prepares, Growing, Shrinking, InTable, At
<1>4. Is(p, {"rm"}) /\ IsSeq(proc[p].todo) /\ inode[f].size = 0 /\ shadow[f] = <<>>
      /\ Len(lay[f]) = 1
  BY <1>3 DEF Shrinks
<1>5. f \in Block /\ lay[f][1] = f
  BY HeadIsBlock
<1>6. UNCHANGED <<lookup_table, cont, cells, superblock, begun, shadow>>
      /\ inode' = [inode EXCEPT ![f].last = f]
  BY <1>3 DEF shrunk
<1>7. PICK new : new = [at |-> "reappend"] /\ Becomes(p, new)
  BY DEF shrunk
<1>8. DOMAIN new = {"at"} /\ DOMAIN new \subseteq Fields
  BY <1>7 DEF Fields
<1>9. proc'[p] = new ++ proc[p] /\ proc' = [q \in Processes |-> proc'[q]]
      /\ \A q \in Processes \ {p} : SameBut(q)
  <2>1. proc' = [proc EXCEPT ![p] = new ++ proc[p]]
    BY <1>7 DEF Becomes
  <2> QED BY <1>1, <2>1, OnlyOne DEF ImageTyped
<1>10. DOMAIN proc'[p] = Fields /\ Same(p, DOMAIN new) /\ proc'[p].at = "reappend"
  BY <1>1, <1>7, <1>8, <1>9, Joined
<1>11. proc'[p].chunk = proc[p].chunk /\ proc'[p].cmd = proc[p].cmd /\ proc'[p].file = f
       /\ proc'[p].offset = proc[p].offset /\ proc'[p].claims = proc[p].claims
       /\ proc'[p].todo = proc[p].todo
  BY <1>3, <1>8, <1>10 DEF Same
<1>12. /\ inode' = [b \in Block |-> inode'[b]] /\ \A b \in Block \ {f} : inode'[b] = inode[b]
       /\ inode'[f] = [size |-> inode[f].size, flags |-> inode[f].flags, last |-> f]
  BY <1>1, <1>5, <1>6, LastOf
<1>13. inode'[f].size = 0 /\ inode'[f].flags = inode[f].flags /\ inode'[f].last = f
       /\ inode'[f] = [size |-> inode'[f].size, flags |-> inode[f].flags, last |-> inode'[f].last]
  BY <1>4, <1>12
<1>14. Whole(lay, f)'
  <2>1. get_blocks_required(0) = 1 /\ Len(<<>>) = 0 /\ Before(1) \in Nat
    BY LocalAssumption, BeforeStep DEF get_blocks_required
  <2>2. Full(lay, f)'
    <3>1. get_blocks_required(inode[f].size)' = 1
      BY <1>13, LocalAssumption DEF get_blocks_required
    <3> QED BY <1>4, <1>5, <1>13, <3>1 DEF Full
  <2>3. Holds(lay, f, shadow[f])'
    <3>1. \A i \in 1..1 : \A k \in 1..Room(i - 1) : ~(Before(i - 1) + k <= 0)
      <4> SUFFICES ASSUME NEW i \in 1..1, NEW k \in 1..Room(i - 1) PROVE ~(Before(i - 1) + k <= 0)
        OBVIOUS
      <4>1. Before(i - 1) \in Nat /\ Room(i - 1) \in Nat
        BY BeforeStep
      <4> QED BY <4>1
    <3>2. PICK c : c = shadow'[f]
      OBVIOUS
    <3>3. Len(c) = 0
      BY <1>4, <1>6, <3>2
    <3>4. Holds(lay, f, c)'
      BY <1>4, <2>1, <3>1, <3>3 DEF Holds
    <3> QED BY <3>2, <3>4
  <2> QED BY <1>4, <1>6, <1>13, <2>1, <2>2, <2>3 DEF Whole
<1>15. Claiming(lay, p)'
  <2>1. Prepares(p)'
    BY <1>4, <1>10, <1>11 DEF Prepares, At, Is, IsSeq
  <2> QED BY <1>6, <1>11, <1>14, <2>1 DEF Claiming, Heads
<1>16. Taking(p)' /\ Reading(lay, p)'
  BY <1>10, NotAtTable, NotReading
<1>17. proc[p].at \notin {"read", "get", "listed"} /\ proc'[p].at \notin {"idle", "link", "init"}
  BY <1>1, <1>10 DEF At
<1>18. inode'[f].size \in Nat /\ inode[f].size <= inode'[f].size /\ inode'[f].size = inode[f].size
  BY <1>4, <1>13
<1> QED BY Zenon, <1>2, <1>3, <1>6, <1>9, <1>10, <1>11, <1>12, <1>13, <1>15, <1>16, <1>17, <1>18, InodeStep
-----------------------------------------------------------------------------
(* A sequence without one of its elements is one.                          *)
LEMMA RemovedSeq ==
  ASSUME NEW c, IsSeq(c), NEW i \in 1..Len(c)
  PROVE  IsSeq(RemoveAt(c, i))
<1>1. PICK S : c \in Seq(S) /\ Len(c) \in Nat
  BY IsSeqIn
<1>2. SubSeq(c, 1, i - 1) \in Seq(S) /\ SubSeq(c, i + 1, Len(c)) \in Seq(S)
  BY <1>1
<1>3. RemoveAt(c, i) \in Seq(S)
  BY <1>2 DEF RemoveAt
<1> QED BY <1>3, SeqIsSeq

(* A file that is cut back to its first block.                             *)
LEMMA CutLaid ==
  ASSUME NEW lay, Kept(lay), NEW f \in Heads, UNCHANGED <<lookup_table, cont>>, Heads' = Heads,
         NEW lay2, lay2 = [h \in Heads |-> IF h = f THEN <<f>> ELSE lay[h]]
  PROVE  /\ Laid(lay2)' /\ Len(lay2[f]) = 1 /\ lay2[f][1] = f
         /\ \A h \in Heads \ {f} : lay2[h] = lay[h]
<1>1. f \in lookup_table \ Metadata /\ lay[f][1] = f /\ Len(lay[f]) \in Nat \ {0}
  BY HeadIsBlock
<1>2. lay2[f] = <<f>> /\ Len(lay2[f]) = 1 /\ lay2[f][1] = f
      /\ \A h \in Heads \ {f} : lay2[h] = lay[h]
  BY DEF Heads
<1>3. <<f>> \in Seq(lookup_table \ Metadata)
  BY <1>1
<1>4. ASSUME NEW h \in Heads
      PROVE  /\ lay2[h] \in Seq(lookup_table \ Metadata) /\ Len(lay2[h]) # 0 /\ lay2[h][1] = h
             /\ \A i \in 1..(Len(lay2[h]) - 1) : cont[lay2[h][i]] = lay2[h][i + 1]
             /\ \A i \in 1..Len(lay2[h]) : i \in 1..Len(lay[h]) /\ lay2[h][i] = lay[h][i]
  <2>1. CASE h = f
    BY <1>1, <1>2, <1>3, <2>1
  <2>2. CASE h # f
    BY <1>2, <2>2 DEF Kept, Laid
  <2> QED BY <2>1, <2>2
<1>5. ASSUME NEW g \in Heads, NEW h \in Heads, NEW i \in 1..Len(lay2[g]), NEW j \in 1..Len(lay2[h]),
             lay2[g][i] = lay2[h][j]
      PROVE  g = h /\ i = j
  BY <1>4, <1>5 DEF Kept, Laid
<1>6. Metadata \subseteq lookup_table /\ DOMAIN lay2 = Heads
  BY DEF Kept, Laid, Heads
<1>7. Laid(lay2)
  BY <1>4, <1>5, <1>6 DEF Laid
<1>8. Laid(lay2)'
  BY <1>7 DEF Laid, Metadata
<1> QED BY <1>2, <1>8

(* Nothing is held anywhere.                                               *)
LEMMA EmptyHolds ==
  ASSUME NEW lay, NEW h, Len(lay[h]) \in Nat \ {0}, Len(shadow'[h]) = 0
  PROVE  Holds(lay, h, shadow[h])'
<1>1. PICK c, n : c = shadow'[h] /\ n = Len(lay[h])
  OBVIOUS
<1>2. \A i \in 1..n : \A k \in 1..Room(i - 1) : ~(Before(i - 1) + k <= 0)
  <2> SUFFICES ASSUME NEW i \in 1..n, NEW k \in 1..Room(i - 1) PROVE ~(Before(i - 1) + k <= 0)
    OBVIOUS
  <2>1. i - 1 \in Nat
    BY <1>1
  <2>2. Before(i - 1) \in Nat /\ Room(i - 1) \in Nat
    BY <2>1, BeforeStep
  <2> QED BY <2>2
<1>3. Before(n) \in Nat
  BY <1>1, BeforeStep
<1>4. Holds(lay, h, c)'
  BY <1>1, <1>2, <1>3 DEF Holds
<1> QED BY <1>1, <1>4

(* remove_from_directory: the file is cut back to its first block, and is  *)
(* empty.                                                                  *)
LEMMA RemoveKept ==
  ASSUME NEW lay, Kept(lay), NEW p \in Processes, ~Race, ~Race', remove_from_directory(p)
  PROVE  \E lay2 : Kept(lay2)'
<1>1. Fine(lay, p) /\ At(p, "listed") /\ ImageTyped /\ DOMAIN proc[p] = Fields
  BY DEF remove_from_directory, Kept, Fine, ProcTyped
<1>2. proc[p].claims
  BY <1>1 DEF Fine, Unclaiming, At
<1>3. PICK f \in Heads : f = proc[p].file /\ Prepares(p) /\ Whole(lay, f)
  BY <1>1, <1>2, Prepared DEF At
<1>4. Is(p, {"rm"}) /\ IsSeq(proc[p].buf)
  BY <1>1, <1>3 DEF Prepares, At, Fine, Reading, Reader, Sees
<1>5. CASE Dies(p)
  BY <1>3, <1>5, ExitKept DEF Dies, Ends
<1>6. CASE ~Dies(p)
  <2> DEFINE hits == Matches(p, Name(p))
  <2>1. PICK k, t : k = First(hits) /\ t = RemoveAt(proc[p].buf, k)
    OBVIOUS
  <2>2. k \in 1..Len(proc[p].buf)
    <3>1. hits \subseteq 1..Len(proc[p].buf) /\ Len(proc[p].buf) \in Nat
      BY <1>4 DEF Matches, IsSeq
    <3>2. hits \in SUBSET Nat /\ hits # {}
      BY <1>6, <3>1 DEF remove_from_directory
    <3> HIDE DEF hits
    <3>3. First(hits) \in hits
      BY <3>2, FirstOf
    <3> QED BY <2>1, <3>1, <3>3
  <2>3. IsSeq(t)
    BY <1>4, <2>1, <2>2, RemovedSeq
  <2>4. /\ inode' = [inode EXCEPT ![f].size = 0]
        /\ shadow' = [shadow EXCEPT ![f] = <<>>]
        /\ UNCHANGED <<lookup_table, cont, cells, superblock, begun>>
    BY <1>3, <1>6 DEF remove_from_directory, Heads
  <2>5. PICK rest, new :
          /\ rest = IF get_blocks_required(inode[f].size) > 1
                      THEN [at |-> "purge_blocks", block |-> cont[f]] ELSE [at |-> "reappend"]
          /\ new = [item_index |-> k - 1, todo |-> t, after |-> "shrunk"] ++ rest
          /\ Disturbs(p, new, "changed")
    BY <1>3, <1>6, <2>1 DEF remove_from_directory
  <2>6. /\ proc'[p] = new ++ proc[p] /\ proc' = [q \in Processes |-> proc'[q]]
        /\ \A q \in Processes \ {p} : SameBut(q)
        /\ \A q \in Processes \ {p} : Reader(q) /\ proc[q].file = f => proc'[q].disturbed = "changed"
    <3>1. \A q \in Processes : (At(q, "idle") => proc[q] = IDLE) /\ DOMAIN proc[q] = Fields
      BY DEF Kept, Fine, ProcTyped
    <3> QED BY <1>2, <1>3, <2>5, <3>1, DisturbsOthers
  <2>7. f \in Block /\ lay[f][1] = f /\ Len(lay[f]) \in Nat \ {0} /\ inode[f].size \in Nat
    BY HeadIsBlock
  <2>8. /\ inode' = [b \in Block |-> inode'[b]] /\ \A b \in Block \ {f} : inode'[b] = inode[b]
        /\ inode'[f] = [size |-> 0, flags |-> inode[f].flags, last |-> inode[f].last]
    BY <1>1, <2>4, <2>7, SizeOf
  <2>9. inode'[f].size = 0 /\ inode'[f].last = inode[f].last
        /\ inode'[f] = [size |-> inode'[f].size, flags |-> inode'[f].flags, last |-> inode'[f].last]
    BY <2>8
  <2>10. ImageTyped'
    <3>1. inode'[f].size \in Nat /\ UNCHANGED <<lookup_table, cont, cells, begun>>
          /\ proc' = [q \in Processes |-> proc'[q]]
      BY <2>4, <2>6, <2>9
    <3>2. /\ inode' = [b \in Block |-> inode'[b]] /\ \A b \in Block \ {f} : inode'[b] = inode[b]
      BY <2>8
    <3> QED BY <1>1, <2>7, <2>9, <3>1, <3>2, InodeTyped
  <2>11. Heads' = Heads /\ shadow'[f] = <<>> /\ \A h \in Heads \ {f} : shadow'[h] = shadow[h]
    BY <2>4 DEF Heads
  <2>12. PICK lay2 : lay2 = [h \in Heads |-> IF h = f THEN <<f>> ELSE lay[h]]
    OBVIOUS
  <2>13. /\ Laid(lay2)' /\ Len(lay2[f]) = 1 /\ lay2[f][1] = f
         /\ \A h \in Heads \ {f} : lay2[h] = lay[h]
    BY <2>4, <2>11, <2>12, CutLaid
  <2>14. \A h \in Heads \ {f} : Steady(lay, lay2, h)
    BY <2>4, <2>8, <2>11, <2>13, HeadIsBlock DEF Steady
  <2>15. /\ DOMAIN proc'[p] = Fields /\ Same(p, {"item_index", "todo", "after", "at", "block"})
         /\ proc'[p].todo = t /\ proc'[p].after = "shrunk"
         /\ \/ /\ get_blocks_required(inode[f].size) > 1 /\ proc'[p].at = "purge_blocks"
               /\ proc'[p].block = cont[f]
            \/ /\ ~(get_blocks_required(inode[f].size) > 1) /\ proc'[p].at = "reappend"
    <3>1. CASE get_blocks_required(inode[f].size) > 1
      <4>1. PICK c, j : c = cont[f] /\ j = k - 1
        OBVIOUS
      <4>2. rest = [at |-> "purge_blocks", block |-> c]
            /\ new = [item_index |-> j, todo |-> t, after |-> "shrunk"] ++ rest
        BY <2>5, <3>1, <4>1
      <4>3. DOMAIN new = {"item_index", "todo", "after", "at", "block"}
            /\ new["todo"] = t /\ new["after"] = "shrunk" /\ new["at"] = "purge_blocks"
            /\ new["block"] = c
        BY <4>2 DEF ++
      <4>4. DOMAIN new \subseteq Fields
        BY <4>3 DEF Fields
      <4> QED BY <1>1, <2>6, <3>1, <4>1, <4>3, <4>4, Joined
    <3>2. CASE ~(get_blocks_required(inode[f].size) > 1)
      <4>1. PICK j : j = k - 1
        OBVIOUS
      <4>2. rest = [at |-> "reappend"]
            /\ new = [item_index |-> j, todo |-> t, after |-> "shrunk"] ++ rest
        BY <2>5, <3>2, <4>1
      <4>3. DOMAIN new = {"item_index", "todo", "after", "at"}
            /\ new["todo"] = t /\ new["after"] = "shrunk" /\ new["at"] = "reappend"
        BY <4>2 DEF ++
      <4>4. DOMAIN new \subseteq Fields
        BY <4>3 DEF Fields
      <4>5. DOMAIN proc'[p] = Fields /\ Same(p, {"item_index", "todo", "after", "at"})
            /\ proc'[p].todo = t /\ proc'[p].after = "shrunk" /\ proc'[p].at = "reappend"
        BY <1>1, <2>6, <4>3, <4>4, Joined
      <4>6. Same(p, {"item_index", "todo", "after", "at", "block"})
        BY <4>5 DEF Same
      <4> QED BY <3>2, <4>5, <4>6
    <3> QED BY <3>1, <3>2
  <2>16. proc'[p].chunk = proc[p].chunk /\ proc'[p].cmd = proc[p].cmd /\ proc'[p].file = f
         /\ proc'[p].claims = proc[p].claims
    BY <1>3, <2>15 DEF Same
  <2>17. IsSeq(shadow[f])' /\ Len(shadow'[f]) = 0
    <3>1. IsSeq(<<>>) /\ Len(<<>>) = 0
      BY DEF IsSeq
    <3> QED BY <2>11, <3>1 DEF IsSeq
  <2>18. Claiming(lay2, p)'
    <3>1. CASE proc'[p].at = "purge_blocks" /\ proc'[p].block = cont[f]
      <4>1. cont[f] \in Block
        BY <1>1, <2>7 DEF ImageTyped
      <4>2. Shrinks(lay2, p)'
        BY <1>4, <2>3, <2>9, <2>11, <2>13, <2>15, <2>16, <3>1, <4>1 DEF Shrinks, Is, IsSeq
      <4> QED BY <2>11, <2>16, <3>1, <4>2 DEF Claiming, Shrinking, At
    <3>2. CASE ~(get_blocks_required(inode[f].size) > 1) /\ proc'[p].at = "reappend"
      <4>1. get_blocks_required(inode[f].size) = 1
        <5>1. PICK n \in Nat \ {0} : n = get_blocks_required(inode[f].size)
          BY <2>7, Required
        <5> QED BY <3>2, <5>1
      <4>2. Len(lay[f]) = 1 /\ inode[f].last = f
        BY <1>3, <2>7, <4>1 DEF Whole, Full
      <4>3. Full(lay2, f)'
        <5>1. get_blocks_required(inode[f].size)' = 1
          BY <2>9, LocalAssumption DEF get_blocks_required
        <5> QED BY <2>9, <2>13, <4>2, <5>1 DEF Full
      <4>4. Holds(lay2, f, shadow[f])'
        BY <2>13, <2>17, EmptyHolds
      <4>5. Whole(lay2, f)'
        BY <2>9, <2>17, <4>3, <4>4 DEF Whole
      <4>6. Prepares(p)'
        BY <1>4, <2>3, <2>15, <2>16, <3>2 DEF Prepares, At, Is, IsSeq
      <4> QED BY <2>11, <2>16, <4>5, <4>6 DEF Claiming
    <3> QED BY <2>15, <3>1, <3>2
  <2>19. proc'[p].at \in {"purge_blocks", "reappend"}
    BY <2>15
  <2>20. Taking(p)' /\ Reading(lay2, p)' /\ ~Waits(p)' /\ ~Reader(p)'
    BY <2>19, NotAtTable, NotReading DEF Waits
  <2>21. Fine(lay2, p)'
    <3>1. ProcTyped(p)'
      BY <1>1, <2>15, <2>16, <2>19, TypedStill DEF Fine, ProcTyped
    <3>2. Appends(p)' /\ Unclaiming(p)'
      BY <1>2, <1>4, <2>16 DEF Appends, Unclaiming, Is, Makes
    <3> QED BY <2>18, <2>20, <3>1, <3>2 DEF Fine, Taken
  <2>22. ASSUME NEW q \in Processes \ {p}, Waits(q)
         PROVE \A i \in 1..Len(lay2[f]) : lay2[f][i] # proc[q].found
    <3>1. \A i \in 1..Len(lay[f]) : lay[f][i] # proc[q].found
      BY <2>22 DEF Kept, Fine, Taken
    <3> QED BY <2>7, <2>13, <3>1
  <2>23. ASSUME NEW q \in Processes \ {p} PROVE Beside(p, q)' /\ Beside(q, p)'
    <3>1. Reader(q)' /\ proc'[q].file = f => proc'[q].disturbed = "changed"
      BY <2>6 DEF Reader, SameBut
    <3> QED BY <2>16, <2>20, <3>1 DEF Beside, Claims
  <2>24. \A q \in Processes \ {p} : Reader(q) /\ proc[q].file = f /\ proc'[q].disturbed # "changed" => Reading(lay2, q)'
    BY <2>6
  <2>25. superblock' = "whole"
    BY <2>4 DEF Kept
  <2>26. Kept(lay2)'
    BY <1>2, <1>3, <2>4, <2>6, <2>10, <2>11, <2>13, <2>14, <2>16, <2>17, <2>20, <2>21, <2>22,
       <2>23, <2>24, <2>25, FileStep
  <2> QED BY <2>26
<1> QED BY <1>5, <1>6
-----------------------------------------------------------------------------
(* A later block does not begin before an earlier one.                     *)
LEMMA BeforeOrdered ==
  ASSUME NEW a \in Nat, NEW b \in Nat
  PROVE  /\ a <= b => Before(a) <= Before(b)
         /\ Before(a) < Before(b) => a < b
<1>1. Before(a) \in Nat /\ Before(b) \in Nat /\ Room(a) \in Nat /\ Room(b) \in Nat
  BY BeforeStep
<1>2. a < b => Before(a) + Room(a) <= Before(b)
  BY BeforeGrows
<1>3. b < a => Before(b) + Room(b) <= Before(a)
  BY BeforeGrows
<1> QED BY <1>1, <1>2, <1>3

(* A block more at the end of a file.                                      *)
LEMMA Longer ==
  ASSUME NEW s, NEW S, s \in Seq(S), NEW b \in S, NEW t, t = Append(s, b)
  PROVE  /\ t \in Seq(S) /\ Len(t) = Len(s) + 1 /\ Len(s) \in Nat /\ t[Len(s) + 1] = b
         /\ \A i \in 1..Len(s) : t[i] = s[i]
         /\ \A i \in 1..Len(t) : i \in 1..Len(s) \/ i = Len(s) + 1
OBVIOUS

(* A block more at the end of a file changes nothing of what it holds.     *)
LEMMA HoldsLonger ==
  ASSUME NEW lay, NEW lay2, NEW h, NEW S, lay[h] \in Seq(S), NEW b \in S,
         lay2[h] = Append(lay[h], b),
         NEW c, IsSeq(c), cells' = cells, Holds(lay, h, c)
  PROVE  Holds(lay2, h, c)'
<1>1. PICK n : n = Len(lay[h])
  OBVIOUS
<1>2. /\ n \in Nat /\ Len(lay2[h]) = n + 1 /\ \A i \in 1..n : lay2[h][i] = lay[h][i]
  BY <1>1, Longer
<1>3. Len(c) \in Nat /\ Len(c) <= Before(n) /\ Before(n) \in Nat
      /\ Before(n + 1) = Before(n) + Room(n) /\ Room(n) \in Nat
  BY <1>1, <1>2, BeforeStep DEF IsSeq, Holds
<1>4. ASSUME NEW i \in 1..(n + 1), NEW k \in 1..Room(i - 1), Before(i - 1) + k <= Len(c)
      PROVE  cells[lay2[h][i]][k] = c[Before(i - 1) + k]
  <2>1. CASE i \in 1..n
    BY <1>1, <1>2, <1>4, <2>1 DEF Holds
  <2>2. CASE i = n + 1
    <3>1. i - 1 = n
      BY <1>2, <2>2
    <3> QED BY <1>3, <1>4, <3>1
  <2> QED BY <1>2, <2>1, <2>2
<1>5. Len(c) <= Before(n + 1)
  BY <1>3
<1> QED BY <1>2, <1>4, <1>5 DEF Holds

(* A marked block that is in no file and waited for by nobody else is      *)
(* linked behind the last of a file.                                       *)
LEMMA LinkedLaid ==
  ASSUME NEW lay, Kept(lay), NEW f \in Heads, NEW b \in lookup_table \ Metadata,
         \A h \in Heads : \A i \in 1..Len(lay[h]) : lay[h][i] # b,
         lookup_table' = lookup_table, cont' = [cont EXCEPT ![lay[f][Len(lay[f])]] = b],
         Heads' = Heads,
         NEW lay2, lay2 = [h \in Heads |-> IF h = f THEN Append(lay[f], b) ELSE lay[h]]
  PROVE  Laid(lay2)'
<1> DEFINE S == lookup_table \ Metadata
<1>1. PICK n, last : n = Len(lay[f]) /\ last = lay[f][n]
  OBVIOUS
<1>2. /\ lay[f] \in Seq(S) /\ n \in Nat \ {0} /\ lay[f][1] = f /\ last \in Block /\ n \in 1..n
      /\ cont \in [Block -> Block] /\ lookup_table \subseteq Block
  BY <1>1, HeadIsBlock DEF Kept, Laid, ImageTyped
<1>3. /\ lay2[f] \in Seq(S) /\ Len(lay2[f]) = n + 1 /\ lay2[f][n + 1] = b
      /\ \A i \in 1..n : lay2[f][i] = lay[f][i]
  <2>1. lay2[f] = Append(lay[f], b)
    OBVIOUS
  <2> HIDE DEF S
  <2>2. b \in S
    BY DEF S
  <2> QED BY <1>1, <1>2, <2>1, <2>2, Longer
<1>4. \A h \in Heads \ {f} : lay2[h] = lay[h]
  OBVIOUS
<1>5. cont'[last] = b /\ \A c \in Block \ {last} : cont'[c] = cont[c]
  BY <1>1, <1>2
<1>6. ASSUME NEW h \in Heads
      PROVE  /\ lay2[h] \in Seq(S) /\ Len(lay2[h]) # 0 /\ lay2[h][1] = h
             /\ \A i \in 1..(Len(lay2[h]) - 1) : cont'[lay2[h][i]] = lay2[h][i + 1]
             /\ \A i \in 1..Len(lay2[h]) : \/ i \in 1..Len(lay[h]) /\ lay2[h][i] = lay[h][i]
                                           \/ h = f /\ i = n + 1 /\ lay2[h][i] = b
  <2>1. CASE h = f
    <3>1. ASSUME NEW i \in 1..n PROVE cont'[lay2[f][i]] = lay2[f][i + 1]
      <4>1. CASE i = n
        BY <1>1, <1>2, <1>3, <1>5, <4>1
      <4>2. CASE i # n
        <5>1. i \in 1..(n - 1) /\ i + 1 \in 1..n
          BY <1>2, <4>2
        <5>2. lay[f][i] # last
          BY <1>1, <1>2, <4>2 DEF Kept, Laid
        <5>3. lay[f][i] \in Block /\ cont[lay[f][i]] = lay[f][i + 1]
          BY <1>1, <1>2, <5>1 DEF Kept, Laid
        <5> QED BY <1>3, <1>5, <5>1, <5>2, <5>3
      <4> QED BY <4>1, <4>2
    <3>2. n + 1 - 1 = n /\ 1 \in 1..n
      BY <1>2
    <3>3. \A i \in 1..(n + 1) : i \in 1..n \/ i = n + 1
      BY <1>2
    <3>4. n + 1 # 0
      BY <1>2
    <3> HIDE DEF S
    <3>5. lay2[h][1] = h
      BY <1>2, <1>3, <2>1, <3>2
    <3>6. \A i \in 1..(Len(lay2[h]) - 1) : cont'[lay2[h][i]] = lay2[h][i + 1]
      <4>1. PICK m : m = Len(lay2[h])
        OBVIOUS
      <4>2. Len(lay2[f]) = n + 1
        BY <1>3
      <4>3. m = n + 1
        BY Zenon, <2>1, <4>1, <4>2
      <4>4. m - 1 = n
        BY <1>2, <4>3
      <4>5. \A i \in 1..(m - 1) : cont'[lay2[h][i]] = lay2[h][i + 1]
        BY Zenon, <2>1, <3>1, <4>4
      <4> QED BY Zenon, <4>1, <4>5
    <3>7. \A i \in 1..Len(lay2[h]) : \/ i \in 1..Len(lay[h]) /\ lay2[h][i] = lay[h][i]
                                     \/ h = f /\ i = n + 1 /\ lay2[h][i] = b
      BY <1>1, <1>3, <2>1, <3>3
    <3> QED BY <1>3, <2>1, <3>4, <3>5, <3>6, <3>7
  <2>2. CASE h # f
    <3>1. lay2[h] = lay[h]
      BY <1>4, <2>2
    <3>2. lay[h] \in Seq(S) /\ Len(lay[h]) # 0 /\ lay[h][1] = h /\ Len(lay[h]) \in Nat
          /\ \A i \in 1..(Len(lay[h]) - 1) : cont[lay[h][i]] = lay[h][i + 1]
      BY DEF Kept, Laid
    <3>3. ASSUME NEW i \in 1..Len(lay[h]) PROVE lay[h][i] # last /\ lay[h][i] \in Block
      BY <1>1, <1>2, <2>2, <3>2 DEF Kept, Laid
    <3>4. \A i \in 1..(Len(lay[h]) - 1) : cont'[lay[h][i]] = lay[h][i + 1]
      BY <1>5, <3>2, <3>3
    <3> HIDE DEF S
    <3> QED BY <3>1, <3>2, <3>4
  <2> QED BY <2>1, <2>2
<1>7. ASSUME NEW g \in Heads, NEW h \in Heads, NEW i \in 1..Len(lay2[g]), NEW j \in 1..Len(lay2[h]),
             lay2[g][i] = lay2[h][j]
      PROVE  g = h /\ i = j
  <2>1. \/ i \in 1..Len(lay[g]) /\ lay2[g][i] = lay[g][i]
        \/ g = f /\ i = n + 1 /\ lay2[g][i] = b
    BY <1>6
  <2>2. \/ j \in 1..Len(lay[h]) /\ lay2[h][j] = lay[h][j]
        \/ h = f /\ j = n + 1 /\ lay2[h][j] = b
    BY <1>6
  <2> QED BY <1>7, <2>1, <2>2 DEF Kept, Laid
<1>8. Metadata \subseteq lookup_table /\ DOMAIN lay2 = Heads
  BY DEF Kept, Laid, Heads
<1>9. Metadata' = Metadata
  BY DEF Metadata
<1> QED BY <1>6, <1>7, <1>8, <1>9 DEF Laid

(* link: the file has one block more.                                      *)
LEMMA LinkKept ==
  ASSUME NEW lay, Kept(lay), NEW p \in Processes, ~Race, ~Race', link(p)
  PROVE  \E lay2 : Kept(lay2)'
<1>1. Fine(lay, p) /\ At(p, "link") /\ ImageTyped /\ DOMAIN proc[p] = Fields
  BY DEF link, Kept, Fine, ProcTyped
<1>2. proc[p].claims
  BY <1>1 DEF Fine, Unclaiming, At
<1>3. PICK f \in Heads : f = proc[p].file /\ Grows(lay, p)
  BY <1>1, <1>2 DEF Fine, Claiming, Prepares, Growing, Shrinking, InTable, At
<1>4. PICK b, n, c : b = proc[p].found /\ n = Len(lay[f]) /\ c = shadow[f]
  OBVIOUS
<1>5. /\ b \in lookup_table \ Metadata /\ \A h \in Heads : \A i \in 1..Len(lay[h]) : lay[h][i] # b
      /\ \A q \in Processes \ {p} : Waits(q) => proc[q].found # b
  BY <1>1, <1>4 DEF Fine, Taken, Waits, At
<1>6. f \in Block /\ n \in Nat \ {0} /\ lay[f] \in Seq(lookup_table \ Metadata)
      /\ lay[f][n] \in Block /\ b \in Block
  BY <1>1, <1>4, <1>5, HeadIsBlock DEF Kept, Laid, ImageTyped
<1>7. proc[p].ord = n /\ proc[p].block = lay[f][n] /\ proc[p].ord < proc[p].left
  BY <1>1, <1>3, <1>4 DEF Grows, At
<1>8. /\ cont' = [cont EXCEPT ![lay[f][n]] = b]
      /\ UNCHANGED <<lookup_table, inode, cells, superblock, begun, shadow>>
  BY <1>4, <1>7 DEF link
<1>9. PICK new : new = [at |-> "extend", block |-> b, ord |-> n + 1] /\ Becomes(p, new)
  BY <1>4, <1>7 DEF link
<1>10. DOMAIN new = {"at", "block", "ord"} /\ DOMAIN new \subseteq Fields
  BY <1>9 DEF Fields
<1>11. proc'[p] = new ++ proc[p] /\ proc' = [q \in Processes |-> proc'[q]]
       /\ \A q \in Processes \ {p} : SameBut(q)
  <2>1. proc' = [proc EXCEPT ![p] = new ++ proc[p]]
    BY <1>9 DEF Becomes
  <2> QED BY <1>1, <2>1, OnlyOne DEF ImageTyped
<1>12. DOMAIN proc'[p] = Fields /\ Same(p, DOMAIN new) /\ proc'[p].at = "extend"
       /\ proc'[p].block = b /\ proc'[p].ord = n + 1
  BY <1>1, <1>9, <1>10, <1>11, Joined
<1>13. proc'[p].chunk = proc[p].chunk /\ proc'[p].cmd = proc[p].cmd /\ proc'[p].file = f
       /\ proc'[p].offset = proc[p].offset /\ proc'[p].claims = proc[p].claims
       /\ proc'[p].made = proc[p].made /\ proc'[p].todo = proc[p].todo
       /\ proc'[p].left = proc[p].left
  BY <1>3, <1>10, <1>12 DEF Same
<1>14. Heads' = Heads
  BY <1>8 DEF Heads
<1>15. PICK lay2 : lay2 = [h \in Heads |-> IF h = f THEN Append(lay[f], b) ELSE lay[h]]
  OBVIOUS
<1>16. Laid(lay2)'
  BY <1>4, <1>5, <1>8, <1>14, <1>15, LinkedLaid
<1>17. lay2[f] = Append(lay[f], b) /\ \A h \in Heads \ {f} : lay2[h] = lay[h]
  BY <1>15
<1>18. /\ Len(lay2[f]) = n + 1 /\ lay2[f][n + 1] = b /\ \A i \in 1..n : lay2[f][i] = lay[f][i]
       /\ \A i \in 1..Len(lay2[f]) : i \in 1..n \/ i = n + 1
  BY <1>4, <1>5, <1>6, <1>17, Longer
<1>19. \A h \in Heads \ {f} : Steady(lay, lay2, h)
  BY <1>8, <1>14, <1>17 DEF Steady
<1>20. ImageTyped'
  <2>1. cont' \in [Block -> Block]
    BY <1>1, <1>6, <1>8 DEF ImageTyped
  <2> QED BY <1>1, <1>8, <1>11, <2>1 DEF ImageTyped
<1>21. IsSeq(c) /\ IsSeq(shadow[f])'
  BY <1>4, <1>8 DEF Kept, FilesWhole, IsSeq
<1>22. Grows(lay2, p)'
  <2>1. Data(p)' = Data(p) /\ EndOf(p)' = EndOf(p)
    BY <1>3, <1>13, DataOn
  <2>2. Writes(p)'
    BY <1>3, <1>8, <1>13, DataOn DEF Grows
  <2>3. PICK e : e = EndOf(p)
    OBVIOUS
  <2>4. Holds(lay2, f, c)'
    <3>1. Holds(lay, f, c)
      BY <1>3, <1>4 DEF Grows
    <3> QED BY <1>5, <1>6, <1>8, <1>17, <1>21, <3>1, HoldsLonger
  <2>5. Data(p) # <<>> /\ inode[f].size = e /\ proc[p].offset <= Len(c) /\ Len(c) < e
        /\ proc[p].left = get_blocks_required(e)
    BY <1>3, <1>4, <2>3 DEF Grows
  <2>6. proc'[p].left = get_blocks_required(EndOf(p))'
    BY <1>13, <2>1, <2>3, <2>5 DEF get_blocks_required
  <2>7. n + 1 <= proc'[p].left
    <3>1. e \in Nat
      BY <1>1, <1>3, <2>3, DataSeq DEF Fine, Grows
    <3>2. get_blocks_required(e) \in Nat
      BY <3>1, Required
    <3> QED BY <1>6, <1>7, <1>13, <2>5, <3>2
  <2>8. Holds(lay2, proc[p].file, shadow[proc[p].file])'
    BY <1>4, <1>8, <1>13, <2>4
  <2>9. inode'[f].size = EndOf(p)' /\ proc'[p].offset <= Len(shadow'[f])
        /\ Len(shadow'[f]) < EndOf(p)'
    BY <1>4, <1>8, <1>13, <2>1, <2>3, <2>5
  <2>10. proc'[p].ord = Len(lay2[f]) /\ proc'[p].block = lay2[f][Len(lay2[f])]
    BY <1>12, <1>18
  <2> QED BY <1>12, <1>13, <2>1, <2>2, <2>5, <2>6, <2>7, <2>8, <2>9, <2>10 DEF Grows
<1>23. Claiming(lay2, p)'
  BY <1>2, <1>12, <1>13, <1>14, <1>22 DEF Claiming, Growing
<1>24. Taking(p)' /\ Reading(lay2, p)' /\ ~Reader(p)' /\ ~Waits(p)'
  BY <1>12, NotAtTable, NotReading DEF Waits
<1>25. Fine(lay2, p)'
  <2>1. ProcTyped(p)'
    BY <1>1, <1>12, <1>13, TypedStill DEF Fine, ProcTyped
  <2>2. Appends(p)'
    BY <1>1, <1>3, <1>8, <1>13 DEF Fine, Appends, Is
  <2>3. Unclaiming(p)'
    BY <1>2, <1>13 DEF Unclaiming
  <2> QED BY <1>23, <1>24, <2>1, <2>2, <2>3 DEF Fine, Taken
<1>26. ASSUME NEW q \in Processes \ {p}, Waits(q)
       PROVE \A i \in 1..Len(lay2[f]) : lay2[f][i] # proc[q].found
  <2>1. \A i \in 1..n : lay[f][i] # proc[q].found
    BY <1>4, <1>26 DEF Kept, Fine, Taken
  <2> QED BY <1>5, <1>18, <1>26, <2>1
<1>27. ASSUME NEW q \in Processes \ {p}, Reader(q), proc[q].file = f, proc'[q].disturbed # "changed"
       PROVE  Reading(lay2, q)'
  <2>1. SameBut(q) /\ Reading(lay, q) /\ proc[q].disturbed # "changed"
    BY <1>11, <1>27 DEF Kept, Fine, SameBut
  <2>2. Sees(lay, q)
    BY <1>27, <2>1 DEF Reading
  <2>3. PICK d : d = proc[q].base
    OBVIOUS
  <2>4. Holds(lay, f, d) /\ Len(d) <= inode[f].size
        /\ (proc[q].disturbed = "no" => Len(d) = inode[f].size) /\ IsSeq(d)
    BY <1>27, <2>2, <2>3 DEF Sees, SeesFile
  <2>5. Holds(lay2, f, d)'
    BY <1>5, <1>6, <1>8, <1>17, <2>4, HoldsLonger
  <2>6. proc'[q].disturbed = "no" => proc[q].disturbed = "no"
    BY <2>1 DEF SameBut
  <2>7. Holds(lay2, proc[q].file, proc[q].base)'
    BY <1>27, <2>1, <2>3, <2>5 DEF SameBut
  <2>8. SeesFile(lay2, q)'
    BY <1>8, <1>14, <1>27, <2>1, <2>3, <2>4, <2>6, <2>7 DEF SeesFile, SameBut
  <2>9. ASSUME NEW o \in Nat, o = 0 \/ Before(o) < Len(d) PROVE lay2[f][o + 1] = lay[f][o + 1]
    <3>1. Len(d) \in Nat /\ Len(d) <= Before(n) /\ Before(n) \in Nat /\ Before(o) \in Nat
      BY <1>4, <1>6, <2>4, BeforeStep DEF Holds, IsSeq
    <3>2. o < n
      <4>1. CASE o = 0
        BY <1>6, <4>1
      <4>2. CASE Before(o) < Len(d)
        BY <1>6, <3>1, <4>2, BeforeOrdered
      <4> QED BY <2>9, <4>1, <4>2
    <3>3. o + 1 \in 1..n
      BY <1>6, <3>2
    <3> QED BY <1>18, <3>3
  <2> QED BY <1>27, <2>1, <2>3, <2>8, <2>9, ReadingOn
<1>28. ASSUME NEW q \in Processes \ {p} PROVE Beside(p, q)' /\ Beside(q, p)'
  <2>1. Beside(q, p)'
    <3>1. Beside(q, p) /\ SameBut(q)
      BY <1>11, <1>28 DEF Kept
    <3> QED BY <1>1, <1>2, <1>3, <1>8, <1>13, <3>1, BesideStill DEF At
  <2>2. Beside(p, q)'
    BY <1>24 DEF Beside
  <2> QED BY <2>1, <2>2
<1>29. superblock' = "whole"
  BY <1>8 DEF Kept
<1>30. Kept(lay2)'
  BY <1>2, <1>3, <1>8, <1>11, <1>13, <1>14, <1>16, <1>19, <1>20, <1>21, <1>24, <1>25, <1>26,
     <1>27, <1>28, <1>29, FileStep
<1> QED BY <1>30
-----------------------------------------------------------------------------
(* One memcpy into block b, of n cells of d behind inner, done before.     *)
Copied(b, inner, n, d, done) ==
  cells' = [cells EXCEPT ![b] = [i \in DOMAIN @ |-> IF i > inner /\ i <= inner + n THEN d[done + i - inner] ELSE @[i]]]

(* The cells of the image after a memcpy.                                  *)
LEMMA CopiedCells ==
  ASSUME ImageTyped, NEW b \in Block, NEW inner \in Nat, NEW n \in Nat, NEW d, NEW done,
         Copied(b, inner, n, d, done)
  PROVE  /\ cells' = [x \in Block |-> cells'[x]]
         /\ \A x \in Block \ {b} : cells'[x] = cells[x]
         /\ \A k \in 1..CommonCap : cells'[b][k] = IF k > inner /\ k <= inner + n THEN d[done + k - inner] ELSE cells[b][k]
         /\ \A x \in Block : cells'[x] = [k \in 1..CommonCap |-> cells'[x][k]]
<1>1. cells = [x \in Block |-> cells[x]]
      /\ \A x \in Block : cells[x] = [k \in 1..CommonCap |-> cells[x][k]]
  BY DEF ImageTyped
<1>2. cells' = [x \in Block |-> cells'[x]] /\ \A x \in Block \ {b} : cells'[x] = cells[x]
  BY <1>1 DEF Copied
<1>3. DOMAIN cells[b] = 1..CommonCap
  BY <1>1
<1>4. cells'[b] = [i \in 1..CommonCap |-> IF i > inner /\ i <= inner + n THEN d[done + i - inner] ELSE cells[b][i]]
  BY <1>1, <1>3 DEF Copied
<1>5. \A k \in 1..CommonCap : cells'[b][k] = IF k > inner /\ k <= inner + n THEN d[done + k - inner] ELSE cells[b][k]
  BY <1>4
<1>6. cells'[b] = [k \in 1..CommonCap |-> cells'[b][k]]
  BY <1>4
<1> QED BY <1>1, <1>2, <1>5, <1>6

(* Where a cell of block number i - 1 stands to one of block number o.     *)
LEMMA Places ==
  ASSUME NEW o \in Nat, NEW i \in Nat \ {0}, NEW k \in 1..Room(i - 1), i # o + 1
  PROVE  /\ Before(i - 1) + k \in Nat
         /\ Before(i - 1) + k <= Before(o) \/ Before(i - 1) + k > Before(o) + Room(o)
<1>1. i - 1 \in Nat /\ i - 1 # o
  OBVIOUS
<1>2. PICK j \in Nat : j = i - 1 /\ j # o
  BY <1>1
<1>3. Before(j) \in Nat /\ Before(o) \in Nat /\ Room(j) \in Nat /\ Room(o) \in Nat
  BY <1>2, BeforeStep
<1>4. j < o => Before(j) + Room(j) <= Before(o)
  BY BeforeGrows
<1>5. o < j => Before(o) + Room(o) <= Before(j)
  BY BeforeGrows
<1>6. k \in 1..Room(j)
  BY <1>2
<1>7. Before(j) + k <= Before(o) \/ Before(j) + k > Before(o) + Room(o)
  BY <1>2, <1>3, <1>4, <1>5, <1>6
<1> QED BY <1>2, <1>3, <1>6, <1>7

(* The place in file f where the next memcpy goes, behind inner cells of   *)
(* its block number o, which is b.                                         *)
Placed(lay, f, o, b, inner) ==
  /\ f \in Heads /\ o \in Nat /\ inner \in Nat /\ o < Len(lay[f]) /\ b = lay[f][o + 1]

(* That block is no block of any other file, and no other block of this    *)
(* one.                                                                    *)
LEMMA PlacedIs ==
  ASSUME NEW lay, Kept(lay), NEW f, NEW o, NEW b, NEW inner, Placed(lay, f, o, b, inner)
  PROVE  /\ b \in Block /\ b \notin Metadata /\ o + 1 \in 1..Len(lay[f]) /\ o \in Nat
         /\ inner \in Nat /\ f \in Heads
         /\ Len(lay[f]) \in Nat /\ lay[f] \in Seq(Block)
         /\ \A i \in 1..Len(lay[f]) : i # o + 1 => lay[f][i] # b
         /\ \A h \in Heads \ {f} : \A i \in 1..Len(lay[h]) : lay[h][i] # b
<1>1. f \in Heads /\ o \in Nat /\ inner \in Nat /\ o < Len(lay[f]) /\ b = lay[f][o + 1]
  BY DEF Placed
<1>2. lay[f] \in Seq(Block) /\ Len(lay[f]) \in Nat
      /\ \A i \in 1..Len(lay[f]) : lay[f][i] \in lookup_table \ Metadata
  BY <1>1, HeadIsBlock
<1>3. o + 1 \in 1..Len(lay[f])
  BY <1>1, <1>2
<1>4. b \in Block /\ b \notin Metadata
  BY <1>1, <1>2, <1>3
<1>5. \A i \in 1..Len(lay[f]) : i # o + 1 => lay[f][i] # b
  BY <1>1, <1>3 DEF Kept, Laid
<1>6. \A h \in Heads \ {f} : \A i \in 1..Len(lay[h]) : lay[h][i] # b
  BY <1>1, <1>3 DEF Kept, Laid
<1> QED BY <1>1, <1>2, <1>3, <1>4, <1>5, <1>6

(* What stands before the place is not touched.                            *)
LEMMA HoldsBelow ==
  ASSUME NEW lay, Kept(lay), NEW f, NEW o, NEW b, NEW inner, Placed(lay, f, o, b, inner),
         NEW n \in Nat, NEW d, NEW done, Copied(b, inner, n, d, done),
         NEW e, IsSeq(e), Holds(lay, f, e), Len(e) <= Before(o) + inner
  PROVE  Holds(lay, f, e)'
<1>1. /\ b \in Block /\ o \in Nat /\ inner \in Nat /\ lay[f] \in Seq(Block) /\ Len(lay[f]) \in Nat
      /\ \A i \in 1..Len(lay[f]) : i # o + 1 => lay[f][i] # b
  BY PlacedIs
<1>2. ImageTyped /\ Len(e) \in Nat /\ CommonCap \in Nat
  BY LocalAssumption DEF Kept, IsSeq
<1>3. /\ \A x \in Block \ {b} : cells'[x] = cells[x]
      /\ \A k \in 1..CommonCap : cells'[b][k] = IF k > inner /\ k <= inner + n THEN d[done + k - inner] ELSE cells[b][k]
  BY <1>1, <1>2, CopiedCells
<1>4. ASSUME NEW i \in 1..Len(lay[f]), NEW k \in 1..Room(i - 1), Before(i - 1) + k <= Len(e)
      PROVE  cells'[lay[f][i]][k] = e[Before(i - 1) + k]
  <2>1. cells[lay[f][i]][k] = e[Before(i - 1) + k]
    BY <1>4 DEF Holds
  <2>2. CASE i = o + 1
    <3>1. i - 1 = o /\ Before(o) \in Nat /\ Room(o) \in Nat /\ Room(o) <= CommonCap
      BY <1>1, <2>2, BeforeStep
    <3>2. k \in 1..CommonCap /\ k <= inner
      BY <1>1, <1>2, <1>4, <3>1
    <3>3. cells'[b][k] = cells[b][k]
      BY <1>1, <1>3, <3>2
    <3>4. b = lay[f][i]
      BY <2>2 DEF Placed
    <3> QED BY <2>1, <3>3, <3>4
  <2>3. CASE i # o + 1
    <3>1. lay[f][i] # b /\ lay[f][i] \in Block
      BY <1>1, <2>3
    <3> QED BY <1>3, <2>1, <3>1
  <2> QED BY <2>2, <2>3
<1> QED BY <1>4 DEF Holds

(* c is old with new put at off.                                           *)
OverlayOf(c, old, off, new) ==
  /\ Len(c) = Larger(off + Len(new), Len(old))
  /\ \A i \in 1..Len(c) : c[i] = IF i > off /\ i <= off + Len(new) THEN new[i - off]
                                 ELSE IF i \in 1..Len(old) THEN old[i] ELSE BLANK

(* What Overlaid makes of an old sequence, packed into one operator.       *)
LEMMA OverlaidAs ==
  ASSUME NEW old, IsSeq(old), NEW off \in Nat, NEW new, IsSeq(new)
  PROVE  OverlayOf(Overlaid(old, off, new), old, off, new)
<1>1. PICK c : c = Overlaid(old, off, new)
  OBVIOUS
<1>2. OverlayOf(c, old, off, new)
  BY <1>1, OverlaidIs DEF OverlayOf
<1> QED BY <1>1, <1>2

(* c2 is c1 with n cells of d behind place s, which off is the start of.   *)
Further(c1, c2, d, s, n, off) ==
  /\ Len(c1) \in Nat /\ Len(c2) \in Nat
  /\ Len(c2) <= Len(c1) \/ Len(c2) = s + n
  /\ \A m \in Nat \ {0} : m <= Len(c2) =>
       /\ m <= s \/ m > s + n => m <= Len(c1) /\ c1[m] = c2[m]
       /\ m > s /\ m <= s + n => c2[m] = d[m - off]

(* With n more of d put over c.                                            *)
LEMMA PutFurther ==
  ASSUME NEW c, IsSeq(c), NEW d, IsSeq(d), NEW off \in Nat, off <= Len(c), NEW n \in Nat,
         NEW done \in Nat, done + n <= Len(d)
  PROVE  Further(Overlaid(c, off, SubSeq(d, 1, done)), Overlaid(c, off, SubSeq(d, 1, done + n)), d, off + done, n, off)
<1>1. PICK more : more = done + n
  OBVIOUS
<1>2. Len(c) \in Nat /\ Len(d) \in Nat /\ more \in Nat /\ more \in 0..Len(d)
      /\ done \in 0..Len(d) /\ done <= more
  BY <1>1 DEF IsSeq
<1>3. PICK d1, d2 : d1 = SubSeq(d, 1, done) /\ d2 = SubSeq(d, 1, more)
  OBVIOUS
<1>4. /\ IsSeq(d1) /\ Len(d1) = done /\ \A i \in 1..done : d1[i] = d[i]
      /\ IsSeq(d2) /\ Len(d2) = more /\ \A i \in 1..more : d2[i] = d[i]
  BY <1>2, <1>3, StartOf
<1>5. PICK c1, c2 : c1 = Overlaid(c, off, d1) /\ c2 = Overlaid(c, off, d2)
  OBVIOUS
<1>6. /\ Len(c1) = Larger(off + Len(d1), Len(c))
      /\ \A i \in 1..Len(c1) : c1[i] = IF i > off /\ i <= off + Len(d1) THEN d1[i - off]
                                       ELSE IF i \in 1..Len(c) THEN c[i] ELSE BLANK
  <2>1. IsSeq(d1) /\ c1 = Overlaid(c, off, d1)
    BY <1>4, <1>5
  <2>2. OverlayOf(c1, c, off, d1)
    BY <2>1, OverlaidAs
  <2> QED BY <2>2 DEF OverlayOf
<1>7. /\ Len(c2) = Larger(off + Len(d2), Len(c))
      /\ \A i \in 1..Len(c2) : c2[i] = IF i > off /\ i <= off + Len(d2) THEN d2[i - off]
                                       ELSE IF i \in 1..Len(c) THEN c[i] ELSE BLANK
  <2>1. IsSeq(d2) /\ c2 = Overlaid(c, off, d2)
    BY <1>4, <1>5
  <2>2. OverlayOf(c2, c, off, d2)
    BY <2>1, OverlaidAs
  <2> QED BY <2>2 DEF OverlayOf
<1>8. Len(c1) \in Nat /\ Len(c2) \in Nat /\ (Len(c2) <= Len(c1) \/ Len(c2) = off + more)
  BY <1>2, <1>4, <1>6, <1>7 DEF Larger
<1>9. ASSUME NEW m \in Nat \ {0}, m <= Len(c2), m <= off + done \/ m > off + more
      PROVE  m <= Len(c1) /\ c1[m] = c2[m]
  <2>1. m <= Len(c1) /\ m \in 1..Len(c1) /\ m \in 1..Len(c2)
    BY <1>2, <1>4, <1>6, <1>7, <1>8, <1>9 DEF Larger
  <2>2. CASE m > off /\ m <= off + done
    <3>1. m - off \in 1..done /\ m - off \in 1..more /\ m <= off + more
      BY <1>2, <1>9, <2>2
    <3>2. c1[m] = d1[m - off] /\ c2[m] = d2[m - off]
      BY <1>4, <1>6, <1>7, <2>1, <2>2, <3>1
    <3> QED BY <1>4, <2>1, <3>1, <3>2
  <2>3. CASE ~(m > off /\ m <= off + done)
    <3>1. ~(m > off /\ m <= off + more)
      BY <1>2, <1>9, <2>3
    <3> QED BY <1>4, <1>6, <1>7, <2>1, <2>3, <3>1
  <2> QED BY <2>2, <2>3
<1>10. ASSUME NEW m \in Nat \ {0}, m <= Len(c2), m > off + done, m <= off + more
       PROVE  c2[m] = d[m - off]
  <2>1. m \in 1..Len(c2) /\ m - off \in 1..more /\ m > off
    BY <1>2, <1>8, <1>10
  <2>2. c2[m] = d2[m - off]
    BY <1>4, <1>7, <1>10, <2>1
  <2> QED BY <1>4, <2>1, <2>2
<1>11. off + more = (off + done) + n
  BY <1>1
<1>12. Further(c1, c2, d, off + done, n, off)
  BY <1>8, <1>9, <1>10, <1>11 DEF Further
<1> QED BY <1>1, <1>3, <1>5, <1>12

(* A file that holds so much of what is put holds more after a memcpy.     *)
Puttable(o, inner, n, c, d, off, done) ==
  /\ IsSeq(c) /\ IsSeq(d) /\ off \in Nat /\ off <= Len(c) /\ n \in Nat /\ done \in Nat
  /\ done + n <= Len(d) /\ inner + n <= Room(o) /\ Before(o) + inner = off + done

(* A memcpy of n cells at its place: the file holds them too.              *)
LEMMA HoldsPut ==
  ASSUME NEW lay, Kept(lay), NEW f, NEW o, NEW b, NEW inner, Placed(lay, f, o, b, inner),
         NEW c, NEW d, NEW off, NEW n, NEW done, Puttable(o, inner, n, c, d, off, done),
         Copied(b, inner, n, d, done),
         Holds(lay, f, Overlaid(c, off, SubSeq(d, 1, done)))
  PROVE  Holds(lay, f, Overlaid(c, off, SubSeq(d, 1, done + n)))'
<1>1. /\ b \in Block /\ o \in Nat /\ inner \in Nat /\ lay[f] \in Seq(Block) /\ Len(lay[f]) \in Nat
      /\ o + 1 \in 1..Len(lay[f]) /\ \A i \in 1..Len(lay[f]) : i # o + 1 => lay[f][i] # b
  BY PlacedIs
<1>2. ImageTyped /\ CommonCap \in Nat /\ off \in Nat /\ n \in Nat /\ done \in Nat
      /\ inner + n <= Room(o) /\ Before(o) + inner = off + done
  BY LocalAssumption DEF Kept, Puttable
<1>3. /\ \A x \in Block \ {b} : cells'[x] = cells[x]
      /\ \A k \in 1..CommonCap : cells'[b][k] = IF k > inner /\ k <= inner + n THEN d[done + k - inner] ELSE cells[b][k]
  BY <1>1, <1>2, CopiedCells
<1>4. PICK c1, c2 : c1 = Overlaid(c, off, SubSeq(d, 1, done))
      /\ c2 = Overlaid(c, off, SubSeq(d, 1, done + n))
  OBVIOUS
<1>5. /\ Len(c1) \in Nat /\ Len(c2) \in Nat
      /\ Len(c2) <= Len(c1) \/ Len(c2) = off + (done + n)
      /\ \A m \in Nat \ {0} : m <= Len(c2) =>
           /\ m <= off + done \/ m > off + (done + n) => m <= Len(c1) /\ c1[m] = c2[m]
           /\ m > off + done /\ m <= off + (done + n) => c2[m] = d[m - off]
  <2>1. IsSeq(c) /\ IsSeq(d) /\ off \in Nat /\ off <= Len(c) /\ n \in Nat /\ done \in Nat
        /\ done + n <= Len(d)
    BY DEF Puttable
  <2>2. Further(c1, c2, d, off + done, n, off)
    BY <1>4, <2>1, PutFurther
  <2>3. PICK s : s = off + done
    OBVIOUS
  <2>4. s + n = off + (done + n)
    BY <2>1, <2>3
  <2> QED BY <2>2, <2>3, <2>4 DEF Further
<1>6. Holds(lay, f, c1)
  BY <1>4
<1>7. Before(o) \in Nat /\ Room(o) \in Nat /\ Room(o) <= CommonCap
      /\ Before(o + 1) = Before(o) + Room(o)
  BY <1>1, BeforeStep
<1>8. Len(c2) <= Before(Len(lay[f]))
  <2>1. Len(c1) <= Before(Len(lay[f])) /\ Before(Len(lay[f])) \in Nat
    BY <1>1, <1>6, BeforeStep DEF Holds
  <2>2. Before(o + 1) <= Before(Len(lay[f]))
    <3>1. o + 1 \in Nat /\ o + 1 <= Len(lay[f])
      BY <1>1
    <3> QED BY <1>1, <3>1, BeforeOrdered
  <2>3. off + (done + n) <= Before(o) + Room(o)
    BY <1>1, <1>2, <1>7
  <2> QED BY <1>2, <1>5, <1>7, <2>1, <2>2, <2>3
<1>9. ASSUME NEW i \in 1..Len(lay[f]), NEW k \in 1..Room(i - 1), Before(i - 1) + k <= Len(c2)
      PROVE  cells'[lay[f][i]][k] = c2[Before(i - 1) + k]
  <2>1. PICK m, j : m = Before(i - 1) + k /\ j = i - 1
    OBVIOUS
  <2>2. j \in Nat /\ k \in 1..Room(j) /\ m = Before(j) + k /\ i \in Nat \ {0}
        /\ (i = o + 1 <=> j = o)
    BY <1>1, <2>1
  <2>3. m \in Nat \ {0} /\ m <= Len(c2)
    <3>1. Before(j) \in Nat /\ Room(j) \in Nat
      BY <2>2, BeforeStep
    <3>2. m <= Len(c2)
      BY <1>9, <2>1
    <3> QED BY <2>2, <3>1, <3>2
  <2>4. m <= Len(c1) => cells[lay[f][i]][k] = c1[m]
    BY <1>6, <2>1 DEF Holds
  <2>5. CASE i = o + 1
    <3>1. b = lay[f][i]
      BY <2>5 DEF Placed
    <3>2. j = o
      BY <2>2, <2>5
    <3>a. k \in 1..Room(o) /\ m = Before(o) + k
      BY <2>2, <3>2
    <3>b. CommonCap \in Nat /\ Room(o) \in Nat /\ Room(o) <= CommonCap /\ Before(o) \in Nat
          /\ inner \in Nat /\ off \in Nat /\ done \in Nat /\ Before(o) + inner = off + done
      BY <1>1, <1>2, <1>7
    <3>c. k \in 1..CommonCap
      BY <3>a, <3>b
    <3>d. m = off + done + k - inner
      BY <3>a, <3>b
    <3>3. k \in 1..CommonCap /\ m = off + done + k - inner
      BY Zenon, <3>c, <3>d
    <3>4. cells'[b][k] = IF k > inner /\ k <= inner + n THEN d[done + k - inner] ELSE cells[b][k]
      BY <1>3, <3>3
    <3>5. CASE k > inner /\ k <= inner + n
      <4>1. m > off + done /\ m <= off + (done + n) /\ m - off = done + k - inner
        BY <1>1, <1>2, <3>3, <3>5
      <4>2. c2[m] = d[m - off]
        BY <1>5, <2>3, <4>1
      <4>3. cells'[b][k] = d[done + k - inner]
        BY <3>4, <3>5
      <4> QED BY <2>1, <3>1, <4>1, <4>2, <4>3
    <3>6. CASE ~(k > inner /\ k <= inner + n)
      <4>1. m <= off + done \/ m > off + (done + n)
        BY <1>1, <1>2, <3>3, <3>6
      <4>2. m <= Len(c1) /\ c1[m] = c2[m]
        BY <1>5, <2>3, <4>1
      <4>3. cells'[b][k] = cells[b][k]
        BY <3>4, <3>6
      <4> QED BY <2>1, <2>4, <3>1, <4>2, <4>3
    <3> QED BY <3>5, <3>6
  <2>6. CASE i # o + 1
    <3>1. lay[f][i] # b /\ lay[f][i] \in Block
      BY <1>1, <2>6
    <3>2. m <= Before(o) \/ m > Before(o) + Room(o)
      BY <1>1, <2>1, <2>2, <2>6, Places
    <3>3. m <= off + done \/ m > off + (done + n)
      BY <1>1, <1>2, <1>7, <2>3, <3>2
    <3>4. m <= Len(c1) /\ c1[m] = c2[m]
      BY <1>5, <2>3, <3>3
    <3> QED BY <1>3, <2>1, <2>4, <3>1, <3>4
  <2> QED BY <2>5, <2>6
<1>10. Holds(lay, f, c2)'
  BY <1>8, <1>9 DEF Holds
<1>11. c2 = Overlaid(c, off, SubSeq(d, 1, done + n))
  BY <1>4
<1> QED BY <1>10, <1>11 DEF Overlaid
-----------------------------------------------------------------------------
(* What is put, where, and how far.                                        *)
LEMMA PutIs ==
  ASSUME NEW lay, Kept(lay), NEW p \in Processes, NEW f, f = proc[p].file, f \in Heads,
         Puts(lay, p),
         NEW d, d = Data(p), NEW c, c = shadow[f]
  PROVE  /\ IsSeq(d) /\ Len(d) \in Nat /\ IsSeq(c) /\ Len(c) \in Nat
         /\ proc[p].offset \in Nat /\ proc[p].offset <= Len(c) /\ EndOf(p) = proc[p].offset + Len(d)
         /\ proc[p].left \in 1..Len(d) /\ Done(p) = Len(d) - proc[p].left /\ Done(p) \in Nat
         /\ Placed(lay, f, proc[p].ord, proc[p].block, proc[p].inner) /\ Full(lay, f)
         /\ Before(proc[p].ord) + proc[p].inner = proc[p].offset + Done(p)
         /\ inode[f].size = Larger(proc[p].offset + Len(d), Len(c))
         /\ Holds(lay, f, Overlaid(c, proc[p].offset, SubSeq(d, 1, Done(p))))
<1>1. Writes(p) /\ ProcTyped(p)
  BY DEF Puts, Kept, Fine
<1>2. IsSeq(d) /\ Len(d) \in Nat /\ proc[p].offset \in Nat /\ IsSeq(c) /\ Len(c) \in Nat
  BY <1>1, DataSeq DEF Kept, FilesWhole, IsSeq
<1>3. EndOf(p) = proc[p].offset + Len(d) /\ Done(p) = Len(d) - proc[p].left
  BY DEF EndOf, Done
<1>4. proc[p].left \in 1..Len(d)
  BY DEF Puts
<1>5. Done(p) \in Nat
  BY <1>2, <1>3, <1>4
<1>6. Placed(lay, f, proc[p].ord, proc[p].block, proc[p].inner)
  BY DEF Puts, Placed
<1>7. inode[f].size = Larger(proc[p].offset + Len(d), Len(c))
  BY <1>3 DEF Puts
<1> QED BY <1>2, <1>3, <1>4, <1>5, <1>6, <1>7 DEF Puts

(* There is a block for all that is put.                                   *)
LEMMA NextBlock ==
  ASSUME NEW lay, Kept(lay), NEW p \in Processes, NEW f, f = proc[p].file, f \in Heads,
         Puts(lay, p),
         Before(proc[p].ord + 1) < proc[p].offset + Len(Data(p))
  PROVE  /\ proc[p].ord \in Nat /\ proc[p].ord + 1 < Len(lay[f]) /\ ~NoNext(p)
         /\ cont[proc[p].block] = lay[f][proc[p].ord + 1 + 1]
<1>1. PICK d, c, o, b, e : d = Data(p) /\ c = shadow[f] /\ o = proc[p].ord /\ b = proc[p].block
      /\ e = proc[p].offset + Len(d)
  OBVIOUS
<1>2. Placed(lay, f, o, b, proc[p].inner) /\ Full(lay, f) /\ e \in Nat /\ Len(c) \in Nat
      /\ inode[f].size = Larger(e, Len(c))
  BY <1>1, PutIs
<1>3. o \in Nat /\ b \in Block /\ b \notin Metadata /\ o + 1 \in 1..Len(lay[f])
      /\ Len(lay[f]) \in Nat /\ b = lay[f][o + 1]
  <2>1. b = lay[f][o + 1]
    BY <1>2 DEF Placed
  <2> QED BY <1>2, <2>1, PlacedIs
<1>4. PICK n : n = Len(lay[f])
  OBVIOUS
<1>5. o + 1 < n
  <2>1. PICK m : m = o + 1
    OBVIOUS
  <2>2. PICK size : size = inode[f].size
    OBVIOUS
  <2>3. size \in Nat /\ e <= size
    BY <1>2, <2>2 DEF Larger
  <2>4. n = get_blocks_required(size)
    BY <1>2, <1>4, <2>2 DEF Full
  <2>5. size <= Before(n) /\ n \in Nat
    BY <2>3, <2>4, Required
  <2>6. m \in Nat /\ Before(m) < e
    BY <1>1, <1>3, <2>1
  <2>7. Before(m) \in Nat /\ Before(n) \in Nat
    BY <2>5, <2>6, BeforeStep
  <2>8. Before(m) < Before(n)
    BY <1>2, <2>3, <2>5, <2>6, <2>7
  <2> QED BY <2>1, <2>5, <2>6, <2>8, BeforeOrdered
<1>6. o + 1 \in 1..(n - 1)
  BY <1>3, <1>4, <1>5
<1>7. cont[b] = lay[f][o + 1 + 1]
  BY <1>3, <1>4, <1>6 DEF Kept, Laid
<1>8. ~NoNext(p)
  <2>1. cont[b] \in Block
    BY <1>3 DEF Kept, ImageTyped
  <2>2. b # 0 /\ ~(cont[b] >= blocks_count)
    BY <1>3, <2>1, LocalAssumption DEF Metadata, Block
  <2> QED BY <1>1, <2>2 DEF NoNext
<1> QED BY <1>1, <1>3, <1>4, <1>5, <1>7, <1>8

(* Another place, and the rest of the data.                                *)
LEMMA PutsAgain ==
  ASSUME NEW lay, Kept(lay), NEW p \in Processes, NEW f, f = proc[p].file, f \in Heads,
         Puts(lay, p), inode' = inode, shadow' = shadow,
         proc'[p].cmd = proc[p].cmd, proc'[p].chunk = proc[p].chunk, proc'[p].made = proc[p].made,
         proc'[p].todo = proc[p].todo, proc'[p].file = proc[p].file,
         proc'[p].offset = proc[p].offset,
         NEW d, d = Data(p), NEW c, c = shadow[f], NEW done, done = Len(d) - proc'[p].left,
         proc'[p].left \in 1..Len(d), Placed(lay, f, proc'[p].ord, proc'[p].block, proc'[p].inner),
         Before(proc'[p].ord) + proc'[p].inner = proc[p].offset + done,
         NEW off, off = proc[p].offset, Holds(lay, f, Overlaid(c, off, SubSeq(d, 1, done)))'
  PROVE  Puts(lay, p)'
<1>1. Data(p)' = d /\ EndOf(p)' = EndOf(p) /\ Writes(p)'
  BY DataOn DEF Puts
<1>2. Done(p)' = done
  BY <1>1 DEF Done
<1>3. shadow'[f] = c /\ proc'[p].file = f
      /\ inode'[f].size = Larger(EndOf(p)', Len(shadow'[f])) /\ proc'[p].offset <= Len(shadow'[f])
  BY <1>1 DEF Puts
<1>4. Full(lay, f)'
  BY DEF Puts, Full, get_blocks_required
<1>5. Overlaid(shadow[f], proc[p].offset, SubSeq(Data(p), 1, Done(p)))' = Overlaid(c, off, SubSeq(d, 1, done))'
  BY <1>1, <1>2, <1>3 DEF Overlaid
<1>6. Holds(lay, f, Overlaid(shadow[f], proc[p].offset, SubSeq(Data(p), 1, Done(p))))'
  BY <1>5
<1>7. (Before(proc[p].ord) + proc[p].inner = proc[p].offset + Done(p))'
  BY <1>2 DEF Before
<1>8. (proc[p].left \in 1..Len(Data(p)))'
  BY <1>1
<1>9. proc'[p].ord \in Nat /\ proc'[p].ord < Len(lay[f])
      /\ proc'[p].block = lay[f][proc'[p].ord + 1] /\ proc'[p].inner \in Nat
  BY DEF Placed
<1>10. inode'[f].size = Larger(EndOf(p), Len(shadow[f]))'
  BY <1>3 DEF Larger
<1> QED BY <1>1, <1>3, <1>4, <1>6, <1>7, <1>8, <1>9, <1>10 DEF Puts

(* skip, of a command that writes: the next block is nearer to the offset. *)
LEMMA SkipPutKept ==
  ASSUME NEW lay, Kept(lay), NEW p \in Processes, ~Race', skip(p), At(p, "put")
  PROVE  Kept(lay)'
<1>1. Fine(lay, p) /\ proc[p].claims
  BY DEF Kept, Fine, Unclaiming, At
<1>2. PICK f : f = proc[p].file /\ f \in Heads /\ Puts(lay, p)
  BY <1>1 DEF Fine, Claiming, Prepares, Growing, Shrinking, InTable, At
<1>3. PICK d, c, o, inner : d = Data(p) /\ c = shadow[f] /\ o = proc[p].ord /\ inner = proc[p].inner
  OBVIOUS
<1>4. /\ Len(d) \in Nat /\ proc[p].offset \in Nat /\ proc[p].left \in 1..Len(d)
      /\ Done(p) = Len(d) - proc[p].left /\ Done(p) \in Nat
      /\ Placed(lay, f, o, proc[p].block, inner)
      /\ Before(o) + inner = proc[p].offset + Done(p)
      /\ Holds(lay, f, Overlaid(c, proc[p].offset, SubSeq(d, 1, Done(p))))
  BY <1>2, <1>3, PutIs
<1>5. o \in Nat /\ inner \in Nat /\ inner > Room(o) /\ Cap(p) = Room(o)
  BY <1>3, <1>4 DEF Placed, skip, Cap, Room
<1>6. Before(o) \in Nat /\ Room(o) \in Nat /\ Before(o + 1) = Before(o) + Room(o)
  BY <1>5, BeforeStep
<1>7. Before(o + 1) < proc[p].offset + Len(d)
  <2>1. PICK off, done, n, left : off = proc[p].offset /\ done = Done(p) /\ n = Len(d)
        /\ left = proc[p].left
    OBVIOUS
  <2>2. done = n - left /\ left \in 1..n /\ n \in Nat /\ off \in Nat
        /\ Before(o) + inner = off + done
    BY <1>4, <2>1
  <2>3. PICK x, r : x = Before(o) /\ r = Room(o)
    OBVIOUS
  <2>4. x \in Nat /\ r \in Nat /\ inner \in Nat /\ inner > r /\ x + inner = off + done
    BY <1>5, <1>6, <2>2, <2>3
  <2>5. x + r < off + n
    BY <2>2, <2>4
  <2> QED BY <1>6, <2>1, <2>3, <2>5
<1>8. o + 1 < Len(lay[f]) /\ ~NoNext(p) /\ cont[proc[p].block] = lay[f][o + 1 + 1]
  BY <1>2, <1>3, <1>7, NextBlock
<1>9. PICK b, m, i, new : b = lay[f][o + 1 + 1] /\ m = o + 1 /\ i = inner - Room(o)
        /\ new = [block |-> b, ord |-> m] ++ [inner |-> i] /\ Goes(p, new)
  BY <1>3, <1>5, <1>8 DEF skip, Next1
<1>10. DOMAIN new = {"block", "ord", "inner"} /\ DOMAIN new \subseteq Fields
       /\ new["block"] = b /\ new["ord"] = m /\ new["inner"] = i
  BY <1>9 DEF Fields, ++
<1>11. Quiet /\ DOMAIN proc'[p] = Fields /\ Same(p, DOMAIN new)
       /\ proc'[p].block = b /\ proc'[p].ord = m /\ proc'[p].inner = i
  BY <1>9, <1>10, GoesOn
<1>12. proc'[p].chunk = proc[p].chunk /\ proc'[p].cmd = proc[p].cmd /\ proc'[p].file = f
       /\ proc'[p].offset = proc[p].offset /\ proc'[p].claims = proc[p].claims
       /\ proc'[p].at = "put"
       /\ proc'[p].made = proc[p].made /\ proc'[p].todo = proc[p].todo
       /\ proc'[p].left = proc[p].left
  BY <1>2, <1>10, <1>11 DEF Same, At
<1>13. Placed(lay, f, m, b, i)
  BY <1>2, <1>5, <1>6, <1>8, <1>9 DEF Placed
<1>14. Before(m) + i = proc[p].offset + Done(p)
  BY <1>4, <1>5, <1>6, <1>9
<1>15. PICK off, x, done : done = Done(p) /\ off = proc[p].offset
       /\ x = Overlaid(c, off, SubSeq(d, 1, done))
  OBVIOUS
<1>16. Holds(lay, f, x)'
  BY <1>4, <1>11, <1>15, HoldsOn DEF Quiet
<1>17. Holds(lay, f, Overlaid(c, off, SubSeq(d, 1, done)))'
  BY <1>15, <1>16 DEF Overlaid
<1>18. Puts(lay, p)'
  <2>1. done = Len(d) - proc'[p].left /\ proc'[p].left \in 1..Len(d)
        /\ Placed(lay, f, proc'[p].ord, proc'[p].block, proc'[p].inner)
        /\ Before(proc'[p].ord) + proc'[p].inner = proc[p].offset + done
    BY <1>4, <1>11, <1>12, <1>13, <1>14, <1>15
  <2>2. inode' = inode /\ shadow' = shadow
    BY <1>11 DEF Quiet
  <2> QED BY <1>2, <1>3, <1>12, <1>15, <1>17, <2>1, <2>2, PutsAgain
<1>19. Claiming(lay, p)'
  BY <1>2, <1>11, <1>12, <1>18 DEF Claiming, At, Quiet, Heads
<1>20. Taking(p)' /\ Reading(lay, p)'
  BY <1>12, NotAtTable, NotReading
<1> QED BY <1>1, <1>2, <1>9, <1>10, <1>12, <1>19, <1>20, ClaimStep DEF At
-----------------------------------------------------------------------------
(* Who reads a file while one memcpy adds to it has what it looks for      *)
(* below.                                                                  *)
LEMMA PutBeside ==
  ASSUME NEW lay, Kept(lay), NEW p \in Processes, NEW f, f = proc[p].file, f \in Heads,
         Puts(lay, p), proc[p].claims,
         At(p, "put"), NEW d, d = Data(p), NEW n \in Nat, NEW done, done = Done(p),
         Copied(proc[p].block, proc[p].inner, n, d, done), inode' = inode, Heads' = Heads,
         NEW how \in {"grown", "changed"}, how = "grown" => ~Is(p, {"write"}),
         NEW q \in Processes \ {p}, SameBut(q), proc'[q].disturbed \in {how, "changed"},
         Reader(q), proc[q].file = f, proc'[q].disturbed # "changed"
  PROVE  Reading(lay, q)'
<1>1. Reading(lay, q) /\ Beside(q, p) /\ Appends(p) /\ proc[q].disturbed # "changed"
  BY DEF Kept, Fine, SameBut
<1>2. Sees(lay, q) /\ SeesFile(lay, q) /\ IsSeq(proc[q].base)
  BY <1>1 DEF Reading, Sees
<1>3. ~Is(p, {"write"}) /\ ~Is(p, {"rm"})
  BY <1>1 DEF Beside, Claims, At
<1>4. Is(p, Makes) /\ proc[p].offset = Len(shadow[f]) /\ Len(proc[q].base) <= Len(shadow[f])
  BY <1>1, <1>3 DEF Puts, Writes, Beside, Claims, Appends
<1>5. PICK c, s : c = proc[q].base /\ s = Before(proc[p].ord) + proc[p].inner
  OBVIOUS
<1>6. Placed(lay, f, proc[p].ord, proc[p].block, proc[p].inner) /\ s = proc[p].offset + done
      /\ done \in Nat
      /\ proc[p].offset \in Nat
  <2>1. PICK x : x = shadow[f]
    OBVIOUS
  <2> QED BY <1>5, <2>1, PutIs
<1>7. IsSeq(c) /\ Holds(lay, f, c) /\ Len(c) <= inode[f].size
  BY <1>2, <1>5 DEF SeesFile
<1>8. Len(c) <= s
  <2>1. PICK m, off : m = Len(c) /\ off = proc[p].offset
    OBVIOUS
  <2>2. m \in Nat /\ off \in Nat /\ m <= off
    BY <1>4, <1>5, <1>6, <1>7, <2>1 DEF IsSeq
  <2>3. m <= off + done
    BY <1>6, <2>2
  <2> QED BY <1>6, <2>1, <2>3
<1>9. PICK o, b, inner : o = proc[p].ord /\ b = proc[p].block /\ inner = proc[p].inner
  OBVIOUS
<1>10. Holds(lay, f, c)'
  <2>1. Placed(lay, f, o, b, inner) /\ Copied(b, inner, n, d, done) /\ Len(c) <= Before(o) + inner
    BY <1>5, <1>6, <1>8, <1>9
  <2> QED BY <1>7, <2>1, HoldsBelow
<1>11. proc'[q].file = f /\ proc'[q].base = c /\ proc'[q].disturbed = "grown"
  BY <1>5 DEF SameBut
<1>12. SeesFile(lay, q)'
  <2>1. f \in Heads' /\ Len(c) <= inode'[f].size
    BY <1>7
  <2> QED BY <1>10, <1>11, <2>1 DEF SeesFile
<1> QED BY <1>1, <1>12, ReadingOn

(* What is left to show of a memcpy.                                       *)
LEMMA PutStep ==
  ASSUME NEW lay, Kept(lay), NEW p \in Processes, NEW f, f = proc[p].file, f \in Heads,
         Puts(lay, p), proc[p].claims,
         ~Race, ~Race', At(p, "put"), NEW d, d = Data(p), NEW n \in Nat, NEW done, done = Done(p),
         Copied(proc[p].block, proc[p].inner, n, d, done),
         UNCHANGED <<lookup_table, cont, inode, superblock, begun>>,
         NEW new, NEW how \in {"grown", "changed"}, Disturbs(p, new, how),
         how = "grown" => ~Is(p, {"write"}),
         Heads' = Heads, \A h \in Heads \ {f} : shadow'[h] = shadow[h], IsSeq(shadow[f])',
         ~Waits(p)', ~Reader(p)', Fine(lay, p)',
         (proc'[p].claims /\ proc'[p].file = f) \/ Whole(lay, f)',
         proc'[p].claims =>
             proc'[p].cmd = proc[p].cmd /\ proc'[p].file = f /\ (shadow' = shadow \/ Is(p, {"rm"}))
  PROVE  Kept(lay)'
<1>1. ImageTyped /\ Laid(lay) /\ superblock = "whole"
  BY DEF Kept
<1>2. PICK o, b, inner : o = proc[p].ord /\ b = proc[p].block /\ inner = proc[p].inner
  OBVIOUS
<1>3. Placed(lay, f, o, b, inner) /\ done \in Nat
  <2>1. PICK x : x = shadow[f]
    OBVIOUS
  <2> QED BY <1>2, <2>1, PutIs
<1>4. b \in Block /\ o \in Nat /\ inner \in Nat
      /\ \A h \in Heads \ {f} : \A i \in 1..Len(lay[h]) : lay[h][i] # b
  BY <1>3, PlacedIs
<1>5. Copied(b, inner, n, d, done)
  BY <1>2
<1>6. /\ cells' = [x \in Block |-> cells'[x]]
      /\ \A x \in Block \ {b} : cells'[x] = cells[x]
      /\ \A x \in Block : cells'[x] = [k \in 1..CommonCap |-> cells'[x][k]]
  BY <1>1, <1>4, <1>5, CopiedCells
<1>7. /\ proc' = [q \in Processes |-> proc'[q]]
      /\ \A q \in Processes \ {p} : SameBut(q)
      /\ \A q \in Processes \ {p} : Reader(q) /\ proc[q].file = f => proc'[q].disturbed \in {how, "changed"}
  <2>1. \A q \in Processes : (At(q, "idle") => proc[q] = IDLE) /\ DOMAIN proc[q] = Fields
    BY DEF Kept, Fine, ProcTyped
  <2> QED BY <2>1, DisturbsOthers
<1>8. ImageTyped'
  BY <1>1, <1>6, <1>7 DEF ImageTyped
<1>9. Laid(lay)'
  BY <1>1 DEF Laid, Heads
<1>10. ASSUME NEW h \in Heads \ {f} PROVE Steady(lay, lay, h)
  <2>1. lay[h] \in Seq(Block) /\ Len(lay[h]) \in Nat
    BY HeadIsBlock
  <2>2. \A i \in 1..Len(lay[h]) : lay[h][i] \in Block \ {b}
    BY <1>4, <2>1
  <2>3. \A i \in 1..Len(lay[h]) : cells'[lay[h][i]] = cells[lay[h][i]]
    BY <1>6, <2>2
  <2> QED BY <2>3 DEF Steady, Heads
<1>11. ASSUME NEW q \in Processes \ {p}, Waits(q)
       PROVE \A i \in 1..Len(lay[f]) : lay[f][i] # proc[q].found
  BY <1>11 DEF Kept, Fine, Taken
<1>12. ASSUME NEW q \in Processes \ {p}, Reader(q), proc[q].file = f, proc'[q].disturbed # "changed"
       PROVE  Reading(lay, q)'
  BY <1>7, <1>12, PutBeside
<1>13. ASSUME NEW q \in Processes \ {p} PROVE Beside(p, q)' /\ Beside(q, p)'
  <2>1. Beside(p, q)'
    BY DEF Beside
  <2>2. Beside(q, p)'
    <3> SUFFICES ASSUME Reader(q)', proc'[q].disturbed # "changed", Claims(p, proc[q].file)'
                 PROVE Beside(q, p)'
      BY DEF Beside
    <3>1. SameBut(q) /\ Beside(q, p)
      BY <1>7 DEF Kept
    <3>2. proc'[p].claims /\ proc'[p].cmd = proc[p].cmd /\ proc'[p].file = f
          /\ proc[q].file = f /\ Reader(q)
          /\ proc[q].disturbed # "changed"
      BY <3>1 DEF Claims, Reader, SameBut
    <3>3. ~Is(p, {"rm"}) /\ (Is(p, Makes) => Len(proc[q].base) <= Len(shadow[f]))
      BY <3>1, <3>2 DEF Beside, Claims, At
    <3>4. shadow' = shadow
      BY <3>2, <3>3
    <3> QED BY <3>1, <3>2, <3>3, <3>4 DEF Beside, Is, SameBut, Claims
  <2> QED BY <2>1, <2>2
<1>14. superblock' = "whole"
  BY <1>1
<1> QED BY <1>7, <1>8, <1>9, <1>10, <1>11, <1>12, <1>13, <1>14, FileStep
-----------------------------------------------------------------------------
(* How many cells one memcpy of put copies.                                *)
LEMMA ShareIs ==
  ASSUME NEW p, proc[p].ord \in Nat, proc[p].inner \in Nat, proc[p].left \in Nat,
         proc[p].inner <= Cap(p)
  PROVE  /\ Share(p) \in Nat /\ Share(p) <= proc[p].left
         /\ proc[p].inner + Share(p) <= Room(proc[p].ord)
         /\ Share(p) # proc[p].left =>
                proc[p].left > Share(p) /\ proc[p].inner + Share(p) = Room(proc[p].ord)
<1>1. PICK c, i, l : c = Cap(p) /\ i = proc[p].inner /\ l = proc[p].left
  OBVIOUS
<1>2. c = Room(proc[p].ord) /\ c \in Nat /\ i \in Nat /\ l \in Nat /\ i <= c
  BY <1>1, LocalAssumption DEF Cap, Room
<1>3. Share(p) = IF c - i < l THEN c - i ELSE l
  BY <1>1 DEF Share
<1>4. PICK n : n = Share(p)
  OBVIOUS
<1>5. n \in Nat /\ n <= l /\ i + n <= c /\ (n # l => l > n /\ i + n = c)
  BY <1>2, <1>3, <1>4
<1> QED BY <1>1, <1>2, <1>4, <1>5

(* What a memcpy of put does, when the file has been laid out.             *)
LEMMA PutDoes ==
  ASSUME NEW lay, Kept(lay), NEW p \in Processes, NEW f, f = proc[p].file, f \in Heads,
         Puts(lay, p), put(p),
         NEW n, n = Share(p), NEW d, d = Data(p), NEW done, done = Done(p)
  PROVE  /\ Copied(proc[p].block, proc[p].inner, n, d, done)
         /\ UNCHANGED <<lookup_table, cont, inode, superblock, begun, broken>>
         /\ proc[p].left = n =>
                shadow' = [shadow EXCEPT ![f] = Overlaid(shadow[f], proc[p].offset, d)]
         /\ proc[p].left # n => shadow' = shadow
         /\ \E how \in {"grown", "changed"} : \E new :
              /\ how = "grown" => ~Is(p, {"write"})
              /\ Disturbs(p, new, how)
              /\ proc[p].left = n => new = Written(p)
              /\ proc[p].left # n /\ ~NoNext(p) =>
                     new = Next1(p) ++ [left |-> proc[p].left - n, inner |-> 0]
<1>1. proc[p].block \notin Metadata
  <2>1. PICK c : c = shadow[f]
    OBVIOUS
  <2>2. PICK o, b, inner : o = proc[p].ord /\ b = proc[p].block /\ inner = proc[p].inner
    OBVIOUS
  <2>3. Placed(lay, f, o, b, inner)
    BY <2>1, <2>2, PutIs
  <2> QED BY <2>2, <2>3, PlacedIs
<1>2. done = Len(Data(p)) - proc[p].left
  BY DEF Done
<1>3. /\ cells' = [cells EXCEPT ![proc[p].block] = [i \in DOMAIN @ |-> IF i > proc[p].inner /\ i <= proc[p].inner + n
                                                                       THEN Data(p)[done + i - proc[p].inner] ELSE @[i]]]
      /\ UNCHANGED superblock
  BY <1>1, <1>2 DEF put
<1>4. Copied(proc[p].block, proc[p].inner, n, d, done)
  BY <1>3 DEF Copied
<1>5. UNCHANGED <<lookup_table, cont, inode, begun, broken>>
  BY DEF put
<1>6. shadow' = IF proc[p].left = n /\ f \in DOMAIN shadow
                  THEN [shadow EXCEPT ![f] = Overlaid(@, proc[p].offset, d)] ELSE shadow
  BY DEF put
<1>7. PICK how, new, w, next : /\ how = (IF Is(p, {"write"}) THEN "changed" ELSE "grown")
         /\ w = Written(p) /\ next = Next1(p) ++ [left |-> proc[p].left - n, inner |-> 0]
         /\ new = IF proc[p].left = n THEN w ELSE IF proc[p].left > n
         /\ NoNext(p) THEN IDLE ELSE next
  OBVIOUS
<1>8. Disturbs(p, new, how)
  BY <1>7 DEF put
<1>9. how \in {"grown", "changed"} /\ (how = "grown" => ~Is(p, {"write"}))
  BY <1>7
<1>10. (proc[p].left = n => new = w) /\ (proc[p].left # n /\ ~NoNext(p) => new = next)
  BY <1>7
<1>11. proc[p].left = n => shadow' = [shadow EXCEPT ![f] = Overlaid(shadow[f], proc[p].offset, d)]
  BY <1>6 DEF Heads
<1>12. proc[p].left # n => shadow' = shadow
  BY <1>6
<1> QED BY <1>3, <1>4, <1>5, <1>7, <1>8, <1>9, <1>10, <1>11, <1>12

(* The whole of the data is at its place now.                              *)
LEMMA PutWhole ==
  ASSUME NEW lay, Kept(lay), NEW p \in Processes, NEW f, f = proc[p].file, f \in Heads,
         Puts(lay, p),
         At(p, "put"), NEW n, n = Share(p), proc[p].left = n, proc[p].inner <= Cap(p),
         NEW d, d = Data(p), NEW done, done = Done(p),
         Copied(proc[p].block, proc[p].inner, n, d, done),
         inode' = inode, NEW off, off = proc[p].offset, shadow'[f] = Overlaid(shadow[f], off, d)
  PROVE  Whole(lay, f)' /\ IsSeq(shadow[f])'
<1>1. PICK c, o, b, inner : c = shadow[f] /\ o = proc[p].ord /\ b = proc[p].block
      /\ inner = proc[p].inner
  OBVIOUS
<1>2. /\ IsSeq(d) /\ Len(d) \in Nat /\ IsSeq(c) /\ Len(c) \in Nat
      /\ off \in Nat /\ off <= Len(c) /\ proc[p].left \in 1..Len(d)
      /\ done = Len(d) - proc[p].left /\ done \in Nat
      /\ Placed(lay, f, o, b, inner) /\ Full(lay, f) /\ Before(o) + inner = off + done
      /\ inode[f].size = Larger(off + Len(d), Len(c))
      /\ Holds(lay, f, Overlaid(c, off, SubSeq(d, 1, done)))
  BY <1>1, PutIs
<1>3. o \in Nat /\ inner \in Nat
  BY <1>2 DEF Placed
<1>4. n \in Nat /\ inner + n <= Room(o)
  <2>1. proc[p].ord \in Nat /\ proc[p].inner \in Nat /\ proc[p].left \in Nat
    BY <1>1, <1>2, <1>3
  <2>2. Share(p) \in Nat /\ proc[p].inner + Share(p) <= Room(proc[p].ord)
    BY <2>1, ShareIs
  <2> QED BY <1>1, <2>2
<1>5. done + n = Len(d)
  <2>1. PICK m : m = Len(d)
    OBVIOUS
  <2>2. m \in Nat /\ done = m - n
    BY <1>2, <2>1
  <2>3. done + n = m
    BY <1>4, <2>2
  <2> QED BY <2>1, <2>3
<1>6. Puttable(o, inner, n, c, d, off, done)
  BY <1>2, <1>4, <1>5 DEF Puttable
<1>7. Copied(b, inner, n, d, done)
  BY <1>1
<1>8. Holds(lay, f, Overlaid(c, off, SubSeq(d, 1, done + n)))'
  BY <1>2, <1>6, <1>7, HoldsPut
<1>9. SubSeq(d, 1, Len(d)) = d
  <2>1. PICK e : e = SubSeq(d, 1, Len(d))
    OBVIOUS
  <2>2. Len(d) \in 0..Len(d)
    BY <1>2
  <2>3. IsSeq(e) /\ Len(e) = Len(d) /\ \A i \in 1..Len(d) : e[i] = d[i]
    BY <1>2, <2>1, <2>2, StartOf
  <2>4. e = d
    BY <1>2, <2>3, SameSeq
  <2> QED BY <2>1, <2>4
<1>10. PICK x : x = Overlaid(c, off, d)
  OBVIOUS
<1>11. x = shadow'[f]
  BY <1>1, <1>10
<1>12. Holds(lay, f, x)'
  <2>1. Overlaid(c, off, SubSeq(d, 1, done + n)) = x
    BY <1>5, <1>9, <1>10
  <2>2. Overlaid(c, off, SubSeq(d, 1, done + n))' = x
    BY <2>1 DEF Overlaid
  <2> QED BY <1>8, <2>2
<1>13. IsSeq(x) /\ Len(x) = Larger(off + Len(d), Len(c))
  BY <1>2, <1>10, OverlaidIs
<1>14. inode'[f].size = Len(shadow'[f])
  BY <1>2, <1>11, <1>13
<1>15. Full(lay, f)'
  BY <1>2 DEF Full, get_blocks_required
<1>16. Holds(lay, f, shadow[f])'
  BY <1>11, <1>12
<1>17. IsSeq(shadow[f])'
  BY <1>11, <1>13 DEF IsSeq
<1> QED BY <1>14, <1>15, <1>16, <1>17 DEF Whole
-----------------------------------------------------------------------------
(* The command that has put all its data.                                  *)
LEMMA PutEnds ==
  ASSUME NEW lay, Kept(lay), NEW p \in Processes, NEW f, f = proc[p].file, f \in Heads,
         Puts(lay, p), proc[p].claims,
         ~Race, ~Race', At(p, "put"), put(p), proc[p].left = Share(p)
  PROVE  Kept(lay)'
<1>1. PICK n, d, done, off : n = Share(p) /\ d = Data(p) /\ done = Done(p) /\ off = proc[p].offset
  OBVIOUS
<1>2. /\ Copied(proc[p].block, proc[p].inner, n, d, done)
      /\ UNCHANGED <<lookup_table, cont, inode, superblock, begun>>
      /\ shadow' = [shadow EXCEPT ![f] = Overlaid(shadow[f], off, d)]
      /\ proc[p].inner <= Cap(p)
  BY Zenon, <1>1, PutDoes DEF put
<1>3. PICK how, new : /\ how \in {"grown", "changed"} /\ (how = "grown" => ~Is(p, {"write"}))
                     /\ Disturbs(p, new, how) /\ new = Written(p)
  BY <1>1, PutDoes
<1>4. Heads' = Heads /\ \A h \in Heads \ {f} : shadow'[h] = shadow[h]
  BY <1>2 DEF Heads
<1>5. shadow'[f] = Overlaid(shadow[f], off, d)
  BY <1>2 DEF Heads
<1>6. Whole(lay, f)' /\ IsSeq(shadow[f])'
  BY <1>1, <1>2, <1>5, PutWhole
<1>7. Fine(lay, p) /\ DOMAIN proc[p] = Fields /\ Writes(p) /\ proc[p].chunk \in Nat \ {0}
      /\ ProcTyped(p)
  BY DEF Kept, Fine, ProcTyped, Puts
<1>8. proc'[p] = new ++ proc[p]
  <2>1. \A q \in Processes : (At(q, "idle") => proc[q] = IDLE) /\ DOMAIN proc[q] = Fields
    BY DEF Kept, Fine, ProcTyped
  <2> QED BY <1>3, <2>1, DisturbsOthers
<1>9. n \in Nat
  <2>1. PICK c : c = shadow[f]
    OBVIOUS
  <2>2. proc[p].left \in 1..Len(d) /\ Len(d) \in Nat
    BY <1>1, <2>1, PutIs
  <2> QED BY <1>1, <2>2
<1>10. ASSUME ~Waits(p)', ~Reader(p)', Fine(lay, p)',
              proc'[p].claims => proc'[p].cmd = proc[p].cmd /\ proc'[p].file = f /\ Is(p, {"rm"})
       PROVE  Kept(lay)'
  BY <1>1, <1>2, <1>3, <1>4, <1>6, <1>9, <1>10, PutStep
<1>11. CASE Is(p, {"write"})
  <2>1. PICK k, e : k = proc[p].chunk + 1 /\ e = proc[p].offset + Len(Data(p))
    OBVIOUS
  <2>2. e \in Nat /\ k \in Nat \ {0}
    <3>1. EndOf(p) \in Nat
      BY <1>7, DataSeq
    <3> QED BY <1>7, <2>1, <3>1 DEF EndOf
  <2>3. new = [at |-> "write", claims |-> FALSE, chunk |-> k, offset |-> e]
    <3> DEFINE x == [at |-> "write", claims |-> FALSE, chunk |-> proc[p].chunk + 1, offset |-> proc[p].offset + Len(Data(p))]
               z == [at |-> "reappend", todo |-> Tail(proc[p].todo)]
    <3>1. new = CASE Is(p, {"write"}) -> x [] Is(p, Makes) -> IDLE [] OTHER -> z
      BY <1>3 DEF Written
    <3>2. ~Is(p, Makes)
      BY <1>11 DEF Is, Makes
    <3> HIDE DEF x, z
    <3>3. new = x
      BY <1>11, <3>1, <3>2
    <3> QED BY <2>1, <3>3 DEF x
  <2>4. DOMAIN new = {"at", "claims", "chunk", "offset"} /\ DOMAIN new \subseteq Fields
        /\ new["at"] = "write" /\ new["claims"] = FALSE /\ new["chunk"] = k /\ new["offset"] = e
    BY <2>3 DEF Fields
  <2>5. DOMAIN proc'[p] = Fields /\ Same(p, DOMAIN new) /\ proc'[p].at = "write"
        /\ proc'[p].claims = FALSE
        /\ proc'[p].chunk = k /\ proc'[p].offset = e
    BY <1>7, <1>8, <2>4, Joined
  <2>6. proc'[p].cmd = proc[p].cmd /\ proc'[p].file = f
    BY <2>4, <2>5 DEF Same
  <2>7. ProcTyped(p)'
    BY <1>7, <2>2, <2>5, <2>6, TypedStill
  <2>8. Unclaiming(p)'
    BY <1>4, <1>11, <2>2, <2>5, <2>6 DEF Unclaiming, At, Is, InFile
  <2>9. ~Reader(p)' /\ Taking(p)'
    BY <2>5, NotReading, NotAtTable
  <2>10. Fine(lay, p)' /\ ~Waits(p)'
    BY <2>5, <2>7, <2>8, <2>9, PlainFine
  <2> QED BY <1>10, <2>5, <2>9, <2>10
<1>12. CASE Is(p, Makes)
  <2>1. new = IDLE
    <3> DEFINE x == [at |-> "write", claims |-> FALSE, chunk |-> proc[p].chunk + 1, offset |-> proc[p].offset + Len(Data(p))]
               z == [at |-> "reappend", todo |-> Tail(proc[p].todo)]
    <3>1. new = CASE Is(p, {"write"}) -> x [] Is(p, Makes) -> IDLE [] OTHER -> z
      BY <1>3 DEF Written
    <3>2. ~Is(p, {"write"})
      BY <1>12 DEF Is, Makes
    <3> HIDE DEF x, z
    <3> QED BY <1>12, <3>1, <3>2
  <2>2. DOMAIN IDLE = Fields
    BY DEF IDLE, Fields
  <2>3. proc'[p] = IDLE
    <3>1. proc'[p] = [x \in Fields |-> IDLE[x]]
      BY <1>7, <1>8, <2>1, <2>2 DEF ++
    <3>2. IDLE = [x \in Fields |-> IDLE[x]]
      BY <2>2 DEF IDLE
    <3> QED BY <3>1, <3>2
  <2> QED BY <1>10, <2>3, IdleFine
<1>13. CASE Is(p, {"rm"})
  <2>1. PICK t : t = Tail(proc[p].todo)
    OBVIOUS
  <2>2. IsSeq(t)
    <3>1. IsSeq(proc[p].todo) /\ proc[p].todo # <<>>
      BY <1>7, <1>13 DEF Writes, Is, Makes
    <3>2. PICK S : proc[p].todo \in Seq(S)
      BY <3>1, IsSeqIn
    <3>3. t \in Seq(S)
      BY <2>1, <3>1, <3>2
    <3> QED BY <3>3, SeqIsSeq
  <2>3. new = [at |-> "reappend", todo |-> t]
    <3> DEFINE x == [at |-> "write", claims |-> FALSE, chunk |-> proc[p].chunk + 1, offset |-> proc[p].offset + Len(Data(p))]
               z == [at |-> "reappend", todo |-> Tail(proc[p].todo)]
    <3>1. new = CASE Is(p, {"write"}) -> x [] Is(p, Makes) -> IDLE [] OTHER -> z
      BY <1>3 DEF Written
    <3>2. ~Is(p, {"write"}) /\ ~Is(p, Makes)
      BY <1>13 DEF Is, Makes
    <3> HIDE DEF x, z
    <3>3. new = z
      BY <3>1, <3>2
    <3> QED BY <2>1, <3>3 DEF z
  <2>4. DOMAIN new = {"at", "todo"} /\ DOMAIN new \subseteq Fields /\ new["at"] = "reappend"
        /\ new["todo"] = t
    BY <2>3 DEF Fields
  <2>5. DOMAIN proc'[p] = Fields /\ Same(p, DOMAIN new) /\ proc'[p].at = "reappend"
        /\ proc'[p].todo = t
    BY <1>7, <1>8, <2>4, Joined
  <2>6. proc'[p].cmd = proc[p].cmd /\ proc'[p].file = f /\ proc'[p].claims = proc[p].claims
        /\ proc'[p].chunk = proc[p].chunk
    BY <2>4, <2>5 DEF Same
  <2>7. ProcTyped(p)'
    BY <1>7, <2>5, <2>6, TypedStill
  <2>8. Prepares(p)'
    BY <1>13, <2>2, <2>5, <2>6 DEF Prepares, At, Is, IsSeq
  <2>9. Claiming(lay, p)'
    BY <1>4, <1>6, <2>6, <2>8 DEF Claiming
  <2>10. Reading(lay, p)' /\ ~Reader(p)' /\ Taking(p)' /\ ~Waits(p)'
    BY <2>5, NotReading, NotAtTable DEF Waits
  <2>11. Appends(p)' /\ Unclaiming(p)' /\ Taken(lay, p)'
    <3>1. ~Is(p, Makes)'
      BY <1>13, <2>6 DEF Is, Makes
    <3> QED BY <2>6, <2>10, <3>1 DEF Appends, Unclaiming, Taken
  <2>12. Fine(lay, p)'
    BY <2>7, <2>9, <2>10, <2>11 DEF Fine
  <2> QED BY <1>10, <1>13, <2>6, <2>10, <2>12
<1> QED BY <1>7, <1>11, <1>12, <1>13 DEF Writes
-----------------------------------------------------------------------------
(* The command that goes on with the next block.                           *)
LEMMA PutGoesOn ==
  ASSUME NEW lay, Kept(lay), NEW p \in Processes, NEW f, f = proc[p].file, f \in Heads,
         Puts(lay, p), proc[p].claims,
         ~Race, ~Race', At(p, "put"), put(p), proc[p].left # Share(p)
  PROVE  Kept(lay)'
<1>1. PICK n, d, done, off, c, o, b, inner, left :
        /\ n = Share(p) /\ d = Data(p) /\ done = Done(p) /\ off = proc[p].offset /\ c = shadow[f]
        /\ o = proc[p].ord /\ b = proc[p].block /\ inner = proc[p].inner /\ left = proc[p].left
  OBVIOUS
<1>2. /\ Copied(b, inner, n, d, done) /\ UNCHANGED <<lookup_table, cont, inode, superblock, begun>>
      /\ shadow' = shadow /\ inner <= Cap(p) /\ left # n
  BY <1>1, PutDoes DEF put
<1>3. /\ IsSeq(d) /\ Len(d) \in Nat /\ IsSeq(c) /\ Len(c) \in Nat
      /\ off \in Nat /\ off <= Len(c) /\ left \in 1..Len(d) /\ done = Len(d) - left /\ done \in Nat
      /\ Placed(lay, f, o, b, inner) /\ Before(o) + inner = off + done
      /\ Holds(lay, f, Overlaid(c, off, SubSeq(d, 1, done)))
  BY <1>1, PutIs
<1>4. o \in Nat /\ inner \in Nat
  BY <1>3 DEF Placed
<1>5. n \in Nat /\ n < left /\ inner + n = Room(o)
  <2>1. proc[p].ord \in Nat /\ proc[p].inner \in Nat /\ proc[p].left \in Nat
        /\ proc[p].inner <= Cap(p)
    BY <1>1, <1>2, <1>3, <1>4
  <2>2. Share(p) \in Nat /\ Share(p) # proc[p].left =>
            proc[p].left > Share(p) /\ proc[p].inner + Share(p) = Room(proc[p].ord)
    BY <2>1, ShareIs
  <2>3. Share(p) \in Nat
    BY <2>1, ShareIs
  <2>4. left > n /\ left \in Nat /\ n \in Nat /\ inner + n = Room(o)
    BY <1>1, <1>2, <1>3, <2>2, <2>3
  <2> QED BY <2>4
<1>6. PICK more, l, len : more = done + n /\ l = left - n /\ len = Len(d)
  OBVIOUS
<1>7. more \in Nat /\ l \in 1..len /\ more = len - l /\ more <= len /\ more < len
  <2>1. len \in Nat /\ left \in 1..len /\ done = len - left /\ n \in Nat /\ n < left
    BY <1>3, <1>5, <1>6
  <2> QED BY <1>6, <2>1
<1>8. Before(o) \in Nat /\ Room(o) \in Nat /\ Before(o + 1) = Before(o) + Room(o)
  BY <1>4, BeforeStep
<1>9. Before(o + 1) = off + more
  <2>1. Before(o) + inner = off + done /\ off \in Nat /\ done \in Nat
    BY <1>3
  <2>2. PICK x, r : x = Before(o) /\ r = Room(o)
    OBVIOUS
  <2>3. x \in Nat /\ r \in Nat /\ inner \in Nat /\ n \in Nat /\ x + inner = off + done
        /\ inner + n = r
    BY <1>4, <1>5, <1>8, <2>1, <2>2
  <2>4. x + r = off + (done + n)
    BY <2>1, <2>3
  <2> QED BY <1>6, <1>8, <2>2, <2>4
<1>10. Before(o + 1) < off + len
  BY <1>3, <1>6, <1>7, <1>9
<1>11. Before(proc[p].ord + 1) < proc[p].offset + Len(Data(p))
  BY <1>1, <1>6, <1>10
<1>12. o + 1 < Len(lay[f]) /\ ~NoNext(p) /\ cont[b] = lay[f][o + 1 + 1]
  BY <1>1, <1>11, NextBlock
<1>13. PICK b2, o2 : b2 = cont[b] /\ o2 = o + 1
  OBVIOUS
<1>14. PICK how, new :
         /\ how \in {"grown", "changed"} /\ (how = "grown" => ~Is(p, {"write"}))
         /\ Disturbs(p, new, how) /\ new = Next1(p) ++ [left |-> l, inner |-> 0]
  BY <1>1, <1>2, <1>6, <1>12, PutDoes
<1>15. DOMAIN new = {"block", "ord", "left", "inner"} /\ DOMAIN new \subseteq Fields
       /\ new["block"] = b2 /\ new["ord"] = o2 /\ new["left"] = l /\ new["inner"] = 0
  <2>1. Next1(p) = [block |-> b2, ord |-> o2]
    BY <1>1, <1>13 DEF Next1
  <2>2. DOMAIN new = {"block", "ord", "left", "inner"}
       /\ new["block"] = b2 /\ new["ord"] = o2 /\ new["left"] = l /\ new["inner"] = 0
    BY <1>14, <2>1 DEF ++
  <2> QED BY <2>2 DEF Fields
<1>16. Fine(lay, p) /\ ProcTyped(p) /\ DOMAIN proc[p] = Fields
  BY DEF Kept, Fine, ProcTyped
<1>17. proc'[p] = new ++ proc[p]
  <2>1. \A q \in Processes : (At(q, "idle") => proc[q] = IDLE) /\ DOMAIN proc[q] = Fields
    BY DEF Kept, Fine, ProcTyped
  <2> QED BY <1>14, <2>1, DisturbsOthers
<1>18. DOMAIN proc'[p] = Fields /\ Same(p, DOMAIN new)
       /\ proc'[p].block = b2 /\ proc'[p].ord = o2 /\ proc'[p].left = l /\ proc'[p].inner = 0
  BY <1>15, <1>16, <1>17, Joined
<1>19. proc'[p].chunk = proc[p].chunk /\ proc'[p].cmd = proc[p].cmd /\ proc'[p].file = f
       /\ proc'[p].offset = off /\ proc'[p].claims = proc[p].claims /\ proc'[p].at = "put"
       /\ proc'[p].made = proc[p].made /\ proc'[p].todo = proc[p].todo
  BY <1>1, <1>15, <1>18 DEF Same, At
<1>20. Placed(lay, f, o2, b2, 0)
  BY <1>3, <1>4, <1>12, <1>13 DEF Placed
<1>21. Before(o2) + 0 = off + more
  <2>1. off + more \in Nat
    BY <1>3, <1>7
  <2> QED BY <1>9, <1>13, <2>1
<1>22. Holds(lay, f, Overlaid(c, off, SubSeq(d, 1, more)))'
  <2>1. inner + n <= Room(o) /\ done + n <= Len(d)
    BY <1>5, <1>6, <1>7, <1>8
  <2>2. Puttable(o, inner, n, c, d, off, done)
    BY <1>3, <1>5, <2>1 DEF Puttable
  <2> QED BY <1>2, <1>3, <1>6, <2>2, HoldsPut
<1>23. Puts(lay, p)'
  <2>1. more = Len(d) - proc'[p].left /\ proc'[p].left \in 1..Len(d)
        /\ Placed(lay, f, proc'[p].ord, proc'[p].block, proc'[p].inner)
        /\ Before(proc'[p].ord) + proc'[p].inner = proc[p].offset + more
    BY <1>1, <1>6, <1>7, <1>18, <1>20, <1>21
  <2>2. inode' = inode /\ proc'[p].offset = proc[p].offset /\ proc'[p].file = proc[p].file
    BY <1>1, <1>2, <1>19
  <2> QED BY <1>1, <1>2, <1>19, <1>22, <2>1, <2>2, PutsAgain
<1>24. Claiming(lay, p)'
  BY <1>2, <1>19, <1>23 DEF Claiming, At, Heads
<1>25. Reading(lay, p)' /\ ~Reader(p)' /\ Taking(p)' /\ ~Waits(p)'
  BY <1>19, NotReading, NotAtTable DEF Waits
<1>26. ProcTyped(p)'
  <2>1. proc'[p].chunk \in Nat \ {0}
    BY <1>16, <1>19 DEF ProcTyped
  <2> QED BY <1>16, <1>18, <1>19, <2>1, TypedStill
<1>27. Appends(p)' /\ Unclaiming(p)' /\ Taken(lay, p)'
  <2>1. Appends(p)
    BY <1>16 DEF Fine
  <2>2. Appends(p)'
    BY <1>1, <1>2, <1>19, <2>1 DEF Appends, Is, Makes
  <2> QED BY <1>19, <1>25, <2>2 DEF Unclaiming, Taken
<1>28. Fine(lay, p)'
  BY <1>24, <1>25, <1>26, <1>27 DEF Fine
<1>29. Heads' = Heads /\ IsSeq(shadow[f])' /\ \A h \in Heads \ {f} : shadow'[h] = shadow[h]
  BY <1>1, <1>2, <1>3 DEF Heads, IsSeq
<1>30. Copied(proc[p].block, proc[p].inner, n, d, done)
  BY <1>1, <1>2
<1> QED BY <1>1, <1>2, <1>5, <1>14, <1>19, <1>25, <1>28, <1>29, <1>30, PutStep

(* put: one memcpy, and either the data is complete or the next block is   *)
(* linked.                                                                 *)
LEMMA PutKept ==
  ASSUME NEW lay, Kept(lay), NEW p \in Processes, ~Race, ~Race', put(p)
  PROVE  Kept(lay)'
<1>1. Fine(lay, p) /\ At(p, "put")
  BY DEF Kept, put
<1>2. proc[p].claims
  BY <1>1 DEF Fine, Unclaiming, At
<1>3. PICK f : f = proc[p].file /\ f \in Heads /\ Puts(lay, p)
  BY <1>1, <1>2 DEF Fine, Claiming, Prepares, Growing, Shrinking, InTable, At
<1> QED BY <1>1, <1>2, <1>3, PutEnds, PutGoesOn
-----------------------------------------------------------------------------
(* Chain follows the continuations.                                        *)
LEMMA ChainIs ==
  ASSUME ImageTyped, NEW b \in Block, NEW n, n = get_blocks_required(inode[b].size)
  PROVE  /\ n \in Nat \ {0} /\ Chain(b) \in Seq(Block) /\ Len(Chain(b)) = n
         /\ Chain(b) \in [1..n -> Block]
         /\ Chain(b)[1] = b
         /\ \A i \in 1..(n - 1) : Chain(b)[i + 1] = cont[Chain(b)[i]]
<1>1. cont \in [Block -> Block] /\ n \in Nat \ {0}
  BY Required DEF ImageTyped
<1>2. PICK m \in Nat : m = n - 1 /\ n = m + 1
  <2>1. n - 1 \in Nat /\ n = n - 1 + 1
    BY <1>1
  <2> QED BY <2>1
<1>3. PICK way : way = [k \in 1..m |-> cont]
  OBVIOUS
<1>4. way \in Ways(m, Block)
  BY <1>1, <1>3 DEF Ways
<1>5. PICK f : Follows(f, m, Block, b, way)
  BY <1>4, StepByStep
<1>6. f \in [0..m -> Block] /\ f[0] = b /\ \A k \in 1..m : f[k] = cont[f[k - 1]]
  BY <1>3, <1>5 DEF Follows
<1> DEFINE Value(g, i) == IF i = 1 THEN b ELSE IF g[i - 1] \in Block THEN cont[g[i - 1]] ELSE 0
           Full1(g) == [i \in 1..n |-> Value(g, i)]
<1>7. PICK e : e = [i \in 1..n |-> f[i - 1]]
  OBVIOUS
<1>8. e = Full1(e)
  <2>1. ASSUME NEW i \in 1..n PROVE e[i] = Value(e, i)
    <3>1. CASE i = 1
      BY <1>6, <1>7, <3>1
    <3>2. CASE i # 1
      <4>1. i - 1 \in 1..n /\ i - 1 \in 1..m /\ i - 1 - 1 \in 0..m
        BY <1>1, <1>2, <3>2
      <4>2. e[i] = f[i - 1] /\ e[i - 1] = f[i - 1 - 1]
        BY <1>7, <4>1
      <4>3. f[i - 1] = cont[f[i - 1 - 1]] /\ f[i - 1 - 1] \in Block
        BY <1>6, <4>1
      <4> QED BY <3>2, <4>2, <4>3
    <3> QED BY <3>1, <3>2
  <2> HIDE DEF Value
  <2> QED BY <1>7, <2>1
<1>9. PICK g : g = CHOOSE h : h = Full1(h)
  BY SMTT(30)
<1>10. g = Full1(g)
  BY Zenon, <1>8, <1>9
<1>11. \A i \in 1..n : g[i] = Value(g, i)
  <2> HIDE DEF Value
  <2>1. PICK h : h = Full1(g)
    OBVIOUS
  <2>2. \A i \in 1..n : h[i] = Value(g, i)
    BY <2>1
  <2> QED BY <1>10, <2>1, <2>2
<1>12. Chain(b) = [i \in 1..n |-> g[i]]
  BY <1>9 DEF Chain
<1>13. g[1] = b /\ \A i \in 1..(n - 1) : g[i + 1] = IF g[i] \in Block THEN cont[g[i]] ELSE 0
  <2>1. g[1] = b
    BY <1>1, <1>11
  <2>2. ASSUME NEW i \in 1..(n - 1) PROVE g[i + 1] = IF g[i] \in Block THEN cont[g[i]] ELSE 0
    <3>1. i + 1 \in 1..n /\ i + 1 # 1 /\ i + 1 - 1 = i
      BY <1>1
    <3> QED BY <1>11, <3>1
  <2> QED BY <2>1, <2>2
<1>14. \A i \in 1..n : g[i] \in Block
  <2> DEFINE T == {k \in Nat : k + 1 \in 1..n => g[k + 1] \in Block}
  <2>1. 0 \in T
    BY <1>1, <1>13
  <2>2. ASSUME NEW k \in 0..(m - 1), k \in T PROVE k + 1 \in T
    <3>1. k + 1 \in 1..(n - 1) /\ k + 1 \in 1..n /\ k + 1 \in Nat
      BY <1>1, <1>2
    <3>2. g[k + 1] \in Block
      BY <2>2, <3>1
    <3>3. g[k + 1 + 1] \in Block
      BY <1>1, <1>13, <3>1, <3>2
    <3> QED BY <3>1, <3>3
  <2> HIDE DEF T
  <2>3. \A k \in 0..m : k \in T
    BY <2>1, <2>2, UpTo
  <2>4. ASSUME NEW i \in 1..n PROVE g[i] \in Block
    <3>1. i - 1 \in 0..m /\ i - 1 + 1 = i
      BY <1>1, <1>2
    <3>2. i - 1 \in T
      BY <2>3, <3>1
    <3> QED BY <3>1, <3>2 DEF T
  <2> QED BY <2>4
<1>15. PICK c : c = Chain(b)
  OBVIOUS
<1>16. c \in [1..n -> Block] /\ c \in Seq(Block) /\ Len(c) = n /\ \A i \in 1..n : c[i] = g[i]
  <2>1. c \in [1..n -> Block] /\ \A i \in 1..n : c[i] = g[i]
    BY <1>12, <1>14, <1>15
  <2>2. c \in Seq(Block)
    BY <1>1, <2>1
  <2> QED BY <1>1, <2>1, <2>2
<1>17. c[1] = b /\ \A i \in 1..(n - 1) : c[i + 1] = cont[c[i]]
  <2>1. c[1] = b
    BY <1>1, <1>13, <1>16
  <2>2. ASSUME NEW i \in 1..(n - 1) PROVE c[i + 1] = cont[c[i]]
    <3>1. i \in 1..n /\ i + 1 \in 1..n
      BY <1>1
    <3>2. g[i + 1] = cont[g[i]]
      BY <1>13, <1>14, <3>1
    <3> QED BY <1>16, <3>1, <3>2
  <2> QED BY <2>1, <2>2
<1> QED BY <1>1, <1>15, <1>16, <1>17

(* It follows them along the blocks that are linked.                       *)
LEMMA ChainIsLaid ==
  ASSUME NEW lay, Kept(lay), NEW h \in Heads, NEW i \in 1..Len(lay[h]),
         i <= get_blocks_required(inode[h].size)
  PROVE  Chain(h)[i] = lay[h][i]
<1>1. PICK n, m, c : n = get_blocks_required(inode[h].size) /\ m = Len(lay[h]) /\ c = Chain(h)
  OBVIOUS
<1>2. h \in Block /\ m \in Nat \ {0} /\ lay[h][1] = h /\ ImageTyped
  BY <1>1, HeadIsBlock DEF Kept
<1>3. n \in Nat \ {0} /\ c[1] = h /\ \A k \in 1..(n - 1) : c[k + 1] = cont[c[k]]
  BY <1>1, <1>2, ChainIs
<1>4. \A k \in 1..(m - 1) : cont[lay[h][k]] = lay[h][k + 1]
  BY <1>1 DEF Kept, Laid
<1> DEFINE T == {k \in Nat : k + 1 <= n => c[k + 1] = lay[h][k + 1]}
<1>5. 0 \in T
  BY <1>2, <1>3
<1>6. ASSUME NEW k \in 0..((m - 1) - 1), k \in T PROVE k + 1 \in T
  <2>1. k + 1 \in Nat /\ k + 1 \in 1..(m - 1)
    BY <1>2
  <2> SUFFICES ASSUME k + 1 + 1 <= n PROVE c[k + 1 + 1] = lay[h][k + 1 + 1]
    BY <2>1
  <2>2. k + 1 \in 1..(n - 1) /\ k + 1 <= n
    BY <1>3
  <2>3. c[k + 1] = lay[h][k + 1]
    BY <1>6, <2>2
  <2> QED BY <1>3, <1>4, <2>1, <2>2, <2>3
<1>7. m - 1 \in Nat /\ i - 1 \in 0..(m - 1) /\ i - 1 + 1 = i
  BY <1>1, <1>2
<1> HIDE DEF T
<1>8. \A k \in 0..(m - 1) : k \in T
  BY <1>5, <1>6, <1>7, UpTo
<1>9. i - 1 \in T
  BY <1>7, <1>8
<1> QED BY <1>1, <1>7, <1>9 DEF T

(* No more blocks are linked than a file's size needs.                     *)
LEMMA LaidInChain ==
  ASSUME NEW lay, Kept(lay), NEW h \in Heads
  PROVE  /\ Len(lay[h]) <= get_blocks_required(inode[h].size)
         /\ \A i \in 1..Len(lay[h]) : lay[h][i] \in ToSet(Chain(h))
<1>1. PICK n, m : n = get_blocks_required(inode[h].size) /\ m = Len(lay[h])
  OBVIOUS
<1>2. n \in Nat \ {0} /\ m \in Nat \ {0} /\ h \in Block /\ ImageTyped
  BY <1>1, HeadIsBlock, Required DEF Kept
<1>3. m <= n
  <2>1. CASE \A q \in Processes : ~Claims(q, h)
    <3>1. Full(lay, h)
      BY <2>1, NobodysIsWhole DEF Whole
    <3> QED BY <1>1, <1>2, <3>1 DEF Full
  <2>2. CASE \E q \in Processes : Claims(q, h)
    <3>1. PICK p \in Processes : proc[p].claims /\ proc[p].file = h
      BY <2>2 DEF Claims
    <3>2. Claiming(lay, p)
      BY DEF Kept, Fine
    <3>3. \/ Full(lay, h)
          \/ Grows(lay, p)
          \/ Shrinks(lay, p)
      BY <3>1, <3>2 DEF Claiming, Whole, Puts
    <3>4. CASE Full(lay, h)
      BY <1>1, <1>2, <3>4 DEF Full
    <3>5. CASE Grows(lay, p)
      BY <1>1, <1>2, <3>1, <3>5 DEF Grows
    <3>6. CASE Shrinks(lay, p)
      BY <1>1, <1>2, <3>1, <3>6 DEF Shrinks
    <3> QED BY <3>3, <3>4, <3>5, <3>6
  <2> QED BY <2>1, <2>2
<1>4. ASSUME NEW i \in 1..m PROVE lay[h][i] \in ToSet(Chain(h))
  <2>1. i \in 1..n
    BY <1>2, <1>3
  <2>2. Chain(h)[i] = lay[h][i]
    BY <1>1, <2>1, ChainIsLaid
  <2>3. DOMAIN Chain(h) = 1..n
    BY <1>1, <1>2, ChainIs
  <2>4. PICK c : c = Chain(h)
    OBVIOUS
  <2>5. c[i] \in ToSet(c)
    BY <2>1, <2>3, <2>4 DEF ToSet
  <2> QED BY <2>2, <2>4, <2>5
<1> QED BY <1>1, <1>3, <1>4
-----------------------------------------------------------------------------
(* Storing the byte sets or clears one bit: nobody else has changed the    *)
(* byte since it was loaded.                                               *)
LEMMA BitStored ==
  ASSUME NEW lay, Kept(lay), NEW p \in Processes, store_byte(p)
  PROVE  /\ proc[p].found \in Block
         /\ Purging(p) => lookup_table' = lookup_table \ {proc[p].found}
         /\ ~Purging(p) =>
                lookup_table' = lookup_table \cup {proc[p].found}
                /\ proc[p].found \notin lookup_table
<1>1. PICK b, bits : b = proc[p].found /\ bits = proc[p].bits
  OBVIOUS
<1>2. b \in Block /\ bits = lookup_table \cap Byte(b) /\ (~Purging(p) => b \notin lookup_table)
  BY <1>1 DEF store_byte, Kept, Fine, Taking, InTable, At
<1>3. b \in Byte(b) /\ lookup_table \subseteq Block
  BY <1>2 DEF Byte, Kept, ImageTyped
<1>4. lookup_table' = (lookup_table \ Byte(b)) \cup (IF Purging(p) THEN bits \ {b} ELSE bits \cup {b})
  BY <1>1 DEF store_byte
<1>5. CASE Purging(p)
  <2>1. lookup_table' = lookup_table \ {b}
    BY <1>2, <1>3, <1>4, <1>5
  <2> QED BY <1>1, <1>2, <1>5, <2>1
<1>6. CASE ~Purging(p)
  <2>1. lookup_table' = lookup_table \cup {b}
    BY <1>2, <1>3, <1>4, <1>6
  <2> QED BY <1>1, <1>2, <1>6, <2>1
<1> QED BY <1>5, <1>6

(* What is purged is in no file and waited for by nobody.                  *)
LEMMA PurgedIsFree ==
  ASSUME NEW lay, Kept(lay), NEW p \in Processes, store_byte(p), ~broken', Purging(p)
  PROVE  /\ proc[p].found \notin Metadata
         /\ \A h \in Heads : \A i \in 1..Len(lay[h]) : lay[h][i] # proc[p].found
         /\ \A q \in Processes : Waits(q) => proc[q].found # proc[p].found
<1>1. ~InUse(proc[p].found)
  BY DEF store_byte
<1>2. \A h \in Heads : \A i \in 1..Len(lay[h]) : lay[h][i] # proc[p].found
  <2> SUFFICES ASSUME NEW h \in Heads, NEW i \in 1..Len(lay[h]) PROVE lay[h][i] # proc[p].found
    OBVIOUS
  <2>1. lay[h][i] \in ToSet(Chain(h))
    BY LaidInChain
  <2> QED BY <1>1, <2>1 DEF InUse, Heads
<1> QED BY <1>1, <1>2 DEF InUse, Waits

(* Where the command that has stored the byte goes on.                     *)
LEMMA StoredGoesOn ==
  ASSUME NEW lay, Kept(lay), NEW p \in Processes, store_byte(p)
  PROVE  /\ proc' = [q \in Processes |-> proc'[q]]
         /\ \A q \in Processes \ {p} : SameBut(q)
         /\ DOMAIN proc'[p] = Fields /\ Same(p, {"bits", "at"})
         /\ Purging(p) => proc'[p].at = "purged"
         /\ ~Purging(p) =>
                proc'[p].at = IF Is(p, Makes \cup {"init"})
                /\ proc[p].made = 0 THEN "init" ELSE "link"
<1>1. PICK where, new : /\ where = (IF Purging(p) THEN "purged"
                                    ELSE IF Is(p, Makes \cup {"init"})
                                    /\ proc[p].made = 0 THEN "init" ELSE "link")
                        /\ new = [bits |-> {}, at |-> where] /\ Becomes(p, new)
  BY DEF store_byte
<1>2. DOMAIN new = {"bits", "at"} /\ DOMAIN new \subseteq Fields /\ new["at"] = where
  BY <1>1 DEF Fields
<1>3. DOMAIN proc[p] = Fields /\ proc = [q \in Processes |-> proc[q]]
  BY DEF Kept, Fine, ProcTyped, ImageTyped
<1>4. proc' = [proc EXCEPT ![p] = new ++ proc[p]]
  BY <1>1 DEF Becomes
<1>5. proc'[p] = new ++ proc[p] /\ proc' = [q \in Processes |-> proc'[q]]
      /\ \A q \in Processes \ {p} : SameBut(q)
  BY <1>3, <1>4, OnlyOne
<1>6. DOMAIN proc'[p] = Fields /\ Same(p, DOMAIN new) /\ proc'[p].at = where
  BY <1>2, <1>3, <1>5, Joined
<1> QED BY <1>1, <1>2, <1>5, <1>6

(* The others at the table are at other bytes of it.                       *)
LEMMA OthersStored ==
  ASSUME NEW lay, Kept(lay), NEW p \in Processes, ~Race, store_byte(p), ~broken',
         NEW q \in Processes \ {p}, SameBut(q),
         Purging(p) \/ Waits(p)', proc'[p].found = proc[p].found
  PROVE  Taking(q)' /\ Taken(lay, q)'
<1>1. PICK b, c : b = proc[p].found /\ c = proc[q].found
  OBVIOUS
<1>2. Taking(q) /\ Taken(lay, q) /\ InTable(p)
  BY DEF Kept, Fine, store_byte, InTable, At
<1>3. /\ Purging(p) => lookup_table' = lookup_table \ {b}
      /\ ~Purging(p) => lookup_table' = lookup_table \cup {b} /\ b \notin lookup_table
  BY <1>1, BitStored
<1>4. Taking(q)'
  <2>1. CASE InTable(q)
    <3>1. b \div 8 # c \div 8
      BY <1>1, <1>2, <2>1 DEF Race
    <3>2. b \notin Byte(c) /\ b # c
      BY <3>1 DEF Byte
    <3>3. lookup_table' \cap Byte(c) = lookup_table \cap Byte(c)
          /\ (c \notin lookup_table => c \notin lookup_table')
      BY <1>3, <3>2
    <3>4. c \in Block /\ (~Purging(q) => c \notin lookup_table) /\ ~At(q, "purged")
          /\ (At(q, "store") => proc[q].bits = lookup_table \cap Byte(c))
      BY <1>1, <1>2, <2>1 DEF Taking, InTable, At
    <3>5. c \in Block /\ proc'[q].found = c /\ proc'[q].at = proc[q].at
          /\ proc'[q].bits = proc[q].bits
          /\ (Purging(q)' <=> Purging(q)) /\ Byte(proc'[q].found) = Byte(c)
      BY <1>1, <3>4 DEF SameBut, Purging, Is
    <3>6. (~Purging(q) => c \notin lookup_table')
          /\ (At(q, "store") => proc[q].bits = lookup_table' \cap Byte(c))
      BY <3>3, <3>4
    <3> QED BY <3>4, <3>5, <3>6 DEF Taking, At, InTable, Byte
  <2>2. CASE ~InTable(q)
    BY <1>2, <2>2 DEF Taking, At, InTable, SameBut
  <2> QED BY <2>1, <2>2
<1>5. Taken(lay, q)'
  <2> SUFFICES ASSUME Waits(q)' PROVE Taken(lay, q)'
    BY DEF Taken
  <2>1. Waits(q) /\ proc'[q].found = c
    BY <1>1 DEF Waits, SameBut
  <2>2. c \in lookup_table \ Metadata /\ \A h \in Heads : \A i \in 1..Len(lay[h]) : lay[h][i] # c
    BY <1>1, <1>2, <2>1 DEF Taken
  <2>3. b # c
    BY <1>1, <1>3, <2>1, <2>2, PurgedIsFree
  <2>4. Heads' = Heads /\ \A s \in Processes \ {p} : proc'[s] = proc[s]
    <3>1. \A s \in Processes \ {p} : proc'[s] = proc[s]
      <4>1. PICK new : Becomes(p, new)
        BY DEF store_byte
      <4>2. proc' = [proc EXCEPT ![p] = new ++ proc[p]] /\ proc = [s \in Processes |-> proc[s]]
        BY <4>1 DEF Becomes, Kept, ImageTyped
      <4> QED BY <4>2
    <3> QED BY <3>1 DEF Heads, store_byte
  <2>5. ASSUME NEW s \in Processes \ {q}, Waits(s)' PROVE proc'[s].found # proc'[q].found
    <3>1. CASE s = p
      BY <1>1, <2>1, <2>3, <3>1
    <3>2. CASE s # p
      <4>1. proc'[s] = proc[s] /\ Waits(s)
        BY <2>4, <2>5, <3>2 DEF Waits
      <4> QED BY <1>1, <1>2, <2>1, <4>1 DEF Taken
    <3> QED BY <3>1, <3>2
  <2>6. c \in lookup_table' \ Metadata
    BY <1>3, <2>2, <2>3
  <2>7. \A h \in Heads' : \A i \in 1..Len(lay[h]) : lay[h][i] # c
    BY <2>2, <2>4
  <2>8. Metadata' = Metadata
    BY DEF Metadata
  <2> QED BY <2>1, <2>5, <2>6, <2>7, <2>8 DEF Taken
<1> QED BY <1>4, <1>5

(* What is laid out stays marked.                                          *)
LEMMA LaidMarked ==
  ASSUME NEW lay, Kept(lay), NEW p \in Processes, store_byte(p), ~broken'
  PROVE  Laid(lay)' /\ lookup_table' \subseteq Block
<1>1. PICK b : b = proc[p].found
  OBVIOUS
<1>2. /\ b \in Block /\ (Purging(p) => lookup_table' = lookup_table \ {b})
      /\ ~Purging(p) => lookup_table' = lookup_table \cup {b}
  BY <1>1, BitStored
<1>3. lookup_table \subseteq Block /\ Metadata \subseteq lookup_table /\ Heads' = Heads
      /\ cont' = cont
  BY DEF Kept, ImageTyped, Laid, store_byte, Heads
<1>4. Purging(p) => b \notin Metadata /\ \A h \in Heads : \A i \in 1..Len(lay[h]) : lay[h][i] # b
  BY <1>1, PurgedIsFree
<1>5. ASSUME NEW h \in Heads PROVE lay[h] \in Seq(lookup_table' \ Metadata)
  <2>1. lay[h] \in Seq(Block) /\ Len(lay[h]) \in Nat
        /\ \A i \in 1..Len(lay[h]) : lay[h][i] \in lookup_table \ Metadata
    BY HeadIsBlock
  <2>2. \A i \in 1..Len(lay[h]) : lay[h][i] \in lookup_table' \ Metadata
    BY <1>2, <1>4, <2>1
  <2> QED BY <2>1, <2>2
<1>6. Metadata \subseteq lookup_table' /\ lookup_table' \subseteq Block
  BY <1>2, <1>3, <1>4
<1>7. Metadata' = Metadata
  BY DEF Metadata
<1>8. Laid(lay)
  BY DEF Kept
<1> QED BY <1>3, <1>5, <1>6, <1>7, <1>8 DEF Laid
-----------------------------------------------------------------------------
(* store_byte: a bit set is one the command waits to use, a bit cleared is *)
(* in no file.                                                             *)
LEMMA StoreKept ==
  ASSUME NEW lay, Kept(lay), NEW p \in Processes, ~Race, ~Race', ~broken', store_byte(p)
  PROVE  Kept(lay)'
<1>1. Fine(lay, p) /\ At(p, "store") /\ InTable(p) /\ ImageTyped
  BY DEF store_byte, Kept, InTable, At
<1>2. UNCHANGED <<cont, inode, cells, superblock, begun, shadow>>
  BY DEF store_byte
<1>3. /\ proc' = [q \in Processes |-> proc'[q]]
      /\ \A q \in Processes \ {p} : SameBut(q)
      /\ DOMAIN proc'[p] = Fields /\ Same(p, {"bits", "at"})
      /\ Purging(p) => proc'[p].at = "purged"
      /\ ~Purging(p) =>
             proc'[p].at = IF Is(p, Makes \cup {"init"}) /\ proc[p].made = 0 THEN "init" ELSE "link"
  BY StoredGoesOn
<1>4. /\ proc'[p].cmd = proc[p].cmd /\ proc'[p].chunk = proc[p].chunk
      /\ proc'[p].made = proc[p].made
      /\ proc'[p].claims = proc[p].claims /\ proc'[p].file = proc[p].file
      /\ proc'[p].found = proc[p].found
      /\ proc'[p].offset = proc[p].offset /\ proc'[p].block = proc[p].block
      /\ proc'[p].after = proc[p].after
  BY <1>3 DEF Same
<1>5. Laid(lay)' /\ lookup_table' \subseteq Block
  BY LaidMarked
<1>6. ImageTyped'
  BY <1>1, <1>2, <1>3, <1>5 DEF ImageTyped
<1>7. Heads' = Heads /\ \A h \in Heads : Steady(lay, lay, h)
  BY <1>2 DEF Heads, Steady
<1>8. proc'[p].at \in {"purged", "init", "link"}
  BY <1>3
<1>9. ~Purging(p) => Waits(p)'
  BY <1>3 DEF Waits
<1>10. ASSUME NEW h \in Heads'
       PROVE  \/ h \in Heads /\ Steady(lay, lay, h) /\ ~Claims(p, h)
              \/ IsSeq(shadow[h])' /\ (Claims(p, h)' \/ Whole(lay, h)')
  <2>1. h \in Heads /\ Steady(lay, lay, h)
    BY <1>7
  <2>2. IsSeq(shadow[h])'
    BY <1>2, <2>1 DEF Kept, FilesWhole, IsSeq
  <2>3. Claims(p, h) => Claims(p, h)'
    BY <1>4 DEF Claims
  <2> QED BY <2>1, <2>2, <2>3
<1>11. ASSUME NEW q \in Processes \ {p}
       PROVE  /\ Taking(q)' /\ Taken(lay, q)'
              /\ proc[q].claims => Steady(lay, lay, proc[q].file)
              /\ Reader(q) /\ proc'[q].disturbed # "changed" =>
                   Steady(lay, lay, proc[q].file) \/ Reading(lay, q)'
  <2>1. Fine(lay, q) /\ SameBut(q)
    BY <1>3 DEF Kept
  <2>2. Taking(q)' /\ Taken(lay, q)'
    BY <1>4, <1>9, <2>1, OthersStored
  <2>3. proc[q].claims => proc[q].file \in Heads
    BY <2>1 DEF Fine, Claiming
  <2>4. Reader(q) /\ proc'[q].disturbed # "changed" => proc[q].file \in Heads
    BY <2>1 DEF Fine, Reading, Sees, SeesFile, SameBut
  <2> QED BY <1>7, <2>2, <2>3, <2>4
<1>12. ~Reader(p)' /\ Reading(lay, p)'
  BY <1>8, NotReading
<1>13. ProcTyped(p)'
  <2>1. proc'[p].chunk \in Nat \ {0} /\ proc'[p].at # "idle" /\ ProcTyped(p)
    BY <1>1, <1>4, <1>8 DEF Fine, ProcTyped
  <2> QED BY <1>3, <1>4, <2>1, TypedStill
<1>14. Taking(p)'
  <2>1. proc[p].found \in Block
    BY <1>1 DEF Fine, Taking
  <2>2. proc'[p].at = "purged" => proc'[p].block \in Block
    <3> SUFFICES ASSUME proc'[p].at = "purged" PROVE proc'[p].block \in Block
      OBVIOUS
    <3>1. Purging(p)
      BY <1>3
    <3> QED BY <1>4, <2>1, <3>1 DEF Purging
  <2> QED BY <1>8, <2>2 DEF Taking, InTable, At, Block
<1>15. Taken(lay, p)'
  <2> SUFFICES ASSUME Waits(p)' PROVE Taken(lay, p)'
    BY DEF Taken
  <2>1. ~Purging(p)
    BY <1>3 DEF Waits
  <2>2. PICK b : b = proc[p].found
    OBVIOUS
  <2>3. lookup_table' = lookup_table \cup {b} /\ b \notin lookup_table
    BY <2>1, <2>2, BitStored
  <2>4. b \notin Metadata /\ \A h \in Heads : \A i \in 1..Len(lay[h]) : lay[h][i] # b
    BY <2>3, HeadIsBlock DEF Kept, Laid
  <2>5. ASSUME NEW q \in Processes \ {p}, Waits(q)' PROVE proc'[q].found # b
    <3>1. Waits(q) /\ proc'[q].found = proc[q].found
      BY <1>3, <2>5 DEF Waits, SameBut
    <3> QED BY <2>3, <3>1 DEF Kept, Fine, Taken
  <2> QED BY <1>4, <1>7, <2>2, <2>3, <2>4, <2>5 DEF Taken, Metadata
<1>16. Claiming(lay, p)'
  <2> SUFFICES ASSUME proc[p].claims PROVE Claiming(lay, p)'
    BY <1>4 DEF Claiming
  <2>1. Claiming(lay, p)
    BY <1>1 DEF Fine
  <2>2. Same(p, {"at", "found", "bits"}) /\ Same(p, {"at", "found", "bits", "block"})
    BY <1>3 DEF Same
  <2>3. CASE Growing(p) /\ Grows(lay, p)
    <3>1. ~Purging(p) /\ proc[p].ord < proc[p].left
      BY <1>1, <2>3 DEF Growing, Grows, At
    <3>2. Grows(lay, p)'
      BY <1>2, <2>2, <2>3, <3>1, GrowsOn
    <3>3. proc'[p].at = "link"
      <4>1. ~(Is(p, Makes \cup {"init"}) /\ proc[p].made = 0)
        BY <2>3 DEF Grows, Writes, Is, Makes
      <4> QED BY <1>3, <3>1, <4>1
    <3> QED BY <1>4, <1>7, <2>1, <3>2, <3>3 DEF Claiming, Growing
  <2>4. CASE Shrinking(p) /\ Shrinks(lay, p)
    <3>1. Purging(p) /\ proc[p].block \in Block
      BY <1>1, <2>4 DEF Shrinking, Shrinks, At
    <3>2. Shrinks(lay, p)'
      BY <1>2, <1>4, <2>2, <2>4, <3>1, ShrinksOn
    <3>3. proc'[p].at = "purged"
      BY <1>3, <3>1
    <3> QED BY <1>4, <1>7, <2>1, <3>2, <3>3 DEF Claiming, Shrinking
  <2> QED BY <1>1, <2>1, <2>3, <2>4 DEF Claiming, Prepares, At
<1>17. Unclaiming(p)' /\ Appends(p)'
  <2>1. Unclaiming(p)'
    <3>1. Unclaiming(p)
      BY <1>1 DEF Fine
    <3>2. CASE Purging(p)
      BY <1>1, <1>3, <1>4, <3>1, <3>2 DEF Unclaiming, At, Is, Purging, Makes
    <3>3. CASE ~Purging(p)
      BY <1>1, <1>3, <1>4, <1>7, <3>1, <3>3 DEF Unclaiming, At, Is, Makes, InFile
    <3> QED BY <3>2, <3>3
  <2>2. Appends(p)
    BY <1>1 DEF Fine
  <2>3. Appends(p)'
    BY <1>2, <1>4, <2>2 DEF Appends, Is, Makes
  <2> QED BY <2>1, <2>3
<1>18. Fine(lay, p)'
  BY <1>12, <1>13, <1>14, <1>15, <1>16, <1>17 DEF Fine
<1>19. ASSUME NEW q \in Processes \ {p} PROVE Beside(p, q)' /\ Beside(q, p)'
  <2>1. Beside(p, q)'
    BY <1>12 DEF Beside
  <2>2. Beside(q, p)'
    <3>1. Beside(q, p) /\ SameBut(q)
      BY <1>3 DEF Kept
    <3>2. proc[p].claims => Beside(q, p)'
      BY <1>1, <1>2, <1>4, <3>1, BesideStill DEF At
    <3>3. ~proc[p].claims => Beside(q, p)'
      BY <1>4 DEF Beside, Claims
    <3> QED BY <3>2, <3>3
  <2> QED BY <2>1, <2>2
<1>20. superblock' = "whole" /\ Heads \subseteq Heads'
  BY <1>2, <1>7 DEF Kept
<1> QED BY <1>3, <1>5, <1>6, <1>10, <1>11, <1>18, <1>19, <1>20, KeptStep
-----------------------------------------------------------------------------
(* A new file has one block, b, and it is empty.                           *)
NewAt(lay, lay2, b) ==
  /\ b \in lookup_table \ Metadata /\ \A h \in Heads : \A i \in 1..Len(lay[h]) : lay[h][i] # b
  /\ DOMAIN lay2 = Heads \cup {b} /\ lay2[b] = <<b>> /\ \A h \in Heads : h # b => lay2[h] = lay[h]

(* A block that is in no file is the only one of a new file.               *)
LEMMA NewLaid ==
  ASSUME NEW lay, Kept(lay), NEW lay2, NEW b, NewAt(lay, lay2, b),
         lookup_table' = lookup_table, cont' = [cont EXCEPT ![b] = 0], Heads' = Heads \cup {b}
  PROVE  /\ b \notin Heads /\ Laid(lay2)' /\ Len(lay2[b]) = 1 /\ lay2[b][1] = b
         /\ \A h \in Heads : lay2[h] = lay[h]
         /\ cont' \in [Block -> Block]
<1>0. /\ b \in lookup_table \ Metadata /\ \A h \in Heads : \A i \in 1..Len(lay[h]) : lay[h][i] # b
      /\ DOMAIN lay2 = Heads \cup {b} /\ lay2[b] = <<b>> /\ \A h \in Heads : h # b => lay2[h] = lay[h]
  BY DEF NewAt
<1>1. \A h \in Heads : lay[h][1] = h /\ lay[h] \in Seq(lookup_table \ Metadata) /\ Len(lay[h]) \in Nat \ {0}
  BY HeadIsBlock DEF Kept, Laid
<1>2. b \notin Heads
  <2> SUFFICES ASSUME b \in Heads PROVE FALSE
    OBVIOUS
  <2>1. lay[b][1] = b /\ 1 \in 1..Len(lay[b])
    BY <1>1
  <2> QED BY <1>0, <2>1
<1>3. lay2[b] = <<b>> /\ Len(lay2[b]) = 1 /\ lay2[b][1] = b /\ \A h \in Heads : lay2[h] = lay[h]
  BY <1>0, <1>2
<1>4. lookup_table \subseteq Block /\ cont \in [Block -> Block] /\ 0 \in Block /\ b \in Block
  BY <1>0, LocalAssumption DEF Kept, ImageTyped, Block
<1>5. cont' \in [Block -> Block] /\ \A x \in Block \ {b} : cont'[x] = cont[x]
  BY <1>4
<1>6. ASSUME NEW h \in Heads
      PROVE  \A i \in 1..(Len(lay[h]) - 1) : cont'[lay[h][i]] = lay[h][i + 1]
  <2> SUFFICES ASSUME NEW i \in 1..(Len(lay[h]) - 1) PROVE cont'[lay[h][i]] = lay[h][i + 1]
    OBVIOUS
  <2>1. Len(lay[h]) \in Nat
    BY <1>1
  <2>2. i \in 1..Len(lay[h])
    BY <2>1
  <2>3. lay[h][i] \in Block \ {b}
    BY <1>0, <1>1, <1>4, <2>2
  <2>4. cont[lay[h][i]] = lay[h][i + 1]
    BY DEF Kept, Laid
  <2> QED BY <1>5, <2>3, <2>4
<1>7. <<b>> \in Seq(lookup_table \ Metadata)
  BY <1>0
<1>8. ASSUME NEW h \in Heads \cup {b}
      PROVE  /\ lay2[h] \in Seq(lookup_table \ Metadata) /\ Len(lay2[h]) # 0 /\ lay2[h][1] = h
             /\ \A i \in 1..(Len(lay2[h]) - 1) : cont'[lay2[h][i]] = lay2[h][i + 1]
  <2>1. CASE h = b
    <3>1. PICK s : s = lay2[h]
      OBVIOUS
    <3>2. s \in Seq(lookup_table \ Metadata) /\ Len(s) = 1 /\ s[1] = h
      BY <1>3, <1>7, <2>1, <3>1
    <3>3. \A i \in 1..(Len(s) - 1) : cont'[s[i]] = s[i + 1]
      BY <3>2
    <3> QED BY <3>1, <3>2, <3>3
  <2>2. CASE h # b
    <3>1. h \in Heads /\ lay2[h] = lay[h]
      BY <1>3, <2>2
    <3> QED BY <1>1, <1>6, <3>1
  <2> QED BY <2>1, <2>2
<1>9. ASSUME NEW g \in Heads \cup {b}, NEW h \in Heads \cup {b}, NEW i \in 1..Len(lay2[g]),
             NEW j \in 1..Len(lay2[h]),
             lay2[g][i] = lay2[h][j]
      PROVE  g = h /\ i = j
  <2>1. ASSUME NEW l \in Heads \cup {b}, l = b, NEW k \in 1..Len(lay2[l])
        PROVE k = 1 /\ lay2[l][k] = b
    <3>1. PICK s : s = lay2[l]
      OBVIOUS
    <3>2. Len(s) = 1 /\ s[1] = b
      BY <1>3, <2>1, <3>1
    <3>3. k = 1
      BY <2>1, <3>1, <3>2
    <3> QED BY <3>1, <3>2, <3>3
  <2>2. ASSUME NEW l \in Heads \cup {b}, l # b, NEW k \in 1..Len(lay2[l])
        PROVE l \in Heads /\ lay2[l] = lay[l] /\ lay2[l][k] # b
    <3>1. l \in Heads /\ lay2[l] = lay[l]
      BY <1>3, <2>2
    <3>2. k \in 1..Len(lay[l])
      BY <2>2, <3>1
    <3> QED BY <1>0, <3>1, <3>2
  <2>3. CASE g = b /\ h = b
    BY <2>1, <2>3
  <2>4. CASE g = b /\ h # b
    <3>1. lay2[g][i] = b /\ lay2[h][j] # b
      BY <2>1, <2>2, <2>4
    <3> QED BY <1>9, <3>1
  <2>5. CASE g # b /\ h = b
    <3>1. lay2[g][i] # b /\ lay2[h][j] = b
      BY <2>1, <2>2, <2>5
    <3> QED BY <1>9, <3>1
  <2>6. CASE g # b /\ h # b
    <3>1. g \in Heads /\ h \in Heads /\ lay2[g] = lay[g] /\ lay2[h] = lay[h]
      BY <2>2, <2>6
    <3> QED BY <1>9, <3>1 DEF Kept, Laid
  <2> QED BY <2>3, <2>4, <2>5, <2>6
<1>10. Metadata \subseteq lookup_table /\ DOMAIN lay2 = Heads \cup {b} /\ Metadata' = Metadata
  BY <1>0 DEF Kept, Laid, Metadata
<1>11. Laid(lay2)'
  BY <1>8, <1>9, <1>10 DEF Laid
<1> QED BY <1>2, <1>3, <1>5, <1>11

(* init_new_file: there is a file more, and it is empty.                   *)
LEMMA InitKept ==
  ASSUME NEW lay, Kept(lay), NEW p \in Processes, ~Race', init_new_file(p)
  PROVE  \E lay2 : Kept(lay2)'
<1>1. Fine(lay, p) /\ At(p, "init") /\ ImageTyped /\ DOMAIN proc[p] = Fields
  BY DEF init_new_file, Kept, Fine, ProcTyped
<1>2. ~proc[p].claims
  BY <1>1 DEF Fine, Claiming, Prepares, Growing, Shrinking, InTable, At
<1>3. Is(p, {"init"}) \/ (Is(p, Makes) /\ InFile(p))
  BY <1>1, <1>2 DEF Fine, Unclaiming, At
<1>4. PICK b : b = proc[p].found
  OBVIOUS
<1>5. /\ b \in lookup_table \ Metadata
      /\ \A h \in Heads : \A i \in 1..Len(lay[h]) : lay[h][i] # b
      /\ \A q \in Processes \ {p} : Waits(q) => proc[q].found # b
  BY <1>1, <1>4 DEF Fine, Taken, Waits, At
<1>6. PICK flags : inode' = [inode EXCEPT ![b] = [size |-> 0, last |-> b, flags |-> flags]]
  BY <1>4 DEF init_new_file
<1>7. /\ cont' = [cont EXCEPT ![b] = 0]
      /\ shadow' = [h \in Heads \cup {b} |-> IF h = b THEN <<>> ELSE shadow[h]]
      /\ UNCHANGED <<lookup_table, cells, superblock, begun>>
  BY <1>4 DEF init_new_file, Heads
<1>8. Heads' = Heads \cup {b}
  BY <1>7 DEF Heads
<1>9. PICK lay2 : DOMAIN lay2 = Heads \cup {b} /\ lay2[b] = <<b>> /\ \A h \in Heads : h # b => lay2[h] = lay[h]
  <2>1. PICK l : l = [h \in Heads \cup {b} |-> IF h = b THEN <<b>> ELSE lay[h]]
    OBVIOUS
  <2>2. DOMAIN l = Heads \cup {b} /\ l[b] = <<b>> /\ \A h \in Heads : h # b => l[h] = lay[h]
    BY <2>1
  <2> QED BY <2>2
<1>10. /\ b \notin Heads /\ Laid(lay2)' /\ Len(lay2[b]) = 1 /\ lay2[b][1] = b
       /\ \A h \in Heads : lay2[h] = lay[h]
       /\ cont' \in [Block -> Block]
  <2>1. NewAt(lay, lay2, b)
    BY <1>5, <1>9 DEF NewAt
  <2> QED BY <1>7, <1>8, <2>1, NewLaid
<1>11. b \in Block /\ b # 0
  BY <1>1, <1>5, LocalAssumption DEF ImageTyped, Metadata, Block
<1>12. /\ inode' = [x \in Block |-> inode'[x]] /\ \A x \in Block \ {b} : inode'[x] = inode[x]
       /\ inode'[b] = [size |-> 0, last |-> b, flags |-> flags]
  BY <1>1, <1>6, <1>11 DEF ImageTyped
<1>13. inode'[b].size = 0 /\ inode'[b].last = b
       /\ inode'[b] = [size |-> inode'[b].size, flags |-> inode'[b].flags, last |-> inode'[b].last]
  BY <1>12
<1>14. shadow'[b] = <<>> /\ \A h \in Heads : shadow'[h] = shadow[h]
  BY <1>7, <1>10
<1>15. proc' = [q \in Processes |-> proc'[q]] /\ \A q \in Processes \ {p} : SameBut(q)
  <2>1. PICK r : proc' = [proc EXCEPT ![p] = r]
    <3>1. \/ proc' = [proc EXCEPT ![p] = IDLE]
          \/ Becomes(p, [made |-> b, at |-> "append"])
      BY <1>4 DEF init_new_file
    <3> QED BY <3>1 DEF Becomes
  <2>2. proc = [q \in Processes |-> proc[q]]
    BY <1>1 DEF ImageTyped
  <2> QED BY <2>1, <2>2, OnlyOne
<1>16. ImageTyped'
  <2>1. \A x \in Block : /\ inode'[x] = [size |-> inode'[x].size, flags |-> inode'[x].flags, last |-> inode'[x].last]
                         /\ inode'[x].size \in Nat
    <3> SUFFICES ASSUME NEW x \in Block
                 PROVE  /\ inode'[x] = [size |-> inode'[x].size, flags |-> inode'[x].flags, last |-> inode'[x].last]
                        /\ inode'[x].size \in Nat
      BY Zenon
    <3>1. CASE x = b
      BY <1>13, <3>1
    <3>2. CASE x # b
      BY <1>1, <1>12, <3>2 DEF ImageTyped
    <3> QED BY <3>1, <3>2
  <2> QED BY <1>1, <1>7, <1>10, <1>12, <1>15, <2>1 DEF ImageTyped
<1>17. ASSUME NEW h \in Heads PROVE Steady(lay, lay2, h)
  <2>1. h \in Block /\ h # b
    BY <1>10, HeadIsBlock
  <2> QED BY <1>7, <1>8, <1>10, <1>12, <1>14, <2>1 DEF Steady
<1>18. Whole(lay2, b)' /\ IsSeq(shadow[b])'
  <2>1. Len(shadow'[b]) = 0 /\ IsSeq(shadow[b])'
    <3>1. IsSeq(<<>>) /\ Len(<<>>) = 0
      BY DEF IsSeq
    <3> QED BY <1>14, <3>1 DEF IsSeq
  <2>2. Holds(lay2, b, shadow[b])'
    BY <1>10, <2>1, EmptyHolds
  <2>3. get_blocks_required(inode[b].size)' = 1
    BY <1>13, LocalAssumption DEF get_blocks_required
  <2>4. Full(lay2, b)'
    BY <1>10, <1>13, <2>3 DEF Full
  <2> QED BY <1>13, <2>1, <2>2, <2>4 DEF Whole
<1>19. ASSUME NEW h \in Heads'
       PROVE  \/ h \in Heads /\ Steady(lay, lay2, h) /\ ~Claims(p, h)
              \/ IsSeq(shadow[h])' /\ (Claims(p, h)' \/ Whole(lay2, h)')
  <2>1. CASE h = b
    BY <1>18, <2>1
  <2>2. CASE h # b
    BY <1>2, <1>8, <1>17, <2>2 DEF Claims
  <2> QED BY <2>1, <2>2
<1>20. ASSUME NEW q \in Processes \ {p}
       PROVE  /\ Taking(q)' /\ Taken(lay2, q)'
              /\ proc[q].claims => Steady(lay, lay2, proc[q].file)
              /\ Reader(q) /\ proc'[q].disturbed # "changed" =>
                   Steady(lay, lay2, proc[q].file) \/ Reading(lay2, q)'
  <2>1. Fine(lay, q) /\ SameBut(q)
    BY <1>15 DEF Kept
  <2>2. Taking(q)'
    BY <1>7, <2>1, TakingSame DEF Fine
  <2>3. proc[q].claims => proc[q].file \in Heads
    BY <2>1 DEF Fine, Claiming
  <2>4. Reader(q) /\ proc'[q].disturbed # "changed" => proc[q].file \in Heads
    BY <2>1 DEF Fine, Reading, Sees, SeesFile, SameBut
  <2>5. Taken(lay2, q)'
    <3> SUFFICES ASSUME Waits(q)' PROVE Taken(lay2, q)'
      BY DEF Taken
    <3>1. PICK c : c = proc[q].found
      OBVIOUS
    <3>2. Waits(q) /\ proc'[q].found = c /\ c # b
      BY <1>5, <2>1, <3>1 DEF Waits, SameBut
    <3>3. c \in lookup_table \ Metadata /\ \A h \in Heads : \A i \in 1..Len(lay[h]) : lay[h][i] # c
      BY <2>1, <3>1, <3>2 DEF Fine, Taken
    <3>4. ASSUME NEW h \in Heads', NEW i \in 1..Len(lay2[h]) PROVE lay2[h][i] # c
      <4>1. CASE h = b
        BY <1>10, <3>2, <3>4, <4>1
      <4>2. CASE h # b
        <5>1. h \in Heads /\ lay2[h] = lay[h]
          BY <1>8, <1>10, <4>2
        <5> QED BY <3>3, <3>4, <5>1
      <4> QED BY <4>1, <4>2
    <3>5. ASSUME NEW s \in Processes \ {q}, Waits(s)' PROVE proc'[s].found # c
      <4>1. s # p
        <5>1. proc'[p].at # "init" /\ proc'[p].at # "link"
          <6>1. CASE proc' = [proc EXCEPT ![p] = IDLE]
            <7>1. proc'[p] = IDLE
              BY <1>1, <6>1 DEF ImageTyped
            <7> QED BY <7>1 DEF IDLE
          <6>2. CASE Becomes(p, [made |-> b, at |-> "append"])
            <7>1. PICK new : new = [made |-> b, at |-> "append"]
              OBVIOUS
            <7>2. proc'[p] = new ++ proc[p] /\ DOMAIN new = {"made", "at"} /\ new["at"] = "append"
              BY <1>1, <6>2, <7>1 DEF Becomes, ImageTyped
            <7> QED BY <7>2 DEF ++
          <6> QED BY <1>4, <6>1, <6>2 DEF init_new_file
        <5> QED BY <3>5, <5>1 DEF Waits
      <4>2. SameBut(s)
        BY <1>15, <4>1
      <4>3. Waits(s) /\ proc'[s].found = proc[s].found
        BY <3>5, <4>2 DEF Waits, SameBut
      <4> QED BY <2>1, <3>1, <3>2, <4>3 DEF Fine, Taken
    <3>6. lookup_table' = lookup_table /\ Metadata' = Metadata
      BY <1>7 DEF Metadata
    <3> QED BY <3>2, <3>3, <3>4, <3>5, <3>6 DEF Taken
  <2> QED BY <1>17, <2>2, <2>3, <2>4, <2>5
<1>21. superblock' = "whole" /\ Heads \subseteq Heads'
  BY <1>7, <1>8 DEF Kept
<1>22. Fine(lay2, p)' /\ ~Reader(p)' /\ ~proc'[p].claims
  <2>1. CASE Is(p, {"init"})
    <3>1. proc' = [proc EXCEPT ![p] = IDLE]
      BY <2>1 DEF init_new_file
    <3>2. proc'[p] = IDLE
      BY <1>1, <3>1 DEF ImageTyped
    <3> QED BY <3>2, IdleFine
  <2>2. CASE ~Is(p, {"init"})
    <3>1. PICK new : new = [made |-> b, at |-> "append"] /\ Becomes(p, new)
      BY <1>4, <2>2 DEF init_new_file
    <3>2. DOMAIN new = {"made", "at"} /\ DOMAIN new \subseteq Fields /\ new["made"] = b
          /\ new["at"] = "append"
      BY <3>1 DEF Fields
    <3>3. proc'[p] = new ++ proc[p]
      BY <1>1, <3>1 DEF Becomes, ImageTyped
    <3>4. DOMAIN proc'[p] = Fields /\ Same(p, DOMAIN new) /\ proc'[p].made = b
          /\ proc'[p].at = "append"
      BY <1>1, <3>2, <3>3, Joined
    <3>5. proc'[p].claims = proc[p].claims /\ proc'[p].cmd = proc[p].cmd
          /\ proc'[p].chunk = proc[p].chunk
          /\ proc'[p].file = proc[p].file
      BY <3>2, <3>4 DEF Same
    <3>6. ProcTyped(p)'
      <4>1. proc'[p].chunk \in Nat \ {0} /\ ProcTyped(p)
        BY <1>1, <3>5 DEF Fine, ProcTyped
      <4> QED BY <3>4, <3>5, <4>1, TypedStill
    <3>7. Unclaiming(p)'
      BY <1>3, <1>8, <1>11, <2>2, <3>4, <3>5 DEF Unclaiming, At, Is, InFile, Makes
    <3>8. ~Reader(p)' /\ Taking(p)'
      BY <3>4, NotReading, NotAtTable
    <3> QED BY <1>2, <3>4, <3>5, <3>6, <3>7, <3>8, PlainFine
  <2> QED BY <2>1, <2>2
<1>23. \A q \in Processes \ {p} : Beside(p, q)' /\ Beside(q, p)'
  BY <1>22 DEF Beside, Claims
<1>24. Kept(lay2)'
  BY <1>10, <1>15, <1>16, <1>19, <1>20, <1>21, <1>22, <1>23, KeptStep
<1> QED BY <1>24

(* format: there is no file any more, and nobody else is at work.          *)
LEMMA FormatKept ==
  ASSUME NEW lay, Kept(lay), NEW p \in Processes, ~Race, format(p)
  PROVE  \E lay2 : Kept(lay2)'
<1>1. Fine(lay, p) /\ At(p, "format") /\ ImageTyped /\ DOMAIN proc[p] = Fields
  BY DEF format, Kept, Fine, ProcTyped
<1>2. ~proc[p].claims
  BY <1>1 DEF Fine, Claiming, Prepares, Growing, Shrinking, InTable, At
<1>3. Is(p, {"init"}) /\ proc[p].made = 0
  BY <1>1, <1>2 DEF Fine, Unclaiming, At
<1>4. \A q \in Processes \ {p} : proc[q] = IDLE
  BY <1>3 DEF Race, Kept, Fine, ProcTyped
<1>5. /\ lookup_table' = Metadata /\ shadow' = <<>>
      /\ UNCHANGED <<cont, inode, cells, superblock, begun>>
  BY DEF format
<1>6. PICK new : new = [at |-> "scan"] /\ Becomes(p, new)
  BY DEF format
<1>7. DOMAIN new = {"at"} /\ DOMAIN new \subseteq Fields /\ new["at"] = "scan"
  BY <1>6 DEF Fields
<1>8. /\ proc'[p] = new ++ proc[p] /\ proc' = [q \in Processes |-> proc'[q]]
      /\ \A q \in Processes \ {p} : proc'[q] = proc[q]
  <2>1. proc' = [proc EXCEPT ![p] = new ++ proc[p]]
    BY <1>6 DEF Becomes
  <2> QED BY <1>1, <2>1, OnlyOne DEF ImageTyped
<1>9. DOMAIN proc'[p] = Fields /\ Same(p, DOMAIN new) /\ proc'[p].at = "scan"
  BY <1>1, <1>7, <1>8, Joined
<1>10. proc'[p].claims = proc[p].claims /\ proc'[p].cmd = proc[p].cmd
       /\ proc'[p].chunk = proc[p].chunk
       /\ proc'[p].made = proc[p].made
  BY <1>7, <1>9 DEF Same
<1>11. Heads' = {}
  BY <1>5 DEF Heads
<1>12. Metadata' = Metadata /\ Metadata \subseteq Block
  BY LocalAssumption DEF Metadata, Block
<1>13. ImageTyped'
  BY <1>1, <1>5, <1>8, <1>12 DEF ImageTyped
<1>14. PICK lay2 : DOMAIN lay2 = {}
  <2>1. DOMAIN [h \in {} |-> 0] = {}
    OBVIOUS
  <2> QED BY <2>1
<1>15. Laid(lay2)' /\ FilesWhole(lay2)'
  BY <1>5, <1>11, <1>12, <1>14 DEF Laid, FilesWhole, Unclaimed, Heads
<1>16. Fine(lay2, p)' /\ ~Reader(p)' /\ ~proc'[p].claims
  <2>1. ProcTyped(p)'
    <3>1. proc'[p].chunk \in Nat \ {0} /\ ProcTyped(p)
      BY <1>1, <1>10 DEF Fine, ProcTyped
    <3> QED BY <1>9, <1>10, <3>1, TypedStill
  <2>2. Unclaiming(p)'
    BY <1>3, <1>9, <1>10 DEF Unclaiming, At, Is
  <2>3. ~Reader(p)' /\ Taking(p)'
    BY <1>9, NotReading, NotAtTable
  <2> QED BY <1>2, <1>9, <1>10, <2>1, <2>2, <2>3, PlainFine
<1>17. ASSUME NEW q \in Processes \ {p} PROVE Fine(lay2, q)' /\ ~Reader(q)' /\ ~proc'[q].claims
  <2>1. proc'[q] = IDLE
    BY <1>4, <1>8
  <2> QED BY <2>1, IdleFine
<1>18. \A q \in Processes : Fine(lay2, q)' /\ \A s \in Processes \ {q} : Beside(q, s)'
  <2>1. \A q \in Processes : Fine(lay2, q)' /\ ~Reader(q)'
    BY <1>16, <1>17
  <2> QED BY <2>1 DEF Beside
<1>19. superblock' = "whole"
  BY <1>5 DEF Kept
<1> QED BY <1>13, <1>15, <1>18, <1>19 DEF Kept
-----------------------------------------------------------------------------
(* Two sequences behind each other.                                        *)
LEMMA Behind ==
  ASSUME NEW a, IsSeq(a), NEW b, IsSeq(b)
  PROVE  LET c == a \o b IN
         /\ IsSeq(c) /\ Len(c) = Len(a) + Len(b)
         /\ \A i \in 1..Len(a) : c[i] = a[i]
         /\ \A i \in 1..Len(b) : c[Len(a) + i] = b[i]
<1>1. PICK S : S = {a[i] : i \in 1..Len(a)} \cup {b[i] : i \in 1..Len(b)}
  OBVIOUS
<1>2. a \in Seq(S) /\ b \in Seq(S)
  <2>1. a \in Seq({a[i] : i \in 1..Len(a)}) /\ b \in Seq({b[i] : i \in 1..Len(b)})
    BY IsSeqIn
  <2>2. Len(a) \in Nat /\ Len(b) \in Nat /\ a \in [1..Len(a) -> S] /\ b \in [1..Len(b) -> S]
    BY <1>1, <2>1
  <2> QED BY <2>2
<1>3. a \o b \in Seq(S)
  BY <1>2
<1>4. IsSeq(a \o b)
  BY <1>3, SeqIsSeq
<1> QED BY <1>2, <1>4

(* What stands in for the bytes that were not there to be read.            *)
LEMMA Padded ==
  ASSUME NEW a, IsSeq(a), NEW n \in Int
  PROVE  LET c == a \o [i \in 1..n |-> BLANK] IN
         /\ IsSeq(c) /\ Len(c) \in Nat /\ Len(c) = Len(a) + Larger(n, 0)
         /\ \A i \in 1..Len(a) : c[i] = a[i]
<1>1. PICK b : b = [i \in 1..n |-> BLANK]
  OBVIOUS
<1>2. Len(b) = Larger(n, 0) /\ IsSeq(b) /\ Larger(n, 0) \in Nat
  <2>1. CASE n \in Nat
    <3>1. b = [i \in 1..n |-> b[i]]
      BY <1>1
    <3>2. Len(b) = n /\ IsSeq(b)
      BY <2>1, <3>1, FunIsSeq
    <3> QED BY <2>1, <3>2 DEF Larger
  <2>2. CASE n \notin Nat
    <3>1. 1..n = 1..0 /\ 0 \in Nat /\ n < 0
      BY <2>2
    <3>2. b = [i \in 1..0 |-> b[i]]
      BY <1>1, <3>1
    <3>3. Len(b) = 0 /\ IsSeq(b)
      BY <3>1, <3>2, FunIsSeq
    <3> QED BY <3>1, <3>3 DEF Larger
  <2> QED BY <2>1, <2>2
<1>3. Len(a) \in Nat
  BY DEF IsSeq
<1>4. PICK c : c = a \o b
  OBVIOUS
<1>5. IsSeq(c) /\ Len(c) = Len(a) + Len(b) /\ \A i \in 1..Len(a) : c[i] = a[i]
  BY <1>2, <1>4, Behind
<1>6. Len(c) \in Nat
  BY <1>2, <1>3, <1>5
<1> QED BY <1>1, <1>2, <1>4, <1>5, <1>6

(* The next block of a file that is read, as far as there is more of it.   *)
LEMMA NextSeen ==
  ASSUME NEW lay, Kept(lay), NEW f \in Heads, NEW c, IsSeq(c), Holds(lay, f, c), NEW o \in Nat,
         Before(o + 1) < Len(c)
  PROVE  /\ o + 1 \in 1..(Len(lay[f]) - 1) /\ Before(o) < Len(c)
         /\ cont[lay[f][o + 1]] = lay[f][o + 2]
<1>1. Len(c) <= Before(Len(lay[f])) /\ Len(c) \in Nat
  BY DEF Holds, IsSeq
<1>2. Len(lay[f]) \in Nat \ {0}
  BY HeadIsBlock
<1>3. Before(o) \in Nat /\ Room(o) \in Nat /\ Before(o + 1) = Before(o) + Room(o)
      /\ Before(Len(lay[f])) \in Nat
  BY <1>2, BeforeStep
<1>4. Before(o + 1) < Before(Len(lay[f])) /\ o + 1 \in Nat
  BY <1>1, <1>3
<1>5. o + 1 < Len(lay[f])
  BY <1>2, <1>4, BeforeOrdered
<1>6. o + 1 \in 1..(Len(lay[f]) - 1)
  BY <1>2, <1>5
<1>7. cont[lay[f][o + 1]] = lay[f][o + 1 + 1]
  BY <1>6 DEF Kept, Laid
<1>8. o + 1 + 1 = o + 2
  OBVIOUS
<1> QED BY <1>1, <1>3, <1>6, <1>7, <1>8
-----------------------------------------------------------------------------
(* A step of a command that reads.                                         *)
LEMMA ReadStep ==
  ASSUME NEW lay, Kept(lay), NEW p \in Processes, ~Race', NEW new, Goes(p, new),
         DOMAIN new \subseteq {"at", "buf", "block", "ord", "inner", "left", "offset"},
         Reader(p), proc[p].at \in {"read", "get", "cat"},
         \/ proc'[p].at \in {"read", "get"}
         \/ proc'[p].at = proc[p].after
         \/ proc'[p].at = "printed" /\ proc[p].after = "cat",
         Is(p, Makes) => proc'[p].offset = proc[p].offset \/ ~proc[p].claims,
         Reading(lay, p)'
  PROVE  Kept(lay)'
<1>1. Fine(lay, p) /\ \A q \in Processes \ {p} : Beside(p, q)
  BY DEF Kept
<1>2. DOMAIN new \subseteq Fields
  BY DEF Fields
<1>3. Quiet /\ proc' = [proc EXCEPT ![p] = new ++ proc[p]] /\ DOMAIN proc'[p] = Fields
      /\ Same(p, DOMAIN new)
  BY <1>2, GoesOn
<1>4. /\ proc'[p].cmd = proc[p].cmd /\ proc'[p].chunk = proc[p].chunk
      /\ proc'[p].made = proc[p].made
      /\ proc'[p].claims = proc[p].claims /\ proc'[p].file = proc[p].file
      /\ proc'[p].base = proc[p].base
      /\ proc'[p].disturbed = proc[p].disturbed /\ proc'[p].after = proc[p].after
  BY <1>3 DEF Same
<1>5. CASE proc[p].claims
  <2>1. /\ Is(p, {"rm"}) /\ proc[p].disturbed = "no" /\ proc[p].after = "listed"
        /\ proc[p].at \in {"read", "get"}
        /\ Whole(lay, proc[p].file) /\ proc[p].file \in Heads
    BY <1>1, <1>5 DEF Fine, Claiming, Prepares, Growing, Shrinking, InTable, At
  <2>2. proc'[p].at \in {"read", "get", "listed"}
    BY <2>1
  <2>3. Prepares(p)'
    BY <1>4, <2>1, <2>2 DEF Prepares, Is, At
  <2>4. PICK f \in Heads : f = proc[p].file
    BY <2>1
  <2>5. Whole(lay, f)' /\ f \in Heads'
    BY <1>3, <2>1, <2>4, WholeOn
  <2>6. Claiming(lay, p)'
    BY <1>4, <2>3, <2>4, <2>5 DEF Claiming
  <2>7. Taking(p)'
    BY <2>2, NotAtTable
  <2>8. ~Is(p, Makes)
    BY <2>1 DEF Is, Makes
  <2> QED BY <1>2, <1>4, <1>5, <2>2, <2>6, <2>7, <2>8, ClaimStep
<1>6. CASE ~proc[p].claims
  <2>1. ~Is(p, {"init"}) /\ proc[p].made = 0 /\ proc[p].after \in {"find", "cat", "printed"}
    BY <1>1, <1>6 DEF Fine, Unclaiming, Reader, At
  <2>2. proc'[p].at \in {"read", "get", "find", "cat", "printed"}
        /\ (proc'[p].at = "cat" => proc[p].after = "cat")
    BY <2>1
  <2>3. ProcTyped(p)'
    BY <1>1, <1>3, <1>4, <2>2, TypedStill DEF Fine, ProcTyped
  <2>4. Unclaiming(p)'
    BY <1>4, <2>1, <2>2 DEF Unclaiming, Is, At
  <2>5. Taking(p)' /\ ~Waits(p)' /\ Taken(lay, p)'
    BY <2>2, NotAtTable DEF Waits, Taken
  <2>6. Fine(lay, p)'
    BY <1>4, <1>6, <2>3, <2>4, <2>5 DEF Fine, Claiming, Appends
  <2>7. ASSUME NEW q \in Processes \ {p} PROVE Beside(p, q)' /\ Beside(q, p)'
    <3>1. proc'[q] = proc[q]
      BY <1>3, OnlyOne DEF Kept, ImageTyped
    <3>2. Beside(p, q)'
      BY <1>1, <1>3, <1>4, <3>1 DEF Beside, Claims, Is, Quiet
    <3>3. Beside(q, p)'
      BY <1>4, <1>6 DEF Beside, Claims
    <3> QED BY <3>2, <3>3
  <2> QED BY <1>3, <1>6, <2>5, <2>6, <2>7, QuietStep
<1> QED BY <1>5, <1>6

(* purge_file reads the items of a directory, whatever they are.           *)
LEMMA ItemsStep ==
  ASSUME NEW lay, Kept(lay), NEW p \in Processes, NEW new, Goes(p, new),
         DOMAIN new \subseteq {"at", "buf", "block", "ord", "inner", "left", "offset"},
         ~Reader(p), proc[p].at \in {"read", "get"},
         proc'[p].at \in {"read", "get"} \/ proc'[p].at = proc[p].after
  PROVE  Kept(lay)'
<1>1. Fine(lay, p)
  BY DEF Kept
<1>2. DOMAIN new \subseteq Fields
  BY DEF Fields
<1>3. DOMAIN proc'[p] = Fields /\ Same(p, DOMAIN new)
  BY <1>2, GoesOn
<1>4. /\ proc'[p].cmd = proc[p].cmd /\ proc'[p].chunk = proc[p].chunk
      /\ proc'[p].claims = proc[p].claims
      /\ proc'[p].after = proc[p].after
  BY <1>3 DEF Same
<1>5. ~proc[p].claims
  BY <1>1 DEF Fine, Claiming, Prepares, Growing, Shrinking, InTable, At, Reader
<1>6. Is(p, {"rm"}) /\ proc[p].after = "items"
  BY <1>1, <1>5 DEF Fine, Unclaiming, At, Reader
<1>7. proc'[p].at \in {"read", "get", "items"}
  BY <1>6
<1>8. ProcTyped(p)'
  BY <1>1, <1>3, <1>4, <1>7, TypedStill DEF Fine, ProcTyped
<1>9. Unclaiming(p)' /\ ~Reader(p)'
  BY <1>4, <1>6, <1>7 DEF Unclaiming, Reader, Is, At
<1> QED BY <1>2, <1>4, <1>5, <1>7, <1>8, <1>9, NotAtTable, PlainStep
-----------------------------------------------------------------------------
(* What a reader knows of the file it reads.                               *)
LEMMA SeenFile ==
  ASSUME NEW lay, Kept(lay), NEW p \in Processes, Reader(p), proc[p].disturbed # "changed"
  PROVE  /\ Sees(lay, p) /\ proc[p].file \in Heads /\ proc[p].file \in Block
         /\ Holds(lay, proc[p].file, proc[p].base) /\ IsSeq(proc[p].base)
         /\ Len(proc[p].base) \in Nat
         /\ IsSeq(proc[p].buf) /\ Len(proc[p].buf) \in Nat
         /\ Len(proc[p].base) <= inode[proc[p].file].size /\ inode[proc[p].file].size \in Nat
         /\ proc[p].disturbed = "no" => Len(proc[p].base) = inode[proc[p].file].size
         /\ lay[proc[p].file][1] = proc[p].file
<1>1. Sees(lay, p)
  BY DEF Kept, Fine, Reading
<1>2. proc[p].file \in Heads
  BY <1>1 DEF Sees, SeesFile
<1>3. PICK f \in Heads : f = proc[p].file
  BY <1>2
<1>4. f \in Block /\ inode[f].size \in Nat /\ lay[f][1] = f
  BY HeadIsBlock
<1> QED BY <1>1, <1>2, <1>3, <1>4 DEF Sees, SeesFile, IsSeq

(* A reader that has read on still reads what is there.                    *)
LEMMA SeesStill ==
  ASSUME NEW lay, Kept(lay), NEW p \in Processes, Quiet,
         Same(p, {"at", "buf", "block", "ord", "inner", "left", "offset"}),
         Reader(p),
         proc[p].disturbed # "changed" =>
           /\ IsSeq(proc'[p].buf) /\ \A i \in 1..Len(proc'[p].buf) : i <= Len(proc[p].base) => proc'[p].buf[i] = proc[p].base[i]
           /\ proc'[p].at \in {"find", "listed", "printed"} =>
                /\ Len(proc[p].base) <= Len(proc'[p].buf)
                /\ proc[p].disturbed = "no" => Len(proc[p].base) = Len(proc'[p].buf)
           /\ proc'[p].at = "cat" => /\ proc[p].after = "cat"
                                     /\ proc[p].disturbed = "no" =>
                                            Len(proc'[p].buf) <= Len(proc[p].base)
           /\ AtRead(p)' /\ AtGet(lay, p)'
  PROVE  Reading(lay, p)'
<1>1. /\ proc'[p].base = proc[p].base /\ proc'[p].disturbed = proc[p].disturbed
      /\ proc'[p].after = proc[p].after
      /\ proc'[p].file = proc[p].file /\ proc'[p].want = proc[p].want
  BY DEF Same
<1> SUFFICES ASSUME proc[p].disturbed # "changed"
             PROVE  proc[p].disturbed \in {"no", "grown"} /\ Sees(lay, p)'
  BY <1>1 DEF Reading
<1>2. Sees(lay, p) /\ proc[p].disturbed \in {"no", "grown"}
  BY DEF Kept, Fine, Reading
<1>3. PICK f, c : f = proc[p].file /\ c = proc[p].base
  OBVIOUS
<1>4. f \in Heads /\ Holds(lay, f, c) /\ Len(c) <= inode[f].size /\ IsSeq(c)
  BY <1>2, <1>3 DEF Sees, SeesFile
<1>5. Holds(lay, f, c)' /\ inode' = inode /\ f \in Heads'
  BY <1>4, HoldsOn DEF Quiet, Heads
<1>6. SeesFile(lay, p)'
  BY <1>1, <1>2, <1>3, <1>4, <1>5 DEF Sees, SeesFile
<1>7. Agree(p)'
  BY <1>1 DEF Agree
<1> QED BY <1>1, <1>2, <1>3, <1>4, <1>6, <1>7 DEF Sees, At

(* Whether it reads the items to purge, or what somebody is to see.        *)
LEMMA ReadsOn ==
  ASSUME NEW lay, Kept(lay), NEW p \in Processes, ~Race', NEW new, Goes(p, new),
         DOMAIN new \subseteq {"at", "buf", "block", "ord", "inner", "left"},
         proc[p].at \in {"read", "get"},
         \/ proc'[p].at \in {"read", "get"}
         \/ proc'[p].at = proc[p].after
         \/ proc'[p].at = "printed" /\ proc[p].after = "cat",
         Reader(p) => Reading(lay, p)'
  PROVE  Kept(lay)'
<1>1. DOMAIN new \subseteq Fields
  BY DEF Fields
<1>2. proc'[p].offset = proc[p].offset
  BY <1>1, GoesOn DEF Same
<1>3. CASE Reader(p)
  BY <1>2, <1>3, ReadStep
<1>4. CASE ~Reader(p)
  BY <1>4, ItemsStep DEF Reader
<1> QED BY <1>3, <1>4

(* A reader that fails leaves everything whole.                            *)
LEMMA DiesReading ==
  ASSUME NEW lay, Kept(lay), NEW p \in Processes, proc[p].at \in {"read", "get"}, Dies(p)
  PROVE  Kept(lay)'
BY Prepared, ExitKept DEF Dies, Ends

(* b is a with n blanks behind it.                                         *)
BlanksBehind(b, a, n) == b = a \o [i \in 1..n |-> BLANK]

(* As Padded, with the result named.                                       *)
LEMMA BlanksAre ==
  ASSUME NEW a, IsSeq(a), NEW n \in Int, NEW b, BlanksBehind(b, a, n)
  PROVE  /\ IsSeq(b) /\ Len(b) \in Nat /\ Len(b) = Len(a) + Larger(n, 0)
         /\ \A i \in 1..Len(a) : b[i] = a[i]
BY Padded DEF BlanksBehind

(* Nothing more is there to read: all of the file has been read.           *)
LEMMA ReadsNothing ==
  ASSUME NEW lay, Kept(lay), NEW p \in Processes, ~Race', At(p, "read"), NEW new, Goes(p, new),
         proc[p].want = 0 \/ proc[p].offset = inode[proc[p].file].size,
         NEW w, w = IF proc[p].after = "cat" THEN "printed" ELSE proc[p].after,
         NEW n, n = IF proc[p].after = "cat" THEN 0 ELSE proc[p].count,
         NEW b, BlanksBehind(b, proc[p].buf, n), new = [at |-> w, buf |-> b]
  PROVE  Kept(lay)'
<1>1. DOMAIN new = {"at", "buf"} /\ DOMAIN new \subseteq Fields
  BY DEF Fields
<1>2. Quiet /\ Same(p, {"at", "buf"}) /\ proc'[p].at = w /\ proc'[p].buf = b
  <2>1. Quiet /\ Same(p, DOMAIN new) /\ \A x \in DOMAIN new : proc'[p][x] = new[x]
    BY <1>1, GoesOn
  <2> QED BY <1>1, <2>1
<1>3. ASSUME Reader(p) PROVE Reading(lay, p)'
  <2>1. Same(p, {"at", "buf", "block", "ord", "inner", "left", "offset"})
    BY <1>2 DEF Same
  <2>2. proc'[p].at \in {"find", "listed", "printed"}
    BY <1>2, <1>3 DEF Reader, At
  <2>3. AtRead(p)' /\ AtGet(lay, p)'
    BY <2>2 DEF AtRead, AtGet, At
  <2>4. ASSUME proc[p].disturbed # "changed"
        PROVE  /\ IsSeq(proc'[p].buf) /\ \A i \in 1..Len(proc'[p].buf) : i <= Len(proc[p].base) => proc'[p].buf[i] = proc[p].base[i]
               /\ Len(proc[p].base) <= Len(proc'[p].buf)
               /\ proc[p].disturbed = "no" => Len(proc[p].base) = Len(proc'[p].buf)
    <3>1. PICK a, c, m, s : a = proc[p].buf /\ c = proc[p].base /\ m = Len(a)
          /\ s = inode[proc[p].file].size
      OBVIOUS
    <3>2. /\ IsSeq(a) /\ m \in Nat /\ Len(c) \in Nat /\ Len(c) <= s /\ s \in Nat
          /\ proc[p].disturbed = "no" => Len(c) = s
          /\ \A i \in 1..m : i <= Len(c) => a[i] = c[i]
      BY <1>3, <2>4, <3>1, SeenFile DEF Sees, Agree
    <3>3. Sees(lay, p) /\ AtRead(p)
      BY <1>3, <2>4, SeenFile DEF Sees
    <3>4. proc[p].offset = m /\ proc[p].want \in Nat /\ BufSize \in Nat \ {0}
      BY <3>1, <3>3, LocalAssumption DEF AtRead
    <3>5. n \in Nat /\ Len(c) <= m + n /\ (proc[p].disturbed = "no" => Len(c) = m + n)
          /\ (n = 0 \/ Len(c) <= m)
      <4>1. CASE proc[p].after = "cat"
        <5>1. proc[p].want = BufSize /\ n = 0
          BY <3>1, <3>3, <4>1 DEF Sees
        <5> QED BY <3>1, <3>2, <3>4, <5>1
      <4>2. CASE proc[p].after # "cat"
        <5>1. /\ a = <<>> /\ proc[p].want = n /\ Len(c) <= n
              /\ proc[p].disturbed = "no" => n = Len(c)
          BY <3>1, <3>3, <4>2 DEF AtRead
        <5>2. m = 0
          BY <3>1, <5>1
        <5> QED BY <3>1, <3>2, <3>4, <5>1, <5>2
      <4> QED BY <4>1, <4>2
    <3>6. PICK d : d = b
      OBVIOUS
    <3>7. IsSeq(d) /\ Len(d) = m + n /\ \A i \in 1..m : d[i] = a[i]
      BY SMTT(30), <3>1, <3>2, <3>5, <3>6, BlanksAre DEF Larger
    <3>8. proc'[p].buf = d
      BY <1>2, <3>1, <3>6
    <3>9. ASSUME NEW i \in 1..Len(d), i <= Len(c) PROVE d[i] = c[i]
      <4>1. i \in 1..m
        BY <3>2, <3>5, <3>7, <3>9
      <4> QED BY <3>2, <3>7, <3>9, <4>1
    <3> QED BY <3>1, <3>5, <3>7, <3>8, <3>9
  <2> QED BY <1>2, <1>3, <2>1, <2>2, <2>3, <2>4, SeesStill
<1>4. proc'[p].at = proc[p].after \/ (proc'[p].at = "printed" /\ proc[p].after = "cat")
  BY <1>2
<1> QED BY <1>1, <1>3, <1>4, ReadsOn DEF At
-----------------------------------------------------------------------------
(* How much read_file is to copy.                                          *)
LeftOf(offset, want, size) == IF offset + want > size THEN size - offset ELSE want

(* read_file begins with the first block.                                  *)
LEMMA ReadsFirst ==
  ASSUME NEW lay, Kept(lay), NEW p \in Processes, ~Race', At(p, "read"), NEW new, Goes(p, new),
         proc[p].want # 0, proc[p].offset < inode[proc[p].file].size,
         NEW f, f = proc[p].file, NEW l, l = LeftOf(proc[p].offset, proc[p].want, inode[f].size),
         NEW off, off = proc[p].offset,
         new = [at |-> "get", block |-> f, ord |-> 0, inner |-> off, left |-> l]
  PROVE  Kept(lay)'
<1>1. DOMAIN new = {"at", "block", "ord", "inner", "left"} /\ DOMAIN new \subseteq Fields
  BY DEF Fields
<1>2. Quiet /\ Same(p, {"at", "block", "ord", "inner", "left"}) /\ proc'[p].at = "get"
      /\ proc'[p].block = f
      /\ proc'[p].ord = 0 /\ proc'[p].inner = off /\ proc'[p].left = l
  <2>1. Quiet /\ Same(p, DOMAIN new) /\ \A x \in DOMAIN new : proc'[p][x] = new[x]
    BY <1>1, GoesOn
  <2> QED BY <1>1, <2>1
<1>3. ASSUME Reader(p) PROVE Reading(lay, p)'
  <2>1. Same(p, {"at", "buf", "block", "ord", "inner", "left", "offset"})
    BY <1>2 DEF Same
  <2>2. /\ proc'[p].buf = proc[p].buf /\ proc'[p].base = proc[p].base
        /\ proc'[p].after = proc[p].after
        /\ proc'[p].disturbed = proc[p].disturbed /\ proc'[p].count = proc[p].count
        /\ proc'[p].file = f
    BY <1>2 DEF Same
  <2>3. AtRead(p)'
    BY <1>2 DEF AtRead, At
  <2>4. ASSUME proc[p].disturbed # "changed"
        PROVE  /\ IsSeq(proc'[p].buf) /\ \A i \in 1..Len(proc'[p].buf) : i <= Len(proc[p].base) => proc'[p].buf[i] = proc[p].base[i]
               /\ AtGet(lay, p)'
    <3>1. PICK a, c, m, n, s, w : /\ a = proc[p].buf /\ c = proc[p].base /\ m = Len(a) /\ n = Len(c)
                                  /\ s = inode[f].size /\ w = proc[p].want
      OBVIOUS
    <3>2. /\ IsSeq(a) /\ m \in Nat /\ n \in Nat /\ n <= s /\ s \in Nat /\ f \in Block
          /\ lay[f][1] = f
          /\ proc[p].disturbed = "no" => n = s
          /\ \A i \in 1..m : i <= n => a[i] = c[i]
      BY <1>3, <2>4, <3>1, SeenFile DEF Sees, Agree
    <3>3. Sees(lay, p) /\ AtRead(p)
      BY <1>3, <2>4, SeenFile DEF Sees
    <3>4. off = m /\ w \in Nat /\ w # 0 /\ off < s
      BY <3>1, <3>3 DEF AtRead
    <3>5. l = IF off + w > s THEN s - off ELSE w
      BY <3>1 DEF LeftOf
    <3>6. l \in Nat \ {0} /\ m + l <= s /\ (l = w \/ m + l = s) /\ Before(0) + off = m
      BY <3>2, <3>4, <3>5 DEF Before
    <3>7. proc[p].after = "cat" /\ proc[p].disturbed = "no" => m + l <= n
      BY <3>2, <3>6
    <3>8. proc[p].after # "cat" => /\ proc[p].count \in Nat /\ n <= m + l
                                   /\ proc[p].disturbed = "no" => proc[p].count = n /\ n = m + l
      <4> SUFFICES ASSUME proc[p].after # "cat"
                   PROVE  /\ proc[p].count \in Nat /\ n <= m + l
                          /\ proc[p].disturbed = "no" => proc[p].count = n /\ n = m + l
        OBVIOUS
      <4>1. /\ a = <<>> /\ proc[p].count = w /\ n <= w
            /\ proc[p].disturbed = "no" => w = n
        BY <3>1, <3>3 DEF AtRead
      <4>2. m = 0
        BY <3>1, <4>1
      <4> QED BY <3>2, <3>4, <3>6, <4>1, <4>2
    <3>9. off \in Nat /\ 0 + 1 = 1
      BY <3>2, <3>4
    <3>10. AtGet(lay, p)'
      BY <1>2, <2>2, <3>1, <3>2, <3>6, <3>7, <3>8, <3>9 DEF AtGet
    <3> QED BY <2>2, <3>1, <3>2, <3>10
  <2> QED BY <1>2, <1>3, <2>1, <2>3, <2>4, SeesStill
<1> QED BY <1>1, <1>2, <1>3, ReadsOn DEF At

(* read_file: all has been read, the offset is beyond the end, or there is *)
(* more to read.                                                           *)
LEMMA ReadKept ==
  ASSUME NEW lay, Kept(lay), NEW p \in Processes, ~Race', read_file(p)
  PROVE  Kept(lay)'
<1>1. At(p, "read")
  BY DEF read_file
<1>2. CASE Dies(p)
  BY <1>1, <1>2, DiesReading DEF At
<1>3. CASE (proc[p].want = 0 \/ proc[p].offset = inode[proc[p].file].size)
           /\ Goes(p, [at |-> IF proc[p].after = "cat" THEN "printed" ELSE proc[p].after,
                       buf |-> proc[p].buf \o [i \in 1 .. (IF proc[p].after = "cat" THEN 0 ELSE proc[p].count) |-> BLANK]])
  <2>1. PICK w, n : /\ w = IF proc[p].after = "cat" THEN "printed" ELSE proc[p].after
                    /\ n = IF proc[p].after = "cat" THEN 0 ELSE proc[p].count
    OBVIOUS
  <2>2. PICK b : BlanksBehind(b, proc[p].buf, n) /\ Goes(p, [at |-> w, buf |-> b])
    BY <1>3, <2>1 DEF BlanksBehind
  <2>3. PICK new : new = [at |-> w, buf |-> b]
    OBVIOUS
  <2>4. Goes(p, new)
    BY <2>2, <2>3
  <2>5. proc[p].want = 0 \/ proc[p].offset = inode[proc[p].file].size
    BY <1>3
  <2> HIDE <1>3
  <2> QED BY <1>1, <2>1, <2>2, <2>3, <2>4, <2>5, ReadsNothing
<1>4. ASSUME proc[p].want # 0, proc[p].offset < inode[proc[p].file].size,
             Goes(p, [at |-> "get", block |-> proc[p].file, ord |-> 0, inner |-> proc[p].offset,
                      left |-> IF proc[p].offset + proc[p].want > inode[proc[p].file].size
                               THEN inode[proc[p].file].size - proc[p].offset ELSE proc[p].want])
      PROVE  Kept(lay)'
  <2>1. PICK f, off, l : f = proc[p].file /\ off = proc[p].offset
        /\ l = LeftOf(proc[p].offset, proc[p].want, inode[f].size)
    OBVIOUS
  <2>2. Goes(p, [at |-> "get", block |-> f, ord |-> 0, inner |-> off, left |-> l])
    BY <1>4, <2>1 DEF LeftOf
  <2>3. PICK new : new = [at |-> "get", block |-> f, ord |-> 0, inner |-> off, left |-> l]
    OBVIOUS
  <2>4. Goes(p, new)
    BY <2>2, <2>3
  <2> QED BY <1>1, <1>4, <2>1, <2>3, <2>4, ReadsFirst
<1> QED BY <1>2, <1>3, <1>4 DEF read_file
-----------------------------------------------------------------------------
(* a and c are the same as far as both go.                                 *)
Agrees(a, c) == \A i \in 1..Len(a) : i <= Len(c) => a[i] = c[i]

(* Where a reader is in the file.                                          *)
LEMMA GetIs ==
  ASSUME NEW lay, Kept(lay), NEW p \in Processes, At(p, "get"), Reader(p),
         proc[p].disturbed # "changed",
         NEW a, a = proc[p].buf, NEW c, c = proc[p].base, NEW o, o = proc[p].ord, NEW f, f = proc[p].file
  PROVE  /\ IsSeq(a) /\ Len(a) \in Nat /\ IsSeq(c) /\ Len(c) \in Nat /\ Agrees(a, c)
         /\ f \in Heads /\ Holds(lay, f, c)
         /\ o \in Nat /\ proc[p].left \in Nat \ {0} /\ proc[p].inner \in Nat
         /\ proc[p].block \in Block
         /\ Before(o) + proc[p].inner = Len(a)
         /\ o = 0 \/ Before(o) < Len(c) => proc[p].block = lay[f][o + 1]
         /\ Cap(p) = Room(o) /\ Before(o) \in Nat /\ Room(o) \in Nat \ {0} /\ Room(o) <= CommonCap
         /\ Before(o + 1) = Before(o) + Room(o)
<1>1. Sees(lay, p) /\ AtGet(lay, p)
  BY SeenFile DEF Sees
<1>2. o \in Nat
  BY <1>1 DEF AtGet
<1>3. Before(o) \in Nat /\ Room(o) \in Nat \ {0} /\ Room(o) <= CommonCap
      /\ Before(o + 1) = Before(o) + Room(o)
  BY <1>2, BeforeStep
<1>4. Cap(p) = Room(o)
  BY DEF Cap, Room
<1>5. /\ IsSeq(a) /\ Len(a) \in Nat /\ IsSeq(c) /\ Len(c) \in Nat /\ Agrees(a, c)
      /\ f \in Heads /\ Holds(lay, f, c)
  BY <1>1, SeenFile DEF Sees, Agree, Agrees
<1>6. /\ proc[p].left \in Nat \ {0} /\ proc[p].inner \in Nat /\ proc[p].block \in Block
      /\ Before(o) + proc[p].inner = Len(a)
      /\ o = 0 \/ Before(o) < Len(c) => proc[p].block = lay[f][o + 1]
  BY <1>1 DEF AtGet
<1> QED BY <1>2, <1>3, <1>4, <1>5, <1>6

(* What a reader has before it goes on with the next block of the file.    *)
Gets(p, g, m, i, l) ==
  /\ IsSeq(g) /\ Len(g) \in Nat /\ Agrees(g, proc[p].base)
  /\ i \in Nat /\ Before(m) + i = Len(g)
  /\ l \in Nat \ {0} /\ Len(g) + l = Len(proc[p].buf) + proc[p].left

(* The next block of a file that is read.                                  *)
LEMMA GetsNext ==
  ASSUME NEW lay, Kept(lay), NEW p \in Processes, ~Race', At(p, "get"), ~NoNext(p), NEW new,
         Goes(p, new),
         DOMAIN new \subseteq {"buf", "block", "ord", "inner", "left"},
         proc'[p].block = cont[proc[p].block], proc'[p].ord = proc[p].ord + 1,
         NEW g, g = proc'[p].buf, NEW i, i = proc'[p].inner, NEW l, l = proc'[p].left,
         Reader(p) /\ proc[p].disturbed # "changed" => Gets(p, g, proc[p].ord + 1, i, l)
  PROVE  Kept(lay)'
<1>1. DOMAIN new \subseteq Fields
  BY DEF Fields
<1>2. Quiet /\ Same(p, DOMAIN new)
  BY <1>1, GoesOn
<1>3. /\ proc'[p].at = "get" /\ proc'[p].base = proc[p].base /\ proc'[p].after = proc[p].after
      /\ proc'[p].disturbed = proc[p].disturbed /\ proc'[p].count = proc[p].count
      /\ proc'[p].file = proc[p].file
      /\ Same(p, {"at", "buf", "block", "ord", "inner", "left", "offset"})
  BY <1>2 DEF Same, At
<1>4. ASSUME Reader(p) PROVE Reading(lay, p)'
  <2>1. AtRead(p)'
    BY <1>3 DEF AtRead, At
  <2>2. ASSUME proc[p].disturbed # "changed"
        PROVE  /\ IsSeq(g) /\ \A k \in 1..Len(g) : k <= Len(proc[p].base) => g[k] = proc[p].base[k]
               /\ AtGet(lay, p)'
    <3>1. PICK a, c, o, f, m : a = proc[p].buf /\ c = proc[p].base /\ o = proc[p].ord
          /\ f = proc[p].file /\ m = o + 1
      OBVIOUS
    <3>2. /\ Len(a) \in Nat /\ IsSeq(c) /\ Len(c) \in Nat /\ f \in Heads /\ Holds(lay, f, c)
          /\ o \in Nat /\ proc[p].left \in Nat \ {0} /\ proc[p].block \in Block
          /\ o = 0 \/ Before(o) < Len(c) => proc[p].block = lay[f][o + 1]
      BY <1>4, <2>2, <3>1, GetIs
    <3>3. Gets(p, g, m, i, l)
      BY <1>4, <2>2, <3>1
    <3>4. m \in Nat /\ m # 0
      BY <3>1, <3>2
    <3>5. cont[proc[p].block] \in Block
      BY <3>2 DEF Kept, ImageTyped
    <3>6. Before(m) < Len(c) => cont[proc[p].block] = lay[f][m + 1]
      <4> SUFFICES ASSUME Before(m) < Len(c) PROVE cont[proc[p].block] = lay[f][m + 1]
        OBVIOUS
      <4>1. Before(o) < Len(c) /\ cont[lay[f][o + 1]] = lay[f][o + 2] /\ o + 2 = m + 1
        BY SMTT(30), <3>1, <3>2, NextSeen
      <4> QED BY <3>2, <4>1
    <3>7. PICK n, left : n = Len(a) /\ left = proc[p].left
      OBVIOUS
    <3>8. Len(g) + l = n + left /\ l \in Nat \ {0} /\ i \in Nat /\ Before(m) + i = Len(g)
          /\ Len(g) \in Nat
      BY <3>1, <3>3, <3>7 DEF Gets
    <3>9. AtGet(lay, p)
      BY <1>4, <2>2, SeenFile DEF Sees
    <3>10. proc[p].after = "cat" /\ proc[p].disturbed = "no" => Len(g) + l <= Len(c)
      BY <3>1, <3>7, <3>8, <3>9 DEF AtGet
    <3>11. proc[p].after # "cat" => /\ proc[p].count \in Nat /\ Len(c) <= Len(g) + l
                                    /\ proc[p].disturbed = "no" =>
                                           proc[p].count = Len(c) /\ Len(c) = Len(g) + l
      BY <3>1, <3>7, <3>8, <3>9 DEF AtGet
    <3>12. proc'[p].block = cont[proc[p].block] /\ proc'[p].ord = m
      BY <3>1
    <3>13. AtGet(lay, p)'
      BY <1>3, <3>1, <3>4, <3>5, <3>6, <3>8, <3>10, <3>11, <3>12 DEF AtGet
    <3> QED BY <3>3, <3>13 DEF Gets, Agrees
  <2> QED BY <1>2, <1>3, <1>4, <2>1, <2>2, SeesStill
<1> QED BY <1>2, <1>3, <1>4, ReadsOn DEF At

(* skip, of a command that reads or writes.                                *)
LEMMA SkipKept ==
  ASSUME NEW lay, Kept(lay), NEW p \in Processes, ~Race', skip(p)
  PROVE  Kept(lay)'
<1>1. CASE At(p, "put")
  BY <1>1, SkipPutKept
<1>2. CASE At(p, "get") /\ NoNext(p)
  BY <1>2, DiesReading DEF skip, At
<1>3. CASE At(p, "get") /\ ~NoNext(p)
  <2>1. PICK b, m, i, new : b = cont[proc[p].block] /\ m = proc[p].ord + 1
        /\ i = proc[p].inner - Cap(p)
          /\ new = [block |-> b, ord |-> m] ++ [inner |-> i] /\ Goes(p, new)
    BY <1>3 DEF skip, Next1
  <2>2. DOMAIN new = {"block", "ord", "inner"} /\ DOMAIN new \subseteq Fields
        /\ new["block"] = b /\ new["ord"] = m /\ new["inner"] = i
    BY <2>1 DEF Fields, ++
  <2>3. Same(p, DOMAIN new) /\ proc'[p].block = b /\ proc'[p].ord = m /\ proc'[p].inner = i
    BY <2>1, <2>2, GoesOn
  <2>4. proc'[p].buf = proc[p].buf /\ proc'[p].left = proc[p].left
    BY <2>2, <2>3 DEF Same
  <2>5. PICK g, l : g = proc[p].buf /\ l = proc[p].left
    OBVIOUS
  <2>6. ASSUME Reader(p), proc[p].disturbed # "changed" PROVE Gets(p, g, m, i, l)
    <3>1. PICK a, c, o, f : a = proc[p].buf /\ c = proc[p].base /\ o = proc[p].ord
          /\ f = proc[p].file
      OBVIOUS
    <3>2. /\ IsSeq(a) /\ Len(a) \in Nat /\ Agrees(a, c)
          /\ proc[p].left \in Nat \ {0} /\ proc[p].inner \in Nat
          /\ Before(o) + proc[p].inner = Len(a)
          /\ Cap(p) = Room(o) /\ Before(o) \in Nat /\ Room(o) \in Nat \ {0}
          /\ Before(o + 1) = Before(o) + Room(o)
      BY <1>3, <2>6, <3>1, GetIs
    <3>5. PICK x, y, n, inner : x = Before(o) /\ y = Room(o) /\ n = Len(a) /\ inner = proc[p].inner
      OBVIOUS
    <3>6. a = g /\ m = o + 1 /\ n \in Nat /\ l \in Nat \ {0} /\ inner \in Nat /\ x + inner = n
          /\ x \in Nat /\ y \in Nat
          /\ Before(m) = x + y /\ Cap(p) = y
      BY <2>1, <2>5, <3>1, <3>2, <3>5
    <3>3. i = inner - y /\ inner > y
      BY <2>1, <3>5, <3>6 DEF skip
    <3>4. i \in Nat /\ Before(m) + i = n
      BY <3>3, <3>6
    <3> QED BY <2>5, <3>1, <3>2, <3>4, <3>5, <3>6 DEF Gets
  <2>7. DOMAIN new \subseteq {"buf", "block", "ord", "inner", "left"}
    BY <2>2
  <2> QED BY <1>3, <2>1, <2>3, <2>4, <2>5, <2>6, <2>7, GetsNext
<1> QED BY <1>1, <1>2, <1>3 DEF skip, At
-----------------------------------------------------------------------------
(* What one memcpy of n cells brings, behind inner cells of a block.       *)
Piece(block, inner, n) ==
  IF block \in Metadata THEN [i \in 1..n |-> BLANK] ELSE SubSeq(cells[block], inner + 1, inner + n)

IsPiece(s, block, inner, n) == s = Piece(block, inner, n)
Got(g, a, block, inner, n)  == g = a \o Piece(block, inner, n)

(* It is the part of the block, if that is no block of the metadata.       *)
LEMMA PieceIs ==
  ASSUME ImageTyped, NEW b \in Block, NEW inner \in Nat, NEW n \in Nat, inner + n <= CommonCap,
         NEW s, IsPiece(s, b, inner, n)
  PROVE  /\ IsSeq(s) /\ Len(s) = n
         /\ b \notin Metadata => \A i \in 1..n : s[i] = cells[b][inner + i]
<1>1. CASE b \in Metadata
  <2>1. s = [i \in 1..n |-> BLANK]
    BY <1>1 DEF IsPiece, Piece
  <2>2. s = [i \in 1..n |-> s[i]]
    BY <2>1
  <2> QED BY <1>1, <2>2, FunIsSeq
<1>2. CASE b \notin Metadata
  <2>1. PICK c : c = cells[b]
    OBVIOUS
  <2>2. CommonCap \in Nat /\ c = [k \in 1..CommonCap |-> c[k]]
    BY <2>1, LocalAssumption DEF ImageTyped
  <2>3. Len(c) = CommonCap /\ c \in Seq({c[k] : k \in 1..CommonCap})
    BY <2>2, FunIsSeq
  <2>4. PICK S : c \in Seq(S)
    BY <2>3
  <2>5. s = SubSeq(c, inner + 1, inner + n)
    BY <1>2, <2>1 DEF IsPiece, Piece
  <2>6. PICK m, k : m = inner + 1 /\ k = inner + n
    OBVIOUS
  <2>7. m \in Nat \ {0} /\ k \in Nat /\ k <= Len(c) /\ k = m + n - 1 /\ s = SubSeq(c, m, k)
    BY <2>2, <2>3, <2>5, <2>6
  <2>8. s \in Seq(S)
    BY <2>4, <2>7
  <2>9. Len(s) = n
    BY <2>4, <2>7
  <2>10. \A i \in 1..n : s[i] = c[m + i - 1]
    BY <2>4, <2>7
  <2>11. \A i \in 1..n : s[i] = c[inner + i]
    <3> SUFFICES ASSUME NEW i \in 1..n PROVE s[i] = c[inner + i]
      OBVIOUS
    <3>1. m + i - 1 = inner + i
      BY <2>6
    <3> QED BY <2>10, <3>1
  <2> QED BY <2>1, <2>8, <2>9, <2>11, SeqIsSeq
<1> QED BY <1>1, <1>2

(* A reader that has a of what file f holds, up to a place inner cells     *)
(* behind the start of its block number o, which is b, and n cells more.   *)
GetAt(lay, f, c, a, o, b, inner, l, n) ==
  /\ IsSeq(a) /\ Len(a) \in Nat /\ IsSeq(c) /\ Len(c) \in Nat /\ Agrees(a, c)
  /\ f \in Heads /\ Holds(lay, f, c)
  /\ o \in Nat /\ l \in Nat \ {0} /\ inner \in Nat /\ b \in Block
  /\ Before(o) + inner = Len(a)
  /\ o = 0 \/ Before(o) < Len(c) => b = lay[f][o + 1]
  /\ Before(o) \in Nat /\ Room(o) \in Nat \ {0} /\ Room(o) <= CommonCap
  /\ Before(o + 1) = Before(o) + Room(o)
  /\ n \in Nat /\ n <= l /\ inner + n <= Room(o) /\ (n # l => inner + n = Room(o))

(* With one memcpy more it still has what the file holds.                  *)
LEMMA GetMore ==
  ASSUME NEW lay, Kept(lay), NEW f, NEW c, NEW a, NEW o, NEW b, NEW inner, NEW l, NEW n,
         GetAt(lay, f, c, a, o, b, inner, l, n), NEW g, Got(g, a, b, inner, n)
  PROVE  /\ IsSeq(g) /\ Len(g) = Len(a) + n /\ Len(g) \in Nat /\ Agrees(g, c)
         /\ n # l => Before(o + 1) = Len(g)
<1>2. /\ IsSeq(a) /\ Len(a) \in Nat /\ IsSeq(c) /\ Len(c) \in Nat /\ Agrees(a, c)
      /\ f \in Heads /\ Holds(lay, f, c)
      /\ o \in Nat /\ l \in Nat \ {0} /\ inner \in Nat /\ b \in Block
      /\ Before(o) + inner = Len(a)
      /\ o = 0 \/ Before(o) < Len(c) => b = lay[f][o + 1]
      /\ Before(o) \in Nat /\ Room(o) \in Nat \ {0} /\ Room(o) <= CommonCap
      /\ Before(o + 1) = Before(o) + Room(o)
  BY DEF GetAt
<1>3. /\ n \in Nat /\ n <= l /\ inner + n <= Room(o)
      /\ n # l => inner + n = Room(o)
  BY DEF GetAt
<1>4. PICK s : IsPiece(s, b, inner, n)
  BY DEF IsPiece
<1>5. IsSeq(s) /\ Len(s) = n /\ (b \notin Metadata => \A i \in 1..n : s[i] = cells[b][inner + i])
  <2>1. inner + n <= CommonCap
    BY <1>2, <1>3, LocalAssumption
  <2> QED BY <1>2, <1>3, <1>4, <2>1, PieceIs DEF Kept
<1>6. g = a \o s
  BY <1>4 DEF IsPiece, Got
<1>7. IsSeq(g) /\ Len(g) = Len(a) + n /\ (\A i \in 1..Len(a) : g[i] = a[i])
      /\ (\A i \in 1..n : g[Len(a) + i] = s[i])
  <2>1. IsSeq(a) /\ IsSeq(s)
    BY <1>2, <1>5
  <2>2. IsSeq(g) /\ Len(g) = Len(a) + Len(s) /\ (\A i \in 1..Len(a) : g[i] = a[i])
        /\ (\A i \in 1..Len(s) : g[Len(a) + i] = s[i])
    BY <1>6, <2>1, Behind
  <2> QED BY <1>5, <2>2
<1>8. Agrees(g, c)
  <2> SUFFICES ASSUME NEW i \in 1..Len(g), i <= Len(c) PROVE g[i] = c[i]
    BY DEF Agrees
  <2>1. CASE i <= Len(a)
    <3>1. i \in 1..Len(a)
      BY <1>2, <2>1
    <3> QED BY <1>2, <1>7, <3>1 DEF Agrees
  <2>2. CASE ~(i <= Len(a))
    <3>1. PICK j \in 1..n : i = Len(a) + j
      <4>1. Len(g) \in Nat /\ i - Len(a) \in 1..n /\ i = Len(a) + (i - Len(a))
        BY <1>2, <1>3, <1>7, <2>2
      <4> QED BY <4>1
    <3>2. PICK k : k = inner + j
      OBVIOUS
    <3>3. k \in 1..Room(o) /\ Before(o) + k = i /\ Before(o) < Len(c)
      BY SMTT(30), <1>2, <1>3, <3>1, <3>2
    <3>4. b = lay[f][o + 1] /\ o + 1 \in 1..Len(lay[f]) /\ o + 1 - 1 = o
      <4>1. Before(o) < Before(Len(lay[f])) /\ Len(lay[f]) \in Nat
        <5>1. Len(lay[f]) \in Nat /\ Len(c) <= Before(Len(lay[f]))
          BY <1>2, HeadIsBlock DEF Holds
        <5>2. Before(Len(lay[f])) \in Nat
          BY <5>1, BeforeStep
        <5> QED BY <1>2, <3>3, <5>1, <5>2
      <4>2. o < Len(lay[f])
        BY <1>2, <4>1, BeforeOrdered
      <4> QED BY SMTT(30), <1>2, <3>3, <4>1, <4>2
    <3>5. b \notin Metadata
      BY <1>2, <3>4, HeadIsBlock
    <3>6. PICK m : m = o + 1
      OBVIOUS
    <3>7. m \in 1..Len(lay[f]) /\ m - 1 = o /\ b = lay[f][m]
      <4>1. o \in Nat
        BY <1>2
      <4> QED BY <3>4, <3>6, <4>1
    <3>8. k \in 1..Room(m - 1) /\ Before(m - 1) + k <= Len(c)
      BY <3>3, <3>7
    <3>9. cells[lay[f][m]][k] = c[Before(m - 1) + k]
      BY <1>2, <3>7, <3>8 DEF Holds
    <3>10. cells[b][k] = c[i]
      BY <3>3, <3>7, <3>9
    <3>11. g[i] = s[j] /\ s[j] = cells[b][k]
      BY <1>5, <1>7, <3>1, <3>2, <3>5
    <3> QED BY <3>10, <3>11
  <2> QED BY <2>1, <2>2
<1>9. n # l => Before(o + 1) = Len(g)
  <2>1. PICK x, y, r : x = Before(o) /\ y = Len(a) /\ r = Room(o)
    OBVIOUS
  <2>2. x \in Nat /\ y \in Nat /\ r \in Nat /\ x + inner = y /\ Before(o + 1) = x + r
        /\ Len(g) = y + n
    BY <1>2, <1>7, <2>1
  <2>3. n # l => inner + n = r
    BY <1>3, <2>1
  <2>4. n \in Nat /\ inner \in Nat
    BY <1>2, <1>3
  <2> QED BY <2>2, <2>3, <2>4
<1>10. Len(g) \in Nat
  BY <1>2, <1>3, <1>7
<1> QED BY <1>7, <1>8, <1>9, <1>10

(* So has p, at get.                                                       *)
LEMMA GotIs ==
  ASSUME NEW lay, Kept(lay), NEW p \in Processes, At(p, "get"), proc[p].inner <= Cap(p),
         Reader(p), proc[p].disturbed # "changed",
         NEW n, n = Share(p), NEW g, Got(g, proc[p].buf, proc[p].block, proc[p].inner, n)
  PROVE  /\ n \in Nat /\ n <= proc[p].left /\ proc[p].left \in Nat \ {0} /\ Len(proc[p].buf) \in Nat
         /\ IsSeq(g) /\ Len(g) = Len(proc[p].buf) + n /\ Len(g) \in Nat /\ Agrees(g, proc[p].base)
         /\ n # proc[p].left => Before(proc[p].ord + 1) = Len(g)
<1>1. PICK a, c, o, f, b, inner, l :
        /\ a = proc[p].buf /\ c = proc[p].base /\ o = proc[p].ord /\ f = proc[p].file
        /\ b = proc[p].block
        /\ inner = proc[p].inner /\ l = proc[p].left
  OBVIOUS
<1>2. /\ IsSeq(a) /\ Len(a) \in Nat /\ IsSeq(c) /\ Len(c) \in Nat /\ Agrees(a, c)
      /\ f \in Heads /\ Holds(lay, f, c)
      /\ o \in Nat /\ l \in Nat \ {0} /\ inner \in Nat /\ b \in Block
      /\ Before(o) + inner = Len(a)
      /\ o = 0 \/ Before(o) < Len(c) => b = lay[f][o + 1]
      /\ Before(o) \in Nat /\ Room(o) \in Nat \ {0} /\ Room(o) <= CommonCap
      /\ Before(o + 1) = Before(o) + Room(o)
  BY <1>1, GetIs
<1>3. /\ n \in Nat /\ n <= l /\ inner + n <= Room(o)
      /\ n # l => inner + n = Room(o)
  BY <1>1, <1>2, ShareIs
<1>4. GetAt(lay, f, c, a, o, b, inner, l, n)
  BY <1>2, <1>3 DEF GetAt
<1>5. Got(g, a, b, inner, n)
  BY <1>1
<1>6. /\ IsSeq(g) /\ Len(g) = Len(a) + n /\ Len(g) \in Nat /\ Agrees(g, c)
      /\ n # l => Before(o + 1) = Len(g)
  BY SMTT(30), <1>4, <1>5, GetMore
<1> QED BY <1>1, <1>2, <1>3, <1>6
-----------------------------------------------------------------------------
(* How many blanks stand in for what read_file has not read.               *)
PadOf(p, g) == IF proc[p].after = "cat" THEN 0 ELSE proc[p].count - Len(g)

(* The three ways on from a memcpy of get, g being what has been read.     *)
LEMMA GetGoes ==
  ASSUME NEW p, get(p)
  PROVE  \E n, g : /\ n = Share(p) /\ Got(g, proc[p].buf, proc[p].block, proc[p].inner, n)
                   /\ \/ /\ proc[p].left = n
                         /\ \E pad, b : /\ pad = PadOf(p, g)
                                        /\ BlanksBehind(b, g, pad)
                                        /\ Goes(p, [at |-> proc[p].after, buf |-> b, left |-> 0])
                      \/ proc[p].left > n /\ NoNext(p) /\ Dies(p)
                      \/ /\ proc[p].left > n /\ ~NoNext(p)
                         /\ Goes(p, Next1(p) ++ [buf |-> g, left |-> proc[p].left - n, inner |-> 0])
BY Zenon DEF get, Got, Piece, BlanksBehind, PadOf

(* All is there.                                                           *)
LEMMA GetsLast ==
  ASSUME NEW lay, Kept(lay), NEW p \in Processes, ~Race', At(p, "get"), proc[p].inner <= Cap(p),
         NEW n, n = Share(p), NEW g, Got(g, proc[p].buf, proc[p].block, proc[p].inner, n),
         proc[p].left = n,
         NEW pad, pad = PadOf(p, g), NEW b, BlanksBehind(b, g, pad),
         NEW w, w = proc[p].after, NEW new, new = [at |-> w, buf |-> b, left |-> 0], Goes(p, new)
  PROVE  Kept(lay)'
<1>1. DOMAIN new = {"at", "buf", "left"} /\ DOMAIN new \subseteq Fields
  BY DEF Fields
<1>2. Quiet /\ Same(p, {"at", "buf", "left"}) /\ proc'[p].at = w /\ proc'[p].buf = b
  <2>1. Quiet /\ Same(p, DOMAIN new) /\ \A x \in DOMAIN new : proc'[p][x] = new[x]
    BY <1>1, GoesOn
  <2> QED BY <1>1, <2>1
<1>3. ASSUME Reader(p) PROVE Reading(lay, p)'
  <2>1. Same(p, {"at", "buf", "block", "ord", "inner", "left", "offset"})
    BY <1>2 DEF Same
  <2>2. proc'[p].at \in {"find", "listed", "printed", "cat"}
        /\ (proc'[p].at = "cat" <=> proc[p].after = "cat")
    BY <1>2, <1>3 DEF Reader, At
  <2>3. AtRead(p)' /\ AtGet(lay, p)'
    BY <2>2 DEF AtRead, AtGet, At
  <2>4. ASSUME proc[p].disturbed # "changed"
        PROVE  /\ IsSeq(proc'[p].buf) /\ Agrees(proc'[p].buf, proc[p].base)
               /\ proc[p].after # "cat" =>
                    /\ Len(proc[p].base) <= Len(proc'[p].buf)
                    /\ proc[p].disturbed = "no" => Len(proc[p].base) = Len(proc'[p].buf)
               /\ proc[p].after = "cat" /\ proc[p].disturbed = "no" =>
                      Len(proc'[p].buf) <= Len(proc[p].base)
    <3>1. PICK c, m, k, x : c = proc[p].base /\ m = Len(proc[p].buf) /\ k = Len(c) /\ x = Len(g)
      OBVIOUS
    <3>2. n \in Nat \ {0} /\ m \in Nat /\ IsSeq(g) /\ x = m + n /\ x \in Nat /\ Agrees(g, c)
      BY <1>3, <2>4, <3>1, GotIs
    <3>3. Sees(lay, p) /\ k \in Nat
      BY <1>3, <2>4, <3>1, SeenFile
    <3>4. /\ proc[p].after = "cat" /\ proc[p].disturbed = "no" => m + n <= k
          /\ proc[p].after # "cat" => /\ proc[p].count \in Nat /\ k <= m + n
                                      /\ proc[p].disturbed = "no" => proc[p].count = k /\ k = m + n
      BY <3>1, <3>3 DEF Sees, AtGet
    <3>5. pad \in Int /\ (proc[p].after = "cat" => pad = 0)
          /\ (proc[p].after # "cat" /\ proc[p].disturbed = "no" => pad = 0)
      BY <3>1, <3>2, <3>4 DEF PadOf
    <3>6. IsSeq(b) /\ Len(b) \in Nat /\ Len(b) = x + Larger(pad, 0) /\ \A i \in 1..x : b[i] = g[i]
      <4>1. PICK r : r = pad
        OBVIOUS
      <4>2. r \in Int /\ BlanksBehind(b, g, r) /\ IsSeq(g)
        BY <3>2, <3>5, <4>1
      <4>3. IsSeq(b) /\ Len(b) \in Nat /\ Len(b) = Len(g) + Larger(r, 0)
            /\ \A i \in 1..Len(g) : b[i] = g[i]
        BY <4>2, BlanksAre
      <4> QED BY <3>1, <4>1, <4>3
    <3>7. Len(b) >= x /\ (pad = 0 => Len(b) = x)
      BY <3>2, <3>5, <3>6 DEF Larger
    <3>8. Agrees(b, c)
      <4> SUFFICES ASSUME NEW i \in 1..Len(b), i <= Len(c) PROVE b[i] = c[i]
        BY DEF Agrees
      <4>1. i \in 1..x
        <5>1. i <= x
          <6>1. CASE proc[p].after = "cat"
            BY <3>5, <3>7, <6>1
          <6>2. CASE proc[p].after # "cat"
            BY SMTT(30), <3>1, <3>2, <3>3, <3>4, <6>2
          <6> QED BY <6>1, <6>2
        <5> QED BY <3>2, <5>1
      <4> QED BY <3>1, <3>2, <3>6, <4>1 DEF Agrees
    <3>9. /\ proc[p].after # "cat" => k <= Len(b) /\ (proc[p].disturbed = "no" => k = Len(b))
          /\ proc[p].after = "cat" /\ proc[p].disturbed = "no" => Len(b) <= k
      BY <3>2, <3>3, <3>4, <3>5, <3>6, <3>7
    <3>10. proc'[p].buf = b
      BY <1>2
    <3> QED BY <3>1, <3>6, <3>8, <3>9, <3>10
  <2> QED BY <1>2, <1>3, <2>1, <2>2, <2>3, <2>4, SeesStill DEF Agrees
<1> QED BY <1>1, <1>2, <1>3, ReadsOn DEF At

(* get: a piece more of the file has been read, or all of it.              *)
LEMMA GetKept ==
  ASSUME NEW lay, Kept(lay), NEW p \in Processes, ~Race', get(p)
  PROVE  Kept(lay)'
<1>1. At(p, "get") /\ proc[p].inner <= Cap(p)
  BY Zenon DEF get
<1>2. PICK n, g : /\ n = Share(p) /\ Got(g, proc[p].buf, proc[p].block, proc[p].inner, n)
                  /\ \/ /\ proc[p].left = n
                        /\ \E pad, b : /\ pad = PadOf(p, g)
                                       /\ BlanksBehind(b, g, pad)
                                       /\ Goes(p, [at |-> proc[p].after, buf |-> b, left |-> 0])
                     \/ proc[p].left > n /\ NoNext(p) /\ Dies(p)
                     \/ /\ proc[p].left > n /\ ~NoNext(p)
                        /\ Goes(p, Next1(p) ++ [buf |-> g, left |-> proc[p].left - n, inner |-> 0])
  BY GetGoes
<1>3. ASSUME proc[p].left = n, NEW pad, NEW b, pad = PadOf(p, g),
             BlanksBehind(b, g, pad), Goes(p, [at |-> proc[p].after, buf |-> b, left |-> 0])
      PROVE  Kept(lay)'
  <2>1. PICK w : w = proc[p].after
    OBVIOUS
  <2>2. PICK new : new = [at |-> w, buf |-> b, left |-> 0] /\ Goes(p, new)
    BY <1>3, <2>1
  <2> QED BY <1>1, <1>2, <1>3, <2>1, <2>2, GetsLast
<1>4. CASE Dies(p)
  BY <1>1, <1>4, DiesReading DEF At
<1>5. ASSUME proc[p].left > n, ~NoNext(p),
             Goes(p, Next1(p) ++ [buf |-> g, left |-> proc[p].left - n, inner |-> 0])
      PROVE  Kept(lay)'
  <2>1. PICK c, m, l, i, new : c = cont[proc[p].block] /\ m = proc[p].ord + 1
        /\ l = proc[p].left - n /\ i = 0
          /\ new = [block |-> c, ord |-> m] ++ [buf |-> g, left |-> l, inner |-> i] /\ Goes(p, new)
    BY <1>5 DEF Next1
  <2>2. DOMAIN new = {"block", "ord", "buf", "left", "inner"} /\ DOMAIN new \subseteq Fields
        /\ new["block"] = c /\ new["ord"] = m /\ new["buf"] = g /\ new["left"] = l
        /\ new["inner"] = i
    BY <2>1 DEF Fields, ++
  <2>3. proc'[p].block = c /\ proc'[p].ord = m /\ proc'[p].buf = g /\ proc'[p].left = l
        /\ proc'[p].inner = i
    BY <2>1, <2>2, GoesOn
  <2>4. ASSUME Reader(p), proc[p].disturbed # "changed" PROVE Gets(p, g, m, i, l)
    <3>1. PICK x, y : x = Len(proc[p].buf) /\ y = proc[p].left
      OBVIOUS
    <3>2. n \in Nat /\ n <= y /\ y \in Nat \ {0} /\ x \in Nat /\ IsSeq(g) /\ Len(g) = x + n
          /\ Len(g) \in Nat
          /\ Agrees(g, proc[p].base) /\ (n # y => Before(proc[p].ord + 1) = Len(g))
      BY <1>1, <1>2, <2>4, <3>1, GotIs
    <3>3. n # y /\ Before(m) = Len(g)
      BY <1>5, <2>1, <3>1, <3>2
    <3>4. l = y - n /\ i = 0
      BY <2>1, <3>1
    <3>5. l \in Nat \ {0} /\ Len(g) + l = x + y
      BY <3>2, <3>3, <3>4
    <3>6. i \in Nat /\ Before(m) + i = Len(g)
      BY <3>2, <3>3, <3>4
    <3> QED BY <3>1, <3>2, <3>5, <3>6 DEF Gets
  <2>5. DOMAIN new \subseteq {"buf", "block", "ord", "inner", "left"}
    BY <2>2
  <2> QED BY <1>1, <1>5, <2>1, <2>3, <2>4, <2>5, GetsNext
<1> QED BY <1>2, <1>3, <1>4, <1>5

(* cat reads on.                                                           *)
LEMMA CatReads ==
  ASSUME NEW lay, Kept(lay), NEW p \in Processes, ~Race', cat(p)
  PROVE  Kept(lay)'
<1>1. At(p, "cat") /\ Reader(p)
  BY DEF cat, Reader, At
<1>2. PICK off, new : off = Len(proc[p].buf) /\ new = [at |-> "read", offset |-> off]
      /\ Goes(p, new)
  BY DEF cat
<1>3. DOMAIN new = {"at", "offset"} /\ DOMAIN new \subseteq Fields
  BY <1>2 DEF Fields
<1>4. Quiet /\ Same(p, {"at", "offset"}) /\ proc'[p].at = "read" /\ proc'[p].offset = off
  BY <1>2, <1>3, GoesOn
<1>5. /\ proc'[p].buf = proc[p].buf /\ proc'[p].base = proc[p].base
      /\ proc'[p].after = proc[p].after
      /\ proc'[p].disturbed = proc[p].disturbed /\ proc'[p].want = proc[p].want
      /\ Same(p, {"at", "buf", "block", "ord", "inner", "left", "offset"})
  BY <1>4 DEF Same
<1>6. AtGet(lay, p)'
  BY <1>4 DEF AtGet, At
<1>7. ASSUME proc[p].disturbed # "changed"
      PROVE  /\ IsSeq(proc[p].buf) /\ Agrees(proc[p].buf, proc[p].base) /\ AtRead(p)'
  <2>1. Sees(lay, p)
    BY <1>1, <1>7, SeenFile
  <2>2. /\ proc[p].after = "cat" /\ proc[p].want = BufSize /\ BufSize \in Nat
        /\ proc[p].disturbed = "no" => Len(proc[p].buf) <= Len(proc[p].base)
    BY <1>1, <2>1, LocalAssumption DEF Sees
  <2>3. AtRead(p)'
    BY <1>2, <1>4, <1>5, <2>2 DEF AtRead
  <2> QED BY <2>1, <2>3 DEF Sees, Agree, Agrees
<1>8. Reading(lay, p)'
  BY <1>1, <1>4, <1>5, <1>6, <1>7, SeesStill DEF Agrees
<1>9. ~proc[p].claims
  BY <1>1 DEF Kept, Fine, Claiming, Prepares, Growing, Shrinking, InTable, At
<1>10. proc[p].at \in {"read", "get", "cat"}
       /\ DOMAIN new \subseteq {"at", "buf", "block", "ord", "inner", "left", "offset"}
  BY <1>1, <1>3 DEF At
<1> QED BY <1>1, <1>2, <1>4, <1>8, <1>9, <1>10, ReadStep
-----------------------------------------------------------------------------
(* What holds a sequence holds the start of it.                            *)
LEMMA HoldsStart ==
  ASSUME NEW lay, NEW f, Len(lay[f]) \in Nat, NEW c, IsSeq(c), NEW d, IsSeq(d),
         Len(c) <= Len(d), Agrees(c, d), Holds(lay, f, d)
  PROVE  Holds(lay, f, c)
<1>1. Len(c) \in Nat /\ Len(d) \in Nat /\ Len(d) <= Before(Len(lay[f]))
      /\ Before(Len(lay[f])) \in Nat
  BY BeforeStep DEF Holds, IsSeq
<1>2. ASSUME NEW i \in 1..Len(lay[f]), NEW k \in 1..Room(i - 1), Before(i - 1) + k <= Len(c)
      PROVE  cells[lay[f][i]][k] = c[Before(i - 1) + k]
  <2>1. PICK o \in Nat : o = i - 1
    <3>1. i - 1 \in Nat
      OBVIOUS
    <3> QED BY <3>1
  <2>2. Before(o) \in Nat /\ k \in Nat \ {0}
    BY <2>1, BeforeStep
  <2>3. PICK m : m = Before(o) + k
    OBVIOUS
  <2>4. m \in 1..Len(c) /\ m <= Len(d)
    BY <1>1, <1>2, <2>1, <2>2, <2>3
  <2>5. cells[lay[f][i]][k] = d[m]
    BY <1>2, <2>1, <2>3, <2>4 DEF Holds
  <2>6. c[m] = d[m]
    BY <2>4 DEF Agrees
  <2> QED BY <2>1, <2>3, <2>5, <2>6
<1> QED BY <1>1, <1>2 DEF Holds

(* A directory nobody takes items out of holds all its items, and those    *)
(* who add to it change nothing of them.                                   *)
LEMMA DirectoryHolds ==
  ASSUME NEW lay, Kept(lay), NEW p \in Processes, NEW f \in Heads, ~proc[p].claims,
         inode[f].flags = DIRECTORY,
         \A q \in Processes \ {p} : Claims(q, f) => ~Is(q, {"rm"}), NEW c, c = shadow[f]
  PROVE  /\ Holds(lay, f, c) /\ IsSeq(c) /\ Len(c) \in Nat /\ Len(c) <= inode[f].size
         /\ inode[f].size \in Nat
         /\ ~Claimed(p, f) => Len(c) = inode[f].size
<1>1. IsSeq(c) /\ Len(c) \in Nat /\ inode[f].size \in Nat /\ Len(lay[f]) \in Nat
  BY HeadIsBlock DEF Kept, FilesWhole, IsSeq
<1>2. CASE \A q \in Processes : ~Claims(q, f)
  <2>1. Whole(lay, f)
    BY <1>2, NobodysIsWhole
  <2> QED BY <1>1, <2>1 DEF Whole
<1>3. ASSUME NEW q \in Processes, Claims(q, f)
      PROVE Holds(lay, f, c) /\ Len(c) <= inode[f].size /\ Claimed(p, f)
  <2>1. q # p /\ Claimed(p, f) /\ proc[q].file = f /\ proc[q].claims /\ ~Is(q, {"rm"})
    BY <1>3 DEF Claims, Claimed
  <2>2. Fine(lay, q)
    BY DEF Kept
  <2>3. CASE Whole(lay, f)
    BY <1>1, <2>1, <2>3 DEF Whole
  <2>4. CASE Grows(lay, q)
    BY <1>1, <2>1, <2>4 DEF Grows
  <2>5. CASE Puts(lay, q)
    <3>1. PICK d, off, n : d = Data(q) /\ off = proc[q].offset /\ n = Done(q)
      OBVIOUS
    <3>2. /\ IsSeq(d) /\ Len(d) \in Nat /\ off \in Nat /\ proc[q].left \in 1..Len(d)
          /\ n = Len(d) - proc[q].left /\ n \in Nat
          /\ inode[f].size = Larger(off + Len(d), Len(c))
          /\ Holds(lay, f, Overlaid(c, off, SubSeq(d, 1, n)))
      BY <2>1, <2>5, <3>1, PutIs
    <3>3. Is(q, Makes)
      BY <2>1, <2>5 DEF Puts, Writes, DIRECTORY, FILE
    <3>4. off = Len(c)
      BY <2>1, <2>2, <3>1, <3>3 DEF Fine, Appends
    <3>5. n \in 0..Len(d)
      BY <3>2
    <3>6. PICK e : e = SubSeq(d, 1, n) /\ IsSeq(e) /\ Len(e) \in Nat
      BY <3>2, <3>5, StartOf DEF IsSeq
    <3>7. PICK g : g = Overlaid(c, off, e)
      OBVIOUS
    <3>8. IsSeq(g) /\ OverlayOf(g, c, off, e)
      <4>1. OverlayOf(Overlaid(c, off, e), c, off, e)
        BY <1>1, <3>2, <3>6, OverlaidAs
      <4>2. IsSeq(Overlaid(c, off, e))
        BY <1>1, <3>2, <3>6, OverlaidIs
      <4> QED BY <3>7, <4>1, <4>2
    <3>9. Len(c) <= Len(g) /\ Len(g) \in Nat
      <4>1. Len(g) = Larger(off + Len(e), Len(c))
        BY <3>8 DEF OverlayOf
      <4>2. PICK x, y, z : x = Len(g) /\ y = Len(c) /\ z = Len(e)
        OBVIOUS
      <4>3. x = Larger(y + z, y) /\ y \in Nat /\ z \in Nat
        BY <1>1, <3>4, <3>6, <4>1, <4>2
      <4>4. x \in Nat /\ y <= x
        BY <4>3 DEF Larger
      <4> QED BY <4>2, <4>4
    <3>10. Agrees(c, g)
      <4> SUFFICES ASSUME NEW i \in 1..Len(c) PROVE c[i] = g[i]
        BY DEF Agrees
      <4>1. i \in 1..Len(g) /\ ~(i > off)
        BY <1>1, <3>4, <3>9
      <4>2. i \in 1..Len(c) /\ ~(i > off /\ i <= off + Len(e))
        BY <4>1
      <4> QED BY <3>8, <4>1, <4>2 DEF OverlayOf
    <3>11. Holds(lay, f, g)
      BY <3>2, <3>6, <3>7
    <3>12. Holds(lay, f, c)
      BY <1>1, <3>8, <3>9, <3>10, <3>11, HoldsStart
    <3>13. Len(c) <= inode[f].size
      BY <1>1, <3>2 DEF Larger
    <3> QED BY <2>1, <3>12, <3>13
  <2>6. Whole(lay, f) \/ Grows(lay, q) \/ Puts(lay, q)
    BY <2>1, <2>2 DEF Fine, Claiming, Shrinks
  <2> QED BY <2>3, <2>4, <2>5, <2>6
<1> QED BY <1>1, <1>2, <1>3
-----------------------------------------------------------------------------
(* What a command that begins to read directory f is disturbed by.         *)
Disturbance(p, f) ==
  IF \E q \in Processes \ {p} : Claims(q, f) /\ Is(q, {"rm"}) THEN "changed"
  ELSE IF Claimed(p, f) THEN "grown" ELSE "no"

Opens(p, f, then) ==
  \E n, c, d, b : /\ n = inode[f].size /\ c = shadow[f] /\ d = Disturbance(p, f) /\ b = (then = "listed")
                  /\ Goes(p, [at |-> "read", file |-> f, count |-> n, offset |-> 0, want |-> n, buf |-> <<>>,
                              after |-> then, claims |-> b, base |-> c, disturbed |-> d])

(* What read_directory does with directory f.                              *)
LEMMA DirectoryRead ==
  ASSUME NEW p, NEW f, NEW then, read_directory(p, f, then), f \in Heads
  PROVE  \/ Dies(p)
         \/ inode[f].flags = DIRECTORY /\ Opens(p, f, then)
BY DEF read_directory, Opens, Disturbance, Shadow, Heads

(* A command that begins to read one.                                      *)
LEMMA ReadingStarts ==
  ASSUME NEW lay, Kept(lay), NEW p \in Processes, NEW f \in Heads, ~proc[p].claims,
         inode[f].flags = DIRECTORY,
         NEW n, n = inode[f].size, NEW d, d = Disturbance(p, f), NEW c, c = shadow[f], Quiet,
         proc'[p].at = "read", proc'[p].file = f, proc'[p].count = n, proc'[p].offset = 0,
         proc'[p].want = n,
         proc'[p].buf = <<>>, proc'[p].after # "cat", proc'[p].base = c, proc'[p].disturbed = d
  PROVE  Reading(lay, p)' /\ (d = "changed" \/ Len(c) <= Len(shadow[f]))
<1>1. d \in {"changed", "grown", "no"}
      /\ (d # "changed" => \A q \in Processes \ {p} : Claims(q, f) => ~Is(q, {"rm"}))
      /\ (d = "no" => ~Claimed(p, f))
  BY DEF Disturbance
<1> SUFFICES ASSUME d # "changed" PROVE Reading(lay, p)' /\ Len(c) <= Len(shadow[f])
  BY DEF Reading
<1>2. /\ Holds(lay, f, c) /\ IsSeq(c) /\ Len(c) \in Nat /\ Len(c) <= n /\ n \in Nat
      /\ d = "no" => Len(c) = n
  BY <1>1, DirectoryHolds
<1>3. Holds(lay, f, c)' /\ inode' = inode /\ f \in Heads'
  BY <1>2, HoldsOn DEF Quiet, Heads
<1>4. SeesFile(lay, p)'
  BY <1>2, <1>3 DEF SeesFile
<1>5. AtRead(p)'
  <2>1. Len(<<>>) = 0
    OBVIOUS
  <2> QED BY <1>2, <2>1 DEF AtRead
<1>6. AtGet(lay, p)'
  BY DEF AtGet, At
<1>7. IsSeq(<<>>) /\ Len(<<>>) = 0
  BY DEF IsSeq
<1>8. Agree(p)'
  BY <1>7 DEF Agree
<1>9. Sees(lay, p)'
  BY <1>2, <1>4, <1>5, <1>6, <1>7, <1>8 DEF Sees, At
<1> QED BY <1>1, <1>2, <1>9 DEF Reading

(* A lookup, ls and rm begin to read a directory.                          *)
LEMMA DirectoryStarts ==
  ASSUME NEW lay, Kept(lay), NEW p \in Processes, ~Race, ~Race', At(p, "locate"),
         NEW then \in {"find", "printed", "listed"}, then = "listed" => Is(p, {"rm"}),
         read_directory(p, proc[p].file, then)
  PROVE  Kept(lay)'
<1>1. Fine(lay, p)
  BY DEF Kept
<1>2. ~proc[p].claims /\ ~Is(p, {"init"}) /\ proc[p].made = 0
  BY <1>1 DEF Fine, Claiming, Unclaiming, Prepares, Growing, Shrinking, InTable, At
<1>3. PICK f \in Heads : f = proc[p].file
  BY DEF Race, Heads
<1>4. CASE Dies(p)
  BY <1>2, <1>4, ExitKept DEF Dies, Ends
<1>5. ASSUME inode[f].flags = DIRECTORY, NEW n, NEW c, NEW d, NEW b,
             n = inode[f].size, c = shadow[f], d = Disturbance(p, f), b = (then = "listed"),
             NEW new,
             new = [at |-> "read", file |-> f, count |-> n, offset |-> 0, want |-> n, buf |-> <<>>,
                    after |-> then, claims |-> b, base |-> c, disturbed |-> d],
             Goes(p, new)
      PROVE  Kept(lay)'
  <2>1. DOMAIN new = {"at", "file", "count", "offset", "want", "buf", "after", "claims", "base", "disturbed"}
        /\ DOMAIN new \subseteq Fields
    BY <1>5 DEF Fields
  <2>2. /\ Quiet /\ proc' = [proc EXCEPT ![p] = new ++ proc[p]] /\ DOMAIN proc'[p] = Fields
        /\ Same(p, DOMAIN new)
        /\ \A x \in DOMAIN new : proc'[p][x] = new[x]
    BY <1>5, <2>1, GoesOn
  <2>3. /\ proc'[p].at = "read" /\ proc'[p].file = f /\ proc'[p].count = n /\ proc'[p].offset = 0
        /\ proc'[p].want = n /\ proc'[p].buf = <<>> /\ proc'[p].after = then /\ proc'[p].claims = b
        /\ proc'[p].base = c /\ proc'[p].disturbed = d
    BY <1>5, <2>1, <2>2
  <2>4. proc'[p].cmd = proc[p].cmd /\ proc'[p].chunk = proc[p].chunk /\ proc'[p].made = proc[p].made
    BY <2>1, <2>2 DEF Same
  <2>5. Reading(lay, p)' /\ (d = "changed" \/ Len(c) <= Len(shadow[f]))
    BY <1>2, <1>5, <2>2, <2>3, ReadingStarts
  <2>6. \A q \in Processes \ {p} : proc'[q] = proc[q]
    BY <2>2, OnlyOne DEF Kept, ImageTyped
  <2>7. CASE then = "listed"
    <3>1. proc'[p].claims = TRUE /\ Is(p, {"rm"}) /\ ~Is(p, Makes)
      <4>1. proc'[p].claims = TRUE
        BY Zenon, <1>5, <2>3, <2>7
      <4>2. Is(p, {"rm"}) /\ ~Is(p, Makes)
        BY <2>7 DEF Is, Makes
      <4> QED BY <4>1, <4>2
    <3>2. \A q \in Processes \ {p} : ~Claims(q, f)
      <4> SUFFICES ASSUME NEW q \in Processes \ {p}, Claims(q, f) PROVE FALSE
        OBVIOUS
      <4>1. proc'[q].claims /\ proc'[q].file = f /\ proc'[p].claims /\ proc'[p].file = f
        BY <2>3, <2>6, <3>1 DEF Claims
      <4> QED BY <4>1 DEF Race, Claims
    <3>3. d = "no"
      BY <1>5, <3>2 DEF Disturbance, Claimed
    <3>4. Prepares(p)'
      BY <2>3, <2>4, <2>7, <3>1, <3>3 DEF Prepares, Is
    <3> QED BY <1>2, <1>5, <2>1, <2>3, <2>4, <2>5, <3>1, <3>4, ClaimStarts
  <2>8. CASE then # "listed"
    <3>1. proc'[p].claims = FALSE /\ ~proc'[p].claims
      BY Zenon, <1>5, <2>3, <2>8
    <3>2. ProcTyped(p)'
      BY <1>1, <2>2, <2>3, <2>4, <3>1, TypedStill DEF Fine, ProcTyped
    <3>3. Unclaiming(p)'
      BY <1>2, <2>3, <2>4, <2>8 DEF Unclaiming, Is
    <3>4. Taking(p)' /\ ~Waits(p)' /\ Taken(lay, p)'
      BY <2>3, NotAtTable DEF Waits, Taken
    <3>5. Fine(lay, p)'
      BY <2>5, <3>1, <3>2, <3>3, <3>4 DEF Fine, Claiming, Appends
    <3>6. ASSUME NEW q \in Processes \ {p} PROVE Beside(p, q)' /\ Beside(q, p)'
      <4>1. Beside(q, p)'
        BY <3>1 DEF Beside, Claims
      <4>2. d # "changed" /\ Claims(q, f) => ~Is(q, {"rm"})
        BY <1>5 DEF Disturbance
      <4>3. Beside(p, q)'
        BY <1>5, <2>2, <2>3, <2>5, <2>6, <4>2 DEF Beside, Claims, Is, Quiet
      <4> QED BY <4>1, <4>3
    <3> QED BY <1>2, <2>2, <3>4, <3>5, <3>6, QuietStep
  <2> QED BY <2>7, <2>8
<1>6. CASE ~Dies(p)
  <2>1. read_directory(p, f, then)
    BY <1>3
  <2>2. inode[f].flags = DIRECTORY /\ Opens(p, f, then)
    BY <1>6, <2>1, DirectoryRead
  <2>3. PICK n, c, d, b : /\ n = inode[f].size /\ c = shadow[f] /\ d = Disturbance(p, f)
        /\ b = (then = "listed")
                          /\ Goes(p, [at |-> "read", file |-> f, count |-> n, offset |-> 0, want |-> n, buf |-> <<>>,
                                      after |-> then, claims |-> b, base |-> c, disturbed |-> d])
    BY <2>2 DEF Opens
  <2>4. PICK new : new = [at |-> "read", file |-> f, count |-> n, offset |-> 0, want |-> n, buf |-> <<>>,
                          after |-> then, claims |-> b, base |-> c, disturbed |-> d]
    OBVIOUS
  <2>5. Goes(p, new)
    BY <2>3, <2>4
  <2> QED BY <1>5, <2>2, <2>3, <2>4, <2>5
<1> QED BY <1>4, <1>6
-----------------------------------------------------------------------------
(* What cat is disturbed by as it begins.                                  *)
CatDisturbance(p, f) == IF Claimed(p, f) THEN "changed" ELSE "no"

(* cat begins to read.                                                     *)
CatOpens(p, f) ==
  \E d, c : /\ d = CatDisturbance(p, f) /\ c = Shadow(f)
            /\ Goes(p, [at |-> "read", offset |-> 0, want |-> BufSize, after |-> "cat", buf |-> <<>>, base |-> c, disturbed |-> d])

(* stat goes to the first block.                                           *)
Traces(p) ==
  \E b, l : Goes(p, [at |-> "trace", block |-> b, left |-> l])

(* What main does with the inode, one disjunct for each command.           *)
LEMMA LocatedGoes ==
  ASSUME NEW p, located(p)
  PROVE  \/ Dies(p)
         \/ Is(p, Makes) /\ Goes(p, [at |-> "scan"])
         \/ Is(p, {"write"}) /\ Goes(p, [at |-> "write", offset |-> proc[p].cmd.offset])
         \/ read_directory(p, proc[p].file, "printed")
         \/ Is(p, {"rm"}) /\ read_directory(p, proc[p].file, "listed")
         \/ Traces(p)
         \/ CatOpens(p, proc[p].file)
<1> DEFINE G1 == Is(p, Makes) /\ Name(p) \in LongNames
           G2 == Is(p, Makes) /\ Name(p) \notin LongNames
           G3 == Is(p, {"write"})
           G4 == Is(p, {"ls"})
           G5 == Is(p, {"rm"})
           G6 == Is(p, {"stat"})
           R2 == Goes(p, [at |-> "scan"])
           R3 == Goes(p, [at |-> "write", offset |-> proc[p].cmd.offset])
           R4 == read_directory(p, proc[p].file, "printed")
           R5 == read_directory(p, proc[p].file, "listed")
           R6 == Goes(p, [at |-> "trace", block |-> proc[p].file, left |-> get_blocks_required(inode[proc[p].file].size)])
           R7 == Goes(p, [at |-> "read", offset |-> 0, want |-> BufSize, after |-> "cat", buf |-> <<>>,
                          base |-> Shadow(proc[p].file),
                          disturbed |-> IF Claimed(p, proc[p].file) THEN "changed" ELSE "no"])
<1>1. (CASE G1 -> Dies(p) [] G2 -> R2 [] G3 -> R3 [] G4 -> R4 [] G5 -> R5 [] G6 -> R6 [] OTHER -> R7)
  BY DEF located
<1>2. G2 => Is(p, Makes)
  OBVIOUS
<1>3. R6 => Traces(p)
  BY DEF Traces
<1>4. R7 => CatOpens(p, proc[p].file)
  BY DEF CatOpens, CatDisturbance
<1> HIDE DEF G1, G2, R2, R3, R4, R5, R6, R7
<1>5. Dies(p) \/ (G2 /\ R2) \/ (G3 /\ R3) \/ R4 \/ (G5 /\ R5) \/ R6 \/ R7
  BY <1>1
<1> QED BY <1>2, <1>3, <1>4, <1>5 DEF R2, R3, R4, R5

(* cat begins to read a file that nobody is at work on, or knows that it   *)
(* is disturbed.                                                           *)
LEMMA CatStarts ==
  ASSUME NEW lay, Kept(lay), NEW p \in Processes, ~Race, At(p, "locate"), CatOpens(p, proc[p].file)
  PROVE  Kept(lay)'
<1>1. Fine(lay, p)
  BY DEF Kept
<1>2. ~proc[p].claims /\ ~Is(p, {"init"}) /\ proc[p].made = 0
  BY <1>1 DEF Fine, Claiming, Unclaiming, Prepares, Growing, Shrinking, InTable, At
<1>3. PICK f \in Heads : f = proc[p].file
  BY DEF Race, Heads
<1>4. PICK d, c, new : /\ d = CatDisturbance(p, f) /\ c = shadow[f] /\ Goes(p, new)
        /\ new = [at |-> "read", offset |-> 0, want |-> BufSize, after |-> "cat", buf |-> <<>>, base |-> c, disturbed |-> d]
  BY <1>3 DEF CatOpens, Shadow, Heads
<1>5. DOMAIN new = {"at", "offset", "want", "after", "buf", "base", "disturbed"}
      /\ DOMAIN new \subseteq Fields
  BY <1>4 DEF Fields
<1>6. /\ Quiet /\ proc' = [proc EXCEPT ![p] = new ++ proc[p]] /\ DOMAIN proc'[p] = Fields
      /\ Same(p, DOMAIN new)
      /\ \A x \in DOMAIN new : proc'[p][x] = new[x]
  BY <1>4, <1>5, GoesOn
<1>7. /\ proc'[p].at = "read" /\ proc'[p].offset = 0 /\ proc'[p].want = BufSize
      /\ proc'[p].buf = <<>>
      /\ proc'[p].after = "cat" /\ proc'[p].base = c /\ proc'[p].disturbed = d
  BY <1>4, <1>5, <1>6
<1>8. /\ proc'[p].cmd = proc[p].cmd /\ proc'[p].chunk = proc[p].chunk
      /\ proc'[p].made = proc[p].made
      /\ proc'[p].claims = proc[p].claims /\ proc'[p].file = f
  BY <1>3, <1>5, <1>6 DEF Same
<1>9. d = "changed" \/ (d = "no" /\ ~Claimed(p, f))
  BY <1>4 DEF CatDisturbance
<1>10. ASSUME d # "changed" PROVE Sees(lay, p)'
  <2>1. \A q \in Processes : ~Claims(q, f)
    BY <1>2, <1>9, <1>10 DEF Claimed, Claims
  <2>2. Whole(lay, f) /\ IsSeq(c)
    BY <1>4, <2>1, NobodysIsWhole
  <2>3. Holds(lay, f, c) /\ Len(c) = inode[f].size /\ Len(c) \in Nat
    BY <1>4, <2>2 DEF Whole, IsSeq
  <2>4. Holds(lay, f, c)' /\ inode' = inode /\ f \in Heads'
    BY <1>6, <2>3, HoldsOn DEF Quiet, Heads
  <2>5. SeesFile(lay, p)'
    BY <1>7, <1>8, <2>3, <2>4 DEF SeesFile
  <2>6. Len(<<>>) = 0 /\ IsSeq(<<>>) /\ BufSize \in Nat
    BY LocalAssumption DEF IsSeq
  <2>7. AtRead(p)' /\ AtGet(lay, p)' /\ Agree(p)'
    BY <1>7, <2>3, <2>6 DEF AtRead, AtGet, At, Agree
  <2> QED BY <1>7, <2>2, <2>5, <2>6, <2>7 DEF Sees, At
<1>11. Reading(lay, p)'
  BY <1>7, <1>9, <1>10 DEF Reading
<1>12. ProcTyped(p)'
  BY <1>1, <1>6, <1>7, <1>8, TypedStill DEF Fine, ProcTyped
<1>13. Unclaiming(p)'
  BY <1>2, <1>7, <1>8 DEF Unclaiming, Is
<1>14. Taking(p)' /\ ~Waits(p)' /\ Taken(lay, p)'
  BY <1>7, NotAtTable DEF Waits, Taken
<1>15. Fine(lay, p)'
  BY <1>2, <1>8, <1>11, <1>12, <1>13, <1>14 DEF Fine, Claiming, Appends
<1>16. \A q \in Processes \ {p} : proc'[q] = proc[q]
  BY <1>6, OnlyOne DEF Kept, ImageTyped
<1>17. ASSUME NEW q \in Processes \ {p} PROVE Beside(p, q)' /\ Beside(q, p)'
  <2>1. Beside(q, p)'
    BY <1>2, <1>8 DEF Beside, Claims
  <2>2. Beside(p, q)'
    BY <1>7, <1>8, <1>9, <1>16 DEF Beside, Claims, Claimed
  <2> QED BY <2>1, <2>2
<1> QED BY <1>2, <1>6, <1>14, <1>15, <1>17, QuietStep

(* locate_path and located: the path has led to a file, or it would be a   *)
(* race.                                                                   *)
LEMMA LocateKept ==
  ASSUME NEW lay, Kept(lay), NEW p \in Processes, ~Race, ~Race', locate_path(p) \/ located(p)
  PROVE  Kept(lay)'
<1>1. Fine(lay, p) /\ At(p, "locate")
  BY DEF Kept, locate_path, located
<1>2. ~proc[p].claims /\ ~Is(p, {"init"}) /\ proc[p].made = 0 /\ InFile(p)
  BY <1>1 DEF Fine, Claiming, Unclaiming, Prepares, Growing, Shrinking, InTable, At, Race,
     InFile, Heads
<1>3. CASE locate_path(p)
  BY <1>1, <1>3, DirectoryStarts DEF locate_path
<1>4. ASSUME NEW new, Goes(p, new), DOMAIN new \subseteq {"at", "offset", "block", "left"},
             \/ Is(p, Makes) /\ proc'[p].at = "scan"
             \/ Is(p, {"write"}) /\ proc'[p].at = "write" /\ proc'[p].offset \in Nat
             \/ proc'[p].at = "trace"
      PROVE  Kept(lay)'
  <2>1. DOMAIN new \subseteq Fields
    BY <1>4 DEF Fields
  <2>2. Quiet /\ DOMAIN proc'[p] = Fields /\ Same(p, DOMAIN new)
    BY <1>4, <2>1, GoesOn
  <2>3. /\ proc'[p].cmd = proc[p].cmd /\ proc'[p].chunk = proc[p].chunk
        /\ proc'[p].made = proc[p].made
        /\ proc'[p].claims = proc[p].claims /\ proc'[p].file = proc[p].file
    BY <1>4, <2>2 DEF Same
  <2>4. proc'[p].at \in {"scan", "write", "trace"}
    BY <1>4
  <2>5. ProcTyped(p)'
    BY <1>1, <2>2, <2>3, <2>4, TypedStill DEF Fine, ProcTyped
  <2>6. InFile(p)'
    BY <1>2, <2>2, <2>3 DEF InFile, Quiet, Heads
  <2>7. Unclaiming(p)' /\ ~Reader(p)'
    BY <1>2, <1>4, <2>3, <2>4, <2>6 DEF Unclaiming, Reader, Is, At, Makes
  <2> QED BY <1>2, <1>4, <2>1, <2>3, <2>4, <2>5, <2>7, NotAtTable, PlainStep
<1>5. CASE Dies(p)
  BY <1>2, <1>5, ExitKept DEF Dies, Ends
<1>6. CASE Is(p, Makes) /\ Goes(p, [at |-> "scan"])
  <2>1. PICK new : new = [at |-> "scan"] /\ Goes(p, new)
    BY <1>6
  <2>2. DOMAIN new = {"at"} /\ new["at"] = "scan" /\ DOMAIN new \subseteq Fields
    BY <2>1 DEF Fields
  <2>3. proc'[p].at = "scan"
    BY <2>1, <2>2, GoesOn
  <2> QED BY <1>4, <1>6, <2>1, <2>2, <2>3
<1>7. CASE Is(p, {"write"}) /\ Goes(p, [at |-> "write", offset |-> proc[p].cmd.offset])
  <2>1. PICK off, new : off = proc[p].cmd.offset /\ new = [at |-> "write", offset |-> off]
        /\ Goes(p, new)
    BY <1>7
  <2>2. DOMAIN new = {"at", "offset"} /\ new["at"] = "write" /\ new["offset"] = off
        /\ DOMAIN new \subseteq Fields
    BY <2>1 DEF Fields
  <2>3. proc'[p].at = "write" /\ proc'[p].offset = off
    BY <2>1, <2>2, GoesOn
  <2>4. off \in Nat
    BY <1>1, <2>1 DEF Fine, ProcTyped
  <2> QED BY <1>4, <1>7, <2>1, <2>2, <2>3, <2>4
<1>8. CASE Traces(p)
  <2>1. PICK b, l, new : new = [at |-> "trace", block |-> b, left |-> l] /\ Goes(p, new)
    BY <1>8 DEF Traces
  <2>2. DOMAIN new = {"at", "block", "left"} /\ new["at"] = "trace" /\ DOMAIN new \subseteq Fields
    BY <2>1 DEF Fields
  <2>3. proc'[p].at = "trace"
    BY <2>1, <2>2, GoesOn
  <2> QED BY <1>4, <2>1, <2>2, <2>3
<1>9. CASE read_directory(p, proc[p].file, "printed")
  BY <1>1, <1>9, DirectoryStarts
<1>10. CASE Is(p, {"rm"}) /\ read_directory(p, proc[p].file, "listed")
  BY <1>1, <1>10, DirectoryStarts
<1>11. CASE CatOpens(p, proc[p].file)
  BY <1>1, <1>11, CatStarts
<1> QED BY <1>3, <1>5, <1>6, <1>7, <1>8, <1>9, <1>10, <1>11, LocatedGoes
-----------------------------------------------------------------------------
(* The blocks up to each, behind each other.                               *)
Joins(f, S, seqs, n) ==
  /\ f \in [1..n -> Seq(S)] /\ f[1] = seqs[1] /\ FlattenSeq(seqs) = f[n]
  /\ \A i \in 1..(n - 1) : f[i + 1] = f[i] \o seqs[i + 1]

(* FlattenSeq puts the sequences behind each other, one after the other.   *)
LEMMA FlattenIs ==
  ASSUME NEW S, NEW seqs \in Seq(Seq(S)), NEW n, n = Len(seqs), n # 0
  PROVE  \E f : Joins(f, S, seqs, n)
<1>1. n \in Nat \ {0} /\ seqs \in [1..n -> Seq(S)]
  OBVIOUS
<1>2. PICK m \in Nat : m = n - 1 /\ n = m + 1
  <2>1. n - 1 \in Nat /\ n = n - 1 + 1
    BY <1>1
  <2> QED BY <2>1
<1> DEFINE Behind1(k) == [v \in Seq(S) |-> v \o seqs[k + 1]]
<1>3. PICK way : way = [k \in 1..m |-> Behind1(k)]
  OBVIOUS
<1>4. way \in Ways(m, Seq(S)) /\ \A k \in 1..m : \A v \in Seq(S) : way[k][v] = v \o seqs[k + 1]
  <2>1. ASSUME NEW k \in 1..m PROVE Behind1(k) \in [Seq(S) -> Seq(S)]
    <3>1. seqs[k + 1] \in Seq(S)
      BY <1>1, <1>2
    <3>2. \A v \in Seq(S) : v \o seqs[k + 1] \in Seq(S)
      BY <3>1
    <3> QED BY <3>2
  <2>2. \A k \in 1..m : \A v \in Seq(S) : way[k][v] = v \o seqs[k + 1]
    BY <1>3
  <2> QED BY <1>3, <2>1, <2>2 DEF Ways
<1>5. seqs[1] \in Seq(S)
  BY <1>1
<1>6. PICK f : Follows(f, m, Seq(S), seqs[1], way)
  BY <1>4, <1>5, StepByStep
<1>7. f \in [0..m -> Seq(S)] /\ f[0] = seqs[1] /\ \A k \in 1..m : f[k] = f[k - 1] \o seqs[k + 1]
  <2>1. f \in [0..m -> Seq(S)] /\ f[0] = seqs[1] /\ \A k \in 1..m : f[k] = way[k][f[k - 1]]
    BY <1>6 DEF Follows
  <2>2. ASSUME NEW k \in 1..m PROVE f[k] = f[k - 1] \o seqs[k + 1]
    <3>1. k - 1 \in 0..m
      BY <1>2
    <3> QED BY <1>4, <2>1, <3>1
  <2> QED BY <2>1, <2>2
<1> DEFINE Value(g, i) == IF i = 1 THEN seqs[i] ELSE g[i - 1] \o seqs[i]
           Full1(g) == [i \in 1..n |-> Value(g, i)]
<1>8. PICK e : e = [i \in 1..n |-> f[i - 1]]
  OBVIOUS
<1>9. e = Full1(e)
  <2>1. ASSUME NEW i \in 1..n PROVE e[i] = Value(e, i)
    <3>1. CASE i = 1
      BY <1>7, <1>8, <3>1
    <3>2. CASE i # 1
      <4>1. i - 1 \in 1..n /\ i - 1 \in 1..m /\ i - 1 + 1 = i
        BY <1>1, <1>2, <3>2
      <4>2. e[i] = f[i - 1] /\ e[i - 1] = f[i - 1 - 1]
        BY <1>8, <4>1
      <4>3. f[i - 1] = f[i - 1 - 1] \o seqs[i]
        BY <1>7, <4>1
      <4> QED BY <3>2, <4>2, <4>3
    <3> QED BY <3>1, <3>2
  <2> HIDE DEF Value
  <2> QED BY <1>8, <2>1
<1>10. PICK g : g = CHOOSE h : h = Full1(h)
  BY Zenon
<1>11. g = Full1(g)
  BY Zenon, <1>9, <1>10
<1>12. \A i \in 1..n : g[i] = Value(g, i)
  <2> HIDE DEF Value
  <2>1. PICK h : h = Full1(g)
    OBVIOUS
  <2>2. \A i \in 1..n : h[i] = Value(g, i)
    BY <2>1
  <2> QED BY <1>11, <2>1, <2>2
<1>13. FlattenSeq(seqs) = g[n]
  BY <1>1, <1>10 DEF FlattenSeq
<1>14. g[1] = seqs[1] /\ \A i \in 1..(n - 1) : g[i + 1] = g[i] \o seqs[i + 1]
  <2>1. g[1] = seqs[1]
    BY <1>1, <1>12
  <2>2. ASSUME NEW i \in 1..(n - 1) PROVE g[i + 1] = g[i] \o seqs[i + 1]
    <3>1. PICK j \in 1..n : j = i + 1
      <4>1. i + 1 \in 1..n
        BY <1>1
      <4> QED BY <4>1
    <3>2. j # 1 /\ j - 1 = i
      BY <3>1
    <3>3. g[j] = Value(g, j)
      <4> HIDE DEF Value
      <4> QED BY <1>12
    <3>4. Value(g, j) = g[j - 1] \o seqs[j]
      BY <3>2
    <3>5. g[j] = g[i] \o seqs[j]
      <4> HIDE DEF Value
      <4> QED BY <3>2, <3>3, <3>4
    <3> HIDE DEF Value
    <3> QED BY <3>1, <3>5
  <2> QED BY <2>1, <2>2
<1>15. \A i \in 1..n : g[i] \in Seq(S)
  <2> DEFINE T == {k \in Nat : k + 1 \in 1..n => g[k + 1] \in Seq(S)}
  <2>1. 0 \in T
    BY <1>5, <1>14
  <2>2. ASSUME NEW k \in 0..(m - 1), k \in T PROVE k + 1 \in T
    <3>1. k + 1 \in 1..(n - 1) /\ k + 1 \in 1..n /\ k + 1 \in Nat /\ k + 1 + 1 \in 1..n
      BY <1>1, <1>2
    <3>2. g[k + 1] \in Seq(S) /\ seqs[k + 1 + 1] \in Seq(S)
      BY <1>1, <2>2, <3>1
    <3>3. g[k + 1 + 1] = g[k + 1] \o seqs[k + 1 + 1]
      BY <1>14, <3>1
    <3>4. g[k + 1 + 1] \in Seq(S)
      BY <3>2, <3>3
    <3> QED BY <3>1, <3>4
  <2> HIDE DEF T
  <2>3. \A k \in 0..m : k \in T
    BY <2>1, <2>2, UpTo
  <2>4. ASSUME NEW i \in 1..n PROVE g[i] \in Seq(S)
    <3>1. i - 1 \in 0..m /\ i - 1 + 1 = i
      BY <1>1, <1>2
    <3>2. i - 1 \in T
      BY <2>3, <3>1
    <3> QED BY <3>1, <3>2 DEF T
  <2> QED BY <2>4
<1>16. PICK r : r = [i \in 1..n |-> g[i]]
  OBVIOUS
<1>17. r \in [1..n -> Seq(S)] /\ r[1] = seqs[1] /\ FlattenSeq(seqs) = r[n]
       /\ \A i \in 1..(n - 1) : r[i + 1] = r[i] \o seqs[i + 1]
  <2>1. \A i \in 1..n : r[i] = g[i]
    BY <1>16
  <2>2. 1 \in 1..n /\ n \in 1..n /\ \A i \in 1..(n - 1) : i \in 1..n /\ i + 1 \in 1..n
    BY <1>1
  <2> QED BY <1>13, <1>14, <1>15, <1>16, <2>1, <2>2
<1> QED BY <1>17 DEF Joins
-----------------------------------------------------------------------------
(* seqs are n pieces of c, each as long as there is room in its block, as   *)
(* far as c goes.                                                          *)
Pieces(seqs, n, c) ==
  /\ n = Len(seqs) /\ n # 0
  /\ \A i \in 1..n : Len(seqs[i]) = Room(i - 1)
  /\ \A i \in 1..n : \A k \in 1..Room(i - 1) :
       Before(i - 1) + k <= Len(c) => seqs[i][k] = c[Before(i - 1) + k]

(* Behind each other they fill the blocks, and begin with c.               *)
LEMMA FlatIs ==
  ASSUME NEW S, NEW seqs \in Seq(Seq(S)), NEW n, NEW c, Pieces(seqs, n, c)
  PROVE  IsSeq(FlattenSeq(seqs)) /\ Len(FlattenSeq(seqs)) = Before(n) /\ Agrees(FlattenSeq(seqs), c)
<1>10. /\ n = Len(seqs) /\ n # 0
       /\ \A i \in 1..n : Len(seqs[i]) = Room(i - 1)
       /\ \A i \in 1..n : \A k \in 1..Room(i - 1) :
            Before(i - 1) + k <= Len(c) => seqs[i][k] = c[Before(i - 1) + k]
  BY DEF Pieces
<1>1. n \in Nat \ {0} /\ \A i \in 1..n : seqs[i] \in Seq(S)
  BY <1>10
<1>2. PICK f : Joins(f, S, seqs, n)
  BY <1>10, FlattenIs
<1>9. /\ f \in [1..n -> Seq(S)] /\ f[1] = seqs[1] /\ FlattenSeq(seqs) = f[n]
      /\ \A i \in 1..(n - 1) : f[i + 1] = f[i] \o seqs[i + 1]
  BY <1>2 DEF Joins
<1>3. \A i \in 1..n : IsSeq(f[i]) /\ IsSeq(seqs[i])
  <2>1. \A s \in Seq(S) : IsSeq(s)
    BY DEF IsSeq
  <2> QED BY <1>1, <1>9, <2>1
<1> DEFINE T == {k \in Nat : k + 1 \in 1..n => Len(f[k + 1]) = Before(k + 1) /\ Agrees(f[k + 1], c)}
<1>4. 0 \in T
  <2>1. 1 \in 1..n /\ 0 \in Nat /\ 0 + 1 = 1 /\ 1 - 1 = 0
    BY <1>1
  <2>2. Before(1) = Room(0) /\ Room(0) \in Nat /\ \A k : Before(0) = 0
    <3>1. Before(0 + 1) = Before(0) + Room(0) /\ Room(0) \in Nat
      BY BeforeStep
    <3> QED BY <2>1, <3>1 DEF Before
  <2>3. Len(seqs[1]) = Room(0)
    BY <1>10, <2>1
  <2>4. Agrees(seqs[1], c)
    <3>1. ASSUME NEW k \in 1..Len(seqs[1]), k <= Len(c) PROVE seqs[1][k] = c[k]
      <4>1. Before(1 - 1) = 0 /\ k \in 1..Room(1 - 1) /\ 0 + k = k
        BY <2>1, <2>2, <2>3
      <4> QED BY <1>10, <2>1, <3>1, <4>1
    <3> QED BY <3>1 DEF Agrees
  <2> QED BY <1>9, <2>1, <2>2, <2>3, <2>4
<1>5. ASSUME NEW k \in 0..(n - 2), k \in T PROVE k + 1 \in T
  <2>1. PICK o \in 1..(n - 1) : o = k + 1
    <3>1. k + 1 \in 1..(n - 1)
      BY <1>1
    <3> QED BY <3>1
  <2>2. PICK j \in 1..n : j = o + 1 /\ j - 1 = o
    <3>1. o + 1 \in 1..n /\ o + 1 - 1 = o
      BY <1>1, <2>1
    <3> QED BY <3>1
  <2>3. o \in 1..n /\ o \in Nat /\ k + 1 + 1 = j /\ k + 1 \in Nat
    BY <1>1, <2>1, <2>2
  <2>4. PICK a : a = f[o]
    OBVIOUS
  <2>5. Len(a) = Before(o) /\ Agrees(a, c) /\ IsSeq(a)
    BY <1>3, <1>5, <2>1, <2>3, <2>4
  <2>6. PICK b : b = seqs[j]
    OBVIOUS
  <2>7. IsSeq(b) /\ Len(b) = Room(o)
    BY <1>3, <1>10, <2>2, <2>6
  <2>8. f[j] = a \o b
    BY <1>9, <2>2, <2>4, <2>6
  <2>9. PICK d : d = a \o b
    OBVIOUS
  <2>10. IsSeq(d) /\ Len(d) = Len(a) + Len(b) /\ (\A i \in 1..Len(a) : d[i] = a[i])
         /\ \A i \in 1..Len(b) : d[Len(a) + i] = b[i]
    <3>1. /\ IsSeq(a \o b) /\ Len(a \o b) = Len(a) + Len(b)
          /\ (\A i \in 1..Len(a) : (a \o b)[i] = a[i])
          /\ \A i \in 1..Len(b) : (a \o b)[Len(a) + i] = b[i]
      <4>1. IsSeq(a) /\ IsSeq(b)
        BY <2>5, <2>7
      <4> QED BY <4>1, Behind
    <3> QED BY ONLY <2>9, <3>1, Zenon
  <2>11. Before(o + 1) = Before(o) + Room(o) /\ Before(o) \in Nat /\ Room(o) \in Nat
    BY <2>3, BeforeStep
  <2>12. Len(d) = Before(j)
    BY <2>2, <2>5, <2>7, <2>10, <2>11
  <2>13. \A i \in 1..Room(o) : Before(o) + i <= Len(c) => b[i] = c[Before(o) + i]
    BY <1>10, <2>2, <2>6
  <2>14. ASSUME NEW i \in 1..Len(d), i <= Len(c) PROVE d[i] = c[i]
    <3>1. CASE i <= Len(a)
      <4>1. i \in 1..Len(a)
        BY <2>5, <2>11, <2>14, <3>1
      <4> QED BY <2>5, <2>10, <2>14, <4>1 DEF Agrees
    <3>2. CASE ~(i <= Len(a))
      <4>1. PICK x, y, z \in Nat : x = Len(a) /\ y = Len(b) /\ z = Len(d) /\ z = x + y
        <5>1. Len(a) \in Nat /\ Len(b) \in Nat /\ Len(d) \in Nat
          BY <2>5, <2>7, <2>10 DEF IsSeq
        <5> QED BY <2>10, <5>1
      <4>2. PICK m \in Int : m = i - x
        <5>1. i - x \in Int
          OBVIOUS
        <5> QED BY <5>1
      <4>6. i \in 1..z /\ ~(i <= x)
        BY <3>2, <4>1
      <4>7. m \in 1..y /\ x + m = i
        BY ONLY <4>1, <4>2, <4>6, x \in Nat, y \in Nat, z \in Nat, m \in Int, i \in 1..z
      <4>5. m \in 1..Len(b) /\ Len(a) + m = i
        BY <4>1, <4>7
      <4>3. d[i] = b[m]
        BY <2>10, <4>5
      <4>4. b[m] = c[i]
        BY <2>5, <2>7, <2>13, <2>14, <4>5
      <4> QED BY <4>3, <4>4
    <3> QED BY <3>1, <3>2
  <2>15. Agrees(d, c)
    BY <2>14 DEF Agrees
  <2> QED BY <2>3, <2>8, <2>9, <2>12, <2>15
<1>6. n - 1 \in T
  <2> HIDE DEF T
  <2>1. PICK m \in Nat : m = n - 1 /\ m - 1 = n - 2
    <3>1. n - 1 \in Nat /\ n - 1 - 1 = n - 2
      BY <1>1
    <3> QED BY <3>1
  <2>2. \A k \in 0..m : k \in T
    BY <1>4, <1>5, <2>1, UpTo
  <2> QED BY <2>1, <2>2
<1>7. n - 1 + 1 = n /\ n \in 1..n
  BY <1>1
<1>8. Len(f[n]) = Before(n) /\ Agrees(f[n], c)
  BY <1>6, <1>7
<1> QED BY <1>9, <1>3, <1>7, <1>8
-----------------------------------------------------------------------------
(* What a block holds of a file, by which of its blocks it is.             *)
PieceAt(h, i) == IF i = 1 THEN SubSeq(cells[h], 1, FirstCap) ELSE cells[Chain(h)[i]]

(* All that stands in a cell.                                              *)
CellsOf == {cells[b][k] : b \in Block, k \in 1..CommonCap}

(* What a block has room for, as a first block and as one behind it.       *)
LEMMA BlockCells ==
  ASSUME ImageTyped, NEW b \in Block
  PROVE  /\ cells[b] \in Seq(CellsOf) /\ Len(cells[b]) = CommonCap
         /\ SubSeq(cells[b], 1, FirstCap) \in Seq(CellsOf)
         /\ Len(SubSeq(cells[b], 1, FirstCap)) = FirstCap
         /\ \A k \in 1..FirstCap : SubSeq(cells[b], 1, FirstCap)[k] = cells[b][k]
<1>1. PICK c : c = cells[b] /\ c = [k \in 1..CommonCap |-> c[k]]
      /\ \A k \in 1..CommonCap : c[k] \in CellsOf
  BY DEF ImageTyped, CellsOf
<1>2. FirstCap \in Nat \ {0} /\ CommonCap \in Nat /\ FirstCap <= CommonCap
  BY LocalAssumption
<1>3. c \in [1..CommonCap -> CellsOf]
  BY <1>1
<1>4. c \in Seq(CellsOf) /\ Len(c) = CommonCap
  BY <1>2, <1>3
<1>5. SubSeq(c, 1, FirstCap) \in Seq(CellsOf) /\ Len(SubSeq(c, 1, FirstCap)) = FirstCap
      /\ \A k \in 1..FirstCap : SubSeq(c, 1, FirstCap)[k] = c[k]
  BY <1>2, <1>4
<1> QED BY <1>1, <1>4, <1>5

(* A file that is whole has its own blocks and no others in its chain.     *)
LEMMA ChainOfWhole ==
  ASSUME NEW lay, Kept(lay), NEW h \in Heads, Whole(lay, h), NEW n, n = Len(lay[h])
  PROVE  /\ n \in Nat \ {0} /\ Chain(h) \in [1..n -> Block] /\ Len(Chain(h)) = n
         /\ inode[h].size \in Nat /\ n = get_blocks_required(inode[h].size)
         /\ inode[h].size <= Before(n)
         /\ \A i \in 1..n : Chain(h)[i] = lay[h][i]
         /\ Chain(h)[1] = h
<1>1. n = get_blocks_required(inode[h].size)
  BY DEF Whole, Full
<1>2. ImageTyped /\ h \in Block
  BY HeadIsBlock DEF Kept
<1>3. inode[h].size \in Nat
  BY <1>2 DEF ImageTyped
<1>4. inode[h].size <= Before(n)
  BY <1>1, <1>3, Required
<1>5. n \in Nat \ {0} /\ Chain(h) \in [1..n -> Block] /\ Len(Chain(h)) = n /\ Chain(h)[1] = h
  BY <1>1, <1>2, ChainIs
<1>6. \A i \in 1..n : Chain(h)[i] = lay[h][i]
  <2>1. ASSUME NEW i \in 1..n PROVE Chain(h)[i] = lay[h][i]
    <3>1. i \in 1..Len(lay[h]) /\ i <= get_blocks_required(inode[h].size)
      BY <1>1, <1>5
    <3> QED BY <3>1, ChainIsLaid
  <2> QED BY <2>1
<1> QED BY <1>1, <1>3, <1>4, <1>5, <1>6

(* It is stored as it should be.                                           *)
LEMMA StoredIs ==
  ASSUME NEW lay, Kept(lay), NEW h \in Heads, Whole(lay, h)
  PROVE  Stored(h) = shadow[h]
<1>1. PICK n : n = Len(lay[h])
  OBVIOUS
<1>2. /\ n \in Nat \ {0} /\ Chain(h) \in [1..n -> Block] /\ Len(Chain(h)) = n
      /\ inode[h].size \in Nat /\ inode[h].size <= Before(n)
      /\ \A i \in 1..n : Chain(h)[i] = lay[h][i]
      /\ Chain(h)[1] = h
  BY <1>1, ChainOfWhole
<1>3. ImageTyped /\ h \in Block
  BY HeadIsBlock DEF Kept
<1>4. PICK seqs : seqs = [i \in DOMAIN Chain(h) |-> PieceAt(h, i)]
  OBVIOUS
<1>5. \A i \in 1..n : seqs[i] = PieceAt(h, i)
  <2>1. DOMAIN Chain(h) = 1..n
    BY <1>2
  <2> QED BY <1>4, <2>1
<1>6. ASSUME NEW i \in 1..n
      PROVE  /\ PieceAt(h, i) \in Seq(CellsOf) /\ Len(PieceAt(h, i)) = Room(i - 1)
             /\ \A k \in 1..Room(i - 1) : PieceAt(h, i)[k] = cells[lay[h][i]][k]
  <2>1. CASE i = 1
    <3>1. PieceAt(h, i) = SubSeq(cells[h], 1, FirstCap)
      BY <2>1 DEF PieceAt
    <3>2. Room(i - 1) = FirstCap
      BY <2>1 DEF Room
    <3>3. lay[h][i] = h
      BY <1>2, <2>1
    <3> QED BY <1>3, <3>1, <3>2, <3>3, BlockCells
  <2>2. CASE i # 1
    <3>1. PICK b \in Block : b = Chain(h)[i]
      BY <1>2
    <3>2. PieceAt(h, i) = cells[b]
      BY <2>2, <3>1 DEF PieceAt
    <3>3. Room(i - 1) = CommonCap
      <4>1. i - 1 # 0
        BY <1>2, <2>2
      <4> QED BY <4>1 DEF Room
    <3>4. lay[h][i] = b
      BY <1>2, <3>1
    <3> QED BY <1>3, <3>2, <3>3, <3>4, BlockCells
  <2> QED BY <2>1, <2>2
<1>7. seqs \in Seq(Seq(CellsOf)) /\ Len(seqs) = n
  <2>1. DOMAIN Chain(h) = 1..n
    BY <1>2
  <2>2. seqs \in [1..n -> Seq(CellsOf)]
    BY <1>4, <1>5, <1>6, <2>1
  <2> QED BY <1>2, <2>2
<1>8. PICK c : c = shadow[h] /\ IsSeq(c) /\ Len(c) = inode[h].size /\ Holds(lay, h, c)
  BY DEF Whole, Kept, FilesWhole
<1>9. \A i \in 1..n : Len(seqs[i]) = Room(i - 1)
  BY <1>5, <1>6
<1>10. ASSUME NEW i \in 1..n, NEW k \in 1..Room(i - 1), Before(i - 1) + k <= Len(c)
       PROVE  seqs[i][k] = c[Before(i - 1) + k]
  <2>1. cells[lay[h][i]][k] = c[Before(i - 1) + k]
    BY <1>1, <1>8, <1>10 DEF Holds
  <2> QED BY <1>5, <1>6, <2>1
<1>11. PICK g : g = FlattenSeq(seqs)
  OBVIOUS
<1>12. IsSeq(g) /\ Len(g) = Before(n) /\ Agrees(g, c)
  <2>1. Pieces(seqs, n, c)
    BY <1>2, <1>7, <1>9, <1>10 DEF Pieces
  <2> QED BY <1>7, <1>11, <2>1, FlatIs
<1>13. Stored(h) = SubSeq(g, 1, Len(c))
  <2>1. Stored(h) = SubSeq(FlattenSeq([i \in DOMAIN Chain(h) |-> PieceAt(h, i)]), 1, inode[h].size)
    BY Zenon DEF Stored, PieceAt
  <2> QED BY <1>4, <1>8, <1>11, <2>1
<1>14. PICK m \in Nat : m = Len(c)
  BY <1>8 DEF IsSeq
<1>15. m \in 0..Len(g)
  <2>1. Len(g) \in Nat
    BY <1>12 DEF IsSeq
  <2> QED BY <1>2, <1>8, <1>12, <1>14, <2>1
<1>16. PICK s : s = SubSeq(g, 1, m)
  OBVIOUS
<1>17. IsSeq(s) /\ Len(s) = m /\ \A i \in 1..m : s[i] = g[i]
  BY <1>12, <1>15, <1>16, StartOf
<1>18. \A i \in 1..Len(s) : s[i] = c[i]
  <2>1. ASSUME NEW i \in 1..m PROVE s[i] = c[i]
    <3>1. i \in 1..Len(g) /\ i <= Len(c)
      <4>1. Len(g) \in Nat
        BY <1>12 DEF IsSeq
      <4> QED BY <1>14, <1>15, <4>1
    <3> QED BY <1>12, <1>17, <3>1 DEF Agrees
  <2> QED BY <1>17, <2>1
<1>19. s = c
  BY <1>8, <1>14, <1>17, <1>18, SameSeq
<1> QED BY <1>8, <1>13, <1>14, <1>16, <1>19

(* Its blocks are marked, and not those of another file.                   *)
LEMMA KeptIntact ==
  ASSUME NEW lay, Kept(lay)
  PROVE  Intact
<1>1. superblock = "whole"
  BY DEF Kept
<1>2. \A h \in Unclaimed : h \in Heads /\ Whole(lay, h)
  BY DEF Kept, FilesWhole, Unclaimed, Heads
<1>3. ASSUME NEW h \in Unclaimed
      PROVE  \A b \in ToSet(Chain(h)) : \E i \in 1..Len(lay[h]) : b = lay[h][i] /\ lay[h][i] \in lookup_table \ Metadata
  <2>1. PICK n : n = Len(lay[h])
    OBVIOUS
  <2>2. Chain(h) \in [1..n -> Block] /\ \A i \in 1..n : Chain(h)[i] = lay[h][i]
    BY <1>2, <2>1, ChainOfWhole
  <2>3. \A i \in 1..n : lay[h][i] \in lookup_table \ Metadata
    BY <1>2, <2>1, HeadIsBlock
  <2> QED BY <2>1, <2>2, <2>3 DEF ToSet
<1>4. ASSUME NEW g \in Unclaimed, NEW h \in Unclaimed, g # h
      PROVE  ToSet(Chain(g)) \cap ToSet(Chain(h)) = {}
  <2>1. \A i \in 1..Len(lay[g]), j \in 1..Len(lay[h]) : lay[g][i] # lay[h][j]
    BY <1>2, <1>4 DEF Kept, Laid
  <2>2. \A b \in ToSet(Chain(g)) : b \notin ToSet(Chain(h))
    BY <1>3, <2>1
  <2> QED BY <2>2
<1>5. \A h \in Unclaimed : ToSet(Chain(h)) \subseteq lookup_table \ Metadata
  BY <1>3
<1>6. \A h \in Unclaimed : Stored(h) = shadow[h]
  BY <1>2, StoredIs
<1> QED BY <1>1, <1>4, <1>5, <1>6 DEF Intact

(* What a reader has read is the file, or begins with it.                  *)
LEMMA KeptTells ==
  ASSUME NEW lay, Kept(lay)
  PROVE  Tells
<1>1. SUFFICES ASSUME NEW p \in Processes, proc[p].at \in {"find", "listed", "printed"}
               PROVE  /\ proc[p].disturbed = "no" => proc[p].buf = proc[p].base
                      /\ proc[p].disturbed = "grown" => IsPrefix(proc[p].base, proc[p].buf)
  BY DEF Tells
<1>2. SUFFICES ASSUME proc[p].disturbed \in {"no", "grown"}
               PROVE  /\ proc[p].disturbed = "no" => proc[p].buf = proc[p].base
                      /\ proc[p].disturbed = "grown" => IsPrefix(proc[p].base, proc[p].buf)
  OBVIOUS
<1>3. PICK a, c : a = proc[p].buf /\ c = proc[p].base
  OBVIOUS
<1>4. Sees(lay, p)
  <2>1. Reading(lay, p) /\ Reader(p) /\ proc[p].disturbed # "changed"
    BY <1>1, <1>2 DEF Kept, Fine, Reader
  <2> QED BY <2>1 DEF Reading
<1>5. IsSeq(a) /\ IsSeq(c) /\ Agrees(a, c) /\ Len(c) <= Len(a)
      /\ (proc[p].disturbed = "no" => Len(c) = Len(a))
  BY <1>1, <1>3, <1>4 DEF Sees, Agree, Agrees
<1>6. proc[p].disturbed = "no" => a = c
  <2>1. ASSUME Len(c) = Len(a) PROVE \A i \in 1..Len(a) : a[i] = c[i]
    <3>1. PICK m \in Nat : m = Len(a)
      BY Zenon, <1>5 DEF IsSeq
    <3>2. \A i \in 1..m : i <= m => a[i] = c[i]
      BY <1>5, <2>1, <3>1 DEF Agrees
    <3> QED BY SMTT(30), <3>1, <3>2
  <2> QED BY <1>5, <2>1, SameSeq
<1>7. IsPrefix(c, a)
  <2>1. PICK m \in Nat, n \in Nat : m = Len(c) /\ n = Len(a)
    BY Zenon, <1>5 DEF IsSeq
  <2>2. m \in 0..n /\ m \in 0..m
    BY <1>5, <2>1
  <2>3. PICK s, t : s = SubSeq(c, 1, m) /\ t = SubSeq(a, 1, m)
    OBVIOUS
  <2>4. IsSeq(s) /\ Len(s) = m /\ \A i \in 1..m : s[i] = c[i]
    BY <1>5, <2>1, <2>2, <2>3, StartOf
  <2>5. IsSeq(t) /\ Len(t) = m /\ \A i \in 1..m : t[i] = a[i]
    BY <1>5, <2>1, <2>2, <2>3, StartOf
  <2>6. \A i \in 1..m : i \in 1..n /\ i <= m
    BY <2>2
  <2>7. \A i \in 1..m : s[i] = t[i]
    BY <1>5, <2>1, <2>4, <2>5, <2>6 DEF Agrees
  <2>8. s = t
    BY <2>4, <2>5, <2>7, SameSeq
  <2> QED BY SMTT(30), <1>5, <2>1, <2>3, <2>8 DEF IsPrefix
<1> QED BY <1>3, <1>6, <1>7
-----------------------------------------------------------------------------
(* What is broken stays so.                                                *)
LEMMA StaysBroken ==
  ASSUME NEW p, Step(p), broken
  PROVE  broken'
<1>1. CASE UNCHANGED broken
  BY <1>1
<1>2. CASE \E x : broken' = (broken \/ x)
  BY <1>2, Zenon
<1>3. Breaks(p) \/ store_byte(p) => \E x : broken' = (broken \/ x)
  BY Zenon DEF Breaks, store_byte
<1>4. (\E new : Goes(p, new)) \/ Dies(p) \/ Ends(p) => UNCHANGED broken
  BY Zenon DEF Goes, Dies, Ends
<1>5. start(p) \/ format(p) \/ truncate_file(p) \/ link(p) \/ put(p) \/ shrunk(p) =>
          UNCHANGED broken
  BY Zenon DEF start, format, truncate_file, link, put, shrunk
<1>6. locate_path(p) \/ find_directory_item(p) => UNCHANGED broken
  BY Zenon, <1>4 DEF locate_path, read_directory, find_directory_item
<1>7. located(p) => UNCHANGED broken
  BY Zenon, <1>4 DEF located, read_directory
<1>8. read_file(p) \/ skip(p) \/ get(p) \/ cat(p) \/ printed(p) \/ trace_file_blocks(p) =>
          UNCHANGED broken
  BY Zenon, <1>4 DEF read_file, skip, get, cat, printed, trace_file_blocks
<1>9. perform_write(p) \/ append_directory(p) \/ write_file_unchecked(p) => UNCHANGED broken
  BY <1>4 DEF perform_write, append_directory, write_file_unchecked
<1>10. extend(p) => UNCHANGED broken
  BY <1>4 DEF extend
<1>11. get_next_free_block_index(p) => UNCHANGED broken \/ Breaks(p)
  BY <1>4 DEF get_next_free_block_index
<1>12. load_byte(p) \/ purged(p) \/ reappend(p) \/ purge_blocks(p) \/ purge_items(p) =>
           UNCHANGED broken
  BY <1>4 DEF load_byte, purged, reappend, purge_blocks, purge_items
<1>13. purge_file(p) \/ remove_from_directory(p) => UNCHANGED broken
  BY <1>4 DEF purge_file, read_directory, remove_from_directory
<1>14. kill(p) => Breaks(p)
  BY DEF kill
<1>15. init_new_file(p) => UNCHANGED broken \/ \E x : broken' = (broken \/ x)
  BY Zenon DEF init_new_file
<1> QED BY Zenon, <1>1, <1>2, <1>3, <1>5, <1>6, <1>7, <1>8, <1>9, <1>10, <1>11, <1>12, <1>13, <1>14,
           <1>15 DEF Step

(* A step keeps what is kept, unless it breaks something or two get in each*)
(* other's way.                                                            *)
LEMMA KeptOn ==
  ASSUME NEW lay, Kept(lay), NEW p \in Processes, ~Race, ~Race', ~broken', Step(p)
  PROVE  \E lay2 : Kept(lay2)'
<1>1. CASE start(p) \/ format(p)
  BY <1>1, StartKept, FormatKept
<1>2. CASE locate_path(p) \/ find_directory_item(p) \/ located(p)
  BY <1>2, LocateKept, FindKept
<1>3. CASE read_file(p) \/ skip(p) \/ get(p)
  BY <1>3, ReadKept, SkipKept, GetKept
<1>4. CASE cat(p) \/ printed(p) \/ trace_file_blocks(p)
  BY <1>4, CatReads, CatKept
<1>5. CASE perform_write(p) \/ append_directory(p) \/ write_file_unchecked(p)
  BY <1>5, WriteBegins, AppendKept, ChangeKept
<1>6. CASE truncate_file(p) \/ extend(p) \/ get_next_free_block_index(p)
  BY <1>6, TruncateKept, ExtendKept, ScanKept
<1>7. CASE load_byte(p) \/ store_byte(p) \/ link(p)
  BY <1>7, LoadKept, StoreKept, LinkKept
<1>8. CASE init_new_file(p) \/ put(p) \/ remove_from_directory(p)
  BY <1>8, InitKept, PutKept, RemoveKept
<1>9. CASE purge_blocks(p) \/ purged(p) \/ shrunk(p)
  BY <1>9, PurgeKept, PurgedKept, ShrunkKept
<1>10. CASE reappend(p) \/ purge_file(p) \/ purge_items(p)
  BY <1>10, ReappendKept, RemovedKept
<1>11. CASE kill(p)
  <2>1. Breaks(p)
    BY <1>11 DEF kill
  <2> QED BY <2>1, BreaksKept
<1> QED BY <1>1, <1>2, <1>3, <1>4, <1>5, <1>6, <1>7, <1>8, <1>9, <1>10, <1>11 DEF Step

-----------------------------------------------------------------------------
(* What rfs init leaves: a root directory of one block without an item.    *)
LEMMA InitKeeps ==
  ASSUME Init
  PROVE  LInv
<1>1. /\ lookup_table = Metadata \cup {root_inode} /\ superblock = "whole" /\ begun = 0
      /\ cont = [b \in Block |-> 0]
      /\ inode = [b \in Block |-> [size |-> 0, flags |-> IF b = root_inode THEN DIRECTORY ELSE 0, last |-> b]]
      /\ cells = [b \in Block |-> [i \in 1..CommonCap |-> BLANK]]
      /\ proc = [p \in Processes |-> IDLE]
      /\ shadow = [b \in {root_inode} |-> <<>>]
  BY DEF Init
<1>2. root_inode \in Block \ {0} /\ blocks_count \in Nat /\ Block \subseteq Nat
      /\ root_inode \in Nat
      /\ Metadata \subseteq Block /\ root_inode \notin Metadata
  BY LocalAssumption DEF Block, Metadata
<1>3. \A p \in Processes : proc[p] = IDLE /\ At(p, "idle") /\ ~proc[p].claims
  BY <1>1 DEF At, IDLE
<1>4. ~Race
  <2>1. \A p \in Processes : ~InTable(p) /\ ~At(p, "locate") /\ ~Is(p, {"init"})
    BY <1>1 DEF InTable, At, Is, IDLE, NOCMD
  <2> QED BY <1>3, <2>1 DEF Race
<1>5. ImageTyped
  <2>1. lookup_table \subseteq Block
    BY <1>1, <1>2
  <2>2. cont \in [Block -> Block]
    <3>1. 0 \in Block
      BY <1>2 DEF Block
    <3> QED BY <1>1, <3>1
  <2>3. inode = [b \in Block |-> inode[b]]
        /\ \A b \in Block : /\ inode[b] = [size |-> inode[b].size, flags |-> inode[b].flags, last |-> inode[b].last]
                            /\ inode[b].size \in Nat
    BY <1>1
  <2>4. cells = [b \in Block |-> cells[b]]
        /\ \A b \in Block : cells[b] = [k \in 1..CommonCap |-> cells[b][k]]
    BY <1>1
  <2>5. begun \in Nat /\ proc = [p \in Processes |-> proc[p]]
    BY <1>1
  <2> QED BY <2>1, <2>2, <2>3, <2>4, <2>5 DEF ImageTyped
<1>6. PICK lay : lay = [h \in {root_inode} |-> <<root_inode>>]
  OBVIOUS
<1>7. Heads = {root_inode} /\ shadow[root_inode] = <<>> /\ lay[root_inode] = <<root_inode>>
      /\ Len(lay[root_inode]) = 1 /\ DOMAIN lay = Heads
  BY <1>1, <1>6 DEF Heads
<1>8. Laid(lay)
  <2>1. Metadata \subseteq lookup_table /\ root_inode \in lookup_table \ Metadata
    BY <1>1, <1>2
  <2>2. ASSUME NEW h \in Heads
        PROVE  /\ lay[h] \in Seq(lookup_table \ Metadata) /\ Len(lay[h]) # 0
               /\ lay[h][1] = h
               /\ \A i \in 1..(Len(lay[h]) - 1) : cont[lay[h][i]] = lay[h][i + 1]
    <3>1. h = root_inode /\ lay[h] = <<root_inode>>
      BY <1>7
    <3>2. PICK b, w : b = root_inode /\ w = <<b>>
      OBVIOUS
    <3>3. b \in lookup_table \ Metadata
      BY <2>1, <3>2
    <3>4. w \in Seq(lookup_table \ Metadata) /\ Len(w) = 1 /\ w[1] = b
      BY <3>2, <3>3
    <3>5. \A i \in 1..(1 - 1) : FALSE
      OBVIOUS
    <3>6. lay[h] = w /\ h = b
      BY <3>1, <3>2
    <3>7. lay[h] \in Seq(lookup_table \ Metadata) /\ lay[h][1] = h
      BY <3>4, <3>6, Zenon
    <3>8. Len(lay[h]) = 1
      BY <3>4, <3>6, Zenon
    <3>9. \A i \in 1..(Len(lay[h]) - 1) : FALSE
      BY ONLY <3>8, 1..(1 - 1) = {}
    <3>10. 1 # 0
      OBVIOUS
    <3> QED BY <3>7, <3>8, <3>9, <3>10, Zenon
  <2>3. \A g, h \in Heads : \A i \in 1..Len(lay[g]), j \in 1..Len(lay[h]) : lay[g][i] = lay[h][j] => g = h /\ i = j
    BY <1>7
  <2> QED BY <1>7, <2>1, <2>2, <2>3 DEF Laid
<1>9. FilesWhole(lay)
  <2>1. IsSeq(<<>>) /\ Len(<<>>) = 0
    BY DEF IsSeq
  <2>2. inode[root_inode].size = 0 /\ inode[root_inode].last = root_inode
    BY <1>1, <1>2
  <2>3. get_blocks_required(0) = 1
    BY LocalAssumption DEF get_blocks_required
  <2>4. Full(lay, root_inode)
    BY <1>7, <2>2, <2>3 DEF Full
  <2>5. Holds(lay, root_inode, <<>>)
    <3>1. Before(1) \in Nat /\ Before(0) \in Nat
      BY BeforeStep, 1 \in Nat
    <3>2. \A i \in 1..Len(lay[root_inode]) : \A k \in 1..Room(i - 1) : ~(Before(i - 1) + k <= Len(<<>>))
      <4>1. Room(0) \in Nat /\ 1 - 1 = 0
        BY BeforeStep, 0 \in Nat
      <4>2. \A i \in 1..Len(lay[root_inode]) : i = 1
        BY <1>7
      <4>3. \A k \in 1..Room(0) : ~(Before(0) + k <= 0)
        BY <3>1, <4>1
      <4> QED BY <2>1, <4>1, <4>2, <4>3
    <3> QED BY <1>7, <2>1, <3>1, <3>2 DEF Holds
  <2>6. Whole(lay, root_inode)
    BY <1>7, <2>1, <2>2, <2>4, <2>5 DEF Whole
  <2> QED BY <1>7, <2>1, <2>6 DEF FilesWhole, Unclaimed, Heads
<1>10. ASSUME NEW p \in Processes PROVE Fine(lay, p) /\ \A q \in Processes \ {p} : Beside(p, q)
  <2>1. ProcTyped(p)
    <3>1. DOMAIN IDLE = Fields /\ IDLE.claims \in BOOLEAN /\ IDLE.cmd.offset = 0
          /\ IDLE.cmd.chunks = <<>>
          /\ IDLE.chunk = 1
      BY DEF IDLE, NOCMD, Fields
    <3>2. 0 \in Nat /\ 1 \in Nat \ {0} /\ <<>> \in Seq(Seq(STRING))
      OBVIOUS
    <3>3. DOMAIN proc[p] = Fields /\ proc[p].claims \in BOOLEAN /\ proc[p] = IDLE
      BY <1>3, <3>1
    <3>4. proc[p].cmd.offset \in Nat /\ proc[p].cmd.chunks \in Seq(Seq(STRING))
          /\ proc[p].chunk \in Nat \ {0}
      BY <1>3, <3>1, <3>2
    <3> QED BY <3>3, <3>4 DEF ProcTyped
  <2>2. ~Reader(p) /\ ~InTable(p) /\ ~Waits(p) /\ ~At(p, "purged") /\ ~At(p, "store")
    BY <1>3 DEF Reader, InTable, Waits, At
  <2> QED BY <1>3, <2>1, <2>2
             DEF Fine, Claiming, Unclaiming, Taking, Taken, Reading, Appends, Beside
<1>11. Kept(lay)
  BY <1>1, <1>5, <1>8, <1>9, <1>10 DEF Kept
<1> QED BY <1>4, <1>11 DEF LInv

(* Every step keeps the invariant, one that changes nothing too.           *)
LEMMA NextKeeps ==
  ASSUME LInv, [Next]_vars
  PROVE  LInv'
<1>1. CASE UNCHANGED vars
  <2>1. lookup_table' = lookup_table /\ cont' = cont /\ inode' = inode /\ cells' = cells
        /\ superblock' = superblock
        /\ proc' = proc /\ begun' = begun /\ shadow' = shadow /\ broken' = broken /\ raced' = raced
    BY <1>1 DEF vars, image
  <2>2. Race' <=> Race
    BY <2>1 DEF Race, InTable, At, Is, Claims
  <2>3. ASSUME NEW lay, Kept(lay) PROVE Kept(lay)'
    <3>1. ImageTyped'
      BY <2>1, <2>3 DEF Kept, ImageTyped
    <3>2. Laid(lay)'
      BY <2>1, <2>3 DEF Kept, Laid, Heads, Metadata
    <3>3. FilesWhole(lay)'
      BY <2>1, <2>3 DEF Kept, FilesWhole, Heads, Unclaimed, Claims, Whole, Full, Holds
    <3>4. ASSUME NEW p \in Processes PROVE Fine(lay, p)'
      <4>1. Fine(lay, p)
        BY <2>3 DEF Kept
      <4>2. SameBut(p)
        BY <2>1 DEF SameBut
      <4>3. ASSUME NEW h \in Heads PROVE Steady(lay, lay, h)
        BY <2>1, <4>3 DEF Steady, Heads
      <4>4. ProcTyped(p)'
        BY <4>1, <4>2, ProcTypedSame DEF Fine
      <4>5. Claiming(lay, p)'
        BY <4>1, <4>2, <4>3, ClaimingSteady DEF Fine, Claiming
      <4>6. Unclaiming(p)'
        <5>1. Heads \subseteq Heads'
          BY <2>1 DEF Heads
        <5> QED BY <4>1, <4>2, <5>1, UnclaimingSame DEF Fine
      <4>7. Taking(p)'
        BY <2>1, <4>1, <4>2, TakingSame DEF Fine
      <4>8. Taken(lay, p)'
        BY <2>1, <4>1 DEF Fine, Taken, Waits, Heads, Metadata
      <4>9. Reading(lay, p)'
        <5>1. Reader(p) /\ proc'[p].disturbed # "changed" => Steady(lay, lay, proc[p].file)
          BY <2>1, <4>1, <4>3 DEF Fine, Reading, Sees, SeesFile
        <5> QED BY <4>1, <4>2, <5>1, ReadingSteady DEF Fine
      <4>10. Appends(p)'
        BY <2>1, <4>1, <4>2, AppendsSame DEF Fine
      <4> QED BY <4>4, <4>5, <4>6, <4>7, <4>8, <4>9, <4>10 DEF Fine
    <3>5. \A p \in Processes : \A q \in Processes \ {p} : Beside(p, q)'
      BY <2>1, <2>3 DEF Kept, Beside, Reader, Claims, Is, At
    <3> QED BY <2>1, <2>3, <3>1, <3>2, <3>3, <3>4, <3>5 DEF Kept
  <2> QED BY <2>1, <2>2, <2>3 DEF LInv
<1>2. CASE Next
  <2>1. SUFFICES ASSUME ~broken', ~raced' PROVE ~Race' /\ \E lay : Kept(lay)'
    BY DEF LInv
  <2>2. PICK p \in Processes : Step(p)
    BY <1>2 DEF Next
  <2>3. ~raced /\ ~Race'
    BY <1>2, <2>1 DEF Next
  <2>4. ~broken
    BY <2>1, <2>2, StaysBroken
  <2>5. ~Race /\ \E lay : Kept(lay)
    BY <2>3, <2>4 DEF LInv
  <2> QED BY <2>1, <2>2, <2>3, <2>5, KeptOn
<1> QED BY <1>1, <1>2

(* As long as nothing is broken and no two get in each other's way, every  *)
(* file nobody is at work on is intact, and what is read is the file.      *)
THEOREM KeepsAndTellsHolds == Spec => []KeepsAndTells
<1>1. Init => LInv
  BY InitKeeps
<1>2. LInv /\ [Next]_vars => LInv'
  BY NextKeeps
<1>3. LInv => KeepsAndTells
  BY KeptIntact, KeptTells DEF LInv, KeepsAndTells
<1> QED BY <1>1, <1>2, <1>3, PTL DEF Spec
=============================================================================
