------------------------------ MODULE LocalTool ------------------------------
(***************************************************************************)
(* The local file system tool of hw1-fs: every command is a process that   *)
(* maps the image MAP_SHARED, works on it with manage.c and exits.  Nothing *)
(* keeps two of them apart, so this module runs several at once, one load  *)
(* of a size or of a continuation, one store or one memcpy per step, and   *)
(* lets any of them be killed between two steps.                           *)
(*                                                                         *)
(* A cell is a DirectoryItem or a piece of a file; blocks hold cells, so   *)
(* what cat and the lookups read is what the chain of blocks holds.        *)
(***************************************************************************)
EXTENDS Integers, FiniteSets, SequencesExt

CONSTANTS
  Processes,
  blocks_count, root_inode,
  FirstCap, CommonCap,  (* cells in the first and in every other block     *)
  BufSize,              (* buf_size of cat                                 *)
  LongNames,
  Prelude,              (* commands run one after the other at first       *)
  Commands,             (* and those that are run after them               *)
  MaxCommands           (* how many of them                                *)

VARIABLES
  lookup_table, cont, inode, cells,     (* the image                       *)
  superblock,           (* whether it can still be read                    *)
  proc,                 (* the locals of each process                      *)
  begun,                (* commands begun so far                           *)
  (* history *)
  shadow,               (* what the file at a block should hold            *)
  broken,               (* a command has left the image half changed, or   *)
                        (* has freed or overwritten what is in use         *)
  raced                 (* two have been in each other's way               *)

Block == 0 .. blocks_count - 1

Types == {"mkfile", "mkdir", "write", "cat", "ls", "rm", "stat", "init"}
CommandLine == [type: Types, path: Seq(STRING), offset: Nat, chunks: Seq(Seq(STRING))]

(* The root is one of the blocks and not the superblock; a block has room  *)
(* for something behind either header, and the first's is the longer one.  *)
ASSUME LocalAssumption ==
  /\ blocks_count \in Nat /\ root_inode \in Block \ {0}
  /\ FirstCap \in Nat \ {0} /\ CommonCap \in Nat /\ FirstCap <= CommonCap
  /\ BufSize \in Nat \ {0} /\ MaxCommands \in Nat
  /\ Commands \subseteq CommandLine /\ Prelude \in Seq(CommandLine)

image == <<lookup_table, cont, inode, cells, superblock>>
vars  == <<image, proc, begun, shadow, broken, raced>>

DIRECTORY == 1
FILE      == 2
Metadata  == 0 .. root_inode - 1
BLANK     == [name |-> "", inode |-> 0]
Cell(v)   == [name |-> v, inode |-> 0]
NOCMD     == [type |-> "none", path |-> <<>>, offset |-> 0, chunks |-> <<>>]

IDLE == [at |-> "idle", cmd |-> NOCMD, depth |-> 0, file |-> root_inode, count |-> 0, offset |-> 0,
         want |-> 0, block |-> 0, ord |-> 0, inner |-> 0, left |-> 0, buf |-> <<>>, after |-> "find",
         chunk |-> 1, found |-> 0, bits |-> {}, made |-> 0, item_index |-> 0, todo |-> <<>>, stack |-> <<>>,
         (* history: at work on file, what it should have read of it, and whether it has grown or changed since *)
         claims |-> FALSE, base |-> <<>>, disturbed |-> "no"]

get_blocks_required(size) ==
  IF size <= FirstCap THEN 1 ELSE 1 + (size - FirstCap + CommonCap - 1) \div CommonCap

(* What rfs init leaves.                                                   *)
Init ==
  /\ lookup_table = Metadata \cup {root_inode}
  /\ cont = [b \in Block |-> 0]
  /\ inode = [b \in Block |-> [size |-> 0, flags |-> IF b = root_inode THEN DIRECTORY ELSE 0, last |-> b]]
  /\ cells = [b \in Block |-> [i \in 1..CommonCap |-> BLANK]]
  /\ superblock = "whole"
  /\ proc = [p \in Processes |-> IDLE]
  /\ begun = 0
  /\ shadow = [b \in {root_inode} |-> <<>>]
  /\ broken = FALSE /\ raced = FALSE
-----------------------------------------------------------------------------
(* The fields of new, and those of old that new does not have.             *)
new ++ old == [x \in DOMAIN new \cup DOMAIN old |-> IF x \in DOMAIN new THEN new[x] ELSE old[x]]

At(p, where) == proc[p].at = where
Is(p, types) == proc[p].cmd.type \in types
Becomes(p, new) == proc' = [proc EXCEPT ![p] = new ++ @]

Makes == {"mkfile", "mkdir"}

(* p has taken a bit, or a byte of bits, that it has not stored yet.       *)
InTable(p)   == proc[p].at \in {"mark", "store"}
(* p is changing file f.                                                   *)
Claims(p, f) == proc[p].claims /\ proc[p].file = f
Claimed(p, f) == \E q \in Processes \ {p} : Claims(q, f)

(* Two processes at once in one byte of the table, on one file, or beside  *)
(* an init; or a lookup that was led to what is no file, by items that     *)
(* were not written yet.                                                   *)
Race ==
  \/ \E p, q \in Processes : p # q /\
       \/ InTable(p) /\ InTable(q) /\ proc[p].found \div 8 = proc[q].found \div 8
       \/ proc[p].claims /\ Claims(q, proc[p].file)
       \/ Is(p, {"init"}) /\ ~At(q, "idle")
  \/ \E p \in Processes : At(p, "locate") /\ proc[p].file \notin DOMAIN shadow

(* A process that ends here leaves a file half changed.                    *)
HalfWay(p) ==
  \/ Is(p, {"init"})
  \/ proc[p].claims /\ IF Is(p, {"rm"}) THEN proc[p].at \notin {"read", "get", "listed"}
                                         ELSE proc[p].at \notin {"change", "truncate"}

(* exit: of die and die_fatal, of a command that is done, of a fault.      *)
Exit(p) ==
  /\ proc' = [proc EXCEPT ![p] = IDLE]
  /\ UNCHANGED <<image, begun, shadow>>

Ends(p)    == Exit(p) /\ UNCHANGED broken
Dies(p)    == Ends(p)
Breaks(p)  == Exit(p) /\ broken' = (broken \/ HalfWay(p))

(* A signal can end any command.                                           *)
kill(p) == ~At(p, "idle") /\ begun > Len(Prelude) /\ Breaks(p)

Goes(p, new) == Becomes(p, new) /\ UNCHANGED <<image, begun, shadow, broken>>

(* open_fs refuses an image whose superblock is not of this platform.      *)
is_platform_compatible == superblock = "whole"

(* A path is a sequence of "/" and of names.  The first "/" opens it, two  *)
(* in a row make it invalid, and one at the end adds nothing.  "/" has no  *)
(* parts, but room for one, an empty name.                                 *)
ValidPath(path) ==
  /\ path # <<>> /\ path[1] = "/"
  /\ \A i \in 1 .. Len(path) - 1 : ~(path[i] = "/" /\ path[i + 1] = "/")

split_path(path) ==
  LET opening == {i \in 1 .. Len(path) - 1 : path[i] = "/"}
      names   == SelectSeq(path, LAMBDA c : c # "/")
  IN  [count |-> Cardinality(opening), parts |-> IF names = <<>> THEN <<"">> ELSE names]

(* main: a command line that is accepted, open_fs or init_fs.              *)
start(p) ==
  /\ At(p, "idle") /\ is_platform_compatible
  /\ begun <= Len(Prelude) => \A q \in Processes : At(q, "idle")
  /\ begun < Len(Prelude) + MaxCommands
  /\ \E c \in IF begun < Len(Prelude) THEN {Prelude[begun + 1]} ELSE Commands :
       IF c.type # "init" /\ ~ValidPath(c.path) THEN UNCHANGED proc
       ELSE Becomes(p, [at |-> IF c.type = "init" THEN "format" ELSE "locate",
                        cmd |-> IF c.type = "init" THEN c ELSE [c EXCEPT !.path = split_path(c.path)]])
  /\ begun' = begun + 1
  /\ UNCHANGED <<image, shadow, broken>>

(* init_fs and prepare_descriptors on the file as it is: the table is      *)
(* cleared, old contents and continuations stay.                           *)
format(p) ==
  /\ At(p, "format")
  /\ lookup_table' = Metadata /\ shadow' = <<>>
  /\ Becomes(p, [at |-> "scan"])
  /\ UNCHANGED <<cont, inode, cells, superblock, begun, broken>>

Shadow(f) == IF f \in DOMAIN shadow THEN shadow[f] ELSE <<>>

(* read_directory: the size says how much there is to read.                *)
read_directory(p, dir, then) ==
  LET removing == \E q \in Processes \ {p} : Claims(q, dir) /\ Is(q, {"rm"})
  IN
  IF inode[dir].flags # DIRECTORY THEN Dies(p)
  ELSE Goes(p, [at |-> "read", file |-> dir, count |-> inode[dir].size, offset |-> 0,
                want |-> inode[dir].size, buf |-> <<>>, after |-> then, claims |-> then = "listed",
                base |-> Shadow(dir),
                disturbed |-> IF removing THEN "changed" ELSE IF Claimed(p, dir) THEN "grown" ELSE "no"])

(* One round of locate_path.  For "/" mkfile, mkdir and rm have no parent: *)
(* --path.count wraps, and the walk goes on until it fails: no item has an *)
(* empty name but one that is not written yet, and that one has no inode.  *)
Depth(p) == LET count == proc[p].cmd.path.count
            IN  IF ~Is(p, Makes \cup {"rm"}) THEN count ELSE IF count = 0 THEN 2 ELSE count - 1

Name(p)  == Last(proc[p].cmd.path.parts)

(* What p is about to write.                                               *)
Data(p) == CASE Is(p, {"write"}) -> [i \in DOMAIN proc[p].cmd.chunks[proc[p].chunk] |->
                                        Cell(proc[p].cmd.chunks[proc[p].chunk][i])]
             [] Is(p, Makes) -> <<[name |-> Name(p), inode |-> proc[p].made]>>
             [] OTHER -> <<Head(proc[p].todo)>>

locate_path(p) ==
  /\ At(p, "locate") /\ proc[p].depth < Depth(p)
  /\ read_directory(p, proc[p].file, "find")

Matches(p, name) == {i \in DOMAIN proc[p].buf : proc[p].buf[i].name = name}
First(S)         == CHOOSE i \in S : \A j \in S : i <= j

find_directory_item(p) ==
  LET hits == Matches(p, proc[p].cmd.path.parts[proc[p].depth + 1])
  IN
  /\ At(p, "find")
  /\ \/ hits = {} /\ Dies(p)
     \/ hits # {} /\ Goes(p, [file |-> proc[p].buf[First(hits)].inode, depth |-> proc[p].depth + 1, at |-> "locate"])

(* What main does with the inode.                                          *)
located(p) ==
  /\ At(p, "locate") /\ proc[p].depth = Depth(p)
  /\ CASE Is(p, Makes) /\ Name(p) \in LongNames -> Dies(p)
       [] Is(p, Makes) /\ Name(p) \notin LongNames -> Goes(p, [at |-> "scan"])
       [] Is(p, {"write"}) -> Goes(p, [at |-> "write", offset |-> proc[p].cmd.offset])
       [] Is(p, {"ls"}) -> read_directory(p, proc[p].file, "printed")
       [] Is(p, {"rm"}) -> read_directory(p, proc[p].file, "listed")
       [] Is(p, {"stat"}) ->
            Goes(p, [at |-> "trace", block |-> proc[p].file, left |-> get_blocks_required(inode[proc[p].file].size)])
       [] OTHER ->
            Goes(p, [at |-> "read", offset |-> 0, want |-> BufSize, after |-> "cat", buf |-> <<>>,
                     base |-> Shadow(proc[p].file),
                     disturbed |-> IF Claimed(p, proc[p].file) THEN "changed" ELSE "no"])
-----------------------------------------------------------------------------
(* read_file up to its loops; the size is loaded again.                    *)
read_file(p) ==
  LET size == inode[proc[p].file].size
      s    == proc[p]
  IN
  /\ At(p, "read")
  /\ \/ /\ s.want = 0 \/ s.offset = size
        /\ Goes(p, [at |-> IF s.after = "cat" THEN "printed" ELSE s.after,
                    buf |-> s.buf \o [i \in 1 .. (IF s.after = "cat" THEN 0 ELSE s.count) |-> BLANK]])
     \/ s.want # 0 /\ s.offset > size /\ Dies(p)
     \/ /\ s.want # 0 /\ s.offset < size
        /\ Goes(p, [at |-> "get", block |-> s.file, ord |-> 0, inner |-> s.offset,
                    left |-> IF s.offset + s.want > size THEN size - s.offset ELSE s.want])

Cap(p) == IF proc[p].ord = 0 THEN FirstCap ELSE CommonCap
Share(p) == IF Cap(p) - proc[p].inner < proc[p].left THEN Cap(p) - proc[p].inner ELSE proc[p].left

(* get_next_inode: of NULL it faults, a number out of range is refused.    *)
NoNext(p) == proc[p].block = 0 \/ cont[proc[p].block] >= blocks_count
Next1(p)  == [block |-> cont[proc[p].block], ord |-> proc[p].ord + 1]

(* A block before the one that holds the offset.  An offset at the very    *)
(* end of a block stays in it.                                             *)
skip(p) ==
  /\ proc[p].at \in {"get", "put"} /\ proc[p].inner > Cap(p)
  /\ \/ NoNext(p) /\ Dies(p)
     \/ ~NoNext(p) /\ Goes(p, Next1(p) ++ [inner |-> proc[p].inner - Cap(p)])

(* memcpy out of one block.                                                *)
get(p) ==
  LET s == proc[p]
      got == s.buf \o (IF s.block \in Metadata THEN [i \in 1..Share(p) |-> BLANK]
                       ELSE SubSeq(cells[s.block], s.inner + 1, s.inner + Share(p)))
      pad == IF s.after = "cat" THEN 0 ELSE s.count - Len(got)
  IN
  /\ At(p, "get") /\ s.inner <= Cap(p)
  /\ \/ /\ s.left = Share(p)
        /\ Goes(p, [at |-> s.after, buf |-> got \o [i \in 1..pad |-> BLANK], left |-> 0])
     \/ s.left > Share(p) /\ NoNext(p) /\ Dies(p)
     \/ /\ s.left > Share(p) /\ ~NoNext(p)
        /\ Goes(p, Next1(p) ++ [buf |-> got, left |-> s.left - Share(p), inner |-> 0])

(* cat asks for more until there is none.                                  *)
cat(p) == At(p, "cat") /\ Goes(p, [at |-> "read", offset |-> Len(proc[p].buf)])

printed(p) == At(p, "printed") /\ Ends(p)

(* stat: trace_file_blocks follows the continuation of the last block too. *)
trace_file_blocks(p) ==
  /\ At(p, "trace")
  /\ \/ proc[p].left = 0 /\ Ends(p)
     \/ proc[p].left > 0 /\ NoNext(p) /\ Dies(p)
     \/ proc[p].left > 0 /\ ~NoNext(p) /\ Goes(p, Next1(p) ++ [left |-> proc[p].left - 1])
-----------------------------------------------------------------------------
(* perform_write: what fread gives, until the end of the input.            *)
perform_write(p) ==
  /\ At(p, "write")
  /\ IF proc[p].chunk > Len(proc[p].cmd.chunks) THEN Ends(p)
     ELSE IF inode[proc[p].file].flags # FILE THEN Dies(p)
     ELSE Goes(p, [at |-> "change", claims |-> TRUE])

append_directory(p) ==
  /\ At(p, "append")
  /\ \/ inode[proc[p].file].flags # DIRECTORY /\ Dies(p)
     \/ inode[proc[p].file].flags = DIRECTORY /\ Goes(p, [at |-> "change", claims |-> TRUE, offset |-> inode[proc[p].file].size])

(* As Becomes, and those who read the file of p are disturbed.             *)
Disturbs(p, new, how) ==
  proc' = [q \in Processes |->
             IF q = p THEN new ++ proc[p]
             ELSE IF proc[q].file = proc[p].file /\ ~At(q, "idle") /\ proc[q].disturbed # "changed"
                  THEN [proc[q] EXCEPT !.disturbed = how] ELSE proc[q]]

Put(p) == [at |-> "put", block |-> proc[p].file, ord |-> 0, inner |-> proc[p].offset, left |-> Len(Data(p))]

(* write_file_unchecked up to truncate_file.                               *)
write_file_unchecked(p) ==
  LET size == inode[proc[p].file].size
  IN
  /\ At(p, "change")
  /\ \/ Data(p) = <<>> /\ Goes(p, [at |-> "write", claims |-> FALSE, chunk |-> proc[p].chunk + 1])
     \/ Data(p) # <<>> /\ proc[p].offset > size /\ Dies(p)
     \/ /\ Data(p) # <<>> /\ proc[p].offset <= size
        /\ Goes(p, IF proc[p].offset + Len(Data(p)) > size THEN [at |-> "truncate"] ELSE Put(p))

(* truncate_file to a larger size, as far as the size is stored.           *)
truncate_file(p) ==
  LET f   == proc[p].file
      new == proc[p].offset + Len(Data(p))
      old == get_blocks_required(inode[f].size)
  IN
  /\ At(p, "truncate")
  /\ inode' = [inode EXCEPT ![f].size = new]
  /\ Disturbs(p, IF get_blocks_required(new) > old
                   THEN [at |-> "extend", block |-> inode[f].last, ord |-> old, left |-> get_blocks_required(new)]
                   ELSE Put(p),
                 IF Is(p, {"write"}) THEN "changed" ELSE "grown")
  /\ UNCHANGED <<lookup_table, cont, cells, superblock, begun, shadow, broken>>

(* Mutant of extend: last_inode is not stored.                             *)
ExtendKeepsLast(p) ==
  /\ At(p, "extend")
  /\ \/ proc[p].ord < proc[p].left /\ Goes(p, [at |-> "scan"])
     \/ proc[p].ord = proc[p].left /\ Goes(p, Put(p))

(* Its loop: a block at a time, and last_inode at the end.                 *)
extend(p) ==
  /\ At(p, "extend")
  /\ \/ proc[p].ord < proc[p].left /\ Goes(p, [at |-> "scan"])
     \/ /\ proc[p].ord = proc[p].left
        /\ inode' = [inode EXCEPT ![proc[p].file].last = proc[p].block]
        /\ Becomes(p, Put(p))
        /\ UNCHANGED <<lookup_table, cont, cells, superblock, begun, shadow, broken>>

(* get_next_free_block_index, padding bits of the last byte included, and  *)
(* the check of mark_block_in_lookup_table.                                *)
get_next_free_block_index(p) ==
  LET free == (0 .. 8 * ((blocks_count + 7) \div 8) - 1) \ lookup_table
  IN
  /\ At(p, "scan")
  /\ \/ free \cap Block = {} /\ Breaks(p)
     \/ free \cap Block # {} /\ Goes(p, [at |-> "mark", found |-> First(free)])

(* The blocks that hold file b.                                            *)
Chain(b) ==
  LET n == get_blocks_required(inode[b].size)
      at[i \in 1..n] == IF i = 1 THEN b ELSE IF at[i - 1] \in Block THEN cont[at[i - 1]] ELSE 0
  IN  [i \in 1..n |-> at[i]]

(* Blocks of files, and those a process has marked to use them next.       *)
InUse(b) == \/ b \in Metadata
            \/ \E h \in DOMAIN shadow : b \in ToSet(Chain(h))
            \/ \E p \in Processes : proc[p].at \in {"link", "init"} /\ proc[p].found = b

(* lookup_table[byte_index] |= or &= : the byte is loaded, and stored.     *)
Byte(b) == {c \in Block : c \div 8 = b \div 8}
Purging(p) == Is(p, {"rm"}) /\ proc[p].block = proc[p].found

load_byte(p) ==
  /\ At(p, "mark") /\ Goes(p, [at |-> "store", bits |-> lookup_table \cap Byte(proc[p].found)])

store_byte(p) ==
  LET s == proc[p]
  IN
  /\ At(p, "store")
  /\ lookup_table' = (lookup_table \ Byte(s.found)) \cup (IF Purging(p) THEN s.bits \ {s.found} ELSE s.bits \cup {s.found})
  /\ Becomes(p, [bits |-> {}, at |-> IF Purging(p) THEN "purged"
                                     ELSE IF Is(p, Makes \cup {"init"}) /\ s.made = 0 THEN "init" ELSE "link"])
  /\ broken' = (broken \/ (Purging(p) /\ InUse(s.found)))
  /\ UNCHANGED <<cont, inode, cells, superblock, begun, shadow>>

link(p) ==
  LET s == proc[p]
  IN
  /\ At(p, "link")
  /\ cont' = [cont EXCEPT ![s.block] = s.found]
  /\ Becomes(p, [at |-> "extend", block |-> s.found, ord |-> s.ord + 1])
  /\ UNCHANGED <<lookup_table, inode, cells, superblock, begun, shadow, broken>>

(* init_new_file after its block is marked; init_fs checks which it is.    *)
init_new_file(p) ==
  LET b == proc[p].found
  IN
  /\ At(p, "init")
  /\ inode' = [inode EXCEPT ![b] = [size |-> 0, last |-> b, flags |-> IF Is(p, {"mkfile"}) THEN FILE ELSE DIRECTORY]]
  /\ cont' = [cont EXCEPT ![b] = 0]
  /\ shadow' = [h \in DOMAIN shadow \cup {b} |-> IF h = b THEN <<>> ELSE shadow[h]]
  /\ IF Is(p, {"init"}) THEN proc' = [proc EXCEPT ![p] = IDLE] /\ broken' = (broken \/ b # root_inode)
                        ELSE Becomes(p, [made |-> b, at |-> "append"]) /\ UNCHANGED broken
  /\ UNCHANGED <<lookup_table, cells, superblock, begun>>

(* memcpy into one block.  A chain that is too short ends in block 0.      *)
Overlaid(old, off, new) ==
  [i \in 1 .. (IF off + Len(new) > Len(old) THEN off + Len(new) ELSE Len(old)) |->
     IF i > off /\ i <= off + Len(new) THEN new[i - off] ELSE IF i \in DOMAIN old THEN old[i] ELSE BLANK]

Written(p) ==
  CASE Is(p, {"write"}) -> [at |-> "write", claims |-> FALSE, chunk |-> proc[p].chunk + 1, offset |-> proc[p].offset + Len(Data(p))]
    [] Is(p, Makes)     -> IDLE
    [] OTHER            -> [at |-> "reappend", todo |-> Tail(proc[p].todo)]

put(p) ==
  LET s    == proc[p]
      done == Len(Data(p)) - s.left
      n    == Share(p)
      lost == s.left > n /\ NoNext(p)
  IN
  /\ At(p, "put") /\ s.inner <= Cap(p)
  /\ IF s.block \in Metadata /\ n > 0 THEN superblock' = "smashed" /\ UNCHANGED cells
     ELSE /\ cells' = [cells EXCEPT ![s.block] = [i \in DOMAIN @ |-> IF i > s.inner /\ i <= s.inner + n
                                                                       THEN Data(p)[done + i - s.inner] ELSE @[i]]]
          /\ UNCHANGED superblock
  /\ Disturbs(p, IF s.left = n THEN Written(p) ELSE IF lost THEN IDLE
                 ELSE Next1(p) ++ [left |-> s.left - n, inner |-> 0],
                 IF Is(p, {"write"}) THEN "changed" ELSE "grown")
  /\ shadow' = IF s.left = n /\ s.file \in DOMAIN shadow
                 THEN [shadow EXCEPT ![s.file] = Overlaid(@, s.offset, Data(p))] ELSE shadow
  /\ UNCHANGED <<lookup_table, cont, inode, begun, broken>>
-----------------------------------------------------------------------------
(* remove_from_directory up to truncate_file(0).                           *)
remove_from_directory(p) ==
  LET s    == proc[p]
      hits == Matches(p, Name(p))
  IN
  /\ At(p, "listed")
  /\ \/ hits = {} /\ Dies(p)
     \/ /\ hits # {}
        /\ inode' = [inode EXCEPT ![s.file].size = 0]
        /\ shadow' = IF s.file \in DOMAIN shadow THEN [shadow EXCEPT ![s.file] = <<>>] ELSE shadow
        /\ Disturbs(p, [item_index |-> First(hits) - 1, todo |-> RemoveAt(s.buf, First(hits)), after |-> "shrunk"] ++
                       IF get_blocks_required(inode[s.file].size) > 1
                         THEN [at |-> "purge_blocks", block |-> cont[s.file]] ELSE [at |-> "reappend"],
                    "changed")
        /\ UNCHANGED <<lookup_table, cont, cells, superblock, begun, broken>>

(* One block of purge_blocks.                                              *)
purge_blocks(p) ==
  /\ At(p, "purge_blocks")
  /\ \/ proc[p].block = 0 /\ Goes(p, [at |-> proc[p].after, found |-> 0])
     \/ proc[p].block >= blocks_count /\ Dies(p)
     \/ proc[p].block \in Block \ {0} /\ Goes(p, [at |-> "mark", found |-> proc[p].block])

purged(p) == At(p, "purged") /\ Goes(p, [at |-> "purge_blocks", block |-> cont[proc[p].block]])

shrunk(p) ==
  /\ At(p, "shrunk")
  /\ inode' = [inode EXCEPT ![proc[p].file].last = proc[p].file]
  /\ Becomes(p, [at |-> "reappend"])
  /\ UNCHANGED <<lookup_table, cont, cells, superblock, begun, shadow, broken>>

(* The other items again; then purge_file gets the index of the item where *)
(* it takes an inode.                                                      *)
reappend(p) ==
  /\ At(p, "reappend")
  /\ Goes(p, IF proc[p].todo # <<>> THEN [at |-> "append"]
             ELSE [at |-> "purge", claims |-> FALSE, stack |-> <<[inode |-> proc[p].item_index, listed |-> FALSE]>>])

purge_file(p) ==
  LET b == Head(proc[p].stack).inode
  IN
  /\ At(p, "purge")
  /\ IF proc[p].stack = <<>> THEN Ends(p)
     ELSE IF b = 0 \/ b >= blocks_count THEN Dies(p)
     ELSE IF inode[b].flags = DIRECTORY /\ ~Head(proc[p].stack).listed THEN read_directory(p, b, "items")
     ELSE Goes(p, [at |-> "purge_blocks", block |-> b, stack |-> Tail(proc[p].stack), after |-> "purge"])

(* The files of a directory come before the directory itself.              *)
purge_items(p) ==
  /\ At(p, "items")
  /\ Goes(p, [at |-> "purge",
              stack |-> [i \in DOMAIN proc[p].buf |-> [inode |-> proc[p].buf[i].inode, listed |-> FALSE]] \o
                        <<[Head(proc[p].stack) EXCEPT !.listed = TRUE]>> \o Tail(proc[p].stack)])
-----------------------------------------------------------------------------
Step(p) ==
  \/ start(p) \/ format(p) \/ locate_path(p) \/ find_directory_item(p) \/ located(p)
  \/ read_file(p) \/ skip(p) \/ get(p) \/ cat(p) \/ printed(p) \/ trace_file_blocks(p)
  \/ perform_write(p) \/ append_directory(p) \/ write_file_unchecked(p) \/ truncate_file(p) \/ extend(p)
  \/ get_next_free_block_index(p) \/ load_byte(p) \/ store_byte(p) \/ link(p) \/ init_new_file(p) \/ put(p)
  \/ remove_from_directory(p) \/ purge_blocks(p) \/ purged(p) \/ shrunk(p) \/ reappend(p)
  \/ purge_file(p) \/ purge_items(p) \/ kill(p)

Next == (\E p \in Processes : Step(p)) /\ raced' = (raced \/ Race')

Spec == Init /\ [][Next]_vars
-----------------------------------------------------------------------------
Stored(b) == SubSeq(FlattenSeq([i \in DOMAIN Chain(b) |->
                      IF i = 1 THEN SubSeq(cells[b], 1, FirstCap) ELSE cells[Chain(b)[i]]]), 1, inode[b].size)

Unclaimed == {h \in DOMAIN shadow : \A p \in Processes : ~Claims(p, h)}

(* Every file nobody is at work on holds what was written to it last, in   *)
(* blocks of its own that are marked, as long as no command was cut short  *)
(* half way through a change of size or freed what is in use, and no two   *)
(* commands have changed one file, or the lookup table, at the same time.  *)
Intact ==
  /\ superblock = "whole"
  /\ \A h \in Unclaimed : /\ ToSet(Chain(h)) \subseteq lookup_table \ Metadata
                          /\ Stored(h) = shadow[h]
  /\ \A g, h \in Unclaimed : g # h => ToSet(Chain(g)) \cap ToSet(Chain(h)) = {}

(* Then too what ls and cat print and what a lookup searches is what was   *)
(* there when it began; a directory to which others add meanwhile still    *)
(* shows every item it had.                                                *)
Tells ==
  \A p \in Processes :
    proc[p].at \in {"find", "listed", "printed"} =>
      /\ proc[p].disturbed = "no" => proc[p].buf = proc[p].base
      /\ proc[p].disturbed = "grown" => IsPrefix(proc[p].base, proc[p].buf)

KeepsAndTells == ~broken /\ ~raced => Intact /\ Tells
=============================================================================
