------------------------------ MODULE RfsCore ------------------------------
(***************************************************************************)
(* The block file system of hw2-netfs (src/manage.c) under the request     *)
(* handlers of the daemon (src/backend_operations_impl.c).  The daemon     *)
(* runs its handlers under one mutex, so at most one request is in         *)
(* progress.  A handler is a sequence of stores into the mapped image and  *)
(* is modelled one store, or one loop iteration, per step, because it can  *)
(* be abandoned between two of them: die_fatal ends the thread, and a      *)
(* fault or a kill ends the daemon, which leaves in the MAP_SHARED image   *)
(* whatever was stored so far.                                             *)
(*                                                                         *)
(* Data abstraction.  Sizes count cells.  A DirectoryItem is one cell; a   *)
(* cell of a regular file carries no value.  The content of a directory is *)
(* the sequence items[d]; the chain of blocks that stores it is walked by  *)
(* the same steps as the chain of a regular file.                          *)
(***************************************************************************)
EXTENDS Naturals, Sequences, FiniteSets, SequencesExt

CONSTANTS
  blocks_count,   (* superblock->blocks_count                              *)
  root_inode,     (* fs.root_inode = number of metadata blocks             *)
  FirstCap,       (* first_block_size: cells in the first block of a file  *)
  CommonCap,      (* common_block_size: cells in every other block         *)
  Stale,          (* what an unused block may hold in continuation_inode:
                     {0} on a fresh image, more on a file used before      *)
  Names,          (* path components                                       *)
  LongNames,      (* those of FILE_NAME_LENGTH characters or more          *)
  Requests,       (* the requests clients send                             *)
  StackDepth      (* nesting of purge_file calls that overflows the stack  *)

FLG_DIRECTORY == 1
FLG_FILE      == 2

Block    == 0 .. blocks_count - 1
Metadata == 0 .. root_inode - 1
OpType   == {"Read", "Write", "Create", "Remove", "Stat", "ReadDir"}

(* A request names every argument; a handler ignores those it has no use   *)
(* for.                                                                    *)
Request == [type : OpType, path : Seq(Names), offset : Nat, length : Nat,
            flags : {FLG_DIRECTORY, FLG_FILE}]

ASSUME ImageAssumption ==
  /\ blocks_count \in Nat
  /\ root_inode \in Nat \ {0}
  /\ root_inode < blocks_count
  /\ FirstCap \in Nat \ {0}
  /\ CommonCap \in Nat \ {0}
  /\ Stale \subseteq Nat

ASSUME RequestAssumption ==
  \A r \in Requests : /\ r.type \in OpType
                      /\ r.path \in Seq(Names)
                      /\ r.offset \in Nat
                      /\ r.length \in Nat
                      /\ r.flags \in {FLG_DIRECTORY, FLG_FILE}

VARIABLES
  (* the mapped image *)
  lookup_table,   (* the blocks whose bit is set                           *)
  cont,           (* continuation_inode of each block                      *)
  inode,          (* size, flags and last_inode of each block's INodeMain  *)
  items,          (* the DirectoryItems of each directory                  *)
  (* the handler in progress *)
  pc, op,
  file,           (* the file its function works on                        *)
  offset, length, (* the range of that file it reads or writes             *)
  block_index,    (* cursor of its loop                                    *)
  ord, goal,      (* iteration of the loop, and the last one               *)
  found,          (* the block get_next_free_block_index gave              *)
  made,           (* file_inode of fsop_Create                             *)
  item_index,     (* result of find_directory_item, counted from 0         *)
  todo,           (* items remove_from_directory has still to append       *)
  stack,          (* pending purge_file calls                              *)
  reply,          (* how the last request ended                            *)
  (* history: no handler reads these *)
  owner, rank,    (* block b is block number rank[b] of file owner[b]      *)
  torn,           (* the image has been left in a state its own functions
                     misread                                               *)
  smashed,        (* file data has been copied over a metadata block       *)
  stray,          (* blocks marked for a header that was not stored        *)
  before,         (* what was visible when the request arrived             *)
  (* the daemon *)
  heap            (* it has written past memory it allocated               *)

image   == <<lookup_table, cont, inode, items>>
ghosts  == <<owner, rank, smashed, stray, heap>>
range   == <<file, offset, length>>
cursor  == <<block_index, ord, goal>>
removal == <<item_index, todo, stack>>
locals  == <<range, cursor, found, made, removal>>
vars    == <<image, pc, op, locals, reply, ghosts, torn, before>>

-----------------------------------------------------------------------------
get_blocks_required(size) ==
  IF size <= FirstCap THEN 1
  ELSE (size - FirstCap + CommonCap - 1) \div CommonCap + 1

(* Mutant of OrdinalOf: counts the blocks from one.                        *)
OrdinalFromOne(position) == get_blocks_required(position)

(* Ordinal of the block in which the walk of read_file and write_file      *)
(* ends up for a position: an exact block end stays in that block.         *)
OrdinalOf(position) == get_blocks_required(position) - 1

IsDirectory(b) == inode[b].flags = FLG_DIRECTORY
IsFile(b)      == inode[b].flags = FLG_FILE

Least(S) == {x \in S : \A y \in S : x <= y}

(* get_next_free_block_index scans the table upwards, byte by byte: the    *)
(* bits that pad its last byte are scanned as well.                        *)
ScannedBits == 0 .. 8 * ((blocks_count + 7) \div 8) - 1

(* Mutant of FreeBits: the lookup table is not consulted.                  *)
FreeUnlessMetadata == ScannedBits \ Metadata

FreeBits == ScannedBits \ lookup_table

(* Mutant of Hits: the search does not stop at the first match.            *)
AnyHits(dir, name) == {i \in DOMAIN items[dir] : items[dir][i].name = name}

(* find_directory_item: the first match.                                   *)
Hits(dir, name) ==
  Least({i \in DOMAIN items[dir] : items[dir][i].name = name})

BaseName == op.path[Len(op.path)]
Writing  == op.type \in {"Write", "Create", "Remove"}

(* The files a lookup can reach, and what it shows of them.                *)
IsHead(b) == b # 0 /\ owner[b] = b
Linked(b) == b = root_inode
             \/ \E d \in Block : /\ IsHead(d)
                                 /\ \E i \in DOMAIN items[d] : items[d][i].inode = b
Visible   == [b \in {h \in Block : IsHead(h) /\ Linked(h)} |->
                [size |-> inode[b].size, flags |-> inode[b].flags, items |-> items[b]]]
-----------------------------------------------------------------------------
(* The image rfsdaemon init leaves behind, and a daemon waiting.           *)
Init ==
  /\ lookup_table = 0 .. root_inode
  /\ cont \in {c \in [Block -> Stale \cup {0}] : c[root_inode] = 0}
  /\ inode = [b \in Block |->
                [size |-> 0, flags |-> IF b = root_inode THEN FLG_DIRECTORY ELSE 0,
                 last_inode |-> IF b = root_inode THEN root_inode ELSE 0]]
  /\ items = [b \in Block |-> <<>>]
  /\ pc = "idle"
  /\ op \in Requests
  /\ file = root_inode /\ offset = 0 /\ length = 0
  /\ block_index = 0 /\ ord = 0 /\ goal = 0
  /\ found = 0 /\ made = 0 /\ item_index = 0 /\ todo = <<>> /\ stack = <<>>
  /\ reply = "none"
  /\ owner = [b \in Block |-> IF b = root_inode THEN root_inode ELSE 0]
  /\ rank = [b \in Block |-> 0]
  /\ torn = FALSE
  /\ smashed = FALSE
  /\ stray = {}
  /\ before = <<>>
  /\ heap = FALSE

(* The ways a handler ends.  The locals of the thread are gone with it.    *)
Forget ==
  /\ file' = root_inode /\ offset' = 0 /\ length' = 0
  /\ block_index' = 0 /\ ord' = 0 /\ goal' = 0
  /\ found' = 0 /\ made' = 0 /\ item_index' = 0 /\ todo' = <<>> /\ stack' = <<>>

Finish == pc' = "answer" /\ UNCHANGED <<op, locals, reply, before>>

(* write_empty_error and what each handler writes after it.  A client that *)
(* has gone away kills the daemon here, as nobody handles SIGPIPE: this is *)
(* a Kill between the effect and the answer.                               *)
Answer ==
  /\ pc = "answer"
  /\ pc' = "idle" /\ reply' = "ok" /\ before' = <<>>
  /\ Forget
  /\ UNCHANGED <<image, op, ghosts, torn>>

(* Where abandoning the handler leaves an image whose sizes, chains and    *)
(* last_inode do not agree: truncate_file stores the new size first and    *)
(* last_inode last, and a directory has its new size before the item is    *)
(* copied.                                                                 *)
LeavesTorn ==
  \/ pc \in {"extend", "link", "shrink"}
  \/ pc = "walk" /\ op.type \in {"Create", "Remove"}

Abandon(why) ==
  /\ pc' = "idle" /\ reply' = why
  /\ torn' = (torn \/ LeavesTorn)
  /\ before' = <<>>
  /\ Forget
  /\ UNCHANGED <<image, op, owner, rank, stray>>

(* die_fatal -> fsop_error: the client is sent the message, which blames   *)
(* the request or the image.                                               *)
Refuse   == Abandon("refused") /\ UNCHANGED <<smashed, heap>>
Internal == Abandon("internal") /\ UNCHANGED <<smashed, heap>>

(* A fault ends the daemon: setup_sigsegv_catcher hands its handler to     *)
(* sigaction as the place for the old one, so it is never installed.       *)
Segv == Abandon("lost") /\ UNCHANGED smashed /\ heap' = FALSE

(* The daemon is killed and started again: open_fs stores nothing.         *)
Kill == pc # "idle" /\ Abandon("killed") /\ UNCHANGED smashed /\ heap' = FALSE

(* The C library ends a process when it finds its heap overwritten, in any *)
(* allocation of any thread, or never.                                     *)
Abort == pc # "idle" /\ heap /\ Abandon("aborted") /\ UNCHANGED smashed /\ heap' = FALSE
-----------------------------------------------------------------------------
(* A request is read, the mutex taken, and its path walked from the root.  *)
(* Create and Remove walk to the parent.  For "/" they have no parent:     *)
(* --path.count wraps, and the walk stops at the empty name parts[0].      *)
(* Nothing is said about an image whose superblock is gone.                *)
Serve(r) ==
  /\ pc = "idle" /\ ~smashed
  /\ pc' = "locate" /\ op' = r /\ reply' = "none" /\ before' = Visible
  /\ file' = root_inode /\ ord' = 0
  /\ goal' = IF r.type \notin {"Create", "Remove"} THEN Len(r.path)
             ELSE IF r.path = <<>> THEN 1 ELSE Len(r.path) - 1
  /\ UNCHANGED <<image, offset, length, block_index, found, made, removal, ghosts, torn>>

(* One round of its loop: read_directory, find_directory_item.             *)
locate_path ==
  /\ pc = "locate" /\ ord < goal
  /\ \/ /\ op.path = <<>> \/ ~IsDirectory(file) \/ Hits(file, op.path[ord + 1]) = {}
        /\ Refuse
     \/ /\ op.path # <<>> /\ IsDirectory(file)
        /\ \E i \in Hits(file, op.path[ord + 1]) : file' = items[file][i].inode
        /\ ord' = ord + 1
        /\ UNCHANGED <<image, pc, op, offset, length, block_index, goal, found,
                       made, removal, reply, ghosts, torn, before>>

Located(type) == pc = "locate" /\ ord = goal /\ op.type = type

(* The loop of read_file and write_file over [off, off + len) of file.     *)
StartWalk(off, len, last) ==
  /\ pc' = "walk"
  /\ offset' = off /\ length' = len
  /\ block_index' = file /\ ord' = 0 /\ goal' = last

(* read_file up to its loop.                                               *)
fsop_Read ==
  /\ Located("Read")
  /\ \/ /\ op.length = 0 \/ op.offset = inode[file].size
        /\ Finish
        /\ UNCHANGED <<image, ghosts, torn>>
     \/ /\ op.length # 0 /\ op.offset > inode[file].size
        /\ Refuse
     \/ /\ op.length # 0 /\ op.offset < inode[file].size
        /\ LET end == IF op.offset + op.length > inode[file].size
                        THEN inode[file].size ELSE op.offset + op.length
           IN  StartWalk(op.offset, end - op.offset, OrdinalOf(end))
        /\ UNCHANGED <<image, op, file, found, made, removal, reply, ghosts,
                       torn, before>>

(* fsop_ReadDir, read_directory.                                           *)
fsop_ReadDir ==
  /\ Located("ReadDir")
  /\ \/ ~IsDirectory(file) /\ Refuse
     \/ /\ IsDirectory(file) /\ inode[file].size = 0
        /\ Finish
        /\ UNCHANGED <<image, ghosts, torn>>
     \/ /\ IsDirectory(file) /\ inode[file].size > 0
        /\ StartWalk(0, inode[file].size, OrdinalOf(inode[file].size))
        /\ UNCHANGED <<image, op, file, found, made, removal, reply, ghosts,
                       torn, before>>

(* Mutant of fsop_Stat: the count is decremented after it is tested.       *)
StatOneTooFar ==
  /\ Located("Stat")
  /\ StartWalk(0, 0, get_blocks_required(inode[file].size) + 1)
  /\ UNCHANGED <<image, op, file, found, made, removal, reply, ghosts, torn, before>>

(* fsop_Stat.  trace_file_blocks follows one continuation per block of the *)
(* file, so it also looks up the continuation of the last block.           *)
fsop_Stat ==
  /\ Located("Stat")
  /\ StartWalk(0, 0, get_blocks_required(inode[file].size))
  /\ UNCHANGED <<image, op, file, found, made, removal, reply, ghosts, torn, before>>

(* fsop_Write, write_file.                                                 *)
fsop_Write ==
  /\ Located("Write")
  /\ \/ ~IsFile(file) /\ Refuse
     \/ /\ IsFile(file)
        /\ pc' = "write" /\ offset' = op.offset /\ length' = op.length
        /\ UNCHANGED <<image, op, file, cursor, found, made, removal, reply, ghosts,
                       torn, before>>

(* Mutant of TakeFree: the block number is not checked.                    *)
TakeFreeUnchecked(next) ==
  \/ FreeBits = {} /\ Refuse
  \/ /\ found' \in Least(FreeBits)
     /\ pc' = next
     /\ UNCHANGED <<image, op, range, cursor, made, removal, reply, ghosts, torn, before>>

(* get_next_free_block_index, and the check of mark_block_in_lookup_table. *)
TakeFree(next) ==
  \/ FreeBits = {} /\ Refuse
  \/ (\E b \in Least(FreeBits) : b >= blocks_count) /\ Internal
  \/ /\ \E b \in Least(FreeBits) : b < blocks_count /\ found' = b
     /\ pc' = next
     /\ UNCHANGED <<image, op, range, cursor, made, removal, reply, ghosts, torn, before>>

(* fsop_Create up to the block init_new_file is given.  The parent has not *)
(* been checked to be a directory yet.                                     *)
fsop_Create ==
  /\ Located("Create")
  /\ \/ BaseName \in LongNames /\ Refuse
     \/ /\ BaseName \notin LongNames
        /\ TakeFree("init")

(* init_new_file, mark_block_in_lookup_table: the block is marked ...      *)
mark_new_block ==
  /\ pc = "init"
  /\ lookup_table' = lookup_table \cup {found}
  /\ stray' = stray \cup {found}
  /\ pc' = "header"
  /\ UNCHANGED <<cont, inode, items, op, locals, reply, owner, rank, smashed, torn,
                 before, heap>>

(* ... and its header stored.                                              *)
init_new_file ==
  /\ pc = "header"
  /\ cont' = [cont EXCEPT ![found] = 0]
  /\ inode' = [inode EXCEPT ![found] =
                 [size |-> 0, flags |-> op.flags, last_inode |-> found]]
  /\ items' = [items EXCEPT ![found] = <<>>]
  /\ owner' = [owner EXCEPT ![found] = found]
  /\ rank' = [rank EXCEPT ![found] = 0]
  /\ stray' = stray \ {found}
  /\ made' = found /\ pc' = "append"
  /\ UNCHANGED <<lookup_table, op, range, cursor, found, removal, reply, torn, smashed,
                 before, heap>>

(* append_directory.                                                       *)
append_directory ==
  /\ pc = "append"
  /\ \/ ~IsDirectory(file) /\ Refuse
     \/ /\ IsDirectory(file)
        /\ pc' = "write" /\ offset' = inode[file].size /\ length' = 1
        /\ UNCHANGED <<image, op, file, cursor, found, made, removal, reply, ghosts,
                       torn, before>>

(* write_file_unchecked up to its loop, with the store of the new size     *)
(* that truncate_file begins with.                                         *)
write_file_unchecked ==
  LET size == inode[file].size
      end  == offset + length
  IN
  /\ pc = "write"
  /\ \/ /\ length = 0
        /\ Finish
        /\ UNCHANGED <<image, ghosts, torn>>
     \/ length # 0 /\ offset > size /\ Refuse
     \/ /\ length # 0 /\ offset <= size
        /\ inode' = [inode EXCEPT ![file].size = IF end > size THEN end ELSE size]
        /\ \/ /\ end > size /\ get_blocks_required(end) > get_blocks_required(size)
              /\ pc' = "extend" /\ block_index' = inode[file].last_inode
              /\ ord' = OrdinalOf(size) /\ goal' = OrdinalOf(end)
              /\ UNCHANGED <<offset, length>>
           \/ /\ end <= size \/ get_blocks_required(end) = get_blocks_required(size)
              /\ StartWalk(offset, length, OrdinalOf(end))
        /\ UNCHANGED <<lookup_table, cont, items, op, file, found, made, removal, reply,
                       ghosts, torn, before>>

(* The extending loop of truncate_file: a free block is looked for ...     *)
ExtendFind ==
  /\ pc = "extend" /\ ord < goal
  /\ TakeFree("link")

(* ... marked, and made the continuation of the last one.  Its own         *)
(* continuation_inode is left as it was.  Cells go where a first block     *)
(* has its header: they are assumed not to look like a directory flag.     *)
ExtendLink ==
  /\ pc = "link"
  /\ lookup_table' = lookup_table \cup {found}
  /\ cont' = [cont EXCEPT ![block_index] = found]
  /\ inode' = [inode EXCEPT ![found].flags = 0]
  /\ owner' = [owner EXCEPT ![found] = file]
  /\ rank' = [rank EXCEPT ![found] = ord + 1]
  /\ block_index' = found /\ ord' = ord + 1
  /\ pc' = "extend"
  /\ UNCHANGED <<items, op, range, goal, found, made, removal, reply, torn,
                 smashed, stray, before, heap>>

(* Mutant of ExtendDone: last_inode is not stored.                         *)
ExtendDoneKeepsLast ==
  /\ pc = "extend" /\ ord = goal
  /\ StartWalk(offset, length, OrdinalOf(offset + length))
  /\ UNCHANGED <<image, op, file, found, made, removal, reply, ghosts, torn, before>>

ExtendDone ==
  /\ pc = "extend" /\ ord = goal
  /\ inode' = [inode EXCEPT ![file].last_inode = block_index]
  /\ StartWalk(offset, length, OrdinalOf(offset + length))
  /\ UNCHANGED <<lookup_table, cont, items, op, file, found, made, removal, reply,
                 ghosts, torn, before>>

(* Blocks before the one that holds offset are only stepped over, and so   *)
(* is that one when offset is the end of its room.                         *)
Copies ==
  /\ ord >= OrdinalOf(offset)
  /\ offset # FirstCap + ord * CommonCap

Copied == smashed' = (smashed \/ (Writing /\ Copies /\ block_index \in Metadata))

(* trace_file_blocks allocates a word for each block and stores one more:  *)
(* the first block, and the continuation of each.                          *)
Overrun == heap' = (heap \/ (op.type = "Stat" /\ ord + 1 = goal))

(* One round of the loop: copy, then get_next_inode.  A NULL inode here    *)
(* makes block_index 0, is copied through, and faults when followed.       *)
Hop ==
  /\ pc = "walk" /\ ord < goal
  /\ Copied
  /\ \/ block_index = 0 /\ Abandon("lost") /\ heap' = FALSE
     \/ /\ block_index # 0 /\ cont[block_index] >= blocks_count
        /\ Overrun /\ Abandon("internal")
     \/ /\ block_index # 0 /\ cont[block_index] < blocks_count
        /\ Overrun
        /\ block_index' = cont[block_index] /\ ord' = ord + 1
        /\ UNCHANGED <<image, pc, op, range, goal, found, made, removal, reply,
                       owner, rank, stray, torn, before>>

Append1(item) ==
  items' = [items EXCEPT ![file] = Append(@, item)]

(* The last round.                                                         *)
LastVisit ==
  /\ pc = "walk" /\ ord = goal
  /\ Copied
  /\ \/ /\ op.type \in {"Read", "Write", "Stat", "ReadDir"}
        /\ Finish
        /\ UNCHANGED items
     \/ /\ op.type = "Create"
        /\ Append1([name |-> BaseName, inode |-> made])
        /\ Finish
     \/ /\ op.type = "Remove"
        /\ Append1(Head(todo)) /\ todo' = Tail(todo)
        /\ pc' = "reappend"
        /\ UNCHANGED <<op, range, cursor, found, made, item_index, stack, reply, before>>
  /\ UNCHANGED <<lookup_table, cont, inode, owner, rank, stray, torn, heap>>

(* fsop_Remove, remove_from_directory: the listing is kept aside and the   *)
(* directory truncated to nothing; the blocks after its first are no       *)
(* longer part of it and are given back by purge_blocks.                   *)
fsop_Remove ==
  /\ Located("Remove")
  /\ \/ /\ ~IsDirectory(file) \/ Hits(file, BaseName) = {}
        /\ Refuse
     \/ /\ IsDirectory(file)
        /\ \E i \in Hits(file, BaseName) :
             item_index' = i - 1 /\ todo' = RemoveAt(items[file], i)
        /\ inode' = [inode EXCEPT ![file].size = 0]
        /\ items' = [items EXCEPT ![file] = <<>>]
        /\ owner' = [b \in Block |->
                       IF owner[b] = file /\ rank[b] > 0 THEN 0 ELSE owner[b]]
        /\ IF get_blocks_required(inode[file].size) > 1
             THEN pc' = "shrink" /\ block_index' = cont[file]
             ELSE pc' = "reappend" /\ UNCHANGED block_index
        /\ UNCHANGED <<lookup_table, cont, op, range, ord, goal, found, made, stack,
                       reply, rank, torn, smashed, stray, before, heap>>

(* Mutants of PurgeBlock: the bit is not cleared; the next block is not    *)
(* gone to.                                                                *)
PurgeBlockKeepsBit ==
  /\ pc \in {"shrink", "purge_blocks"} /\ block_index # 0
  /\ \/ block_index >= blocks_count /\ Internal
     \/ /\ block_index < blocks_count
        /\ block_index' = cont[block_index]
        /\ UNCHANGED <<image, pc, op, range, ord, goal, found, made, removal, reply,
                       ghosts, torn, before>>

PurgeBlockStays ==
  /\ pc \in {"shrink", "purge_blocks"} /\ block_index # 0
  /\ lookup_table' = lookup_table \ {block_index}
  /\ UNCHANGED <<cont, inode, items, pc, op, locals, reply, ghosts, torn, before>>

(* One round of purge_blocks, from truncate_file or from purge_file.       *)
PurgeBlock ==
  /\ pc \in {"shrink", "purge_blocks"} /\ block_index # 0
  /\ \/ block_index >= blocks_count /\ Internal
     \/ /\ block_index < blocks_count
        /\ lookup_table' = lookup_table \ {block_index}
        /\ block_index' = cont[block_index]
        /\ torn' = (torn \/ owner[block_index] # 0 \/ block_index \in Metadata)
        /\ stray' = stray \ {block_index}
        /\ UNCHANGED <<cont, inode, items, pc, op, range, ord, goal, found, made, removal,
                       reply, owner, rank, smashed, before, heap>>

ShrinkDone ==
  /\ pc = "shrink" /\ block_index = 0
  /\ inode' = [inode EXCEPT ![file].last_inode = file]
  /\ pc' = "reappend"
  /\ UNCHANGED <<lookup_table, cont, items, op, locals, reply, ghosts, torn, before>>

(* The loop that appends the other items again; after it fsop_Remove       *)
(* passes the index remove_from_directory returns to purge_file.           *)
Reappend ==
  /\ pc = "reappend"
  /\ \/ /\ todo # <<>>
        /\ pc' = "append"
        /\ UNCHANGED stack
     \/ /\ todo = <<>>
        /\ pc' = "purge"
        /\ stack' = <<[inode |-> item_index, listed |-> FALSE]>>
  /\ UNCHANGED <<image, op, range, cursor, found, made, item_index, todo, reply,
                 ghosts, torn, before>>

(* purge_file: the files of a directory first, then its own blocks.        *)
purge_file ==
  LET b == Head(stack).inode
  IN
  /\ pc = "purge" /\ stack # <<>>
  /\ \/ (b = 0 \/ Len(stack) > StackDepth) /\ Segv
     \/ b >= blocks_count /\ Len(stack) <= StackDepth /\ Internal
     \/ /\ b # 0 /\ b < blocks_count /\ Len(stack) <= StackDepth
        /\ \/ /\ IsDirectory(b) /\ ~Head(stack).listed
              /\ stack' = [i \in 1 .. Len(items[b]) |->
                             [inode |-> items[b][i].inode, listed |-> FALSE]]
                          \o <<[inode |-> b, listed |-> TRUE]>> \o Tail(stack)
              /\ UNCHANGED <<pc, block_index>>
           \/ /\ ~IsDirectory(b) \/ Head(stack).listed
              /\ stack' = Tail(stack)
              /\ pc' = "purge_blocks" /\ block_index' = b
        /\ UNCHANGED <<image, op, range, ord, goal, found, made, item_index, todo,
                       reply, ghosts, torn, before>>

PurgeFileDone ==
  /\ pc = "purge_blocks" /\ block_index = 0
  /\ pc' = "purge"
  /\ UNCHANGED <<image, op, locals, reply, ghosts, torn, before>>

RemoveDone ==
  /\ pc = "purge" /\ stack = <<>>
  /\ Finish
  /\ UNCHANGED <<image, ghosts, torn>>

(* The steps of the handler in progress.                                   *)
Step ==
  \/ locate_path \/ fsop_Read \/ fsop_ReadDir \/ fsop_Stat \/ fsop_Write
  \/ fsop_Create \/ fsop_Remove
  \/ mark_new_block \/ init_new_file \/ append_directory \/ write_file_unchecked
  \/ ExtendFind \/ ExtendLink \/ ExtendDone \/ Hop \/ LastVisit
  \/ PurgeBlock \/ ShrinkDone \/ Reappend
  \/ purge_file \/ PurgeFileDone \/ RemoveDone \/ Answer

Work == (\E r \in Requests : Serve(r)) \/ Step

Next == Work \/ Kill \/ Abort

Spec     == Init /\ [][Next]_vars

(* A daemon that is never killed and whose heap holds.                     *)
LastingSpec == Init /\ [][Work]_vars

(* A thread that runs a handler is not stopped for ever.                  *)
FairSpec == Spec /\ WF_vars(Step)
-----------------------------------------------------------------------------
(* Every variable keeps to its type: continuations, and the cursor that    *)
(* follows them, are any number; what a handler has checked is a block.    *)
Item     == [name : Names, inode : Block]
HeadInfo == [size : Nat, flags : {0, FLG_DIRECTORY, FLG_FILE}, last_inode : Block]

ImageTypeOK ==
  /\ lookup_table \subseteq Block
  /\ cont \in [Block -> Nat]
  /\ inode \in [Block -> HeadInfo]
  /\ items \in [Block -> Seq(Item)]

HandlerTypeOK ==
  /\ pc \in {"idle", "locate", "init", "header", "append", "write", "extend", "link",
             "walk", "shrink", "reappend", "purge", "purge_blocks", "answer"}
  /\ op \in Requests
  /\ file \in Block /\ offset \in Nat /\ length \in Nat
  /\ block_index \in Nat /\ ord \in Nat /\ goal \in Nat
  /\ pc \in {"extend", "link", "walk"} => block_index \in Block
  /\ found \in Block /\ made \in Block /\ item_index \in Nat
  /\ todo \in Seq(Item)
  /\ stack \in Seq([inode : Nat, listed : BOOLEAN])
  /\ reply \in {"none", "ok", "refused", "internal", "lost", "killed", "aborted"}

HistoryTypeOK ==
  /\ owner \in [Block -> Nat] /\ rank \in [Block -> Nat]
  /\ torn \in BOOLEAN /\ smashed \in BOOLEAN /\ heap \in BOOLEAN
  /\ stray \subseteq Block

TypeOK == ImageTypeOK /\ HandlerTypeOK /\ HistoryTypeOK
-----------------------------------------------------------------------------
(* The clean image.  The parts of it hold in the middle of a handler too,  *)
(* with the number of blocks and the last block of a file that is being    *)
(* extended taken from the handler, as truncate_file stores the size first *)
(* and last_inode last.                                                    *)
Extending(h) == pc \in {"extend", "link"} /\ h = file
BlocksOf(h)  == IF Extending(h) THEN ord + 1 ELSE get_blocks_required(inode[h].size)
LastOf(h)    == IF Extending(h) THEN block_index
                ELSE IF pc = "shrink" /\ h = file THEN file
                ELSE inode[h].last_inode

InChain(b) == owner[b] # 0

(* No metadata block and no block of a file can be given to another file.  *)
Marked == /\ Metadata \subseteq lookup_table
          /\ \A b \in Block : InChain(b) => b \in lookup_table /\ b \notin Metadata

(* Every block of a file is reached from the block the file is named by.   *)
HeadsOK ==
  \A b \in Block :
    InChain(b) => /\ owner[b] \in Block /\ IsHead(owner[b]) /\ rank[owner[b]] = 0
                  /\ rank[b] < BlocksOf(owner[b])

ChainsOK ==
  \A b \in Block :
    InChain(b) /\ rank[b] + 1 < BlocksOf(owner[b]) =>
      /\ cont[b] \in Block
      /\ owner[cont[b]] = owner[b] /\ rank[cont[b]] = rank[b] + 1

(* No two blocks stand for the same part of a file.                        *)
NoOverlap ==
  \A a, b \in Block :
    InChain(a) /\ owner[a] = owner[b] /\ rank[a] = rank[b] => a = b

(* truncate_file extends a file from the block that really is its last.    *)
LastsOK ==
  \A h \in Block : IsHead(h) => /\ LastOf(h) \in Block
                                /\ owner[LastOf(h)] = h
                                /\ rank[LastOf(h)] + 1 = BlocksOf(h)

(* A directory has as many items as its size says, but for the one that is *)
(* being written, and every item names a file.                             *)
Growing(d) == d = file /\ ( \/ pc \in {"extend", "link"}
                            \/ pc = "walk" /\ op.type \in {"Create", "Remove"} )

DirectoriesOK ==
  /\ IsHead(root_inode) /\ IsDirectory(root_inode)
  /\ \A d \in Block :
       IsHead(d) => /\ \A i \in DOMAIN items[d] : items[d][i].inode \in Block
                                                  /\ IsHead(items[d][i].inode)
                    /\ IsDirectory(d) =>
                         inode[d].size = Len(items[d]) + (IF Growing(d) THEN 1 ELSE 0)

Consistent ==
  Marked /\ HeadsOK /\ ChainsOK /\ NoOverlap /\ LastsOK /\ DirectoriesOK

(* What a handler keeps in its locals while it works agrees with the       *)
(* image: the block it was given is still free when it marks it, the block *)
(* it copies to is the block of the file that the position asks for.       *)
Copying == {"write", "extend", "link", "walk"}

FileAtHand ==
  /\ pc # "idle" => IsHead(file)
  /\ pc \in {"init", "link"} => found \notin lookup_table
  /\ \A i \in DOMAIN todo : IsHead(todo[i].inode)
  /\ pc \in {"append"} \cup Copying /\ op.type = "Create" => IsHead(made)
  /\ pc \in {"append"} \cup Copying /\ op.type = "Remove" => todo # <<>>
  /\ pc \in {"shrink", "reappend"} => op.type = "Remove"
  /\ pc = "shrink" => inode[file].size = 0

WriteAtHand ==
  /\ pc \in {"init", "header"} => op.type = "Create"
  /\ pc = "append" => op.type \in {"Create", "Remove"}
  /\ pc \in {"write", "extend", "link"} => op.type \in {"Write", "Create", "Remove"}
  /\ pc \in Copying /\ op.type = "Write" => IsFile(file)
  /\ pc \in Copying /\ op.type \in {"Create", "Remove"} =>
       IsDirectory(file) /\ length = 1
  /\ pc = "write" /\ op.type \in {"Create", "Remove"} => offset = inode[file].size

WalkAtHand ==
  /\ pc \in {"extend", "link"} =>
       /\ inode[file].size = offset + length
       /\ goal = OrdinalOf(inode[file].size)
       /\ ord <= goal
       /\ pc = "link" => ord < goal
  /\ pc = "walk" =>
       /\ goal <= BlocksOf(file)
       /\ op.type # "Stat" => goal < BlocksOf(file)
       /\ ord <= goal
       /\ ord < BlocksOf(file) => owner[block_index] = file /\ rank[block_index] = ord

(* A block marked for a new file is nobody's until its header is stored.   *)
MarkAtHand ==
  /\ pc = "header" => found \in stray
  /\ \A b \in stray : b \in lookup_table /\ ~InChain(b) /\ b \notin Metadata

HandlerAgrees == ~torn => FileAtHand /\ WriteAtHand /\ WalkAtHand /\ MarkAtHand

(* As long as no handler has been abandoned half way through a change of   *)
(* size, and rm has freed no block in use, the image is consistent.        *)
CleanImage == ~torn => Consistent

(* Only a torn image lets file data be copied over the superblock or the   *)
(* lookup table.                                                           *)
MetadataSafe == ~torn => ~smashed

(* The blocks that stay in use with nothing to find them by: a block no    *)
(* file has, and the first block of a file no directory and no handler     *)
(* names.  What is below such a file is lost with it.                      *)
Held ==
  IF op.type = "Create" /\ pc \in {"append"} \cup Copying THEN {made}
  ELSE IF op.type = "Remove" /\ pc \in {"shrink", "reappend", "append"} \cup Copying
    THEN {todo[i].inode : i \in DOMAIN todo}
  ELSE {}

ToBeStored == IF pc = "header" THEN {found} ELSE {}

Lost ==
  {b \in lookup_table \ Metadata :
     IF InChain(b) THEN IsHead(b) /\ ~Linked(b) /\ b \notin Held
                   ELSE b \notin ToBeStored /\ (pc = "shrink" => b \in stray)}

(* While the image is clean a block is lost in two ways only: rm takes the *)
(* entry of a file away and goes on to free the wrong blocks, so every rm  *)
(* loses the file; and a handler that does not get to its answer loses the *)
(* files it was about to name.                                             *)
LossesAreKnown ==
  [][~torn' =>
       \A b \in Lost' \ Lost :
         \/ pc = "locate" /\ op.type = "Remove" /\ b = items[file][item_index' + 1].inode
         \/ pc # "idle" /\ reply' \notin {"none", "ok"} /\ b \in Held \cup ToBeStored
    ]_vars

(* A handler of a clean image meets no NULL inode but in purge_file, which *)
(* rm calls with the index of an entry: otherwise the daemon ends only     *)
(* after trace_file_blocks has written past its words.                     *)
CleanNeverFaults ==
  [][reply' \in {"lost", "aborted"} /\ ~torn => pc = "purge" \/ heap]_vars

(* rm writes back one entry less than it read, so the blocks it has just   *)
(* freed always do: it is never stopped by "No space" after it has already *)
(* emptied the directory.                                                  *)
RemoveNeverRunsOut ==
  pc = "extend" /\ op.type = "Remove" /\ ord < goal /\ ~torn =>
    FreeBits \cap Block # {}

(* A handler at work shows the tree it found.  Seen like that, the daemon  *)
(* is the store of RfsStore: "ok" means that the request has had the whole *)
(* of its effect on the tree and no other, a message that it had none.     *)
Store == INSTANCE RfsStore WITH
  root <- root_inode, Directory <- FLG_DIRECTORY,
  files <- IF pc = "idle" THEN Visible ELSE before,
  request <- op, answer <- reply, damaged <- torn

ImplementsStore == Store!Spec

(* The block purge_blocks is at lies on a ring of continuations.           *)
OnRing ==
  /\ pc \in {"shrink", "purge_blocks"}
  /\ \E ring \in SUBSET (Block \ {0}) :
       block_index \in ring /\ \A b \in ring : cont[b] \in ring

(* Every request ends: a handler holds the mutex of the daemon until then, *)
(* and all other clients wait for it.  The one exception is                *)
(* an rm whose purge_blocks has met a ring of continuations: blocks are    *)
(* given out again with their old continuation, so rings do come about.    *)
EveryRequestEnds == pc # "idle" ~> pc = "idle" \/ OnRing

(* manage.c:37 and manage.c:134 call a block number out of range an        *)
(* internal error.                                                         *)
NoInternalError == reply # "internal"

(* manage.c:62 takes the superblock of an image this platform made for     *)
(* readable.                                                               *)
SuperblockSurvives == ~smashed
=============================================================================
