--------------------------- MODULE RfsCoreProofs ---------------------------
(***************************************************************************)
(* Proofs about RfsCore, for every number and capacity of blocks, every    *)
(* set of requests and every history of the image file.                    *)
(*                                                                         *)
(* At the end: the file system of RfsCore implements the store of RfsStore.*)
(* A client sees whole requests on a tree of files, though a handler       *)
(* changes the image store by store and may be killed between any two of   *)
(* them.  The invariant behind it, Tale, says how far the handler at work  *)
(* has come: what can be seen now, told by what could be seen when its     *)
(* request arrived.                                                        *)
(***************************************************************************)
EXTENDS RfsCore, FiniteSetTheorems, Recursion, TLAPS

USE DEF image, ghosts, range, cursor, removal, locals
-----------------------------------------------------------------------------
(* get_blocks_required is at least one, and grows with the size: a block   *)
(* number computed for a position inside a file is the number of one of    *)
(* its blocks.                                                             *)
LEMMA DivisionGrows ==
  ASSUME NEW a \in Nat, NEW b \in Nat, a <= b
  PROVE  a \div CommonCap <= b \div CommonCap
BY ImageAssumption

LEMMA BlocksRequired ==
  ASSUME NEW size \in Nat
  PROVE  get_blocks_required(size) \in Nat \ {0}
BY ImageAssumption DEF get_blocks_required

LEMMA BlocksRequiredGrows ==
  ASSUME NEW a \in Nat, NEW b \in Nat, a <= b
  PROVE  get_blocks_required(a) <= get_blocks_required(b)
<1>1. CASE b <= FirstCap
  BY <1>1, ImageAssumption DEF get_blocks_required
<1>2. CASE a <= FirstCap /\ b > FirstCap
  <2>1. (b - FirstCap + CommonCap - 1) \div CommonCap \in Nat
    BY <1>2, ImageAssumption
  <2> QED BY <1>2, <2>1, ImageAssumption DEF get_blocks_required
<1>3. CASE a > FirstCap
  <2>1. /\ a - FirstCap + CommonCap - 1 \in Nat
        /\ b - FirstCap + CommonCap - 1 \in Nat
        /\ a - FirstCap + CommonCap - 1 <= b - FirstCap + CommonCap - 1
    BY <1>3, ImageAssumption
  <2>2. (a - FirstCap + CommonCap - 1) \div CommonCap
          <= (b - FirstCap + CommonCap - 1) \div CommonCap
    BY <2>1, DivisionGrows
  <2>3. ~(a <= FirstCap) /\ ~(b <= FirstCap)
    BY <1>3, ImageAssumption
  <2> QED BY <2>2, <2>3, ImageAssumption DEF get_blocks_required
<1> QED BY <1>1, <1>2, <1>3, ImageAssumption

LEMMA OrdinalNat ==
  ASSUME NEW size \in Nat
  PROVE  OrdinalOf(size) \in Nat
BY BlocksRequired DEF OrdinalOf
-----------------------------------------------------------------------------
(* Where a handler's variables go when it ends.                            *)
LEMMA RootIsBlock == root_inode \in Block /\ 0 \in Block /\ Block \subseteq Nat
BY ImageAssumption DEF Block

LEMMA ForgetType ==
  ASSUME Forget
  PROVE  /\ file' \in Block /\ offset' \in Nat /\ length' \in Nat
         /\ block_index' \in Nat /\ ord' \in Nat /\ goal' \in Nat
         /\ found' \in Block /\ made' \in Block /\ item_index' \in Nat
         /\ todo' \in Seq(Item)
         /\ stack' \in Seq([inode : Nat, listed : BOOLEAN])
BY RootIsBlock DEF Forget

LEMMA AbandonType ==
  ASSUME TypeOK, NEW why \in {"refused", "internal", "lost", "killed", "aborted"},
         Abandon(why), smashed' \in BOOLEAN, heap' \in BOOLEAN
  PROVE  TypeOK'
<1>1. ImageTypeOK'
  BY DEF Abandon, TypeOK, ImageTypeOK
<1>2. HandlerTypeOK'
  BY ForgetType DEF Abandon, TypeOK, HandlerTypeOK
<1>3. HistoryTypeOK'
  BY DEF Abandon, TypeOK, HistoryTypeOK, LeavesTorn
<1> QED BY <1>1, <1>2, <1>3 DEF TypeOK

LEMMA AbandonsType ==
  ASSUME TypeOK, Refuse \/ Internal \/ Segv \/ Kill \/ Abort
  PROVE  TypeOK'
BY AbandonType DEF Refuse, Internal, Segv, Kill, Abort, TypeOK, HistoryTypeOK

LEMMA OpIsRequest ==
  ASSUME TypeOK
  PROVE  /\ op.type \in {"Read", "Write", "Create", "Remove", "Stat", "ReadDir"}
         /\ op.path \in Seq(Names) /\ op.offset \in Nat /\ op.length \in Nat
         /\ op.flags \in {FLG_DIRECTORY, FLG_FILE}
BY RequestAssumption DEF TypeOK, HandlerTypeOK, OpType

(* A walk started at a block of the table is well typed.                   *)
LEMMA StartWalkType ==
  ASSUME TypeOK, NEW off \in Nat, NEW len \in Nat, NEW last \in Nat,
         StartWalk(off, len, last)
  PROVE  /\ pc' = "walk" /\ offset' \in Nat /\ length' \in Nat
         /\ block_index' \in Block /\ block_index' \in Nat
         /\ ord' \in Nat /\ goal' \in Nat
BY RootIsBlock DEF StartWalk, TypeOK, HandlerTypeOK

(* The entry a name is found at is one of the directory.                   *)
LEMMA HitsInDomain ==
  ASSUME NEW d, NEW name, NEW i \in Hits(d, name)
  PROVE  i \in DOMAIN items[d] /\ items[d][i].name = name
BY DEF Hits, Least

LEMMA ItemsOfDirectory ==
  ASSUME TypeOK, NEW d \in Block, NEW i \in DOMAIN items[d]
  PROVE  items[d][i] \in Item /\ items[d][i].inode \in Block /\ i \in 1 .. Len(items[d])
<1>1. items[d] \in Seq(Item)
  BY DEF TypeOK, ImageTypeOK
<1>2. i \in 1 .. Len(items[d]) /\ items[d][i] \in Item
  BY <1>1
<1> QED BY <1>2 DEF Item
-----------------------------------------------------------------------------
(* Which request can be at which point of which function.  It holds on a   *)
(* torn image too, as the locals of a handler are never shared.            *)
Task ==
  /\ pc \in {"init", "header"} => op.type = "Create"
  /\ pc = "append" => op.type \in {"Create", "Remove"}
  /\ pc \in {"shrink", "reappend"} => op.type = "Remove"
  /\ pc \in {"append", "write", "extend", "link", "walk"} /\ op.type = "Remove" =>
       todo # <<>>
  /\ pc # "idle" /\ op.type \in {"Create", "Remove"} /\ op.path = <<>> =>
       pc = "locate" /\ ord < goal

LEMMA TaskStep == TypeOK /\ Task /\ [Next]_vars => Task'
<1> SUFFICES ASSUME TypeOK, Task, [Next]_vars PROVE Task'
  OBVIOUS
<1>0. ord < goal => ord # goal
  BY DEF TypeOK, HandlerTypeOK
<1>1. ASSUME pc' = "idle" PROVE Task'
  BY <1>1 DEF Task
<1>2. CASE UNCHANGED vars
  <2>1. UNCHANGED <<pc, op, ord, goal, todo>>
    BY <1>2 DEF vars
  <2> QED BY <2>1 DEF Task
<1>3. ASSUME NEW r \in Requests, Serve(r) PROVE Task'
  BY <1>3 DEF Serve, Task
<1>4. CASE Answer \/ Kill \/ Abort
  BY <1>1, <1>4 DEF Answer, Kill, Abort, Abandon
<1>5. CASE locate_path \/ fsop_Read \/ fsop_ReadDir \/ fsop_Stat \/ fsop_Write
  BY <1>1, <1>5 DEF Task, locate_path, fsop_Read, fsop_ReadDir, fsop_Stat, fsop_Write,
     Located, Finish, StartWalk, Refuse, Abandon
<1>6. CASE \/ fsop_Create \/ fsop_Remove \/ mark_new_block \/ init_new_file
           \/ append_directory
  <2>1. CASE fsop_Create
    BY <1>0, <1>1, <2>1 DEF Task, fsop_Create, Located, TakeFree, Refuse, Internal, Abandon
  <2>2. CASE fsop_Remove
    BY <1>0, <1>1, <2>2 DEF Task, fsop_Remove, Located, Refuse, Abandon
  <2>3. CASE mark_new_block \/ init_new_file
    BY <2>3 DEF Task, mark_new_block, init_new_file
  <2>4. CASE append_directory
    BY <1>1, <2>4 DEF Task, append_directory, Refuse, Abandon
  <2> QED BY <1>6, <2>1, <2>2, <2>3, <2>4
<1>7. CASE write_file_unchecked \/ ExtendFind \/ ExtendLink \/ ExtendDone
  BY <1>1, <1>7 DEF Task, write_file_unchecked, ExtendFind, ExtendLink, ExtendDone,
     Finish, StartWalk, TakeFree, Refuse, Internal, Abandon
<1>8. CASE Hop \/ LastVisit
  BY <1>1, <1>8 DEF Task, Hop, LastVisit, Finish, Abandon
<1>9. CASE PurgeBlock \/ ShrinkDone \/ Reappend
  BY <1>1, <1>9 DEF Task, PurgeBlock, ShrinkDone, Reappend, Internal, Abandon
<1>10. CASE purge_file \/ PurgeFileDone \/ RemoveDone
  BY <1>1, <1>10 DEF Task, purge_file, PurgeFileDone, RemoveDone, Finish, Segv,
     Internal, Abandon
<1> QED
  BY <1>2, <1>3, <1>4, <1>5, <1>6, <1>7, <1>8, <1>9, <1>10 DEF Next, Work, Step
-----------------------------------------------------------------------------
(* Every action keeps the types.                                           *)
LEMMA InitType == Init => TypeOK
<1> SUFFICES ASSUME Init PROVE TypeOK
  OBVIOUS
<1>1. ImageTypeOK
  <2>1. lookup_table \subseteq Block
    BY ImageAssumption DEF Init, Block
  <2>2. cont \in [Block -> Nat]
    <3>1. cont \in [Block -> Stale \cup {0}]
      BY DEF Init
    <3>2. Stale \cup {0} \subseteq Nat
      BY ImageAssumption
    <3> QED BY <3>1, <3>2
  <2>3. inode \in [Block -> HeadInfo]
    BY RootIsBlock DEF Init, HeadInfo, FLG_DIRECTORY, FLG_FILE
  <2>4. items \in [Block -> Seq(Item)]
    <3>1. <<>> \in Seq(Item)
      OBVIOUS
    <3> QED BY <3>1 DEF Init
  <2> QED BY <2>1, <2>2, <2>3, <2>4 DEF ImageTypeOK
<1>2. HandlerTypeOK
  BY RootIsBlock DEF Init, HandlerTypeOK
<1>3. HistoryTypeOK
  BY RootIsBlock DEF Init, HistoryTypeOK
<1> QED BY <1>1, <1>2, <1>3 DEF TypeOK

LEMMA TakeFreeType ==
  ASSUME TypeOK, NEW next \in {"init", "link"}, TakeFree(next),
         next = "link" => pc = "extend"
  PROVE  TypeOK'
<1>1. CASE Refuse \/ Internal
  BY <1>1, AbandonsType
<1>2. CASE /\ \E b \in Least(FreeBits) : b < blocks_count /\ found' = b
           /\ pc' = next
           /\ UNCHANGED <<image, op, range, cursor, made, removal, reply, ghosts,
                          torn, before>>
  <2>1. found' \in Block
    BY <1>2, ImageAssumption DEF Least, FreeBits, ScannedBits, Block
  <2>2. ImageTypeOK' /\ HistoryTypeOK'
    BY <1>2 DEF TypeOK, ImageTypeOK, HistoryTypeOK
  <2>3. HandlerTypeOK'
    BY <1>2, <2>1 DEF TypeOK, HandlerTypeOK
  <2> QED BY <2>2, <2>3 DEF TypeOK
<1> QED BY <1>1, <1>2 DEF TakeFree

LEMMA ServeType ==
  ASSUME TypeOK, NEW r \in Requests, Serve(r)
  PROVE  TypeOK'
<1>1. Len(r.path) \in Nat /\ (r.path # <<>> => Len(r.path) - 1 \in Nat)
  <2>1. r.path \in Seq(Names)
    BY RequestAssumption
  <2> QED BY <2>1
<1>2. goal' \in Nat
  BY <1>1 DEF Serve
<1>3. ImageTypeOK' /\ HistoryTypeOK'
  BY DEF Serve, TypeOK, ImageTypeOK, HistoryTypeOK
<1>4. HandlerTypeOK'
  BY <1>2, RootIsBlock DEF Serve, TypeOK, HandlerTypeOK
<1> QED BY <1>3, <1>4 DEF TypeOK

LEMMA LocateType ==
  ASSUME TypeOK, locate_path
  PROVE  TypeOK'
<1>1. CASE Refuse
  BY <1>1, AbandonsType
<1>2. CASE /\ \E i \in Hits(file, op.path[ord + 1]) : file' = items[file][i].inode
           /\ ord' = ord + 1
           /\ UNCHANGED <<image, pc, op, offset, length, block_index, goal, found,
                          made, removal, reply, ghosts, torn, before>>
  <2>1. file' \in Block
    <3>1. PICK i \in Hits(file, op.path[ord + 1]) : file' = items[file][i].inode
      BY <1>2
    <3>2. file \in Block
      BY DEF TypeOK, HandlerTypeOK
    <3> QED BY <3>1, <3>2, HitsInDomain, ItemsOfDirectory
  <2>2. ImageTypeOK' /\ HistoryTypeOK'
    BY <1>2 DEF TypeOK, ImageTypeOK, HistoryTypeOK
  <2>3. HandlerTypeOK'
    BY <1>2, <2>1 DEF locate_path, TypeOK, HandlerTypeOK
  <2> QED BY <2>2, <2>3 DEF TypeOK
<1> QED BY <1>1, <1>2 DEF locate_path

(* The handlers that end here, or start a walk over a file.                *)
LEMMA FinishType ==
  ASSUME TypeOK, Finish,
         UNCHANGED <<lookup_table, cont, inode, owner, rank, stray, torn, heap>>,
         items' \in [Block -> Seq(Item)], smashed' \in BOOLEAN
  PROVE  TypeOK'
<1>1. ImageTypeOK' /\ HistoryTypeOK'
  BY DEF TypeOK, ImageTypeOK, HistoryTypeOK
<1>2. HandlerTypeOK'
  BY DEF Finish, TypeOK, HandlerTypeOK
<1> QED BY <1>1, <1>2 DEF TypeOK

LEMMA WalkType ==
  ASSUME TypeOK, NEW off \in Nat, NEW len \in Nat, NEW last \in Nat,
         StartWalk(off, len, last),
         UNCHANGED <<lookup_table, cont, items, op, file, found, made, removal, reply,
                     ghosts, torn>>,
         inode' \in [Block -> HeadInfo]
  PROVE  TypeOK'
<1>1. ImageTypeOK' /\ HistoryTypeOK'
  BY DEF TypeOK, ImageTypeOK, HistoryTypeOK
<1>2. HandlerTypeOK'
  BY StartWalkType DEF TypeOK, HandlerTypeOK
<1> QED BY <1>1, <1>2 DEF TypeOK

LEMMA SizeIsNat ==
  ASSUME TypeOK
  PROVE  /\ inode[file].size \in Nat /\ offset \in Nat /\ length \in Nat
         /\ inode[file].last_inode \in Block /\ file \in Block
         /\ inode \in [Block -> HeadInfo] /\ inode[file] \in HeadInfo
         /\ items \in [Block -> Seq(Item)] /\ smashed \in BOOLEAN /\ heap \in BOOLEAN
BY DEF TypeOK, ImageTypeOK, HandlerTypeOK, HistoryTypeOK, HeadInfo

LEMMA ReadersType ==
  ASSUME TypeOK, fsop_Read \/ fsop_ReadDir \/ fsop_Stat
  PROVE  TypeOK'
<1> DEFINE size == inode[file].size
           end  == IF op.offset + op.length > size THEN size ELSE op.offset + op.length
<1>1. CASE fsop_Read
  <2>1. CASE Refuse
    BY <2>1, AbandonsType
  <2>2. CASE Finish /\ UNCHANGED <<image, ghosts, torn>>
    BY <2>2, FinishType, SizeIsNat
  <2>3. CASE /\ op.length # 0 /\ op.offset < size
             /\ StartWalk(op.offset, end - op.offset, OrdinalOf(end))
             /\ UNCHANGED <<image, op, file, found, made, removal, reply, ghosts,
                            torn, before>>
    <3>1. end \in Nat /\ end - op.offset \in Nat /\ op.offset \in Nat
      BY <2>3, SizeIsNat, OpIsRequest
    <3>2. OrdinalOf(end) \in Nat
      BY <3>1, OrdinalNat
    <3> HIDE DEF end, size
    <3>3. inode' \in [Block -> HeadInfo]
      BY <2>3, SizeIsNat
    <3> QED BY <2>3, <3>1, <3>2, <3>3, WalkType
  <2> QED BY <1>1, <2>1, <2>2, <2>3 DEF fsop_Read
<1>2. CASE fsop_ReadDir
  <2>1. CASE Refuse
    BY <2>1, AbandonsType
  <2>2. CASE Finish /\ UNCHANGED <<image, ghosts, torn>>
    BY <2>2, FinishType, SizeIsNat
  <2>3. CASE /\ StartWalk(0, size, OrdinalOf(size))
             /\ UNCHANGED <<image, op, file, found, made, removal, reply, ghosts,
                            torn, before>>
    <3>1. OrdinalOf(size) \in Nat /\ size \in Nat /\ inode' \in [Block -> HeadInfo]
      BY <2>3, SizeIsNat, OrdinalNat
    <3> HIDE DEF end, size
    <3> QED BY <2>3, <3>1, WalkType
  <2> QED BY <1>2, <2>1, <2>2, <2>3 DEF fsop_ReadDir
<1>3. CASE fsop_Stat
  <2>1. get_blocks_required(size) \in Nat /\ inode' \in [Block -> HeadInfo]
    BY <1>3, SizeIsNat, BlocksRequired DEF fsop_Stat
  <2> QED BY <1>3, <2>1, WalkType DEF fsop_Stat
<1> QED BY <1>1, <1>2, <1>3

LEMMA CreateType ==
  ASSUME TypeOK, \/ fsop_Create \/ fsop_Write \/ append_directory
                 \/ mark_new_block \/ init_new_file
  PROVE  TypeOK'
<1>1. CASE Refuse
  BY <1>1, AbandonsType
<1>2. CASE TakeFree("init")
  BY <1>2, TakeFreeType
<1>3. CASE fsop_Write /\ ~Refuse
  <2>1. ImageTypeOK' /\ HistoryTypeOK'
    BY <1>3 DEF fsop_Write, TypeOK, ImageTypeOK, HistoryTypeOK
  <2>2. HandlerTypeOK'
    BY <1>3, OpIsRequest DEF fsop_Write, TypeOK, HandlerTypeOK
  <2> QED BY <2>1, <2>2 DEF TypeOK
<1>4. CASE append_directory /\ ~Refuse
  <2>1. ImageTypeOK' /\ HistoryTypeOK'
    BY <1>4 DEF append_directory, TypeOK, ImageTypeOK, HistoryTypeOK
  <2>2. HandlerTypeOK'
    BY <1>4, SizeIsNat DEF append_directory, TypeOK, HandlerTypeOK
  <2> QED BY <2>1, <2>2 DEF TypeOK
<1>5. CASE init_new_file
  <2>1. found \in Block /\ found \in Nat
    BY RootIsBlock DEF TypeOK, HandlerTypeOK
  <2>2. HandlerTypeOK'
    BY <1>5, <2>1 DEF init_new_file, TypeOK, HandlerTypeOK
  <2>3. [size |-> 0, flags |-> op.flags, last_inode |-> found] \in HeadInfo
    BY <2>1, OpIsRequest DEF HeadInfo
  <2>4. <<>> \in Seq(Item)
    OBVIOUS
  <2>5. ImageTypeOK'
    BY <1>5, <2>1, <2>3, <2>4 DEF init_new_file, TypeOK, ImageTypeOK
  <2>6. HistoryTypeOK'
    BY <1>5, <2>1 DEF init_new_file, TypeOK, HistoryTypeOK
  <2> QED BY <2>2, <2>5, <2>6 DEF TypeOK
<1>6. CASE mark_new_block
  <2>1. found \in Block
    BY DEF TypeOK, HandlerTypeOK
  <2>2. HandlerTypeOK'
    BY <1>6 DEF mark_new_block, TypeOK, HandlerTypeOK
  <2>3. ImageTypeOK' /\ HistoryTypeOK'
    BY <1>6, <2>1 DEF mark_new_block, TypeOK, ImageTypeOK, HistoryTypeOK
  <2> QED BY <2>2, <2>3 DEF TypeOK
<1> QED BY <1>1, <1>2, <1>3, <1>4, <1>5, <1>6
        DEF fsop_Create, fsop_Write, append_directory

LEMMA ExtendType ==
  ASSUME TypeOK, write_file_unchecked \/ ExtendFind \/ ExtendLink \/ ExtendDone
  PROVE  TypeOK'
<1> DEFINE size == inode[file].size
           end  == offset + length
<1>0. end \in Nat /\ size \in Nat
  BY SizeIsNat
<1>1. CASE Refuse
  BY <1>1, AbandonsType
<1>2. CASE Finish /\ UNCHANGED <<image, ghosts, torn>>
  BY <1>2, FinishType, SizeIsNat
<1>3. CASE write_file_unchecked /\ ~Refuse
           /\ ~(Finish /\ UNCHANGED <<image, ghosts, torn>>)
  <2>1. OrdinalOf(end) \in Nat /\ OrdinalOf(size) \in Nat
    BY <1>0, OrdinalNat
  <2>2. inode' \in [Block -> HeadInfo]
    <3>1. inode' = [inode EXCEPT ![file].size = IF end > size THEN end ELSE size]
      BY <1>3 DEF write_file_unchecked
    <3>2. (IF end > size THEN end ELSE size) \in Nat
      BY SizeIsNat
    <3>3. inode[file] \in [size : Nat, flags : {0, FLG_DIRECTORY, FLG_FILE},
                           last_inode : Block]
      BY SizeIsNat DEF HeadInfo
    <3> HIDE DEF end, size
    <3> QED BY <3>1, <3>2, <3>3, SizeIsNat DEF HeadInfo
  <2>3. CASE StartWalk(offset, length, OrdinalOf(end))
    BY <1>3, <2>1, <2>2, <2>3, WalkType, SizeIsNat DEF write_file_unchecked
  <2>4. CASE /\ pc' = "extend" /\ block_index' = inode[file].last_inode
             /\ ord' = OrdinalOf(size) /\ goal' = OrdinalOf(end)
             /\ UNCHANGED <<offset, length>>
    <3>1. ImageTypeOK' /\ HistoryTypeOK'
      BY <1>3, <2>2 DEF write_file_unchecked, TypeOK, ImageTypeOK, HistoryTypeOK
    <3>2. block_index' \in Block /\ block_index' \in Nat
      BY <2>4, SizeIsNat, RootIsBlock
    <3>3. UNCHANGED <<op, file, found, made, removal, reply>>
      BY <1>3 DEF write_file_unchecked
    <3>4. HandlerTypeOK'
      BY <2>1, <2>4, <3>2, <3>3 DEF TypeOK, HandlerTypeOK
    <3> QED BY <3>1, <3>4 DEF TypeOK
  <2> QED BY <1>3, <2>3, <2>4 DEF write_file_unchecked
<1>4. CASE ExtendFind
  BY <1>4, TakeFreeType DEF ExtendFind
<1>5. CASE ExtendLink
  <2>1. found \in Block /\ found \in Nat /\ file \in Nat /\ ord + 1 \in Nat
    BY RootIsBlock DEF TypeOK, HandlerTypeOK
  <2>2. HandlerTypeOK'
    BY <1>5, <2>1 DEF ExtendLink, TypeOK, HandlerTypeOK
  <2>3. inode' \in [Block -> HeadInfo]
    BY <1>5, SizeIsNat DEF ExtendLink, HeadInfo
  <2>4. cont' \in [Block -> Nat] /\ lookup_table' \subseteq Block
    BY <1>5, <2>1 DEF ExtendLink, TypeOK, ImageTypeOK
  <2>5. ImageTypeOK'
    BY <1>5, <2>3, <2>4 DEF ExtendLink, TypeOK, ImageTypeOK
  <2>6. HistoryTypeOK'
    BY <1>5, <2>1 DEF ExtendLink, TypeOK, HistoryTypeOK
  <2> QED BY <2>2, <2>5, <2>6 DEF TypeOK
<1>6. CASE ExtendDone
  <2>1. block_index \in Block
    BY <1>6 DEF ExtendDone, TypeOK, HandlerTypeOK
  <2>2. inode' \in [Block -> HeadInfo]
    BY <1>6, <2>1, SizeIsNat DEF ExtendDone, HeadInfo
  <2>3. OrdinalOf(end) \in Nat
    BY <1>0, OrdinalNat
  <2> QED BY <1>6, <2>2, <2>3, SizeIsNat, WalkType DEF ExtendDone
<1> QED BY <1>1, <1>2, <1>3, <1>4, <1>5, <1>6 DEF write_file_unchecked

LEMMA VisitType ==
  ASSUME TypeOK, Task, Hop \/ LastVisit
  PROVE  TypeOK'
<1>1. ASSUME Copied PROVE smashed' \in BOOLEAN
  BY <1>1, SizeIsNat DEF Copied
<1>2. CASE Hop
  <2>0. heap' \in BOOLEAN
    BY <1>2, SizeIsNat DEF Hop, Overrun
  <2>1. CASE Abandon("lost") \/ Abandon("internal")
    BY <1>1, <1>2, <2>0, <2>1, AbandonType DEF Hop
  <2>2. CASE ~(Abandon("lost") \/ Abandon("internal"))
    <3>0. block_index \in Block /\ cont[block_index] < blocks_count
      BY <1>2, <2>2 DEF Hop, TypeOK, HandlerTypeOK
    <3>1. cont[block_index] \in Block /\ cont[block_index] \in Nat
      BY <3>0, ImageAssumption DEF TypeOK, ImageTypeOK, Block
    <3>2. ImageTypeOK' /\ HistoryTypeOK'
      BY <1>1, <1>2, <2>0, <2>2 DEF Hop, TypeOK, ImageTypeOK, HistoryTypeOK
    <3>3. HandlerTypeOK'
      BY <1>2, <2>2, <3>1 DEF Hop, TypeOK, HandlerTypeOK
    <3> QED BY <3>2, <3>3 DEF TypeOK
  <2> QED BY <2>1, <2>2
<1>3. CASE LastVisit
  <2>1. smashed' \in BOOLEAN
    BY <1>1, <1>3 DEF LastVisit
  <2>2. CASE op.type \in {"Read", "Write", "Stat", "ReadDir"}
    <3>1. Finish /\ items' = items
      BY <1>3, <2>2 DEF LastVisit
    <3> QED BY <1>3, <2>1, <3>1, SizeIsNat, FinishType DEF LastVisit
  <2>3. CASE op.type = "Create"
    <3>1. Finish /\ Append1([name |-> BaseName, inode |-> made])
      BY <1>3, <2>3 DEF LastVisit
    <3>2. BaseName \in Names
      <4>1. op.path # <<>>
        BY <1>3, <2>3 DEF LastVisit, Task
      <4>2. Len(op.path) \in DOMAIN op.path
        BY <4>1, OpIsRequest
      <4> QED BY <4>2, OpIsRequest DEF BaseName
    <3>3. [name |-> BaseName, inode |-> made] \in Item
      BY <3>2 DEF Item, TypeOK, HandlerTypeOK
    <3>4. items' \in [Block -> Seq(Item)]
      BY <3>1, <3>3, SizeIsNat DEF Append1
    <3> QED BY <1>3, <2>1, <3>1, <3>4, FinishType DEF LastVisit
  <2>4. CASE op.type = "Remove"
    <3>1. Head(todo) \in Item /\ Tail(todo) \in Seq(Item)
      <4>1. todo # <<>> /\ todo \in Seq(Item)
        BY <1>3, <2>4 DEF LastVisit, Task, TypeOK, HandlerTypeOK
      <4> QED BY <4>1
    <3>2. items' \in [Block -> Seq(Item)]
      <4>1. items' = [items EXCEPT ![file] = Append(@, Head(todo))]
        BY <1>3, <2>4 DEF LastVisit, Append1
      <4>2. items[file] \in Seq(Item)
        BY SizeIsNat
      <4> QED BY <4>1, <4>2, <3>1, SizeIsNat
    <3>3. ImageTypeOK' /\ HistoryTypeOK'
      BY <1>3, <2>1, <3>2 DEF LastVisit, TypeOK, ImageTypeOK, HistoryTypeOK
    <3>4. HandlerTypeOK'
      BY <1>3, <2>4, <3>1 DEF LastVisit, TypeOK, HandlerTypeOK
    <3> QED BY <3>3, <3>4 DEF TypeOK
  <2> QED BY <2>2, <2>3, <2>4, OpIsRequest
<1> QED BY <1>2, <1>3

LEMMA RemoveType ==
  ASSUME TypeOK, fsop_Remove \/ PurgeBlock \/ ShrinkDone \/ Reappend
  PROVE  TypeOK'
<1>1. CASE Refuse \/ Internal
  BY <1>1, AbandonsType
<1>2. CASE fsop_Remove /\ ~Refuse
  <2>1. PICK i \in Hits(file, BaseName) :
          item_index' = i - 1 /\ todo' = RemoveAt(items[file], i)
    BY <1>2 DEF fsop_Remove
  <2>2. items[file] \in Seq(Item) /\ i \in 1 .. Len(items[file])
    BY <2>1, HitsInDomain, ItemsOfDirectory, SizeIsNat
  <2>3. todo' \in Seq(Item)
    BY <2>1, <2>2 DEF RemoveAt
  <2>4. item_index' \in Nat
    BY <2>1, <2>2
  <2>5. block_index' \in Nat /\ pc' \in {"shrink", "reappend"}
    BY <1>2 DEF fsop_Remove, TypeOK, ImageTypeOK, HandlerTypeOK
  <2>6. HandlerTypeOK'
    BY <1>2, <2>3, <2>4, <2>5 DEF fsop_Remove, TypeOK, HandlerTypeOK
  <2>7. inode' \in [Block -> HeadInfo]
    <3>1. inode' = [inode EXCEPT ![file].size = 0]
      BY <1>2 DEF fsop_Remove
    <3> QED BY <3>1, SizeIsNat DEF HeadInfo
  <2>8. items' \in [Block -> Seq(Item)]
    <3>1. <<>> \in Seq(Item)
      OBVIOUS
    <3> QED BY <1>2, <3>1, SizeIsNat DEF fsop_Remove
  <2>9. ImageTypeOK'
    BY <1>2, <2>7, <2>8 DEF fsop_Remove, TypeOK, ImageTypeOK
  <2>10. HistoryTypeOK'
    <3>1. /\ owner' = [b \in Block |-> IF owner[b] = file /\ rank[b] > 0 THEN 0 ELSE owner[b]]
          /\ UNCHANGED <<rank, torn, smashed, stray, heap>>
      BY <1>2 DEF fsop_Remove
    <3>2. owner \in [Block -> Nat]
      BY DEF TypeOK, HistoryTypeOK
    <3>3. owner' \in [Block -> Nat]
      BY <3>1, <3>2
    <3> QED BY <3>1, <3>3 DEF TypeOK, HistoryTypeOK
  <2> QED BY <2>6, <2>9, <2>10 DEF TypeOK
<1>3. CASE PurgeBlock /\ ~Internal
  <2>1. block_index \in Block
    BY <1>3, ImageAssumption DEF PurgeBlock, TypeOK, HandlerTypeOK, Block
  <2>2. ImageTypeOK' /\ HandlerTypeOK'
    BY <1>3, <2>1 DEF PurgeBlock, TypeOK, ImageTypeOK, HandlerTypeOK
  <2>3. HistoryTypeOK'
    BY <1>3 DEF PurgeBlock, TypeOK, HistoryTypeOK
  <2> QED BY <2>2, <2>3 DEF TypeOK
<1>4. CASE ShrinkDone
  <2>1. inode' \in [Block -> HeadInfo]
    BY <1>4, SizeIsNat DEF ShrinkDone, HeadInfo
  <2>2. ImageTypeOK' /\ HistoryTypeOK'
    BY <1>4, <2>1 DEF ShrinkDone, TypeOK, ImageTypeOK, HistoryTypeOK
  <2>3. HandlerTypeOK'
    BY <1>4 DEF ShrinkDone, TypeOK, HandlerTypeOK
  <2> QED BY <2>2, <2>3 DEF TypeOK
<1>5. CASE Reappend
  <2>1. stack' \in Seq([inode : Nat, listed : BOOLEAN])
    <3>1. CASE todo # <<>>
      BY <1>5, <3>1 DEF Reappend, TypeOK, HandlerTypeOK
    <3>2. CASE todo = <<>>
      <4>1. stack' = <<[inode |-> item_index, listed |-> FALSE]>> /\ item_index \in Nat
        BY <1>5, <3>2 DEF Reappend, TypeOK, HandlerTypeOK
      <4> QED BY <4>1
    <3> QED BY <3>1, <3>2
  <2>2. ImageTypeOK' /\ HistoryTypeOK'
    BY <1>5 DEF Reappend, TypeOK, ImageTypeOK, HistoryTypeOK
  <2>3. HandlerTypeOK'
    BY <1>5, <2>1 DEF Reappend, TypeOK, HandlerTypeOK
  <2> QED BY <2>2, <2>3 DEF TypeOK
<1> QED BY <1>1, <1>2, <1>3, <1>4, <1>5 DEF fsop_Remove, PurgeBlock

LEMMA PurgeType ==
  ASSUME TypeOK, purge_file \/ PurgeFileDone \/ RemoveDone \/ Answer
  PROVE  TypeOK'
<1> DEFINE Call == [inode : Nat, listed : BOOLEAN]
<1>1. CASE Segv \/ Internal
  BY <1>1, AbandonsType
<1>2. CASE purge_file /\ ~Segv /\ ~Internal
  <2> DEFINE b == Head(stack).inode
  <2>1. /\ stack # <<>> /\ stack \in Seq(Call)
        /\ Head(stack) \in Call /\ Tail(stack) \in Seq(Call) /\ b \in Nat
    <3>1. stack # <<>> /\ stack \in Seq(Call)
      BY <1>2 DEF purge_file, TypeOK, HandlerTypeOK
    <3>2. Head(stack) \in Call /\ Tail(stack) \in Seq(Call)
      <4> HIDE DEF Call
      <4> QED BY <3>1
    <3> QED BY <3>1, <3>2
  <2>2. b \in Block
    <3>1. b < blocks_count
      BY <1>2 DEF purge_file
    <3> QED BY <2>1, <3>1, ImageAssumption DEF Block
  <2>3. items[b] \in Seq(Item)
    BY <2>2 DEF TypeOK, ImageTypeOK
  <2>4. [i \in 1 .. Len(items[b]) |-> [inode |-> items[b][i].inode, listed |-> FALSE]]
          \in Seq(Call)
    <3>0. Len(items[b]) \in Nat
      BY <2>3
    <3>1. ASSUME NEW i \in 1 .. Len(items[b]) PROVE items[b][i].inode \in Nat
      <4>1. i \in DOMAIN items[b]
        BY <2>3, <3>1
      <4> HIDE DEF b
      <4> QED BY <2>2, <4>1, ItemsOfDirectory, RootIsBlock
    <3>2. \A i \in 1 .. Len(items[b]) :
            [inode |-> items[b][i].inode, listed |-> FALSE] \in Call
      BY <3>1
    <3> HIDE DEF Call, b
    <3> QED BY <3>0, <3>2
  <2>5. <<[inode |-> b, listed |-> TRUE]>> \in Seq(Call)
    BY <2>1
  <2>6. stack' \in Seq(Call) /\ block_index' \in Nat /\ pc' \in {"purge", "purge_blocks"}
    <3> DEFINE calls == [i \in 1 .. Len(items[b]) |->
                           [inode |-> items[b][i].inode, listed |-> FALSE]]
               rest  == <<[inode |-> b, listed |-> TRUE]>>
    <3>1. CASE IsDirectory(b) /\ ~Head(stack).listed
      <4>1. stack' = calls \o rest \o Tail(stack) /\ UNCHANGED <<pc, block_index>>
        BY <1>2, <3>1 DEF purge_file
      <4>2. calls \in Seq(Call) /\ rest \in Seq(Call)
        BY <2>4, <2>5
      <4> HIDE DEF calls, rest, Call
      <4>3. stack' \in Seq(Call)
        BY <2>1, <4>1, <4>2
      <4> QED BY <1>2, <4>1, <4>3 DEF purge_file, TypeOK, HandlerTypeOK
    <3>2. CASE ~(IsDirectory(b) /\ ~Head(stack).listed)
      BY <1>2, <3>2, <2>1 DEF purge_file
    <3> QED BY <3>1, <3>2
  <2>7. ImageTypeOK' /\ HistoryTypeOK'
    BY <1>2 DEF purge_file, TypeOK, ImageTypeOK, HistoryTypeOK
  <2>8. HandlerTypeOK'
    BY <1>2, <2>6 DEF purge_file, TypeOK, HandlerTypeOK
  <2> QED BY <2>7, <2>8 DEF TypeOK
<1>3. CASE PurgeFileDone
  BY <1>3 DEF PurgeFileDone, TypeOK, ImageTypeOK, HandlerTypeOK, HistoryTypeOK
<1>4. CASE RemoveDone
  BY <1>4, FinishType, SizeIsNat DEF RemoveDone
<1>5. CASE Answer
  <2>1. ImageTypeOK' /\ HistoryTypeOK'
    BY <1>5 DEF Answer, TypeOK, ImageTypeOK, HistoryTypeOK
  <2>2. HandlerTypeOK'
    BY <1>5, ForgetType DEF Answer, TypeOK, HandlerTypeOK
  <2> QED BY <2>1, <2>2 DEF TypeOK
<1> QED BY <1>1, <1>2, <1>3, <1>4, <1>5
-----------------------------------------------------------------------------
LEMMA TypeStep == TypeOK /\ Task /\ [Next]_vars => TypeOK'
<1> SUFFICES ASSUME TypeOK, Task, [Next]_vars PROVE TypeOK'
  OBVIOUS
<1>1. CASE UNCHANGED vars
  <2>1. ImageTypeOK' /\ HistoryTypeOK'
    BY <1>1 DEF vars, TypeOK, ImageTypeOK, HistoryTypeOK
  <2>2. HandlerTypeOK'
    BY <1>1 DEF vars, TypeOK, HandlerTypeOK
  <2> QED BY <2>1, <2>2 DEF TypeOK
<1>2. CASE \E r \in Requests : Serve(r)
  BY <1>2, ServeType
<1>3. CASE Step
  BY <1>3, LocateType, ReadersType, CreateType, ExtendType, VisitType, RemoveType,
     PurgeType DEF Step
<1>4. CASE Kill \/ Abort
  BY <1>4, AbandonsType
<1> QED BY <1>1, <1>2, <1>3, <1>4 DEF Next, Work

(* Every variable keeps to its type, whatever the history of the image and *)
(* wherever the daemon is killed.                                          *)
THEOREM TypeCorrect == Spec => []TypeOK
<1>1. Init => TypeOK /\ Task
  BY InitType DEF Init, Task
<1>2. TypeOK /\ Task /\ [Next]_vars => (TypeOK /\ Task)'
  BY TypeStep, TaskStep
<1> QED BY <1>1, <1>2, PTL DEF Spec
-----------------------------------------------------------------------------
(* The image and the handler on it, as far as it is clean.                 *)
Clean == Consistent /\ FileAtHand /\ WriteAtHand /\ WalkAtHand /\ ~smashed

IInv == TypeOK /\ Task /\ (~torn => Clean /\ MarkAtHand)

Files == HeadsOK /\ ChainsOK /\ NoOverlap /\ LastsOK

LEMMA TornStays == TypeOK /\ [Next]_vars /\ ~torn' => ~torn
<1> SUFFICES ASSUME TypeOK, [Next]_vars, torn PROVE torn'
  BY DEF TypeOK, HistoryTypeOK
<1>1. ASSUME NEW why, Abandon(why) PROVE torn'
  BY <1>1 DEF Abandon
<1>2. CASE UNCHANGED vars
  BY <1>2 DEF vars
<1>3. CASE \E r \in Requests : Serve(r)
  BY <1>3 DEF Serve
<1>4. CASE Refuse \/ Internal \/ Segv \/ Kill \/ Abort
  BY <1>1, <1>4 DEF Refuse, Internal, Segv, Kill, Abort
<1>5. CASE fsop_Create \/ ExtendFind
  BY <1>4, <1>5 DEF fsop_Create, ExtendFind, TakeFree
<1>6. CASE locate_path \/ fsop_Read \/ fsop_ReadDir \/ fsop_Stat \/ fsop_Write
  BY <1>4, <1>6 DEF locate_path, fsop_Read, fsop_ReadDir, fsop_Stat, fsop_Write
<1>7. CASE \/ fsop_Remove \/ mark_new_block \/ init_new_file \/ append_directory
           \/ write_file_unchecked
  BY <1>4, <1>7 DEF fsop_Remove, mark_new_block, init_new_file, append_directory,
     write_file_unchecked
<1>8. CASE ExtendLink \/ ExtendDone \/ LastVisit \/ ShrinkDone \/ Reappend
  BY <1>8 DEF ExtendLink, ExtendDone, LastVisit, ShrinkDone, Reappend
<1>9. CASE Hop
  BY <1>1, <1>9 DEF Hop
<1>10. CASE PurgeBlock
  BY <1>4, <1>10 DEF PurgeBlock
<1>11. CASE purge_file \/ PurgeFileDone \/ RemoveDone \/ Answer
  BY <1>4, <1>11 DEF purge_file, PurgeFileDone, RemoveDone, Answer
<1> QED BY <1>2, <1>3, <1>4, <1>5, <1>6, <1>7, <1>8, <1>9, <1>10, <1>11
        DEF Next, Work, Step

(* A step that leaves the chains, and the ends of files, where they are.   *)
LEMMA FilesFrame ==
  ASSUME Files, UNCHANGED <<cont, owner, rank>>,
         \A h \in Block : BlocksOf(h)' = BlocksOf(h) /\ LastOf(h)' = LastOf(h)
  PROVE  Files'
<1>1. \A b : InChain(b)' = InChain(b) /\ IsHead(b)' = IsHead(b)
  BY DEF InChain, IsHead
<1>2. HeadsOK'
  BY <1>1 DEF Files, HeadsOK
<1>3. ChainsOK'
  BY <1>1 DEF Files, HeadsOK, ChainsOK
<1>4. NoOverlap'
  BY <1>1 DEF Files, NoOverlap
<1>5. LastsOK'
  BY <1>1 DEF Files, LastsOK
<1> QED BY <1>2, <1>3, <1>4, <1>5 DEF Files

(* A step that leaves the image alone, and no file half extended.          *)
LEMMA QuietFrame ==
  ASSUME Consistent, UNCHANGED <<image, owner, rank>>,
         pc \notin {"extend", "link", "shrink"}, pc' \notin {"extend", "link", "shrink"},
         \A d \in Block : IsHead(d) /\ IsDirectory(d) => (Growing(d)' <=> Growing(d))
  PROVE  Consistent'
<1>1. \A h \in Block : BlocksOf(h)' = BlocksOf(h) /\ LastOf(h)' = LastOf(h)
  BY DEF BlocksOf, LastOf, Extending, get_blocks_required
<1>2. Files'
  BY <1>1, FilesFrame DEF Consistent, Files
<1>3. Marked'
  BY DEF Consistent, Marked, InChain
<1>4. DirectoriesOK'
  <2>1. IsHead(root_inode)' /\ IsDirectory(root_inode)'
    BY DEF Consistent, DirectoriesOK, IsHead, IsDirectory
  <2>2. ASSUME NEW d \in Block, IsHead(d)'
        PROVE  /\ \A i \in DOMAIN items'[d] : items'[d][i].inode \in Block
                                                /\ IsHead(items[d][i].inode)'
               /\ IsDirectory(d)' => inode'[d].size
                                       = Len(items'[d]) + (IF Growing(d)' THEN 1 ELSE 0)
    BY <2>2 DEF Consistent, DirectoriesOK, IsHead, IsDirectory
  <2> QED BY <2>1, <2>2 DEF DirectoriesOK
<1> QED BY <1>2, <1>3, <1>4 DEF Consistent, Files

(* What a handler of a clean image knows of the file at hand.              *)
LEMMA HeadFacts ==
  ASSUME TypeOK, Consistent, NEW h \in Block, IsHead(h)
  PROVE  /\ owner[h] = h /\ rank[h] = 0 /\ h # 0
         /\ inode[h].size \in Nat /\ get_blocks_required(inode[h].size) \in Nat \ {0}
<1>1. owner[h] = h /\ h # 0
  BY DEF IsHead
<1>2. rank[h] = 0
  BY <1>1 DEF Consistent, HeadsOK, InChain
<1>3. inode[h].size \in Nat
  BY DEF TypeOK, ImageTypeOK, HeadInfo
<1> QED BY <1>1, <1>2, <1>3, BlocksRequired

(* A block of a file holds no metadata: copying to it is safe.             *)
LEMMA CopiedSafe ==
  ASSUME TypeOK, Clean, Copied, pc = "walk", ord < BlocksOf(file)
  PROVE  smashed' = FALSE
<1>1. file # 0 /\ IsHead(file)
  BY DEF Clean, FileAtHand, IsHead
<1>2. owner[block_index] = file /\ block_index \in Block
  BY DEF Clean, WalkAtHand, TypeOK, HandlerTypeOK
<1>3. block_index \notin Metadata
  BY <1>1, <1>2 DEF Clean, Consistent, Marked, InChain
<1> QED BY <1>3 DEF Copied, Clean

LEMMA AbandonClean ==
  ASSUME TypeOK, Clean, NEW why, Abandon(why), smashed' = FALSE, ~torn'
  PROVE  Clean'
<1>1. ~LeavesTorn /\ pc' = "idle" /\ todo' = <<>>
  BY DEF Abandon, Forget
<1>2. pc \notin {"extend", "link", "shrink"} /\ pc' \notin {"extend", "link", "shrink"}
  BY <1>1 DEF LeavesTorn
<1>3. \A d \in Block : Growing(d)' <=> Growing(d)
  BY <1>1, <1>2 DEF Growing, LeavesTorn
<1>4. Consistent'
  BY <1>2, <1>3, QuietFrame DEF Clean, Abandon
<1>5. (FileAtHand /\ WriteAtHand /\ WalkAtHand)'
  BY <1>1 DEF FileAtHand, WriteAtHand, WalkAtHand, Copying
<1> QED BY <1>4, <1>5 DEF Clean

LEMMA AbandonsClean ==
  ASSUME TypeOK, Clean, Refuse \/ Internal \/ Segv \/ Kill \/ Abort, ~torn'
  PROVE  Clean'
<1>1. smashed = FALSE
  BY SizeIsNat DEF Clean
<1>2. PICK why : Abandon(why) /\ UNCHANGED smashed
  BY DEF Refuse, Internal, Segv, Kill, Abort
<1> QED BY <1>1, <1>2, AbandonClean

LEMMA FinishClean ==
  ASSUME TypeOK, Clean, Finish, UNCHANGED <<image, ghosts>>,
         pc \notin {"idle", "extend", "link", "shrink"},
         ~Growing(file) \/ ~IsDirectory(file)
  PROVE  Clean'
<1>1. pc' = "answer" /\ UNCHANGED <<file, todo, op>>
  BY DEF Finish
<1>2. \A d \in Block : IsHead(d) /\ IsDirectory(d) => (Growing(d)' <=> Growing(d))
  BY <1>1 DEF Growing
<1>3. Consistent'
  BY <1>1, <1>2, QuietFrame DEF Clean
<1>4. (FileAtHand /\ WriteAtHand /\ WalkAtHand)'
  BY <1>1 DEF Clean, FileAtHand, WriteAtHand, WalkAtHand, Copying, IsHead
<1> QED BY <1>3, <1>4 DEF Clean

(* A walk over the blocks of the file that a position in it needs.         *)
LEMMA WalkClean ==
  ASSUME TypeOK, Clean, NEW off, NEW len, NEW last \in Nat, StartWalk(off, len, last),
         UNCHANGED <<image, op, file, found, made, todo, ghosts>>,
         pc = "locate", op.type \in {"Read", "ReadDir", "Stat"},
         last <= get_blocks_required(inode[file].size),
         op.type # "Stat" => last < get_blocks_required(inode[file].size)
  PROVE  Clean'
<1>1. pc' = "walk" /\ goal' = last /\ ord' = 0 /\ block_index' = file
  BY DEF StartWalk
<1>2. IsHead(file) /\ file \in Block
  BY DEF Clean, FileAtHand, TypeOK, HandlerTypeOK
<1>3. \A d \in Block : Growing(d)' <=> Growing(d)
  BY <1>1 DEF Growing
<1>4. Consistent'
  BY <1>1, <1>3, QuietFrame DEF Clean
<1>5. BlocksOf(file)' = get_blocks_required(inode[file].size)
  BY <1>1 DEF BlocksOf, Extending, get_blocks_required
<1>6. owner'[block_index'] = file /\ rank'[block_index'] = ord'
  BY <1>1, <1>2, HeadFacts DEF Clean
<1>7. WalkAtHand'
  BY <1>1, <1>5, <1>6 DEF WalkAtHand
<1>8. FileAtHand' /\ WriteAtHand'
  BY <1>1, <1>2 DEF Clean, FileAtHand, WriteAtHand, Copying, IsHead
<1> QED BY <1>4, <1>7, <1>8 DEF Clean

LEMMA ServeClean ==
  ASSUME TypeOK, Clean, NEW r \in Requests, Serve(r)
  PROVE  Clean'
<1>1. pc = "idle" /\ pc' = "locate" /\ file' = root_inode /\ UNCHANGED <<image, todo, ghosts>>
  BY DEF Serve
<1>2. \A d \in Block : Growing(d)' <=> Growing(d)
  BY <1>1 DEF Growing
<1>3. Consistent'
  BY <1>1, <1>2, QuietFrame DEF Clean
<1>4. (FileAtHand /\ WriteAtHand /\ WalkAtHand)'
  BY <1>1 DEF Clean, FileAtHand, WriteAtHand, WalkAtHand, Copying, Consistent,
     DirectoriesOK, IsHead
<1> QED BY <1>1, <1>3, <1>4 DEF Clean

LEMMA LocateClean ==
  ASSUME TypeOK, Clean, locate_path, ~torn'
  PROVE  Clean'
<1>1. CASE Refuse
  BY <1>1, AbandonsClean
<1>2. CASE /\ \E i \in Hits(file, op.path[ord + 1]) : file' = items[file][i].inode
           /\ ord' = ord + 1
           /\ UNCHANGED <<image, pc, op, offset, length, block_index, goal, found,
                          made, removal, reply, ghosts, torn, before>>
  <2>1. pc = "locate" /\ pc' = "locate"
    BY <1>2 DEF locate_path
  <2>2. PICK i \in Hits(file, op.path[ord + 1]) : file' = items[file][i].inode
    BY <1>2
  <2>3. i \in DOMAIN items[file]
    BY HitsInDomain
  <2>4. IsHead(file) /\ file \in Block
    BY <2>1 DEF Clean, FileAtHand, TypeOK, HandlerTypeOK
  <2>5. IsHead(items[file][i].inode)
    BY <2>3, <2>4 DEF Clean, Consistent, DirectoriesOK
  <2>6. \A d \in Block : Growing(d)' <=> Growing(d)
    BY <2>1 DEF Growing
  <2>7. Consistent'
    BY <1>2, <2>1, <2>6, QuietFrame DEF Clean
  <2>8. (FileAtHand /\ WriteAtHand /\ WalkAtHand)'
    BY <1>2, <2>1, <2>2, <2>5 DEF Clean, FileAtHand, WriteAtHand, WalkAtHand, Copying,
       IsHead
  <2> QED BY <1>2, <2>7, <2>8 DEF Clean
<1> QED BY <1>1, <1>2 DEF locate_path

LEMMA ReadersClean ==
  ASSUME TypeOK, Clean, fsop_Read \/ fsop_ReadDir \/ fsop_Stat, ~torn'
  PROVE  Clean'
<1> DEFINE size == inode[file].size
           end  == IF op.offset + op.length > size THEN size ELSE op.offset + op.length
<1>1. pc = "locate" /\ op.type \in {"Read", "ReadDir", "Stat"} /\ ~Growing(file)
  BY DEF fsop_Read, fsop_ReadDir, fsop_Stat, Located, Growing
<1>2. size \in Nat /\ op.offset \in Nat /\ op.length \in Nat
  BY SizeIsNat, OpIsRequest
<1>3. CASE Refuse
  BY <1>3, AbandonsClean
<1>4. CASE Finish /\ UNCHANGED <<image, ghosts, torn>>
  BY <1>1, <1>4, FinishClean
<1>5. CASE /\ StartWalk(op.offset, end - op.offset, OrdinalOf(end))
           /\ UNCHANGED <<image, op, file, found, made, removal, reply, ghosts,
                          torn, before>>
  <2>1. end \in Nat /\ end <= size
    BY <1>2
  <2>2. OrdinalOf(end) \in Nat /\ OrdinalOf(end) < get_blocks_required(size)
    BY <1>2, <2>1, BlocksRequired, BlocksRequiredGrows DEF OrdinalOf
  <2> HIDE DEF end
  <2> QED BY <1>1, <1>2, <1>5, <2>2, BlocksRequired, WalkClean
<1>6. CASE /\ StartWalk(0, size, OrdinalOf(size))
           /\ UNCHANGED <<image, op, file, found, made, removal, reply, ghosts,
                          torn, before>>
  <2>1. OrdinalOf(size) \in Nat /\ OrdinalOf(size) < get_blocks_required(size)
    BY <1>2, BlocksRequired DEF OrdinalOf
  <2> QED BY <1>1, <1>6, <2>1, <1>2, BlocksRequired, WalkClean
<1>7. CASE fsop_Stat
  BY <1>1, <1>2, <1>7, BlocksRequired, WalkClean DEF fsop_Stat, Located
<1> QED BY <1>3, <1>4, <1>5, <1>6, <1>7 DEF fsop_Read, fsop_ReadDir
-----------------------------------------------------------------------------
(* mkfile and mkdir: a block that is free becomes a file of its own.       *)
LEMMA TakeFreeClean ==
  ASSUME TypeOK, Clean, NEW next \in {"init", "link"}, TakeFree(next), ~torn',
         /\ next = "init" => pc = "locate" /\ op.type = "Create"
         /\ next = "link" => pc = "extend" /\ ord < goal
  PROVE  Clean'
<1>1. CASE Refuse \/ Internal
  BY <1>1, AbandonsClean
<1>2. CASE /\ \E b \in Least(FreeBits) : b < blocks_count /\ found' = b
           /\ pc' = next
           /\ UNCHANGED <<image, op, range, cursor, made, removal, reply, ghosts, torn,
                          before>>
  <2>1. found' \notin lookup_table
    BY <1>2 DEF Least, FreeBits
  <2>2. \A h \in Block : /\ BlocksOf(h)' = BlocksOf(h) /\ LastOf(h)' = LastOf(h)
                         /\ Growing(h)' <=> Growing(h)
    BY <1>2 DEF BlocksOf, LastOf, Extending, Growing, get_blocks_required
  <2>3. Files'
    BY <1>2, <2>2, FilesFrame DEF Clean, Consistent, Files
  <2>4. Marked'
    BY <1>2 DEF Clean, Consistent, Marked, InChain
  <2>5. DirectoriesOK'
    <3>1. IsHead(root_inode)' /\ IsDirectory(root_inode)'
      BY <1>2 DEF Clean, Consistent, DirectoriesOK, IsHead, IsDirectory
    <3>2. ASSUME NEW d \in Block, IsHead(d)'
          PROVE  /\ \A i \in DOMAIN items'[d] : items'[d][i].inode \in Block
                                                  /\ IsHead(items[d][i].inode)'
                 /\ IsDirectory(d)' => inode'[d].size
                                         = Len(items'[d]) + (IF Growing(d)' THEN 1 ELSE 0)
      BY <1>2, <2>2, <3>2 DEF Clean, Consistent, DirectoriesOK, IsHead, IsDirectory
    <3> QED BY <3>1, <3>2 DEF DirectoriesOK
  <2>6. (FileAtHand /\ WriteAtHand)'
    BY <1>2, <2>1 DEF Clean, FileAtHand, WriteAtHand, Copying, IsHead, IsDirectory, IsFile
  <2>7. WalkAtHand'
    BY <1>2 DEF Clean, WalkAtHand, OrdinalOf, get_blocks_required
  <2> QED BY <1>2, <2>3, <2>4, <2>5, <2>6, <2>7 DEF Clean, Consistent, Files
<1> QED BY <1>1, <1>2 DEF TakeFree

LEMMA CreateClean ==
  ASSUME TypeOK, Clean, fsop_Create \/ fsop_Write \/ append_directory, Task, ~torn'
  PROVE  Clean'
<1>1. CASE Refuse
  BY <1>1, AbandonsClean
<1>2. CASE fsop_Create /\ ~Refuse
  BY <1>2, TakeFreeClean DEF fsop_Create, Located
<1>3. CASE fsop_Write /\ ~Refuse
  <2>1. pc = "locate" /\ pc' = "write" /\ op.type = "Write" /\ IsFile(file)
    BY <1>3 DEF fsop_Write, Located
  <2>2. UNCHANGED <<image, op, file, found, made, todo, ghosts>>
    BY <1>3 DEF fsop_Write
  <2>3. \A d \in Block : Growing(d)' <=> Growing(d)
    BY <2>1 DEF Growing
  <2>4. Consistent'
    BY <2>1, <2>2, <2>3, QuietFrame DEF Clean
  <2>5. (FileAtHand /\ WriteAtHand /\ WalkAtHand)'
    BY <2>1, <2>2 DEF Clean, FileAtHand, WriteAtHand, WalkAtHand, Copying, IsHead, IsFile
  <2> QED BY <2>2, <2>4, <2>5 DEF Clean
<1>4. CASE append_directory /\ ~Refuse
  <2>1. /\ pc = "append" /\ pc' = "write" /\ op.type \in {"Create", "Remove"}
        /\ IsDirectory(file) /\ offset' = inode[file].size /\ length' = 1
    BY <1>4 DEF append_directory, Task
  <2>2. UNCHANGED <<image, op, file, found, made, todo, ghosts>>
    BY <1>4 DEF append_directory
  <2>3. \A d \in Block : Growing(d)' <=> Growing(d)
    BY <2>1 DEF Growing
  <2>4. Consistent'
    BY <2>1, <2>2, <2>3, QuietFrame DEF Clean
  <2>5. (FileAtHand /\ WriteAtHand /\ WalkAtHand)'
    BY <2>1, <2>2 DEF Clean, FileAtHand, WriteAtHand, WalkAtHand, Copying, IsHead,
       IsDirectory
  <2> QED BY <2>2, <2>4, <2>5 DEF Clean
<1> QED BY <1>1, <1>2, <1>3, <1>4

LEMMA TodoItems ==
  ASSUME TypeOK, NEW i \in DOMAIN todo
  PROVE  todo[i] \in Item /\ todo[i].inode \in Block
<1>1. todo[i] \in Item
  BY DEF TypeOK, HandlerTypeOK
<1> QED BY <1>1 DEF Item

LEMMA MarkNewClean ==
  ASSUME TypeOK, Clean, Task, mark_new_block
  PROVE  Clean'
<1>1. /\ pc = "init" /\ pc' = "header" /\ op.type = "Create"
      /\ lookup_table' = lookup_table \cup {found}
      /\ UNCHANGED <<cont, inode, items, owner, rank, op, file, todo, smashed>>
  BY DEF mark_new_block, Task
<1>2. \A h \in Block : /\ BlocksOf(h)' = BlocksOf(h) /\ LastOf(h)' = LastOf(h)
                       /\ Growing(h)' <=> Growing(h)
  BY <1>1 DEF BlocksOf, LastOf, Extending, Growing, get_blocks_required
<1>3. Files'
  BY <1>1, <1>2, FilesFrame DEF Clean, Consistent, Files
<1>4. Marked'
  BY <1>1 DEF Clean, Consistent, Marked, InChain
<1>5. DirectoriesOK'
  BY <1>1, <1>2 DEF Clean, Consistent, DirectoriesOK, IsHead, IsDirectory
<1>6. (FileAtHand /\ WriteAtHand /\ WalkAtHand)'
  BY <1>1 DEF Clean, FileAtHand, WriteAtHand, WalkAtHand, Copying, IsHead
<1> QED BY <1>1, <1>3, <1>4, <1>5, <1>6 DEF Clean, Consistent, Files

LEMMA InitNewFileClean ==
  ASSUME TypeOK, Clean, MarkAtHand, Task, init_new_file
  PROVE  Clean'
<1>1. /\ pc = "header" /\ pc' = "append" /\ op.type = "Create" /\ made' = found
      /\ UNCHANGED <<op, file, todo, smashed>>
  BY DEF init_new_file, Task
<1>2. PICK new \in Block : new = found
  BY DEF TypeOK, HandlerTypeOK
<1>2a. new \in stray /\ file \in Block
  BY <1>1, <1>2 DEF MarkAtHand, TypeOK, HandlerTypeOK
<1>3. new # 0 /\ new \in lookup_table /\ new \notin Metadata /\ owner[new] = 0
  <2>1. 0 \in Metadata
    BY ImageAssumption DEF Metadata
  <2> QED BY <1>2a, <2>1 DEF MarkAtHand, InChain
<1>4. \A b \in Block : /\ owner'[b] = IF b = new THEN new ELSE owner[b]
                       /\ rank'[b] = IF b = new THEN 0 ELSE rank[b]
                       /\ b # new => /\ cont'[b] = cont[b] /\ inode'[b] = inode[b]
                                       /\ items'[b] = items[b]
  BY <1>2 DEF init_new_file, TypeOK, ImageTypeOK, HistoryTypeOK
<1>5. /\ items'[new] = <<>> /\ lookup_table' = lookup_table
      /\ inode'[new] = [size |-> 0, flags |-> op.flags, last_inode |-> new]
  BY <1>2 DEF init_new_file, TypeOK, ImageTypeOK
<1>6. \A h \in Block \ {new} : BlocksOf(h)' = BlocksOf(h) /\ LastOf(h)' = LastOf(h)
  BY <1>1, <1>4 DEF BlocksOf, LastOf, Extending, get_blocks_required
<1>7. BlocksOf(new)' = 1 /\ LastOf(new)' = new
  BY <1>1, <1>5, ImageAssumption DEF BlocksOf, LastOf, Extending, get_blocks_required
<1>8. \A b \in Block : InChain(b) => b # new /\ owner[b] # new
  BY <1>3 DEF Clean, Consistent, HeadsOK, InChain, IsHead
<1>9. Marked'
  BY <1>3, <1>4, <1>5 DEF Clean, Consistent, Marked, InChain
<1>10. HeadsOK'
  <2>1. ASSUME NEW b \in Block, InChain(b)'
        PROVE  /\ owner'[b] \in Block /\ IsHead(owner[b])' /\ rank'[owner'[b]] = 0
               /\ rank'[b] < BlocksOf(owner[b])'
    <3>1. CASE b = new
      BY <1>2, <1>3, <1>4, <1>7, <3>1 DEF IsHead
    <3>2. CASE b # new
      <4>1. InChain(b) /\ owner'[b] = owner[b] /\ owner[b] # new /\ rank'[b] = rank[b]
        BY <1>4, <1>8, <2>1, <3>2 DEF InChain
      <4>2. /\ owner[b] \in Block /\ IsHead(owner[b]) /\ rank[owner[b]] = 0
            /\ rank[b] < BlocksOf(owner[b])
        BY <4>1 DEF Clean, Consistent, HeadsOK
      <4>3. BlocksOf(owner[b])' = BlocksOf(owner[b])
        <5>1. PICK h \in Block \ {new} : h = owner[b]
          BY <4>1, <4>2
        <5>2. BlocksOf(h)' = BlocksOf(h)
          BY <1>6
        <5> QED BY <4>1, <5>1, <5>2 DEF BlocksOf, Extending
      <4> QED BY <1>4, <4>1, <4>2, <4>3 DEF IsHead
    <3> QED BY <3>1, <3>2
  <2> QED BY <2>1 DEF HeadsOK
<1>11. ChainsOK'
  <2>1. ASSUME NEW b \in Block, InChain(b)', rank'[b] + 1 < BlocksOf(owner[b])'
        PROVE  /\ cont'[b] \in Block
               /\ owner'[cont'[b]] = owner'[b] /\ rank'[cont'[b]] = rank'[b] + 1
    <3>1. CASE b = new
      <4>1. owner'[b] = new /\ rank'[b] = 0
        BY <1>4, <3>1
      <4> QED BY <1>7, <2>1, <4>1 DEF BlocksOf, Extending
    <3>2. CASE b # new
      <4>1. /\ InChain(b) /\ owner'[b] = owner[b] /\ owner[b] # new /\ rank'[b] = rank[b]
            /\ cont'[b] = cont[b] /\ owner[b] \in Block
        BY <1>4, <1>8, <2>1, <3>2 DEF InChain, Clean, Consistent, HeadsOK
      <4>2. BlocksOf(owner[b])' = BlocksOf(owner[b])
        <5>1. PICK h \in Block \ {new} : h = owner[b]
          BY <4>1
        <5>2. BlocksOf(h)' = BlocksOf(h)
          BY <1>6
        <5> QED BY <4>1, <5>1, <5>2 DEF BlocksOf, Extending
      <4>3. /\ cont[b] \in Block
            /\ owner[cont[b]] = owner[b] /\ rank[cont[b]] = rank[b] + 1
        BY <2>1, <4>1, <4>2 DEF Clean, Consistent, ChainsOK
      <4>4. cont[b] # new
        BY <1>3, <4>1, <4>3 DEF InChain
      <4> QED BY <1>4, <4>1, <4>3, <4>4
    <3> QED BY <3>1, <3>2
  <2> QED BY <2>1 DEF ChainsOK
<1>12. NoOverlap'
  BY <1>4, <1>8 DEF Clean, Consistent, NoOverlap, InChain
<1>13. LastsOK'
  <2>1. ASSUME NEW h \in Block, IsHead(h)'
        PROVE  /\ LastOf(h)' \in Block /\ owner'[LastOf(h)'] = h
               /\ rank'[LastOf(h)'] + 1 = BlocksOf(h)'
    <3>1. CASE h = new
      BY <1>2, <1>4, <1>7, <3>1
    <3>2. CASE h # new
      <4>1. IsHead(h) /\ LastOf(h)' = LastOf(h) /\ BlocksOf(h)' = BlocksOf(h)
        BY <1>4, <1>6, <2>1, <3>2 DEF IsHead
      <4>2. LastOf(h) \in Block /\ owner[LastOf(h)] = h /\ rank[LastOf(h)] + 1 = BlocksOf(h)
        BY <4>1 DEF Clean, Consistent, LastsOK
      <4>3. LastOf(h) # new
        BY <1>3, <4>1, <4>2 DEF IsHead
      <4> QED BY <1>4, <4>1, <4>2, <4>3
    <3> QED BY <3>1, <3>2
  <2> QED BY <2>1 DEF LastsOK
<1>14. \A h \in Block : IsHead(h) => h # new /\ IsHead(h)'
  BY <1>3, <1>4 DEF IsHead
<1>15. DirectoriesOK'
  <2>1. IsHead(root_inode)' /\ IsDirectory(root_inode)'
    BY <1>4, <1>14, RootIsBlock DEF Clean, Consistent, DirectoriesOK, IsDirectory
  <2>2. ASSUME NEW d \in Block, IsHead(d)'
        PROVE  /\ \A i \in DOMAIN items'[d] : items'[d][i].inode \in Block
                                                /\ IsHead(items[d][i].inode)'
               /\ IsDirectory(d)' => inode'[d].size
                                       = Len(items'[d]) + (IF Growing(d)' THEN 1 ELSE 0)
    <3>1. CASE d = new
      BY <1>1, <1>5, <3>1 DEF Growing
    <3>2. CASE d # new
      <4>1. IsHead(d) /\ items'[d] = items[d] /\ inode'[d] = inode[d]
        BY <1>4, <2>2, <3>2 DEF IsHead
      <4>2. ~Growing(d) /\ ~Growing(d)'
        BY <1>1 DEF Growing
      <4>3. \A i \in DOMAIN items[d] : items[d][i].inode \in Block
                                         /\ IsHead(items[d][i].inode)
        BY <4>1 DEF Clean, Consistent, DirectoriesOK
      <4>4. \A i \in DOMAIN items[d] : IsHead(items[d][i].inode)'
        BY <1>3, <1>4, <4>1, <4>3 DEF IsHead
      <4> QED BY <4>1, <4>2, <4>3, <4>4 DEF Clean, Consistent, DirectoriesOK, IsDirectory
    <3> QED BY <3>1, <3>2
  <2> QED BY <2>1, <2>2 DEF DirectoriesOK
<1>16. FileAtHand'
  <2>1. IsHead(file)' /\ IsHead(made)'
    BY <1>1, <1>2, <1>2a, <1>3, <1>4, <1>14 DEF Clean, FileAtHand, IsHead
  <2>2. \A i \in DOMAIN todo : IsHead(todo[i].inode)'
    <3>1. \A i \in DOMAIN todo : IsHead(todo[i].inode) /\ todo[i].inode \in Block
      BY TodoItems DEF Clean, FileAtHand
    <3> QED BY <1>1, <1>4, <1>3, <3>1 DEF IsHead
  <2> QED BY <1>1, <2>1, <2>2 DEF FileAtHand
<1>17. (WriteAtHand /\ WalkAtHand)'
  BY <1>1 DEF WriteAtHand, WalkAtHand, Copying
<1> QED BY <1>1, <1>9, <1>10, <1>11, <1>12, <1>13, <1>15, <1>16, <1>17 DEF Clean, Consistent
-----------------------------------------------------------------------------
(* A directory holds files, so a handler that only changes sizes, last     *)
(* blocks or items of the file at hand keeps DirectoriesOK when it keeps   *)
(* that of the file at hand.                                               *)
LEMMA DirectoryFrame ==
  ASSUME TypeOK, Consistent, UNCHANGED <<owner, file>>,
         \A b \in Block : /\ inode'[b].flags = inode[b].flags
                          /\ b # file => /\ items'[b] = items[b]
                                         /\ inode'[b].size = inode[b].size,
         \A i \in DOMAIN items'[file] : items'[file][i].inode \in Block
                                          /\ IsHead(items'[file][i].inode),
         IsDirectory(file) => inode'[file].size
                                = Len(items'[file]) + (IF Growing(file)' THEN 1 ELSE 0)
  PROVE  DirectoriesOK'
<1>1. IsHead(root_inode)' /\ IsDirectory(root_inode)'
  BY RootIsBlock DEF Consistent, DirectoriesOK, IsHead, IsDirectory
<1>2. ASSUME NEW d \in Block, IsHead(d)'
      PROVE  /\ \A i \in DOMAIN items'[d] : items'[d][i].inode \in Block
                                              /\ IsHead(items[d][i].inode)'
             /\ IsDirectory(d)' => inode'[d].size
                                     = Len(items'[d]) + (IF Growing(d)' THEN 1 ELSE 0)
  <2>1. CASE d = file
    BY <1>2, <2>1 DEF IsHead, IsDirectory, Growing
  <2>2. CASE d # file
    <3>1. IsHead(d) /\ ~Growing(d) /\ ~Growing(d)'
      BY <1>2, <2>2 DEF IsHead, Growing
    <3>2. \A i \in DOMAIN items[d] : items[d][i].inode \in Block
                                       /\ IsHead(items[d][i].inode)
      BY <3>1 DEF Consistent, DirectoriesOK
    <3>3. IsDirectory(d) => inode[d].size
                              = Len(items[d]) + (IF Growing(d) THEN 1 ELSE 0)
      BY <3>1 DEF Consistent, DirectoriesOK
    <3>4. IsDirectory(d)' <=> IsDirectory(d)
      BY DEF IsDirectory
    <3>5. items'[d] = items[d] /\ inode'[d].size = inode[d].size
      BY <2>2
    <3>6. \A i \in DOMAIN items'[d] : items'[d][i].inode \in Block
                                        /\ IsHead(items[d][i].inode)'
      BY <3>2, <3>5 DEF IsHead
    <3> QED BY <3>1, <3>3, <3>4, <3>5, <3>6
  <2> QED BY <2>1, <2>2
<1> QED BY <1>1, <1>2 DEF DirectoriesOK

LEMMA ItemsHeads ==
  ASSUME TypeOK, Clean, pc # "idle"
  PROVE  \A i \in DOMAIN items[file] : items[file][i].inode \in Block
                                         /\ IsHead(items[file][i].inode)
BY SizeIsNat DEF Clean, FileAtHand, Consistent, DirectoriesOK

LEMMA WriteClean ==
  ASSUME TypeOK, Clean, Task, write_file_unchecked, ~torn'
  PROVE  Clean'
<1> DEFINE size == inode[file].size
           end  == offset + length
           top  == IF end > size THEN end ELSE size
<1>1. pc = "write" /\ op.type \in {"Write", "Create", "Remove"} /\ ~Growing(file)
  BY DEF write_file_unchecked, Clean, WriteAtHand, Growing
<1>2. size \in Nat /\ end \in Nat /\ top \in Nat /\ end <= top /\ file \in Block
  BY SizeIsNat
<1>3. CASE Refuse
  BY <1>3, AbandonsClean
<1>4. CASE Finish /\ UNCHANGED <<image, ghosts, torn>>
  BY <1>1, <1>4, FinishClean
<1>5. CASE ~Refuse /\ ~(Finish /\ UNCHANGED <<image, ghosts, torn>>)
  <2>1. /\ inode' = [inode EXCEPT ![file].size = top]
        /\ UNCHANGED <<lookup_table, cont, items, op, file, found, made, todo, ghosts>>
    BY <1>5 DEF write_file_unchecked
  <2>2. \A b \in Block : /\ inode'[b].flags = inode[b].flags
                         /\ inode'[b].last_inode = inode[b].last_inode
                         /\ inode'[b].size = IF b = file THEN top ELSE inode[b].size
    BY <2>1, SizeIsNat DEF HeadInfo
  <2>3. IsHead(file) /\ IsHead(file)'
    BY <1>1, <2>1 DEF Clean, FileAtHand, IsHead
  <2>4. pc' \in {"extend", "walk"}
    BY <1>5 DEF write_file_unchecked, StartWalk
  <2>5. UNCHANGED <<offset, length>>
    BY <1>5 DEF write_file_unchecked, StartWalk
  <2>6. Marked'
    BY <2>1 DEF Clean, Consistent, Marked, InChain
  <2>7. DirectoriesOK'
    <3>1. IsDirectory(file) => inode'[file].size
                                 = Len(items'[file]) + (IF Growing(file)' THEN 1 ELSE 0)
      <4>1. SUFFICES ASSUME IsDirectory(file) PROVE top = Len(items[file]) + 1 /\ Growing(file)'
        BY <1>2, <2>1, <2>2
      <4>2. op.type \in {"Create", "Remove"} /\ length = 1 /\ offset = size
        BY <1>1, <4>1 DEF Clean, WriteAtHand, Copying, IsFile, IsDirectory,
           FLG_DIRECTORY, FLG_FILE
      <4>3. size = Len(items[file])
        <5>1. size = Len(items[file]) + (IF Growing(file) THEN 1 ELSE 0)
          BY <1>2, <2>3, <4>1 DEF Clean, Consistent, DirectoriesOK
        <5>2. Len(items[file]) \in Nat
          BY SizeIsNat
        <5> QED BY <1>1, <5>1, <5>2
      <4>4. Growing(file)'
        BY <2>1, <2>4, <4>2 DEF Growing
      <4>5. top = size + 1
        BY <1>2, <4>2
      <4> QED BY <4>3, <4>4, <4>5
    <3> QED BY <1>1, <2>1, <2>2, <3>1, ItemsHeads, DirectoryFrame DEF Clean
  <2>8. (FileAtHand /\ WriteAtHand)'
    <3>1. UNCHANGED <<IsDirectory(file), IsFile(file)>>
      BY <1>2, <2>1, <2>2 DEF IsDirectory, IsFile
    <3> QED BY <1>1, <2>1, <2>3, <2>4, <2>5, <3>1
            DEF Clean, FileAtHand, WriteAtHand, Copying, IsHead
  <2>9. \A h \in Block \ {file} : BlocksOf(h)' = BlocksOf(h) /\ LastOf(h)' = LastOf(h)
    BY <1>1, <2>1, <2>2, <2>4 DEF BlocksOf, LastOf, Extending, get_blocks_required
  <2>10. PICK f \in Block : f = file
    BY <1>2
  <2>11. BlocksOf(f) = get_blocks_required(size) /\ LastOf(f) = inode[f].last_inode
    BY <1>1, <2>10 DEF BlocksOf, LastOf, Extending
  <2>12. inode'[f].size = top
    BY <2>2, <2>10
  <2>13. CASE /\ end > size
              /\ pc' = "extend" /\ block_index' = inode[file].last_inode
              /\ ord' = OrdinalOf(size) /\ goal' = OrdinalOf(end)
    <3>1. BlocksOf(f)' = BlocksOf(f) /\ LastOf(f)' = LastOf(f)
      <4>1. Extending(f)'
        BY <2>1, <2>10, <2>13 DEF Extending
      <4>2. BlocksOf(f)' = ord' + 1 /\ LastOf(f)' = block_index'
        BY <4>1 DEF BlocksOf, LastOf
      <4>3. ord' + 1 = get_blocks_required(size)
        BY <1>2, <2>13, BlocksRequired DEF OrdinalOf
      <4> QED BY <2>10, <2>11, <2>13, <4>2, <4>3
    <3>2. Files'
      BY <2>1, <2>9, <2>10, <3>1, FilesFrame DEF Clean, Consistent, Files
    <3>3. WalkAtHand'
      <4>1. OrdinalOf(size) <= OrdinalOf(end)
        BY <1>2, <2>13, BlocksRequired, BlocksRequiredGrows DEF OrdinalOf
      <4>2. inode'[file'].size = offset' + length' /\ inode'[file'].size = end
        BY <2>1, <2>5, <2>10, <2>12, <2>13
      <4>3. OrdinalOf(inode[file].size)' = OrdinalOf(end)
        BY <4>2 DEF OrdinalOf, get_blocks_required
      <4> QED BY <2>13, <4>1, <4>2, <4>3 DEF WalkAtHand
    <3> QED BY <2>1, <2>6, <2>7, <2>8, <3>2, <3>3 DEF Clean, Consistent, Files
  <2>14. CASE /\ get_blocks_required(top) = get_blocks_required(size)
              /\ StartWalk(offset, length, OrdinalOf(end))
    <3>0. pc' = "walk" /\ block_index' = file /\ ord' = 0 /\ goal' = OrdinalOf(end)
      BY <2>14 DEF StartWalk
    <3>1. BlocksOf(f)' = get_blocks_required(top) /\ LastOf(f)' = LastOf(f)
      <4>1. ~Extending(f)'
        BY <3>0 DEF Extending
      <4>2. BlocksOf(f)' = get_blocks_required(top) /\ LastOf(f)' = inode'[f].last_inode
        BY <3>0, <4>1, <2>12 DEF BlocksOf, LastOf, get_blocks_required
      <4> QED BY <2>2, <2>11, <4>2
    <3>2. Files'
      BY <2>1, <2>9, <2>10, <2>11, <2>14, <3>1, FilesFrame DEF Clean, Consistent, Files
    <3>3. WalkAtHand'
      <4>1. OrdinalOf(end) \in Nat /\ OrdinalOf(end) < get_blocks_required(top)
        BY <1>2, BlocksRequired, BlocksRequiredGrows DEF OrdinalOf
      <4>2. BlocksOf(file)' = get_blocks_required(top)
        BY <2>1, <2>10, <3>1 DEF BlocksOf, Extending
      <4>3. owner[file] = file /\ rank[file] = 0
        BY <1>2, <2>3, HeadFacts DEF Clean
      <4> HIDE DEF end, top
      <4> QED BY <2>1, <3>0, <4>1, <4>2, <4>3, <1>2, BlocksRequired DEF WalkAtHand
    <3> QED BY <2>1, <2>6, <2>7, <2>8, <3>2, <3>3 DEF Clean, Consistent, Files
  <2> QED BY <1>5, <2>13, <2>14, <1>2 DEF write_file_unchecked
<1> QED BY <1>3, <1>4, <1>5

(* truncate_file links a free block behind the last block of the file.     *)
LEMMA ExtendLinkClean ==
  ASSUME TypeOK, Clean, ExtendLink
  PROVE  Clean'
<1>1. /\ pc = "link" /\ pc' = "extend" /\ ord' = ord + 1 /\ block_index' = found
      /\ UNCHANGED <<op, file, offset, length, goal, made, todo, items, smashed>>
  BY DEF ExtendLink
<1>2. PICK new \in Block : new = found
  BY DEF TypeOK, HandlerTypeOK
<1>3. PICK f \in Block : f = file
  BY SizeIsNat
<1>4. PICK last \in Block : last = block_index
  BY <1>1 DEF TypeOK, HandlerTypeOK
<1>5. new \notin lookup_table
  BY <1>1, <1>2 DEF Clean, FileAtHand
<1>6. new # 0 /\ new \notin Metadata /\ owner[new] = 0
  <2>1. 0 \in Metadata
    BY ImageAssumption DEF Metadata
  <2> QED BY <1>5, <2>1 DEF Clean, Consistent, Marked, InChain
<1>7. IsHead(f) /\ owner[f] = f /\ f # 0 /\ rank[f] = 0 /\ f # new /\ f \in Nat
  BY <1>1, <1>3, <1>6, HeadFacts, RootIsBlock DEF Clean, FileAtHand
<1>8. BlocksOf(f) = ord + 1 /\ LastOf(f) = last /\ ord \in Nat
  BY <1>1, <1>3, <1>4 DEF BlocksOf, LastOf, Extending, TypeOK, HandlerTypeOK
<1>9. owner[last] = f /\ rank[last] = ord /\ last # new
  BY <1>6, <1>7, <1>8 DEF Clean, Consistent, LastsOK, TypeOK, HistoryTypeOK
<1>10. BlocksOf(f)' = ord + 2 /\ LastOf(f)' = new
  BY <1>1, <1>2, <1>3, <1>8 DEF BlocksOf, LastOf, Extending
<1>11. \A b \in Block : /\ owner'[b] = IF b = new THEN f ELSE owner[b]
                        /\ rank'[b] = IF b = new THEN ord + 1 ELSE rank[b]
                        /\ cont'[b] = IF b = last THEN new ELSE cont[b]
                        /\ b # new => inode'[b] = inode[b]
  BY <1>2, <1>3, <1>4 DEF ExtendLink, TypeOK, ImageTypeOK, HistoryTypeOK
<1>12. lookup_table' = lookup_table \cup {new}
  BY <1>2 DEF ExtendLink
<1>13. \A h \in Block \ {new, f} : BlocksOf(h)' = BlocksOf(h) /\ LastOf(h)' = LastOf(h)
  BY <1>1, <1>3, <1>11 DEF BlocksOf, LastOf, Extending, get_blocks_required
<1>14. \A b \in Block : InChain(b) => b # new /\ owner[b] # new
  BY <1>6 DEF Clean, Consistent, HeadsOK, InChain, IsHead
<1>15. \A h \in Block : /\ IsHead(h) => h # new /\ IsHead(h)'
                        /\ IsHead(h)' => IsHead(h)
  BY <1>6, <1>7, <1>11 DEF IsHead
<1>16. Marked'
  BY <1>6, <1>11, <1>12 DEF Clean, Consistent, Marked, InChain
<1>17. HeadsOK'
  <2>1. ASSUME NEW b \in Block, InChain(b)'
        PROVE  /\ owner'[b] \in Block /\ IsHead(owner[b])' /\ rank'[owner'[b]] = 0
               /\ rank'[b] < BlocksOf(owner[b])'
    <3>1. CASE b = new
      <4>1. owner'[b] = f /\ rank'[b] = ord + 1 /\ IsHead(f)' /\ rank'[f] = 0
        BY <1>7, <1>11, <1>15, <3>1
      <4>2. BlocksOf(owner[b])' = ord + 2
        BY <1>10, <4>1 DEF BlocksOf, Extending
      <4> QED BY <1>8, <4>1, <4>2 DEF IsHead
    <3>2. CASE b # new
      <4>1. InChain(b) /\ owner'[b] = owner[b] /\ rank'[b] = rank[b]
        BY <1>11, <2>1, <3>2 DEF InChain
      <4>2. PICK h \in Block : h = owner[b]
        BY <4>1 DEF Clean, Consistent, HeadsOK
      <4>3. IsHead(h) /\ rank[h] = 0 /\ rank[b] < BlocksOf(h) /\ h # new
        BY <1>14, <4>1, <4>2 DEF Clean, Consistent, HeadsOK
      <4>4. rank[b] < BlocksOf(h)'
        <5>1. rank[b] \in Nat
          BY DEF TypeOK, HistoryTypeOK
        <5> QED BY <1>8, <1>10, <1>13, <4>3, <5>1
      <4>5. BlocksOf(owner[b])' = BlocksOf(h)'
        BY <4>1, <4>2 DEF BlocksOf, Extending
      <4> QED BY <1>11, <1>15, <4>1, <4>2, <4>3, <4>4, <4>5 DEF IsHead
    <3> QED BY <3>1, <3>2
  <2> QED BY <2>1 DEF HeadsOK
<1>18. ChainsOK'
  <2>1. ASSUME NEW b \in Block, InChain(b)', rank'[b] + 1 < BlocksOf(owner[b])'
        PROVE  /\ cont'[b] \in Block
               /\ owner'[cont'[b]] = owner'[b] /\ rank'[cont'[b]] = rank'[b] + 1
    <3>1. PICK h \in Block : h = owner'[b]
      BY <1>17, <2>1 DEF HeadsOK
    <3>2. rank'[b] + 1 < BlocksOf(h)'
      BY <2>1, <3>1 DEF BlocksOf, Extending
    <3>3. b # new
      BY <1>8, <1>10, <1>11, <3>1, <3>2
    <3>4. InChain(b) /\ owner[b] = h /\ rank'[b] = rank[b] /\ h # new /\ rank[b] \in Nat
      BY <1>11, <1>14, <2>1, <3>1, <3>3 DEF InChain, TypeOK, HistoryTypeOK
    <3>5. CASE b = last
      BY <1>9, <1>11, <3>3, <3>4, <3>5
    <3>6. CASE b # last
      <4>1. rank[b] + 1 < BlocksOf(h)
        <5>1. CASE h = f
          <6>1. rank[b] # ord
            BY <1>7, <1>9, <3>4, <3>6, <5>1 DEF Clean, Consistent, NoOverlap
          <6> QED BY <1>8, <1>10, <3>2, <3>4, <5>1, <6>1
        <5>2. CASE h # f
          BY <1>13, <3>2, <3>4, <5>2
        <5> QED BY <5>1, <5>2
      <4>2. cont[b] \in Block /\ owner[cont[b]] = h /\ rank[cont[b]] = rank[b] + 1
        BY <3>4, <4>1 DEF Clean, Consistent, ChainsOK
      <4>3. cont[b] # new
        BY <1>6, <3>4, <4>2 DEF InChain
      <4> QED BY <1>11, <3>1, <3>4, <3>6, <4>2, <4>3
    <3> QED BY <3>5, <3>6
  <2> QED BY <2>1 DEF ChainsOK
<1>19. NoOverlap'
  <2>1. \A b \in Block : InChain(b) /\ owner[b] = f => rank[b] # ord + 1
    <3>1. ASSUME NEW b \in Block, InChain(b), owner[b] = f PROVE rank[b] # ord + 1
      <4>1. rank[b] < BlocksOf(f) /\ rank[b] \in Nat
        BY <3>1 DEF Clean, Consistent, HeadsOK, TypeOK, HistoryTypeOK
      <4> QED BY <1>8, <4>1
    <3> QED BY <3>1
  <2>2. ASSUME NEW a \in Block, NEW b \in Block, InChain(a)',
               owner'[a] = owner'[b], rank'[a] = rank'[b]
        PROVE  a = b
    BY <1>11, <2>1, <2>2 DEF Clean, Consistent, NoOverlap, InChain
  <2> QED BY <2>2 DEF NoOverlap
<1>20. LastsOK'
  <2>1. ASSUME NEW h \in Block, IsHead(h)'
        PROVE  /\ LastOf(h)' \in Block /\ owner'[LastOf(h)'] = h
               /\ rank'[LastOf(h)'] + 1 = BlocksOf(h)'
    <3>1. CASE h = f
      BY <1>8, <1>10, <1>11, <3>1
    <3>2. CASE h # f
      <4>1. IsHead(h) /\ LastOf(h)' = LastOf(h) /\ BlocksOf(h)' = BlocksOf(h)
        BY <1>13, <1>15, <2>1, <3>2
      <4>2. LastOf(h) \in Block /\ owner[LastOf(h)] = h /\ rank[LastOf(h)] + 1 = BlocksOf(h)
        BY <4>1 DEF Clean, Consistent, LastsOK
      <4>3. LastOf(h) # new
        BY <1>6, <4>1, <4>2 DEF IsHead
      <4> QED BY <1>11, <4>1, <4>2, <4>3
    <3> QED BY <3>1, <3>2
  <2> QED BY <2>1 DEF LastsOK
<1>21. DirectoriesOK'
  <2>1. IsHead(root_inode)' /\ IsDirectory(root_inode)'
    BY <1>11, <1>15, RootIsBlock DEF Clean, Consistent, DirectoriesOK, IsDirectory
  <2>2. ASSUME NEW d \in Block, IsHead(d)'
        PROVE  /\ \A i \in DOMAIN items'[d] : items'[d][i].inode \in Block
                                                /\ IsHead(items[d][i].inode)'
               /\ IsDirectory(d)' => inode'[d].size
                                       = Len(items'[d]) + (IF Growing(d)' THEN 1 ELSE 0)
    <3>1. IsHead(d) /\ items'[d] = items[d] /\ inode'[d] = inode[d]
      BY <1>1, <1>11, <1>15, <2>2
    <3>2. Growing(d) <=> Growing(d)'
      BY <1>1 DEF Growing
    <3>3. \A i \in DOMAIN items[d] : items[d][i].inode \in Block
                                       /\ IsHead(items[d][i].inode)
      BY <3>1 DEF Clean, Consistent, DirectoriesOK
    <3>4. \A i \in DOMAIN items[d] : IsHead(items[d][i].inode)'
      BY <1>1, <1>6, <1>11, <3>3 DEF IsHead
    <3> QED BY <3>1, <3>2, <3>3, <3>4 DEF Clean, Consistent, DirectoriesOK, IsDirectory
  <2> QED BY <2>1, <2>2 DEF DirectoriesOK
<1>22. FileAtHand'
  <2>1. \A i \in DOMAIN todo : IsHead(todo[i].inode)'
    <3>1. \A i \in DOMAIN todo : IsHead(todo[i].inode) /\ todo[i].inode \in Block
      BY TodoItems DEF Clean, FileAtHand
    <3> QED BY <1>1, <1>6, <1>11, <3>1 DEF IsHead
  <2>2. IsHead(file)' /\ (op.type = "Create" => IsHead(made)')
    <3>1. made \in Block /\ (op.type = "Create" => IsHead(made))
      BY <1>1 DEF Clean, FileAtHand, Copying, TypeOK, HandlerTypeOK
    <3> QED BY <1>1, <1>3, <1>6, <1>7, <1>11, <3>1 DEF IsHead
  <2> QED BY <1>1, <2>1, <2>2 DEF Clean, FileAtHand, Copying
<1>23. WriteAtHand'
  <2>1. inode'[file] = inode[file]
    BY <1>3, <1>7, <1>11
  <2> QED BY <1>1, <2>1 DEF Clean, WriteAtHand, Copying, IsFile, IsDirectory
<1>24. WalkAtHand'
  <2>1. inode'[file] = inode[file]
    BY <1>3, <1>7, <1>11
  <2>2. ord + 1 <= goal
    BY <1>1, <1>8 DEF Clean, WalkAtHand, TypeOK, HandlerTypeOK
  <2>3. OrdinalOf(inode[file].size)' = OrdinalOf(inode[file].size)
    BY <1>1, <2>1 DEF OrdinalOf, get_blocks_required
  <2> QED BY <1>1, <2>1, <2>2, <2>3 DEF Clean, WalkAtHand
<1> QED BY <1>1, <1>16, <1>17, <1>18, <1>19, <1>20, <1>21, <1>22, <1>23, <1>24
        DEF Clean, Consistent

LEMMA ExtendDoneClean ==
  ASSUME TypeOK, Clean, ExtendDone
  PROVE  Clean'
<1>1. /\ pc = "extend" /\ pc' = "walk" /\ ord = goal /\ ord' = 0
      /\ block_index' = file /\ goal' = OrdinalOf(offset + length)
      /\ UNCHANGED <<op, file, offset, length, made, found, todo, lookup_table, cont,
                     items, ghosts>>
  BY DEF ExtendDone, StartWalk
<1>2. PICK f \in Block : f = file
  BY SizeIsNat
<1>3. block_index \in Block
  BY <1>1 DEF TypeOK, HandlerTypeOK
<1>4. \A b \in Block : /\ inode'[b].flags = inode[b].flags
                       /\ inode'[b].size = inode[b].size
                       /\ inode'[b].last_inode = IF b = f THEN block_index
                                                 ELSE inode[b].last_inode
  BY <1>2, SizeIsNat DEF ExtendDone, HeadInfo
<1>5. /\ inode[f].size = offset + length /\ goal = OrdinalOf(inode[f].size)
      /\ inode[f].size \in Nat
  BY <1>1, <1>2, SizeIsNat DEF Clean, WalkAtHand
<1>6. BlocksOf(f) = get_blocks_required(inode[f].size) /\ LastOf(f) = block_index
  BY <1>1, <1>2, <1>5, BlocksRequired DEF BlocksOf, LastOf, Extending, OrdinalOf
<1>7. BlocksOf(f)' = get_blocks_required(inode[f].size) /\ LastOf(f)' = block_index
  BY <1>1, <1>4 DEF BlocksOf, LastOf, Extending, get_blocks_required
<1>8. \A h \in Block \ {f} : BlocksOf(h)' = BlocksOf(h) /\ LastOf(h)' = LastOf(h)
  BY <1>1, <1>2, <1>4 DEF BlocksOf, LastOf, Extending, get_blocks_required
<1>9. Files'
  BY <1>1, <1>6, <1>7, <1>8, FilesFrame DEF Clean, Consistent, Files
<1>10. Marked'
  BY <1>1 DEF Clean, Consistent, Marked, InChain
<1>11. IsHead(file) /\ IsHead(file)' /\ (IsDirectory(file)' <=> IsDirectory(file))
       /\ (IsFile(file)' <=> IsFile(file))
  BY <1>1, <1>2, <1>4 DEF Clean, FileAtHand, IsHead, IsDirectory, IsFile
<1>12. IsDirectory(file) => op.type \in {"Create", "Remove"}
  BY <1>1 DEF Clean, WriteAtHand, Copying, IsFile, IsDirectory, FLG_DIRECTORY, FLG_FILE
<1>13. DirectoriesOK'
  <2>1. IsDirectory(file) => inode'[file].size
                               = Len(items'[file]) + (IF Growing(file)' THEN 1 ELSE 0)
    <3>1. SUFFICES ASSUME IsDirectory(file)
                   PROVE  inode[file].size = Len(items[file]) + 1 /\ Growing(file)'
      BY <1>1, <1>2, <1>4
    <3>2. Growing(file) /\ Growing(file)'
      BY <1>1, <1>12, <3>1 DEF Growing
    <3> QED BY <1>2, <1>11, <3>1, <3>2 DEF Clean, Consistent, DirectoriesOK
  <2> QED BY <1>1, <1>2, <1>4, <2>1, ItemsHeads, DirectoryFrame DEF Clean
<1>14. FileAtHand' /\ WriteAtHand'
  BY <1>1, <1>11 DEF Clean, FileAtHand, WriteAtHand, Copying, IsHead
<1>15. WalkAtHand'
  <2>1. BlocksOf(file)' = get_blocks_required(inode[f].size)
    BY <1>1, <1>2, <1>7 DEF BlocksOf, Extending
  <2>2. goal' \in Nat /\ goal' < get_blocks_required(inode[f].size)
    BY <1>1, <1>5, BlocksRequired DEF OrdinalOf
  <2>3. owner[file] = file /\ rank[file] = 0
    BY <1>2, <1>11, HeadFacts DEF Clean
  <2> QED BY <1>1, <1>5, <2>1, <2>2, <2>3, BlocksRequired DEF WalkAtHand
<1> QED BY <1>1, <1>9, <1>10, <1>13, <1>14, <1>15 DEF Clean, Consistent, Files

(* The walk over the blocks of the file follows the chain.                 *)
LEMMA HopClean ==
  ASSUME TypeOK, Clean, Hop, ~torn'
  PROVE  Clean'
<1>1. pc = "walk" /\ ord < goal /\ Copied
  BY DEF Hop
<1>2. PICK f \in Block : f = file
  BY SizeIsNat
<1>3. /\ BlocksOf(file) = get_blocks_required(inode[f].size)
      /\ BlocksOf(file) \in Nat /\ ord \in Nat /\ goal \in Nat
  BY <1>1, <1>2, SizeIsNat, BlocksRequired DEF BlocksOf, Extending, TypeOK, HandlerTypeOK
<1>4. ord < BlocksOf(file)
  BY <1>1, <1>3 DEF Clean, WalkAtHand
<1>5. smashed' = FALSE
  BY <1>1, <1>4, CopiedSafe
<1>6. CASE Abandon("lost") \/ Abandon("internal")
  BY <1>5, <1>6, AbandonClean
<1>7. CASE /\ block_index' = cont[block_index] /\ ord' = ord + 1
           /\ UNCHANGED <<image, pc, op, range, goal, found, made, removal, reply,
                          owner, rank, torn, before>>
  <2>1. \A d \in Block : Growing(d)' <=> Growing(d)
    BY <1>7 DEF Growing
  <2>2. Consistent'
    BY <1>1, <1>7, <2>1, QuietFrame DEF Clean
  <2>3. FileAtHand' /\ WriteAtHand'
    BY <1>1, <1>7 DEF Clean, FileAtHand, WriteAtHand, Copying, IsHead, IsFile, IsDirectory
  <2>4. BlocksOf(file)' = BlocksOf(file)
    BY <1>1, <1>7 DEF BlocksOf, Extending, get_blocks_required
  <2>5. owner[block_index] = file /\ rank[block_index] = ord /\ block_index \in Block
    BY <1>1, <1>4 DEF Clean, WalkAtHand, TypeOK, HandlerTypeOK
  <2>6. owner[block_index] = f /\ f # 0
    BY <1>1, <1>2, <2>5 DEF Clean, FileAtHand, IsHead
  <2>7. BlocksOf(owner[block_index]) = BlocksOf(file)
    BY <2>5 DEF BlocksOf, Extending
  <2>8. ord + 1 < BlocksOf(file) =>
          owner[cont[block_index]] = file /\ rank[cont[block_index]] = ord + 1
    BY <2>5, <2>6, <2>7 DEF Clean, Consistent, ChainsOK, InChain
  <2>9. WalkAtHand'
    BY <1>1, <1>3, <1>7, <2>4, <2>8 DEF Clean, WalkAtHand
  <2> QED BY <1>5, <2>2, <2>3, <2>9 DEF Clean
<1> QED BY <1>6, <1>7 DEF Hop

LEMMA LastVisitClean ==
  ASSUME TypeOK, Clean, Task, LastVisit
  PROVE  Clean'
<1>1. /\ pc = "walk" /\ ord = goal /\ Copied
      /\ UNCHANGED <<lookup_table, cont, inode, owner, rank, op, file>>
  BY OpIsRequest DEF LastVisit, Finish
<1>2. PICK f \in Block : f = file
  BY SizeIsNat
<1>3. smashed' = FALSE
  <2>1. CASE op.type = "Stat"
    <3>1. ~Writing
      BY <2>1 DEF Writing
    <3>2. smashed' = (smashed \/ (Writing /\ Copies /\ block_index \in Metadata))
      BY <1>1 DEF Copied
    <3> QED BY <3>1, <3>2, SizeIsNat DEF Clean, Copied
  <2>2. CASE op.type # "Stat"
    <3>1. ord < BlocksOf(file)
      BY <1>1, <2>2 DEF Clean, WalkAtHand
    <3> QED BY <1>1, <3>1, CopiedSafe
  <2> QED BY <2>1, <2>2
<1>4. pc' \in {"answer", "reappend"} /\ IsHead(file) /\ IsHead(file)'
  BY <1>1, OpIsRequest DEF LastVisit, Finish, Clean, FileAtHand, IsHead
<1>5. \A h \in Block : BlocksOf(h)' = BlocksOf(h) /\ LastOf(h)' = LastOf(h)
  BY <1>1, <1>4 DEF BlocksOf, LastOf, Extending, get_blocks_required
<1>6. Files'
  BY <1>1, <1>5, FilesFrame DEF Clean, Consistent, Files
<1>7. Marked'
  BY <1>1 DEF Clean, Consistent, Marked, InChain
<1>8. \A i \in DOMAIN todo : IsHead(todo[i].inode) /\ todo[i] \in Item
  BY TodoItems DEF Clean, FileAtHand
<1>9. CASE op.type \in {"Read", "Write", "Stat", "ReadDir"}
  <2>1. items' = items /\ pc' = "answer" /\ todo' = todo
    BY <1>1, <1>9 DEF LastVisit, Finish
  <2>2. \A d \in Block : Growing(d)' <=> Growing(d)
    BY <1>1, <1>9, <2>1 DEF Growing
  <2>3. Consistent'
    BY <1>1, <2>1, <2>2, QuietFrame DEF Clean
  <2>4. (FileAtHand /\ WriteAtHand /\ WalkAtHand)'
    BY <1>1, <1>4, <1>8, <2>1 DEF FileAtHand, WriteAtHand, WalkAtHand, Copying, IsHead
  <2> QED BY <1>3, <2>3, <2>4 DEF Clean
<1>10. CASE op.type \in {"Create", "Remove"}
  <2>1. IsDirectory(file)
    BY <1>1, <1>10 DEF Clean, WriteAtHand, Copying
  <2>2. inode[file].size = Len(items[file]) + 1
    <3>1. Growing(file)
      BY <1>1, <1>10 DEF Growing
    <3> QED BY <1>2, <1>4, <2>1, <3>1 DEF Clean, Consistent, DirectoriesOK
  <2>3. PICK item \in Item : /\ IsHead(item.inode)
                             /\ items' = [items EXCEPT ![file] = Append(@, item)]
    <3>1. CASE op.type = "Create"
      <4>1. Append1([name |-> BaseName, inode |-> made]) /\ IsHead(made)
        BY <1>1, <3>1 DEF LastVisit, Clean, FileAtHand, Copying
      <4>2. [name |-> BaseName, inode |-> made] \in Item
        <5>1. op.path # <<>>
          BY <1>1, <3>1 DEF Task
        <5>2. Len(op.path) \in DOMAIN op.path
          BY <5>1, OpIsRequest
        <5> QED BY <5>2, OpIsRequest DEF BaseName, Item, TypeOK, HandlerTypeOK
      <4> QED BY <4>1, <4>2 DEF Append1
    <3>2. CASE op.type = "Remove"
      <4>1. Append1(Head(todo)) /\ todo # <<>> /\ todo \in Seq(Item)
        BY <1>1, <3>2 DEF LastVisit, Task, TypeOK, HandlerTypeOK
      <4>2. Head(todo) = todo[1] /\ 1 \in DOMAIN todo
        BY <4>1
      <4> QED BY <1>8, <4>1, <4>2 DEF Append1
    <3> QED BY <1>10, <3>1, <3>2
  <2>4. items[file] \in Seq(Item) /\ items'[file] = Append(items[file], item)
    BY <2>3, SizeIsNat
  <2>5. \A i \in DOMAIN items'[file] : items'[file][i].inode \in Block
                                         /\ IsHead(items'[file][i].inode)
    <3>1. ASSUME NEW i \in DOMAIN items'[file]
          PROVE  items'[file][i].inode \in Block /\ IsHead(items'[file][i].inode)
      <4>1. CASE i \in DOMAIN items[file]
        <5>1. items'[file][i] = items[file][i]
          BY <2>4, <4>1
        <5> QED BY <1>1, <4>1, <5>1, ItemsHeads
      <4>2. CASE i \notin DOMAIN items[file]
        <5>1. items'[file][i] = item
          BY <2>4, <3>1, <4>2
        <5> QED BY <2>3, <5>1 DEF Item
      <4> QED BY <4>1, <4>2
    <3> QED BY <3>1
  <2>6. DirectoriesOK'
    <3>1. Len(items'[file]) = Len(items[file]) + 1
      BY <2>4
    <3>2. ~Growing(file)'
      BY <1>4 DEF Growing
    <3>3. Len(items'[file]) \in Nat
      BY <2>4, <3>1
    <3>4. inode'[file].size = Len(items'[file]) + (IF Growing(file)' THEN 1 ELSE 0)
      BY <1>1, <2>2, <3>1, <3>2, <3>3
    <3>5. \A b \in Block : b # file => items'[b] = items[b]
      BY <2>3, SizeIsNat
    <3> QED BY <1>1, <2>5, <3>4, <3>5, DirectoryFrame DEF Clean
  <2>7. \A i \in DOMAIN todo' : IsHead(todo'[i].inode)
    <3>1. CASE op.type = "Create"
      BY <1>1, <1>8, <3>1 DEF LastVisit, Finish
    <3>2. CASE op.type = "Remove"
      <4>1. todo' = Tail(todo) /\ todo # <<>> /\ todo \in Seq(Item)
        BY <1>1, <3>2 DEF LastVisit, Task, TypeOK, HandlerTypeOK
      <4>2. \A i \in DOMAIN Tail(todo) : i + 1 \in DOMAIN todo /\ Tail(todo)[i] = todo[i + 1]
        BY <4>1
      <4> QED BY <1>8, <4>1, <4>2
    <3> QED BY <1>10, <3>1, <3>2
  <2>8. FileAtHand'
    <3>1. pc' = "reappend" => op.type = "Remove"
      BY <1>10 DEF LastVisit, Finish
    <3> QED BY <1>1, <1>4, <2>7, <3>1 DEF FileAtHand, Copying, IsHead
  <2>9. WriteAtHand' /\ WalkAtHand'
    BY <1>4 DEF WriteAtHand, WalkAtHand, Copying
  <2> QED BY <1>3, <1>6, <1>7, <2>6, <2>8, <2>9 DEF Clean, Consistent, Files
<1> QED BY <1>9, <1>10, OpIsRequest
-----------------------------------------------------------------------------
(* A sequence without its k-th element.                                    *)
LEMMA RemoveAtIs ==
  ASSUME NEW S, NEW s \in Seq(S), NEW k \in 1 .. Len(s)
  PROVE  /\ DOMAIN RemoveAt(s, k) = 1 .. Len(s) - 1
         /\ \A i \in 1 .. Len(s) - 1 : RemoveAt(s, k)[i] = IF i < k THEN s[i] ELSE s[i + 1]
<1> DEFINE p == SubSeq(s, 1, k - 1)
           q == SubSeq(s, k + 1, Len(s))
<1>1. p \in Seq(S) /\ q \in Seq(S) /\ Len(p) = k - 1 /\ Len(q) = Len(s) - k
  OBVIOUS
<1>2. /\ \A i \in 1 .. k - 1 : p[i] = s[i]
      /\ \A i \in 1 .. Len(s) - k : q[i] = s[k + i]
  OBVIOUS
<1>3. RemoveAt(s, k) = p \o q
  BY DEF RemoveAt
<1>4. Len(s) \in Nat /\ DOMAIN s = 1 .. Len(s) /\ k \in Nat
  OBVIOUS
<1> HIDE DEF p, q
<1>5. DOMAIN (p \o q) = 1 .. Len(s) - 1
  BY <1>1, <1>4
<1>6. ASSUME NEW i \in 1 .. Len(s) - 1
      PROVE  (p \o q)[i] = IF i < k THEN s[i] ELSE s[i + 1]
  <2>1. CASE i <= k - 1
    <3>1. (p \o q)[i] = p[i]
      BY <1>1, <1>4, <2>1
    <3>2. i \in 1 .. k - 1 /\ i < k
      BY <1>4, <2>1
    <3> QED BY <1>2, <3>1, <3>2
  <2>2. CASE i > k - 1
    <3>1. (p \o q)[i] = q[i - (k - 1)]
      BY <1>1, <1>4, <2>2
    <3>2. i - (k - 1) \in 1 .. Len(s) - k
      BY <1>4, <2>2
    <3>3. q[i - (k - 1)] = s[k + (i - (k - 1))]
      BY <1>2, <3>2
    <3>4. k + (i - (k - 1)) = i + 1 /\ ~(i < k)
      BY <1>4, <2>2
    <3> QED BY <3>1, <3>3, <3>4
  <2>3. i <= k - 1 \/ i > k - 1
    BY <1>4
  <2> QED BY <2>1, <2>2, <2>3
<1> QED BY <1>3, <1>5, <1>6

(* What is left of a listing without one entry is part of it.              *)
LEMMA RemoveAtElements ==
  ASSUME NEW S, NEW s \in Seq(S), NEW k \in 1 .. Len(s)
  PROVE  \A i \in DOMAIN RemoveAt(s, k) : \E j \in DOMAIN s : RemoveAt(s, k)[i] = s[j]
<1>1. ASSUME NEW i \in 1 .. Len(s) - 1
      PROVE  \E j \in DOMAIN s : RemoveAt(s, k)[i] = s[j]
  <2>1. i \in DOMAIN s /\ i + 1 \in DOMAIN s
    OBVIOUS
  <2>2. RemoveAt(s, k)[i] = s[i] \/ RemoveAt(s, k)[i] = s[i + 1]
    BY RemoveAtIs
  <2> QED BY <2>1, <2>2
<1> QED BY <1>1, RemoveAtIs

(* rm: the directory is cut down to its first block, the listing kept.     *)
LEMMA RemoveClean ==
  ASSUME TypeOK, Clean, fsop_Remove, ~torn'
  PROVE  Clean'
<1>1. CASE Refuse
  BY <1>1, AbandonsClean
<1>2. CASE ~Refuse
  <2>1. /\ pc = "locate" /\ op.type = "Remove" /\ pc' \in {"shrink", "reappend"}
        /\ IsDirectory(file)
        /\ UNCHANGED <<lookup_table, cont, op, file, rank, smashed>>
    BY <1>2 DEF fsop_Remove, Located
  <2>2. PICK f \in Block : f = file
    BY SizeIsNat
  <2>3. IsHead(f) /\ owner[f] = f /\ rank[f] = 0 /\ f # 0
    BY <2>1, <2>2, HeadFacts DEF Clean, FileAtHand
  <2>4. \A b \in Block :
          /\ owner'[b] = IF owner[b] = f /\ rank[b] > 0 THEN 0 ELSE owner[b]
          /\ inode'[b].flags = inode[b].flags
          /\ inode'[b].last_inode = inode[b].last_inode
          /\ inode'[b].size = IF b = f THEN 0 ELSE inode[b].size
          /\ items'[b] = IF b = f THEN <<>> ELSE items[b]
    BY <1>2, <2>2, SizeIsNat DEF fsop_Remove, HeadInfo
  <2>5. \A b \in Block : rank[b] \in Nat
    BY DEF TypeOK, HistoryTypeOK
  <2>6. \A h \in Block : IsHead(h) <=> IsHead(h)'
    <3>1. ASSUME NEW h \in Block, IsHead(h) PROVE IsHead(h)'
      BY <2>4, <3>1, HeadFacts DEF Clean, IsHead
    <3>2. ASSUME NEW h \in Block, IsHead(h)' PROVE IsHead(h)
      BY <2>4, <3>2 DEF IsHead
    <3> QED BY <3>1, <3>2
  <2>7. \A h \in Block \ {f} : BlocksOf(h)' = BlocksOf(h) /\ LastOf(h)' = LastOf(h)
    BY <2>1, <2>2, <2>4 DEF BlocksOf, LastOf, Extending, get_blocks_required
  <2>8. BlocksOf(f)' = 1
    BY <2>1, <2>4, ImageAssumption DEF BlocksOf, Extending, get_blocks_required
  <2>9. Marked'
    BY <2>1, <2>4 DEF Clean, Consistent, Marked, InChain
  <2>10. HeadsOK'
    <3>1. ASSUME NEW b \in Block, InChain(b)'
          PROVE  /\ owner'[b] \in Block /\ IsHead(owner[b])' /\ rank'[owner'[b]] = 0
                 /\ rank'[b] < BlocksOf(owner[b])'
      <4>1. InChain(b) /\ owner'[b] = owner[b] /\ (owner[b] = f => rank[b] = 0)
        BY <2>4, <2>5, <3>1 DEF InChain
      <4>2. PICK h \in Block : h = owner[b]
        BY <4>1 DEF Clean, Consistent, HeadsOK
      <4>3. IsHead(h) /\ IsHead(h)' /\ rank[h] = 0 /\ rank[b] < BlocksOf(h)
        BY <2>6, <4>1, <4>2 DEF Clean, Consistent, HeadsOK
      <4>4. rank[b] < BlocksOf(h)'
        BY <2>7, <2>8, <4>1, <4>2, <4>3
      <4>5. BlocksOf(owner[b])' = BlocksOf(h)'
        BY <4>1, <4>2 DEF BlocksOf, Extending
      <4> QED BY <2>1, <4>1, <4>2, <4>3, <4>4, <4>5 DEF IsHead
    <3> QED BY <3>1 DEF HeadsOK
  <2>11. ChainsOK'
    <3>1. ASSUME NEW b \in Block, InChain(b)', rank'[b] + 1 < BlocksOf(owner[b])'
          PROVE  /\ cont'[b] \in Block
                 /\ owner'[cont'[b]] = owner'[b] /\ rank'[cont'[b]] = rank'[b] + 1
      <4>1. InChain(b) /\ owner'[b] = owner[b] /\ (owner[b] = f => rank[b] = 0)
        BY <2>4, <2>5, <3>1 DEF InChain
      <4>2. PICK h \in Block : h = owner[b]
        BY <4>1 DEF Clean, Consistent, HeadsOK
      <4>3. rank[b] + 1 < BlocksOf(h)'
        BY <2>1, <3>1, <4>1, <4>2 DEF BlocksOf, Extending
      <4>4. h # f
        BY <2>5, <2>8, <4>1, <4>2, <4>3
      <4>5. rank[b] + 1 < BlocksOf(h)
        BY <2>7, <4>3, <4>4
      <4>6. cont[b] \in Block /\ owner[cont[b]] = h /\ rank[cont[b]] = rank[b] + 1
        BY <4>1, <4>2, <4>5 DEF Clean, Consistent, ChainsOK
      <4> QED BY <2>1, <2>4, <4>1, <4>2, <4>4, <4>6
    <3> QED BY <3>1 DEF ChainsOK
  <2>12. NoOverlap'
    BY <2>1, <2>4 DEF Clean, Consistent, NoOverlap, InChain
  <2>13. LastsOK'
    <3>1. ASSUME NEW h \in Block, IsHead(h)'
          PROVE  /\ LastOf(h)' \in Block /\ owner'[LastOf(h)'] = h
                 /\ rank'[LastOf(h)'] + 1 = BlocksOf(h)'
      <4>1. IsHead(h) /\ h # 0
        BY <2>6, <3>1 DEF IsHead
      <4>2. LastOf(h) \in Block /\ owner[LastOf(h)] = h /\ rank[LastOf(h)] + 1 = BlocksOf(h)
        BY <4>1 DEF Clean, Consistent, LastsOK
      <4>3. CASE h # f
        BY <2>1, <2>4, <2>7, <4>2, <4>3
      <4>4. CASE h = f /\ pc' = "shrink"
        <5>1. LastOf(f)' = f
          BY <2>1, <2>2, <4>4 DEF LastOf, Extending
        <5> QED BY <2>1, <2>3, <2>4, <2>8, <4>4, <5>1
      <4>5. CASE h = f /\ pc' = "reappend"
        <5>1. ~(get_blocks_required(inode[f].size) > 1)
          BY <1>2, <2>2, <4>5 DEF fsop_Remove
        <5>2. BlocksOf(f) = 1
          BY <2>1, <2>2, <2>3, <5>1, HeadFacts DEF BlocksOf, Extending, Clean
        <5>3. rank[LastOf(f)] = 0
          BY <2>5, <4>2, <4>5, <5>2
        <5>4. LastOf(f)' = LastOf(f)
          BY <2>1, <2>4, <4>5 DEF LastOf, Extending
        <5> QED BY <2>1, <2>3, <2>4, <2>8, <4>2, <4>5, <5>3, <5>4
      <4> QED BY <2>1, <4>3, <4>4, <4>5
    <3> QED BY <3>1 DEF LastsOK
  <2>14. DirectoriesOK'
    <3>1. IsHead(root_inode)' /\ IsDirectory(root_inode)'
      BY <2>4, <2>6, RootIsBlock DEF Clean, Consistent, DirectoriesOK, IsDirectory
    <3>2. ASSUME NEW d \in Block, IsHead(d)'
          PROVE  /\ \A i \in DOMAIN items'[d] : items'[d][i].inode \in Block
                                                  /\ IsHead(items[d][i].inode)'
                 /\ IsDirectory(d)' => inode'[d].size
                                         = Len(items'[d]) + (IF Growing(d)' THEN 1 ELSE 0)
      <4>1. ~Growing(d)' /\ ~Growing(d) /\ IsHead(d)
        BY <2>1, <2>6, <3>2 DEF Growing
      <4>2. CASE d = f
        BY <2>4, <4>1, <4>2
      <4>3. CASE d # f
        <5>1. items'[d] = items[d] /\ inode'[d].size = inode[d].size
              /\ (IsDirectory(d)' <=> IsDirectory(d))
          BY <2>4, <4>3 DEF IsDirectory
        <5>2. \A i \in DOMAIN items[d] : items[d][i].inode \in Block
                                           /\ IsHead(items[d][i].inode)
          BY <4>1 DEF Clean, Consistent, DirectoriesOK
        <5>3. \A i \in DOMAIN items'[d] : items'[d][i].inode \in Block
                                            /\ IsHead(items[d][i].inode)'
          <6>1. ASSUME NEW i \in DOMAIN items[d] PROVE IsHead(items[d][i].inode)'
            <7>1. PICK h \in Block : h = items[d][i].inode
              BY <5>2, <6>1
            <7>2. IsHead(h)'
              BY <2>6, <5>2, <6>1, <7>1
            <7> QED BY <5>1, <7>1, <7>2 DEF IsHead
          <6> QED BY <5>1, <5>2, <6>1
        <5>4. IsDirectory(d) => inode[d].size
                                  = Len(items[d]) + (IF Growing(d) THEN 1 ELSE 0)
          BY <4>1 DEF Clean, Consistent, DirectoriesOK
        <5> QED BY <4>1, <5>1, <5>3, <5>4
      <4> QED BY <4>2, <4>3
    <3> QED BY <3>1, <3>2 DEF DirectoriesOK
  <2>15. FileAtHand'
    <3>1. \A i \in DOMAIN todo' : IsHead(todo[i].inode)'
      <4>1. PICK k \in Hits(file, BaseName) : todo' = RemoveAt(items[file], k)
        BY <1>2 DEF fsop_Remove
      <4>2. items[file] \in Seq(Item) /\ k \in 1 .. Len(items[file])
        BY <4>1, HitsInDomain, ItemsOfDirectory, SizeIsNat
      <4>3. \A i \in DOMAIN todo' : \E j \in DOMAIN items[file] : todo'[i] = items[file][j]
        BY <4>1, <4>2, RemoveAtElements
      <4>4. ASSUME NEW i \in DOMAIN todo' PROVE IsHead(todo[i].inode)'
        <5>1. PICK j \in DOMAIN items[file] : todo'[i] = items[file][j]
          BY <4>3
        <5>2. PICK h \in Block : h = items[file][j].inode /\ IsHead(h)
          BY <2>1, ItemsHeads
        <5> QED BY <2>6, <5>1, <5>2 DEF IsHead
      <4> QED BY <4>4
    <3>2. IsHead(file)'
      BY <2>1, <2>2, <2>3, <2>6 DEF IsHead
    <3>3. inode'[file'].size = 0
      BY <2>1, <2>2, <2>4
    <3> QED BY <2>1, <3>1, <3>2, <3>3 DEF FileAtHand, Copying
  <2>16. WriteAtHand' /\ WalkAtHand'
    BY <2>1 DEF WriteAtHand, WalkAtHand, Copying
  <2> QED BY <2>1, <2>9, <2>10, <2>11, <2>12, <2>13, <2>14, <2>15, <2>16
          DEF Clean, Consistent
<1> QED BY <1>1, <1>2

(* The loop of purge_blocks stays off the blocks of files.                 *)
LEMMA PurgeBlockClean ==
  ASSUME TypeOK, Clean, PurgeBlock, ~torn'
  PROVE  Clean'
<1>1. CASE Internal
  BY <1>1, AbandonsClean
<1>2. CASE ~Internal
  <2>1. /\ pc \in {"shrink", "purge_blocks"} /\ block_index \in Block
        /\ lookup_table' = lookup_table \ {block_index}
        /\ UNCHANGED <<cont, inode, items, pc, op, file, todo, owner, rank, smashed>>
    BY <1>2, ImageAssumption DEF PurgeBlock, TypeOK, HandlerTypeOK, Block
  <2>2. owner[block_index] = 0 /\ block_index \notin Metadata
    BY <1>2 DEF PurgeBlock
  <2>3. \A h \in Block : /\ BlocksOf(h)' = BlocksOf(h) /\ LastOf(h)' = LastOf(h)
                         /\ Growing(h)' <=> Growing(h)
    BY <2>1 DEF BlocksOf, LastOf, Extending, Growing, get_blocks_required
  <2>4. Files'
    BY <2>1, <2>3, FilesFrame DEF Clean, Consistent, Files
  <2>5. Marked'
    BY <2>1, <2>2 DEF Clean, Consistent, Marked, InChain
  <2>6. DirectoriesOK'
    <3>1. IsDirectory(file) => inode'[file].size
                                 = Len(items'[file]) + (IF Growing(file)' THEN 1 ELSE 0)
      <4>1. (Growing(file)' <=> Growing(file)) /\ IsHead(file) /\ file \in Block
        BY <2>1, SizeIsNat DEF Growing, Clean, FileAtHand
      <4>2. IsDirectory(file) => inode[file].size
                                   = Len(items[file]) + (IF Growing(file) THEN 1 ELSE 0)
        BY <4>1 DEF Clean, Consistent, DirectoriesOK
      <4> QED BY <2>1, <4>1, <4>2
    <3>2. pc # "idle"
      BY <2>1
    <3> QED BY <2>1, <3>1, <3>2, ItemsHeads, DirectoryFrame DEF Clean
  <2>7. (FileAtHand /\ WriteAtHand /\ WalkAtHand)'
    BY <2>1 DEF Clean, FileAtHand, WriteAtHand, WalkAtHand, Copying, IsHead
  <2> QED BY <2>1, <2>4, <2>5, <2>6, <2>7 DEF Clean, Consistent, Files
<1> QED BY <1>1, <1>2

LEMMA ShrinkDoneClean ==
  ASSUME TypeOK, Clean, ShrinkDone
  PROVE  Clean'
<1>1. /\ pc = "shrink" /\ pc' = "reappend" /\ op.type = "Remove" /\ file \in Block
      /\ UNCHANGED <<lookup_table, cont, items, op, file, todo, ghosts>>
  BY DEF ShrinkDone, Clean, FileAtHand, TypeOK, HandlerTypeOK
<1>2. \A b \in Block : /\ inode'[b].flags = inode[b].flags
                       /\ inode'[b].size = inode[b].size
                       /\ inode'[b].last_inode = IF b = file THEN file
                                                 ELSE inode[b].last_inode
  BY <1>1, SizeIsNat DEF ShrinkDone, HeadInfo
<1>3. \A h \in Block : BlocksOf(h)' = BlocksOf(h) /\ LastOf(h)' = LastOf(h)
  BY <1>1, <1>2 DEF BlocksOf, LastOf, Extending, get_blocks_required
<1>4. Files'
  BY <1>1, <1>3, FilesFrame DEF Clean, Consistent, Files
<1>5. Marked'
  BY <1>1 DEF Clean, Consistent, Marked, InChain
<1>6. DirectoriesOK'
  <2>1. IsDirectory(file) => inode'[file].size
                               = Len(items'[file]) + (IF Growing(file)' THEN 1 ELSE 0)
    <3>1. ~Growing(file) /\ ~Growing(file)' /\ IsHead(file)
      BY <1>1 DEF Growing, Clean, FileAtHand
    <3>2. IsDirectory(file) => inode[file].size
                                 = Len(items[file]) + (IF Growing(file) THEN 1 ELSE 0)
      BY <1>1, <3>1 DEF Clean, Consistent, DirectoriesOK
    <3> QED BY <1>1, <1>2, <3>1, <3>2
  <2> QED BY <1>1, <1>2, <2>1, ItemsHeads, DirectoryFrame DEF Clean
<1>7. (FileAtHand /\ WriteAtHand /\ WalkAtHand)'
  BY <1>1 DEF Clean, FileAtHand, WriteAtHand, WalkAtHand, Copying, IsHead
<1> QED BY <1>1, <1>4, <1>5, <1>6, <1>7 DEF Clean, Consistent, Files

(* The steps of a handler between its stores.                              *)
LEMMA BetweenClean ==
  ASSUME TypeOK, Task, Clean, ~torn',
         Reappend \/ purge_file \/ PurgeFileDone \/ RemoveDone \/ Answer
  PROVE  Clean'
<1>1. CASE Segv \/ Internal
  BY <1>1, AbandonsClean
<1>2. CASE Finish /\ RemoveDone
  BY <1>2, FinishClean DEF RemoveDone, Growing
<1>3. CASE ~Segv /\ ~Internal /\ (Reappend \/ purge_file \/ PurgeFileDone)
  <2>1. /\ pc \in {"reappend", "purge", "purge_blocks"}
        /\ pc' \in {"append", "purge", "purge_blocks"}
        /\ UNCHANGED <<image, ghosts, op, file, todo>>
    BY <1>3 DEF Reappend, purge_file, PurgeFileDone
  <2>2. pc' = "append" => op.type = "Remove" /\ todo # <<>>
    BY <1>3 DEF Reappend, purge_file, PurgeFileDone, Task
  <2>3. \A d \in Block : Growing(d)' <=> Growing(d)
    BY <2>1 DEF Growing
  <2>4. Consistent'
    BY <2>1, <2>3, QuietFrame DEF Clean
  <2>5. (FileAtHand /\ WriteAtHand /\ WalkAtHand)'
    BY <2>1, <2>2 DEF Clean, FileAtHand, WriteAtHand, WalkAtHand, Copying, IsHead
  <2> QED BY <2>1, <2>4, <2>5 DEF Clean
<1>4. CASE Answer
  <2>1. /\ pc = "answer" /\ pc' = "idle" /\ todo' = <<>>
        /\ UNCHANGED <<image, ghosts, op>>
    BY <1>4 DEF Answer, Forget
  <2>2. \A d \in Block : Growing(d)' <=> Growing(d)
    BY <2>1 DEF Growing
  <2>3. Consistent'
    BY <2>1, <2>2, QuietFrame DEF Clean
  <2>4. (FileAtHand /\ WriteAtHand /\ WalkAtHand)'
    BY <2>1 DEF FileAtHand, WriteAtHand, WalkAtHand, Copying
  <2> QED BY <2>1, <2>3, <2>4 DEF Clean
<1> QED BY <1>1, <1>2, <1>3, <1>4 DEF RemoveDone
-----------------------------------------------------------------------------
LEMMA InitClean == Init => Clean
<1> SUFFICES ASSUME Init PROVE Clean
  OBVIOUS
<1>1. /\ pc = "idle" /\ todo = <<>> /\ smashed = FALSE
      /\ \A b \in Block : /\ owner[b] = IF b = root_inode THEN root_inode ELSE 0
                          /\ rank[b] = 0 /\ items[b] = <<>> /\ inode[b].size = 0
      /\ inode[root_inode].last_inode = root_inode /\ IsDirectory(root_inode)
  BY RootIsBlock DEF Init, IsDirectory
<1>2. root_inode # 0 /\ root_inode \in Block /\ root_inode \notin Metadata
  BY ImageAssumption DEF Block, Metadata
<1>3. \A b \in Block : IsHead(b) <=> b = root_inode
  BY <1>1, <1>2 DEF IsHead
<1>4. \A b \in Block : BlocksOf(b) = 1 /\ ~Growing(b)
  BY <1>1, ImageAssumption DEF BlocksOf, Extending, Growing, get_blocks_required
<1>5. LastOf(root_inode) = root_inode
  BY <1>1 DEF LastOf, Extending
<1>6. Marked
  BY <1>1, <1>2, ImageAssumption DEF Init, Marked, InChain, Metadata
<1>7. HeadsOK
  BY <1>1, <1>2, <1>3, <1>4 DEF HeadsOK, InChain
<1>8. ChainsOK /\ NoOverlap
  BY <1>1, <1>2, <1>4 DEF ChainsOK, NoOverlap, InChain
<1>9. LastsOK
  BY <1>1, <1>2, <1>3, <1>4, <1>5 DEF LastsOK
<1>10. DirectoriesOK
  <2>1. IsHead(root_inode) /\ IsDirectory(root_inode)
    BY <1>1, <1>2, <1>3
  <2>2. ASSUME NEW d \in Block, IsHead(d)
        PROVE  /\ \A i \in DOMAIN items[d] : items[d][i].inode \in Block
                                              /\ IsHead(items[d][i].inode)
               /\ inode[d].size = Len(items[d]) + (IF Growing(d) THEN 1 ELSE 0)
    <3>1. items[d] = <<>> /\ inode[d].size = 0 /\ ~Growing(d)
      BY <1>1, <1>4
    <3> QED BY <3>1
  <2> QED BY <2>1, <2>2 DEF DirectoriesOK
<1>11. FileAtHand /\ WriteAtHand /\ WalkAtHand
  BY <1>1 DEF FileAtHand, WriteAtHand, WalkAtHand, Copying
<1> QED BY <1>1, <1>6, <1>7, <1>8, <1>9, <1>10, <1>11 DEF Clean, Consistent

LEMMA CleanStep ==
  TypeOK /\ Task /\ Clean /\ MarkAtHand /\ [Next]_vars /\ ~torn' => Clean'
<1> SUFFICES ASSUME TypeOK, Task, Clean, MarkAtHand, [Next]_vars, ~torn' PROVE Clean'
  OBVIOUS
<1>1. CASE UNCHANGED vars
  <2>1. UNCHANGED <<image, ghosts, pc, op, file, offset, length, block_index, ord, goal,
                    found, made, todo>>
    BY <1>1 DEF vars
  <2>2. \A h \in Block : /\ BlocksOf(h)' = BlocksOf(h) /\ LastOf(h)' = LastOf(h)
                         /\ Growing(h)' <=> Growing(h)
    BY <2>1 DEF BlocksOf, LastOf, Extending, Growing, get_blocks_required
  <2>3. Files' /\ Marked'
    BY <2>1, <2>2, FilesFrame DEF Clean, Consistent, Files, Marked, InChain
  <2>4. DirectoriesOK'
    BY <2>1 DEF Clean, Consistent, DirectoriesOK, IsHead, IsDirectory, Growing
  <2>5. FileAtHand' /\ WriteAtHand'
    BY <2>1 DEF Clean, FileAtHand, WriteAtHand, Copying, IsHead, IsFile, IsDirectory
  <2>6. WalkAtHand'
    BY <2>1 DEF Clean, WalkAtHand, OrdinalOf, BlocksOf, Extending, get_blocks_required
  <2> QED BY <2>1, <2>3, <2>4, <2>5, <2>6 DEF Clean, Consistent, Files
<1>2. CASE \E r \in Requests : Serve(r)
  BY <1>2, ServeClean
<1>3. CASE Kill \/ Abort
  BY <1>3, AbandonsClean
<1>4. CASE Step
  <2>1. CASE ExtendFind
    BY <2>1, TakeFreeClean DEF ExtendFind
  <2> QED BY <1>4, <2>1, LocateClean, ReadersClean, CreateClean, MarkNewClean,
             InitNewFileClean, WriteClean, ExtendLinkClean, ExtendDoneClean, HopClean, LastVisitClean,
             RemoveClean, PurgeBlockClean, ShrinkDoneClean, BetweenClean DEF Step
<1> QED BY <1>1, <1>2, <1>3, <1>4 DEF Next, Work

(* The block marked for a new file.                                        *)
LEMMA MarkStays ==
  ASSUME MarkAtHand, UNCHANGED <<lookup_table, owner, stray>>,
         pc' # "header" \/ UNCHANGED <<pc, found>>
  PROVE  MarkAtHand'
BY DEF MarkAtHand, InChain

LEMMA AbandonMark ==
  ASSUME MarkAtHand, (\E why : Abandon(why)) \/ Refuse \/ Internal \/ Segv \/ Kill \/ Abort
  PROVE  MarkAtHand'
<1>1. PICK why : Abandon(why)
  BY DEF Refuse, Internal, Segv, Kill, Abort
<1>2. UNCHANGED <<lookup_table, owner, stray>> /\ pc' = "idle"
  BY <1>1 DEF Abandon
<1> QED BY <1>2, MarkStays

LEMMA MarkStep ==
  ASSUME TypeOK, Clean, MarkAtHand, [Next]_vars
  PROVE  MarkAtHand'
<1>1. ASSUME UNCHANGED <<lookup_table, owner, stray>>,
             pc' # "header" \/ UNCHANGED <<pc, found>>
      PROVE  MarkAtHand'
  BY <1>1, MarkStays
<1>2. ASSUME (\E why : Abandon(why)) \/ Refuse \/ Internal \/ Segv \/ Kill \/ Abort
      PROVE  MarkAtHand'
  BY <1>2, AbandonMark
<1>3. owner \in [Block -> Nat] /\ found \in Block
  BY DEF TypeOK, HistoryTypeOK, HandlerTypeOK
<1>4. CASE mark_new_block
  <2>1. /\ lookup_table' = lookup_table \cup {found} /\ stray' = stray \cup {found}
        /\ UNCHANGED <<owner, found>> /\ pc = "init"
    BY <1>4 DEF mark_new_block
  <2>2. found \notin Metadata /\ ~InChain(found)
    BY <1>3, <2>1 DEF Clean, FileAtHand, Consistent, Marked
  <2> QED BY <2>1, <2>2 DEF MarkAtHand, InChain
<1>5. CASE init_new_file
  <2>1. /\ pc' = "append" /\ stray' = stray \ {found} /\ lookup_table' = lookup_table
        /\ \A b \in Block \ {found} : owner'[b] = owner[b]
    BY <1>3, <1>5 DEF init_new_file
  <2>2. stray \subseteq Block
    BY DEF TypeOK, HistoryTypeOK
  <2> QED BY <2>1, <2>2 DEF MarkAtHand, InChain
<1>6. CASE ExtendLink
  <2>1. /\ pc = "link" /\ pc' = "extend" /\ stray' = stray
        /\ lookup_table' = lookup_table \cup {found}
        /\ \A b \in Block \ {found} : owner'[b] = owner[b]
    BY <1>3, <1>6 DEF ExtendLink
  <2>2. stray \subseteq Block /\ found \notin stray
    BY <2>1 DEF TypeOK, HistoryTypeOK, MarkAtHand, Clean, FileAtHand
  <2> QED BY <2>1, <2>2 DEF MarkAtHand, InChain
<1>7. CASE fsop_Remove /\ ~Refuse
  <2>1. /\ pc' \in {"shrink", "reappend"} /\ UNCHANGED <<stray, lookup_table>>
        /\ \A b \in Block : owner[b] = 0 => owner'[b] = 0
    BY <1>7 DEF fsop_Remove
  <2>2. stray \subseteq Block
    BY DEF TypeOK, HistoryTypeOK
  <2> QED BY <2>1, <2>2 DEF MarkAtHand, InChain
<1>8. CASE PurgeBlock /\ ~Internal
  <2>1. /\ pc' = pc /\ pc # "header" /\ UNCHANGED owner
        /\ lookup_table' = lookup_table \ {block_index} /\ stray' = stray \ {block_index}
    BY <1>8 DEF PurgeBlock
  <2> QED BY <2>1 DEF MarkAtHand, InChain
<1>9. CASE UNCHANGED vars
  BY <1>1, <1>9 DEF vars
<1>10. CASE \E r \in Requests : Serve(r)
  BY <1>1, <1>10 DEF Serve
<1>11. CASE locate_path \/ fsop_Read \/ fsop_ReadDir \/ fsop_Stat \/ fsop_Write
  BY <1>1, <1>2, <1>11 DEF locate_path, fsop_Read, fsop_ReadDir, fsop_Stat, fsop_Write,
     Located, StartWalk, Finish
<1>12. CASE fsop_Create \/ ExtendFind
  BY <1>1, <1>2, <1>12 DEF fsop_Create, ExtendFind, TakeFree
<1>13. CASE append_directory \/ write_file_unchecked \/ ExtendDone
  BY <1>1, <1>2, <1>13 DEF append_directory, write_file_unchecked, ExtendDone, StartWalk,
     Finish
<1>14. CASE Hop \/ LastVisit
  BY <1>1, <1>2, <1>14 DEF Hop, LastVisit, Finish
<1>15. CASE ShrinkDone \/ Reappend \/ purge_file \/ PurgeFileDone \/ RemoveDone \/ Answer
  BY <1>1, <1>2, <1>15 DEF ShrinkDone, Reappend, purge_file, PurgeFileDone, RemoveDone,
     Answer, Finish
<1> QED BY <1>2, <1>4, <1>5, <1>6, <1>7, <1>8, <1>9, <1>10, <1>11, <1>12, <1>13, <1>14,
        <1>15 DEF Next, Work, Step, fsop_Remove, PurgeBlock

LEMMA SpecIInv == Spec => []IInv
<1>1. Init => IInv
  BY InitType, InitClean DEF IInv, Init, Task, MarkAtHand
<1>2. IInv /\ [Next]_vars => IInv'
  BY TypeStep, TaskStep, CleanStep, MarkStep, TornStays DEF IInv
<1> QED BY <1>1, <1>2, PTL DEF Spec

(* Wherever a handler is refused, faults or is killed, and whatever the    *)
(* requests: unless it left a change of size half done, or rm freed a      *)
(* block in use, every chain of blocks, every last_inode and every         *)
(* directory of the image is as truncate_file and append_directory need    *)
(* them.                                                                   *)
THEOREM ImageStaysClean == Spec => []CleanImage
<1>1. IInv => CleanImage
  BY DEF IInv, Clean, CleanImage
<1> QED BY <1>1, SpecIInv, PTL

(* And the locals of the handler at work agree with it: the block it marks *)
(* is free, the block it copies to is that block of its file.              *)
THEOREM HandlerStaysInStep == Spec => []HandlerAgrees
<1>1. IInv => HandlerAgrees
  BY DEF IInv, Clean, HandlerAgrees
<1> QED BY <1>1, SpecIInv, PTL

(* Hence write_file never copies over the superblock or the lookup table   *)
(* of a clean image.                                                       *)
THEOREM MetadataStaysSafe == Spec => []MetadataSafe
<1>1. IInv => MetadataSafe
  BY DEF IInv, Clean, MetadataSafe
<1> QED BY <1>1, SpecIInv, PTL
-----------------------------------------------------------------------------
(* Blocks that are marked, that no file has and that were not marked for a *)
(* new one: those a directory is being cut down by, from the one at hand   *)
(* on, in the order of their chain.                                        *)
Orphans == {b \in lookup_table : b \notin Metadata /\ ~InChain(b) /\ b \notin stray}

NobodysBlocks ==
  /\ pc # "shrink" => Orphans = {}
  /\ Orphans # {} =>
       /\ block_index \in Orphans
       /\ \A b \in Orphans : rank[b] >= rank[block_index]
       /\ \A a, b \in Orphans : rank[a] = rank[b] => a = b
       /\ \A a, b \in Orphans : rank[a] < rank[b] => cont[a] \in Orphans /\ rank[cont[a]] = rank[a] + 1

(* A step that leaves the blocks alone, outside the loop of purge_blocks.  *)
LEMMA OrphansStay ==
  ASSUME NobodysBlocks, UNCHANGED <<lookup_table, owner, stray>>, pc # "shrink"
  PROVE  NobodysBlocks'
<1>1. Orphans = {}
  BY DEF NobodysBlocks
<1>2. Orphans' = Orphans
  BY DEF Orphans, InChain
<1> QED BY <1>1, <1>2 DEF NobodysBlocks

(* A block that is marked for a file.                                      *)
LEMMA MarkedForAFile ==
  ASSUME NobodysBlocks, pc # "shrink", NEW b \in Block, NEW h \in Nat \ {0}, owner \in [Block -> Nat],
         lookup_table' = lookup_table \cup {b}, owner' = [owner EXCEPT ![b] = h],
         lookup_table \subseteq Block, stray \subseteq stray' \cup {b}
  PROVE  NobodysBlocks'
<1>1. Orphans = {}
  BY DEF NobodysBlocks
<1>2. Orphans' = {}
  <2>1. ASSUME NEW a \in Orphans' PROVE FALSE
    <3>1. a \in lookup_table' /\ a \notin Metadata /\ owner'[a] = 0 /\ a \in Block
          /\ a \notin stray'
      BY <2>1 DEF Orphans, InChain
    <3>2. a # b /\ owner[a] = 0 /\ a \notin stray
      BY <3>1
    <3> QED BY <1>1, <3>1, <3>2 DEF Orphans, InChain
  <2> QED BY <2>1
<1> QED BY <1>2 DEF NobodysBlocks

LEMMA RemoveOrphans ==
  ASSUME TypeOK, Clean, MarkAtHand, NobodysBlocks, fsop_Remove, ~Refuse
  PROVE  NobodysBlocks'
<1>1. /\ pc = "locate" /\ UNCHANGED <<lookup_table, cont, rank, stray>>
      /\ owner' = [b \in Block |-> IF owner[b] = file /\ rank[b] > 0 THEN 0 ELSE owner[b]]
      /\ IF get_blocks_required(inode[file].size) > 1
           THEN pc' = "shrink" /\ block_index' = cont[file]
           ELSE pc' = "reappend" /\ UNCHANGED block_index
  BY DEF fsop_Remove, Located
<1>2. PICK f \in Block : f = file
  BY SizeIsNat
<1>3. IsHead(f) /\ owner[f] = f /\ rank[f] = 0 /\ f # 0
  BY <1>1, <1>2, HeadFacts DEF Clean, FileAtHand
<1>4. /\ \A b \in Block : rank[b] \in Nat
      /\ lookup_table \subseteq Block
  BY DEF TypeOK, HistoryTypeOK, ImageTypeOK
<1>5. BlocksOf(f) = get_blocks_required(inode[f].size) /\ BlocksOf(f) \in Nat \ {0}
  BY <1>1, <1>2, <1>3, HeadFacts DEF BlocksOf, Extending, Clean
<1>6. Orphans = {}
  BY <1>1 DEF NobodysBlocks
<1>7. \A b \in Block : b \in Orphans' <=> owner[b] = f /\ rank[b] > 0
  <2>1. ASSUME NEW b \in Block, b \in Orphans' PROVE owner[b] = f /\ rank[b] > 0
    BY <1>1, <1>2, <1>6, <2>1 DEF Orphans, InChain
  <2>2. ASSUME NEW b \in Block, owner[b] = f, rank[b] > 0 PROVE b \in Orphans'
    <3>1. b \in lookup_table /\ b \notin Metadata /\ b \notin stray
      BY <1>3, <2>2 DEF Clean, Consistent, Marked, MarkAtHand, InChain
    <3> QED BY <1>1, <1>2, <2>2, <3>1 DEF Orphans, InChain
  <2> QED BY <2>1, <2>2
<1>8. \A b \in Orphans' : b \in Block
  BY <1>1, <1>4 DEF Orphans
<1>9. \A b \in Orphans' : InChain(b) /\ rank[b] < BlocksOf(f)
  BY <1>3, <1>7, <1>8 DEF Clean, Consistent, HeadsOK, InChain
<1>10. CASE get_blocks_required(inode[file].size) > 1
  <2>1. cont[f] \in Block /\ owner[cont[f]] = f /\ rank[cont[f]] = 1
    BY <1>2, <1>3, <1>5, <1>10 DEF Clean, Consistent, ChainsOK, InChain
  <2>2. block_index' \in Orphans' /\ rank'[block_index'] = 1
    BY <1>1, <1>2, <1>7, <1>10, <2>1
  <2>3. \A b \in Orphans' : rank'[b] >= rank'[block_index']
    BY <1>1, <1>4, <1>7, <1>8, <2>2
  <2>4. ASSUME NEW a \in Orphans', NEW b \in Orphans', rank'[a] = rank'[b] PROVE a = b
    BY <1>1, <1>7, <1>8, <1>9, <2>4 DEF Clean, Consistent, NoOverlap
  <2>5. ASSUME NEW a \in Orphans', NEW b \in Orphans', rank'[a] < rank'[b]
        PROVE  cont'[a] \in Orphans' /\ rank'[cont'[a]] = rank'[a] + 1
    <3>1. a \in Block /\ b \in Block /\ InChain(a) /\ owner[a] = f /\ rank[a] < rank[b] /\ rank[b] < BlocksOf(f)
      BY <1>1, <1>7, <1>8, <1>9, <2>5
    <3>2. rank[a] + 1 < BlocksOf(owner[a])
      BY <1>4, <1>5, <3>1
    <3>3. cont[a] \in Block /\ owner[cont[a]] = f /\ rank[cont[a]] = rank[a] + 1
      BY <3>1, <3>2 DEF Clean, Consistent, ChainsOK
    <3> QED BY <1>1, <1>4, <1>7, <3>1, <3>3
  <2> QED BY <1>1, <1>10, <2>2, <2>3, <2>4, <2>5 DEF NobodysBlocks
<1>11. CASE ~(get_blocks_required(inode[file].size) > 1)
  <2>1. BlocksOf(f) = 1
    BY <1>2, <1>5, <1>11
  <2>2. Orphans' = {}
    BY <1>4, <1>7, <1>8, <1>9, <2>1
  <2> QED BY <2>2 DEF NobodysBlocks
<1> QED BY <1>10, <1>11

LEMMA PurgeOrphans ==
  ASSUME TypeOK, Clean, NobodysBlocks, PurgeBlock, ~Internal, ~torn'
  PROVE  NobodysBlocks'
<1>1. /\ lookup_table' = lookup_table \ {block_index} /\ block_index' = cont[block_index]
      /\ stray' = stray \ {block_index} /\ UNCHANGED <<cont, pc, owner, rank>>
  BY DEF PurgeBlock
<1>2. Orphans' = Orphans \ {block_index}
  BY <1>1 DEF Orphans, InChain
<1>3. \A b \in Orphans : rank[b] \in Nat
  BY DEF Orphans, TypeOK, ImageTypeOK, HistoryTypeOK
<1>4. ASSUME Orphans' # {}
      PROVE  /\ block_index' \in Orphans'
             /\ \A b \in Orphans' : rank'[b] >= rank'[block_index']
             /\ \A a, b \in Orphans' : rank'[a] = rank'[b] => a = b
             /\ \A a, b \in Orphans' : rank'[a] < rank'[b] => cont'[a] \in Orphans' /\ rank'[cont'[a]] = rank'[a] + 1
  <2>1. PICK b \in Orphans : b # block_index
    BY <1>2, <1>4
  <2>2. /\ block_index \in Orphans
        /\ \A x \in Orphans : rank[x] >= rank[block_index]
        /\ \A x, y \in Orphans : rank[x] = rank[y] => x = y
        /\ \A x, y \in Orphans : rank[x] < rank[y] => cont[x] \in Orphans /\ rank[cont[x]] = rank[x] + 1
    BY <2>1 DEF NobodysBlocks
  <2>3. \A x \in Orphans' : rank[x] > rank[block_index]
    BY <1>2, <1>3, <2>2
  <2>4. cont[block_index] \in Orphans /\ rank[cont[block_index]] = rank[block_index] + 1
    BY <1>2, <2>1, <2>2, <2>3
  <2>5. block_index' \in Orphans'
    BY <1>1, <1>2, <1>3, <2>2, <2>4
  <2>6. \A x \in Orphans' : rank'[x] >= rank'[block_index']
    BY <1>1, <1>2, <1>3, <2>2, <2>3, <2>4
  <2>7. \A x, y \in Orphans' : rank'[x] < rank'[y] => cont'[x] \in Orphans' /\ rank'[cont'[x]] = rank'[x] + 1
    <3>1. ASSUME NEW x \in Orphans', NEW y \in Orphans', rank[x] < rank[y]
          PROVE  cont[x] \in Orphans' /\ rank[cont[x]] = rank[x] + 1
      <4>1. cont[x] \in Orphans /\ rank[cont[x]] = rank[x] + 1
        BY <1>2, <2>2, <3>1
      <4>2. cont[x] # block_index
        BY <1>2, <1>3, <2>2, <2>3, <4>1
      <4> QED BY <1>2, <4>1, <4>2
    <3> QED BY <1>1, <3>1
  <2> QED BY <1>1, <1>2, <2>2, <2>5, <2>6, <2>7
<1>5. pc' # "shrink" => Orphans' = {}
  BY <1>1, <1>2 DEF NobodysBlocks
<1> QED BY <1>4, <1>5 DEF NobodysBlocks

LEMMA ShrunkOrphans ==
  ASSUME TypeOK, Clean, NobodysBlocks, ShrinkDone
  PROVE  NobodysBlocks'
<1>1. block_index = 0 /\ UNCHANGED <<lookup_table, owner, stray>>
  BY DEF ShrinkDone
<1>2. 0 \notin Orphans
  BY ImageAssumption DEF Orphans, Metadata
<1>3. Orphans' = Orphans /\ Orphans = {}
  BY <1>1, <1>2 DEF NobodysBlocks, Orphans, InChain
<1> QED BY <1>3 DEF NobodysBlocks

LEMMA AbandonOrphans ==
  ASSUME NobodysBlocks, NEW why, Abandon(why), ~torn'
  PROVE  NobodysBlocks'
<1>1. pc # "shrink" /\ UNCHANGED <<lookup_table, owner, stray>>
  BY DEF Abandon, LeavesTorn
<1> QED BY <1>1, OrphansStay

LEMMA AbandonsOrphans ==
  ASSUME NobodysBlocks, Refuse \/ Internal \/ Segv \/ Kill \/ Abort, ~torn'
  PROVE  NobodysBlocks'
BY AbandonOrphans DEF Refuse, Internal, Segv, Kill, Abort

LEMMA OrphansStep ==
  ASSUME TypeOK, Clean, MarkAtHand, NobodysBlocks, [Next]_vars, ~torn'
  PROVE  NobodysBlocks'
<1>1. CASE UNCHANGED vars
  <2>1. Orphans' = Orphans /\ UNCHANGED <<pc, cont, rank, block_index>>
    BY <1>1 DEF vars, Orphans, InChain
  <2> QED BY <2>1 DEF NobodysBlocks
<1>2. CASE Refuse \/ Internal \/ Segv \/ Kill \/ Abort \/ \E why : Abandon(why)
  BY <1>2, AbandonsOrphans, AbandonOrphans
<1>3. CASE pc # "shrink" /\ UNCHANGED <<lookup_table, owner, stray>>
  BY <1>3, OrphansStay
<1>4a. CASE mark_new_block
  <2>1. /\ pc = "init" /\ pc' = "header" /\ lookup_table' = lookup_table \cup {found}
        /\ stray' = stray \cup {found} /\ UNCHANGED owner
    BY <1>4a DEF mark_new_block
  <2>2. Orphans = {}
    BY <2>1 DEF NobodysBlocks
  <2>3. Orphans' = {}
    BY <2>1, <2>2 DEF Orphans, InChain
  <2> QED BY <2>3 DEF NobodysBlocks
<1>4. CASE init_new_file
  <2>1. /\ pc = "header" /\ lookup_table' = lookup_table /\ owner' = [owner EXCEPT ![found] = found]
        /\ found \in lookup_table /\ found \in Block /\ owner \in [Block -> Nat]
        /\ found \notin Metadata /\ stray' = stray \ {found} /\ lookup_table \subseteq Block
    BY <1>4 DEF init_new_file, MarkAtHand, TypeOK, ImageTypeOK, HandlerTypeOK, HistoryTypeOK
  <2>2. found # 0 /\ found \in Nat
    <3>1. 0 \in Metadata
      BY ImageAssumption DEF Metadata
    <3> QED BY <2>1, <3>1, RootIsBlock
  <2> QED BY <2>1, <2>2, MarkedForAFile
<1>5. CASE ExtendLink
  <2>1. /\ pc = "link" /\ lookup_table' = lookup_table \cup {found} /\ owner' = [owner EXCEPT ![found] = file]
        /\ stray' = stray
        /\ found \in Block /\ owner \in [Block -> Nat] /\ IsHead(file) /\ file \in Block
        /\ lookup_table \subseteq Block
    BY <1>5 DEF ExtendLink, Clean, FileAtHand, TypeOK, ImageTypeOK, HandlerTypeOK, HistoryTypeOK
  <2>2. file # 0 /\ file \in Nat
    BY <2>1, RootIsBlock DEF IsHead
  <2> QED BY <2>1, <2>2, MarkedForAFile
<1>6. CASE fsop_Remove
  BY <1>2, <1>6, RemoveOrphans
<1>7. CASE PurgeBlock
  BY <1>2, <1>7, PurgeOrphans
<1>8. CASE ShrinkDone
  BY <1>8, ShrunkOrphans
<1>9. CASE \E r \in Requests : Serve(r)
  BY <1>3, <1>9 DEF Serve
<1>10. CASE locate_path \/ fsop_Read \/ fsop_ReadDir \/ fsop_Stat \/ fsop_Write
  BY <1>2, <1>3, <1>10 DEF locate_path, fsop_Read, fsop_ReadDir, fsop_Stat, fsop_Write, Located
<1>11. CASE fsop_Create \/ ExtendFind
  BY <1>2, <1>3, <1>11 DEF fsop_Create, ExtendFind, TakeFree, Located
<1>12. CASE append_directory \/ write_file_unchecked \/ ExtendDone
  BY <1>2, <1>3, <1>12 DEF append_directory, write_file_unchecked, ExtendDone
<1>13. CASE LastVisit \/ Reappend \/ Hop
  BY <1>2, <1>3, <1>13 DEF LastVisit, Reappend, Hop
<1>14. CASE purge_file \/ PurgeFileDone \/ RemoveDone \/ Answer
  BY <1>2, <1>3, <1>14 DEF purge_file, PurgeFileDone, RemoveDone, Answer
<1> QED BY <1>1, <1>2, <1>4, <1>4a, <1>5, <1>6, <1>7, <1>8, <1>9, <1>10, <1>11, <1>12, <1>13, <1>14
     DEF Next, Work, Step

LEMMA InitOrphans == Init => NobodysBlocks
<1> SUFFICES ASSUME Init PROVE Orphans = {}
  BY DEF NobodysBlocks
<1>1. /\ lookup_table = 0 .. root_inode
      /\ owner = [b \in Block |-> IF b = root_inode THEN root_inode ELSE 0]
  BY DEF Init
<1>2. \A b \in lookup_table : b \in Metadata \/ b = root_inode
  BY <1>1, ImageAssumption DEF Metadata
<1>3. owner[root_inode] # 0
  BY <1>1, RootIsBlock, ImageAssumption
<1> QED BY <1>2, <1>3 DEF Orphans, InChain
-----------------------------------------------------------------------------
(* The blocks that can be given to a file: none has them, or was to have   *)
(* them, marked or not.                                                    *)
Unused == {b \in Block : b \notin Metadata /\ ~InChain(b) /\ b \notin stray}

Rewriting == op.type = "Remove"
             /\ pc \in {"shrink", "reappend", "append", "write", "extend", "link", "walk"}

(* An rm that writes its directory again has the blocks it needs, among    *)
(* those the directory has and those it can be given.                      *)
Room == Rewriting => Cardinality(Unused) + BlocksOf(file)
                       >= get_blocks_required(Len(items[file]) + Len(todo))

LEMMA UnusedFinite == IsFiniteSet(Unused) /\ Cardinality(Unused) \in Nat
<1>1. IsFiniteSet(0 .. blocks_count - 1)
  BY ImageAssumption, FS_Interval
<1>2. IsFiniteSet(Unused)
  BY <1>1, FS_Subset DEF Unused, Block
<1> QED BY <1>2, FS_CardinalityType

(* A file has a block of every number up to its last.                      *)
LEMMA EveryRank ==
  ASSUME TypeOK, Consistent, NEW h \in Block, IsHead(h), BlocksOf(h) \in Nat \ {0},
         NEW n \in 0 .. BlocksOf(h) - 1
  PROVE  \E b \in Block : owner[b] = h /\ rank[b] = n
<1> DEFINE T == {i \in Nat : \E b \in Block : owner[b] = h /\ rank[b] = i}
           m == BlocksOf(h) - 1
<1>1. m \in Nat
  OBVIOUS
<1>2. 0 \in T
  BY HeadFacts
<1>3. ASSUME NEW i \in 0 .. (m - 1), i \in T PROVE i + 1 \in T
  <2>1. PICK b \in Block : owner[b] = h /\ rank[b] = i
    BY <1>3
  <2>2. InChain(b) /\ rank[b] + 1 < BlocksOf(owner[b])
    BY <2>1, HeadFacts DEF InChain
  <2>3. cont[b] \in Block /\ owner[cont[b]] = h /\ rank[cont[b]] = i + 1
    BY <2>1, <2>2 DEF Consistent, ChainsOK
  <2> QED BY <2>3
<1> HIDE DEF T
<1>4. \A i \in 0 .. m : i \in T
  BY <1>1, <1>2, <1>3, UpTo
<1> QED BY <1>4 DEF T

LEMMA RemoveAtLength ==
  ASSUME NEW S, NEW s \in Seq(S), NEW k \in 1 .. Len(s)
  PROVE  Len(RemoveAt(s, k)) = Len(s) - 1
<1> DEFINE p == SubSeq(s, 1, k - 1)
           q == SubSeq(s, k + 1, Len(s))
<1>1. p \in Seq(S) /\ q \in Seq(S) /\ Len(p) = k - 1 /\ Len(q) = Len(s) - k
  OBVIOUS
<1>2. RemoveAt(s, k) = p \o q
  BY DEF RemoveAt
<1>3. Len(s) \in Nat /\ k \in Nat
  OBVIOUS
<1> HIDE DEF p, q
<1> QED BY <1>1, <1>2, <1>3

(* The directory gives up all its blocks but the first.                    *)
LEMMA RemoveRoom ==
  ASSUME TypeOK, Clean, MarkAtHand, fsop_Remove, ~Refuse
  PROVE  Room'
<1>1. /\ pc = "locate" /\ pc' \in {"shrink", "reappend"} /\ UNCHANGED <<file, stray>>
      /\ owner' = [b \in Block |-> IF owner[b] = file /\ rank[b] > 0 THEN 0 ELSE owner[b]]
      /\ inode' = [inode EXCEPT ![file].size = 0]
      /\ items' = [items EXCEPT ![file] = <<>>]
      /\ IsDirectory(file)
      /\ \E i \in Hits(file, BaseName) : todo' = RemoveAt(items[file], i)
  BY DEF fsop_Remove, Located
<1>2. PICK f \in Block : f = file
  BY SizeIsNat
<1>3. IsHead(f) /\ owner[f] = f /\ rank[f] = 0 /\ f # 0 /\ inode[f].size \in Nat
  BY <1>1, <1>2, HeadFacts DEF Clean, FileAtHand
<1>4. PICK r \in Nat \ {0} : r = get_blocks_required(inode[f].size)
  BY <1>3, BlocksRequired
<1>5. BlocksOf(f) = r
  BY <1>1, <1>4 DEF BlocksOf, Extending
<1>6. \A n \in 1 .. r - 1 : \E b \in Unused' : rank[b] = n
  <2>1. ASSUME NEW n \in 1 .. r - 1 PROVE \E b \in Unused' : rank[b] = n
    <3>1. PICK b \in Block : owner[b] = f /\ rank[b] = n
      BY <1>3, <1>5, EveryRank DEF Clean
    <3>2. b \notin Metadata /\ b \notin stray
      BY <1>3, <3>1 DEF Clean, Consistent, Marked, MarkAtHand, InChain
    <3>3. owner'[b] = 0
      BY <1>1, <1>2, <3>1
    <3> QED BY <1>1, <3>1, <3>2, <3>3 DEF Unused, InChain
  <2> QED BY <2>1
<1>7. IsFiniteSet(Unused') /\ Cardinality(Unused') \in Nat
  <2>1. IsFiniteSet(0 .. blocks_count - 1)
    BY ImageAssumption, FS_Interval
  <2>2. IsFiniteSet(Unused')
    BY <2>1, FS_Subset DEF Unused, Block
  <2> QED BY <2>2, FS_CardinalityType
<1>8. r - 1 <= Cardinality(Unused')
  <2>1. PICK g \in [1 .. r - 1 -> Unused'] : \A n \in 1 .. r - 1 : rank[g[n]] = n
    <3>1. [n \in 1 .. r - 1 |-> CHOOSE b \in Unused' : rank[b] = n] \in [1 .. r - 1 -> Unused']
      BY <1>6
    <3>2. \A n \in 1 .. r - 1 : rank[CHOOSE b \in Unused' : rank[b] = n] = n
      BY <1>6
    <3> QED BY <3>1, <3>2
  <2>2. g \in Injection(1 .. r - 1, Unused')
    BY <2>1 DEF Injection, IsInjective
  <2>3. Cardinality(1 .. r - 1) <= Cardinality(Unused')
    BY <1>7, <2>2, FS_Injection
  <2>4. Cardinality(1 .. r - 1) = r - 1
    <3>1. \A a, b \in Int : Cardinality(a .. b) = IF a > b THEN 0 ELSE b - a + 1
      BY FS_Interval
    <3>2. Cardinality(1 .. r - 1) = IF 1 > r - 1 THEN 0 ELSE r - 1 - 1 + 1
      BY <3>1
    <3> QED BY <3>2
  <2> QED BY <2>3, <2>4
<1>9. BlocksOf(file)' = 1
  <2>1. inode'[f].size = 0
    BY <1>1, <1>2 DEF TypeOK, ImageTypeOK
  <2>2. get_blocks_required(0) = 1
    BY ImageAssumption DEF get_blocks_required
  <2> QED BY <1>1, <1>2, <2>1, <2>2 DEF BlocksOf, Extending
<1>10. PICK n \in Nat : n = Len(items[f]) /\ n = inode[f].size
  BY <1>1, <1>2, <1>3 DEF Clean, Consistent, DirectoriesOK, Growing
<1>11. items'[f] = <<>> /\ Len(todo') = n - 1 /\ n - 1 \in Nat
  <2>1. items[f] \in Seq(Item) /\ items'[f] = <<>>
    BY <1>1, <1>2 DEF TypeOK, ImageTypeOK
  <2>2. PICK i \in Hits(f, BaseName) : todo' = RemoveAt(items[f], i)
    BY <1>1, <1>2
  <2>3. i \in 1 .. Len(items[f])
    BY <2>2, ItemsOfDirectory, HitsInDomain
  <2>4. Len(todo') = Len(items[f]) - 1
    BY <2>1, <2>2, <2>3, RemoveAtLength
  <2>5. Len(items[f]) \in Nat /\ 1 <= Len(items[f])
    BY <2>1, <2>3
  <2>6. n \in Nat /\ 1 <= n /\ Len(todo') = n - 1
    BY <1>10, <2>4, <2>5
  <2>7. n - 1 \in Nat
    BY <2>6
  <2> QED BY <2>1, <2>6, <2>7
<1>12. get_blocks_required(n - 1) <= r /\ get_blocks_required(n - 1) \in Nat
  <2>1. n - 1 \in Nat /\ n - 1 <= n
    BY <1>11
  <2>2. get_blocks_required(n - 1) <= get_blocks_required(n)
    BY <2>1, BlocksRequiredGrows
  <2> QED BY <1>4, <1>10, <2>1, <2>2, BlocksRequired
<1>13. (Len(items[file]) + Len(todo))' = n - 1
  BY <1>1, <1>2, <1>11
<1>14. (get_blocks_required(Len(items[file]) + Len(todo)))' = get_blocks_required(n - 1)
  BY <1>13 DEF get_blocks_required
<1> QED BY <1>7, <1>8, <1>9, <1>12, <1>14 DEF Room
-----------------------------------------------------------------------------
(* A step that takes no blocks and leaves the items.                       *)
LEMMA RoomStays ==
  ASSUME TypeOK, Room, Rewriting, UNCHANGED <<owner, items, todo, file>>, stray' \subseteq stray,
         BlocksOf(file)' = BlocksOf(file)
  PROVE  Room'
<1>1. Unused \subseteq Unused'
  BY DEF Unused, InChain
<1>2. IsFiniteSet(Unused') /\ Cardinality(Unused') \in Nat
  <2>1. IsFiniteSet(0 .. blocks_count - 1)
    BY ImageAssumption, FS_Interval
  <2>2. IsFiniteSet(Unused')
    BY <2>1, FS_Subset DEF Unused, Block
  <2> QED BY <2>2, FS_CardinalityType
<1>3. Cardinality(Unused) <= Cardinality(Unused')
  BY <1>1, <1>2, FS_Subset
<1>4. (get_blocks_required(Len(items[file]) + Len(todo)))' = get_blocks_required(Len(items[file]) + Len(todo))
  BY DEF get_blocks_required
<1>5. PICK need : need = get_blocks_required(Len(items[file]) + Len(todo))
  OBVIOUS
<1>6. need \in Nat
  <2>1. items[file] \in Seq(Item) /\ todo \in Seq(Item)
    BY SizeIsNat DEF TypeOK, HandlerTypeOK
  <2>2. Len(items[file]) + Len(todo) \in Nat
    BY <2>1
  <2> QED BY <1>5, <2>2, BlocksRequired
<1>7. BlocksOf(file) \in Nat
  <2>1. ord \in Nat /\ inode[file].size \in Nat
    BY SizeIsNat DEF TypeOK, HandlerTypeOK
  <2>2. get_blocks_required(inode[file].size) \in Nat
    BY <2>1, BlocksRequired
  <2> QED BY <2>1, <2>2 DEF BlocksOf
<1>8. Cardinality(Unused) + BlocksOf(file) >= need
  BY <1>5 DEF Room
<1>9. Cardinality(Unused') + BlocksOf(file) >= need
  BY <1>2, <1>3, <1>6, <1>7, <1>8, UnusedFinite
<1> QED BY <1>4, <1>5, <1>9 DEF Room

LEMMA LinkRoom ==
  ASSUME TypeOK, Clean, MarkAtHand, Room, ExtendLink, Rewriting
  PROVE  Room'
<1>1. /\ pc = "link" /\ pc' = "extend" /\ ord' = ord + 1 /\ UNCHANGED <<items, todo, file, stray>>
      /\ owner' = [owner EXCEPT ![found] = file]
  BY DEF ExtendLink
<1>2. /\ found \in Block /\ found \notin lookup_table /\ found \notin stray /\ ord \in Nat
      /\ owner \in [Block -> Nat] /\ file # 0
  BY <1>1 DEF TypeOK, HandlerTypeOK, HistoryTypeOK, Clean, FileAtHand, IsHead, MarkAtHand
<1>3. found \in Unused
  BY <1>2 DEF Unused, Clean, Consistent, Marked
<1>4. Unused' = Unused \ {found}
  BY <1>1, <1>2 DEF Unused, InChain
<1>5. Cardinality(Unused') = Cardinality(Unused) - 1 /\ Cardinality(Unused) \in Nat
  BY <1>3, <1>4, UnusedFinite, FS_RemoveElement
<1>6. BlocksOf(file) = ord + 1 /\ BlocksOf(file)' = ord + 1 + 1
  BY <1>1 DEF BlocksOf, Extending
<1>7. (get_blocks_required(Len(items[file]) + Len(todo)))' = get_blocks_required(Len(items[file]) + Len(todo))
  BY <1>1 DEF get_blocks_required
<1>8. Cardinality(Unused) + (ord + 1) >= get_blocks_required(Len(items[file]) + Len(todo))
  BY <1>6 DEF Room
<1>9. Cardinality(Unused) + (ord + 1) = Cardinality(Unused') + (ord + 1 + 1)
  BY <1>2, <1>5
<1> QED BY <1>6, <1>7, <1>8, <1>9 DEF Room

(* The size is stored before the blocks are there: until then it is the    *)
(* handler that knows how many there are.                                  *)
LEMMA WriteBlocks ==
  ASSUME TypeOK, Clean, write_file_unchecked, ~Refuse, ~Finish
  PROVE  BlocksOf(file)' = BlocksOf(file)
<1> DEFINE size == inode[file].size
           end == offset + length
<1>1. /\ pc = "write" /\ UNCHANGED file
      /\ inode' = [inode EXCEPT ![file].size = IF end > size THEN end ELSE size]
      /\ \/ /\ pc' = "extend" /\ ord' = OrdinalOf(size)
         \/ /\ pc' = "walk"
            /\ end <= size \/ get_blocks_required(end) = get_blocks_required(size)
  BY DEF write_file_unchecked, StartWalk
<1>2. file \in Block /\ inode'[file].size = (IF end > size THEN end ELSE size)
      /\ size \in Nat /\ end \in Nat
  <2>1. file \in Block /\ size \in Nat /\ end \in Nat
    BY SizeIsNat
  <2>2. inode \in [Block -> HeadInfo]
    BY DEF TypeOK, ImageTypeOK
  <2> HIDE DEF size, end
  <2>3. inode'[file].size = (IF end > size THEN end ELSE size)
    BY <1>1, <2>1, <2>2 DEF HeadInfo
  <2> QED BY <2>1, <2>3
<1>3. BlocksOf(file) = get_blocks_required(size) /\ get_blocks_required(size) \in Nat
  BY <1>1, <1>2, BlocksRequired DEF BlocksOf, Extending
<1> HIDE DEF size, end
<1>4. CASE pc' = "extend" /\ ord' = OrdinalOf(size)
  BY <1>1, <1>3, <1>4 DEF BlocksOf, Extending, OrdinalOf
<1>5. CASE pc' = "walk" /\ (end <= size \/ get_blocks_required(end) = get_blocks_required(size))
  <2>1. inode'[file].size = size \/ get_blocks_required(inode'[file].size) = get_blocks_required(size)
    BY <1>2, <1>5
  <2>2. BlocksOf(file)' = get_blocks_required(inode'[file].size)
    BY <1>1, <1>5 DEF BlocksOf, Extending, get_blocks_required
  <2> QED BY <1>3, <2>1, <2>2
<1> QED BY <1>1, <1>4, <1>5

LEMMA DoneBlocks ==
  ASSUME TypeOK, Clean, ExtendDone
  PROVE  BlocksOf(file)' = BlocksOf(file)
<1>1. /\ pc = "extend" /\ pc' = "walk" /\ UNCHANGED file /\ ord = goal
      /\ inode' = [inode EXCEPT ![file].last_inode = block_index]
  BY DEF ExtendDone, StartWalk
<1>2. inode'[file].size = inode[file].size
  BY <1>1, SizeIsNat DEF TypeOK, ImageTypeOK
<1>3. goal = OrdinalOf(inode[file].size)
  BY <1>1 DEF Clean, WalkAtHand
<1>4. get_blocks_required(inode[file].size) \in Nat
  BY SizeIsNat, BlocksRequired
<1>5. BlocksOf(file)' = get_blocks_required(inode[file].size)
  BY <1>1, <1>2 DEF BlocksOf, Extending, get_blocks_required
<1>6. BlocksOf(file) = OrdinalOf(inode[file].size) + 1
  BY <1>1, <1>3 DEF BlocksOf, Extending
<1> QED BY <1>4, <1>5, <1>6 DEF OrdinalOf

(* The item that was to be appended is.                                    *)
LEMMA VisitRoom ==
  ASSUME TypeOK, Task, Clean, Room, LastVisit, Rewriting
  PROVE  Room'
<1>1. /\ pc = "walk" /\ pc' = "reappend" /\ todo' = Tail(todo) /\ UNCHANGED <<file, inode, owner, stray>>
      /\ items' = [items EXCEPT ![file] = Append(items[file], Head(todo))]
      /\ op.type = "Remove"
  BY DEF LastVisit, Append1, Rewriting
<1>2. todo # <<>> /\ todo \in Seq(Item) /\ items[file] \in Seq(Item) /\ file \in Block
      /\ items \in [Block -> Seq(Item)]
  BY <1>1 DEF Task, TypeOK, HandlerTypeOK, ImageTypeOK
<1>3. Len(todo') = Len(todo) - 1 /\ Len(todo) \in Nat
  BY <1>1, <1>2
<1>4. items'[file] = Append(items[file], Head(todo))
  BY <1>1, <1>2
<1>5. Head(todo) \in Item
  BY <1>2
<1>6. Len(items'[file]) = Len(items[file]) + 1 /\ Len(items[file]) \in Nat
  BY <1>2, <1>4, <1>5
<1>7. (Len(items[file]) + Len(todo))' = Len(items[file]) + Len(todo)
  <2>1. PICK a \in Nat, b \in Nat : a = Len(items[file]) /\ b = Len(todo)
    BY <1>3, <1>6
  <2>2. Len(items'[file]) = a + 1 /\ Len(todo') = b - 1
    BY <1>3, <1>6, <2>1
  <2>3. (Len(items[file]) + Len(todo))' = Len(items'[file]) + Len(todo')
    BY <1>1
  <2>4. (a + 1) + (b - 1) = a + b
    OBVIOUS
  <2> QED BY <2>1, <2>2, <2>3, <2>4
<1>8. (get_blocks_required(Len(items[file]) + Len(todo)))' = get_blocks_required(Len(items[file]) + Len(todo))
  BY <1>7 DEF get_blocks_required
<1>9. Unused' = Unused /\ BlocksOf(file)' = BlocksOf(file)
  BY <1>1 DEF Unused, InChain, BlocksOf, Extending, get_blocks_required
<1> QED BY <1>8, <1>9 DEF Room

LEMMA ShrunkBlocks ==
  ASSUME TypeOK, ShrinkDone
  PROVE  BlocksOf(file)' = BlocksOf(file)
<1>1. /\ pc = "shrink" /\ pc' = "reappend" /\ UNCHANGED file
      /\ inode' = [inode EXCEPT ![file].last_inode = file]
  BY DEF ShrinkDone
<1>2. inode'[file].size = inode[file].size
  BY <1>1, SizeIsNat DEF TypeOK, ImageTypeOK
<1> QED BY <1>1, <1>2 DEF BlocksOf, Extending, get_blocks_required

LEMMA RoomStep ==
  ASSUME TypeOK, Task, Clean, MarkAtHand, Room, [Next]_vars
  PROVE  Room'
<1>1. CASE pc' \notin {"shrink", "reappend", "append", "write", "extend", "link", "walk"}
  BY <1>1 DEF Room, Rewriting
<1>2. CASE op'.type # "Remove"
  BY <1>2 DEF Room, Rewriting
<1>3. CASE Refuse \/ Internal \/ Segv \/ Kill \/ Abort \/ Finish \/ \E why : Abandon(why)
  BY <1>1, <1>3 DEF Refuse, Internal, Segv, Kill, Abort, Finish, Abandon
<1>4. CASE /\ UNCHANGED <<op, owner, items, todo, file>> /\ stray' \subseteq stray
           /\ BlocksOf(file)' = BlocksOf(file) /\ Rewriting
  BY <1>4, RoomStays
<1>5. CASE UNCHANGED vars
  <2>1. UNCHANGED <<pc, op, owner, stray, items, todo, file>> /\ BlocksOf(file)' = BlocksOf(file)
    BY <1>5 DEF vars, BlocksOf, Extending, get_blocks_required
  <2> QED BY <1>1, <1>2, <1>4, <2>1 DEF Rewriting
<1>6. CASE fsop_Remove
  BY <1>3, <1>6, RemoveRoom
<1>7. CASE write_file_unchecked
  <2>1. (pc = "write" /\ UNCHANGED <<owner, stray, items, todo, file, op>>) \/ Refuse \/ Finish
    BY <1>7 DEF write_file_unchecked
  <2> QED BY <1>2, <1>3, <1>4, <1>7, <2>1, WriteBlocks DEF Rewriting
<1>8. CASE ExtendLink
  <2>1. pc = "link" /\ op' = op
    BY <1>8 DEF ExtendLink
  <2> QED BY <1>2, <1>8, <2>1, LinkRoom DEF Rewriting
<1>9. CASE ExtendDone
  <2>1. pc = "extend" /\ UNCHANGED <<owner, stray, items, todo, file, op>>
    BY <1>9 DEF ExtendDone
  <2> QED BY <1>2, <1>4, <1>9, <2>1, DoneBlocks DEF Rewriting
<1>10. CASE LastVisit
  <2>1. pc = "walk" /\ op' = op
    BY <1>10 DEF LastVisit, Finish
  <2> QED BY <1>2, <1>10, <2>1, VisitRoom DEF Rewriting
<1>11. CASE ShrinkDone
  <2>1. pc = "shrink" /\ UNCHANGED <<owner, stray, items, todo, file, op>>
    BY <1>11 DEF ShrinkDone
  <2> QED BY <1>2, <1>4, <1>11, <2>1, ShrunkBlocks DEF Rewriting
<1>12. CASE Reappend \/ append_directory \/ ExtendFind
  <2>1. \/ pc' \notin {"shrink", "reappend", "append", "write", "extend", "link", "walk"}
        \/ Refuse \/ Internal
        \/ /\ pc \in {"reappend", "append", "extend"} /\ UNCHANGED <<owner, stray, items, todo, file, op, ord, inode>>
           /\ pc = "extend" <=> pc' = "link"
           /\ pc' \in {"append", "write", "link"}
    BY <1>12 DEF Reappend, append_directory, ExtendFind, TakeFree
  <2>2. ASSUME pc \in {"reappend", "append", "extend"}, UNCHANGED <<owner, stray, items, todo, file, op, ord, inode>>,
               pc = "extend" <=> pc' = "link", pc' \in {"append", "write", "link"}
        PROVE  BlocksOf(file)' = BlocksOf(file)
    BY <2>2 DEF BlocksOf, Extending, get_blocks_required
  <2> QED BY <1>1, <1>2, <1>3, <1>4, <2>1, <2>2 DEF Rewriting
<1>13. CASE Hop \/ PurgeBlock
  <2>1. \/ Internal \/ \E why : Abandon(why)
        \/ /\ pc \in {"walk", "shrink", "purge_blocks"} /\ UNCHANGED <<pc, owner, items, todo, file, op, inode>>
           /\ stray' \subseteq stray
    BY <1>13 DEF Hop, PurgeBlock
  <2>2. ASSUME pc \in {"walk", "shrink"}, UNCHANGED <<pc, file, inode>>
        PROVE  BlocksOf(file)' = BlocksOf(file)
    BY <2>2 DEF BlocksOf, Extending, get_blocks_required
  <2> QED BY <1>1, <1>2, <1>3, <1>4, <2>1, <2>2 DEF Rewriting
<1>14. CASE fsop_Read \/ fsop_ReadDir \/ fsop_Stat \/ fsop_Write \/ fsop_Create
  BY <1>2, <1>3, <1>14 DEF fsop_Read, fsop_ReadDir, fsop_Stat, fsop_Write, fsop_Create, Located, TakeFree
<1>15. CASE (\E r \in Requests : Serve(r)) \/ locate_path \/ mark_new_block \/ init_new_file
  BY <1>1, <1>2, <1>3, <1>15 DEF Serve, locate_path, mark_new_block, init_new_file, Task
<1>16. CASE purge_file \/ PurgeFileDone \/ RemoveDone \/ Answer
  BY <1>1, <1>3, <1>16 DEF purge_file, PurgeFileDone, RemoveDone, Answer
<1> QED BY <1>3, <1>5, <1>6, <1>7, <1>8, <1>9, <1>10, <1>11, <1>12, <1>13, <1>14, <1>15, <1>16
     DEF Next, Work, Step

LEMMA InitRoom == Init => Room
BY DEF Init, Room, Rewriting

(* So the search for a free block finds one.                               *)
LEMMA RoomIsThere ==
  ASSUME TypeOK, Clean, Task, NobodysBlocks, Room, ~torn
  PROVE  RemoveNeverRunsOut
<1> SUFFICES ASSUME pc = "extend", op.type = "Remove", ord < goal
              PROVE  FreeBits \cap Block # {}
  BY DEF RemoveNeverRunsOut
<1>1. file \in Block /\ IsHead(file) /\ IsDirectory(file) /\ inode[file].size \in Nat /\ length = 1
      /\ goal = OrdinalOf(inode[file].size) /\ ord \in Nat /\ goal \in Nat
      /\ items[file] \in Seq(Item) /\ todo \in Seq(Item) /\ todo # <<>>
  BY SizeIsNat DEF Clean, FileAtHand, WriteAtHand, WalkAtHand, Copying, TypeOK, HandlerTypeOK, ImageTypeOK, Task
<1>2. inode[file].size = Len(items[file]) + 1
  BY <1>1 DEF Clean, Consistent, DirectoriesOK, Growing
<1>3. PICK n \in Nat : n = Len(items[file]) + Len(todo) /\ inode[file].size <= n
  <2>1. Len(items[file]) \in Nat /\ Len(todo) \in Nat /\ Len(todo) >= 1
    BY <1>1
  <2> QED BY <1>2, <2>1
<1>4. get_blocks_required(inode[file].size) <= get_blocks_required(n)
      /\ get_blocks_required(inode[file].size) \in Nat /\ get_blocks_required(n) \in Nat
  BY <1>1, <1>3, BlocksRequired, BlocksRequiredGrows
<1>5. ord + 1 < get_blocks_required(n)
  BY <1>1, <1>4 DEF OrdinalOf
<1>6. Cardinality(Unused) + (ord + 1) >= get_blocks_required(n)
  BY <1>3 DEF Room, Rewriting, BlocksOf, Extending
<1>7. Cardinality(Unused) # 0
  BY <1>1, <1>4, <1>5, <1>6, UnusedFinite
<1>8. PICK b \in Unused : TRUE
  BY <1>7, FS_EmptySet
<1>9. b \in Block /\ b \notin lookup_table
  BY <1>8 DEF Unused, NobodysBlocks, Orphans
<1>10. b \in ScannedBits
  BY <1>9, ImageAssumption DEF ScannedBits, Block
<1> QED BY <1>9, <1>10 DEF FreeBits
-----------------------------------------------------------------------------
(* A request that is being served has not been answered.                   *)
StillServed == pc # "idle" => reply = "none"

LEMMA ServedStep ==
  ASSUME TypeOK, StillServed, [Next]_vars
  PROVE  StillServed'
<1>1. CASE Refuse \/ Internal \/ Segv \/ Kill \/ Abort \/ (\E why : Abandon(why)) \/ UNCHANGED vars
  BY <1>1 DEF StillServed, Refuse, Internal, Segv, Kill, Abort, Abandon, vars
<1>2. CASE pc # "idle" /\ UNCHANGED reply
  BY <1>2 DEF StillServed
<1>3. CASE (\E r \in Requests : Serve(r)) \/ Answer
  BY <1>3 DEF StillServed, Serve, Answer
<1>4. CASE locate_path \/ fsop_Read \/ fsop_ReadDir \/ fsop_Stat \/ fsop_Write \/ fsop_Create
           \/ fsop_Remove \/ mark_new_block \/ init_new_file \/ append_directory \/ write_file_unchecked
  BY <1>1, <1>2, <1>4 DEF locate_path, fsop_Read, fsop_ReadDir, fsop_Stat, fsop_Write, fsop_Create,
     fsop_Remove, mark_new_block, init_new_file, append_directory, write_file_unchecked, Located, TakeFree, Finish
<1>5. CASE ExtendFind \/ ExtendLink \/ ExtendDone \/ Hop \/ LastVisit \/ PurgeBlock \/ ShrinkDone
           \/ Reappend \/ purge_file \/ PurgeFileDone \/ RemoveDone
  BY <1>1, <1>2, <1>5 DEF ExtendFind, ExtendLink, ExtendDone, Hop, LastVisit, PurgeBlock, ShrinkDone,
     Reappend, purge_file, PurgeFileDone, RemoveDone, TakeFree, Finish
<1> QED BY <1>1, <1>3, <1>4, <1>5 DEF Next, Work, Step

(* A walk over a clean file is never at a NULL inode.                      *)
LEMMA WalkNotNull ==
  ASSUME TypeOK, Clean, pc = "walk", ord < goal
  PROVE  block_index # 0
<1>1. ord < BlocksOf(file)
  <2>1. goal <= BlocksOf(file) /\ ord \in Nat /\ goal \in Nat
    BY DEF Clean, WalkAtHand, TypeOK, HandlerTypeOK
  <2>2. BlocksOf(file) \in Nat
    BY SizeIsNat, BlocksRequired DEF BlocksOf, Extending
  <2> QED BY <2>1, <2>2
<1>2. owner[block_index] = file /\ file # 0
  BY <1>1 DEF Clean, WalkAtHand, FileAtHand, IsHead
<1>3. 0 \in Metadata /\ 0 \in Block
  BY ImageAssumption, RootIsBlock DEF Metadata
<1> QED BY <1>2, <1>3 DEF Clean, Consistent, Marked, InChain

LEMMA FaultStep ==
  ASSUME TypeOK, ~torn => Clean, StillServed, [Next]_vars
  PROVE  [reply' \in {"lost", "aborted"} /\ ~torn => pc = "purge" \/ heap]_vars
<1> SUFFICES ASSUME ~UNCHANGED vars, reply' \in {"lost", "aborted"}, ~torn
              PROVE  pc = "purge" \/ heap
  OBVIOUS
<1>1. CASE UNCHANGED reply
  <2>1. pc = "idle"
    BY <1>1 DEF StillServed
  <2> QED BY <1>1, <2>1 DEF Next, Work, Step, Serve, Kill, Abort, locate_path, fsop_Read, fsop_ReadDir, fsop_Stat,
       fsop_Write, fsop_Create, fsop_Remove, mark_new_block, init_new_file, append_directory, write_file_unchecked, ExtendFind,
       ExtendLink, ExtendDone, Hop, LastVisit, PurgeBlock, ShrinkDone, Reappend, purge_file, PurgeFileDone,
       RemoveDone, Answer, Located
<1>2. CASE Refuse \/ Internal \/ Kill \/ Abort
  BY <1>2 DEF Refuse, Internal, Kill, Abort, Abandon
<1>3. CASE (\E r \in Requests : Serve(r)) \/ Answer
  BY <1>3 DEF Serve, Answer
<1>4. CASE locate_path \/ fsop_Read \/ fsop_ReadDir \/ fsop_Stat \/ fsop_Write \/ fsop_Create
           \/ fsop_Remove \/ mark_new_block \/ init_new_file \/ append_directory \/ write_file_unchecked
  BY <1>1, <1>2, <1>4 DEF locate_path, fsop_Read, fsop_ReadDir, fsop_Stat, fsop_Write, fsop_Create,
     fsop_Remove, mark_new_block, init_new_file, append_directory, write_file_unchecked, Located, TakeFree, Finish
<1>5. CASE ExtendFind \/ ExtendLink \/ ExtendDone \/ LastVisit \/ PurgeBlock \/ ShrinkDone
           \/ Reappend \/ PurgeFileDone \/ RemoveDone
  BY <1>1, <1>2, <1>5 DEF ExtendFind, ExtendLink, ExtendDone, LastVisit, PurgeBlock, ShrinkDone,
     Reappend, PurgeFileDone, RemoveDone, TakeFree, Finish
<1>6. CASE Hop
  BY <1>1, <1>6, WalkNotNull DEF Hop, Abandon
<1>7. CASE purge_file
  BY <1>7 DEF purge_file
<1> QED BY <1>2, <1>3, <1>4, <1>5, <1>6, <1>7 DEF Next, Work, Step
-----------------------------------------------------------------------------
(* What holds in every state: on a clean image every marked block is some  *)
(* file's, or on its way to one, and rm has the blocks it needs.           *)
BlocksInv == IInv /\ StillServed /\ (~torn => NobodysBlocks /\ Room)

LEMMA BlocksInvInit == Init => BlocksInv
<1> SUFFICES ASSUME Init PROVE BlocksInv
  OBVIOUS
<1>1. TypeOK /\ Clean
  BY InitType, InitClean
<1>2. Task /\ MarkAtHand /\ StillServed
  BY DEF Init, Task, MarkAtHand, StillServed
<1> QED BY <1>1, <1>2, InitOrphans, InitRoom DEF BlocksInv, IInv

LEMMA BlocksInvStep == BlocksInv /\ [Next]_vars => BlocksInv'
<1> SUFFICES ASSUME BlocksInv, [Next]_vars PROVE BlocksInv'
  OBVIOUS
<1>1. TypeOK /\ Task /\ StillServed
  BY DEF BlocksInv, IInv
<1>2. TypeOK' /\ Task' /\ StillServed'
  BY <1>1, TypeStep, TaskStep, ServedStep
<1>3. ASSUME ~torn' PROVE Clean' /\ MarkAtHand' /\ NobodysBlocks' /\ Room'
  <2>1. ~torn
    BY <1>1, <1>3, TornStays
  <2>2. Clean /\ MarkAtHand /\ NobodysBlocks /\ Room
    BY <2>1 DEF BlocksInv, IInv
  <2> QED BY <1>1, <1>3, <2>2, CleanStep, MarkStep, OrphansStep, RoomStep
<1> QED BY <1>2, <1>3 DEF BlocksInv, IInv

LEMMA SpecBlocksInv == Spec => []BlocksInv
BY BlocksInvInit, BlocksInvStep, PTL DEF Spec

(* rm always finds the blocks to write the rest of its directory.          *)
THEOREM RemoveHasRoom == Spec => []RemoveNeverRunsOut
<1>1. BlocksInv => RemoveNeverRunsOut
  <2>1. CASE torn
    BY <2>1 DEF RemoveNeverRunsOut
  <2>2. ASSUME BlocksInv, ~torn PROVE RemoveNeverRunsOut
    BY <2>2, RoomIsThere DEF BlocksInv, IInv
  <2> QED BY <2>1, <2>2
<1> QED BY <1>1, SpecBlocksInv, PTL

(* No handler but rm's purge_file faults on a clean image, before stat has *)
(* written past the words trace_file_blocks allocated.                     *)
THEOREM OnlyPurgeFaults == Spec => CleanNeverFaults
<1>1. BlocksInv /\ [Next]_vars
        => [reply' \in {"lost", "aborted"} /\ ~torn => pc = "purge" \/ heap]_vars
  BY FaultStep DEF BlocksInv, IInv
<1> QED BY <1>1, SpecBlocksInv, PTL DEF Spec, CleanNeverFaults

-----------------------------------------------------------------------------
(* The two ways to lose block b, as LossesAreKnown has them.               *)
KnownLoss(b) ==
  \/ pc = "locate" /\ op.type = "Remove" /\ b = items[file][item_index' + 1].inode
  \/ pc # "idle" /\ reply' \notin {"none", "ok"} /\ b \in Held \cup ToBeStored

(* A file that could be found, or was about to be named, and is neither.   *)
Parted(b) == (Linked(b) \/ b \in Held) /\ ~Linked(b)' /\ b \notin Held'

(* A block marked for no one was marked for a header.                      *)
LEMMA LossOfMarked ==
  ASSUME TypeOK, Clean, MarkAtHand, NobodysBlocks', [Next]_vars, ~UNCHANGED vars,
         NEW b \in Lost', b \notin Lost, ~InChain(b)'
  PROVE  KnownLoss(b)
<1>1. /\ b \notin Metadata /\ b \in lookup_table' /\ b \notin ToBeStored'
      /\ pc' = "shrink" => b \in stray'
  BY DEF Lost
<1>2. b \in stray'
  BY <1>1 DEF NobodysBlocks, Orphans
<1>3. ASSUME (\E why : Abandon(why)) \/ Refuse \/ Internal \/ Segv \/ Kill \/ Abort
      PROVE  UNCHANGED stray
  BY <1>3 DEF Refuse, Internal, Segv, Kill, Abort, Abandon
<1>4. stray' \subseteq stray \/ mark_new_block
  <2>1. CASE \/ \E r \in Requests : Serve(r)
             \/ locate_path \/ fsop_Read \/ fsop_ReadDir \/ fsop_Stat \/ fsop_Write
             \/ fsop_Create \/ fsop_Remove
    BY <1>3, <2>1 DEF Serve, locate_path, fsop_Read, fsop_ReadDir, fsop_Stat, fsop_Write,
       fsop_Create, fsop_Remove, TakeFree
  <2>2. CASE \/ init_new_file \/ append_directory \/ write_file_unchecked
             \/ ExtendFind \/ ExtendLink \/ ExtendDone \/ Hop \/ LastVisit
    BY <1>3, <2>2 DEF init_new_file, append_directory, write_file_unchecked, ExtendFind,
       ExtendLink, ExtendDone, Hop, LastVisit, TakeFree
  <2>3. CASE \/ PurgeBlock \/ ShrinkDone \/ Reappend \/ purge_file \/ PurgeFileDone
             \/ RemoveDone \/ Answer
    BY <1>3, <2>3 DEF PurgeBlock, ShrinkDone, Reappend, purge_file, PurgeFileDone,
       RemoveDone, Answer
  <2> QED BY <1>3, <2>1, <2>2, <2>3 DEF Next, Work, Step
<1>5. b \in stray
  BY <1>1, <1>2, <1>4 DEF mark_new_block, ToBeStored
<1>6. b \in ToBeStored /\ pc = "header" /\ b = found
  <2>1. b \in lookup_table /\ ~InChain(b)
    BY <1>5 DEF MarkAtHand
  <2> QED BY <1>1, <1>5, <2>1 DEF Lost, ToBeStored
<1>7. ~init_new_file
  BY <1>2, <1>6 DEF init_new_file
<1>8. Kill \/ Abort
  BY <1>6, <1>7 DEF Next, Work, Step, Serve, locate_path, fsop_Read, fsop_ReadDir, fsop_Stat,
     fsop_Write, fsop_Create, fsop_Remove, mark_new_block, append_directory,
     write_file_unchecked, ExtendFind, ExtendLink, ExtendDone, Hop, LastVisit, PurgeBlock,
     ShrinkDone, Reappend, purge_file, PurgeFileDone, RemoveDone, Answer, Located
<1> QED BY <1>6, <1>8 DEF KnownLoss, Kill, Abort, Abandon

(* No step but init_new_file makes a block the first of a file.            *)
LEMMA HeadsAreMade ==
  ASSUME TypeOK, Clean, [Next]_vars, NEW b \in Block, IsHead(b)', ~(init_new_file /\ b = found)
  PROVE  IsHead(b)
<1>1. owner \in [Block -> Nat]
  BY DEF TypeOK, HistoryTypeOK
<1>2. CASE UNCHANGED owner
  BY <1>2 DEF IsHead
<1>3. CASE init_new_file
  BY <1>1, <1>3 DEF init_new_file, IsHead
<1>4. CASE ExtendLink
  <2>1. pc = "link" /\ owner' = [owner EXCEPT ![found] = file]
    BY <1>4 DEF ExtendLink
  <2>2. IsHead(file) /\ found \notin lookup_table /\ file \in Block
    BY <2>1 DEF Clean, FileAtHand, TypeOK, HandlerTypeOK
  <2>3. file \in lookup_table
    BY <2>2 DEF Clean, Consistent, Marked, InChain, IsHead
  <2> QED BY <1>1, <2>1, <2>2, <2>3 DEF IsHead
<1>5. CASE fsop_Remove /\ ~Refuse
  <2>1. owner' = [a \in Block |-> IF owner[a] = file /\ rank[a] > 0 THEN 0 ELSE owner[a]]
    BY <1>5 DEF fsop_Remove
  <2> QED BY <2>1 DEF IsHead
<1>6. ASSUME (\E why : Abandon(why)) \/ Refuse \/ Internal \/ Segv \/ Kill \/ Abort
             \/ UNCHANGED vars
      PROVE  UNCHANGED owner
  BY <1>6 DEF Refuse, Internal, Segv, Kill, Abort, Abandon, vars
<1>7. CASE \/ \E r \in Requests : Serve(r)
           \/ locate_path \/ fsop_Read \/ fsop_ReadDir \/ fsop_Stat \/ fsop_Write \/ fsop_Create
  BY <1>2, <1>6, <1>7 DEF Serve, locate_path, fsop_Read, fsop_ReadDir, fsop_Stat, fsop_Write,
     fsop_Create, TakeFree
<1>8. CASE \/ mark_new_block \/ append_directory \/ write_file_unchecked \/ ExtendFind
           \/ ExtendDone \/ Hop \/ LastVisit
  BY <1>2, <1>6, <1>8 DEF mark_new_block, append_directory, write_file_unchecked, ExtendFind,
     ExtendDone, Hop, LastVisit, TakeFree
<1>9. CASE \/ PurgeBlock \/ ShrinkDone \/ Reappend \/ purge_file \/ PurgeFileDone
           \/ RemoveDone \/ Answer
  BY <1>2, <1>6, <1>9 DEF PurgeBlock, ShrinkDone, Reappend, purge_file, PurgeFileDone,
     RemoveDone, Answer
<1> QED BY <1>2, <1>3, <1>4, <1>5, <1>6, <1>7, <1>8, <1>9 DEF Next, Work, Step, fsop_Remove

(* A handler that keeps its names parts with nothing ...                   *)
LEMMA KeepsNames ==
  ASSUME UNCHANGED <<owner, items>>, Held \subseteq Held', NEW b
  PROVE  ~Parted(b)
BY DEF Parted, Linked, IsHead

(* ... and one that is cut short, with the names it held.                  *)
LEMMA CutShort ==
  ASSUME (\E why : why \notin {"none", "ok"} /\ Abandon(why)) \/ Refuse \/ Internal
         \/ Segv \/ Kill \/ Abort,
         NEW b, Parted(b)
  PROVE  KnownLoss(b)
<1>1. UNCHANGED <<owner, items>> /\ reply' \notin {"none", "ok"}
  BY DEF Refuse, Internal, Segv, Kill, Abort, Abandon
<1>2. b \in Held
  BY <1>1 DEF Parted, Linked, IsHead
<1>3. pc # "idle"
  BY <1>2 DEF Held, Copying
<1> QED BY <1>1, <1>2, <1>3 DEF KnownLoss

(* A directory that grows by an entry.                                     *)
LEMMA LinkedGrows ==
  ASSUME TypeOK, IsHead(file), UNCHANGED owner, NEW item,
         items' = [items EXCEPT ![file] = Append(@, item)],
         NEW b, Linked(b) \/ b = item.inode
  PROVE  Linked(b)'
<1>1. file \in Block /\ items[file] \in Seq(Item) /\ items \in [Block -> Seq(Item)]
  BY DEF TypeOK, ImageTypeOK, HandlerTypeOK
<1>2. \A d \in Block : IsHead(d) => IsHead(d)'
  BY DEF IsHead
<1>3. /\ items'[file] = Append(items[file], item)
      /\ \A d \in Block \ {file} : items'[d] = items[d]
  BY <1>1
<1>4. \A i \in DOMAIN items[file] : i \in DOMAIN items'[file] /\ items'[file][i] = items[file][i]
  BY <1>1, <1>3
<1>5. CASE b = item.inode
  <2>1. Len(items[file]) + 1 \in DOMAIN items'[file] /\
        items'[file][Len(items[file]) + 1] = item
    BY <1>1, <1>3
  <2> QED BY <1>1, <1>2, <1>5, <2>1 DEF Linked
<1>6. CASE b = root_inode
  BY <1>6 DEF Linked
<1>7. CASE \E d \in Block : IsHead(d) /\ \E i \in DOMAIN items[d] : items[d][i].inode = b
  <2>1. PICK d \in Block : IsHead(d) /\ \E i \in DOMAIN items[d] : items[d][i].inode = b
    BY <1>7
  <2>2. PICK i \in DOMAIN items[d] : items[d][i].inode = b
    BY <2>1
  <2>3. i \in DOMAIN items'[d] /\ items'[d][i] = items[d][i]
    BY <1>3, <1>4
  <2> QED BY <1>2, <2>1, <2>2, <2>3 DEF Linked
<1> QED BY <1>5, <1>6, <1>7 DEF Linked

(* The copy that ends a write hands a name over to the directory.          *)
LEMMA VisitNames ==
  ASSUME TypeOK, Clean, LastVisit, NEW b
  PROVE  ~Parted(b)
<1>1. pc = "walk" /\ IsHead(file) /\ UNCHANGED owner
  BY DEF LastVisit, Clean, FileAtHand
<1>2. CASE op.type \in {"Read", "Write", "Stat", "ReadDir"}
  <2>1. UNCHANGED items /\ Held = {}
    BY <1>2 DEF LastVisit, Held
  <2> QED BY <1>1, <2>1, KeepsNames
<1>3. CASE op.type = "Create"
  <2>1. items' = [items EXCEPT ![file] = Append(@, [name |-> BaseName, inode |-> made])]
    BY <1>3 DEF LastVisit, Append1
  <2>2. Held = {made}
    BY <1>1, <1>3 DEF Held, Copying
  <2>3. PICK item : item = [name |-> BaseName, inode |-> made]
    OBVIOUS
  <2>4. item.inode = made /\ items' = [items EXCEPT ![file] = Append(@, item)]
    BY <2>1, <2>3
  <2> QED BY <1>1, <2>2, <2>4, LinkedGrows DEF Parted
<1>4. CASE op.type = "Remove"
  <2>1. /\ items' = [items EXCEPT ![file] = Append(@, Head(todo))]
        /\ todo' = Tail(todo) /\ pc' = "reappend" /\ op' = op
    BY <1>4 DEF LastVisit, Append1
  <2>2. todo # <<>> /\ todo \in Seq(Item)
    BY <1>1, <1>4 DEF Clean, FileAtHand, Copying, TypeOK, HandlerTypeOK
  <2>3. ASSUME b \in Held PROVE b = Head(todo).inode \/ b \in Held'
    <3>1. PICK i \in DOMAIN todo : b = todo[i].inode
      BY <1>1, <1>4, <2>3 DEF Held, Copying
    <3>2. CASE i = 1
      BY <2>2, <3>1, <3>2
    <3>3. CASE i # 1
      <4>1. i - 1 \in DOMAIN todo' /\ todo'[i - 1] = todo[i]
        BY <2>1, <2>2, <3>3
      <4> QED BY <1>4, <2>1, <3>1, <4>1 DEF Held
    <3> QED BY <3>2, <3>3
  <2>4. PICK item : item = Head(todo)
    OBVIOUS
  <2>5. items' = [items EXCEPT ![file] = Append(@, item)]
    BY <2>1, <2>4
  <2> QED BY <1>1, <2>3, <2>4, <2>5, LinkedGrows DEF Parted
<1> QED BY <1>2, <1>3, <1>4, OpIsRequest

(* The other elements of a sequence stay in it.                            *)
LEMMA RemoveAtKeeps ==
  ASSUME NEW S, NEW s \in Seq(S), NEW k \in DOMAIN s, NEW i \in DOMAIN s, i # k
  PROVE  \E j \in DOMAIN RemoveAt(s, k) : RemoveAt(s, k)[j] = s[i]
<1>1. Len(s) \in Nat /\ k \in 1 .. Len(s) /\ i \in 1 .. Len(s)
  OBVIOUS
<1>2. CASE i < k
  <2>1. i \in 1 .. Len(s) - 1
    BY <1>1, <1>2
  <2>2. i \in DOMAIN RemoveAt(s, k) /\ RemoveAt(s, k)[i] = s[i]
    BY <1>1, <1>2, <2>1, RemoveAtIs
  <2> QED BY <2>2
<1>3. CASE i > k
  <2>1. i - 1 \in 1 .. Len(s) - 1 /\ ~(i - 1 < k) /\ (i - 1) + 1 = i
    BY <1>1, <1>3
  <2>2. i - 1 \in DOMAIN RemoveAt(s, k) /\ RemoveAt(s, k)[i - 1] = s[(i - 1) + 1]
    BY <1>1, <2>1, RemoveAtIs
  <2> QED BY <2>1, <2>2
<1>4. i < k \/ i > k
  BY <1>1
<1> QED BY <1>2, <1>3, <1>4

(* rm parts with the file of the entry it takes away, and no other.        *)
LEMMA RemoveNames ==
  ASSUME TypeOK, Clean, fsop_Remove, ~Refuse, NEW b, Parted(b)
  PROVE  KnownLoss(b)
<1>1. /\ pc = "locate" /\ op.type = "Remove" /\ op' = op /\ pc' \in {"shrink", "reappend"}
      /\ items' = [items EXCEPT ![file] = <<>>]
      /\ owner' = [a \in Block |-> IF owner[a] = file /\ rank[a] > 0 THEN 0 ELSE owner[a]]
      /\ \E k \in Hits(file, BaseName) :
           item_index' = k - 1 /\ todo' = RemoveAt(items[file], k)
  BY DEF fsop_Remove, Located
<1>2. file \in Block /\ items \in [Block -> Seq(Item)]
  BY DEF TypeOK, ImageTypeOK, HandlerTypeOK
<1>3. Linked(b) /\ b # root_inode
  BY <1>1 DEF Parted, Held, Copying, Linked
<1>4. PICK d \in Block : IsHead(d) /\ \E i \in DOMAIN items[d] : items[d][i].inode = b
  BY <1>3 DEF Linked
<1>5. PICK i \in DOMAIN items[d] : items[d][i].inode = b
  BY <1>4
<1>6. d = file
  <2>1. owner[d] = d /\ rank[d] = 0
    BY <1>4, HeadFacts DEF Clean
  <2>2. IsHead(d)'
    BY <1>1, <1>4, <2>1 DEF IsHead
  <2>3. ASSUME d # file PROVE FALSE
    <3>1. items'[d] = items[d]
      BY <1>1, <1>2, <2>3
    <3>2. Linked(b)'
      BY <1>5, <2>2, <3>1 DEF Linked
    <3> QED BY <3>2 DEF Parted
  <2> QED BY <2>3
<1>7. PICK k \in Hits(file, BaseName) : item_index' = k - 1 /\ todo' = RemoveAt(items[file], k)
  BY <1>1
<1>8. k \in DOMAIN items[file] /\ k \in Nat /\ item_index' + 1 = k
  BY <1>2, <1>7, HitsInDomain
<1>9. CASE i = k
  BY <1>1, <1>5, <1>6, <1>8, <1>9 DEF KnownLoss
<1>10. CASE i # k
  <2>1. PICK j \in DOMAIN todo' : todo'[j] = items[file][i]
    BY <1>2, <1>5, <1>6, <1>7, <1>8, <1>10, RemoveAtKeeps
  <2>2. b \in Held'
    BY <1>1, <1>5, <1>6, <2>1 DEF Held
  <2> QED BY <2>2 DEF Parted
<1> QED BY <1>9, <1>10

(* The two steps that give a block to a file.                              *)
LEMMA GivenNames ==
  ASSUME TypeOK, Clean, MarkAtHand, init_new_file \/ ExtendLink, NEW b, Parted(b)
  PROVE  FALSE
<1>1. /\ found \in Block /\ owner \in [Block -> Nat] /\ items \in [Block -> Seq(Item)]
      /\ \A a \in Block \ {found} : owner'[a] = owner[a] /\ items'[a] = items[a]
  BY DEF init_new_file, ExtendLink, TypeOK, ImageTypeOK, HandlerTypeOK, HistoryTypeOK
<1>2. ~IsHead(found)
  <2>1. CASE init_new_file
    BY <2>1 DEF init_new_file, MarkAtHand, InChain, IsHead
  <2>2. CASE ExtendLink
    BY <1>1, <2>2 DEF ExtendLink, Clean, FileAtHand, Consistent, Marked, InChain, IsHead
  <2> QED BY <2>1, <2>2
<1>3. Linked(b) => Linked(b)'
  BY <1>1, <1>2 DEF Linked, IsHead
<1>4. b \in Held /\ b \notin Held'
  BY <1>3 DEF Parted
<1> QED BY <1>4 DEF Held, Copying, init_new_file, ExtendLink

LEMMA NamesStep ==
  ASSUME TypeOK, Clean, MarkAtHand, [Next]_vars, NEW b, Parted(b)
  PROVE  KnownLoss(b)
<1>1. ASSUME (\E why : why \notin {"none", "ok"} /\ Abandon(why)) \/ Refuse \/ Internal
             \/ Segv \/ Kill \/ Abort
      PROVE  KnownLoss(b)
  BY <1>1, CutShort
<1>2. ASSUME UNCHANGED <<owner, items>>,
             pc \notin {"append", "write", "extend", "link", "walk", "shrink", "reappend"}
      PROVE  FALSE
  <2>1. Held = {}
    BY <1>2 DEF Held, Copying
  <2> QED BY <1>2, <2>1, KeepsNames
<1>2a. ASSUME UNCHANGED <<owner, items, op, made, todo>>,
              \/ pc' \in {"append", "write", "extend", "link", "walk"}
              \/ pc = "shrink" /\ pc' \in {"shrink", "reappend"}
       PROVE  FALSE
  <2>1. Held \subseteq Held'
    BY <1>2a DEF Held, Copying
  <2> QED BY <1>2a, <2>1, KeepsNames
<1>3. CASE UNCHANGED vars
  <2>1. Held' = Held /\ UNCHANGED <<owner, items>>
    BY <1>3 DEF vars, Held
  <2> QED BY <2>1, KeepsNames
<1>4. CASE \/ \E r \in Requests : Serve(r)
           \/ locate_path \/ fsop_Read \/ fsop_ReadDir \/ fsop_Stat \/ fsop_Write \/ fsop_Create
  BY <1>1, <1>2, <1>4 DEF Serve, locate_path, fsop_Read, fsop_ReadDir, fsop_Stat, fsop_Write,
     fsop_Create, TakeFree, Located
<1>5. CASE fsop_Remove
  BY <1>1, <1>5, RemoveNames
<1>6. CASE init_new_file \/ ExtendLink
  BY <1>6, GivenNames
<1>7. CASE LastVisit
  BY <1>7, VisitNames
<1>8. CASE write_file_unchecked
  <2>1. CASE length = 0
    <3>1. Held = {} /\ UNCHANGED <<owner, items>>
      BY <1>8, <2>1 DEF write_file_unchecked, Held, Clean, WriteAtHand, Copying, Abandon, Refuse
    <3> QED BY <3>1, KeepsNames
  <2>2. CASE length # 0
    <3>1. \/ Refuse
          \/ pc = "write" /\ pc' \in {"extend", "walk"} /\ UNCHANGED <<owner, items, op, made, todo>>
      BY <1>8, <2>2 DEF write_file_unchecked, StartWalk
    <3> QED BY <1>1, <1>2a, <3>1
  <2> QED BY <2>1, <2>2
<1>9. CASE mark_new_block \/ append_directory \/ ExtendFind \/ ExtendDone
  <2>1. \/ Refuse \/ Internal
        \/ /\ UNCHANGED <<owner, items, op, made, todo>>
           /\ pc = "init" \/ pc' \in {"write", "link", "walk"}
    BY <1>9 DEF mark_new_block, append_directory, ExtendFind, ExtendDone, TakeFree, StartWalk
  <2> QED BY <1>1, <1>2, <1>2a, <2>1
<1>10. CASE Hop
  <2>1. \/ Abandon("lost") \/ Abandon("internal")
        \/ UNCHANGED <<owner, items, op, made, todo>> /\ pc' = "walk"
    BY <1>10 DEF Hop
  <2>2. "lost" \notin {"none", "ok"} /\ "internal" \notin {"none", "ok"}
    OBVIOUS
  <2> QED BY <1>1, <1>2a, <2>1, <2>2
<1>11. CASE PurgeBlock \/ ShrinkDone
  BY <1>1, <1>2, <1>2a, <1>11 DEF PurgeBlock, ShrinkDone
<1>12. CASE Reappend
  <2>1. UNCHANGED <<owner, items, op, made, todo>> /\ pc = "reappend" /\ op.type = "Remove"
    BY <1>12 DEF Reappend, Clean, FileAtHand
  <2>2. Held \subseteq Held'
    <3>1. CASE todo = <<>>
      BY <2>1, <3>1 DEF Held
    <3>2. CASE todo # <<>>
      BY <1>12, <2>1, <3>2 DEF Held, Reappend
    <3> QED BY <3>1, <3>2
  <2> QED BY <2>1, <2>2, KeepsNames
<1>13. CASE purge_file \/ PurgeFileDone \/ RemoveDone \/ Answer
  BY <1>1, <1>2, <1>13 DEF purge_file, PurgeFileDone, RemoveDone, Answer
<1> QED BY <1>1, <1>3, <1>4, <1>5, <1>6, <1>7, <1>8, <1>9, <1>10, <1>11, <1>12, <1>13
     DEF Next, Work, Step

LEMMA LossStep ==
  ASSUME BlocksInv, BlocksInv', [Next]_vars, ~UNCHANGED vars, ~torn', NEW b \in Lost' \ Lost
  PROVE  KnownLoss(b)
<1>1. TypeOK /\ TypeOK' /\ ~torn
  BY TornStays DEF BlocksInv, IInv
<1>2. Clean /\ MarkAtHand /\ NobodysBlocks'
  BY <1>1 DEF BlocksInv, IInv
<1>3. CASE ~InChain(b)'
  BY <1>1, <1>2, <1>3, LossOfMarked
<1>4. CASE InChain(b)'
  <2>1. b \in lookup_table' /\ IsHead(b)' /\ ~Linked(b)' /\ b \notin Held'
    BY <1>4 DEF Lost
  <2>2. b \in Block
    BY <1>1, <2>1 DEF TypeOK, ImageTypeOK
  <2>3. ~(init_new_file /\ b = found)
    <3>1. ASSUME init_new_file, b = found PROVE FALSE
      <4>1. pc = "header" /\ pc' = "append" /\ made' = found /\ op' = op /\ op.type = "Create"
        BY <1>2, <3>1 DEF init_new_file, Clean, WriteAtHand
      <4>2. Held' = {made'}
        BY <4>1 DEF Held
      <4> QED BY <2>1, <3>1, <4>1, <4>2
    <3> QED BY <3>1
  <2>4. IsHead(b)
    BY <1>1, <1>2, <2>1, <2>2, <2>3, HeadsAreMade
  <2>5. b \in lookup_table \ Metadata /\ InChain(b)
    BY <1>2, <2>2, <2>4 DEF Clean, Consistent, Marked, InChain, IsHead
  <2>6. Linked(b) \/ b \in Held
    BY <2>4, <2>5 DEF Lost
  <2> QED BY <1>1, <1>2, <2>1, <2>6, NamesStep DEF Parted
<1> QED BY <1>3, <1>4

(* Whatever is requested and wherever the daemon is killed, a clean image  *)
(* loses a block only to an rm of the entry that names it, or to a handler *)
(* that was cut short before it had named it.                              *)
THEOREM LossesStayKnown == Spec => LossesAreKnown
<1>1. BlocksInv /\ BlocksInv' /\ [Next]_vars
        => [~torn' =>
              \A b \in Lost' \ Lost :
                \/ pc = "locate" /\ op.type = "Remove"
                   /\ b = items[file][item_index' + 1].inode
                \/ pc # "idle" /\ reply' \notin {"none", "ok"}
                   /\ b \in Held \cup ToBeStored]_vars
  BY LossStep DEF KnownLoss
<1> QED BY <1>1, SpecBlocksInv, PTL DEF Spec, LossesAreKnown
-----------------------------------------------------------------------------
(* What a request can see: every file some entry names, and of it this.    *)
View(b) == [size |-> inode[b].size, flags |-> inode[b].flags, items |-> items[b]]
Seen    == {b \in Block : IsHead(b) /\ Linked(b)}

FileView == [size : Nat, flags : {0, FLG_DIRECTORY, FLG_FILE}, items : Seq(Item)]

(* A tree like that, and the ways through it.                              *)
WholeTree(fs) ==
  /\ root_inode \in DOMAIN fs
  /\ \A f \in DOMAIN fs : \A i \in DOMAIN fs[f].items : fs[f].items[i].inode \in DOMAIN fs

First(fs, d, name) ==
  {i \in DOMAIN fs[d].items :
     /\ fs[d].items[i].name = name
     /\ \A j \in 1 .. i - 1 : fs[d].items[j].name # name}

Entered(fs, d, name) == {fs[d].items[i].inode : i \in First(fs, d, name)}

Reach(fs, path) ==
  LET reach[n \in 0 .. Len(path)] ==
        IF n = 0 THEN {root_inode}
        ELSE UNION { {fs[d].items[i].inode : i \in First(fs, d, path[n])} :
                     d \in {e \in reach[n - 1] : fs[e].flags = FLG_DIRECTORY} }
  IN  reach

Rest(fs, d, i) == SubSeq(fs[d].items, 1, i - 1)
                    \o SubSeq(fs[d].items, i + 1, Len(fs[d].items))

(* The way the handler of a request walks.                                 *)
WayOf(r) == IF r.type \in {"Create", "Remove"} THEN SubSeq(r.path, 1, Len(r.path) - 1)
            ELSE r.path
Way == WayOf(op)

LEMMA ReachStep ==
  ASSUME NEW fs, WholeTree(fs), NEW path \in Seq(Names)
  PROVE  /\ Reach(fs, path)[0] = {root_inode}
         /\ \A n \in 1 .. Len(path) :
              Reach(fs, path)[n] = UNION {Entered(fs, d, path[n]) :
                                       d \in {e \in Reach(fs, path)[n - 1] :
                                           fs[e].flags = FLG_DIRECTORY}}
<1> DEFINE V == SUBSET DOMAIN fs
           Go(n, v) == UNION {Entered(fs, d, path[n]) :
               d \in {e \in v : fs[e].flags = FLG_DIRECTORY}}
           Value(g, n) == IF n = 0 THEN {root_inode}
                          ELSE UNION { {fs[d].items[i].inode : i \in First(fs, d, path[n])} :
                                         d \in {e \in g[n - 1] : fs[e].flags = FLG_DIRECTORY} }
           Whole(g) == [n \in 0 .. Len(path) |-> Value(g, n)]
<1>1. PICK m \in Nat : m = Len(path)
  OBVIOUS
<1>2. ASSUME NEW n \in 1 .. m, NEW v \in V PROVE Go(n, v) \in V
  <2>1. \A d \in v : Entered(fs, d, path[n]) \subseteq DOMAIN fs
    BY DEF Entered, First, WholeTree
  <2> QED BY <2>1
<1>3. PICK way : way = [n \in 1 .. m |-> [v \in V |-> Go(n, v)]]
  OBVIOUS
<1> HIDE DEF Go
<1>4. way \in Ways(m, V)
  BY <1>2, <1>3 DEF Ways
<1>5. {root_inode} \in V
  BY DEF WholeTree
<1> HIDE DEF V
<1>6. PICK f : Follows(f, m, V, {root_inode}, way)
  BY <1>4, <1>5, StepByStep
<1>7. f \in [0 .. m -> V] /\ f[0] = {root_inode} /\ \A n \in 1 .. m : f[n] = way[n][f[n - 1]]
  BY <1>6 DEF Follows
<1>7a. \A n \in 1 .. m : n - 1 \in 0 .. m /\ f[n - 1] \in V
  BY <1>7
<1>8. \A n \in 1 .. m : f[n] = Go(n, f[n - 1])
  BY <1>3, <1>7, <1>7a
<1>9. \A n \in 0 .. m : n = 0 \/ n \in 1 .. m
  OBVIOUS
<1>10. f = Whole(f)
  <2>1. \A n \in 0 .. m : f[n] = Value(f, n)
    BY <1>7, <1>8, <1>9 DEF Go, Entered
  <2> HIDE DEF Value
  <2> QED BY <1>1, <1>7, <2>1
<1>11. PICK g : g = CHOOSE h : h = Whole(h)
  OBVIOUS
<1>12. g = Whole(g)
  BY <1>10, <1>11
<1>13. Reach(fs, path) = g
  BY <1>11 DEF Reach
<1>14. g[0] = {root_inode} /\ \A n \in 1 .. m : g[n] = Go(n, g[n - 1])
  <2> HIDE DEF Value
  <2>1. \A n \in 0 .. m : g[n] = Value(g, n)
    <3>1. PICK h : h = Whole(g)
      OBVIOUS
    <3>2. \A n \in 0 .. m : h[n] = Value(g, n)
      BY <1>1, <3>1
    <3> QED BY <1>12, <3>1, <3>2
  <2>2. g[0] = {root_inode}
    <3>1. 0 \in 0 .. m
      OBVIOUS
    <3> QED BY <2>1, <3>1 DEF Value
  <2>3. ASSUME NEW n \in 1 .. m PROVE g[n] = Go(n, g[n - 1])
    <3>1. n \in 0 .. m /\ n # 0
      OBVIOUS
    <3> QED BY <2>1, <3>1 DEF Value, Go, Entered
  <2> QED BY <2>2, <2>3
<1> QED BY <1>1, <1>13, <1>14 DEF Go

LEMMA SameReach ==
  ASSUME NEW path, pc # "idle"
  PROVE  Store!At(path) = Reach(before, path)[Len(path)]
BY DEF Store!At, Reach, Store!IsDir, Store!Position, First
-----------------------------------------------------------------------------
(* What a handler at work on a clean image has done so far, told by what   *)
(* was visible when its request arrived.                                   *)
Remembered ==
  /\ before \in [DOMAIN before -> FileView] /\ WholeTree(before)
  /\ \A f \in DOMAIN before : f \in Block /\ IsHead(f) /\ (f # file => View(f) = before[f])

(* The file it works on is the one its path leads to.                      *)
Found ==
  /\ file \in DOMAIN before
  /\ pc # "locate" => Reach(before, Way)[Len(Way)] = {file}
  /\ pc = "locate" =>
       /\ Reach(before, Way)[ord] = {file} /\ ord \in 0 .. Len(Way)
       /\ op.path # <<>> \/ op.type \notin {"Create", "Remove"} => goal = Len(Way)

Looking == op.type \in {"Read", "Stat", "ReadDir"}

Untouched ==
  \/ Looking
  \/ pc \in {"locate", "init", "header"}
  \/ op.type \in {"Create", "Write"} /\ pc \in {"append", "write"}
  => Seen = DOMAIN before /\ View(file) = before[file]

(* mkfile and mkdir: the new file exists before its entry does, and the    *)
(* directory has its size before that.                                     *)
Creating ==
  op.type = "Create" =>
    /\ pc \in {"append", "write", "extend", "link", "walk", "answer"} =>
         made \in Block /\ made \notin DOMAIN before /\ IsHead(made)
         /\ View(made) = [size |-> 0, flags |-> op.flags, items |-> <<>>]
    /\ pc \in {"write", "extend", "link", "walk", "answer"} => before[file].flags = FLG_DIRECTORY
    /\ pc \in {"extend", "link", "walk"} =>
         /\ Seen = DOMAIN before
         /\ View(file) = [before[file] EXCEPT !.size = before[file].size + 1]
    /\ pc = "answer" =>
         /\ Seen = DOMAIN before \cup {made}
         /\ View(file) = [before[file] EXCEPT
                            !.size = before[file].size + 1,
                            !.items = Append(before[file].items,
                                [name |-> BaseName, inode |-> made])]

(* write: the file has its new size before the blocks it needs for it.     *)
Larger(size) == IF op.length = 0 \/ op.offset + op.length <= size THEN size
                ELSE op.offset + op.length

WritingTo ==
  op.type = "Write" =>
    /\ pc = "write" => offset = op.offset /\ length = op.length
    /\ pc \in {"write", "extend", "link", "walk", "answer"} => before[file].flags = FLG_FILE
    /\ pc \in {"extend", "link", "walk", "answer"} =>
         /\ Seen = DOMAIN before
         /\ op.length = 0 \/ op.offset <= before[file].size
         /\ View(file) = [before[file] EXCEPT !.size = Larger(before[file].size)]

(* rm: what the directory holds and what is still to be put back are the   *)
(* entries it had but for the one.                                         *)
Removing ==
  op.type = "Remove" /\ pc \in {"shrink", "reappend", "append", "write", "extend", "link",
                                "walk", "purge", "purge_blocks", "answer"} =>
    /\ Seen \subseteq DOMAIN before
    /\ before[file].flags = FLG_DIRECTORY /\ IsDirectory(file)
    /\ item_index + 1 \in First(before, file, BaseName)
    /\ items[file] \o todo = Rest(before, file, item_index + 1)
    /\ pc \in {"purge", "purge_blocks", "answer"} => todo = <<>>

Tale == Remembered /\ Found /\ Untouched /\ Creating /\ WritingTo /\ Removing

-----------------------------------------------------------------------------
LEMMA VisibleIs == DOMAIN Visible = Seen /\ Visible = [b \in Seen |-> View(b)]
BY DEF Visible, Seen, View

LEMMA WayFacts ==
  ASSUME NEW r \in Requests
  PROVE  /\ WayOf(r) \in Seq(Names) /\ Len(WayOf(r)) \in Nat
         /\ r.type \notin {"Create", "Remove"} => Len(WayOf(r)) = Len(r.path)
         /\ r.type \in {"Create", "Remove"} =>
              Len(WayOf(r)) = IF r.path = <<>> THEN 0 ELSE Len(r.path) - 1
         /\ \A n \in 1 .. Len(WayOf(r)) : WayOf(r)[n] = r.path[n]
<1>1. PICK p \in Seq(Names) : p = r.path
  BY RequestAssumption
<1>2. CASE r.type \notin {"Create", "Remove"}
  BY <1>1, <1>2 DEF WayOf
<1>3. CASE r.type \in {"Create", "Remove"}
  <2>1. WayOf(r) = SubSeq(p, 1, Len(p) - 1)
    BY <1>1, <1>3 DEF WayOf
  <2>2. CASE p = <<>>
    <3>1. WayOf(r) \in Seq(Names) /\ Len(WayOf(r)) = 0
      BY <2>1, <2>2
    <3> QED BY <1>1, <1>3, <2>2, <3>1
  <2>3. CASE p # <<>>
    <3>1. PICK m \in Nat : m = Len(p) - 1 /\ \A n \in 1 .. m : n \in 1 .. Len(p)
      BY <2>3
    <3>2. PICK q : q = SubSeq(p, 1, m)
      OBVIOUS
    <3>3. q \in Seq(Names) /\ Len(q) = m
      BY <3>1, <3>2
    <3>4. \A n \in 1 .. m : q[n] = p[n]
      BY <3>1, <3>2
    <3> QED BY <1>1, <1>3, <2>1, <2>3, <3>1, <3>2, <3>3, <3>4
  <2> QED BY <2>2, <2>3
<1> QED BY <1>2, <1>3

LEMMA ViewType ==
  ASSUME TypeOK, NEW b \in Block
  PROVE  /\ View(b) \in FileView
         /\ View(b).size = inode[b].size /\ View(b).flags = inode[b].flags /\
              View(b).items = items[b]
BY DEF View, FileView, TypeOK, ImageTypeOK, HeadInfo

(* What an entry that is seen names is seen as well.                       *)
LEMMA SeenWhole ==
  ASSUME TypeOK, Consistent
  PROVE  WholeTree(Visible)
<1>1. root_inode \in Seen
  BY RootIsBlock DEF Consistent, DirectoriesOK, Seen, Linked
<1>2. ASSUME NEW f \in Seen, NEW i \in DOMAIN items[f] PROVE items[f][i].inode \in Seen
  <2>1. f \in Block /\ IsHead(f)
    BY DEF Seen
  <2>2. items[f][i].inode \in Block /\ IsHead(items[f][i].inode)
    BY <2>1 DEF Consistent, DirectoriesOK
  <2> QED BY <2>1, <2>2 DEF Seen, Linked
<1>3. \A f \in Seen : Visible[f].items = items[f]
  BY VisibleIs DEF View
<1> QED BY <1>1, <1>2, <1>3, VisibleIs DEF WholeTree

(* A request arrives.                                                      *)
LEMMA ServeTale ==
  ASSUME TypeOK, Clean, NEW r \in Requests, Serve(r), TypeOK'
  PROVE  Tale'
<1>1. /\ pc' = "locate" /\ op' = r /\ before' = Visible /\ file' = root_inode /\ ord' = 0
      /\ goal' = IF r.type \notin {"Create", "Remove"} THEN Len(r.path)
                 ELSE IF r.path = <<>> THEN 1 ELSE Len(r.path) - 1
      /\ UNCHANGED <<inode, items, owner>>
  BY DEF Serve
<1>2. WholeTree(before') /\ root_inode \in DOMAIN before'
  BY <1>1, SeenWhole DEF Clean, WholeTree
<1>3. /\ DOMAIN before' = Seen
      /\ \A f \in Seen : f \in Block /\ IsHead(f) /\ before'[f] = View(f) /\ View(f) \in FileView
  BY <1>1, VisibleIs, ViewType DEF Seen
<1>4. Seen' = Seen /\ (\A b : View(b)' = View(b)) /\ (\A b : IsHead(b)' = IsHead(b))
  BY <1>1 DEF Seen, Linked, IsHead, View
<1>5. Remembered'
  <2>1. before' \in [DOMAIN before' -> FileView]
    BY <1>1, <1>3, VisibleIs
  <2> QED BY <1>2, <1>3, <1>4, <2>1 DEF Remembered
<1>6. Found'
  <2>1. Way' = WayOf(r) /\ WayOf(r) \in Seq(Names) /\ Len(WayOf(r)) \in Nat
    BY <1>1, WayFacts DEF Way
  <2>2. Reach(before', WayOf(r))[0] = {root_inode}
    BY <1>2, <2>1, ReachStep
  <2>3. r.path # <<>> \/ r.type \notin {"Create", "Remove"} => goal' = Len(WayOf(r))
    BY <1>1, WayFacts
  <2> QED BY <1>1, <1>2, <2>1, <2>2, <2>3 DEF Found
<1>7. Untouched'
  BY <1>1, <1>2, <1>3, <1>4 DEF Untouched
<1>8. Creating' /\ WritingTo' /\ Removing'
  BY <1>1 DEF Creating, WritingTo, Removing
<1> QED BY <1>5, <1>6, <1>7, <1>8 DEF Tale
-----------------------------------------------------------------------------
(* find_directory_item looks where the abstract lookup does.               *)
LEMMA HitsAreFirst ==
  ASSUME TypeOK, NEW d \in Block, NEW name, before[d].items = items[d]
  PROVE  /\ Hits(d, name) = First(before, d, name)
         /\ \A i, j \in Hits(d, name) : i = j
         /\ \A i \in Hits(d, name) : i \in 1 .. Len(items[d])
<1>1. items[d] \in Seq(Item)
  BY DEF TypeOK, ImageTypeOK
<1>2. PICK s \in Seq(Item) : s = items[d]
  BY <1>1
<1>3. DOMAIN s = 1 .. Len(s) /\ Len(s) \in Nat
  OBVIOUS
<1>4. Hits(d, name) = {i \in 1 .. Len(s) : s[i].name = name /\ \A k \in 1 .. Len(s) :
        s[k].name = name => i <= k}
  BY <1>2, <1>3 DEF Hits, Least
<1>5. First(before, d, name) = {i \in 1 .. Len(s) : s[i].name = name /\
        \A k \in 1 .. i - 1 : s[k].name # name}
  BY <1>2, <1>3 DEF First
<1>6. \A i \in Hits(d, name) : i \in First(before, d, name)
  BY <1>3, <1>4, <1>5
<1>7. \A i \in First(before, d, name) : i \in Hits(d, name)
  BY <1>3, <1>4, <1>5
<1>8. \A i, j \in Hits(d, name) : i = j
  BY <1>3, <1>4
<1> QED BY <1>2, <1>4, <1>6, <1>7, <1>8

(* One step down the path.                                                 *)
LEMMA LocateTale ==
  ASSUME TypeOK, Tale, locate_path, ~Refuse
  PROVE  Tale'
<1>1. /\ pc = "locate" /\ pc' = "locate" /\ ord < goal /\ ord' = ord + 1 /\ op.path # <<>>
      /\ IsDirectory(file)
      /\ \E i \in Hits(file, op.path[ord + 1]) : file' = items[file][i].inode
      /\ UNCHANGED <<inode, items, owner, op, goal, before>>
  BY DEF locate_path
<1>2. PICK i \in Hits(file, op.path[ord + 1]) : file' = items[file][i].inode
  BY <1>1
<1>3. /\ file \in DOMAIN before /\ file \in Block /\ View(file) = before[file] /\
           Seen = DOMAIN before
      /\ Reach(before, Way)[ord] = {file} /\ ord \in 0 .. Len(Way) /\ goal = Len(Way) /\ ord \in Nat
  BY <1>1 DEF Tale, Found, Remembered, Untouched
<1>4. before[file].items = items[file] /\ before[file].flags = FLG_DIRECTORY
  BY <1>1, <1>3, ViewType DEF IsDirectory
<1>5. Way \in Seq(Names) /\ Len(Way) \in Nat /\ \A n \in 1 .. Len(Way) : Way[n] = op.path[n]
  BY WayFacts DEF Way, TypeOK, HandlerTypeOK
<1>6. ord + 1 \in 1 .. Len(Way) /\ ord + 1 - 1 = ord
  BY <1>1, <1>3, <1>5
<1>7. Reach(before, Way)[ord + 1] = {file'}
  <2>1. Reach(before, Way)[ord + 1] = UNION {Entered(before, d, Way[ord + 1]) :
                       d \in {e \in Reach(before, Way)[ord] : before[e].flags = FLG_DIRECTORY}}
    <3>1. WholeTree(before)
      BY DEF Tale, Remembered
    <3>2. \A n \in 1 .. Len(Way) : Reach(before, Way)[n] = UNION {Entered(before, d, Way[n]) :
                       d \in {e \in Reach(before, Way)[n - 1] : before[e].flags = FLG_DIRECTORY}}
      BY <1>5, <3>1, ReachStep
    <3>3. PICK n \in 1 .. Len(Way) : n = ord + 1
      BY <1>6
    <3>5. n - 1 = ord
      BY <1>3, <3>3
    <3>4. Reach(before, Way)[n] = UNION {Entered(before, d, Way[n]) :
                       d \in {e \in Reach(before, Way)[n - 1] : before[e].flags = FLG_DIRECTORY}}
      BY <3>2
    <3> QED BY <3>3, <3>4, <3>5
  <2>2. {e \in Reach(before, Way)[ord] : before[e].flags = FLG_DIRECTORY} = {file}
    BY <1>3, <1>4
  <2>3. Reach(before, Way)[ord + 1] = Entered(before, file, Way[ord + 1])
    BY <2>1, <2>2
  <2>4. First(before, file, Way[ord + 1]) = {i}
    BY <1>2, <1>3, <1>4, <1>5, <1>6, HitsAreFirst
  <2>5. Entered(before, file, Way[ord + 1]) = {items[file][i].inode}
    BY <1>4, <2>4 DEF Entered
  <2> QED BY <1>2, <2>3, <2>5
<1>8. file' \in DOMAIN before
  <2>1. i \in DOMAIN before[file].items
    BY <1>4, <1>2, HitsInDomain
  <2> QED BY <1>2, <1>3, <1>4, <2>1 DEF Tale, Remembered, WholeTree
<1>9. Seen' = Seen /\ (\A b : View(b)' = View(b)) /\ (\A b : IsHead(b)' = IsHead(b))
  BY <1>1 DEF Seen, Linked, IsHead, View
<1>10. \A f \in DOMAIN before : f \in Block /\ IsHead(f) /\ View(f) = before[f]
  BY <1>3 DEF Tale, Remembered
<1>11. Remembered'
  <2>1. before' \in [DOMAIN before' -> FileView] /\ WholeTree(before')
    BY <1>1 DEF Tale, Remembered
  <2> QED BY <1>1, <1>9, <1>10, <2>1 DEF Remembered
<1>12. PICK g \in DOMAIN before : g = file'
  BY <1>8
<1>13. Found'
  BY <1>1, <1>3, <1>5, <1>6, <1>7, <1>8 DEF Found, Way
<1>14. Untouched'
  <2>1. View(g)' = before[g]
    BY <1>9, <1>10
  <2>2. View(file)' = View(g)'
    BY <1>12 DEF View
  <2> QED BY <1>1, <1>3, <1>9, <1>12, <2>1, <2>2 DEF Untouched
<1>15. Creating' /\ WritingTo' /\ Removing'
  BY <1>1 DEF Creating, WritingTo, Removing
<1> QED BY <1>11, <1>13, <1>14, <1>15 DEF Tale
-----------------------------------------------------------------------------
(* A step after which every file looks as before it.                       *)
SameSight ==
  /\ UNCHANGED <<before, op, file, items>>
  /\ Seen' = Seen
  /\ \A b \in Block : IsHead(b) => IsHead(b)' /\ View(b)' = View(b)

LEMMA SightStays ==
  ASSUME UNCHANGED <<before, op, file, items, inode, owner>>
  PROVE  SameSight
BY DEF SameSight, Seen, Linked, IsHead, View

(* A step on the way, to where the same is known.                          *)
Onward ==
  \/ Looking
  \/ pc = "locate" /\ pc' = "init"
  \/ op.type = "Create" /\ pc = "init" /\ pc' = "header"
  \/ op.type = "Write" /\ pc \in {"extend", "link", "walk"} /\
       pc' \in {"extend", "link", "walk", "answer"}
  \/ op.type = "Create" /\ pc \in {"extend", "link", "walk"} /\ pc' \in {"extend", "link", "walk"}
  \/ /\ op.type = "Remove"
     /\ pc \in {"shrink", "reappend", "append", "extend", "link", "walk"}
     /\ pc' \in {"shrink", "reappend", "append", "write", "extend", "link", "walk"}
  \/ /\ op.type = "Remove"
     /\ pc \in {"purge", "purge_blocks"} /\ pc' \in {"purge", "purge_blocks", "answer"}
  \/ pc = "reappend" /\ pc' = "purge" /\ todo = <<>>

LEMMA OnwardTale ==
  ASSUME TypeOK, Tale, Onward, SameSight, UNCHANGED <<made, item_index, todo>>,
         pc = "locate" => ord = goal /\ (op.path # <<>> \/ op.type \notin {"Create", "Remove"}),
         pc' \notin {"idle", "locate"}
  PROVE  Tale'
<1>1. file \in Block /\ IsHead(file) /\ file \in DOMAIN before
  BY DEF Tale, Found, Remembered
<1>2. View(file)' = View(file) /\ IsDirectory(file)' = IsDirectory(file)
  <2>1. View(file)' = View(file)
    BY <1>1 DEF SameSight
  <2>2. View(file).flags = inode[file].flags /\ View(file)'.flags = inode'[file'].flags
    BY DEF View
  <2> QED BY <2>1, <2>2 DEF IsDirectory
<1>3. Remembered'
  <2>1. before' = before /\ file' = file
    BY DEF SameSight
  <2>2. \A f \in DOMAIN before : f \in Block /\ IsHead(f) /\ (f # file => View(f) = before[f])
    BY DEF Tale, Remembered
  <2>3. \A f \in DOMAIN before : IsHead(f)' /\ (f # file => View(f)' = before[f])
    BY <2>2 DEF SameSight
  <2> QED BY <2>1, <2>2, <2>3 DEF Tale, Remembered
<1>4. Found'
  <2>1. Way' = Way
    BY DEF SameSight, Way
  <2>2. Reach(before, Way)[Len(Way)] = {file}
    BY DEF Tale, Found
  <2> QED BY <1>1, <2>1, <2>2 DEF SameSight, Found
<1>5. Untouched'
  BY <1>2 DEF SameSight, Onward, Tale, Untouched, Looking
<1>6. Creating'
  <2>1. CASE op.type # "Create" \/ pc' \notin {"extend", "link", "walk"}
    BY <2>1 DEF SameSight, Onward, Creating, Looking
  <2>2. CASE op.type = "Create" /\ pc' \in {"extend", "link", "walk"}
    <3>1. pc \in {"extend", "link", "walk"}
      BY <2>2 DEF Onward, Looking
    <3>2. /\ made \in Block /\ made \notin DOMAIN before /\ IsHead(made)
          /\ View(made) = [size |-> 0, flags |-> op.flags, items |-> <<>>]
          /\ before[file].flags = FLG_DIRECTORY /\ Seen = DOMAIN before
          /\ View(file) = [before[file] EXCEPT !.size = before[file].size + 1]
      BY <2>2, <3>1 DEF Tale, Creating
    <3>3. View(made)' = View(made) /\ IsHead(made)'
      <4>1. IsHead(made)' /\ \A b \in Block : IsHead(b) => View(b)' = View(b)
        BY <3>2 DEF SameSight, IsHead
      <4> QED BY <3>2, <4>1 DEF View
    <3> QED BY <1>2, <2>2, <3>2, <3>3 DEF SameSight, Creating
  <2> QED BY <2>1, <2>2
<1>7. WritingTo'
  <2>1. CASE op.type # "Write" \/ pc' \notin {"extend", "link", "walk", "answer"}
    BY <2>1 DEF SameSight, Onward, WritingTo, Looking
  <2>2. CASE op.type = "Write" /\ pc' \in {"extend", "link", "walk", "answer"}
    <3>1. pc \in {"extend", "link", "walk"}
      BY <2>2 DEF Onward, Looking
    <3> QED BY <1>2, <2>2, <3>1 DEF SameSight, Tale, WritingTo, Larger
  <2> QED BY <2>1, <2>2
<1>8. Removing'
  <2>1. CASE op.type # "Remove" \/ pc' = "init"
    BY <2>1 DEF SameSight, Removing
  <2>2. CASE op.type = "Remove" /\ pc' # "init"
    <3>1. /\ pc \in {"shrink", "reappend", "append", "write", "extend", "link", "walk",
               "purge", "purge_blocks"}
          /\ pc' \in {"purge", "purge_blocks", "answer"} =>
               pc \in {"purge", "purge_blocks"} \/ todo = <<>>
      BY <2>2 DEF Onward, Looking
    <3> QED BY <1>2, <2>2, <3>1 DEF SameSight, Tale, Removing, BaseName
  <2> QED BY <2>1, <2>2
<1> QED BY <1>3, <1>4, <1>5, <1>6, <1>7, <1>8 DEF Tale
-----------------------------------------------------------------------------
(* Storing last_inode shows nowhere, nor does a block that joins a file.   *)
LEMMA SightLast ==
  ASSUME TypeOK, UNCHANGED <<before, op, file, items, owner>>,
         NEW last, inode' = [inode EXCEPT ![file].last_inode = last]
  PROVE  SameSight
<1>1. \A b \in Block : inode'[b].size = inode[b].size /\ inode'[b].flags = inode[b].flags
  <2>1. inode \in [Block -> HeadInfo]
    BY DEF TypeOK, ImageTypeOK
  <2> QED BY <2>1 DEF HeadInfo
<1>2. \A b \in Block : View(b)' = View(b)
  BY <1>1 DEF View
<1>3. Seen' = Seen /\ \A b : IsHead(b)' = IsHead(b)
  BY DEF Seen, Linked, IsHead
<1> QED BY <1>2, <1>3 DEF SameSight

LEMMA SightLink ==
  ASSUME TypeOK, Clean, ExtendLink
  PROVE  SameSight
<1>1. /\ pc = "link" /\ UNCHANGED <<before, op, file, items>>
      /\ inode' = [inode EXCEPT ![found].flags = 0]
      /\ owner' = [owner EXCEPT ![found] = file]
  BY DEF ExtendLink
<1>2. found \in Block /\ owner[found] = 0 /\ IsHead(file) /\ file \in lookup_table /\
        found \notin lookup_table
  BY <1>1 DEF Clean, FileAtHand, Consistent, Marked, InChain, IsHead, TypeOK, HandlerTypeOK
<1>3. owner \in [Block -> Nat] /\ inode \in [Block -> HeadInfo]
  BY DEF TypeOK, HistoryTypeOK, ImageTypeOK
<1>4. \A b \in Block : IsHead(b)' = IsHead(b)
  BY <1>1, <1>2, <1>3 DEF IsHead
<1>5. Seen' = Seen
  BY <1>1, <1>4 DEF Seen, Linked
<1>6. \A b \in Block : IsHead(b) => View(b)' = View(b)
  <2>1. \A b \in Block : b # found => inode'[b] = inode[b]
    BY <1>1, <1>3
  <2>2. \A b \in Block : IsHead(b) => b # found
    BY <1>2 DEF IsHead
  <2> QED BY <1>1, <2>1, <2>2 DEF View
<1> QED BY <1>1, <1>4, <1>5, <1>6 DEF SameSight

LEMMA PathGiven ==
  ASSUME TypeOK, Task, pc = "locate", ord = goal
  PROVE  op.path # <<>> \/ op.type \notin {"Create", "Remove"}
BY DEF Task, TypeOK, HandlerTypeOK

LEMMA LookTale ==
  ASSUME TypeOK, Task, Tale, fsop_Read \/ fsop_ReadDir \/ fsop_Stat, ~Refuse
  PROVE  Tale'
<1>1. /\ pc = "locate" /\ ord = goal /\ Looking /\ pc' \in {"walk", "answer"}
      /\ UNCHANGED <<before, op, file, items, inode, owner, made, item_index, todo>>
  BY DEF fsop_Read, fsop_ReadDir, fsop_Stat, Located, Finish, StartWalk, Looking
<1> QED BY <1>1, PathGiven, SightStays, OnwardTale DEF Onward

LEMMA WriteTale ==
  ASSUME TypeOK, Task, Tale, fsop_Write, ~Refuse
  PROVE  Tale'
<1>1. /\ pc = "locate" /\ ord = goal /\ op.type = "Write" /\ pc' = "write" /\ IsFile(file)
      /\ offset' = op.offset /\ length' = op.length
      /\ UNCHANGED <<before, op, file, items, inode, owner, made, item_index, todo>>
  BY DEF fsop_Write, Located
<1>2. SameSight
  BY <1>1, SightStays
<1>3. /\ file \in DOMAIN before /\ file \in Block /\ IsHead(file)
      /\ Seen = DOMAIN before /\ View(file) = before[file]
      /\ Reach(before, Way)[Len(Way)] = {file}
  BY <1>1, PathGiven DEF Tale, Found, Remembered, Untouched
<1>4. before[file].flags = FLG_FILE
  BY <1>1, <1>3, ViewType DEF IsFile
<1>5. View(file)' = View(file)
  BY <1>2, <1>3 DEF SameSight
<1>6. Remembered'
  BY <1>1, <1>2 DEF SameSight, Tale, Remembered, IsHead, View
<1>7. Found' /\ Untouched'
  BY <1>1, <1>2, <1>3, <1>5 DEF SameSight, Found, Untouched, Way
<1>8. Creating' /\ Removing'
  BY <1>1 DEF Creating, Removing
<1>9. WritingTo'
  BY <1>1, <1>4 DEF WritingTo
<1> QED BY <1>6, <1>7, <1>8, <1>9 DEF Tale

LEMMA CreateTale ==
  ASSUME TypeOK, Task, Tale, fsop_Create, ~Refuse, ~Internal
  PROVE  Tale'
<1>1. /\ pc = "locate" /\ ord = goal /\ pc' = "init"
      /\ UNCHANGED <<before, op, file, items, inode, owner, made, item_index, todo>>
  BY DEF fsop_Create, Located, TakeFree
<1> QED BY <1>1, PathGiven, SightStays, OnwardTale DEF Onward

LEMMA MarkNewTale ==
  ASSUME TypeOK, Task, Tale, mark_new_block
  PROVE  Tale'
<1>1. /\ pc = "init" /\ pc' = "header" /\ op.type = "Create"
      /\ UNCHANGED <<before, op, file, items, inode, owner, made, item_index, todo>>
  BY DEF mark_new_block, Task
<1> QED BY <1>1, SightStays, OnwardTale DEF Onward

(* The new file is a file from now on, and not seen.                       *)
LEMMA InitNewFileTale ==
  ASSUME TypeOK, Clean, MarkAtHand, Task, Tale, init_new_file
  PROVE  Tale'
<1>1. /\ pc = "header" /\ pc' = "append" /\ op.type = "Create" /\ made' = found
      /\ UNCHANGED <<before, op, file>>
      /\ inode' = [inode EXCEPT ![found] = [size |-> 0, flags |-> op.flags, last_inode |-> found]]
      /\ items' = [items EXCEPT ![found] = <<>>]
      /\ owner' = [owner EXCEPT ![found] = found]
  BY DEF init_new_file, Task
<1>2. /\ found \in Block /\ found \notin Metadata /\ owner[found] = 0
      /\ owner \in [Block -> Nat] /\ items \in [Block -> Seq(Item)] /\ inode \in [Block -> HeadInfo]
  BY <1>1 DEF MarkAtHand, InChain, TypeOK, ImageTypeOK, HandlerTypeOK, HistoryTypeOK
<1>3. found # 0 /\ ~IsHead(found)
  <2>1. 0 \in Metadata
    BY ImageAssumption DEF Metadata
  <2> QED BY <1>2, <2>1 DEF IsHead
<1>4. \A b \in Block : b # found => IsHead(b)' = IsHead(b) /\ View(b)' = View(b)
  BY <1>1, <1>2 DEF IsHead, View
<1>5. PICK g \in Block : /\ g = found /\ IsHead(g)'
                        /\ View(g)' = [size |-> 0, flags |-> op.flags, items |-> <<>>]
  <2>1. PICK g \in Block : g = found
    BY <1>2
  <2>2. IsHead(g)' /\ View(g)' = [size |-> 0, flags |-> op.flags, items |-> <<>>]
    BY <1>1, <1>2, <1>3, <2>1 DEF IsHead, View
  <2> QED BY <2>1, <2>2
<1>6. \A b \in Block : Linked(b)' = Linked(b)
  <2>1. \A d \in Block : \A b : d # found =>
          (IsHead(d)' /\ \E i \in DOMAIN items'[d] : items'[d][i].inode = b)
                               = (IsHead(d) /\ \E i \in DOMAIN items[d] : items[d][i].inode = b)
    BY <1>1, <1>2, <1>4
  <2>2. items'[found] = <<>> /\ DOMAIN items'[found] = {}
    BY <1>1, <1>2
  <2> QED BY <1>3, <2>1, <2>2 DEF Linked
<1>7. ~Linked(found)
  <2>1. found # root_inode
    BY <1>3 DEF Clean, Consistent, DirectoriesOK
  <2> QED BY <1>3, <2>1 DEF Linked, Clean, Consistent, DirectoriesOK
<1>8. Seen' = Seen
  BY <1>3, <1>4, <1>6, <1>7 DEF Seen
<1>9. found \notin DOMAIN before /\ file # found /\ file \in Block /\ file \in DOMAIN before
  BY <1>3 DEF Tale, Remembered, Found
<1>10. Remembered'
  BY <1>1, <1>4, <1>9 DEF Tale, Remembered
<1>11. Found'
  BY <1>1 DEF Tale, Found, Way
<1>12. Untouched'
  <2>1. Seen = DOMAIN before /\ View(file) = before[file]
    BY <1>1 DEF Tale, Untouched
  <2>2. View(file)' = View(file)
    <3>1. PICK h \in Block : h = file
      BY <1>9
    <3>2. View(h)' = View(h)
      BY <1>4, <1>9, <3>1
    <3> QED BY <1>1, <3>1, <3>2 DEF View
  <2> QED BY <1>1, <1>8, <2>1, <2>2 DEF Untouched
<1>13. Creating'
  <2>1. IsHead(made)' /\ View(made)' = [size |-> 0, flags |-> op.flags, items |-> <<>>]
    BY <1>1, <1>5 DEF IsHead, View
  <2> QED BY <1>1, <1>2, <1>9, <2>1 DEF Creating
<1>14. WritingTo' /\ Removing'
  BY <1>1 DEF WritingTo, Removing
<1> QED BY <1>10, <1>11, <1>12, <1>13, <1>14 DEF Tale

LEMMA AppendTale ==
  ASSUME TypeOK, Task, Tale, append_directory, ~Refuse
  PROVE  Tale'
<1>1. /\ pc = "append" /\ pc' = "write" /\ IsDirectory(file)
      /\ UNCHANGED <<before, op, file, items, inode, owner, made, item_index, todo>>
  BY DEF append_directory
<1>2. SameSight
  BY <1>1, SightStays
<1>3. CASE op.type = "Remove"
  BY <1>1, <1>2, <1>3, OnwardTale DEF Onward
<1>4. CASE op.type = "Create"
  <2>1. /\ file \in DOMAIN before /\ file \in Block /\ IsHead(file)
        /\ Seen = DOMAIN before /\ View(file) = before[file]
        /\ Reach(before, Way)[Len(Way)] = {file}
    BY <1>1, <1>4 DEF Tale, Found, Remembered, Untouched
  <2>2. before[file].flags = FLG_DIRECTORY
    BY <1>1, <2>1, ViewType DEF IsDirectory
  <2>3. (\A b : View(b)' = View(b) /\ IsHead(b)' = IsHead(b)) /\
          View(file)' = View(file) /\ Seen' = Seen
        /\ View(made)' = View(made) /\ IsHead(made)' = IsHead(made)
    BY <1>1 DEF View, IsHead, Seen, Linked
  <2>4. Remembered'
    BY <1>1, <2>3 DEF Tale, Remembered
  <2>5. Found' /\ Untouched'
    BY <1>1, <1>4, <2>1, <2>3 DEF Found, Untouched, Way
  <2>6. Creating'
    BY <1>1, <1>4, <2>2, <2>3 DEF Tale, Creating
  <2>7. WritingTo' /\ Removing'
    BY <1>1, <1>4 DEF WritingTo, Removing
  <2> QED BY <2>4, <2>5, <2>6, <2>7 DEF Tale
<1> QED BY <1>1, <1>3, <1>4 DEF Task
-----------------------------------------------------------------------------
(* write_file_unchecked with nothing to write.                             *)
LEMMA NothingToWrite ==
  ASSUME TypeOK, Clean, Task, Tale, write_file_unchecked, length = 0
  PROVE  Tale'
<1>1. /\ pc = "write" /\ pc' = "answer"
      /\ UNCHANGED <<before, op, file, items, inode, owner, made, item_index, todo>>
  BY SizeIsNat DEF write_file_unchecked, Finish
<1>2. op.type = "Write" /\ op.length = 0
  BY <1>1 DEF Clean, WriteAtHand, Copying, Tale, WritingTo
<1>3. /\ file \in DOMAIN before /\ file \in Block /\ before[file] \in FileView
      /\ Seen = DOMAIN before /\ View(file) = before[file] /\ before[file].flags = FLG_FILE
      /\ Reach(before, Way)[Len(Way)] = {file}
  BY <1>1, <1>2 DEF Tale, Found, Remembered, Untouched, WritingTo
<1>4. (\A b : View(b)' = View(b) /\ IsHead(b)' = IsHead(b)) /\ View(file)' = View(file) /\
        Seen' = Seen
  BY <1>1 DEF View, IsHead, Seen, Linked
<1>5. Remembered' /\ Found'
  BY <1>1, <1>3, <1>4 DEF Tale, Remembered, Found, Way
<1>6. before[file] = [before[file] EXCEPT !.size = Larger(before[file].size)]
  BY <1>2, <1>3 DEF FileView, Larger
<1>7. WritingTo'
  BY <1>1, <1>2, <1>3, <1>4, <1>6 DEF WritingTo, Larger
<1>8. Untouched' /\ Creating' /\ Removing'
  BY <1>1, <1>2 DEF Untouched, Looking, Creating, Removing
<1> QED BY <1>5, <1>7, <1>8 DEF Tale

(* write_file_unchecked: the new size is there.                            *)
LEMMA NewSizeTale ==
  ASSUME TypeOK, Clean, Task, Tale, write_file_unchecked, ~Refuse, length # 0
  PROVE  Tale'
<1> DEFINE size == inode[file].size
           end == offset + length
<1>1. /\ pc = "write" /\ pc' \in {"extend", "walk"} /\ offset <= size
      /\ inode' = [inode EXCEPT ![file].size = IF end > size THEN end ELSE size]
      /\ UNCHANGED <<before, op, file, items, owner, made, item_index, todo>>
  BY DEF write_file_unchecked, StartWalk
<1>2. op.type \in {"Write", "Create", "Remove"}
  BY <1>1 DEF Clean, WriteAtHand
<1>3. /\ file \in DOMAIN before /\ file \in Block /\ before[file] \in FileView
      /\ Reach(before, Way)[Len(Way)] = {file}
      /\ inode \in [Block -> HeadInfo] /\ size \in Nat /\ offset \in Nat /\ length \in Nat
  BY <1>1, SizeIsNat DEF Tale, Found, Remembered, TypeOK, ImageTypeOK
<1>4. Seen' = Seen /\ \A b : IsHead(b)' = IsHead(b)
  BY <1>1 DEF IsHead, Seen, Linked
<1>5. \A b \in Block : b # file => View(b)' = View(b)
  BY <1>1, <1>3 DEF View
<1>6. View(file)' = [size |-> IF end > size THEN end ELSE size,
        flags |-> inode[file].flags, items |-> items[file]]
  BY <1>1, <1>3 DEF View, HeadInfo
<1>7. Remembered' /\ Found'
  BY <1>1, <1>3, <1>4, <1>5 DEF Tale, Remembered, Found, Way
<1> HIDE DEF size, end
<1>8. CASE op.type = "Write"
  <2>1. /\ offset = op.offset /\ length = op.length /\ before[file].flags = FLG_FILE
        /\ Seen = DOMAIN before /\ View(file) = before[file]
    BY <1>1, <1>8 DEF Tale, WritingTo, Untouched
  <2>2. before[file].size = size /\ before[file].flags = inode[file].flags /\
          before[file].items = items[file]
    BY <1>3, <2>1, ViewType DEF size
  <2>3. Larger(size) = IF end > size THEN end ELSE size
    BY <1>3, <2>1 DEF Larger, end
  <2>4. View(file)' = [before[file] EXCEPT !.size = Larger(before[file].size)]
    BY <1>3, <1>6, <2>2, <2>3 DEF FileView
  <2>5. op.length = 0 \/ op.offset <= before[file].size
    BY <1>1, <2>1, <2>2
  <2>6. WritingTo'
    BY <1>1, <1>4, <1>8, <2>1, <2>4, <2>5 DEF WritingTo, Larger
  <2>7. Untouched' /\ Creating' /\ Removing'
    BY <1>1, <1>8 DEF Untouched, Looking, Creating, Removing
  <2> QED BY <1>7, <2>6, <2>7 DEF Tale
<1>9. CASE op.type = "Create"
  <2>1. /\ made \in Block /\ made \notin DOMAIN before /\ IsHead(made)
        /\ View(made) = [size |-> 0, flags |-> op.flags, items |-> <<>>]
        /\ before[file].flags = FLG_DIRECTORY
        /\ Seen = DOMAIN before /\ View(file) = before[file]
    BY <1>1, <1>9 DEF Tale, Creating, Untouched
  <2>2. before[file].size = size /\ before[file].flags = inode[file].flags /\
          before[file].items = items[file]
    BY <1>3, <2>1, ViewType DEF size
  <2>3. end = size + 1
    BY <1>1, <1>9 DEF Clean, WriteAtHand, Copying, size, end
  <2>4. View(file)' = [before[file] EXCEPT !.size = before[file].size + 1]
    BY <1>3, <1>6, <2>2, <2>3 DEF FileView
  <2>5. View(made)' = View(made) /\ IsHead(made)'
    <3>1. PICK m \in Block : m = made /\ m # file
      BY <1>3, <2>1
    <3>2. View(m)' = View(m) /\ IsHead(m)' = IsHead(m)
      BY <1>4, <1>5, <3>1
    <3> QED BY <1>1, <2>1, <3>1, <3>2 DEF View, IsHead
  <2>6. Creating'
    BY <1>1, <1>4, <1>9, <2>1, <2>4, <2>5 DEF Creating
  <2>7. Untouched' /\ WritingTo' /\ Removing'
    BY <1>1, <1>9 DEF Untouched, Looking, WritingTo, Removing
  <2> QED BY <1>7, <2>6, <2>7 DEF Tale
<1>10. CASE op.type = "Remove"
  <2>1. IsDirectory(file)'
    BY <1>1, <1>3, <1>10 DEF Tale, Removing, IsDirectory, HeadInfo
  <2>2. Removing'
    BY <1>1, <1>4, <1>10, <2>1 DEF Tale, Removing, BaseName
  <2>3. Untouched' /\ WritingTo' /\ Creating'
    BY <1>1, <1>10 DEF Untouched, Looking, WritingTo, Creating
  <2> QED BY <1>7, <2>2, <2>3 DEF Tale
<1> QED BY <1>2, <1>8, <1>9, <1>10

(* An item is appended: what it names is seen from now on.                 *)
LEMMA AppendedSight ==
  ASSUME TypeOK, Tale, NEW item \in Item, IsHead(item.inode),
         items' = [items EXCEPT ![file] = Append(items[file], item)],
         UNCHANGED <<inode, owner, file>>
  PROVE  /\ Seen' = Seen \cup {item.inode}
         /\ items'[file] = Append(items[file], item)
         /\ \A b : IsHead(b)' = IsHead(b)
         /\ \A b \in Block : b # file => View(b)' = View(b)
         /\ View(file)' = [size |-> inode[file].size, flags |-> inode[file].flags,
              items |-> Append(items[file], item)]
<1>1. file \in Block /\ IsHead(file) /\ items \in [Block -> Seq(Item)] /\ item.inode \in Block
  BY DEF Tale, Remembered, Found, TypeOK, ImageTypeOK, Item
<1>2. items'[file] = Append(items[file], item) /\ items[file] \in Seq(Item)
  BY <1>1
<1>3. \A b : IsHead(b)' = IsHead(b)
  BY DEF IsHead
<1>4. \A b \in Block : b # file => View(b)' = View(b) /\ items'[b] = items[b]
  BY <1>1 DEF View
<1>5. View(file)' = [size |-> inode[file].size, flags |-> inode[file].flags,
        items |-> Append(items[file], item)]
  BY <1>2 DEF View
<1>6. \A b : (\E i \in DOMAIN items'[file] : items'[file][i].inode = b)
               <=> (\E i \in DOMAIN items[file] : items[file][i].inode = b) \/ b = item.inode
  <2>1. PICK s \in Seq(Item) : s = items[file]
    BY <1>2
  <2>2. PICK n \in Nat : n = Len(s) /\ DOMAIN s = 1 .. n
    OBVIOUS
  <2>3. PICK t : t = Append(s, item)
    OBVIOUS
  <2>4. DOMAIN t = 1 .. n + 1 /\ t[n + 1] = item /\ \A i \in 1 .. n : t[i] = s[i]
    BY <2>2, <2>3
  <2>5. \A b : (\E i \in DOMAIN t : t[i].inode = b) <=> (\E i \in DOMAIN s :
          s[i].inode = b) \/ b = item.inode
    <3>1. n + 1 \in 1 .. n + 1 /\ \A i \in 1 .. n + 1 : i \in 1 .. n \/ i = n + 1
      OBVIOUS
    <3>2. \A i \in 1 .. n : i \in 1 .. n + 1
      OBVIOUS
    <3> QED BY <2>2, <2>4, <3>1, <3>2
  <2> QED BY <1>2, <2>1, <2>3, <2>5
<1>7. \A b : Linked(b)' <=> Linked(b) \/ b = item.inode
  <2> DEFINE Names_(its, d, b) == \E i \in DOMAIN its[d] : its[d][i].inode = b
  <2>1. \A d \in Block : \A b : Names_(items', d, b) <=> Names_(items, d, b) \/
          (d = file /\ b = item.inode)
    <3>1. \A d \in Block : \A b : d # file => (Names_(items', d, b) <=> Names_(items, d, b))
      BY <1>4
    <3>2. \A b : Names_(items', file, b) <=> Names_(items, file, b) \/ b = item.inode
      BY <1>6
    <3> HIDE DEF Names_
    <3> QED BY <1>1, <3>1, <3>2
  <2>2. \A b : Linked(b) <=> b = root_inode \/ \E d \in Block : IsHead(d) /\ Names_(items, d, b)
    BY DEF Linked
  <2>3. \A b : Linked(b)' <=> b = root_inode \/ \E d \in Block : IsHead(d)' /\ Names_(items', d, b)
    BY DEF Linked
  <2> HIDE DEF Names_
  <2> QED BY <1>1, <1>3, <2>1, <2>2, <2>3
<1>8. Seen' = Seen \cup {item.inode}
  BY <1>1, <1>3, <1>7 DEF Seen
<1> QED BY <1>2, <1>3, <1>4, <1>5, <1>8

LEMMA GrownRecord ==
  ASSUME NEW r \in FileView, NEW n \in Nat, NEW s
  PROVE  /\ [r EXCEPT !.size = n] = [size |-> n, flags |-> r.flags, items |-> r.items]
         /\ [r EXCEPT !.size = n, !.items = s] = [size |-> n, flags |-> r.flags, items |-> s]
<1>1. [r EXCEPT !.size = n] = [size |-> n, flags |-> r.flags, items |-> r.items]
  BY DEF FileView
<1>2. PICK q \in FileView : q = [r EXCEPT !.size = n] /\ q.size = n /\ q.flags = r.flags
  BY <1>1 DEF FileView
<1>3. [q EXCEPT !.items = s] = [size |-> q.size, flags |-> q.flags, items |-> s]
  BY DEF FileView
<1>4. [r EXCEPT !.size = n, !.items = s] = [[r EXCEPT !.size = n] EXCEPT !.items = s]
  OBVIOUS
<1> QED BY <1>1, <1>2, <1>3, <1>4

LEMMA EntryTale ==
  ASSUME TypeOK, Clean, Task, Tale, LastVisit, op.type = "Create"
  PROVE  Tale'
<1> DEFINE item == [name |-> BaseName, inode |-> made]
<1>1. /\ pc = "walk" /\ pc' = "answer"
      /\ items' = [items EXCEPT ![file] = Append(items[file], item)]
      /\ UNCHANGED <<before, op, file, inode, owner, made, item_index, todo>>
  BY DEF LastVisit, Append1, Finish
<1>2. /\ made \in Block /\ made \notin DOMAIN before /\ IsHead(made)
      /\ View(made) = [size |-> 0, flags |-> op.flags, items |-> <<>>]
      /\ before[file].flags = FLG_DIRECTORY
      /\ Seen = DOMAIN before
      /\ View(file) = [before[file] EXCEPT !.size = before[file].size + 1]
  BY <1>1 DEF Tale, Creating
<1>3. /\ file \in DOMAIN before /\ file \in Block /\ before[file] \in FileView
      /\ Reach(before, Way)[Len(Way)] = {file}
  BY <1>1 DEF Tale, Found, Remembered
<1>4. item \in Item /\ item.inode = made
  <2>1. BaseName \in Names
    <3>1. op.path \in Seq(Names) /\ op.path # <<>>
      BY <1>1, OpIsRequest DEF Task
    <3> QED BY <3>1 DEF BaseName
  <2> QED BY <1>2, <2>1 DEF Item
<1> HIDE DEF item
<1>5. /\ Seen' = Seen \cup {made}
      /\ \A b : IsHead(b)' = IsHead(b)
      /\ \A b \in Block : b # file => View(b)' = View(b)
      /\ View(file)' = [size |-> inode[file].size, flags |-> inode[file].flags,
           items |-> Append(items[file], item)]
  BY <1>1, <1>2, <1>4, AppendedSight
<1>6. items[file] = before[file].items
  BY <1>2, <1>3, ViewType DEF FileView
<1>7. Remembered' /\ Found'
  BY <1>1, <1>3, <1>5 DEF Tale, Remembered, Found, Way
<1>8. View(made)' = View(made) /\ IsHead(made)'
  <2>1. PICK m \in Block : m = made /\ m # file
    BY <1>2, <1>3
  <2>2. View(m)' = View(m) /\ IsHead(m)' = IsHead(m)
    BY <1>5, <2>1
  <2> QED BY <1>1, <1>2, <2>1, <2>2 DEF View, IsHead
<1>9. View(file)' = [before[file] EXCEPT !.size = before[file].size + 1,
        !.items = Append(before[file].items, item)]
  <2>1. inode[file].size = before[file].size + 1 /\ inode[file].flags = before[file].flags
    BY <1>2, <1>3, ViewType DEF FileView
  <2>2. View(file)' = [size |-> before[file].size + 1, flags |-> before[file].flags,
                       items |-> Append(before[file].items, item)]
    BY <1>5, <1>6, <2>1
  <2>3. before[file].size + 1 \in Nat
    BY <1>3 DEF FileView
  <2>4. PICK r \in FileView : r = before[file]
    BY <1>3
  <2>5. [r EXCEPT !.size = r.size + 1, !.items = Append(r.items, item)] =
          [size |-> r.size + 1, flags |-> r.flags, items |-> Append(r.items, item)]
    BY <2>3, <2>4, GrownRecord
  <2> QED BY <2>2, <2>4, <2>5
<1>10. Creating'
  BY <1>1, <1>2, <1>5, <1>8, <1>9 DEF Creating, BaseName, item
<1>11. Untouched' /\ WritingTo' /\ Removing'
  BY <1>1 DEF Untouched, Looking, WritingTo, Removing
<1> QED BY <1>7, <1>10, <1>11 DEF Tale
-----------------------------------------------------------------------------
LEMMA MoveHead ==
  ASSUME NEW S, NEW s \in Seq(S), NEW t \in Seq(S), t # <<>>
  PROVE  /\ Append(s, Head(t)) \o Tail(t) = s \o t
         /\ \E k \in DOMAIN (s \o t) : Head(t) = (s \o t)[k]
<1>1. PICK m \in Nat : m = Len(s) /\ DOMAIN s = 1 .. m
  OBVIOUS
<1>2. PICK n \in Nat : n + 1 = Len(t) /\ DOMAIN t = 1 .. n + 1
  <2>1. PICK l \in Nat : l = Len(t) /\ DOMAIN t = 1 .. l /\ l # 0
    OBVIOUS
  <2>2. l - 1 \in Nat /\ l - 1 + 1 = l
    BY <2>1
  <2> QED BY <2>1, <2>2
<1>3. PICK h \in S : h = Head(t) /\ h = t[1]
  <2>1. Head(t) = t[1] /\ t[1] \in S
    BY <1>2
  <2> QED BY <2>1
<1>4. PICK u \in Seq(S) : u = Tail(t) /\ Len(u) = n /\ \A i \in 1 .. n : u[i] = t[i + 1]
  <2>1. Tail(t) \in Seq(S)
    OBVIOUS
  <2>2. Len(Tail(t)) = Len(t) - 1
    OBVIOUS
  <2>3. Len(Tail(t)) = n
    BY <1>2, <2>2
  <2>4. \A i \in 1 .. n : Tail(t)[i] = t[i + 1]
    BY <1>2
  <2> QED BY <2>1, <2>3, <2>4
<1>5. PICK a \in Seq(S) : a = Append(s, h) /\ Len(a) = m + 1 /\ a[m + 1] = h /\
        \A i \in 1 .. m : a[i] = s[i]
  <2>1. Append(s, h) \in Seq(S) /\ Len(Append(s, h)) = m + 1 /\ Append(s, h)[m + 1] = h
        /\ \A i \in 1 .. m : Append(s, h)[i] = s[i]
    BY <1>1
  <2> QED BY <2>1
<1>6. PICK v : v = a \o u /\ v \in Seq(S) /\ Len(v) = m + 1 + n
               /\ (\A i \in 1 .. m + 1 : v[i] = a[i])
               /\ (\A i \in m + 2 .. m + 1 + n : v[i] = u[i - (m + 1)])
  <2>1. (a \o u) \in Seq(S)
    BY <1>4, <1>5
  <2>4. Len(a \o u) = Len(a) + Len(u)
    OBVIOUS
  <2>5. Len(a \o u) = m + 1 + n
    BY <1>4, <1>5, <2>4
  <2>2. \A i \in 1 .. m + 1 : (a \o u)[i] = a[i]
    BY <1>4, <1>5
  <2>3. \A i \in m + 2 .. m + 1 + n : (a \o u)[i] = u[i - (m + 1)]
    BY <1>4, <1>5
  <2> QED BY <2>1, <2>2, <2>3, <2>5
<1>7. PICK w : w = s \o t /\ w \in Seq(S) /\ Len(w) = m + 1 + n
               /\ (\A i \in 1 .. m : w[i] = s[i])
               /\ (\A i \in m + 1 .. m + 1 + n : w[i] = t[i - m])
  <2>1. (s \o t) \in Seq(S) /\ Len(s \o t) = m + (n + 1)
    BY <1>1, <1>2
  <2>2. \A i \in 1 .. m : (s \o t)[i] = s[i]
    BY <1>1, <1>2
  <2>3. \A i \in m + 1 .. m + 1 + n : (s \o t)[i] = t[i - m]
    BY <1>1, <1>2
  <2>4. m + (n + 1) = m + 1 + n
    OBVIOUS
  <2> QED BY <2>1, <2>2, <2>3, <2>4
<1>8. w[m + 1] = h
  <2>1. PICK k \in m + 1 .. m + 1 + n : k = m + 1 /\ k - m = 1
    OBVIOUS
  <2>2. w[k] = t[k - m]
    BY <1>7
  <2> QED BY <1>3, <2>1, <2>2
<1>9. ASSUME NEW i \in 1 .. m + 1 + n PROVE v[i] = w[i]
  <2>1. CASE i \in 1 .. m
    BY <1>5, <1>6, <1>7, <2>1
  <2>2. CASE i = m + 1
    <3>1. i \in 1 .. m + 1
      BY <2>2
    <3> QED BY <1>5, <1>6, <1>8, <2>2, <3>1
  <2>3. CASE i \in m + 2 .. m + 1 + n
    <3>1. i - (m + 1) \in 1 .. n /\ i - (m + 1) + 1 = i - m /\ i \in m + 1 .. m + 1 + n
      BY <2>3
    <3>2. v[i] = u[i - (m + 1)]
      BY <1>6, <2>3
    <3>3. u[i - (m + 1)] = t[i - (m + 1) + 1]
      BY <1>4, <3>1
    <3>4. w[i] = t[i - m]
      BY <1>7, <3>1
    <3> QED BY <3>1, <3>2, <3>3, <3>4
  <2> QED BY <2>1, <2>2, <2>3
<1>10. v = w
  <2>1. DOMAIN v = 1 .. m + 1 + n /\ v = [i \in 1 .. m + 1 + n |-> v[i]]
    <3>1. v \in Seq(S) /\ Len(v) = m + 1 + n
      BY <1>6
    <3>2. v = [i \in DOMAIN v |-> v[i]] /\ DOMAIN v = 1 .. Len(v)
      BY <3>1
    <3> QED BY <3>1, <3>2
  <2>2. DOMAIN w = 1 .. m + 1 + n /\ w = [i \in 1 .. m + 1 + n |-> w[i]]
    <3>1. w \in Seq(S) /\ Len(w) = m + 1 + n
      BY <1>7
    <3>2. w = [i \in DOMAIN w |-> w[i]] /\ DOMAIN w = 1 .. Len(w)
      BY <3>1
    <3> QED BY <3>1, <3>2
  <2> QED BY <1>9, <2>1, <2>2
<1>11. DOMAIN w = 1 .. m + 1 + n /\ m + 1 \in 1 .. m + 1 + n
  BY <1>7
<1> QED BY <1>3, <1>4, <1>5, <1>6, <1>7, <1>8, <1>10, <1>11

(* An entry is put back.                                                   *)
LEMMA PutBackTale ==
  ASSUME TypeOK, Clean, Task, Tale, LastVisit, op.type = "Remove"
  PROVE  Tale'
<1>1. /\ pc = "walk" /\ pc' = "reappend" /\ todo' = Tail(todo)
      /\ items' = [items EXCEPT ![file] = Append(items[file], Head(todo))]
      /\ UNCHANGED <<before, op, file, inode, owner, made, item_index>>
  BY DEF LastVisit, Append1
<1>2. /\ Seen \subseteq DOMAIN before
      /\ before[file].flags = FLG_DIRECTORY /\ IsDirectory(file)
      /\ item_index + 1 \in First(before, file, BaseName)
      /\ items[file] \o todo = Rest(before, file, item_index + 1)
  BY <1>1 DEF Tale, Removing
<1>3. /\ file \in DOMAIN before /\ file \in Block /\ before[file] \in FileView
      /\ Reach(before, Way)[Len(Way)] = {file}
      /\ items[file] \in Seq(Item) /\ todo \in Seq(Item) /\ todo # <<>> /\ item_index \in Nat
  BY <1>1 DEF Tale, Found, Remembered, TypeOK, ImageTypeOK, HandlerTypeOK, Task
<1>4. Append(items[file], Head(todo)) \o Tail(todo) = items[file] \o todo
      /\ \E k \in DOMAIN (items[file] \o todo) : Head(todo) = (items[file] \o todo)[k]
  BY <1>3, MoveHead
<1>5. Head(todo) \in Item /\ IsHead(Head(todo).inode)
  <2>1. 1 \in DOMAIN todo /\ Head(todo) = todo[1] /\ Head(todo) \in Item
    BY <1>3
  <2> QED BY <2>1 DEF Clean, FileAtHand
<1>6. Head(todo).inode \in DOMAIN before
  <2>1. PICK k \in DOMAIN Rest(before, file, item_index + 1) :
          Head(todo) = Rest(before, file, item_index + 1)[k]
    BY <1>2, <1>4
  <2>2. before[file].items \in Seq(Item)
    BY <1>3 DEF FileView
  <2>3. Rest(before, file, item_index + 1) = RemoveAt(before[file].items, item_index + 1)
    BY DEF Rest, RemoveAt
  <2>4. item_index + 1 \in 1 .. Len(before[file].items)
    BY <1>2, <2>2 DEF First
  <2>5. PICK j \in DOMAIN before[file].items : Head(todo) = before[file].items[j]
    BY <2>1, <2>2, <2>3, <2>4, RemoveAtElements
  <2> QED BY <1>3, <2>5 DEF Tale, Remembered, WholeTree
<1>7. /\ Seen' = Seen \cup {Head(todo).inode}
      /\ items'[file] = Append(items[file], Head(todo))
      /\ \A b : IsHead(b)' = IsHead(b)
      /\ \A b \in Block : b # file => View(b)' = View(b)
  BY <1>1, <1>5, AppendedSight
<1>8. Remembered' /\ Found'
  BY <1>1, <1>3, <1>7 DEF Tale, Remembered, Found, Way
<1>9. Removing'
  <2>1. items'[file] \o todo' = Rest(before, file, item_index + 1)
    BY <1>1, <1>2, <1>4, <1>7
  <2> QED BY <1>1, <1>2, <1>6, <1>7, <2>1 DEF Removing, IsDirectory, BaseName
<1>10. Untouched' /\ WritingTo' /\ Creating'
  BY <1>1, op.type = "Remove" DEF Untouched, Looking, WritingTo, Creating
<1> QED BY <1>8, <1>9, <1>10 DEF Tale

(* rm takes the directory apart.                                           *)
LEMMA RemoveTale ==
  ASSUME TypeOK, Clean, Task, Tale, fsop_Remove, ~Refuse
  PROVE  Tale'
<1>1. /\ pc = "locate" /\ ord = goal /\ op.type = "Remove" /\ pc' \in {"shrink", "reappend"}
      /\ IsDirectory(file)
      /\ \E i \in Hits(file, BaseName) : item_index' = i - 1 /\ todo' = RemoveAt(items[file], i)
      /\ inode' = [inode EXCEPT ![file].size = 0]
      /\ items' = [items EXCEPT ![file] = <<>>]
      /\ owner' = [b \in Block |-> IF owner[b] = file /\ rank[b] > 0 THEN 0 ELSE owner[b]]
      /\ UNCHANGED <<before, op, file, made>>
  BY DEF fsop_Remove, Located
<1>2. PICK i \in Hits(file, BaseName) : item_index' = i - 1 /\ todo' = RemoveAt(items[file], i)
  BY <1>1
<1>3. /\ file \in DOMAIN before /\ file \in Block /\ IsHead(file) /\ before[file] \in FileView
      /\ Reach(before, Way)[Len(Way)] = {file}
      /\ Seen = DOMAIN before /\ View(file) = before[file]
  BY <1>1, PathGiven DEF Tale, Found, Remembered, Untouched
<1>4. before[file].flags = FLG_DIRECTORY /\ before[file].items = items[file]
  BY <1>1, <1>3, ViewType DEF IsDirectory
<1>5. /\ items \in [Block -> Seq(Item)] /\ inode \in [Block -> HeadInfo] /\ owner \in [Block -> Nat]
      /\ rank[file] = 0 /\ file # 0
  BY <1>3, HeadFacts DEF TypeOK, ImageTypeOK, HistoryTypeOK, Clean
<1>6. \A b \in Block : IsHead(b)' = IsHead(b)
  BY <1>1, <1>3, <1>5 DEF IsHead
<1>7. items'[file] = <<>> /\ \A b \in Block : b # file => View(b)' = View(b) /\ items'[b] = items[b]
  BY <1>1, <1>3, <1>5 DEF View
<1>8. Seen' \subseteq Seen
  <2>1. \A b \in Block : Linked(b)' => Linked(b)
    <3>1. \A d \in Block : \A b : (\E k \in DOMAIN items'[d] : items'[d][k].inode = b)
                                => (\E k \in DOMAIN items[d] : items[d][k].inode = b)
      <4>1. DOMAIN items'[file] = {}
        BY <1>7
      <4> QED BY <1>7, <4>1
    <3> QED BY <1>6, <3>1 DEF Linked
  <2> QED BY <1>6, <2>1 DEF Seen
<1>9. Remembered' /\ Found'
  <2>1. \A f \in DOMAIN before : f \in Block /\ IsHead(f)' /\ (f # file => View(f)' = before[f])
    BY <1>6, <1>7 DEF Tale, Remembered
  <2>2. before \in [DOMAIN before -> FileView] /\ WholeTree(before)
    BY DEF Tale, Remembered
  <2> QED BY <1>1, <1>3, <2>1, <2>2 DEF Remembered, Found, Way
<1>10. Removing'
  <2>1. i \in First(before, file, BaseName) /\ i \in 1 .. Len(items[file])
    BY <1>2, <1>3, <1>4, HitsAreFirst
  <2>2. i \in Nat /\ item_index' + 1 = i
    BY <1>2, <2>1
  <2>3. todo' = Rest(before, file, i)
    BY <1>2, <1>4 DEF Rest, RemoveAt
  <2>4. todo' \in Seq(Item)
    <3>1. items[file] \in Seq(Item)
      BY <1>3, <1>5
    <3> QED BY <1>2, <2>1, <3>1 DEF RemoveAt
  <2>5. <<>> \o todo' = todo'
    BY <2>4
  <2>6. IsDirectory(file)'
    BY <1>1, <1>3, <1>5 DEF IsDirectory, HeadInfo
  <2> QED BY <1>1, <1>3, <1>4, <1>7, <1>8, <2>1, <2>2, <2>3, <2>5, <2>6 DEF Removing, BaseName
<1>11. Untouched' /\ WritingTo' /\ Creating'
  BY <1>1 DEF Untouched, Looking, WritingTo, Creating
<1> QED BY <1>9, <1>10, <1>11 DEF Tale
-----------------------------------------------------------------------------
(* Only rm gives blocks back.                                              *)
Purging == pc \in {"purge", "purge_blocks"} => op.type = "Remove"

LEMMA PurgingStep ==
  ASSUME TypeOK, Task, Purging, [Next]_vars
  PROVE  Purging'
<1>1. CASE Refuse \/ Internal \/ Segv \/ Kill \/ Abort \/ (\E why : Abandon(why)) \/ Finish \/ UNCHANGED vars
  BY <1>1 DEF Purging, Refuse, Internal, Segv, Kill, Abort, Abandon, Finish, vars
<1>2. CASE (\E r \in Requests : Serve(r)) \/ Answer
  BY <1>2 DEF Purging, Serve, Answer
<1>3. CASE locate_path \/ fsop_Read \/ fsop_ReadDir \/ fsop_Stat \/ fsop_Write \/ fsop_Create
           \/ fsop_Remove \/ mark_new_block \/ init_new_file \/ append_directory \/ write_file_unchecked
  BY <1>1, <1>3 DEF Purging, locate_path, fsop_Read, fsop_ReadDir, fsop_Stat, fsop_Write,
       fsop_Create, fsop_Remove, mark_new_block, init_new_file, append_directory, write_file_unchecked,
       Located, TakeFree, StartWalk
<1>4. CASE ExtendFind \/ ExtendLink \/ ExtendDone \/ Hop \/ LastVisit
  BY <1>1, <1>4 DEF Purging, ExtendFind, ExtendLink, ExtendDone, Hop, LastVisit, TakeFree,
       StartWalk
<1>5. CASE PurgeBlock \/ ShrinkDone \/ Reappend \/ purge_file \/ PurgeFileDone \/ RemoveDone
  BY <1>1, <1>5 DEF Purging, Task, PurgeBlock, ShrinkDone, Reappend, purge_file, PurgeFileDone,
       RemoveDone
<1> QED BY <1>1, <1>2, <1>3, <1>4, <1>5 DEF Next, Work, Step

(* The steps that show nowhere.                                            *)
LEMMA QuietTale ==
  ASSUME TypeOK, Clean, Task, Purging, Tale, pc' # "idle",
         Hop \/ ExtendFind \/ ExtendLink \/ ExtendDone \/ LastVisit \/ PurgeBlock \/
             ShrinkDone \/ Reappend
           \/ purge_file \/ PurgeFileDone \/ RemoveDone
  PROVE  Tale'
<1>1. ~Abandon("lost") /\ ~Abandon("internal") /\ ~Refuse /\ ~Internal /\ ~Segv
  BY DEF Abandon, Refuse, Internal, Segv
<1>2. op.type \in {"Write", "Create", "Remove"} \/ Looking
  BY OpIsRequest DEF Looking
<1>3. CASE Hop
  <2>1. pc = "walk" /\ pc' = "walk" /\
          UNCHANGED <<before, op, file, items, inode, owner, made, item_index, todo>>
    BY <1>1, <1>3 DEF Hop
  <2> QED BY <1>2, <2>1, SightStays, OnwardTale DEF Onward
<1>4. CASE ExtendFind
  <2>1. pc = "extend" /\ pc' = "link" /\
          UNCHANGED <<before, op, file, items, inode, owner, made, item_index, todo>>
    BY <1>1, <1>4 DEF ExtendFind, TakeFree
  <2> QED BY <1>2, <2>1, SightStays, OnwardTale DEF Onward
<1>5. CASE ExtendLink
  <2>1. pc = "link" /\ pc' = "extend" /\ UNCHANGED <<made, item_index, todo>>
    BY <1>5 DEF ExtendLink
  <2> QED BY <1>2, <1>5, <2>1, SightLink, OnwardTale DEF Onward
<1>6. CASE ExtendDone
  <2>1. /\ pc = "extend" /\ pc' = "walk" /\
             UNCHANGED <<before, op, file, items, owner, made, item_index, todo>>
        /\ inode' = [inode EXCEPT ![file].last_inode = block_index]
    BY <1>6 DEF ExtendDone, StartWalk
  <2>2. SameSight
    BY <2>1, SightLast
  <2> QED BY <1>2, <2>1, <2>2, OnwardTale DEF Onward
<1>7. CASE LastVisit
  <2>1. CASE op.type = "Create"
    BY <1>7, <2>1, EntryTale
  <2>2. CASE op.type = "Remove"
    BY <1>7, <2>2, PutBackTale
  <2>3. CASE op.type \notin {"Create", "Remove"}
    <3>1. pc = "walk" /\ pc' = "answer" /\
            UNCHANGED <<before, op, file, items, inode, owner, made, item_index, todo>>
      BY <1>7, <2>3 DEF LastVisit, Finish
    <3> QED BY <1>2, <2>3, <3>1, SightStays, OnwardTale DEF Onward
  <2> QED BY <2>1, <2>2, <2>3
<1>8. CASE PurgeBlock
  <2>1. /\ pc \in {"shrink", "purge_blocks"} /\ pc' = pc
        /\ UNCHANGED <<before, op, file, items, inode, owner, made, item_index, todo>>
    BY <1>1, <1>8 DEF PurgeBlock
  <2>2. op.type = "Remove"
    BY <2>1 DEF Task, Purging
  <2> QED BY <2>1, <2>2, SightStays, OnwardTale DEF Onward
<1>9. CASE ShrinkDone
  <2>1. /\ pc = "shrink" /\ pc' = "reappend" /\
             UNCHANGED <<before, op, file, items, owner, made, item_index, todo>>
        /\ inode' = [inode EXCEPT ![file].last_inode = file]
    BY <1>9 DEF ShrinkDone
  <2>2. SameSight /\ op.type = "Remove"
    BY <2>1, SightLast DEF Task
  <2> QED BY <2>1, <2>2, OnwardTale DEF Onward
<1>10. CASE Reappend
  <2>1. /\ pc' = "append" \/ (pc' = "purge" /\ todo = <<>>)
        /\ UNCHANGED <<before, op, file, items, inode, owner, made, item_index, todo>>
    BY <1>10 DEF Reappend
  <2>2. op.type = "Remove"
    BY <1>10 DEF Task, Reappend
  <2> QED BY <1>10, <2>1, <2>2, SightStays, OnwardTale DEF Onward, Reappend
<1>11. CASE purge_file \/ PurgeFileDone \/ RemoveDone
  <2>1. /\ pc \in {"purge", "purge_blocks"} /\ pc' \in {"purge", "purge_blocks", "answer"}
        /\ UNCHANGED <<before, op, file, items, inode, owner, made, item_index, todo>>
    BY <1>1, <1>11 DEF purge_file, PurgeFileDone, RemoveDone, Finish
  <2>2. op.type = "Remove"
    BY <2>1 DEF Purging
  <2> QED BY <2>1, <2>2, SightStays, OnwardTale DEF Onward
<1> QED BY <1>3, <1>4, <1>5, <1>6, <1>7, <1>8, <1>9, <1>10, <1>11

LEMMA StillTale ==
  ASSUME Tale, UNCHANGED vars
  PROVE  Tale'
<1>1. UNCHANGED <<before, pc, op, file, items, inode, owner, made, item_index, todo,
        offset, length, ord, goal>>
  BY DEF vars
<1>2. Seen' = Seen /\ (\A b : View(b)' = View(b) /\ IsHead(b)' = IsHead(b))
      /\ View(file)' = View(file) /\ View(made)' = View(made) /\ IsHead(made)' = IsHead(made)
  BY <1>1 DEF View, IsHead, Seen, Linked
<1>3. Remembered' /\ Found'
  BY <1>1, <1>2 DEF Tale, Remembered, Found, Way
<1>4. Untouched'
  BY <1>1, <1>2 DEF Tale, Untouched, Looking
<1>5. Creating'
  BY <1>1, <1>2 DEF Tale, Creating, BaseName
<1>6. WritingTo'
  BY <1>1, <1>2 DEF Tale, WritingTo, Larger
<1>7. Removing'
  BY <1>1, <1>2 DEF Tale, Removing, BaseName, IsDirectory
<1> QED BY <1>3, <1>4, <1>5, <1>6, <1>7 DEF Tale

LEMMA TaleStep ==
  ASSUME TypeOK, Task, Purging, Clean, MarkAtHand, pc # "idle" => Tale, [Next]_vars, TypeOK', pc' # "idle"
  PROVE  Tale'
<1>1. CASE Refuse \/ Internal \/ Segv \/ Kill \/ Abort \/ Answer
  BY <1>1 DEF Refuse, Internal, Segv, Kill, Abort, Abandon, Answer
<1>2. CASE UNCHANGED vars
  <2>1. pc # "idle"
    BY <1>2 DEF vars
  <2> QED BY <1>2, <2>1, StillTale
<1>3. CASE \E r \in Requests : Serve(r)
  BY <1>3, ServeTale
<1>4. CASE locate_path
  BY <1>1, <1>4, LocateTale DEF locate_path
<1>5. CASE fsop_Read \/ fsop_ReadDir \/ fsop_Stat
  BY <1>1, <1>5, LookTale DEF fsop_Read, fsop_ReadDir, fsop_Stat, Located
<1>6. CASE fsop_Write
  BY <1>1, <1>6, WriteTale DEF fsop_Write, Located
<1>7. CASE fsop_Create
  BY <1>1, <1>7, CreateTale DEF fsop_Create, Located
<1>8. CASE fsop_Remove
  BY <1>1, <1>8, RemoveTale DEF fsop_Remove, Located
<1>9. CASE mark_new_block \/ init_new_file
  BY <1>9, MarkNewTale, InitNewFileTale DEF mark_new_block, init_new_file
<1>10. CASE append_directory
  BY <1>1, <1>10, AppendTale DEF append_directory
<1>11. CASE write_file_unchecked
  BY <1>1, <1>11, NothingToWrite, NewSizeTale DEF write_file_unchecked
<1>12. CASE Hop \/ ExtendFind \/ ExtendLink \/ ExtendDone \/ LastVisit \/ PurgeBlock \/
              ShrinkDone \/ Reappend
           \/ purge_file \/ PurgeFileDone \/ RemoveDone
  <2>1. pc # "idle"
    BY <1>12 DEF Hop, ExtendFind, ExtendLink, ExtendDone, LastVisit, PurgeBlock, ShrinkDone,
         Reappend, purge_file, PurgeFileDone, RemoveDone
  <2> QED BY <1>12, <2>1, QuietTale
<1> QED BY <1>1, <1>2, <1>3, <1>4, <1>5, <1>6, <1>7, <1>8, <1>9, <1>10, <1>11, <1>12 DEF Next,
     Work, Step
-----------------------------------------------------------------------------
(* The files of RfsStore.                                                  *)
Shown == IF pc = "idle" THEN Visible ELSE before

(* A handler ends, and stores nothing more.                                *)
Ends == pc # "idle" /\ pc' = "idle" /\ UNCHANGED <<op, inode, items, owner>>

LEMMA EndsShown ==
  ASSUME Ends
  PROVE  Shown = before /\ Shown' = Visible
<1>1. Visible' = Visible
  BY DEF Ends, Visible, IsHead, Linked
<1> QED BY <1>1 DEF Ends, Shown

LEMMA WayIs ==
  ASSUME TypeOK, Task, pc # "idle", Tale, pc # "locate"
  PROVE  /\ op.type \notin {"Create", "Remove"} => Store!At(op.path) = {file}
         /\ op.type \in {"Create", "Remove"} =>
              /\ op.path # <<>>
              /\ Store!At(SubSeq(op.path, 1, Len(op.path) - 1)) = {file}
<1>1. Reach(before, Way)[Len(Way)] = {file}
  BY DEF Tale, Found
<1>2. Store!At(Way) = {file}
  BY <1>1, SameReach
<1>3. op.type \in {"Create", "Remove"} => op.path # <<>>
  BY DEF Task
<1> QED BY <1>2, <1>3 DEF Way, WayOf

(* Nothing has been done yet, or nothing is.                               *)
NothingDone ==
  \/ Looking
  \/ pc \in {"locate", "init", "header"}
  \/ op.type \in {"Create", "Write"} /\ pc \in {"append", "write"}

LEMMA NothingShows ==
  ASSUME Tale, NothingDone
  PROVE  Visible = before
<1>1. Seen = DOMAIN before /\ View(file) = before[file]
  BY DEF Tale, Untouched, NothingDone
<1>2. \A f \in Seen : View(f) = before[f]
  BY <1>1 DEF Tale, Remembered
<1>3. before = [f \in DOMAIN before |-> before[f]]
  BY DEF Tale, Remembered
<1> QED BY <1>1, <1>2, <1>3, VisibleIs

LEMMA LookEffect ==
  ASSUME TypeOK, Task, Tale, Ends, Looking, pc = "answer",
         op.type = "ReadDir" => IsDirectory(file)
  PROVE  Store!Look
<1>1. Store!At(op.path) = {file}
  BY WayIs DEF Looking, Ends
<1>2. Shown = before /\ Shown' = before
  BY EndsShown, NothingShows DEF NothingDone
<1>3. op.type = "ReadDir" => Shown[file].flags = FLG_DIRECTORY
  <2>1. View(file) = before[file] /\ file \in Block
    BY DEF Tale, Untouched, Remembered, Found
  <2> QED BY <1>2, <2>1, ViewType DEF IsDirectory
<1> QED BY <1>1, <1>2, <1>3 DEF Store!Look, Store!IsDir, Shown

LEMMA WriteEffect ==
  ASSUME TypeOK, Task, Tale, Ends, op.type = "Write", pc \in {"walk", "answer"}
  PROVE  Store!Write
<1>1. Store!At(op.path) = {file}
  BY WayIs DEF Ends
<1>2. Shown = before /\ Shown' = Visible
  BY EndsShown
<1>3. /\ before[file].flags = FLG_FILE /\ Seen = DOMAIN before
      /\ op.length = 0 \/ op.offset <= before[file].size
      /\ View(file) = [before[file] EXCEPT !.size = Larger(before[file].size)]
  BY DEF Tale, WritingTo
<1>4. /\ file \in DOMAIN before /\ before[file] \in FileView
      /\ before = [f \in DOMAIN before |-> before[f]]
      /\ \A f \in DOMAIN before : f # file => View(f) = before[f]
  BY DEF Tale, Remembered, Found
<1>5. Visible = [before EXCEPT ![file] = [before[file] EXCEPT !.size = Larger(before[file].size)]]
  BY <1>3, <1>4, VisibleIs
<1>6. Visible = IF op.length = 0 \/ op.offset + op.length <= before[file].size THEN before
                ELSE [before EXCEPT ![file].size = op.offset + op.length]
  <2>1. CASE op.length = 0 \/ op.offset + op.length <= before[file].size
    <3>1. [before[file] EXCEPT !.size = Larger(before[file].size)] = before[file]
      BY <1>4, <2>1 DEF Larger, FileView
    <3> QED BY <1>4, <1>5, <2>1, <3>1
  <2>2. CASE ~(op.length = 0 \/ op.offset + op.length <= before[file].size)
    BY <1>5, <2>2 DEF Larger
  <2> QED BY <2>1, <2>2
<1>7. FLG_FILE # FLG_DIRECTORY
  BY DEF FLG_FILE, FLG_DIRECTORY
<1> QED BY <1>1, <1>2, <1>3, <1>6, <1>7 DEF Store!Write, Store!IsDir, Shown

LEMMA CreateEffect ==
  ASSUME TypeOK, Task, Tale, Ends, op.type = "Create", pc = "answer"
  PROVE  Store!Create
<1> DEFINE grown == [before[file] EXCEPT !.size = before[file].size + 1,
                       !.items = Append(before[file].items, [name |-> BaseName, inode |-> made])]
<1>1. op.path # <<>> /\ Store!At(SubSeq(op.path, 1, Len(op.path) - 1)) = {file}
  BY WayIs DEF Ends
<1>2. Shown = before /\ Shown' = Visible
  BY EndsShown
<1>3. /\ before[file].flags = FLG_DIRECTORY /\ made \notin DOMAIN before
      /\ Seen = DOMAIN before \cup {made} /\ View(file) = grown
      /\ View(made) = [size |-> 0, flags |-> op.flags, items |-> <<>>]
  BY DEF Tale, Creating
<1>4. /\ file \in DOMAIN before
      /\ \A f \in DOMAIN before : f # file => View(f) = before[f]
  BY DEF Tale, Remembered, Found
<1> HIDE DEF grown
<1>5. Visible = [g \in DOMAIN before \cup {made} |->
                   IF g = made THEN [size |-> 0, flags |-> op.flags, items |-> <<>>]
                   ELSE IF g # file THEN before[g] ELSE grown]
  BY <1>3, <1>4, VisibleIs
<1>6. file \in Store!Parents
  BY <1>1, <1>2, <1>3 DEF Store!Parents, Store!IsDir, Shown
<1>7. made \in DOMAIN Shown' \ DOMAIN Shown
  BY <1>2, <1>3, VisibleIs
<1>8. Shown' = [g \in DOMAIN Shown \cup {made} |->
                 IF g = made THEN Store!Empty(op.flags)
                 ELSE IF g # file THEN Shown[g]
                 ELSE [Shown[file] EXCEPT !.size = @ + 1,
                         !.items = Append(@, [name |-> Store!BaseName, inode |-> made])]]
  <2>1. grown = [Shown[file] EXCEPT !.size = @ + 1,
                   !.items = Append(@, [name |-> Store!BaseName, inode |-> made])]
    BY <1>2 DEF grown, Store!BaseName, BaseName
  <2>2. Store!Empty(op.flags) = [size |-> 0, flags |-> op.flags, items |-> <<>>]
    BY DEF Store!Empty
  <2> QED BY <1>2, <1>5, <2>1, <2>2
<1> QED BY <1>6, <1>7, <1>8 DEF Store!Create, Shown

(* rm: what is shown when the directory has these entries again.           *)
LEMMA KeepEffect ==
  ASSUME TypeOK, Clean, Task, Tale, Ends, op.type = "Remove",
         pc \in {"reappend", "append", "write", "purge", "purge_blocks", "answer"}
  PROVE  /\ Store!Keep(file, items[file]) /\ file \in Store!Parents
         /\ item_index + 1 \in Store!Position(file, BaseName)
         /\ Store!Others(file, item_index + 1) = Rest(before, file, item_index + 1)
<1>1. op.path # <<>> /\ Store!At(SubSeq(op.path, 1, Len(op.path) - 1)) = {file}
  BY WayIs DEF Ends
<1>2. Shown = before /\ Shown' = Visible
  BY EndsShown
<1>3. /\ Seen \subseteq DOMAIN before
      /\ before[file].flags = FLG_DIRECTORY /\ IsDirectory(file)
      /\ item_index + 1 \in First(before, file, BaseName)
  BY DEF Tale, Removing
<1>4. /\ file \in DOMAIN before /\ file \in Block /\ IsHead(file) /\ before[file] \in FileView
      /\ \A f \in DOMAIN before : f # file => View(f) = before[f]
  BY DEF Tale, Remembered, Found
<1>5. inode[file].size = Len(items[file])
  <2>1. ~Growing(file) /\ Len(items[file]) \in Nat
    BY <1>4 DEF Growing, TypeOK, ImageTypeOK
  <2>2. inode[file].size = Len(items[file]) + (IF Growing(file) THEN 1 ELSE 0)
    BY <1>3, <1>4 DEF Clean, Consistent, DirectoriesOK
  <2> QED BY <2>1, <2>2
<1>6. View(file) = [before[file] EXCEPT !.size = Len(items[file]), !.items = items[file]]
  <2>1. Len(items[file]) \in Nat
    BY <1>4 DEF TypeOK, ImageTypeOK
  <2>2. [before[file] EXCEPT !.size = Len(items[file]), !.items = items[file]] =
          [size |-> Len(items[file]), flags |-> before[file].flags, items |-> items[file]]
    BY <1>4, <2>1, GrownRecord
  <2> QED BY <1>3, <1>5, <2>2 DEF View, IsDirectory
<1>7. Visible = [f \in Seen |-> IF f = file THEN [before[file] EXCEPT !.size = Len(items[file]), !.items = items[file]]
                                ELSE before[f]]
  BY <1>3, <1>4, <1>6, VisibleIs
<1>8. WholeTree(Visible) /\ DOMAIN Visible = Seen
  BY SeenWhole, VisibleIs DEF Clean
<1>9. Store!Keep(file, items[file])
  BY <1>2, <1>3, <1>7, <1>8 DEF Store!Keep, Shown, WholeTree
<1>10. file \in Store!Parents
  BY <1>1, <1>2, <1>3 DEF Store!Parents, Store!IsDir, Shown
<1> QED BY <1>2, <1>3, <1>9, <1>10 DEF Store!Position, Store!Others, First, Rest, Shown

LEMMA RemoveEffect ==
  ASSUME TypeOK, Clean, Task, Tale, Ends, op.type = "Remove",
         pc \in {"purge", "purge_blocks", "answer"}
  PROVE  Store!Remove
<1>1. items[file] \o todo = Rest(before, file, item_index + 1) /\ todo = <<>>
  BY DEF Tale, Removing
<1>2. items[file] \in Seq(Item)
  BY DEF Tale, Found, Remembered, TypeOK, ImageTypeOK
<1>3. items[file] = Rest(before, file, item_index + 1)
  BY <1>1, <1>2
<1> QED BY <1>3, KeepEffect DEF Store!Remove, Store!BaseName, BaseName

LEMMA FirstOnes ==
  ASSUME NEW S, NEW s \in Seq(S), NEW t \in Seq(S)
  PROVE  Len(s) \in 0 .. Len(s \o t) /\ s = SubSeq(s \o t, 1, Len(s))
<1>1. PICK m \in Nat, n \in Nat : m = Len(s) /\ n = Len(t)
  OBVIOUS
<1>2. PICK u \in Seq(S) : u = s \o t
  <2>1. s \o t \in Seq(S)
    OBVIOUS
  <2> QED BY <2>1
<1>3. Len(u) = m + n /\ m \in 0 .. m + n
  BY <1>1, <1>2
<1>4. \A i \in 1 .. m : u[i] = s[i]
  BY <1>1, <1>2
<1>5. PICK v : v = SubSeq(u, 1, m)
  OBVIOUS
<1>6. v \in Seq(S) /\ Len(v) = m /\ \A i \in 1 .. m : v[i] = u[i]
  BY <1>1, <1>3, <1>5
<1>7. v = s
  <2>1. v = [i \in 1 .. m |-> v[i]]
    BY <1>6
  <2>2. s = [i \in 1 .. m |-> s[i]]
    BY <1>1
  <2> QED BY <1>4, <1>6, <2>1, <2>2
<1> QED BY <1>1, <1>2, <1>3, <1>5, <1>7

LEMMA CutEffect ==
  ASSUME TypeOK, Clean, Task, Tale, Ends, op.type = "Remove",
         pc \in {"reappend", "append", "write"}
  PROVE  Store!Cut
<1>1. items[file] \o todo = Rest(before, file, item_index + 1)
  BY DEF Tale, Removing
<1>2. items[file] \in Seq(Item) /\ todo \in Seq(Item)
  BY DEF Tale, Found, Remembered, TypeOK, ImageTypeOK, HandlerTypeOK
<1>3. PICK n \in 0 .. Len(Rest(before, file, item_index + 1)) :
        items[file] = SubSeq(Rest(before, file, item_index + 1), 1, n)
  <2>1. PICK r : r = Rest(before, file, item_index + 1)
    OBVIOUS
  <2>2. r = items[file] \o todo
    BY <1>1, <2>1
  <2>3. Len(items[file]) \in 0 .. Len(r) /\ items[file] = SubSeq(r, 1, Len(items[file]))
    BY <1>2, <2>2, FirstOnes
  <2> QED BY <2>1, <2>3
<1> QED BY <1>3, KeepEffect DEF Store!Cut, Store!BaseName, BaseName
-----------------------------------------------------------------------------
(* Where a message is written on a clean image: only where nothing has     *)
(* been done yet, or by the loops that free blocks.                        *)
LEMMA RefusedEarly ==
  ASSUME TypeOK, Clean, Task, Tale, ~torn',
         \/ locate_path \/ fsop_Read \/ fsop_ReadDir \/ fsop_Stat \/ fsop_Write \/ fsop_Create
         \/ fsop_Remove \/ append_directory \/ write_file_unchecked \/ ExtendFind,
         Refuse \/ Internal
  PROVE  NothingDone
<1>1. ~LeavesTorn
  BY DEF Refuse, Internal, Abandon
<1>2. CASE pc = "locate"
  BY <1>2 DEF NothingDone
<1>3. CASE ExtendFind
  BY <1>1, <1>3 DEF ExtendFind, LeavesTorn
<1>4. CASE append_directory
  <2>1. pc = "append" /\ pc' = "idle"
    BY <1>4 DEF append_directory, Refuse, Internal, Abandon
  <2>2. op.type = "Create" \/ IsDirectory(file)
    BY <2>1 DEF Task, Tale, Removing
  <2>3. op.type = "Create"
    BY <1>4, <2>1, <2>2 DEF append_directory
  <2> QED BY <2>1, <2>3 DEF NothingDone
<1>5. CASE write_file_unchecked
  <2>1. pc = "write" /\ pc' = "idle" /\ op.type \in {"Write", "Create", "Remove"}
    BY <1>5 DEF write_file_unchecked, Refuse, Internal, Abandon, Clean, WriteAtHand
  <2>2. offset > inode[file].size
    BY <1>5, <2>1 DEF write_file_unchecked, Finish, StartWalk
  <2>3. op.type # "Remove"
    BY <2>1, <2>2, SizeIsNat DEF Clean, WriteAtHand, TypeOK, HandlerTypeOK
  <2> QED BY <2>1, <2>3 DEF NothingDone
<1> QED BY <1>2, <1>3, <1>4, <1>5 DEF locate_path, fsop_Read, fsop_ReadDir, fsop_Stat,
     fsop_Write, fsop_Create, fsop_Remove, Located

(* The chain of a file that is written leads on to its last block.         *)
LEMMA WriteGoesOn ==
  ASSUME TypeOK, Clean, pc = "walk", ord < goal, op.type # "Stat"
  PROVE  cont[block_index] < blocks_count
<1>1. ord \in Nat /\ goal \in Nat /\ BlocksOf(file) \in Nat /\ goal < BlocksOf(file) /\
        file \in Block
      /\ block_index \in Block
  BY SizeIsNat, BlocksRequired DEF Clean, WalkAtHand, TypeOK, HandlerTypeOK, BlocksOf, Extending
<1>2. ord < BlocksOf(file) /\ ord + 1 < BlocksOf(file)
  BY <1>1
<1>3. owner[block_index] = file /\ rank[block_index] = ord /\ file # 0
  BY <1>2 DEF Clean, WalkAtHand, FileAtHand, IsHead
<1>4. cont[block_index] \in Block
  BY <1>1, <1>2, <1>3 DEF Clean, Consistent, ChainsOK, InChain
<1> QED BY <1>4, ImageAssumption DEF Block
-----------------------------------------------------------------------------
(* ls has found a directory.                                               *)
Listing == op.type = "ReadDir" /\ pc \in {"walk", "answer"} => IsDirectory(file)

LEMMA ListingStep ==
  ASSUME TypeOK, Task, Clean, Purging, Listing, [Next]_vars
  PROVE  Listing'
<1>1. CASE pc' \notin {"walk", "answer"} \/ op'.type # "ReadDir"
  BY <1>1 DEF Listing
<1>2. CASE UNCHANGED <<pc, op, file, inode>>
  BY <1>2 DEF Listing, IsDirectory
<1>3. CASE Refuse \/ Internal \/ Segv \/ Kill \/ Abort \/ (\E why : Abandon(why)) \/
             (\E r \in Requests : Serve(r)) \/ Answer
  BY <1>1, <1>3 DEF Refuse, Internal, Segv, Kill, Abort, Abandon, Serve, Answer
<1>4. CASE locate_path \/ fsop_Read \/ fsop_ReadDir \/ fsop_Stat \/ fsop_Write \/
             fsop_Create \/ fsop_Remove
  BY <1>1, <1>3, <1>4 DEF Listing, locate_path, fsop_Read, fsop_ReadDir, fsop_Stat, fsop_Write,
       fsop_Create, fsop_Remove, Located, TakeFree, Finish, StartWalk, IsDirectory
<1>5. CASE mark_new_block \/ init_new_file \/ append_directory \/ ExtendFind \/ ExtendLink \/
             PurgeBlock \/ ShrinkDone \/ Reappend
           \/ purge_file \/ PurgeFileDone
  BY <1>1, <1>3, <1>5 DEF mark_new_block, init_new_file, append_directory, ExtendFind, ExtendLink, PurgeBlock,
       ShrinkDone, Reappend, purge_file, PurgeFileDone, TakeFree
<1>6. CASE write_file_unchecked \/ ExtendDone
  <2>1. pc \in {"write", "extend"} /\ (op' = op \/ Refuse)
    BY <1>6 DEF write_file_unchecked, ExtendDone, Finish
  <2>2. op.type # "ReadDir"
    BY <2>1 DEF Clean, WriteAtHand
  <2> QED BY <1>1, <1>3, <2>1, <2>2
<1>7. CASE RemoveDone
  BY <1>1, <1>7 DEF RemoveDone, Finish, Purging
<1>8. CASE Hop \/ LastVisit
  <2>1. (pc = "walk" /\ UNCHANGED <<op, file, inode>>) \/ \E why : Abandon(why)
    BY <1>8 DEF Hop, LastVisit, Finish
  <2> QED BY <1>3, <2>1 DEF Listing, IsDirectory
<1> QED BY <1>2, <1>3, <1>4, <1>5, <1>6, <1>7, <1>8 DEF Next, Work, Step, vars
-----------------------------------------------------------------------------
(* A killed handler has had its effect, none, or has cut a directory.      *)
LEMMA KilledEffect ==
  ASSUME TypeOK, Clean, Task, Purging, Listing, Tale, Ends, ~LeavesTorn
  PROVE  \/ Shown' = Shown
         \/ op.type = "Write" /\ Store!Write
         \/ op.type = "Create" /\ Store!Create
         \/ op.type = "Remove" /\ (Store!Remove \/ Store!Cut)
<1>1. CASE NothingDone
  BY <1>1, NothingShows, EndsShown
<1>2. CASE ~NothingDone
  <2>1. op.type \in {"Write", "Create", "Remove"} /\
          pc \notin {"idle", "locate", "init", "header", "extend", "link", "shrink"}
    BY <1>2, OpIsRequest DEF NothingDone, Looking, LeavesTorn, Ends
  <2>2. pc \in {"append", "write", "walk", "reappend", "purge", "purge_blocks", "answer"}
    BY <2>1 DEF TypeOK, HandlerTypeOK
  <2>3. CASE op.type = "Write"
    <3>1. pc \in {"walk", "answer"}
      BY <1>2, <2>2, <2>3 DEF NothingDone, Task, Purging
    <3> QED BY <2>3, <3>1, WriteEffect
  <2>4. CASE op.type = "Create"
    <3>1. pc = "answer"
      BY <1>2, <2>2, <2>4 DEF NothingDone, Task, Purging, LeavesTorn
    <3> QED BY <2>4, <3>1, CreateEffect
  <2>5. CASE op.type = "Remove"
    <3>1. pc # "walk"
      BY <2>5 DEF LeavesTorn
    <3> QED BY <2>2, <2>5, <3>1, RemoveEffect, CutEffect
  <2> QED BY <2>1, <2>3, <2>4, <2>5
<1> QED BY <1>1, <1>2

LEMMA AnswerEffect ==
  ASSUME TypeOK, Clean, Task, Listing, Tale, Ends, pc = "answer"
  PROVE  Store!Effect
<1>1. CASE Looking
  <2>1. Store!Look
    BY <1>1, LookEffect DEF Listing
  <2> QED BY <1>1, <2>1 DEF Store!Effect, Looking
<1>2. CASE op.type = "Write"
  <2>1. Store!Write
    BY <1>2, WriteEffect
  <2> QED BY <1>2, <2>1 DEF Store!Effect
<1>3. CASE op.type = "Create"
  <2>1. Store!Create
    BY <1>3, CreateEffect
  <2> QED BY <1>3, <2>1 DEF Store!Effect
<1>4. CASE op.type = "Remove"
  <2>1. Store!Remove
    BY <1>4, RemoveEffect
  <2> QED BY <1>4, <2>1 DEF Store!Effect
<1> QED BY <1>1, <1>2, <1>3, <1>4, OpIsRequest DEF Looking
-----------------------------------------------------------------------------
(* What holds in every state of the daemon.                                *)
StoreInv == /\ BlocksInv /\ Purging
            /\ ~torn => Listing
            /\ ~torn /\ pc # "idle" => Tale

LEMMA StoreInvInit == Init => StoreInv
BY BlocksInvInit DEF Init, StoreInv, Purging, Listing

LEMMA StoreInvStep == StoreInv /\ [Next]_vars => StoreInv'
<1> SUFFICES ASSUME StoreInv, [Next]_vars PROVE StoreInv'
  OBVIOUS
<1>1. BlocksInv'
  BY BlocksInvStep DEF StoreInv
<1>2. TypeOK /\ Task /\ TypeOK' /\ Purging
  BY <1>1 DEF StoreInv, BlocksInv, IInv
<1>3. Purging'
  BY <1>2, PurgingStep
<1>4. ASSUME ~torn' PROVE Listing' /\ (pc' # "idle" => Tale')
  <2>1. ~torn
    BY <1>2, <1>4, TornStays
  <2>2. Clean /\ MarkAtHand /\ Listing /\ (pc # "idle" => Tale)
    BY <2>1 DEF StoreInv, BlocksInv, IInv
  <2> QED BY <1>2, <2>2, TaleStep, ListingStep
<1> QED BY <1>1, <1>3, <1>4 DEF StoreInv
-----------------------------------------------------------------------------
(* What the daemon's steps are to its clients.                             *)
Served == /\ reply = "none" /\ op' = op
          /\ \/ reply' = "ok" /\ Store!Effect
             \/ reply' \in {"refused", "internal"} \cup Store!Cuts /\ Shown' = Shown
             \/ reply' \in Store!Cuts /\ Store!Effect
             \/ reply' \in Store!Cuts /\ op.type = "Remove" /\ Store!Cut
             \/ reply' \in {"lost", "internal"} /\ op.type = "Remove" /\ Store!Remove

LEMMA EffectOf ==
  /\ op.type = "Write" /\ Store!Write => Store!Effect
  /\ op.type = "Create" /\ Store!Create => Store!Effect
  /\ op.type = "Remove" /\ Store!Remove => Store!Effect
<1>1. CASE op.type = "Write"
  BY <1>1 DEF Store!Effect
<1>2. CASE op.type = "Create"
  BY <1>2 DEF Store!Effect
<1>3. CASE op.type = "Remove"
  BY <1>3 DEF Store!Effect
<1> QED BY <1>1, <1>2, <1>3

(* Steps inside a handler show nothing; the others end it.                 *)
Inside == pc # "idle" /\ pc' # "idle" /\ UNCHANGED <<before, op, reply>>

LEMMA AbandonEnds ==
  ASSUME NEW why, Abandon(why), pc # "idle", ~torn'
  PROVE  Ends /\ ~LeavesTorn /\ reply' = why
BY DEF Abandon, Ends

LEMMA ServedSteps ==
  ASSUME TypeOK, Task, Clean, Purging, Listing, Tale, StillServed, pc # "idle", ~torn',
         Step \/ Kill \/ Abort
  PROVE  Inside \/ Served
<1> DEFINE Early == \/ locate_path \/ fsop_Read \/ fsop_ReadDir \/ fsop_Stat \/ fsop_Write
                    \/ fsop_Create \/ fsop_Remove \/ append_directory \/
                         write_file_unchecked \/ ExtendFind
<1>1. reply = "none"
  BY DEF StillServed
<1>2. CASE Kill \/ Abort
  <2>1. Ends /\ ~LeavesTorn /\ reply' \in Store!Cuts
    BY <1>2, AbandonEnds DEF Kill, Abort, Store!Cuts
  <2>2. \/ Shown' = Shown \/ Store!Effect
        \/ op.type = "Remove" /\ Store!Cut
    BY <2>1, KilledEffect, EffectOf
  <2> QED BY <1>1, <2>1, <2>2 DEF Served, Ends
<1>3. CASE Early /\ (Refuse \/ Internal)
  <2>1. Ends /\ reply' \in {"refused", "internal"}
    BY <1>3, AbandonEnds DEF Refuse, Internal
  <2>2. NothingDone
    BY <1>3, RefusedEarly
  <2>3. Shown' = Shown
    BY <2>1, <2>2, NothingShows, EndsShown
  <2> QED BY <1>1, <2>1, <2>3 DEF Served, Ends
<1>4. CASE Early /\ ~Refuse /\ ~Internal
  BY <1>4 DEF Inside, locate_path, fsop_Read, fsop_ReadDir, fsop_Stat, fsop_Write, fsop_Create,
       fsop_Remove, append_directory, write_file_unchecked, ExtendFind, Located, TakeFree,
       Finish, StartWalk
<1>5. CASE mark_new_block \/ init_new_file \/ ExtendLink \/ ExtendDone \/ LastVisit \/ ShrinkDone \/
             Reappend \/ PurgeFileDone
           \/ RemoveDone
  BY <1>5 DEF Inside, mark_new_block, init_new_file, ExtendLink, ExtendDone, LastVisit, ShrinkDone, Reappend,
       PurgeFileDone, RemoveDone, Finish, StartWalk
<1>6. CASE Hop
  <2>1. pc = "walk" /\ ord < goal
    BY <1>6 DEF Hop
  <2>2. block_index # 0
    BY <2>1, WalkNotNull
  <2>3. CASE Abandon("internal")
    <3>1. Ends /\ ~LeavesTorn /\ reply' = "internal"
      BY <2>3, AbandonEnds
    <3>2. op.type \notin {"Create", "Remove"}
      BY <2>1, <3>1 DEF LeavesTorn
    <3>3. op.type # "Write"
      <4>1. ASSUME op.type = "Write" PROVE FALSE
        <5>1. cont[block_index] < blocks_count
          BY <2>1, <4>1, WriteGoesOn
        <5>2. cont[block_index] >= blocks_count
          BY <1>6, <2>2, <3>1 DEF Hop, Ends
        <5>3. cont[block_index] \in Nat
          BY <2>1 DEF TypeOK, ImageTypeOK, HandlerTypeOK
        <5> QED BY <5>1, <5>2, <5>3, ImageAssumption
      <4> QED BY <4>1
    <3>4. NothingDone
      BY <3>2, <3>3, OpIsRequest DEF NothingDone, Looking
    <3>5. Shown' = Shown
      BY <3>1, <3>4, NothingShows, EndsShown
    <3> QED BY <1>1, <3>1, <3>5 DEF Served, Ends
  <2> QED BY <1>6, <2>2, <2>3 DEF Hop, Inside
<1>7. CASE PurgeBlock
  <2>1. CASE Internal
    <3>1. Ends /\ ~LeavesTorn /\ reply' = "internal"
      BY <2>1, AbandonEnds DEF Internal
    <3>2. pc = "purge_blocks"
      BY <1>7, <3>1 DEF PurgeBlock, LeavesTorn
    <3>3. op.type = "Remove" /\ Store!Remove
      BY <3>1, <3>2, RemoveEffect DEF Purging
    <3> QED BY <1>1, <3>1, <3>3 DEF Served, Ends
  <2> QED BY <1>7, <2>1 DEF PurgeBlock, Inside
<1>8. CASE purge_file
  <2>1. CASE Internal \/ Segv
    <3>1. Ends /\ reply' \in {"lost", "internal"}
      BY <2>1, AbandonEnds DEF Internal, Segv
    <3>2. pc = "purge"
      BY <1>8 DEF purge_file
    <3>3. op.type = "Remove" /\ Store!Remove
      BY <3>1, <3>2, RemoveEffect DEF Purging
    <3> QED BY <1>1, <3>1, <3>3 DEF Served, Ends
  <2> QED BY <1>8, <2>1 DEF purge_file, Inside
<1>9. CASE Answer
  <2>1. pc = "answer" /\ Ends /\ reply' = "ok"
    BY <1>9 DEF Answer, Ends
  <2> QED BY <1>1, <2>1, AnswerEffect DEF Served, Ends
<1> QED BY <1>2, <1>3, <1>4, <1>5, <1>6, <1>7, <1>8, <1>9 DEF Step

LEMMA StoreStep == StoreInv /\ StoreInv' /\ [Next]_vars => [Store!Next]_(Store!store)
<1> SUFFICES ASSUME StoreInv, StoreInv', [Next]_vars PROVE [Store!Next]_(Store!store)
  OBVIOUS
<1>1. TypeOK /\ Task /\ StillServed /\ Purging /\ TypeOK'
  BY DEF StoreInv, BlocksInv, IInv
<1>2. torn \in BOOLEAN /\ torn' \in BOOLEAN
  BY <1>1 DEF TypeOK, HistoryTypeOK
<1>3. CASE torn'
  BY <1>2, <1>3 DEF Store!Next
<1>4. CASE ~torn'
  <2>1. ~torn
    BY <1>1, <1>4, TornStays
  <2>2. torn = FALSE /\ torn' = FALSE
    BY <1>2, <1>4, <2>1
  <2>3. Clean /\ Listing /\ (pc # "idle" => Tale)
    BY <2>1 DEF StoreInv, BlocksInv, IInv
  <2>4. CASE UNCHANGED vars
    <3>1. Visible' = Visible /\ UNCHANGED <<pc, before, op, reply, torn>>
      BY <2>4 DEF vars, Visible, IsHead, Linked
    <3> QED BY <3>1 DEF Store!store
  <2>5. CASE \E r \in Requests : Serve(r)
    <3>1. pc = "idle" /\ pc' = "locate" /\ op' \in Requests /\ reply' = "none" /\ before' = Visible
      BY <2>5 DEF Serve
    <3> QED BY <2>2, <3>1 DEF Store!Next, Store!Arrive
  <2>6. CASE Step \/ Kill \/ Abort
    <3>1. pc # "idle"
      BY <2>6 DEF Step, Kill, Abort, locate_path, fsop_Read, fsop_ReadDir, fsop_Stat, fsop_Write,
        fsop_Create, fsop_Remove, mark_new_block, init_new_file, append_directory, write_file_unchecked,
        ExtendFind, ExtendLink, ExtendDone, Hop, LastVisit, PurgeBlock, ShrinkDone, Reappend,
        purge_file, PurgeFileDone, RemoveDone, Answer, Located
    <3>2. Inside \/ Served
      BY <1>1, <1>4, <2>3, <2>6, <3>1, ServedSteps
    <3>3. CASE Inside
      BY <2>2, <3>3 DEF Inside, Store!store
    <3>4. CASE Served
      BY <2>2, <3>4 DEF Served, Shown, Store!Next, Store!Answer
    <3> QED BY <3>2, <3>3, <3>4
  <2> QED BY <2>4, <2>5, <2>6 DEF Next, Work
<1> QED BY <1>3, <1>4

LEMMA StoreInit == Init => Store!Init
<1> SUFFICES ASSUME Init PROVE Store!Init
  OBVIOUS
<1>1. /\ pc = "idle" /\ op \in Requests /\ reply = "none" /\ torn = FALSE
      /\ \A b \in Block : /\ owner[b] = IF b = root_inode THEN root_inode ELSE 0
                          /\ items[b] = <<>>
      /\ inode[root_inode].size = 0 /\ inode[root_inode].flags = FLG_DIRECTORY
  BY RootIsBlock DEF Init
<1>2. root_inode # 0 /\ root_inode \in Block
  BY ImageAssumption, RootIsBlock
<1>3. \A b \in Block : IsHead(b) <=> b = root_inode
  BY <1>1, <1>2 DEF IsHead
<1>4. Seen = {root_inode}
  BY <1>2, <1>3 DEF Seen, Linked
<1>5. Visible = [f \in {root_inode} |-> [size |-> 0, flags |-> FLG_DIRECTORY, items |-> <<>>]]
  BY <1>1, <1>2, <1>4, VisibleIs DEF View
<1> QED BY <1>1, <1>5 DEF Store!Init, Store!Empty

(* For every image, every set of requests and every moment at which the    *)
(* daemon may be killed, its clients see the store of RfsStore.            *)
THEOREM DaemonIsAStore == Spec => ImplementsStore
<1>1. Spec => []StoreInv
  BY StoreInvInit, StoreInvStep, PTL DEF Spec
<1> QED BY <1>1, StoreInit, StoreStep, PTL DEF Spec, ImplementsStore, Store!Spec
=============================================================================
