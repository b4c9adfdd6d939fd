------------------------------ MODULE PhoneDev ------------------------------
(***************************************************************************)
(* The phone directory module of hw3-kernel (kernel/kmodule.c and          *)
(* kernel/directory.c): one list of records behind a semaphore, reached by *)
(* three system calls and by a character device.  Every open file has an   *)
(* input buffer, a list of found records and an output buffer.  Operations *)
(* are written to the device as bytes and carried out when the buffers are *)
(* processed, which every write, read and release does.                    *)
(*                                                                         *)
(* Clients are those of client/lltest.cpp: a file is used by one thread,   *)
(* an operation is written by write_all, which goes on after a short       *)
(* write, and what was found is read record by record.  With one thread    *)
(* for a file the spinlock of its buffers is never waited for.             *)
(*                                                                         *)
(* Bytes are counted in cells.  A cell of a buffer says which operation or *)
(* which record it belongs to, and which part of it it is.                 *)
(***************************************************************************)
EXTENDS Naturals, Sequences, SequencesExt

CONSTANTS
  Threads,        (* tasks; each has the device open at most once          *)
  None,           (* no task                                               *)
  Surnames,
  RecSize,        (* sizeof(struct phonedir_record)                        *)
  NameLen,        (* PHONEDIR_NAME_LEN                                     *)
  USER_BUF_CAP,
  MaxOps          (* operations in a behaviour, sys_find and sys_del apart *)

ASSUME PhoneDevAssumption ==
  /\ None \notin Threads
  /\ RecSize \in Nat \ {0} /\ NameLen \in Nat /\ MaxOps \in Nat
  /\ USER_BUF_CAP \in Nat /\ Surnames # {}
  /\ 1 + RecSize <= USER_BUF_CAP /\ 1 + NameLen <= USER_BUF_CAP

VARIABLES
  phone_directory,  (* the list, from its head                             *)
  directory_lock,   (* who holds the semaphore                             *)
  serial,           (* number of the last operation                        *)
  (* the open file of each thread *)
  opened,
  input,            (* input_buf, up to input_offset                       *)
  pending,          (* pending_output_head                                 *)
  output,           (* output_buf, up to output_offset                     *)
  (* the call each thread is in *)
  pc, then,         (* then: where to go when the buffers are processed    *)
  op,               (* the operation that is carried out                   *)
  rest,             (* what write_all has still to write                   *)
  l_index,          (* local of handle_process_input_buffers               *)
  walked,           (* the entries a walk over the list goes over          *)
  (* history of each open file *)
  to_execute,       (* cells that write has taken, less those of operations
                       that have been carried out since                    *)
  to_deliver,       (* cells of the records found, less those that read has
                       returned since                                      *)
  disturbed         (* a wait was interrupted or an allocation failed      *)

file    == <<opened, input, pending, output>>
history == <<to_execute, to_deliver, disturbed>>
thread  == <<then, op, rest, l_index, walked>>
vars    == <<phone_directory, directory_lock, serial, file, pc, thread, history>>

OpType    == {"ADD", "DELETE", "FIND"}
Operation == [type : OpType, surname : Surnames, serial : Nat]
Entry     == [surname : Surnames, serial : Nat]

Size(o) == 1 + (IF o.type = "ADD" THEN RecSize ELSE NameLen)

Cells(o) == [i \in 1 .. Size(o) |-> [of |-> o, part |-> i]]

(* The cells of a list of records.                                         *)
Records(s) ==
  [i \in 1 .. Len(s) * RecSize |->
     [of |-> s[((i - 1) \div RecSize) + 1], part |-> ((i - 1) % RecSize) + 1]]

(* What op is between calls.                                               *)
NoOp == [type |-> "FIND", surname |-> CHOOSE s \in Surnames : TRUE, serial |-> 0]

AtMost(a, b) == IF a <= b THEN a ELSE b

DropFirst(s, n) == SubSeq(s, n + 1, Len(s))

(* The members of s that are in set, in their order.  (SelectSeq by a      *)
(* recursive function, about which something can be proved.)               *)
Only(s, set) ==
  LET first[i \in 0 .. Len(s)] ==
        IF i = 0 THEN <<>>
        ELSE IF s[i] \in set THEN Append(first[i - 1], s[i]) ELSE first[i - 1]
  IN  first[Len(s)]
-----------------------------------------------------------------------------
Init ==
  /\ phone_directory = <<>> /\ directory_lock = None /\ serial = 0
  /\ opened = [t \in Threads |-> FALSE]
  /\ input = [t \in Threads |-> <<>>]
  /\ pending = [t \in Threads |-> <<>>]
  /\ output = [t \in Threads |-> <<>>]
  /\ pc = [t \in Threads |-> "idle"]
  /\ then = [t \in Threads |-> "idle"]
  /\ op = [t \in Threads |-> NoOp]
  /\ rest = [t \in Threads |-> <<>>]
  /\ l_index = [t \in Threads |-> 0]
  /\ walked = [t \in Threads |-> <<>>]
  /\ to_execute = [t \in Threads |-> <<>>]
  /\ to_deliver = [t \in Threads |-> <<>>]
  /\ disturbed = [t \in Threads |-> FALSE]

GoTo(t, where) == pc' = [pc EXCEPT ![t] = where]

(* handle_process_buffers, and what the call does after it.                *)
ProcessThen(t, where) ==
  GoTo(t, "down") /\ then' = [then EXCEPT ![t] = where]
-----------------------------------------------------------------------------
dev_open(t) ==
  /\ pc[t] = "idle" /\ ~opened[t]
  /\ opened' = [opened EXCEPT ![t] = TRUE]
  /\ UNCHANGED <<phone_directory, directory_lock, serial, input, pending, output, pc,
                 thread, history>>

(* A client begins to write an operation.                                  *)
write_all(t, o) ==
  /\ pc[t] = "idle" /\ opened[t] /\ serial < MaxOps
  /\ serial' = serial + 1
  /\ rest' = [rest EXCEPT ![t] = Cells([o EXCEPT !.serial = serial + 1])]
  /\ GoTo(t, "write")
  /\ UNCHANGED <<phone_directory, directory_lock, file, then, op, l_index, walked, history>>

Space(t) == USER_BUF_CAP - Len(input[t])

(* Mutant of dev_write: a write that leaves room for more does not process *)
(* the buffers.                                                            *)
ProcessWhenFull(t) ==
  LET copied == AtMost(Len(rest[t]), Space(t))
  IN
  /\ pc[t] \in {"write", "retry"} /\ Space(t) > 0
  /\ input' = [input EXCEPT ![t] = @ \o SubSeq(rest[t], 1, copied)]
  /\ to_execute' = [to_execute EXCEPT ![t] = @ \o SubSeq(rest[t], 1, copied)]
  /\ rest' = [rest EXCEPT ![t] = DropFirst(@, copied)]
  /\ \/ copied = Len(rest[t]) /\ GoTo(t, "idle") /\ UNCHANGED then
     \/ copied < Len(rest[t]) /\ ProcessThen(t, "write")
  /\ UNCHANGED <<phone_directory, directory_lock, serial, opened, pending, output, op,
                 l_index, walked, to_deliver, disturbed>>

(* dev_write with room in the buffer: a part may be all that is taken.     *)
dev_write(t) ==
  LET copied == AtMost(Len(rest[t]), Space(t))
  IN
  /\ pc[t] \in {"write", "retry"} /\ Space(t) > 0
  /\ input' = [input EXCEPT ![t] = @ \o SubSeq(rest[t], 1, copied)]
  /\ to_execute' = [to_execute EXCEPT ![t] = @ \o SubSeq(rest[t], 1, copied)]
  /\ rest' = [rest EXCEPT ![t] = DropFirst(@, copied)]
  /\ ProcessThen(t, IF copied = Len(rest[t]) THEN "idle" ELSE "write")
  /\ UNCHANGED <<phone_directory, directory_lock, serial, opened, pending, output, op,
                 l_index, walked, to_deliver, disturbed>>

(* Without room the buffers are processed first.                           *)
dev_write_full(t) ==
  /\ pc[t] = "write" /\ Space(t) = 0
  /\ ProcessThen(t, "retry")
  /\ UNCHANGED <<phone_directory, directory_lock, serial, file, op, rest, l_index, walked,
                 history>>

(* -ENOSPC: write_all gives up.                                            *)
dev_write_fails(t) ==
  /\ pc[t] = "retry" /\ Space(t) = 0
  /\ GoTo(t, "idle")
  /\ rest' = [rest EXCEPT ![t] = <<>>]
  /\ UNCHANGED <<phone_directory, directory_lock, serial, file, then, op, l_index, walked,
                 history>>

dev_read(t) ==
  /\ pc[t] = "idle" /\ opened[t]
  /\ ProcessThen(t, "copy_to_user")
  /\ UNCHANGED <<phone_directory, directory_lock, serial, file, op, rest, l_index, walked,
                 history>>

copy_to_user(t) ==
  LET copied == AtMost(RecSize, Len(output[t]))
  IN
  /\ pc[t] = "copy_to_user"
  /\ to_deliver' = [to_deliver EXCEPT ![t] = DropFirst(@, copied)]
  /\ output' = [output EXCEPT ![t] = DropFirst(@, copied)]
  /\ GoTo(t, "idle")
  /\ UNCHANGED <<phone_directory, directory_lock, serial, opened, input, pending, thread,
                 to_execute, disturbed>>

dev_release(t) ==
  /\ pc[t] = "idle" /\ opened[t]
  /\ ProcessThen(t, "free")
  /\ UNCHANGED <<phone_directory, directory_lock, serial, file, op, rest, l_index, walked,
                 history>>

(* handle_free: whatever the buffers still hold is dropped.                *)
handle_free(t) ==
  /\ pc[t] = "free"
  /\ GoTo(t, "idle")
  /\ opened' = [opened EXCEPT ![t] = FALSE]
  /\ input' = [input EXCEPT ![t] = <<>>]
  /\ pending' = [pending EXCEPT ![t] = <<>>]
  /\ output' = [output EXCEPT ![t] = <<>>]
  /\ to_execute' = [to_execute EXCEPT ![t] = <<>>]
  /\ to_deliver' = [to_deliver EXCEPT ![t] = <<>>]
  /\ disturbed' = [disturbed EXCEPT ![t] = FALSE]
  /\ UNCHANGED <<phone_directory, directory_lock, serial, thread>>

(* sys_add, sys_del, sys_find.  then = "sys" tells them from the device.   *)
system_call(t, o) ==
  /\ pc[t] = "idle"
  /\ o.type = "ADD" => serial < MaxOps
  /\ serial' = IF o.type = "ADD" THEN serial + 1 ELSE serial
  /\ op' = [op EXCEPT ![t] = [o EXCEPT !.serial = serial']]
  /\ ProcessThen(t, "sys")
  /\ UNCHANGED <<phone_directory, directory_lock, file, rest, l_index, walked, history>>

FromDevice(t) == then[t] # "sys"

(* The buffers are processed, or the system call returns.                  *)
GoOn(t) ==
  /\ GoTo(t, IF FromDevice(t) THEN then[t] ELSE "idle")
  /\ then' = [then EXCEPT ![t] = "idle"] /\ op' = [op EXCEPT ![t] = NoOp]
-----------------------------------------------------------------------------
(* Mutant of down: the semaphore is not waited for.                        *)
DownAnyway(t) ==
  /\ pc[t] = "down"
  /\ directory_lock' = t
  /\ GoTo(t, IF FromDevice(t) THEN "input" ELSE "walk")
  /\ walked' = [walked EXCEPT ![t] = IF FromDevice(t) THEN <<>> ELSE phone_directory]
  /\ UNCHANGED <<phone_directory, serial, file, then, op, rest, l_index, history>>

(* down_interruptible(&directory_lock).  A signal is noticed only by a     *)
(* task that has to wait.  The device goes on as if its buffers had been   *)
(* processed: nobody looks at what handle_process_buffers returns.         *)
down(t) ==
  /\ pc[t] = "down" /\ directory_lock = None
  /\ directory_lock' = t
  /\ GoTo(t, IF FromDevice(t) THEN "input" ELSE "walk")
  /\ walked' = [walked EXCEPT ![t] = IF FromDevice(t) THEN <<>> ELSE phone_directory]
  /\ UNCHANGED <<phone_directory, serial, file, then, op, rest, l_index, history>>

interrupted(t) ==
  /\ pc[t] = "down" /\ directory_lock # None
  /\ GoOn(t)
  /\ disturbed' = [disturbed EXCEPT ![t] = @ \/ FromDevice(t)]
  /\ UNCHANGED <<phone_directory, directory_lock, serial, file, rest, l_index, walked,
                 to_execute, to_deliver>>

Unread(t)  == DropFirst(input[t], l_index[t])

(* Mutant of Processable: the length is not looked at.                     *)
ProcessAnything(t) == Unread(t) # <<>>

(* process_operation carries an operation out unless more than that one is *)
(* left in the buffer.                                                     *)
Processable(t) ==
  Unread(t) # <<>> /\ Len(Unread(t)) <= Size(Head(Unread(t)).of)

process_operation(t) ==
  /\ pc[t] = "input" /\ Processable(t)
  /\ op' = [op EXCEPT ![t] = Head(Unread(t)).of]
  /\ walked' = [walked EXCEPT ![t] = phone_directory]
  /\ GoTo(t, "walk")
  /\ UNCHANGED <<phone_directory, directory_lock, serial, file, then, rest, l_index, history>>

(* The loop ends; what is left is moved to the front.                      *)
end_of_input(t) ==
  /\ \/ pc[t] = "memmove"
     \/ pc[t] = "input" /\ ~Processable(t)
  /\ input' = [input EXCEPT ![t] = Unread(t)]
  /\ l_index' = [l_index EXCEPT ![t] = 0]
  /\ GoTo(t, "output")
  /\ UNCHANGED <<phone_directory, directory_lock, serial, opened, pending, output, then, op,
                 rest, walked, history>>

(* Mutant of RoomFor: one record too many.                                 *)
RoomForOneMore(t) ==
  AtMost(Len(pending[t]), ((USER_BUF_CAP - Len(output[t])) \div RecSize) + 1)

(* How many of the found records there is room for.                        *)
RoomFor(t) ==
  AtMost(Len(pending[t]), (USER_BUF_CAP - Len(output[t])) \div RecSize)
-----------------------------------------------------------------------------
Done(t) ==
  /\ walked' = [walked EXCEPT ![t] = <<>>]
  /\ \/ /\ FromDevice(t)
        /\ l_index' = [l_index EXCEPT ![t] = @ + Size(op[t])]
        /\ to_execute' = [to_execute EXCEPT ![t] = DropFirst(@, Size(op[t]))]
        /\ GoTo(t, "input")
        /\ op' = [op EXCEPT ![t] = NoOp]
        /\ UNCHANGED <<directory_lock, then>>
     \/ /\ ~FromDevice(t)
        /\ directory_lock' = None
        /\ GoOn(t)
        /\ UNCHANGED <<l_index, to_execute>>
  /\ UNCHANGED <<serial, opened, input, output, rest, disturbed>>

phonedir_add_record(t) ==
  /\ pc[t] = "walk" /\ op[t].type = "ADD"
  /\ phone_directory' =
       <<[surname |-> op[t].surname, serial |-> op[t].serial]>> \o phone_directory
  /\ Done(t)
  /\ UNCHANGED <<pending, to_deliver>>

phonedir_del(t) ==
  /\ pc[t] = "walk" /\ op[t].type = "DELETE"
  /\ phone_directory' =
       Only(phone_directory, {e \in Range(phone_directory) : e.surname # op[t].surname})
  /\ Done(t)
  /\ UNCHANGED <<pending, to_deliver>>

(* Matches are put in front of each other: the oldest comes first.  One    *)
(* that cannot be copied for lack of memory is left out without a word.    *)
phonedir_find(t) ==
  /\ pc[t] = "walk" /\ op[t].type = "FIND"
  /\ \E copied \in SUBSET {e \in Range(walked[t]) : e.surname = op[t].surname} :
       LET matches == Only(Reverse(walked[t]), copied)
       IN  IF FromDevice(t)
             THEN /\ pending' = [pending EXCEPT ![t] = @ \o matches]
                  /\ to_deliver' = [to_deliver EXCEPT ![t] = @ \o Records(matches)]
             ELSE UNCHANGED <<pending, to_deliver>>
  /\ Done(t)
  /\ UNCHANGED phone_directory

(* Mutants of no_memory: the system call returns without up; the failed    *)
(* operation is taken for done.                                            *)
NoMemoryKeepsLock(t) ==
  /\ pc[t] = "walk" /\ op[t].type \in {"ADD", "FIND"}
  /\ walked' = [walked EXCEPT ![t] = <<>>]
  /\ \/ /\ FromDevice(t) /\ GoTo(t, "memmove")
        /\ disturbed' = [disturbed EXCEPT ![t] = TRUE]
        /\ UNCHANGED <<then, op>>
     \/ ~FromDevice(t) /\ GoOn(t) /\ UNCHANGED disturbed
  /\ UNCHANGED <<phone_directory, directory_lock, serial, file, rest, l_index, to_execute, to_deliver>>

NoMemorySkips(t) ==
  /\ pc[t] = "walk" /\ op[t].type \in {"ADD", "FIND"}
  /\ walked' = [walked EXCEPT ![t] = <<>>]
  /\ \/ /\ FromDevice(t) /\ GoTo(t, "memmove")
        /\ l_index' = [l_index EXCEPT ![t] = @ + Size(op[t])]
        /\ disturbed' = [disturbed EXCEPT ![t] = TRUE]
        /\ UNCHANGED <<directory_lock, then, op>>
     \/ /\ ~FromDevice(t) /\ GoOn(t)
        /\ directory_lock' = None /\ UNCHANGED <<l_index, disturbed>>
  /\ UNCHANGED <<phone_directory, serial, file, rest, to_execute, to_deliver>>

(* -ENOMEM.  The device keeps the operation in its buffer.                 *)
no_memory(t) ==
  /\ pc[t] = "walk" /\ op[t].type \in {"ADD", "FIND"}
  /\ walked' = [walked EXCEPT ![t] = <<>>]
  /\ \/ /\ FromDevice(t) /\ GoTo(t, "memmove")
        /\ disturbed' = [disturbed EXCEPT ![t] = TRUE]
        /\ UNCHANGED <<directory_lock, then, op>>
     \/ /\ ~FromDevice(t) /\ GoOn(t)
        /\ directory_lock' = None /\ UNCHANGED disturbed
  /\ UNCHANGED <<phone_directory, serial, file, rest, l_index, to_execute, to_deliver>>

(* Mutant of handle_process_output_buffers: what goes into the buffer      *)
(* stays in the list.                                                      *)
OutputStaysPending(t) ==
  /\ pc[t] = "output"
  /\ output' = [output EXCEPT
                  ![t] = @ \o Records(SubSeq(pending[t], 1, RoomFor(t)))]
  /\ directory_lock' = None
  /\ GoOn(t)
  /\ UNCHANGED <<phone_directory, serial, opened, input, pending, rest, l_index, walked,
                 history>>

(* handle_process_output_buffers, and up(&directory_lock).                 *)
handle_process_output_buffers(t) ==
  /\ pc[t] = "output"
  /\ output' = [output EXCEPT
                  ![t] = @ \o Records(SubSeq(pending[t], 1, RoomFor(t)))]
  /\ pending' = [pending EXCEPT ![t] = DropFirst(@, RoomFor(t))]
  /\ directory_lock' = None
  /\ GoOn(t)
  /\ UNCHANGED <<phone_directory, serial, opened, input, rest, l_index, walked, history>>

(* The rest of a call that has begun.                                      *)
Go(t) ==
  \/ dev_write(t) \/ dev_write_full(t) \/ dev_write_fails(t)
  \/ copy_to_user(t) \/ handle_free(t)
  \/ process_operation(t) \/ end_of_input(t)
  \/ phonedir_add_record(t) \/ phonedir_del(t) \/ phonedir_find(t) \/ no_memory(t)
  \/ handle_process_output_buffers(t)

Begin(t) ==
  \/ dev_open(t) \/ dev_read(t) \/ dev_release(t)
  \/ \E type \in OpType, s \in Surnames :
       LET o == [type |-> type, surname |-> s, serial |-> 0]
       IN  write_all(t, o) \/ system_call(t, o)

Next == \E t \in Threads : Begin(t) \/ down(t) \/ interrupted(t) \/ Go(t)

Spec == Init /\ [][Next]_vars
-----------------------------------------------------------------------------
Locked == {"input", "walk", "memmove", "output"}

(* Whoever is between down and up holds the semaphore, and nobody else:    *)
(* each failure has a path of its own out of it, and none keeps it.        *)
HolderAgrees ==
  /\ directory_lock \in Threads \cup {None}
  /\ \A t \in Threads : pc[t] \in Locked <=> directory_lock = t

(* No entry is freed while somebody walks over it.                         *)
WalkedEntriesStay ==
  \A t \in Threads : Range(walked[t]) \subseteq Range(phone_directory)

(* What was written to a file is carried out in that order, each operation *)
(* once, or is still in its buffer: short writes, interrupted waits and    *)
(* failed allocations lose, repeat and reorder nothing.                    *)
ExecutedInOrder ==
  \A t \in Threads : to_execute[t] = Unread(t)

(* The module never takes in more than input_buf holds, and never carries  *)
(* out an operation that is not all there, which would make input_offset   *)
(* negative.                                                               *)
NeverOverruns ==
  \A t \in Threads : /\ l_index[t] <= Len(input[t]) /\ Len(input[t]) <= USER_BUF_CAP
                     /\ Unread(t) # <<>> => Head(Unread(t)).part = 1

(* Reading returns what was found, in that order, each record once.        *)
ReadsWhatWasFound ==
  \A t \in Threads :
    to_deliver[t] = output[t] \o Records(pending[t])

(* "Cannot read whole quant" (client/lltest.cpp:62) never comes: the       *)
(* output buffer holds whole records, and no more than fit.                *)
WholeQuants ==
  \A t \in Threads : Len(output[t]) % RecSize = 0 /\ Len(output[t]) <= USER_BUF_CAP

(* A write that was neither interrupted nor short of memory has been       *)
(* carried out when it returns.                                            *)
DoneWhenWritten ==
  \A t \in Threads : pc[t] = "idle" /\ ~disturbed[t] => input[t] = <<>>
=============================================================================
