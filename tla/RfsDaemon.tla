------------------------------ MODULE RfsDaemon -----------------------------
(***************************************************************************)
(* rfsdaemon of hw2-netfs around its request handlers, and the rfscli      *)
(* processes that call it: connections, one thread for each, the mutex,    *)
(* the error interceptor and what goes over the wire.                      *)
(*                                                                         *)
(* What a handler does to the file system is the subject of RfsCore; here  *)
(* there is one file of a few pieces (an rfscli sends two megabytes in one *)
(* request), and a handler has its effect in one step, or is refused, or   *)
(* ends the daemon.  "item" is mkfile, mkdir or rm, "list" is ls or stat,  *)
(* which ask once.  A client has one                                       *)
(* connection, so the thread that serves it, and its descriptor, go by the *)
(* name of the client.  A request goes over the wire in two parts, as a    *)
(* client can be stopped between the writes that make it up.               *)
(***************************************************************************)
EXTENDS Integers, FiniteSets, SequencesExt

CONSTANTS
  Clients,
  Commands,       (* the commands the clients may be started with          *)
  Pieces,         (* pieces of the standard input of a write               *)
  MaxFds,         (* descriptors the daemon has left for connections       *)
  MaxBacklog,
  MaxKills,       (* bound: clients that are stopped                       *)
  MaxFailures,    (* bound: calls that fail and leave errno set            *)
  NOBODY, GARBAGE

EMPTY == "empty"   (* what a read past the end finds                       *)
OK    == "ok"      (* the empty error string                               *)
ERROR == "error"

ASSUME DaemonAssumption ==
  /\ Commands \subseteq [Clients -> {"write", "cat", "item", "list"}]
  /\ Pieces \in Nat \ {0} /\ MaxFds \in Nat /\ MaxBacklog \in Nat \ {0}
  /\ MaxKills \in Nat /\ MaxFailures \in Nat
  /\ {NOBODY, GARBAGE} \cap Clients = {} /\ NOBODY # GARBAGE
  /\ {EMPTY, OK, ERROR} \cap (Clients \cup {NOBODY, GARBAGE}) = {}

VARIABLES
  daemon,         (* "off" before it is started, "up", "down"              *)
  listener, backlog, failures,
  mutex,          (* the thread that holds it, NOBODY if none              *)
  error_intercepted,
  interceptor,    (* global_interceptor is fsop_error                      *)
  thread,         (* where each thread is; "exited", and "unserved", where *)
                  (* there is none, keep the descriptor                    *)
  to_server, to_client,
  client,         (* [at, command, piece] of each rfscli                   *)
  content,        (* who wrote each piece of the file                      *)
  torn,           (* a handler has ended half way and left the file system *)
                  (* in a state its functions misread (RfsCore)            *)
  (* history *)
  applied,        (* requests of each client that had their effect         *)
  read,           (* the pieces its reads found, in their order            *)
  told,           (* the answers it has taken                              *)
  mixed,          (* its writes have met one of another client             *)
  silent          (* its thread has ended without a message                *)

wire    == <<to_server, to_client>>
files   == <<content, torn>>
history == <<applied, read, told, mixed, silent>>
locking == <<mutex, error_intercepted, interceptor>>
server  == <<daemon, listener, backlog, failures, locking, thread>>
rfs     == <<server, wire, client, files, history>>

Inside   == {"handle", "partial", "status", "payload", "unlock"}
Serving  == {"read", "args", "lock", "cut"} \cup Inside
Ended    == {"done", "failed", "gone"}
Closed(c) == client[c].at \in Ended

Init ==
  /\ daemon = "off" /\ listener = "accepting" /\ backlog = <<>> /\ failures = 0
  /\ mutex = NOBODY /\ error_intercepted = FALSE /\ interceptor = FALSE
  /\ thread = [c \in Clients |-> "none"]
  /\ to_server = [c \in Clients |-> <<>>] /\ to_client = [c \in Clients |-> <<>>]
  /\ \E run \in Commands : client = [c \in Clients |-> [at |-> "start", command |-> run[c], piece |-> 1]]
  /\ content = [i \in 1..Pieces |-> NOBODY] /\ torn = FALSE
  /\ applied = [c \in Clients |-> 0] /\ read = [c \in Clients |-> <<>>]
  /\ told = [c \in Clients |-> <<>>] /\ mixed = [c \in Clients |-> FALSE]
  /\ silent = [c \in Clients |-> FALSE]

Size == Cardinality({i \in 1..Pieces : content[i] # NOBODY})
-----------------------------------------------------------------------------
(* rfsdaemon run: the image is opened, the socket bound, the process put   *)
(* in the background, and the main thread listens.                         *)
start_fs_daemon ==
  /\ daemon = "off" /\ daemon' = "up"
  /\ UNCHANGED <<listener, backlog, failures, locking, thread, wire, client, files, history>>

(* exit(1), a signal, a fault: the threads are gone, and the kernel closes *)
(* the connections after what was sent.                                    *)
Die ==
  /\ daemon' = "down" /\ backlog' = <<>> /\ listener' = listener
  /\ mutex' = NOBODY /\ error_intercepted' = FALSE /\ interceptor' = FALSE
  /\ thread' = [c \in Clients |-> "none"]

Open == {c \in Clients : thread[c] \in Serving \cup {"exited", "unserved"}}

(* One round of server_listen_connections.  Without a free descriptor it   *)
(* goes round and round: warn has it continue.  Whether there is a thread  *)
(* nobody looks.                                                           *)
accept ==
  /\ daemon = "up" /\ listener = "accepting" /\ backlog # <<>>
  /\ Cardinality(Open) < MaxFds
  /\ backlog' = Tail(backlog)
  /\ \/ /\ thread' = [thread EXCEPT ![Head(backlog)] = "read"]
        /\ UNCHANGED failures
     \/ /\ failures < MaxFailures /\ failures' = failures + 1
        /\ thread' = [thread EXCEPT ![Head(backlog)] = "unserved"]
  /\ UNCHANGED <<daemon, listener, locking, wire, client, files, history>>

(* The allocation for a connection fails.  die calls the interceptor that  *)
(* a handler at work has set, or one that has been ended has left behind:  *)
(* fsop_error unlocks the mutex, whoever holds it, and ends the listener.  *)
accept_die ==
  /\ daemon = "up" /\ listener = "accepting" /\ backlog # <<>>
  /\ Cardinality(Open) < MaxFds /\ failures < MaxFailures
  /\ \/ /\ interceptor
        /\ listener' = "ended" /\ failures' = failures + 1
        /\ error_intercepted' = TRUE /\ mutex' = NOBODY
        /\ UNCHANGED <<daemon, backlog, interceptor, thread>>
     \/ ~interceptor /\ Die /\ UNCHANGED failures
  /\ UNCHANGED <<wire, client, files, history>>
-----------------------------------------------------------------------------
At(c, where)    == daemon = "up" /\ thread[c] = where
Go(c, where)    == thread' = [thread EXCEPT ![c] = where]
Send(c, answer) == to_client' = [to_client EXCEPT ![c] = Append(@, answer)]

(* slz_NetFsOperation_read: the type, or the end of the connection ...     *)
read_type(c) ==
  /\ At(c, "read")
  /\ \/ /\ to_server[c] # <<>>
        /\ to_server' = [to_server EXCEPT ![c] = Tail(@)]
        /\ Go(c, "args")
     \/ /\ to_server[c] = <<>> /\ Closed(c)
        /\ Go(c, "closed") /\ UNCHANGED to_server
  /\ UNCHANGED <<daemon, listener, backlog, failures, locking, to_client, client, files, history>>

(* ... and the arguments.  Nobody looks whether reading them succeeded.    *)
read_args(c) ==
  /\ At(c, "args")
  /\ \/ /\ to_server[c] # <<>>
        /\ to_server' = [to_server EXCEPT ![c] = Tail(@)]
        /\ Go(c, "lock")
     \/ /\ to_server[c] = <<>> /\ Closed(c)
        /\ Go(c, "cut") /\ UNCHANGED to_server
  /\ UNCHANGED <<daemon, listener, backlog, failures, locking, to_client, client, files, history>>

(* Mutant: the mutex is not taken.                                         *)
Unlocked(c) ==
  /\ \/ At(c, "lock") /\ Go(c, "handle")
     \/ At(c, "cut") /\ Go(c, "partial")
  /\ mutex' = c /\ error_intercepted' = FALSE /\ interceptor' = TRUE
  /\ UNCHANGED <<daemon, listener, backlog, failures, wire, client, files, history>>

(* serve_next_operation up to the handler.                                 *)
lock(c) ==
  /\ \/ At(c, "lock") /\ Go(c, "handle")
     \/ At(c, "cut") /\ Go(c, "partial")
  /\ mutex = NOBODY
  /\ mutex' = c /\ error_intercepted' = FALSE /\ interceptor' = TRUE
  /\ UNCHANGED <<daemon, listener, backlog, failures, wire, client, files, history>>

(* fsop_error: the thread ends, its descriptor stays open, and so does the *)
(* way to here for the next error.  With errno still set there is one at   *)
(* once: to_string, which copies the message, asks die whether its malloc  *)
(* has failed, and the second fsop_error ends the thread without a         *)
(* message.                                                                *)
fsop_error(c, errno) ==
  /\ Go(c, "exited") /\ error_intercepted' = TRUE /\ mutex' = NOBODY
  /\ IF error_intercepted \/ errno
       THEN silent' = [silent EXCEPT ![c] = TRUE] /\ UNCHANGED to_client
       ELSE Send(c, ERROR) /\ UNCHANGED silent
  /\ UNCHANGED interceptor

Fails == failures < MaxFailures /\ failures' = failures + 1

(* The end of the daemon in a request: a fault, SIGPIPE, or die without an *)
(* interceptor or without memory for its text.                             *)
DieHere == Die /\ UNCHANGED <<failures, to_client, silent>>

(* die_fatal, and die after a call that failed, or a syslog in die_fatal   *)
(* that did.                                                               *)
Refuse(c) ==
  \/ /\ interceptor
     /\ \/ fsop_error(c, FALSE) /\ UNCHANGED failures
        \/ Fails /\ fsop_error(c, TRUE)
     /\ UNCHANGED <<daemon, listener, backlog>>
  \/ DieHere

Runs(c, commands) == client[c].command \in commands
Reads   == {"cat", "list"}
Changes == {"write", "item"}

HasBegun(c) == client[c].command = "write" /\ applied[c] > 0 /\ client[c].at # "done"

(* A request that is refused, or ends the daemon.  One that changes        *)
(* something may have stored a size without blocks by then ("No space"),   *)
(* or have freed blocks in use.                                            *)
Refused(c) ==
  /\ Refuse(c)
  /\ torn' \in {torn, torn \/ Runs(c, Changes)}
  /\ UNCHANGED <<content, applied, read, told, mixed>>

CarriedOut(c) ==
  /\ Go(c, "status") /\ applied' = [applied EXCEPT ![c] = @ + 1]
  /\ UNCHANGED <<daemon, listener, backlog, failures, locking, to_client, told, silent>>

(* What a read may find.  Nothing is known of what is in a torn file.      *)
Found(piece) ==
  {IF piece > Size THEN EMPTY ELSE content[piece]}
    \cup (IF torn /\ piece <= Pieces THEN {EMPTY, GARBAGE} ELSE {})

(* The handler of a request that arrived whole.  rm may free blocks of any *)
(* file (RfsCore).                                                         *)
handle(c) ==
  LET piece == client[c].piece IN
  /\ At(c, "handle")
  /\ \/ Refused(c)
     \/ /\ Runs(c, {"write"}) /\ CarriedOut(c)
        /\ content' = IF piece > Pieces THEN content ELSE [content EXCEPT ![piece] = c]
        /\ mixed' = [d \in Clients |->
                       \/ mixed[d]
                       \/ d # c /\ applied[d] > 0
                       \/ d = c /\ \E e \in Clients \ {c} : HasBegun(e)]
        /\ UNCHANGED <<torn, read>>
     \/ /\ Runs(c, {"item"}) /\ CarriedOut(c)
        /\ torn' \in {torn, TRUE}
        /\ UNCHANGED <<content, read, mixed>>
     \/ /\ Runs(c, Reads) /\ CarriedOut(c)
        /\ \E found \in Found(piece) : read' = [read EXCEPT ![c] = Append(@, found)]
        /\ UNCHANGED <<files, mixed>>
  /\ UNCHANGED <<to_server, client>>

(* The handler of a request that was cut off has arguments nobody wrote:   *)
(* those of the request before, freed since, addresses of the client, or   *)
(* data of which the end is missing.  It may be carried out with them.     *)
handle_partial(c) ==
  /\ At(c, "partial")
  /\ \/ Refused(c)
     \/ /\ Runs(c, {"write"}) /\ CarriedOut(c)
        /\ \E i \in 1..Pieces : content' = [content EXCEPT ![i] = GARBAGE]
        /\ mixed' = [d \in Clients |-> TRUE]
        /\ torn' \in {torn, TRUE} /\ UNCHANGED read
     \/ /\ Runs(c, {"item"}) /\ CarriedOut(c)
        /\ torn' \in {torn, TRUE}
        /\ UNCHANGED <<content, read, mixed>>
     \/ /\ Runs(c, Reads) /\ CarriedOut(c)
        /\ read' = [read EXCEPT ![c] = Append(@, GARBAGE)]
        /\ UNCHANGED <<files, mixed>>
  /\ UNCHANGED <<to_server, client>>

(* Mutant: the status of a read is left out.                               *)
NoStatus(c) ==
  /\ At(c, "status")
  /\ IF Runs(c, Reads)
       THEN Go(c, "payload") /\ UNCHANGED to_client
       ELSE Go(c, "unlock") /\ Send(c, OK)
  /\ UNCHANGED <<daemon, listener, backlog, failures, locking, to_server, client, files, history>>

(* write_empty_error, then what fsop_Read writes.  Writing to a client     *)
(* that is gone may raise SIGPIPE, which nobody handles.  The allocation   *)
(* for the empty message may fail: the request has had its effect then.    *)
(* stat has written past its array by now, and may fault when it frees it. *)
write_empty_error(c) ==
  /\ At(c, "status")
  /\ \/ /\ Go(c, IF Runs(c, Reads) THEN "payload" ELSE "unlock")
        /\ IF error_intercepted THEN UNCHANGED to_client ELSE Send(c, OK)
        /\ UNCHANGED <<daemon, listener, backlog, failures, locking, silent>>
     \/ /\ interceptor /\ ~error_intercepted /\ Fails /\ fsop_error(c, TRUE)
        /\ UNCHANGED <<daemon, listener, backlog>>
     \/ Closed(c) /\ DieHere
     \/ failures < MaxFailures /\ DieHere
  /\ UNCHANGED <<to_server, client, files, applied, read, told, mixed>>

write_payload(c) ==
  /\ At(c, "payload")
  /\ \/ /\ Go(c, "unlock")
        /\ Send(c, read[c][Len(read[c])])
        /\ UNCHANGED <<daemon, listener, backlog, failures, locking, silent>>
     \/ Closed(c) /\ DieHere
     \/ Runs(c, {"list"}) /\ DieHere
  /\ UNCHANGED <<to_server, client, files, applied, read, told, mixed>>


(* The rest of serve_next_operation.                                       *)
unlock(c) ==
  /\ At(c, "unlock")
  /\ interceptor' = FALSE /\ mutex' = NOBODY
  /\ Go(c, "read")
  /\ UNCHANGED <<daemon, listener, backlog, failures, error_intercepted, wire, client, files,
                 history>>

serve_client(c) ==
  \/ read_type(c) \/ read_args(c) \/ lock(c) \/ handle(c) \/ handle_partial(c)
  \/ write_empty_error(c) \/ write_payload(c) \/ unlock(c)
-----------------------------------------------------------------------------
Become(c, where) == client' = [client EXCEPT ![c].at = where]

(* initialize_client.  A client before the daemon, which fails, is left    *)
(* out.                                                                    *)
connect(c) ==
  /\ client[c].at = "start"
  /\ \/ /\ daemon = "up" /\ Len(backlog) < MaxBacklog
        /\ backlog' = Append(backlog, c)
        /\ Become(c, "type")
     \/ daemon = "down" /\ Become(c, "failed") /\ UNCHANGED backlog
  /\ UNCHANGED <<daemon, listener, failures, locking, thread, wire, files, history>>

(* slz_NetFsOperation_write                                                *)
send(c) ==
  /\ client[c].at \in {"type", "args"}
  /\ \/ /\ daemon = "up"
        /\ to_server' = [to_server EXCEPT ![c] = Append(@, client[c].at)]
        /\ Become(c, IF client[c].at = "type" THEN "args" ELSE "wait")
     \/ daemon # "up" /\ Become(c, "failed") /\ UNCHANGED to_server
  /\ UNCHANGED <<server, to_client, files, history>>

Take(c) == /\ to_client[c] # <<>>
           /\ to_client' = [to_client EXCEPT ![c] = Tail(@)]

Next_piece(c) == client' = [client EXCEPT ![c].at = "type", ![c].piece = @ + 1]

(* perform_write goes on until the end of its input is seen, which may     *)
(* take one more piece, with nothing in it.                                *)
AfterWrite(c) ==
  \/ client[c].piece <= Pieces /\ Next_piece(c)
  \/ client[c].piece >= Pieces /\ Become(c, "done")

(* make_item and rm have nothing to do once the answer has come, and ls    *)
(* and stat print it.                                                      *)
AfterItem(c) == Become(c, "done")
AfterList(c) == Become(c, "done")

(* read_error                                                              *)
read_error(c) ==
  /\ client[c].at = "wait"
  /\ \/ /\ Take(c)
        /\ \/ Head(to_client[c]) # OK /\ Become(c, "failed") /\ UNCHANGED told
           \/ /\ Head(to_client[c]) = OK
              /\ \/ Runs(c, Reads) /\ Become(c, "payload")
                 \/ Runs(c, {"item"}) /\ AfterItem(c)
                 \/ Runs(c, {"write"}) /\ AfterWrite(c)
              /\ told' = IF Runs(c, Reads) THEN told
                         ELSE [told EXCEPT ![c] = Append(@, OK)]
     \/ /\ to_client[c] = <<>> /\ daemon = "down"
        /\ Become(c, "failed") /\ UNCHANGED <<to_client, told>>
  /\ UNCHANGED <<server, to_server, files, applied, read, mixed, silent>>

(* The rest of perform_read: cat prints what came and asks for more until  *)
(* nothing comes.  ls and stat ask once.                                   *)
read_payload(c) ==
  /\ client[c].at = "payload"
  /\ \/ /\ Take(c)
        /\ told' = [told EXCEPT ![c] = Append(@, Head(to_client[c]))]
        /\ \/ Runs(c, {"list"}) /\ AfterList(c)
           \/ Runs(c, {"cat"}) /\ Head(to_client[c]) = EMPTY /\ Become(c, "done")
           \/ Runs(c, {"cat"}) /\ Head(to_client[c]) # EMPTY /\ Next_piece(c)
     \/ /\ to_client[c] = <<>> /\ daemon = "down"
        /\ Become(c, "failed") /\ UNCHANGED <<to_client, told>>
  /\ UNCHANGED <<server, to_server, files, applied, read, mixed, silent>>

rfscli(c) == connect(c) \/ send(c) \/ read_error(c) \/ read_payload(c)

(* Somebody stops the client.                                              *)
kill(c) ==
  /\ client[c].at \notin Ended \cup {"start"}
  /\ Cardinality({d \in Clients : client[d].at = "gone"}) < MaxKills
  /\ Become(c, "gone")
  /\ UNCHANGED <<server, wire, files, history>>

Next ==
  \/ start_fs_daemon \/ accept \/ accept_die
  \/ \E c \in Clients : serve_client(c) \/ rfscli(c) \/ kill(c)

(* The operating system runs every thread and every process that can run.  *)
(* It is not asked to be fair to those that wait for the mutex: no client  *)
(* asks for ever.                                                          *)
Spec ==
  /\ Init /\ [][Next]_rfs
  /\ WF_rfs(start_fs_daemon) /\ WF_rfs(accept)
  /\ \A c \in Clients : WF_rfs(serve_client(c)) /\ WF_rfs(rfscli(c))
-----------------------------------------------------------------------------
Answers == {OK, ERROR, EMPTY, NOBODY, GARBAGE} \cup Clients

TypeOK ==
  /\ daemon \in {"off", "up", "down"} /\ listener \in {"accepting", "ended"}
  /\ backlog \in Seq(Clients) /\ failures \in 0..MaxFailures
  /\ mutex \in Clients \cup {NOBODY} /\ error_intercepted \in BOOLEAN /\ interceptor \in BOOLEAN
  /\ thread \in [Clients -> Serving \cup {"none", "closed", "exited", "unserved"}]
  /\ to_server \in [Clients -> Seq({"type", "args"})] /\ to_client \in [Clients -> Seq(Answers)]
  /\ client \in [Clients -> [at : {"start", "type", "args", "wait", "payload"} \cup Ended,
                             command : {"write", "cat", "item", "list"}, piece : Nat \ {0}]]
  /\ content \in [1..Pieces -> Clients \cup {NOBODY, GARBAGE}] /\ torn \in BOOLEAN
  /\ applied \in [Clients -> Nat]
  /\ mixed \in [Clients -> BOOLEAN] /\ silent \in [Clients -> BOOLEAN]
  /\ read \in [Clients -> Seq(Answers)] /\ told \in [Clients -> Seq(Answers)]

(* As long as the listener has not run the error path of somebody else's   *)
(* request, whoever is between lock and unlock of serve_next_operation     *)
(* holds the mutex and has its errors intercepted, and nobody else does    *)
(* (net_backend.c:100-105): a request that is refused, or one whose client *)
(* is gone, leaves the mutex free.                                         *)
OneAtATime ==
  daemon = "up" /\ listener = "accepting" =>
    /\ \A c \in Clients : thread[c] \in Inside => mutex = c /\ interceptor
    /\ mutex # NOBODY => thread[mutex] \in Inside

(* A client is told of its own requests, of each one once and in their     *)
(* order: cat and ls print what their reads have found, in order; a        *)
(* command that goes on has been carried out, one that was sent a message  *)
(* has not (what a refused one may leave behind is in RfsCore).  A write   *)
(* that nobody else has written into, in a file system that is not torn,   *)
(* is all in the file when rfscli ends (main_cli.c sends it in pieces, and *)
(* each by itself is whole).                                               *)
AnswersAreOwn ==
  listener = "accepting" =>
    \A c \in Clients :
      /\ Runs(c, Reads) => IsPrefix(told[c], read[c])
      /\ applied[c] - Len(told[c]) \in {0, 1}
      /\ client[c].at \in {"start", "type", "args"} \cup (IF daemon = "up" THEN {"failed"} ELSE {})
           => applied[c] = Len(told[c])
      /\ \A i \in DOMAIN to_client[c] : to_client[c][i] = ERROR => applied[c] = Len(told[c])
      /\ client[c].at = "done" /\ client[c].command = "write" /\ ~mixed[c] /\ ~torn =>
           \A i \in 1..Pieces : content[i] = c

Leaked == Cardinality({c \in Clients : thread[c] \in {"exited", "unserved"}}) >= MaxFds

=============================================================================
