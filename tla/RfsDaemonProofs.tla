-------------------------- MODULE RfsDaemonProofs ---------------------------
(***************************************************************************)
(* The mutex of rfsdaemon and the answers it gives, for any number of      *)
(* clients, pieces, descriptors, kills and failures.                       *)
(***************************************************************************)
EXTENDS RfsDaemon, FiniteSetTheorems, TLAPS

ServerTyped ==
  /\ mutex \in Clients \cup {NOBODY}
  /\ thread \in [Clients -> Serving \cup {"none", "closed", "exited", "unserved"}]

(* OneAtATime from the start of the daemon on, with the types it needs.    *)
Locked ==
  daemon # "down" /\ listener = "accepting" =>
    /\ \A c \in Clients : thread[c] \in Inside => mutex = c /\ interceptor
    /\ mutex # NOBODY => thread[mutex] \in Inside

Lock == ServerTyped /\ Locked

Places == {"type", "args", "wait", "payload"} \cup Ended
Client == [at : Places \cup {"start"}, command : {"write", "cat", "item", "list"}, piece : Nat \ {0}]

(* Nobody waits to be accepted twice, and who waits has no thread yet.     *)
Queue ==
  /\ backlog \in Seq(Clients)
  /\ client \in [Clients -> Client]
  /\ \A i, j \in DOMAIN backlog : backlog[i] = backlog[j] => i = j
  /\ \A i \in DOMAIN backlog : thread[backlog[i]] = "none" /\ client[backlog[i]].at # "start"
  /\ \A c \in Clients : client[c].at = "start" => thread[c] = "none"

LEMMA NobodyIsNoClient == NOBODY \notin Clients
  BY DaemonAssumption

LEMMA InitLock == Init => Lock
  BY NobodyIsNoClient DEF Init, Lock, ServerTyped, Locked, Inside, Serving

(* Where a thread may go without the mutex, or within it.                  *)
LEMMA ThreadGoes ==
  ASSUME Lock, NEW c \in Clients, NEW where, Go(c, where), daemon' = daemon, listener' = listener,
         where \in Serving \cup {"closed"}, UNCHANGED <<mutex, interceptor>>,
         where \in Inside <=> thread[c] \in Inside
  PROVE  Lock'
  BY NobodyIsNoClient DEF Lock, ServerTyped, Locked, Go

(* The end of the daemon.                                                  *)
LEMMA DieLock == ASSUME Lock, Die PROVE Lock'
  BY DEF Lock, ServerTyped, Locked, Die

(* A refused request: by whoever holds the mutex.                          *)
LEMMA RefuseLock ==
  ASSUME Lock, NEW c \in Clients, daemon = "up", thread[c] \in Inside, Refuse(c)
  PROVE  Lock'
  <1>1. CASE /\ interceptor /\ UNCHANGED <<daemon, listener, backlog>>
             /\ fsop_error(c, TRUE) \/ fsop_error(c, FALSE)
    <2>1. /\ mutex' = NOBODY /\ thread' = [thread EXCEPT ![c] = "exited"]
          /\ UNCHANGED <<daemon, listener, backlog, interceptor>>
      BY <1>1 DEF fsop_error, Go
    <2>2. listener = "accepting" => \A d \in Clients : thread[d] \in Inside => d = c
      BY NobodyIsNoClient DEF Lock, Locked
    <2> QED
      BY <2>1, <2>2, NobodyIsNoClient DEF Lock, ServerTyped, Locked, Inside
  <1>2. CASE Die
    BY <1>2, DieLock
  <1> QED
    BY <1>1, <1>2 DEF Refuse, DieHere

LEMMA AcceptLock == ASSUME Lock, Queue, accept PROVE Lock'
  <1>1. /\ backlog # <<>> /\ UNCHANGED <<daemon, listener, mutex, interceptor>>
        /\ \E where \in {"read", "unserved"} : thread' = [thread EXCEPT ![Head(backlog)] = where]
    BY DEF accept, locking
  <1>2. PICK where \in {"read", "unserved"} : thread' = [thread EXCEPT ![Head(backlog)] = where]
    BY <1>1
  <1>3. Head(backlog) \in Clients /\ thread[Head(backlog)] = "none"
    BY <1>1 DEF Queue
  <1> QED
    BY <1>1, <1>2, <1>3, NobodyIsNoClient DEF Lock, ServerTyped, Locked, Inside, Serving

LEMMA ServeLock == ASSUME Lock, NEW c \in Clients, serve_client(c) PROVE Lock'
  <1>1. CASE read_type(c) \/ read_args(c)
    BY <1>1, ThreadGoes DEF read_type, read_args, At, Inside, Serving, locking
  <1>2. CASE lock(c)
    BY <1>2, NobodyIsNoClient DEF lock, At, Go, Lock, ServerTyped, Locked, Inside, Serving
  <1>3. CASE handle(c)
    <2>1. daemon = "up" /\ thread[c] \in Inside
      BY <1>3 DEF handle, At, Inside
    <2>2. CASE Refuse(c)
      BY <2>1, <2>2, RefuseLock
    <2>3. CASE Go(c, "status") /\ UNCHANGED <<daemon, listener, mutex, interceptor>>
      BY <2>1, <2>3, ThreadGoes DEF Inside, Serving
    <2> QED
      BY <1>3, <2>2, <2>3 DEF handle, Refused, CarriedOut, locking
  <1>4. CASE handle_partial(c)
    <2>1. daemon = "up" /\ thread[c] \in Inside
      BY <1>4 DEF handle_partial, At, Inside
    <2>2. CASE Go(c, "status") /\ UNCHANGED <<daemon, listener, mutex, interceptor>>
      BY <2>1, <2>2, ThreadGoes DEF Inside, Serving
    <2> QED
      BY <1>4, <2>1, <2>2, RefuseLock DEF handle_partial, Refused, CarriedOut, locking
  <1>5. CASE write_empty_error(c) \/ write_payload(c)
    <2>1. CASE Die
      BY <2>1, DieLock
    <2>2. CASE (Go(c, "payload") \/ Go(c, "unlock")) /\ UNCHANGED <<daemon, listener, mutex, interceptor>>
      <3>1. thread[c] \in Inside
        BY <1>5 DEF write_empty_error, write_payload, At, Inside
      <3> QED
        BY <2>2, <3>1, ThreadGoes DEF Inside, Serving
    <2>3. CASE interceptor /\ fsop_error(c, TRUE) /\ Fails /\ UNCHANGED <<daemon, listener, backlog>>
      BY <1>5, <2>3, RefuseLock DEF write_empty_error, write_payload, At, Inside, Refuse
    <2> QED
      BY <1>5, <2>1, <2>2, <2>3 DEF write_empty_error, write_payload, DieHere, locking
  <1>6. CASE unlock(c)
    BY <1>6, NobodyIsNoClient DEF unlock, At, Go, Lock, ServerTyped, Locked, Inside, Serving
  <1> QED
    BY <1>1, <1>2, <1>3, <1>4, <1>5, <1>6 DEF serve_client

LEMMA NextLock == ASSUME Lock, Queue, [Next]_rfs PROVE Lock'
  <1>1. CASE start_fs_daemon
    BY <1>1 DEF start_fs_daemon, Lock, ServerTyped, Locked, locking
  <1>2. CASE accept
    BY <1>2, AcceptLock
  <1>3. CASE accept_die
    <2>1. CASE Die
      BY <2>1, DieLock
    <2>2. CASE listener' = "ended" /\ mutex' = NOBODY /\ UNCHANGED thread
      BY <2>2 DEF Lock, ServerTyped, Locked
    <2> QED
      BY <1>3, <2>1, <2>2 DEF accept_die
  <1>4. ASSUME NEW c \in Clients, serve_client(c) PROVE Lock'
    BY <1>4, ServeLock
  <1>5. ASSUME NEW c \in Clients, rfscli(c) \/ kill(c) PROVE Lock'
    <2>1. UNCHANGED <<daemon, listener, locking, thread>>
      BY <1>5 DEF rfscli, connect, send, read_error, read_payload, kill, server
    <2> QED
      BY <2>1 DEF Lock, ServerTyped, Locked, locking
  <1>6. CASE UNCHANGED rfs
    BY <1>6 DEF rfs, server, locking, Lock, ServerTyped, Locked
  <1> QED
    BY <1>1, <1>2, <1>3, <1>4, <1>5, <1>6 DEF Next
-----------------------------------------------------------------------------
LEMMA InitQueue == Init => Queue
  <1> SUFFICES ASSUME Init PROVE Queue
    OBVIOUS
  <1>1. client \in [Clients -> Client]
    <2>1. PICK run \in Commands : client = [c \in Clients |-> [at |-> "start", command |-> run[c], piece |-> 1]]
      BY DEF Init
    <2>2. \A c \in Clients : run[c] \in {"write", "cat", "item", "list"}
      BY <2>1, DaemonAssumption DEF DaemonAssumption
    <2> QED
      BY <2>1, <2>2 DEF Client
  <1>2. backlog = <<>> /\ thread = [c \in Clients |-> "none"]
    BY DEF Init
  <1> QED
    BY <1>1, <1>2 DEF Queue

(* A step of a thread: those who wait have none.                           *)
LEMMA ThreadQueue ==
  ASSUME Queue, NEW c \in Clients, thread[c] # "none", UNCHANGED <<backlog, client>>,
         NEW where, thread' = [thread EXCEPT ![c] = where]
  PROVE  Queue'
  BY DEF Queue

LEMMA DieQueue == ASSUME Queue, Die, UNCHANGED client PROVE Queue'
  BY DEF Queue, Die

LEMMA ServeQueue == ASSUME Queue, NEW c \in Clients, serve_client(c) PROVE Queue'
  <1>1. thread[c] # "none" /\ UNCHANGED client
    BY DEF serve_client, read_type, read_args, lock, handle, handle_partial, Refused, CarriedOut, Refuse, DieHere, write_empty_error,
           write_payload, unlock, At
  <1>2. Die \/ (UNCHANGED backlog /\ \E where : Go(c, where))
    BY DEF serve_client, read_type, read_args, lock, handle, handle_partial, Refused, CarriedOut, Refuse, DieHere, write_empty_error,
           write_payload, unlock, fsop_error
  <1>3. CASE Die
    BY <1>1, <1>3, DieQueue
  <1>4. CASE UNCHANGED backlog /\ \E where : Go(c, where)
    BY <1>1, <1>4, ThreadQueue DEF Go
  <1> QED
    BY <1>2, <1>3, <1>4

LEMMA AcceptQueue == ASSUME Queue, accept PROVE Queue'
  <1> DEFINE h == Head(backlog)
  <1>1. PICK where : /\ thread' = [thread EXCEPT ![h] = where]
                     /\ backlog # <<>> /\ backlog' = Tail(backlog) /\ UNCHANGED client
    BY DEF accept
  <1>2. /\ h \in Clients /\ h = backlog[1] /\ backlog' \in Seq(Clients)
        /\ \A i \in DOMAIN backlog' : i + 1 \in DOMAIN backlog /\ backlog'[i] = backlog[i + 1] /\ i \in Nat \ {0}
    BY <1>1 DEF Queue
  <1>3. \A i \in DOMAIN backlog' : backlog'[i] # h
    BY <1>1, <1>2 DEF Queue
  <1>4. \A i, j \in DOMAIN backlog' : backlog'[i] = backlog'[j] => i = j
    BY <1>2 DEF Queue
  <1>5. client[h].at # "start"
    BY <1>1, <1>2 DEF Queue
  <1>6. \A i \in DOMAIN backlog' : backlog'[i] \in Clients
    BY <1>2 DEF Queue
  <1> QED
    BY <1>1, <1>2, <1>3, <1>4, <1>5, <1>6 DEF Queue

(* A step of a client that does not bring it back to the start.            *)
LEMMA ClientQueue ==
  ASSUME Queue, NEW c \in Clients, UNCHANGED <<backlog, thread>>,
         NEW where \in Places, client' = [client EXCEPT ![c].at = where]
  PROVE  Queue'
  <1>1. client' \in [Clients -> Client] /\ client'[c].at = where
    BY DEF Queue, Client
  <1>2. where # "start"
    BY DEF Places, Ended
  <1>3. \A d \in Clients \ {c} : client'[d] = client[d]
    BY DEF Queue
  <1> QED
    BY <1>1, <1>2, <1>3 DEF Queue

LEMMA PieceQueue ==
  ASSUME Queue, NEW c \in Clients, UNCHANGED <<backlog, thread>>,
         client' = [client EXCEPT ![c].at = "type", ![c].piece = @ + 1]
  PROVE  Queue'
  <1>1. client' \in [Clients -> Client] /\ client'[c].at = "type"
    <2>1. client \in [Clients -> Client]
      BY DEF Queue
    <2>2. client[c].piece + 1 \in Nat \ {0} /\ "type" \in Places
      BY <2>1 DEF Client, Places
    <2>3. [client[c] EXCEPT !.at = "type", !.piece = @ + 1] \in Client
      BY <2>1, <2>2 DEF Client
    <2>4. client' = [client EXCEPT ![c] = [client[c] EXCEPT !.at = "type", !.piece = @ + 1]]
      BY <2>1
    <2> QED
      BY <2>1, <2>3, <2>4
  <1>2. \A d \in Clients \ {c} : client'[d] = client[d]
    BY DEF Queue
  <1> QED
    BY <1>1, <1>2 DEF Queue

LEMMA AppendQueue ==
  ASSUME Queue, NEW c \in Clients, client[c].at = "start", UNCHANGED thread,
         backlog' = Append(backlog, c), client' = [client EXCEPT ![c].at = "type"]
  PROVE  Queue'
  <1>1. /\ backlog' \in Seq(Clients) /\ thread[c] = "none"
        /\ \A i \in DOMAIN backlog : backlog[i] # c
    BY DEF Queue
  <1>2. \A i \in DOMAIN backlog' :
          (i \in DOMAIN backlog /\ backlog'[i] = backlog[i]) \/ (i = Len(backlog) + 1 /\ backlog'[i] = c)
    BY DEF Queue
  <1>3. \A i, j \in DOMAIN backlog' : backlog'[i] = backlog'[j] => i = j
    BY <1>1, <1>2 DEF Queue
  <1>4. client'[c].at = "type" /\ client' \in [Clients -> Client]
    BY DEF Queue, Client, Places
  <1>5. \A d \in Clients \ {c} : client'[d] = client[d]
    BY DEF Queue
  <1>6. \A i \in DOMAIN backlog' : backlog'[i] \in Clients
    BY <1>1
  <1> QED
    BY <1>1, <1>2, <1>3, <1>4, <1>5, <1>6 DEF Queue

LEMMA NextQueue == ASSUME Queue, [Next]_rfs PROVE Queue'
  <1>1. CASE start_fs_daemon
    BY <1>1 DEF start_fs_daemon, Queue
  <1>2. CASE accept
    BY <1>2, AcceptQueue
  <1>3. CASE accept_die
    BY <1>3, DieQueue DEF accept_die, Queue
  <1>4. ASSUME NEW c \in Clients, serve_client(c) PROVE Queue'
    BY <1>4, ServeQueue
  <1>5. ASSUME NEW c \in Clients, connect(c) PROVE Queue'
    <2>1. CASE Become(c, "failed") /\ UNCHANGED <<backlog, thread>>
      BY <2>1, ClientQueue DEF Become, Places, Ended
    <2>2. CASE backlog' = Append(backlog, c) /\ Become(c, "type") /\ UNCHANGED thread
      BY <1>5, <2>2, AppendQueue DEF connect, Become
    <2> QED
      BY <1>5, <2>1, <2>2 DEF connect
  <1>6. ASSUME NEW c \in Clients, send(c) \/ read_error(c) \/ read_payload(c) \/ kill(c) PROVE Queue'
    <2>1. UNCHANGED <<backlog, thread>>
      BY <1>6 DEF send, read_error, read_payload, kill, server
    <2>2. CASE \E where \in Places : Become(c, where)
      BY <2>1, <2>2, ClientQueue DEF Become
    <2>3. CASE Next_piece(c)
      BY <2>1, <2>3, PieceQueue DEF Next_piece
    <2> QED
      BY <1>6, <2>2, <2>3 DEF send, read_error, read_payload, kill, AfterWrite, AfterItem, AfterList, Places, Ended
  <1>7. CASE UNCHANGED rfs
    BY <1>7 DEF rfs, server, Queue
  <1> QED
    BY <1>1, <1>2, <1>3, <1>4, <1>5, <1>6, <1>7 DEF Next, rfscli
-----------------------------------------------------------------------------
(* Between lock and unlock a thread holds the mutex and has its errors     *)
(* intercepted, and nobody else holds it, in every order of requests,      *)
(* refusals and deaths (net_backend.c:100-105 and 30).                     *)
THEOREM OneRequestAtATime == Spec => []OneAtATime
  <1>1. Init => Lock /\ Queue
    BY InitLock, InitQueue
  <1>2. Lock /\ Queue /\ [Next]_rfs => Lock' /\ Queue'
    BY NextLock, NextQueue
  <1>3. Lock => OneAtATime
    BY DEF Lock, Locked, OneAtATime
  <1> QED
    BY <1>1, <1>2, <1>3, PTL DEF Spec
-----------------------------------------------------------------------------
(* The answers.  Values is what a read may find.                           *)
Values == {EMPTY, NOBODY, GARBAGE} \cup Clients

WireTyped ==
  /\ daemon \in {"off", "up", "down"}
  /\ to_server \in [Clients -> Seq({"type", "args"})]
  /\ to_client \in [Clients -> Seq(Answers)]
  /\ content \in [1..Pieces -> Clients \cup {NOBODY, GARBAGE}] /\ torn \in BOOLEAN
  /\ applied \in [Clients -> Nat]
  /\ mixed \in [Clients -> BOOLEAN] /\ silent \in [Clients -> BOOLEAN]
  /\ read \in [Clients -> Seq(Values)] /\ told \in [Clients -> Seq(Answers)]

Owed(c) == applied[c] - Len(told[c])

(* What may be on the way to the server when nothing of it has been read.  *)
Written(c) ==
  CASE client[c].at \in {"start", "type", "done"} -> {<<>>}
    [] client[c].at = "args" -> {<<"type">>}
    [] client[c].at = "wait" -> {<<"type", "args">>}
    [] client[c].at = "gone" -> {<<>>, <<"type">>, <<"type", "args">>}
    [] OTHER -> {}

Answer(c) == IF Runs(c, Reads) THEN <<OK, read[c][applied[c]]>> ELSE <<OK>>

(* What c has been told, and what is under way to it.                      *)
ClientSide(c) ==
  LET at == client[c].at IN
  /\ Owed(c) \in {0, 1}
  /\ Runs(c, Reads) => Len(read[c]) = applied[c] /\ \A i \in 1..Len(told[c]) : told[c][i] = read[c][i]
  /\ at \in {"start", "type", "args", "done"} => to_client[c] = <<>> /\ Owed(c) = 0
  /\ at = "wait" =>
       \/ to_client[c] = <<>>
       \/ to_client[c] = <<ERROR>> /\ Owed(c) = 0
       \/ to_client[c] \in {<<OK>>, Answer(c)} /\ Owed(c) = 1
  /\ at = "payload" => /\ Runs(c, Reads) /\ Owed(c) = 1
                       /\ to_client[c] \in {<<>>, <<read[c][applied[c]]>>}
  /\ at = "failed" => to_client[c] = <<>> /\ (daemon = "up" => Owed(c) = 0)
  /\ \A i \in DOMAIN to_client[c] : to_client[c][i] = ERROR => Owed(c) = 0

Waits(c) == to_server[c] \in Written(c) /\ to_client[c] = <<>> /\ Owed(c) = 0

(* Where the thread of c stands when the daemon is not down.               *)
ServerSide(c) ==
  LET at == client[c].at
      where == thread[c] IN
  daemon # "down" =>
  /\ where \in {"none", "unserved"} => Waits(c) /\ at # "done"
  /\ where \in {"read", "unlock"} =>
       /\ at # "start"
       /\ \/ Waits(c)
          \/ /\ to_server[c] = <<>> /\ Owed(c) = 1 /\ at \in {"wait", "payload", "gone"}
             /\ at = "wait" => to_client[c] = Answer(c)
             /\ at = "payload" => to_client[c] = <<read[c][applied[c]]>>
  /\ where \notin {"none", "unserved", "read", "unlock", "args"} => to_server[c] = <<>>
  /\ where = "args" =>
       \/ at \in {"args", "gone"} /\ to_server[c] = <<>>
       \/ at \in {"wait", "gone"} /\ to_server[c] = <<"args">>
  /\ where \in {"lock", "handle", "status"} => at \in {"wait", "gone"}
  /\ where \in {"cut", "partial"} => at = "gone"
  /\ where \in {"args", "lock", "handle", "cut", "partial"} => to_client[c] = <<>> /\ Owed(c) = 0
  /\ where = "status" => to_client[c] = <<>> /\ Owed(c) = 1
  /\ where = "payload" =>
       /\ Runs(c, Reads) /\ Owed(c) = 1 /\ at \in {"wait", "payload", "gone"}
       /\ at = "wait" => to_client[c] = <<OK>>
       /\ at = "payload" => to_client[c] = <<>>
       /\ at = "gone" => to_client[c] \in {<<>>, <<OK>>}
  /\ where = "closed" => at \in {"done", "gone"}
  /\ where = "exited" /\ silent[c] => at \in {"wait", "gone"} /\ to_client[c] = <<>>
  /\ where = "exited" /\ ~silent[c] => /\ Owed(c) = 0 /\ at \in {"wait", "failed", "gone"}
                                       /\ at = "wait" => to_client[c] = <<ERROR>>

(* The piece a write has come to, and the file up to there.                *)
PieceSide(c) ==
  LET at == client[c].at IN
  client[c].command = "write" =>
    /\ at # "done" => client[c].piece = Len(told[c]) + 1
    /\ at = "done" => client[c].piece = Len(told[c]) /\ client[c].piece >= Pieces
    /\ ~mixed[c] /\ ~torn => \A i \in 1..Pieces : i <= applied[c] => content[i] = c

Own(c) == ClientSide(c) /\ ServerSide(c) /\ PieceSide(c)

(* Silence is the end of a thread.                                         *)
Silence == daemon # "down" => \A c \in Clients : silent[c] => thread[c] = "exited"

AllOwn ==
  /\ daemon = "off" => \A c \in Clients : client[c].at = "start"
  /\ daemon = "up" /\ listener = "accepting" /\ mutex # NOBODY => ~error_intercepted
  /\ listener = "accepting" => \A c \in Clients : Own(c)

(* The invariant: where a client and its thread stand tells what is on the *)
(* way between them, and whether the last request has had its effect and   *)
(* is not answered yet (Owed).                                             *)
AInv == Lock /\ Queue /\ WireTyped /\ AllOwn /\ Silence

LEMMA AppendFacts ==
  ASSUME NEW S, NEW s \in Seq(S), NEW x \in S
  PROVE  /\ Append(s, x) \in Seq(S) /\ Len(Append(s, x)) = Len(s) + 1
         /\ Append(s, x)[Len(s) + 1] = x
         /\ \A i \in 1..Len(s) : Append(s, x)[i] = s[i]
OBVIOUS

LEMMA SameSequence ==
  ASSUME NEW S, NEW s \in Seq(S), NEW t \in Seq(S), Len(s) = Len(t),
         \A i \in 1..Len(s) : s[i] = t[i]
  PROVE  s = t
OBVIOUS

LEMMA One ==
  ASSUME NEW x
  PROVE  /\ Len(<<x>>) = 1 /\ <<x>> # <<>> /\ Head(<<x>>) = x /\ Tail(<<x>>) = <<>>
         /\ Append(<<>>, x) = <<x>>
OBVIOUS

LEMMA Two ==
  ASSUME NEW x, NEW y
  PROVE  /\ Len(<<x, y>>) = 2 /\ <<x, y>> # <<>> /\ <<x, y>> # <<x>> /\ <<x, y>> # <<y>>
         /\ Head(<<x, y>>) = x /\ Tail(<<x, y>>) = <<y>> /\ Append(<<x>>, y) = <<x, y>>
<1>1. Len(<<x, y>>) = 2 /\ <<x, y>> # <<>> /\ Head(<<x, y>>) = x
  OBVIOUS
<1>2. <<x, y>> # <<x>> /\ <<x, y>> # <<y>>
  BY <1>1, One
<1>3. Tail(<<x, y>>) = <<y>>
  OBVIOUS
<1>4. Append(<<x>>, y) = <<x, y>>
  <2>1. PICK S, one, two, more : S = {x, y} /\ one = <<x>> /\ two = <<x, y>> /\ more = Append(one, y)
    OBVIOUS
  <2>2. one \in Seq(S) /\ y \in S /\ Len(one) = 1 /\ one[1] = x
    BY <2>1
  <2>3. two \in Seq(S) /\ Len(two) = 2 /\ two[1] = x /\ two[2] = y
    BY <2>1
  <2>4. more \in Seq(S) /\ Len(more) = 2
    BY <2>1, <2>2, AppendFacts
  <2>5. more[1] = x /\ more[2] = y
    <3>1. more[Len(one) + 1] = y /\ \A i \in 1..Len(one) : more[i] = one[i]
      BY <2>1, <2>2, AppendFacts
    <3>. QED BY <2>2, <3>1
  <2>6. \A i \in 1..2 : i = 1 \/ i = 2
    OBVIOUS
  <2>7. more = two
    BY <2>3, <2>4, <2>5, <2>6, SameSequence
  <2>. QED BY <2>1, <2>7
<1>. QED BY <1>1, <1>2, <1>3, <1>4

LEMMA ClientStays ==
  ASSUME NEW c \in Clients, ClientSide(c), client'[c] = client[c], applied'[c] = applied[c],
         told'[c] = told[c], read'[c] = read[c], to_client'[c] = to_client[c],
         daemon' = "up" => daemon = "up" \/ client[c].at # "failed"
  PROVE  ClientSide(c)'
BY DEF ClientSide, Owed, Runs, Answer

LEMMA ServerStays ==
  ASSUME NEW c \in Clients, ServerSide(c), client'[c] = client[c], applied'[c] = applied[c],
         told'[c] = told[c], read'[c] = read[c], to_client'[c] = to_client[c],
         to_server'[c] = to_server[c], thread'[c] = thread[c], silent'[c] = silent[c],
         daemon' # "down" => daemon # "down"
  PROVE  ServerSide(c)'
BY DEF ServerSide, Waits, Written, Owed, Runs, Answer

LEMMA PieceStays ==
  ASSUME NEW c \in Clients, PieceSide(c), client'[c] = client[c], told'[c] = told[c],
         applied'[c] = applied[c],
         torn' \/ mixed'[c] \/ (torn' = torn /\ mixed'[c] = mixed[c] /\ \A i \in 1..Pieces : i <= applied[c] => content'[i] = content[i])
  PROVE  PieceSide(c)'
BY DEF PieceSide

LEMMA SizeIsSmall == Size \in Nat /\ Size <= Pieces
<1>1. IsFiniteSet(1..Pieces) /\ Cardinality(1..Pieces) = Pieces
  BY FS_Interval, DaemonAssumption
<1>2. {i \in 1..Pieces : content[i] # NOBODY} \subseteq 1..Pieces
  OBVIOUS
<1>. QED BY <1>1, <1>2, FS_Subset, FS_CardinalityType DEF Size

(* Nothing that is read looks like an answer of another kind.              *)
LEMMA ValuesAreNoErrors == ERROR \notin Values /\ OK \notin Values /\ Values \subseteq Answers
BY DaemonAssumption DEF Values, Answers, ERROR, OK, EMPTY

(* What happens to a client when somebody else does something, and when    *)
(* the daemon ends.                                                        *)
LEMMA OwnStays ==
  ASSUME NEW c \in Clients, Own(c), client'[c] = client[c], applied'[c] = applied[c],
         told'[c] = told[c], read'[c] = read[c], to_client'[c] = to_client[c],
         daemon' = "up" => daemon = "up" \/ client[c].at # "failed",
         daemon' # "down" => /\ daemon # "down" /\ to_server'[c] = to_server[c]
                             /\ thread'[c] = thread[c] /\ silent'[c] = silent[c],
         torn' \/ mixed'[c] \/ (torn' = torn /\ mixed'[c] = mixed[c] /\ \A i \in 1..Pieces : i <= applied[c] => content'[i] = content[i])
  PROVE  Own(c)'
<1>1. ClientSide(c)'
  BY ClientStays DEF Own
<1>2. ServerSide(c)'
  <2>1. CASE daemon' = "down"
    BY <2>1 DEF ServerSide
  <2>2. CASE daemon' # "down"
    BY <2>2, ServerStays DEF Own
  <2>. QED BY <2>1, <2>2
<1>3. PieceSide(c)'
  BY PieceStays DEF Own
<1>. QED BY <1>1, <1>2, <1>3 DEF Own

(* A thread reads a part of a request.                                     *)
LEMMA ReadOwn ==
  ASSUME AInv, NEW c \in Clients, listener = "accepting", read_type(c) \/ read_args(c)
  PROVE  Own(c)'
<1>1. /\ daemon = "up" /\ thread[c] \in {"read", "args"}
      /\ UNCHANGED <<daemon, client, content, torn, applied, told, read, mixed, silent, to_client>>
  BY DEF read_type, read_args, At, history, files
<1>2. Own(c)
  BY DEF AInv, AllOwn
<1>3. ClientSide(c)' /\ PieceSide(c)'
  BY <1>1, <1>2, ClientStays, PieceStays DEF Own
<1>4. thread \in [Clients -> Serving \cup {"none", "closed", "exited", "unserved"}]
  BY DEF AInv, Lock, ServerTyped
<1>5. to_server \in [Clients -> Seq({"type", "args"})]
  BY DEF AInv, WireTyped
<1>6. client[c].at \in Places \cup {"start"}
  BY DEF AInv, Queue, Client
<1>7. /\ Tail(<<"type">>) = <<>> /\ Tail(<<"args">>) = <<>> /\ Tail(<<"type", "args">>) = <<"args">>
      /\ <<"type">> # <<>> /\ <<"args">> # <<>> /\ <<"type", "args">> # <<>>
  BY One, Two
<1>8. CASE read_type(c)
  <2>1. \/ to_server[c] # <<>> /\ to_server'[c] = Tail(to_server[c]) /\ thread'[c] = "args"
        \/ to_server[c] = <<>> /\ Closed(c) /\ to_server'[c] = to_server[c] /\ thread'[c] = "closed"
    BY <1>4, <1>5, <1>8 DEF read_type, Go
  <2>2. thread[c] = "read"
    BY <1>8 DEF read_type, At
  <2>3. \/ Waits(c) /\ client[c].at # "start"
        \/ to_server[c] = <<>> /\ client[c].at \in {"wait", "payload", "gone"}
    BY <1>1, <1>2, <2>2 DEF Own, ServerSide
  <2>4. CASE to_server[c] # <<>>
    <3>1. /\ to_server[c] \in Written(c) /\ to_client[c] = <<>> /\ Owed(c) = 0
          /\ to_server'[c] = Tail(to_server[c]) /\ thread'[c] = "args"
      BY <2>1, <2>3, <2>4 DEF Waits
    <3>2. \/ client[c].at \in {"args", "gone"} /\ to_server'[c] = <<>>
          \/ client[c].at \in {"wait", "gone"} /\ to_server'[c] = <<"args">>
      BY <1>6, <1>7, <2>4, <3>1 DEF Written, Places, Ended
    <3>3. ServerSide(c)'
      BY <1>1, <3>1, <3>2 DEF ServerSide, Owed
    <3>. QED BY <1>3, <3>3 DEF Own
  <2>5. CASE to_server[c] = <<>>
    <3>1. Closed(c) /\ to_server'[c] = <<>> /\ thread'[c] = "closed"
      BY <2>1, <2>5
    <3>2. client[c].at \in {"done", "gone"}
      BY <2>3, <3>1 DEF Closed, Ended, Waits, Written
    <3>3. ServerSide(c)'
      BY <1>1, <3>1, <3>2 DEF ServerSide
    <3>. QED BY <1>3, <3>3 DEF Own
  <2>. QED BY <2>4, <2>5
<1>9. CASE read_args(c)
  <2>1. \/ to_server[c] # <<>> /\ to_server'[c] = Tail(to_server[c]) /\ thread'[c] = "lock"
        \/ to_server[c] = <<>> /\ Closed(c) /\ to_server'[c] = to_server[c] /\ thread'[c] = "cut"
    BY <1>4, <1>5, <1>9 DEF read_args, Go
  <2>2. thread[c] = "args"
    BY <1>9 DEF read_args, At
  <2>3. /\ to_client[c] = <<>> /\ Owed(c) = 0
        /\ \/ client[c].at \in {"args", "gone"} /\ to_server[c] = <<>>
           \/ client[c].at \in {"wait", "gone"} /\ to_server[c] = <<"args">>
    BY <1>1, <1>2, <2>2 DEF Own, ServerSide
  <2>4. \/ client[c].at \in {"wait", "gone"} /\ to_server'[c] = <<>> /\ thread'[c] = "lock"
        \/ client[c].at = "gone" /\ to_server'[c] = <<>> /\ thread'[c] = "cut"
    BY <1>7, <2>1, <2>3 DEF Closed, Ended
  <2>5. ServerSide(c)'
    BY <1>1, <2>3, <2>4 DEF ServerSide, Owed
  <2>. QED BY <1>3, <2>5 DEF Own
<1>. QED BY <1>8, <1>9

LEMMA LockOwn ==
  ASSUME AInv, NEW c \in Clients, listener = "accepting", lock(c) \/ unlock(c)
  PROVE  Own(c)'
<1>1. /\ daemon = "up"
      /\ UNCHANGED <<daemon, client, content, torn, applied, told, read, mixed, silent, to_client, to_server>>
      /\ \/ thread[c] = "lock" /\ thread'[c] = "handle"
         \/ thread[c] = "cut" /\ thread'[c] = "partial"
         \/ thread[c] = "unlock" /\ thread'[c] = "read"
  BY DEF lock, unlock, At, Go, wire, history, files, AInv, Lock, ServerTyped
<1>2. Own(c)
  BY DEF AInv, AllOwn
<1>3. ClientSide(c)' /\ PieceSide(c)'
  BY <1>1, <1>2, ClientStays, PieceStays DEF Own
<1>4. ServerSide(c)'
  BY <1>1, <1>2 DEF Own, ServerSide, Waits, Written, Owed, Runs, Answer
<1>. QED BY <1>3, <1>4 DEF Own

LEMMA Typed ==
  ASSUME AInv, NEW c \in Clients
  PROVE  /\ applied[c] \in Nat /\ Len(told[c]) \in Nat /\ Len(read[c]) \in Nat
         /\ read[c] \in Seq(Values) /\ told[c] \in Seq(Answers) /\ to_client[c] \in Seq(Answers)
         /\ mixed[c] \in BOOLEAN /\ client[c] \in Client /\ to_server[c] \in Seq({"type", "args"})
BY DEF AInv, WireTyped, Queue

LEMMA Steps ==
  ASSUME AInv, NEW c \in Clients, NEW where, Go(c, where)
  PROVE  thread'[c] = where /\ \A d \in Clients \ {c} : thread'[d] = thread[d]
BY DEF AInv, Lock, ServerTyped, Go

LEMMA Sends ==
  ASSUME AInv, NEW c \in Clients, NEW answer, Send(c, answer)
  PROVE  /\ to_client'[c] = Append(to_client[c], answer)
         /\ \A d \in Clients \ {c} : to_client'[d] = to_client[d]
BY DEF AInv, WireTyped, Send

(* Whoever is between lock and unlock has not been refused.                *)
LEMMA NotYetRefused ==
  ASSUME AInv, NEW c \in Clients, listener = "accepting", daemon = "up", thread[c] \in Inside
  PROVE  ~error_intercepted
<1>1. mutex = c
  BY DEF AInv, Lock, Locked
<1>. QED BY <1>1, NobodyIsNoClient DEF AInv, AllOwn

(* A thread ends in an error: with a message, when its request has had no  *)
(* effect, or in silence.                                                  *)
LEMMA ErrorOwn ==
  ASSUME AInv, NEW c \in Clients, listener = "accepting", daemon = "up",
         thread[c] \in {"handle", "partial", "status"}, NEW errno \in BOOLEAN, fsop_error(c, errno),
         thread[c] = "status" => errno,
         UNCHANGED <<daemon, client, applied, told, read, to_server, content, mixed>>,
         torn' \/ torn' = torn
  PROVE  Own(c)'
<1>1. Own(c) /\ ~error_intercepted
  BY NotYetRefused DEF AInv, AllOwn, Inside
<1>2. /\ to_client[c] = <<>> /\ to_server[c] = <<>> /\ client[c].at \in {"wait", "gone"}
      /\ thread[c] # "status" => Owed(c) = 0
  BY <1>1 DEF Own, ServerSide
<1>3. thread'[c] = "exited"
  BY Steps DEF fsop_error
<1>4. Owed(c)' = Owed(c)
  BY DEF Owed
<1>5. Owed(c) \in {0, 1} /\ (Runs(c, Reads) => Len(read[c]) = applied[c] /\ \A i \in 1..Len(told[c]) : told[c][i] = read[c][i])
  BY <1>1 DEF Own, ClientSide
<1>6. PieceSide(c)'
  BY <1>1, PieceStays DEF Own
<1>7. CASE errno
  <2>1. silent'[c] /\ UNCHANGED to_client
    BY <1>7 DEF fsop_error, AInv, WireTyped
  <2>2. ClientSide(c)'
    BY <1>2, <1>4, <1>5, <2>1 DEF ClientSide, Runs
  <2>3. ServerSide(c)'
    BY <1>2, <1>3, <2>1 DEF ServerSide
  <2>. QED BY <1>6, <2>2, <2>3 DEF Own
<1>8. CASE ~errno
  <2>1. UNCHANGED silent /\ to_client'[c] = Append(to_client[c], ERROR)
    BY <1>1, <1>8, Sends DEF fsop_error
  <2>2. to_client'[c] = <<ERROR>>
    BY <1>2, <2>1, One
  <2>3. Owed(c) = 0
    BY <1>2, <1>8
  <2>4. ~silent[c]
    BY DEF AInv, Silence
  <2>5. ClientSide(c)'
    BY <1>2, <1>4, <1>5, <2>2, <2>3 DEF ClientSide, Runs
  <2>6. ServerSide(c)'
    BY <1>2, <1>3, <1>4, <2>1, <2>2, <2>3, <2>4 DEF ServerSide
  <2>. QED BY <1>6, <2>5, <2>6 DEF Own
<1>. QED BY <1>7, <1>8

LEMMA RefuseOwn ==
  ASSUME AInv, NEW c \in Clients, listener = "accepting", daemon = "up",
         thread[c] \in {"handle", "partial"}, Refused(c), UNCHANGED <<client, to_server>>
  PROVE  Own(c)'
<1>1. Own(c) /\ UNCHANGED <<content, applied, read, told, mixed>> /\ (torn' \/ torn' = torn)
  <2>1. torn \in BOOLEAN /\ torn' \in {torn, torn \/ Runs(c, Changes)}
    BY DEF AInv, WireTyped, Refused
  <2>2. torn' \/ torn' = torn
    BY <2>1
  <2>. QED BY <2>2 DEF AInv, AllOwn, Refused
<1>2. CASE DieHere
  BY <1>1, <1>2, OwnStays DEF DieHere, Die
<1>3. CASE (fsop_error(c, FALSE) \/ fsop_error(c, TRUE)) /\ UNCHANGED daemon
  BY <1>1, <1>3, ErrorOwn
<1>. QED BY <1>2, <1>3 DEF Refused, Refuse

LEMMA ChangeOwn ==
  ASSUME AInv, NEW c \in Clients, listener = "accepting", daemon = "up",
         thread[c] \in {"handle", "partial"}, client[c].command \in {"write", "item"}, CarriedOut(c),
         UNCHANGED <<client, to_server, read>>,
         torn' \/ torn' = torn,
         client[c].command = "write" =>
           \/ mixed'[c]
           \/ /\ content' = IF client[c].piece > Pieces THEN content ELSE [content EXCEPT ![client[c].piece] = c]
              /\ mixed[c] => mixed'[c]
  PROVE  Own(c)'
<1>1. Own(c)
  BY DEF AInv, AllOwn
<1>2. /\ to_client[c] = <<>> /\ Owed(c) = 0 /\ to_server[c] = <<>> /\ client[c].at \in {"wait", "gone"}
  BY <1>1 DEF Own, ServerSide
<1>3. thread'[c] = "status" /\ applied'[c] = applied[c] + 1 /\ UNCHANGED <<daemon, to_client, told>>
  BY Steps DEF AInv, WireTyped, CarriedOut
<1>4. applied[c] \in Nat /\ Len(told[c]) \in Nat /\ applied[c] = Len(told[c])
  BY <1>2, Typed DEF Owed
<1>5. Owed(c)' = 1
  BY <1>3, <1>4 DEF Owed
<1>6. ~Runs(c, Reads)
  BY DEF Runs, Reads
<1>7. ClientSide(c)'
  BY <1>2, <1>3, <1>5, <1>6 DEF ClientSide, Runs
<1>8. ServerSide(c)'
  BY <1>2, <1>3, <1>5 DEF ServerSide
<1>9. PieceSide(c)'
  <2>1. CASE client[c].command = "write"
    <3>1. client[c].piece = applied'[c] /\ client[c].piece = Len(told[c]) + 1
      BY <1>1, <1>2, <1>3, <1>4, <2>1 DEF Own, PieceSide
    <3>2. ASSUME ~mixed'[c], ~torn', NEW i \in 1..Pieces, i <= applied'[c] PROVE content'[i] = c
      <4>1. i <= applied[c] => content[i] = c
        BY <1>1, <2>1, <3>2 DEF Own, PieceSide
      <4>2. i <= applied[c] \/ i = client[c].piece
        BY <1>3, <1>4, <3>1, <3>2, DaemonAssumption
      <4>3. content \in [1..Pieces -> Clients \cup {NOBODY, GARBAGE}]
        BY DEF AInv, WireTyped
      <4>. QED BY <2>1, <3>2, <4>1, <4>2, <4>3, DaemonAssumption
    <3>. QED BY <1>2, <1>3, <3>1, <3>2 DEF PieceSide
  <2>2. CASE client[c].command # "write"
    BY <2>2 DEF PieceSide
  <2>. QED BY <2>1, <2>2
<1>. QED BY <1>7, <1>8, <1>9 DEF Own

LEMMA FindOwn ==
  ASSUME AInv, NEW c \in Clients, listener = "accepting", daemon = "up",
         thread[c] \in {"handle", "partial"}, Runs(c, Reads), CarriedOut(c),
         UNCHANGED <<client, to_server>>,
         NEW found \in Values, read' = [read EXCEPT ![c] = Append(@, found)]
  PROVE  Own(c)'
<1>1. Own(c)
  BY DEF AInv, AllOwn
<1>2. /\ to_client[c] = <<>> /\ Owed(c) = 0 /\ to_server[c] = <<>> /\ client[c].at \in {"wait", "gone"}
  BY <1>1 DEF Own, ServerSide
<1>3. /\ thread'[c] = "status" /\ applied'[c] = applied[c] + 1 /\ read'[c] = Append(read[c], found)
      /\ UNCHANGED <<daemon, to_client, told>>
  BY Steps DEF AInv, WireTyped, CarriedOut
<1>4. applied[c] \in Nat /\ Len(told[c]) \in Nat /\ applied[c] = Len(told[c])
  BY <1>2, Typed DEF Owed
<1>5. Owed(c)' = 1
  BY <1>3, <1>4 DEF Owed
<1>6. Len(read[c]) = applied[c] /\ \A i \in 1..Len(told[c]) : told[c][i] = read[c][i]
  BY <1>1 DEF Own, ClientSide
<1>7. read[c] \in Seq(Values)
  BY Typed
<1>8. Len(read'[c]) = applied'[c] /\ \A i \in 1..Len(read[c]) : read'[c][i] = read[c][i]
  BY <1>3, <1>6, <1>7, AppendFacts
<1>9. ClientSide(c)'
  BY <1>2, <1>3, <1>4, <1>5, <1>6, <1>8 DEF ClientSide, Runs
<1>10. ServerSide(c)'
  BY <1>2, <1>3, <1>5 DEF ServerSide
<1>11. PieceSide(c)'
  BY DEF PieceSide, Runs, Reads
<1>. QED BY <1>9, <1>10, <1>11 DEF Own

LEMMA FoundIsAValue ==
  ASSUME AInv, NEW c \in Clients, NEW found \in Found(client[c].piece)
  PROVE  found \in Values
<1>1. client[c].piece \in Nat \ {0}
  BY Typed DEF Client
<1>2. found \in {EMPTY, GARBAGE} \/ (client[c].piece <= Size /\ found = content[client[c].piece])
  BY <1>1, SizeIsSmall DEF Found
<1>3. client[c].piece <= Size => content[client[c].piece] \in Clients \cup {NOBODY, GARBAGE}
  BY <1>1, SizeIsSmall, DaemonAssumption DEF AInv, WireTyped
<1>. QED BY <1>2, <1>3 DEF Values

(* A thread carries a request out, or ends it.                             *)
LEMMA HandleOwn ==
  ASSUME AInv, NEW c \in Clients, listener = "accepting", handle(c) \/ handle_partial(c)
  PROVE  Own(c)'
<1>1. /\ daemon = "up" /\ thread[c] \in {"handle", "partial"} /\ UNCHANGED <<to_server, client>>
      /\ torn \in BOOLEAN
  BY DEF handle, handle_partial, At, AInv, WireTyped
<1>2. CASE Refused(c)
  BY <1>1, <1>2, RefuseOwn
<1>3. CASE /\ client[c].command \in {"write", "item"} /\ CarriedOut(c)
           /\ UNCHANGED read /\ (torn' \/ torn' = torn)
           /\ client[c].command = "write" =>
                \/ mixed'[c]
                \/ /\ content' = IF client[c].piece > Pieces THEN content ELSE [content EXCEPT ![client[c].piece] = c]
                   /\ mixed[c] => mixed'[c]
  BY <1>1, <1>3, ChangeOwn
<1>4. CASE /\ Runs(c, Reads) /\ CarriedOut(c)
           /\ \E found \in Values : read' = [read EXCEPT ![c] = Append(@, found)]
  BY <1>1, <1>4, FindOwn
<1>5. CASE handle(c) /\ ~Refused(c)
  <2>1. CASE Runs(c, Reads)
    BY <1>4, <1>5, <2>1, FoundIsAValue DEF handle, Runs, Reads
  <2>2. CASE ~Runs(c, Reads)
    BY <1>3, <1>5, <2>2 DEF handle, Runs, Reads, files
  <2>. QED BY <2>1, <2>2
<1>6. CASE handle_partial(c) /\ ~Refused(c)
  <2>1. GARBAGE \in Values
    BY DEF Values
  <2>2. CASE Runs(c, Reads)
    BY <1>4, <1>6, <2>1, <2>2 DEF handle_partial, Runs, Reads
  <2>3. CASE ~Runs(c, Reads)
    BY <1>3, <1>6, <2>3 DEF handle_partial, Runs, Reads, files
  <2>. QED BY <2>2, <2>3
<1>. QED BY <1>2, <1>5, <1>6

(* Nothing in what is sent is an error.                                    *)
LEMMA NoErrorSent ==
  ASSUME NEW x \in Values
  PROVE  /\ \A i \in DOMAIN <<OK>> : <<OK>>[i] # ERROR
         /\ \A i \in DOMAIN <<x>> : <<x>>[i] # ERROR
         /\ \A i \in DOMAIN <<OK, x>> : <<OK, x>>[i] # ERROR
<1>1. OK # ERROR /\ x # ERROR
  BY ValuesAreNoErrors DEF OK, ERROR
<1>. QED BY <1>1

LEMMA StatusOwn ==
  ASSUME AInv, NEW c \in Clients, listener = "accepting", write_empty_error(c)
  PROVE  Own(c)'
<1>1. /\ daemon = "up" /\ thread[c] = "status"
      /\ UNCHANGED <<to_server, client, content, torn, applied, read, told, mixed>>
  BY DEF write_empty_error, At, files
<1>2. Own(c)
  BY DEF AInv, AllOwn
<1>3. CASE DieHere
  BY <1>1, <1>2, <1>3, OwnStays DEF DieHere, Die
<1>5. CASE fsop_error(c, TRUE) /\ UNCHANGED daemon
  BY <1>1, <1>5, ErrorOwn
<1>4. CASE /\ UNCHANGED silent /\ Go(c, IF Runs(c, Reads) THEN "payload" ELSE "unlock") /\ UNCHANGED daemon
           /\ IF error_intercepted THEN UNCHANGED to_client ELSE Send(c, OK)
  <2>1. ~error_intercepted
    BY <1>1, NotYetRefused DEF Inside
  <2>2. /\ thread'[c] = (IF Runs(c, Reads) THEN "payload" ELSE "unlock")
        /\ to_client'[c] = Append(to_client[c], OK)
    BY <1>4, <2>1, Steps, Sends
  <2>3. /\ to_client[c] = <<>> /\ Owed(c) = 1 /\ to_server[c] = <<>>
        /\ client[c].at \in {"wait", "gone"}
    BY <1>1, <1>2 DEF Own, ServerSide
  <2>4. to_client'[c] = <<OK>>
    BY <2>2, <2>3, One
  <2>5. Owed(c)' = 1
    BY <1>1, <2>3 DEF Owed
  <2>6. \A i \in DOMAIN to_client'[c] : to_client'[c][i] # ERROR
    BY <2>4, NoErrorSent DEF Values
  <2>7. ClientSide(c)'
    <3>1. Runs(c, Reads) => Len(read[c]) = applied[c] /\ \A i \in 1..Len(told[c]) : told[c][i] = read[c][i]
      BY <1>2 DEF Own, ClientSide
    <3>. QED BY <1>1, <2>3, <2>4, <2>5, <2>6, <3>1 DEF ClientSide, Runs
  <2>8. ServerSide(c)'
    BY <1>1, <2>2, <2>3, <2>4, <2>5 DEF ServerSide, Answer, Runs
  <2>9. PieceSide(c)'
    BY <1>1, <1>2, PieceStays DEF Own
  <2>. QED BY <2>7, <2>8, <2>9 DEF Own
<1>. QED BY <1>3, <1>4, <1>5 DEF write_empty_error

LEMMA PayloadOwn ==
  ASSUME AInv, NEW c \in Clients, listener = "accepting", write_payload(c)
  PROVE  Own(c)'
<1>1. /\ daemon = "up" /\ thread[c] = "payload"
      /\ UNCHANGED <<to_server, client, content, torn, applied, read, told, mixed>>
  BY DEF write_payload, At, files
<1>2. Own(c)
  BY DEF AInv, AllOwn
<1>3. CASE DieHere
  BY <1>1, <1>2, <1>3, OwnStays DEF DieHere, Die
<1>4. CASE Go(c, "unlock") /\ Send(c, read[c][Len(read[c])]) /\ UNCHANGED daemon
  <2>1. /\ Runs(c, Reads) /\ Owed(c) = 1 /\ client[c].at \in {"wait", "payload", "gone"}
        /\ client[c].at = "wait" => to_client[c] = <<OK>>
        /\ client[c].at = "payload" => to_client[c] = <<>>
        /\ client[c].at = "gone" => to_client[c] \in {<<>>, <<OK>>}
        /\ to_server[c] = <<>>
    BY <1>1, <1>2 DEF Own, ServerSide
  <2>2. Len(read[c]) = applied[c] /\ \A i \in 1..Len(told[c]) : told[c][i] = read[c][i]
    BY <1>2, <2>1 DEF Own, ClientSide
  <2>3. PICK value : value = read[c][applied[c]]
    OBVIOUS
  <2>4. value \in Values
    <3>1. applied[c] \in 1..Len(read[c])
      BY <2>1, <2>2, Typed DEF Owed
    <3>. QED BY <2>3, <3>1, Typed
  <2>5. thread'[c] = "unlock" /\ to_client'[c] = Append(to_client[c], value)
    BY <1>4, <2>2, <2>3, Steps, Sends
  <2>6. /\ client[c].at = "wait" => to_client'[c] = <<OK, value>>
        /\ client[c].at = "payload" => to_client'[c] = <<value>>
        /\ to_client'[c] \in {<<value>>, <<OK, value>>}
    <3>1. Append(<<>>, value) = <<value>> /\ Append(<<OK>>, value) = <<OK, value>>
      BY One, Two
    <3>2. client[c].at = "wait" => to_client'[c] = <<OK, value>>
      BY <2>1, <2>5, <3>1
    <3>3. client[c].at = "payload" => to_client'[c] = <<value>>
      BY <2>1, <2>5, <3>1
    <3>4. client[c].at = "gone" => to_client'[c] \in {<<value>>, <<OK, value>>}
      BY <2>1, <2>5, <3>1
    <3>. QED BY <2>1, <3>2, <3>3, <3>4
  <2>7. Owed(c)' = 1
    BY <1>1, <2>1 DEF Owed
  <2>8. \A i \in DOMAIN to_client'[c] : to_client'[c][i] # ERROR
    BY <2>4, <2>6, NoErrorSent
  <2>9. Answer(c)' = <<OK, value>> /\ read'[c][applied'[c]] = value
    BY <1>1, <2>1, <2>3 DEF Answer, Runs
  <2>10. ClientSide(c)'
    BY <1>1, <2>1, <2>2, <2>6, <2>7, <2>8, <2>9 DEF ClientSide, Runs
  <2>11. ServerSide(c)'
    BY <1>1, <2>1, <2>5, <2>6, <2>7, <2>9 DEF ServerSide
  <2>12. PieceSide(c)'
    BY <1>1, <1>2, PieceStays DEF Own
  <2>. QED BY <2>10, <2>11, <2>12 DEF Own
<1>. QED BY <1>3, <1>4 DEF write_payload

LEMMA ServeOwn ==
  ASSUME AInv, NEW c \in Clients, listener = "accepting", serve_client(c)
  PROVE  Own(c)'
BY ReadOwn, LockOwn, HandleOwn, StatusOwn, PayloadOwn DEF serve_client

LEMMA Becomes ==
  ASSUME AInv, NEW c \in Clients, NEW where, Become(c, where)
  PROVE  /\ client'[c].at = where /\ client'[c].command = client[c].command
         /\ client'[c].piece = client[c].piece
         /\ \A d \in Clients \ {c} : client'[d] = client[d]
BY DEF AInv, Queue, Client, Become

LEMMA GoesOn ==
  ASSUME AInv, NEW c \in Clients, Next_piece(c)
  PROVE  /\ client'[c].at = "type" /\ client'[c].command = client[c].command
         /\ client'[c].piece = client[c].piece + 1
         /\ \A d \in Clients \ {c} : client'[d] = client[d]
BY DEF AInv, Queue, Client, Next_piece

LEMMA ConnectOwn ==
  ASSUME AInv, NEW c \in Clients, listener = "accepting", connect(c)
  PROVE  Own(c)'
<1>1. /\ client[c].at = "start"
      /\ UNCHANGED <<daemon, thread, to_server, to_client, content, torn, applied, read, told, mixed, silent>>
      /\ \/ daemon = "up" /\ Become(c, "type")
         \/ daemon = "down" /\ Become(c, "failed")
  BY DEF connect, wire, history, files
<1>2. Own(c) /\ thread[c] = "none"
  BY <1>1 DEF AInv, AllOwn, Queue
<1>3. /\ client'[c].command = client[c].command /\ client'[c].piece = client[c].piece
      /\ \/ daemon = "up" /\ client'[c].at = "type"
         \/ daemon = "down" /\ client'[c].at = "failed"
  BY <1>1, Becomes
<1>4. ClientSide(c)'
  BY <1>1, <1>2, <1>3 DEF Own, ClientSide, Owed, Runs
<1>5. ServerSide(c)'
  BY <1>1, <1>2, <1>3 DEF Own, ServerSide, Waits, Written, Owed, Runs
<1>6. PieceSide(c)'
  BY <1>1, <1>2, <1>3 DEF Own, PieceSide
<1>. QED BY <1>4, <1>5, <1>6 DEF Own

LEMMA SendOwn ==
  ASSUME AInv, NEW c \in Clients, listener = "accepting", send(c)
  PROVE  Own(c)'
<1>1. /\ client[c].at \in {"type", "args"}
      /\ UNCHANGED <<daemon, thread, to_client, content, torn, applied, read, told, mixed, silent>>
  BY DEF send, server, history, files
<1>2. Own(c)
  BY DEF AInv, AllOwn
<1>3. to_client[c] = <<>> /\ Owed(c) = 0 /\ Owed(c)' = 0
  BY <1>1, <1>2 DEF Own, ClientSide, Owed
<1>4. PICK where : /\ Become(c, where)
                   /\ \/ /\ daemon = "up" /\ where = (IF client[c].at = "type" THEN "args" ELSE "wait")
                         /\ to_server'[c] = Append(to_server[c], client[c].at)
                      \/ /\ daemon = "down" /\ where = "failed"
  <2>1. daemon # "up" => daemon = "down"
    BY <1>1 DEF AInv, AllOwn, WireTyped
  <2>. QED BY <1>1, <2>1 DEF send, AInv, WireTyped
<1>5. /\ client'[c].command = client[c].command /\ client'[c].piece = client[c].piece
      /\ client'[c].at = where
  BY <1>4, Becomes
<1>6. ClientSide(c)'
  BY <1>1, <1>2, <1>3, <1>4, <1>5 DEF Own, ClientSide, Runs
<1>7. ServerSide(c)'
  <2>1. CASE daemon = "down"
    BY <1>1, <2>1 DEF ServerSide
  <2>2. CASE daemon = "up"
    <3>1. /\ thread[c] \in {"none", "unserved", "read", "unlock", "args"}
          /\ thread[c] # "args" => to_server[c] \in Written(c)
          /\ thread[c] = "args" => client[c].at = "args" /\ to_server[c] = <<>>
      <4>1. thread[c] \in Serving \cup {"none", "closed", "exited", "unserved"}
        BY DEF AInv, Lock, ServerTyped
      <4>. QED BY <1>1, <1>2, <2>2, <4>1 DEF Own, ServerSide, Waits, Serving, Inside
    <3>2. Append(<<>>, "type") = <<"type">> /\ Append(<<>>, "args") = <<"args">> /\ Append(<<"type">>, "args") = <<"type", "args">>
      BY One, Two
    <3>3. CASE client[c].at = "type"
      <4>1. to_server'[c] = <<"type">> /\ client'[c].at = "args" /\ thread[c] # "args"
        BY <1>4, <1>5, <2>2, <3>1, <3>2, <3>3 DEF Written
      <4>2. Waits(c)'
        BY <1>1, <1>3, <4>1 DEF Waits, Written
      <4>. QED BY <1>1, <3>1, <4>1, <4>2 DEF ServerSide
    <3>4. CASE client[c].at = "args"
      <4>1. /\ client'[c].at = "wait"
            /\ to_server'[c] = IF thread[c] = "args" THEN <<"args">> ELSE <<"type", "args">>
        BY <1>4, <1>5, <2>2, <3>1, <3>2, <3>4 DEF Written
      <4>2. thread[c] # "args" => Waits(c)'
        BY <1>1, <1>3, <4>1 DEF Waits, Written
      <4>. QED BY <1>1, <1>3, <3>1, <4>1, <4>2 DEF ServerSide
    <3>. QED BY <1>1, <3>3, <3>4
  <2>. QED BY <1>4, <2>1, <2>2
<1>8. PieceSide(c)'
  BY <1>1, <1>2, <1>4, <1>5 DEF Own, PieceSide
<1>. QED BY <1>6, <1>7, <1>8 DEF Own

LEMMA KillOwn ==
  ASSUME AInv, NEW c \in Clients, listener = "accepting", kill(c)
  PROVE  Own(c)'
<1>1. /\ client[c].at \in {"type", "args", "wait", "payload"}
      /\ UNCHANGED <<daemon, thread, to_server, to_client, content, torn, applied, read, told, mixed, silent>>
  BY DEF kill, server, wire, history, files, AInv, Queue, Client, Places
<1>2. Own(c)
  BY DEF AInv, AllOwn
<1>3. /\ client'[c].command = client[c].command /\ client'[c].piece = client[c].piece
      /\ client'[c].at = "gone"
  BY Becomes DEF kill
<1>4. ClientSide(c)'
  BY <1>1, <1>2, <1>3 DEF Own, ClientSide, Owed, Runs
<1>5. ServerSide(c)'
  <2>1. Waits(c) => Waits(c)'
    BY <1>1, <1>3 DEF Waits, Written, Owed
  <2>. QED BY <1>1, <1>2, <1>3, <2>1 DEF Own, ServerSide, Owed, Runs
<1>6. PieceSide(c)'
  BY <1>1, <1>2, <1>3 DEF Own, PieceSide
<1>. QED BY <1>4, <1>5, <1>6 DEF Own

(* What a client that is owed an answer takes next.                        *)
LEMMA OwedValue ==
  ASSUME AInv, NEW c \in Clients, Own(c), Runs(c, Reads), Owed(c) = 1
  PROVE  /\ read[c][applied[c]] \in Values /\ applied[c] = Len(told[c]) + 1 /\ Len(read[c]) = applied[c]
<1>1. Len(read[c]) = applied[c]
  BY DEF Own, ClientSide
<1>2. applied[c] \in 1..Len(read[c])
  BY <1>1, Typed DEF Owed
<1>. QED BY <1>1, <1>2, Typed DEF Owed

LEMMA Taken ==
  ASSUME AInv, NEW c \in Clients, Take(c)
  PROVE  to_client[c] # <<>> /\ to_client'[c] = Tail(to_client[c])
         /\ \A d \in Clients \ {c} : to_client'[d] = to_client[d]
BY DEF AInv, WireTyped, Take

LEMMA Tells ==
  ASSUME AInv, NEW c \in Clients, NEW x \in Answers, told' = [told EXCEPT ![c] = Append(@, x)]
  PROVE  /\ Len(told'[c]) = Len(told[c]) + 1 /\ told'[c][Len(told[c]) + 1] = x
         /\ \A i \in 1..Len(told[c]) : told'[c][i] = told[c][i]
         /\ \A d \in Clients \ {c} : told'[d] = told[d]
<1>1. told'[c] = Append(told[c], x) /\ \A d \in Clients \ {c} : told'[d] = told[d]
  BY DEF AInv, WireTyped
<1>2. told[c] \in Seq(Answers)
  BY Typed
<1>. QED BY <1>1, <1>2, AppendFacts

(* A client fails: it was refused, or the daemon is down.                  *)
LEMMA FailOwn ==
  ASSUME AInv, NEW c \in Clients, listener = "accepting", client[c].at \in {"wait", "payload"},
         UNCHANGED <<daemon, thread, to_server, content, torn, applied, read, told, mixed, silent>>,
         Become(c, "failed"), to_client'[c] = <<>>,
         daemon = "down" \/ (client[c].at = "wait" /\ to_client[c] = <<ERROR>> /\ Owed(c) = 0)
  PROVE  Own(c)'
<1>1. Own(c)
  BY DEF AInv, AllOwn
<1>2. /\ client'[c].at = "failed" /\ client'[c].command = client[c].command
      /\ client'[c].piece = client[c].piece
  BY Becomes
<1>3. Owed(c)' = Owed(c)
  BY DEF Owed
<1>4. ClientSide(c)'
  <2>1. Owed(c) \in {0, 1} /\ (Runs(c, Reads) => Len(read[c]) = applied[c] /\ \A i \in 1..Len(told[c]) : told[c][i] = read[c][i])
    BY <1>1 DEF Own, ClientSide
  <2>. QED BY <1>2, <1>3, <2>1 DEF ClientSide, Runs
<1>5. ServerSide(c)'
  <2>1. CASE daemon = "down"
    BY <2>1 DEF ServerSide
  <2>2. CASE daemon # "down" /\ client[c].at = "wait" /\ to_client[c] = <<ERROR>> /\ Owed(c) = 0
    <3>1. <<ERROR>> # <<>> /\ ~Waits(c)
      BY <2>2, One DEF Waits
    <3>2. thread[c] \in Serving \cup {"none", "closed", "exited", "unserved"}
      BY DEF AInv, Lock, ServerTyped
    <3>3. thread[c] = "exited" /\ to_server[c] = <<>> /\ ~silent[c]
      BY <1>1, <2>2, <3>1, <3>2 DEF Own, ServerSide, Serving, Inside
    <3>. QED BY <1>2, <1>3, <2>2, <3>3 DEF ServerSide
  <2>. QED BY <2>1, <2>2
<1>6. PieceSide(c)'
  BY <1>1, <1>2 DEF Own, PieceSide
<1>. QED BY <1>4, <1>5, <1>6 DEF Own

(* A request is over: the client goes on, or ends.                         *)
LEMMA OverOwn ==
  ASSUME AInv, NEW c \in Clients, listener = "accepting", Owed(c) = 1,
         client[c].at \in {"wait", "payload"},
         client[c].at = "wait" => ~Runs(c, Reads),
         client[c].at = "payload" => Runs(c, Reads),
         UNCHANGED <<daemon, thread, to_server, content, torn, applied, read, mixed, silent>>,
         to_client[c] # <<>>, to_client'[c] = <<>>,
         NEW x \in Answers, told' = [told EXCEPT ![c] = Append(@, x)],
         Runs(c, Reads) => x = read[c][applied[c]],
         \/ Next_piece(c)
         \/ Become(c, "done") /\ (client[c].command = "write" => client[c].piece >= Pieces)
  PROVE  Own(c)'
<1>1. Own(c)
  BY DEF AInv, AllOwn
<1>2. /\ client'[c].at \in {"type", "done"} /\ client'[c].command = client[c].command
      /\ client'[c].at = "type" => client'[c].piece = client[c].piece + 1
      /\ client'[c].at = "done" => client'[c].piece = client[c].piece
                                   /\ (client[c].command = "write" => client[c].piece >= Pieces)
  BY Becomes, GoesOn
<1>3. /\ Len(told'[c]) = Len(told[c]) + 1 /\ told'[c][Len(told[c]) + 1] = x
      /\ \A i \in 1..Len(told[c]) : told'[c][i] = told[c][i]
  BY Tells
<1>4. applied[c] = Len(told[c]) + 1 /\ Len(told[c]) \in Nat
  BY Typed DEF Owed
<1>5. Owed(c)' = 0
  BY <1>3, <1>4 DEF Owed
<1>6. ClientSide(c)'
  <2>1. Runs(c, Reads) => Len(read[c]) = applied[c] /\ \A i \in 1..Len(told[c]) : told[c][i] = read[c][i]
    BY <1>1 DEF Own, ClientSide
  <2>2. Runs(c, Reads) => \A i \in 1..Len(told'[c]) : told'[c][i] = read[c][i]
    BY <1>3, <1>4, <2>1
  <2>. QED BY <1>2, <1>5, <2>1, <2>2 DEF ClientSide, Runs
<1>7. ServerSide(c)'
  <2>1. CASE daemon = "down"
    BY <2>1 DEF ServerSide
  <2>2. CASE daemon # "down"
    <3>1. thread[c] \in Serving \cup {"none", "closed", "exited", "unserved"}
      BY DEF AInv, Lock, ServerTyped
    <3>2. thread[c] \in {"read", "unlock", "payload"} /\ to_server[c] = <<>>
      BY <1>1, <2>2, <3>1 DEF Own, ServerSide, Waits, Serving, Inside
    <3>3. thread[c] # "payload"
      BY <1>1, <2>2 DEF Own, ServerSide
    <3>4. Waits(c)'
      BY <1>2, <1>5, <3>2 DEF Waits, Written
    <3>. QED BY <1>2, <1>5, <3>2, <3>3, <3>4 DEF ServerSide
  <2>. QED BY <2>1, <2>2
<1>8. PieceSide(c)'
  <2>1. client[c].command = "write" => client[c].piece = Len(told[c]) + 1
    BY <1>1 DEF Own, PieceSide
  <2>2. client[c].command = "write" /\ ~mixed[c] /\ ~torn => \A i \in 1..Pieces : i <= applied[c] => content[i] = c
    BY <1>1 DEF Own, PieceSide
  <2>. QED BY <1>2, <1>3, <2>1, <2>2 DEF PieceSide
<1>. QED BY <1>6, <1>7, <1>8 DEF Own

LEMMA ReadErrorOwn ==
  ASSUME AInv, NEW c \in Clients, listener = "accepting", read_error(c)
  PROVE  Own(c)'
<1>1. /\ client[c].at = "wait"
      /\ UNCHANGED <<daemon, thread, to_server, content, torn, applied, read, mixed, silent>>
  BY DEF read_error, server, files
<1>2. Own(c)
  BY DEF AInv, AllOwn
<1>3. CASE to_client[c] = <<>> /\ daemon = "down" /\ Become(c, "failed") /\ UNCHANGED <<to_client, told>>
  BY <1>1, <1>3, FailOwn
<1>4. CASE Take(c) /\ Head(to_client[c]) # OK /\ Become(c, "failed") /\ UNCHANGED told
  <2>1. to_client[c] = <<ERROR>> /\ Owed(c) = 0
    <3>1. to_client[c] # <<>>
      BY <1>4, Taken
    <3>2. Head(<<OK>>) = OK /\ \A x : Head(<<OK, x>>) = OK
      BY One, Two
    <3>. QED BY <1>1, <1>2, <1>4, <3>1, <3>2 DEF Own, ClientSide, Answer
  <2>2. to_client'[c] = <<>>
    BY <1>4, <2>1, Taken, One
  <2>. QED BY <1>1, <1>4, <2>1, <2>2, FailOwn
<1>5. CASE /\ Take(c) /\ Head(to_client[c]) = OK
           /\ \/ Runs(c, Reads) /\ Become(c, "payload")
              \/ Runs(c, {"item"}) /\ AfterItem(c)
              \/ Runs(c, {"write"}) /\ AfterWrite(c)
           /\ told' = IF Runs(c, Reads) THEN told ELSE [told EXCEPT ![c] = Append(@, OK)]
  <2>1. to_client[c] \in {<<OK>>, Answer(c)} /\ Owed(c) = 1
    <3>1. to_client[c] # <<>> /\ Head(<<ERROR>>) = ERROR /\ ERROR # OK
      BY <1>5, Taken, One DEF ERROR, OK
    <3>. QED BY <1>1, <1>2, <1>5, <3>1 DEF Own, ClientSide
  <2>2. CASE Runs(c, Reads)
    <3>1. Become(c, "payload") /\ UNCHANGED told
      BY <1>5, <2>2 DEF Runs, Reads
    <3>2. /\ client'[c].at = "payload" /\ client'[c].command = client[c].command
          /\ client'[c].piece = client[c].piece
      BY <3>1, Becomes
    <3>3. PICK value \in Values : value = read[c][applied[c]]
      BY <1>2, <2>1, <2>2, OwedValue
    <3>4. to_client[c] = <<OK>> => to_client'[c] = <<>>
      BY <1>5, Taken, One
    <3>5. to_client[c] = Answer(c) => to_client'[c] = <<value>>
      <4>1. Tail(<<OK, value>>) = <<value>>
        BY Two
      <4>. QED BY <1>5, <2>2, <3>3, <4>1, Taken DEF Answer
    <3>6. Owed(c)' = 1 /\ read'[c][applied'[c]] = value
      BY <1>1, <2>1, <3>1, <3>3 DEF Owed
    <3>7. \A i \in DOMAIN to_client'[c] : to_client'[c][i] # ERROR
      <4>1. DOMAIN <<>> = {}
        OBVIOUS
      <4>2. to_client'[c] = <<>> \/ to_client'[c] = <<value>>
        BY <2>1, <3>4, <3>5
      <4>. QED BY <4>1, <4>2, NoErrorSent
    <3>8. ClientSide(c)'
      <4>1. Len(read[c]) = applied[c] /\ \A i \in 1..Len(told[c]) : told[c][i] = read[c][i]
        BY <1>2, <2>2 DEF Own, ClientSide
      <4>. QED BY <1>1, <2>1, <2>2, <3>1, <3>2, <3>4, <3>5, <3>6, <3>7, <4>1 DEF ClientSide, Runs
    <3>9. ServerSide(c)'
      <4>1. CASE daemon = "down"
        BY <1>1, <4>1 DEF ServerSide
      <4>2. CASE daemon # "down"
        <5>1. thread[c] \in Serving \cup {"none", "closed", "exited", "unserved"}
          BY DEF AInv, Lock, ServerTyped
        <5>2. to_client[c] # <<>>
          BY <1>5, Taken
        <5>3. thread[c] \in {"read", "unlock", "payload"} /\ to_server[c] = <<>>
          BY <1>1, <1>2, <2>1, <4>2, <5>1, <5>2 DEF Own, ServerSide, Waits, Serving, Inside
        <5>4. thread[c] # "payload" => to_client[c] = Answer(c)
          BY <1>1, <1>2, <2>1, <4>2, <5>2, <5>3 DEF Own, ServerSide, Waits
        <5>5. thread[c] = "payload" => to_client[c] = <<OK>>
          BY <1>1, <1>2, <4>2 DEF Own, ServerSide
        <5>. QED BY <1>1, <2>2, <3>1, <3>2, <3>4, <3>5, <3>6, <5>3, <5>4, <5>5 DEF ServerSide, Runs
      <4>. QED BY <4>1, <4>2
    <3>10. PieceSide(c)'
      BY <2>2, <3>2 DEF PieceSide, Runs, Reads
    <3>. QED BY <3>8, <3>9, <3>10 DEF Own
  <2>3. CASE ~Runs(c, Reads)
    <3>1. /\ told' = [told EXCEPT ![c] = Append(@, OK)]
          /\ \/ Next_piece(c)
             \/ Become(c, "done") /\ (client[c].command = "write" => client[c].piece >= Pieces)
      BY <1>5, <2>3 DEF AfterItem, AfterWrite, Runs
    <3>2. to_client[c] = <<OK>>
      BY <2>1, <2>3 DEF Answer
    <3>3. to_client'[c] = <<>> /\ to_client[c] # <<>>
      BY <1>5, <3>2, Taken, One
    <3>4. OK \in Answers
      BY DEF Answers
    <3>. QED BY <1>1, <2>1, <2>3, <3>1, <3>3, <3>4, OverOwn
  <2>. QED BY <2>2, <2>3
<1>. QED BY <1>3, <1>4, <1>5 DEF read_error

LEMMA ReadPayloadOwn ==
  ASSUME AInv, NEW c \in Clients, listener = "accepting", read_payload(c)
  PROVE  Own(c)'
<1>1. /\ client[c].at = "payload"
      /\ UNCHANGED <<daemon, thread, to_server, content, torn, applied, read, mixed, silent>>
  BY DEF read_payload, server, files
<1>2. Own(c) /\ Runs(c, Reads) /\ Owed(c) = 1
  BY <1>1 DEF AInv, AllOwn, Own, ClientSide
<1>3. CASE to_client[c] = <<>> /\ daemon = "down" /\ Become(c, "failed") /\ UNCHANGED <<to_client, told>>
  BY <1>1, <1>3, FailOwn
<1>4. CASE /\ Take(c) /\ told' = [told EXCEPT ![c] = Append(@, Head(to_client[c]))]
           /\ Next_piece(c) \/ Become(c, "done")
  <2>1. PICK value \in Values : value = read[c][applied[c]]
    BY <1>2, OwedValue
  <2>2. to_client[c] = <<value>>
    BY <1>1, <1>2, <1>4, <2>1, Taken DEF Own, ClientSide
  <2>3. to_client[c] # <<>> /\ to_client'[c] = <<>> /\ Head(to_client[c]) = value
    BY <1>4, <2>2, Taken, One
  <2>4. value \in Answers
    BY ValuesAreNoErrors
  <2>5. client[c].command # "write"
    BY <1>2 DEF Runs, Reads
  <2>. QED BY <1>1, <1>2, <1>4, <2>1, <2>3, <2>4, <2>5, OverOwn
<1>. QED BY <1>3, <1>4 DEF read_payload, AfterList

LEMMA AcceptOwn ==
  ASSUME AInv, listener = "accepting", accept, NEW c \in Clients, c = Head(backlog)
  PROVE  Own(c)'
<1>1. /\ UNCHANGED <<daemon, to_server, to_client, client, content, torn, applied, read, told, mixed, silent>>
      /\ backlog # <<>> /\ \E where \in {"read", "unserved"} : thread' = [thread EXCEPT ![Head(backlog)] = where]
  BY DEF accept, wire, history, files
<1>2. Own(c)
  BY DEF AInv, AllOwn
<1>3. thread[c] = "none" /\ client[c].at # "start"
  BY <1>1 DEF AInv, Queue
<1>4. thread'[c] \in {"read", "unserved"}
  BY <1>1 DEF AInv, Lock, ServerTyped
<1>5. ClientSide(c)' /\ PieceSide(c)'
  BY <1>1, <1>2, ClientStays, PieceStays DEF Own
<1>6. ServerSide(c)'
  BY <1>1, <1>2, <1>3, <1>4 DEF Own, ServerSide, Waits, Written, Owed
<1>. QED BY <1>5, <1>6 DEF Own

(* A step for one client, as the others see it.                            *)
LEMMA OthersOwn ==
  ASSUME AInv, NEW c \in Clients, listener = "accepting", serve_client(c) \/ rfscli(c) \/ kill(c),
         NEW d \in Clients \ {c}
  PROVE  Own(d)'
<1>1. Own(d) /\ d \in Clients /\ d # c
  BY DEF AInv, AllOwn
<1>2. /\ thread \in [Clients -> Serving \cup {"none", "closed", "exited", "unserved"}]
      /\ to_server \in [Clients -> Seq({"type", "args"})]
      /\ to_client \in [Clients -> Seq(Answers)] /\ torn \in BOOLEAN
      /\ applied \in [Clients -> Nat] /\ read \in [Clients -> Seq(Values)] /\ told \in [Clients -> Seq(Answers)]
      /\ silent \in [Clients -> BOOLEAN]
  BY DEF AInv, Lock, ServerTyped, WireTyped
<1>3. client'[d] = client[d]
  BY <1>1 DEF serve_client, read_type, read_args, lock, handle, handle_partial, Refused, CarriedOut, Refuse, DieHere, write_empty_error,
     write_payload, unlock, rfscli, connect, send, read_error, read_payload, kill, Become, Next_piece,
     AfterItem, AfterList, AfterWrite, AInv, Queue
<1>4. applied'[d] = applied[d] /\ read'[d] = read[d]
  BY <1>1, <1>2 DEF serve_client, read_type, read_args, lock, handle, handle_partial, Refused, CarriedOut, Refuse, DieHere, write_empty_error,
     write_payload, unlock, rfscli, connect, send, read_error, read_payload, kill, history, files
<1>5. told'[d] = told[d]
  BY <1>1, <1>2 DEF serve_client, read_type, read_args, lock, handle, handle_partial, Refused, CarriedOut, Refuse, DieHere, write_empty_error,
     write_payload, unlock, rfscli, connect, send, read_error, read_payload, kill, history, files
<1>6. to_client'[d] = to_client[d]
  BY <1>1, <1>2 DEF serve_client, read_type, read_args, lock, handle, handle_partial, Refused, CarriedOut, Refuse, DieHere, write_empty_error,
     write_payload, unlock, rfscli, connect, send, read_error, read_payload, kill, wire, fsop_error,
     Send, Take
<1>7. daemon' \in {daemon, "down"}
  BY DEF serve_client, read_type, read_args, lock, handle, handle_partial, Refused, CarriedOut, Refuse, DieHere, write_empty_error,
     write_payload, unlock, rfscli, connect, send, read_error, read_payload, kill, server, Die
<1>8. to_server'[d] = to_server[d]
  BY <1>1, <1>2 DEF serve_client, read_type, read_args, lock, handle, handle_partial, Refused, CarriedOut, Refuse, DieHere, write_empty_error,
     write_payload, unlock, rfscli, connect, send, read_error, read_payload, kill, wire
<1>9. daemon' # "down" => daemon # "down" /\ thread'[d] = thread[d]
  BY <1>1, <1>2 DEF serve_client, read_type, read_args, lock, handle, handle_partial, Refused, CarriedOut, Refuse, DieHere, write_empty_error,
     write_payload, unlock, rfscli, connect, send, read_error, read_payload, kill, server, Die,
     fsop_error, Go
<1>10. torn' \/ mixed'[d] \/ (torn' = torn /\ mixed'[d] = mixed[d] /\ \A i \in 1..Pieces : i <= applied[d] => content'[i] = content[i])
  <2>0. torn' \/ torn' = torn
    BY <1>2 DEF serve_client, read_type, read_args, lock, handle, handle_partial, Refused, CarriedOut, write_empty_error,
       write_payload, unlock, rfscli, connect, send, read_error, read_payload, kill, files
  <2>1. CASE UNCHANGED <<content, mixed>>
    BY <2>0, <2>1
  <2>2. CASE mixed' = [e \in Clients |-> TRUE]
    BY <1>1, <2>2
  <2>3. CASE mixed' = [e \in Clients |-> \/ mixed[e]
                                         \/ e # c /\ applied[e] > 0
                                         \/ e = c /\ \E f \in Clients \ {c} : HasBegun(f)]
    <3>1. CASE applied[d] > 0
      BY <1>1, <2>3, <3>1
    <3>2. CASE ~(applied[d] > 0)
      <4>1. \A i \in 1..Pieces : ~(i <= applied[d])
        BY <1>1, <1>2, <3>2
      <4>2. mixed'[d] = mixed[d]
        BY <1>1, <2>3, <3>2 DEF AInv, WireTyped
      <4>. QED BY <2>0, <4>1, <4>2
    <3>. QED BY <3>1, <3>2
  <2>. QED
    BY <2>1, <2>2, <2>3 DEF serve_client, read_type, read_args, lock, handle, handle_partial, Refused, CarriedOut, write_empty_error,
       write_payload, unlock, rfscli, connect, send, read_error, read_payload, kill, history, files
<1>11. silent'[d] = silent[d]
  BY <1>1, <1>2 DEF serve_client, read_type, read_args, lock, handle, handle_partial, Refused, CarriedOut, Refuse, DieHere, write_empty_error,
     write_payload, unlock, rfscli, connect, send, read_error, read_payload, kill, history, fsop_error
<1>. QED BY <1>1, <1>3, <1>4, <1>5, <1>6, <1>7, <1>8, <1>9, <1>10, <1>11, OwnStays

LEMMA RfscliOwn ==
  ASSUME AInv, NEW c \in Clients, listener = "accepting", rfscli(c) \/ kill(c)
  PROVE  Own(c)'
BY ConnectOwn, SendOwn, ReadErrorOwn, ReadPayloadOwn, KillOwn DEF rfscli

LEMMA NextOwn ==
  ASSUME AInv, [Next]_rfs, listener' = "accepting", NEW d \in Clients
  PROVE  Own(d)'
<1>1. listener = "accepting"
  BY DEF Next, rfs, server, start_fs_daemon, accept, accept_die, Die, serve_client, read_type, read_args,
     lock, handle, handle_partial, Refused, CarriedOut, Refuse, DieHere, write_empty_error, write_payload, unlock, rfscli, connect, send,
     read_error, read_payload, kill
<1>2. Own(d)
  BY <1>1 DEF AInv, AllOwn
<1>3. CASE start_fs_daemon
  <2>1. daemon = "off" /\ client[d].at = "start" /\ daemon' = "up"
    BY <1>3 DEF start_fs_daemon, AInv, AllOwn
  <2>. QED BY <1>2, <1>3, <2>1, OwnStays DEF start_fs_daemon, wire, history, files
<1>4. CASE accept
  <2>1. PICK where : thread' = [thread EXCEPT ![Head(backlog)] = where]
    BY <1>4 DEF accept
  <2>2. CASE d = Head(backlog)
    BY <1>1, <1>4, <2>2, AcceptOwn
  <2>3. CASE d # Head(backlog)
    <3>1. thread'[d] = thread[d]
      BY <2>1, <2>3 DEF AInv, Lock, ServerTyped
    <3>. QED BY <1>2, <1>4, <3>1, OwnStays DEF accept, wire, history, files
  <2>. QED BY <2>2, <2>3
<1>5. CASE accept_die
  <2>1. daemon' = "down" /\ UNCHANGED <<wire, client, content, torn, history>>
    BY <1>5 DEF accept_die, Die, files
  <2>. QED BY <1>2, <2>1, OwnStays DEF wire, history, files
<1>6. ASSUME NEW c \in Clients, serve_client(c) \/ rfscli(c) \/ kill(c) PROVE Own(d)'
  <2>1. CASE d = c
    BY <1>1, <1>6, <2>1, ServeOwn, RfscliOwn
  <2>2. CASE d # c
    BY <1>1, <1>6, <2>2, OthersOwn
  <2>. QED BY <2>1, <2>2
<1>7. CASE UNCHANGED rfs
  BY <1>2, <1>7, OwnStays DEF rfs, server, wire, history, files
<1>. QED BY <1>3, <1>4, <1>5, <1>6, <1>7 DEF Next

(* What is on the wire and in the file stays of its kinds.                 *)
LEMMA ServeTyped ==
  ASSUME AInv, NEW c \in Clients, listener = "accepting", serve_client(c)
  PROVE  WireTyped'
<1>1. /\ daemon \in {"off", "up", "down"}
      /\ to_server \in [Clients -> Seq({"type", "args"})] /\ to_client \in [Clients -> Seq(Answers)]
      /\ content \in [1..Pieces -> Clients \cup {NOBODY, GARBAGE}]
      /\ applied \in [Clients -> Nat] /\ mixed \in [Clients -> BOOLEAN]
      /\ torn \in BOOLEAN /\ silent \in [Clients -> BOOLEAN]
      /\ read \in [Clients -> Seq(Values)] /\ told \in [Clients -> Seq(Answers)]
  BY DEF AInv, WireTyped
<1>2. daemon' \in {"off", "up", "down"} /\ told' = told
  BY <1>1 DEF serve_client, read_type, read_args, lock, handle, handle_partial, Refused, CarriedOut, Refuse, DieHere, write_empty_error,
     write_payload, unlock, Die, history, files
<1>3. to_server' \in [Clients -> Seq({"type", "args"})]
  <2>1. to_server[c] # <<>> => Tail(to_server[c]) \in Seq({"type", "args"})
    BY <1>1
  <2>2. UNCHANGED to_server \/ (to_server[c] # <<>> /\ to_server' = [to_server EXCEPT ![c] = Tail(@)])
    BY DEF serve_client, read_type, read_args, lock, handle, handle_partial, Refused, CarriedOut, Refuse, DieHere, write_empty_error,
     write_payload, unlock, wire
  <2>. QED BY <1>1, <2>1, <2>2
<1>4. to_client' \in [Clients -> Seq(Answers)]
  <2>1. UNCHANGED to_client \/ \E x \in Answers : Send(c, x)
    <3>1. CASE write_payload(c)
      <4>1. UNCHANGED to_client \/ (Send(c, read[c][Len(read[c])]) /\ daemon = "up" /\ thread[c] = "payload")
        BY <3>1 DEF write_payload, At, DieHere
      <4>2. thread[c] = "payload" /\ daemon = "up" => read[c][Len(read[c])] \in Values
        BY OwedValue DEF AInv, AllOwn, Own, ServerSide
      <4>. QED BY <4>1, <4>2, ValuesAreNoErrors
    <3>2. CASE ~write_payload(c)
      <4>1. UNCHANGED to_client \/ Send(c, OK) \/ Send(c, ERROR)
        BY <3>2 DEF serve_client, read_type, read_args, lock, handle, handle_partial, Refused, CarriedOut, Refuse, DieHere, write_empty_error,
           unlock, fsop_error, wire
      <4>2. OK \in Answers /\ ERROR \in Answers
        BY DEF Answers
      <4>. QED BY <4>1, <4>2
    <3>. QED BY <3>1, <3>2
  <2>2. ASSUME NEW x \in Answers, Send(c, x) PROVE to_client' \in [Clients -> Seq(Answers)]
    <3>1. Append(to_client[c], x) \in Seq(Answers)
      BY <1>1, AppendFacts
    <3>. QED BY <1>1, <2>2, <3>1 DEF Send
  <2>. QED BY <1>1, <2>1, <2>2
<1>5. content' \in [1..Pieces -> Clients \cup {NOBODY, GARBAGE}]
  <2>1. \/ UNCHANGED content
        \/ content' = [content EXCEPT ![client[c].piece] = c]
        \/ \E i \in 1..Pieces : content' = [content EXCEPT ![i] = GARBAGE]
    BY DEF serve_client, read_type, read_args, lock, handle, handle_partial, Refused, CarriedOut, write_empty_error,
     write_payload, unlock, history, files
  <2>. QED BY <1>1, <2>1
<1>6. applied' \in [Clients -> Nat]
  <2>1. UNCHANGED applied \/ applied' = [applied EXCEPT ![c] = @ + 1]
    BY DEF serve_client, read_type, read_args, lock, handle, handle_partial, Refused, CarriedOut, Refuse, DieHere, write_empty_error,
     write_payload, unlock, history, files
  <2>2. applied \in [Clients -> Nat]
    BY <1>1
  <2>. QED BY <2>1, <2>2
<1>7. mixed' \in [Clients -> BOOLEAN]
  <2>1. CASE UNCHANGED mixed
    BY <1>1, <2>1
  <2>2. CASE mixed' = [e \in Clients |-> TRUE]
    BY <2>2
  <2>3. CASE mixed' = [e \in Clients |-> \/ mixed[e]
                                         \/ e # c /\ applied[e] > 0
                                         \/ e = c /\ \E f \in Clients \ {c} : HasBegun(f)]
    <3>. DEFINE Meets(e) == \/ mixed[e]
                            \/ e # c /\ applied[e] > 0
                            \/ e = c /\ \E f \in Clients \ {c} : HasBegun(f)
    <3>1. \A e \in Clients : Meets(e) \in BOOLEAN
      OBVIOUS
    <3>2. mixed' = [e \in Clients |-> Meets(e)]
      BY <2>3
    <3>. HIDE DEF Meets
    <3>. QED BY <3>1, <3>2
  <2>. QED
    BY <2>1, <2>2, <2>3 DEF serve_client, read_type, read_args, lock, handle, handle_partial, Refused,
       CarriedOut, write_empty_error, write_payload, unlock, history, files
<1>8. read' \in [Clients -> Seq(Values)]
  <2>1. UNCHANGED read \/ \E x \in Values : read' = [read EXCEPT ![c] = Append(@, x)]
    <3>1. CASE handle(c)
      <4>1. UNCHANGED read \/ \E x \in Found(client[c].piece) : read' = [read EXCEPT ![c] = Append(@, x)]
        BY <3>1 DEF handle, Refused
      <4>. QED BY <4>1, FoundIsAValue
    <3>2. CASE ~handle(c)
      <4>1. UNCHANGED read \/ read' = [read EXCEPT ![c] = Append(@, GARBAGE)]
        BY <3>2 DEF serve_client, read_type, read_args, lock, handle_partial, Refused, write_empty_error,
           write_payload, unlock, history
      <4>. QED BY <4>1 DEF Values
    <3>. QED BY <3>1, <3>2
  <2>2. ASSUME NEW x \in Values, read' = [read EXCEPT ![c] = Append(@, x)] PROVE read' \in [Clients -> Seq(Values)]
    <3>1. Append(read[c], x) \in Seq(Values)
      BY <1>1, AppendFacts
    <3>. QED BY <1>1, <2>2, <3>1
  <2>. QED BY <1>1, <2>1, <2>2
<1>9. torn' \in BOOLEAN /\ silent' \in [Clients -> BOOLEAN]
  <2>1. torn' \in {torn, TRUE}
    BY <1>1 DEF serve_client, read_type, read_args, lock, handle, handle_partial, Refused, write_empty_error,
       write_payload, unlock, files
  <2>2. UNCHANGED silent \/ silent' = [silent EXCEPT ![c] = TRUE]
    BY DEF serve_client, read_type, read_args, lock, handle, handle_partial, Refused, CarriedOut, Refuse, DieHere,
       fsop_error, write_empty_error, write_payload, unlock, history
  <2>. QED BY <1>1, <2>1, <2>2
<1>. QED BY <1>1, <1>2, <1>3, <1>4, <1>5, <1>6, <1>7, <1>8, <1>9 DEF WireTyped

LEMMA RfscliTyped ==
  ASSUME AInv, NEW c \in Clients, listener = "accepting", rfscli(c) \/ kill(c)
  PROVE  WireTyped'
<1>1. /\ daemon \in {"off", "up", "down"}
      /\ to_server \in [Clients -> Seq({"type", "args"})] /\ to_client \in [Clients -> Seq(Answers)]
      /\ content \in [1..Pieces -> Clients \cup {NOBODY, GARBAGE}]
      /\ applied \in [Clients -> Nat] /\ mixed \in [Clients -> BOOLEAN]
      /\ torn \in BOOLEAN /\ silent \in [Clients -> BOOLEAN]
      /\ read \in [Clients -> Seq(Values)] /\ told \in [Clients -> Seq(Answers)]
  BY DEF AInv, WireTyped
<1>2. UNCHANGED <<daemon, content, torn, applied, mixed, read, silent>>
  BY DEF rfscli, connect, send, read_error, read_payload, kill, server, wire, history, files
<1>3. to_server' \in [Clients -> Seq({"type", "args"})]
  <2>1. \/ UNCHANGED to_server
        \/ client[c].at \in {"type", "args"} /\ to_server' = [to_server EXCEPT ![c] = Append(@, client[c].at)]
    BY DEF rfscli, connect, send, read_error, read_payload, kill, server, wire
  <2>2. client[c].at \in {"type", "args"} => Append(to_server[c], client[c].at) \in Seq({"type", "args"})
    BY <1>1, AppendFacts
  <2>. QED BY <1>1, <2>1, <2>2
<1>4. to_client' \in [Clients -> Seq(Answers)]
  <2>1. UNCHANGED to_client \/ Take(c)
    BY DEF rfscli, connect, send, read_error, read_payload, kill, wire
  <2>2. to_client[c] # <<>> => Tail(to_client[c]) \in Seq(Answers)
    BY <1>1
  <2>. QED BY <1>1, <2>1, <2>2 DEF Take
<1>5. told' \in [Clients -> Seq(Answers)]
  <2>1. UNCHANGED told \/ \E x \in Answers : told' = [told EXCEPT ![c] = Append(@, x)]
    <3>1. CASE read_payload(c)
      <4>1. \/ UNCHANGED told
            \/ to_client[c] # <<>> /\ told' = [told EXCEPT ![c] = Append(@, Head(to_client[c]))]
        BY <3>1 DEF read_payload, Take
      <4>2. to_client[c] # <<>> => Head(to_client[c]) \in Answers
        BY <1>1
      <4>. QED BY <4>1, <4>2
    <3>2. CASE ~read_payload(c)
      <4>1. UNCHANGED told \/ told' = [told EXCEPT ![c] = Append(@, OK)]
        BY <3>2 DEF rfscli, connect, send, read_error, kill, history, files
      <4>2. OK \in Answers
        BY DEF Answers
      <4>. QED BY <4>1, <4>2
    <3>. QED BY <3>1, <3>2
  <2>2. ASSUME NEW x \in Answers, told' = [told EXCEPT ![c] = Append(@, x)] PROVE told' \in [Clients -> Seq(Answers)]
    <3>1. Append(told[c], x) \in Seq(Answers)
      BY <1>1, AppendFacts
    <3>. QED BY <1>1, <2>2, <3>1
  <2>. QED BY <1>1, <2>1, <2>2
<1>. QED BY <1>1, <1>2, <1>3, <1>4, <1>5 DEF WireTyped

LEMMA NextTyped ==
  ASSUME AInv, [Next]_rfs, listener = "accepting"
  PROVE  WireTyped'
<1>1. CASE start_fs_daemon \/ accept \/ accept_die \/ UNCHANGED rfs
  BY <1>1 DEF AInv, WireTyped, start_fs_daemon, accept, accept_die, Die, rfs, server, wire, history, files
<1>. QED BY <1>1, ServeTyped, RfscliTyped DEF Next

(* The mutex is held by somebody who has not been refused.                 *)
LEMMA NextUnrefused ==
  ASSUME AInv, [Next]_rfs, listener = "accepting", daemon' = "up", mutex' # NOBODY
  PROVE  ~error_intercepted'
<1>1. daemon = "off" => mutex = NOBODY
  <2>1. daemon = "off" => \A c \in Clients : thread[c] = "none"
    BY DEF AInv, AllOwn, Queue
  <2>. QED BY <2>1 DEF AInv, Lock, ServerTyped, Locked, Inside
<1>2. daemon = "up" /\ mutex # NOBODY => ~error_intercepted
  BY DEF AInv, AllOwn
<1>3. daemon \in {"off", "up", "down"}
  BY DEF AInv, WireTyped
<1>4. CASE start_fs_daemon \/ accept \/ accept_die \/ UNCHANGED rfs
  BY <1>1, <1>2, <1>3, <1>4 DEF start_fs_daemon, accept, accept_die, Die, rfs, server, locking
<1>5. ASSUME NEW c \in Clients, rfscli(c) \/ kill(c) PROVE ~error_intercepted'
  <2>1. UNCHANGED <<daemon, locking>>
    BY <1>5 DEF rfscli, connect, send, read_error, read_payload, kill, server
  <2>. QED BY <1>2, <2>1 DEF locking
<1>6. ASSUME NEW c \in Clients, serve_client(c) PROVE ~error_intercepted'
  <2>1. daemon = "up"
    BY <1>6 DEF serve_client, read_type, read_args, lock, handle, handle_partial, Refused, CarriedOut, Refuse, DieHere, write_empty_error,
       write_payload, unlock, At
  <2>2. \/ UNCHANGED locking \/ mutex' = NOBODY \/ error_intercepted' = FALSE
    BY <1>6 DEF serve_client, read_type, read_args, lock, handle, handle_partial, Refused, CarriedOut, Refuse, DieHere, write_empty_error,
       write_payload, unlock, fsop_error, Die
  <2>. QED BY <1>2, <2>1, <2>2 DEF locking
<1>. QED BY <1>4, <1>5, <1>6 DEF Next

LEMMA NextSilence ==
  ASSUME AInv, [Next]_rfs, listener = "accepting", daemon' # "down"
  PROVE  Silence'
<1>1. /\ thread \in [Clients -> Serving \cup {"none", "closed", "exited", "unserved"}]
      /\ silent \in [Clients -> BOOLEAN] /\ Silence
  BY DEF AInv, WireTyped, Lock, ServerTyped
<1>2. CASE daemon # "down" /\ UNCHANGED <<thread, silent>>
  BY <1>1, <1>2 DEF Silence
<1>3. ASSUME NEW c \in Clients, serve_client(c) PROVE Silence'
  <2>1. daemon = "up" /\ thread[c] # "exited"
    BY <1>3 DEF serve_client, read_type, read_args, lock, handle, handle_partial, write_empty_error,
       write_payload, unlock, At
  <2>2. \E where : Go(c, where) /\ (UNCHANGED silent \/ (where = "exited" /\ silent' = [silent EXCEPT ![c] = TRUE]))
    BY <1>3 DEF serve_client, read_type, read_args, lock, handle, handle_partial, Refused, CarriedOut, Refuse,
       DieHere, Die, fsop_error, write_empty_error, write_payload, unlock, history
  <2>. QED BY <1>1, <2>1, <2>2 DEF Silence, Go
<1>4. CASE accept
  <2>1. PICK where : thread' = [thread EXCEPT ![Head(backlog)] = where]
    BY <1>4 DEF accept
  <2>2. thread[Head(backlog)] = "none" /\ daemon = "up" /\ UNCHANGED silent
    BY <1>4 DEF accept, history, AInv, Queue
  <2>. QED BY <1>1, <2>1, <2>2 DEF Silence
<1>5. CASE start_fs_daemon \/ accept_die \/ UNCHANGED rfs \/ \E c \in Clients : rfscli(c) \/ kill(c)
  <2>1. UNCHANGED <<thread, silent>>
    BY <1>5 DEF start_fs_daemon, accept_die, Die, rfs, server, rfscli, connect, send, read_error, read_payload,
       kill, history
  <2>2. daemon # "down"
    BY <1>5 DEF start_fs_daemon, accept_die, Die, rfs, server, rfscli, connect, send, read_error, read_payload, kill
  <2>. QED BY <1>2, <2>1, <2>2
<1>. QED BY <1>3, <1>4, <1>5 DEF Next

LEMMA NextStarts ==
  ASSUME AInv, [Next]_rfs, daemon' = "off"
  PROVE  \A d \in Clients : client'[d].at = "start"
<1>1. daemon = "off" /\ UNCHANGED client
  <2>1. daemon = "off"
    BY DEF Next, start_fs_daemon, accept, accept_die, Die, rfs, server, serve_client, read_type, read_args,
       lock, handle, handle_partial, Refused, CarriedOut, Refuse, DieHere, write_empty_error, write_payload, unlock, At, rfscli, connect,
       send, read_error, read_payload, kill
  <2>2. \A c \in Clients : client[c].at = "start"
    BY <2>1 DEF AInv, AllOwn
  <2>. QED
    BY <2>1, <2>2 DEF Next, start_fs_daemon, accept, accept_die, rfs, serve_client, read_type, read_args,
       lock, handle, handle_partial, Refused, CarriedOut, Refuse, DieHere, write_empty_error, write_payload, unlock, At, rfscli, connect,
       send, read_error, read_payload, kill
<1>. QED BY <1>1 DEF AInv, AllOwn

(* The invariant, as long as the listener is not ended.                    *)
Answering == Lock /\ Queue /\ (listener = "accepting" => AInv)

LEMMA InitAnswering == Init => Answering
<1>. SUFFICES ASSUME Init PROVE AInv
  BY InitLock, InitQueue DEF Answering
<1>1. Lock /\ Queue
  BY InitLock, InitQueue
<1>2. WireTyped
  <2>1. \A S : <<>> \in Seq(S)
    OBVIOUS
  <2>. QED BY <2>1 DEF Init, WireTyped
<1>3. ASSUME NEW c \in Clients
      PROVE  /\ client[c].at = "start" /\ client[c].piece = 1 /\ applied[c] = 0 /\ read[c] = <<>>
             /\ told[c] = <<>> /\ thread[c] = "none" /\ to_server[c] = <<>> /\ to_client[c] = <<>>
  BY <1>3 DEF Init
<1>4. Len(<<>>) = 0 /\ DOMAIN <<>> = {}
  OBVIOUS
<1>5. ASSUME NEW c \in Clients PROVE Own(c)
  <2>1. Owed(c) = 0 /\ Len(told[c]) = 0 /\ Len(read[c]) = 0
    BY <1>3, <1>4 DEF Owed
  <2>2. ClientSide(c)
    BY <1>3, <1>4, <2>1 DEF ClientSide
  <2>3. ServerSide(c)
    BY <1>3, <2>1 DEF ServerSide, Waits, Written
  <2>4. PieceSide(c)
    BY <1>3, <2>1 DEF PieceSide
  <2>. QED BY <2>2, <2>3, <2>4 DEF Own
<1>6. AllOwn
  BY <1>3, <1>5 DEF AllOwn, Init
<1>7. Silence
  BY DEF Init, Silence
<1>. QED BY <1>1, <1>2, <1>6, <1>7 DEF AInv

LEMMA NextAnswering == Answering /\ [Next]_rfs => Answering'
<1>. SUFFICES ASSUME Answering, [Next]_rfs PROVE Answering'
  OBVIOUS
<1>1. Lock' /\ Queue'
  BY NextLock, NextQueue DEF Answering
<1>2. ASSUME listener' = "accepting" PROVE AInv'
  <2>1. listener = "accepting"
    BY <1>2 DEF Next, rfs, server, start_fs_daemon, accept, accept_die, Die, serve_client, read_type, read_args,
       lock, handle, handle_partial, Refused, CarriedOut, Refuse, DieHere, write_empty_error, write_payload, unlock, rfscli, connect, send,
       read_error, read_payload, kill
  <2>2. AInv
    BY <2>1 DEF Answering
  <2>3. WireTyped'
    BY <2>1, <2>2, NextTyped
  <2>4. AllOwn'
    BY <1>2, <2>1, <2>2, NextOwn, NextUnrefused, NextStarts DEF AllOwn
  <2>5. Silence'
    BY <2>1, <2>2, NextSilence DEF Silence
  <2>. QED BY <1>1, <2>3, <2>4, <2>5 DEF AInv
<1>. QED BY <1>1, <1>2 DEF Answering

(* One client's part of AnswersAreOwn.                                     *)
LEMMA OwnAnswers ==
  ASSUME AInv, NEW c \in Clients, Own(c)
  PROVE  /\ Runs(c, Reads) => IsPrefix(told[c], read[c])
         /\ applied[c] - Len(told[c]) \in {0, 1}
         /\ client[c].at \in {"start", "type", "args"} \cup (IF daemon = "up" THEN {"failed"} ELSE {})
              => applied[c] = Len(told[c])
         /\ \A i \in DOMAIN to_client[c] : to_client[c][i] = ERROR => applied[c] = Len(told[c])
         /\ client[c].at = "done" /\ client[c].command = "write" /\ ~mixed[c] /\ ~torn =>
              \A i \in 1..Pieces : content[i] = c
<1>1. /\ applied[c] \in Nat /\ Len(told[c]) \in Nat /\ Len(read[c]) \in Nat
      /\ read[c] \in Seq(Values) /\ told[c] \in Seq(Answers) /\ client[c].piece \in Nat
  BY Typed DEF Client
<1>2. Owed(c) = 0 => applied[c] = Len(told[c])
  BY <1>1 DEF Owed
<1>3. ASSUME Runs(c, Reads) PROVE IsPrefix(told[c], read[c])
  <2>1. Len(read[c]) = applied[c] /\ \A i \in 1..Len(told[c]) : told[c][i] = read[c][i]
    BY <1>3 DEF Own, ClientSide
  <2>2. Len(told[c]) <= Len(read[c])
    BY <1>1, <2>1 DEF Own, ClientSide, Owed
  <2>3. PICK t, r, n : t = told[c] /\ r = read[c] /\ n = Len(told[c])
    OBVIOUS
  <2>4. PICK front : front = SubSeq(r, 1, n)
    OBVIOUS
  <2>5. front \in Seq(Values) /\ Len(front) = n /\ \A i \in 1..n : front[i] = r[i]
    BY <1>1, <2>2, <2>3, <2>4
  <2>6. t \in Seq(Answers) /\ front \in Seq(Answers)
    BY <1>1, <2>3, <2>5, ValuesAreNoErrors
  <2>7. front = t
    BY <2>1, <2>3, <2>5, <2>6, SameSequence
  <2>. QED BY <2>2, <2>3, <2>4, <2>7 DEF IsPrefix
<1>4. client[c].at \in {"start", "type", "args"} \cup (IF daemon = "up" THEN {"failed"} ELSE {}) => Owed(c) = 0
  BY DEF Own, ClientSide
<1>5. \A i \in DOMAIN to_client[c] : to_client[c][i] = ERROR => applied[c] = Len(told[c])
  BY <1>2 DEF Own, ClientSide
<1>6. applied[c] - Len(told[c]) \in {0, 1}
  BY DEF Own, ClientSide, Owed
<1>7. ASSUME client[c].at = "done", client[c].command = "write", ~mixed[c], ~torn, NEW i \in 1..Pieces
      PROVE  content[i] = c
  <2>1. client[c].piece = Len(told[c]) /\ client[c].piece >= Pieces /\ Owed(c) = 0
    BY <1>7 DEF Own, PieceSide, ClientSide
  <2>2. i <= applied[c]
    BY <1>1, <1>2, <2>1, DaemonAssumption
  <2>. QED BY <1>7, <2>2 DEF Own, PieceSide
<1>. QED BY <1>2, <1>3, <1>4, <1>5, <1>6, <1>7

(* Every client is told of its own requests, of each once and in order,    *)
(* and a file that only one has written into is what it wrote, for every   *)
(* order of requests, refusals, kills and deaths (net_backend.c:94-107,    *)
(* main_cli.c).                                                            *)
THEOREM AnswersStayOwn == Spec => []AnswersAreOwn
<1>1. Answering => AnswersAreOwn
  <2>. SUFFICES ASSUME Answering, listener = "accepting", NEW c \in Clients
                PROVE  /\ Runs(c, Reads) => IsPrefix(told[c], read[c])
                       /\ applied[c] - Len(told[c]) \in {0, 1}
                       /\ client[c].at \in {"start", "type", "args"} \cup (IF daemon = "up" THEN {"failed"} ELSE {})
                            => applied[c] = Len(told[c])
                       /\ \A i \in DOMAIN to_client[c] : to_client[c][i] = ERROR => applied[c] = Len(told[c])
                       /\ client[c].at = "done" /\ client[c].command = "write" /\ ~mixed[c] /\ ~torn =>
                            \A i \in 1..Pieces : content[i] = c
    BY DEF AnswersAreOwn
  <2>1. AInv /\ Own(c)
    BY DEF Answering, AInv, AllOwn
  <2>. QED BY <2>1, OwnAnswers
<1>. QED BY <1>1, InitAnswering, NextAnswering, PTL DEF Spec
=============================================================================
