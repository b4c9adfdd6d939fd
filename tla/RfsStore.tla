------------------------------ MODULE RfsStore ------------------------------
(***************************************************************************)
(* What the clients of the file system of hw2-netfs rely on: a tree of     *)
(* files, and requests that are answered one after the other, each with    *)
(* one effect on the tree or with none.  A file is its size, its flags     *)
(* and, for a directory, its entries.  Two kinds of bad luck are part of   *)
(* the promise: when the daemon is killed, or aborted for what an earlier  *)
(* stat did to its heap, the effect of the request at hand may be there or *)
(* not and, if it was an rm, more entries of that directory may be lost;   *)
(* and a handler abandoned inside a change of size damages the image,      *)
(* after which nothing is promised.                                        *)
(***************************************************************************)
EXTENDS Naturals, Sequences

CONSTANTS root,          (* the root directory                             *)
          Directory,     (* flags of a directory                           *)
          Requests

VARIABLES files,         (* size, flags and items of every file            *)
          request,       (* the last request that arrived                  *)
          answer,        (* how it ended, "none" until then                *)
          damaged

store == <<files, request, answer, damaged>>

Empty(flags) == [size |-> 0, flags |-> flags, items |-> <<>>]

IsDir(f) == files[f].flags = Directory

(* Where the first entry of that name is in a directory.                   *)
Position(d, name) ==
  {i \in DOMAIN files[d].items :
     /\ files[d].items[i].name = name
     /\ \A j \in 1 .. i - 1 : files[d].items[j].name # name}

(* The file a path leads to, as a set: empty when it leads nowhere.        *)
At(path) ==
  LET reach[n \in 0 .. Len(path)] ==
        IF n = 0 THEN {root}
        ELSE UNION { {files[d].items[i].inode : i \in Position(d, path[n])} :
                     d \in {e \in reach[n - 1] : IsDir(e)} }
  IN  reach[Len(path)]

BaseName == request.path[Len(request.path)]

(* The directories the request adds an entry to or takes one from.         *)
Parents ==
  IF request.path = <<>> THEN {}
  ELSE {d \in At(SubSeq(request.path, 1, Len(request.path) - 1)) : IsDir(d)}

Init == /\ files = [f \in {root} |-> Empty(Directory)]
        /\ request \in Requests /\ answer = "none"
        /\ damaged = FALSE

Arrive == /\ request' \in Requests /\ answer' = "none"
          /\ UNCHANGED files

(* mkfile, mkdir: one new and empty file, under one new entry.             *)
Create ==
  \E d \in Parents : \E f \in DOMAIN files' \ DOMAIN files :
    files' = [g \in DOMAIN files \cup {f} |->
                IF g = f THEN Empty(request.flags)
                ELSE IF g # d THEN files[g]
                ELSE [files[d] EXCEPT
                        !.size = @ + 1,
                        !.items = Append(@, [name |-> BaseName, inode |-> f])]]

(* write: the file reaches at least to the end of what was written; it     *)
(* gets no hole and is never shortened.                                    *)
Write ==
  \E f \in At(request.path) :
    LET end == request.offset + request.length
    IN  /\ ~IsDir(f)
        /\ request.length = 0 \/ request.offset <= files[f].size
        /\ files' = IF request.length = 0 \/ end <= files[f].size THEN files
                    ELSE [files EXCEPT ![f].size = end]

Look == /\ UNCHANGED files
        /\ At(request.path) # {}
        /\ request.type = "ReadDir" => \A d \in At(request.path) : IsDir(d)

(* The entries of d become kept.  Only a file no entry names any more may  *)
(* go out of sight.                                                        *)
Keep(d, kept) ==
  /\ DOMAIN files' \subseteq DOMAIN files
  /\ root \in DOMAIN files'
  /\ \A f \in DOMAIN files' : \A i \in DOMAIN files'[f].items :
       files'[f].items[i].inode \in DOMAIN files'
  /\ files' = [f \in DOMAIN files' |->
                 IF f = d THEN [files[d] EXCEPT !.size = Len(kept), !.items = kept]
                 ELSE files[f]]

Others(d, i) == SubSeq(files[d].items, 1, i - 1)
                  \o SubSeq(files[d].items, i + 1, Len(files[d].items))

(* rm: one entry of one directory goes, the others stay in their order.    *)
Remove == \E d \in Parents : \E i \in Position(d, BaseName) : Keep(d, Others(d, i))

(* An rm that is killed has put back only the first of the other entries.  *)
Cut == \E d \in Parents : \E i \in Position(d, BaseName) :
         \E n \in 0 .. Len(Others(d, i)) : Keep(d, SubSeq(Others(d, i), 1, n))

Effect == CASE request.type = "Create" -> Create
            [] request.type = "Write"  -> Write
            [] request.type = "Remove" -> Remove
            [] OTHER                   -> Look

(* The daemon ended from outside, or by the C library.                     *)
Cuts == {"killed", "aborted"}

(* "ok" says the request has had its effect; a message says it has had     *)
(* none.  rm breaks this: after its effect it goes on to free blocks by    *)
(* the index of the entry, and may lose the connection or answer with an   *)
(* internal error.                                                         *)
Answer ==
  /\ answer = "none" /\ UNCHANGED request
  /\ \/ answer' = "ok" /\ Effect
     \/ answer' \in {"refused", "internal"} \cup Cuts /\ UNCHANGED files
     \/ answer' \in Cuts /\ Effect
     \/ answer' \in Cuts /\ request.type = "Remove" /\ Cut
     \/ answer' \in {"lost", "internal"} /\ request.type = "Remove" /\ Remove

Next == \/ damaged' = TRUE
        \/ damaged = FALSE /\ damaged' = FALSE /\ (Arrive \/ Answer)

Spec == Init /\ [][Next]_store
=============================================================================
