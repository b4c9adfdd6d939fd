----------------------------- MODULE MCRfsCore -----------------------------
(***************************************************************************)
(* Small images and request sets for RfsCore.                              *)
(***************************************************************************)
EXTENDS RfsCore

Req(type, path, off, len, flags) ==
  [type |-> type, path |-> path, offset |-> off, length |-> len, flags |-> flags]

MkFile(path)         == Req("Create", path, 0, 0, FLG_FILE)
MkDir(path)          == Req("Create", path, 0, 0, FLG_DIRECTORY)
Put(path, off, len)  == Req("Write", path, off, len, FLG_FILE)
Get(path, off, len)  == Req("Read", path, off, len, FLG_FILE)
Ask(type, path)      == Req(type, path, 0, 0, FLG_FILE)

MCNames     == {"a", "d", "long"}
MCLongNames == {"long"}
NoStale     == {0}

(* Two directories, a file in each, writes that stay in a block, end at    *)
(* its edge and cross it.                                                  *)
MCRequests ==
  { MkFile(<<"a">>), MkDir(<<"d">>), MkFile(<<"d", "a">>), MkFile(<<"long">>),
    Put(<<"a">>, 0, 1), Put(<<"a">>, 1, 2), Put(<<"a">>, 0, 0),
    Get(<<"a">>, 0, 9), Get(<<"a">>, 3, 1),
    Ask("Stat", <<"d">>), Ask("ReadDir", <<>>), Ask("ReadDir", <<"a">>) }

MCRemovals == {Ask("Remove", <<"a">>), Ask("Remove", <<"d", "a">>)}
(* What is said of clean images needs no step from a torn one.             *)
NotTorn == ~torn

UsedBefore == {0, 4, 9}

(* An image whose blocks hold old continuations, the end of a file among   *)
(* them.                                                                   *)
MCFewRequests ==
  { MkFile(<<"a">>), MkDir(<<"d">>), MkFile(<<"d", "a">>), Put(<<"a">>, 1, 2),
    Get(<<"a">>, 1, 2), Ask("Stat", <<"a">>), Ask("Remove", <<"d">>) }

(* Requests for the disagreements: fill the image; look at a file on used  *)
(* blocks; try again after "No space".                                     *)
MCFill  == {MkFile(<<"a">>)}
MCStat  == {MkFile(<<"a">>), Put(<<"a">>, 0, 3), Ask("Stat", <<"a">>)}
MCRetry == {MkFile(<<"a">>), Put(<<"a">>, 0, 13), Put(<<"a">>, 12, 1)}
UsedUp  == {0, 9}

MCAll == MCRequests \cup MCRemovals
=============================================================================
