---------------------------- MODULE MCRfsDaemon ----------------------------
(* Three rfscli: two that write and one that makes or removes a file, or    *)
(* one that writes and two that read.                                       *)
EXTENDS RfsDaemon

CONSTANTS c1, c2, c3

MCClients  == {c1, c2, c3}
MCCommands == {c1 :> "write" @@ c2 :> "write" @@ c3 :> "item",
               c1 :> "write" @@ c2 :> "cat"   @@ c3 :> "list"}
=============================================================================
