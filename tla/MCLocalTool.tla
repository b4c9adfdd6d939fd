----------------------------- MODULE MCLocalTool -----------------------------
(* Commands for LocalTool: some that build a small tree, one by one, and   *)
(* the ones that two processes run on it at the same time.                 *)
EXTENDS LocalTool

Run(type, path) == [NOCMD EXCEPT !.type = type, !.path = path]
WriteTo(path, offset, chunks) == [Run("write", path) EXCEPT !.offset = offset, !.chunks = chunks]

MCPrelude == <<Run("mkfile", <<"/", "a">>), Run("mkdir", <<"/", "d">>), WriteTo(<<"/", "a">>, 0, <<<<"1", "2">>, <<"3">>>>)>>

MCCommands ==
  {Run("mkfile", <<"/", "d", "/", "b">>), Run("mkfile", <<"/", "c", "/">>), Run("mkdir", <<"/", "long">>),
   WriteTo(<<"/", "a">>, 1, <<<<"4">>, <<"5", "6", "7", "8", "9">>>>), WriteTo(<<"/", "a">>, 9, <<<<"1">>>>),
   Run("cat", <<"/", "a">>), Run("ls", <<"/">>), Run("stat", <<"/", "a">>),
   Run("rm", <<"/", "a">>), Run("rm", <<"/", "d">>), Run("init", <<>>),
   Run("mkfile", <<"/">>), Run("rm", <<"a">>), Run("cat", <<"/", "/", "a">>)}

MCLongNames == {"long"}
Symmetry == Permutations(Processes)
=============================================================================
