----------------------------- MODULE MCKeyStats -----------------------------
EXTENDS KeyStats

(* A .cfg has no negative numbers.                                         *)
MCStopped == -2
=============================================================================
