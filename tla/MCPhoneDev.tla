----------------------------- MODULE MCPhoneDev -----------------------------
(* The instance of PhoneDev that TLC checks: clients may be exchanged.     *)
EXTENDS PhoneDev

Clients == Permutations(Threads)
=============================================================================
