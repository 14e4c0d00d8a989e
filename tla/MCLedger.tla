------------------------------ MODULE MCLedger ------------------------------
(* Instances of Ledger for TLC: one object with two threads, and two        *)
(* objects with a thread each.                                              *)
EXTENDS Ledger, TLC

CONSTANTS objA, objB, thr1, thr2, pay1, pay2

OneHome == (thr1 :> objA) @@ (thr2 :> objA)
TwoHomes == (thr1 :> objA) @@ (thr2 :> objB)

Payload2 == Permutations({pay1, pay2})
=============================================================================
