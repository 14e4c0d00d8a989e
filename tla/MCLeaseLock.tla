---------------------------- MODULE MCLeaseLock -----------------------------
(* Small instances of LeaseLock: the clock runs past every lease and every *)
(* lock changes hands up to MaxToken times.                                *)
EXTENDS LeaseLock
=============================================================================
