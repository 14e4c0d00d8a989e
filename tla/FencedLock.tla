----------------------------- MODULE FencedLock -----------------------------
(***************************************************************************)
(* What a fenced lock promises, without clocks and leases: a lock is free  *)
(* or granted to one holder, every grant has a higher number than all      *)
(* grants of that lock before it, and a grant that has ended never counts  *)
(* again.  Several grants may end at the same moment.                      *)
(***************************************************************************)
EXTENDS Naturals

CONSTANTS Lock, Holder, Nobody

VARIABLES grant,     \* the holder and number of the grant in force, or Nobody
          highest    \* the highest number granted so far

vars == <<grant, highest>>

Init == grant = [l \in Lock |-> Nobody] /\ highest = [l \in Lock |-> 0]

Grant(l, h) ==
  /\ grant[l] = Nobody
  /\ highest' = [highest EXCEPT ![l] = @ + 1]
  /\ grant' = [grant EXCEPT ![l] = [holder |-> h, token |-> highest[l] + 1]]

End(S) ==
  /\ grant' = [l \in Lock |-> IF l \in S THEN Nobody ELSE grant[l]]
  /\ UNCHANGED highest

Next ==
  \/ \E S \in SUBSET Lock : End(S)
  \/ \E l \in Lock, h \in Holder : Grant(l, h)

Spec == Init /\ [][Next]_vars
=============================================================================
