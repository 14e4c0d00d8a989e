---------------------------- MODULE EventIntake -----------------------------
(***************************************************************************)
(* What the interop listener promises: an event that was offered, however  *)
(* often and under whatever file name, gets one outcome, once, and only an *)
(* outcome it deserves.                                                    *)
(***************************************************************************)
CONSTANTS Event, Outcome,
          Deserves,    \* Deserves[e]: the outcomes event e may get
          Pending

VARIABLES offered, outcome

vars == <<offered, outcome>>

Init == offered = {} /\ outcome = [e \in Event |-> Pending]

Offer(e) == offered' = offered \cup {e} /\ UNCHANGED outcome

Decide(e) ==
  /\ e \in offered /\ outcome[e] = Pending
  /\ \E o \in Deserves[e] : outcome' = [outcome EXCEPT ![e] = o]
  /\ UNCHANGED offered

Next == \E e \in Event : Offer(e) \/ Decide(e)

Spec == Init /\ [][Next]_vars
=============================================================================
