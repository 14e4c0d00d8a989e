-------------------------- MODULE MCStewardshipGate --------------------------
(* One gate with one deciding thread and a thread that records impacts.     *)
(* The inputs are the two sides of every threshold.                         *)
EXTENDS StewardshipGate, TLC

CONSTANTS objA, thr1, thr2

OneHome == (thr1 :> objA) @@ (thr2 :> objA)
AtTheThresholds ==
    {[score |-> 71, human |-> 49], [score |-> 70, human |-> 0],
     [score |-> 50, human |-> 0], [score |-> 49, human |-> 0],
     [score |-> 71, human |-> 50]}
GatePayloads == {Decided(in, d) : in \in AtTheThresholds, d \in Decisions} \cup Impacts
=============================================================================
