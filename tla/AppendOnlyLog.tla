---------------------------- MODULE AppendOnlyLog ----------------------------
(***************************************************************************)
(* What an append-only ledger promises its callers: payloads are added at  *)
(* the end, one at a time; once an append has returned, its payload and    *)
(* all before it stay.  Payloads nobody was promised yet may be lost with  *)
(* the power.                                                              *)
(***************************************************************************)
EXTENDS Integers, Sequences

CONSTANT Payloads

VARIABLES log,   \* the payloads in the ledger
          kept   \* how many of them have been promised

Init == log = << >> /\ kept = 0

Add(b) == log' = Append(log, b) /\ UNCHANGED kept

Promise == kept' \in kept .. Len(log) /\ UNCHANGED log

Lose == /\ \E n \in kept .. Len(log) : log' = SubSeq(log, 1, n)
        /\ UNCHANGED kept

Next == (\E b \in Payloads : Add(b)) \/ Promise \/ Lose

Spec == Init /\ [][Next]_<<log, kept>>
=============================================================================
