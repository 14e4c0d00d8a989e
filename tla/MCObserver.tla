----------------------------- MODULE MCObserver -----------------------------
(* An observer beside a small instance of the worker queue.  Its           *)
(* properties speak of one task at a time; a second task changes nothing   *)
(* but the size of the instance.                                           *)
EXTENDS Observer

IdOfOne == <<"a">>
DocOne == <<"runnable">>
=============================================================================
