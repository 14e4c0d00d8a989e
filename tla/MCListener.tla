----------------------------- MODULE MCListener -----------------------------
(* Small instances of Listener.  The window has width 0 and the stamps are *)
(* 0 and 1, so that at 0 the odd documents are too early and the even ones *)
(* in time, and at 1 the odd ones are in time and the even ones too late.  *)
EXTENDS Listener

KindOne == <<"plain", "risky", "oddSignature", "unparsable">>
KindTwo == <<"plain", "risky", "unparsable">>
Stamps == [e \in Event |-> e % 2]
=============================================================================
