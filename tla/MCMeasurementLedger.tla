------------------------- MODULE MCMeasurementLedger -------------------------
(* Instances of MeasurementLedger for TLC.                                  *)
EXTENDS MeasurementLedger
=============================================================================
