-------------------------------- MODULE MCV99 --------------------------------
(* The parts of V99 that share no state: the agent's cycles over two        *)
(* modules, so that one can report and propose in the other's name, the key *)
(* rotation and the backups.  A behaviour is about one of them, part, and   *)
(* the others stay at one of their initial states.                          *)
EXTENDS V99Cycle, KeyRotation, Backup

VARIABLE part

RotationRests == store = "file"
BackupRests == source = (CHOOSE v \in Versions : TRUE) /\ destination = Nowhere

V99Init ==
    /\ Init /\ RotationInit /\ BackupInit
    /\ part \in {"agent", "rotation", "backup"}
    /\ part # "rotation" => RotationRests
    /\ part # "backup" => BackupRests
V99Next ==
    /\ UNCHANGED part
    /\ \/ part = "agent" /\ Next /\ UNCHANGED <<rotationVars, backupVars>>
       \/ part = "rotation" /\ RotationNext /\ UNCHANGED <<vars, backupVars>>
       \/ part = "backup" /\ BackupNext /\ UNCHANGED <<vars, rotationVars>>
V99Spec == V99Init /\ [][V99Next]_<<vars, rotationVars, backupVars>>
=============================================================================
