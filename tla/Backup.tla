------------------------------- MODULE Backup -------------------------------
(***************************************************************************)
(* v99/recovery: create_backup copies a file to the first free name and    *)
(* returns its digest; restore_backup verifies a backup against a digest,  *)
(* copies it and verifies the copy.  shutil.copy2 empties the target and   *)
(* then fills it; either process may die or get an OSError on the way, the *)
(* source may be written meanwhile, and a backup may rot at any time.      *)
(* Backups are made one after another, and so are restores; a digest is    *)
(* the content it was taken of.                                            *)
(***************************************************************************)
EXTENDS Integers, FiniteSets

CONSTANTS Versions,           \* what the source may contain
          Cut, Mixed, Rotten, \* what is in a file cut short, copied while it
                              \* changed, or damaged
          Nowhere,            \* there is no such file
          MaxBackups          \* bound

ASSUME BackupAssumption ==
    /\ {Cut, Mixed, Rotten, Nowhere} \cap Versions = {}
    /\ Nowhere \notin {Cut, Mixed, Rotten}
    /\ MaxBackups \in Nat \ {0}

Path == 1 .. MaxBackups  \* base.bak, base.1.bak, base.2.bak, ...

VARIABLES source,       \* the file that is backed up
          changed,      \* source was written since the copy began
          backups,      \* the content of each path
          creator,      \* where create_backup stands, and its path
          results,      \* the BackupResults returned, [path, sha256]
          restorer,     \* where restore_backup stands, and its arguments
          destination, restored  \* the destination, and what restore returned

creating == <<source, changed, creator, results>>
restoring == <<restorer, destination, restored>>
backupVars == <<creating, backups, restoring>>

AtRest == [stage |-> "idle"]

BackupInit ==
    /\ source \in Versions /\ changed = FALSE
    /\ backups = [p \in Path |-> Nowhere]
    /\ creator = AtRest /\ restorer = AtRest
    /\ results = {}
    /\ destination \in {Nowhere} \cup Versions
    /\ restored = FALSE

-----------------------------------------------------------------------------
(* A variant: the first name is always used. *)
FirstPath(p) == p = 1
FreePath(p) == backups[p] = Nowhere /\ \A q \in 1 .. p - 1 : backups[q] # Nowhere

ChoosePath(p) ==
    /\ creator.stage = "idle"
    /\ FreePath(p)
    /\ creator' = [stage |-> "open", path |-> p]
    /\ UNCHANGED <<source, changed, results, backups, restoring>>

BeginCopy ==
    /\ creator.stage = "open"
    /\ backups' = [backups EXCEPT ![creator.path] = Cut]
    /\ creator' = [creator EXCEPT !.stage = "copy"]
    /\ changed' = FALSE
    /\ UNCHANGED <<source, results, restoring>>

EndCopy ==
    /\ creator.stage = "copy"
    /\ backups' = [backups EXCEPT ![creator.path] = IF changed THEN Mixed ELSE source]
    /\ creator' = [creator EXCEPT !.stage = "digest"]
    /\ UNCHANGED <<source, changed, results, restoring>>

(* file_sha256 reads the backup, not the source. *)
TakeDigest ==
    /\ creator.stage = "digest"
    /\ results' = results \cup {[path |-> creator.path, sha256 |-> backups[creator.path]]}
    /\ creator' = AtRest
    /\ UNCHANGED <<source, changed, backups, restoring>>

CreatorFails ==
    /\ creator.stage # "idle"
    /\ creator' = AtRest
    /\ UNCHANGED <<source, changed, results, backups, restoring>>

WriteSource ==
    /\ source' \in Versions \ {source}
    /\ changed' = TRUE
    /\ UNCHANGED <<creator, results, backups, restoring>>

Rot(p) ==
    /\ backups[p] # Nowhere
    /\ backups' = [backups EXCEPT ![p] = Rotten]
    /\ UNCHANGED <<creating, restoring>>

-----------------------------------------------------------------------------
(* Lines 48-56, for a digest that some backup was given. *)
VerifyBackup(p, sha256, allow_overwrite) ==
    /\ restorer.stage = "idle"
    /\ backups[p] = sha256
    /\ destination = Nowhere \/ allow_overwrite
    /\ restorer' = [stage |-> "open", path |-> p, sha256 |-> sha256]
    /\ restored' = FALSE
    /\ UNCHANGED <<creating, backups, destination>>

EmptyDestination ==
    /\ restorer.stage = "open"
    /\ destination' = Cut
    /\ restorer' = [restorer EXCEPT !.stage = "copy"]
    /\ UNCHANGED <<creating, backups, restored>>

CopyBack ==
    /\ restorer.stage = "copy"
    /\ destination' = backups[restorer.path]
    /\ restorer' = [restorer EXCEPT !.stage = "check"]
    /\ UNCHANGED <<creating, backups, restored>>

VerifiedCopy == destination = restorer.sha256

CheckCopy ==
    /\ restorer.stage = "check"
    /\ restored' = VerifiedCopy
    /\ restorer' = AtRest
    /\ UNCHANGED <<creating, backups, destination>>

RestorerFails ==
    /\ restorer.stage # "idle"
    /\ restorer' = AtRest
    /\ UNCHANGED <<creating, backups, destination, restored>>

BackupNext ==
    \/ BeginCopy \/ EndCopy \/ TakeDigest \/ CreatorFails \/ WriteSource
    \/ \E p \in Path :
          \/ ChoosePath(p) \/ Rot(p)
          \/ \E r \in results, allow \in BOOLEAN : VerifyBackup(p, r.sha256, allow)
    \/ EmptyDestination \/ CopyBack \/ CheckCopy \/ RestorerFails

BackupSpec == BackupInit /\ [][BackupNext]_backupVars

-----------------------------------------------------------------------------
(* "Backups are never overwritten or deleted automatically; a restore takes *)
(* place only with a matching integrity check" (lines 3-5): what a result   *)
(* certified is in its file until the file rots, however many backups are   *)
(* made or fail after it; and after a restore that returned True the        *)
(* destination has a content that some result certified, also when the      *)
(* backup rotted between the verification and the copy.                     *)
BackupsAreProof ==
    /\ \A r \in results : backups[r.path] \in {r.sha256, Rotten}
    /\ restored => \E r \in results : destination = r.sha256

=============================================================================
