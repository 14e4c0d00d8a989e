------------------------------ MODULE AuditLog ------------------------------
(***************************************************************************)
(* The shared action log runtime/v91-actions.jsonl and its lock file, as   *)
(* append_audit (controller/runtime_control.py) uses them.  Every worker   *)
(* container and the host-side controller call the same function on the    *)
(* same two files.                                                         *)
(*                                                                         *)
(* The lock is a file created with O_CREAT|O_EXCL.  append_audit never     *)
(* waits for it: a lock file that exists makes the call raise at once.     *)
(* The lock file outlives a process that dies between the open and the     *)
(* unlink, and the unlink removes whatever file has that name.             *)
(***************************************************************************)

CONSTANTS Free,          \* no lock file exists
          IOFaults,      \* BOOLEAN: may a write, fsync, unlink or rename fail?
          Crashes        \* BOOLEAN: may a process die at any point?

VARIABLES
  lockFile,    \* Free, or the process that created the lock file
  appending,   \* the live processes between their open and their unlink
  audit        \* the events on disk, each [phase, of]

auditVars == <<lockFile, appending, audit>>

AuditInit == lockFile = Free /\ appending = {} /\ audit = {}

(* O_EXCL: the open succeeds only when the lock file does not exist. *)
LockOpens(p) ==
  /\ lockFile = Free
  /\ lockFile' = p
  /\ appending' = appending \cup {p}
  /\ UNCHANGED audit

(* FileExistsError becomes a ControlError before anything is written; an   *)
(* open that fails for another reason raises as well.                      *)
LockRefused(p) == (lockFile # Free \/ IOFaults) /\ UNCHANGED auditVars

(* The event reaches the disk and the finally block unlinks the lock. *)
EventAppended(p, es) ==
  /\ audit' = audit \cup es
  /\ lockFile' = Free
  /\ appending' = appending \ {p}

(* A write, flush, fsync or unlink raises: the event may be on disk all    *)
(* the same, and the lock file is gone unless it was the unlink that       *)
(* failed.  What counts here is an event whose bytes are on disk, also     *)
(* when they follow the end of a line that an earlier failure cut short:   *)
(* no reader parses such a line, which only inspect_action_log of the      *)
(* observer tells apart (Observer).                                        *)
AppendRaises(p, es) ==
  /\ IOFaults
  /\ audit' \in {audit, audit \cup es}
  /\ lockFile' \in {Free, lockFile}
  /\ appending' = appending \ {p}

(* The process dies inside append_audit: nobody unlinks its lock file. *)
DiesAppending(p, es) ==
  /\ audit' \in {audit, audit \cup es}
  /\ appending' = appending \ {p}
  /\ UNCHANGED lockFile

(* The operator follows the error text ("inspect it, do not delete         *)
(* blindly") and removes a lock file whose process is gone.                *)
OperatorClearsLock ==
  /\ lockFile \notin appending \cup {Free}
  /\ lockFile' = Free
  /\ UNCHANGED <<appending, audit>>

(* A process that holds the lock is the one the lock file names, so two    *)
(* processes never write the log at the same time.                         *)
LockDiscipline == \A p \in appending : lockFile = p
=============================================================================
