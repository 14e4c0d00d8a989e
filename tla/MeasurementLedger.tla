-------------------------- MODULE MeasurementLedger --------------------------
(***************************************************************************)
(* controller/measurement_core.py: append_snapshot, called by any number   *)
(* of processes on one measurement ledger.  Nothing is cached: each call   *)
(* creates the lock file, verifies the whole file, appends the record that *)
(* follows it, fsyncs, and unlinks the lock file in a finally block.       *)
(*                                                                         *)
(* Faults: "crash", "power", "error" and "bare" of ChainFile.              *)
(***************************************************************************)
EXTENDS ChainFile

CONSTANTS Procs, NoProc

ASSUME ProcsAssumption == NoProc \notin Procs

VARIABLES lockFile,  \* the process whose lock file exists
          stage,     \* of a process: where its append_snapshot stands
          record     \* of a process: the record it appends

measurementVars == <<file, promised, lockFile, stage, record>>

MeasurementInit ==
    /\ FileInit
    /\ lockFile = NoProc
    /\ stage = [p \in Procs |-> "idle"]
    /\ record = [p \in Procs |-> Broken]

At(p, s) == stage[p] = s
GoTo(p, s) == stage' = [stage EXCEPT ![p] = s] /\ UNCHANGED record
Gone(p) == /\ stage' = [stage EXCEPT ![p] = "idle"]
           /\ record' = [record EXCEPT ![p] = Broken]

LockedShared(p) == TRUE   \* a variant: O_CREAT without O_EXCL
Locked(p) == lockFile = NoProc

(* Who finds the lock file gets a MeasurementError and changes nothing.     *)
TakeLock(p) ==
    /\ At(p, "idle") /\ Locked(p) /\ Len(lines) < MaxLines
    /\ lockFile' = p
    /\ GoTo(p, "verify")
    /\ UNCHANGED <<file, promised>>

(* The pid line cannot be written or fsynced.                               *)
LockRaises(p) ==
    /\ "error" \in Faults /\ At(p, "verify")
    /\ GoTo(p, "unlock")
    /\ UNCHANGED <<file, lockFile, promised>>

AcceptAnyFile(p) == TRUE   \* a variant: the head is taken without verification
Accepted(p) == Verdict(lines, 1) = "valid"

Verify(p) ==
    /\ At(p, "verify")
    /\ \/ /\ Accepted(p)
          /\ stage' = [stage EXCEPT ![p] = "write"]
          /\ \E b \in Payloads :
                record' = [record EXCEPT ![p] =
                               Record(Len(lines) + 1, HeadOf(lines, Len(lines)), b)]
       \/ /\ ~Accepted(p)
          /\ GoTo(p, "unlock")
    /\ UNCHANGED <<file, lockFile, promised>>

WriteSnapshot(p) ==
    /\ At(p, "write")
    /\ WriteLine(record[p])
    /\ GoTo(p, "sync")
    /\ UNCHANGED <<lockFile, promised>>

WriteSnapshotRaises(p) ==
    /\ "error" \in Faults /\ At(p, "write")
    /\ UNCHANGED <<lines, whole>> \/ HalfWrite(record[p])
    /\ GoTo(p, "unlock")
    /\ UNCHANGED <<synced, lockFile, promised>>

SyncSnapshot(p) ==
    /\ At(p, "sync")
    /\ Fsync
    /\ GoTo(p, "return")
    /\ UNCHANGED <<lines, whole, lockFile, promised>>

SyncSnapshotRaises(p) ==
    /\ "error" \in Faults /\ At(p, "sync")
    /\ GoTo(p, "unlock")
    /\ UNCHANGED <<file, lockFile, promised>>

(* The finally block: unlink whatever has the name of the lock file; then   *)
(* the result is returned or the exception goes on.                         *)
Unlock(p) ==
    /\ At(p, "return") \/ At(p, "unlock")
    /\ lockFile' = NoProc
    /\ promised' = IF At(p, "return") THEN record[p].hash ELSE promised
    /\ Gone(p)
    /\ UNCHANGED file

(* The unlink raises: the lock file stays, the caller sees a failure.       *)
UnlockRaises(p) ==
    /\ "error" \in Faults
    /\ At(p, "return") \/ At(p, "unlock")
    /\ Gone(p)
    /\ UNCHANGED <<file, lockFile, promised>>

-----------------------------------------------------------------------------
(* The surroundings.                                                        *)

ProcDies(p) ==
    /\ "crash" \in Faults /\ ~At(p, "idle")
    /\ Gone(p)
    /\ UNCHANGED <<file, lockFile, promised>>

(* The lock file survives a power failure or does not.                      *)
HostLosesPower ==
    /\ FilePowerLoss({record[p] : p \in {q \in Procs : At(q, "write")}})
    /\ stage' = [p \in Procs |-> "idle"]
    /\ record' = [p \in Procs |-> Broken]
    /\ lockFile' \in {lockFile, NoProc}

(* docs/V91_MEASUREMENT_CORE.md line 7: "a stale lock may require manual    *)
(* inspection".  Somebody inspects it, sees that its process is gone, and   *)
(* removes it.                                                              *)
OperatorClearsLock ==
    /\ lockFile # NoProc /\ At(lockFile, "idle")
    /\ lockFile' = NoProc
    /\ UNCHANGED <<file, promised, stage, record>>

-----------------------------------------------------------------------------
ProcStep(p) ==
    \/ TakeLock(p) \/ LockRaises(p) \/ Verify(p)
    \/ WriteSnapshot(p) \/ WriteSnapshotRaises(p)
    \/ SyncSnapshot(p) \/ SyncSnapshotRaises(p)
    \/ Unlock(p) \/ UnlockRaises(p)

MeasurementNext ==
    \/ \E p \in Procs : ProcStep(p) \/ ProcDies(p)
    \/ HostLosesPower
    \/ OperatorClearsLock

MeasurementSpec == MeasurementInit /\ [][MeasurementNext]_measurementVars

-----------------------------------------------------------------------------
Stages == {"idle", "verify", "write", "sync", "return", "unlock"}

(* Every variable has its type, and the lock file names the only process    *)
(* that is between taking and removing it.                                  *)
MeasurementTypeOK ==
    /\ lines \in Seq(Line) /\ whole \in BOOLEAN /\ synced \in Nat
    /\ lockFile \in Procs \cup {NoProc}
    /\ stage \in [Procs -> Stages] /\ record \in [Procs -> Line]
    /\ promised \in Hash
    /\ \A p \in Procs : ~At(p, "idle") => lockFile = p

(* Lines 151-170: whatever fails, the records form one chain, and at most a *)
(* line cut short follows it: no two processes continue the same head.      *)
MeasurementsAreChained == ChainedButForTail(lines, whole, 1)

(* Lines 151-157 and 196, "FAILED_CLOSED": the file a process writes to     *)
(* still verifies and still ends with the record it is about to continue;   *)
(* nothing is appended to a file that does not verify.                      *)
FailClosed ==
    \A p \in Procs : At(p, "write") =>
        /\ Verdict(lines, 1) = "valid"
        /\ record[p].prev = HeadOf(lines, Len(lines))

(* Line 171 returns the status "APPENDED_HASH_CHAINED": the record just     *)
(* appended and fsynced is the last one of a chain.                         *)
AppendedIsChained ==
    \A p \in Procs : At(p, "return") =>
        Chained(lines, 1) /\ lines[Len(lines)] = record[p]
=============================================================================
