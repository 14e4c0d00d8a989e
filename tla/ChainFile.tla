------------------------------ MODULE ChainFile ------------------------------
(***************************************************************************)
(* The JSONL file of a ledger under appends that may be interrupted: what  *)
(* a write, an fsync, a failing write and a power failure do to it, for    *)
(* controller/ledger.py and controller/measurement_core.py alike, and what *)
(* both promise to the callers of append.                                  *)
(*                                                                         *)
(* The faults a behaviour may contain are chosen by the constant Faults:   *)
(*   "crash"   a process dies between two of its steps                     *)
(*   "power"   the machine stops: all processes die, and lines that no     *)
(*             fsync covered may be missing or cut short                   *)
(*   "error"   a write or an fsync raises OSError in a process that lives  *)
(*   "bare"    what is cut off by a fault may be the newline alone         *)
(*   "edit"    somebody changes the file without recomputing hashes        *)
(***************************************************************************)
EXTENDS HashChain

CONSTANTS Faults,
          MaxLines   \* bound: no append begins with this many lines

ASSUME LinesAssumption == MaxLines \in Nat

VARIABLES lines, whole,  \* the file: its lines, and whether the last has its newline
          synced,        \* how many lines an fsync has covered
          promised       \* history: the hash last returned to a caller

file == <<lines, whole, synced>>

FileInit == lines = << >> /\ whole = TRUE /\ synced = 0 /\ promised = Genesis

WriteLine(rec) ==
    /\ lines' = WithLine(lines, whole, rec)
    /\ whole' = TRUE
    /\ UNCHANGED synced

FsyncOmitted == UNCHANGED synced   \* a variant
Fsync == synced' = Len(lines)

(* A write that is cut off has put a part of its line into the file.        *)
HalfWrite(rec) ==
    /\ whole' = FALSE
    /\ \/ lines' = WithLine(lines, whole, Broken)
       \/ "bare" \in Faults /\ lines' = WithLine(lines, whole, rec)

(* The first k lines survive, and of the next one, which may have been on   *)
(* its way to the disk, all, nothing or a part.                             *)
TornFile(k) ==
    \/ lines' = SubSeq(lines, 1, k) /\ whole' = (whole \/ k < Len(lines))
    \/ /\ k < Len(lines)
       /\ lines' = Append(SubSeq(lines, 1, k), Broken) /\ whole' = FALSE
    \/ /\ k < Len(lines) /\ "bare" \in Faults
       /\ lines' = SubSeq(lines, 1, k + 1) /\ whole' = FALSE

(* A power failure while the records of writing are being written.          *)
FilePowerLoss(writing) ==
    /\ "power" \in Faults
    /\ \/ \E k \in synced .. Len(lines) : TornFile(k)
       \/ \E rec \in writing : HalfWrite(rec)
    /\ synced' = Len(lines')
    /\ UNCHANGED promised

-----------------------------------------------------------------------------
(* append, append_snapshot: a record whose hash was returned stays in the   *)
(* file, at its place, with all the records its hash covers, through        *)
(* crashes, restarts and power failures.                                    *)
ReturnedStays == Holds(lines, promised)

(* A ledger is an append-only log of payloads: they are added one at a      *)
(* time, and what append has returned stays.                                *)
Log == INSTANCE AppendOnlyLog WITH log <- Entries(lines), kept <- Len(promised)
ImplementsAppendOnlyLog == Log!Spec
=============================================================================
