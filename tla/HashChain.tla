------------------------------ MODULE HashChain ------------------------------
(***************************************************************************)
(* The file format that the stewardship ledger (controller/ledger.py) and  *)
(* the measurement ledger (controller/measurement_core.py) share: a JSONL  *)
(* file in which every record carries its number, the hash of the record   *)
(* before it and its own hash.                                             *)
(*                                                                         *)
(* SHA-256 is taken to be free of collisions, so a hash is identified with *)
(* what was hashed.  The hash of a record covers the hash before it and    *)
(* so, in turn, every earlier record: a hash is the sequence of the        *)
(* numbers and payloads it covers.                                         *)
(***************************************************************************)
EXTENDS Integers, Sequences

CONSTANTS Payloads,  \* what records can be about
          Garbage    \* the contents of a line that is not a record

ASSUME GarbageIsNoPayload == Garbage \notin Payloads

Hash == Seq(Nat \X Payloads)

(* GENESIS, the hash before the first record. *)
Genesis == << >>

(* A variant: the hash of the record without the hash before it. *)
DigestOfRecord(prev, seq, body) == << <<seq, body>> >>

(* compute_hash and event_hash. *)
Digest(prev, seq, body) == Append(prev, <<seq, body>>)

Line == [seq : Int, prev : Hash, body : Payloads \cup {Garbage}, hash : Hash]

Record(seq, prev, body) ==
    [seq |-> seq, prev |-> prev, body |-> body, hash |-> Digest(prev, seq, body)]

(* A line that json.loads refuses, and one whose bytes are not UTF-8, which *)
(* no reader of the file gets past.                                         *)
Broken == [seq |-> -1, prev |-> Genesis, body |-> Garbage, hash |-> Genesis]
Undecodable == [Broken EXCEPT !.seq = -2]

(* The hash the record after the first n lines has to name. *)
HeadOf(lines, n) == IF n = 0 THEN Genesis ELSE lines[n].hash

(* A variant: the hash is not recomputed. *)
FitsUnhashed(lines, first, i) ==
    /\ lines[i].body # Garbage
    /\ lines[i].seq = first + i - 1
    /\ lines[i].prev = HeadOf(lines, i - 1)

(* Line i of the file passes the three comparisons of the verifier, where   *)
(* first is the number of the first record.                                 *)
Fits(lines, first, i) ==
    /\ lines[i].body # Garbage
    /\ lines[i].seq = first + i - 1
    /\ lines[i].prev = HeadOf(lines, i - 1)
    /\ lines[i].hash = Digest(lines[i].prev, lines[i].seq, lines[i].body)

Chained(lines, first) == \A i \in 1 .. Len(lines) : Fits(lines, first, i)

(* What verification of the file comes to.  "raises" is an exception other  *)
(* than the one the verifier reports errors with.                           *)
Verdict(lines, first) ==
    IF \E i \in 1 .. Len(lines) : lines[i] = Undecodable THEN "raises"
    ELSE IF Chained(lines, first) THEN "valid" ELSE "invalid"

(***************************************************************************)
(* Writing a line and its newline to a file opened for appending.  whole   *)
(* says whether the file ends with a newline; if it does not, the new text *)
(* continues the last line, which is then no record any more.              *)
(***************************************************************************)
WithLine(lines, whole, line) ==
    IF whole THEN Append(lines, line)
    ELSE [lines EXCEPT ![Len(lines)] = Broken]

(* A file that holds a chain, and after it at most the half line of a write *)
(* that never finished.                                                     *)
ChainedButForTail(lines, whole, first) ==
    \/ Chained(lines, first)
    \/ /\ ~whole
       /\ lines # << >>
       /\ lines[Len(lines)] = Broken
       /\ \A i \in 1 .. Len(lines) - 1 : Fits(lines, first, i)

(* The payloads of the records of such a file. *)
Entries(lines) ==
    LET n == IF lines # << >> /\ lines[Len(lines)] = Broken
             THEN Len(lines) - 1 ELSE Len(lines)
    IN  [i \in 1 .. n |-> lines[i].body]

(* The file still holds every record that hash covers. *)
Holds(lines, hash) ==
    /\ Len(hash) <= Len(lines)
    /\ \A i \in 1 .. Len(hash) : lines[i].hash = SubSeq(hash, 1, i)
=============================================================================
