------------------------------- MODULE Ledger -------------------------------
(***************************************************************************)
(* controller/ledger.py: HashChainLedger objects, each in a process of its *)
(* own (every v91_cli call opens one), and the threads that append through *)
(* them.  An object verifies the file when it is opened, keeps the next    *)
(* number and the head hash in memory from then on, and serialises its     *)
(* threads with a lock of the process; nothing but the file itself is      *)
(* shared between two objects.                                             *)
(***************************************************************************)
EXTENDS ChainFile

CONSTANTS Objects, Threads, NoThread,
          Home,      \* the object each thread appends through
          MaxEdits   \* bound: edits in a behaviour

ASSUME ThreadsAssumption == Home \in [Threads -> Objects] /\ NoThread \notin Threads
ASSUME EditsAssumption == MaxEdits \in Nat

VARIABLES state,         \* of an object: "closed", "verified" or "open"
          seq, head,     \* _seq and _head of an object
          lock,          \* _lock of an object: the thread inside append
          call,          \* of a thread: where its append stands, and its record
          edits          \* history: edits so far

cache == <<state, seq, head>>
vars == <<file, cache, lock, call, promised, edits>>

Idle == [pc |-> "idle", rec |-> Broken]

Init ==
    /\ FileInit
    /\ state = [p \in Objects |-> "closed"]
    /\ seq = [p \in Objects |-> 0]
    /\ head = [p \in Objects |-> Genesis]
    /\ lock = [p \in Objects |-> NoThread]
    /\ call = [t \in Threads |-> Idle]
    /\ edits = 0

-----------------------------------------------------------------------------
(* HashChainLedger.__init__ reads the file twice: verify_chain counts the   *)
(* records, and _read_head takes the hash of the last one.                  *)

OpenVerify(p) ==
    /\ state[p] = "closed"
    /\ Verdict(lines, 0) = "valid"
    /\ seq' = [seq EXCEPT ![p] = Len(lines)]
    /\ state' = [state EXCEPT ![p] = "verified"]
    /\ UNCHANGED <<file, head, lock, call, promised, edits>>

ReadHead(p) == HeadOf(lines, Len(lines))

(* Who reads while others append may find the last line half there.         *)
Appending == \E t \in Threads : call[t].pc = "write"
Parses(ls) == \A i \in 1 .. Len(ls) : ls[i].body # Garbage

OpenReadHead(p) ==
    /\ state[p] = "verified"
    /\ \/ /\ Parses(lines)
          /\ state' = [state EXCEPT ![p] = "open"]
          /\ head' = [head EXCEPT ![p] = ReadHead(p)]
       \/ /\ ~Parses(lines) \/ Appending
          /\ state' = [state EXCEPT ![p] = "closed"]
          /\ UNCHANGED head
    /\ UNCHANGED <<file, seq, lock, call, promised, edits>>

-----------------------------------------------------------------------------
(* append: take the lock and make the record, write and flush it, fsync it, *)
(* move the cached head.                                                    *)

FreeAlways(p) == TRUE   \* a variant: append without the lock
Free(p) == lock[p] = NoThread

EnterWith(t, b) ==
    LET p == Home[t] IN
    /\ state[p] = "open" /\ Free(p) /\ call[t] = Idle
    /\ Len(lines) < MaxLines
    /\ lock' = [lock EXCEPT ![p] = t]
    /\ call' = [call EXCEPT ![t] = [pc |-> "write", rec |-> Record(seq[p], head[p], b)]]
    /\ UNCHANGED <<file, cache, promised, edits>>

Enter(t) == \E b \in Payloads : EnterWith(t, b)

Write(t) ==
    /\ call[t].pc = "write"
    /\ WriteLine(call[t].rec)
    /\ call' = [call EXCEPT ![t].pc = "sync"]
    /\ UNCHANGED <<cache, lock, promised, edits>>

(* The exception leaves the with blocks: the lock is free again, the cache  *)
(* is as it was.                                                            *)
Leave(t) ==
    /\ call' = [call EXCEPT ![t] = Idle]
    /\ lock' = [lock EXCEPT ![Home[t]] = NoThread]

WriteRaises(t) ==
    /\ "error" \in Faults /\ call[t].pc = "write"
    /\ UNCHANGED <<lines, whole>> \/ HalfWrite(call[t].rec)
    /\ Leave(t)
    /\ UNCHANGED <<synced, cache, promised, edits>>

Sync(t) ==
    LET p == Home[t] IN
    /\ call[t].pc = "sync"
    /\ Fsync
    /\ seq' = [seq EXCEPT ![p] = @ + 1]
    /\ head' = [head EXCEPT ![p] = call[t].rec.hash]
    /\ promised' = call[t].rec.hash
    /\ Leave(t)
    /\ UNCHANGED <<lines, whole, state, edits>>

SyncRaises(t) ==
    /\ "error" \in Faults /\ call[t].pc = "sync"
    /\ Leave(t)
    /\ UNCHANGED <<file, cache, promised, edits>>

-----------------------------------------------------------------------------
(* The surroundings.                                                        *)

Crash(p) ==
    /\ "crash" \in Faults /\ state[p] # "closed"
    /\ state' = [state EXCEPT ![p] = "closed"]
    /\ seq' = [seq EXCEPT ![p] = 0]
    /\ head' = [head EXCEPT ![p] = Genesis]
    /\ lock' = [lock EXCEPT ![p] = NoThread]
    /\ call' = [t \in Threads |-> IF Home[t] = p THEN Idle ELSE call[t]]
    /\ UNCHANGED <<file, promised, edits>>

Writing == {call[t].rec : t \in {u \in Threads : call[u].pc = "write"}}

PowerLoss ==
    /\ FilePowerLoss(Writing)
    /\ state' = [p \in Objects |-> "closed"]
    /\ seq' = [p \in Objects |-> 0]
    /\ head' = [p \in Objects |-> Genesis]
    /\ lock' = [p \in Objects |-> NoThread]
    /\ call' = [t \in Threads |-> Idle]
    /\ UNCHANGED edits

Without(ls, i) == SubSeq(ls, 1, i - 1) \o SubSeq(ls, i + 1, Len(ls))

(* The changes somebody makes who does not recompute any hash: other        *)
(* contents in a field, a line removed, copied, swapped or destroyed.       *)
Edited(ls) ==
    UNION { UNION {
        {[ls EXCEPT ![i].body = b] : b \in Payloads},
        {[ls EXCEPT ![i].seq = ls[j].seq, ![i].prev = ls[j].prev] : j \in 1 .. Len(ls)},
        {[ls EXCEPT ![i].hash = ls[j].hash] : j \in 1 .. Len(ls)},
        {[ls EXCEPT ![i] = ls[j], ![j] = ls[i]] : j \in 1 .. Len(ls)},
        {[ls EXCEPT ![i] = ls[j]] : j \in 1 .. Len(ls)},
        {Without(ls, i), [ls EXCEPT ![i] = Broken], [ls EXCEPT ![i] = Undecodable]}
      } : i \in 1 .. Len(ls) }

Edit ==
    /\ "edit" \in Faults /\ edits < MaxEdits
    /\ lines' \in Edited(lines)
    /\ edits' = edits + 1
    /\ UNCHANGED <<whole, synced, cache, lock, call, promised>>

-----------------------------------------------------------------------------
Inside(t) == Write(t) \/ WriteRaises(t) \/ Sync(t) \/ SyncRaises(t)

ThreadStep(t) == Enter(t) \/ Inside(t)

Next ==
    \/ \E p \in Objects : OpenVerify(p) \/ OpenReadHead(p) \/ Crash(p)
    \/ \E t \in Threads : ThreadStep(t)
    \/ PowerLoss
    \/ Edit

Spec == Init /\ [][Next]_vars

-----------------------------------------------------------------------------
(* Every variable has its type, and a thread inside append holds the lock.  *)
TypeOK ==
    /\ lines \in Seq(Line) /\ whole \in BOOLEAN /\ synced \in Nat
    /\ state \in [Objects -> {"closed", "verified", "open"}]
    /\ seq \in [Objects -> Nat] /\ head \in [Objects -> Hash]
    /\ lock \in [Objects -> Threads \cup {NoThread}]
    /\ call \in [Threads -> [pc : {"idle", "write", "sync"}, rec : Line]]
    /\ promised \in Hash /\ edits \in Nat
    /\ \A t \in Threads : call[t].pc # "idle" => lock[Home[t]] = t

(* Whatever stops the program, the file it leaves is a chain, and at most a *)
(* last line cut short follows it: no two threads and no restart ever give  *)
(* a number twice or continue from another head than the last one.          *)
OnlyTheTailIsTorn == ChainedButForTail(lines, whole, 0)

(* Outside append the number and the head an object keeps in memory are     *)
(* those of the file, so the next record continues it.                      *)
CacheIsTrue ==
    \A p \in Objects : state[p] = "open" /\ Free(p) =>
        /\ seq[p] = Len(lines)
        /\ head[p] = HeadOf(lines, Len(lines))

(* "Tamper-EVIDENT" (line 5): of the changes somebody can make to a file    *)
(* that verifies without recomputing hashes, the only one that still        *)
(* verifies is to take off its last record.                                 *)
TamperIsEvident ==
    Verdict(lines, 0) = "valid" =>
        \A e \in Edited(lines) :
            Verdict(e, 0) = "valid" =>
                e \in {lines, SubSeq(lines, 1, Len(lines) - 1)}

(* Lines 6-7: in a file that verifies the head hash stands for the whole    *)
(* history, so a head published elsewhere shows a change of any record      *)
(* before it, also one made while objects were open and appending.          *)
HeadCommitsToHistory ==
    Verdict(lines, 0) = "valid" =>
        \A i \in 1 .. Len(lines) :
            lines[i].hash = [j \in 1 .. i |-> <<lines[j].seq, lines[j].body>>]

(* README.md line 129: the ledger "verifies on open, resumes head after     *)
(* restart": a file that nobody edited and no power failure cut short can   *)
(* be opened again.                                                         *)
ResumesAfterRestart == whole => Chained(lines, 0)

(* verify_chain, line 26: "Returns a report; never raises on corrupt data." *)
VerifyNeverRaises == Verdict(lines, 0) # "raises"

=============================================================================
