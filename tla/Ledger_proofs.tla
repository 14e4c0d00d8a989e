---------------------------- MODULE Ledger_proofs ----------------------------
(***************************************************************************)
(* Proofs about the two ledgers and the stewardship gate, for any objects, *)
(* threads, processes and payloads and files of any length.                *)
(*                                                                         *)
(* First the file format, then the file under appends and faults, which    *)
(* both ledgers share, then Ledger, StewardshipGate and MeasurementLedger. *)
(***************************************************************************)
EXTENDS StewardshipGate, MeasurementLedger, SequenceTheorems, WellFoundedInduction, TLAPS

(* Any set of numbers has a least one; this is what stands for induction on *)
(* the length of the file.                                                  *)
LEMMA LeastNumber ==
  ASSUME NEW S \in SUBSET Nat, S # {}
  PROVE  \E n \in S : \A m \in S : n <= m
<1> DEFINE Less == {p \in Nat \X Nat : p[1] < p[2]}
<1>1. OpToRel(<, Nat) = Less
  BY DEF OpToRel
<1>2. IsWellFoundedOn(Less, Nat)
  BY <1>1, NatLessThanWellFounded
<1>3. PICK n \in S : \A m \in S : ~(<<m, n>> \in Less)
  <2> HIDE DEF Less
  <2> QED
    BY <1>2, WFMin
<1>4. ASSUME NEW m \in S PROVE n <= m
  <2>1. m \in Nat /\ n \in Nat
    OBVIOUS
  <2>2. m < n => <<m, n>> \in Less
    BY <2>1
  <2>3. ~(m < n)
    BY <2>2, <1>3
  <2> QED
    BY <2>1, <2>3
<1> QED
  BY <1>4

(* A sequence that agrees with another as far as it goes is its beginning.  *)
LEMMA BeginningIsSubSeq ==
  ASSUME NEW S, NEW s \in Seq(S), NEW t \in Seq(S), NEW n \in 0 .. Len(t),
         Len(s) = n, \A k \in 1 .. n : s[k] = t[k]
  PROVE  s = SubSeq(t, 1, n)
<1>1. /\ SubSeq(t, 1, n) \in Seq(S) /\ Len(SubSeq(t, 1, n)) = n
      /\ \A k \in 1 .. n : SubSeq(t, 1, n)[k] = t[k]
  BY SubSeqProperties
<1> QED
  BY <1>1, SeqEqual

-----------------------------------------------------------------------------
(* The file format.                                                         *)

(* The first n lines verify. *)
Verified(ls, first, n) == \A i \in 1 .. n : Fits(ls, first, i)

(* What a reader reads in the first i lines. *)
HistoryOf(ls, i) == [j \in 1 .. i |-> <<ls[j].seq, ls[j].body>>]

(* The parts of a line; of one that verifies they are those of a record. *)
LEMMA LineTypes ==
  ASSUME NEW ls \in Seq(Line), NEW i \in 1 .. Len(ls)
  PROVE  /\ ls[i] \in Line
         /\ ls[i].seq \in Int /\ ls[i].prev \in Hash /\ ls[i].hash \in Hash
         /\ ls[i].body \in Payloads \cup {Garbage}
<1>1. ls[i] \in Line
  BY ElementOfSeq
<1> QED
  BY <1>1 DEF Line

LEMMA FittingTypes ==
  ASSUME NEW ls \in Seq(Line), NEW first \in Nat, NEW i \in 1 .. Len(ls), Fits(ls, first, i)
  PROVE  ls[i].seq \in Nat /\ ls[i].body \in Payloads /\ ls[i].seq = first + i - 1
BY LineTypes DEF Fits

(* In lines that verify each hash is the whole history up to its line. *)
LEMMA HashIsHistory ==
  ASSUME NEW ls \in Seq(Line), NEW first \in Nat, NEW n \in 0 .. Len(ls),
         Verified(ls, first, n)
  PROVE  \A i \in 1 .. n : ls[i].hash = HistoryOf(ls, i)
<1> DEFINE Wrong == {i \in 1 .. n : ls[i].hash # HistoryOf(ls, i)}
<1> SUFFICES ASSUME Wrong # {} PROVE FALSE
  OBVIOUS
<1>1. PICK i \in Wrong : \A j \in Wrong : i <= j
  <2>1. Wrong \in SUBSET Nat
    OBVIOUS
  <2> HIDE DEF Wrong
  <2> QED
    BY <2>1, LeastNumber
<1> DEFINE entry == <<ls[i].seq, ls[i].body>>
<1>2. i \in 1 .. n /\ i \in 1 .. Len(ls) /\ ls[i].hash # HistoryOf(ls, i)
  OBVIOUS
<1>3. entry \in Nat \X Payloads
  BY <1>2, FittingTypes DEF Verified
<1>4. ls[i].hash = Append(HeadOf(ls, i - 1), entry)
  BY <1>2 DEF Verified, Fits, Digest
<1>5. CASE i = 1
  <2>1. ls[i].hash = <<entry>>
    BY <1>4, <1>5 DEF HeadOf, Genesis
  <2>2. HistoryOf(ls, i) = <<entry>>
    BY <1>5 DEF HistoryOf
  <2> QED
    BY <2>1, <2>2, <1>2
<1>6. CASE i > 1
  <2>1. i - 1 \in 1 .. n /\ i - 1 \notin Wrong
    BY <1>1, <1>2, <1>6
  <2>2. HeadOf(ls, i - 1) = HistoryOf(ls, i - 1)
    BY <1>6, <2>1 DEF HeadOf
  <2>3. HistoryOf(ls, i - 1) \in Seq(Nat \X Payloads) /\ Len(HistoryOf(ls, i - 1)) = i - 1
    <3>1. HistoryOf(ls, i - 1) \in Hash
      BY <2>1, <2>2, <1>6, LineTypes DEF HeadOf
    <3> QED
      BY <3>1, <2>1, LenProperties DEF HistoryOf, Hash
  <2>4. /\ Append(HistoryOf(ls, i - 1), entry) \in Seq(Nat \X Payloads)
        /\ Len(Append(HistoryOf(ls, i - 1), entry)) = i
        /\ \A j \in 1 .. i - 1 : Append(HistoryOf(ls, i - 1), entry)[j] = HistoryOf(ls, i - 1)[j]
        /\ Append(HistoryOf(ls, i - 1), entry)[i] = entry
    <3> HIDE DEF entry
    <3> QED
      BY <1>3, <1>6, <2>3, AppendProperties
  <2>5. ls[i].hash = [j \in 1 .. i |-> ls[i].hash[j]]
    BY <1>4, <2>2, <2>4, LenProperties
  <2>6. \A j \in 1 .. i : ls[i].hash[j] = <<ls[j].seq, ls[j].body>>
    BY <1>4, <2>2, <2>4 DEF HistoryOf
  <2>7. ls[i].hash = HistoryOf(ls, i)
    BY <2>5, <2>6 DEF HistoryOf
  <2> QED
    BY <2>7, <1>2
<1> QED
  BY <1>2, <1>5, <1>6

(* So a hash is as long as its line is far down, and the hashes above it    *)
(* are its beginnings.                                                      *)
LEMMA HashesAreNested ==
  ASSUME NEW ls \in Seq(Line), NEW first \in Nat, NEW n \in 0 .. Len(ls),
         Verified(ls, first, n), NEW i \in 1 .. n
  PROVE  /\ Len(ls[i].hash) = i
         /\ \A j \in 1 .. i : ls[j].hash = SubSeq(ls[i].hash, 1, j)
<1>1. Len(ls) \in Nat /\ n \in Nat /\ i \in Nat
  BY LenProperties
<1>2. ASSUME NEW j \in 1 .. i
      PROVE  /\ ls[j].hash \in Seq(Nat \X Payloads)
             /\ Len(ls[j].hash) = j
             /\ ls[j].hash = HistoryOf(ls, j)
  <2>1. j \in 1 .. Len(ls) /\ j \in 1 .. n
    BY <1>1
  <2>2. ls[j].hash = HistoryOf(ls, j)
    BY <2>1, HashIsHistory
  <2>3. ls[j].hash \in Seq(Nat \X Payloads)
    BY <2>1, LineTypes DEF Hash
  <2>4. Len(ls[j].hash) = j
    BY <2>1, <2>2, <2>3, LenProperties DEF HistoryOf
  <2> QED
    BY <2>2, <2>3, <2>4
<1>3. i \in 1 .. i
  BY <1>1
<1>4. /\ ls[i].hash \in Seq(Nat \X Payloads)
      /\ Len(ls[i].hash) = i
      /\ ls[i].hash = HistoryOf(ls, i)
  BY <1>2, <1>3
<1>5. ASSUME NEW j \in 1 .. i
      PROVE  ls[j].hash = SubSeq(ls[i].hash, 1, j)
  <2>1. /\ ls[j].hash \in Seq(Nat \X Payloads)
        /\ Len(ls[j].hash) = j
        /\ ls[j].hash = HistoryOf(ls, j)
    BY <1>2
  <2>2. \A k \in 1 .. j : ls[j].hash[k] = ls[i].hash[k]
    <3>1. \A k \in 1 .. j : HistoryOf(ls, j)[k] = HistoryOf(ls, i)[k]
      BY <1>1 DEF HistoryOf
    <3> QED
      BY <2>1, <1>4, <3>1
  <2>3. j \in 0 .. Len(ls[i].hash)
    BY <1>1, <1>4
  <2> HIDE DEF HistoryOf
  <2> QED
    BY <1>4, <2>1, <2>2, <2>3, BeginningIsSubSeq
<1> QED
  BY <1>4, <1>5

-----------------------------------------------------------------------------
(* The file under appends and faults.  Records is how many lines of it are  *)
(* records: all, but for a last one that was cut short.                     *)
Records == IF whole THEN Len(lines) ELSE Len(lines) - 1

FileType == lines \in Seq(Line) /\ whole \in BOOLEAN /\ synced \in Nat /\ promised \in Hash

(* What every step keeps true of a file whose first record has the number   *)
(* first: its records verify, and what was promised is synced and there.    *)
FileOK(first) ==
    /\ FileType
    /\ ~whole => lines # << >> /\ lines[Len(lines)] = Broken
    /\ Verified(lines, first, Records)
    /\ synced <= Len(lines) /\ Len(promised) <= synced /\ Len(promised) <= Records
    /\ promised = HeadOf(lines, Len(promised))

LEMMA BrokenIsALine == Broken \in Line /\ Broken.body = Garbage
<1>1. Genesis \in Hash
  BY DEF Genesis, Hash
<1> QED
  BY <1>1 DEF Broken, Line

LEMMA RecordIsALine ==
  ASSUME NEW n \in Nat, NEW h \in Hash, NEW b \in Payloads
  PROVE  /\ Record(n, h, b) \in Line
         /\ Record(n, h, b).body = b /\ Record(n, h, b) # Broken
         /\ Record(n, h, b).hash = Append(h, <<n, b>>)
<1>1. Append(h, <<n, b>>) \in Hash
  BY AppendProperties DEF Hash
<1> QED
  BY <1>1, GarbageIsNoPayload DEF Record, Digest, Line, Broken

LEMMA HeadOfType ==
  ASSUME NEW ls \in Seq(Line), NEW n \in 0 .. Len(ls)
  PROVE  HeadOf(ls, n) \in Hash
<1>1. CASE n = 0
  BY <1>1 DEF HeadOf, Genesis, Hash
<1>2. CASE n # 0
  BY <1>2, LineTypes DEF HeadOf
<1> QED
  BY <1>1, <1>2

(* Writing keeps the type of the file, whatever is in it. *)
LEMMA WithLineType ==
  ASSUME NEW ls \in Seq(Line), NEW w \in BOOLEAN, NEW rec \in Line
  PROVE  WithLine(ls, w, rec) \in Seq(Line)
<1>1. CASE w
  BY <1>1, AppendProperties DEF WithLine
<1>2. CASE ~w
  <2>1. Len(ls) \in Nat /\ ls = [i \in 1 .. Len(ls) |-> ls[i]]
    BY LenProperties
  <2> DEFINE new == [i \in 1 .. Len(ls) |-> IF i = Len(ls) THEN Broken ELSE ls[i]]
  <2>2. WithLine(ls, w, rec) = new
    BY <1>2, <2>1 DEF WithLine
  <2>3. \A i \in 1 .. Len(ls) : (IF i = Len(ls) THEN Broken ELSE ls[i]) \in Line
    BY BrokenIsALine, ElementOfSeq
  <2>4. new \in Seq(Line)
    BY <2>1, <2>3, IsASeq
  <2> QED
    BY <2>2, <2>4
<1> QED
  BY <1>1, <1>2

LEMMA HalfWriteType ==
  ASSUME FileType, NEW rec \in Line, HalfWrite(rec)
  PROVE  lines' \in Seq(Line) /\ whole' \in BOOLEAN
BY WithLineType, BrokenIsALine DEF FileType, HalfWrite

LEMMA PowerLossType ==
  ASSUME FileType, NEW writing \in SUBSET Line, FilePowerLoss(writing)
  PROVE  FileType'
<1>1. lines' \in Seq(Line) /\ whole' \in BOOLEAN
  <2>1. ASSUME NEW k \in synced .. Len(lines), TornFile(k)
        PROVE  lines' \in Seq(Line) /\ whole' \in BOOLEAN
    <3>1. k \in 0 .. Len(lines) /\ Len(lines) \in Nat
      BY LenProperties DEF FileType
    <3>2. SubSeq(lines, 1, k) \in Seq(Line)
      BY <3>1, SubSeqProperties DEF FileType
    <3>3. k < Len(lines) => SubSeq(lines, 1, k + 1) \in Seq(Line)
      BY <3>1, SubSeqProperties DEF FileType
    <3>4. Append(SubSeq(lines, 1, k), Broken) \in Seq(Line)
      BY <3>2, BrokenIsALine, AppendProperties
    <3> QED
      BY <2>1, <3>2, <3>3, <3>4 DEF TornFile, FileType
  <2> QED
    BY <2>1, HalfWriteType DEF FilePowerLoss
<1>2. Len(lines') \in Nat
  BY <1>1, LenProperties
<1> QED
  BY <1>1, <1>2 DEF FilePowerLoss, FileType

(* The payloads in a file of n records, and at most half a line after them. *)
LEMMA EntriesOf ==
  ASSUME NEW first \in Nat, NEW ls \in Seq(Line), NEW n \in Nat, Verified(ls, first, n),
         Len(ls) = n \/ (Len(ls) = n + 1 /\ ls[n + 1] = Broken)
  PROVE  /\ Entries(ls) = [i \in 1 .. n |-> ls[i].body]
         /\ Entries(ls) \in Seq(Payloads) /\ Len(Entries(ls)) = n
<1>1. ls # << >> <=> Len(ls) # 0
  BY EmptySeq
<1>2. Len(ls) = n /\ n # 0 => ls[n] # Broken
  <2>1. n # 0 => Fits(ls, first, n)
    BY DEF Verified
  <2> QED
    BY <2>1, BrokenIsALine DEF Fits
<1>3. Entries(ls) = [i \in 1 .. n |-> ls[i].body]
  <2>1. CASE Len(ls) = n
    BY <1>1, <1>2, <2>1 DEF Entries
  <2>2. CASE Len(ls) = n + 1 /\ ls[n + 1] = Broken
    <3>1. ls # << >> /\ ls[Len(ls)] = Broken /\ Len(ls) - 1 = n
      BY <1>1, <2>2
    <3> QED
      BY <3>1 DEF Entries
  <2> QED
    BY <2>1, <2>2
<1>4. \A i \in 1 .. n : ls[i].body \in Payloads
  <2>1. \A i \in 1 .. n : i \in 1 .. Len(ls) /\ Fits(ls, first, i)
    BY DEF Verified
  <2> QED
    BY <2>1, FittingTypes
<1>5. Entries(ls) \in Seq(Payloads)
  BY <1>3, <1>4, IsASeq
<1>6. Len(Entries(ls)) = n
  BY <1>3, <1>5, LenProperties
<1> QED
  BY <1>3, <1>5, <1>6

(* The payloads in a file that is as it should be. *)
LEMMA EntriesAre ==
  ASSUME NEW first \in Nat, FileOK(first)
  PROVE  /\ Len(lines) \in Nat /\ Records \in 0 .. Len(lines)
         /\ Entries(lines) = [i \in 1 .. Records |-> lines[i].body]
         /\ Entries(lines) \in Seq(Payloads) /\ Len(Entries(lines)) = Records
<1>1. Len(lines) \in Nat /\ (lines # << >> => Len(lines) > 0) /\ whole \in BOOLEAN
  BY LenProperties, EmptySeq DEF FileOK, FileType
<1>2. /\ Records \in 0 .. Len(lines) /\ Records \in Nat
      /\ Len(lines) = Records \/ (Len(lines) = Records + 1 /\ lines[Records + 1] = Broken)
  BY <1>1 DEF FileOK, FileType, Records
<1> HIDE DEF Records
<1>3. QED
  BY <1>1, <1>2, EntriesOf DEF FileOK, FileType

(* Whether the first n lines verify depends on these lines alone. *)
LEMMA VerifiedBeginning ==
  ASSUME NEW ls, NEW ms, NEW first, NEW n \in Nat,
         \A i \in 1 .. n : ls[i] = ms[i],
         Verified(ls, first, n)
  PROVE  Verified(ms, first, n) /\ \A k \in 0 .. n : HeadOf(ms, k) = HeadOf(ls, k)
<1>1. \A k \in 0 .. n : HeadOf(ms, k) = HeadOf(ls, k)
  BY DEF HeadOf
<1>2. ASSUME NEW i \in 1 .. n PROVE Fits(ms, first, i)
  <2>1. Fits(ls, first, i) /\ ls[i] = ms[i] /\ i - 1 \in 0 .. n
    BY DEF Verified
  <2> QED
    BY <1>1, <2>1 DEF Fits
<1> QED
  BY <1>1, <1>2 DEF Verified

(* A whole file goes on with the record that follows it. *)
LEMMA WriteKeeps ==
  ASSUME NEW first \in Nat, FileOK(first), whole, NEW b \in Payloads,
         WriteLine(Record(first + Len(lines), HeadOf(lines, Len(lines)), b)),
         UNCHANGED promised
  PROVE  /\ FileOK(first)'
         /\ Len(lines') = Len(lines) + 1
         /\ \A i \in 1 .. Len(lines) : lines'[i] = lines[i]
         /\ lines'[Len(lines')] = Record(first + Len(lines), HeadOf(lines, Len(lines)), b)
         /\ Entries(lines)' = Append(Entries(lines), b)
<1> DEFINE n == Len(lines)
           rec == Record(first + n, HeadOf(lines, n), b)
<1>1. n \in Nat /\ n + 1 \in 1 .. n + 1 /\ Records = n
  BY LenProperties DEF FileOK, FileType, Records
<1>2. HeadOf(lines, n) \in Hash
  BY <1>1, HeadOfType DEF FileOK, FileType
<1>3. rec \in Line /\ rec.body = b /\ rec.hash = Digest(rec.prev, rec.seq, rec.body)
      /\ rec.seq = first + n /\ rec.prev = HeadOf(lines, n) /\ b # Garbage
  BY <1>1, <1>2, RecordIsALine, GarbageIsNoPayload DEF Record
<1>4. lines' = Append(lines, rec) /\ whole' = TRUE /\ synced' = synced
  BY DEF WriteLine, WithLine
<1>5. /\ lines' \in Seq(Line) /\ Len(lines') = n + 1
      /\ \A i \in 1 .. n : lines'[i] = lines[i]
      /\ lines'[n + 1] = rec
  <2> HIDE DEF rec
  <2> QED
    BY <1>3, <1>4, AppendProperties DEF FileOK, FileType
<1>6. Verified(lines', first, n) /\ \A k \in 0 .. n : HeadOf(lines', k) = HeadOf(lines, k)
  <2>1. Verified(lines, first, n)
    BY <1>1 DEF FileOK
  <2> QED
    BY <1>1, <1>5, <2>1, VerifiedBeginning
<1>7. Fits(lines', first, n + 1)
  <2> HIDE DEF rec
  <2> QED
    BY <1>1, <1>3, <1>5, <1>6 DEF Fits
<1>8. Records' = n + 1
  BY <1>4, <1>5 DEF Records
<1>9. Verified(lines', first, n + 1)
  BY <1>1, <1>6, <1>7 DEF Verified
<1>10. FileOK(first)'
  <2>1. Len(promised) \in Nat
    BY LenProperties DEF FileOK, FileType, Hash
  <2>2. HeadOf(lines', Len(promised)) = HeadOf(lines, Len(promised))
    BY <1>1, <1>6, <2>1 DEF FileOK
  <2> QED
    BY <1>1, <1>4, <1>5, <1>8, <1>9, <2>1, <2>2 DEF FileOK, FileType
<1>11. Entries(lines)' = Append(Entries(lines), b)
  <2>1. /\ Entries(lines) = [i \in 1 .. n |-> lines[i].body]
        /\ Entries(lines) \in Seq(Payloads) /\ Len(Entries(lines)) = n
    BY <1>1, EntriesAre
  <2>2. Entries(lines)' = [i \in 1 .. n + 1 |-> lines'[i].body]
    <3>1. lines' # << >> /\ lines'[Len(lines')] # Broken
      BY <1>1, <1>3, <1>5, BrokenIsALine, EmptySeq
    <3> QED
      BY <3>1, <1>5 DEF Entries
  <2>3. \A i \in 1 .. n + 1 : lines'[i].body \in Payloads
    BY <1>1, <1>3, <1>5, <2>1, ElementOfSeq
  <2>4. Entries(lines)' \in Seq(Payloads) /\ Len(Entries(lines)') = n + 1
    <3>1. Entries(lines)' \in Seq(Payloads)
      BY <1>1, <2>2, <2>3, IsASeq
    <3> QED
      BY <1>1, <2>2, <3>1, LenProperties
  <2>5. /\ Append(Entries(lines), b) \in Seq(Payloads)
        /\ Len(Append(Entries(lines), b)) = n + 1
        /\ \A i \in 1 .. n : Append(Entries(lines), b)[i] = Entries(lines)[i]
        /\ Append(Entries(lines), b)[n + 1] = b
    BY <2>1, AppendProperties
  <2>6. \A i \in 1 .. n + 1 : Entries(lines)'[i] = Append(Entries(lines), b)[i]
    BY <1>1, <1>3, <1>5, <2>1, <2>2, <2>5
  <2> QED
    BY <2>4, <2>5, <2>6, SeqEqual
<1> QED
  BY <1>5, <1>10, <1>11

(* Whatever a fault takes from the end of the file: if the first m records  *)
(* are left, and after them at most half a line, all is as before.          *)
LEMMA CutKeeps ==
  ASSUME NEW first \in Nat, FileOK(first), NEW m \in Len(promised) .. Records,
         lines' \in Seq(Line), whole' \in BOOLEAN,
         Len(lines') = IF whole' THEN m ELSE m + 1,
         ~whole' => lines'[m + 1] = Broken,
         \A i \in 1 .. m : lines'[i] = lines[i],
         synced' \in Len(promised) .. Len(lines'), UNCHANGED promised
  PROVE  FileOK(first)' /\ Entries(lines)' = SubSeq(Entries(lines), 1, m)
<1>1. /\ Len(lines) \in Nat /\ Records \in 0 .. Len(lines)
      /\ Entries(lines) \in Seq(Payloads) /\ Len(Entries(lines)) = Records
      /\ Entries(lines) = [i \in 1 .. Records |-> lines[i].body]
  BY EntriesAre
<1>2. Len(promised) \in Nat
  BY LenProperties DEF FileOK, FileType, Hash
<1>3. m \in Nat /\ m <= Records
  BY <1>1, <1>2
<1>4. Records' = m
  BY <1>3 DEF Records
<1>5. Verified(lines', first, m) /\ HeadOf(lines', Len(promised)) = HeadOf(lines, Len(promised))
  <2>1. Verified(lines, first, m)
    BY <1>1, <1>3 DEF FileOK, Verified
  <2>2. Verified(lines', first, m) /\ \A k \in 0 .. m : HeadOf(lines', k) = HeadOf(lines, k)
    <3>1. m \in Nat /\ \A i \in 1 .. m : lines[i] = lines'[i]
      BY <1>3
    <3>2. Verified(lines', first, m)
      BY <2>1, <3>1, VerifiedBeginning
    <3>3. \A k \in 0 .. m : HeadOf(lines', k) = HeadOf(lines, k)
      BY <3>1 DEF HeadOf
    <3> QED
      BY <3>2, <3>3
  <2>3. Len(promised) \in 0 .. m
    BY <1>2, <1>3
  <2> QED
    BY <2>2, <2>3
<1>6. FileOK(first)'
  <2>1. synced' \in Nat /\ Len(promised) <= synced' /\ synced' <= Len(lines')
    BY <1>2, <1>3
  <2>2. ~whole' => lines' # << >> /\ lines'[Len(lines')] = Broken
    BY <1>3, EmptySeq
  <2>3. promised' = HeadOf(lines', Len(promised'))
    BY <1>5 DEF FileOK
  <2>4. Verified(lines, first, Records)' /\ (Len(promised) <= Records)'
    BY <1>4, <1>5
  <2>5. FileType'
    BY <2>1 DEF FileOK, FileType
  <2> QED
    BY <2>1, <2>2, <2>3, <2>4, <2>5 DEF FileOK
<1>7. /\ Entries(lines)' = [i \in 1 .. m |-> lines'[i].body]
      /\ Entries(lines)' \in Seq(Payloads) /\ Len(Entries(lines)') = m
  <2>1. Len(lines') = m \/ (Len(lines') = m + 1 /\ lines'[m + 1] = Broken)
    BY <1>3
  <2> QED
    BY <1>3, <1>5, <2>1, EntriesOf
<1>8. \A i \in 1 .. m : Entries(lines)'[i] = Entries(lines)[i]
  BY <1>1, <1>3, <1>7
<1>9. Entries(lines)' = SubSeq(Entries(lines), 1, m)
  BY <1>1, <1>3, <1>7, <1>8, BeginningIsSubSeq
<1> QED
  BY <1>6, <1>9

(* A write that is cut off leaves the records, if what is cut off is never  *)
(* the newline alone.                                                       *)
LEMMA HalfWriteCuts ==
  ASSUME NEW first \in Nat, FileOK(first), "bare" \notin Faults, NEW rec, HalfWrite(rec)
  PROVE  /\ lines' \in Seq(Line) /\ whole' = FALSE
         /\ Len(lines') = Records + 1 /\ lines'[Records + 1] = Broken
         /\ \A i \in 1 .. Records : lines'[i] = lines[i]
<1>1. lines' = WithLine(lines, whole, Broken) /\ whole' = FALSE
  BY DEF HalfWrite
<1>2. lines \in Seq(Line) /\ whole \in BOOLEAN /\ Len(lines) \in Nat
  BY LenProperties DEF FileOK, FileType
<1>3. CASE whole
  BY <1>1, <1>2, <1>3, BrokenIsALine, AppendProperties DEF WithLine, Records
<1>4. CASE ~whole
  <2>1. lines # << >> /\ lines[Len(lines)] = Broken
    BY <1>4 DEF FileOK
  <2>2. Len(lines) # 0
    BY <1>2, <2>1, EmptySeq
  <2>3. lines' = lines
    <3>1. lines' = [lines EXCEPT ![Len(lines)] = Broken]
      BY <1>1, <1>4 DEF WithLine
    <3>2. lines = [i \in 1 .. Len(lines) |-> lines[i]]
      BY <1>2, LenProperties
    <3> QED
      BY <2>1, <3>1, <3>2
  <2> QED
    BY <1>1, <1>2, <1>4, <2>1, <2>2, <2>3 DEF Records
<1> QED
  BY <1>2, <1>3, <1>4

LEMMA HalfWriteKeeps ==
  ASSUME NEW first \in Nat, FileOK(first), "bare" \notin Faults, NEW rec, HalfWrite(rec),
         UNCHANGED <<synced, promised>>
  PROVE  FileOK(first)' /\ Entries(lines)' = Entries(lines)
<1>1. /\ Len(lines) \in Nat /\ Records \in 0 .. Len(lines) /\ Len(lines) <= Records + 1
      /\ Entries(lines) \in Seq(Payloads) /\ Len(Entries(lines)) = Records
  BY EntriesAre DEF Records
<1>2. Len(promised) \in Nat /\ synced \in Nat
  BY LenProperties DEF FileOK, FileType, Hash
<1>3. Len(promised) <= Records /\ Len(promised) <= synced /\ synced <= Len(lines)
  BY DEF FileOK
<1>4. Records \in Len(promised) .. Records /\ synced' \in Len(promised) .. Records + 1
  BY <1>1, <1>2, <1>3
<1>5. FileOK(first)' /\ Entries(lines)' = SubSeq(Entries(lines), 1, Records)
  <2>1. /\ lines' \in Seq(Line) /\ whole' = FALSE
        /\ Len(lines') = Records + 1 /\ lines'[Records + 1] = Broken
        /\ \A i \in 1 .. Records : lines'[i] = lines[i]
    BY HalfWriteCuts
  <2> HIDE DEF Records
  <2> QED
    BY <1>4, <2>1, CutKeeps
<1>6. Entries(lines) = SubSeq(Entries(lines), 1, Records)
  <2>1. Records \in 0 .. Len(Entries(lines))
    BY <1>1
  <2> QED
    BY <1>1, <2>1, BeginningIsSubSeq
<1> QED
  BY <1>5, <1>6

(* A power failure takes the end of the file, but nothing that was synced. *)
LEMMA PowerKeeps ==
  ASSUME NEW first \in Nat, FileOK(first), "bare" \notin Faults,
         NEW writing, FilePowerLoss(writing)
  PROVE  /\ FileOK(first)'
         /\ \E m \in Len(promised) .. Len(Entries(lines)) :
                Entries(lines)' = SubSeq(Entries(lines), 1, m)
<1>1. /\ Len(lines) \in Nat /\ Records \in 0 .. Len(lines) /\ Len(lines) <= Records + 1
      /\ Len(Entries(lines)) = Records
      /\ lines \in Seq(Line) /\ whole \in BOOLEAN
  BY EntriesAre DEF Records, FileOK, FileType
<1>2. Len(promised) \in Nat /\ synced \in Nat
  BY LenProperties DEF FileOK, FileType, Hash
<1>3. Len(promised) <= Records /\ Len(promised) <= synced /\ synced <= Len(lines)
  BY DEF FileOK
<1>4. UNCHANGED promised /\ synced' = Len(lines')
  BY DEF FilePowerLoss
<1> SUFFICES \E m \in Len(promised) .. Records :
               /\ lines' \in Seq(Line) /\ whole' \in BOOLEAN
               /\ Len(lines') = IF whole' THEN m ELSE m + 1
               /\ ~whole' => lines'[m + 1] = Broken
               /\ \A i \in 1 .. m : lines'[i] = lines[i]
  <2>1. PICK m \in Len(promised) .. Records :
               /\ lines' \in Seq(Line) /\ whole' \in BOOLEAN
               /\ Len(lines') = IF whole' THEN m ELSE m + 1
               /\ ~whole' => lines'[m + 1] = Broken
               /\ \A i \in 1 .. m : lines'[i] = lines[i]
    OBVIOUS
  <2>2. synced' \in Len(promised) .. Len(lines')
    BY <1>1, <1>2, <1>4, <2>1
  <2>3. FileOK(first)' /\ Entries(lines)' = SubSeq(Entries(lines), 1, m)
    <3> HIDE DEF Records
    <3> QED
      BY <1>4, <2>1, <2>2, CutKeeps
  <2> QED
    BY <1>1, <2>3
<1>5. ASSUME NEW k \in synced .. Len(lines), TornFile(k)
      PROVE  \E m \in Len(promised) .. Records :
               /\ lines' \in Seq(Line) /\ whole' \in BOOLEAN
               /\ Len(lines') = IF whole' THEN m ELSE m + 1
               /\ ~whole' => lines'[m + 1] = Broken
               /\ \A i \in 1 .. m : lines'[i] = lines[i]
  <2>1. k \in 0 .. Len(lines)
    BY <1>1, <1>2
  <2>2. /\ SubSeq(lines, 1, k) \in Seq(Line) /\ Len(SubSeq(lines, 1, k)) = k
        /\ \A i \in 1 .. k : SubSeq(lines, 1, k)[i] = lines[i]
    BY <1>1, <2>1, SubSeqProperties
  <2>3. CASE lines' = SubSeq(lines, 1, k) /\ whole' = (whole \/ k < Len(lines))
    <3>1. CASE whole'
      <4>1. k \in Len(promised) .. Records
        BY <1>1, <1>2, <1>3, <2>1, <2>3, <3>1 DEF Records
      <4> QED
        BY <2>2, <2>3, <3>1, <4>1
    <3>2. CASE ~whole'
      <4>1. k = Len(lines) /\ ~whole
        <5>1. ~whole /\ ~(k < Len(lines))
          BY <1>1, <2>3, <3>2
        <5> QED
          BY <1>1, <2>1, <5>1
      <4>2. lines # << >> /\ lines[Len(lines)] = Broken
        BY <4>1 DEF FileOK
      <4>3. Records = Len(lines) - 1 /\ Records \in Len(promised) .. Records
        BY <1>1, <1>2, <1>3, <4>1 DEF Records
      <4>4. whole' \in BOOLEAN
        BY <1>1, <2>3
      <4> HIDE DEF Records
      <4> QED
        BY <1>1, <2>2, <2>3, <3>2, <4>1, <4>2, <4>3, <4>4
    <3> QED
      BY <3>1, <3>2
  <2>4. CASE k < Len(lines) /\ lines' = Append(SubSeq(lines, 1, k), Broken) /\ whole' = FALSE
    <3>1. k \in Len(promised) .. Records
      BY <1>1, <1>2, <1>3, <2>1, <2>4
    <3>2. /\ lines' \in Seq(Line) /\ Len(lines') = k + 1 /\ lines'[k + 1] = Broken
          /\ \A i \in 1 .. k : lines'[i] = lines[i]
      BY <2>1, <2>2, <2>4, BrokenIsALine, AppendProperties
    <3> QED
      BY <2>4, <3>1, <3>2
  <2> QED
    BY <1>5, <2>3, <2>4 DEF TornFile
<1>6. ASSUME NEW rec \in writing, HalfWrite(rec)
      PROVE  \E m \in Len(promised) .. Records :
               /\ lines' \in Seq(Line) /\ whole' \in BOOLEAN
               /\ Len(lines') = IF whole' THEN m ELSE m + 1
               /\ ~whole' => lines'[m + 1] = Broken
               /\ \A i \in 1 .. m : lines'[i] = lines[i]
  <2>1. /\ lines' \in Seq(Line) /\ whole' = FALSE
        /\ Len(lines') = Records + 1 /\ lines'[Records + 1] = Broken
        /\ \A i \in 1 .. Records : lines'[i] = lines[i]
    BY <1>6, HalfWriteCuts
  <2>2. Records \in Len(promised) .. Records
    BY <1>1, <1>2, <1>3
  <2> HIDE DEF Records
  <2> QED
    BY <2>1, <2>2
<1> QED
  BY <1>5, <1>6 DEF FilePowerLoss

(* fsync, and returning the hash of the last record when it is synced. *)
LEMMA SyncKeeps ==
  ASSUME NEW first \in Nat, FileOK(first), Fsync, UNCHANGED <<lines, whole, promised>>
  PROVE  FileOK(first)' /\ Entries(lines)' = Entries(lines)
<1>1. Len(lines) \in Nat /\ Len(promised) \in Nat
  BY LenProperties DEF FileOK, FileType, Hash
<1>2. Records' = Records /\ Verified(lines, first, Records)' = Verified(lines, first, Records)
  BY DEF Records, Verified, Fits, HeadOf
<1>3. Entries(lines)' = Entries(lines)
  BY DEF Entries
<1> QED
  BY <1>1, <1>2, <1>3 DEF FileOK, FileType, Fsync, HeadOf

LEMMA PromiseKeeps ==
  ASSUME NEW first \in Nat, FileOK(first), whole, lines # << >>,
         promised' = lines[Len(lines)].hash, synced' = Len(lines), UNCHANGED <<lines, whole>>
  PROVE  /\ FileOK(first)' /\ Entries(lines)' = Entries(lines)
         /\ Len(promised') = Len(lines) /\ Len(promised) <= Len(promised')
<1> DEFINE n == Len(lines)
<1>1. n \in Nat /\ n # 0 /\ lines \in Seq(Line) /\ Records = n /\ Records' = n
  BY LenProperties, EmptySeq DEF FileOK, FileType, Records
<1>2. Verified(lines, first, n)
  BY <1>1 DEF FileOK
<1>3. Len(promised') = n /\ promised' = HeadOf(lines, n) /\ promised' \in Hash
  <2>1. Len(lines[n].hash) = n
    BY <1>1, <1>2, HashesAreNested
  <2>2. lines[n].hash \in Hash
    BY <1>1, LineTypes
  <2> QED
    BY <1>1, <2>1, <2>2 DEF HeadOf
<1>4. Len(promised) <= Len(promised')
  BY <1>1, <1>3 DEF FileOK
<1>5. Verified(lines, first, Records)' /\ HeadOf(lines', n) = HeadOf(lines, n)
  BY <1>1, <1>2 DEF Verified, Fits, HeadOf
<1>6. Entries(lines)' = Entries(lines)
  BY DEF Entries
<1>7. FileOK(first)'
  BY <1>1, <1>3, <1>5 DEF FileOK, FileType
<1> QED
  BY <1>3, <1>4, <1>6, <1>7

LEMMA UnchangedKeeps ==
  ASSUME NEW first \in Nat, UNCHANGED <<file, promised>>
  PROVE  FileOK(first)' = FileOK(first) /\ Entries(lines)' = Entries(lines)
BY DEF FileOK, FileType, file, Records, Verified, Fits, HeadOf, Entries

(* What such a file means to those who read it. *)
LEMMA FileOKMeans ==
  ASSUME NEW first \in Nat, FileOK(first)
  PROVE  /\ ChainedButForTail(lines, whole, first) /\ ReturnedStays
         /\ whole => Chained(lines, first) /\ Verdict(lines, first) = "valid"
<1>1. /\ Len(lines) \in Nat /\ Records \in 0 .. Len(lines) /\ lines \in Seq(Line)
      /\ Verified(lines, first, Records)
  BY EntriesAre DEF FileOK, FileType
<1>2. whole => Chained(lines, first)
  BY <1>1 DEF Records, Chained, Verified
<1>3. ChainedButForTail(lines, whole, first)
  BY <1>1, <1>2 DEF FileOK, Records, Verified, ChainedButForTail
<1>4. ASSUME whole PROVE Verdict(lines, first) = "valid"
  <2>1. \A i \in 1 .. Len(lines) : lines[i] # Undecodable
    <3>1. Undecodable.body = Garbage
      BY BrokenIsALine DEF Undecodable, Broken
    <3> QED
      BY <1>2, <1>4, <3>1 DEF Chained, Fits
  <2> QED
    BY <1>2, <1>4, <2>1 DEF Verdict
<1>5. ReturnedStays
  <2> DEFINE n == Len(promised)
  <2>1. n \in Nat /\ n <= Records /\ promised = HeadOf(lines, n)
    BY LenProperties DEF FileOK, FileType, Hash
  <2>2. n <= Len(lines)
    BY <1>1, <2>1
  <2>3. ASSUME NEW i \in 1 .. n PROVE lines[i].hash = SubSeq(promised, 1, i)
    <3>1. n # 0 /\ n \in 1 .. Records /\ promised = lines[n].hash
      BY <1>1, <2>1 DEF HeadOf
    <3> HIDE DEF n, Records
    <3> QED
      BY <1>1, <3>1, HashesAreNested
  <2> QED
    BY <2>2, <2>3 DEF ReturnedStays, Holds
<1> QED
  BY <1>2, <1>3, <1>4, <1>5

LEMMA FileInitOK ==
  ASSUME NEW first \in Nat, FileInit
  PROVE  FileOK(first) /\ Entries(lines) = << >>
<1>1. << >> \in Seq(Line) /\ Len(<< >>) = 0 /\ << >> \in Hash
  BY EmptySeq DEF Hash
<1>2. Records = 0
  BY <1>1 DEF FileInit, Records
<1>3. Verified(lines, first, Records)
  BY <1>2 DEF Verified
<1>4. FileOK(first)
  BY <1>1, <1>2, <1>3 DEF FileInit, FileOK, FileType, HeadOf, Genesis
<1>5. Entries(lines) = << >>
  BY <1>1, <1>2, <1>4, EntriesAre, EmptySeq
<1> QED
  BY <1>4, <1>5

-----------------------------------------------------------------------------
(* MeasurementLedger: the type invariant, for all faults.                   *)

(* append_snapshot, lines 140-178: while a process is between taking and    *)
(* removing the lock file, the file is its own, whatever else crashes.      *)
LEMMA MeasurementTypeInit == MeasurementInit => MeasurementTypeOK
<1> SUFFICES ASSUME MeasurementInit PROVE MeasurementTypeOK
  OBVIOUS
<1>1. << >> \in Seq(Line) /\ << >> \in Hash
  BY DEF Hash
<1> QED
  BY <1>1, BrokenIsALine
     DEF MeasurementInit, FileInit, MeasurementTypeOK, Stages, At, Genesis

LEMMA MeasurementTypeNext ==
  ASSUME MeasurementTypeOK, [MeasurementNext]_measurementVars
  PROVE  MeasurementTypeOK'
<1> USE DEF MeasurementTypeOK, Stages, At
<1>1. FileType /\ Len(lines) \in Nat
  BY LenProperties DEF FileType
<1>2. ASSUME NEW p \in Procs, TakeLock(p) PROVE MeasurementTypeOK'
  BY <1>2, ProcsAssumption DEF TakeLock, GoTo, Locked, file
<1>3. ASSUME NEW p \in Procs, LockRaises(p) PROVE MeasurementTypeOK'
  BY <1>3 DEF LockRaises, GoTo, file
<1>4. ASSUME NEW p \in Procs, Verify(p) PROVE MeasurementTypeOK'
  <2>1. CASE ~Accepted(p)
    BY <1>4, <2>1 DEF Verify, GoTo, file
  <2>2. CASE Accepted(p)
    <3>1. PICK b \in Payloads :
            record' = [record EXCEPT ![p] = Record(Len(lines) + 1, HeadOf(lines, Len(lines)), b)]
      BY <1>4, <2>2 DEF Verify
    <3>2. Record(Len(lines) + 1, HeadOf(lines, Len(lines)), b) \in Line
      BY <1>1, HeadOfType, RecordIsALine
    <3> QED
      BY <1>4, <2>2, <3>1, <3>2 DEF Verify, file
  <2> QED
    BY <2>1, <2>2
<1>5. ASSUME NEW p \in Procs, WriteSnapshot(p) PROVE MeasurementTypeOK'
  <2>1. WithLine(lines, whole, record[p]) \in Seq(Line)
    BY WithLineType
  <2> QED
    BY <1>5, <2>1 DEF WriteSnapshot, WriteLine, GoTo
<1>6. ASSUME NEW p \in Procs, WriteSnapshotRaises(p) PROVE MeasurementTypeOK'
  <2>1. lines' \in Seq(Line) /\ whole' \in BOOLEAN
    BY <1>1, <1>6, HalfWriteType DEF WriteSnapshotRaises
  <2> QED
    BY <1>6, <2>1 DEF WriteSnapshotRaises, GoTo
<1>7. ASSUME NEW p \in Procs, SyncSnapshot(p) PROVE MeasurementTypeOK'
  BY <1>1, <1>7 DEF SyncSnapshot, Fsync, GoTo
<1>8. ASSUME NEW p \in Procs, SyncSnapshotRaises(p) PROVE MeasurementTypeOK'
  BY <1>8 DEF SyncSnapshotRaises, GoTo, file
<1>9. ASSUME NEW p \in Procs, Unlock(p) PROVE MeasurementTypeOK'
  <2>1. record[p].hash \in Hash
    BY DEF Line
  <2>2. lockFile = p /\ \A q \in Procs : q # p => stage[q] = "idle"
    BY <1>9 DEF Unlock
  <2> QED
    BY <1>9, <2>1, <2>2, BrokenIsALine DEF Unlock, Gone, file
<1>10. ASSUME NEW p \in Procs, UnlockRaises(p) PROVE MeasurementTypeOK'
  BY <1>10, BrokenIsALine DEF UnlockRaises, Gone, file
<1>11. ASSUME NEW p \in Procs, ProcDies(p) PROVE MeasurementTypeOK'
  BY <1>11, BrokenIsALine DEF ProcDies, Gone, file
<1>12. CASE HostLosesPower
  <2>1. FileType'
    BY <1>1, <1>12, PowerLossType DEF HostLosesPower
  <2> QED
    BY <1>12, <2>1, BrokenIsALine DEF HostLosesPower, FileType
<1>13. CASE OperatorClearsLock
  BY <1>13 DEF OperatorClearsLock, file
<1>14. CASE UNCHANGED measurementVars
  BY <1>14 DEF measurementVars, file
<1> QED
  BY <1>2, <1>3, <1>4, <1>5, <1>6, <1>7, <1>8, <1>9, <1>10, <1>11, <1>12, <1>13, <1>14
     DEF MeasurementNext, ProcStep

THEOREM MeasurementTypes == MeasurementSpec => []MeasurementTypeOK
<1>1. MeasurementInit => MeasurementTypeOK
  BY MeasurementTypeInit
<1>2. MeasurementTypeOK /\ [MeasurementNext]_measurementVars => MeasurementTypeOK'
  BY MeasurementTypeNext
<1> QED
  BY <1>1, <1>2, PTL DEF MeasurementSpec

(* Lines 151-157 and 196, "FAILED_CLOSED": nothing is appended to a file    *)
(* that does not verify, whatever fails, the newline alone included: what   *)
(* was verified is still what the file holds when the record is written.    *)
THEOREM MeasurementsFailClosed == MeasurementSpec => []FailClosed
<1> DEFINE IInv == MeasurementTypeOK /\ FailClosed
<1>1. MeasurementInit => IInv
  BY MeasurementTypeInit DEF MeasurementInit, FailClosed, At
<1>2. ASSUME IInv, [MeasurementNext]_measurementVars PROVE IInv'
  <2>1. MeasurementTypeOK'
    BY <1>2, MeasurementTypeNext
  <2>2. ASSUME NEW p \in Procs, At(p, "write")'
        PROVE  Verdict(lines, 1)' = "valid" /\ (record[p].prev = HeadOf(lines, Len(lines)))'
    <3>1. CASE At(p, "write") /\ UNCHANGED <<lines, record[p]>>
      BY <1>2, <3>1 DEF FailClosed, HeadOf
    <3>2. CASE Verify(p)
      <4>1. /\ Accepted(p) /\ UNCHANGED lines
            /\ \E b \in Payloads :
                 record' = [record EXCEPT ![p] = Record(Len(lines) + 1, HeadOf(lines, Len(lines)), b)]
        BY <1>2, <2>2, <3>2 DEF Verify, GoTo, At, MeasurementTypeOK, file
      <4>2. record'[p].prev = HeadOf(lines, Len(lines))
        BY <1>2, <4>1 DEF Record, MeasurementTypeOK
      <4> QED
        BY <4>1, <4>2 DEF Accepted, HeadOf
    <3>3. ASSUME ~Verify(p) PROVE At(p, "write") /\ UNCHANGED <<lines, record[p]>>
      <4> USE DEF At, MeasurementTypeOK, Stages
      <4>1. ASSUME NEW q \in Procs, ProcStep(q) \/ ProcDies(q)
            PROVE  stage[p] = "write" /\ UNCHANGED <<lines, record[p]>>
        <5>1. CASE q = p
          BY <1>2, <2>2, <3>3, <4>1, <5>1
             DEF ProcStep, ProcDies, TakeLock, LockRaises, WriteSnapshot, WriteSnapshotRaises,
                 SyncSnapshot, SyncSnapshotRaises, Unlock, UnlockRaises, GoTo, Gone
        <5>2. CASE q # p
          <6>1. stage'[p] = stage[p] /\ record'[p] = record[p]
            BY <1>2, <4>1, <5>2
               DEF ProcStep, ProcDies, TakeLock, LockRaises, Verify, WriteSnapshot,
                   WriteSnapshotRaises, SyncSnapshot, SyncSnapshotRaises, Unlock, UnlockRaises,
                   GoTo, Gone
          <6>2. stage[p] = "write" /\ stage[q] = "idle"
            BY <1>2, <2>2, <5>2, <6>1
          <6>3. UNCHANGED lines
            BY <4>1, <6>2
               DEF ProcStep, ProcDies, TakeLock, LockRaises, Verify, WriteSnapshot,
                   WriteSnapshotRaises, SyncSnapshot, SyncSnapshotRaises, Unlock, UnlockRaises,
                   file
          <6> QED
            BY <6>1, <6>2, <6>3
        <5> QED
          BY <5>1, <5>2
      <4>2. CASE HostLosesPower
        BY <2>2, <4>2 DEF HostLosesPower
      <4>3. CASE OperatorClearsLock
        BY <2>2, <4>3 DEF OperatorClearsLock, file
      <4>4. CASE UNCHANGED measurementVars
        BY <2>2, <4>4 DEF measurementVars, file
      <4> QED
        BY <1>2, <4>1, <4>2, <4>3, <4>4 DEF MeasurementNext
    <3> QED
      BY <3>1, <3>2, <3>3
  <2>3. FailClosed'
    BY <2>2 DEF FailClosed
  <2> QED
    BY <2>1, <2>3
<1> QED
  BY <1>1, <1>2, PTL DEF MeasurementSpec

-----------------------------------------------------------------------------
(* MeasurementLedger, when a fault never cuts off the newline alone.        *)

(* A process that has verified the file is about to continue it, and one    *)
(* that has written finds its record at the end until it returns.           *)
MeasurementInv ==
    /\ MeasurementTypeOK /\ FileOK(1)
    /\ \A p \in Procs : At(p, "write") =>
          /\ whole
          /\ \E b \in Payloads :
                record[p] = Record(1 + Len(lines), HeadOf(lines, Len(lines)), b)
    /\ \A p \in Procs : At(p, "sync") \/ At(p, "return") =>
          whole /\ lines # << >> /\ lines[Len(lines)] = record[p]
    /\ \A p \in Procs : At(p, "return") => synced = Len(lines)

(* A step keeps MeasurementInv and does to the log what AppendOnlyLog       *)
(* allows.                                                                  *)
MeasurementKeeps == MeasurementInv' /\ (Log!Next \/ UNCHANGED <<Entries(lines), Len(promised)>>)

(* Nothing but the file's own process can be past the lock. *)
LEMMA OthersAreIdle ==
  ASSUME MeasurementTypeOK, NEW p \in Procs, ~At(p, "idle")
  PROVE  \A q \in Procs : q # p => At(q, "idle")
BY DEF MeasurementTypeOK

LEMMA MeasurementInvInit ==
  MeasurementInit => MeasurementInv /\ Entries(lines) = << >> /\ Len(promised) = 0
<1> SUFFICES ASSUME MeasurementInit
             PROVE  MeasurementInv /\ Entries(lines) = << >> /\ Len(promised) = 0
  OBVIOUS
<1>1. FileOK(1) /\ Entries(lines) = << >>
  BY FileInitOK DEF MeasurementInit
<1>2. Len(promised) = 0
  BY EmptySeq DEF MeasurementInit, FileInit, Genesis
<1> QED
  BY <1>1, <1>2, MeasurementTypeInit DEF MeasurementInit, MeasurementInv, At

LEMMA MeasurementInvNext ==
  ASSUME "bare" \notin Faults, MeasurementInv, [MeasurementNext]_measurementVars
  PROVE  MeasurementKeeps
<1>1. MeasurementTypeOK /\ FileOK(1) /\ MeasurementTypeOK'
  BY MeasurementTypeNext DEF MeasurementInv
<1>2. stage \in [Procs -> Stages] /\ record \in [Procs -> Line]
  BY <1>1 DEF MeasurementTypeOK
<1>3. /\ Len(lines) \in Nat /\ Len(promised) \in Nat /\ lines \in Seq(Line) /\ whole \in BOOLEAN
      /\ Len(promised) <= Len(Entries(lines)) /\ Entries(lines) \in Seq(Payloads)
      /\ (lines = << >> <=> Len(lines) = 0)
  BY <1>1, EntriesAre, LenProperties, EmptySeq DEF FileOK, FileType, Hash
<1>4. ASSUME UNCHANGED <<file, promised>>,
             \A p \in Procs : \/ ~At(p, "write")' /\ ~At(p, "sync")' /\ ~At(p, "return")'
                              \/ UNCHANGED <<stage[p], record[p]>>
      PROVE  MeasurementKeeps
  <2>1. FileOK(1)' /\ UNCHANGED Entries(lines)
    BY <1>1, <1>4, UnchangedKeeps
  <2>2. MeasurementInv'
    BY <1>1, <1>4, <2>1 DEF MeasurementInv, At, file, HeadOf
  <2> QED
    BY <1>4, <2>1, <2>2 DEF MeasurementKeeps
<1>5. ASSUME NEW p \in Procs, TakeLock(p) PROVE MeasurementKeeps
  BY <1>2, <1>4, <1>5 DEF TakeLock, GoTo, At
<1>6. ASSUME NEW p \in Procs, LockRaises(p) PROVE MeasurementKeeps
  BY <1>2, <1>4, <1>6 DEF LockRaises, GoTo, At
<1>7. ASSUME NEW p \in Procs, Verify(p) PROVE MeasurementKeeps
  <2>1. CASE ~Accepted(p)
    BY <1>2, <1>4, <1>7, <2>1 DEF Verify, GoTo, At
  <2>2. CASE Accepted(p)
    <3>1. whole
      <4>1. SUFFICES ASSUME ~whole PROVE FALSE
        OBVIOUS
      <4>2. Len(lines) \in 1 .. Len(lines) /\ lines[Len(lines)] = Broken
        BY <1>1, <1>3, <4>1 DEF FileOK
      <4>3. ~Fits(lines, 1, Len(lines))
        BY <4>2, BrokenIsALine DEF Fits
      <4> QED
        BY <2>2, <4>2, <4>3 DEF Accepted, Verdict, Chained
    <3>2. UNCHANGED <<file, promised>> /\ stage' = [stage EXCEPT ![p] = "write"]
      BY <1>7, <2>2 DEF Verify
    <3>3. PICK b \in Payloads :
            record' = [record EXCEPT ![p] = Record(Len(lines) + 1, HeadOf(lines, Len(lines)), b)]
      BY <1>7, <2>2 DEF Verify
    <3>4. FileOK(1)' /\ UNCHANGED Entries(lines)
      BY <1>1, <3>2, UnchangedKeeps
    <3>5. \A q \in Procs : q # p => stage'[q] = "idle"
      <4>1. ~At(p, "idle")
        BY <1>7 DEF Verify, At
      <4> QED
        BY <1>1, <1>2, <3>2, <4>1, OthersAreIdle DEF At
    <3>6. stage'[p] = "write" /\ record'[p] = Record(1 + Len(lines), HeadOf(lines, Len(lines)), b)
      BY <1>2, <1>3, <3>2, <3>3
    <3>7. MeasurementInv'
      BY <1>1, <3>1, <3>2, <3>4, <3>5, <3>6 DEF MeasurementInv, At, file, HeadOf
    <3> QED
      BY <3>2, <3>4, <3>7 DEF MeasurementKeeps
  <2> QED
    BY <2>1, <2>2
<1>8. ASSUME NEW p \in Procs, WriteSnapshot(p) PROVE MeasurementKeeps
  <2>1. At(p, "write") /\ WriteLine(record[p]) /\ UNCHANGED promised
        /\ stage' = [stage EXCEPT ![p] = "sync"] /\ UNCHANGED record
    BY <1>8 DEF WriteSnapshot, GoTo
  <2>2. PICK b \in Payloads :
          whole /\ record[p] = Record(1 + Len(lines), HeadOf(lines, Len(lines)), b)
    BY <2>1 DEF MeasurementInv
  <2>3. /\ FileOK(1)' /\ Len(lines') = Len(lines) + 1
        /\ lines'[Len(lines')] = record[p] /\ Entries(lines)' = Append(Entries(lines), b)
    BY <1>1, <2>1, <2>2, WriteKeeps
  <2>4. \A q \in Procs : q # p => stage'[q] = "idle"
    BY <1>1, <1>2, <2>1, OthersAreIdle DEF At
  <2>5. stage'[p] = "sync" /\ whole' = TRUE /\ lines' # << >>
    BY <1>2, <1>3, <2>1, <2>3, EmptySeq DEF WriteLine
  <2>6. MeasurementInv'
    BY <1>1, <2>1, <2>3, <2>4, <2>5 DEF MeasurementInv, At
  <2>7. Log!Next
    BY <2>1, <2>3 DEF Log!Next, Log!Add
  <2> QED
    BY <2>6, <2>7 DEF MeasurementKeeps
<1>9. ASSUME NEW p \in Procs, WriteSnapshotRaises(p) PROVE MeasurementKeeps
  <2>1. CASE UNCHANGED <<lines, whole>>
    BY <1>2, <1>4, <1>9, <2>1 DEF WriteSnapshotRaises, GoTo, At, file
  <2>2. CASE HalfWrite(record[p])
    <3>1. FileOK(1)' /\ UNCHANGED Entries(lines)
      BY <1>1, <1>9, <2>2, HalfWriteKeeps DEF WriteSnapshotRaises
    <3>2. stage' = [stage EXCEPT ![p] = "unlock"] /\ UNCHANGED promised
      BY <1>9 DEF WriteSnapshotRaises, GoTo
    <3>3. \A q \in Procs : q # p => stage'[q] = "idle"
      BY <1>1, <1>2, <1>9, <3>2, OthersAreIdle DEF WriteSnapshotRaises, At
    <3>4. MeasurementInv'
      BY <1>1, <1>2, <3>1, <3>2, <3>3 DEF MeasurementInv, At
    <3> QED
      BY <3>1, <3>2, <3>4 DEF MeasurementKeeps
  <2> QED
    BY <1>9, <2>1, <2>2 DEF WriteSnapshotRaises
<1>10. ASSUME NEW p \in Procs, SyncSnapshot(p) PROVE MeasurementKeeps
  <2>1. /\ At(p, "sync") /\ Fsync /\ UNCHANGED <<lines, whole, promised, record>>
        /\ stage' = [stage EXCEPT ![p] = "return"]
    BY <1>10 DEF SyncSnapshot, GoTo
  <2>2. FileOK(1)' /\ UNCHANGED Entries(lines)
    BY <1>1, <2>1, SyncKeeps
  <2>3. \A q \in Procs : q # p => stage'[q] = "idle"
    BY <1>1, <1>2, <2>1, OthersAreIdle DEF At
  <2>4. MeasurementInv'
    BY <1>1, <1>2, <2>1, <2>2, <2>3 DEF MeasurementInv, At, Fsync
  <2> QED
    BY <2>1, <2>2, <2>4 DEF MeasurementKeeps
<1>11. ASSUME NEW p \in Procs, SyncSnapshotRaises(p) PROVE MeasurementKeeps
  BY <1>2, <1>4, <1>11 DEF SyncSnapshotRaises, GoTo, At
<1>12. ASSUME NEW p \in Procs, Unlock(p) PROVE MeasurementKeeps
  <2>1. /\ UNCHANGED file /\ stage' = [stage EXCEPT ![p] = "idle"]
        /\ record' = [record EXCEPT ![p] = Broken]
        /\ promised' = IF At(p, "return") THEN record[p].hash ELSE promised
    BY <1>12 DEF Unlock, Gone
  <2>2. CASE ~At(p, "return")
    BY <1>2, <1>4, <2>1, <2>2 DEF At
  <2>3. CASE At(p, "return")
    <3>1. /\ whole /\ lines # << >> /\ lines[Len(lines)] = record[p] /\ synced = Len(lines)
          /\ promised' = lines[Len(lines)].hash /\ UNCHANGED <<lines, whole, synced>>
      BY <2>1, <2>3 DEF MeasurementInv, file
    <3>2. /\ FileOK(1)' /\ Entries(lines)' = Entries(lines)
          /\ Len(promised') = Len(lines) /\ Len(promised) <= Len(promised')
      BY <1>1, <3>1, PromiseKeeps
    <3>3. \A q \in Procs : stage'[q] = "idle"
      BY <1>1, <1>2, <2>1, <2>3, OthersAreIdle DEF At
    <3>4. MeasurementInv'
      BY <1>1, <3>2, <3>3 DEF MeasurementInv, At
    <3>5. Len(promised') <= Len(Entries(lines))
      BY <1>1, <3>1, <3>2, EntriesAre DEF Records
    <3>6. Log!Next
      <4>1. Len(promised') \in Len(promised) .. Len(Entries(lines))
        BY <1>3, <3>2, <3>5
      <4> QED
        BY <3>2, <4>1 DEF Log!Next, Log!Promise
    <3> QED
      BY <3>4, <3>6 DEF MeasurementKeeps
  <2> QED
    BY <2>2, <2>3
<1>13. ASSUME NEW p \in Procs, UnlockRaises(p) PROVE MeasurementKeeps
  BY <1>2, <1>4, <1>13 DEF UnlockRaises, Gone, At
<1>14. ASSUME NEW p \in Procs, ProcDies(p) PROVE MeasurementKeeps
  BY <1>2, <1>4, <1>14 DEF ProcDies, Gone, At
<1>15. CASE HostLosesPower
  <2>1. /\ FileOK(1)'
        /\ \E m \in Len(promised) .. Len(Entries(lines)) :
              Entries(lines)' = SubSeq(Entries(lines), 1, m)
    BY <1>1, <1>15, PowerKeeps DEF HostLosesPower
  <2>2. \A q \in Procs : stage'[q] = "idle"
    BY <1>15 DEF HostLosesPower
  <2>3. MeasurementInv'
    BY <1>1, <2>1, <2>2 DEF MeasurementInv, At
  <2>4. Log!Next
    BY <1>15, <2>1 DEF HostLosesPower, FilePowerLoss, Log!Next, Log!Lose
  <2> QED
    BY <2>3, <2>4 DEF MeasurementKeeps
<1>16. CASE OperatorClearsLock
  BY <1>4, <1>16 DEF OperatorClearsLock
<1>17. CASE UNCHANGED measurementVars
  BY <1>4, <1>17 DEF measurementVars
<1> QED
  BY <1>5, <1>6, <1>7, <1>8, <1>9, <1>10, <1>11, <1>12, <1>13, <1>14, <1>15, <1>16, <1>17
     DEF MeasurementNext, ProcStep

THEOREM MeasurementsStayChained ==
  ASSUME "bare" \notin Faults
  PROVE  MeasurementSpec => [](MeasurementsAreChained /\ ReturnedStays /\ AppendedIsChained)
<1>1. MeasurementInit => MeasurementInv
  BY MeasurementInvInit
<1>2. MeasurementInv /\ [MeasurementNext]_measurementVars => MeasurementInv'
  BY MeasurementInvNext DEF MeasurementKeeps
<1>3. MeasurementInv => MeasurementsAreChained /\ ReturnedStays /\ AppendedIsChained
  BY FileOKMeans DEF MeasurementInv, MeasurementsAreChained, AppendedIsChained
<1> QED
  BY <1>1, <1>2, <1>3, PTL DEF MeasurementSpec

(* append_snapshot, whatever fails but the newline alone: the payloads in   *)
(* the file are an append-only log, and what was returned stays in it.      *)
THEOREM MeasurementsImplementLog ==
  ASSUME "bare" \notin Faults
  PROVE  MeasurementSpec => ImplementsAppendOnlyLog
<1>1. MeasurementInit => MeasurementInv /\ Log!Init
  BY MeasurementInvInit DEF Log!Init
<1>2. MeasurementInv /\ [MeasurementNext]_measurementVars
        => MeasurementInv' /\ [Log!Next]_<<Entries(lines), Len(promised)>>
  BY MeasurementInvNext DEF MeasurementKeeps
<1> QED
  BY <1>1, <1>2, PTL DEF MeasurementSpec, ImplementsAppendOnlyLog, Log!Spec

-----------------------------------------------------------------------------
(* Ledger: the type invariant, for all faults and any number of objects.    *)

LEMMA WithoutType ==
  ASSUME NEW ls \in Seq(Line), NEW i \in 1 .. Len(ls)
  PROVE  Without(ls, i) \in Seq(Line)
<1>1. Len(ls) \in Nat
  BY LenProperties
<1>2. SubSeq(ls, 1, i - 1) \in Seq(Line)
  BY <1>1, SubSeqProperties
<1>3. SubSeq(ls, i + 1, Len(ls)) \in Seq(Line)
  <2>1. \A k \in i + 1 .. Len(ls) : ls[k] \in Line
    BY <1>1, ElementOfSeq
  <2> QED
    BY <1>1, <2>1, SubSeqProperties
<1> QED
  BY <1>2, <1>3, ConcatProperties DEF Without

(* Changing the lines of a file one by one keeps its length and its type. *)
LEMMA ExceptType ==
  ASSUME NEW ls \in Seq(Line), NEW i \in 1 .. Len(ls), NEW x \in Line
  PROVE  /\ [ls EXCEPT ![i] = x] \in Seq(Line)
         /\ Len([ls EXCEPT ![i] = x]) = Len(ls)
         /\ \A k \in 1 .. Len(ls) : [ls EXCEPT ![i] = x][k] = IF k = i THEN x ELSE ls[k]
BY ExceptSeq

LEMMA EditedCases ==
  ASSUME NEW ls, NEW e \in Edited(ls)
  PROVE  \E i \in 1 .. Len(ls) :
        \/ \E b \in Payloads : e = [ls EXCEPT ![i].body = b]
        \/ \E j \in 1 .. Len(ls) : e = [ls EXCEPT ![i].seq = ls[j].seq, ![i].prev = ls[j].prev]
        \/ \E j \in 1 .. Len(ls) : e = [ls EXCEPT ![i].hash = ls[j].hash]
        \/ \E j \in 1 .. Len(ls) : e = [ls EXCEPT ![i] = ls[j], ![j] = ls[i]]
        \/ \E j \in 1 .. Len(ls) : e = [ls EXCEPT ![i] = ls[j]]
        \/ e \in {Without(ls, i), [ls EXCEPT ![i] = Broken], [ls EXCEPT ![i] = Undecodable]}
<1>1. PICK i \in 1 .. Len(ls) :
        e \in UNION {
          {[ls EXCEPT ![i].body = b] : b \in Payloads},
          {[ls EXCEPT ![i].seq = ls[j].seq, ![i].prev = ls[j].prev] : j \in 1 .. Len(ls)},
          {[ls EXCEPT ![i].hash = ls[j].hash] : j \in 1 .. Len(ls)},
          {[ls EXCEPT ![i] = ls[j], ![j] = ls[i]] : j \in 1 .. Len(ls)},
          {[ls EXCEPT ![i] = ls[j]] : j \in 1 .. Len(ls)},
          {Without(ls, i), [ls EXCEPT ![i] = Broken], [ls EXCEPT ![i] = Undecodable]}}
  BY Zenon DEF Edited
<1>2. \/ e \in {[ls EXCEPT ![i].body = b] : b \in Payloads}
      \/ e \in {[ls EXCEPT ![i].seq = ls[j].seq, ![i].prev = ls[j].prev] : j \in 1 .. Len(ls)}
      \/ e \in {[ls EXCEPT ![i].hash = ls[j].hash] : j \in 1 .. Len(ls)}
      \/ e \in {[ls EXCEPT ![i] = ls[j], ![j] = ls[i]] : j \in 1 .. Len(ls)}
      \/ e \in {[ls EXCEPT ![i] = ls[j]] : j \in 1 .. Len(ls)}
      \/ e \in {Without(ls, i), [ls EXCEPT ![i] = Broken], [ls EXCEPT ![i] = Undecodable]}
  BY <1>1, Zenon
<1> QED
  BY <1>2, Zenon

LEMMA EditedType ==
  ASSUME NEW ls \in Seq(Line), NEW e \in Edited(ls)
  PROVE  e \in Seq(Line)
<1>1. PICK i \in 1 .. Len(ls) :
        \/ \E b \in Payloads : e = [ls EXCEPT ![i].body = b]
        \/ \E j \in 1 .. Len(ls) : e = [ls EXCEPT ![i].seq = ls[j].seq, ![i].prev = ls[j].prev]
        \/ \E j \in 1 .. Len(ls) : e = [ls EXCEPT ![i].hash = ls[j].hash]
        \/ \E j \in 1 .. Len(ls) : e = [ls EXCEPT ![i] = ls[j], ![j] = ls[i]]
        \/ \E j \in 1 .. Len(ls) : e = [ls EXCEPT ![i] = ls[j]]
        \/ e \in {Without(ls, i), [ls EXCEPT ![i] = Broken], [ls EXCEPT ![i] = Undecodable]}
  BY EditedCases, Zenon
<1>2. \A k \in 1 .. Len(ls) :
        /\ ls[k] \in Line
        /\ ls[k].seq \in Int /\ ls[k].prev \in Hash /\ ls[k].hash \in Hash
  BY LineTypes
<1>3. Broken \in Line /\ Undecodable \in Line
  BY BrokenIsALine DEF Undecodable, Line
<1>4. ASSUME NEW b \in Payloads, e = [ls EXCEPT ![i].body = b] PROVE e \in Seq(Line)
  <2>1. [ls[i] EXCEPT !.body = b] \in Line
    BY <1>2 DEF Line
  <2>2. e = [ls EXCEPT ![i] = [ls[i] EXCEPT !.body = b]]
    BY <1>4
  <2> QED
    BY <2>1, <2>2, ExceptType
<1>5. ASSUME NEW j \in 1 .. Len(ls), e = [ls EXCEPT ![i].seq = ls[j].seq, ![i].prev = ls[j].prev]
      PROVE  e \in Seq(Line)
  <2> DEFINE x == [ls[i] EXCEPT !.seq = ls[j].seq]
             ms == [ls EXCEPT ![i] = x]
             y == [x EXCEPT !.prev = ls[j].prev]
  <2>1. x \in Line /\ y \in Line
    BY <1>2 DEF Line
  <2>2. ms \in Seq(Line) /\ Len(ms) = Len(ls) /\ ms[i] = x
    BY <2>1, ExceptType
  <2>3. e = [ms EXCEPT ![i].prev = ls[j].prev]
    BY <1>5
  <2>4. e = [ms EXCEPT ![i] = y]
    BY <2>2, <2>3
  <2> HIDE DEF x, ms, y
  <2> QED
    BY <2>1, <2>2, <2>4, ExceptType
<1>6. ASSUME NEW j \in 1 .. Len(ls), e = [ls EXCEPT ![i].hash = ls[j].hash] PROVE e \in Seq(Line)
  <2>1. [ls[i] EXCEPT !.hash = ls[j].hash] \in Line
    BY <1>2 DEF Line
  <2>2. e = [ls EXCEPT ![i] = [ls[i] EXCEPT !.hash = ls[j].hash]]
    BY <1>6
  <2> QED
    BY <2>1, <2>2, ExceptType
<1>7. ASSUME NEW j \in 1 .. Len(ls), e = [ls EXCEPT ![i] = ls[j], ![j] = ls[i]]
      PROVE  e \in Seq(Line)
  <2> DEFINE ms == [ls EXCEPT ![i] = ls[j]]
  <2>1. ms \in Seq(Line) /\ Len(ms) = Len(ls)
    BY <1>2, ExceptType
  <2>2. e = [ms EXCEPT ![j] = ls[i]]
    BY <1>7
  <2> HIDE DEF ms
  <2> QED
    BY <1>2, <2>1, <2>2, ExceptType
<1>8. ASSUME NEW x \in Line, e = [ls EXCEPT ![i] = x] PROVE e \in Seq(Line)
  BY <1>8, ExceptType
<1>9. ASSUME e = Without(ls, i) PROVE e \in Seq(Line)
  BY <1>9, WithoutType
<1> QED
  BY <1>1, <1>2, <1>3, <1>4, <1>5, <1>6, <1>7, <1>8, <1>9, Zenon

LEMMA TypeInit == Init => TypeOK
<1>1. << >> \in Seq(Line) /\ << >> \in Hash
  BY DEF Hash
<1> QED
  BY <1>1, BrokenIsALine, ThreadsAssumption DEF Init, FileInit, TypeOK, Idle, Genesis

(* The steps of Ledger, as StewardshipGate uses them too. *)
LedgerStep ==
    \/ \E p \in Objects : OpenVerify(p) \/ OpenReadHead(p) \/ Crash(p)
    \/ \E t \in Threads : Inside(t) \/ \E b \in Payloads : EnterWith(t, b)
    \/ PowerLoss \/ Edit \/ UNCHANGED vars

LEMMA NextIsLedgerStep == [Next]_vars => LedgerStep
BY DEF Next, ThreadStep, Enter, LedgerStep

LEMMA TypeNext ==
  ASSUME TypeOK, LedgerStep
  PROVE  TypeOK'
<1> USE DEF TypeOK
<1>1. FileType /\ Len(lines) \in Nat
  BY LenProperties DEF FileType
<1>2. \A t \in Threads : Home[t] \in Objects
  BY ThreadsAssumption
<1>3. ASSUME NEW p \in Objects, OpenVerify(p) PROVE TypeOK'
  BY <1>1, <1>3 DEF OpenVerify, file
<1>4. ASSUME NEW p \in Objects, OpenReadHead(p) PROVE TypeOK'
  <2>1. ReadHead(p) \in Hash
    BY <1>1, HeadOfType DEF ReadHead
  <2>2. CASE UNCHANGED head
    BY <1>4, <2>2 DEF OpenReadHead, file
  <2>3. CASE head' = [head EXCEPT ![p] = ReadHead(p)]
    BY <1>4, <2>1, <2>3 DEF OpenReadHead, file
  <2> QED
    BY <1>4, <2>2, <2>3 DEF OpenReadHead
<1>5. ASSUME NEW p \in Objects, Crash(p) PROVE TypeOK'
  <2>1. Genesis \in Hash
    BY DEF Genesis, Hash
  <2> QED
    BY <1>2, <1>5, <2>1, BrokenIsALine DEF Crash, file, Idle
<1>6. ASSUME NEW t \in Threads, NEW b \in Payloads, EnterWith(t, b) PROVE TypeOK'
  <2>1. Record(seq[Home[t]], head[Home[t]], b) \in Line
    BY <1>2, RecordIsALine
  <2>2. \A u \in Threads : Home[u] = Home[t] => call[u].pc = "idle"
    BY <1>6, ThreadsAssumption DEF EnterWith, Free
  <2> QED
    BY <1>2, <1>6, <2>1, <2>2 DEF EnterWith, file, cache
<1>7. ASSUME NEW t \in Threads, Write(t) PROVE TypeOK'
  <2>1. WithLine(lines, whole, call[t].rec) \in Seq(Line)
    BY WithLineType
  <2>2. /\ call' \in [Threads -> [pc : {"idle", "write", "sync"}, rec : Line]]
        /\ \A u \in Threads : call'[u].pc # "idle" => call[u].pc # "idle"
    BY <1>7 DEF Write
  <2> QED
    BY <1>7, <2>1, <2>2 DEF Write, WriteLine, cache
<1>8. ASSUME NEW t \in Threads, WriteRaises(t) PROVE TypeOK'
  <2>1. lines' \in Seq(Line) /\ whole' \in BOOLEAN
    BY <1>1, <1>8, HalfWriteType DEF WriteRaises
  <2>2. \A u \in Threads : u # t /\ Home[u] = Home[t] => call[u].pc = "idle"
    BY <1>8 DEF WriteRaises
  <2> QED
    BY <1>2, <1>8, <2>1, <2>2, BrokenIsALine DEF WriteRaises, Leave, Idle, cache
<1>9. ASSUME NEW t \in Threads, Sync(t) PROVE TypeOK'
  <2>1. call[t].rec.hash \in Hash
    BY DEF Line
  <2>2. \A u \in Threads : u # t /\ Home[u] = Home[t] => call[u].pc = "idle"
    BY <1>9 DEF Sync
  <2> QED
    BY <1>1, <1>2, <1>9, <2>1, <2>2, BrokenIsALine DEF Sync, Fsync, Leave, Idle
<1>10. ASSUME NEW t \in Threads, SyncRaises(t) PROVE TypeOK'
  <2>1. \A u \in Threads : u # t /\ Home[u] = Home[t] => call[u].pc = "idle"
    BY <1>10 DEF SyncRaises
  <2> QED
    BY <1>2, <1>10, <2>1, BrokenIsALine DEF SyncRaises, Leave, Idle, cache, file
<1>11. CASE PowerLoss
  <2>1. Writing \in SUBSET Line
    BY DEF Writing
  <2>2. FileType'
    BY <1>1, <1>11, <2>1, PowerLossType DEF PowerLoss
  <2>3. Genesis \in Hash
    BY DEF Genesis, Hash
  <2> QED
    BY <1>11, <2>2, <2>3, BrokenIsALine DEF PowerLoss, FileType, Idle
<1>12. CASE Edit
  BY <1>12, EditedType DEF Edit, cache
<1>13. CASE UNCHANGED vars
  BY <1>13 DEF vars, file, cache
<1> QED
  BY <1>3, <1>4, <1>5, <1>6, <1>7, <1>8, <1>9, <1>10, <1>11, <1>12, <1>13 DEF LedgerStep, Inside

THEOREM LedgerTypes == Spec => []TypeOK
<1>1. TypeOK /\ [Next]_vars => TypeOK'
  BY TypeNext, NextIsLedgerStep
<1> QED
  BY <1>1, TypeInit, PTL DEF Spec

-----------------------------------------------------------------------------
(* Ledger: what verification is worth, whatever happened to the file.       *)

LEMMA ValidIsVerified ==
  ASSUME NEW ls \in Seq(Line), NEW first, Verdict(ls, first) = "valid"
  PROVE  Verified(ls, first, Len(ls))
BY DEF Verdict, Chained, Verified

(* Lines 6-7: with two objects that know nothing of each other, all faults  *)
(* and any edits, the head of a file that verifies is its whole history.    *)
THEOREM HeadsCommit == Spec => []HeadCommitsToHistory
<1>1. TypeOK => HeadCommitsToHistory
  <2> SUFFICES ASSUME TypeOK, Verdict(lines, 0) = "valid"
               PROVE  \A i \in 1 .. Len(lines) : lines[i].hash = HistoryOf(lines, i)
    BY DEF HeadCommitsToHistory, HistoryOf
  <2>1. lines \in Seq(Line) /\ Len(lines) \in 0 .. Len(lines)
    BY LenProperties DEF TypeOK
  <2>2. Verified(lines, 0, Len(lines))
    BY <2>1, ValidIsVerified
  <2> QED
    BY <2>1, <2>2, HashIsHistory
<1> QED
  BY <1>1, LedgerTypes, PTL

(* A line that fits at its place fits nowhere else. *)
LEMMA PlaceIsNumber ==
  ASSUME NEW ls \in Seq(Line), NEW i \in 1 .. Len(ls), Fits(ls, 0, i)
  PROVE  ls[i].seq = i - 1
<1>1. ls[i].seq = 0 + i - 1 /\ i \in Int
  BY DEF Fits
<1> QED
  BY <1>1

LEMMA SameLineSameFile ==
  ASSUME NEW ls \in Seq(Line), NEW i \in 1 .. Len(ls)
  PROVE  [ls EXCEPT ![i] = ls[i]] = ls
<1>1. ls = [k \in 1 .. Len(ls) |-> ls[k]]
  BY LenProperties
<1> QED
  BY <1>1

(* "Tamper-EVIDENT" (line 5), whatever happened to the file before.         *)
LEMMA EditsShow ==
  ASSUME NEW ls \in Seq(Line), NEW e \in Edited(ls),
         Verified(ls, 0, Len(ls)), Verified(e, 0, Len(e))
  PROVE  e \in {ls, SubSeq(ls, 1, Len(ls) - 1)}
<1>1. PICK i \in 1 .. Len(ls) :
        \/ \E b \in Payloads : e = [ls EXCEPT ![i].body = b]
        \/ \E j \in 1 .. Len(ls) : e = [ls EXCEPT ![i].seq = ls[j].seq, ![i].prev = ls[j].prev]
        \/ \E j \in 1 .. Len(ls) : e = [ls EXCEPT ![i].hash = ls[j].hash]
        \/ \E j \in 1 .. Len(ls) : e = [ls EXCEPT ![i] = ls[j], ![j] = ls[i]]
        \/ \E j \in 1 .. Len(ls) : e = [ls EXCEPT ![i] = ls[j]]
        \/ e \in {Without(ls, i), [ls EXCEPT ![i] = Broken], [ls EXCEPT ![i] = Undecodable]}
  BY EditedCases, Zenon
<1>2. e \in Seq(Line) /\ Len(ls) \in Nat /\ Len(e) \in Nat
  BY EditedType, LenProperties
<1>3. \A k \in 1 .. Len(ls) :
        /\ Fits(ls, 0, k) /\ ls[k] \in Line /\ ls[k].seq = k - 1
        /\ ls[k].seq \in Nat /\ ls[k].body \in Payloads /\ ls[k].prev \in Hash
        /\ ls[k].hash = Append(ls[k].prev, <<ls[k].seq, ls[k].body>>)
  BY LineTypes, FittingTypes, PlaceIsNumber DEF Verified, Fits, Digest
<1>4. ASSUME i \in 1 .. Len(e)
      PROVE  /\ e[i].body # Garbage /\ e[i].seq = i - 1
             /\ e[i].hash = Append(e[i].prev, <<e[i].seq, e[i].body>>)
  BY <1>2, <1>4, PlaceIsNumber DEF Verified, Fits, Digest
<1>5. ASSUME NEW x \in Line, e = [ls EXCEPT ![i] = x]
      PROVE  /\ x.body # Garbage /\ x.seq = i - 1
             /\ x.hash = Append(x.prev, <<x.seq, x.body>>)
             /\ x = ls[i] => e = ls
  <2>1. e[i] = x /\ Len(e) = Len(ls)
    BY <1>5, ExceptType
  <2>2. x = ls[i] => e = ls
    BY <1>5, SameLineSameFile
  <2> QED
    BY <1>4, <2>1, <2>2
<1>6. ASSUME NEW b \in Payloads, e = [ls EXCEPT ![i].body = b] PROVE e = ls
  <2> DEFINE x == [ls[i] EXCEPT !.body = b]
  <2>1. /\ x \in Line /\ x.body = b /\ x.seq = ls[i].seq
        /\ x.prev = ls[i].prev /\ x.hash = ls[i].hash
    BY <1>3 DEF Line
  <2>2. e = [ls EXCEPT ![i] = x]
    BY <1>6
  <2>3. Append(ls[i].prev, <<ls[i].seq, b>>) = Append(ls[i].prev, <<ls[i].seq, ls[i].body>>)
    <3> HIDE DEF x
    <3> QED
      BY <1>3, <1>5, <2>1, <2>2
  <2>4. <<ls[i].seq, b>> = <<ls[i].seq, ls[i].body>>
    <3>1. /\ <<ls[i].seq, b>> \in Nat \X Payloads /\ <<ls[i].seq, ls[i].body>> \in Nat \X Payloads
          /\ ls[i].prev \in Seq(Nat \X Payloads)
      BY <1>3 DEF Hash
    <3> QED
      BY <2>3, <3>1, AppendInjective
  <2>5. x = ls[i]
    BY <1>3, <2>4 DEF Line
  <2> HIDE DEF x
  <2> QED
    BY <1>5, <2>1, <2>2, <2>5
<1>7. ASSUME NEW j \in 1 .. Len(ls), e = [ls EXCEPT ![i].seq = ls[j].seq, ![i].prev = ls[j].prev]
      PROVE  e = ls
  <2> DEFINE x == [[ls[i] EXCEPT !.seq = ls[j].seq] EXCEPT !.prev = ls[j].prev]
  <2>1. x \in Line /\ x.seq = ls[j].seq
    BY <1>3 DEF Line
  <2>2. e = [ls EXCEPT ![i] = x]
    <3> DEFINE ms == [ls EXCEPT ![i].seq = ls[j].seq]
    <3>1. ms[i] = [ls[i] EXCEPT !.seq = ls[j].seq]
      OBVIOUS
    <3>2. e = [ms EXCEPT ![i].prev = ls[j].prev]
      BY <1>7
    <3> QED
      BY <3>1, <3>2
  <2>3. i = j
    <3>1. ls[j].seq = i - 1
      <4> HIDE DEF x
      <4> QED
        BY <1>5, <2>1, <2>2
    <3> QED
      BY <1>3, <3>1
  <2>4. x = ls[i]
    BY <1>3, <2>3 DEF Line
  <2> HIDE DEF x
  <2> QED
    BY <1>5, <2>1, <2>2, <2>4
<1>8. ASSUME NEW j \in 1 .. Len(ls), e = [ls EXCEPT ![i].hash = ls[j].hash] PROVE e = ls
  <2> DEFINE x == [ls[i] EXCEPT !.hash = ls[j].hash]
  <2>1. /\ x \in Line /\ x.hash = ls[j].hash /\ x.seq = ls[i].seq
        /\ x.prev = ls[i].prev /\ x.body = ls[i].body
    BY <1>3, LineTypes DEF Line
  <2>2. e = [ls EXCEPT ![i] = x]
    BY <1>8
  <2>3. ls[j].hash = ls[i].hash
    <3> HIDE DEF x
    <3> QED
      BY <1>3, <1>5, <2>1, <2>2
  <2>4. x = ls[i]
    BY <1>3, <2>3 DEF Line
  <2> HIDE DEF x
  <2> QED
    BY <1>5, <2>1, <2>2, <2>4
<1>9. ASSUME NEW j \in 1 .. Len(ls),
             e = [ls EXCEPT ![i] = ls[j], ![j] = ls[i]] \/ e = [ls EXCEPT ![i] = ls[j]]
      PROVE  e = ls
  <2> DEFINE ms == [ls EXCEPT ![i] = ls[j]]
  <2>1. ms \in Seq(Line) /\ Len(ms) = Len(ls) /\ ms[i] = ls[j]
    BY <1>3, ExceptType
  <2>2. e = [ms EXCEPT ![j] = ls[i]] \/ e = ms
    BY <1>9
  <2>3. e[i] = ls[j] /\ Len(e) = Len(ls)
    <3> HIDE DEF ms
    <3>1. i = j \/ i # j
      OBVIOUS
    <3> QED
      BY <1>3, <2>1, <2>2, <3>1, ExceptType
  <2>4. ls[j].seq = i - 1
    BY <1>4, <2>3
  <2>5. i = j
    BY <1>3, <2>4
  <2>6. ms = ls
    BY <2>5, SameLineSameFile
  <2> QED
    BY <2>2, <2>5, <2>6, SameLineSameFile
<1>10. ASSUME e = Without(ls, i) PROVE e = SubSeq(ls, 1, Len(ls) - 1)
  <2> DEFINE front == SubSeq(ls, 1, i - 1)
             back == SubSeq(ls, i + 1, Len(ls))
  <2>1. front \in Seq(Line) /\ Len(front) = i - 1
    BY <1>2, SubSeqProperties
  <2>2. /\ back \in Seq(Line) /\ Len(back) = Len(ls) - i
        /\ i < Len(ls) => back[1] = ls[i + 1]
    <3>1. \A k \in i + 1 .. Len(ls) : ls[k] \in Line
      BY <1>2, <1>3
    <3> QED
      BY <1>2, <3>1, SubSeqProperties
  <2>3. /\ Len(e) = Len(front) + Len(back)
        /\ \A k \in 1 .. Len(front) + Len(back) :
              e[k] = IF k <= Len(front) THEN front[k] ELSE back[k - Len(front)]
    <3> HIDE DEF front, back
    <3> QED
      BY <1>10, <2>1, <2>2, ConcatProperties DEF Without, front, back
  <2>4. CASE i < Len(ls)
    <3>1. i \in 1 .. Len(e) /\ e[i] = ls[i + 1]
      <4> HIDE DEF front, back
      <4> QED
        BY <1>2, <2>1, <2>2, <2>3, <2>4
    <3>2. ls[i + 1].seq = i
      BY <1>2, <1>3, <2>4
    <3> QED
      BY <1>4, <3>1, <3>2
  <2>5. CASE i = Len(ls)
    <3>1. back = << >>
      <4> HIDE DEF back
      <4> QED
        BY <1>2, <2>2, <2>5, EmptySeq
    <3>2. e = front
      <4> HIDE DEF front, back
      <4> QED
        BY <1>10, <2>1, <3>1, ConcatEmptySeq DEF Without, front, back
    <3> QED
      BY <2>5, <3>2
  <2> QED
    BY <1>2, <2>4, <2>5
<1>11. ASSUME NEW x \in {Broken, Undecodable}, e = [ls EXCEPT ![i] = x] PROVE FALSE
  <2>1. x \in Line /\ x.body = Garbage
    BY BrokenIsALine DEF Undecodable, Line, Broken
  <2> QED
    BY <1>5, <1>11, <2>1
<1> QED
  BY <1>1, <1>6, <1>7, <1>8, <1>9, <1>10, <1>11, Zenon

THEOREM TamperingShows == Spec => []TamperIsEvident
<1>1. TypeOK => TamperIsEvident
  <2> SUFFICES ASSUME TypeOK, Verdict(lines, 0) = "valid",
                      NEW e \in Edited(lines), Verdict(e, 0) = "valid"
               PROVE  e \in {lines, SubSeq(lines, 1, Len(lines) - 1)}
    BY DEF TamperIsEvident
  <2>1. lines \in Seq(Line) /\ e \in Seq(Line)
    BY EditedType DEF TypeOK
  <2>2. Verified(lines, 0, Len(lines)) /\ Verified(e, 0, Len(e))
    BY <2>1, ValidIsVerified
  <2> QED
    BY <2>1, <2>2, EditsShow
<1> QED
  BY <1>1, LedgerTypes, PTL

-----------------------------------------------------------------------------
(* Ledger with one object and any number of threads, crashes and power      *)
(* failures.                                                                *)

(* The cache of an open object is that of the file, or a thread that holds  *)
(* the lock is on its way: its record continues the file, or is its end.    *)
LedgerInv ==
    /\ TypeOK /\ FileOK(0) /\ CacheIsTrue
    /\ \A p \in Objects : state[p] # "closed" => whole
    /\ \A p \in Objects : state[p] = "verified" => seq[p] = Len(lines)
    /\ \A t \in Threads : call[t].pc # "idle" => state[Home[t]] = "open"
    /\ \A t \in Threads : call[t].pc = "write" =>
          /\ seq[Home[t]] = Len(lines)
          /\ \E b \in Payloads : call[t].rec = Record(0 + Len(lines), HeadOf(lines, Len(lines)), b)
    /\ \A t \in Threads : call[t].pc = "sync" =>
          /\ lines # << >> /\ lines[Len(lines)] = call[t].rec
          /\ seq[Home[t]] = Len(lines) - 1

OneObject == \A p, q \in Objects : p = q
StopsOnly == Faults \subseteq {"crash", "power"}

LedgerKeeps == LedgerInv' /\ (Log!Next \/ UNCHANGED <<Entries(lines), Len(promised)>>)

LEMMA LedgerInvInit == Init => LedgerInv /\ Entries(lines) = << >> /\ Len(promised) = 0
<1> SUFFICES ASSUME Init
             PROVE  LedgerInv /\ Entries(lines) = << >> /\ Len(promised) = 0
  OBVIOUS
<1>1. FileOK(0) /\ Entries(lines) = << >>
  BY FileInitOK DEF Init
<1>2. Len(promised) = 0
  BY EmptySeq DEF Init, FileInit, Genesis
<1> QED
  BY <1>1, <1>2, TypeInit, ThreadsAssumption DEF Init, Idle, LedgerInv, CacheIsTrue

(* Of the threads of one object only the one with the lock is inside append. *)
LEMMA OthersAreOutside ==
  ASSUME OneObject, TypeOK, NEW t \in Threads, call[t].pc # "idle"
  PROVE  /\ \A u \in Threads : u # t => call[u].pc = "idle"
         /\ \A p \in Objects : p = Home[t] /\ ~Free(p)
<1>1. \A u \in Threads : Home[u] = Home[t] /\ Home[t] \in Objects
  BY ThreadsAssumption DEF OneObject
<1>2. \A p \in Objects : p = Home[t]
  BY <1>1 DEF OneObject
<1> QED
  BY <1>1, <1>2, ThreadsAssumption DEF TypeOK, Free

(* The append itself: its payload comes to the end of the log. *)
LEMMA WriteAdds ==
  ASSUME LedgerInv, NEW t \in Threads, Write(t)
  PROVE  /\ FileOK(0)' /\ whole' = TRUE
         /\ Len(lines') = Len(lines) + 1 /\ lines' # << >>
         /\ \A i \in 1 .. Len(lines) : lines'[i] = lines[i]
         /\ lines'[Len(lines')] = call[t].rec
         /\ call[t].rec.body \in Payloads
         /\ Entries(lines)' = Append(Entries(lines), call[t].rec.body)
<1>1. call[t].pc = "write" /\ WriteLine(call[t].rec) /\ UNCHANGED promised
  BY DEF Write
<1>2. PICK b \in Payloads : call[t].rec = Record(0 + Len(lines), HeadOf(lines, Len(lines)), b)
  BY <1>1 DEF LedgerInv
<1>3. whole /\ FileOK(0) /\ call[t].rec.body = b
  BY <1>1, <1>2, ThreadsAssumption DEF LedgerInv, Record
<1>4. /\ FileOK(0)' /\ Len(lines') = Len(lines) + 1
      /\ \A i \in 1 .. Len(lines) : lines'[i] = lines[i]
      /\ lines'[Len(lines')] = call[t].rec
      /\ Entries(lines)' = Append(Entries(lines), b)
  BY <1>1, <1>2, <1>3, WriteKeeps
<1>5. lines' # << >>
  <2>1. Len(lines) \in Nat /\ lines' \in Seq(Line)
    BY <1>3, <1>4, LenProperties DEF FileOK, FileType
  <2> QED
    BY <1>4, <2>1, EmptySeq
<1> QED
  BY <1>1, <1>3, <1>4, <1>5 DEF WriteLine

LEMMA LedgerInvNext ==
  ASSUME OneObject, StopsOnly, LedgerInv, LedgerStep
  PROVE  LedgerKeeps
<1>1. TypeOK /\ FileOK(0) /\ CacheIsTrue /\ TypeOK'
  BY TypeNext DEF LedgerInv
<1>2. /\ "bare" \notin Faults /\ "error" \notin Faults /\ "edit" \notin Faults
      /\ \A t \in Threads : Home[t] \in Objects
  BY ThreadsAssumption DEF StopsOnly
<1>3. /\ state \in [Objects -> {"closed", "verified", "open"}]
      /\ seq \in [Objects -> Nat] /\ head \in [Objects -> Hash]
      /\ lock \in [Objects -> Threads \cup {NoThread}]
      /\ call \in [Threads -> [pc : {"idle", "write", "sync"}, rec : Line]]
  BY <1>1 DEF TypeOK
<1>4. /\ Len(lines) \in Nat /\ Len(promised) \in Nat /\ whole \in BOOLEAN
      /\ (lines = << >> <=> Len(lines) = 0)
  BY <1>1, LenProperties, EmptySeq DEF FileOK, FileType, Hash
<1>5. ASSUME UNCHANGED <<file, promised>>
      PROVE  FileOK(0)' /\ UNCHANGED <<Entries(lines), Len(promised)>>
  BY <1>1, <1>5, UnchangedKeeps
<1>6. ASSUME NEW p \in Objects, OpenVerify(p) PROVE LedgerKeeps
  <2>1. /\ UNCHANGED <<file, head, lock, call, promised>> /\ state[p] = "closed"
        /\ seq' = [seq EXCEPT ![p] = Len(lines)]
        /\ state' = [state EXCEPT ![p] = "verified"]
    BY <1>6 DEF OpenVerify
  <2>2. whole
    <3>1. SUFFICES ASSUME ~whole PROVE FALSE
      OBVIOUS
    <3>2. Len(lines) \in 1 .. Len(lines) /\ lines[Len(lines)] = Broken
      BY <1>1, <1>4, <3>1 DEF FileOK
    <3>3. ~Fits(lines, 0, Len(lines))
      BY <3>2, BrokenIsALine DEF Fits
    <3> QED
      BY <1>6, <3>2, <3>3 DEF OpenVerify, Verdict, Chained
  <2>3. FileOK(0)' /\ UNCHANGED <<Entries(lines), Len(promised)>>
    BY <1>5, <2>1
  <2>4. \A t \in Threads : call[t].pc = "idle"
    BY <1>2, <2>1 DEF LedgerInv, OneObject
  <2>5. \A q \in Objects : state'[q] = "verified" /\ seq'[q] = Len(lines)
    BY <1>3, <2>1 DEF OneObject
  <2>6. LedgerInv'
    BY <1>1, <2>1, <2>2, <2>3, <2>4, <2>5 DEF LedgerInv, CacheIsTrue, file
  <2> QED
    BY <2>3, <2>6 DEF LedgerKeeps
<1>7. ASSUME NEW p \in Objects, OpenReadHead(p) PROVE LedgerKeeps
  <2>1. UNCHANGED <<file, seq, lock, call, promised>> /\ state[p] = "verified"
    BY <1>7 DEF OpenReadHead
  <2>2. whole /\ seq[p] = Len(lines)
    BY <2>1 DEF LedgerInv
  <2>3. FileOK(0)' /\ UNCHANGED <<Entries(lines), Len(promised)>>
    BY <1>5, <2>1
  <2>4. \A t \in Threads : call[t].pc = "idle"
    BY <1>2, <2>1 DEF LedgerInv, OneObject
  <2>5. Parses(lines) /\ ~Appending
    BY <1>1, <2>2, <2>4, FileOKMeans DEF Chained, Fits, Parses, Appending
  <2>6. /\ state' = [state EXCEPT ![p] = "open"]
        /\ head' = [head EXCEPT ![p] = HeadOf(lines, Len(lines))]
    BY <1>7, <2>5 DEF OpenReadHead, ReadHead
  <2>7. \A q \in Objects : state'[q] = "open" /\ seq'[q] = Len(lines)
                           /\ head'[q] = HeadOf(lines, Len(lines))
    BY <1>3, <2>1, <2>2, <2>6 DEF OneObject
  <2>8. LedgerInv'
    BY <1>1, <2>1, <2>2, <2>3, <2>4, <2>7 DEF LedgerInv, CacheIsTrue, file, HeadOf
  <2> QED
    BY <2>3, <2>8 DEF LedgerKeeps
<1>8. ASSUME NEW p \in Objects, Crash(p) PROVE LedgerKeeps
  <2>1. UNCHANGED <<file, promised>> /\ state' = [state EXCEPT ![p] = "closed"]
        /\ call' = [t \in Threads |-> IF Home[t] = p THEN Idle ELSE call[t]]
    BY <1>8 DEF Crash
  <2>2. FileOK(0)' /\ UNCHANGED <<Entries(lines), Len(promised)>>
    BY <1>5, <2>1
  <2>3. (\A q \in Objects : state'[q] = "closed") /\ \A t \in Threads : call'[t].pc = "idle"
    BY <1>2, <1>3, <2>1 DEF OneObject, Idle
  <2>4. LedgerInv'
    BY <1>1, <2>2, <2>3 DEF LedgerInv, CacheIsTrue
  <2> QED
    BY <2>2, <2>4 DEF LedgerKeeps
<1>9. ASSUME NEW t \in Threads, NEW b \in Payloads, EnterWith(t, b) PROVE LedgerKeeps
  <2> DEFINE p == Home[t]
  <2>1. /\ p \in Objects /\ state[p] = "open" /\ Free(p)
        /\ lock' = [lock EXCEPT ![p] = t]
        /\ call' = [call EXCEPT ![t] = [pc |-> "write", rec |-> Record(seq[p], head[p], b)]]
        /\ UNCHANGED <<file, cache, promised>>
    BY <1>2, <1>9 DEF EnterWith
  <2>2. seq[p] = 0 + Len(lines) /\ head[p] = HeadOf(lines, Len(lines))
    BY <1>1, <1>4, <2>1 DEF CacheIsTrue
  <2>3. FileOK(0)' /\ UNCHANGED <<Entries(lines), Len(promised)>>
    BY <1>5, <2>1
  <2>4. call'[t].pc = "write" /\ lock'[p] = t
        /\ call'[t].rec = Record(0 + Len(lines), HeadOf(lines, Len(lines)), b)
    BY <1>3, <2>1, <2>2
  <2>5. (\A u \in Threads : u # t => call'[u].pc = "idle") /\ \A q \in Objects : q = p /\ ~Free(q)'
    BY <1>1, <2>1, <2>4, ThreadsAssumption DEF TypeOK, OneObject, Free
  <2>6. /\ CacheIsTrue'
        /\ \A q \in Objects : state'[q] # "closed" => whole'
        /\ \A q \in Objects : state'[q] = "verified" => seq'[q] = Len(lines')
        /\ \A u \in Threads : call'[u].pc # "idle" => state'[Home[u]] = "open"
    BY <2>1, <2>5 DEF LedgerInv, CacheIsTrue, cache, file
  <2>7. \A u \in Threads : call'[u].pc = "write" =>
          /\ seq'[Home[u]] = Len(lines')
          /\ \E c \in Payloads :
                call'[u].rec = Record(0 + Len(lines'), HeadOf(lines', Len(lines')), c)
    BY <2>1, <2>2, <2>4, <2>5 DEF cache, file, HeadOf
  <2>8. LedgerInv'
    BY <1>1, <2>3, <2>4, <2>5, <2>6, <2>7 DEF LedgerInv
  <2> QED
    BY <2>3, <2>8 DEF LedgerKeeps
<1>10. ASSUME NEW t \in Threads, Write(t) PROVE LedgerKeeps
  <2>1. /\ call[t].pc = "write" /\ call' = [call EXCEPT ![t].pc = "sync"]
        /\ UNCHANGED <<cache, lock, promised>>
    BY <1>10 DEF Write
  <2>2. /\ FileOK(0)' /\ whole' = TRUE /\ Len(lines') = Len(lines) + 1 /\ lines' # << >>
        /\ lines'[Len(lines')] = call[t].rec /\ call[t].rec.body \in Payloads
        /\ Entries(lines)' = Append(Entries(lines), call[t].rec.body)
    BY <1>10, WriteAdds
  <2>3. /\ \A u \in Threads : u # t => call[u].pc = "idle"
        /\ \A p \in Objects : p = Home[t] /\ ~Free(p)
    BY <1>1, <2>1, OthersAreOutside
  <2>4. /\ state[Home[t]] = "open" /\ seq[Home[t]] = Len(lines)
        /\ call'[t].pc = "sync" /\ call'[t].rec = call[t].rec
        /\ \A u \in Threads : u # t => call'[u] = call[u]
    BY <1>3, <2>1 DEF LedgerInv
  <2>5. CacheIsTrue'
    BY <2>1, <2>3 DEF CacheIsTrue, Free
  <2>6. LedgerInv'
    BY <1>1, <1>4, <2>1, <2>2, <2>3, <2>4, <2>5 DEF LedgerInv, cache
  <2>7. Log!Next
    BY <2>1, <2>2 DEF Log!Next, Log!Add
  <2> QED
    BY <2>6, <2>7 DEF LedgerKeeps
<1>11. ASSUME NEW t \in Threads, Sync(t) PROVE LedgerKeeps
  <2> DEFINE p == Home[t]
  <2>1. /\ call[t].pc = "sync" /\ p \in Objects /\ Fsync /\ promised' = call[t].rec.hash
        /\ seq' = [seq EXCEPT ![p] = @ + 1]
        /\ head' = [head EXCEPT ![p] = call[t].rec.hash]
        /\ call' = [call EXCEPT ![t] = Idle] /\ UNCHANGED <<lines, whole, state>>
    BY <1>2, <1>11 DEF Sync, Leave
  <2>2. /\ whole /\ lines # << >> /\ lines[Len(lines)] = call[t].rec /\ state[p] = "open"
        /\ seq[p] = Len(lines) - 1
    BY <2>1 DEF LedgerInv
  <2>3. /\ FileOK(0)' /\ UNCHANGED Entries(lines)
        /\ Len(promised') = Len(lines) /\ Len(promised) <= Len(promised')
    <3>1. synced' = Len(lines) /\ promised' = lines[Len(lines)].hash
      BY <2>1, <2>2 DEF Fsync
    <3> QED
      BY <1>1, <2>1, <2>2, <3>1, PromiseKeeps
  <2>4. \A u \in Threads : call'[u].pc = "idle"
    BY <1>1, <1>3, <2>1, OthersAreOutside DEF Idle
  <2>5. \A q \in Objects : state'[q] = "open" /\ seq'[q] = Len(lines)
                           /\ head'[q] = HeadOf(lines, Len(lines))
    <3>1. HeadOf(lines, Len(lines)) = call[t].rec.hash
      BY <1>4, <2>2 DEF HeadOf
    <3>2. seq'[p] = Len(lines) /\ head'[p] = call[t].rec.hash /\ state'[p] = "open"
      BY <1>3, <1>4, <2>1, <2>2
    <3> QED
      BY <2>1, <3>1, <3>2 DEF OneObject
  <2>6. LedgerInv'
    BY <1>1, <2>1, <2>2, <2>3, <2>4, <2>5 DEF LedgerInv, CacheIsTrue, HeadOf
  <2>7. Log!Next
    <3>1. Len(promised') \in Len(promised) .. Len(Entries(lines))
      BY <1>1, <1>4, <2>2, <2>3, EntriesAre DEF Records
    <3> QED
      BY <2>3, <3>1 DEF Log!Next, Log!Promise
  <2> QED
    BY <2>6, <2>7 DEF LedgerKeeps
<1>12. CASE PowerLoss
  <2>1. /\ FileOK(0)' /\ UNCHANGED promised
        /\ \E m \in Len(promised) .. Len(Entries(lines)) :
              Entries(lines)' = SubSeq(Entries(lines), 1, m)
    BY <1>1, <1>2, <1>12, PowerKeeps DEF PowerLoss, FilePowerLoss
  <2>2. (\A p \in Objects : state'[p] = "closed") /\ \A t \in Threads : call'[t].pc = "idle"
    BY <1>12 DEF PowerLoss, Idle
  <2>3. LedgerInv'
    BY <1>1, <2>1, <2>2 DEF LedgerInv, CacheIsTrue
  <2>4. Log!Next
    BY <2>1 DEF Log!Next, Log!Lose
  <2> QED
    BY <2>3, <2>4 DEF LedgerKeeps
<1>13. CASE UNCHANGED vars
  <2>1. UNCHANGED <<file, promised, state, seq, head, lock, call>>
    BY <1>13 DEF vars, cache
  <2>2. FileOK(0)' /\ UNCHANGED <<Entries(lines), Len(promised)>>
    BY <1>5, <2>1
  <2>3. LedgerInv'
    BY <1>1, <2>1, <2>2 DEF LedgerInv, CacheIsTrue, Free, file, HeadOf
  <2> QED
    BY <2>2, <2>3 DEF LedgerKeeps
<1> QED
  BY <1>2, <1>6, <1>7, <1>8, <1>9, <1>10, <1>11, <1>12, <1>13
     DEF LedgerStep, Inside, WriteRaises, SyncRaises, Edit

(* append with one object, crashes and power failures anywhere: one chain   *)
(* whose tail alone may be torn, what was returned stays, and the cache is  *)
(* that of the file.                                                        *)
THEOREM LedgerStaysChained ==
  ASSUME OneObject, StopsOnly
  PROVE  Spec => [](OnlyTheTailIsTorn /\ ReturnedStays /\ CacheIsTrue)
<1>1. LedgerInv /\ [Next]_vars => LedgerInv'
  BY LedgerInvNext, NextIsLedgerStep DEF LedgerKeeps
<1>2. LedgerInv => OnlyTheTailIsTorn /\ ReturnedStays /\ CacheIsTrue
  BY FileOKMeans DEF LedgerInv, OnlyTheTailIsTorn
<1>3. Init => LedgerInv
  BY LedgerInvInit
<1> QED
  BY <1>1, <1>2, <1>3, PTL DEF Spec

(* The payloads in the file are an append-only log: they are added one at a *)
(* time, and an append that has returned is never undone.                   *)
THEOREM LedgerImplementsLog ==
  ASSUME OneObject, StopsOnly
  PROVE  Spec => ImplementsAppendOnlyLog
<1>1. Init => LedgerInv /\ Log!Init
  BY LedgerInvInit DEF Log!Init
<1>2. LedgerInv /\ [Next]_vars
        => LedgerInv' /\ [Log!Next]_<<Entries(lines), Len(promised)>>
  BY LedgerInvNext, NextIsLedgerStep DEF LedgerKeeps
<1> QED
  BY <1>1, <1>2, PTL DEF Spec, ImplementsAppendOnlyLog, Log!Spec

-----------------------------------------------------------------------------
(* StewardshipGate: the same ledger below a gate.                           *)

GateType ==
    /\ active \in [Objects -> BOOLEAN]
    /\ decided \in [Threads -> Payloads \cup {Nothing}]
    /\ \A t \in Threads : decided[t] # Nothing =>
          t \in Deciders /\ call[t].pc = "idle" /\ state[Home[t]] = "open"

GateNextStep == [GateNext]_gateVars

LEMMA GateNextIsLedgerStep ==
  ASSUME GateType, GateNextStep
  PROVE  LedgerStep
<1> USE DEF LedgerStep
<1>1. Deciders \subseteq Threads /\ Impacts \subseteq Payloads
  BY GateAssumption
<1>2. ASSUME NEW t \in Deciders, RecordDecision(t) PROVE LedgerStep
  <2>1. decided[t] \in Payloads /\ EnterWith(t, decided[t])
    BY <1>1, <1>2 DEF GateType, RecordDecision
  <2> QED
    BY <1>1, <2>1
<1>3. ASSUME NEW t \in Threads \ Deciders, RecordImpact(t) PROVE LedgerStep
  BY <1>1, <1>3 DEF RecordImpact
<1>4. ASSUME UNCHANGED vars PROVE LedgerStep
  BY <1>4
<1>5. ASSUME NEW t \in Deciders, NEW in \in Inputs, Evaluate(t, in) PROVE LedgerStep
  BY <1>4, <1>5 DEF Evaluate
<1>6. CASE ReportVerifies \/ ReportCounts \/ UNCHANGED gateVars
  BY <1>4, <1>6 DEF ReportVerifies, ReportCounts, gateVars
<1> QED
  BY <1>2, <1>3, <1>5, <1>6 DEF GateNextStep, GateNext, GateCrash, GatePowerLoss

(* What a thread of a ledger with one object does to the file and to itself. *)
LEMMA EnterMakesRecord ==
  ASSUME TypeOK, NEW t \in Threads, NEW b \in Payloads, EnterWith(t, b)
  PROVE  /\ call' = [call EXCEPT ![t] = call'[t]]
         /\ call'[t].pc = "write" /\ call'[t].rec.body = b
         /\ call[t].pc = "idle" /\ state[Home[t]] = "open"
         /\ UNCHANGED <<file, cache, promised>>
<1>1. Home[t] \in Objects
  BY ThreadsAssumption
<1> QED
  BY <1>1 DEF EnterWith, TypeOK, Record, Idle

LEMMA GateTypeInit == GateInit => GateType
BY DEF GateInit, GateType

LEMMA GateTypeNext ==
  ASSUME TypeOK, GateType, GateNextStep
  PROVE  GateType'
<1> USE DEF GateType
<1>1. /\ Deciders \subseteq Threads /\ Impacts \subseteq Payloads /\ Nothing \notin Payloads
      /\ \A t \in Threads : Home[t] \in Objects
      /\ \A in \in Inputs, d \in Decisions : Decided(in, d) \in Payloads
  BY GateAssumption, ThreadsAssumption
<1>2. /\ state \in [Objects -> {"closed", "verified", "open"}]
      /\ call \in [Threads -> [pc : {"idle", "write", "sync"}, rec : Line]]
  BY DEF TypeOK
<1>3. ASSUME NEW p \in Objects, OpenVerify(p) \/ OpenReadHead(p), UNCHANGED gate PROVE GateType'
  BY <1>1, <1>2, <1>3 DEF OpenVerify, OpenReadHead, gate
<1>4. ASSUME NEW p \in Objects, GateCrash(p) PROVE GateType'
  BY <1>1, <1>2, <1>4 DEF GateCrash, Crash, Idle
<1>5. ASSUME NEW t \in Threads, Inside(t), UNCHANGED gate PROVE GateType'
  <2>1. UNCHANGED state /\ \A u \in Threads : u # t => call'[u] = call[u]
    BY <1>2, <1>5 DEF Inside, Write, WriteRaises, Sync, SyncRaises, Leave, cache
  <2>2. call[t].pc # "idle"
    BY <1>5 DEF Inside, Write, WriteRaises, Sync, SyncRaises
  <2> QED
    BY <1>5, <2>1, <2>2 DEF gate
<1>6. ASSUME NEW t \in Deciders, NEW in \in Inputs, Evaluate(t, in) PROVE GateType'
  <2> DEFINE d == Decision(Home[t], in)
  <2>1. d \in Decisions
    BY DEF Decision, Decisions
  <2>2. /\ active' = [active EXCEPT ![Home[t]] = FlagAfter(Home[t], d)]
        /\ decided' = [decided EXCEPT ![t] = Decided(in, d)]
        /\ state[Home[t]] = "open" /\ call[t] = Idle /\ UNCHANGED <<state, call>>
    BY <1>6 DEF Evaluate, vars, cache
  <2>3. FlagAfter(Home[t], d) \in BOOLEAN /\ Decided(in, d) \in Payloads
    BY <1>1, <2>1 DEF FlagAfter
  <2> HIDE DEF d
  <2> QED
    BY <1>1, <2>2, <2>3 DEF Idle
<1>7. ASSUME NEW t \in Deciders, RecordDecision(t) PROVE GateType'
  <2>1. t \in Threads /\ decided[t] \in Payloads /\ EnterWith(t, decided[t])
    BY <1>1, <1>7 DEF RecordDecision
  <2>2. UNCHANGED state /\ call' = [call EXCEPT ![t] = call'[t]]
    BY <2>1, EnterMakesRecord DEF cache
  <2> QED
    BY <1>2, <1>7, <2>1, <2>2 DEF RecordDecision
<1>8. ASSUME NEW t \in Threads \ Deciders, RecordImpact(t) PROVE GateType'
  <2>1. PICK b \in Payloads : EnterWith(t, b)
    BY <1>1, <1>8 DEF RecordImpact
  <2>2. UNCHANGED state /\ call' = [call EXCEPT ![t] = call'[t]]
    BY <2>1, EnterMakesRecord DEF cache
  <2> QED
    BY <1>2, <1>8, <2>2 DEF RecordImpact, gate
<1>9. CASE GatePowerLoss
  BY <1>9 DEF GatePowerLoss
<1>10. CASE ReportVerifies \/ ReportCounts \/ UNCHANGED gateVars
  BY <1>10 DEF ReportVerifies, ReportCounts, gateVars, vars, cache, gate
<1> QED
  BY <1>3, <1>4, <1>5, <1>6, <1>7, <1>8, <1>9, <1>10 DEF GateNextStep, GateNext

(* The ledger below the gate is the ledger: its invariants and refinement.  *)
THEOREM GateKeepsLedger ==
  ASSUME OneObject, StopsOnly
  PROVE  GateSpec => /\ [](OnlyTheTailIsTorn /\ ReturnedStays /\ CacheIsTrue)
                     /\ ImplementsAppendOnlyLog
<1>1. GateInit => LedgerInv /\ GateType /\ Log!Init
  BY LedgerInvInit, GateTypeInit DEF GateInit, Log!Init
<1>2. LedgerInv /\ GateType /\ [GateNext]_gateVars
        => LedgerInv' /\ GateType' /\ [Log!Next]_<<Entries(lines), Len(promised)>>
  <2> SUFFICES ASSUME LedgerInv, GateType, GateNextStep
               PROVE  LedgerInv' /\ GateType' /\ [Log!Next]_<<Entries(lines), Len(promised)>>
    BY DEF GateNextStep
  <2>1. GateType'
    BY GateTypeNext DEF LedgerInv
  <2> QED
    BY <2>1, GateNextIsLedgerStep, LedgerInvNext DEF LedgerKeeps
<1>3. LedgerInv => OnlyTheTailIsTorn /\ ReturnedStays /\ CacheIsTrue
  BY FileOKMeans DEF LedgerInv, OnlyTheTailIsTorn
<1> QED
  BY <1>1, <1>2, <1>3, PTL DEF GateSpec, ImplementsAppendOnlyLog, Log!Spec

-----------------------------------------------------------------------------
(* StewardshipGate: approvals, with one object and one deciding thread.     *)

OneDecider == \A d, e \in Deciders : d = e

(* The decision that a thread is about to append. *)
Pending(t, b) ==
    \/ decided[t] # Nothing /\ b = decided[t]
    \/ call[t].pc = "write" /\ b = call[t].rec.body

(* The flag says what the decision that is under way is, and when none is,  *)
(* that the log ends with approvals that go back to a high score.           *)
GroundedInv ==
    LET log == Entries(lines) IN
    /\ ApprovalsAreGrounded
    /\ \A p \in Objects : state[p] # "open" => ~active[p]
    /\ \A t \in Threads \ Deciders : call[t].pc = "write" => call[t].rec.body \in Impacts
    /\ \A t \in Deciders, b \in Payloads : Pending(t, b) =>
          /\ Approval(b) <=> active[Home[t]]
          /\ Approval(b) => b.input.score > TRIGGER_HIGH \/ Grounded(log, Len(log))
    /\ \A t \in Deciders :
          active[Home[t]] /\ (\A b \in Payloads : ~Pending(t, b)) => Grounded(log, Len(log))

(* Being grounded depends on the entries up to its place alone, and lasts   *)
(* through impacts and approvals.                                           *)
LEMMA GroundedSame ==
  ASSUME NEW old, NEW new, NEW n \in Nat, \A k \in 1 .. n : old[k] = new[k]
  PROVE  Grounded(old, n) => Grounded(new, n)
BY DEF Grounded

LEMMA GroundedNext ==
  ASSUME NEW old, NEW new, NEW n \in Nat, \A k \in 1 .. n : old[k] = new[k],
         new[n + 1] \in Impacts \/ Approval(new[n + 1]),
         Grounded(old, n)
  PROVE  Grounded(new, n + 1)
<1>1. PICK j \in 1 .. n :
        /\ Approval(new[j]) /\ new[j].input.score > TRIGGER_HIGH
        /\ \A k \in j .. n : new[k] \in Impacts \/ Approval(new[k])
  BY DEF Grounded
<1>2. j \in 1 .. n + 1 /\ \A k \in j .. n + 1 : new[k] \in Impacts \/ Approval(new[k])
  <2>1. \A k \in j .. n + 1 : k \in j .. n \/ k = n + 1
    OBVIOUS
  <2> QED
    BY <1>1, <2>1
<1> QED
  BY <1>1, <1>2 DEF Grounded

LEMMA DecisionsAreNoImpacts ==
  ASSUME NEW in, NEW d
  PROVE  /\ Decided(in, d) \notin Impacts
         /\ Approval(Decided(in, d)) <=> d = "APPROVED_ADVISORY"
<1>1. Decided(in, d) \notin Impacts
  <2>1. DOMAIN Decided(in, d) = {"input", "decision"}
    BY DEF Decided
  <2>2. \A i \in Impacts : DOMAIN i = {"status"}
    BY DEF Impacts
  <2> QED
    BY <2>1, <2>2
<1> QED
  BY <1>1 DEF Approval, Decided

(* The log is as it was, but for its end. *)
LEMMA ApprovalsOfBeginning ==
  ASSUME NEW old \in Seq(Payloads), NEW m \in 0 .. Len(old),
         \A i \in 1 .. Len(old) : Approval(old[i]) => Grounded(old, i)
  PROVE  /\ SubSeq(old, 1, m) \in Seq(Payloads) /\ Len(SubSeq(old, 1, m)) = m
         /\ \A i \in 1 .. m : Approval(SubSeq(old, 1, m)[i]) => Grounded(SubSeq(old, 1, m), i)
<1>1. /\ SubSeq(old, 1, m) \in Seq(Payloads) /\ Len(SubSeq(old, 1, m)) = m
      /\ \A i \in 1 .. m : SubSeq(old, 1, m)[i] = old[i]
      /\ Len(old) \in Nat
  BY SubSeqProperties, LenProperties
<1>2. ASSUME NEW i \in 1 .. m, Approval(SubSeq(old, 1, m)[i])
      PROVE  Grounded(SubSeq(old, 1, m), i)
  <2>1. i \in Nat /\ i \in 1 .. Len(old) /\ \A k \in 1 .. i : old[k] = SubSeq(old, 1, m)[k]
    BY <1>1
  <2>2. Grounded(old, i)
    BY <1>1, <1>2, <2>1
  <2> QED
    BY <2>1, <2>2, GroundedSame
<1> QED
  BY <1>1, <1>2

LEMMA GroundedInvInit == GateInit => GroundedInv
<1> SUFFICES ASSUME GateInit PROVE GroundedInv
  OBVIOUS
<1>1. Entries(lines) = << >> /\ Len(Entries(lines)) = 0
  BY LedgerInvInit, EmptySeq DEF GateInit
<1>2. \A t \in Threads : Home[t] \in Objects /\ call[t].pc = "idle"
  BY ThreadsAssumption DEF GateInit, Init, Idle
<1>3. Deciders \subseteq Threads
  BY GateAssumption
<1> QED
  BY <1>1, <1>2, <1>3 DEF GateInit, GroundedInv, ApprovalsAreGrounded, Pending

LEMMA GroundedInvNext ==
  ASSUME OneObject, StopsOnly, OneDecider,
         LedgerInv, GateType, LedgerInv', GateType', GroundedInv, GateNextStep
  PROVE  GroundedInv'
<1> DEFINE old == Entries(lines)
<1>1. /\ Deciders \subseteq Threads /\ Impacts \subseteq Payloads /\ Nothing \notin Payloads
      /\ \A t \in Threads : Home[t] \in Objects
      /\ \A in \in Inputs, d \in Decisions : Decided(in, d) \in Payloads
  BY GateAssumption, ThreadsAssumption
<1>2. /\ TypeOK /\ FileOK(0)
      /\ state \in [Objects -> {"closed", "verified", "open"}]
      /\ call \in [Threads -> [pc : {"idle", "write", "sync"}, rec : Line]]
      /\ active \in [Objects -> BOOLEAN]
      /\ decided \in [Threads -> Payloads \cup {Nothing}]
  BY DEF LedgerInv, TypeOK, GateType
<1>3. old \in Seq(Payloads) /\ Len(old) \in Nat
  BY <1>2, EntriesAre, LenProperties
<1>4. "error" \notin Faults
  BY DEF StopsOnly
<1>5. ASSUME UNCHANGED <<lines, active>>, UNCHANGED state \/ \E p \in Objects : state[p] # "open",
             \A t \in Deciders, b \in Payloads : Pending(t, b)' <=> Pending(t, b),
             \A t \in Threads \ Deciders : call'[t].pc = "write" =>
                \/ call[t].pc = "write" /\ call'[t].rec = call[t].rec
                \/ call'[t].rec.body \in Impacts
      PROVE  GroundedInv'
  <2>1. UNCHANGED old /\ (ApprovalsAreGrounded' <=> ApprovalsAreGrounded)
    BY <1>5 DEF Entries, ApprovalsAreGrounded
  <2>2. \A p \in Objects : state'[p] # "open" => ~active'[p]
    BY <1>5 DEF GroundedInv, OneObject
  <2> HIDE DEF old
  <2> QED
    BY <1>1, <1>5, <2>1, <2>2 DEF GroundedInv, old
<1>6. ASSUME NEW p \in Objects, OpenVerify(p) \/ OpenReadHead(p), UNCHANGED gate PROVE GroundedInv'
  <2>1. UNCHANGED <<lines, call, active, decided>> /\ state[p] # "open"
    BY <1>6 DEF OpenVerify, OpenReadHead, file, gate
  <2> QED
    BY <1>5, <2>1 DEF Pending
<1>7. ASSUME ApprovalsAreGrounded', \A p \in Objects : ~active'[p],
             \A t \in Threads : call'[t].pc = "idle" /\ decided'[t] = Nothing
      PROVE  GroundedInv'
  <2>1. \A t \in Deciders : Home[t] \in Objects /\ \A b \in Payloads : ~Pending(t, b)'
    BY <1>1, <1>7 DEF Pending
  <2> QED
    BY <1>1, <1>7, <2>1 DEF GroundedInv
<1>8. ASSUME NEW p \in Objects, GateCrash(p) PROVE GroundedInv'
  <2>1. /\ UNCHANGED lines /\ active' = [active EXCEPT ![p] = FALSE]
        /\ call' = [t \in Threads |-> IF Home[t] = p THEN Idle ELSE call[t]]
        /\ decided' = [t \in Threads |-> IF Home[t] = p THEN Nothing ELSE decided[t]]
    BY <1>8 DEF GateCrash, Crash, file
  <2>2. ApprovalsAreGrounded'
    BY <2>1 DEF GroundedInv, ApprovalsAreGrounded, Entries
  <2>3. \A q \in Objects : ~active'[q]
    BY <1>2, <2>1 DEF OneObject
  <2>4. \A t \in Threads : call'[t].pc = "idle" /\ decided'[t] = Nothing
    BY <1>1, <2>1 DEF OneObject, Idle
  <2> QED
    BY <1>7, <2>2, <2>3, <2>4
<1>9. CASE GatePowerLoss
  <2>1. /\ (\A q \in Objects : ~active'[q])
        /\ \A t \in Threads : call'[t].pc = "idle" /\ decided'[t] = Nothing
    BY <1>9 DEF GatePowerLoss, PowerLoss, Idle
  <2>2. PICK m \in Len(promised) .. Len(old) : Entries(lines)' = SubSeq(old, 1, m)
    BY <1>2, <1>4, <1>9, PowerKeeps DEF GatePowerLoss, PowerLoss, StopsOnly
  <2>3. m \in 0 .. Len(old)
    <3>1. Len(promised) \in Nat
      BY <1>2, LenProperties DEF FileOK, FileType, Hash
    <3> QED
      BY <1>3, <3>1
  <2>4. \A i \in 1 .. Len(old) : Approval(old[i]) => Grounded(old, i)
    BY DEF GroundedInv, ApprovalsAreGrounded
  <2>5. ApprovalsAreGrounded'
    <3> HIDE DEF old
    <3>1. /\ Len(SubSeq(old, 1, m)) = m
          /\ \A i \in 1 .. m : Approval(SubSeq(old, 1, m)[i]) => Grounded(SubSeq(old, 1, m), i)
      BY <1>3, <2>3, <2>4, ApprovalsOfBeginning
    <3> QED
      BY <2>2, <3>1 DEF ApprovalsAreGrounded
  <2> QED
    BY <1>7, <2>1, <2>5
<1>10. ASSUME NEW t \in Threads, Write(t), UNCHANGED gate PROVE GroundedInv'
  <2> DEFINE b == call[t].rec.body
             n == Len(old)
  <2>1. /\ b \in Payloads /\ Entries(lines)' = Append(old, b)
        /\ call[t].pc = "write" /\ call' = [call EXCEPT ![t].pc = "sync"]
        /\ UNCHANGED <<state, active, decided>>
    BY <1>10, WriteAdds DEF Write, cache, gate
  <2>2. /\ Append(old, b) \in Seq(Payloads) /\ Len(Append(old, b)) = n + 1
        /\ \A i \in 1 .. n : old[i] = Append(old, b)[i]
        /\ Append(old, b)[n + 1] = b
    <3> HIDE DEF old
    <3> QED
      BY <1>3, <2>1, AppendProperties
  <2>3. /\ \A u \in Threads : u # t => call[u].pc = "idle"
        /\ \A p \in Objects : p = Home[t]
    BY <1>2, <2>1, OthersAreOutside
  <2>4. state[Home[t]] = "open" /\ \A u \in Threads : call'[u].pc # "write"
    BY <1>2, <2>1, <2>3 DEF LedgerInv
  <2>5. (\A u \in Deciders, c \in Payloads : Pending(u, c)' => Pending(u, c)) /\ decided[t] = Nothing
    BY <1>1, <2>1, <2>4 DEF Pending, GateType
  <2>6. Grounded(old, n) /\ (b \in Impacts \/ Approval(b)) => Grounded(Append(old, b), n + 1)
    <3> HIDE DEF old, b
    <3> QED
      BY <1>3, <2>2, GroundedNext
  <2>7. CASE t \notin Deciders
    <3>1. b \in Impacts /\ ~Approval(b)
      BY <2>1, <2>7 DEF GroundedInv, Approval
    <3>2. \A u \in Deciders, c \in Payloads : Pending(u, c)' <=> Pending(u, c)
      BY <1>1, <2>1, <2>3, <2>4, <2>7 DEF Pending
    <3>3. ApprovalsAreGrounded'
      <4>1. ASSUME NEW i \in 1 .. n + 1, Approval(Append(old, b)[i])
            PROVE  Grounded(Append(old, b), i)
        <5>1. i \in 1 .. n
          BY <1>3, <2>2, <3>1, <4>1
        <5>2. Grounded(old, i)
          BY <2>2, <4>1, <5>1 DEF GroundedInv, ApprovalsAreGrounded
        <5>3. i \in Nat /\ \A k \in 1 .. i : old[k] = Append(old, b)[k]
          BY <1>3, <2>2, <5>1
        <5> QED
          BY <5>2, <5>3, GroundedSame
      <4> HIDE DEF old, b
      <4> QED
        BY <2>1, <2>2, <4>1 DEF ApprovalsAreGrounded
    <3>4. Grounded(old, n) => Grounded(Entries(lines)', Len(Entries(lines)'))
      BY <2>1, <2>2, <2>6, <3>1
    <3>5. /\ \A p \in Objects : state'[p] # "open" => ~active'[p]
          /\ \A u \in Threads \ Deciders : call'[u].pc = "write" => call'[u].rec.body \in Impacts
      BY <2>1, <2>4 DEF GroundedInv
    <3> HIDE DEF old, b, n
    <3> QED
      BY <1>1, <2>1, <3>2, <3>3, <3>4, <3>5 DEF GroundedInv, old, n
  <2>8. CASE t \in Deciders
    <3>1. Pending(t, b)
      BY <2>1 DEF Pending
    <3>2. \A u \in Deciders, c \in Payloads : ~Pending(u, c)'
      BY <1>1, <2>1, <2>4, <2>5, <2>8 DEF Pending, OneDecider
    <3>3. Approval(b) <=> active[Home[t]]
      BY <2>1, <2>8, <3>1 DEF GroundedInv
    <3>4. Approval(b) => Grounded(Append(old, b), n + 1)
      <4>1. SUFFICES ASSUME Approval(b) PROVE Grounded(Append(old, b), n + 1)
        OBVIOUS
      <4>2. b.input.score > TRIGGER_HIGH \/ Grounded(old, n)
        BY <2>1, <2>8, <3>1, <4>1 DEF GroundedInv
      <4>3. ASSUME b.input.score > TRIGGER_HIGH PROVE Grounded(Append(old, b), n + 1)
        <5>1. n + 1 \in 1 .. n + 1 /\ \A k \in n + 1 .. n + 1 : k = n + 1
          BY <1>3
        <5> HIDE DEF old, b, n
        <5> QED
          BY <2>2, <4>1, <4>3, <5>1 DEF Grounded
      <4> QED
        BY <2>6, <4>1, <4>2, <4>3
    <3>5. ApprovalsAreGrounded'
      <4>1. ASSUME NEW i \in 1 .. n + 1, Approval(Append(old, b)[i])
            PROVE  Grounded(Append(old, b), i)
        <5>1. CASE i = n + 1
          BY <2>2, <3>4, <4>1, <5>1
        <5>2. CASE i \in 1 .. n
          <6>1. Grounded(old, i)
            BY <2>2, <4>1, <5>2 DEF GroundedInv, ApprovalsAreGrounded
          <6>2. i \in Nat /\ \A k \in 1 .. i : old[k] = Append(old, b)[k]
            BY <1>3, <2>2, <5>2
          <6> QED
            BY <6>1, <6>2, GroundedSame
        <5> QED
          BY <1>3, <5>1, <5>2
      <4> HIDE DEF old, b
      <4> QED
        BY <2>1, <2>2, <4>1 DEF ApprovalsAreGrounded
    <3>6. /\ \A p \in Objects : state'[p] # "open" => ~active'[p]
          /\ \A u \in Threads \ Deciders : call'[u].pc = "write" => call'[u].rec.body \in Impacts
      BY <2>1, <2>4 DEF GroundedInv
    <3>7. active[Home[t]] => Grounded(Entries(lines)', Len(Entries(lines)'))
      BY <2>1, <2>2, <3>3, <3>4
    <3>8. \A u \in Deciders : u = t
      BY <2>8 DEF OneDecider
    <3> HIDE DEF old, b, n
    <3> QED
      BY <2>1, <3>2, <3>5, <3>6, <3>7, <3>8 DEF GroundedInv
  <2> QED
    BY <2>7, <2>8
<1>11. ASSUME NEW t \in Threads, Sync(t), UNCHANGED gate PROVE GroundedInv'
  <2>1. /\ UNCHANGED <<lines, state, active, decided>> /\ call[t].pc = "sync"
        /\ call' = [call EXCEPT ![t] = Idle]
    BY <1>11 DEF Sync, Leave, gate
  <2>2. \A u \in Threads : call'[u].pc = "write" <=> call[u].pc = "write"
    BY <1>2, <2>1 DEF Idle
  <2>3. \A u \in Threads : call[u].pc = "write" => call'[u] = call[u]
    BY <1>2, <2>1
  <2> QED
    BY <1>1, <1>5, <2>1, <2>2, <2>3 DEF Pending
<1>12. ASSUME NEW t \in Deciders, NEW in \in Inputs, Evaluate(t, in) PROVE GroundedInv'
  <2> DEFINE p == Home[t]
             d == Decision(p, in)
  <2>1. /\ t \in Threads /\ p \in Objects /\ state[p] = "open" /\ call[t] = Idle
        /\ decided[t] = Nothing
        /\ active' = [active EXCEPT ![p] = FlagAfter(p, d)]
        /\ decided' = [decided EXCEPT ![t] = Decided(in, d)]
        /\ UNCHANGED <<lines, state, call>>
    BY <1>1, <1>12 DEF Evaluate, vars, file, cache
  <2>2. d \in Decisions /\ Decided(in, d) \in Payloads
    BY <1>1 DEF Decision, Decisions
  <2>3. \A u \in Deciders : u = t
    BY DEF OneDecider
  <2>4. \A q \in Objects : q = p
    BY <2>1 DEF OneObject
  <2>5. active'[p] <=> d = "APPROVED_ADVISORY"
    <3> HIDE DEF d
    <3> QED
      BY <1>2, <2>1 DEF FlagAfter
  <2>6. \A c \in Payloads : Pending(t, c)' <=> c = Decided(in, d)
    <3> HIDE DEF d
    <3> QED
      BY <1>1, <1>2, <2>1, <2>2 DEF Pending, Idle
  <2>7. \A c \in Payloads : ~Pending(t, c)
    BY <2>1 DEF Pending, Idle
  <2>8. UNCHANGED old /\ ApprovalsAreGrounded'
    BY <2>1 DEF GroundedInv, ApprovalsAreGrounded, Entries
  <2>9. d = "APPROVED_ADVISORY" => in.score > TRIGGER_HIGH \/ Grounded(old, Len(old))
    <3>1. d = "APPROVED_ADVISORY" => in.score > TRIGGER_HIGH \/ active[p]
      BY DEF Decision
    <3>2. active[p] => Grounded(old, Len(old))
      BY <2>7 DEF GroundedInv
    <3> QED
      BY <3>1, <3>2
  <2>10. Decided(in, d).input = in
    BY DEF Decided
  <2>11. \A c \in Payloads : Pending(t, c)' =>
            /\ Approval(c) <=> active'[p]
            /\ Approval(c) => c.input.score > TRIGGER_HIGH \/ Grounded(old, Len(old))
    <3> HIDE DEF old, d
    <3> QED
      BY <2>5, <2>6, <2>9, <2>10, DecisionsAreNoImpacts
  <2>12. /\ \A q \in Objects : state'[q] # "open" => ~active'[q]
         /\ \A u \in Threads \ Deciders : call'[u].pc = "write" => call'[u].rec.body \in Impacts
    BY <2>1, <2>4 DEF GroundedInv
  <2> HIDE DEF old, d
  <2> QED
    BY <2>2, <2>3, <2>6, <2>8, <2>11, <2>12 DEF GroundedInv, old
<1>13. ASSUME NEW t \in Deciders, RecordDecision(t) PROVE GroundedInv'
  <2>1. /\ t \in Threads /\ decided[t] \in Payloads /\ decided[t] # Nothing
        /\ EnterWith(t, decided[t]) /\ decided' = [decided EXCEPT ![t] = Nothing]
        /\ UNCHANGED active
    BY <1>1, <1>13 DEF RecordDecision, GateType
  <2>2. /\ call' = [call EXCEPT ![t] = call'[t]]
        /\ call'[t].pc = "write" /\ call'[t].rec.body = decided[t]
        /\ call[t].pc = "idle" /\ UNCHANGED <<lines, state>>
    BY <1>2, <2>1, EnterMakesRecord DEF file, cache
  <2>3. \A c \in Payloads : Pending(t, c)' <=> Pending(t, c)
    BY <1>2, <2>1, <2>2 DEF Pending
  <2>4. \A u \in Deciders : u = t
    BY DEF OneDecider
  <2>5. \A u \in Threads \ Deciders : call'[u] = call[u]
    BY <1>2, <2>2
  <2> QED
    BY <1>5, <2>1, <2>2, <2>3, <2>4, <2>5
<1>14. ASSUME NEW t \in Threads \ Deciders, RecordImpact(t) PROVE GroundedInv'
  <2>1. PICK b \in Impacts : EnterWith(t, b)
    BY <1>14 DEF RecordImpact
  <2>2. /\ call' = [call EXCEPT ![t] = call'[t]]
        /\ call'[t].pc = "write" /\ call'[t].rec.body = b
        /\ UNCHANGED <<lines, state, active, decided>>
    BY <1>1, <1>2, <1>14, <2>1, EnterMakesRecord DEF RecordImpact, file, cache, gate
  <2>3. \A u \in Threads : u # t => call'[u] = call[u]
    BY <1>2, <2>2
  <2> QED
    BY <1>1, <1>5, <2>2, <2>3 DEF Pending
<1>15. CASE ReportVerifies \/ ReportCounts \/ UNCHANGED gateVars
  <2>1. UNCHANGED <<lines, state, call, active, decided>>
    BY <1>15 DEF ReportVerifies, ReportCounts, gateVars, vars, file, cache, gate
  <2> QED
    BY <1>5, <2>1 DEF Pending
<1> QED
  BY <1>4, <1>6, <1>8, <1>9, <1>10, <1>11, <1>12, <1>13, <1>14, <1>15
     DEF GateNextStep, GateNext, Inside, WriteRaises, SyncRaises

(* evaluate, lines 39-64: with one gate and one deciding thread, any number *)
(* of other threads on its ledger and crashes and power failures anywhere,  *)
(* no approval on record rests on a decision that was lost or forgotten.    *)
THEOREM ApprovalsStayGrounded ==
  ASSUME OneObject, StopsOnly, OneDecider
  PROVE  GateSpec => []ApprovalsAreGrounded
<1> DEFINE IInv == LedgerInv /\ GateType /\ GroundedInv
<1>1. GateInit => IInv
  BY LedgerInvInit, GateTypeInit, GroundedInvInit DEF GateInit
<1>2. ASSUME IInv, [GateNext]_gateVars PROVE IInv'
  <2>1. GateNextStep
    BY <1>2 DEF GateNextStep
  <2>2. GateType'
    BY <1>2, <2>1, GateTypeNext DEF LedgerInv
  <2>3. LedgerInv'
    BY <1>2, <2>1, GateNextIsLedgerStep, LedgerInvNext DEF LedgerKeeps
  <2> QED
    BY <1>2, <2>1, <2>2, <2>3, GroundedInvNext
<1>3. IInv => ApprovalsAreGrounded
  BY DEF GroundedInv
<1> QED
  BY <1>1, <1>2, <1>3, PTL DEF GateSpec

-----------------------------------------------------------------------------
(* StewardshipGate: reports, while others append.                           *)

(* What was verified, and what was counted, is still the beginning of the   *)
(* file, and the file is whole.                                             *)
ReportInv ==
    /\ report \in [pc : {"none", "invalid", "raises", "verified", "given"},
                   checked : Nat, counts : {report.counts}]
    /\ report.pc \in {"verified", "given"} => whole /\ report.checked <= Len(lines)
    /\ ReportsAreVerified

(* A reading that finds only records has seen the file as it is.           *)
LEMMA SeenWhole ==
  ASSUME LedgerInv, NEW ls \in Seen, Parses(ls)
  PROVE  ls = lines
<1>1. lines \in Seq(Line) /\ Len(lines) \in Nat
  BY LenProperties DEF LedgerInv, TypeOK
<1>2. SUFFICES ASSUME ls \in HalfThere PROVE FALSE
  BY DEF Seen
<1>3. Undecodable.body = Garbage /\ Broken.body = Garbage
      /\ Broken \in Line /\ Undecodable \in Line
  BY BrokenIsALine DEF Undecodable, Broken, Line
<1>4. PICK part \in {Broken, Undecodable} :
         ls = IF whole THEN Append(lines, part) ELSE [lines EXCEPT ![Len(lines)] = part]
  BY <1>2 DEF HalfThere
<1>5. part.body = Garbage /\ part \in Line
  BY <1>3, <1>4
<1>6. CASE whole
  <2>1. Len(ls) = Len(lines) + 1 /\ ls[Len(lines) + 1] = part
    BY <1>1, <1>4, <1>5, <1>6, AppendProperties
  <2>. QED BY <1>1, <1>5, <2>1 DEF Parses
<1>7. CASE ~whole
  <2>1. lines # << >>
    BY <1>7 DEF LedgerInv, FileOK
  <2>2. Len(lines) \in 1 .. Len(lines)
    BY <1>1, <2>1, EmptySeq
  <2>3. Len(ls) = Len(lines) /\ ls[Len(lines)] = part
    BY <1>1, <1>4, <1>5, <1>7, <2>2, ExceptType
  <2>. QED BY <1>5, <2>2, <2>3 DEF Parses
<1>. QED BY <1>6, <1>7

(* A file that verifies has only records.                                  *)
LEMMA ValidParses ==
  ASSUME NEW ls, Verdict(ls, 0) = "valid"
  PROVE  Chained(ls, 0) /\ Parses(ls)
BY DEF Verdict, Chained, Fits, Parses

LEMMA ReportInvNext ==
  ASSUME OneObject, StopsOnly, LedgerInv, GateType, LedgerInv', ReportInv, GateNextStep
  PROVE  ReportInv'
<1>1. /\ TypeOK /\ FileOK(0) /\ lines \in Seq(Line) /\ Len(lines) \in Nat
      /\ lines' \in Seq(Line) /\ Len(lines') \in Nat
  BY LenProperties DEF LedgerInv, TypeOK
<1>2. /\ Deciders \subseteq Threads /\ Impacts \subseteq Payloads
      /\ \A t \in Deciders : decided[t] # Nothing => decided[t] \in Payloads
      /\ "error" \notin Faults
  BY GateAssumption DEF StopsOnly, GateType
<1>3. ASSUME UNCHANGED report, Len(lines) <= Len(lines'), whole => whole',
             \A i \in 1 .. Len(lines) : lines'[i] = lines[i]
      PROVE  ReportInv'
  <2>1. ASSUME NEW n \in 0 .. Len(lines) PROVE SubSeq(lines', 1, n) = SubSeq(lines, 1, n)
    <3>1. n \in 0 .. Len(lines')
      BY <1>1, <1>3
    <3>2. /\ SubSeq(lines', 1, n) \in Seq(Line) /\ Len(SubSeq(lines', 1, n)) = n
          /\ \A k \in 1 .. n : SubSeq(lines', 1, n)[k] = lines'[k]
      BY <1>1, <3>1, SubSeqProperties
    <3>3. \A k \in 1 .. n : SubSeq(lines', 1, n)[k] = lines[k]
      BY <1>1, <1>3, <3>2
    <3> QED
      BY <1>1, <3>2, <3>3, BeginningIsSubSeq
  <2>2. ReportsAreVerified'
    <3>1. SUFFICES ASSUME report.pc = "given"
                   PROVE  \E n \in report.checked .. Len(lines') :
                             /\ Chained(SubSeq(lines', 1, n), 0)
                             /\ report.counts = Counts(SubSeq(lines', 1, n))
      BY <1>3 DEF ReportsAreVerified, ReportInv
    <3>2. PICK n \in report.checked .. Len(lines) :
             Chained(SubSeq(lines, 1, n), 0) /\ report.counts = Counts(SubSeq(lines, 1, n))
      BY <3>1 DEF ReportInv, ReportsAreVerified
    <3>3. n \in report.checked .. Len(lines') /\ n \in 0 .. Len(lines)
      BY <1>1, <1>3 DEF ReportInv
    <3> QED
      BY <2>1, <3>2, <3>3
  <2> QED
    BY <1>1, <1>3, <2>2 DEF ReportInv
<1>4. ASSUME UNCHANGED <<report, lines, whole>> PROVE ReportInv'
  BY <1>1, <1>3, <1>4
<1>5. ASSUME NEW p \in Objects, OpenVerify(p) \/ OpenReadHead(p), UNCHANGED report PROVE ReportInv'
  BY <1>4, <1>5 DEF OpenVerify, OpenReadHead, file
<1>6. ASSUME NEW p \in Objects, GateCrash(p) PROVE ReportInv'
  BY <1>4, <1>6 DEF GateCrash, Crash, file
<1>7. ASSUME NEW t \in Threads, Inside(t), UNCHANGED report PROVE ReportInv'
  <2>1. CASE Write(t)
    <3>1. /\ whole' = TRUE /\ Len(lines') = Len(lines) + 1
          /\ \A i \in 1 .. Len(lines) : lines'[i] = lines[i]
      BY <2>1, WriteAdds
    <3> QED
      BY <1>1, <1>3, <1>7, <3>1
  <2>2. CASE Sync(t)
    BY <1>4, <1>7, <2>2 DEF Sync
  <2> QED
    BY <1>2, <1>7, <2>1, <2>2 DEF Inside, WriteRaises, SyncRaises
<1>8. ASSUME NEW t \in Threads, NEW b \in Payloads, EnterWith(t, b), UNCHANGED report
      PROVE  ReportInv'
  BY <1>4, <1>8 DEF EnterWith, file
<1>9. CASE ReportVerifies
  <2>1. UNCHANGED <<lines, whole>>
    BY <1>9 DEF ReportVerifies, vars, file
  <2>2. PICK ls \in Seen :
           report' = IF Trusted(ls)
                     THEN [NoReport EXCEPT !.pc = "verified", !.checked = Len(ls)]
                     ELSE [NoReport EXCEPT !.pc = Verdict(ls, 0)]
    BY <1>9 DEF ReportVerifies
  <2>3. CASE Trusted(ls)
    <3>1. Verdict(lines, 0) = "valid" /\ ls = lines
      BY <2>3, ValidParses, SeenWhole DEF Trusted
    <3>2. whole
      <4>1. SUFFICES ASSUME ~whole PROVE FALSE
        OBVIOUS
      <4>2. lines # << >> /\ lines[Len(lines)] = Broken
        BY <1>1, <4>1 DEF FileOK
      <4>3. Len(lines) \in 1 .. Len(lines)
        BY <1>1, <4>2, EmptySeq
      <4> QED
        BY <3>1, <4>2, <4>3, ValidParses, BrokenIsALine DEF Parses
    <3>3. report' = [pc |-> "verified", checked |-> Len(lines), counts |-> << >>]
      BY <2>2, <2>3, <3>1 DEF NoReport
    <3> QED
      BY <1>1, <2>1, <3>2, <3>3 DEF ReportInv, ReportsAreVerified
  <2>4. CASE ~Trusted(ls)
    <3>1. /\ report' = [pc |-> Verdict(ls, 0), checked |-> 0, counts |-> << >>]
          /\ Verdict(ls, 0) \in {"invalid", "raises"}
      BY <2>2, <2>4 DEF NoReport, Trusted, Verdict
    <3> QED
      BY <3>1 DEF ReportInv, ReportsAreVerified
  <2> QED
    BY <2>3, <2>4
<1>10. CASE ReportCounts
  <2>1. UNCHANGED <<lines, whole>> /\ report.pc = "verified"
    BY <1>10 DEF ReportCounts, vars, file
  <2>2. whole /\ report.checked <= Len(lines) /\ report.checked \in Nat
    BY <2>1 DEF ReportInv
  <2>3. Chained(lines, 0)
    BY <1>1, <2>2, FileOKMeans
  <2>4. CASE report' = [report EXCEPT !.pc = "raises"]
    <3>1. /\ report'.pc = "raises"
          /\ report' = [pc |-> "raises", checked |-> report.checked, counts |-> report.counts]
      BY <2>4 DEF ReportInv
    <3>. QED BY <2>2, <3>1 DEF ReportInv, ReportsAreVerified
  <2>5. CASE report' # [report EXCEPT !.pc = "raises"]
    <3>5. report' = [report EXCEPT !.pc = "given", !.counts = Counts(lines)]
      BY <1>10, <2>5, SeenWhole DEF ReportCounts
    <3>6. lines = SubSeq(lines, 1, Len(lines))
      BY <1>1, BeginningIsSubSeq
    <3>7. /\ report'.pc = "given" /\ report'.checked = report.checked
          /\ report'.counts = Counts(lines)
          /\ report' = [pc |-> "given", checked |-> report.checked, counts |-> Counts(lines)]
      BY <3>5 DEF ReportInv
    <3>8. ReportsAreVerified'
      <4>1. Len(lines) \in report'.checked .. Len(lines')
        BY <1>1, <2>1, <2>2, <3>7
      <4>2. Chained(SubSeq(lines', 1, Len(lines)), 0)
            /\ report'.counts = Counts(SubSeq(lines', 1, Len(lines)))
        BY <2>1, <2>3, <3>6, <3>7
      <4> QED
        BY <3>7, <4>1, <4>2 DEF ReportsAreVerified
    <3> QED
      BY <2>1, <2>2, <3>7, <3>8 DEF ReportInv
  <2> QED
    BY <2>4, <2>5
<1>11. CASE GatePowerLoss
  <2>1. report' = [pc |-> "none", checked |-> 0, counts |-> << >>]
    BY <1>11 DEF GatePowerLoss, NoReport
  <2> QED
    BY <2>1 DEF ReportInv, ReportsAreVerified
<1>12. ASSUME NEW t \in Deciders, NEW in \in Inputs, Evaluate(t, in) PROVE ReportInv'
  BY <1>4, <1>12 DEF Evaluate, vars, file
<1>13. ASSUME NEW t \in Deciders, RecordDecision(t) PROVE ReportInv'
  BY <1>2, <1>8, <1>13 DEF RecordDecision
<1>14. ASSUME NEW t \in Threads \ Deciders, RecordImpact(t) PROVE ReportInv'
  BY <1>2, <1>8, <1>14 DEF RecordImpact
<1>15. CASE UNCHANGED gateVars
  BY <1>4, <1>15 DEF gateVars, vars, file
<1> QED
  BY <1>5, <1>6, <1>7, <1>9, <1>10, <1>11, <1>12, <1>13, <1>14, <1>15
     DEF GateNextStep, GateNext

(* The second reading raises only where ReportCounts meets what is not     *)
(* there yet.                                                              *)
LEMMA RaiseStep ==
  ASSUME LedgerInv, ReportInv, GateNextStep,
         report.pc = "verified", report'.pc = "raises"
  PROVE  lines = << >> \/ Appending
<1>1. whole /\ lines \in Seq(Line)
  BY DEF ReportInv, LedgerInv, TypeOK
<1>2. Parses(lines)
  <2>1. Chained(lines, 0)
    BY <1>1, FileOKMeans DEF LedgerInv
  <2>. QED BY <2>1 DEF Chained, Fits, Parses
<1>3. ReportCounts
  <2>1. ~ UNCHANGED report
    OBVIOUS
  <2>2. ~ GatePowerLoss
    BY DEF GatePowerLoss, NoReport
  <2>. QED BY <2>1, <2>2
           DEF GateNextStep, GateNext, GateCrash, Evaluate, RecordDecision,
               RecordImpact, ReportVerifies, gateVars
<1>4. CASE lines = << >>
  BY <1>4
<1>5. CASE lines # << >>
  <2>1. PICK ls \in Seen :
           report' = IF Parses(ls)
                     THEN [report EXCEPT !.pc = "given", !.counts = Counts(ls)]
                     ELSE [report EXCEPT !.pc = "raises"]
    BY <1>3, <1>5 DEF ReportCounts
  <2>2. ~Parses(ls)
    BY <2>1 DEF ReportInv
  <2>. QED BY <1>2, <2>2 DEF Seen
<1>. QED BY <1>4, <1>5

(* The invariant behind what is said of reports.                           *)
LEMMA ReportInvHolds ==
  ASSUME OneObject, StopsOnly
  PROVE  GateSpec => [](LedgerInv /\ GateType /\ ReportInv)
<1> DEFINE IInv == LedgerInv /\ GateType /\ ReportInv
<1>1. GateInit => IInv
  <2> SUFFICES ASSUME GateInit PROVE ReportInv
    BY LedgerInvInit, GateTypeInit DEF GateInit
  <2>1. report = [pc |-> "none", checked |-> 0, counts |-> << >>]
    BY DEF GateInit, NoReport
  <2> QED
    BY <2>1 DEF ReportInv, ReportsAreVerified
<1>2. ASSUME IInv, [GateNext]_gateVars PROVE IInv'
  <2>1. GateNextStep
    BY <1>2 DEF GateNextStep
  <2>2. GateType'
    BY <1>2, <2>1, GateTypeNext DEF LedgerInv
  <2>3. LedgerInv'
    BY <1>2, <2>1, GateNextIsLedgerStep, LedgerInvNext DEF LedgerKeeps
  <2> QED
    BY <1>2, <2>1, <2>2, <2>3, ReportInvNext
<1> QED
  BY <1>1, <1>2, PTL DEF GateSpec

(* summarize and verified_summary: the second reading of the file counts a  *)
(* verified chain that has all the records of the first, whatever the       *)
(* threads of the one object append in between and however little of it is  *)
(* to be seen.                                                              *)
THEOREM ReportsStayVerified ==
  ASSUME OneObject, StopsOnly
  PROVE  GateSpec => []ReportsAreVerified
<1>1. LedgerInv /\ GateType /\ ReportInv => ReportsAreVerified
  BY DEF ReportInv
<1>2. GateSpec => [](LedgerInv /\ GateType /\ ReportInv)
  BY ReportInvHolds
<1> QED
  BY <1>1, <1>2, PTL

(* A report that verified the file raises in its second reading only while  *)
(* the file has no lines or somebody is appending one, never for what a     *)
(* crash or a power failure left behind.                                    *)
THEOREM ReportsRaiseMeanwhile ==
  ASSUME OneObject, StopsOnly
  PROVE  GateSpec => RaisesOnlyMeanwhile
<1> DEFINE IInv == LedgerInv /\ GateType /\ ReportInv
<1>1. IInv /\ [GateNext]_gateVars =>
        [report.pc = "verified" /\ report'.pc = "raises" =>
            lines = << >> \/ Appending]_gateVars
  BY RaiseStep DEF GateNextStep
<1>2. GateSpec => []IInv
  BY ReportInvHolds
<1> QED
  BY <1>1, <1>2, PTL DEF GateSpec, RaisesOnlyMeanwhile

=============================================================================
