------------------------------ MODULE V99_proofs ------------------------------
(***************************************************************************)
(* Proofs about KeyRotation, Backup and V99Cycle, for any number of keys,  *)
(* versions, backups, modules and cycles.                                  *)
(***************************************************************************)
EXTENDS V99Cycle, KeyRotation, Backup, SequenceTheorems, WellFoundedInduction, TLAPS

-----------------------------------------------------------------------------
(* KeyRotation: the newest key is always valid, a rotation in progress has  *)
(* it in hand, and from activate on it is in the store, whole.              *)
RotationInv ==
    /\ created \in valid
    /\ secret.kind = "whole" => secret.key \in valid
    /\ stage # "idle" => new = created
    /\ stage \in {"activate", "revoke"} => secret = Whole(created)
    /\ answer = "ROTATION_SUCCESSFUL" =>
          stage = "idle" /\ secret = Whole(created) /\ valid = {created}

(* A store set up with the first key satisfies the invariant. *)
LEMMA RotationStarts == RotationInit => RotationInv
  BY DEF RotationInit, RotationInv, Whole

(* Every step of rotate_key, a death included, keeps it. *)
LEMMA RotationStep == RotationInv /\ [RotationNext]_rotationVars => RotationInv'
<1> SUFFICES ASSUME RotationInv, [RotationNext]_rotationVars PROVE RotationInv'
  OBVIOUS
<1> USE DEF RotationInv, Whole, Empty, Partial, Absent, Return, provider
<1>1. CASE Refuse
  BY <1>1 DEF Refuse
<1>2. CASE Create
  <2>1. CASE UNCHANGED provider
    BY <1>2, <2>1 DEF Create
  <2>2. CASE created' = created + 1 /\ valid' = valid \cup {created + 1}
    <3>1. UNCHANGED <<store, secret>> /\ answer' # "ROTATION_SUCCESSFUL"
      BY <1>2, <2>2 DEF Create
    <3>2. \/ stage' = "validate" /\ new' = created'
          \/ stage' = "idle"
      BY <1>2, <2>2 DEF Create
    <3> QED
      BY <2>2, <3>1, <3>2
  <2> QED
    BY <1>2, <2>1, <2>2 DEF Create
<1>3. CASE Validate
  BY <1>3 DEF Validate
<1>4. CASE StoreSecret
  BY <1>4 DEF StoreSecret
<1>5. CASE WriteSecret
  BY <1>5 DEF WriteSecret
<1>6. CASE WriteSecretRaises
  BY <1>6 DEF WriteSecretRaises, AfterFailedWrite
<1>7. CASE Activate
  BY <1>7 DEF Activate
<1>8. CASE RevokeOld
  <2>1. secret = Whole(created) /\ UNCHANGED <<store, secret, created>> /\ stage' = "idle"
    BY <1>8 DEF RevokeOld
  <2>2. CASE valid' = {created}
    BY <2>1, <2>2
  <2>3. CASE UNCHANGED valid /\ answer' # "ROTATION_SUCCESSFUL"
    BY <2>1, <2>3
  <2> QED
    BY <1>8, <2>2, <2>3 DEF RevokeOld
<1>9. CASE AgentDies
  <2>1. UNCHANGED provider /\ stage' = "idle" /\ answer' = "none"
    BY <1>9 DEF AgentDies
  <2>2. secret'.kind = "whole" => secret'.key \in valid
    <3>1. \/ secret' \in {Absent, Empty, Partial(new)}
          \/ stage = "write" /\ secret' = Whole(new)
          \/ secret' = secret
      BY <1>9 DEF AgentDies
    <3> QED
      BY <3>1
  <2> QED
    BY <2>1, <2>2
<1>10. CASE UNCHANGED rotationVars
  BY <1>10 DEF rotationVars
<1> QED
  BY <1>1, <1>2, <1>3, <1>4, <1>5, <1>6, <1>7, <1>8, <1>9, <1>10 DEF RotationNext

(* rotate_key: whatever fails, dies or is tried again, a secret that is in  *)
(* the store whole is a key the provider accepts, and after                 *)
(* ROTATION_SUCCESSFUL the only one.                                        *)
THEOREM KeysWork == RotationSpec => []StoredKeyWorks
<1>1. RotationInv => StoredKeyWorks
  BY DEF RotationInv, StoredKeyWorks
<1> QED
  BY <1>1, RotationStarts, RotationStep, PTL DEF RotationSpec

(* rotate_key revokes last: a step that takes a key away finds the secret   *)
(* of a key that stays in the store, whole.                                 *)
THEOREM RevokedLast == RotationSpec => RevokedAfterReplaced
<1>1. ASSUME RotationInv, [RotationNext]_rotationVars
      PROVE  [valid \ valid' # {} =>
                secret = Whole(created) /\ created \in valid']_rotationVars
  <2>1. CASE RevokeOld
    BY <1>1, <2>1 DEF RotationInv, RevokeOld
  <2>2. CASE ~ RevokeOld
    <3>1. valid \subseteq valid'
      BY <1>1, <2>2 DEF RotationNext, rotationVars, provider, Refuse, Create, Validate,
         StoreSecret, WriteSecret, WriteSecretRaises, Activate, AgentDies
    <3> QED
      BY <3>1
  <2> QED
    BY <2>1, <2>2
<1> QED
  BY <1>1, RotationStarts, RotationStep, PTL DEF RotationSpec, RevokedAfterReplaced

-----------------------------------------------------------------------------
(* Backup: the file of a result holds what the result certified, or is      *)
(* rotten; a backup under way has a path of its own, which no result has;   *)
(* and a restore under way compares with the digest of some result.         *)
Certified(d) == \E r \in results : r.sha256 = d

ResultsOK ==
    \A r \in results :
        r.path \in Path /\ r.sha256 # Nowhere /\ backups[r.path] \in {r.sha256, Rotten}

CreatorOK ==
    /\ creator.stage \in {"idle", "open", "copy", "digest"}
    /\ creator.stage # "idle" => creator.path \in Path /\ \A r \in results : r.path # creator.path
    /\ creator.stage = "open" => backups[creator.path] = Nowhere
    /\ creator.stage \in {"copy", "digest"} => backups[creator.path] # Nowhere

RestorerOK ==
    /\ restorer.stage # "idle" => Certified(restorer.sha256) /\ ~ restored
    /\ restored => Certified(destination)

BackupInv ==
    /\ backups = [p \in Path |-> backups[p]]
    /\ source \in Versions
    /\ ResultsOK /\ CreatorOK /\ RestorerOK

(* Without backups the invariant holds. *)
LEMMA BackupStarts == BackupInit => BackupInv
  BY DEF BackupInit, BackupInv, ResultsOK, CreatorOK, RestorerOK, Certified, AtRest

(* Every step of a backup, a restore or the world around them keeps it. *)
LEMMA BackupStep == BackupInv /\ [BackupNext]_backupVars => BackupInv'
<1> SUFFICES ASSUME BackupInv, [BackupNext]_backupVars PROVE BackupInv'
  OBVIOUS
<1> USE BackupAssumption DEF BackupInv, ResultsOK, CreatorOK, AtRest, creating, restoring
<1>a. ASSUME UNCHANGED restoring, results \subseteq results' PROVE RestorerOK'
  BY <1>a DEF RestorerOK, Certified
<1>b. ASSUME UNCHANGED <<creating, backups>>, RestorerOK' PROVE BackupInv'
  BY <1>b
<1>1. ASSUME NEW p \in Path, ChoosePath(p) PROVE BackupInv'
  <2>1. RestorerOK'
    BY <1>1, <1>a DEF ChoosePath
  <2>2. backups[p] = Nowhere /\ \A r \in results : r.path # p
    BY <1>1 DEF ChoosePath, FreePath
  <2> QED
    BY <1>1, <2>1, <2>2 DEF ChoosePath
<1>2. CASE BeginCopy
  <2>1. RestorerOK'
    BY <1>2, <1>a DEF BeginCopy
  <2> QED
    BY <1>2, <2>1 DEF BeginCopy
<1>3. CASE EndCopy
  <2>1. RestorerOK'
    BY <1>3, <1>a DEF EndCopy
  <2> QED
    BY <1>3, <2>1 DEF EndCopy
<1>4. CASE TakeDigest
  <2>1. RestorerOK'
    BY <1>4, <1>a DEF TakeDigest
  <2> QED
    BY <1>4, <2>1 DEF TakeDigest
<1>5. CASE CreatorFails
  <2>1. RestorerOK'
    BY <1>5, <1>a DEF CreatorFails
  <2> QED
    BY <1>5, <2>1 DEF CreatorFails
<1>6. CASE WriteSource
  <2>1. RestorerOK'
    BY <1>6, <1>a DEF WriteSource
  <2> QED
    BY <1>6, <2>1 DEF WriteSource
<1>7. ASSUME NEW p \in Path, Rot(p) PROVE BackupInv'
  <2>1. RestorerOK'
    BY <1>7, <1>a DEF Rot
  <2> QED
    BY <1>7, <2>1 DEF Rot
<1>8. ASSUME NEW p \in Path, NEW r \in results, NEW allow \in BOOLEAN,
             VerifyBackup(p, r.sha256, allow)
      PROVE  BackupInv'
  BY <1>8, <1>b DEF VerifyBackup, RestorerOK, Certified
<1>9. CASE EmptyDestination
  BY <1>9, <1>b DEF EmptyDestination, RestorerOK, Certified
<1>10. CASE CopyBack
  BY <1>10, <1>b DEF CopyBack, RestorerOK, Certified
<1>11. CASE CheckCopy
  BY <1>11, <1>b DEF CheckCopy, VerifiedCopy, RestorerOK, Certified
<1>12. CASE RestorerFails
  BY <1>12, <1>b DEF RestorerFails, RestorerOK, Certified
<1>13. CASE UNCHANGED backupVars
  BY <1>13, <1>a, <1>b DEF backupVars
<1> QED
  BY <1>1, <1>2, <1>3, <1>4, <1>5, <1>6, <1>7, <1>8, <1>9, <1>10, <1>11, <1>12, <1>13
  DEF BackupNext

(* create_backup, "backups are never overwritten": what a result certified  *)
(* is in its file until the file rots; and restore_backup returns True only *)
(* with a certified content in the destination.                             *)
THEOREM BackupsStand == BackupSpec => []BackupsAreProof
<1>1. BackupInv => BackupsAreProof
  BY DEF BackupInv, ResultsOK, RestorerOK, Certified, BackupsAreProof
<1> QED
  BY <1>1, BackupStarts, BackupStep, PTL DEF BackupSpec

-----------------------------------------------------------------------------
(* V99Cycle: what its operators return.                                     *)

LEMMA LeastIn ==
  ASSUME NEW S \in SUBSET Int, NEW x \in S, \A y \in S : x <= y
  PROVE  Min(S) = x
<1>1. \E z \in S : \A y \in S : z <= y
  OBVIOUS
<1>2. Min(S) \in S /\ \A y \in S : Min(S) <= y
  BY <1>1 DEF Min
<1>3. Min(S) \in Int /\ x \in Int /\ Min(S) <= x /\ x <= Min(S)
  BY <1>2
<1> QED
  BY <1>3

LEMMA LeastOfTwo ==
  ASSUME NEW a \in Int, NEW b \in Int
  PROVE  Min({a, b}) = IF a <= b THEN a ELSE b
<1>1. CASE a <= b
  <2>1. a \in {a, b} /\ \A y \in {a, b} : a <= y
    BY <1>1
  <2> QED
    BY <1>1, <2>1, LeastIn
<1>2. CASE ~(a <= b)
  <2>1. b \in {a, b} /\ \A y \in {a, b} : b <= y
    BY <1>2
  <2> QED
    BY <1>2, <2>1, LeastIn
<1> QED
  BY <1>1, <1>2

LEMMA WorstOf ==
  ASSUME NEW S \in SUBSET (1 .. 7), S # {}
  PROVE  Max(S) \in S /\ \A y \in S : y <= Max(S)
<1>1. \E x \in S : \A y \in S : x >= y
  <2>1. CASE 7 \in S
    BY <2>1
  <2>2. CASE 7 \notin S /\ 6 \in S
    BY <2>2
  <2>3. CASE 7 \notin S /\ 6 \notin S /\ 5 \in S
    BY <2>3
  <2>4. CASE 7 \notin S /\ 6 \notin S /\ 5 \notin S /\ 4 \in S
    BY <2>4
  <2>5. CASE S \subseteq 1 .. 3 /\ 3 \in S
    BY <2>5
  <2>6. CASE S \subseteq 1 .. 3 /\ 3 \notin S /\ 2 \in S
    BY <2>6
  <2>7. CASE S \subseteq 1 .. 3 /\ 3 \notin S /\ 2 \notin S
    <3>1. \A y \in S : y = 1
      BY <2>7
    <3>2. 1 \in S
      BY <3>1
    <3> QED
      BY <3>1, <3>2
  <2> QED
    BY <2>1, <2>2, <2>3, <2>4, <2>5, <2>6, <2>7
<1>2. Max(S) \in S /\ \A y \in S : Max(S) >= y
  BY <1>1 DEF Max
<1> QED
  BY <1>2

LEMMA OrderIsAggregate ==
  /\ \A i \in 1 .. 7 : AggregateOrder[i] \in Aggregate
  /\ Aggregate = {"VERIFIED", "HEALTHY", "RECOVERING", "DEGRADED", "UNKNOWN", "ISOLATED", "FAILED"}
  /\ \A i \in 1 .. 7 : AggregateOrder[i] \in {"HEALTHY", "VERIFIED"} => i <= 2
  /\ \A i \in 1 .. 2 : AggregateOrder[i] \in {"HEALTHY", "VERIFIED"}
<1>1. \A i \in 1 .. 7 : i = 1 \/ i = 2 \/ i = 3 \/ i = 4 \/ i = 5 \/ i = 6 \/ i = 7
  OBVIOUS
<1>2. /\ AggregateOrder[1] = "VERIFIED" /\ AggregateOrder[2] = "HEALTHY"
      /\ AggregateOrder[3] = "RECOVERING" /\ AggregateOrder[4] = "DEGRADED"
      /\ AggregateOrder[5] = "UNKNOWN" /\ AggregateOrder[6] = "ISOLATED"
      /\ AggregateOrder[7] = "FAILED"
  BY DEF AggregateOrder
<1>3. Aggregate = {"VERIFIED", "HEALTHY", "RECOVERING", "DEGRADED", "UNKNOWN", "ISOLATED", "FAILED"}
  BY <1>1, <1>2 DEF Aggregate
<1> QED
  BY <1>1, <1>2, <1>3 DEF Aggregate

(* aggregate_status: healthy is the result only of reports that all are.    *)
LEMMA AggregateIsWorst ==
  ASSUME NEW S
  PROVE  /\ AggregateStatus(S) \in Aggregate
         /\ S \subseteq Aggregate /\ AggregateStatus(S) \in {"HEALTHY", "VERIFIED"} =>
               S # {} /\ S \subseteq {"HEALTHY", "VERIFIED"}
<1> DEFINE found == {i \in 1 .. 7 : AggregateOrder[i] \in S}
<1>1. CASE found = {}
  BY <1>1, OrderIsAggregate DEF AggregateStatus
<1>2. CASE found # {}
  <2>1. Max(found) \in 1 .. 7 /\ AggregateOrder[Max(found)] \in S
        /\ \A y \in found : y <= Max(found)
    BY <1>2, WorstOf
  <2>2. AggregateStatus(S) = AggregateOrder[Max(found)]
    BY <1>2 DEF AggregateStatus
  <2>3. ASSUME S \subseteq Aggregate, AggregateStatus(S) \in {"HEALTHY", "VERIFIED"}, NEW s \in S
        PROVE  s \in {"HEALTHY", "VERIFIED"}
    <3>1. Max(found) <= 2
      BY <2>1, <2>2, <2>3, OrderIsAggregate
    <3>2. PICK i \in 1 .. 7 : s = AggregateOrder[i]
      BY <2>3 DEF Aggregate
    <3>3. i \in found
      BY <3>2
    <3>4. i <= Max(found)
      BY <2>1, <3>3
    <3>5. i \in 1 .. 2
      BY <2>1, <3>1, <3>4
    <3> QED
      BY <3>2, <3>5, OrderIsAggregate
  <2> QED
    BY <2>1, <2>2, <2>3, OrderIsAggregate
<1> QED
  BY <1>1, <1>2

(* What becomes of a history h when the result r is recorded. *)
Recorded(g, h, r) ==
    /\ Len(g) \in Nat \ {0} /\ g[Len(g)] = r
    /\ Len(h) < MaxHistory =>
          Len(g) = Len(h) + 1 /\ \A i \in 1 .. Len(h) : g[i] = h[i]
    /\ Len(h) = MaxHistory =>
          Len(g) = Len(h) /\ \A i \in 1 .. Len(h) : i # Len(h) => g[i] = h[i + 1]

(* scheduler.py: the history gets the result at its end and gives up its    *)
(* front.                                                                   *)
LEMMA TrimmedAppend ==
  ASSUME NEW S, NEW h \in Seq(S), NEW r \in S, Len(h) <= MaxHistory,
         NEW g, g = Trimmed(Append(h, r))
  PROVE  g \in Seq(S) /\ Recorded(g, h, r)
<1> DEFINE n == Len(h)
<1>1. n \in Nat /\ MaxHistory \in Nat \ {0}
  BY LenProperties, CycleAssumption
<1>2. PICK a : a = Append(h, r)
  OBVIOUS
<1>3. a \in Seq(S) /\ Len(a) = n + 1 /\ a[n + 1] = r /\ \A i \in 1 .. n : a[i] = h[i]
  BY <1>2, AppendProperties
<1>4. CASE n < MaxHistory
  <2>1. g = a
    BY <1>1, <1>2, <1>3, <1>4 DEF Trimmed
  <2> QED
    BY <1>1, <1>3, <1>4, <2>1 DEF Recorded
<1>5. CASE n = MaxHistory
  <2>1. g = SubSeq(a, 2, n + 1)
    BY <1>1, <1>2, <1>3, <1>5 DEF Trimmed
  <2>2. \A i \in 2 .. n + 1 : a[i] \in S
    BY <1>1, <1>3, ElementOfSeq
  <2>3. g \in Seq(S) /\ Len(g) = n /\ \A i \in 1 .. n : g[i] = a[2 + i - 1]
    BY <1>1, <1>3, <2>1, <2>2, SubSeqProperties
  <2>4. \A i \in 1 .. n : g[i] = a[i + 1]
    BY <1>1, <2>3
  <2>5. \A i \in 1 .. n : i # n => g[i] = h[i + 1]
    BY <1>1, <1>3, <2>4
  <2> QED
    BY <1>1, <1>3, <1>5, <2>3, <2>4, <2>5 DEF Recorded
<1> QED
  BY <1>1, <1>4, <1>5

(* The modules are gone through in order. *)
LEMMA FirstIsIn ==
  ASSUME NEW S \in SUBSET Modules, S # {}
  PROVE  First(S) \in S
<1> DEFINE Less == {p \in Nat \X Nat : p[1] < p[2]}
<1>1. IsWellFoundedOn(Less, Nat)
  <2>1. OpToRel(<, Nat) = Less
    BY DEF OpToRel
  <2> QED
    BY <2>1, NatLessThanWellFounded
<1>2. S \in SUBSET Nat
  BY CycleAssumption DEF Modules
<1>3. PICK n \in S : \A m \in S : ~(<<m, n>> \in Less)
  <2> HIDE DEF Less
  <2> QED
    BY <1>1, <1>2, WFMin
<1>4. ASSUME NEW m \in S PROVE n <= m
  <2>1. m \in Nat /\ n \in Nat
    BY <1>2
  <2>2. m < n => <<m, n>> \in Less
    BY <2>1
  <2>3. ~(m < n)
    BY <2>2, <1>3
  <2> QED
    BY <2>1, <2>3
<1>5. First(S) = n
  <2>1. S \in SUBSET Int
    BY <1>2
  <2> QED
    BY <1>4, <2>1, LeastIn DEF First
<1> QED
  BY <1>5

-----------------------------------------------------------------------------
(* V99Cycle: the type invariant.                                            *)

LEMMA CycleTypeInit == Init => TypeOK
<1>1. NoReports \in [Modules -> Statuses \cup {NoReport, "UNKNOWN"}]
  BY DEF NoReports
<1>2. << >> \in Seq(Result) /\ 0 \in Nat
  OBVIOUS
<1> SUFFICES ASSUME Init PROVE TypeOK
  OBVIOUS
<1>3. reports \in [Modules -> Statuses \cup {NoReport, "UNKNOWN"}] /\ history \in Seq(Result)
  BY <1>1, <1>2 DEF Init
<1> QED
  BY <1>2, <1>3 DEF Init, TypeOK, Phase

(* Reports have a status of class Status, which nothing enforces. *)
KnownStatuses == Statuses \subseteq Aggregate

LEMMA ReportedTypes ==
  ASSUME TypeOK, KnownStatuses
  PROVE  Reported \subseteq Aggregate
BY OrderIsAggregate DEF TypeOK, Reported, KnownStatuses

LEMMA CycleTypeNext ==
  ASSUME TypeOK, [Next]_vars, Len(history) <= MaxHistory, pc = "stamp" => history # << >>
  PROVE  TypeOK'
<1> USE DEF TypeOK, Phase, registry, evidence
<1>1. NoReports \in [Modules -> Statuses \cup {NoReport, "UNKNOWN"}]
  BY DEF NoReports
<1>2. ASSUME NEW m \in Modules, Register(m) PROVE TypeOK'
  BY <1>2 DEF Register
<1>3. CASE BuildFromConfig
  BY <1>3 DEF BuildFromConfig
<1>4. CASE Start
  BY <1>4 DEF Start
<1>5. CASE Inspect
  <2> DEFINE m == First(todo)
  <2>1. m \in Modules /\ todo' = todo \ {m}
    BY <1>5, FirstIsIn DEF Inspect
  <2>2. /\ reports' \in [Modules -> Statuses \cup {NoReport, "UNKNOWN"}]
        /\ vouched' \subseteq Modules
    <3>1. \A id \in Modules, status \in Statuses :
             Believed(m, id, status) \in Statuses \cup {NoReport, "UNKNOWN"}
      BY DEF Believed
    <3> HIDE DEF m
    <3>2. CASE reports' = [reports EXCEPT ![m] = "UNKNOWN"] /\ UNCHANGED vouched
      BY <2>1, <3>2
    <3>3. ASSUME NEW id \in Modules, NEW status \in Statuses,
                 reports' = [reports EXCEPT ![m] = Believed(m, id, status)],
                 vouched' = IF id = m /\ status \in {"HEALTHY", "VERIFIED"}
                            THEN vouched \cup {m} ELSE vouched
          PROVE  /\ reports' \in [Modules -> Statuses \cup {NoReport, "UNKNOWN"}]
                 /\ vouched' \subseteq Modules
      BY <2>1, <3>1, <3>3
    <3> QED
      BY <1>5, <3>2, <3>3 DEF Inspect, m
  <2> QED
    BY <1>5, <2>1, <2>2 DEF Inspect
<1>6. CASE Inspected
  BY <1>6 DEF Inspected
<1>7. CASE Propose
  <2> DEFINE m == First(todo)
  <2>1. m \in Modules /\ todo' = todo \ {m}
    BY <1>7, FirstIsIn DEF Propose
  <2>2. proposals' \subseteq Proposal /\ offered' \subseteq Modules \X Proposal
    <3> HIDE DEF m
    <3> QED
      BY <1>7, <2>1 DEF Propose, m
  <2> QED
    BY <1>7, <2>1, <2>2 DEF Propose
<1>8. CASE Proposed
  BY <1>8 DEF Proposed
<1>9. CASE Execute
  <2>1. \A p \in proposals : p.module_id \in Modules /\ p \in Proposal
    BY DEF Proposal
  <2>2. proposals' \subseteq Proposal /\ applied' \subseteq Modules \X Proposal
    BY <1>9, <2>1 DEF Execute
  <2> QED
    BY <1>9, <2>2 DEF Execute
<1>10. CASE Record
  <2> DEFINE r == [n |-> recorded + 1, started |-> started, finished |-> now, asked |-> asked,
                   aggregate |-> AggregateStatus(Reported), stamped |-> FALSE]
  <2>1. r \in Result
    BY AggregateIsWorst DEF Result
  <2>2. history' \in Seq(Result)
    <3>1. history' = Trimmed(Append(history, r))
      BY <1>10 DEF Record
    <3> HIDE DEF r
    <3> QED
      BY <2>1, <3>1, TrimmedAppend
  <2> QED
    BY <1>10, <2>2 DEF Record
<1>11. CASE Stamp
  <2>1. history' = [history EXCEPT ![Len(history)].stamped = TRUE] /\ history # << >>
    BY <1>11 DEF Stamp
  <2>2. Len(history) \in 1 .. Len(history)
    BY <2>1, LenProperties, EmptySeq
  <2>3. [history[Len(history)] EXCEPT !.stamped = TRUE] \in Result
    <3>1. history[Len(history)] \in Result
      BY <2>2, ElementOfSeq
    <3> QED
      BY <3>1 DEF Result
  <2>4. history' \in Seq(Result)
    <3>1. history' = [history EXCEPT ![Len(history)] = [history[Len(history)] EXCEPT !.stamped = TRUE]]
      BY <2>1
    <3> QED
      BY <2>2, <2>3, <3>1, ExceptSeq
  <2> QED
    BY <1>1, <1>11, <2>4 DEF Stamp, CycleEmpty, StampTime
<1>12. CASE Raises
  BY <1>1, <1>12 DEF Raises, CycleEmpty
<1>13. CASE Tick
  BY <1>13 DEF Tick
<1>14. CASE UNCHANGED vars
  BY <1>14 DEF vars
<1> QED
  BY <1>2, <1>3, <1>4, <1>5, <1>6, <1>7, <1>8, <1>9, <1>10, <1>11, <1>12, <1>13, <1>14 DEF Next

-----------------------------------------------------------------------------
(* V99Cycle: the history and the due times.                                 *)

(* A stamped result ended no later than the last run, and a cycle that      *)
(* asked due() began an interval after every one of them.                   *)
HistoryInv ==
    /\ HistoryIsTrue
    /\ pc = "stamp" => history # << >>
    /\ lastRun <= now
    /\ \A i \in 1 .. Len(history) :
          /\ history[i].finished <= now
          /\ history[i].stamped => history[i].finished <= lastRun
    /\ pc \in {"inspect", "propose", "execute"} /\ asked =>
          \A i \in 1 .. Len(history) :
              history[i].stamped => started >= history[i].finished + Interval

LEMMA HistoryStarts == Init => HistoryInv
<1> SUFFICES ASSUME Init PROVE HistoryInv
  OBVIOUS
<1>1. history = << >> /\ Len(history) = 0 /\ recorded = 0 /\ lastRun = Never /\ now = 0
      /\ pc = "idle"
  BY EmptySeq DEF Init
<1>2. Min({recorded, MaxHistory}) = 0
  BY <1>1, CycleAssumption, LeastOfTwo
<1> QED
  BY <1>1, <1>2 DEF HistoryInv, HistoryIsTrue, Never

LEMMA HistoryLength ==
  ASSUME TypeOK, HistoryInv
  PROVE  /\ Len(history) \in Nat /\ Len(history) <= MaxHistory /\ Len(history) <= recorded
         /\ Len(history) = MaxHistory \/ Len(history) = recorded
         /\ (history # << >> <=> Len(history) # 0)
         /\ \A i \in 1 .. Len(history) :
               /\ history[i] \in Result /\ history[i].n \in Nat
               /\ history[i].started \in Nat /\ history[i].finished \in Nat
               /\ history[i].asked \in BOOLEAN /\ history[i].stamped \in BOOLEAN
<1>1. Len(history) = IF recorded <= MaxHistory THEN recorded ELSE MaxHistory
  BY CycleAssumption, LeastOfTwo DEF HistoryInv, HistoryIsTrue, TypeOK
<1>2. \A i \in 1 .. Len(history) : history[i] \in Result
  BY ElementOfSeq DEF TypeOK
<1>3. history # << >> <=> Len(history) # 0
  BY EmptySeq DEF TypeOK
<1> QED
  BY <1>1, <1>2, <1>3, CycleAssumption DEF TypeOK, Result

LEMMA HistoryStep ==
  ASSUME TypeOK, HistoryInv, [Next]_vars
  PROVE  HistoryInv'
<1>1. /\ Len(history) \in Nat /\ Len(history) <= MaxHistory /\ Len(history) <= recorded
      /\ Len(history) = MaxHistory \/ Len(history) = recorded
      /\ (history # << >> <=> Len(history) # 0)
      /\ \A i \in 1 .. Len(history) :
            /\ history[i] \in Result /\ history[i].n \in Nat
            /\ history[i].started \in Nat /\ history[i].finished \in Nat
            /\ history[i].asked \in BOOLEAN /\ history[i].stamped \in BOOLEAN
  BY HistoryLength
<1>2. /\ now \in Nat /\ lastRun \in Int /\ started \in Nat /\ asked \in BOOLEAN
      /\ recorded \in Nat /\ Interval \in Nat /\ MaxHistory \in Nat \ {0}
  BY CycleAssumption DEF TypeOK, Never
<1>3. ASSUME UNCHANGED <<history, lastRun, now, recorded>>, pc' # "stamp" \/ pc' = pc,
             \/ pc' \notin {"inspect", "propose", "execute"}
             \/ pc \in {"inspect", "propose", "execute"} /\ UNCHANGED <<started, asked>>
      PROVE  HistoryInv'
  <2>1. HistoryIsTrue'
    BY <1>3 DEF HistoryInv, HistoryIsTrue
  <2>2. pc' = "stamp" => history' # << >>
    BY <1>3 DEF HistoryInv
  <2>3. pc' \in {"inspect", "propose", "execute"} /\ asked' =>
           /\ pc \in {"inspect", "propose", "execute"} /\ asked /\ UNCHANGED started
    BY <1>3
  <2>4. pc' \in {"inspect", "propose", "execute"} /\ asked' =>
           \A i \in 1 .. Len(history) :
              history[i].stamped => started' >= history[i].finished + Interval
    BY <2>3 DEF HistoryInv
  <2> QED
    BY <1>3, <2>1, <2>2, <2>4 DEF HistoryInv
<1>4. CASE Start
  <2>1. /\ UNCHANGED <<history, lastRun, now, recorded>> /\ pc' = "inspect" /\ started' = now
        /\ asked' \in BOOLEAN /\ (asked' => Due)
    BY <1>4 DEF Start, MayStart
  <2>2. ASSUME asked', NEW i \in 1 .. Len(history), history[i].stamped
        PROVE  started' >= history[i].finished + Interval
    <3>1. history[i].finished <= lastRun /\ history[i].finished \in Nat
      BY <1>1, <2>2 DEF HistoryInv
    <3>2. now - lastRun >= Interval
      BY <1>2, <2>1, <2>2, <3>1 DEF Due, Never
    <3> QED
      BY <1>2, <2>1, <3>1, <3>2
  <2> QED
    BY <2>1, <2>2 DEF HistoryInv, HistoryIsTrue
<1>5. CASE Record
  <2> DEFINE r == [n |-> recorded + 1, started |-> started, finished |-> now, asked |-> asked,
                   aggregate |-> AggregateStatus(Reported), stamped |-> FALSE]
             off == IF Len(history) = MaxHistory THEN 1 ELSE 0
             g == history'
  <2>1. /\ pc = "execute" /\ pc' = "stamp" /\ history' = Trimmed(Append(history, r))
        /\ recorded' = recorded + 1 /\ UNCHANGED <<now, lastRun, started, asked>>
    BY <1>5 DEF Record
  <2>2. r \in Result
    BY <1>2, AggregateIsWorst DEF Result
  <2>3. /\ Len(g) = Len(history) + 1 - off /\ Len(g) \in Nat \ {0} /\ g[Len(g)] = r
        /\ \A i \in 1 .. Len(g) : i # Len(g) =>
              i + off \in 1 .. Len(history) /\ g[i] = history[i + off]
        /\ g \in Seq(Result)
    <3>1. history \in Seq(Result) /\ Len(history) <= MaxHistory
      BY <1>1 DEF TypeOK
    <3>2. g = Trimmed(Append(history, r)) /\ off = IF Len(history) = MaxHistory THEN 1 ELSE 0
      BY <2>1
    <3> HIDE DEF r, off, g
    <3>3. g \in Seq(Result) /\ Recorded(g, history, r)
      BY <2>2, <3>1, <3>2, TrimmedAppend
    <3>4. CASE Len(history) < MaxHistory
      <4>1. off = 0 /\ Len(g) = Len(history) + 1
            /\ \A i \in 1 .. Len(history) : g[i] = history[i]
        BY <1>1, <1>2, <3>2, <3>3, <3>4 DEF Recorded
      <4> QED
        BY <1>1, <3>3, <4>1 DEF Recorded
    <3>5. CASE Len(history) = MaxHistory
      <4>1. off = 1 /\ Len(g) = Len(history)
            /\ \A i \in 1 .. Len(history) : i # Len(history) => g[i] = history[i + 1]
        BY <3>2, <3>3, <3>5 DEF Recorded
      <4> QED
        BY <1>1, <3>3, <4>1 DEF Recorded
    <3> QED
      BY <1>1, <1>2, <3>4, <3>5
  <2>4. r.n = recorded + 1 /\ r.finished = now /\ r.started = started /\ r.asked = asked
        /\ ~r.stamped
    OBVIOUS
  <2>5. off \in {0, 1} /\ (off = 1 <=> Len(history) = MaxHistory)
    OBVIOUS
  <2> HIDE DEF r, off, g
  <2>6. Len(g) = Min({recorded', MaxHistory})
    <3>1. Min({recorded + 1, MaxHistory})
            = IF recorded + 1 <= MaxHistory THEN recorded + 1 ELSE MaxHistory
      BY <1>2, LeastOfTwo
    <3> QED
      BY <1>1, <1>2, <2>1, <2>3, <2>5, <3>1
  <2>7. \A i \in 1 .. Len(g) : g[i].n = recorded' - Len(g) + i
    <3>1. ASSUME NEW i \in 1 .. Len(g), i # Len(g) PROVE g[i].n = recorded' - Len(g) + i
      <4>1. i + off \in 1 .. Len(history) /\ g[i] = history[i + off]
        BY <2>3, <3>1
      <4>2. history[i + off].n = recorded - Len(history) + (i + off)
        BY <4>1 DEF HistoryInv, HistoryIsTrue
      <4> QED
        BY <1>1, <1>2, <2>1, <2>3, <2>5, <4>1, <4>2
    <3>2. g[Len(g)].n = recorded' - Len(g) + Len(g)
      BY <1>2, <2>1, <2>3, <2>4
    <3> QED
      BY <3>1, <3>2
  <2>8. ASSUME NEW i \in 1 .. Len(g), NEW j \in 1 .. Len(g),
               i < j, g[i].stamped, g[j].asked
        PROVE  g[j].started >= g[i].finished + Interval
    <3>1. i + off \in 1 .. Len(history) /\ g[i] = history[i + off]
      BY <2>3, <2>8
    <3>2. CASE j = Len(g)
      BY <2>1, <2>3, <2>4, <2>8, <3>1, <3>2 DEF HistoryInv
    <3>3. CASE j # Len(g)
      <4>1. j + off \in 1 .. Len(history) /\ g[j] = history[j + off]
        BY <2>3, <3>3
      <4>2. i + off < j + off
        BY <2>3, <2>5, <2>8
      <4> QED
        BY <2>8, <3>1, <4>1, <4>2 DEF HistoryInv, HistoryIsTrue
    <3> QED
      BY <3>2, <3>3
  <2>9. \A i \in 1 .. Len(g) : /\ g[i].finished <= now
                               /\ g[i].stamped => g[i].finished <= lastRun
    <3>1. ASSUME NEW i \in 1 .. Len(g)
          PROVE  g[i].finished <= now /\ (g[i].stamped => g[i].finished <= lastRun)
      <4>1. CASE i = Len(g)
        BY <1>2, <2>3, <2>4, <4>1
      <4>2. CASE i # Len(g)
        BY <2>3, <4>2 DEF HistoryInv
      <4> QED
        BY <4>1, <4>2
    <3> QED
      BY <3>1
  <2>10. HistoryIsTrue'
    BY <2>6, <2>7, <2>8 DEF HistoryIsTrue, g
  <2>11. history' # << >>
    BY <2>3, EmptySeq DEF g
  <2> QED
    BY <2>1, <2>9, <2>10, <2>11 DEF HistoryInv, g
<1>6. CASE Stamp
  <2> DEFINE g == history'
             n == Len(history)
  <2>1. /\ pc = "stamp" /\ pc' = "idle" /\ lastRun' = now /\ UNCHANGED <<now, recorded>>
        /\ history' = [history EXCEPT ![n].stamped = TRUE]
    BY <1>6 DEF Stamp, StampTime
  <2>2. n \in 1 .. n
    BY <1>1, <2>1 DEF HistoryInv
  <2>3. /\ Len(g) = n
        /\ \A i \in 1 .. n : /\ g[i].n = history[i].n /\ g[i].started = history[i].started
                             /\ g[i].finished = history[i].finished
                             /\ g[i].asked = history[i].asked
                             /\ i # n => g[i].stamped = history[i].stamped
    <3> DEFINE x == [history[n] EXCEPT !.stamped = TRUE]
    <3>1. /\ x \in Result /\ x.n = history[n].n /\ x.started = history[n].started
          /\ x.finished = history[n].finished /\ x.asked = history[n].asked
      BY <1>1, <2>2 DEF Result
    <3>2. history' = [history EXCEPT ![n] = x]
      BY <2>1
    <3> HIDE DEF x
    <3>3. /\ Len(history') = n /\ history'[n] = x
          /\ \A i \in 1 .. n : i # n => history'[i] = history[i]
      BY <2>2, <3>1, <3>2, ExceptSeq DEF TypeOK
    <3> QED
      BY <3>1, <3>3
  <2> HIDE DEF g
  <2>4. HistoryIsTrue'
    <3>1. ASSUME NEW i \in 1 .. n, NEW j \in 1 .. n, i < j, g[i].stamped, g[j].asked
          PROVE  g[j].started >= g[i].finished + Interval
      <4>1. i # n
        BY <1>1, <3>1
      <4> QED
        BY <2>3, <3>1, <4>1 DEF HistoryInv, HistoryIsTrue
    <3>2. n = Min({recorded, MaxHistory}) /\ \A i \in 1 .. n : g[i].n = recorded - n + i
      BY <2>3 DEF HistoryInv, HistoryIsTrue
    <3> QED
      BY <2>1, <2>3, <3>1, <3>2 DEF HistoryIsTrue, g
  <2>5. \A i \in 1 .. n : g[i].finished <= now
    BY <2>3 DEF HistoryInv
  <2> QED
    BY <1>2, <2>1, <2>3, <2>4, <2>5 DEF HistoryInv, g
<1>7. CASE Tick
  <2>1. UNCHANGED <<history, lastRun, recorded, pc, started, asked>> /\ now' = now + 1
    BY <1>7 DEF Tick
  <2>2. \A i \in 1 .. Len(history) : history[i].finished <= now + 1
    BY <1>1, <1>2 DEF HistoryInv
  <2>3. lastRun <= now + 1
    BY <1>2 DEF HistoryInv
  <2> QED
    BY <2>1, <2>2, <2>3 DEF HistoryInv, HistoryIsTrue
<1>8. CASE Raises
  BY <1>3, <1>8 DEF Raises
<1>9. ASSUME NEW m \in Modules, Register(m) PROVE HistoryInv'
  BY <1>3, <1>9 DEF Register
<1>10. CASE BuildFromConfig \/ Inspect \/ Inspected \/ Propose \/ Proposed \/ Execute
  BY <1>3, <1>10 DEF BuildFromConfig, Inspect, Inspected, Propose, Proposed, Execute
<1>11. CASE UNCHANGED vars
  BY <1>3, <1>11 DEF vars
<1> QED
  BY <1>4, <1>5, <1>6, <1>7, <1>8, <1>9, <1>10, <1>11 DEF Next

(* Every variable of the agent's cycles has its type. *)
THEOREM CycleTypes == Spec => []TypeOK
<1>1. Init => TypeOK /\ HistoryInv
  BY CycleTypeInit, HistoryStarts
<1>2. TypeOK /\ HistoryInv /\ [Next]_vars => TypeOK' /\ HistoryInv'
  BY CycleTypeNext, HistoryStep, HistoryLength DEF HistoryInv
<1> QED
  BY <1>1, <1>2, PTL DEF Spec

(* scheduler.py: the history has the latest results in order and without a  *)
(* gap, and who asks due() keeps the interval, whatever raises in between.  *)
THEOREM HistoryStaysTrue == Spec => []HistoryIsTrue
<1>1. Init => TypeOK /\ HistoryInv
  BY CycleTypeInit, HistoryStarts
<1>2. TypeOK /\ HistoryInv /\ [Next]_vars => TypeOK' /\ HistoryInv'
  BY CycleTypeNext, HistoryStep, HistoryLength DEF HistoryInv
<1>3. HistoryInv => HistoryIsTrue
  BY DEF HistoryInv
<1> QED
  BY <1>1, <1>2, <1>3, PTL DEF Spec

-----------------------------------------------------------------------------
(* V99Cycle: repairs and health.                                            *)

(* agent.py lines 6-8 and 34: a repair that waits was proposed in this      *)
(* cycle by the module it is for, so what is executed was, too.             *)
THEOREM RepairsAreOwn == Spec => []OnlyOwnSafeRepairs
<1> DEFINE IInv == /\ OnlyOwnSafeRepairs
                   /\ \A p \in proposals : <<p.module_id, p>> \in offered
<1>1. Init => IInv
  BY DEF Init, OnlyOwnSafeRepairs
<1>2. ASSUME IInv, [Next]_vars PROVE IInv'
  <2>1. ASSUME UNCHANGED <<proposals, offered, applied>> PROVE IInv'
    BY <1>2, <2>1 DEF OnlyOwnSafeRepairs
  <2>2. CASE Stamp \/ Raises
    BY <2>2 DEF Stamp, Raises, CycleEmpty, OnlyOwnSafeRepairs
  <2>3. CASE Propose
    <3>1. offered \subseteq offered' /\ UNCHANGED applied
      BY <2>3 DEF Propose
    <3>2. \A p \in proposals' : p \in proposals \/ <<p.module_id, p>> \in offered'
      BY <2>3 DEF Propose, OwnProposal
    <3> QED
      BY <1>2, <3>1, <3>2 DEF OnlyOwnSafeRepairs
  <2>4. CASE Execute
    <3>1. UNCHANGED offered /\ proposals' \subseteq proposals
      BY <2>4 DEF Execute
    <3>2. \A x \in applied' : \/ x \in applied
                              \/ \E p \in proposals : x = <<p.module_id, p>> /\ PolicyAllowed(p)
      BY <2>4 DEF Execute
    <3> QED
      BY <1>2, <3>1, <3>2 DEF OnlyOwnSafeRepairs, PolicyAllowed
  <2>5. ASSUME NEW m \in Modules, Register(m) PROVE IInv'
    BY <2>1, <2>5 DEF Register, evidence
  <2>6. CASE BuildFromConfig \/ Start \/ Inspect \/ Inspected \/ Proposed \/ Record \/ Tick
             \/ UNCHANGED vars
    BY <2>1, <2>6 DEF BuildFromConfig, Start, Inspect, Inspected, Proposed, Record, Tick, vars,
       evidence
  <2> QED
    BY <1>2, <2>2, <2>3, <2>4, <2>5, <2>6 DEF Next
<1>3. IInv => OnlyOwnSafeRepairs
  OBVIOUS
<1> QED
  BY <1>1, <1>2, <1>3, PTL DEF Spec

(* A module that has been asked has a report, and one with a healthy report *)
(* has said so itself.                                                      *)
HealthInv ==
    /\ \A m \in Modules : reports[m] # NoReport =>
          m \in inspected /\ (reports[m] \in {"HEALTHY", "VERIFIED"} => m \in vouched)
    /\ pc = "idle" => reports = NoReports
    /\ pc = "inspect" => \A m \in inspected \ todo : reports[m] # NoReport
    /\ pc \in {"inspect"} => todo \subseteq inspected
    /\ pc \in {"propose", "execute"} => \A m \in inspected : reports[m] # NoReport

LEMMA HealthStep ==
  ASSUME KnownStatuses, TypeOK, HealthInv, [Next]_vars
  PROVE  HealthInv'
<1>1. NoReport \notin Statuses /\ NoReport # "UNKNOWN"
  BY OrderIsAggregate DEF NoReport, KnownStatuses
<1>2. ASSUME UNCHANGED <<reports, inspected, vouched>>,
             \/ UNCHANGED <<pc, todo>>
             \/ pc' \in {"propose", "execute"} /\ pc \in {"propose", "execute"}
             \/ pc' = "stamp"
      PROVE  HealthInv'
  BY <1>2 DEF HealthInv
<1>3. CASE Stamp \/ Raises
  BY <1>3 DEF Stamp, Raises, CycleEmpty, HealthInv, NoReports
<1>4. CASE Start
  <2>1. /\ pc = "idle" /\ pc' = "inspect" /\ UNCHANGED <<reports, vouched>>
        /\ todo' = registered /\ inspected' = registered
    BY <1>4 DEF Start
  <2> QED
    BY <2>1 DEF HealthInv, NoReports
<1>5. CASE Inspect
  <2> DEFINE m == First(todo)
  <2>1. /\ m \in todo /\ m \in Modules /\ m \in inspected /\ todo' = todo \ {m}
        /\ UNCHANGED <<pc, inspected>> /\ pc = "inspect"
    BY <1>5, FirstIsIn DEF Inspect, TypeOK, HealthInv, evidence
  <2>2. /\ reports' = [reports EXCEPT ![m] = reports'[m]] /\ reports'[m] # NoReport
        /\ reports'[m] \in {"HEALTHY", "VERIFIED"} => m \in vouched'
        /\ vouched \subseteq vouched'
    <3> HIDE DEF m
    <3>1. CASE reports' = [reports EXCEPT ![m] = "UNKNOWN"] /\ UNCHANGED vouched
      BY <1>1, <2>1, <3>1 DEF TypeOK
    <3>2. ASSUME NEW id \in Modules, NEW status \in Statuses,
                 reports' = [reports EXCEPT ![m] = Believed(m, id, status)],
                 vouched' = IF id = m /\ status \in {"HEALTHY", "VERIFIED"}
                            THEN vouched \cup {m} ELSE vouched
          PROVE  /\ reports' = [reports EXCEPT ![m] = reports'[m]] /\ reports'[m] # NoReport
                 /\ reports'[m] \in {"HEALTHY", "VERIFIED"} => m \in vouched'
                 /\ vouched \subseteq vouched'
      BY <1>1, <2>1, <3>2 DEF TypeOK, Believed
    <3> QED
      BY <1>5, <3>1, <3>2 DEF Inspect, m
  <2> HIDE DEF m
  <2>3. \A k \in Modules : k # m => reports'[k] = reports[k]
    BY <2>1, <2>2 DEF TypeOK
  <2>4. inspected \subseteq Modules
    BY DEF TypeOK
  <2> QED
    BY <2>1, <2>2, <2>3, <2>4 DEF HealthInv
<1>6. CASE Inspected
  BY <1>6 DEF Inspected, HealthInv, evidence
<1>7. CASE Propose \/ Proposed \/ Execute \/ Record \/ Tick
  BY <1>2, <1>7 DEF Propose, Proposed, Execute, Record, Tick, evidence
<1>8. ASSUME NEW m \in Modules, Register(m) PROVE HealthInv'
  BY <1>2, <1>8 DEF Register, evidence
<1>9. CASE BuildFromConfig \/ UNCHANGED vars
  BY <1>2, <1>9 DEF BuildFromConfig, vars, evidence
<1> QED
  BY <1>3, <1>4, <1>5, <1>6, <1>7, <1>8, <1>9 DEF Next

(* status.py line 3: no module that did not say itself that it is well is   *)
(* ever part of a healthy result, and no empty registry is one, as long as  *)
(* every report has one of the statuses there are.                          *)
THEOREM HealthStaysVouchedFor ==
  ASSUME KnownStatuses
  PROVE  Spec => HealthIsVouchedFor
<1> DEFINE IInv == TypeOK /\ HistoryInv /\ HealthInv
<1>1. Init => IInv
  BY CycleTypeInit, HistoryStarts DEF Init, HealthInv, NoReports
<1>2. IInv /\ [Next]_vars => IInv'
  BY CycleTypeNext, HistoryStep, HistoryLength, HealthStep DEF HistoryInv
<1>3. ASSUME IInv, [Next]_vars
      PROVE  [recorded' > recorded
                /\ history'[Len(history')].aggregate \in {"HEALTHY", "VERIFIED"} =>
                   inspected # {} /\ inspected \subseteq vouched]_vars
  <2>1. CASE Record
    <3> DEFINE r == [n |-> recorded + 1, started |-> started, finished |-> now, asked |-> asked,
                     aggregate |-> AggregateStatus(Reported), stamped |-> FALSE]
    <3>1. pc = "execute" /\ history' = Trimmed(Append(history, r))
      BY <2>1 DEF Record
    <3>2. history'[Len(history')] = r /\ r.aggregate = AggregateStatus(Reported)
      <4>1. r \in Result
        BY <1>3, AggregateIsWorst DEF Result, TypeOK
      <4>2. history \in Seq(Result) /\ Len(history) <= MaxHistory
        BY <1>3, HistoryLength DEF TypeOK
      <4>3. history'[Len(history')] = r
        <5>1. PICK g : g = history'
          OBVIOUS
        <5> HIDE DEF r
        <5>2. g[Len(g)] = r
          BY <3>1, <4>1, <4>2, <5>1, TrimmedAppend DEF Recorded
        <5> QED
          BY <5>1, <5>2
      <4> QED
        BY <4>3
    <3>3. ASSUME AggregateStatus(Reported) \in {"HEALTHY", "VERIFIED"}
          PROVE  inspected # {} /\ inspected \subseteq vouched
      <4>1. Reported # {} /\ Reported \subseteq {"HEALTHY", "VERIFIED"}
        BY <1>3, <3>3, ReportedTypes, AggregateIsWorst
      <4>2. inspected # {}
        BY <1>3, <4>1 DEF Reported, HealthInv
      <4>3. \A m \in inspected : m \in Modules /\ reports[m] # NoReport
        BY <1>3, <3>1 DEF HealthInv, TypeOK
      <4>4. \A m \in inspected : reports[m] \in Reported
        BY <4>3 DEF Reported
      <4> QED
        BY <1>3, <4>1, <4>2, <4>3, <4>4 DEF HealthInv
    <3> QED
      BY <3>2, <3>3
  <2>2. CASE ~Record
    <3>1. UNCHANGED recorded
      BY <1>3, <2>2 DEF Next, Register, BuildFromConfig, Start, Inspect, Inspected, Propose,
         Proposed, Execute, Stamp, Raises, Tick, vars
    <3> QED
      BY <1>3, <3>1 DEF TypeOK
  <2> QED
    BY <2>1, <2>2
<1> QED
  BY <1>1, <1>2, <1>3, PTL DEF Spec, HealthIsVouchedFor

=============================================================================
