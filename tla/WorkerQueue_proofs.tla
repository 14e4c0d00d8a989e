------------------------- MODULE WorkerQueue_proofs -------------------------
(***************************************************************************)
(* Proofs about WorkerQueue, and about the Observer that reads along, for  *)
(* any number of workers, tasks and other users of the log, with crashes   *)
(* and disk errors or without.                                             *)
(***************************************************************************)
EXTENDS Observer, TLAPS

IInv ==
  /\ TypeOK
  /\ LockDiscipline
  /\ OneWorkerPerTask
  /\ Custody
  /\ DoneIsWitnessed
  /\ CompletionIsTrue
  /\ StartedWasValid

(* The four phases, as a set of strings the provers can compare. *)
LEMMA PhaseType ==
  {Phase(l) : l \in AppendPoint} =
    {"TASK_CLAIMED", "TASK_STARTED", "TASK_COMPLETED", "TASK_FAILED"}
BY DEF Phase, AppendPoint

(* What each append point logs and where it goes on, one by one.           *)
LEMMA PhaseValues ==
  /\ Phase("claimed") = "TASK_CLAIMED"
  /\ Phase("authorize") = "TASK_STARTED"
  /\ Phase("complete") = "TASK_COMPLETED"
  /\ Phase("report") = "TASK_FAILED"
  /\ AfterAppend("claimed") = "validate"
  /\ AfterAppend("authorize") = "execute"
  /\ AfterAppend("complete") = "finish"
  /\ AfterAppend("report") = "retire"
BY DEF Phase, AfterAppend

(* An empty queue with idle workers satisfies every invariant.             *)
LEMMA InitInv == Init => IInv
BY WQAssumption, PhaseType DEF Init, AuditInit, IInv, TypeOK, LockDiscipline,
  OneWorkerPerTask, Custody, CustodyOf, DoneIsWitnessed, CompletionIsTrue,
  StartedWasValid, Places, Steps, AppendPoint, Holding, Audited, NoResult,
  Claimed, Started

(* The event on disk is about the task the worker holds, so an append that *)
(* ends establishes what the next position needs; one that raises enters   *)
(* the handler, which needs nothing.                                       *)
LEMMA EndAppendInv ==
  ASSUME IInv, NEW w \in Worker, EndAppend(w)
  PROVE  IInv'
<1> DEFINE e == [phase |-> Phase(pc[w]), of |-> cur[w]]
<1> USE DEF IInv
<1>1. /\ pc[w] \in AppendPoint /\ w \in appending
      /\ cur[w] \in Task
      /\ UNCHANGED <<place, whole, result, cur, listing>>
  BY DEF EndAppend, Custody, CustodyOf, TypeOK, Holding, Steps, AppendPoint
<1>2. /\ audit' \in {audit, audit \cup {e}}
      /\ lockFile' \in {Free, lockFile}
      /\ appending' = appending \ {w}
  BY DEF EndAppend, EventAppended, AppendRaises, EventOf
<1>3. \/ /\ audit' = audit \cup {e}
         /\ pc' = [pc EXCEPT ![w] = AfterAppend(pc[w])]
      \/ pc' = [pc EXCEPT ![w] = Handler(pc[w])]
  BY DEF EndAppend, EventAppended, EventOf, Goto
<1>4. /\ AfterAppend(pc[w]) \in Holding \ AppendPoint
      /\ Handler(pc[w]) \in {"raise", "retire"}
      /\ Phase(pc[w]) \in {Phase(l) : l \in AppendPoint}
  BY <1>1, PhaseValues DEF AppendPoint, Holding, Steps, Handler
<1>5. TypeOK'
  <2>1. e \in [phase : {Phase(l) : l \in AppendPoint}, of : Task]
    BY <1>1, <1>4
  <2>2. audit' \in SUBSET [phase : {Phase(l) : l \in AppendPoint}, of : Task]
    BY <1>2, <2>1 DEF TypeOK
  <2>3. pc' \in [Worker -> Steps]
    BY <1>3, <1>4 DEF TypeOK, Holding, Steps
  <2>. QED BY <1>1, <1>2, <2>2, <2>3 DEF TypeOK
<1>6. LockDiscipline'
  BY <1>1 DEF LockDiscipline, EndAppend, EventAppended, AppendRaises, TypeOK
<1>7. OneWorkerPerTask'
  BY <1>1 DEF OneWorkerPerTask
<1>8. Custody'
  <2> SUFFICES ASSUME NEW v \in Worker PROVE CustodyOf(v)'
    BY DEF Custody
  <2>0. /\ CustodyOf(v) /\ CustodyOf(w)
        /\ pc \in [Worker -> Steps]
    BY DEF Custody, TypeOK
  <2>1. CASE v # w
    <3>1. pc'[v] = pc[v]
      BY <1>3, <2>0, <2>1
    <3>. QED BY <1>1, <1>2, <2>0, <2>1, <3>1 DEF CustodyOf, Audited, Acceptable
  <2>2. CASE v = w
    <3>1. CASE pc' = [pc EXCEPT ![w] = Handler(pc[w])]
      <4>1. pc'[w] \in {"raise", "retire"}
        BY <1>4, <2>0, <3>1
      <4>. QED BY <1>1, <1>2, <2>2, <4>1, WQAssumption
           DEF CustodyOf, Holding, Steps, AppendPoint, Claimed, Started
    <3>2. CASE /\ audit' = audit \cup {e}
               /\ pc' = [pc EXCEPT ![w] = AfterAppend(pc[w])]
      <4>1. pc'[w] = AfterAppend(pc[w]) /\ e \in audit'
        BY <2>0, <3>2
      <4>2. CASE pc[w] = "claimed"
        BY <1>1, <1>2, <2>0, <2>2, <3>2, <4>1, <4>2, PhaseValues
        DEF CustodyOf, Holding, Steps, AppendPoint, Claimed, Started, Audited,
          Acceptable
      <4>3. CASE pc[w] = "authorize"
        BY <1>1, <1>2, <2>0, <2>2, <3>2, <4>1, <4>3, PhaseValues
        DEF CustodyOf, Holding, Steps, AppendPoint, Claimed, Started, Audited,
          Acceptable
      <4>4. CASE pc[w] = "complete"
        BY <1>1, <1>2, <2>0, <2>2, <3>2, <4>1, <4>4, PhaseValues
        DEF CustodyOf, Holding, Steps, AppendPoint, Claimed, Started, Audited,
          Acceptable
      <4>5. CASE pc[w] = "report"
        BY <1>1, <1>2, <2>0, <2>2, <3>2, <4>1, <4>5, PhaseValues
        DEF CustodyOf, Holding, Steps, AppendPoint, Claimed, Started, Audited,
          Acceptable
      <4>. QED BY <1>1, <4>2, <4>3, <4>4, <4>5 DEF AppendPoint
    <3>. QED BY <1>3, <3>1, <3>2
  <2>. QED BY <2>1, <2>2
<1>9. DoneIsWitnessed'
  BY <1>1, <1>2 DEF DoneIsWitnessed, Audited
<1>10. CompletionIsTrue'
  <2> SUFFICES ASSUME NEW t \in Task, Audited(t, "TASK_COMPLETED")',
                      ~ Audited(t, "TASK_COMPLETED")
               PROVE  result[IdOf[t]] = [status |-> "COMPLETED", of |-> t]
    BY <1>1, <1>2 DEF CompletionIsTrue, Audited
  <2>1. Phase(pc[w]) = "TASK_COMPLETED" /\ cur[w] = t
    BY <1>2 DEF Audited
  <2>2. pc[w] = "complete"
    BY <1>1, <2>1, PhaseValues DEF AppendPoint
  <2>. QED BY <2>1, <2>2 DEF Custody, CustodyOf
<1>11. StartedWasValid'
  <2> SUFFICES ASSUME NEW t \in Task, Audited(t, "TASK_STARTED")',
                      ~ Audited(t, "TASK_STARTED")
               PROVE  Acceptable(t)
    BY <1>1, <1>2 DEF StartedWasValid, Audited, Acceptable
  <2>1. Phase(pc[w]) = "TASK_STARTED" /\ cur[w] = t
    BY <1>2 DEF Audited
  <2>2. pc[w] = "authorize"
    BY <1>1, <2>1, PhaseValues DEF AppendPoint
  <2>. QED BY <2>1, <2>2 DEF Custody, CustodyOf
<1>. QED BY <1>5, <1>6, <1>7, <1>8, <1>9, <1>10, <1>11

(* A new file in pending/ belongs to no worker and is witnessed by         *)
(* nothing.                                                                *)
LEMMA SubmitInv ==
  ASSUME IInv, NEW t \in Task, Submit(t)
  PROVE  IInv'
<1> USE WQAssumption DEF IInv
<1>1. TypeOK'
  BY DEF TypeOK, Submit, auditVars, workVars, Goto, Custody, CustodyOf,
    Places, Steps, AppendPoint, Holding
<1>2. LockDiscipline'
  BY DEF LockDiscipline, Submit, auditVars, workVars, Goto, TypeOK
<1>3. OneWorkerPerTask'
  BY DEF OneWorkerPerTask, Submit, auditVars, workVars, Goto, TypeOK
<1>4. Custody'
  BY DEF Custody, CustodyOf, Audited, Acceptable, Submit, auditVars, workVars,
    Goto
<1>5. DoneIsWitnessed'
  BY DEF DoneIsWitnessed, Submit, auditVars, workVars, Goto, TypeOK, Audited
<1>6. CompletionIsTrue'
  BY DEF CompletionIsTrue, Submit, auditVars, workVars, Goto, TypeOK, Custody,
    CustodyOf, Audited, Started
<1>7. StartedWasValid'
  BY DEF StartedWasValid, Submit, auditVars, workVars, Goto, Acceptable, Audited
<1>. QED BY <1>1, <1>2, <1>3, <1>4, <1>5, <1>6, <1>7

(* A producer that finishes its file only makes more tasks acceptable.     *)
LEMMA FinishWritingInv ==
  ASSUME IInv, NEW t \in Task, FinishWriting(t)
  PROVE  IInv'
<1> USE WQAssumption DEF IInv
<1>1. TypeOK'
  BY DEF TypeOK, FinishWriting, auditVars, workVars, Goto, Custody, CustodyOf,
    Places, Steps, AppendPoint, Holding
<1>2. LockDiscipline'
  BY DEF LockDiscipline, FinishWriting, auditVars, workVars, Goto, TypeOK
<1>3. OneWorkerPerTask'
  BY DEF OneWorkerPerTask, FinishWriting, auditVars, workVars, Goto, TypeOK
<1>4. Custody'
  BY DEF Custody, CustodyOf, Audited, Acceptable, FinishWriting, auditVars,
    workVars, Goto
<1>5. DoneIsWitnessed'
  BY DEF DoneIsWitnessed, FinishWriting, auditVars, workVars, Goto, TypeOK,
    Audited
<1>6. CompletionIsTrue'
  BY DEF CompletionIsTrue, FinishWriting, auditVars, workVars, Goto, TypeOK,
    Custody, CustodyOf, Audited, Started
<1>7. StartedWasValid'
  BY DEF StartedWasValid, FinishWriting, auditVars, workVars, Goto,
    Acceptable, Audited
<1>. QED BY <1>1, <1>2, <1>3, <1>4, <1>5, <1>6, <1>7

(* A listing, however stale it becomes, says nothing about custody.        *)
LEMMA ScanInv ==
  ASSUME IInv, NEW w \in Worker, Scan(w)
  PROVE  IInv'
<1> USE WQAssumption DEF IInv
<1>1. TypeOK'
  BY DEF TypeOK, Scan, auditVars, workVars, Goto, Custody, CustodyOf, Places,
    Steps, AppendPoint, Holding
<1>2. LockDiscipline'
  BY DEF LockDiscipline, Scan, auditVars, workVars, Goto, TypeOK
<1>3. OneWorkerPerTask'
  BY DEF OneWorkerPerTask, Scan, auditVars, workVars, Goto, TypeOK
<1>4. Custody'
  <2> SUFFICES ASSUME NEW v \in Worker PROVE CustodyOf(v)'
    BY DEF Custody
  <2>0. CustodyOf(v) /\ CustodyOf(w)
    BY DEF Custody
  <2>1. CASE v # w
    <3>1. /\ pc'[v] = pc[v] /\ cur'[v] = cur[v]
          /\ v \in appending' => v \in appending
          /\ UNCHANGED <<audit, whole, result>>
      BY <2>1 DEF Scan, auditVars, workVars, Goto, TypeOK
    <3>. QED BY <2>0, <3>1 DEF CustodyOf, Holding, Steps, AppendPoint,
      Claimed, Started, Audited, Acceptable
  <2>2. CASE v = w
    <3>1. pc[w] = "idle" /\ pc'[w] = "claim" /\ UNCHANGED <<appending, cur>>
      BY DEF Scan, auditVars, workVars, Goto, TypeOK
    <3>. QED BY <2>0, <2>2, <3>1 DEF CustodyOf, Holding, Steps, AppendPoint,
      Claimed, Started, Audited, Acceptable
  <2>. QED BY <2>1, <2>2
<1>5. DoneIsWitnessed'
  BY DEF DoneIsWitnessed, Scan, auditVars, workVars, Goto, TypeOK, Audited
<1>6. CompletionIsTrue'
  BY DEF CompletionIsTrue, Scan, auditVars, workVars, Goto, TypeOK, Custody,
    CustodyOf, Audited, Started
<1>7. StartedWasValid'
  BY DEF StartedWasValid, Scan, auditVars, workVars, Goto, Acceptable, Audited
<1>. QED BY <1>1, <1>2, <1>3, <1>4, <1>5, <1>6, <1>7

(* A rename succeeds only on a file that is still in pending/, which       *)
(* nobody holds: the listing does not matter.                              *)
LEMMA TryClaimInv ==
  ASSUME IInv, NEW w \in Worker, TryClaim(w)
  PROVE  IInv'
<1> USE WQAssumption DEF IInv
<1>1. TypeOK'
  <2>1. PICK t \in listing[w] : TakeFirst(w, t)
    BY DEF TryClaim
  <2>2. t \in Task
    BY <2>1 DEF TypeOK
  <2>. QED
    BY <2>1, <2>2 DEF TypeOK, TryClaim, TakeFirst, Goto, auditVars, Places,
      Steps, AppendPoint
<1>2. LockDiscipline'
  BY DEF LockDiscipline, TryClaim, TakeFirst, Claimable, auditVars, workVars,
    Goto, TypeOK
<1>3. OneWorkerPerTask'
  <2>1. PICK t \in listing[w] : TakeFirst(w, t)
    BY DEF TryClaim
  <2>2. t \in Task
    BY <2>1 DEF TypeOK
  <2>3. CASE Claimable(t)
    <3>1. \A v \in Worker : cur[v] # t
      BY <2>2, <2>3 DEF OneWorkerPerTask, Claimable
    <3>2. cur' = [cur EXCEPT ![w] = t] /\ place' = [place EXCEPT ![t] = "processing"]
      BY <2>1, <2>3 DEF TakeFirst
    <3>. QED BY <2>2, <3>1, <3>2 DEF OneWorkerPerTask, TypeOK
  <2>4. CASE ~ Claimable(t)
    BY <2>1, <2>4 DEF TakeFirst, OneWorkerPerTask
  <2>. QED BY <2>3, <2>4
<1>4. Custody'
  <2> SUFFICES ASSUME NEW v \in Worker PROVE CustodyOf(v)'
    BY DEF Custody
  <2>0. CustodyOf(v) /\ CustodyOf(w)
    BY DEF Custody
  <2>1. CASE v # w
    <3>1. /\ pc'[v] = pc[v] /\ cur'[v] = cur[v]
          /\ v \in appending' => v \in appending
          /\ UNCHANGED <<audit, whole, result>>
      BY <2>1 DEF TryClaim, TakeFirst, Claimable, auditVars, workVars, Goto,
        TypeOK
    <3>. QED BY <2>0, <3>1 DEF CustodyOf, Holding, Steps, AppendPoint,
      Claimed, Started, Audited, Acceptable
  <2>2. CASE v = w
    <3>1. /\ pc[w] = "claim" /\ UNCHANGED <<appending>>
          /\ \/ pc'[w] = "claimed" /\ cur'[w] \in Task
             \/ pc'[w] = "claim" /\ UNCHANGED cur
      BY DEF TryClaim, TakeFirst, Claimable, auditVars, workVars, Goto, TypeOK
    <3>. QED BY <2>0, <2>2, <3>1 DEF CustodyOf, Holding, Steps, AppendPoint,
      Claimed, Started, Audited, Acceptable
  <2>. QED BY <2>1, <2>2
<1>5. DoneIsWitnessed'
  <2>1. PICK t \in listing[w] : TakeFirst(w, t)
    BY DEF TryClaim
  <2>2. \A u \in Task : place'[u] = "done" => place[u] = "done"
    BY <2>1 DEF TakeFirst, Claimable, TypeOK
  <2>. QED BY <2>2 DEF DoneIsWitnessed, TryClaim, auditVars, Audited
<1>6. CompletionIsTrue'
  BY DEF CompletionIsTrue, TryClaim, TakeFirst, Claimable, auditVars,
    workVars, Goto, TypeOK, Custody, CustodyOf, Audited, Started
<1>7. StartedWasValid'
  BY DEF StartedWasValid, TryClaim, TakeFirst, Claimable, auditVars, workVars,
    Goto, Acceptable, Audited
<1>. QED BY <1>1, <1>2, <1>3, <1>4, <1>5, <1>6, <1>7

(* A worker that finds nothing holds nothing.                              *)
LEMMA NothingToClaimInv ==
  ASSUME IInv, NEW w \in Worker, NothingToClaim(w)
  PROVE  IInv'
<1> USE WQAssumption DEF IInv
<1>1. TypeOK'
  BY DEF TypeOK, NothingToClaim, auditVars, workVars, Goto, Custody,
    CustodyOf, Places, Steps, AppendPoint, Holding
<1>2. LockDiscipline'
  BY DEF LockDiscipline, NothingToClaim, auditVars, workVars, Goto, TypeOK
<1>3. OneWorkerPerTask'
  BY DEF OneWorkerPerTask, NothingToClaim, auditVars, workVars, Goto, TypeOK
<1>4. Custody'
  <2> SUFFICES ASSUME NEW v \in Worker PROVE CustodyOf(v)'
    BY DEF Custody
  <2>0. CustodyOf(v) /\ CustodyOf(w)
    BY DEF Custody
  <2>1. CASE v # w
    <3>1. /\ pc'[v] = pc[v] /\ cur'[v] = cur[v]
          /\ v \in appending' => v \in appending
          /\ UNCHANGED <<audit, whole, result>>
      BY <2>1 DEF NothingToClaim, auditVars, workVars, Goto, TypeOK
    <3>. QED BY <2>0, <3>1 DEF CustodyOf, Holding, Steps, AppendPoint,
      Claimed, Started, Audited, Acceptable
  <2>2. CASE v = w
    <3>1. pc[w] = "claim" /\ pc'[w] = "idle" /\ UNCHANGED <<appending, cur>>
      BY DEF NothingToClaim, auditVars, workVars, Goto, TypeOK
    <3>. QED BY <2>0, <2>2, <3>1 DEF CustodyOf, Holding, Steps, AppendPoint,
      Claimed, Started, Audited, Acceptable
  <2>. QED BY <2>1, <2>2
<1>5. DoneIsWitnessed'
  BY DEF DoneIsWitnessed, NothingToClaim, auditVars, workVars, Goto, TypeOK,
    Audited
<1>6. CompletionIsTrue'
  BY DEF CompletionIsTrue, NothingToClaim, auditVars, workVars, Goto, TypeOK,
    Custody, CustodyOf, Audited, Started
<1>7. StartedWasValid'
  BY DEF StartedWasValid, NothingToClaim, auditVars, workVars, Goto,
    Acceptable, Audited
<1>. QED BY <1>1, <1>2, <1>3, <1>4, <1>5, <1>6, <1>7

(* A worker whose claim raises holds nothing either.                       *)
LEMMA ClaimRaisesInv ==
  ASSUME IInv, NEW w \in Worker, ClaimRaises(w)
  PROVE  IInv'
<1> USE WQAssumption DEF IInv
<1>1. TypeOK'
  BY DEF TypeOK, ClaimRaises, auditVars, workVars, Goto, Custody,
    CustodyOf, Places, Steps, AppendPoint, Holding
<1>2. LockDiscipline'
  BY DEF LockDiscipline, ClaimRaises, auditVars, workVars, Goto, TypeOK
<1>3. OneWorkerPerTask'
  BY DEF OneWorkerPerTask, ClaimRaises, auditVars, workVars, Goto, TypeOK
<1>4. Custody'
  <2> SUFFICES ASSUME NEW v \in Worker PROVE CustodyOf(v)'
    BY DEF Custody
  <2>0. CustodyOf(v) /\ CustodyOf(w)
    BY DEF Custody
  <2>1. CASE v # w
    <3>1. /\ pc'[v] = pc[v] /\ cur'[v] = cur[v]
          /\ v \in appending' => v \in appending
          /\ UNCHANGED <<audit, whole, result>>
      BY <2>1 DEF ClaimRaises, auditVars, workVars, Goto, TypeOK
    <3>. QED BY <2>0, <3>1 DEF CustodyOf, Holding, Steps, AppendPoint,
      Claimed, Started, Audited, Acceptable
  <2>2. CASE v = w
    <3>1. pc[w] = "claim" /\ pc'[w] = "idle" /\ UNCHANGED <<appending, cur>>
      BY DEF ClaimRaises, auditVars, workVars, Goto, TypeOK
    <3>. QED BY <2>0, <2>2, <3>1 DEF CustodyOf, Holding, Steps, AppendPoint,
      Claimed, Started, Audited, Acceptable
  <2>. QED BY <2>1, <2>2
<1>5. DoneIsWitnessed'
  BY DEF DoneIsWitnessed, ClaimRaises, auditVars, workVars, Goto, TypeOK,
    Audited
<1>6. CompletionIsTrue'
  BY DEF CompletionIsTrue, ClaimRaises, auditVars, workVars, Goto, TypeOK,
    Custody, CustodyOf, Audited, Started
<1>7. StartedWasValid'
  BY DEF StartedWasValid, ClaimRaises, auditVars, workVars, Goto,
    Acceptable, Audited
<1>. QED BY <1>1, <1>2, <1>3, <1>4, <1>5, <1>6, <1>7

(* Opening the lock file excludes every other appender; being refused      *)
(* sends the worker into its handler with the task still in its hands.     *)
LEMMA StartAppendInv ==
  ASSUME IInv, NEW w \in Worker, StartAppend(w)
  PROVE  IInv'
<1> USE WQAssumption DEF IInv
<1>1. TypeOK'
  BY DEF TypeOK, StartAppend, LockOpens, LockRefused, Handler, auditVars,
    workVars, Goto, Custody, CustodyOf, Places, Steps, AppendPoint, Holding
<1>2. LockDiscipline'
  BY DEF LockDiscipline, StartAppend, LockOpens, LockRefused, Handler,
    auditVars, workVars, Goto, TypeOK
<1>3. OneWorkerPerTask'
  BY DEF OneWorkerPerTask, StartAppend, LockOpens, LockRefused, Handler,
    auditVars, workVars, Goto, TypeOK
<1>4. Custody'
  <2> SUFFICES ASSUME NEW v \in Worker PROVE CustodyOf(v)'
    BY DEF Custody
  <2>0. CustodyOf(v) /\ CustodyOf(w)
    BY DEF Custody
  <2>1. CASE v # w
    <3>1. /\ pc'[v] = pc[v] /\ cur'[v] = cur[v]
          /\ v \in appending' => v \in appending
          /\ UNCHANGED <<audit, whole, result>>
      BY <2>1 DEF StartAppend, LockOpens, LockRefused, Handler, auditVars,
        workVars, Goto, TypeOK
    <3>. QED BY <2>0, <3>1 DEF CustodyOf, Holding, Steps, AppendPoint,
      Claimed, Started, Audited, Acceptable
  <2>2. CASE v = w
    <3>1. /\ pc[w] \in AppendPoint
          /\ \/ pc'[w] = pc[w]
             \/ pc'[w] \in {"raise", "retire"} /\ w \notin appending'
          /\ UNCHANGED <<cur, audit, whole, result>>
      BY DEF StartAppend, LockOpens, LockRefused, Handler, auditVars,
        workVars, Goto, TypeOK
    <3>. QED BY <2>0, <2>2, <3>1 DEF CustodyOf, Holding, Steps, AppendPoint,
      Claimed, Started, Audited, Acceptable
  <2>. QED BY <2>1, <2>2
<1>5. DoneIsWitnessed'
  BY DEF DoneIsWitnessed, StartAppend, LockOpens, LockRefused, Handler,
    auditVars, workVars, Goto, TypeOK, Audited
<1>6. CompletionIsTrue'
  BY DEF CompletionIsTrue, StartAppend, LockOpens, LockRefused, Handler,
    auditVars, workVars, Goto, TypeOK, Custody, CustodyOf, Audited, Started
<1>7. StartedWasValid'
  BY DEF StartedWasValid, StartAppend, LockOpens, LockRefused, Handler,
    auditVars, workVars, Goto, Acceptable, Audited
<1>. QED BY <1>1, <1>2, <1>3, <1>4, <1>5, <1>6, <1>7

(* A worker passes validation only with an acceptable document.            *)
LEMMA ValidateInv ==
  ASSUME IInv, NEW w \in Worker, Validate(w)
  PROVE  IInv'
<1> USE WQAssumption DEF IInv
<1>1. TypeOK'
  BY DEF TypeOK, Validate, auditVars, workVars, Goto, Custody, CustodyOf,
    Places, Steps, AppendPoint, Holding
<1>2. LockDiscipline'
  BY DEF LockDiscipline, Validate, auditVars, workVars, Goto, TypeOK
<1>3. OneWorkerPerTask'
  BY DEF OneWorkerPerTask, Validate, auditVars, workVars, Goto, TypeOK
<1>4. Custody'
  <2> SUFFICES ASSUME NEW v \in Worker PROVE CustodyOf(v)'
    BY DEF Custody
  <2>0. CustodyOf(v) /\ CustodyOf(w)
    BY DEF Custody
  <2>1. CASE v # w
    <3>1. /\ pc'[v] = pc[v] /\ cur'[v] = cur[v]
          /\ v \in appending' => v \in appending
          /\ UNCHANGED <<audit, whole, result>>
      BY <2>1 DEF Validate, auditVars, workVars, Goto, TypeOK
    <3>. QED BY <2>0, <3>1 DEF CustodyOf, Holding, Steps, AppendPoint,
      Claimed, Started, Audited, Acceptable
  <2>2. CASE v = w
    <3>1. /\ pc[w] = "validate" /\ UNCHANGED <<appending, cur, audit, whole, result>>
          /\ \/ pc'[w] = "authorize" /\ Acceptable(cur[w])
             \/ pc'[w] = "raise"
      BY DEF Validate, auditVars, workVars, Goto, TypeOK
    <3>. QED BY <2>0, <2>2, <3>1 DEF CustodyOf, Holding, Steps, AppendPoint,
      Claimed, Started, Audited, Acceptable
  <2>. QED BY <2>1, <2>2
<1>5. DoneIsWitnessed'
  BY DEF DoneIsWitnessed, Validate, auditVars, workVars, Goto, TypeOK, Audited
<1>6. CompletionIsTrue'
  BY DEF CompletionIsTrue, Validate, auditVars, workVars, Goto, TypeOK,
    Custody, CustodyOf, Audited, Started
<1>7. StartedWasValid'
  BY DEF StartedWasValid, Validate, auditVars, workVars, Goto, Acceptable,
    Audited
<1>. QED BY <1>1, <1>2, <1>3, <1>4, <1>5, <1>6, <1>7

(* Executing a task changes no file.                                       *)
LEMMA ExecuteInv ==
  ASSUME IInv, NEW w \in Worker, Execute(w)
  PROVE  IInv'
<1> USE WQAssumption DEF IInv
<1>1. TypeOK'
  BY DEF TypeOK, Execute, auditVars, workVars, Goto, Custody, CustodyOf,
    Places, Steps, AppendPoint, Holding
<1>2. LockDiscipline'
  BY DEF LockDiscipline, Execute, auditVars, workVars, Goto, TypeOK
<1>3. OneWorkerPerTask'
  BY DEF OneWorkerPerTask, Execute, auditVars, workVars, Goto, TypeOK
<1>4. Custody'
  <2> SUFFICES ASSUME NEW v \in Worker PROVE CustodyOf(v)'
    BY DEF Custody
  <2>0. CustodyOf(v) /\ CustodyOf(w)
    BY DEF Custody
  <2>1. CASE v # w
    <3>1. /\ pc'[v] = pc[v] /\ cur'[v] = cur[v]
          /\ v \in appending' => v \in appending
          /\ UNCHANGED <<audit, whole, result>>
      BY <2>1 DEF Execute, auditVars, workVars, Goto, TypeOK
    <3>. QED BY <2>0, <3>1 DEF CustodyOf, Holding, Steps, AppendPoint,
      Claimed, Started, Audited, Acceptable
  <2>2. CASE v = w
    <3>1. /\ pc[w] = "execute" /\ UNCHANGED <<appending, cur, audit, whole, result>>
          /\ pc'[w] \in {"publish", "raise"}
      BY DEF Execute, auditVars, workVars, Goto, TypeOK
    <3>. QED BY <2>0, <2>2, <3>1 DEF CustodyOf, Holding, Steps, AppendPoint,
      Claimed, Started, Audited, Acceptable
  <2>. QED BY <2>1, <2>2
<1>5. DoneIsWitnessed'
  BY DEF DoneIsWitnessed, Execute, auditVars, workVars, Goto, TypeOK, Audited
<1>6. CompletionIsTrue'
  BY DEF CompletionIsTrue, Execute, auditVars, workVars, Goto, TypeOK,
    Custody, CustodyOf, Audited, Started
<1>7. StartedWasValid'
  BY DEF StartedWasValid, Execute, auditVars, workVars, Goto, Acceptable,
    Audited
<1>. QED BY <1>1, <1>2, <1>3, <1>4, <1>5, <1>6, <1>7

(* The result file is created only when there is none, so no completed     *)
(* result and no other worker is disturbed.                                *)
LEMMA OpenResultInv ==
  ASSUME IInv, NEW w \in Worker, OpenResult(w)
  PROVE  IInv'
<1> USE WQAssumption DEF IInv
<1> DEFINE t == cur[w]
           i == IdOf[t]
<1>1. /\ pc[w] \in {"publish", "raise"} /\ w \notin appending
      /\ t \in Task /\ i \in TaskId
      /\ UNCHANGED <<auditVars, place, whole, cur, listing>>
  BY DEF OpenResult, Custody, CustodyOf, Holding, Steps, AppendPoint, TypeOK
<1>2. \/ /\ result[i] = NoResult
         /\ result' = [result EXCEPT ![i] = [status |-> "partial", of |-> t]]
         /\ \/ pc[w] = "publish" /\ pc' = [pc EXCEPT ![w] = "writeResult"]
            \/ pc[w] = "raise" /\ pc' = [pc EXCEPT ![w] = "writeFailure"]
      \/ /\ result' = result
         /\ \/ pc' = [pc EXCEPT ![w] = "raise"]
            \/ pc' = [pc EXCEPT ![w] = "report"]
  BY <1>1 DEF OpenResult, Writable, Goto
<1>3. \A u \in Task : result[IdOf[u]].of = u => result'[IdOf[u]] = result[IdOf[u]]
  BY <1>1, <1>2 DEF NoResult, TypeOK
<1>4. \A u \in Task : result'[IdOf[u]].status = "COMPLETED"
                      => result'[IdOf[u]] = result[IdOf[u]]
  BY <1>1, <1>2 DEF TypeOK
<1>5. TypeOK'
  BY <1>1, <1>2 DEF TypeOK, auditVars, Steps, AppendPoint
<1>6. Custody'
  <2> SUFFICES ASSUME NEW v \in Worker PROVE CustodyOf(v)'
    BY DEF Custody
  <2>0. CustodyOf(v) /\ CustodyOf(w) /\ pc \in [Worker -> Steps]
    BY DEF Custody, TypeOK
  <2>1. CASE v # w
    <3>1. pc'[v] = pc[v] /\ cur'[v] = cur[v]
      BY <1>1, <1>2, <2>0, <2>1
    <3>2. cur[v] \in Task => cur[v] # t
      BY <2>1 DEF OneWorkerPerTask
    <3>3. pc[v] \in Started \cup {"writeFailure"} => cur[v] \in Task
      BY <2>0 DEF CustodyOf, Started, Holding, Steps, AppendPoint, TypeOK
    <3>4. pc[v] \in {"writeResult", "writeFailure", "complete", "finish"}
            => result'[IdOf[cur[v]]] = result[IdOf[cur[v]]]
      <4> SUFFICES ASSUME pc[v] \in {"writeResult", "writeFailure", "complete", "finish"}
                   PROVE  result'[IdOf[cur[v]]] = result[IdOf[cur[v]]]
        OBVIOUS
      <4>1. cur[v] \in Task /\ cur[v] # t
        BY <3>2, <3>3 DEF Started
      <4>2. result[IdOf[cur[v]]].of = cur[v]
        BY <2>0 DEF CustodyOf
      <4>. QED BY <1>3, <4>1, <4>2
    <3>. QED BY <1>1, <2>0, <3>1, <3>4
         DEF CustodyOf, Audited, Acceptable, auditVars
  <2>2. CASE v = w
    <3>1. \/ /\ result'[i] = [status |-> "partial", of |-> t]
             /\ \/ pc[w] = "publish" /\ pc'[w] = "writeResult"
                \/ pc[w] = "raise" /\ pc'[w] = "writeFailure"
          \/ pc'[w] \in {"raise", "report"}
      BY <1>1, <1>2, <2>0 DEF TypeOK
    <3>. QED BY <1>1, <2>0, <2>2, <3>1
         DEF CustodyOf, Holding, Steps, AppendPoint, Claimed, Started,
           Audited, Acceptable, auditVars
  <2>. QED BY <2>1, <2>2
<1>7. LockDiscipline' /\ OneWorkerPerTask' /\ StartedWasValid'
  BY <1>1 DEF LockDiscipline, OneWorkerPerTask, StartedWasValid, auditVars,
    Audited, Acceptable
<1>8. DoneIsWitnessed'
  BY <1>1, <1>3 DEF DoneIsWitnessed, auditVars, Audited
<1>9. CompletionIsTrue'
  <2> SUFFICES ASSUME NEW u \in Task
               PROVE  /\ Audited(u, "TASK_COMPLETED")' =>
                           result'[IdOf[u]] = [status |-> "COMPLETED", of |-> u]
                      /\ result'[IdOf[u]] = [status |-> "COMPLETED", of |-> u]
                           => Audited(u, "TASK_STARTED")'
    BY DEF CompletionIsTrue
  <2>1. result[IdOf[u]] = [status |-> "COMPLETED", of |-> u]
          => result'[IdOf[u]] = result[IdOf[u]]
    BY <1>3
  <2>2. result'[IdOf[u]] = [status |-> "COMPLETED", of |-> u]
          => result'[IdOf[u]] = result[IdOf[u]]
    BY <1>4
  <2>. QED BY <1>1, <2>1, <2>2 DEF CompletionIsTrue, auditVars, Audited
<1>. QED BY <1>5, <1>6, <1>7, <1>8, <1>9

(* The worker that created the result file is the only one that writes or  *)
(* removes it.                                                             *)
LEMMA WriteResultInv ==
  ASSUME IInv, NEW w \in Worker, WriteResult(w)
  PROVE  IInv'
<1> USE WQAssumption DEF IInv
<1> DEFINE t == cur[w]
           i == IdOf[t]
<1>1. /\ pc[w] \in {"writeResult", "writeFailure"} /\ w \notin appending
      /\ t \in Task /\ i \in TaskId
      /\ result[i] = [status |-> "partial", of |-> t]
      /\ UNCHANGED <<auditVars, place, whole, cur, listing>>
  BY DEF WriteResult, Custody, CustodyOf, Holding, Steps, AppendPoint, TypeOK
<1>2. \/ /\ result' = [result EXCEPT ![i] = [status |-> "COMPLETED", of |-> t]]
         /\ pc[w] = "writeResult" /\ pc' = [pc EXCEPT ![w] = "complete"]
      \/ /\ result' = [result EXCEPT ![i] = [status |-> "FAILED", of |-> t]]
         /\ pc' = [pc EXCEPT ![w] = "report"]
      \/ /\ result' \in {result, [result EXCEPT ![i] = NoResult]}
         /\ \/ pc' = [pc EXCEPT ![w] = "raise"]
            \/ pc' = [pc EXCEPT ![w] = "report"]
  BY <1>1 DEF WriteResult, Goto, TypeOK
<1>3. \A u \in Task : result[IdOf[u]].of = u /\ u # t
                      => result'[IdOf[u]] = result[IdOf[u]]
  BY <1>1, <1>2 DEF TypeOK
<1>4. \A u \in Task : result[IdOf[u]].status = "COMPLETED"
                      => result'[IdOf[u]] = result[IdOf[u]]
  BY <1>1, <1>2 DEF TypeOK
<1>5. TypeOK'
  BY <1>1, <1>2 DEF TypeOK, NoResult, auditVars, Steps, AppendPoint
<1>6. Custody'
  <2> SUFFICES ASSUME NEW v \in Worker PROVE CustodyOf(v)'
    BY DEF Custody
  <2>0. CustodyOf(v) /\ CustodyOf(w) /\ pc \in [Worker -> Steps]
    BY DEF Custody, TypeOK
  <2>1. CASE v # w
    <3>1. pc'[v] = pc[v] /\ cur'[v] = cur[v]
      BY <1>1, <1>2, <2>0, <2>1
    <3>2. cur[v] \in Task => cur[v] # t
      BY <2>1 DEF OneWorkerPerTask
    <3>3. pc[v] \in Started \cup {"writeFailure"} => cur[v] \in Task
      BY <2>0 DEF CustodyOf, Started, Holding, Steps, AppendPoint, TypeOK
    <3>4. pc[v] \in {"writeResult", "writeFailure", "complete", "finish"}
            => result'[IdOf[cur[v]]] = result[IdOf[cur[v]]]
      <4> SUFFICES ASSUME pc[v] \in {"writeResult", "writeFailure", "complete", "finish"}
                   PROVE  result'[IdOf[cur[v]]] = result[IdOf[cur[v]]]
        OBVIOUS
      <4>1. cur[v] \in Task /\ cur[v] # t
        BY <3>2, <3>3 DEF Started
      <4>2. result[IdOf[cur[v]]].of = cur[v]
        BY <2>0 DEF CustodyOf
      <4>. QED BY <1>3, <4>1, <4>2
    <3>. QED BY <1>1, <2>0, <3>1, <3>4
         DEF CustodyOf, Audited, Acceptable, auditVars
  <2>2. CASE v = w
    <3>1. \/ /\ result'[i] = [status |-> "COMPLETED", of |-> t]
             /\ pc[w] = "writeResult" /\ pc'[w] = "complete"
          \/ pc'[w] \in {"raise", "report"}
      BY <1>1, <1>2, <2>0 DEF TypeOK
    <3>. QED BY <1>1, <2>0, <2>2, <3>1
         DEF CustodyOf, Holding, Steps, AppendPoint, Claimed, Started,
           Audited, Acceptable, auditVars
  <2>. QED BY <2>1, <2>2
<1>7. LockDiscipline' /\ OneWorkerPerTask' /\ StartedWasValid'
  BY <1>1 DEF LockDiscipline, OneWorkerPerTask, StartedWasValid, auditVars,
    Audited, Acceptable
<1>8. DoneIsWitnessed'
  BY <1>1, <1>4 DEF DoneIsWitnessed, auditVars, Audited
<1>9. CompletionIsTrue'
  <2>1. \A u \in Task : result'[IdOf[u]] = [status |-> "COMPLETED", of |-> u]
                       => \/ result[IdOf[u]] = [status |-> "COMPLETED", of |-> u]
                          \/ u = t /\ pc[w] = "writeResult"
    BY <1>1, <1>2 DEF TypeOK, NoResult
  <2>2. pc[w] = "writeResult" => Audited(t, "TASK_STARTED")
    BY DEF Custody, CustodyOf, Started
  <2>3. \A u \in Task : result[IdOf[u]] = [status |-> "COMPLETED", of |-> u]
                       => result'[IdOf[u]] = result[IdOf[u]]
    BY <1>4
  <2>. QED BY <1>1, <2>1, <2>2, <2>3 DEF CompletionIsTrue, auditVars, Audited
<1>. QED BY <1>5, <1>6, <1>7, <1>8, <1>9

(* The last rename finds everything a finished task is owed already on     *)
(* disk.                                                                   *)
LEMMA RetireInv ==
  ASSUME IInv, NEW w \in Worker, Retire(w)
  PROVE  IInv'
<1> USE WQAssumption DEF IInv
<1> DEFINE t == cur[w]
<1>1. /\ pc[w] \in {"finish", "retire"} /\ w \notin appending
      /\ t \in Task
      /\ UNCHANGED <<auditVars, whole, result, listing>>
  BY DEF Retire, Destination, Custody, CustodyOf, Holding, Steps, AppendPoint,
    TypeOK
<1>2. \/ /\ \/ pc[w] = "finish" /\ place' = [place EXCEPT ![t] = "done"]
            \/ place' = [place EXCEPT ![t] = "failed"]
            \/ place' = place
         /\ cur' = [cur EXCEPT ![w] = NoTask]
         /\ pc' = [pc EXCEPT ![w] = "idle"]
      \/ /\ pc' = [pc EXCEPT ![w] = "raise"]
         /\ UNCHANGED <<place, cur>>
  BY <1>1 DEF Retire, Destination, Goto
<1>3. TypeOK'
  BY <1>1, <1>2 DEF TypeOK, auditVars, Places, Steps, AppendPoint
<1>4. OneWorkerPerTask'
  <2>1. \A v \in Worker : v # w /\ cur[v] \in Task => cur[v] # t
    BY DEF OneWorkerPerTask
  <2>2. /\ place \in [Task -> Places]
        /\ cur \in [Worker -> Task \cup {NoTask}]
    BY DEF TypeOK
  <2>3. CASE UNCHANGED <<place, cur>>
    BY <2>3 DEF OneWorkerPerTask
  <2>4. CASE /\ cur' = [cur EXCEPT ![w] = NoTask]
             /\ \A u \in Task : u # t => place'[u] = place[u]
    <3>1. \A v \in Worker : cur'[v] # NoTask =>
            v # w /\ cur'[v] = cur[v] /\ cur[v] \in Task
      BY <2>2, <2>4
    <3>2. \A v \in Worker : cur'[v] # NoTask => place'[cur'[v]] = "processing"
      <4> SUFFICES ASSUME NEW v \in Worker, cur'[v] # NoTask
                   PROVE  place'[cur'[v]] = "processing"
        OBVIOUS
      <4>1. v # w /\ cur'[v] = cur[v] /\ cur[v] \in Task /\ cur[v] # NoTask
        BY <3>1
      <4>2. place[cur[v]] = "processing"
        BY <4>1 DEF OneWorkerPerTask
      <4>. QED BY <2>1, <2>4, <4>1, <4>2
    <3>3. \A u, v \in Worker : cur'[u] = cur'[v] /\ cur'[u] # NoTask => u = v
      <4> SUFFICES ASSUME NEW u \in Worker, NEW v \in Worker,
                          cur'[u] = cur'[v], cur'[u] # NoTask
                   PROVE  u = v
        OBVIOUS
      <4>1. cur[u] = cur[v] /\ cur[u] # NoTask
        BY <3>1
      <4>. QED BY <4>1 DEF OneWorkerPerTask
    <3>. QED BY <3>2, <3>3 DEF OneWorkerPerTask
  <2>. QED BY <1>1, <1>2, <2>2, <2>3, <2>4
<1>5. Custody'
  <2> SUFFICES ASSUME NEW v \in Worker PROVE CustodyOf(v)'
    BY DEF Custody
  <2>0. CustodyOf(v) /\ CustodyOf(w) /\ pc \in [Worker -> Steps]
        /\ cur \in [Worker -> Task \cup {NoTask}]
    BY DEF Custody, TypeOK
  <2>1. CASE v # w
    <3>1. pc'[v] = pc[v] /\ cur'[v] = cur[v]
      BY <1>1, <1>2, <2>0, <2>1
    <3>. QED BY <1>1, <2>0, <3>1
         DEF CustodyOf, Audited, Acceptable, auditVars
  <2>2. CASE v = w
    <3>1. \/ pc'[w] = "idle" /\ cur'[w] = NoTask
          \/ pc'[w] = "raise" /\ cur'[w] = t
      BY <1>1, <1>2, <2>0
    <3>. QED BY <1>1, <2>0, <2>2, <3>1
         DEF CustodyOf, Holding, Steps, AppendPoint, Claimed, Started, auditVars
  <2>. QED BY <2>1, <2>2
<1>6. LockDiscipline' /\ StartedWasValid' /\ CompletionIsTrue'
  BY <1>1 DEF LockDiscipline, StartedWasValid, CompletionIsTrue, auditVars,
    Audited, Acceptable
<1>7. DoneIsWitnessed'
  <2>1. pc[w] = "finish" =>
          /\ result[IdOf[t]] = [status |-> "COMPLETED", of |-> t]
          /\ Audited(t, "TASK_CLAIMED") /\ Audited(t, "TASK_STARTED")
          /\ Audited(t, "TASK_COMPLETED")
    BY DEF Custody, CustodyOf, Claimed, Started
  <2>0. place \in [Task -> Places]
    BY DEF TypeOK
  <2>2. \A u \in Task :
          place'[u] = "done" => (place[u] = "done" \/ (u = t /\ pc[w] = "finish"))
    <3>1. \/ pc[w] = "finish" /\ place' = [place EXCEPT ![t] = "done"]
          \/ place' = [place EXCEPT ![t] = "failed"]
          \/ place' = place
      BY <1>2
    <3>2. CASE place' = place
      BY <3>2
    <3>3. CASE place' = [place EXCEPT ![t] = "failed"]
      BY <1>1, <2>0, <3>3
    <3>4. CASE pc[w] = "finish" /\ place' = [place EXCEPT ![t] = "done"]
      BY <1>1, <2>0, <3>4
    <3>. QED BY <3>1, <3>2, <3>3, <3>4
  <2>3. \A u \in Task : place'[u] = "done" =>
          /\ result[IdOf[u]] = [status |-> "COMPLETED", of |-> u]
          /\ Audited(u, "TASK_CLAIMED") /\ Audited(u, "TASK_STARTED")
          /\ Audited(u, "TASK_COMPLETED")
    BY <2>1, <2>2 DEF DoneIsWitnessed
  <2>. QED BY <1>1, <2>3 DEF DoneIsWitnessed, auditVars, Audited
<1>. QED BY <1>3, <1>4, <1>5, <1>6, <1>7

(* A dead worker holds nothing and appends nothing; what it wrote stays    *)
(* true.                                                                   *)
LEMMA CrashInv ==
  ASSUME IInv, NEW w \in Worker, Crash(w)
  PROVE  IInv'
<1> USE WQAssumption DEF IInv
<1> DEFINE e == [phase |-> Phase(pc[w]), of |-> cur[w]]
<1>1. /\ UNCHANGED <<lockFile, place, whole, result>>
      /\ appending' = appending \ {w}
      /\ pc' = [pc EXCEPT ![w] = "down"]
      /\ cur' = [cur EXCEPT ![w] = NoTask]
      /\ listing' = [listing EXCEPT ![w] = {}]
  BY DEF Crash, DiesAppending, auditVars, Goto, TypeOK
<1>2. \/ audit' = audit
      \/ /\ w \in appending /\ pc[w] \in AppendPoint /\ cur[w] \in Task
         /\ audit' = audit \cup {e}
  BY DEF Crash, DiesAppending, auditVars, EventOf, Custody, CustodyOf, TypeOK,
    Holding, Steps, AppendPoint
<1>3. TypeOK'
  <2>1. audit' \in SUBSET [phase : {Phase(l) : l \in AppendPoint}, of : Task]
    BY <1>2 DEF TypeOK
  <2>. QED BY <1>1, <2>1 DEF TypeOK, Steps, AppendPoint
<1>4. LockDiscipline' /\ OneWorkerPerTask'
  BY <1>1 DEF LockDiscipline, OneWorkerPerTask, TypeOK
<1>5. Custody'
  <2> SUFFICES ASSUME NEW v \in Worker PROVE CustodyOf(v)'
    BY DEF Custody
  <2>0. CustodyOf(v) /\ pc \in [Worker -> Steps]
        /\ cur \in [Worker -> Task \cup {NoTask}]
    BY DEF Custody, TypeOK
  <2>1. CASE v # w
    BY <1>1, <1>2, <2>0, <2>1 DEF CustodyOf, Audited, Acceptable
  <2>2. CASE v = w
    <3>1. pc'[w] = "down" /\ cur'[w] = NoTask /\ w \notin appending'
      BY <1>1, <2>0
    <3>. QED BY <2>2, <3>1 DEF CustodyOf, Holding, Steps, AppendPoint,
      Claimed, Started
  <2>. QED BY <2>1, <2>2
<1>6. DoneIsWitnessed'
  BY <1>1, <1>2 DEF DoneIsWitnessed, Audited
<1>7. CompletionIsTrue'
  <2> SUFFICES ASSUME NEW t \in Task, Audited(t, "TASK_COMPLETED")',
                      ~ Audited(t, "TASK_COMPLETED")
               PROVE  result[IdOf[t]] = [status |-> "COMPLETED", of |-> t]
    BY <1>1, <1>2 DEF CompletionIsTrue, Audited
  <2>1. pc[w] \in AppendPoint /\ Phase(pc[w]) = "TASK_COMPLETED" /\ cur[w] = t
    BY <1>2 DEF Audited
  <2>2. pc[w] = "complete"
    BY <2>1, PhaseValues DEF AppendPoint
  <2>. QED BY <2>1, <2>2 DEF Custody, CustodyOf
<1>8. StartedWasValid'
  <2> SUFFICES ASSUME NEW t \in Task, Audited(t, "TASK_STARTED")',
                      ~ Audited(t, "TASK_STARTED")
               PROVE  Acceptable(t)
    BY <1>1, <1>2 DEF StartedWasValid, Audited, Acceptable
  <2>1. pc[w] \in AppendPoint /\ Phase(pc[w]) = "TASK_STARTED" /\ cur[w] = t
    BY <1>2 DEF Audited
  <2>2. pc[w] = "authorize"
    BY <2>1, PhaseValues DEF AppendPoint
  <2>. QED BY <2>1, <2>2 DEF Custody, CustodyOf
<1>. QED BY <1>3, <1>4, <1>5, <1>6, <1>7, <1>8

(* A restarted worker starts with empty hands.                             *)
LEMMA RestartInv ==
  ASSUME IInv, NEW w \in Worker, Restart(w)
  PROVE  IInv'
<1> USE WQAssumption DEF IInv
<1>1. TypeOK'
  BY DEF TypeOK, Restart, auditVars, workVars, Goto, Custody, CustodyOf,
    Places, Steps, AppendPoint, Holding
<1>2. LockDiscipline'
  BY DEF LockDiscipline, Restart, auditVars, workVars, Goto, TypeOK
<1>3. OneWorkerPerTask'
  BY DEF OneWorkerPerTask, Restart, auditVars, workVars, Goto, TypeOK
<1>4. Custody'
  <2> SUFFICES ASSUME NEW v \in Worker PROVE CustodyOf(v)'
    BY DEF Custody
  <2>0. CustodyOf(v) /\ CustodyOf(w)
    BY DEF Custody
  <2>1. CASE v # w
    <3>1. /\ pc'[v] = pc[v] /\ cur'[v] = cur[v]
          /\ v \in appending' => v \in appending
          /\ UNCHANGED <<audit, whole, result>>
      BY <2>1 DEF Restart, auditVars, workVars, Goto, TypeOK
    <3>. QED BY <2>0, <3>1 DEF CustodyOf, Holding, Steps, AppendPoint,
      Claimed, Started, Audited, Acceptable
  <2>2. CASE v = w
    <3>1. pc[w] = "down" /\ pc'[w] = "idle" /\ UNCHANGED <<appending, cur>>
      BY DEF Restart, auditVars, workVars, Goto, TypeOK
    <3>. QED BY <2>0, <2>2, <3>1 DEF CustodyOf, Holding, Steps, AppendPoint,
      Claimed, Started, Audited, Acceptable
  <2>. QED BY <2>1, <2>2
<1>5. DoneIsWitnessed'
  BY DEF DoneIsWitnessed, Restart, auditVars, workVars, Goto, TypeOK, Audited
<1>6. CompletionIsTrue'
  BY DEF CompletionIsTrue, Restart, auditVars, workVars, Goto, TypeOK,
    Custody, CustodyOf, Audited, Started
<1>7. StartedWasValid'
  BY DEF StartedWasValid, Restart, auditVars, workVars, Goto, Acceptable,
    Audited
<1>. QED BY <1>1, <1>2, <1>3, <1>4, <1>5, <1>6, <1>7

(* Other users of the log respect the same lock and log nothing about      *)
(* tasks.                                                                  *)
LEMMA OutsiderAppendsInv ==
  ASSUME IInv, NEW p \in Outsider, OutsiderAppends(p)
  PROVE  IInv'
<1> USE WQAssumption DEF IInv
<1>1. TypeOK'
  BY DEF TypeOK, OutsiderAppends, LockOpens, EventAppended, DiesAppending,
    auditVars, workVars, Goto, Custody, CustodyOf, Places, Steps, AppendPoint,
    Holding
<1>2. LockDiscipline'
  BY DEF LockDiscipline, OutsiderAppends, LockOpens, EventAppended,
    DiesAppending, auditVars, workVars, Goto, TypeOK
<1>3. OneWorkerPerTask'
  BY DEF OneWorkerPerTask, OutsiderAppends, LockOpens, EventAppended,
    DiesAppending, auditVars, workVars, Goto, TypeOK
<1>4. Custody'
  BY DEF Custody, CustodyOf, Audited, Acceptable, OutsiderAppends, LockOpens,
    EventAppended, DiesAppending, auditVars, workVars, Goto
<1>5. DoneIsWitnessed'
  BY DEF DoneIsWitnessed, OutsiderAppends, LockOpens, EventAppended,
    DiesAppending, auditVars, workVars, Goto, TypeOK, Audited
<1>6. CompletionIsTrue'
  BY DEF CompletionIsTrue, OutsiderAppends, LockOpens, EventAppended,
    DiesAppending, auditVars, workVars, Goto, TypeOK, Custody, CustodyOf,
    Audited, Started
<1>7. StartedWasValid'
  BY DEF StartedWasValid, OutsiderAppends, LockOpens, EventAppended,
    DiesAppending, auditVars, workVars, Goto, Acceptable, Audited
<1>. QED BY <1>1, <1>2, <1>3, <1>4, <1>5, <1>6, <1>7

(* The operator removes only the lock file of a process that is gone.      *)
LEMMA OperatorInv ==
  ASSUME IInv, Operator
  PROVE  IInv'
<1> USE WQAssumption DEF IInv
<1>1. TypeOK'
  BY DEF TypeOK, Operator, OperatorClearsLock, auditVars, workVars, Goto,
    Custody, CustodyOf, Places, Steps, AppendPoint, Holding
<1>2. LockDiscipline'
  BY DEF LockDiscipline, Operator, OperatorClearsLock, auditVars, workVars,
    Goto, TypeOK
<1>3. OneWorkerPerTask'
  BY DEF OneWorkerPerTask, Operator, OperatorClearsLock, auditVars, workVars,
    Goto, TypeOK
<1>4. Custody'
  BY DEF Custody, CustodyOf, Audited, Acceptable, Operator,
    OperatorClearsLock, auditVars, workVars, Goto
<1>5. DoneIsWitnessed'
  BY DEF DoneIsWitnessed, Operator, OperatorClearsLock, auditVars, workVars,
    Goto, TypeOK, Audited
<1>6. CompletionIsTrue'
  BY DEF CompletionIsTrue, Operator, OperatorClearsLock, auditVars, workVars,
    Goto, TypeOK, Custody, CustodyOf, Audited, Started
<1>7. StartedWasValid'
  BY DEF StartedWasValid, Operator, OperatorClearsLock, auditVars, workVars,
    Goto, Acceptable, Audited
<1>. QED BY <1>1, <1>2, <1>3, <1>4, <1>5, <1>6, <1>7


(* Every step of the queue preserves the inductive invariant.              *)
LEMMA NextInv == IInv /\ [Next]_vars => IInv'
<1> SUFFICES ASSUME IInv, [Next]_vars PROVE IInv'
  OBVIOUS
<1>1. CASE UNCHANGED vars
  BY <1>1 DEF vars, auditVars, workVars, IInv, TypeOK, LockDiscipline,
    OneWorkerPerTask,
     Custody, CustodyOf, DoneIsWitnessed, CompletionIsTrue, StartedWasValid, Audited, Acceptable
<1>2. ASSUME NEW t \in Task, Submit(t) \/ FinishWriting(t) PROVE IInv'
  BY <1>2, SubmitInv, FinishWritingInv
<1>3. ASSUME NEW w \in Worker, WorkerStep(w) \/ Crash(w) PROVE IInv'
  BY <1>3, ScanInv, TryClaimInv, ClaimRaisesInv, NothingToClaimInv, StartAppendInv,
    EndAppendInv,
     ValidateInv, ExecuteInv, OpenResultInv, WriteResultInv, RetireInv, RestartInv,
     CrashInv DEF WorkerStep
<1>4. ASSUME NEW p \in Outsider, OutsiderAppends(p) PROVE IInv'
  BY <1>4, OutsiderAppendsInv
<1>5. CASE Operator
  BY <1>5, OperatorInv
<1>. QED BY <1>1, <1>2, <1>3, <1>4, <1>5 DEF Next

(* The inductive invariant holds in every reachable state.                 *)
LEMMA Invariance == Spec => []IInv
BY InitInv, NextInv, PTL DEF Spec

(* Every variable keeps its type, for any sets of workers and tasks.       *)
THEOREM TypeCorrect == Spec => []TypeOK
<1>1. IInv => TypeOK
  BY DEF IInv
<1>. QED BY <1>1, Invariance, PTL

(* Claim by rename is exclusive: two workers never process the same file.  *)
THEOREM ExclusiveClaim == Spec => []OneWorkerPerTask
<1>1. IInv => OneWorkerPerTask
  BY DEF IInv
<1>. QED BY <1>1, Invariance, PTL

(* The lock file serialises append_audit as long as nobody removes a live  *)
(* process's lock.                                                         *)
THEOREM SerialisedAppends == Spec => []LockDiscipline
<1>1. IInv => LockDiscipline
  BY DEF IInv
<1>. QED BY <1>1, Invariance, PTL

(* A file in done/ has its own completed result and its three log entries, *)
(* whatever crashes, disk errors and id collisions happened on the way.    *)
THEOREM DoneMeansDone == Spec => []DoneIsWitnessed
<1>1. IInv => DoneIsWitnessed
  BY DEF IInv
<1>. QED BY <1>1, Invariance, PTL

(* The action log never claims a completion that is not on disk, and no    *)
(* completed result exists whose start was not logged.                     *)
THEOREM TrueCompletions == Spec => []CompletionIsTrue
<1>1. IInv => CompletionIsTrue
  BY DEF IInv
<1>. QED BY <1>1, Invariance, PTL

(* No task is authorised before a whole and valid document was read.       *)
THEOREM ValidStarts == Spec => []StartedWasValid
<1>1. IInv => StartedWasValid
  BY DEF IInv
<1>. QED BY <1>1, Invariance, PTL

-----------------------------------------------------------------------------
(* Only atomic_result touches a result file, and never one that is         *)
(* completely written.                                                     *)
LEMMA FinalStep ==
  ASSUME IInv, [Next]_vars, NEW i \in TaskId,
         result[i].status \in {"COMPLETED", "FAILED"}
  PROVE  result'[i] = result[i]
<1>1. ASSUME NEW w \in Worker, OpenResult(w) PROVE result'[i] = result[i]
  <2>1. IdOf[cur[w]] = i => ~ Writable(cur[w])
    BY DEF Writable, NoResult
  <2>2. \/ result' = result
        \/ /\ Writable(cur[w])
           /\ result' = [result EXCEPT ![IdOf[cur[w]]] =
                          [status |-> "partial", of |-> cur[w]]]
    BY <1>1 DEF OpenResult
  <2>. QED BY <2>1, <2>2 DEF IInv, TypeOK
<1>2. ASSUME NEW w \in Worker, WriteResult(w) PROVE result'[i] = result[i]
  <2>0. pc[w] \in {"writeResult", "writeFailure"} /\ CustodyOf(w)
    BY <1>2 DEF WriteResult, IInv, Custody
  <2>1. result[IdOf[cur[w]]] = [status |-> "partial", of |-> cur[w]]
    BY <2>0 DEF CustodyOf
  <2>2. IdOf[cur[w]] # i
    BY <2>1
  <2>3. DOMAIN result = TaskId
    BY DEF IInv, TypeOK
  <2>4. \/ result' = result
        \/ \E x : result' = [result EXCEPT ![IdOf[cur[w]]] = x]
    BY <1>2 DEF WriteResult
  <2>. QED BY <2>2, <2>3, <2>4
<1>3. UNCHANGED result => result'[i] = result[i]
  OBVIOUS
<1>4. \/ UNCHANGED result
      \/ \E w \in Worker : OpenResult(w) \/ WriteResult(w)
  BY DEF Next, vars, workVars, WorkerStep, Submit, FinishWriting, Scan,
    TryClaim, ClaimRaises,
    NothingToClaim, StartAppend, EndAppend, Validate, Execute, Retire, Destination, Crash,
    Restart, OutsiderAppends, Operator
<1>. QED BY <1>1, <1>2, <1>3, <1>4

(* Results are final, as an action property of the specification.          *)
THEOREM FinalResults == Spec => ResultsAreFinal
<1>1. IInv /\ [Next]_vars =>
        [\A i \in TaskId : result[i].status \in {"COMPLETED", "FAILED"} =>
           result'[i] = result[i]]_vars
  BY FinalStep
<1>. QED BY <1>1, Invariance, PTL DEF Spec, ResultsAreFinal

-----------------------------------------------------------------------------
(* Refinement: the queue of steps, files and locks implements TaskQueue.   *)

(* The worker that holds a task is the only candidate for its owner.       *)
LEMMA OwnerIsHolder ==
  ASSUME IInv, NEW t \in Task
  PROVE  /\ \A w \in Worker : cur[w] = t => OwnerOf(t) = w
         /\ (\A w \in Worker : cur[w] # t) => OwnerOf(t) = NoWorker
         /\ OwnerOf(t) \in Worker => cur[OwnerOf(t)] = t
<1>1. ASSUME NEW w \in Worker, cur[w] = t PROVE OwnerOf(t) = w
  <2>1. \A v \in Worker : cur[v] = t => v = w
    BY <1>1, WQAssumption DEF IInv, OneWorkerPerTask
  <2>. QED BY <1>1, <2>1 DEF OwnerOf
<1>2. (\A w \in Worker : cur[w] # t) => OwnerOf(t) = NoWorker
  BY DEF OwnerOf
<1>3. OwnerOf(t) \in Worker => cur[OwnerOf(t)] = t
  BY <1>1, <1>2, WQAssumption
<1>. QED BY <1>1, <1>2, <1>3

(* A step that leaves places, claims and finished results alone is a       *)
(* stuttering step of TaskQueue.                                           *)
LEMMA Stutter ==
  ASSUME UNCHANGED <<place, cur>>,
         \A i \in TaskId : Published(i)' = Published(i)
  PROVE  UNCHANGED Promise!vars
<1>1. [t \in Task |-> OwnerOf(t)]' = [t \in Task |-> OwnerOf(t)]
  BY DEF OwnerOf
<1>2. [i \in TaskId |-> Published(i)]' = [i \in TaskId |-> Published(i)]
  OBVIOUS
<1>. QED BY <1>1, <1>2 DEF Promise!vars

(* The workers' own steps that touch neither a place, a claim nor the      *)
(* content of a finished result.                                           *)
LEMMA QuietSteps ==
  ASSUME IInv, UNCHANGED <<place, cur, result>>
  PROVE  UNCHANGED Promise!vars
BY Stutter DEF Published

(* Creating the result file is invisible: nothing is published until it is *)
(* completely written.                                                     *)
LEMMA OpenResultStutters ==
  ASSUME IInv, NEW w \in Worker, OpenResult(w)
  PROVE  UNCHANGED Promise!vars
<1>1. UNCHANGED <<place, cur>>
  BY DEF OpenResult
<1>2. ASSUME NEW i \in TaskId PROVE Published(i)' = Published(i)
  <2>1. \/ result' = result
        \/ /\ result[IdOf[cur[w]]] = NoResult
           /\ result' = [result EXCEPT ![IdOf[cur[w]]] =
                          [status |-> "partial", of |-> cur[w]]]
    BY DEF OpenResult, Writable
  <2>2. \/ result'[i] = result[i]
        \/ result[i] = NoResult /\ result'[i] = [status |-> "partial", of |-> cur[w]]
    BY <2>1 DEF IInv, TypeOK
  <2>. QED BY <2>2 DEF Published, NoResult
<1>. QED BY <1>1, <1>2, Stutter

(* A submission is a submission of the abstract queue.                     *)
LEMMA SubmitSimulates ==
  ASSUME IInv, NEW t \in Task, Submit(t)
  PROVE  Promise!Submit(t)
<1>1. UNCHANGED <<cur, result>>
  BY DEF Submit
<1>2. [u \in Task |-> OwnerOf(u)]' = [u \in Task |-> OwnerOf(u)]
  BY <1>1 DEF OwnerOf
<1>3. [i \in TaskId |-> Published(i)]' = [i \in TaskId |-> Published(i)]
  BY <1>1 DEF Published
<1>. QED BY <1>2, <1>3 DEF Submit, Promise!Submit

(* A successful rename is an abstract claim by a worker that owns nothing; *)
(* a failed one is a stutter.                                              *)
LEMMA TryClaimSimulates ==
  ASSUME IInv, NEW w \in Worker, TryClaim(w)
  PROVE  (\E t \in Task : Promise!Claim(w, t)) \/ UNCHANGED Promise!vars
<1>1. PICK t \in listing[w] : TakeFirst(w, t)
  BY DEF TryClaim
<1>2. t \in Task
  BY <1>1 DEF IInv, TypeOK
<1>3. UNCHANGED result /\ pc[w] = "claim"
  BY DEF TryClaim
<1>4. CASE ~ Claimable(t)
  BY <1>1, <1>3, <1>4, QuietSteps DEF TakeFirst
<1>5. CASE Claimable(t)
  <2>1. /\ place[t] = "pending"
        /\ place' = [place EXCEPT ![t] = "processing"]
        /\ cur' = [cur EXCEPT ![w] = t]
    BY <1>1, <1>5 DEF TakeFirst, Claimable
  <2>2. \A v \in Worker : cur[v] # t
    BY <1>2, <2>1, WQAssumption DEF IInv, OneWorkerPerTask
  <2>3. cur[w] = NoTask
    BY <1>3 DEF IInv, Custody, CustodyOf, Holding
  <2>4. \A u \in Task : OwnerOf(u) # w
    BY <2>3, OwnerIsHolder, WQAssumption
  <2>5. \A v \in Worker : cur'[v] = IF v = w THEN t ELSE cur[v]
    BY <2>1 DEF IInv, TypeOK
  <2>6. ASSUME NEW u \in Task
        PROVE  OwnerOf(u)' = IF u = t THEN w ELSE OwnerOf(u)
    <3>1. IInv'
      BY TryClaimInv
    <3>2. CASE u = t
      <4>1. \A v \in Worker : cur'[v] = t => v = w
        BY <2>2, <2>5
      <4>. QED BY <3>2, <4>1, <2>5 DEF OwnerOf
    <3>3. CASE u # t
      <4>1. \A v \in Worker : cur'[v] = u <=> cur[v] = u
        BY <2>3, <2>5, <3>3, WQAssumption
      <4>. QED BY <3>3, <4>1 DEF OwnerOf
    <3>. QED BY <3>2, <3>3
  <2>7. [u \in Task |-> OwnerOf(u)]' =
          [[u \in Task |-> OwnerOf(u)] EXCEPT ![t] = w]
    BY <2>6
  <2>8. [i \in TaskId |-> Published(i)]' = [i \in TaskId |-> Published(i)]
    BY <1>3 DEF Published
  <2>. QED BY <1>2, <2>1, <2>4, <2>7, <2>8 DEF Promise!Claim
<1>. QED BY <1>4, <1>5

(* A result that becomes complete is an abstract publication; an unlinked  *)
(* one was never visible.                                                  *)
LEMMA WriteResultSimulates ==
  ASSUME IInv, NEW w \in Worker, WriteResult(w)
  PROVE  \/ \E t \in Task, s \in {"COMPLETED", "FAILED"} : Promise!Publish(t, s)
         \/ UNCHANGED Promise!vars
<1> DEFINE t == cur[w]
<1>1. /\ t \in Task /\ IdOf[t] \in TaskId
      /\ result[IdOf[t]] = [status |-> "partial", of |-> t]
      /\ UNCHANGED <<place, cur>>
  BY WQAssumption DEF WriteResult, IInv, TypeOK, Custody, CustodyOf, Holding,
    Steps
<1>2. CASE \E s \in {"COMPLETED", "FAILED"} :
             result' = [result EXCEPT ![IdOf[t]] = [status |-> s, of |-> t]]
  <2>1. PICK s \in {"COMPLETED", "FAILED"} :
          result' = [result EXCEPT ![IdOf[t]] = [status |-> s, of |-> t]]
    BY <1>2
  <2>2. ASSUME NEW i \in TaskId
        PROVE  Published(i)' = IF i = IdOf[t] THEN [status |-> s, of |-> t]
                                              ELSE Published(i)
    <3>1. result'[i] = IF i = IdOf[t] THEN [status |-> s, of |-> t] ELSE result[i]
      BY <2>1 DEF IInv, TypeOK
    <3>. QED BY <3>1 DEF Published
  <2>3. [i \in TaskId |-> Published(i)]' =
          [[i \in TaskId |-> Published(i)] EXCEPT ![IdOf[t]] = [status |-> s, of |-> t]]
    BY <2>2
  <2>4. [u \in Task |-> OwnerOf(u)]' = [u \in Task |-> OwnerOf(u)]
    BY <1>1 DEF OwnerOf
  <2>5. Published(IdOf[t]) = NoResult
    BY <1>1 DEF Published
  <2>6. OwnerOf(t) = w
    BY <1>1, OwnerIsHolder
  <2>7. Promise!Publish(t, s)
    BY <1>1, <2>3, <2>4, <2>5, <2>6, WQAssumption
    DEF Promise!Publish, Promise!NoOutcome, NoResult
  <2>. QED BY <1>1, <2>7
<1>3. CASE result' \in {result, [result EXCEPT ![IdOf[t]] = NoResult]}
  <2>1. ASSUME NEW i \in TaskId PROVE Published(i)' = Published(i)
    <3>1. result'[i] = result[i] \/ (i = IdOf[t] /\ result'[i] = NoResult)
      BY <1>3 DEF IInv, TypeOK
    <3>. QED BY <1>1, <3>1 DEF Published, NoResult
  <2>. QED BY <1>1, <2>1, Stutter
<1>4. \/ \E s \in {"COMPLETED", "FAILED"} :
           result' = [result EXCEPT ![IdOf[t]] = [status |-> s, of |-> t]]
      \/ result' \in {result, [result EXCEPT ![IdOf[t]] = NoResult]}
  BY <1>1 DEF WriteResult, IInv, TypeOK
<1>. QED BY <1>2, <1>3, <1>4

(* When worker w lets go of its task, only that task loses its owner.      *)
LEMMA LettingGo ==
  ASSUME IInv, NEW w \in Worker, cur[w] \in Task,
         cur' = [cur EXCEPT ![w] = NoTask]
  PROVE  /\ OwnerOf(cur[w]) = w
         /\ [u \in Task |-> OwnerOf(u)]' =
              [[u \in Task |-> OwnerOf(u)] EXCEPT ![cur[w]] = NoWorker]
<1>1. \A v \in Worker : cur'[v] = IF v = w THEN NoTask ELSE cur[v]
  BY DEF IInv, TypeOK
<1>2. \A v \in Worker : v # w => cur[v] # cur[w]
  BY WQAssumption DEF IInv, OneWorkerPerTask
<1>3. ASSUME NEW u \in Task
      PROVE  OwnerOf(u)' = IF u = cur[w] THEN NoWorker ELSE OwnerOf(u)
  <2>1. CASE u = cur[w]
    <3>1. \A v \in Worker : cur'[v] # u
      BY <1>1, <1>2, <2>1, WQAssumption
    <3>. QED BY <2>1, <3>1 DEF OwnerOf
  <2>2. CASE u # cur[w]
    <3>1. \A v \in Worker : cur'[v] = u <=> cur[v] = u
      BY <1>1, <2>2, WQAssumption
    <3>. QED BY <2>2, <3>1 DEF OwnerOf
  <2>. QED BY <2>1, <2>2
<1>. QED BY <1>3, OwnerIsHolder

(* The last rename finishes or fails the abstract task; when it cannot be  *)
(* made the worker lets go, which is an abstract loss.                     *)
LEMMA RetireSimulates ==
  ASSUME IInv, NEW w \in Worker, Retire(w)
  PROVE  \/ \E t \in Task : Promise!Finish(t) \/ Promise!Fail(t) \/ Promise!Lose(t)
         \/ UNCHANGED Promise!vars
<1> DEFINE t == cur[w]
<1>1. /\ t \in Task /\ IdOf[t] \in TaskId /\ UNCHANGED result
      /\ pc[w] = "finish" => result[IdOf[t]] = [status |-> "COMPLETED", of |-> t]
  BY WQAssumption DEF Retire, Destination, IInv, TypeOK, Custody, CustodyOf,
    Holding, Steps
<1>2. [i \in TaskId |-> Published(i)]' = [i \in TaskId |-> Published(i)]
  BY <1>1 DEF Published
<1>3. CASE UNCHANGED <<place, cur>>
  BY <1>1, <1>3, QuietSteps
<1>4. CASE cur' = [cur EXCEPT ![w] = NoTask]
  <2>1. /\ OwnerOf(t) = w
        /\ [u \in Task |-> OwnerOf(u)]' =
             [[u \in Task |-> OwnerOf(u)] EXCEPT ![t] = NoWorker]
    BY <1>1, <1>4, LettingGo
  <2>2. OwnerOf(t) # NoWorker
    BY <2>1, WQAssumption
  <2>3. CASE pc[w] = "finish" /\ place' = [place EXCEPT ![t] = "done"]
    <3>1. Published(IdOf[t]) = [status |-> "COMPLETED", of |-> t]
      BY <1>1, <2>3 DEF Published
    <3>. QED BY <1>1, <1>2, <2>1, <2>2, <2>3, <3>1 DEF Promise!Finish
  <2>4. CASE place' = [place EXCEPT ![t] = "failed"]
    BY <1>1, <1>2, <2>1, <2>2, <2>4 DEF Promise!Fail
  <2>5. CASE place' = place
    BY <1>1, <1>2, <2>1, <2>2, <2>5 DEF Promise!Lose
  <2>6. \/ pc[w] = "finish" /\ place' = [place EXCEPT ![t] = "done"]
        \/ place' = [place EXCEPT ![t] = "failed"]
        \/ place' = place
    BY DEF Retire, Destination
  <2>. QED BY <2>3, <2>4, <2>5, <2>6
<1>5. cur' = [cur EXCEPT ![w] = NoTask] \/ UNCHANGED <<place, cur>>
  BY DEF Retire, Destination
<1>. QED BY <1>3, <1>4, <1>5

(* A crash loses the task the worker held, or is a stutter.                *)
LEMMA CrashSimulates ==
  ASSUME IInv, NEW w \in Worker, Crash(w)
  PROVE  (\E t \in Task : Promise!Lose(t)) \/ UNCHANGED Promise!vars
<1>1. /\ UNCHANGED <<place, result>>
      /\ cur' = [cur EXCEPT ![w] = NoTask]
  BY DEF Crash
<1>2. [i \in TaskId |-> Published(i)]' = [i \in TaskId |-> Published(i)]
  BY <1>1 DEF Published
<1>3. CASE cur[w] \in Task
  <2>1. /\ OwnerOf(cur[w]) = w
        /\ [u \in Task |-> OwnerOf(u)]' =
             [[u \in Task |-> OwnerOf(u)] EXCEPT ![cur[w]] = NoWorker]
    BY <1>1, <1>3, LettingGo
  <2>. QED BY <1>1, <1>2, <1>3, <2>1, WQAssumption DEF Promise!Lose
<1>4. CASE cur[w] = NoTask
  <2>1. cur' = cur
    BY <1>1, <1>4 DEF IInv, TypeOK
  <2>. QED BY <1>1, <2>1, QuietSteps
<1>. QED BY <1>3, <1>4 DEF IInv, TypeOK

(* Every step of the queue is a step or a stutter of the abstract queue.   *)
LEMMA StepSimulates ==
  ASSUME IInv, [Next]_vars
  PROVE  [Promise!Next]_(Promise!vars)
<1>1. CASE UNCHANGED vars
  BY <1>1, QuietSteps DEF vars, workVars
<1>2. ASSUME NEW t \in Task, Submit(t) PROVE Promise!Next
  BY <1>2, SubmitSimulates DEF Promise!Next
<1>3. ASSUME NEW w \in Worker, TryClaim(w) PROVE [Promise!Next]_(Promise!vars)
  BY <1>3, TryClaimSimulates DEF Promise!Next
<1>4. ASSUME NEW w \in Worker, WriteResult(w) PROVE [Promise!Next]_(Promise!vars)
  BY <1>4, WriteResultSimulates DEF Promise!Next
<1>5. ASSUME NEW w \in Worker, Retire(w) PROVE [Promise!Next]_(Promise!vars)
  BY <1>5, RetireSimulates DEF Promise!Next
<1>6. ASSUME NEW w \in Worker, Crash(w) PROVE [Promise!Next]_(Promise!vars)
  BY <1>6, CrashSimulates DEF Promise!Next
<1>7. ASSUME NEW w \in Worker, OpenResult(w) PROVE UNCHANGED Promise!vars
  BY <1>7, OpenResultStutters
<1>8. ASSUME NEW w \in Worker,
             \/ Scan(w) \/ ClaimRaises(w) \/ NothingToClaim(w)
             \/ StartAppend(w) \/ EndAppend(w)
             \/ Validate(w) \/ Execute(w) \/ Restart(w)
      PROVE  UNCHANGED Promise!vars
  <2>1. UNCHANGED <<place, cur, result>>
    BY <1>8 DEF Scan, ClaimRaises, NothingToClaim, StartAppend, EndAppend, Validate,
      Execute, Restart
  <2>. QED BY <2>1, QuietSteps
<1>9. ASSUME \/ \E t \in Task : FinishWriting(t)
             \/ \E p \in Outsider : OutsiderAppends(p)
             \/ Operator
      PROVE  UNCHANGED Promise!vars
  <2>1. UNCHANGED <<place, cur, result>>
    BY <1>9 DEF FinishWriting, OutsiderAppends, Operator, workVars
  <2>. QED BY <2>1, QuietSteps
<1>. QED
  BY <1>1, <1>2, <1>3, <1>4, <1>5, <1>6, <1>7, <1>8, <1>9 DEF Next, WorkerStep

(* The worker queue implements the abstract task queue: at-most-once       *)
(* claims, one final outcome per id, done only with its own outcome.       *)
THEOREM Refinement == Spec => ImplementsTaskQueue
<1>1. Init => Promise!Init
  BY WQAssumption DEF Init, Promise!Init, OwnerOf, Published, NoResult,
    Promise!NoOutcome
<1>2. IInv /\ [Next]_vars => [Promise!Next]_(Promise!vars)
  BY StepSimulates
<1>. QED BY <1>1, <1>2, Invariance, PTL DEF Spec, ImplementsTaskQueue,
  Promise!Spec


-----------------------------------------------------------------------------
(* The observer, on top of the invariant of the queue.  The order in which  *)
(* the directories are read is the order in which a task goes through them. *)

(* The place of a directory in Source; a task that is not submitted is     *)
(* before all of them.                                                     *)
OrderOf(d) == CASE d = "absent"     -> 0
                [] d = "pending"    -> 1
                [] d = "processing" -> 2
                [] d = "done"       -> 3
                [] d = "failed"     -> 4

(* The reader goes through five sources.                                   *)
LEMMA SourceLength == Len(Source) = 5
BY DEF Source

(* Which source is being read, as a number.                                *)
LEMMA SourceOrder ==
  ASSUME stage \in 1 .. 6
  PROVE  /\ Len(Source) = 5
         /\ \A d \in Dirs : Reading(d) <=> stage = OrderOf(d)
         /\ Reading("log") <=> stage = 5
<1>1. /\ Source[1] = "pending" /\ Source[2] = "processing" /\ Source[3] = "done"
      /\ Source[4] = "failed" /\ Source[5] = "log"
  BY DEF Source
<1>2. stage = 1 \/ stage = 2 \/ stage = 3 \/ stage = 4 \/ stage = 5 \/ stage = 6
  OBVIOUS
<1>. QED
  BY <1>1, <1>2, SourceLength DEF Reading, Dirs, OrderOf

(* A place is known by its number; only a task that is absent has none.    *)
LEMMA Orders ==
  \A p \in Places : /\ OrderOf(p) \in 0 .. 4
                    /\ \A d \in Dirs : OrderOf(p) = OrderOf(d) <=> p = d
                    /\ p # "absent" <=> OrderOf(p) >= 1
BY DEF Places, Dirs, OrderOf

(* A task goes through the directories in one direction.                   *)
LEMMA PlaceMoves ==
  ASSUME IInv, [Next]_vars, NEW t \in Task
  PROVE  \/ place'[t] = place[t]
         \/ place[t] = "absent" /\ place'[t] = "pending"
         \/ place[t] = "pending" /\ place'[t] = "processing"
         \/ place[t] = "processing" /\ place'[t] \in {"done", "failed"}
<1>1. ASSUME NEW u \in Task, Submit(u)
      PROVE  \/ place'[t] = place[t]
             \/ place[t] = "absent" /\ place'[t] = "pending"
  BY <1>1 DEF Submit, IInv, TypeOK
<1>2. ASSUME NEW w \in Worker, TryClaim(w)
      PROVE  \/ place'[t] = place[t]
             \/ place[t] = "pending" /\ place'[t] = "processing"
  BY <1>2 DEF TryClaim, TakeFirst, Claimable, IInv, TypeOK
<1>3. ASSUME NEW w \in Worker, Retire(w)
      PROVE  \/ place'[t] = place[t]
             \/ place[t] = "processing" /\ place'[t] \in {"done", "failed"}
  <2>1. cur[w] # NoTask
    BY <1>3 DEF Retire, IInv, Custody, CustodyOf, Holding, Steps
  <2>2. place[cur[w]] = "processing"
    BY <2>1 DEF IInv, OneWorkerPerTask
  <2>. QED BY <1>3, <2>2 DEF Retire, Destination, IInv, TypeOK
<1>4. \/ \E u \in Task : Submit(u)
      \/ \E w \in Worker : TryClaim(w) \/ Retire(w)
      \/ UNCHANGED place
  BY DEF Next, WorkerStep, FinishWriting, Scan, ClaimRaises, NothingToClaim, StartAppend,
    EndAppend, Validate, Execute, OpenResult, WriteResult, Crash, Restart,
    OutsiderAppends, Operator, vars, workVars
<1>. QED BY <1>1, <1>2, <1>3, <1>4

(* No event leaves the log.                                                *)
LEMMA LogGrows ==
  ASSUME [Next]_vars
  PROVE  audit \subseteq audit'
<1>1. ASSUME NEW w \in Worker, StartAppend(w) \/ EndAppend(w) \/ Crash(w)
      PROVE  audit \subseteq audit'
  BY <1>1 DEF StartAppend, EndAppend, Crash, LockOpens, LockRefused,
    EventAppended, AppendRaises, DiesAppending, auditVars
<1>2. ASSUME NEW p \in Outsider, OutsiderAppends(p)
      PROVE  audit \subseteq audit'
  BY <1>2 DEF OutsiderAppends, LockOpens, EventAppended, DiesAppending
<1>3. \/ \E w \in Worker : StartAppend(w) \/ EndAppend(w) \/ Crash(w)
      \/ \E p \in Outsider : OutsiderAppends(p)
      \/ UNCHANGED audit
  BY DEF Next, WorkerStep, Submit, FinishWriting, Scan, TryClaim,
    ClaimRaises, NothingToClaim, Validate, Execute, OpenResult, WriteResult, Retire, Restart,
    Operator, OperatorClearsLock, vars, auditVars
<1>. QED BY <1>1, <1>2, <1>3

-----------------------------------------------------------------------------
(* Every task of the beginning was counted or is still ahead of the        *)
(* reader; what was counted as done or failed stays there; and what is     *)
(* read of the log is read last.                                           *)
Ahead(t) ==
  \/ OrderOf(place[t]) > stage
  \/ OrderOf(place[t]) = stage /\ (listed = Unlisted \/ t \in listed)

ReaderOK ==
  /\ stage \in 1 .. 6
  /\ listed \in (SUBSET Task) \cup {Unlisted}
  /\ counted \in [Dirs -> SUBSET Task]
  /\ events \subseteq audit
  /\ witnessed \in BOOLEAN /\ present \subseteq Task

Found ==
  witnessed => \A t \in present : Ahead(t) \/ \E d \in Dirs : t \in counted[d]

SettledStay ==
  \A t \in Task : \A d \in {"done", "failed"} : t \in counted[d] => place[t] = d

LogIsLast ==
  stage = 6 => \A t \in counted["done"] :
    \A ph \in {"TASK_CLAIMED", "TASK_STARTED", "TASK_COMPLETED"} :
      [phase |-> ph, of |-> t] \in events

SInv == IInv /\ ReaderOK /\ Found /\ SettledStay /\ LogIsLast

(* Nothing has been read before the first snapshot.                        *)
LEMMA SnapshotInit == ObserverInit => SInv
<1> SUFFICES ASSUME ObserverInit PROVE SInv
  OBVIOUS
<1>1. IInv
  BY InitInv DEF ObserverInit
<1>2. ReaderOK
  <2>1. stage = 1 /\ listed = Unlisted /\ events = {} /\ present = {}
    BY DEF ObserverInit
  <2>2. witnessed \in BOOLEAN
    BY Zenon DEF ObserverInit
  <2>3. counted \in [Dirs -> SUBSET Task]
    BY DEF ObserverInit, NothingCounted
  <2>. QED BY <2>1, <2>2, <2>3 DEF ReaderOK
<1>3. Found /\ SettledStay /\ LogIsLast
  BY DEF ObserverInit, Found, SettledStay, LogIsLast, NothingCounted, Dirs
<1>. QED BY <1>1, <1>2, <1>3 DEF SInv

(* The workers move tasks ahead of the reader, never back.                 *)
LEMMA QueueStep ==
  ASSUME SInv, [Next]_vars, UNCHANGED observerVars
  PROVE  SInv'
<1> USE DEF SInv, observerVars
<1>1. IInv'
  BY NextInv
<1>2. ReaderOK'
  BY LogGrows DEF ReaderOK
<1>3. Found'
  <2>1. ASSUME NEW t \in present PROVE Ahead(t) => Ahead(t)'
    <3>1. t \in Task /\ stage \in 1 .. 6
      BY DEF ReaderOK
    <3>2. \/ place'[t] = place[t]
          \/ place[t] = "absent" /\ place'[t] = "pending"
          \/ place[t] = "pending" /\ place'[t] = "processing"
          \/ place[t] = "processing" /\ place'[t] \in {"done", "failed"}
      BY <3>1, PlaceMoves
    <3>3. \/ place'[t] = place[t]
          \/ OrderOf(place[t]) \in 0 .. 4 /\ OrderOf(place'[t]) \in 0 .. 4
             /\ OrderOf(place[t]) < OrderOf(place'[t])
      BY <3>2 DEF OrderOf
    <3>. QED BY <3>1, <3>3 DEF Ahead
  <2>. QED BY <2>1 DEF Found
<1>4. SettledStay'
  BY PlaceMoves DEF SettledStay
<1>5. LogIsLast'
  BY DEF LogIsLast
<1>. QED BY <1>1, <1>2, <1>3, <1>4, <1>5

(* Listing a directory: the tasks in it are now checked by name.           *)
LEMMA ListStep ==
  ASSUME SInv, NEW d \in Dirs, List(d)
  PROVE  SInv'
<1> USE DEF SInv, List
<1>1. IInv'
  BY NextInv
<1>2. /\ stage \in 1 .. 6 /\ stage = OrderOf(d) /\ place \in [Task -> Places]
      /\ stage' = stage /\ listed' = {t \in Task : place[t] = d}
      /\ UNCHANGED <<place, counted, events, witnessed, audit>>
  BY SourceOrder DEF ReaderOK, IInv, TypeOK, vars, workVars, auditVars
<1>3. NoTask \notin Task
  BY WQAssumption
<1>4. ReaderOK'
  <2>1. Inside \subseteq Task
    BY DEF Inside
  <2>. QED BY <1>2, <2>1 DEF ReaderOK
<1>5. Found'
  <2>1. ASSUME NEW t \in present', stage = 1 PROVE Ahead(t)'
    <3>1. t \in Task /\ place[t] \in Places /\ place[t] # "absent"
      BY <1>2, <2>1 DEF Inside
    <3>2. OrderOf(place[t]) \in 1 .. 4 /\ (OrderOf(place[t]) = OrderOf(d) => place[t] = d)
      BY <3>1, Orders
    <3>. QED BY <1>2, <2>1, <3>1, <3>2 DEF Ahead
  <2>2. ASSUME NEW t \in present', stage # 1, Ahead(t) PROVE Ahead(t)'
    <3>1. t \in Task /\ place[t] \in Places
      BY <1>2, <2>2 DEF ReaderOK
    <3>2. OrderOf(place[t]) \in 0 .. 4 /\ (OrderOf(place[t]) = OrderOf(d) => place[t] = d)
      BY <3>1, Orders
    <3>. QED BY <1>2, <2>2, <3>1, <3>2 DEF Ahead
  <2>. QED BY <1>2, <2>1, <2>2 DEF Found
<1>6. SettledStay' /\ LogIsLast'
  BY <1>2 DEF SettledStay, LogIsLast
<1>. QED BY <1>1, <1>4, <1>5, <1>6

(* A name is counted if the file is still there; if not, it has moved on.  *)
LEMMA CheckNameStep ==
  ASSUME SInv, NEW d \in Dirs, CheckName(d)
  PROVE  SInv'
<1> USE DEF SInv, CheckName
<1>1. IInv'
  BY NextInv
<1>0. stage \in 1 .. 6 /\ stage = OrderOf(d)
  BY SourceOrder DEF ReaderOK
<1>1a. UNCHANGED <<place, audit>> /\ place \in [Task -> Places]
  BY DEF IInv, TypeOK, vars, workVars, auditVars
<1>2. /\ stage \in 1 .. 6 /\ stage = OrderOf(d) /\ place \in [Task -> Places]
      /\ listed \in SUBSET Task /\ counted \in [Dirs -> SUBSET Task]
      /\ UNCHANGED <<place, stage, events, witnessed, present, audit>>
  BY <1>0, <1>1a DEF ReaderOK
<1>3. PICK u \in listed :
        /\ listed' = listed \ {u}
        /\ counted' = IF place[u] = d
                      THEN [counted EXCEPT ![d] = @ \cup {u}] ELSE counted
  OBVIOUS
<1>4. ReaderOK'
  BY <1>2, <1>3 DEF ReaderOK
<1>5. \A e \in Dirs : /\ counted[e] \subseteq counted'[e]
                      /\ counted'[e] \subseteq counted[e] \cup {u}
                      /\ u \in counted'[e] /\ u \notin counted[e] => e = d /\ place[u] = d
  BY <1>2, <1>3
<1>6. Found'
  <2>1. ASSUME NEW t \in present, Ahead(t)
        PROVE  Ahead(t)' \/ \E e \in Dirs : t \in counted'[e]
    <3>1. t \in Task /\ place[t] \in Places
      BY <1>2 DEF ReaderOK
    <3>2. OrderOf(place[t]) \in 0 .. 4 /\ (OrderOf(place[t]) = OrderOf(d) => place[t] = d)
      BY <3>1, Orders
    <3>3. CASE OrderOf(place[t]) > stage
      BY <1>2, <3>3 DEF Ahead
    <3>4. CASE OrderOf(place[t]) = stage /\ t # u
      BY <1>2, <1>3, <2>1, <3>2, <3>4 DEF Ahead, Unlisted
    <3>5. CASE OrderOf(place[t]) = stage /\ t = u
      <4>1. t \in counted'[d]
        BY <1>2, <1>3, <3>2, <3>5
      <4>. QED BY <4>1
    <3>. QED BY <1>2, <2>1, <3>2, <3>3, <3>4, <3>5 DEF Ahead
  <2>. QED BY <1>2, <1>5, <2>1 DEF Found
<1>7. SettledStay'
  BY <1>2, <1>5 DEF SettledStay, Dirs
<1>8. LogIsLast'
  BY <1>2 DEF LogIsLast, OrderOf, Dirs
<1>. QED BY <1>1, <1>4, <1>6, <1>7, <1>8

(* A directory that is left has no name unchecked in it.                   *)
LEMMA CountedStep ==
  ASSUME SInv, NEW d \in Dirs, Counted(d)
  PROVE  SInv'
<1> USE DEF SInv, Counted
<1>1. IInv'
  BY NextInv
<1>2. /\ stage \in 1 .. 6 /\ stage = OrderOf(d) /\ place \in [Task -> Places]
      /\ stage' = stage + 1 /\ listed = {} /\ listed' = Unlisted
      /\ UNCHANGED <<place, counted, events, witnessed, present, audit>>
  BY SourceOrder DEF ReaderOK, IInv, TypeOK, vars, workVars, auditVars
<1>3. stage \in 1 .. 4
  BY <1>2 DEF Dirs, OrderOf
<1>4. ReaderOK'
  BY <1>2, <1>3 DEF ReaderOK, Unlisted
<1>5. ASSUME NEW t \in present, Ahead(t) PROVE Ahead(t)'
  <2>1. t \in Task /\ place[t] \in Places
    BY <1>2 DEF ReaderOK
  <2>2. OrderOf(place[t]) \in 0 .. 4
    BY <2>1, Orders
  <2>. QED BY <1>2, <1>5, <2>2 DEF Ahead, Unlisted
<1>6. Found'
  BY <1>2, <1>5 DEF Found
<1>7. SettledStay' /\ LogIsLast'
  BY <1>2, <1>3 DEF SettledStay, LogIsLast
<1>. QED BY <1>1, <1>4, <1>6, <1>7

(* A directory that cannot be read makes the status a pending one.         *)
LEMMA ListFailsStep ==
  ASSUME SInv, NEW d \in Dirs, ListFails(d)
  PROVE  SInv'
<1> USE DEF SInv, ListFails
<1>1. IInv'
  BY NextInv
<1>2. /\ stage \in 1 .. 6 /\ stage = OrderOf(d) /\ stage' = stage + 1
      /\ witnessed' = FALSE
      /\ UNCHANGED <<place, listed, counted, events, audit>>
  BY SourceOrder DEF ReaderOK, vars, workVars, auditVars
<1>3. stage \in 1 .. 4
  BY <1>2 DEF Dirs, OrderOf
<1>4. ReaderOK'
  <2>1. Inside \subseteq Task
    BY DEF Inside
  <2>2. witnessed' \in BOOLEAN
    BY <1>2, Zenon
  <2>. QED BY <1>2, <1>3, <2>1, <2>2 DEF ReaderOK
<1>5. Found'
  BY <1>2 DEF Found
<1>6. SettledStay' /\ LogIsLast'
  BY <1>2, <1>3 DEF SettledStay, LogIsLast
<1>. QED BY <1>1, <1>4, <1>5, <1>6

(* A task found in done/ has had its events in the log since then.         *)
LEMMA ReadLogStep ==
  ASSUME SInv, ReadLog
  PROVE  SInv'
<1> USE DEF SInv, ReadLog
<1>1. IInv'
  BY NextInv
<1>2. /\ stage = 5 /\ stage' = 6 /\ events' = audit
      /\ witnessed' => witnessed
      /\ UNCHANGED <<place, listed, counted, present, audit>>
  BY SourceOrder DEF ReaderOK, vars, workVars, auditVars
<1>3. ReaderOK'
  <2>1. witnessed' \in BOOLEAN
    BY Zenon DEF ReaderOK
  <2>. QED BY <1>2, <2>1 DEF ReaderOK
<1>4. ASSUME NEW t \in present PROVE ~ Ahead(t)
  <2>1. place[t] \in Places
    BY DEF ReaderOK, IInv, TypeOK
  <2>2. OrderOf(place[t]) \in 0 .. 4
    BY <2>1, Orders
  <2>. QED BY <1>2, <2>2 DEF Ahead
<1>5. Found'
  BY <1>2, <1>4 DEF Found
<1>6. SettledStay'
  BY <1>2 DEF SettledStay
<1>7. LogIsLast'
  <2>1. ASSUME NEW t \in counted["done"] PROVE t \in Task /\ place[t] = "done"
    BY <2>1 DEF SettledStay, ReaderOK, Dirs
  <2>. QED BY <1>2, <2>1 DEF LogIsLast, IInv, DoneIsWitnessed, Audited
<1>. QED BY <1>1, <1>3, <1>5, <1>6, <1>7

(* Afterwards, or after the observer has died, nothing has been read.      *)
LEMMA BeginStep ==
  ASSUME SInv, Begin, UNCHANGED vars
  PROVE  SInv'
<1> USE DEF SInv, Begin
<1>1. IInv'
  BY NextInv
<1>2. ReaderOK'
  <2>1. witnessed' \in BOOLEAN
    BY Zenon
  <2>2. counted' \in [Dirs -> SUBSET Task]
    BY DEF NothingCounted
  <2>. QED BY <2>1, <2>2 DEF ReaderOK, Unlisted
<1>3. Found' /\ SettledStay' /\ LogIsLast'
  BY DEF Found, SettledStay, LogIsLast, NothingCounted, Dirs
<1>. QED BY <1>1, <1>2, <1>3

(* Every step of a worker or of the observer keeps the invariant.          *)
LEMMA SnapshotStep == SInv /\ [ObserverNext]_<<vars, observerVars>> => SInv'
<1> SUFFICES ASSUME SInv, [ObserverNext]_<<vars, observerVars>> PROVE SInv'
  OBVIOUS
<1>1. CASE [Next]_vars /\ UNCHANGED observerVars
  BY <1>1, QueueStep
<1>2. CASE ObserverStep
  <2>1. ASSUME NEW d \in Dirs, List(d) \/ ListFails(d) \/ CheckName(d) \/ Counted(d)
        PROVE  SInv'
    BY <2>1, ListStep, ListFailsStep, CheckNameStep, CountedStep
  <2>2. CASE ReadLog
    BY <2>2, ReadLogStep
  <2>3. CASE Publish
    BY <2>3, BeginStep DEF Publish
  <2>. QED BY <1>2, <2>1, <2>2, <2>3 DEF ObserverStep
<1>3. CASE ObserverDies
  BY <1>3, BeginStep DEF ObserverDies
<1>. QED BY <1>1, <1>2, <1>3 DEF ObserverNext

(* So it holds in every state.                                             *)
LEMMA SnapshotInvariance == ObserverSpec => []SInv
BY SnapshotInit, SnapshotStep, PTL DEF ObserverSpec

(* Every variable of the queue and of the observer keeps its type.         *)
THEOREM SnapshotTypes == ObserverSpec => []ObserverTypeOK
<1>1. SInv => ObserverTypeOK
  BY SourceOrder DEF SInv, ReaderOK, IInv, ObserverTypeOK
<1>. QED BY <1>1, SnapshotInvariance, PTL

(* A status OBSERVED has counted every task that was in the queue when the *)
(* snapshot began, whatever the workers did meanwhile.                     *)
THEOREM NoTaskIsMissed == ObserverSpec => []NothingOverlooked
<1>1. SInv => NothingOverlooked
  <2> SUFFICES ASSUME SInv, Observed, NEW t \in present
               PROVE  t \in UNION {counted[d] : d \in Dirs}
    BY DEF NothingOverlooked
  <2>0. stage \in 1 .. 6
    BY DEF SInv, ReaderOK
  <2>1. stage = 6 /\ witnessed
    BY <2>0, SourceLength DEF Observed
  <2>2. place[t] \in Places
    BY DEF SInv, ReaderOK, IInv, TypeOK
  <2>3. ~ Ahead(t)
    BY <2>1, <2>2, Orders DEF Ahead
  <2>. QED BY <2>1, <2>3 DEF SInv, Found
<1>. QED BY <1>1, SnapshotInvariance, PTL

(* A status OBSERVED that counts a task as done has read its three events  *)
(* and does not count it as failed.                                        *)
THEOREM DoneHasEvents == ObserverSpec => []DoneIsInTheLog
<1>1. SInv => DoneIsInTheLog
  <2> SUFFICES ASSUME SInv, Observed, NEW t \in counted["done"]
               PROVE  /\ \A ph \in {"TASK_CLAIMED", "TASK_STARTED", "TASK_COMPLETED"} :
                           [phase |-> ph, of |-> t] \in events
                      /\ t \notin counted["failed"]
    BY DEF DoneIsInTheLog
  <2>0. stage \in 1 .. 6
    BY DEF SInv, ReaderOK
  <2>1. stage = 6
    BY <2>0, SourceLength DEF Observed
  <2>2. t \in Task
    BY DEF SInv, ReaderOK, Dirs
  <2>. QED BY <2>1, <2>2 DEF SInv, LogIsLast, SettledStay
<1>. QED BY <1>1, SnapshotInvariance, PTL
=============================================================================
