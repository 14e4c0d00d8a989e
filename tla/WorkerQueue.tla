---------------------------- MODULE WorkerQueue -----------------------------
(***************************************************************************)
(* The worker containers of controller/worker.py: they poll one task       *)
(* directory tree, claim files by rename, publish result files and append  *)
(* to the shared action log.  A step is one file-system call or one piece  *)
(* of local work between two calls; workers interleave at every step and   *)
(* may die between any two (docker kill, scale-down, power loss).          *)
(*                                                                         *)
(* A task is one submitted file.  Tasks are numbers in the order in which  *)
(* sorted() lists their file names.  IdOf gives the task_id, the part of   *)
(* the file name before the first dot: two files may share it.             *)
(***************************************************************************)
EXTENDS AuditLog, Integers

CONSTANTS Worker, Outsider,    \* worker slots; other users of the log
          Task, TaskId, IdOf,
          Doc,                 \* what the finished document of a task is
          NoTask, NoWorker

ASSUME WQAssumption ==
  /\ Task \subseteq Nat
  /\ IdOf \in [Task -> TaskId]
  /\ Doc \in [Task -> {"runnable", "unrunnable", "invalid", "misnamed"}]
  /\ \A t, u \in Task : IdOf[t] = IdOf[u] =>      \* a bad id is bad in every file
       (Doc[t] = "misnamed") = (Doc[u] = "misnamed")
  /\ NoTask \notin Task
  /\ NoWorker \notin Worker
  /\ Free \notin Worker \cup Outsider
  /\ Worker \cap Outsider = {}
  /\ {IOFaults, Crashes} \subseteq BOOLEAN

VARIABLES
  place,     \* the directory each task file is in, or "absent"
  whole,     \* the tasks whose producer has finished writing the file
  result,    \* runtime/results/<id>.json: status and the task that wrote it
  pc,        \* what each worker does next
  cur,       \* the task each worker has claimed
  listing    \* the rest of the sorted listing claim_one walks through

workVars == <<place, whole, result, pc, cur, listing>>
vars == <<auditVars, workVars>>

NoResult == [status |-> "none", of |-> NoTask]

Init ==
  /\ AuditInit
  /\ place = [t \in Task |-> "absent"]
  /\ whole = {}
  /\ result = [i \in TaskId |-> NoResult]
  /\ pc = [w \in Worker |-> "idle"]
  /\ cur = [w \in Worker |-> NoTask]
  /\ listing = [w \in Worker |-> {}]

Goto(w, l) == pc' = [pc EXCEPT ![w] = l]

-----------------------------------------------------------------------------
(* The producer's file appears in pending/ before its content is complete, *)
(* and the open file follows the inode when a worker renames it.           *)
Submit(t) ==
  /\ place[t] = "absent"
  /\ place' = [place EXCEPT ![t] = "pending"]
  /\ UNCHANGED <<auditVars, whole, result, pc, cur, listing>>

FinishWriting(t) ==
  /\ place[t] # "absent" /\ t \notin whole
  /\ whole' = whole \cup {t}
  /\ UNCHANGED <<auditVars, place, result, pc, cur, listing>>

-----------------------------------------------------------------------------
(* claim_one: list pending/ once, then try the names in order.  A rename   *)
(* whose source is gone moves on to the next name.                         *)
Scan(w) ==
  /\ pc[w] = "idle"
  /\ listing' = [listing EXCEPT ![w] = {t \in Task : place[t] = "pending"}]
  /\ listing'[w] # {}
  /\ Goto(w, "claim")
  /\ UNCHANGED <<auditVars, place, whole, result, cur>>

(* Variant: the claim trusts the listing instead of the rename. *)
ClaimableIfListed(t) == place[t] # "absent"

Claimable(t) == place[t] = "pending"

TakeFirst(w, t) ==
  IF Claimable(t)
  THEN /\ place' = [place EXCEPT ![t] = "processing"]
       /\ cur' = [cur EXCEPT ![w] = t]
       /\ listing' = [listing EXCEPT ![w] = {}]
       /\ Goto(w, "claimed")
  ELSE /\ listing' = [listing EXCEPT ![w] = @ \ {t}]
       /\ UNCHANGED <<place, cur, pc>>

TryClaim(w) ==
  /\ pc[w] = "claim"
  /\ \E t \in listing[w] :
       /\ \A u \in listing[w] : t <= u
       /\ TakeFirst(w, t)
  /\ UNCHANGED <<auditVars, whole, result>>

(* Any other error of the rename, of a name that is too long for the target *)
(* or of a disk that does not answer, leaves process_one; main waits and    *)
(* lists again, so the names after this one are not tried.                  *)
ClaimRaises(w) ==
  /\ IOFaults
  /\ pc[w] = "claim" /\ listing[w] # {}
  /\ Goto(w, "idle")
  /\ listing' = [listing EXCEPT ![w] = {}]
  /\ UNCHANGED <<auditVars, place, whole, result, cur>>

NothingToClaim(w) ==
  /\ pc[w] = "claim" /\ listing[w] = {}
  /\ Goto(w, "idle")
  /\ UNCHANGED <<auditVars, place, whole, result, cur, listing>>

-----------------------------------------------------------------------------
(* The four append_audit calls of process_one, the step after each, and    *)
(* where an exception goes: into the handler, or, from the handler's own   *)
(* append, into its finally block.                                         *)
AppendPoint == {"claimed", "authorize", "complete", "report"}

Phase(l) == CASE l = "claimed"   -> "TASK_CLAIMED"
              [] l = "authorize" -> "TASK_STARTED"
              [] l = "complete"  -> "TASK_COMPLETED"
              [] l = "report"    -> "TASK_FAILED"

AfterAppend(l) == CASE l = "claimed"   -> "validate"
                    [] l = "authorize" -> "execute"
                    [] l = "complete"  -> "finish"
                    [] l = "report"    -> "retire"

(* Variant: the handler's append has no finally block. *)
HandlerNoFinally(l) == IF l = "report" THEN "idle" ELSE "raise"

Handler(l) == IF l = "report" THEN "retire" ELSE "raise"

EventOf(w) == {[phase |-> Phase(pc[w]), of |-> cur[w]]}

StartAppend(w) ==
  /\ pc[w] \in AppendPoint /\ w \notin appending
  /\ \/ LockOpens(w) /\ UNCHANGED pc
     \/ LockRefused(w) /\ Goto(w, Handler(pc[w]))
  /\ UNCHANGED <<place, whole, result, cur, listing>>

EndAppend(w) ==
  /\ pc[w] \in AppendPoint /\ w \in appending
  /\ \/ EventAppended(w, EventOf(w)) /\ Goto(w, AfterAppend(pc[w]))
     \/ AppendRaises(w, EventOf(w)) /\ Goto(w, Handler(pc[w]))
  /\ UNCHANGED <<place, whole, result, cur, listing>>

-----------------------------------------------------------------------------
(* Size limit, json.loads and validate_task_envelope.  A file that is read *)
(* before its producer has finished does not parse; any file may fail to   *)
(* be read.                                                                *)
Acceptable(t) == t \in whole /\ Doc[t] \in {"runnable", "unrunnable"}

(* Variant: the envelope is not validated before the task is authorised. *)
ValidateNothing(w) ==
  /\ pc[w] = "validate"
  /\ Goto(w, "authorize")
  /\ UNCHANGED <<auditVars, place, whole, result, cur, listing>>

Validate(w) ==
  /\ pc[w] = "validate"
  /\ \/ Acceptable(cur[w]) /\ Goto(w, "authorize")
     \/ (~ Acceptable(cur[w]) \/ IOFaults) /\ Goto(w, "raise")
  /\ UNCHANGED <<auditVars, place, whole, result, cur, listing>>

(* workspace_file: the file a task names, if it names one, is inside the   *)
(* workspace, not linked and not too big; an expected digest is one.       *)
Runnable(t) == Doc[t] = "runnable"

(* execute_task raises for any other document, and on a read error.        *)
Execute(w) ==
  /\ pc[w] = "execute"
  /\ \/ Runnable(cur[w]) /\ Goto(w, "publish")
     \/ (~ Runnable(cur[w]) \/ IOFaults) /\ Goto(w, "raise")
  /\ UNCHANGED <<auditVars, place, whole, result, cur, listing>>

(* atomic_result, first half: O_CREAT|O_EXCL.  An existing result, or an   *)
(* open that fails, raises; from the handler that exception is swallowed.  *)
(* Variant: the result file is opened for overwriting. *)
WritableAlways(t) == TRUE

Writable(t) == result[IdOf[t]] = NoResult

OpenResult(w) ==
  /\ pc[w] \in {"publish", "raise"}
  /\ LET named == Doc[cur[w]] # "misnamed" IN
     \/ /\ named /\ Writable(cur[w])
        /\ result' = [result EXCEPT ![IdOf[cur[w]]] =
                        [status |-> "partial", of |-> cur[w]]]
        /\ Goto(w, IF pc[w] = "publish" THEN "writeResult" ELSE "writeFailure")
     \/ /\ ~ named \/ ~ Writable(cur[w]) \/ IOFaults
        /\ Goto(w, IF pc[w] = "publish" THEN "raise" ELSE "report")
        /\ UNCHANGED result
  /\ UNCHANGED <<auditVars, place, whole, cur, listing>>

(* atomic_result, second half: write, flush, fsync; on an error the file   *)
(* is unlinked, unless the unlink fails too.  A "partial" result is a file *)
(* whose content nobody has confirmed, whatever part of it is on disk.     *)
WriteResult(w) ==
  /\ pc[w] \in {"writeResult", "writeFailure"}
  /\ LET i == IdOf[cur[w]]
         ok == pc[w] = "writeResult" IN
     \/ /\ result' = [result EXCEPT ![i].status =
                         IF ok THEN "COMPLETED" ELSE "FAILED"]
        /\ Goto(w, IF ok THEN "complete" ELSE "report")
     \/ /\ IOFaults
        /\ result' \in {result, [result EXCEPT ![i] = NoResult]}
        /\ Goto(w, IF ok THEN "raise" ELSE "report")
  /\ UNCHANGED <<auditVars, place, whole, cur, listing>>

Destination(l) == IF l = "finish" THEN "done" ELSE "failed"

(* The last rename: to done/ after the completion event, to failed/ from   *)
(* the finally block.  A rename that fails enters the handler in the first *)
(* case and is swallowed in the second, leaving the file in processing/.   *)
Retire(w) ==
  /\ pc[w] \in {"finish", "retire"}
  /\ \/ /\ place' = [place EXCEPT ![cur[w]] = Destination(pc[w])]
        /\ cur' = [cur EXCEPT ![w] = NoTask]
        /\ Goto(w, "idle")
     \/ /\ IOFaults /\ pc[w] = "finish"
        /\ Goto(w, "raise")
        /\ UNCHANGED <<place, cur>>
     \/ /\ IOFaults /\ pc[w] = "retire"
        /\ cur' = [cur EXCEPT ![w] = NoTask]
        /\ Goto(w, "idle")
        /\ UNCHANGED place
  /\ UNCHANGED <<auditVars, whole, result, listing>>

-----------------------------------------------------------------------------
(* A worker process is killed.  Its claimed file stays in processing/, its *)
(* lock file, if it has one, stays in place, and nothing cleans up.        *)
Crash(w) ==
  /\ Crashes /\ pc[w] # "down"
  /\ IF w \in appending THEN DiesAppending(w, EventOf(w))
                        ELSE UNCHANGED auditVars
  /\ Goto(w, "down")
  /\ cur' = [cur EXCEPT ![w] = NoTask]
  /\ listing' = [listing EXCEPT ![w] = {}]
  /\ UNCHANGED <<place, whole, result>>

(* Docker's restart: always. *)
Restart(w) ==
  /\ pc[w] = "down"
  /\ Goto(w, "idle")
  /\ UNCHANGED <<auditVars, place, whole, result, cur, listing>>

(* The host-side controller appends to the same log under the same lock.   *)
(* Its events are not about tasks and are left out of audit here.          *)
OutsiderAppends(p) ==
  /\ \/ p \notin appending /\ LockOpens(p)
     \/ p \in appending /\ EventAppended(p, {})
     \/ p \in appending /\ Crashes /\ DiesAppending(p, {})
  /\ UNCHANGED workVars

Operator == OperatorClearsLock /\ UNCHANGED workVars

WorkerStep(w) ==
  \/ Scan(w) \/ TryClaim(w) \/ ClaimRaises(w) \/ NothingToClaim(w)
  \/ StartAppend(w) \/ EndAppend(w) \/ Validate(w) \/ Execute(w)
  \/ OpenResult(w) \/ WriteResult(w) \/ Retire(w) \/ Restart(w)

Next ==
  \/ \E t \in Task : Submit(t) \/ FinishWriting(t)
  \/ \E w \in Worker : WorkerStep(w) \/ Crash(w)
  \/ \E p \in Outsider : OutsiderAppends(p)
  \/ Operator

Spec == Init /\ [][Next]_vars

(* A container that is up keeps running its loop, with a pending directory *)
(* it can list, and Docker restarts one that is down.  Nothing obliges producers, outsiders, crashes or the     *)
(* operator to act.                                                        *)
FairSpec == Spec /\ \A w \in Worker : WF_vars(WorkerStep(w))

-----------------------------------------------------------------------------
Places == {"absent", "pending", "processing", "done", "failed"}

Steps == AppendPoint \cup
  {"down", "idle", "claim", "validate", "execute", "publish", "raise",
   "writeResult", "writeFailure", "finish", "retire"}

Holding == Steps \ {"down", "idle", "claim"}

Audited(t, ph) == [phase |-> ph, of |-> t] \in audit

TypeOK ==
  /\ lockFile \in {Free} \cup Worker \cup Outsider
  /\ appending \in SUBSET (Worker \cup Outsider)
  /\ audit \in SUBSET [phase : {Phase(l) : l \in AppendPoint}, of : Task]
  /\ place \in [Task -> Places]
  /\ whole \in SUBSET Task
  /\ result \in [TaskId -> [status : {"none", "partial", "COMPLETED", "FAILED"},
                            of : Task \cup {NoTask}]]
  /\ pc \in [Worker -> Steps]
  /\ cur \in [Worker -> Task \cup {NoTask}]
  /\ listing \in [Worker -> SUBSET Task]

(* Claim by atomic rename: however stale the listings are, two workers     *)
(* never hold the same task, and a task being worked on is in processing/. *)
OneWorkerPerTask ==
  /\ \A v, w \in Worker : cur[v] = cur[w] /\ cur[v] # NoTask => v = w
  /\ \A w \in Worker : cur[w] # NoTask => place[cur[w]] = "processing"

(* A file in done/ has its own completed result, although another file may *)
(* have the same task_id, and its claim, start and completion are in the   *)
(* action log, whatever crashed on the way.                                *)
DoneIsWitnessed ==
  \A t \in Task : place[t] = "done" =>
    /\ result[IdOf[t]] = [status |-> "COMPLETED", of |-> t]
    /\ Audited(t, "TASK_CLAIMED") /\ Audited(t, "TASK_STARTED")
    /\ Audited(t, "TASK_COMPLETED")

(* The log claims a completion only for a result that is completely on     *)
(* disk, and a completed result exists only for a task whose start was     *)
(* logged first.                                                           *)
CompletionIsTrue ==
  \A t \in Task :
    /\ Audited(t, "TASK_COMPLETED") =>
         result[IdOf[t]] = [status |-> "COMPLETED", of |-> t]
    /\ result[IdOf[t]] = [status |-> "COMPLETED", of |-> t] =>
         Audited(t, "TASK_STARTED")

(* Undocumented or half-written tasks are rejected before any work: only a *)
(* whole, valid document is ever authorised.                               *)
StartedWasValid ==
  \A t \in Task : Audited(t, "TASK_STARTED") => Acceptable(t)

(* atomic_result never replaces a result that is completely written. *)
ResultsAreFinal ==
  [][\A i \in TaskId : result[i].status \in {"COMPLETED", "FAILED"} =>
       result'[i] = result[i]]_vars

(* However the workers and the other users contend for the lock, and       *)
(* whatever fails, a pending task is not left waiting once workers stop    *)
(* dying and claims of its own name and of the names before it stop        *)
(* raising, whatever becomes of the names after it: it reaches done/ or    *)
(* failed/, unless its worker died or its last rename failed, which leaves *)
(* the file in processing/ with nobody.                                    *)
Abandoned(t) == place[t] = "processing" /\ \A w \in Worker : cur[w] # t

BlockedAt(t) == \E w \in Worker : ClaimRaises(w) /\ \E u \in listing[w] : u <= t

EveryTaskSettles ==
  \A t \in Task :
    /\ <>[](\A w \in Worker : pc[w] # "down")
    /\ <>[][~ BlockedAt(t)]_vars
    => (place[t] = "pending" ~> place[t] \in {"done", "failed"} \/ Abandoned(t))

(* What the position of a worker says about its task: the facts that make  *)
(* the properties above inductive.                                         *)
Claimed == {"validate", "authorize", "execute", "publish", "writeResult",
            "complete", "finish"}
Started == {"execute", "publish", "writeResult", "complete", "finish"}

CustodyOf(w) ==
  LET t == cur[w] IN
  /\ (pc[w] \in Holding) = (t # NoTask)
  /\ w \in appending => pc[w] \in AppendPoint
  /\ pc[w] \in Claimed => Audited(t, "TASK_CLAIMED")
  /\ pc[w] \in Started => Audited(t, "TASK_STARTED")
  /\ pc[w] \in Started \cup {"authorize"} => Acceptable(t)
  /\ pc[w] \in {"writeResult", "writeFailure"} =>
       result[IdOf[t]] = [status |-> "partial", of |-> t]
  /\ pc[w] \in {"complete", "finish"} =>
       result[IdOf[t]] = [status |-> "COMPLETED", of |-> t]
  /\ pc[w] = "finish" => Audited(t, "TASK_COMPLETED")

Custody == \A w \in Worker : CustodyOf(w)

(* README: the worker "records completion/failure in the shared audit      *)
(* log".                                                                   *)
EveryOutcomeIsAudited ==
  \A t \in Task : place[t] \in {"done", "failed"} =>
    Audited(t, "TASK_COMPLETED") \/ Audited(t, "TASK_FAILED")

-----------------------------------------------------------------------------
(* The queue implements TaskQueue: a result counts as published when it is *)
(* completely written, and a task's owner is the live worker holding it.   *)
OwnerOf(t) == IF \E w \in Worker : cur[w] = t
              THEN CHOOSE w \in Worker : cur[w] = t ELSE NoWorker

Published(i) == IF result[i].status \in {"COMPLETED", "FAILED"}
                THEN result[i] ELSE NoResult

Promise == INSTANCE TaskQueue WITH
  owner <- [t \in Task |-> OwnerOf(t)],
  outcome <- [i \in TaskId |-> Published(i)]

ImplementsTaskQueue == Promise!Spec
=============================================================================
