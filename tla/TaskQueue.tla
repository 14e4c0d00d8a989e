----------------------------- MODULE TaskQueue ------------------------------
(***************************************************************************)
(* What the offline task queue promises, without workers' steps, locks or  *)
(* files: a task is taken by at most one worker and at most once, an       *)
(* outcome is published at most once per task id and never changes, and a  *)
(* task is done only when its own completed outcome is published.  A       *)
(* worker may lose a task (it dies); nobody takes that task again.         *)
(***************************************************************************)
CONSTANTS Worker, Task, TaskId, IdOf, NoTask, NoWorker

VARIABLES place,    \* where each task is
          owner,    \* the worker that has the task, or NoWorker
          outcome   \* the published outcome of each id

vars == <<place, owner, outcome>>

NoOutcome == [status |-> "none", of |-> NoTask]

Init ==
  /\ place = [t \in Task |-> "absent"]
  /\ owner = [t \in Task |-> NoWorker]
  /\ outcome = [i \in TaskId |-> NoOutcome]

Submit(t) ==
  /\ place[t] = "absent"
  /\ place' = [place EXCEPT ![t] = "pending"]
  /\ UNCHANGED <<owner, outcome>>

Claim(w, t) ==
  /\ place[t] = "pending"
  /\ \A u \in Task : owner[u] # w
  /\ place' = [place EXCEPT ![t] = "processing"]
  /\ owner' = [owner EXCEPT ![t] = w]
  /\ UNCHANGED outcome

Publish(t, status) ==
  /\ owner[t] # NoWorker
  /\ outcome[IdOf[t]] = NoOutcome
  /\ outcome' = [outcome EXCEPT ![IdOf[t]] = [status |-> status, of |-> t]]
  /\ UNCHANGED <<place, owner>>

Finish(t) ==
  /\ owner[t] # NoWorker
  /\ outcome[IdOf[t]] = [status |-> "COMPLETED", of |-> t]
  /\ place' = [place EXCEPT ![t] = "done"]
  /\ owner' = [owner EXCEPT ![t] = NoWorker]
  /\ UNCHANGED outcome

Fail(t) ==
  /\ owner[t] # NoWorker
  /\ place' = [place EXCEPT ![t] = "failed"]
  /\ owner' = [owner EXCEPT ![t] = NoWorker]
  /\ UNCHANGED outcome

Lose(t) ==
  /\ owner[t] # NoWorker
  /\ owner' = [owner EXCEPT ![t] = NoWorker]
  /\ UNCHANGED <<place, outcome>>

Next ==
  \E t \in Task :
    \/ Submit(t)
    \/ \E w \in Worker : Claim(w, t)
    \/ \E s \in {"COMPLETED", "FAILED"} : Publish(t, s)
    \/ Finish(t) \/ Fail(t) \/ Lose(t)

Spec == Init /\ [][Next]_vars
=============================================================================
