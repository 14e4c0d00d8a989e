------------------------------ MODULE Observer ------------------------------
(***************************************************************************)
(* The observer container of controller/observer.py beside the workers: it *)
(* lists the four queue directories one after another, checks each listed  *)
(* name again before it counts it, reads the action log, and replaces its  *)
(* status file.  It takes no lock; workers move files and append events    *)
(* between any two of its steps.  The published numbers are the sizes of   *)
(* the sets below.                                                         *)
(***************************************************************************)
EXTENDS WorkerQueue, Sequences

VARIABLES
  stage,      \* which source is being read; one past the last: all are read
  listed,     \* the names of that directory's listing still to be checked,
              \* or Unlisted
  counted,    \* by directory: the tasks counted, the values of counts
  events,     \* the events of the log that were read
  witnessed,  \* no directory and no line of the log was unreadable
  present     \* history: the tasks in the queue when this snapshot began

Unlisted == {NoTask}

observerVars == <<stage, listed, counted, events, witnessed, present>>

Dirs == {"pending", "processing", "done", "failed"}

(* Variants: the directories against the flow of the tasks; the log first. *)
SourceBackwards == <<"failed", "done", "processing", "pending", "log">>
SourceLogFirst == <<"log", "pending", "processing", "done", "failed">>

Source == <<"pending", "processing", "done", "failed", "log">>

Inside == {t \in Task : place[t] # "absent"}

NothingCounted == [d \in Dirs |-> {}]

ObserverInit ==
  /\ Init
  /\ stage = 1 /\ listed = Unlisted /\ counted = NothingCounted
  /\ events = {} /\ witnessed = TRUE /\ present = {}

-----------------------------------------------------------------------------
Reading(d) == stage <= Len(Source) /\ Source[stage] = d

(* count_tasks: iterdir. *)
List(d) ==
  /\ Reading(d) /\ listed = Unlisted
  /\ listed' = {t \in Task : place[t] = d}
  /\ present' = IF stage = 1 THEN Inside ELSE present
  /\ UNCHANGED <<vars, stage, counted, events, witnessed>>

(* A directory that cannot be read counts as None.  One that does not      *)
(* exist would count as zero; main and ensure_layout create all four, and  *)
(* nothing in the code removes one.                                        *)
ListFails(d) ==
  /\ IOFaults /\ Reading(d) /\ listed = Unlisted
  /\ witnessed' = FALSE /\ stage' = stage + 1
  /\ present' = IF stage = 1 THEN Inside ELSE present
  /\ UNCHANGED <<vars, listed, counted, events>>

(* count_tasks: is_file, asked of one listed name after the other. *)
CheckName(d) ==
  /\ Reading(d) /\ listed # Unlisted
  /\ \E t \in listed :
       /\ listed' = listed \ {t}
       /\ counted' = IF place[t] = d
                     THEN [counted EXCEPT ![d] = @ \cup {t}] ELSE counted
  /\ UNCHANGED <<vars, stage, events, witnessed, present>>

Counted(d) ==
  /\ Reading(d) /\ listed = {}
  /\ listed' = Unlisted /\ stage' = stage + 1
  /\ UNCHANGED <<vars, counted, events, witnessed, present>>

(* inspect_action_log.  A line that somebody is appending at the moment,   *)
(* or that a failure cut short, does not parse, nor does an event written  *)
(* onto the end of one: the snapshot is then not OBSERVED.                 *)
ReadLog ==
  /\ Reading("log")
  /\ events' = audit
  /\ \/ UNCHANGED witnessed
     \/ (appending # {} \/ IOFaults \/ Crashes) /\ witnessed' = FALSE
  /\ stage' = stage + 1
  /\ present' = IF stage = 1 THEN Inside ELSE present
  /\ UNCHANGED <<vars, listed, counted>>

Begin ==
  /\ stage' = 1 /\ listed' = Unlisted /\ counted' = NothingCounted
  /\ events' = {} /\ witnessed' = TRUE /\ present' = {}

(* atomic_write: what was read replaces the status file in one rename. *)
Publish ==
  /\ stage > Len(Source)
  /\ Begin
  /\ UNCHANGED vars

(* The container is stopped or dies, also inside atomic_write; what it has *)
(* read is gone, the status file stays, and the next one begins afresh.    *)
ObserverDies ==
  /\ Crashes /\ stage > 1
  /\ Begin
  /\ UNCHANGED vars

ObserverStep ==
  \/ \E d \in Dirs : List(d) \/ ListFails(d) \/ CheckName(d) \/ Counted(d)
  \/ ReadLog
  \/ Publish

ObserverNext ==
  \/ Next /\ UNCHANGED observerVars
  \/ ObserverStep
  \/ ObserverDies

ObserverSpec == ObserverInit /\ [][ObserverNext]_<<vars, observerVars>>

-----------------------------------------------------------------------------
ObserverTypeOK ==
  /\ TypeOK
  /\ stage \in 1 .. Len(Source) + 1
  /\ listed \in (SUBSET Task) \cup {Unlisted}
  /\ counted \in [Dirs -> SUBSET Task]
  /\ events \subseteq audit
  /\ witnessed \in BOOLEAN /\ present \subseteq Task

(* The status about to be published is "OBSERVED". *)
Observed == stage > Len(Source) /\ witnessed

(* snapshot: although the directories are read at four different moments   *)
(* and files move meanwhile, a status OBSERVED has counted every task that *)
(* was in the queue when the snapshot began, in at least one of them.      *)
NothingOverlooked ==
  Observed => present \subseteq UNION {counted[d] : d \in Dirs}

(* snapshot: queue and log are read at different moments, but a status     *)
(* OBSERVED never counts a task as done without having read its claim, its *)
(* start and its completion, nor as failed as well.                        *)
DoneIsInTheLog ==
  Observed =>
    \A t \in counted["done"] :
      /\ \A ph \in {"TASK_CLAIMED", "TASK_STARTED", "TASK_COMPLETED"} :
           [phase |-> ph, of |-> t] \in events
      /\ t \notin counted["failed"]
=============================================================================
