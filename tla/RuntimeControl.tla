--------------------------- MODULE RuntimeControl ---------------------------
(***************************************************************************)
(* The host-side controller of controller/runtime_control.py: it observes  *)
(* the worker service through the Docker CLI, decides, logs the decision,  *)
(* scales the service by one replica, checks the effect and restores the   *)
(* old count when anything after the decision fails.  One step is one      *)
(* Docker command, one state-file access or one half of append_audit.      *)
(*                                                                         *)
(* Nothing keeps a second controller (a --once beside a --watch) or an     *)
(* operator with the Docker CLI away, and the workers use the same log.    *)
(***************************************************************************)
EXTENDS AuditLog, Integers

CONSTANTS Controller, Outsider,          \* controllers; other users of the log
          AllowActions, AllowScaleDown,  \* the two V91_* switches
          Watch,                         \* --watch instead of --once
          Manual,                        \* does the operator scale by hand?
          DockerFaults,                  \* may commands and containers fail?
          HostMax                        \* bound: replicas an operator asks for

ASSUME RCAssumption ==
  /\ Free \notin Controller \cup Outsider
  /\ Controller \cap Outsider = {}
  /\ {AllowActions, AllowScaleDown, Watch, Manual, DockerFaults,
      IOFaults, Crashes} \subseteq BOOLEAN
  /\ HostMax \in Nat /\ HostMax >= 3

VARIABLES
  replicas,   \* the worker containers of the Compose project
  healthy,    \* all of them run and report their resource use
  load,       \* the band of their highest CPU and memory use
  late,       \* what commands that were given up are still working towards
  moved,      \* history: others moved the count since a controller last looked
  samples,    \* low_resource_samples in v91-controller-state.json
  pc,         \* what each controller does next
  seen,       \* the snapshot of each controller's cycle
  plan,       \* what decide returned: the action and the next sample count
  streak      \* history: recorded low samples in a row since the last other
              \* recorded sample or scale-down decision, counted up to three

dockerVars == <<replicas, healthy, load, late, moved>>
vars == <<auditVars, dockerVars, samples, pc, seen, plan, streak>>

MIN_REPLICAS == 1
MAX_REPLICAS == 3
LOW_SAMPLES_REQUIRED == 3

NoSnapshot == [replicas |-> 0, load |-> "mid"]
NoPlan == [action |-> "none", next |-> 0]

Init ==
  /\ AuditInit
  /\ replicas \in MIN_REPLICAS..MAX_REPLICAS
  /\ healthy = TRUE
  /\ load \in {"low", "mid", "high"}
  /\ late = {} /\ moved = FALSE
  /\ samples = 0
  /\ pc = [c \in Controller |-> "exited"]
  /\ seen = [c \in Controller |-> NoSnapshot]
  /\ plan = [c \in Controller |-> NoPlan]
  /\ streak = 0

Goto(c, l) == pc' = [pc EXCEPT ![c] = l]

(* Only the events of each controller's current cycle are kept: a cycle    *)
(* has a fresh event_id.                                                   *)
Logged(c, ph) == [phase |-> ph, of |-> c] \in audit

-----------------------------------------------------------------------------
(* main: one cycle per start, or one every interval. *)
StartCycle(c) ==
  /\ pc[c] \in {"exited", "sleep"}
  /\ Goto(c, "observe")
  /\ audit' = {e \in audit : e.of # c}
  /\ seen' = [seen EXCEPT ![c] = NoSnapshot]
  /\ plan' = [plan EXCEPT ![c] = NoPlan]
  /\ UNCHANGED <<lockFile, appending, dockerVars, samples, streak>>

CycleOver == IF Watch THEN "sleep" ELSE "exited"

(* collect_snapshot raises when there is no worker container, one is not   *)
(* running or not measured, or a command fails or times out.               *)
SnapshotOf == [replicas |-> replicas, load |-> load]
SnapshotTaken == replicas > 0 /\ healthy
SnapshotRaises == replicas = 0 \/ ~ healthy \/ DockerFaults

Looks == /\ moved' = FALSE
         /\ UNCHANGED <<replicas, healthy, load, late>>

Observe(c) ==
  /\ pc[c] = "observe"
  /\ \/ SnapshotTaken /\ seen' = [seen EXCEPT ![c] = SnapshotOf]
                      /\ Looks /\ Goto(c, "decide")
     \/ SnapshotRaises /\ Goto(c, "noData") /\ UNCHANGED <<seen, dockerVars>>
  /\ UNCHANGED <<auditVars, samples, plan, streak>>

(* decide(snapshot, low_samples): the action and the next count.  Counts   *)
(* outside the bounds, busy samples and decisions all reset the count.     *)
InBounds(n) == n \in MIN_REPLICAS..MAX_REPLICAS
HighUse(s) == InBounds(s.replicas) /\ s.load = "high"
LowUse(s) == InBounds(s.replicas) /\ s.load = "low" /\ s.replicas > MIN_REPLICAS

(* Variant: the comparison with the maximum is off by one. *)
ActionOneBelow(s, low) ==
  CASE HighUse(s) /\ s.replicas + 1 < MAX_REPLICAS -> "up"
    [] LowUse(s) /\ low + 1 >= LOW_SAMPLES_REQUIRED -> "down"
    [] OTHER -> "none"

Action(s, low) ==
  CASE HighUse(s) /\ s.replicas < MAX_REPLICAS -> "up"
    [] LowUse(s) /\ low + 1 >= LOW_SAMPLES_REQUIRED -> "down"
    [] OTHER -> "none"

(* Variant: a sample that is not low leaves the count alone. *)
NextCountKept(s, low) ==
  IF s.load # "low" THEN low
  ELSE IF LowUse(s) /\ low + 1 < LOW_SAMPLES_REQUIRED THEN low + 1 ELSE 0

NextCount(s, low) ==
  IF LowUse(s) /\ low + 1 < LOW_SAMPLES_REQUIRED THEN low + 1 ELSE 0

Decision(s, low) == [action |-> Action(s, low), next |-> NextCount(s, low)]

(* read_low_sample_count, then decide: a file that cannot be read counts   *)
(* as zero, and the count may be stale when another controller writes it   *)
(* before PersistState.                                                    *)
CountRead == {samples} \cup (IF IOFaults THEN {0} ELSE {})

Decide(c) ==
  /\ pc[c] = "decide"
  /\ \E low \in CountRead : plan' = [plan EXCEPT ![c] = Decision(seen[c], low)]
  /\ Goto(c, "persist")
  /\ UNCHANGED <<auditVars, dockerVars, samples, seen, streak>>

StreakAfter(c) ==
  IF seen[c].load # "low" \/ plan[c].action = "down" THEN 0
  ELSE IF streak < LOW_SAMPLES_REQUIRED THEN streak + 1 ELSE streak

(* write_state replaces the file atomically; an OSError is not a           *)
(* ControlError and ends the process, which leaves the sample unrecorded.  *)
PersistState(c) ==
  /\ pc[c] = "persist"
  /\ \/ /\ samples' = plan[c].next /\ streak' = StreakAfter(c)
        /\ Goto(c, "declare")
     \/ IOFaults /\ Goto(c, "exited") /\ UNCHANGED <<samples, streak>>
  /\ UNCHANGED <<auditVars, dockerVars, seen, plan>>

-----------------------------------------------------------------------------
(* The events of a cycle, where the controller goes after each, and where  *)
(* it goes when append_audit raises: a decision or a result that cannot be *)
(* recorded ends the process, but a verification that cannot be recorded   *)
(* is handled like one that failed.                                        *)
AppendPoint == {"noData", "declare", "verify", "restored", "unrestored"}

Phase(l) == CASE l = "noData"     -> "OBSERVATION"
              [] l = "declare"    -> "DECISION"
              [] l = "verify"     -> "VERIFY"
              [] l = "restored"   -> "ROLLED_BACK"
              [] l = "unrestored" -> "ROLLBACK_FAILED"

Acts(c) ==
  /\ plan[c].action # "none" /\ AllowActions
  /\ plan[c].action = "down" => AllowScaleDown

AfterAppend(c) ==
  CASE pc[c] = "declare" -> IF Acts(c) THEN "scale" ELSE CycleOver
    [] pc[c] \in {"verify", "restored"} -> CycleOver
    [] pc[c] \in {"noData", "unrestored"} -> "exited"

(* Variant: a failed append of VERIFY is ignored. *)
AfterRaiseIgnored(l) == IF l = "verify" THEN "sleep" ELSE "exited"

AfterRaise(l) == IF l = "verify" THEN "rollback" ELSE "exited"

EventOf(c) == {[phase |-> Phase(pc[c]), of |-> c]}

StartAppend(c) ==
  /\ pc[c] \in AppendPoint /\ c \notin appending
  /\ \/ LockOpens(c) /\ UNCHANGED pc
     \/ LockRefused(c) /\ Goto(c, AfterRaise(pc[c]))
  /\ UNCHANGED <<dockerVars, samples, seen, plan, streak>>

EndAppend(c) ==
  /\ pc[c] \in AppendPoint /\ c \in appending
  /\ \/ EventAppended(c, EventOf(c)) /\ Goto(c, AfterAppend(c))
     \/ AppendRaises(c, EventOf(c)) /\ Goto(c, AfterRaise(pc[c]))
  /\ UNCHANGED <<dockerVars, samples, seen, plan, streak>>

-----------------------------------------------------------------------------
(* Variant: the target is computed from the live count. *)
TargetFromLive(c) == IF plan[c].action = "up" THEN replicas + 1
                     ELSE replicas - 1

Target(c) == IF plan[c].action = "up" THEN seen[c].replicas + 1
             ELSE seen[c].replicas - 1

(* scale_worker(n): docker compose up --scale.  A command that fails may   *)
(* have done its work, a part of it, or nothing.  run_command gives a      *)
(* command up after its timeout and kills the CLI; what the CLI has        *)
(* started may still happen, at any later time.                            *)
Between(m, n) == {k \in 0..HostMax : (m <= k /\ k <= n) \/ (n <= k /\ k <= m)}

ScaleWorker(c, n, done, failed) ==
  \/ /\ InBounds(n)
     /\ replicas' = n
     /\ healthy' \in {healthy, TRUE}
     /\ Goto(c, done)
     /\ UNCHANGED late
  \/ /\ InBounds(n) /\ DockerFaults
     /\ replicas' \in Between(replicas, n)
     /\ healthy' \in BOOLEAN
     /\ late' \in {late, late \cup {n}}
     /\ Goto(c, failed)
  \/ /\ ~ InBounds(n)
     /\ Goto(c, failed)
     /\ UNCHANGED <<replicas, healthy, late>>

Scale(c) ==
  /\ pc[c] = "scale"
  /\ ScaleWorker(c, Target(c), "check", "rollback")
  /\ UNCHANGED <<auditVars, load, moved, samples, seen, plan, streak>>

(* A post-check succeeds when the snapshot shows n replicas, all running. *)
CheckCount(c, n, match, mismatch) ==
  \/ SnapshotTaken /\ Looks /\ Goto(c, IF replicas = n THEN match ELSE mismatch)
  \/ SnapshotRaises /\ Goto(c, mismatch) /\ UNCHANGED dockerVars

CheckEffect(c) ==
  /\ pc[c] = "check"
  /\ CheckCount(c, Target(c), "verify", "rollback")
  /\ UNCHANGED <<auditVars, samples, seen, plan, streak>>

Rollback(c) ==
  /\ pc[c] = "rollback"
  /\ ScaleWorker(c, seen[c].replicas, "recheck", "unrestored")
  /\ UNCHANGED <<auditVars, load, moved, samples, seen, plan, streak>>

CheckRollback(c) ==
  /\ pc[c] = "recheck"
  /\ CheckCount(c, seen[c].replicas, "restored", "unrestored")
  /\ UNCHANGED <<auditVars, samples, seen, plan, streak>>

-----------------------------------------------------------------------------
(* The controller is interrupted or killed; its lock file stays, and a     *)
(* command it was waiting for goes on.                                     *)
Requested(c) == CASE pc[c] = "scale" -> {Target(c)}
                  [] pc[c] = "rollback" -> {seen[c].replicas}
                  [] OTHER -> {}

Crash(c) ==
  /\ Crashes /\ pc[c] # "exited"
  /\ IF c \in appending THEN DiesAppending(c, EventOf(c))
                        ELSE UNCHANGED auditVars
  /\ Goto(c, "exited")
  /\ late' \in {late, late \cup {n \in Requested(c) : InBounds(n)}}
  /\ UNCHANGED <<replicas, healthy, load, moved, samples, seen, plan, streak>>

(* A command that was given up takes effect, entirely or in part.          *)
LateEffect ==
  /\ \E n \in late :
       /\ replicas' \in Between(replicas, n)
       /\ late' = late \ {n}
  /\ healthy' \in BOOLEAN
  /\ moved' = TRUE
  /\ UNCHANGED <<auditVars, load, samples, pc, seen, plan, streak>>

(* What the controller does not control. *)
LoadChanges ==
  /\ load' \in {"low", "mid", "high"}
  /\ UNCHANGED <<auditVars, replicas, healthy, late, moved, samples, pc, seen, plan,
                 streak>>

HealthChanges ==
  /\ DockerFaults
  /\ healthy' = ~ healthy
  /\ UNCHANGED <<auditVars, replicas, load, late, moved, samples, pc, seen, plan,
                 streak>>

OperatorScales ==
  /\ Manual
  /\ replicas' \in 0..HostMax
  /\ moved' = TRUE
  /\ UNCHANGED <<auditVars, healthy, load, late, samples, pc, seen, plan, streak>>

OutsiderAppends(p) ==
  /\ \/ p \notin appending /\ LockOpens(p)
     \/ p \in appending /\ EventAppended(p, {})
     \/ p \in appending /\ Crashes /\ DiesAppending(p, {})
  /\ UNCHANGED <<dockerVars, samples, pc, seen, plan, streak>>

Operator ==
  /\ OperatorClearsLock
  /\ UNCHANGED <<dockerVars, samples, pc, seen, plan, streak>>

ControllerStep(c) ==
  \/ Observe(c) \/ Decide(c) \/ PersistState(c) \/ StartAppend(c)
  \/ EndAppend(c) \/ Scale(c) \/ CheckEffect(c) \/ Rollback(c)
  \/ CheckRollback(c)

Next ==
  \/ \E c \in Controller : StartCycle(c) \/ ControllerStep(c) \/ Crash(c)
  \/ \E p \in Outsider : OutsiderAppends(p)
  \/ LateEffect \/ LoadChanges \/ HealthChanges \/ OperatorScales \/ Operator

Spec == Init /\ [][Next]_vars

(* A controller that runs finishes its cycle, and --watch starts the next  *)
(* one; nobody is obliged to start a controller that has exited.           *)
FairSpec ==
  /\ Spec
  /\ \A c \in Controller :
       WF_vars(ControllerStep(c)) /\ WF_vars(pc[c] = "sleep" /\ StartCycle(c))
-----------------------------------------------------------------------------
Steps == AppendPoint \cup
  {"exited", "sleep", "observe", "decide", "persist", "scale", "check",
   "rollback", "recheck"}

Acting == {"scale", "check", "verify", "rollback", "recheck", "restored",
           "unrestored"}

TypeOK ==
  /\ lockFile \in {Free} \cup Controller \cup Outsider
  /\ appending \in SUBSET (Controller \cup Outsider)
  /\ audit \in SUBSET [phase : {Phase(l) : l \in AppendPoint}, of : Controller]
  /\ replicas \in 0..HostMax
  /\ healthy \in BOOLEAN
  /\ load \in {"low", "mid", "high"}
  /\ late \subseteq MIN_REPLICAS..MAX_REPLICAS /\ moved \in BOOLEAN
  /\ samples \in 0..(LOW_SAMPLES_REQUIRED - 1)
  /\ streak \in 0..LOW_SAMPLES_REQUIRED
  /\ pc \in [Controller -> Steps]
  /\ seen \in [Controller -> [replicas : 0..HostMax, load : {"low", "mid", "high"}]]
  /\ plan \in [Controller -> [action : {"none", "up", "down"},
                             next : 0..(LOW_SAMPLES_REQUIRED - 1)]]

(* Whatever the operator and other controllers do meanwhile, a controller  *)
(* moves the replica count only after its decision is on disk, only with   *)
(* the switch for that direction, and only towards a count within 1..3     *)
(* that is the one it observed or one step from it.                        *)
OnlyLoggedSteps ==
  [][\A c \in Controller :
       pc[c] \in {"scale", "rollback"} /\ pc'[c] # pc[c] /\ replicas' # replicas =>
         /\ AllowActions /\ Logged(c, "DECISION")
         /\ plan[c].action = "down" => AllowScaleDown
         /\ \E n \in MIN_REPLICAS..MAX_REPLICAS :
              /\ n \in (seen[c].replicas - 1)..(seen[c].replicas + 1)
              /\ replicas' \in Between(replicas, n)]_vars

(* README: "Scale-down requires three consecutive low-resource samples":   *)
(* the two recorded samples before the one that decides were low as well,  *)
(* and none of them already led to a scale-down.                           *)
ThreeLowSamples ==
  [][\A c \in Controller :
       pc[c] = "decide" /\ plan'[c].action = "down" =>
         streak >= LOW_SAMPLES_REQUIRED - 1 /\ seen[c].load = "low"]_vars

(* The count on disk never runs ahead of the low samples really recorded,  *)
(* whichever writes fail and wherever the controller dies.                 *)
CountIsEarned ==
  /\ samples <= streak
  /\ \A c \in Controller : pc[c] = "persist" => plan[c].next <= StreakAfter(c)

(* At the end of every cycle the log tells the replica count: the target   *)
(* after VERIFY, the old count after ROLLED_BACK or a decision that was    *)
(* not carried out.  What the operator, a container that stops or a        *)
(* command given up in this or an earlier cycle did to the count before    *)
(* the controller's last look at it does not matter: the post-check and    *)
(* the one after the rollback notice it.  After that look nothing does.    *)
LogMatchesReplicas ==
  \A c \in Controller : pc[c] = "sleep" /\ ~ moved =>
    replicas = IF Logged(c, "VERIFY") /\ ~ Logged(c, "ROLLED_BACK")
               THEN Target(c) ELSE seen[c].replicas

(* A controller whose cycles from some time on do not fail, with a state   *)
(* file it can read, nobody scaling by hand any more and a count left      *)
(* within its bounds, brings the service to three replicas under lasting   *)
(* pressure and, with the opt-in, to one under lasting low use, whatever   *)
(* failed before.                                                          *)
CountLost(c) ==
  pc[c] = "decide" /\ pc'[c] = "persist" /\ plan'[c] # Decision(seen[c], samples)

Undisturbed(c, band) ==
  /\ <>[](load = band /\ InBounds(replicas)
            /\ pc[c] \notin {"exited", "noData", "rollback"})
  /\ <>[][~ OperatorScales /\ ~ CountLost(c)]_vars

CapacityFollowsLoad ==
  \A c \in Controller :
    /\ Undisturbed(c, "high") => <>[](replicas = MAX_REPLICAS)
    /\ Undisturbed(c, "low") => <>[](replicas = MIN_REPLICAS)

(* The rollback plan that every decision records: "Restore worker replica  *)
(* count to N if post-check fails."                                        *)
RollbackOnlyAfterFailedCheck ==
  [][\A c \in Controller : pc'[c] = "rollback" /\ pc[c] # "rollback" =>
       ~ (pc[c] = "verify")]_vars
=============================================================================
