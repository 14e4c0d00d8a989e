------------------------ MODULE RuntimeControl_proofs ------------------------
(***************************************************************************)
(* Proofs about RuntimeControl for any number of controllers and other     *)
(* users of the log.                                                       *)
(***************************************************************************)
EXTENDS RuntimeControl, TLAPS

(* What the position of a controller says about its plan: a plan that acts *)
(* was made for counts within the bounds, and a controller that acts has   *)
(* logged its decision.                                                    *)
PlanOK(c) ==
  /\ plan[c].action # "none" => InBounds(seen[c].replicas) /\ InBounds(Target(c))
  /\ pc[c] \in {"observe", "decide"} => plan[c].action = "none"
  /\ pc[c] \in Acting => Acts(c) /\ Logged(c, "DECISION")
  /\ c \in appending => pc[c] \in AppendPoint

IInv == TypeOK /\ LockDiscipline /\ \A c \in Controller : PlanOK(c)

(* The event phases and the step after each append, one by one.            *)
LEMMA Phases ==
  /\ {Phase(l) : l \in AppendPoint} =
       {"OBSERVATION", "DECISION", "VERIFY", "ROLLED_BACK", "ROLLBACK_FAILED"}
  /\ Phase("declare") = "DECISION"
BY DEF Phase, AppendPoint

(* decide acts only on counts whose target is within the bounds, and its   *)
(* next count stays below the number of samples required.                  *)
LEMMA DecisionOK ==
  ASSUME NEW s \in [replicas : Nat, load : {"low", "mid", "high"}],
         NEW low \in 0..(LOW_SAMPLES_REQUIRED - 1)
  PROVE  /\ Action(s, low) \in {"none", "up", "down"}
         /\ NextCount(s, low) \in 0..(LOW_SAMPLES_REQUIRED - 1)
         /\ Action(s, low) = "up" => InBounds(s.replicas) /\ InBounds(s.replicas + 1)
         /\ Action(s, low) = "down" =>
              InBounds(s.replicas) /\ InBounds(s.replicas - 1)
<1>1. Action(s, low) \in {"none", "up", "down"}
  BY DEF Action
<1>2. NextCount(s, low) \in 0..(LOW_SAMPLES_REQUIRED - 1)
  BY DEF NextCount, LOW_SAMPLES_REQUIRED
<1>3. Action(s, low) = "up" => HighUse(s) /\ s.replicas < MAX_REPLICAS
  BY DEF Action
<1>4. Action(s, low) = "down" => LowUse(s)
  BY DEF Action
<1>. QED
  BY <1>1, <1>2, <1>3, <1>4
  DEF HighUse, LowUse, InBounds, MIN_REPLICAS, MAX_REPLICAS

(* Before any controller has started every invariant holds.                *)
LEMMA InitInv == Init => IInv
<1> SUFFICES ASSUME Init PROVE IInv
  OBVIOUS
<1>1. moved \in BOOLEAN /\ healthy \in BOOLEAN
  BY Zenon DEF Init
<1>. QED
  BY <1>1, RCAssumption
  DEF Init, AuditInit, IInv, TypeOK, LockDiscipline, PlanOK, NoSnapshot, NoPlan,
    MIN_REPLICAS, MAX_REPLICAS, LOW_SAMPLES_REQUIRED, Steps, Acting, AppendPoint

(* A new cycle forgets the plan and the events of the one before.          *)
LEMMA StartCycleInv ==
  ASSUME IInv, NEW c \in Controller, StartCycle(c)
  PROVE  IInv'
<1> USE DEF IInv, StartCycle, Goto, dockerVars
<1>1. TypeOK'
  <2>1. /\ UNCHANGED <<healthy, moved, late>>
        /\ healthy \in BOOLEAN /\ moved \in BOOLEAN
    BY Zenon DEF TypeOK
  <2>. QED
    BY <2>1, RCAssumption
    DEF TypeOK, NoSnapshot, NoPlan, Steps, LOW_SAMPLES_REQUIRED
<1>2. LockDiscipline'
  BY DEF LockDiscipline
<1>3. ASSUME NEW d \in Controller PROVE PlanOK(d)'
  <2>0. PlanOK(d)
    OBVIOUS
  <2>1. CASE d = c
    <3>1. pc'[d] = "observe" /\ plan'[d] = NoPlan /\ d \notin appending'
      BY <2>0, <2>1 DEF TypeOK, PlanOK, AppendPoint
    <3>. QED BY <3>1 DEF PlanOK, NoPlan, Acting
  <2>2. CASE d # c
    <3>1. /\ pc'[d] = pc[d] /\ plan'[d] = plan[d] /\ seen'[d] = seen[d]
          /\ appending' = appending
      BY <2>2 DEF TypeOK
    <3>2. Logged(d, "DECISION") => Logged(d, "DECISION")'
      BY <2>2 DEF Logged
    <3>. QED BY <2>0, <3>1, <3>2 DEF PlanOK, Target, Acts
  <2>. QED BY <2>1, <2>2
<1>. QED BY <1>1, <1>2, <1>3

(* A snapshot is taken before there is a plan; one that fails leads only   *)
(* to an event.                                                            *)
LEMMA ObserveInv ==
  ASSUME IInv, NEW c \in Controller, Observe(c)
  PROVE  IInv'
<1> USE DEF IInv, Observe, Looks, auditVars, dockerVars, Goto
<1>1. TypeOK'
  <2>1. SnapshotOf \in [replicas : 0..HostMax, load : {"low", "mid", "high"}]
    BY DEF TypeOK, SnapshotOf
  <2>2. seen' \in [Controller ->
                    [replicas : 0..HostMax, load : {"low", "mid", "high"}]]
    BY <2>1 DEF TypeOK
  <2>3. pc' \in [Controller -> Steps]
    BY DEF TypeOK, Steps, AppendPoint
  <2>4. moved' \in BOOLEAN /\ healthy' \in BOOLEAN
    BY Zenon DEF TypeOK
  <2>. QED BY <2>2, <2>3, <2>4 DEF TypeOK
<1>2. LockDiscipline'
  BY RCAssumption DEF LockDiscipline, TypeOK
<1>3. ASSUME NEW d \in Controller PROVE PlanOK(d)'
  <2>0. PlanOK(d) /\ PlanOK(c)
    OBVIOUS
  <2>1. CASE d = c
    <3>1. /\ plan'[d].action = "none" /\ pc'[d] \in {"decide", "noData"}
          /\ d \notin appending'
      BY <2>0, <2>1 DEF TypeOK, PlanOK, AppendPoint
    <3>. QED BY <3>1 DEF PlanOK, Acting, AppendPoint
  <2>2. CASE d # c
    <3>1. /\ pc'[d] = pc[d] /\ plan'[d] = plan[d] /\ seen'[d] = seen[d]
          /\ d \in appending' => d \in appending
      BY <2>2 DEF TypeOK
    <3>2. Logged(d, "DECISION") => Logged(d, "DECISION")'
      BY DEF Logged
    <3>. QED BY <2>0, <3>1, <3>2 DEF PlanOK, Target, Acts
  <2>. QED BY <2>1, <2>2
<1>. QED BY <1>1, <1>2, <1>3

(* A plan that acts is made for counts within the bounds, whatever count   *)
(* of low samples it was made from.                                        *)
LEMMA DecideInv ==
  ASSUME IInv, NEW c \in Controller, Decide(c)
  PROVE  IInv'
<1> USE DEF IInv, Decide, auditVars, dockerVars, Goto
<1>1. TypeOK'
  <2>1. /\ seen[c] \in [replicas : Nat, load : {"low", "mid", "high"}]
        /\ CountRead \subseteq 0..(LOW_SAMPLES_REQUIRED - 1)
    BY RCAssumption DEF TypeOK, CountRead, LOW_SAMPLES_REQUIRED
  <2>2. plan' \in [Controller -> [action : {"none", "up", "down"},
                                 next : 0..(LOW_SAMPLES_REQUIRED - 1)]]
    BY <2>1, DecisionOK DEF TypeOK, Decision
  <2>. QED BY <2>2 DEF TypeOK, Steps
<1>2. LockDiscipline'
  BY RCAssumption DEF LockDiscipline, TypeOK
<1>3. ASSUME NEW d \in Controller PROVE PlanOK(d)'
  <2>0. PlanOK(d) /\ PlanOK(c)
    OBVIOUS
  <2>1. CASE d = c
    <3>1. PICK low \in CountRead :
            plan' = [plan EXCEPT ![c] = Decision(seen[c], low)]
      OBVIOUS
    <3>1a. /\ seen[c] \in [replicas : Nat, load : {"low", "mid", "high"}]
           /\ low \in 0..(LOW_SAMPLES_REQUIRED - 1)
      BY RCAssumption DEF TypeOK, CountRead, LOW_SAMPLES_REQUIRED
    <3>2. /\ plan'[d].action = Action(seen[c], low)
          /\ pc'[d] = "persist" /\ seen'[d] = seen[c]
          /\ d \notin appending'
      BY <2>0, <2>1, <3>1 DEF TypeOK, PlanOK, Decision, AppendPoint
    <3>3. plan'[d].action \in {"none", "up", "down"}
      BY <3>1a, <3>2, DecisionOK
    <3>4. CASE plan'[d].action = "up"
      <4>1. InBounds(seen[c].replicas) /\ InBounds(seen[c].replicas + 1)
        BY <3>1a, <3>2, <3>4, DecisionOK
      <4>. QED BY <3>2, <3>4, <4>1 DEF PlanOK, Target, InBounds, Acting
    <3>5. CASE plan'[d].action = "down"
      <4>1. InBounds(seen[c].replicas) /\ InBounds(seen[c].replicas - 1)
        BY <3>1a, <3>2, <3>5, DecisionOK
      <4>. QED BY <3>2, <3>5, <4>1 DEF PlanOK, Target, InBounds, Acting
    <3>6. CASE plan'[d].action = "none"
      BY <3>2, <3>6 DEF PlanOK, Acting
    <3>. QED BY <3>3, <3>4, <3>5, <3>6
  <2>2. CASE d # c
    <3>1. /\ pc'[d] = pc[d] /\ plan'[d] = plan[d] /\ seen'[d] = seen[d]
          /\ d \in appending' => d \in appending
      BY <2>2 DEF TypeOK
    <3>2. Logged(d, "DECISION") => Logged(d, "DECISION")'
      BY DEF Logged
    <3>. QED BY <2>0, <3>1, <3>2 DEF PlanOK, Target, Acts
  <2>. QED BY <2>1, <2>2
<1>. QED BY <1>1, <1>2, <1>3

(* Whether or not the state file is replaced, nothing is done before the   *)
(* decision is logged.                                                     *)
LEMMA PersistStateInv ==
  ASSUME IInv, NEW c \in Controller, PersistState(c)
  PROVE  IInv'
<1> USE DEF IInv, PersistState, auditVars, dockerVars, Goto
<1>1. TypeOK'
  <2>1. streak' \in 0..LOW_SAMPLES_REQUIRED
    <3>1. streak' \in {streak, StreakAfter(c)} /\ streak \in 0..3
      BY DEF TypeOK, LOW_SAMPLES_REQUIRED
    <3>2. StreakAfter(c) \in 0..3
      BY <3>1 DEF StreakAfter, LOW_SAMPLES_REQUIRED
    <3>. QED BY <3>1, <3>2 DEF LOW_SAMPLES_REQUIRED
  <2>2. samples' \in 0..(LOW_SAMPLES_REQUIRED - 1)
    BY DEF TypeOK, LOW_SAMPLES_REQUIRED
  <2>3. pc' \in [Controller -> Steps]
    BY DEF TypeOK, Steps, AppendPoint
  <2>. QED BY <2>1, <2>2, <2>3 DEF TypeOK
<1>2. LockDiscipline'
  BY RCAssumption DEF LockDiscipline, TypeOK
<1>3. ASSUME NEW d \in Controller PROVE PlanOK(d)'
  <2>0. PlanOK(d) /\ PlanOK(c)
    OBVIOUS
  <2>1. CASE d = c
    <3>1. /\ pc'[d] \in {"declare", "exited"}
          /\ plan'[d] = plan[d] /\ seen'[d] = seen[d] /\ d \notin appending'
      BY <2>0, <2>1 DEF TypeOK, PlanOK, AppendPoint
    <3>2. Logged(d, "DECISION") => Logged(d, "DECISION")'
      BY DEF Logged
    <3>. QED BY <2>0, <2>1, <3>1, <3>2
         DEF PlanOK, Acting, AppendPoint, Target, Acts
  <2>2. CASE d # c
    <3>1. /\ pc'[d] = pc[d] /\ plan'[d] = plan[d] /\ seen'[d] = seen[d]
          /\ d \in appending' => d \in appending
      BY <2>2 DEF TypeOK
    <3>2. Logged(d, "DECISION") => Logged(d, "DECISION")'
      BY DEF Logged
    <3>. QED BY <2>0, <3>1, <3>2 DEF PlanOK, Target, Acts
  <2>. QED BY <2>1, <2>2
<1>. QED BY <1>1, <1>2, <1>3

(* The actuator call moves the replica count, not the plan.                *)
LEMMA ScaleInv ==
  ASSUME IInv, NEW c \in Controller, Scale(c)
  PROVE  IInv'
<1> USE DEF IInv, Scale, ScaleWorker, Between, auditVars, Goto
<1>1. TypeOK'
  <2>1. replicas' \in 0..HostMax
    <3>1. \/ InBounds(Target(c)) /\ replicas' = Target(c)
          \/ replicas' \in {k \in 0..HostMax :
                            \/ replicas <= k /\ k <= Target(c)
                            \/ Target(c) <= k /\ k <= replicas}
          \/ replicas' = replicas
      OBVIOUS
    <3>2. replicas \in 0..HostMax /\ HostMax \in Nat /\ HostMax >= 3
      BY RCAssumption DEF TypeOK
    <3>3. InBounds(Target(c)) => Target(c) \in 0..HostMax
      BY <3>2 DEF InBounds, MIN_REPLICAS, MAX_REPLICAS
    <3>. QED BY <3>1, <3>2, <3>3
  <2>2. healthy' \in BOOLEAN
    <3>1. healthy' \in {healthy, TRUE} \/ healthy' \in BOOLEAN \/ healthy' = healthy
      OBVIOUS
    <3>2. healthy \in BOOLEAN
      BY DEF TypeOK
    <3>. QED BY <3>1, <3>2, Zenon
  <2>3. pc' \in [Controller -> Steps]
    BY DEF TypeOK, Steps, AppendPoint
  <2>4. late' \subseteq MIN_REPLICAS..MAX_REPLICAS /\ moved' \in BOOLEAN
    BY Zenon DEF TypeOK, InBounds
  <2>. QED BY <2>1, <2>2, <2>3, <2>4 DEF TypeOK
<1>2. LockDiscipline'
  BY RCAssumption DEF LockDiscipline, TypeOK
<1>3. ASSUME NEW d \in Controller PROVE PlanOK(d)'
  <2>0. PlanOK(d) /\ PlanOK(c)
    OBVIOUS
  <2>1. CASE d = c
    <3>1. /\ pc[d] = "scale" /\ pc'[d] \in {"check", "rollback"}
          /\ plan'[d] = plan[d] /\ seen'[d] = seen[d] /\ d \notin appending'
      BY <2>0, <2>1 DEF TypeOK, PlanOK, AppendPoint
    <3>2. Logged(d, "DECISION") => Logged(d, "DECISION")'
      BY DEF Logged
    <3>. QED BY <2>0, <2>1, <3>1, <3>2
         DEF PlanOK, Acting, AppendPoint, Target, Acts
  <2>2. CASE d # c
    <3>1. /\ pc'[d] = pc[d] /\ plan'[d] = plan[d] /\ seen'[d] = seen[d]
          /\ d \in appending' => d \in appending
      BY <2>2 DEF TypeOK
    <3>2. Logged(d, "DECISION") => Logged(d, "DECISION")'
      BY DEF Logged
    <3>. QED BY <2>0, <3>1, <3>2 DEF PlanOK, Target, Acts
  <2>. QED BY <2>1, <2>2
<1>. QED BY <1>1, <1>2, <1>3

(* A post-check leads to the verification event or to the rollback.        *)
LEMMA CheckEffectInv ==
  ASSUME IInv, NEW c \in Controller, CheckEffect(c)
  PROVE  IInv'
<1> USE DEF IInv, CheckEffect, CheckCount, Looks, auditVars, dockerVars, Goto
<1>1. TypeOK'
  <2>1. moved' \in BOOLEAN /\ healthy' \in BOOLEAN
    BY Zenon DEF TypeOK
  <2>. QED
    BY <2>1, RCAssumption DEF TypeOK, Steps, AppendPoint, LOW_SAMPLES_REQUIRED
<1>2. LockDiscipline'
  BY RCAssumption DEF LockDiscipline, TypeOK
<1>3. ASSUME NEW d \in Controller PROVE PlanOK(d)'
  <2>0. PlanOK(d) /\ PlanOK(c)
    OBVIOUS
  <2>1. CASE d = c
    <3>1. /\ pc[d] = "check" /\ pc'[d] \in {"verify", "rollback"}
          /\ plan'[d] = plan[d] /\ seen'[d] = seen[d] /\ d \notin appending'
      BY <2>0, <2>1 DEF TypeOK, PlanOK, AppendPoint
    <3>2. Logged(d, "DECISION") => Logged(d, "DECISION")'
      BY DEF Logged
    <3>. QED BY <2>0, <2>1, <3>1, <3>2
         DEF PlanOK, Acting, AppendPoint, Target, Acts
  <2>2. CASE d # c
    <3>1. /\ pc'[d] = pc[d] /\ plan'[d] = plan[d] /\ seen'[d] = seen[d]
          /\ d \in appending' => d \in appending
      BY <2>2 DEF TypeOK
    <3>2. Logged(d, "DECISION") => Logged(d, "DECISION")'
      BY DEF Logged
    <3>. QED BY <2>0, <3>1, <3>2 DEF PlanOK, Target, Acts
  <2>. QED BY <2>1, <2>2
<1>. QED BY <1>1, <1>2, <1>3

(* A rollback moves the replica count, not the plan.                       *)
LEMMA RollbackInv ==
  ASSUME IInv, NEW c \in Controller, Rollback(c)
  PROVE  IInv'
<1> USE DEF IInv, Rollback, ScaleWorker, Between, auditVars, Goto
<1>1. TypeOK'
  <2>1. replicas' \in 0..HostMax
    <3>1. \/ InBounds(seen[c].replicas) /\ replicas' = seen[c].replicas
          \/ replicas' \in {k \in 0..HostMax :
                            \/ replicas <= k /\ k <= seen[c].replicas
                            \/ seen[c].replicas <= k /\ k <= replicas}
          \/ replicas' = replicas
      OBVIOUS
    <3>2. replicas \in 0..HostMax /\ HostMax \in Nat /\ HostMax >= 3
      BY RCAssumption DEF TypeOK
    <3>3. InBounds(seen[c].replicas) => seen[c].replicas \in 0..HostMax
      BY <3>2 DEF InBounds, MIN_REPLICAS, MAX_REPLICAS
    <3>. QED BY <3>1, <3>2, <3>3
  <2>2. healthy' \in BOOLEAN
    <3>1. healthy' \in {healthy, TRUE} \/ healthy' \in BOOLEAN \/ healthy' = healthy
      OBVIOUS
    <3>2. healthy \in BOOLEAN
      BY DEF TypeOK
    <3>. QED BY <3>1, <3>2, Zenon
  <2>3. pc' \in [Controller -> Steps]
    BY DEF TypeOK, Steps, AppendPoint
  <2>4. late' \subseteq MIN_REPLICAS..MAX_REPLICAS /\ moved' \in BOOLEAN
    BY Zenon DEF TypeOK, InBounds
  <2>. QED BY <2>1, <2>2, <2>3, <2>4 DEF TypeOK
<1>2. LockDiscipline'
  BY RCAssumption DEF LockDiscipline, TypeOK
<1>3. ASSUME NEW d \in Controller PROVE PlanOK(d)'
  <2>0. PlanOK(d) /\ PlanOK(c)
    OBVIOUS
  <2>1. CASE d = c
    <3>1. /\ pc[d] = "rollback" /\ pc'[d] \in {"recheck", "unrestored"}
          /\ plan'[d] = plan[d] /\ seen'[d] = seen[d] /\ d \notin appending'
      BY <2>0, <2>1 DEF TypeOK, PlanOK, AppendPoint
    <3>2. Logged(d, "DECISION") => Logged(d, "DECISION")'
      BY DEF Logged
    <3>. QED BY <2>0, <2>1, <3>1, <3>2
         DEF PlanOK, Acting, AppendPoint, Target, Acts
  <2>2. CASE d # c
    <3>1. /\ pc'[d] = pc[d] /\ plan'[d] = plan[d] /\ seen'[d] = seen[d]
          /\ d \in appending' => d \in appending
      BY <2>2 DEF TypeOK
    <3>2. Logged(d, "DECISION") => Logged(d, "DECISION")'
      BY DEF Logged
    <3>. QED BY <2>0, <3>1, <3>2 DEF PlanOK, Target, Acts
  <2>. QED BY <2>1, <2>2
<1>. QED BY <1>1, <1>2, <1>3

(* The second post-check leads to one of the two rollback events.          *)
LEMMA CheckRollbackInv ==
  ASSUME IInv, NEW c \in Controller, CheckRollback(c)
  PROVE  IInv'
<1> USE DEF IInv, CheckRollback, CheckCount, Looks, auditVars, dockerVars, Goto
<1>1. TypeOK'
  <2>1. moved' \in BOOLEAN /\ healthy' \in BOOLEAN
    BY Zenon DEF TypeOK
  <2>. QED
    BY <2>1, RCAssumption DEF TypeOK, Steps, AppendPoint, LOW_SAMPLES_REQUIRED
<1>2. LockDiscipline'
  BY RCAssumption DEF LockDiscipline, TypeOK
<1>3. ASSUME NEW d \in Controller PROVE PlanOK(d)'
  <2>0. PlanOK(d) /\ PlanOK(c)
    OBVIOUS
  <2>1. CASE d = c
    <3>1. /\ pc[d] = "recheck" /\ pc'[d] \in {"restored", "unrestored"}
          /\ plan'[d] = plan[d] /\ seen'[d] = seen[d] /\ d \notin appending'
      BY <2>0, <2>1 DEF TypeOK, PlanOK, AppendPoint
    <3>2. Logged(d, "DECISION") => Logged(d, "DECISION")'
      BY DEF Logged
    <3>. QED BY <2>0, <2>1, <3>1, <3>2
         DEF PlanOK, Acting, AppendPoint, Target, Acts
  <2>2. CASE d # c
    <3>1. /\ pc'[d] = pc[d] /\ plan'[d] = plan[d] /\ seen'[d] = seen[d]
          /\ d \in appending' => d \in appending
      BY <2>2 DEF TypeOK
    <3>2. Logged(d, "DECISION") => Logged(d, "DECISION")'
      BY DEF Logged
    <3>. QED BY <2>0, <3>1, <3>2 DEF PlanOK, Target, Acts
  <2>. QED BY <2>1, <2>2
<1>. QED BY <1>1, <1>2, <1>3

(* Opening the lock file excludes every other appender; a refused          *)
(* verification leads to the rollback, any other refusal ends the process. *)
LEMMA StartAppendInv ==
  ASSUME IInv, NEW c \in Controller, StartAppend(c)
  PROVE  IInv'
<1> USE DEF IInv, StartAppend, LockOpens, LockRefused, auditVars, dockerVars, Goto
<1>1. TypeOK'
  BY DEF TypeOK, Steps, AppendPoint, AfterRaise
<1>2. LockDiscipline'
  BY RCAssumption DEF LockDiscipline, TypeOK
<1>3. ASSUME NEW d \in Controller PROVE PlanOK(d)'
  <2>0. PlanOK(d) /\ PlanOK(c)
    OBVIOUS
  <2>1. CASE d = c
    <3>1. /\ plan'[d] = plan[d] /\ seen'[d] = seen[d] /\ audit' = audit
          /\ \/ pc'[d] = pc[d] /\ pc[d] \in AppendPoint
             \/ /\ pc'[d] = AfterRaise(pc[d]) /\ d \notin appending'
      BY <2>1 DEF TypeOK
    <3>. QED BY <2>0, <2>1, <3>1
         DEF PlanOK, Acting, AppendPoint, Target, Acts, Logged, AfterRaise
  <2>2. CASE d # c
    <3>1. /\ pc'[d] = pc[d] /\ plan'[d] = plan[d] /\ seen'[d] = seen[d]
          /\ d \in appending' => d \in appending
      BY <2>2 DEF TypeOK
    <3>2. Logged(d, "DECISION") => Logged(d, "DECISION")'
      BY DEF Logged
    <3>. QED BY <2>0, <3>1, <3>2 DEF PlanOK, Target, Acts
  <2>. QED BY <2>1, <2>2
<1>. QED BY <1>1, <1>2, <1>3

(* The actuator is reached only from a decision that is on disk and that   *)
(* the switches allow.                                                     *)
LEMMA EndAppendInv ==
  ASSUME IInv, NEW c \in Controller, EndAppend(c)
  PROVE  IInv'
<1> USE DEF IInv, EndAppend, dockerVars, Goto
<1>1. TypeOK'
  <2>1. /\ pc[c] \in AppendPoint
        /\ audit' \in {audit, audit \cup EventOf(c)}
        /\ lockFile' \in {Free, lockFile}
        /\ appending' = appending \ {c}
    BY DEF EventAppended, AppendRaises
  <2>2. audit' \in SUBSET [phase : {Phase(l) : l \in AppendPoint}, of : Controller]
    BY <2>1 DEF TypeOK, EventOf
  <2>3. AfterAppend(c) \in Steps /\ AfterRaise(pc[c]) \in Steps
    BY <2>1 DEF AfterAppend, AfterRaise, CycleOver, Steps, AppendPoint
  <2>4. pc' \in [Controller -> Steps]
    BY <2>3 DEF TypeOK
  <2>. QED BY <2>1, <2>2, <2>4 DEF TypeOK
<1>2. LockDiscipline'
  BY RCAssumption DEF LockDiscipline, TypeOK, EventAppended, AppendRaises
<1>3. ASSUME NEW d \in Controller PROVE PlanOK(d)'
  <2>0. PlanOK(d) /\ PlanOK(c)
    OBVIOUS
  <2>1. CASE d = c
    <3>1. /\ pc[d] \in AppendPoint /\ d \notin appending'
          /\ plan'[d] = plan[d] /\ seen'[d] = seen[d]
          /\ audit \subseteq audit'
          /\ \/ pc'[d] = AfterAppend(d) /\ EventOf(d) \subseteq audit'
             \/ pc'[d] = AfterRaise(pc[d])
      BY <2>1 DEF TypeOK, EventAppended, AppendRaises
    <3>2. CASE pc'[d] = AfterAppend(d) /\ EventOf(d) \subseteq audit'
      <4>1. CASE pc[d] = "declare"
        <5>1. pc'[d] \in {"scale", "sleep", "exited"}
              /\ (pc'[d] = "scale" => Acts(d))
          BY <3>2, <4>1 DEF AfterAppend, CycleOver
        <5>2. Logged(d, "DECISION")'
          BY <3>2, <4>1, Phases DEF EventOf, Logged
        <5>. QED BY <2>0, <3>1, <5>1, <5>2
             DEF PlanOK, Acting, AppendPoint, Target, Acts
      <4>2. CASE pc[d] # "declare"
        <5>1. pc'[d] \in {"sleep", "exited"}
          BY <3>1, <3>2, <4>2 DEF AfterAppend, CycleOver, AppendPoint
        <5>. QED BY <2>0, <3>1, <5>1 DEF PlanOK, Acting, AppendPoint, Target
      <4>. QED BY <4>1, <4>2
    <3>3. CASE pc'[d] = AfterRaise(pc[d])
      <4>1. Logged(d, "DECISION") => Logged(d, "DECISION")'
        BY <3>1 DEF Logged
      <4>. QED BY <2>0, <3>1, <3>3, <4>1
           DEF PlanOK, Acting, AppendPoint, Target, Acts, AfterRaise
    <3>. QED BY <3>1, <3>2, <3>3
  <2>2. CASE d # c
    <3>1. /\ pc'[d] = pc[d] /\ plan'[d] = plan[d] /\ seen'[d] = seen[d]
          /\ d \in appending' => d \in appending
      BY <2>2 DEF TypeOK, EventAppended, AppendRaises
    <3>2. Logged(d, "DECISION") => Logged(d, "DECISION")'
      BY DEF Logged, EventAppended, AppendRaises
    <3>. QED BY <2>0, <3>1, <3>2 DEF PlanOK, Target, Acts
  <2>. QED BY <2>1, <2>2
<1>. QED BY <1>1, <1>2, <1>3

(* A dead controller does nothing; its lock file excludes the others.      *)
LEMMA CrashInv ==
  ASSUME IInv, NEW c \in Controller, Crash(c)
  PROVE  IInv'
<1> USE DEF IInv, Crash, DiesAppending, auditVars, dockerVars, Goto
<1>1. TypeOK'
  <2>1. c \in appending => pc[c] \in AppendPoint
    BY DEF PlanOK
  <2>2. audit' \in SUBSET [phase : {Phase(l) : l \in AppendPoint}, of : Controller]
    BY <2>1 DEF TypeOK, EventOf
  <2>3. late' \subseteq MIN_REPLICAS..MAX_REPLICAS
    BY DEF TypeOK, InBounds
  <2>. QED BY <2>2, <2>3 DEF TypeOK, Steps
<1>2. LockDiscipline'
  BY RCAssumption DEF LockDiscipline, TypeOK
<1>3. ASSUME NEW d \in Controller PROVE PlanOK(d)'
  <2>0. PlanOK(d) /\ PlanOK(c)
    OBVIOUS
  <2>1. CASE d = c
    <3>1. /\ pc'[d] = "exited" /\ d \notin appending'
          /\ plan'[d] = plan[d] /\ seen'[d] = seen[d]
      BY <2>1 DEF TypeOK
    <3>. QED BY <2>0, <3>1 DEF PlanOK, Acting, AppendPoint, Target
  <2>2. CASE d # c
    <3>1. /\ pc'[d] = pc[d] /\ plan'[d] = plan[d] /\ seen'[d] = seen[d]
          /\ d \in appending' => d \in appending
      BY <2>2 DEF TypeOK
    <3>2. Logged(d, "DECISION") => Logged(d, "DECISION")'
      BY DEF Logged
    <3>. QED BY <2>0, <3>1, <3>2 DEF PlanOK, Target, Acts
  <2>. QED BY <2>1, <2>2
<1>. QED BY <1>1, <1>2, <1>3

(* What a controller does not control touches neither its plan nor its     *)
(* position, and other users of the log respect the same lock.             *)
LEMMA OthersInv ==
  ASSUME IInv,
         \/ \E p \in Outsider : OutsiderAppends(p)
         \/ LateEffect \/ LoadChanges \/ HealthChanges \/ OperatorScales
         \/ Operator \/ UNCHANGED vars
  PROVE  IInv'
<1> USE DEF IInv, OutsiderAppends, LateEffect, Between, LoadChanges,
            HealthChanges, OperatorScales, Operator, OperatorClearsLock, vars, auditVars, dockerVars
<1>1. /\ UNCHANGED <<samples, pc, seen, plan, streak>>
      /\ audit' = audit
      /\ \A c \in Controller : c \in appending' => c \in appending
  BY RCAssumption DEF LockOpens, EventAppended, DiesAppending
<1>2. TypeOK'
  <2>1. lockFile' \in {Free} \cup Controller \cup Outsider
    BY DEF TypeOK, LockOpens, EventAppended, DiesAppending
  <2>2. appending' \in SUBSET (Controller \cup Outsider)
    BY DEF TypeOK, LockOpens, EventAppended, DiesAppending
  <2>3. replicas' \in 0..HostMax
    BY DEF TypeOK
  <2>4. load' \in {"low", "mid", "high"}
    BY DEF TypeOK
  <2>5. healthy' \in BOOLEAN
    BY DEF TypeOK
  <2>6. late' \subseteq MIN_REPLICAS..MAX_REPLICAS
    BY DEF TypeOK
  <2>7. moved' \in BOOLEAN
    BY DEF TypeOK
  <2>. QED BY <1>1, <2>1, <2>2, <2>3, <2>4, <2>5, <2>6, <2>7 DEF TypeOK
<1>3. LockDiscipline'
  BY RCAssumption
  DEF LockDiscipline, TypeOK, LockOpens, EventAppended, DiesAppending
<1>4. \A c \in Controller : PlanOK(c)'
  BY <1>1 DEF PlanOK, Target, Acts, Logged
<1>. QED BY <1>2, <1>3, <1>4

(* Every step preserves the inductive invariant.                           *)
LEMMA NextInv == IInv /\ [Next]_vars => IInv'
BY StartCycleInv, ObserveInv, DecideInv, PersistStateInv, StartAppendInv,
  EndAppendInv, ScaleInv, CheckEffectInv, RollbackInv, CheckRollbackInv,
  CrashInv, OthersInv
DEF Next, ControllerStep

(* The inductive invariant holds in every reachable state.                 *)
LEMMA Invariance == Spec => []IInv
BY InitInv, NextInv, PTL DEF Spec

(* Type correctness of the controllers' state and of what they move.       *)
THEOREM TypeCorrect == Spec => []TypeOK
BY Invariance, PTL DEF IInv

(* Controllers and workers never write the shared log at the same time.    *)
THEOREM SerialisedAppends == Spec => []LockDiscipline
BY Invariance, PTL DEF IInv

-----------------------------------------------------------------------------
(* Only two actions of a controller move the replica count, and both       *)
(* belong to the controller whose position changes.                        *)
LEMMA WhoMoves ==
  ASSUME IInv, Next, NEW c \in Controller,
         pc[c] \in {"scale", "rollback"}, pc'[c] # pc[c], replicas' # replicas
  PROVE  Scale(c) \/ Rollback(c)
<1>1. PICK d \in Controller : Scale(d) \/ Rollback(d)
  BY DEF Next, ControllerStep, StartCycle, Observe, Decide, PersistState,
    StartAppend, EndAppend, CheckEffect, CheckRollback, CheckCount, Looks, Crash,
    OutsiderAppends, LateEffect, LoadChanges, HealthChanges, OperatorScales,
    Operator, dockerVars
<1>2. c = d
  BY <1>1 DEF IInv, TypeOK, Scale, Rollback, ScaleWorker, Goto
<1>. QED BY <1>1, <1>2

(* One actuator call moves the count towards the requested one, and only   *)
(* when that is within 1..3.                                               *)
LEMMA ScaleMovesTowards ==
  ASSUME IInv, NEW c \in Controller, NEW n \in Int, NEW done, NEW failed,
         ScaleWorker(c, n, done, failed), replicas' # replicas
  PROVE  InBounds(n) /\ replicas' \in Between(replicas, n)
<1>1. /\ InBounds(n)
      /\ replicas' = n \/ replicas' \in Between(replicas, n)
  BY DEF ScaleWorker
<1>2. n \in 0..HostMax /\ replicas \in 0..HostMax /\ HostMax \in Nat
  BY <1>1, RCAssumption DEF IInv, TypeOK, InBounds, MIN_REPLICAS, MAX_REPLICAS
<1>. QED BY <1>1, <1>2 DEF Between

(* A controller moves the replica count only after its decision is on      *)
(* disk, only with the switch for that direction, and only towards a count *)
(* within 1..3 that is the one it observed or one step from it.            *)
THEOREM LoggedSteps == Spec => OnlyLoggedSteps
<1> DEFINE P(c) ==
      pc[c] \in {"scale", "rollback"} /\ pc'[c] # pc[c] /\ replicas' # replicas =>
        /\ AllowActions /\ Logged(c, "DECISION")
        /\ plan[c].action = "down" => AllowScaleDown
        /\ \E n \in MIN_REPLICAS..MAX_REPLICAS :
             /\ n \in (seen[c].replicas - 1)..(seen[c].replicas + 1)
             /\ replicas' \in Between(replicas, n)
<1>1. ASSUME IInv, [Next]_vars, NEW c \in Controller PROVE P(c)
  <2> SUFFICES ASSUME pc[c] \in {"scale", "rollback"}, pc'[c] # pc[c],
                      replicas' # replicas
               PROVE  /\ AllowActions /\ Logged(c, "DECISION")
                      /\ plan[c].action = "down" => AllowScaleDown
                      /\ \E n \in MIN_REPLICAS..MAX_REPLICAS :
                          /\ n \in (seen[c].replicas - 1)..(seen[c].replicas + 1)
                          /\ replicas' \in Between(replicas, n)
    OBVIOUS
  <2>1. Scale(c) \/ Rollback(c)
    BY <1>1, WhoMoves DEF vars, dockerVars
  <2>2. PlanOK(c) /\ pc[c] \in Acting
    BY <1>1 DEF IInv, Acting
  <2>3. AllowActions /\ Logged(c, "DECISION")
    BY <2>2 DEF PlanOK, Acts
  <2>4. plan[c].action = "down" => AllowScaleDown
    BY <2>2 DEF PlanOK, Acts
  <2>5. seen[c].replicas \in Int
    BY <1>1, RCAssumption DEF IInv, TypeOK
  <2>6. Target(c) \in {seen[c].replicas - 1, seen[c].replicas + 1}
    BY DEF Target
  <2>7. CASE Scale(c)
    <3>1. InBounds(Target(c)) /\ replicas' \in Between(replicas, Target(c))
      BY <1>1, <2>5, <2>6, <2>7, ScaleMovesTowards DEF Scale
    <3>. QED BY <2>3, <2>4, <2>5, <2>6, <3>1 DEF InBounds
  <2>8. CASE Rollback(c)
    <3>1. /\ InBounds(seen[c].replicas)
          /\ replicas' \in Between(replicas, seen[c].replicas)
      BY <1>1, <2>5, <2>8, ScaleMovesTowards DEF Rollback
    <3>. QED BY <2>3, <2>4, <2>5, <3>1 DEF InBounds
  <2>. QED BY <2>1, <2>7, <2>8
<1>2. IInv /\ [Next]_vars => [\A c \in Controller : P(c)]_vars
  BY <1>1
<1>. QED BY <1>2, Invariance, PTL DEF Spec, OnlyLoggedSteps

-----------------------------------------------------------------------------
(* With a single controller the count of low samples on disk never runs    *)
(* ahead of the low samples recorded, because the step that replaces the   *)
(* count is the step that records the sample.                              *)
LEMMA CountStep ==
  ASSUME NEW c \in Controller, Controller = {c},
         IInv, CountIsEarned, [Next]_vars
  PROVE  CountIsEarned'
<1>1. CASE Decide(c)
  <2>1. /\ seen[c] \in [replicas : Nat, load : {"low", "mid", "high"}]
        /\ samples \in 0..2 /\ streak \in 0..3 /\ samples <= streak
    BY <1>1, RCAssumption
    DEF IInv, TypeOK, CountIsEarned, Decide, LOW_SAMPLES_REQUIRED
  <2>2. PICK low \in CountRead : plan' = [plan EXCEPT ![c] = Decision(seen[c], low)]
    BY <1>1 DEF Decide
  <2>2a. /\ plan'[c].next = NextCount(seen[c], low)
         /\ plan'[c].action = Action(seen[c], low)
         /\ UNCHANGED <<samples, seen, streak>>
    BY <1>1, <2>2 DEF Decide, Decision, Goto, IInv, TypeOK
  <2>2b. low \in 0..2 /\ low <= streak
    BY <2>1 DEF CountRead
  <2>3. NextCount(seen[c], low) <= StreakAfter(c)'
    BY <2>1, <2>2a, <2>2b
    DEF StreakAfter, NextCount, Action, LowUse, HighUse, LOW_SAMPLES_REQUIRED
  <2>. QED BY <2>1, <2>2a, <2>3 DEF CountIsEarned
<1>2. CASE PersistState(c)
  <2>1. pc'[c] # "persist"
    BY <1>2 DEF PersistState, Goto, IInv, TypeOK
  <2>2. samples' <= streak'
    BY <1>2 DEF PersistState, CountIsEarned
  <2>. QED BY <2>1, <2>2 DEF CountIsEarned
<1>3. CASE pc'[c] # "persist" /\ UNCHANGED <<samples, streak>>
  BY <1>3 DEF CountIsEarned
<1>4. CASE UNCHANGED <<pc, plan, seen, samples, streak>>
  BY <1>4 DEF CountIsEarned, StreakAfter
<1>5. CASE ControllerStep(c)
  <2>1. CASE Observe(c) \/ Scale(c) \/ CheckEffect(c) \/ Rollback(c) \/ CheckRollback(c)
    BY <1>3, <2>1
    DEF Observe, Scale, CheckEffect, Rollback, CheckRollback, CheckCount,
      ScaleWorker, Goto, IInv, TypeOK
  <2>2. CASE StartAppend(c)
    BY <1>3, <2>2
    DEF StartAppend, AppendPoint, AfterRaise, Goto, IInv, TypeOK
  <2>3. CASE EndAppend(c)
    <3>1. /\ pc[c] \in AppendPoint /\ UNCHANGED <<samples, streak>>
          /\ pc'[c] \in {AfterAppend(c), AfterRaise(pc[c])}
      BY <2>3 DEF EndAppend, Goto, IInv, TypeOK
    <3>2. /\ pc[c] # "persist"
          /\ AfterAppend(c) # "persist" /\ AfterRaise(pc[c]) # "persist"
      BY <3>1 DEF AfterAppend, AfterRaise, CycleOver, AppendPoint
    <3>. QED BY <1>3, <3>1, <3>2
  <2>. QED BY <1>1, <1>2, <1>5, <2>1, <2>2, <2>3 DEF ControllerStep
<1>6. CASE StartCycle(c)
  BY <1>3, <1>6 DEF StartCycle, Goto, IInv, TypeOK
<1>7. CASE Crash(c)
  BY <1>3, <1>7 DEF Crash, Goto, IInv, TypeOK
<1>8. \/ ControllerStep(c) \/ StartCycle(c) \/ Crash(c)
      \/ UNCHANGED <<pc, plan, seen, samples, streak>>
  BY DEF Next, OutsiderAppends, LateEffect, LoadChanges, HealthChanges,
    OperatorScales, Operator, vars
<1>. QED BY <1>4, <1>5, <1>6, <1>7, <1>8

(* The same as an invariant of the specification.                          *)
THEOREM EarnedCount ==
  ASSUME NEW c \in Controller, Controller = {c}
  PROVE  Spec => []CountIsEarned
<1>1. Init => CountIsEarned
  BY DEF Init, CountIsEarned
<1>2. IInv /\ CountIsEarned /\ [Next]_vars => CountIsEarned'
  BY CountStep
<1>. QED BY <1>1, <1>2, Invariance, PTL DEF Spec

(* README: "Scale-down requires three consecutive low-resource samples".   *)
(* It does, counting the samples that were recorded, for a single          *)
(* controller, however the operator, the load, Docker and the disk behave  *)
(* and wherever the controller dies.                                       *)
THEOREM ThreeSamples ==
  ASSUME NEW one \in Controller, Controller = {one}
  PROVE  Spec => ThreeLowSamples
<1> DEFINE P(c) ==
      pc[c] = "decide" /\ plan'[c].action = "down" =>
        streak >= LOW_SAMPLES_REQUIRED - 1 /\ seen[c].load = "low"
<1>1. ASSUME IInv, CountIsEarned, [Next]_vars,
             NEW c \in Controller
      PROVE  P(c)
  <2> SUFFICES ASSUME pc[c] = "decide", plan'[c].action = "down"
               PROVE  streak >= LOW_SAMPLES_REQUIRED - 1 /\ seen[c].load = "low"
    OBVIOUS
  <2>1. plan[c].action = "none"
    BY <1>1 DEF IInv, PlanOK
  <2>2. Decide(c)
    BY <1>1, <2>1
    DEF Next, ControllerStep, StartCycle, Observe, PersistState, StartAppend,
      EndAppend, Scale, CheckEffect, Rollback, CheckRollback, Crash,
      OutsiderAppends, LateEffect, LoadChanges, HealthChanges, OperatorScales,
      Operator, vars
  <2>3. PICK low \in CountRead : Action(seen[c], low) = "down"
    BY <1>1, <2>2 DEF Decide, Decision, IInv, TypeOK
  <2>4. LowUse(seen[c]) /\ low + 1 >= LOW_SAMPLES_REQUIRED
    BY <2>3 DEF Action
  <2>5. low <= streak /\ low \in Nat /\ streak \in Nat
    BY <1>1 DEF CountRead, CountIsEarned, IInv, TypeOK, LOW_SAMPLES_REQUIRED
  <2>. QED BY <2>4, <2>5 DEF LowUse, LOW_SAMPLES_REQUIRED
<1>2. IInv /\ CountIsEarned /\ [Next]_vars => [\A c \in Controller : P(c)]_vars
  BY <1>1
<1>3. Spec => []CountIsEarned
  BY EarnedCount
<1>4. []IInv /\ []CountIsEarned /\ [][Next]_vars => ThreeLowSamples
  BY <1>2, PTL DEF ThreeLowSamples
<1>. QED BY <1>3, <1>4, Invariance, PTL DEF Spec

-----------------------------------------------------------------------------
(* Where the replica count is in the course of a cycle while nobody else   *)
(* has moved it since the controller last looked at it, and which results  *)
(* are in the log by then.                                                 *)
Tracked(c) ==
  /\ ~ moved /\ pc[c] \in {"decide", "persist", "declare", "scale", "recheck",
                           "restored"} =>
       replicas = seen[c].replicas
  /\ ~ moved /\ pc[c] = "verify" => replicas = Target(c)
  /\ pc[c] \in {"observe", "decide", "persist", "declare", "scale", "check",
                "verify"} => ~ Logged(c, "VERIFY")
  /\ pc[c] \in {"observe", "decide", "persist", "declare", "scale", "check",
                "verify", "rollback", "recheck", "restored"} =>
       ~ Logged(c, "ROLLED_BACK")
  /\ ~ moved /\ pc[c] = "sleep" =>
       replicas = IF Logged(c, "VERIFY") /\ ~ Logged(c, "ROLLED_BACK")
                  THEN Target(c) ELSE seen[c].replicas

(* A step of the one controller keeps track of the count.                  *)
LEMMA ControllerTracked ==
  ASSUME NEW c \in Controller, Controller = {c},
         IInv, Tracked(c), ControllerStep(c)
  PROVE  Tracked(c)'
<1>0. /\ pc \in [Controller -> Steps]
      /\ seen \in [Controller -> [replicas : 0..HostMax, load : {"low", "mid", "high"}]]
  BY DEF IInv, TypeOK, PlanOK
<1>1. CASE Observe(c)
  BY <1>0, <1>1 DEF Observe, Looks, Goto, Tracked, Logged, Target, auditVars,
    dockerVars, SnapshotOf
<1>2. CASE Decide(c)
  BY <1>0, <1>2 DEF Decide, Goto, Tracked, Logged, auditVars, dockerVars
<1>3. CASE PersistState(c)
  BY <1>0, <1>3 DEF PersistState, Goto, Tracked, Logged, auditVars, dockerVars
<1>4. CASE Scale(c)
  BY <1>0, <1>4 DEF Scale, ScaleWorker, Goto, Tracked, Logged, auditVars
<1>5. CASE CheckEffect(c)
  BY <1>0, <1>5 DEF CheckEffect, CheckCount, Looks, Goto, Tracked, Logged, Target,
    auditVars, dockerVars
<1>6. CASE Rollback(c)
  BY <1>0, <1>6 DEF Rollback, ScaleWorker, Goto, Tracked, Logged, auditVars
<1>7. CASE CheckRollback(c)
  BY <1>0, <1>7 DEF CheckRollback, CheckCount, Looks, Goto, Tracked, Logged,
    auditVars, dockerVars
<1>8. CASE StartAppend(c)
  <2>1. /\ UNCHANGED <<audit, replicas, moved, seen, plan>>
        /\ pc[c] \in AppendPoint
        /\ pc'[c] \in {pc[c], AfterRaise(pc[c])}
    BY <1>0, <1>8 DEF StartAppend, LockOpens, LockRefused, Goto, auditVars, dockerVars
  <2>. QED BY <2>1 DEF Tracked, Logged, Target, AppendPoint, AfterRaise
<1>9. CASE EndAppend(c)
  <2>1. /\ UNCHANGED <<replicas, moved, seen, plan>>
        /\ pc[c] \in AppendPoint
        /\ \/ /\ audit' = audit \cup EventOf(c)
              /\ pc'[c] = AfterAppend(c)
           \/ /\ audit' \in {audit, audit \cup EventOf(c)}
              /\ pc'[c] = AfterRaise(pc[c])
    BY <1>0, <1>9 DEF EndAppend, EventAppended, AppendRaises, Goto, dockerVars
  <2>2. ASSUME NEW l \in {"VERIFY", "ROLLED_BACK"}
        PROVE  /\ audit' = audit => (Logged(c, l)' <=> Logged(c, l))
               /\ audit' = audit \cup EventOf(c) =>
                    (Logged(c, l)' <=> (Logged(c, l) \/ Phase(pc[c]) = l))
    BY DEF Logged, EventOf
  <2>3. UNCHANGED Target(c)
    BY <2>1 DEF Target
  <2>4. CASE pc[c] \in {"noData", "unrestored"}
    <3>1. pc'[c] = "exited"
      BY <2>1, <2>4 DEF AfterAppend, AfterRaise
    <3>. QED BY <3>1 DEF Tracked
  <2>5. CASE pc[c] = "declare"
    <3>1. /\ pc'[c] \in {"exited", "sleep", "scale"}
          /\ Phase(pc[c]) = "DECISION"
      BY <2>1, <2>5 DEF AfterAppend, AfterRaise, CycleOver, Phase
    <3>2. ~ Logged(c, "VERIFY")' /\ ~ Logged(c, "ROLLED_BACK")'
      BY <2>1, <2>2, <2>5, <3>1 DEF Tracked
    <3>. QED BY <2>1, <2>3, <2>5, <3>1, <3>2 DEF Tracked
  <2>6. CASE pc[c] = "verify"
    <3>1. /\ Phase(pc[c]) = "VERIFY"
          /\ \/ /\ audit' = audit \cup EventOf(c)
                /\ pc'[c] \in {"sleep", "exited"}
             \/ pc'[c] = "rollback"
      BY <2>1, <2>6 DEF AfterAppend, AfterRaise, CycleOver, Phase
    <3>2. ~ Logged(c, "ROLLED_BACK")'
      BY <2>1, <2>2, <2>6, <3>1 DEF Tracked
    <3>3. pc'[c] \in {"sleep", "exited"} => Logged(c, "VERIFY")'
      BY <2>2, <3>1
    <3>. QED BY <2>1, <2>3, <2>6, <3>1, <3>2, <3>3 DEF Tracked
  <2>7. CASE pc[c] = "restored"
    <3>1. /\ Phase(pc[c]) = "ROLLED_BACK"
          /\ \/ /\ audit' = audit \cup EventOf(c)
                /\ pc'[c] \in {"sleep", "exited"}
             \/ pc'[c] = "exited"
      BY <2>1, <2>7 DEF AfterAppend, AfterRaise, CycleOver, Phase
    <3>2. pc'[c] = "sleep" => Logged(c, "ROLLED_BACK")'
      BY <2>2, <3>1
    <3>. QED BY <2>1, <2>3, <2>7, <3>1, <3>2 DEF Tracked
  <2>. QED BY <2>1, <2>4, <2>5, <2>6, <2>7 DEF AppendPoint
<1>. QED
  BY <1>1, <1>2, <1>3, <1>4, <1>5, <1>6, <1>7, <1>8, <1>9 DEF ControllerStep

(* So does every other step: whoever else moves the count is noted.        *)
LEMMA TrackedStep ==
  ASSUME NEW c \in Controller, Controller = {c},
         IInv, Tracked(c), [Next]_vars
  PROVE  Tracked(c)'
<1>1. CASE ControllerStep(c)
  BY <1>1, ControllerTracked
<1>2. CASE StartCycle(c)
  <2>1. pc'[c] = "observe" /\ ~ Logged(c, "VERIFY")' /\ ~ Logged(c, "ROLLED_BACK")'
    BY <1>2 DEF StartCycle, Goto, Logged, IInv, TypeOK
  <2>. QED BY <2>1 DEF Tracked
<1>3. CASE Crash(c)
  <2>1. pc'[c] = "exited"
    BY <1>3 DEF Crash, Goto, IInv, TypeOK
  <2>. QED BY <2>1 DEF Tracked
<1>4. CASE UNCHANGED <<audit, replicas, moved, pc, seen, plan>>
  BY <1>4 DEF Tracked, Logged, Target
<1>5. CASE \E p \in Outsider : OutsiderAppends(p)
  <2>1. UNCHANGED <<audit, replicas, moved, pc, seen, plan>>
    BY <1>5 DEF OutsiderAppends, LockOpens, EventAppended, DiesAppending, dockerVars
  <2>. QED BY <1>4, <2>1
<1>6. CASE LoadChanges \/ HealthChanges \/ Operator \/ UNCHANGED vars
  <2>1. UNCHANGED <<audit, replicas, moved, pc, seen, plan>>
    BY <1>6 DEF LoadChanges, HealthChanges, Operator, OperatorClearsLock,
      vars, auditVars, dockerVars
  <2>. QED BY <1>4, <2>1
<1>7. CASE OperatorScales \/ LateEffect
  <2>1. moved' /\ UNCHANGED <<audit, pc, seen, plan>>
    BY <1>7 DEF OperatorScales, LateEffect, auditVars
  <2>. QED BY <2>1 DEF Tracked, Logged
<1>. QED BY <1>1, <1>2, <1>3, <1>5, <1>6, <1>7 DEF Next

(* For a single controller the log tells the replica count at the end of   *)
(* every cycle, unless an operator or a command given up earlier moved it  *)
(* after the controller's last look, whatever failed in between and        *)
(* however often the controller was killed before.                         *)
THEOREM LogIsTrue ==
  ASSUME NEW c \in Controller, Controller = {c}
  PROVE  Spec => []LogMatchesReplicas
<1>1. Init => Tracked(c)
  BY DEF Init, Tracked
<1>2. IInv /\ Tracked(c) /\ [Next]_vars => Tracked(c)'
  BY TrackedStep
<1>3. Tracked(c) => LogMatchesReplicas
  BY DEF Tracked, LogMatchesReplicas
<1>. QED BY <1>1, <1>2, <1>3, Invariance, PTL DEF Spec

=============================================================================
