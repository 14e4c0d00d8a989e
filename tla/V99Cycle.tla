------------------------------ MODULE V99Cycle ------------------------------
(***************************************************************************)
(* v99/core: a registry of modules, the agent that inspects them, collects *)
(* the repairs they propose and executes the safe ones, and the scheduler  *)
(* that runs this as a cycle and keeps its results.  Every call of a       *)
(* module's adapter is a step of its own: adapters answer what they like,  *)
(* time passes and modules are registered in between.                      *)
(***************************************************************************)
EXTENDS Integers, Sequences, FiniteSetsExt

CONSTANTS NModules,
          Statuses,            \* what the reports of adapters say
          Interval, MaxHistory,
          MaxTime, MaxCycles   \* bounds: clock, cycles begun

ASSUME CycleAssumption ==
    /\ NModules \in Nat
    /\ Interval \in Nat \ {0} /\ MaxHistory \in Nat \ {0}
    /\ MaxTime \in Nat /\ MaxCycles \in Nat

(* The specs load_module_spec accepts; agents go through them by module_id. *)
Modules == 1 .. NModules
Proposal == [module_id : Modules, reversible : BOOLEAN, requires_approval : BOOLEAN]

VARIABLES registered, adapters,        \* _specs, and which of them have an adapter
          now,
          pc, todo,                    \* the phase of run_cycle, modules it still has to ask
          started, asked,              \* of the running cycle: its start, due() was asked
          reports, proposals,          \* of the running cycle
          history, lastRun,
          inspected, vouched,          \* history: modules asked, and those that said they are well
          offered, applied,            \* history: proposals made, repairs executed
          begun, recorded              \* history: how many cycles

registry == <<registered, adapters>>
evidence == <<inspected, vouched, offered, applied>>
vars == <<registry, now, pc, todo, started, asked, reports, proposals, history, lastRun,
          evidence, begun, recorded>>

NoReport == "none"
Never == -1
NoReports == [m \in Modules |-> NoReport]

CycleEmpty ==
    /\ started' = 0 /\ asked' = FALSE /\ todo' = {} /\ reports' = NoReports /\ proposals' = {}
    /\ inspected' = {} /\ vouched' = {} /\ offered' = {} /\ applied' = {}

Init ==
    /\ registered = {} /\ adapters = {}
    /\ now = 0 /\ pc = "idle" /\ todo = {} /\ started = 0 /\ asked = FALSE
    /\ reports = NoReports /\ proposals = {}
    /\ history = << >> /\ lastRun = Never
    /\ inspected = {} /\ vouched = {} /\ offered = {} /\ applied = {}
    /\ begun = 0 /\ recorded = 0

-----------------------------------------------------------------------------
(* ModuleRegistry.register, by whoever has the registry, also an adapter    *)
(* during a cycle, and build_registry_from_config, which gives no adapters. *)
(* A module that is registered already or asks for more permissions than    *)
(* the allow-list has is refused and changes nothing.                       *)
Register(m) ==
    /\ m \notin registered
    /\ registered' = registered \cup {m}
    /\ adapters' \in {adapters, adapters \cup {m}}
    /\ UNCHANGED <<now, pc, todo, started, asked, reports, proposals, history, lastRun,
                   evidence, begun, recorded>>

BuildFromConfig ==
    /\ registered = {} /\ begun = 0
    /\ registered' \in SUBSET Modules
    /\ UNCHANGED <<adapters, now, pc, todo, started, asked, reports, proposals, history,
                   lastRun, evidence, begun, recorded>>

-----------------------------------------------------------------------------
Due == lastRun = Never \/ now - lastRun >= Interval

(* A caller may ask due() before it starts a cycle; run_once does not.      *)
MayStart(ask) == ask => Due

(* run_cycle begins: the time is read and the modules to inspect are listed. *)
Start ==
    /\ pc = "idle" /\ begun < MaxCycles
    /\ asked' \in BOOLEAN /\ MayStart(asked')
    /\ pc' = "inspect" /\ todo' = registered /\ inspected' = registered
    /\ started' = now /\ begun' = begun + 1
    /\ UNCHANGED <<registry, now, reports, proposals, history, lastRun,
                   vouched, offered, applied, recorded>>

First(S) == Min(S)

Believed(m, id, status) == IF id = m THEN status ELSE "UNKNOWN"

(* inspect_all: no adapter, an exception and a report about another module  *)
(* all give UNKNOWN.                                                        *)
Inspect ==
    /\ pc = "inspect" /\ todo # {}
    /\ LET m == First(todo) IN
          /\ todo' = todo \ {m}
          /\ \/ /\ reports' = [reports EXCEPT ![m] = "UNKNOWN"]
                /\ UNCHANGED vouched
             \/ /\ m \in adapters
                /\ \E id \in Modules, status \in Statuses :
                      /\ reports' = [reports EXCEPT ![m] = Believed(m, id, status)]
                      /\ vouched' = IF id = m /\ status \in {"HEALTHY", "VERIFIED"}
                                    THEN vouched \cup {m} ELSE vouched
    /\ UNCHANGED <<registry, now, pc, started, asked, proposals, history, lastRun,
                   inspected, offered, applied, begun, recorded>>

Inspected ==
    /\ pc = "inspect" /\ todo = {}
    /\ pc' = "propose" /\ todo' = registered
    /\ UNCHANGED <<registry, now, started, asked, reports, proposals, history, lastRun,
                   evidence, begun, recorded>>

AnyProposal(m, p) == TRUE   \* a variant
OwnProposal(m, p) == p.module_id = m

(* prepare_repairs: no adapter, an exception, no proposal and a proposal    *)
(* for another module all give nothing.                                     *)
Propose ==
    /\ pc = "propose" /\ todo # {}
    /\ LET m == First(todo) IN
          /\ todo' = todo \ {m}
          /\ \/ UNCHANGED <<proposals, offered>>
             \/ /\ m \in adapters
                /\ \E p \in Proposal :
                      /\ offered' = offered \cup {<<m, p>>}
                      /\ proposals' = IF OwnProposal(m, p)
                                      THEN proposals \cup {p} ELSE proposals
    /\ UNCHANGED <<registry, now, pc, started, asked, reports, history, lastRun,
                   inspected, vouched, applied, begun, recorded>>

Proposed ==
    /\ pc = "propose" /\ todo = {}
    /\ pc' = "execute"
    /\ UNCHANGED <<registry, now, todo, started, asked, reports, proposals, history, lastRun,
                   evidence, begun, recorded>>

PolicyAllowed(p) == p.reversible /\ ~p.requires_approval

(* execute_safe_repairs: each proposal once, by the adapter of the module   *)
(* it names; whether it succeeds, fails or raises makes no difference here. *)
Execute ==
    /\ pc = "execute"
    /\ \E p \in proposals :
          /\ \A q \in proposals : p.module_id <= q.module_id
          /\ proposals' = proposals \ {p}
          /\ applied' = IF PolicyAllowed(p) /\ p.module_id \in adapters
                        THEN applied \cup {<<p.module_id, p>>} ELSE applied
    /\ UNCHANGED <<registry, now, pc, todo, started, asked, reports, history, lastRun,
                   inspected, vouched, offered, begun, recorded>>

-----------------------------------------------------------------------------
(* aggregate_status: the worst status of the list that some report has.     *)
AggregateOrder ==
    <<"VERIFIED", "HEALTHY", "RECOVERING", "DEGRADED", "UNKNOWN", "ISOLATED", "FAILED">>

BestStatus(S) == LET found == {i \in 1 .. 7 : AggregateOrder[i] \in S}   \* a variant
                 IN  IF found = {} THEN "UNKNOWN" ELSE AggregateOrder[Min(found)]

AggregateStatus(S) == LET found == {i \in 1 .. 7 : AggregateOrder[i] \in S}
                      IN  IF found = {} THEN "UNKNOWN" ELSE AggregateOrder[Max(found)]

Reported == {reports[m] : m \in Modules} \ {NoReport}

Trimmed(h) == IF Len(h) > MaxHistory THEN SubSeq(h, Len(h) - MaxHistory + 1, Len(h)) ELSE h

(* The result is kept; only the number, the times and the aggregate matter. *)
Record ==
    /\ pc = "execute" /\ proposals = {}
    /\ history' = Trimmed(Append(history,
                      [n |-> recorded + 1, started |-> started, finished |-> now,
                       asked |-> asked, aggregate |-> AggregateStatus(Reported),
                       stamped |-> FALSE]))
    /\ recorded' = recorded + 1
    /\ pc' = "stamp"
    /\ UNCHANGED <<registry, now, todo, started, asked, reports, proposals, lastRun,
                   evidence, begun>>

StampStart == started   \* a variant
StampTime == now

Stamp ==
    /\ pc = "stamp"
    /\ lastRun' = StampTime
    /\ history' = [history EXCEPT ![Len(history)].stamped = TRUE]
    /\ pc' = "idle"
    /\ CycleEmpty
    /\ UNCHANGED <<registry, now, begun, recorded>>

(* A proposal or a report that is not an object of its class, or the clock, *)
(* raises: the cycle is over, whatever it has executed or kept so far.      *)
Raises ==
    /\ pc \in {"propose", "execute", "stamp"}
    /\ pc' = "idle"
    /\ CycleEmpty
    /\ UNCHANGED <<registry, now, history, lastRun, begun, recorded>>

Tick ==
    /\ now < MaxTime
    /\ now' = now + 1
    /\ UNCHANGED <<registry, pc, todo, started, asked, reports, proposals, history, lastRun,
                   evidence, begun, recorded>>

Next ==
    \/ \E m \in Modules : Register(m)
    \/ BuildFromConfig
    \/ Start \/ Inspect \/ Inspected \/ Propose \/ Proposed \/ Execute
    \/ Record \/ Stamp \/ Raises
    \/ Tick

Spec == Init /\ [][Next]_vars

-----------------------------------------------------------------------------
Phase == {"idle", "inspect", "propose", "execute", "stamp"}
Aggregate == {AggregateOrder[i] : i \in 1 .. 7}

Result == [n : Nat, started : Nat, finished : Nat, asked : BOOLEAN, aggregate : Aggregate,
           stamped : BOOLEAN]

(* Every variable has its type, and only registered modules have adapters.  *)
TypeOK ==
    /\ registered \subseteq Modules /\ adapters \subseteq registered
    /\ now \in Nat /\ lastRun \in Nat \cup {Never}
    /\ pc \in Phase /\ todo \subseteq Modules /\ started \in Nat /\ asked \in BOOLEAN
    /\ reports \in [Modules -> Statuses \cup {NoReport, "UNKNOWN"}]
    /\ proposals \subseteq Proposal /\ history \in Seq(Result)
    /\ inspected \subseteq Modules /\ vouched \subseteq Modules
    /\ offered \subseteq Modules \X Proposal /\ applied \subseteq Modules \X Proposal
    /\ begun \in Nat /\ recorded \in Nat

(* status.py line 3, "UNKNOWN darf niemals automatisch als HEALTHY          *)
(* behandelt werden": a cycle's result is a healthy one only if every       *)
(* module registered when it began answered in this cycle, about itself,    *)
(* that it is well; a module without adapter, an exception, a report about  *)
(* another module and an empty registry never pass for health.              *)
HealthIsVouchedFor ==
    [][ recorded' > recorded /\ history'[Len(history')].aggregate \in {"HEALTHY", "VERIFIED"} =>
            inspected # {} /\ inspected \subseteq vouched ]_vars

(* agent.py lines 6-8 and 34: what an adapter executes in a cycle is a      *)
(* repair it proposed itself in this cycle, that can be undone and needs no *)
(* approval, whoever else proposes something in its name.                   *)
OnlyOwnSafeRepairs ==
    \A x \in applied :
        LET p == x[2] IN
        /\ x \in offered /\ x[1] = p.module_id
        /\ p.reversible /\ ~p.requires_approval

(* scheduler.py: the history holds the latest results, oldest first and     *)
(* without a gap, at most MAX_HISTORY; and a caller that asks due() starts  *)
(* no cycle sooner than an interval after the end of a completed one, also  *)
(* when cycles in between raised.                                           *)
HistoryIsTrue ==
    /\ Len(history) = Min({recorded, MaxHistory})
    /\ \A i \in 1 .. Len(history) : history[i].n = recorded - Len(history) + i
    /\ \A i, j \in 1 .. Len(history) :
          i < j /\ history[i].stamped /\ history[j].asked =>
              history[j].started >= history[i].finished + Interval
=============================================================================
