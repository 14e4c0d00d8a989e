--------------------------- MODULE StewardshipGate ---------------------------
(***************************************************************************)
(* What uses the stewardship ledger: controller/enforcement.py, a gate     *)
(* with hysteresis that records its decisions; controller/impact.py, which *)
(* records impacts; and the reports of stewardship_report.py and           *)
(* v91_cli.py, which verify the file and then read it a second time.       *)
(*                                                                         *)
(* A gate keeps its ledger object and one flag, _active, in memory.  The   *)
(* flag moves before the decision is appended, and another thread may be   *)
(* inside append then.  Scores and human impacts are hundredths; the       *)
(* payloads that _validate refuses change nothing and are left out.        *)
(***************************************************************************)
EXTENDS Ledger, FiniteSets

CONSTANTS Deciders,  \* the threads that call evaluate; the others record impacts
          Inputs,    \* records [score, human] of proposals
          Nothing

HUMAN_IMPACT_VETO == 50
TRIGGER_HIGH == 70
TRIGGER_LOW == 50

Decisions == {"REJECTED_HUMAN_IMPACT", "APPROVED_ADVISORY", "IDLE"}
Decided(in, d) == [input |-> in, decision |-> d]
Impacts == {[status |-> "VALID"], [status |-> "QUARANTINE"]}

ASSUME GateAssumption ==
    /\ Deciders \subseteq Threads
    /\ Inputs \subseteq [score : 0 .. 100, human : 0 .. 100]
    /\ Payloads = {Decided(in, d) : in \in Inputs, d \in Decisions} \cup Impacts
    /\ Nothing \notin Payloads

VARIABLES active,   \* _active of the gate on an object
          decided,  \* of a thread: the decision it is about to append
          report    \* of a reader: what it has verified and what it says

gate == <<active, decided>>
gateVars == <<vars, gate, report>>

NoReport == [pc |-> "none", checked |-> 0, counts |-> << >>]

GateInit ==
    /\ Init
    /\ active = [p \in Objects |-> FALSE]
    /\ decided = [t \in Threads |-> Nothing]
    /\ report = NoReport

-----------------------------------------------------------------------------
(* A variant: an idle decision leaves the flag. *)
FlagAfterSticky(p, d) == IF d = "IDLE" THEN active[p] ELSE d = "APPROVED_ADVISORY"
FlagAfter(p, d) == d = "APPROVED_ADVISORY"

Decision(p, in) ==
    IF in.human >= HUMAN_IMPACT_VETO THEN "REJECTED_HUMAN_IMPACT"
    ELSE IF in.score > TRIGGER_HIGH \/ (active[p] /\ in.score >= TRIGGER_LOW)
         THEN "APPROVED_ADVISORY" ELSE "IDLE"

Evaluate(t, in) ==
    LET p == Home[t]  d == Decision(p, in) IN
    /\ state[p] = "open" /\ call[t] = Idle /\ decided[t] = Nothing
    /\ active' = [active EXCEPT ![p] = FlagAfter(p, d)]
    /\ decided' = [decided EXCEPT ![t] = Decided(in, d)]
    /\ UNCHANGED <<vars, report>>

RecordDecision(t) ==
    /\ decided[t] # Nothing
    /\ EnterWith(t, decided[t])
    /\ decided' = [decided EXCEPT ![t] = Nothing]
    /\ UNCHANGED <<active, report>>

RecordImpact(t) ==
    /\ \E b \in Impacts : EnterWith(t, b)
    /\ UNCHANGED <<gate, report>>

-----------------------------------------------------------------------------
(* A report: verify_chain reads the file, and if the chain is valid the     *)
(* lines are read again and counted.  Neither reading waits for an append;  *)
(* of a line that is being written it may meet a part, which json.loads     *)
(* refuses, or one cut inside a character, which no reader decodes.         *)
HalfThere ==
    {IF whole THEN Append(lines, part) ELSE [lines EXCEPT ![Len(lines)] = part] :
        part \in {Broken, Undecodable}}

Seen == {lines} \cup (IF Appending THEN HalfThere ELSE {})

(* A variant: the count does not wait for the verdict. *)
TrustAnyFile(ls) == TRUE
Trusted(ls) == Verdict(ls, 0) = "valid"

(* verify_chain finds no fault with a file that is not there. *)
ReportVerifies ==
    /\ report.pc # "verified"
    /\ \E ls \in Seen :
          report' = IF Trusted(ls)
                    THEN [NoReport EXCEPT !.pc = "verified", !.checked = Len(ls)]
                    ELSE [NoReport EXCEPT !.pc = Verdict(ls, 0)]
    /\ UNCHANGED <<vars, gate>>

Label(b) == IF b \in Impacts THEN b.status ELSE b.decision

(* How many records of ls there are of each kind.                          *)
Counts(ls) ==
    [k \in {Label(ls[i].body) : i \in 1 .. Len(ls)} |->
        Cardinality({i \in 1 .. Len(ls) : Label(ls[i].body) = k})]

(* The second reading raises on a line that is no record, and a file that  *)
(* has no lines yet may not be there to open; no caller catches either.    *)
ReportCounts ==
    /\ report.pc = "verified"
    /\ \/ \E ls \in Seen :
             report' = IF Parses(ls)
                       THEN [report EXCEPT !.pc = "given", !.counts = Counts(ls)]
                       ELSE [report EXCEPT !.pc = "raises"]
       \/ lines = << >> /\ report' = [report EXCEPT !.pc = "raises"]
    /\ UNCHANGED <<vars, gate>>

-----------------------------------------------------------------------------
GateCrash(p) ==
    /\ Crash(p)
    /\ active' = [active EXCEPT ![p] = FALSE]
    /\ decided' = [t \in Threads |-> IF Home[t] = p THEN Nothing ELSE decided[t]]
    /\ UNCHANGED report

GatePowerLoss ==
    /\ PowerLoss
    /\ active' = [p \in Objects |-> FALSE]
    /\ decided' = [t \in Threads |-> Nothing]
    /\ report' = NoReport

GateNext ==
    \/ \E p \in Objects :
          \/ (OpenVerify(p) \/ OpenReadHead(p)) /\ UNCHANGED <<gate, report>>
          \/ GateCrash(p)
    \/ \E t \in Threads : Inside(t) /\ UNCHANGED <<gate, report>>
    \/ \E t \in Deciders : (\E in \in Inputs : Evaluate(t, in)) \/ RecordDecision(t)
    \/ \E t \in Threads \ Deciders : RecordImpact(t)
    \/ ReportVerifies \/ ReportCounts
    \/ GatePowerLoss

GateSpec == GateInit /\ [][GateNext]_gateVars

-----------------------------------------------------------------------------
Approval(b) == b \notin Impacts /\ b.decision = "APPROVED_ADVISORY"

(* Entry n of log comes after a high score, with approvals in between. *)
Grounded(log, n) ==
    \E j \in 1 .. n :
        /\ Approval(log[j]) /\ log[j].input.score > TRIGGER_HIGH
        /\ \A k \in j .. n : log[k] \in Impacts \/ Approval(log[k])

(* evaluate, lines 44-52: with one deciding thread, whatever crashes and    *)
(* whatever the power takes from the file, an advisory approval on record   *)
(* goes back to a score above TRIGGER_HIGH through approvals alone: no      *)
(* veto, no idle decision and no forgotten decision lies in between.        *)
ApprovalsAreGrounded ==
    LET log == Entries(lines) IN
    \A i \in 1 .. Len(log) : Approval(log[i]) => Grounded(log, i)

(* summarize and verified_summary read the file again after verify_chain    *)
(* has read it, while others append: what they count is a verified chain    *)
(* all the same, with at least the records that were verified.              *)
ReportsAreVerified ==
    report.pc = "given" =>
        \E n \in report.checked .. Len(lines) :
            /\ Chained(SubSeq(lines, 1, n), 0)
            /\ report.counts = Counts(SubSeq(lines, 1, n))

(* No crash and no power failure leaves a file that verifies and then       *)
(* cannot be counted: the second reading raises only while the file has no  *)
(* lines, or while somebody is appending one.                               *)
RaisesOnlyMeanwhile ==
    [][report.pc = "verified" /\ report'.pc = "raises" =>
          lines = << >> \/ Appending]_gateVars

=============================================================================
