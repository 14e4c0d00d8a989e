---------------------------- MODULE ModelReplay ----------------------------
(***************************************************************************)
(* controller/model_runner.py, model_run_manifest.py, replay_session.py:   *)
(* runners that wrap an inference callable under pinned conditions, the    *)
(* records of their runs, and who may compare which records.               *)
(*                                                                         *)
(* A record says under which conditions which input gave which output, and *)
(* nothing of the runner that made it.  The conditions stand for the       *)
(* digests of model, tokenizer, runtime and settings, the seed, the        *)
(* precision and the backend.  Inference answers what it likes: kernels,   *)
(* sampling and faults make the same input give other outputs.             *)
(***************************************************************************)
EXTENDS Naturals, FiniteSets, Sequences

CONSTANTS Runners, Sessions,
          Conditions, Sampled,   \* Sampled: those with temperature or do_sample
          Inputs, Outputs,
          NoConditions, NoRunner, NoVerdict,
          MaxRuns                \* bound: different runs a behaviour makes

ASSUME ConditionsAssumption == Sampled \subseteq Conditions /\ NoConditions \notin Conditions
ASSUME RunnersAssumption == NoRunner \notin Runners
ASSUME MaxRunsAssumption == MaxRuns \in Nat

VARIABLES pinned,    \* of a runner: its conditions, once it is constructed
          emitted,   \* _emitted of a runner: pairs of input and output
          session,   \* of a TwoNodeReplay: its runners and how far execute is
          verdict,   \* what the last step returned, if it compared two records
          runs       \* history: who made which record

replayVars == <<pinned, emitted, session, verdict, runs>>

Record == [cond : Conditions, input : Inputs, output : Outputs, whole : BOOLEAN]
Run == [by : Runners, rec : Record]

NoSession == [ref |-> NoRunner, rep |-> NoRunner, pc |-> "none", recs |-> << >>]
NothingEmitted == [r \in Runners |-> {}]

ReplayInit ==
    /\ pinned = [r \in Runners |-> NoConditions]
    /\ emitted = NothingEmitted
    /\ session = [s \in Sessions |-> NoSession]
    /\ verdict = NoVerdict
    /\ runs = {}

-----------------------------------------------------------------------------
(* PinnedModelRunner.                                                       *)

(* Settings that sample are refused unless allow_nondeterministic is given; *)
(* the record does not say whether it was.                                  *)
Construct(r) ==
    /\ pinned[r] = NoConditions
    /\ \E c \in Conditions, allowed \in BOOLEAN :
          /\ c \in Sampled => allowed
          /\ pinned' = [pinned EXCEPT ![r] = c]
    /\ verdict' = NoVerdict
    /\ UNCHANGED <<emitted, session, runs>>

EmittedPair(rec) == <<rec.input, rec.output>>
EmittedLost(r, rec) == UNCHANGED emitted   \* a variant
Remember(r, rec) == emitted' = [emitted EXCEPT ![r] = @ \cup {EmittedPair(rec)}]

(* run: inference, the record, the pair remembered.  When inference raises, *)
(* or answers something that is not bytes, nothing has changed.             *)
Makes(r, rec) ==
    /\ rec \in Record /\ rec.whole
    /\ pinned[r] = rec.cond
    /\ Remember(r, rec)
    /\ runs' = runs \cup {[by |-> r, rec |-> rec]}
    /\ Cardinality(runs') <= MaxRuns

RunAlone(r) ==
    /\ \E x \in Inputs, y \in Outputs :
          Makes(r, [cond |-> pinned[r], input |-> x, output |-> y, whole |-> TRUE])
    /\ verdict' = NoVerdict
    /\ UNCHANGED <<pinned, session>>

(* The records somebody may hand in: those of the runs, and the same after  *)
(* a field other than the digests of input and output was lost or changed.  *)
(* With one of these lost produced_here raises, with one changed the record *)
(* is nobody's own and the comparison raises: no verdict either way, and    *)
(* left out.                                                                *)
Handed == {x.rec : x \in runs} \cup {[x.rec EXCEPT !.whole = FALSE] : x \in runs}

-----------------------------------------------------------------------------
(* verify_exact_replay: validate both records, compare the conditions and   *)
(* the input, compare the output.                                           *)

SameConditions(a, b) == a.cond = b.cond /\ a.input = b.input
SameOutput(a, b) == a.output = b.output

Compared(a, b) ==
    IF ~(a.whole /\ b.whole) THEN "raises"
    ELSE IF ~SameConditions(a, b) THEN "CONDITIONS_MISMATCH"
    ELSE IF SameOutput(a, b) THEN "VERIFIED_EXACT"
    ELSE "NONDETERMINISTIC"

ProducedHere(r, rec) == EmittedPair(rec) \in emitted[r]

SelfVerification(r, a, b) == ProducedHere(r, a) /\ ProducedHere(r, b)

(* verify_independent_replay.  ProducedHere knows pairs, not records: any   *)
(* record with the same input and output counts as the runner's own.        *)
VerifyIndependentReplay(r) ==
    /\ pinned[r] # NoConditions
    /\ \E a, b \in Handed :
          verdict' = [who |-> r, ref |-> a, rep |-> b,
                      status |-> IF SelfVerification(r, a, b)
                                 THEN "SELF_VERIFICATION_REFUSED" ELSE Compared(a, b)]
    /\ UNCHANGED <<pinned, emitted, session, runs>>

-----------------------------------------------------------------------------
(* TwoNodeReplay.  A session may be executed again and again, and runners   *)
(* may belong to several sessions.                                          *)

DifferentRunners(a, b) == a # b

Pair(s) ==
    /\ session[s] = NoSession
    /\ \E a, b \in Runners :
          /\ pinned[a] # NoConditions /\ pinned[b] # NoConditions
          /\ DifferentRunners(a, b)
          /\ session' = [session EXCEPT ![s] =
                            [ref |-> a, rep |-> b, pc |-> "ready", recs |-> << >>]]
    /\ verdict' = NoVerdict
    /\ UNCHANGED <<pinned, emitted, runs>>

RunReference(s) ==
    LET a == session[s].ref IN
    /\ session[s].pc = "ready"
    /\ \E x \in Inputs, y \in Outputs :
          LET rec == [cond |-> pinned[a], input |-> x, output |-> y, whole |-> TRUE] IN
          /\ Makes(a, rec)
          /\ session' = [session EXCEPT ![s].pc = "replay", ![s].recs = <<rec>>]
    /\ verdict' = NoVerdict
    /\ UNCHANGED pinned

(* The replay gets the same bytes, and execute returns the comparison.      *)
RunReplay(s) ==
    LET b == session[s].rep
        ref == session[s].recs[1] IN
    /\ session[s].pc = "replay"
    /\ \E y \in Outputs :
          LET rec == [cond |-> pinned[b], input |-> ref.input, output |-> y, whole |-> TRUE] IN
          /\ Makes(b, rec)
          /\ verdict' = [who |-> NoRunner, ref |-> ref, rep |-> rec,
                         status |-> Compared(ref, rec)]
    /\ session' = [session EXCEPT ![s].pc = "ready", ![s].recs = << >>]
    /\ UNCHANGED pinned

(* The second run raises: execute raises, the reference run stays made.     *)
ReplayRaises(s) ==
    /\ session[s].pc = "replay"
    /\ session' = [session EXCEPT ![s].pc = "ready", ![s].recs = << >>]
    /\ verdict' = NoVerdict
    /\ UNCHANGED <<pinned, emitted, runs>>

-----------------------------------------------------------------------------
ReplayNext ==
    \/ \E r \in Runners : Construct(r) \/ RunAlone(r) \/ VerifyIndependentReplay(r)
    \/ \E s \in Sessions : Pair(s) \/ RunReference(s) \/ RunReplay(s) \/ ReplayRaises(s)

ReplaySpec == ReplayInit /\ [][ReplayNext]_replayVars

-----------------------------------------------------------------------------
Status == {"raises", "CONDITIONS_MISMATCH", "NONDETERMINISTIC", "VERIFIED_EXACT",
           "SELF_VERIFICATION_REFUSED"}
Verdict == [who : Runners \cup {NoRunner}, ref : Record, rep : Record, status : Status]
Session == [ref : Runners \cup {NoRunner}, rep : Runners \cup {NoRunner},
            pc : {"none", "ready", "replay"}, recs : Seq(Record)]

(* Every variable has its type; a session inside execute holds the record   *)
(* of its reference run.                                                    *)
ReplayTypeOK ==
    /\ pinned \in [Runners -> Conditions \cup {NoConditions}]
    /\ emitted \in [Runners -> SUBSET (Inputs \X Outputs)]
    /\ session \in [Sessions -> Session]
    /\ \A s \in Sessions : session[s].pc = "replay" => Len(session[s].recs) = 1
    /\ verdict \in Verdict \cup {NoVerdict}
    /\ runs \subseteq Run

Says(status) == verdict # NoVerdict /\ verdict.status = status
MadeBy(r, rec) == \E x \in runs : x.by = r /\ x.rec = [rec EXCEPT !.whole = TRUE]

(* Two runners, and not one, made these two records. *)
ByTwoRunners(a, b) ==
    \E r, q \in Runners : r # q /\ MadeBy(r, a) /\ MadeBy(q, b)

(* replay_session.py lines 3-5: "A reference run and a replay run must come *)
(* from two DIFFERENT runner instances"; however the runs of sessions that  *)
(* share runners interleave, what execute compares are two runs of its two  *)
(* runners.                                                                 *)
SessionsTakeTwoRunners ==
    verdict # NoVerdict /\ verdict.who = NoRunner =>
        ByTwoRunners(verdict.ref, verdict.rep)

(* model_runner.py lines 7-8: a runner never judges two records that both   *)
(* came from itself, whatever it ran in between, and also not when a record *)
(* came back damaged.                                                       *)
NoSelfVerification ==
    verdict # NoVerdict /\ verdict.who # NoRunner
        /\ MadeBy(verdict.who, verdict.ref) /\ MadeBy(verdict.who, verdict.rep) =>
        verdict.status = "SELF_VERIFICATION_REFUSED"

(* tests/test_model_runner.py line 80, "own record against independent      *)
(* replay is allowed": a runner refuses only when both records are its own. *)
OnlyOwnPairsAreRefused ==
    Says("SELF_VERIFICATION_REFUSED") =>
        MadeBy(verdict.who, verdict.ref) /\ MadeBy(verdict.who, verdict.rep)

(* model_run_manifest.py line 112, "two independently produced run          *)
(* records": VERIFIED_EXACT is never said of the runs of a single runner.   *)
VerifiedMeansReplayed ==
    Says("VERIFIED_EXACT") => ByTwoRunners(verdict.ref, verdict.rep)
=============================================================================
