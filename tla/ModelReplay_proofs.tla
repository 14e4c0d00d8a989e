------------------------- MODULE ModelReplay_proofs -------------------------
(***************************************************************************)
(* Proofs about ModelReplay, for any runners, sessions, conditions, inputs *)
(* and outputs.  The invariant says that a runner remembers the pair of    *)
(* every run it made, and that a session inside execute holds the record   *)
(* of a run of its reference runner, which is not its replay runner.       *)
(***************************************************************************)
EXTENDS ModelReplay, TLAPS

RunsAreRemembered ==
  \A x \in runs : x.rec.whole /\ EmittedPair(x.rec) \in emitted[x.by]

SessionsAreSound ==
  \A s \in Sessions :
    /\ session[s].pc # "none" =>
         /\ session[s].ref \in Runners /\ session[s].rep \in Runners
         /\ session[s].ref # session[s].rep
    /\ session[s].pc = "replay" =>
         [by |-> session[s].ref, rec |-> session[s].recs[1]] \in runs

IInv == ReplayTypeOK /\ RunsAreRemembered /\ SessionsAreSound

(* What the latest verdict rests on; it holds after every step. *)
Judged == SessionsTakeTwoRunners /\ NoSelfVerification

(* run adds the run and its pair, and every record is a record. *)
LEMMA MakesStep ==
  ASSUME IInv, NEW r \in Runners, NEW rec, Makes(r, rec)
  PROVE  /\ rec \in Record /\ rec.whole
         /\ emitted' \in [Runners -> SUBSET (Inputs \X Outputs)]
         /\ runs' = runs \cup {[by |-> r, rec |-> rec]}
         /\ runs' \subseteq Run
         /\ RunsAreRemembered'
<1>1. rec \in Record /\ rec.whole /\ runs' = runs \cup {[by |-> r, rec |-> rec]}
  BY DEF Makes
<1>2. EmittedPair(rec) \in Inputs \X Outputs
  BY <1>1 DEF Record, EmittedPair
<1>3. emitted' = [emitted EXCEPT ![r] = @ \cup {EmittedPair(rec)}]
  BY DEF Makes, Remember
<1>4. emitted' \in [Runners -> SUBSET (Inputs \X Outputs)]
  BY <1>2, <1>3 DEF IInv, ReplayTypeOK
<1>5. runs' \subseteq Run
  BY <1>1 DEF IInv, ReplayTypeOK, Run
<1>6. ASSUME NEW x \in runs' PROVE x.rec.whole /\ EmittedPair(x.rec) \in emitted'[x.by]
  <2>1. CASE x \in runs
    <3>1. x.by \in Runners /\ x.rec.whole /\ EmittedPair(x.rec) \in emitted[x.by]
      BY <2>1 DEF IInv, ReplayTypeOK, RunsAreRemembered, Run
    <3>2. emitted[x.by] \subseteq emitted'[x.by]
      BY <1>3, <3>1 DEF IInv, ReplayTypeOK
    <3> QED BY <3>1, <3>2
  <2>2. CASE x = [by |-> r, rec |-> rec]
    <3>1. x.by = r /\ x.rec = rec
      BY <2>2
    <3>2. EmittedPair(rec) \in emitted'[r]
      BY <1>3 DEF IInv, ReplayTypeOK
    <3> QED BY <1>1, <3>1, <3>2
  <2> QED BY <1>1, <2>1, <2>2
<1>7. RunsAreRemembered'
  BY <1>6 DEF RunsAreRemembered, EmittedPair
<1> QED BY <1>1, <1>4, <1>5, <1>7

(* A record that is handed in has the type of a record.                     *)
LEMMA HandedType ==
  ASSUME IInv, NEW a \in Handed
  PROVE  a \in Record
<1>1. ASSUME NEW x \in runs PROVE x.rec \in Record /\ [x.rec EXCEPT !.whole = FALSE] \in Record
  <2>1. x.rec \in Record
    BY DEF IInv, ReplayTypeOK, Run
  <2> QED BY <2>1 DEF Record
<1> QED BY <1>1 DEF Handed

(* No runner is constructed, no session exists, nothing was run. *)
LEMMA Initial == ReplayInit => IInv
<1> SUFFICES ASSUME ReplayInit PROVE IInv
  OBVIOUS
<1> USE DEF ReplayInit, NothingEmitted, NoSession
<1>1. ReplayTypeOK
  BY DEF ReplayTypeOK, Session
<1>2. RunsAreRemembered
  BY DEF RunsAreRemembered
<1>3. SessionsAreSound
  BY DEF SessionsAreSound
<1> QED BY <1>1, <1>2, <1>3 DEF IInv

(* The comparison is over either way, and refuses nobody.                   *)
LEMMA ComparedMeans ==
  ASSUME NEW a \in Record, NEW b \in Record
  PROVE  /\ Compared(a, b) \in Status
         /\ Compared(a, b) # "SELF_VERIFICATION_REFUSED"
BY DEF Compared, Status

(* The places of execute: a session before and after its reference run. *)
LEMMA SessionMoves ==
  ASSUME NEW v \in Session, NEW rec \in Record
  PROVE  /\ [v EXCEPT !.pc = "replay", !.recs = <<rec>>] \in Session
         /\ [v EXCEPT !.pc = "ready", !.recs = << >>] \in Session
<1>1. <<rec>> \in Seq(Record) /\ << >> \in Seq(Record)
  OBVIOUS
<1> QED BY <1>1 DEF Session

(* A step that leaves runs and what was emitted alone. *)
LEMMA RunsUntouched ==
  ASSUME IInv, UNCHANGED <<emitted, runs>>
  PROVE  RunsAreRemembered'
BY DEF IInv, RunsAreRemembered

(* Each action keeps the invariant. *)
LEMMA InvStep == IInv /\ [ReplayNext]_replayVars => IInv'
<1> SUFFICES ASSUME IInv, [ReplayNext]_replayVars PROVE IInv'
  OBVIOUS
<1>1. ASSUME NEW r \in Runners, Construct(r) PROVE IInv'
  <2>1. RunsAreRemembered'
    BY <1>1, RunsUntouched DEF Construct
  <2>2. ReplayTypeOK'
    BY <1>1 DEF Construct, IInv, ReplayTypeOK
  <2>3. SessionsAreSound'
    BY <1>1 DEF Construct, IInv, SessionsAreSound
  <2> QED BY <2>1, <2>2, <2>3 DEF IInv
<1>2. ASSUME NEW r \in Runners, RunAlone(r) PROVE IInv'
  <2>1. PICK rec : Makes(r, rec)
    BY <1>2 DEF RunAlone
  <2>2. ReplayTypeOK'
    BY <1>2, <2>1, MakesStep DEF RunAlone, IInv, ReplayTypeOK
  <2>3. SessionsAreSound'
    BY <1>2, <2>1, MakesStep DEF RunAlone, IInv, SessionsAreSound
  <2> QED BY <2>1, <2>2, <2>3, MakesStep DEF IInv
<1>3. ASSUME NEW r \in Runners, VerifyIndependentReplay(r) PROVE IInv'
  <2>1. RunsAreRemembered'
    BY <1>3, RunsUntouched DEF VerifyIndependentReplay
  <2>2. verdict' \in Verdict
    <3>1. PICK a \in Handed, b \in Handed :
            verdict' = [who |-> r, ref |-> a, rep |-> b,
                        status |-> IF SelfVerification(r, a, b)
                                   THEN "SELF_VERIFICATION_REFUSED" ELSE Compared(a, b)]
      BY <1>3 DEF VerifyIndependentReplay
    <3>2. a \in Record /\ b \in Record
      BY HandedType
    <3>3. verdict'.status \in Status
      BY <3>1, <3>2, ComparedMeans DEF Status
    <3> QED BY <3>1, <3>2, <3>3 DEF Verdict
  <2>3. ReplayTypeOK'
    BY <1>3, <2>2 DEF VerifyIndependentReplay, IInv, ReplayTypeOK
  <2>4. SessionsAreSound'
    BY <1>3 DEF VerifyIndependentReplay, IInv, SessionsAreSound
  <2> QED BY <2>1, <2>3, <2>4 DEF IInv
<1>4. ASSUME NEW s \in Sessions, Pair(s) PROVE IInv'
  <2>1. PICK a \in Runners, b \in Runners :
          /\ DifferentRunners(a, b)
          /\ session' = [session EXCEPT ![s] =
                            [ref |-> a, rep |-> b, pc |-> "ready", recs |-> << >>]]
    BY <1>4 DEF Pair
  <2>2. RunsAreRemembered'
    BY <1>4, RunsUntouched DEF Pair
  <2>3. ReplayTypeOK'
    BY <1>4, <2>1 DEF Pair, IInv, ReplayTypeOK, Session
  <2>4. SessionsAreSound'
    BY <1>4, <2>1 DEF Pair, IInv, ReplayTypeOK, SessionsAreSound, DifferentRunners
  <2> QED BY <2>2, <2>3, <2>4 DEF IInv
<1>5. ASSUME NEW s \in Sessions, RunReference(s) PROVE IInv'
  <2>0. session[s].pc = "ready" /\ session[s].ref \in Runners /\ session[s] \in Session
    BY <1>5 DEF RunReference, IInv, ReplayTypeOK, SessionsAreSound
  <2>1. PICK rec :
          /\ Makes(session[s].ref, rec)
          /\ session' = [session EXCEPT ![s].pc = "replay", ![s].recs = <<rec>>]
    BY <1>5 DEF RunReference
  <2>2. /\ rec \in Record /\ runs' = runs \cup {[by |-> session[s].ref, rec |-> rec]}
        /\ RunsAreRemembered'
    BY <2>0, <2>1, MakesStep
  <2>3. ReplayTypeOK'
    <3>1. [session[s] EXCEPT !.pc = "replay", !.recs = <<rec>>] \in Session
      BY <2>0, <2>2, SessionMoves
    <3>2. session' \in [Sessions -> Session]
      BY <2>1, <3>1 DEF IInv, ReplayTypeOK
    <3>3. ASSUME NEW q \in Sessions, session'[q].pc = "replay" PROVE Len(session'[q].recs) = 1
      BY <2>0, <2>1, <3>3 DEF IInv, ReplayTypeOK, Session
    <3>4. pinned' = pinned /\ verdict' = NoVerdict
      BY <1>5 DEF RunReference
    <3>5. emitted' \in [Runners -> SUBSET (Inputs \X Outputs)] /\ runs' \subseteq Run
      BY <2>0, <2>1, MakesStep
    <3> QED BY <3>2, <3>3, <3>4, <3>5 DEF IInv, ReplayTypeOK
  <2>4. SessionsAreSound'
    <3>1. ASSUME NEW q \in Sessions, q # s PROVE session'[q] = session[q]
      BY <2>1, <3>1 DEF IInv, ReplayTypeOK
    <3>2. /\ session'[s].ref = session[s].ref /\ session'[s].rep = session[s].rep
          /\ session'[s].recs[1] = rec
      BY <2>0, <2>1 DEF IInv, ReplayTypeOK, Session
    <3> QED BY <2>0, <2>2, <3>1, <3>2 DEF IInv, SessionsAreSound
  <2> QED BY <2>2, <2>3, <2>4 DEF IInv
<1>6. ASSUME NEW s \in Sessions, RunReplay(s) PROVE IInv'
  <2>0. /\ session[s].pc = "replay" /\ session[s].rep \in Runners /\ session[s] \in Session
        /\ session[s].recs[1] \in Record
    <3>1. session[s].pc = "replay" /\ Len(session[s].recs) = 1 /\ session[s] \in Session
      BY <1>6 DEF RunReplay, IInv, ReplayTypeOK
    <3>2. session[s].recs \in Seq(Record)
      BY <3>1 DEF Session
    <3>3. session[s].recs[1] \in Record
      BY <3>1, <3>2
    <3> QED BY <3>1, <3>3 DEF IInv, SessionsAreSound
  <2>1. PICK rec :
          /\ Makes(session[s].rep, rec)
          /\ verdict' = [who |-> NoRunner, ref |-> session[s].recs[1], rep |-> rec,
                         status |-> Compared(session[s].recs[1], rec)]
    BY <1>6 DEF RunReplay
  <2>2. /\ rec \in Record /\ RunsAreRemembered'
        /\ emitted' \in [Runners -> SUBSET (Inputs \X Outputs)] /\ runs' \subseteq Run
        /\ runs \subseteq runs'
    BY <2>0, <2>1, MakesStep
  <2>3. verdict' \in Verdict
    BY <2>0, <2>1, <2>2, ComparedMeans DEF Verdict
  <2>4. session' = [session EXCEPT ![s].pc = "ready", ![s].recs = << >>] /\ pinned' = pinned
    BY <1>6 DEF RunReplay
  <2>5. ReplayTypeOK'
    <3>1. [session[s] EXCEPT !.pc = "ready", !.recs = << >>] \in Session
      BY <2>0, SessionMoves
    <3>2. session' \in [Sessions -> Session]
      BY <2>4, <3>1 DEF IInv, ReplayTypeOK
    <3>3. ASSUME NEW q \in Sessions, session'[q].pc = "replay" PROVE Len(session'[q].recs) = 1
      BY <2>0, <2>4, <3>3 DEF IInv, ReplayTypeOK, Session
    <3> QED BY <2>2, <2>3, <2>4, <3>2, <3>3 DEF IInv, ReplayTypeOK
  <2>6. SessionsAreSound'
    BY <2>0, <2>2, <2>4 DEF IInv, ReplayTypeOK, Session, SessionsAreSound
  <2> QED BY <2>2, <2>5, <2>6 DEF IInv
<1>7. ASSUME NEW s \in Sessions, ReplayRaises(s) PROVE IInv'
  <2>1. RunsAreRemembered'
    BY <1>7, RunsUntouched DEF ReplayRaises
  <2>2. session[s] \in Session
    BY DEF IInv, ReplayTypeOK
  <2>3. [session[s] EXCEPT !.pc = "ready", !.recs = << >>] \in Session
    <3>1. session[s].pc = "replay" /\ Len(session[s].recs) = 1 /\ session[s].recs \in Seq(Record)
      BY <1>7, <2>2 DEF ReplayRaises, IInv, ReplayTypeOK, Session
    <3>2. session[s].recs[1] \in Record
      BY <3>1
    <3> QED BY <2>2, <3>2, SessionMoves
  <2>4. session' \in [Sessions -> Session]
    BY <1>7, <2>3 DEF ReplayRaises, IInv, ReplayTypeOK
  <2>5. ReplayTypeOK'
    BY <1>7, <2>2, <2>4 DEF ReplayRaises, IInv, ReplayTypeOK, Session
  <2>6. SessionsAreSound'
    BY <1>7, <2>2 DEF ReplayRaises, IInv, ReplayTypeOK, Session, SessionsAreSound
  <2> QED BY <2>1, <2>5, <2>6 DEF IInv
<1>8. CASE UNCHANGED replayVars
  BY <1>8 DEF replayVars, IInv, ReplayTypeOK, RunsAreRemembered, SessionsAreSound
<1> QED BY <1>1, <1>2, <1>3, <1>4, <1>5, <1>6, <1>7, <1>8 DEF ReplayNext

(* A damaged copy of a record has the maker of the record, and its pair is  *)
(* in the maker's memory.                                                   *)
LEMMA MadeIsEmitted ==
  ASSUME IInv, NEW r \in Runners, NEW a \in Record, MadeBy(r, a)
  PROVE  ProducedHere(r, a)
<1>1. PICK x \in runs : x.by = r /\ x.rec = [a EXCEPT !.whole = TRUE]
  BY DEF MadeBy
<1>2. EmittedPair(x.rec) = EmittedPair(a)
  BY <1>1 DEF EmittedPair, Record
<1> QED BY <1>1, <1>2 DEF IInv, RunsAreRemembered, ProducedHere

(* A record that is whole is made by the runner of a run with it. *)
LEMMA WholeIsMade ==
  ASSUME IInv, NEW x \in runs
  PROVE  x.by \in Runners /\ x.rec \in Record /\ MadeBy(x.by, x.rec)
<1>1. x.by \in Runners /\ x.rec \in Record /\ x.rec.whole
  BY DEF IInv, ReplayTypeOK, Run, RunsAreRemembered
<1>2. [x.rec EXCEPT !.whole = TRUE] = x.rec
  BY <1>1 DEF Record
<1> QED BY <1>1, <1>2 DEF MadeBy

(* Judged holds after every step, whatever was judged before. *)
LEMMA VerdictStep == IInv /\ Judged /\ [ReplayNext]_replayVars => Judged'
<1> SUFFICES ASSUME IInv, Judged, [ReplayNext]_replayVars PROVE Judged'
  OBVIOUS
<1> USE RunnersAssumption
<1>1. IInv'
  BY InvStep
<1>2. CASE verdict' = NoVerdict
  BY <1>2 DEF Judged, SessionsTakeTwoRunners, NoSelfVerification
<1>3. CASE UNCHANGED replayVars
  <2>1. verdict' = verdict /\ runs' = runs
    BY <1>3 DEF replayVars
  <2>0. \A r, rec : MadeBy(r, rec)' <=> MadeBy(r, rec)
    BY <2>1 DEF MadeBy
  <2>2. SessionsTakeTwoRunners'
    <3>1. \A a, b : ByTwoRunners(a, b)' <=> ByTwoRunners(a, b)
      BY <2>0 DEF ByTwoRunners
    <3>. QED BY <2>1, <3>1 DEF Judged, SessionsTakeTwoRunners
  <2>3. NoSelfVerification'
    BY <2>0, <2>1 DEF Judged, NoSelfVerification
  <2> QED BY <2>2, <2>3 DEF Judged
<1>4. ASSUME NEW r \in Runners, VerifyIndependentReplay(r) PROVE Judged'
  <2>1. PICK a \in Handed, b \in Handed :
          verdict' = [who |-> r, ref |-> a, rep |-> b,
                      status |-> IF SelfVerification(r, a, b)
                                 THEN "SELF_VERIFICATION_REFUSED" ELSE Compared(a, b)]
    BY <1>4 DEF VerifyIndependentReplay
  <2>2. a \in Record /\ b \in Record
    BY HandedType
  <2>3. runs' = runs /\ r # NoRunner
    BY <1>4 DEF VerifyIndependentReplay
  <2>4. SessionsTakeTwoRunners'
    BY <2>1, <2>3 DEF SessionsTakeTwoRunners
  <2>5. NoSelfVerification'
    <3>1. SUFFICES ASSUME MadeBy(r, a), MadeBy(r, b)
                   PROVE  verdict'.status = "SELF_VERIFICATION_REFUSED"
      BY <2>1, <2>3 DEF NoSelfVerification, MadeBy
    <3>2. SelfVerification(r, a, b)
      BY <2>2, <3>1, MadeIsEmitted DEF SelfVerification
    <3> QED BY <2>1, <3>2
  <2> QED BY <2>4, <2>5 DEF Judged
<1>5. ASSUME NEW s \in Sessions, RunReplay(s) PROVE Judged'
  <2>1. /\ session[s].pc = "replay" /\ session[s].rep \in Runners /\ session[s].ref \in Runners
        /\ session[s].ref # session[s].rep
        /\ [by |-> session[s].ref, rec |-> session[s].recs[1]] \in runs
    BY <1>5 DEF RunReplay, IInv, SessionsAreSound
  <2>2. PICK rec :
          /\ Makes(session[s].rep, rec)
          /\ verdict' = [who |-> NoRunner, ref |-> session[s].recs[1], rep |-> rec,
                         status |-> Compared(session[s].recs[1], rec)]
    BY <1>5 DEF RunReplay
  <2>3. PICK x \in runs', y \in runs' :
          /\ x.by = session[s].ref /\ x.rec = session[s].recs[1]
          /\ y.by = session[s].rep /\ y.rec = rec
    <3>1. runs' = runs \cup {[by |-> session[s].rep, rec |-> rec]}
      BY <2>1, <2>2, MakesStep
    <3>2. /\ [by |-> session[s].ref, rec |-> session[s].recs[1]] \in runs'
          /\ [by |-> session[s].rep, rec |-> rec] \in runs'
      BY <2>1, <3>1
    <3> QED BY <3>2
  <2>4. /\ x.rec \in Record /\ y.rec \in Record /\ MadeBy(x.by, x.rec)' /\ MadeBy(y.by, y.rec)'
    <3>1. ASSUME NEW z \in runs' PROVE z.rec \in Record /\ z.rec.whole
      BY <1>1, <3>1 DEF IInv, ReplayTypeOK, Run, RunsAreRemembered, EmittedPair
    <3>2. ASSUME NEW z \in runs' PROVE [z.rec EXCEPT !.whole = TRUE] = z.rec
      BY <3>1 DEF Record
    <3> QED BY <3>1, <3>2 DEF MadeBy
  <2>5. SessionsTakeTwoRunners'
    BY <2>1, <2>2, <2>3, <2>4 DEF SessionsTakeTwoRunners, ByTwoRunners, MadeBy
  <2>6. NoSelfVerification'
    BY <2>2 DEF NoSelfVerification
  <2> QED BY <2>5, <2>6 DEF Judged
<1> QED BY <1>2, <1>3, <1>4, <1>5
        DEF ReplayNext, Construct, RunAlone, Pair, RunReference, ReplayRaises

(* The invariant and what it gives for every verdict. *)
LEMMA Invariance == ReplaySpec => [](IInv /\ Judged)
<1>1. ReplayInit => IInv /\ Judged
  BY Initial DEF ReplayInit, Judged, SessionsTakeTwoRunners, NoSelfVerification
<1> QED BY <1>1, InvStep, VerdictStep, PTL DEF ReplaySpec

(* Type correctness of runners, sessions, verdicts and runs. *)
THEOREM TypeCorrect == ReplaySpec => []ReplayTypeOK
BY Invariance, PTL DEF IInv

(* replay_session.py: what a session compares are runs of its two runners,  *)
(* however sessions and runs interleave.                                    *)
THEOREM TwoRunnersPerSession == ReplaySpec => []SessionsTakeTwoRunners
BY Invariance, PTL DEF Judged

(* model_runner.py: a runner refuses every pair of records it made itself.  *)
THEOREM NobodyVerifiesItself == ReplaySpec => []NoSelfVerification
BY Invariance, PTL DEF Judged
=============================================================================
