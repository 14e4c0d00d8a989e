-------------------------------- MODULE Gates --------------------------------
(***************************************************************************)
(* The functions that answer one request without keeping anything: may     *)
(* work start, may an action be taken, may a tool run, is this model, this *)
(* change record, this source, this manifest, this key or this measured    *)
(* saving to be trusted.  A request, together with the policy and the      *)
(* evidence it is judged by, is a record whose fields have a few values    *)
(* each; a gate goes through its checks in order and answers with the      *)
(* first one that fails.                                                   *)
(*                                                                         *)
(* A caller asks a gate again and again, with one field changed each time. *)
(* What the gates have in common is that they are fail-closed: with less   *)
(* evidence, a stricter policy or a request for more, a refusal stays one. *)
(***************************************************************************)
EXTENDS Integers, Sequences, FiniteSetsExt, TLC

CONSTANTS GateNames, MaxChanges  \* the gates asked; bound: fields unlike Plain

None == -1      \* a number that is not given or was not measured
Yes == "true"   \* what "is True" accepts; "malformed" is any other value
Triple == <<"true", "false", "malformed">>

FirstOf(checks, granted) ==
    LET failed == {i \in DOMAIN checks : checks[i][2]}
    IN  IF failed = {} THEN granted ELSE checks[Min(failed)][1]

-----------------------------------------------------------------------------
(* ResourceAdmissionGate.request_admission.  The keys are cpu_cores, ram_mb *)
(* disk_mb and vram_mb, in this order.                                      *)
FRESHNESS == 1
Wanted(r) == <<r.cpu, r.ram, r.disk, r.vram>>
Measured(r) == <<r.has_cpu, r.has_ram, r.has_disk, r.has_vram>>
Quota(r) == <<r.max_cpu, r.max_ram, r.max_disk, r.max_vram>>

InvalidFields(r) == r.cpu <= 0 \/ r.ram <= 0 \/ r.disk < 0 \/ r.vram = 0
MissingFields(r) == \E k \in 1 .. 3 : Measured(r)[k] <= 0

(* The quota is compared with what the host has, not with the request.      *)
QuotaViolations(r) ==
    \E k \in 1 .. 4 : Quota(r)[k] # None /\ Measured(r)[k] # None /\ Measured(r)[k] > Quota(r)[k]
Deficits(r) == \E k \in 1 .. 4 : Wanted(r)[k] # None /\ Wanted(r)[k] > Measured(r)[k]

Admission(r) == FirstOf(<<
    <<"MALFORMED", InvalidFields(r)>>,
    <<"UNMEASURED", MissingFields(r)>>,
    <<"STALE", r.age > FRESHNESS>>,
    <<"QUOTA", QuotaViolations(r)>>,
    <<"VRAM_UNMEASURED", r.vram # None /\ r.has_vram = None>>,
    <<"INSUFFICIENT", Deficits(r)>> >>, "ALLOWED_LOCAL")

-----------------------------------------------------------------------------
(* authorize_action; one estimate stands for the four alike.                *)
NETWORK_CLASSES == {"network_read", "network_write"}
MUTATING_CLASSES == {"file_write", "network_write", "model_change", "production_change"}

(* A variant: a limit of zero is taken for none. *)
ExceedsIfLimited(r) == r.limit > 0 /\ r.estimate > r.limit
Exceeds(r) == r.estimate > r.limit

Authorization(r) == FirstOf(<<
    <<"INVALID_APPROVAL_FLAG", r.human_approved = "malformed">>,
    <<"INVALID_TEXT", ~r.texts>>,
    <<"UNKNOWN_ACTION_CLASS", r.class = "unknown">>,
    <<"PROHIBITED_ACTION_CLASS", r.class = "denied">>,
    <<"INVALID_BOOLEAN_FLAG",
      "malformed" \in {r.network_required, r.model_change, r.production_change}>>,
    <<"INVALID_RESOURCE_ESTIMATE", r.estimate < 0>>,
    <<"RESOURCE_LIMIT_EXCEEDED", Exceeds(r)>>,
    <<"CAPABILITY_NOT_GRANTED", ~r.capability>>,
    <<"NETWORK_DISABLED",
      (r.class \in NETWORK_CLASSES \/ r.network_required = Yes) /\ ~r.allow_network>>,
    <<"MODEL_CHANGE_DISABLED",
      (r.class = "model_change" \/ r.model_change = Yes) /\ ~r.allow_model_changes>>,
    <<"PRODUCTION_CHANGE_DISABLED",
      (r.class = "production_change" \/ r.production_change = Yes)
      /\ ~r.allow_production_changes>>,
    <<"HUMAN_APPROVAL_REQUIRED",
      r.class \in MUTATING_CLASSES /\ r.require_human /\ r.human_approved # Yes>> >>,
    "ALLOW_WITHIN_POLICY")

-----------------------------------------------------------------------------
(* evaluate of the guardrail, for a text that is empty, touches a topic or  *)
(* holds a risk cue, in a context the caller declares.                      *)
Blocks(r) ==
    \/ r.private_data
    \/ r.network /\ ~r.source_authorized
    \/ (r.destructive \/ r.execute_code) /\ ~r.approved
    \/ r.privilege_change
    \/ r.cue

Guardrail(r) == FirstOf(<<
    <<"BLOCK", r.empty>>,
    <<"BLOCK", Blocks(r)>>,
    <<"REVIEW_REQUIRED", r.topic>>,
    <<"BLOCK", ~r.allow_read_only>> >>, "ALLOW_LOCAL_REVIEW")

DefaultContext == [
    private_data |-> FALSE, network |-> FALSE, source_authorized |-> FALSE, destructive |-> FALSE,
    execute_code |-> FALSE, approved |-> FALSE, privilege_change |-> FALSE,
    allow_read_only |-> TRUE]

(* GuardedToolRunner.run judges the proposal in the default context.        *)
ToolRun(r) == FirstOf(<<
    <<"BLOCK_UNKNOWN_TOOL", ~r.registered>>,
    <<"BLOCK_UNSAFE_TOOL_SPEC", ~r.read_only \/ r.network_access \/ r.destructive>>,
    <<"BLOCK_POLICY",
      Guardrail([empty |-> r.empty, topic |-> r.topic, cue |-> r.cue] @@ DefaultContext)
      # "ALLOW_LOCAL_REVIEW">> >>, "CALLED")

-----------------------------------------------------------------------------
(* evaluate_server_model: metrics may be missing, safety may not.           *)
ServerModel(r) == FirstOf(<<
    <<"BLOCKED_UNAVAILABLE", r.available # Yes>>,
    <<"BLOCKED_UNAUTHORIZED", r.authorization_valid # Yes>>,
    <<"raised", r.safety_check = "malformed">>,
    <<"BLOCKED_SAFETY_FAILED", r.safety_check = "FAILED">>,
    <<"BLOCKED_SAFETY_UNKNOWN", r.safety_check = "UNKNOWN">>,
    <<"raised", r.metrics = "malformed">> >>, "ALLOW")

(* evaluate_record of the legacy gate.                                      *)
ChangeRecord(r) == FirstOf(<<
    <<"MISSING_FIELDS", ~r.complete>>,
    <<"MISSING_QUESTIONS", r.questions = "malformed">>,
    <<"UNAUTHORIZED", r.authorized # Yes>>,
    <<"REGRESSION_NOT_PROVEN", r.regression_ok # Yes>>,
    <<"LEGAL_REVIEW_MISSING", r.legal # Yes>>,
    <<"SAFETY_REVIEW_MISSING", r.safety # Yes>>,
    <<"ROLLBACK_MISSING", r.rollback # Yes>>,
    <<"INDEPENDENT_REVIEW_REQUIRED", r.irreversible = Yes /\ r.independent_review # Yes>>,
    <<"QUESTION_FAILED", r.questions = "false">> >>, "READY")

(* SourceTrustRegistry.classify: evidence is a list of references, of which *)
(* all or not all have the form of one, or none at all.                     *)
Source(r) == FirstOf(<<
    <<"QUARANTINE_LOCAL", r.trust = "BLOCKED_LOCAL">>,
    <<"REVIEW_REQUIRED", r.trust # "TRUSTED" \/ r.evidence = "none">>,
    <<"REVIEW_REQUIRED", r.validate_evidence /\ r.evidence # "references">> >>, "ACCEPT_LOCAL")

(* verify_manifest at time 1; a timestamp that cannot be parsed is a fault  *)
(* of the structure.                                                        *)
Manifest(r) == FirstOf(<<
    <<"MALFORMED_SIGNATURE", r.signature = "malformed">>,
    <<"MALFORMED_STRUCTURE", ~r.structure>>,
    <<"WRONG_SIGNATURE", r.signature = "false">>,
    <<"NOT_YET_VALID", 1 < r.issued_at>>,
    <<"EXPIRED", 1 > r.expires_at>>,
    <<"REVOKED", r.node_revoked \/ r.key_revoked>> >>, "VALID")

(* resolve_trusted_ed25519_key.                                             *)
TrustedKey(r) == FirstOf(<<
    <<"None", ~r.listed>>,
    <<"None", r.status # "active" \/ r.algorithm # "Ed25519">>,
    <<"None", ~r.decodes>> >>, "KEY")

(* compute_impact; DQI and noise in the unit of the saving.                 *)
MIN_SAMPLES == 5
Saving(r) == FirstOf(<<
    <<"raised", r.co2_factor /\ ~r.co2_source>>,
    <<"QUARANTINE", \/ r.n_baseline < MIN_SAMPLES \/ r.n_after < MIN_SAMPLES
                    \/ r.overlap \/ ~r.dqi_reached
                    \/ (IF r.saved < 0 THEN -r.saved ELSE r.saved) <= 2 * r.noise>>,
    <<"NO_IMPROVEMENT", r.saved <= 0>> >>, "VALID")

-----------------------------------------------------------------------------
Answer(gate, r) ==
    CASE gate = "admission" -> Admission(r)
      [] gate = "authorization" -> Authorization(r)
      [] gate = "guardrail" -> Guardrail(r)
      [] gate = "tool" -> ToolRun(r)
      [] gate = "server_model" -> ServerModel(r)
      [] gate = "change_record" -> ChangeRecord(r)
      [] gate = "source" -> Source(r)
      [] gate = "manifest" -> Manifest(r)
      [] gate = "trusted_key" -> TrustedKey(r)
      [] gate = "saving" -> Saving(r)

Grants == {"ALLOWED_LOCAL", "ALLOW_WITHIN_POLICY", "ALLOW_LOCAL_REVIEW", "CALLED", "ALLOW",
           "READY", "ACCEPT_LOCAL", "VALID", "KEY"}
-----------------------------------------------------------------------------
(* The values of each field.  The first is that of a request every gate     *)
(* grants; where the order of a field means something, each value is at     *)
(* least as demanding, or as little evidence, as those before it.           *)
Bools == <<TRUE, FALSE>>
Flags == <<FALSE, TRUE>>
Sizes == <<1, 2, 0>>
Limits == <<None, 2, 1>>
Hosts == <<2, 1, 0, None>>

Values == [
    admission |->
      [cpu |-> Sizes, ram |-> Sizes, disk |-> <<0, 1, 2, -1>>, vram |-> <<None, 1, 2, 0>>,
       has_cpu |-> Hosts, has_ram |-> Hosts, has_disk |-> Hosts, has_vram |-> Hosts,
       max_cpu |-> Limits, max_ram |-> Limits, max_disk |-> Limits, max_vram |-> Limits,
       age |-> <<0, 1, 2>>],
    authorization |->
      [class |-> <<"read_only", "file_write", "network_read", "network_write",
                   "model_change", "production_change", "denied", "unknown">>,
       texts |-> Bools, capability |-> Bools, require_human |-> Flags,
       human_approved |-> Triple, estimate |-> <<0, 1, 2, -1>>, limit |-> <<2, 1, 0>>,
       network_required |-> <<"false", "true", "malformed">>,
       model_change |-> <<"false", "true", "malformed">>,
       production_change |-> <<"false", "true", "malformed">>,
       allow_network |-> Bools, allow_model_changes |-> Bools,
       allow_production_changes |-> Bools],
    guardrail |->
      [empty |-> Flags, topic |-> Flags, cue |-> Flags, private_data |-> Flags,
       network |-> Flags, destructive |-> Flags, execute_code |-> Flags,
       privilege_change |-> Flags, source_authorized |-> Bools, approved |-> Bools,
       allow_read_only |-> Bools],
    tool |->
      [registered |-> Bools, read_only |-> Bools, network_access |-> Flags,
       destructive |-> Flags, empty |-> Flags, topic |-> Flags, cue |-> Flags],
    server_model |->
      [available |-> Triple, authorization_valid |-> Triple,
       safety_check |-> <<"VERIFIED", "UNKNOWN", "FAILED", "malformed">>,
       metrics |-> <<"present", "missing", "malformed">>],
    change_record |->
      [complete |-> Bools, questions |-> Triple, authorized |-> Triple,
       regression_ok |-> Triple, legal |-> Triple, safety |-> Triple, rollback |-> Triple,
       irreversible |-> <<"false", "true", "malformed">>, independent_review |-> Triple],
    source |->
      [trust |-> <<"TRUSTED", "UNVERIFIED", "BLOCKED_LOCAL">>,
       evidence |-> <<"references", "others", "none">>, validate_evidence |-> Flags],
    manifest |->
      [signature |-> Triple, structure |-> Bools, issued_at |-> <<0, 1, 2>>,
       expires_at |-> <<2, 1, 0>>, node_revoked |-> Flags, key_revoked |-> Flags],
    trusted_key |->
      [listed |-> Bools, status |-> <<"active", "revoked">>,
       algorithm |-> <<"Ed25519", "other">>, decodes |-> Bools],
    saving |->
      [co2_factor |-> Flags, co2_source |-> Bools, n_baseline |-> <<5, 4, 0>>,
       n_after |-> <<5, 4, 0>>, overlap |-> Flags, dqi_reached |-> Bools,
       saved |-> <<3, 2, 0, -3>>, noise |-> <<0, 1, 2>>]]

(* b instead of a is more to ask for, less evidence or a stricter policy.   *)
(* More capacity is neither, because of the quota, and a value of           *)
(* irreversible other than true counts as false.                            *)
Worse(gate, f, a, b) ==
    /\ f \notin {"class", "has_vram"}
    /\ f \in {"has_cpu", "has_ram", "has_disk"} => b = None
    /\ f = "irreversible" => b = "true"
    /\ \E i, j \in DOMAIN Values[gate][f] :
          i < j /\ a = Values[gate][f][i] /\ b = Values[gate][f][j]

VARIABLES gate, asked

Plain(g) == [f \in DOMAIN Values[g] |-> Values[g][f][1]]

GatesInit == gate \in GateNames /\ asked = Plain(gate)

Ask(f) ==
    /\ \E i \in DOMAIN Values[gate][f] : asked' = [asked EXCEPT ![f] = Values[gate][f][i]]
    /\ Cardinality({h \in DOMAIN asked : asked'[h] # Values[gate][h][1]}) <= MaxChanges
    /\ UNCHANGED gate

GatesNext == \E f \in DOMAIN asked : Ask(f)

GatesSpec == GatesInit /\ [][GatesNext]_<<gate, asked>>

Granted == Answer(gate, asked) \in Grants

(* "Fail-closed" (resource_admission.py:3-6, policy.py:4, model_gate.py:6-7 *)
(* and the other gates): whatever combination of facts a refusal rests on,  *)
(* asking for more, bringing less evidence, marking a value as malformed or *)
(* tightening a limit never turns it into a permission.                     *)
RefusalsStay ==
    [][/\ asked' # asked
       /\ \A f \in DOMAIN asked :
             asked'[f] = asked[f] \/ Worse(gate, f, asked[f], asked'[f])
       /\ Granted'
       => Granted]_<<gate, asked>>

=============================================================================
