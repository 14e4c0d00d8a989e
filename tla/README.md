# V91: formal models, model checking and proofs

This directory holds TLA+ models of the V91 core system, the TLC configurations
that check them on small instances and TLAPS proofs of what matters most for
every instance. File names such as `worker.py` mean `controller/worker.py` in
the repository unless a directory is given.

- [The system](#the-system): its parts, their state and operations, how they interact, what is hard
- [Modules](#modules): which module models what
- [Runs](#runs): what each TLC run asks, with its bounds
- [Fairness](#fairness), [Proofs](#proofs)
- [Divergences](#divergences-between-the-code-and-what-is-said-about-it)
- [Not modelled](#not-modelled) and [the plan](#plan)

## The system

V91 is a set of small Python programs that share files. There is no server and
no message bus: interaction is through directories, JSONL files, lock files, a
SQLite or PostgreSQL database, the Docker CLI, and calls inside one process.

| Part | State | Operations | Correct when |
|---|---|---|---|
| Workers, `worker.py` | the directories pending, processing, done, failed; result files; each worker's position in `process_one` | `claim_one`, `validate_task_envelope`, `execute_task`, `atomic_result`, the failure handler | a task has one worker; a file in done/ has its own completed result and its events; results are final; without faults every task settles |
| Action log, `append_audit` in `runtime_control.py` | `v91-actions.jsonl`, its lock file | one append under O_EXCL, never waiting | one live writer at a time |
| Host-side controller, `runtime_control.py` | the service's replica count (in Docker), `low_resource_samples` in the state file, one cycle's snapshot and decision | observe, decide, persist, log, scale, check, roll back | moves are logged first, permitted, one step, in 1..3; three low samples before a scale-down; the log tells the replica count |
| Lease lock, `lease_lock.py` | leases and last token per lock, a monotonic clock | `acquire`, `renew`, `release`, `validate_action`, `is_fenced` | an old holder never acts while another's lease is in force; late writes lose |
| Interop listener, `v91_listener.py`, `data/init_listener_db.sql` | inbox directory, three event tables and an audit table | `watch_inbox`, `process_file`, `_already_recorded`, `safesignal_check`, `_quarantine_file` | one outcome per event; what was read is not unlinked before it is recorded; a bad file does not stop the others |
| Stewardship ledger, `ledger.py` | a JSONL hash chain, cached head and number, a thread lock | open (verify, read head), `append`, `verify_chain` | a returned record stays; the chain survives crashes; edits show |
| Measurement ledger, `measurement_core.py` | a JSONL hash chain and a lock file | `append_snapshot`, `verify_ledger` | as above, among processes; never appends to what does not verify |
| Observer and dashboard, `observer.py`, `scripts/v91_dashboard.py` | a published status file | read four directories and the log, write atomically | a status OBSERVED overlooks no task and agrees with the log; it is never half written |
| Stewardship gate, `enforcement.py` | a hysteresis flag in memory | `evaluate`, one ledger append | an approval on record goes back to a high score on record |
| Impact, report, CLI: `impact.py`, `stewardship_report.py`, `v91_cli.py` | none of their own | `compute_impact`, `record_impact`, `summarize`, `verified_summary` | what is counted was verified |
| Peer registry, `peer_sync.py` | last sequence number, last acceptance and status per peer | `receive`, `receive_and_track`, `mark_unseen_stale` | a number counts once; only the peer's own key moves it; who is alive was heard of recently |
| Peer object stores, `peer_store.py`, `encrypted_store.py` | objects by digest, a nonce for each encrypted one, keys | `store`, `is_available`, `retrieve` | while an object is available, every receipt given for it is good |
| Signed records, `signed_manifest.py`, `crypto_receipts.py`, `trusted_peer_registry.py` | none after construction | sign, verify, look up | only trusted keys verify |
| Model runs, `model_runner.py`, `replay_session.py`, `model_run_manifest.py` | pairs of digests a runner has produced, the two runners of a session | `run`, `verify_independent_replay`, `verify_exact_replay`, `execute` | nobody verifies their own runs; a session compares two runners; verdicts say what the runs did |
| Model gate, `model_gate.py` | none | `evaluate_server_model` | fail-closed |
| Resource admission, `resource_admission.py` | none | one measurement, one decision | fail-closed; never admits more than was measured |
| Simulated control plane, `controller.py`, `anomaly.py`, `feedback.py` and the metrics modules | windows of samples | simulate, score, propose | proposes and never acts |
| V99 agent cycle, `v99/core`, `v99/agent_shim.py`, `main.py` | registry, the running cycle, history, last run | `register`, `inspect_all`, `prepare_repairs`, `execute_safe_repairs`, `run_cycle`, `due` | only a module's own safe repairs are executed; unknown never passes for healthy; the history is true |
| V99 keys, `v99/security` | secrets in memory or in files, a provider's keys | `rotate_key`, `store`, `activate` | no key is revoked before its replacement is stored; a stored secret works |
| V99 backup, `v99/recovery` | backup files under numbered names, digests | `create_backup`, `restore_backup` | a backup is never overwritten; a restore that succeeded restored what was certified |
| V99 filter and services, `v99/filter`, `v99/os` | none | classify a source, check unit files | nothing is accepted without trust and evidence |
| Global guard and guardrail, `global_guard`, `addons/v91_guardrail` | none (an audit list) | `authorize_action`, `evaluate`, `GuardedToolRunner.run` | fail-closed; no tool runs past a block |
| Validators, `legacy_gate.py`, `v91_guideline_hash.py`, `v91_state_check.py` | none | validate one document | fail-closed |
| Deployment | `docker-compose.yml`, scripts, schemas | restart: always; scripts that submit tasks | – |

How they interact, as far as state goes:

- Workers, the host-side controller and anybody who runs it a second time append
  to **one action log** under **one lock file**. `append_audit` does not wait:
  whoever finds the lock file gets an exception, and what that exception does is
  decided by each caller. This is why `AuditLog` is a module that both
  `WorkerQueue` and `RuntimeControl` extend.
- The controller changes the number of workers; Docker restarts workers that die.
- The stewardship gate, impact accounting and the CLI all write through `ledger.py`.
- The reports of `stewardship_report.py` and `v91_cli.py` verify the ledger file
  and read it a second time, while others append. `StewardshipGate` has the gate,
  the impacts and these readers on top of `Ledger`.
- The observer reads what workers and controller write.
- The other parts share nothing: each is called by its user and keeps its own state.

What is hard: nothing waits for a lock, so contention is a failure; claims rely
on renames of stale listings; exceptions cross several steps that already had
effects; processes die between any two file operations; files are cut short by
power failures; heads and counts are cached or read early and used late; and
there may always be a second instance of every program. `PROJECT.json` lists
these hazards line by line, with the properties that cover them.

## Modules

`PROJECT.json` maps every definition to its lines of code. Definitions marked
"variant" in a comment are wrong on purpose: putting one in the place of the
definition it stands next to makes the property named with it in `PROJECT.json`
fail, which shows that the property depends on that line of the code.

### AuditLog, WorkerQueue, TaskQueue

`AuditLog` has the action log and the lock file: opening (`LockOpens`,
`LockRefused`), the end of an append (`EventAppended`, `AppendRaises`), death
inside it (`DiesAppending`) and the operator who removes a dead process's lock
file. An event is a pair of phase and subject; the log is a set because no
property depends on the order of events of different tasks. An event counts when its
bytes are in the file, also when they follow the end of a line that an earlier failure
cut short, where no reader can parse them; only the observer's model tells that apart.

`WorkerQueue` adds worker processes. One step is one file-system call. `pc` is
the position in `process_one`, `cur` the local variable `task_path`, `listing`
the rest of the sorted listing `claim_one` walks through. `place`, `result` and
`whole` are the files: which directory, what is in the result file (`partial`
while its content is unconfirmed), and whether the producer is done writing.
The `Handler` and `Destination` tables say where an exception at each step goes:
into the handler (`raise`, which tries to publish a failure result, then
`report`) and finally to `retire`, the last rename. A claim whose rename raises anything
but a missing or an existing file (`ClaimRaises`) goes nowhere: the worker lists again
and meets the same name first. What a task computes is only
whether it succeeds; `Doc` says whether the document is valid, invalid, valid
with a file that cannot be read, or named after a bad task id. Two files may
share a task id because the id is the part of the file name before the first dot.

`TaskQueue` is what a client may rely on: each task is taken by one owner and
ends in done or failed or is lost with its owner; an outcome is published once.
`WorkerQueue` implements it with `owner` mapped to the live worker that holds
the task and `outcome` to the completely written result.

### Observer

`Observer` extends `WorkerQueue` with the observer's loop, which takes no lock:
it lists pending, processing, done and failed one after another, checks each
listed name again with `is_file`, reads the log and replaces its status file.
`stage`, `listed`, `counted`, `events` and `witnessed` are the local variables of
`snapshot` and what it calls; the published numbers are the sizes of the sets
`counted`. A line of the log that is being appended, or was cut short, may or may
not parse; if not, the status is `PENDING_WITNESS`. `present` is a history
variable: the tasks in the queue when the snapshot began. The four directories always
exist, since whoever starts creates them and nothing removes them; the observer would
count a missing one as empty.

### RuntimeControl

One controller cycle is: snapshot, `decide`, write the count of low samples,
append DECISION, scale, post-check, append VERIFY, and, on any exception after
the decision, roll back, check again and append what came of it. `seen` and
`plan` are the cycle's local variables, so acting on stale information is part
of the model. Docker commands may fail after doing all, some or none of their
work. A timeout ends the CLI and not what it has asked the daemon for, so `late` has
the counts that given-up commands, or those of a controller that died, still work
towards: they may arrive at any later time (`LateEffect`), after the post-check and in
later cycles included. Containers may stop; the load changes at any time; the operator
may scale by hand; a state file that cannot be read counts as zero low samples
(`CountRead`). The load is one of three bands because `decide` compares CPU and memory
with two thresholds. Only the events of each controller's current cycle are kept
(each cycle has a fresh event_id). `streak` is a history variable: how many low
samples in a row were recorded since the last scale-down decision. `moved` is
one too: whether the operator or a late command changed the count since a controller
last looked at it.

### LeaseLock, FencedLock

All methods of `LeaseLockManager` with an injected clock; `Tick` is the clock.
`granted` remembers every grant so that holders can come back with old ones, and
`written` the last write the guarded resource accepted, the resource being the
caller of `is_fenced` the docstring describes. `FencedLock` promises that a
grant is in force for one holder at a time, that numbers only rise and that no
grant comes back; the lease manager implements it with expired leases mapped to
no grant.

### Listener, EventIntake

`Listener` has the polling loop and the pipeline of `process_file` up to the
unlink, one step for each access to a file or to the database. An event stands
for its event_id. `Kind` says how the pipeline finds the document: not UTF-8,
not JSON, impossible to encode canonically, with a signature that `compare_digest`
refuses, rejected by `safesignal_check`, rejected by `validate_payload`, below the
confidence threshold, or fine. The first, third and fourth make `process_file` raise on
every poll. The freshness check compares with the wall clock,
which `SetClock` moves in both directions. Producers move whole files into the
inbox (`Submit`) or, for the documents in `InPlace`, create and fill them there
(`Open`, `Finish`), which is what the quickstart document does; under any name, also
one whose file a listener has in hand. `faulty` says
whether crashes and errors are still possible.
`EventIntake` promises one outcome per event, one it deserves.

### HashChain, ChainFile, Ledger, MeasurementLedger, AppendOnlyLog

`HashChain` is the file format both ledgers use. A hash is identified with what
it covers, the sequence of numbers and payloads up to that record; this is the
only assumption made about SHA-256 (no collisions). `Fits` is the comparison the
verifiers make for one line, `Verdict` the result of verification, `WithLine`
what writing a line does to a file that may lack its last newline.

`ChainFile` is that file under appends that may be interrupted: a line written
(`WriteLine`), an fsync, a write cut off (`HalfWrite`) and a power failure, which keeps
what an fsync covered and of the rest any beginning (`FilePowerLoss`). It states what
both ledgers promise to the callers of append, `ReturnedStays` and the refinement of
`AppendOnlyLog`, in one place; both extend it.

`Ledger` has `HashChainLedger` objects, each in its own process, and threads
that append through them; opening takes two reads, appending three steps.
`MeasurementLedger` has `append_snapshot` called by any number of processes,
with its lock file. The constant `Faults` chooses what may go wrong: death of a
process, power failures that cut off what was not fsynced, I/O errors, cuts
that take the newline only, and edits by somebody who does not recompute hashes.
Both implement `AppendOnlyLog`: payloads are added one at a time, and what was
promised stays.

### StewardshipGate

The gate of `enforcement.py`, `record_impact` and the two reports, over `Ledger`.
`active` is the gate's flag, which moves when the decision is made; `decided` is the
decision a thread carries into `append`, where another thread may be at that moment.
A crash or a power failure takes both. `report` is a reader: what `verify_chain` has
read, and what the second reading counted. A line that is being appended may be seen in
part, by either reading (`Seen`); a file that does not exist yet is valid to the first
and makes the second raise. Scores and human impacts are hundredths.

### PeerSync

`PeerSync` has the in-memory registry of `peer_sync.py`, the nodes that call
`create_heartbeat`, and a transport without memory: any heartbeat that was ever
signed may arrive at any time, any number of times, and so may anything nobody
signed, which the registry refuses. `last`, `shown` and `acceptedAt` are the
registry's three dictionaries. A heartbeat is peer, key, number and stamp; a
signature verifies when some node signed exactly that content with that key.
Nodes may be set up with a peer id that does not belong to their key, may count
from one again, and have clocks of their own; the receiver's clock may be set to
any reading. `taken` is a history variable: how often each number was used.

### ObjectStore

The plain and the encrypted store of a peer. `entries` is the dictionary of each, by
digest; a digest is what was hashed, a ciphertext its nonce and content. An entry may
be damaged at any time, and a restart begins empty with the same keys. `receipts` are
all receipts ever given. A signed receipt is redeemed with the public key inside it,
under one of two names; `SignatureHolds` is what `verify_record_signature` makes of it.

### Gates

Ten functions that answer one request: resource admission, `authorize_action`, the
guardrail's `evaluate` and `GuardedToolRunner.run`, the model gate, the legacy gate,
the source filter, `verify_manifest`, `resolve_trusted_ed25519_key` and the verdict of
`compute_impact`. Each is the list of its checks in the order of the code (`FirstOf`).
A caller asks again and again with one field changed (`Ask`). `Worse` orders the values
of each field: more asked for, less evidence, a stricter policy, a malformed value. It
leaves the capacity of the host out, because of the quota; see
[below](#divergences-between-the-code-and-what-is-said-about-it).

### ModelReplay

`ModelReplay` has runners (`pinned` and `_emitted`), `TwoNodeReplay` sessions and
the comparisons anybody may ask of any runner. A record is conditions, input and
output, and says nothing about who made it; this is the point of the model.
`whole` is FALSE of a copy that no longer passes `validate_run_manifest` because a field
other than the digests of input and output was lost or changed. A copy without one of
these makes `produced_here` raise; one with another digest is nobody's own and makes the
comparison raise. Neither gets a verdict, and both are left out.
Inference answers what it likes, so the same input may give another output.
`execute` takes two steps, one for each run, since sessions share runners and the
second run may raise. `runs` is a history variable: who made which record.
`verdict` is what the last call returned.

### V99Cycle

One cycle of `v99/core/scheduler.py` and `v99/core/agent.py`: every call of an
adapter is a step, and modules are registered and time passes between them.
Adapters report and propose what they like, also in another module's name;
whatever raises inside `inspect_all`, `prepare_repairs` or an execution is caught
there, and what raises elsewhere (`Raises`) ends the cycle with what it has done so far.
`asked` says whether the caller asked `due()`, which `run_once` does not. The
order of modules is that of their ids. The clock does not go back here.
`inspected`, `vouched`, `offered`, `applied`, `begun` and `recorded` are history
variables.

### KeyRotation, Backup

`KeyRotation` is `rotate_key` step by step over a store in memory or in a file, which
is emptied and then written. The provider numbers its keys; a call of it that raises
may have been carried out. The process may die between any two steps, and somebody
rotates again. `secret` is what the store holds: whole, cut short, empty or nothing. A
power failure is not modelled: `FileSecretStore` never syncs, so that after one a file
may be empty, or have the old secret again whose key is revoked by then.

`Backup` is `create_backup` and `restore_backup`. A copy empties its target and then
fills it; either process may end in between; the source is written and backups rot at
any time. A digest is the content it was taken of. There is one creator and one
restorer at a time.

## Runs

Parts that share no state are checked in one run, one part per behaviour (`part` in
`MCPeers` and `MCV99`): the runs of `peers` and `v99_parts` are unions, not products.

Deadlock is not checked where a bound stops the system (the clock, the number of
tokens, lines or edits) or where it may really stop (all tasks settled, all
controllers exited); the runs of the listener, the observer and the peers
check it. Constants not named below are in the `.cfg` files.

| Run | Asks | Instance and why it is enough |
|---|---|---|
| `worker_faults` | `DoneIsWitnessed`, `CompletionIsTrue`, `StartedWasValid`, `ResultsAreFinal`, `ImplementsTaskQueue`, `EveryTaskSettles` | two workers, another user of the log, two files with one id, one of them invalid; crashes and I/O errors everywhere. Two workers and a shared id give every conflict about a file, a result or the lock |
| `observer` | `NothingOverlooked`, `DoneIsInTheLog` | an observer, two workers, another user of the log and one task, all faults. The properties speak of one task at a time, and every place a task can move to between two readings occurs |
| `control_faults` | `LogMatchesReplicas`, `ThreeLowSamples`, `OnlyLoggedSteps`, `CapacityFollowsLoad` | one controller, a worker using the log, all faults, commands that arrive at any time after they were given up, and an operator who scales to any count from 0 to 4 between any two steps; 1..3 replicas are the code's own bounds |
| `lease_locks` | `LateWritesLose`, `ImplementsFencedLock` | two locks, two holders, durations 1 and 3, 5 clock readings, 3 grants per lock: a lease may expire, be released or be renewed past another's expiry, and a third grant follows |
| `listener_faults` | `OneOutcome`, `ImplementsEventIntake`, `InboxDrains` | one listener, two names, and four documents that go to three tables or make `process_file` raise, one of them written in place; every fault. The stamps are 0 and 1 and the window has width 0, so that at the clock readings 0 and 1 one kind of document is too early or in time and the other in time or too late |
| `listener_overlap` | `OneAcceptance`, `EventIsKept` | two listeners on one inbox of two names, three documents, one of which is written in place, every fault. The properties speak of one event at a time and of the files of one listener that another touches, so that a third listener adds nothing; the theorems are about any number |
| `gate_faults` | `OnlyTheTailIsTorn`, `ApprovalsAreGrounded`, `ReportsAreVerified`, `RaisesOnlyMeanwhile`, `ImplementsAppendOnlyLog` | one ledger object with a deciding thread and one that records impacts, a report, inputs on both sides of each threshold, crashes and power failures, up to three lines: a decision and its forgetting, then an append and a report that straddles it, sees half of its line or finds no file |
| `ledger_edits` | `TamperIsEvident`, `HeadCommitsToHistory` | two objects that know nothing of each other, every fault and one edit; files of up to three lines arise, so that lines can be swapped, copied and removed at both ends and in the middle |
| `ledger_restart` | `ResumesAfterRestart` (violated) | one object, I/O errors only |
| `measurement_faults` | `MeasurementsAreChained`, `FailClosed`, `ImplementsAppendOnlyLog` | three processes, up to 5 lines, crashes, power failures, I/O errors, stale lock files |
| `peers` | `CountedOnce`, `AliveIsRecent`; `AvailableIsRetrievable`; `NoSelfVerification`; `RefusalsStay` | two peers with a key each, an unknown key, a node with somebody else's key; numbers 1 and 2, five clock readings around a window of one, three signed heartbeats that may arrive any number of times. A plain and an encrypted store, one object (objects do not touch each other), two owners, three encryptions and three lives. Three runners, so that one has made neither of two records; one session, whose runners also run alone; conditions with and without sampling, one input, two outputs, three different runs, and whole and damaged copies of their records. Every gate with up to four fields unlike a request that is granted, so that any two reasons for a refusal meet |
| `v99_parts` | `OnlyOwnSafeRepairs`, `HistoryIsTrue`, `HealthIsVouchedFor`; `StoredKeyWorks`, `RevokedAfterReplaced`; `BackupsAreProof` | two modules, so that one can speak for the other; they report HEALTHY or FAILED, and the other statuses are left to the theorem `HealthStaysVouchedFor`; three cycles with a history of two, so that it is trimmed; two clock readings and an interval of one, so that of any two cycles the second may be too soon or just due. Four keys: three rotations, each of which may fail anywhere before the next. Three backups of a file with two versions |

Properties that only support a proof, or that another one implies (`Custody`,
`LockDiscipline`, `CountIsEarned`, `LeaseIsNewest`, `NoResurrection`,
`ObserverTypeOK`, the `TypeOK` of every module, `OneWorkerPerTask`, `OthersAreFenced`,
`SessionsTakeTwoRunners`, and `ReturnedStays` and `CacheIsTrue` of the
ledgers), are stated in the modules and can be
added to the INVARIANTS or PROPERTIES of the configuration of their module. All
are proved.

Some properties hold only under conditions, which the constants of the runs set or
the properties themselves state:

- `LogMatchesReplicas` needs a single controller and speaks of the time until the
  operator or a given-up command moves the count after the controller's last look
  (`moved`): what happens before that look the post-check notices, what happens after
  it nobody does.
- `CountIsEarned` and `ThreeLowSamples` need a single controller, since two read
  and write one count. They speak of the samples whose count reached the state
  file: if the file cannot be written, the sample is lost whichever way it went.
- `CountedOnce` speaks of one life of the registry, which forgets its numbers when
  its process ends. What remains then is `AliveIsRecent`.
- `OneOutcome` and `ImplementsEventIntake` need one listener. With two, an event can be
  in the quarantine and in the ledger; what remains is `OneAcceptance`.
- `EventIsKept`, for any number of listeners, has an exception that the code needs: an
  unlink removes whatever has the name by then. A file that takes a name while the file
  before it is in a listener's hands is lost unread (`Overtook`), and a producer may of
  course replace a file itself (`Displaced`). Without the exception the statement is
  `MovedInIsKept`, and for documents written in place `WrittenIsKept`; both are false,
  see [below](#divergences-between-the-code-and-what-is-said-about-it).
- `InboxDrains` speaks of the documents on which `process_file` does not raise.
- `OnlyTheTailIsTorn`, `ReturnedStays` and `CacheIsTrue` of `Ledger` need one
  object per file, because nothing but a lock inside the process orders the
  appends, no failing writes (`ledger_restart`), and no fault that cuts off the newline
  of a record alone, after which the next record is written onto the same line. The
  last is needed for the properties of `MeasurementLedger` as well, but `FailClosed`.
- `ApprovalsAreGrounded` needs one deciding thread and no failing writes, for the flag
  moves before `append`: two threads may append in the other order, and a decision
  whose append raises is forgotten by the file but not by the flag. A command of
  `v91_cli.py` makes a new gate each time, so its flag is never set when it matters.
- `TamperIsEvident` speaks of the edits that touch what a hash covers: a line changed,
  removed, swapped, overwritten with another or destroyed. A blank line, or a key that no hash covers, changes
  no record and is not noticed; such edits are not in the model.
- `ReportsAreVerified` speaks of reports that are given. Where the second reading
  raises there is none, and `RaisesOnlyMeanwhile` says when that may happen.
- `AvailableIsRetrievable` speaks of unsigned receipts and, for encrypted stores, of
  those given since the last restart, after which a re-stored object has a new nonce.
- `RefusalsStay` speaks of the fields `Worse` orders.
- `StoredKeyWorks` and `RevokedAfterReplaced` need one rotation at a time;
  `BackupsAreProof` needs one creator at a time, since the free name is looked up
  before the copy and two creators may look up the same one.
- `HistoryIsTrue` needs a clock that does not go back between two cycles.
- `HealthIsVouchedFor` needs reports whose status is a member of `Status`; see
  [below](#divergences-between-the-code-and-what-is-said-about-it).

## Fairness

- Workers: weak fairness of each worker's own steps and of its restart. The loop
  in `main` polls for ever and `docker-compose.yml` says `restart: always`.
  Producers, other users of the log, crashes and the operator owe nothing. The
  lock's other users need not even finish: `append_audit` never waits for them.
  `EveryTaskSettles` assumes that from some time on workers no longer die, that
  `pending` can be listed, and that the claims of the task's own name and of those
  before it stop raising, since such a name keeps all later ones waiting. Before that,
  and for lock files, contention and errors of any other file access, nothing is assumed.
- Controllers: weak fairness of a running cycle, each command having a timeout,
  and of the next cycle after a sleep (`--watch`). Nobody has to start a
  controller that has exited. `CapacityFollowsLoad` speaks of behaviours in which
  the load stays in one band and, from some time on, the operator leaves the count
  alone and within 1..3, the state file can be read and no cycle ends in an error or a
  rollback; it says that the count then really arrives at the bound.
- Listener: weak fairness of its steps, and of producers finishing a file.
  `InboxDrains` assumes that faults end (`Recover`); producers, the clock and
  documents that raise on every poll may go on for ever.
- The lease manager, the ledgers, the gate, the peer's parts, the runners and the parts
  of V99 do only what their callers ask; only safety is claimed.

## Proofs

The proofs are in `*_proofs.tla`, for every value of the constants. They assume
the named ASSUMEs of the modules, which say that constants have the expected types
(bounds are natural numbers, tables are functions on the sets they are about) and that
marker values, such as `NoThread` or `Garbage`, are not in the sets they mark. A
condition beyond that is a hypothesis of the theorem that needs it, and named in it.
Each proof follows one scheme: an invariant `IInv` with `Init => IInv` and
`IInv /\ [Next]_vars => IInv'`, one step per action, and the properties as
consequences.

- **WorkerQueue_proofs**: `IInv` adds to the properties `Custody`, which says
  what a worker's position means for its task: after `validate` the claim is
  logged, while writing a result the partial file is its own, before the last
  rename the result is complete and logged. Without it "the result of a file in
  done/ is its own" is not inductive, since another worker with the same task id
  might be about to write. Proved: type correctness, exclusive claims, the lock,
  the four truths about done/, log, starts and results, and the refinement of
  `TaskQueue`; for any number of workers, tasks and ids, with all faults.
- **The observer**, also in `WorkerQueue_proofs`: on top of the invariant of the queue and the two facts that
  a task goes through the directories in one direction and that the log grows. A
  task of the beginning is counted or still ahead of the reader (`Found`), what
  was counted as done stays done (`SettledStay`), and the log is read last
  (`LogIsLast`); so a status OBSERVED overlooks nothing and counts nothing as
  done without its events, for any number of workers and tasks.
- **RuntimeControl_proofs**: `IInv` adds `PlanOK`, which says what plan and
  snapshot a controller in each position has. Proved for any number of
  controllers: types, the lock, `OnlyLoggedSteps`. Proved for one controller:
  `CountIsEarned`, `ThreeLowSamples` (under every fault) and
  `LogMatchesReplicas`, the last from an invariant (`Tracked`) that says what the
  replica count is at each position of a cycle, as long as nobody, a late command
  included, moved it after the last look.
- **LeaseLock_proofs**: `LeaseIsNewest` and that a number is granted once per
  lock are inductive; fencing, late writes, no resurrection and the refinement
  follow. Any locks, holders, durations; the bounds on clock and tokens play no
  part.
- **Listener_proofs**: for any number of listeners `OneAcceptance`, from the
  UNIQUE constraints and from the fact that an event is either risky or plain, and
  `EventIsKept`, from the fact that a listener about to unlink has a document that is
  recorded (`Committed`), so that an unrecorded one it removes is another than the one
  it read. For one listener, whatever producers do, `OneOutcome` and the refinement,
  from an invariant that says which document the listener has in hand at each step.
- **Peers_proofs**, `PeerSync`: numbers above the last one are unused, the last number of a
  known peer has a heartbeat its own key signed, and whoever is alive was accepted
  within the window of that heartbeat's stamp; replay and recency
  follow, for any peers, keys, windows and clocks.
- **ModelReplay_proofs**: every pair a runner ever produced is remembered by it, and
  a session inside `execute` holds the record of a run its reference runner made
  under its pinned conditions. For any number of runners, sessions and runs nobody
  judges two records of its own, and sessions compare two runners.
- **Peers_proofs**, `ObjectStore`: an entry of this life keeps the nonce its receipts
  name, and its content up to damage; from this follows `AvailableIsRetrievable`.
- **Ledger_proofs**, the file: `FileOK` says that the records of the file verify one
  after the other, that no more than a line cut short follows them, that an fsync has
  covered what was promised, and that the promised hash is that of a record. It is
  preserved by a written line that continues the last record (`LineWritten`), by an
  fsync, by a half line and by every cut of a power failure, and each of these is a
  step of `AppendOnlyLog` or none. `LedgerInv` and `MeasurementInv` add what ties a
  writer to the file: the cached number and head outside `append`, the record in hand
  inside it, or, for measurements, that the lock file names the only process that has
  verified. Without the record in hand the chain is not inductive. The length of a
  file has no bound; where an argument goes along the file (`HeadCommitsToHistory`,
  `TamperIsEvident`), it looks at the *first* line at which a statement would fail,
  which exists because the numbers are well ordered.
  - For any number of objects, every fault and every edit: types,
    `HeadCommitsToHistory`, `TamperIsEvident`. They are facts about a file that
    verifies, however it came about.
  - For one object per file (`OneObject`) and no failing writes (`StopsOnly`: crashes
    and power failures that never cut the newline alone): `OnlyTheTailIsTorn`,
    `ReturnedStays`, `CacheIsTrue` and `ImplementsAppendOnlyLog`. Both hypotheses are
    needed: nothing in the code orders the appends of two objects; after a write
    that raised the properties are false, which the run `ledger_restart` shows; and a
    record without its newline verifies, so that the next one is written onto its line.
  - For the gate under the same hypotheses the same, and for its readers
    `ReportsAreVerified` and `RaisesOnlyMeanwhile`, from an invariant that says that the
    file a reader has verified is still whole and has at least the lines it had (`ReportInv`); with
    one deciding thread (`OneDecider`) `ApprovalsAreGrounded`, whose invariant
    (`GroundedInv`) says what the flag in memory owes to the records in the file and
    to the decision in hand: a crash may lose the decision, but then the flag as well.
  - For any number of measuring processes: `FailClosed` under every fault, and, if no
    fault takes a newline alone (`"bare" \notin Faults`),
    `MeasurementsAreChained`, `ReturnedStays`, `AppendedIsChained` and
    `ImplementsAppendOnlyLog`, failing writes and stale lock files included. With
    `"bare"` they are false; see [below](#divergences-between-the-code-and-what-is-said-about-it).
- **V99_proofs**, keys and backups: the newest key is always valid, a rotation has it
  in hand, and from `activate` on it is in the store whole; a backup under way has a
  path no result has, and a restore under way compares with the digest of some result.
  From these follow `StoredKeyWorks`, `RevokedAfterReplaced` and `BackupsAreProof`.
- **V99_proofs**, the agent's cycle: a proposal that waits was offered in this cycle by
  the module it is for (`OnlyOwnSafeRepairs`). For `HistoryIsTrue` the invariant adds
  that a stamped result ended no later than the last run, and that a cycle that asked
  `due()` began an interval after every stamped one. For `HealthIsVouchedFor` it says
  that past the inspection every module inspected has a report, and a healthy report
  only by its own word; the theorem needs `KnownStatuses`, that reports have a status
  of class `Status`, without which the property is false.

Not proved, only checked by TLC: the liveness properties (`EveryTaskSettles`,
`CapacityFollowsLoad`, `InboxDrains`), since reasoning about fairness needs
ENABLED; and `RefusalsStay`, whose checks are a case split over ten functions that TLC
does better.

## Divergences between the code and what is said about it

One is a run that TLC finds violated; `PROJECT.json` quotes the lines.

- `ledger_restart`: after a failed append the ledger may accept appends that a
  restart then refuses to read.

Thirteen more claims do not hold. Their statements are in the modules; naming one as
the INVARIANT (or PROPERTY) of the configuration given here makes TLC print the
behaviour.

- `OnlyOwnPairsAreRefused` (`MCPeers_peers.cfg`): tests/test_model_runner.py:80,
  "own record against independent replay is allowed", expects VERIFIED_EXACT. But
  `produced_here` compares the pair of digests alone, so the matching record of
  another runner counts as the runner's own and the answer is
  SELF_VERIFICATION_REFUSED: a runner can only ever confirm that a replay differs.
  That test of the repository fails.
- `VerifiedMeansReplayed` (`MCPeers_peers.cfg`): model_run_manifest.py:112
  compares "two independently produced run records", but a record compared with
  itself is VERIFIED_EXACT for everybody except its maker.
- `HealthIsVouchedFor` with `Statuses = {"HEALTHY", "ODD"}` (`MCV99_parts.cfg`):
  v99/core/status.py:3 says that unknown is never treated as healthy, but
  `aggregate_status` passes over a string that is no member of `Status`, and the
  result beside a HEALTHY report is HEALTHY.
- `InvalidIsQuarantined`, a PROPERTY (`MCListener_faults.cfg` with `Faults` FALSE): docs/LISTENER-QUICKSTART.md:120 tests the quarantine with "a file with an
  invalid signature or malformed JSON", and tests/test_listener.py:268 says "A non-JSON
  file must be quarantined." For bytes that are not UTF-8 `json.loads` raises
  UnicodeDecodeError, and for a signature that is not ASCII `compare_digest` raises
  TypeError. `process_file` catches neither; the file stays and is tried again for ever.
- `AppendedIsChained` (`MCMeasurementLedger_faults.cfg` with `"bare"` among the
  `Faults`): measurement_core.py:171 returns "APPENDED_HASH_CHAINED", but if a power
  failure took only the newline of the last record, the append has written on the
  same line and neither record can be read.
- `EveryOutcomeIsAudited` (`MCWorkerQueue_faults.cfg`, also with `IOFaults` and
  `Crashes` FALSE): README.md:119 says a worker "records completion/failure in
  the shared audit log", but a task can fail without any outcome event in the
  log, because the lock file existed at the moment of the only attempt.
- `RollbackOnlyAfterFailedCheck`, a PROPERTY (`MCRuntimeControl_faults.cfg`, also
  with all faults FALSE): runtime_control.py:393 records with every decision
  "Restore worker replica count to {n} if post-check fails.", but a scaling whose
  post-check succeeded is undone as well when the VERIFY event cannot be appended,
  because a worker holds the lock file at that moment.
- `ReleasedTokenIsFenced` (`MCLeaseLock_locks.cfg`): tests/test_lease_lock.py:93
  says "released: lock is free, token still fenced for late writers", but the
  token is not fenced until the next `acquire`.
- `WrittenIsKept`, a PROPERTY (`MCListener_overlap.cfg`, also with `Faults` FALSE):
  docs/LISTENER-QUICKSTART.md:96 redirects the output of a program into the
  inbox; a poll that sees the file while it is still empty records and removes
  the empty file, and the event is lost.
- `MovedInIsKept`, a PROPERTY (`MCListener_overlap.cfg`, also with `Faults` FALSE):
  v91_listener.py:265 says of a file "keep it if durable recording fails". A file that a
  producer moves over a name between the reading of the old one and its unlink
  (line 345, or 368 in the quarantine) is removed unread.
- `VerifyNeverRaises` (`MCLedger_edits.cfg`): ledger.py:26 says of
  `verify_chain` that it "never raises on corrupt data"; a byte that is not UTF-8
  makes it raise.
- `SignedIsRetrievable` (`MCPeers_peers.cfg` with `Signing = {sealed}`):
  tests/test_encrypted_store.py:43-44 adds the public key to a signed receipt and
  retrieves the object, and encrypted_store.py:144 says "raw bytes, stripped before
  checking". Nothing strips it: `canonical_record_bytes` raises on the bytes of
  `_verification_key`, and `verification_key_hex` changes what was signed, so
  `verify_record_signature` is false and no signed receipt is ever redeemed.
- `SomeSecretStays` (`MCV99_parts.cfg`): key_rotation.py:29-32 says that `activate`
  tests the new connection and that otherwise the old key stays active ("keinAusfall").
  `FileSecretStore.store` empties the file first and `activate` looks at its size: a
  write that fails, or a process that dies in it, leaves no secret at all.

Further limits of the code, which the models show or respect, and which no run states:

- peer_store.py:86 calls storing the same bytes twice idempotent, but after damage
  `store` refuses the right bytes (`StorePlain`). `EncryptedObjectStore.store` gives a
  receipt for a damaged entry as if nothing had happened (`StoreSealed`).
- The quota of `resource_admission.py` is compared with what the host has, not with
  the request (`QuotaViolations`): a host with more than the quota admits nothing.
  Admission reserves nothing; two requests are granted on one measurement.
- `authorize_action` asks for human approval by class alone: a `read_only` request with
  `model_change` set needs none.
- In `evaluate` of the guardrail a topic flag is looked at before the permission to
  analyse, and turns a BLOCK into REVIEW_REQUIRED.
- A backup whose source changed during the copy is certified as it came out (`Mixed`),
  and an interrupted restore with `allow_overwrite` has destroyed its destination.
- In the legacy gate any value of `irreversible` but `true` counts as reversible.

## Not modelled

Cryptography, parsing and formatting are represented by their outcome. What a
worker task computes, the statistics of `impact.py` and the anomaly scores, which
are floating-point arithmetic, the patterns of the guardrail, the text of reports, the
syntax checks of `v99/os/services.py` and the validators of single documents are left
out: they keep no state and a unit test reaches them. The simulated control plane draws
random numbers in one thread and changes nothing. The deployment files are
configuration; what they start is in the models as external actions.
`PROJECT.json` lists every part with its status.

## Plan

Done: the parts in [Modules](#modules), in this order: the worker queue, the
controller, the lease lock, the listener, the two ledgers, the peer registry, the
observer, model replay, the V99 cycle, the stewardship gate and its reports, the object
stores, key rotation, backups, the gates.

Next, in order of weight:

1. Proofs of what remains true where a hypothesis of a theorem fails: two listeners,
   several controllers, an object whose append raised.
2. Controller and workers composed: scaling down kills workers with tasks in
   hand.
3. Two creators of backups, two rotations at a time.
4. The simulated control plane, whose scores are floating-point.
