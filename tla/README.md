# TLA+ verification of the autonomy stack

The repository plans missions with a language model, gates every planned action
through deterministic policy, executes the actions on a simulated or a remote
vehicle, and governs the credentials of the remote side with signed bundles.
This directory holds TLA+ models of that code, the TLC configurations that check
them on small instances, and theorems TLAPS proves about them for every value of
the constants. Paths below are relative to the repository root.

## The system

| component | source | state | operations | interacts with |
|---|---|---|---|---|
| data model, vehicle adapters | `src/autonomy/models.py`, `vehicle_adapter.py` | immutable `VehicleState` | `execute`, `supports` | transport (remote adapters) |
| safety kernel | `safety_kernel.py` | policy limits, fixed | `precheck`, `fallback_action` | called by the supervisor |
| mapping, localization, avoidance | `mapping.py`, `localization.py`, `obstacle_avoidance.py` | none | geofence and distance queries, `estimate`, `refine_action` | called by the supervisor |
| perception | `perception.py` | tracker's tracks and counter | `observe`, `validate`, `update` | telemetry source, supervisor |
| edge supervisor | `edge_supervisor.py` | mission state, events | `run_plan` | all of the above, adapters, audit log |
| command transports, ledger | `transport.py`, `ledger.py` | SQLite: keys, nonces, events; in memory: outcome window, cooldowns | `send_command` (HTTP, MQTT) | gateway over a lossy wire, key ring, pin set |
| mock gateway | `scripts/mock_vendor_gateway.py` | nonce counter | `do_POST` | transports |
| certificate pins, rollout guard | `cert_pins.py`, `transport.py` | pin file and its copy in memory | check, cutover, schedule, rotate, revoke, rollback | transports, bundle files |
| acknowledgement key ring | `keyring.py` | key file and its copy in memory | lookup, rotate, revoke | transports, bundle files |
| bundle updater | `bundle_updater.py` | state file (version, hash chain, approvals) | `apply_bundle_file`, `approve_canary` | key ring, pin and policy files, approval audit |
| approval audit | `approval_audit.py` | sealed hash-chained file | `append`, `verify_chain` | bundle updater |
| audit log | `audit.py` | hash-chained file, last hash in memory | `log` | supervisor |
| planners, verifier | `cloud_planner.py`, `hf_planner.py`, `plan_verifier.py` | none | `build_plan`, `verify` | application |
| application, benchmark, trace | `app.py`, `main.py`, `trace.py`, `replay.py`, `scenarios.py` | counters of a benchmark run, replay index | demo, benchmark, trace | everything |

What is hard about it:

- failure in the middle: an adapter can fail at every call, the fallback is
  executed by the same adapters, and each of six handlers in `run_plan` cleans up
  for itself;
- at-least-once delivery: requests and acknowledgements get lost, retries send
  again what may have been executed, late acknowledgements answer other requests,
  and processes die between the ledger's transactions;
- shared files: the ledger, the pin file, the key ring, the bundle state and the
  audit logs are shared between processes, most of them with a copy in memory;
- time: telemetry ages, idempotency keys expire, pins become valid and expire.

## Modules

| module | models |
|---|---|
| `VehicleModel` | actions, vehicle states, `SimVehicleAdapter.execute` |
| `SafetyKernel` | `precheck` and the mapping queries; extends `VehicleModel` |
| `Navigation` | frames, both localization engines, both avoidance planners; extends `SafetyKernel` |
| `Selection` | the elements of a sequence at chosen places, without recursion: what the proofs can follow |
| `EdgeSupervisor` | one call of `run_plan`; extends `Navigation` and `Selection` |
| `EdgeSupervisorProofs` | theorems about `EdgeSupervisor` |
| `CommandLink` | the abstract promise of `send_command` to its callers |
| `CommandTransport` | senders, ledger, gateway; instantiates `CommandLink` |
| `CommandTransportProofs` | theorems about types, nonces, idempotency keys, outcomes and delivery, and that `CommandTransport` implements `CommandLink` |
| `MissionLink` | `EdgeSupervisor` composed with the vehicle, the idempotency keys and late requests |
| `MissionLinkProofs` | theorems about the vehicle at the other end of the link |
| `CertPins` | the pin record of one vendor, as operators |
| `RolloutGuard` | processes that share a pin file, and the transport's automatic rollback; extends `CertPins` |
| `RolloutGuardProofs` | theorems about `RolloutGuard` and `AckGate` |
| `ApprovalAudit` | the hash chain of the approval audit, as operators |
| `Keyring` | the key record of one vendor, as operators |
| `AckGate` | the whole check of an acknowledgement: key ring, then pins and guard; extends `RolloutGuard` and `Keyring` |
| `BundleUpdater` | processes that install bundles and record approvals; extends `ApprovalAudit` |
| `BundleUpdaterProofs` | theorems about `BundleUpdater` |
| `Planners` | both planners, the repair of a language model's answer, the verifier; extends `VehicleModel` and `Selection` |
| `Scenarios` | the two trace scenarios; extends `Navigation` and `Planners` |
| `App` | demo, benchmark and trace: planners, verifier, `run_plan`, link and vehicle together; extends `MissionLink` and `Scenarios` |
| `AppProofs` | theorems about `App`, built on those about the vehicle |
| `ObstacleTracker` | `observe` with the obstacle tracker |
| `ObstacleTrackerProofs` | theorems about `ObstacleTracker` |
| `AuditLog` | loggers that append to one audit file |
| `AuditLogProofs` | theorems about `AuditLog` |
| `MCEdgeSupervisor`, `MCCommandTransport`, `MCMissionLink`, `MCRolloutGuard`, `MCAckGate`, `MCBundleUpdater`, `MCApp`, `MCObstacleTracker`, `MCAuditLog` | constants for TLC |

### EdgeSupervisor

`pc` is the point `run_plan` has reached and `k` the index of the action. One pass
of the loop is `Observe` (observation, estimate, `state_for_checks`, refined
action), or `ObserveStale` / `ObserveRaises` (its two except clauses), then `Deny` or
`Approve` (the adapter's speed limit, `supports`, `precheck`, in this order), then
`_execute_action`, a subroutine with four callers: `ctx` remembers which of them
waits (the action itself, the fallback of a refusal, the fallback of a failed
action, the fallback of the battery check). `PrimaryExecutes`, `PrimaryFails`,
`PrimaryRaises`, `FailoverExecutes` and `FailoverRaises` are its paths; `Returned` and
`Raised` are what the caller does with the outcome. `EndOfPlan`, `BatteryLow` and
`BatteryOk` are the lines after the loop. `events` and `audit` grow exactly as in the
code, in the code's order.

Lengths are centimetres, the battery counts twentieths of a percent, so that the
drops of 0.2 % and 0.05 % are whole numbers. Distances are never computed: the
code compares them with a threshold, the model compares squares. Heading,
velocities and confidence values are read by no decision and left out. The plan
is any plan, verified or not. `Lags` is the time that passes between the clock
reading of the localization engine and that of the supervisor.

### CommandTransport

A sender is a process with a transport object. Between the steps of
`send_command` it can be interleaved with any other: `Begin` / `SkipDuplicate` /
`CheckRaises` (envelope and duplicate check), `LogDuplicate`, `Post`, `NoReply` /
`CorrelationFails` / `Correlates`, `ReadNonce`, `NonceRejected` / `UpdateNonce`,
`VerifyAccepts` / `VerifyRejects`, `MarkSeen`, `LogAckOk`. Each ledger call is one SQLite
transaction and one step. `AttemptFails` is the except clause with its retry or its
final `send_failed`; `Escapes` is an exception that clause does not name, the one of a
duplicate's log record among them. `Post` puts the request on the `wire`; it arrives
(`RequestArrives`) at any later moment, also after its attempt, its call or its process
ended, or never. `acks` is a set that never shrinks, so an acknowledgement can be late,
repeated or answer the wrong request.
`Crash` loses everything but the ledger, `GatewayRestarts` resets the nonce counter.
The options are the repository's defaults: acknowledgement, nonce and idempotency
are on.

### CommandLink

The same calls as their caller sees them: `Begin`, then any number of `Send` and
`Remember`, then `Return` (only if this command was delivered), `Raise` or `Die`; or `Skip`,
for a command that is remembered, then `Return`, `Raise` or `Die`; or `Refuse`, an exception at
once. What was sent may be executed at any time (`Deliver`), after its call and
repeatedly too, or never. `Forget` is the expiry of keys. There is no attempt, no nonce
and no acknowledgement. `CommandTransport!Link` maps a duplicate not yet logged to
"skipping", every other control point between the duplicate check and the end of the
call to "busy", requests on the wire and deliveries to their commands, and the rows of
`idempotency_keys` that have not expired to `live`.

### MissionLink

`EdgeSupervisor` looks only at the state it projects. Here the vehicle is a
variable of its own, and `send_command` is one step with the outcomes `CommandLink`
allows: `Acknowledged`, `Skipped` (the key is in the ledger: nothing is sent, the call
returns, the state is projected), `Unanswered` (raises, the vehicle executed or not,
the key is not stored) and `LedgerFails` (raises after the key was stored). `Deciding`
is every other line of `run_plan`. A request whose attempt timed out may stay under
way in `strays` and arrive at any later time (`StrayArrives`); `overtaken` remembers that
one did. Both adapters write to one ledger, the default `store_path`, and a key is
the action, since vehicle and payload are all that is hashed. Retries execute a
command several times within one step; that changes the vehicle's battery only,
which no property of this module compares.

### CertPins and RolloutGuard

A vendor's record is the five lists of the pin file as sets (their order decides
nothing); an unknown vendor is the empty record, which refuses everything just
the same. `not_before: None` is time 0 and `not_after: None` is `Forever`. `Cutover`,
`Rotate`, `Schedule`, `Revoke` and `Rollback` are the five methods; `Allowed` is the lookup.

`RolloutGuard` has one copy `mem[p]` of the file per process, read when it starts.
Every operation changes the copy and writes it back whole (`Store`), as `_save` does.
`AckFails`, `RefuseRevoked` and `CheckPin` give a verdict on an acknowledgement, which is
`pending` until `RecordOutcome` or `AutoRollback` appends it to the window: the transport
records a failure in the handler of the exception, and the pin set may be used in
between only by other processes. `CheckPin` reads the clock for the lookup before the
cutover reads it again, so the two may differ by a tick. `Stop` at any point loses
window, cooldown and copy. `samples` is a history variable. A crash in the middle of
writing the file is not modelled.

### Keyring and AckGate

A vendor's key record is the set of listed and the set of revoked key ids;
descriptors are well formed, and `active_kid`, which no code reads, is left out.
`AckGate` adds to `RolloutGuard` the key ring file and the copy `ring[p]` a transport reads
in `BuildTransport` and never again. `Verify` is `_validate_ack_signature` followed by
`_validate_cert_binding`: no vendor, no signature, a key that is not usable, a signature
that does not fit, a missing fingerprint are one `AckFails`; with a usable key the
pins decide (`RefuseRevoked`, `CheckPin`). `Count` records the verdict. `RotateInFile` and
`RevokeInFile` read, change and write the file in one step: two tools that overwrite
each other's change are not modelled. `signer`, `gone` and `barred` are history variables.

### ApprovalAudit and BundleUpdater

A bundle is a name that is also its hash; `Content` says what it holds. A process of
`BundleUpdater` installs bundles: `Apply` is everything up to the first write (version,
signatures, stage, `CanaryGate`), `InstallPart` one file, `Reload` the second reading of
the state in `_update_state`, `Store` the new state. It records approvals: `Approve` reads
the state and adds the entry (`Voted`), `WriteVote` writes it, then `append` of the audit
runs: `AuditRefuses` or `ReadLastHash`, and `AppendRecord`. `_append_count` is `counted`.
Approvals name any candidate, as the code never asks whether it is a canary.
`Crash` is a process dying between two steps, `CrashInWrite` one dying in `write_text`,
which leaves a file of no content (`Garbled`, or `readable` false for the state, after
which every call raises). A call that raises before it writes changes nothing and is
not a step. A record's hash stands for its position, so a chain verifies if every
record follows the one before it. `granted`, `spent` and `voters` are history variables.
A line of the audit torn by a crash and the seals are not modelled.

### Planners, Scenarios and App

An answer of the language model is its list of actions; everything that can be
wrong with the text around it is one of three ways a route fails, or the empty
list. `Generated` is `_generate` with its second route, `AnswerUsable` and `Normalised` are
`_plan_from_dict`, `Verified` is the verifier. `Scenarios` holds the two scenarios with
their telemetry.

`App` starts one of `Programs` and takes a mission through `planning` (`PlannerFails`, `Reject`
or `Launch`), `flying` (steps of `MissionLink`, under the same names) and `Return` or `Die`, which is
an exception `run_plan` lets out. A benchmark goes back to `planning` until its runs are
done: `Launch` sets the supervisor's state to home, whatever the vehicle did in the run
before, and vehicle, ledger and requests under way stay. In a trace, looking at
telemetry is a step of its own: `Replay` takes the next event, and an empty frame when
there is none. `records` is what a benchmark reports of each run. `clean` and `owed` are
history variables: whether the run began with the vehicle at home and nothing
remembered or under way, and which commands of the plan were still to be
acknowledged. The kernel lets a vehicle disarm within a centimetre of home on each
axis, so `StrictEndsSafe` ends `NearHome`, not at home. `RejectedForCoordinatesOnly` looks at the
last record where a run has just been counted: later, the plan in `plan` is another.

### ObstacleTracker

`Observe` is `observe` up to the loop of `update`, with the expiry of tracks; each pass of
the loop is one `TrackNext`, and `Deliver` hands out the frame. An event the schema
refuses raises before the tracker is asked, so it is no event here;
`ObserveNothing` is a source without one. The id "lidar-0007" is the pair <<lidar, 7>>,
whoever made it: an `object_id` may be any string, also one the tracker generates
itself, earlier or later (`perception.py:102,109,305`). `brought` and `generated` are history
variables that tell the two apart, and `how` records how an obstacle came by its id.
Ids are ordered as their strings are (four digits). Distances are
compared as squares, a velocity is a displacement and the time it took. Class,
radius and confidence are carried through unread and left out.

### AuditLog

A signature is the number of the `log` call that made it: equal signatures would be
a collision. `Write` is `log` up to its last assignment, `Remember` that assignment; a
logger may die between them (`Close`). `WriteFails` is an `open` or `write` that raises,
`WriteTears` one that leaves a piece of the line, which may lack no more than the line
feed; what is appended behind a piece makes one line no JSON parser accepts
(`Garbage`). `Open` is the constructor, which raises when the last line is such a line.
So no logger may ever be built again: this run, and that of the tracker, whose
frames are counted, check no deadlock.

## Runs

| run | configuration | result |
|---|---|---|
| `supervisor` | 45 plans of up to four actions, the empty one among them, 5 initial states, 7 wirings, 6 frames, 2 lags | nine properties hold |
| `transport` | 2 senders with a vehicle each, 2 sends, 2 attempts, window 2, time to live 0 and clock to 1, a crash, a gateway restart | types, delivery, one outcome, no resend while the key is live, nonces, refinement of `CommandLink`; every call ends |
| `programs` | a strict benchmark with failover, one of two runs without, one planned by a language model, one of two runs by the simulator alone, two demos, the nominal trace; 9 answers, one stray request | six properties hold |
| `blocked_trace` | the blocked trace | `BlockedTargetAvoided` is violated |
| `skipped_fallback` | a plan that calls at home on its way, no strays | `RefusedVehicleIsHome` is violated |
| `ack_gate` | 1 transport, 1 vendor, 2 fingerprints, 1 key, clock to 3, window and samples 2, threshold 1/2, cooldown 1 | types, restarts, revoked keys, pins, revocations, evidence |
| `expired_rollback` | the same without the key | `RollbackRestores` is violated |
| `bundle_rollout` | 1 updater, 7 bundles (a canary, two relying on it, one ungated, three refused), 2 environments, 2 people and an empty name, 4 approvals, a crash | five properties hold |
| `two_approvers` | 2 updaters, canary and global bundle, production, 3 approvals, a crash | `ApprovalsHaveVoters` holds |
| `half_installed` | 1 updater, 3 bundles, 2 approvals, a crash | `NoDowngrade` is violated |
| `obstacle_tracks` | 3 places 2 apart with a gate of 3, 2 sources, an `object_id` either may bring that the tracker generates too, up to 2 sightings a frame, 3 frames, time stamps 0 to 2 in any order | four properties hold |
| `audit_log` | 2 loggers, 6 calls | two properties hold |

Why these bounds are enough to be interesting:

- `supervisor`: between arm and disarm there are up to two free actions, so that one
  can succeed before the other is refused; the plans contain a move for every
  rule of `precheck`, the states one below each battery limit, the frames one for
  each outcome of age check, obstacle and fix, the wirings each combination of
  failing and never failing adapters that `_execute_action` tells apart.
- `transport`: two attempts are one retry, two sends are a repetition or a crossing
  pair, window 2 lets a nonce be skipped and overrun. With `KeyTTL` 0 a key lives until
  the clock ticks and has expired afterwards, whatever calls are running then: a
  command is skipped before the tick and sent again after it. (Time to live 1 with two
  ticks passes as well, with twice the states.)
- `programs`: the second run of a benchmark meets what the first left behind, a stray
  from any call, keys that expire at any step; the answers need every repair of
  `_plan_from_dict` and every refusal, one leaves the fence, one disarms away from
  home and one a centimetre from it. `MCApp` also compares `Selected` with `SelectSeq`
  on sequences of up to five elements. `skipped_fallback` needs neither strays nor the programs.
- `ack_gate`: four times are enough for a pin to be scheduled, become valid, take
  over, be rolled back and expire; a window of two can be full, trimmed and
  cleared, and a cooldown of one can be running or over.
- `bundle_rollout`: four approvals approve one canary twice, so that a second rollout
  needs the second approval, and are the fewest after which an append could be
  refused for a wrong link; two people are what production asks for. A canary and a
  bundle that is none are the candidates. `two_approvers` has a third approval for the
  refusal of a forked chain. The two people (and the two processes) are symmetric:
  no definition orders them.

- `obstacle_tracks`: three frames let a track expire and its obstacle come back, two
  sightings compete for a track or bring an id that is taken, and a gate that spans
  two places gives one sighting two candidates. The id brought is "lidar-0002", by a
  lidar or a radar obstacle: the tracker reaches it within a frame, so it is
  generated before it is brought and after, and while its track lives or has gone.
- `audit_log`: two loggers in turn or at once, each with a failed, a torn and a
  complete write before and after another; the theorems need no bound.

The violations are disagreements between the code and what the repository says:

- The idempotency key has no mission or sequence number in it. A mission that was
  at home within the time to live (or followed another one) and is then refused
  reports `fallback:return_to_home` and a state at home, while nothing was sent.
- `previous_active` is filled only when no active pin is valid any more, so a
  rollback restores expired pins, and the next check undoes it.
- The files of a bundle are written before its version: after a crash in between an
  older bundle replaces them.
- `run_plan` takes a telemetry event for every action, arm included. The scenario
  `blocked_target` has one, so its move meets an empty frame and is flown to the
  covered target: no reroute, no refusal, and a trace that shows neither.

Other facts the models show, stated here because no run is spent on them:

- `precheck` compares the position with the origin, not with home: a vehicle with
  another home is disarmed away from it, and refused at home
  (`docs/safety/safety_case.md:12`). `DisarmAtOriginHome` is proved for homes at the origin.
- The fallback of a refusal is the only one not guarded: with a failing link it
  leaves `run_plan` as an exception and no `system_fault` is recorded; the step `Die` of
  `App` is how a benchmark ends then, without a summary.
- The approval reaches the state before the audit: a process dying in between leaves
  an approval in force that no record ever shows. `VotesAreAudited` counts such deaths.
- A later run of a benchmark within the time to live finds its commands remembered:
  it sends nothing, flies nothing and is a strict success. `StrictMeansFlown` says what
  remains true: whatever was not remembered was acknowledged.
- A key revoked in the file stays accepted by a transport built before.
- `perception.py:109` does not look whether the id it makes is taken. If telemetry
  brought "lidar-0002" and the counter reaches it, two obstacles of one frame share the
  id, or a far obstacle continues the track with a false velocity. The properties of
  `ObstacleTracker` except exactly these ids (`MayCollide`); weakened to ids that were brought
  by the obstacle itself, `NoSharedIds` and `TracksContinue` fail in the same run, and so
  does `StillObstaclesKeepIds` where two obstacles of the frame share an id.

## Fairness

`EdgeSupervisor` has weak fairness of its steps: `run_plan` is straight-line code
in one thread, every call it makes returns or raises (`send_command` has a timeout
and a bounded number of attempts), and no choice is owed to the environment.
`CommandTransport` has weak fairness of `Progress(s)` for every sender: one that is
inside a call keeps running, since an attempt that gets no answer times out
(`NoReply`). Nobody has to call, no message has to arrive, the gateway and the clock
owe nothing, and crashes are never fair. The other modules state only safety and assume no fairness: `App` ends
because `run_plan` does, and the tracker and the loggers wait for their callers.

## Proofs

Every theorem holds for all values of the constants that satisfy the modules'
named assumptions and the hypotheses below. The assumptions are types of limits, bounds
and inputs, the lower limits the code itself enforces, what a demo always is (one run, of
the patrol), and that placeholders such as `NoVal` are no value of the data. They
ask of a configuration that its limits are not negative; no message, answer or
telemetry event of the modelled form is excluded.

| theorem | says | needs |
|---|---|---|
| `EdgeSupervisorProofs!TypeCorrect` | types | |
| `RefinedTargetIsClear` | the planner's move keeps its clearance, and a changed target is in the fence | |
| `NothingAfterBlock`, `BlockedGoHome`, `LowBatteryHome` | `NoExecAfterBlock`, `BlockedMissionsGoHome`, `LowBatteryEndsHome` | |
| `GatedMotion` | `MotionIsGated`: connection, age, uncertainty, standoff, fence, speed, battery and clearance behind every change of position that is no fallback | |
| `StaysInGeofence` | `GeofenceContained` | missions start, and have their home, in the fence |
| `DisarmAtOriginHome` | `DisarmOnlyAtHome` | home is the origin |
| `AuditFollowsEvents` | `AuditMatchesEvents`: audit and events tell of the same steps in the same order | |
| `CommandTransportProofs!TypeCorrect` | types | |
| `NoncesOnlyGrow`, `NoLiveResend` | `NonceMonotone`, `NoResendWhileLive` | one process per vehicle |
| `OutcomesAgree` | `OneOutcome` | |
| `SuccessIsDelivery` | `SuccessMeansDelivered` | at least one attempt |
| `LinkRefinement` | `CommandTransport` implements `CommandLink` | one process per vehicle, at least one attempt |
| `WorldTypes` | types of `MissionLink` | |
| `VehicleStaysInside` | `VehicleContained` | missions start, and have their home, in the fence |
| `AppProofs!ProgramTypes` | types, and the number of runs a benchmark reports | |
| `ProgramKeepsVehicleInside` | `VehicleContained` for the programs: what `VehicleStaysInside` assumes is what they do | |
| `StrictSuccessIsFlown`, `StrictSuccessEndsSafe` | `StrictMeansFlown`, `StrictEndsSafe` | |
| `CleanRunFollowsVehicle` | `CleanRunKnowsVehicle` | |
| `OnlyCoordinatesAreRefused` | `RejectedForCoordinatesOnly` | |
| `RolloutGuardProofs!TypeCorrect` | types, and the window's length | |
| `RestartsAgree`, `PinsKept`, `RevocationsStay` | `MemoryIsFile`, `UnexpiredPinsKept`, `RevocationStays` | one process at a time on the file; the active pins of the first file have begun |
| `RollbacksHaveEvidence` | `FreshEvidence` | |
| `ObstacleTrackerProofs!TypeCorrect` | types, an age is never 0 | |
| `IdsAreShared`, `NewIdsWereNeverGiven`, `TracksAreContinued` | `NoSharedIds`, `NewIdsAreNew`, `TracksContinue` | |
| `StillIdsAreKept` | `StillObstaclesKeepIds` | |
| `AuditLogProofs!TypeCorrect` | types | |
| `SoleLoggerChains`, `LinksAlwaysResolve` | `ChainUnbroken`, `LinksResolve` | |
| `GateIsGuard` | `AckGate` implements `RolloutGuard`: the theorems above hold of the gate | |
| `RevokedKeysRefused` | `RevokedKeyRefused` | |
| `BundleUpdaterProofs!TypeCorrect` | types | |
| `DualControl` | `ApprovalsHaveVoters` | |
| `ChainGrows`, `RolloutsAreApproved`, `ApprovalsAreRecorded` | `StateGrows`, `GlobalsAreApproved`, `VotesAreAudited` | one process at a time on the state file |
| `ApprovalsAreSpentOnce` | `ApprovalSpentOnce` | the same, and finitely many environments |

The hypotheses are not decoration. A vehicle with another home is disarmed at the
origin. Two processes commanding one vehicle can both read the last
nonce before either writes it, and the later write lowers it. A second process on
the pin file writes back the copy it read before a revocation, and undoes it. In the
same way two processes on one bundle state pass the gate on one approval, so
`bundle_rollout` has one.

The inductive invariants:

- `SupervisorInv`. The properties of `run_plan` do not mention what holds between the
  gate and the adapter, so they are not inductive. The invariant adds that the
  checks still describe the state (`ChecksAreCurrent`), that the command at the
  adapter passed the gate or is the fallback (`AdapterCommand`), and what each caller
  of `_execute_action` knows about the events so far (`ContextOfEvents`: no refusal yet
  while the plan runs; at home or faulted once the fallback is over).
- `AuditInOrder`: of the steps both logs show, the events and the audit have the same
  selection. What appending an entry does to a selection (`SelectedAppend`, `KindsAppend`)
  needs no induction, since `Selected` is defined by counting places.
- `ExclusiveInv`. `NonceIsCurrent` says that between `ReadNonce` and `UpdateNonce` the value
  read is still the one stored, which is true only if no other sender serves the
  vehicle (`ServesItsVehicle`); `NoResendWhileLive` needs the same.
- `OutcomeInv`: an id belongs to one call (a counter stands for the code's random
  UUIDs), and a call still under way has no record.
- `DeliveryInv`. Delivery is deduced backwards: a sender past the correlation check
  has an acknowledgement with its id, every acknowledgement was earned by a
  delivery (`AcksAreEarned`), an id names one key (`IdsAreFresh`, `IdsNameKeys`), and a key
  in the ledger was delivered (`SeenIsDelivered`). The refinement uses it for
  `Remember` and `Return`, and `ExclusiveInv` for `Send`.
- `FenceInv` of `MissionLink`: the targets of all requests under way are inside, since
  each was at the adapter once, where `SupervisorInv` knows that it passed the gate.
- `ProgramInv` of `AppProofs`. A verdict is computed from the events when the flight
  is over, so the invariant relates the events to the flight while it lasts.
  `LoopInv`: up to which action the plan was carried out, as long as nothing was
  refused or failed; `DisarmedInv`: the disarm that ends the plan passed the gate
  within the tolerance of the origin, where the programs have their home (`HomeInv`).
  `OwedInv` and `FlownInv`: what is owed is not in the ledger, and while the plan runs
  and nothing was failed over it is still ahead of the loop. `CleanInv`: on a clean
  run the vehicle and the state the supervisor projects agree, until a late request, a
  failover or a fault excuses them (`Excused`). `Reported` carries the verdict on to
  the next step. Planners enter by three lemmas only: what either planner delivers
  begins with arm, ends with disarm and has positive speeds (`NormalisedPlan`,
  `CloudPlanType`, `PacedPlan`).
- `SoleInv`: the copy of a running process is the file, and active and previous pins
  have begun (`FileBegun`), so that a pin the cutover drops has expired. What the five
  operations do to a record is stated once (`Keeps`) and proved per operation.
- `IdsOK` and `TracksRemember` of `ObstacleTrackerProofs`: every id is brought or
  generated, every generated one is below the counter, and between the frames the tracks are those of the last one.
  While a frame is under way the second part splits: the ids given already belong
  to the new frame, the others to the old one unless they expired when it began.
- `StillInv` of `ObstacleTrackerProofs`: of the tracks at the place of an obstacle its own has
  the first id, those apart that others of the frame have taken (`Leading`). A frame
  that shows the same scene (`Repeats`) keeps this while the loop runs, since each track it
  touches stays where it was; so the obstacle's track is free when its turn comes,
  and no other is both as near and before it. No induction over the sightings is
  needed: each is a step.
- `LogInv`: a logger alone on the file remembers the signature of its last line, or is
  about to, or that line is broken; and what any logger remembers is in the file.
- `BarredInv`: what was ever revoked is revoked in the file, since no operation of the
  key ring takes a revocation back; so what was revoked when a transport was built is
  revoked in its copy; and a transport that is not up has no verdict pending.
- `VotersInv`: not only the state file but every copy a process may still write over
  it is backed by votes, a copy with a vote not yet written by that vote too. Votes are
  never taken back, so a process that overwrites another's state with an older one
  loses approvals and invents none. That is why `DualControl` needs no hypothesis.
- `AloneInv`: between the gate and the store the version and the approval still are
  what the gate saw, and the copies are the file with one vote more or as it is.
  `SpentInv` adds that approvals reached are spent or still held by an environment,
  `AuditInv` that the audit's chain is sound and the next record will extend it.
- `EvidenceInv`: the window never holds more verdicts than were counted since the
  last rollback.

Attempting the proofs about `App` corrected two of its properties, for cases no run had
reached. A plan may disarm a centimetre from home, which the verdict takes for a
strict success; and after a second run that dies of an exception the record of the
first, a refusal, stood beside a plan that was not refused. The run `programs` now has the
answer for the first.

Only model-checked: `MissionTerminates` and `SendTerminates`, since fairness is out of the
prover's reach. Every other property of a passing run is a theorem.

## Not modelled

Text and number formats; a number that is no number (`json.loads` reads NaN, and no
comparison of verifier or kernel refuses it); signatures (verification accepts or
rejects freely where the key is usable); token rotation; the language model and the
text of its answer; the JSON schema of telemetry, which is one verdict; reason
codes, configuration parsing, percentiles and what the programs print.
`policy.py` and `reason_codes.py` parse JSON and text without state: the limits they deliver
are the constants here. Heading and velocities are read by no decision. Installing
a bundle over the pin file of a running process is a second writer in the sense of
`RolloutGuard`. An audit logger whose writes fail is modelled alone (`AuditLog`); in
`run_plan` its exception would escape like any other no handler names. Liveness of `App`
is not checked: the missions it flies end by `MissionTerminates`.

## Plan

What could still be added: `BundleUpdater` composed with `RolloutGuard` and `Keyring`, whose
processes do not notice an installed pin file or key ring, with the theorems of
the three carried over to the composition.
