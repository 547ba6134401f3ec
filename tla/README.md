# ParkGuard KZ: TLA+ models, model checking and proofs

This directory models ParkGuard KZ from the camera to the penalty card:

* what is published of a frame, and which picture of it is kept (`FrameTap`);
* the decision about penalties, *one per incident, a new one only after a
  confirmed exit and a cooldown* (`ViolationService`, and `PenaltyLedger`, which
  it is shown to implement);
* which vehicle an observation is taken for (`CviMatching`);
* the round trip by which a vehicle gets the plate that a penalty is issued
  under (`OcrPipeline`);
* the operators' edits of cameras and zones, their audit log, and when they take
  effect (`OperatorEdits`);
* the review of a violation and its penalty card (`PenaltyCards`).

Each has a specification, instances for TLC and proof modules.  What the parts
promise each other is stated in four abstract specifications that the detailed
ones are shown to implement: `PenaltyLedger`, `CviRegistry`, `PlateElection` and
`CardLifecycle`.

## 1. The system

| Component | State | Operations | Talks to |
|---|---|---|---|
| **cpp-deepstream** (pipeline, detection probe, snapshot tap, Kafka producer) | frame rings per camera, producer queue | per frame: publish `detections`; per snapshot request: cut a JPEG, answer `snapshot_responses` | Kafka, shared volume |
| **violation-service** state machine | per CVI and zone: `ZoneStateEntry` | `evaluate` per observation, `_fire_violation` | registry, writer |
| — active-violation registry | Redis keys `active_violation:*` (TTL 1 h) and `cycle:*`; process-local fallbacks | `is_active`, `mark_active`, `clear`, `current_cycle`, `bump_cycle` | Redis |
| — violation writer | table `violations` | `insert` | PostgreSQL |
| — CVI manager | CVIs of a camera (`_cvis`), plate votes, embedding centroid | `resolve`, `apply_ocr_result`, `evict_stale` | Redis (plate index, best effort) |
| — consume loop | offset of `detections` | poll, handle, commit | Kafka |
| — ocr_results consumer | offset of `ocr_results` | one vote per result | CVI manager |
| — plate OCR requester | `_pending`, attempts and cooldown per CVI | tick, handle `snapshot_stored` | Kafka |
| — zone cache | zones per camera, refreshed every 30 s | `zones_for_camera`, `refresh` | PostgreSQL |
| **snapshot-consumer** | files of the shared volume | upload, unlink, publish `snapshot_stored`, commit | MinIO, Kafka |
| **plate-service** | offset of `ocr_requests` | fetch, recognise, publish `ocr_results`, commit | MinIO, Kafka |
| **penalty-card-service** | `penalty_card_url`, `status` of a violation | check, render, upload, update, publish | PostgreSQL, MinIO, Kafka |
| **event-api** | cameras, zones, review status, audit log, WebSocket clients | CRUD, review, broadcast | PostgreSQL, Kafka |
| frontend, ops, scripts, load-tests, migrations | none relevant here | | |

### What is hard here

* **Three layers of duplicate prevention that do not share a transaction**: the
  CVI in memory, the active key in Redis, the unique constraint on
  `(camera, zone, identity_key, cycle_id)`.  A step of `_fire_violation` touches
  all three, with an `await` between each.
* **An identity that changes**: `get_violation_identity` reads the plate once it
  has three votes, otherwise the hash of a moving average; it is recomputed at
  each firing and at the end of each cooldown.
* **Restarts**: memory is lost, Redis, the table and the uncommitted message
  are not.
* **Failures that are swallowed**: Redis errors fall back to process-local
  state, every `IntegrityError` is taken for a duplicate, a handler exception is
  logged and the offset committed.
* **Two clocks**: the state machine runs on frame timestamps, TTL and eviction
  on wall-clock time.
* **Two writers of one row**: event-api and penalty-card-service both write the
  status of a violation, operators edit the same camera at the same time, and
  each request writes what it loaded before an `await`.
* **An identity that is guessed**: an observation belongs to the CVI that the
  first of four rules finds, by windows of two to 300 seconds, while other
  vehicles pass by and track ids change.
* **Three numbers of one camera** in cpp-deepstream: its place in the
  configuration (pad), among the enabled cameras (slot), and in a batch (surface).

`PROJECT.json` lists each hazard at its line, with the properties that cover it
or the reason why none does.

### What makes each component correct

| Component | Properties |
|---|---|
| state machine, registry, writer | a visit is penalised at most once; penalties of different visits are far apart; a row belongs to a cycle that was reached; an active key stands for a row; the holder of a row keeps its key |
| consume loop | every polled message is committed in the end |
| CVI manager | a CVI mixes two vehicles only if they met within the window of a rule; a vehicle that stays and meets no other keeps its CVI; a CVI has no gap longer than the window, idle ones go all at once, and none comes back |
| plate votes | the plate is a leader with a majority, from the vote on that gives one the majority; a duplicate reading does not add to it |
| OCR round trip | a snapshot is read once; a plate is elected by readings of different snapshots; every OCR request gets a result; a request leaves `_pending` |
| snapshot-consumer | every response is passed on; a crop is on the shared volume until it is in MinIO |
| penalty card, review | a card is announced once, and only when it is stored; a decision after the card stands; a request does not disappear silently; a deleted violation does not come back |
| cameras, zones, audit log | no zone outlives its camera; a camera is created once; the log tells what exists |
| zone cache | an edit takes effect within the TTL |
| detection probe, producer | a detection names its camera; a lost one is counted |
| frame ring, snapshot tap | the ring hands out what was captured; the picture shows the camera that was asked for |

## 2. The modules

| Module | Content |
|---|---|
| `PlateVotes` | the plate vote of a CVI, `Counter.most_common` with its tie rule |
| `ViolationService` | the core: state machine, registry, writer, consume loop, CVI life cycle, crash and restart |
| `PenaltyLedger` | the abstract specification of duplicate prevention |
| `CviRegistry` | the abstract specification of a CVI manager: ids in use, and when each was last seen |
| `PlateElection` | the abstract specification of the OCR round trip: votes of snapshots, and the plate they elect |
| `CardLifecycle` | the abstract specification of a penalty card: stored, issued, announced |
| `OcrPipeline` | the OCR round trip: requester, request loop of cpp-deepstream, snapshot-consumer, plate-service, votes, and the Kafka topics between them |
| `CviMatching` | `resolve` and the four rules of `_match`, eviction, plates, and the vehicles behind the observations |
| `PenaltyCards` | review of a violation, request, rendering and announcement of its card |
| `OperatorEdits` | concurrent edits of cameras and zones, the audit log, the zone cache of violation-service |
| `FrameTap` | camera index, detection probe, producer queue, frame rings |
| `MC...` | instances for TLC (symmetry of the CVIs and of the requests; lists of cameras) |
| `PlateVotesProofs` | what a vote returns, and that no majority is missed, for all plates and majorities |
| `ViolationServiceProofs` | type correctness, the distance between penalties, the rows behind active keys, and the refinement of `CviRegistry`, for all constants |
| `StableIdentityProofs` | one penalty per visit, the refinement of `PenaltyLedger`, and the keys of open incidents, for all constants |
| `OcrPipelineProofs` | type correctness, one OCR request per snapshot, plates elected by different snapshots, no crop lost, the refinement of `PlateElection`, for all constants |
| `PenaltyCardsProofs` | type correctness, the safety properties of the cards, and the refinement of `CardLifecycle`, for all constants |
| `OperatorEditsProofs` | zones and cameras, the truth of the audit log, and when edits take effect, for all constants |
| `CviMatchingProofs` | type correctness, the refinement of `CviRegistry`, which vehicles a CVI can mix, one CVI per parked vehicle, for all constants |
| `FrameTapProofs` | names of detections, their losses, what the ring hands out and what it shows, for all constants |

`ViolationService` and `OcrPipeline` both build on `PlateVotes` and overlap in
the CVI: to the first, an OCR result is an event that may come at any time with
any plate (`ApplyOcr`); the second says which results come, and how often.
`CviMatching` fills in what `ViolationService` leaves open, which of the recent
CVIs an observation matches: theorem `MatchesWithinWindow` says that what it
returns is among them, and both implement `CviRegistry`, the contract between
them (`ViolationService` with its one window, `CviMatching` with the longest of
its four).  The other three meet them at one point each and share no
state beyond it:
`FrameTap` publishes what `ViolationService` polls (any subset of the frames)
and keeps the pictures that `OcrPipeline` asks for; `OperatorEdits` hands a
detection the zones that `ViolationService` lets be any of `ZoneSets`;
`PenaltyCards` begins with the row that the writer has inserted.

### ViolationService and the code

The model is the detections partition of **one camera**: the partition key is the
camera id, and every Redis key and row carries it, so cameras share nothing.
Timestamps are naturals; the zone's three times are constants.

| Variable | Code |
|---|---|
| `clock`, `lastTs` | wall-clock time; timestamp of the newest message |
| `msg` | the polled message whose offset is not committed, with the zones `zones_for_camera` has returned for it |
| `h` | where the handler is: `object`, `zone`, `firing`, `inserting`, `marking`, `commit`; `idle` between messages, `stopped` when the loop has ended, `down` when the process is |
| `live`, `created` | `CVIManager._cvis`; the `cvi_id`s handed out |
| `ballot`, `plate` | `CVI.plate_votes`, `CVI.plate_text` |
| `fallback` | the key `emb:...`/`track:...` the CVI hashes to without a plate |
| `lastSeen`, `entry` | `CVI.last_seen`, `CVI.state_per_zone` |
| `localActive`, `localCycle` | `_fallback_active`, `_fallback_cycle` |
| `redisActive`, `redisCycle` | instant each active key expires (0: absent); the cycle counters |
| `rows` | the table `violations`; a row's zone, identity and cycle stand for its id |

Actions follow the code: `Enter`, `Leave`, `ReEnter`, `ConfirmExit`,
`ExitWithoutViolation`, `EndCooldown`, `Stay` are the branches of
`_evaluate_zone`; `FireStart`, `FireSkip`, `FireBuild`, `FireInsert`,
`FireRaise`, `FireMark` the stretches of `_fire_violation` between its awaits;
`Poll`, `Redeliver`, `Resolve`, `Commit` the consume loop; `ApplyOcr`,
`EvictStale` the other tasks; `Crash`, `Restart`, `Tick` the environment.  The
tasks interleave at the awaits.  A branch that ends in a single Redis call
(`ConfirmExit`, `EndCooldown`) is one action: between its assignments and the
call no other task reads the entry, and a crash in between is the crash before.

A Redis call may succeed (`ok`), fail (`refused`) or take effect and fail
(`lost`); so may an INSERT.  Abstracted: which recently seen CVI an observation
matches is open (`Matches`: any that was seen within `MatchWindow`); the plate,
class and snapshot columns of a row; the order in which the zones of a camera
are evaluated (any); several cameras.  A message without zones is committed
unread, like one whose refresh of the zone cache fails.

### OcrPipeline and the code

| Variable | Code |
|---|---|
| `log` | per topic, the messages behind the committed offsets; a message carries its request, which copy of it it is, the CVI, and a body that is all later code looks at |
| `done` | those of them whose handler has run: the position of the consumer |
| `sent` | how many messages about a request a topic has had (not in the code; it numbers the copies) |
| `files`, `objects` | crops on the shared volume and in MinIO |
| `job` | where snapshot-consumer is in a response: a file to `unlink`, an outcome to `announce` |
| `live`, `created`, `ballot`, `plate` | `CVIManager._cvis`, the `cvi_id`s handed out, votes and plate of a CVI; a vote is kept with the request it came from |
| `poll` | the pass of the poll loop: candidates to go, and the request that is published but not registered |
| `pending`, `attempts` | `_pending` and `_attempts_count` of the requester |

A handler that is atomic towards the others is one action (`AnswerRequest`,
`HandleStored`, `Recognise`, `CountVote`): a death in its middle is a death
before it or after it, because what it leaves behind is the one message it
publishes.  snapshot-consumer leaves three things behind (object, file, message)
and has three steps.  The poll loop has two, because the entry of `_pending` is
made behind the acknowledgement of the request.  The offset is committed by
`Commit`, at any time after the handler or never.

Publishing and uploading may succeed (`ok`), fail (`refused`), or take effect
and report a failure (`lost`).  A crash or a rebalance (`Again`) makes a
consumer start behind the committed offset; a SIGTERM of snapshot-consumer or
plate-service cancels the consume task in the middle of a message and commits
its offset (`Abandon`).

Abstracted: which CVIs stand in a zone and the attempt gap (any subset of the
candidates is asked for, `MaxAttempts` is kept); which plate is read (any); the
order of messages about different requests (any; the copies of one request stay
in order, their key puts them in one partition); a group that never committed
(the requester reads `snapshot_stored` from the end then).

For `PlateElection` the votes of a CVI are the set of its counted readings, each
with the request it came from (`Cast`), as long as the CVI is in memory, and its
plate is `plate_text` (`Held`).  All that happens before the vote is a stutter,
and so is a result for a CVI that is gone.

### CviMatching and the code

| Variable | Code |
|---|---|
| `clock`, `now` | wall-clock time; timestamp of the newest frame |
| `todo` | its detections that the loop of `consume` has not come to |
| `cvi` | `CVIManager._cvis`: `last_seen`, `last_bbox`, `last_ds_track_id`, the vehicles whose samples are in `embedding_centroid`, `plate_text` |
| `created` | the `cvi_id`s handed out |
| `sightings`, `met`, `fed`, `stay` | history, for the properties |

`Match` and `Create` are the two ends of `resolve`, whose only await comes after
the assignments; `ByPlate`, `BySpace`, `ByLook` and `ByTrack` are the rules, and
`Matching` their order.  The detections of a frame are resolved in any order,
with `evict_stale` and `apply_ocr_result` between them.

The vehicles are not in the code: an observation carries the one that it shows,
which no rule looks at.  The scene does what it likes: a vehicle may move, jump,
be hidden, overlap with another, change its track id or get that of another at
any time; only within one frame the tracker gives each object an id of its own.
Frames may be lost, and late by any time.

Abstracted: IoU is a relation on places (`Overlapping`), a plate is the vehicle it
belongs to, and the vote is `PlateVotes`'.  Cosine similarity is a choice
(`Likenesses`): an embedding may pass the threshold against a centroid that has
samples of a vehicle that looks alike (`Alike`), or of several vehicles, and may
fail it always, the vehicle's own samples included.  `cvi_matching` has all
vehicles alike; a smaller `Alike` says that some pairs never pass 0.82.  A restart,
which keeps no CVI, is in `ViolationService`.

Two vehicles have *met* (`met`) if one of the rules 2 to 4 may take an observation
of one for an earlier one of the other: the boxes overlap within `SpatialWindow`,
the track id is the same within `TrackWindow`, or they look alike within
`EmbeddingWindow`.  `MixedOnlyIfMet` says that nothing else makes a CVI stand for
two vehicles; `ParkedKeepsCvi` says that nothing else takes the CVI of a vehicle
that stands still and is seen once per `SpatialWindow`.

For `CviRegistry` the ids are those of `_cvis` and `seen` is their `last_seen`; a
step that only feeds a plate or takes the next frame is a stutter.

### PenaltyCards and the code

| Variable | Code |
|---|---|
| `table` | status of a violation and whether `penalty_card_url` is set; `None` when the row is gone |
| `pdf` | the bucket of cards; the key of a card is made of columns that do not change, so a second PDF replaces the first |
| `asked`, `handled` | `penalty_card_requests` behind the committed offset, and those behind the position |
| `job` | the await `_handle` is in |
| `announced` | messages in `penalty_card_issued` |
| `excuse` | the trace of a request without a card: `CARD_FAILURES`, or a cancelled handler |
| `call` | what a request of event-api has read |

`Receive`, `Store`, `Record`, `Announce`, `Finish` are the stretches of `consume`
and `_handle` between awaits whose effect outlives the process; `Await` gives
each three ends: done, failed (with or without its effect), and cancelled by a
SIGTERM, after which `Terminate` may still have committed.  `OpenReview` and
`CommitReview`, `OpenTrigger` and `SendTrigger` are the two halves of a request
of event-api, of which production runs two replicas.  penalty-card-service has
one (docker-compose.prod.yml scales event-api only).  `CardLifecycle` has the
same `table`, `pdf` and `announced`, and nothing of requests and handlers: the
`UPDATE` of a deleted row, which writes nothing, is a stutter there.

### OperatorEdits and the code

| Variable | Code |
|---|---|
| `camera`, `zone`, `nextZone` | the tables `cameras` and `zones`, and the id sequence of the latter |
| `audit` | `audit_log`, in the order of the commits |
| `call` | the row a request has loaded, and what it wants to write |
| `cache`, `lastRefresh` | `ZoneCache._by_camera`, `_last_refresh` |
| `query` | where the handler of a detection is in `zones_for_camera` |
| `clock` | `time.monotonic()` of violation-service |

A route that writes is a load (`PostCamera`, `PutCamera`, ...) and a transaction
(`InsertCamera`, `UpdateCamera`, ...), or `RollBack`; the flush takes the row
lock, so a transaction is one step, and only what it loaded before is stale.
The constraints of `0001_initial_schema.py` are in the guards: primary key,
foreign key, `ON DELETE CASCADE`.  The UPDATE names the columns that were
changed (`Merge`).  violation-service starts with a refresh of its cache
(`Starting`), and does not consume before it has succeeded: a failure ends the
process, which docker starts again.  Abstracted: the editable columns of a camera, and polygon,
name and times of a zone, are one value each; a rolled-back INSERT that uses up
an id; violations, which fall under the same cascades (`Cascade` in
`PenaltyCards`).

### FrameTap and the code

| Variable | Code |
|---|---|
| `enabled`, `next` | `CameraCfg::enabled`; the camera `Pipeline::build` is at |
| `idByPad`, `padToSlot` | `CameraIndex` |
| `batch`, `probe` | the buffer on the tracker's source pad, and the probe that is next |
| `stats`, `warned` | `ProbeStats`; the warnings of `dr_cb` |
| `queue`, `topic` | librdkafka's queue, and `detections` |
| `rings` | `SnapshotTap::rings_` |

A probe is one action: it runs in the streaming thread, and the request thread
sees a ring only under its mutex.  `Find` is `find_or_latest`.  Pads and slots
are counted from 1.  A frame carries the camera that took it, which the code
cannot see: that is what the properties compare with.  Assumed of DeepStream:
`source_id` is the pad, `surfaceList` has the frames of a batch in the order of
their `batch_id`, and a batch has at most one frame of a source; in which order
is left open, except in `wrong_frame`, which needs no disorder.

## 3. Runs

| Run | Instance | Shows |
|---|---|---|
| `stable_keys` | two CVIs sharing one key, up to two objects per message, lag 1, one crash, INSERTs that fail before or after the write; Redis answers, identities stable | `TypeOK`, `OnePenaltyPerVisit`, `RowsInReachedCycles`, `HolderKeepsActiveKey`, `LedgerSpec`: the service implements `PenaltyLedger`, and `RegistrySpec`: its CVIs implement `CviRegistry` |
| `drifting_keys` | one CVI, two zones of which one at a time is enabled, two fallback keys and a plate, Redis and the INSERT may be refused, commits may fail | `PenaltySpacing`, `ActiveKeyHasRow` |
| `message_loss` | two CVIs, two zones of which one or both may be disabled, a crash, INSERTs that fail; `FairSpec` | `MessageCommitted` |
| `ocr_votes` | one CVI, two requests, a majority of 2; publications refused or lost, uploads refused, a recogniser that raises; one death of violation-service, SIGTERM, or rebalance of `snapshot_stored` | `TypeOK`, `DistinctReadings`, and `ElectionSpec`: the round trip implements `PlateElection` |
| `ocr_faults` | one CVI, two requests; one crash of any process or rebalance of any group, uploads refused or lost; `FairSpec` | `OneOcrRequestPerSnapshot`, `CropsKept`, `ResponseAnnounced`, `OcrRequestAnswered`, `PendingResolved` |
| `cvi_matching` | two vehicles that look alike, three places of which neighbours overlap, two track ids that go from one to the other, embeddings that may be missing, frames that are late or lost, eviction | `TypeOK`, `MixedOnlyIfMet`, `ParkedKeepsCvi`, and `RegistrySpec`: the manager implements `CviRegistry` |
| `penalty_card` | two violations, two requests in flight, one review, two requests for a card, one kill or SIGTERM, failures at every await, a deleted camera; `FairSpec` | `TypeOK`, `CardsAreStored`, `AnnouncedOnce`, `DecisionStands`, `RequestServed`, and `LifecycleSpec`: the services implement `CardLifecycle` |
| `operator_edits` | one camera, one zone, two requests in flight, five edits, failed refreshes, one restart of violation-service | `TypeOK`, `ZonesHaveCamera`, `AuditKnowsExistence`, `CreatedOnce`, `EditsInForce` |
| `frame_tap` | two cameras of which any may be disabled, batches in any order, a queue of two, rings of two, three frames per camera | `TypeOK`, `DetectionNamesCamera`, `DropsCounted`, `RingFindsCaptured`, `RightWhileAligned` |

The passing runs stop by design at `MaxTime`, and when `Cvis`, `Requests`, the
edits or the frames are used up, hence `CHECK_DEADLOCK FALSE`.

Three runs state what a document, comment or caller says and are violated by the
code:

| Run | Property | What happens |
|---|---|---|
| `second_penalty` | `OnePenaltyPerVisit` | the plate stabilises after the first row; leave, re-enter within the grace period, and `_fire_violation` writes a row under the new identity for the same visit |
| `foreign_key` | `ActiveKeyHasRow` | `violations.cvi_id` references `cvi_records`, which nothing writes; the `IntegrityError` is taken for a duplicate |
| `wrong_frame` | `SnapshotOfCamera` | the first of three cameras has no frame in a batch; the second one's ring gets the third one's picture, because the surface is looked up by pad |

### Departures without a run of their own

The models have these behaviours too; each contradicts a comment or a document,
or is what a property had to leave room for.

*violation-service.*  After a restart a vehicle is skipped on its active key and
leaves as `exit_no_violation`: its key is not released and its cycle not bumped
(state_machine.py:127, "Drop the active_violation registry row so a re-entry
after cooldown starts fresh").  A failed commit ends `consume()` while the
process stays up (main.py:187), which `message_loss` excludes with
`CommitOutcomes`.  `ReEnter` resumes a visit however long the vehicle was unseen
(state_machine.py:117).  The end of a cooldown bumps the cycle of the identity that
the CVI has then (state_machine.py:169): if that is no longer the one of the row,
the row's identity stays in its cycle, where its next visits are taken for
duplicates.  `FireRaise` drops the other objects of the message, whose
offset is then committed (main.py:178).

*OCR round trip.*  plate-service dies between its result and its commit, and the
second result of one snapshot is one more vote (ocr_results_consumer.py:11 wants
replays idempotent); snapshot-consumer dies behind the unlink, and the stored
snapshot is announced as `no_file` (uploader.py:149); a SIGTERM cancels its
handler, and `finally` commits (main.py:128), and a recogniser that raises leaves a
committed request without a result (plate-service/src/main.py:153).  `CropsKept`
holds with all of these: what is lost is the announcement or the reading, not the
picture.  `ocr_votes` and `ocr_faults` each
leave out the faults that break what they check (`Crashable`, `Stoppable`,
`Rebalanced`, `RecogniserRaises`, and the outcomes of sending and uploading).  A
request whose messages are refused, or that is registered after its answer was
handled, stays in `_pending`, hence the premise of `PendingResolved`.

*Penalty cards.*  A kill between `write_card_url` and `send_json` leaves a card
that is never announced (penalty-card-service/src/main.py:156 and 203).  A
decision that came before the card is overwritten by `card_issued`
(db_queries.py:100), so `DecisionStands` speaks of what comes after it.
`card_issued` is no `ViolationStatus` (shared/schemas.py:65): `_to_out` raises on
the row, and with it every list that has the row (routers/violations.py:68).  A
`KafkaError` ends `consume()` here as well, which `FairSpec` excludes.
routers/violations.py:15 announces a WebSocket frame "on every new violation
committed by violation-service", but no service publishes to that topic.

*Operator edits.*  A request that changes nothing in a row that was deleted
meanwhile commits its audit row and then fails in `refresh`, and the second of
two deletions commits one too (audit.py:6, "we never want a phantom audit row
for a failed write"): the log tells what exists, but not one entry per change.
The `after` of an update is what its request loaded and set, not the row that
the updates of two requests leave (models/audit_log.py:12).  A second DELETE
removes the row by its id, also one that was created in between.

*Frames.*  With a disabled camera in front of it a camera's pad is not its slot:
the tap, which takes pads for slots, keeps no frames of it or files them under
another camera; `RightWhileAligned` says when this cannot happen.  Frame 0
cannot be asked for (`wanted_frame_id != 0`).  A snapshot that is asked for
between the two probes finds the frame before.  snapshot_consumer.cpp does not
look at what `produce_json` returns, and `KafkaProducer::stop` gives up after
five seconds.

*Identity.* Observations carry no plate (observation.py:57), so priority 1 of
`_match` never applies: a vehicle that was hidden for longer than the spatial
window, and comes back with a new track id and without an embedding, gets a new
CVI although its plate is known (tests/test_duplicate_prevention.py:9, "Plate
match survives tracker reset", gives its observations plates).  A single spatial
candidate is taken whatever it looks like, also when another detection of the same
frame has just been given that CVI: vehicles whose boxes overlap may share one
(cvi_manager.py:188).  Priority 3 takes a look-alike anywhere on the camera for the
vehicle of a CVI seen in the last 30 seconds, also when that vehicle is in the same
frame and still parked: the CVI follows the look-alike, and the parked vehicle gets
another (cvi_manager.py:196).  `_pick_by_embedding` returns the best of
several spatial candidates however little it resembles the observation
(cvi_manager.py:254 has the threshold, and ignores it). In `_index_plate` a CVI
stays under the plates it had before; nothing reads that index.  A tracker that
hands a vehicle the id of another one within two seconds makes priority 4 follow
it.  All of this is in `met`, and what the two properties of `CviMatching` leave
room for.

**Bounds.** `MaxTime` covers a whole incident and the next one: enter, threshold,
leave, confirmed exit, cooldown, fire again (6 units with every time at 1;
`drifting_keys` has 7 and a cooldown of 2).  Two CVIs are enough for one to be
skipped on the other's key and for one to take over after a restart.  `MaxCrashes
= 1` and `MaxLag = 1` give a redelivery and an eviction of a CVI the handler still
holds.  `Majority = 1` and `MaxVotes = 1` let the plate appear at every point of a
visit; the vote itself does not depend on the bound.  `MaxObjects` is 2 where the
order of objects matters.  In `drifting_keys` a visit can be penalised, its zone
disabled and enabled, and the next penalty come in time 7.  In the runs with one
zone that stays enabled, to disable it would be to skip messages, as `Poll` may
anyway.  In the OCR runs two requests are the smallest number that makes a
majority of 2, and one fault (`MaxFaults`) is all that it takes to deliver, lose
or repeat a message.  The votes of two requests cannot tie above the
majority; for ties there are the proofs of `MajorityElects` and
`OcrImplementsElection`, which know no bound.  In `penalty_card` two requests for cards, of
one violation or of two, and a review meet each other and the card at every step;
`MaxStops = 1` redelivers a request at every step.  In `operator_edits` five edits
create, delete and create again while two requests are in flight; `Ttl` and
`QueryTime` are the smallest that tell "within the TTL" from "behind it", and
`MaxTime` gives two refreshes behind that of the start.  In `frame_tap` a queue of two fills up
within one batch, a ring of two wraps around with the third frame, and two cameras
are enough for a disabled one in front of an enabled one; `wrong_frame` needs the
third.  In `cvi_matching` four units of time are longer than each window and than
`MaxIdle`, of three places the outer two do not overlap, two CVIs let a vehicle split
or another one take over, and `MaxSightings = 3` observations within an
`EmbeddingWindow` are a parked vehicle that is seen twice and one that passes by.

**Fairness.**  `FairSpec` assumes that the event loop runs a handler that can
run (`WF(HandlerStep)`: a handler never waits for another task, its awaits end
with an answer or an exception) and that docker restarts the container
(`restart: unless-stopped`).  Nothing is assumed of the cameras, of
plate-service, or of time passing.  `OcrPipeline`'s `FairSpec` assumes that each
consume loop goes on with its next message, and the poll loop with its
candidates; nothing of commits, evictions or faults.  `PenaltyCards`' `FairSpec`
assumes that its consume loop goes on and its awaits end; nothing of event-api.
(docker-compose.yml has the restart policy for the services it lists;
plate-service and snapshot-consumer, announced there at line 570, are taken to
get the same.)  Symmetry (of the CVIs, the
requests, and the zones where all are alike) is used for safety properties only.

## 4. Proofs

Proved with TLAPS for all values of the constants:

* `TypeCorrect` (`Spec => []TypeOK`).  The type invariant alone is not inductive:
  advancing to the next object needs `obj` within the message, firing needs the
  entry to be `INSIDE_ZONE` with an `entered_at`, the confirmed exit needs an
  `exit_candidate_at`.  `Shape` adds these: `HandlerOK` (control state and
  message), `EntryOK` (the fields an entry has in each state, nothing from the
  future) and `MessageOK`.  `TypeStep` and `ShapeStep` go through the actions.
* `PenaltiesSpaced` (`Spec => []PenaltySpacing` when `"lost" \notin DbOutcomes`).
  The invariant `SpacingInv` knows of every penalty of a CVI in hand (live, or
  held by the handler: the eviction may take a CVI from under it) on which side
  of the end of its visit the entry is: *open* (the entry is that visit, has a
  `violation_id`, and its exit and cooldown times are late enough) or *closed*
  (the entry's visit, if any, began after the cooldown).  The hypothesis is
  needed: an INSERT whose reply is lost leaves a row of which the entry knows
  nothing, so its exit starts no cooldown.

* `ActiveKeysHaveRows` (`Spec => []ActiveKeyHasRow` when `~FkEnforced`).
  `KeyRowInv` adds that behind the INSERT, before the key is set, the identity in
  hand has a row: its own, or the one it conflicted with.

* `VisitsPenalisedOnce`, `CyclesReached` and `ServiceImplementsLedger`
  (`Spec => []OnePenaltyPerVisit`, `Spec => []RowsInReachedCycles`,
  `Spec => LedgerSpec`) under `StableIdentity` (no drift, no plate) and
  `ReliableRedis`; the database may do anything, the process may die and be
  restarted, CVIs may be evicted while the handler holds them.  The argument: as
  far as penalties go a step is `Quiet`, writes a row (`Inserted`), or closes a
  cycle (`CycleClosed`) - lemma `Effects`.  The invariant `LedgerInv` says that
  keys are those the CVIs were created with (`KeyInv`), that rows are older than
  any visit that begins now (`RowsPast`), that the row of the visit an entry is
  in is of the *current* cycle (`VisitCycle`), and that an entry's `violation_id`
  is the row of its own visit (`ViolationRow`).  Then a second row for a visit
  would conflict with the first, and a cycle is closed only by the one CVI whose
  row is of that cycle (`UniqueIds`), whose visit ends with it.  `stable_keys`
  checks the same on its instance; `second_penalty` shows why the identity has to
  be stable.

* `HoldersKeepKeys` (`Spec => []HolderKeepsActiveKey`), on top of `LedgerInv` and
  under the same hypotheses.  `KeyKept` gives the key of a row from the end of
  `FireMark` to the confirmed exit of the CVI that has the row as its
  `violation_id`; a key is cleared by an entry that has a row of that key, in the
  current cycle, and by `UniqueIds` that is the same row.  Lemma `KeySteps` names
  the two steps that touch a key.

* `ServiceImplementsRegistry` (`Spec => RegistrySpec`), without hypotheses.
  `SeenInv` says that no CVI in memory was seen later than the newest message;
  lemma `CviSteps` names the steps that touch the CVIs at all, and the
  matching window of `Resolve` and the strict comparison of `EvictStale` give the
  two conditions of the registry.

* `ElectedWithMajority`: a vote changes the plate only to one with a majority,
  and with at least as many votes as any other.  `MajorityElects` is the converse:
  a majority is never missed, although `record_plate_vote` looks only at the first
  of `most_common`.  `SomePlateLeads` finds the one with the most votes whose first
  vote came first; the maximum and the minimum exist because the votes are bounded
  by the length of the list and `<` is well-founded (`LeastNumber`), no induction
  over the list is needed.
* `OcrPipelineProofs!TypeCorrect` (`Spec => [](TypeOK /\ Shape)`): `Shape` adds
  that results carry plates, that the response in work is not handled yet, and
  that a published request knows its CVI.
* `SnapshotsReadOnce` (`Spec => []OneOcrRequestPerSnapshot`), without any
  hypothesis.  `OnceInv`: a request is unused, or on its way into `_pending`, or
  in it, and then no OCR request was sent for it; the pop ends that.  Lemma
  `AskingFrame` names the only steps that touch this.
* `PlateByDistinctSnapshots` (`Spec => []DistinctReadings` under
  `OnceDelivered`: plate-service does not die, and the groups of `ocr_requests`
  and `ocr_results` are not rebalanced).  `VotingInv` says that the two topics
  hold one message per snapshot (`ReadOnce`, on top of `OnceInv`), that a result
  to come has not voted yet and no two votes are of one snapshot (`VotedOnce`),
  and that a plate has its majority (`Elected`); votes and snapshots are then in
  bijection (`SnapshotsAreVotes`).  violation-service may die: it loses the
  ballots with its CVIs.
* `OcrImplementsElection` (`Spec => ElectionSpec` under `OnceDelivered`).  By
  `VotingInv` a result that is counted is the first of its snapshot, so the votes
  as a list and as a set of readings are in bijection (`SupportIsVotes`), and what
  leads in one leads in the other; `VoteSimulation` rests on `MajorityElects` and
  `ElectedWithMajority`.
* `CropsSurvive` (`Spec => []CropsKept`), without any hypothesis: all processes may
  die, all groups be rebalanced, all replies be lost.  The invariant adds `InHand`:
  snapshot-consumer unlinks, and announces success, only for a crop that is in
  MinIO.  `CropFrame` names the four steps that touch a crop.
* `PenaltyCardsProofs`: `TypeCorrect`, `CardsStored`, `CardsAnnouncedOnce`,
  `DecisionsStand`.  The invariant `CardInv` ties the step of the handler to what it has
  done: behind `Store` the PDF is in the bucket, only a handler that has found
  no card gets there, and one that announces is behind its own URL - so a card
  that was announced is a card that the next `Receive` finds, unless the row is
  gone, which cannot come back.  `CardsImplementLifecycle` (`Spec =>
  LifecycleSpec`) rests on the same invariant: `WritesInOrder` says that a handler
  that stores or writes the URL has found no card, and one that announces has a
  PDF whose card was not announced, or that the row is gone.
* `OperatorEditsProofs`: `ZonesHaveCameras`, `AuditTruthful`,
  `CamerasCreatedOnce`, without hypotheses.  `EditsInv` adds that zone ids are
  used once, and that the log has the camera of each (`ZonesLogged`).  Lemmas
  `CameraLoggedStep` and `ZoneLoggedStep` say what one more entry does to
  what the log tells; `WriteStep` reduces every transaction to the question
  whether its entry tells what it did to the tables.  Nothing is assumed of what
  a request has loaded but the camera of a zone, which no edit changes.
  `EditsTakeEffect` (`Spec => []EditsInForce`) rests on `FreshInv`: the rows a
  query has read, and those in the cache, are the zones in force, or were edited
  after the instant they are of.  `TypeCorrect` needs both invariants: they
  have the types of the tables and of the clock, and that a query knows its camera.
* `CviMatchingProofs`, all without hypotheses on the scene, the look of the vehicles
  or the lag of the frames: `TypeCorrect`, `MatchesWithinWindow` (`Spec =>
  [][...]_vars`) and `MatchingImplementsRegistry` (`Spec => RegistrySpec`).  For the
  last, `SeenInv` says that no CVI was seen later than the newest frame, which a
  match needs to be a step forward in time, and `RegistrySimulation` goes through
  the actions.
  `VehiclesToldApart` (`Spec => []MixedOnlyIfMet`): `IdentityInv` ties what a CVI
  remembers, for as long as the longest window, to a sighting of a vehicle it was
  given (`Traced`), and says that the history has noticed every pair of sightings
  that a rule could confuse (`Noticed`); then a rule that fires has found a CVI of
  the same vehicle, one of a vehicle that was met, or a mixture, which has its
  meeting already (`MatchExplained`).
  `ParkedVehiclesKept` (`Spec => []ParkedKeepsCvi`): `StayInv` adds, for a vehicle
  that met no other, that its CVI has been given no one else's observations and has
  its last sighting, unless it is too old for the stay to go on (`Remembered`),
  and that other CVIs which are recent have last seen another vehicle
  (`Unrivalled`), whose box is elsewhere.  So the CVI is the only spatial candidate
  of the next sighting (`StayGoesOn`), and others are kept out of it
  (`OthersKeptOut`).  A stay goes on only within `SpatialWindow`, and before the
  wall clock is `MaxIdle` behind the last sighting (`Unmoved`): with later frames the
  eviction comes first, and the parked vehicle does get a new CVI.
* `FrameTapProofs`: `DetectionsNamed`, from an invariant of the index that
  `BuildCamera` makes (`padToSlot` and `idByPad` compose to the list of
  cameras); `RingsFindCaptured`, for every capacity: the slots of a ring are the
  last captured frames, at their number modulo the capacity (`SlotsDistinct`:
  among the last `Capacity` numbers no two share a slot), so the first match of
  the scan is the first match among them; `LossesCounted` (`Spec =>
  []DropsCounted`): by `Published` the messages in the queue and in the topic are of
  frames numbered before those of the batch in hand, so the probe adds messages
  that are new, and the counts add up (`CountInv`).  `SnapshotsRight` (`Spec =>
  []RightWhileAligned`): while batches are aligned, the slots of the
  cameras are their pads (`SlotsArePads`), a surface is that of its pad, and what
  the tap encodes is the frame itself (`ShowsItself`); what a request finds was
  captured (`WantedIsOne`).  `TypeCorrect` is the type invariant.

Assumptions on the constants are named in the modules that declare them, and
evaluated by TLC in every run.

Only model-checked: `MessageCommitted`, `ResponseAnnounced`,
`OcrRequestAnswered`, `PendingResolved`, `RequestServed` (liveness is out of the
prover's reach).

## 5. Not modelled, and the plan

Left out for good: the recogniser, the embedding network, geometry and plate
normalisation (numerical or string code), GStreamer plumbing, the frontend,
dashboards and scripts; the WebSocket fan-out, which has nothing to relay.

Not modelled yet: **edits of a zone's times during an incident**.  Threshold, grace
period and cooldown are constants; `ViolationService` only lets zones be enabled
and disabled.
