--------------------------- MODULE ViolationService ---------------------------
(***************************************************************************)
(* The penalty decision of violation-service, for the detections partition *)
(* of one camera (the partition key is the camera id, and every key of     *)
(* Redis and of the violations table carries it, so cameras share no       *)
(* state).                                                                 *)
(*                                                                         *)
(* One asyncio process runs                                                *)
(*   - the detections consumer: poll a message, resolve each object to a   *)
(*     CVI, advance the state machine of every (CVI, zone), commit;        *)
(*   - the ocr_results consumer, which votes on the plate of a CVI;        *)
(*   - the eviction loop.                                                  *)
(* They interleave at the awaits of the detections handler, whose control  *)
(* state is h.  The process may be killed between any two steps: memory is *)
(* lost, Redis, the database and the uncommitted message are not.          *)
(***************************************************************************)
EXTENDS Integers, PlateVotes

CONSTANTS
    Cvis,           \* cvi_ids; each is handed out at most once (uuid4)
    Zones,          \* the zones of the camera
    ZoneSets,       \* what zones_for_camera may return: zones are enabled and disabled
    FallbackKeys,   \* identity keys of a CVI without a plate: emb:..., track:...
    Threshold,      \* zone.threshold_seconds
    ExitConfirm,    \* zone.exit_confirm_seconds
    Cooldown,       \* zone.cooldown_seconds
    ActiveTtl,      \* ACTIVE_TTL_SECONDS of an active_violation key
    FrameGap,       \* the least distance of two detection timestamps of a camera
    MatchWindow,    \* the longest gap after which an observation still matches
    EvictIdle,      \* max_idle_seconds of evict_stale
    IdentityDrift,  \* TRUE: the quantised embedding of a CVI may change
    OcrEnabled,     \* TRUE: ocr_results carries readings for live CVIs
    FkEnforced,     \* TRUE: the database enforces violations.cvi_id (migrations)
    RedisOutcomes,  \* what a Redis call may do: "ok", "refused", "lost" (reply)
    DbOutcomes,     \* what an INSERT may do: "ok", "refused", "lost" (reply)
    CommitOutcomes, \* what an offset commit may do: "ok", "failed"
    MaxTime, MaxLag, MaxObjects, MaxVotes, MaxCrashes  \* bounds of a run

ASSUME TimesAssumption ==
    /\ {Threshold, ExitConfirm, Cooldown, ActiveTtl} \subseteq Nat \ {0}
    /\ {FrameGap, MatchWindow, EvictIdle} \subseteq Nat
ASSUME OutcomesAssumption ==
    /\ "ok" \in RedisOutcomes /\ RedisOutcomes \subseteq {"ok", "refused", "lost"}
    /\ "ok" \in DbOutcomes /\ DbOutcomes \subseteq {"ok", "refused", "lost"}
    /\ "ok" \in CommitOutcomes /\ CommitOutcomes \subseteq {"ok", "failed"}
ASSUME FlagsAssumption == {IdentityDrift, OcrEnabled, FkEnforced} \subseteq BOOLEAN
ASSUME SetsAssumption ==
    /\ Zones # {} /\ ZoneSets \subseteq SUBSET Zones
    /\ FallbackKeys # {} /\ FallbackKeys \cap Plates = {}
ASSUME NoneAssumption ==
    /\ None \notin FallbackKeys \cup Cvis \cup Zones
    /\ None \notin Nat
    /\ None \notin [ts : Nat, zones : SUBSET Zones, objects : Seq(SUBSET Zones)]
    /\ None \notin [ident : Plates \cup FallbackKeys, cycle : Nat]
ASSUME BoundsAssumption ==
    /\ {MaxTime, MaxLag, MaxVotes, MaxCrashes} \subseteq Nat
    /\ MaxObjects \in Nat \ {0}

VARIABLES
    clock,          \* wall-clock time, in the unit of the timestamps
    lastTs,         \* timestamp of the newest message of the partition
    msg,            \* the uncommitted message of the partition, or None; its zones
                    \* are the ones it is judged by
    h,              \* control state of the detections handler
    live,           \* CVIManager._cvis
    created,        \* the cvi_ids handed out so far
    ballot,         \* CVI.plate_votes
    plate,          \* CVI.plate_text
    fallback,       \* the identity key of the embedding centroid or track id
    lastSeen,       \* CVI.last_seen
    entry,          \* CVI.state_per_zone
    localActive,    \* ActiveViolationRegistry._fallback_active
    localCycle,     \* ActiveViolationRegistry._fallback_cycle
    redisActive,    \* active_violation keys: the instant each expires
    redisCycle,     \* cycle keys
    rows,           \* the violations table
    crashes         \* kills of the process so far, for MaxCrashes only

cviVars   == <<live, created, ballot, plate, fallback, lastSeen>>
localVars == <<localActive, localCycle>>
redisVars == <<redisActive, redisCycle>>
vars == <<clock, lastTs, msg, h, cviVars, entry, localVars, redisVars, rows, crashes>>

-------------------------------------------------------------------------------
(* State *)

Keys   == Plates \cup FallbackKeys
States == {"OUTSIDE", "INSIDE_ZONE", "EXIT_CANDIDATE", "VIOLATED", "COOLDOWN"}
Steps  == {"down", "idle", "object", "zone", "firing", "inserting", "marking",
           "commit", "stopped"}

\* What the unique constraint identifies a row by, besides the zone; it also
\* stands for the row's id.
RowIds == [ident : Keys, cycle : Nat]

Entries == [state : States, entered : Nat \cup {None}, exitAt : Nat \cup {None},
            coolUntil : Nat \cup {None}, violation : RowIds \cup {None},
            lastKey : Keys \cup {None}]

Rows == [zone : Zones, ident : Keys, cycle : Nat, cvi : Cvis,
         first : Nat, at : Nat, plate : Plates \cup {None}]

\* An object of a message is the set of the zones that contain its centroid.
Messages == [ts : Nat, zones : SUBSET Zones, objects : Seq(SUBSET Zones)]

Handlers == [step : Steps, obj : Nat, cvi : Cvis \cup {None}, todo : SUBSET Zones,
             zone : Zones \cup {None}, ident : Keys \cup {None}, cycle : Nat,
             plate : Plates \cup {None}]

At(step) == [step |-> step, obj |-> 1, cvi |-> None, todo |-> {}, zone |-> None,
             ident |-> None, cycle |-> 0, plate |-> None]

NewEntry == [state |-> "OUTSIDE", entered |-> None, exitAt |-> None,
             coolUntil |-> None, violation |-> None, lastKey |-> None]

NoEntries == [c \in Cvis |-> [z \in Zones |-> NewEntry]]

RowId(r) == [ident |-> r.ident, cycle |-> r.cycle]

\* get_violation_identity: plate_text is set only by a majority of votes.
Identity(c) == IF plate[c] # None THEN plate[c] ELSE fallback[c]

Init ==
    /\ clock = 0 /\ lastTs = 0 /\ msg = None
    /\ h = At("idle")
    /\ live = {} /\ created = {}
    /\ ballot = [c \in Cvis |-> <<>>]
    /\ plate = [c \in Cvis |-> None]
    /\ fallback \in [Cvis -> FallbackKeys]
    /\ lastSeen = [c \in Cvis |-> 0]
    /\ entry = NoEntries
    /\ localActive = {}
    /\ localCycle = [z \in Zones |-> [k \in Keys |-> 0]]
    /\ redisActive = [z \in Zones |-> [k \in Keys |-> 0]]
    /\ redisCycle = [z \in Zones |-> [k \in Keys |-> 0]]
    /\ rows = {}
    /\ crashes = 0

-------------------------------------------------------------------------------
(* The active-violation registry (active_registry.py) *)

\* mark_active: the process-local entry always, then SET key EX 3600.
MarkActive(z, k) ==
    /\ localActive' = localActive \cup {<<z, k>>}
    /\ \E o \in RedisOutcomes :
         redisActive' = IF o = "refused" THEN redisActive
                        ELSE [redisActive EXCEPT ![z][k] = clock + ActiveTtl]
    /\ UNCHANGED <<localCycle, redisCycle>>

\* clear: the process-local entry always, then DEL key.
ClearActive(z, k) ==
    /\ localActive' = localActive \ {<<z, k>>}
    /\ \E o \in RedisOutcomes :
         redisActive' = IF o = "refused" THEN redisActive
                        ELSE [redisActive EXCEPT ![z][k] = 0]
    /\ UNCHANGED <<localCycle, redisCycle>>

\* bump_cycle: the process-local counter always, then INCR key.
BumpCycle(z, k) ==
    /\ localCycle' = [localCycle EXCEPT ![z][k] = @ + 1]
    /\ \E o \in RedisOutcomes :
         redisCycle' = IF o = "refused" THEN redisCycle
                       ELSE [redisCycle EXCEPT ![z][k] = @ + 1]
    /\ UNCHANGED <<localActive, redisActive>>

\* is_active and current_cycle, when the Redis call has outcome o.
IsActive(z, k, o) ==
    IF o = "ok" THEN redisActive[z][k] > clock ELSE <<z, k>> \in localActive
CycleUnset(z, k, o) ==    \* mutant: an absent counter is not read as 0
    IF redisCycle[z][k] = 0 THEN None ELSE redisCycle[z][k]
CycleAhead(z, k, o) == redisCycle[z][k] + 1    \* mutant: off by one
CurrentCycle(z, k, o) ==
    IF o = "ok" THEN redisCycle[z][k] ELSE localCycle[z][k]

-------------------------------------------------------------------------------
(* The detections consumer (main.py consume, cvi_manager.py resolve) *)

MatchesEver(c, ts) == c \in live    \* mutant: no window

\* A CVI that _match may pick for an observation made at ts.
Matches(c, ts) == c \in live /\ ts - lastSeen[c] <= MatchWindow

\* The handler starts a message.  One without objects or zones (an empty frame,
\* an invalid message, a zone cache that cannot be refreshed) is committed
\* straight away.
Begin(m) == IF m.objects = <<>> \/ m.zones = {} THEN At("commit") ELSE At("object")

\* The next message of the partition; timestamps never go back.
Poll ==
    /\ h.step = "idle" /\ msg = None
    /\ \E ts \in lastTs + FrameGap .. clock, n \in 0 .. MaxObjects :
         /\ clock - ts <= MaxLag
         /\ created # Cvis \/ \E c \in live : Matches(c, ts)   \* Cvis is finite
         /\ \E objects \in [1 .. n -> SUBSET Zones], zones \in ZoneSets :
              msg' = [ts |-> ts, zones |-> zones, objects |-> objects]
         /\ lastTs' = ts
    /\ h' = Begin(msg')
    /\ UNCHANGED <<clock, cviVars, entry, localVars, redisVars, rows, crashes>>

\* After a restart the consumer resumes at the uncommitted message, and judges
\* it by the zones that are enabled now.
Redeliver ==
    /\ h.step = "idle" /\ msg # None
    /\ \E zones \in ZoneSets : msg' = [msg EXCEPT !.zones = zones]
    /\ h' = Begin(msg')
    /\ UNCHANGED <<clock, lastTs, cviVars, entry, localVars, redisVars, rows, crashes>>

ResolvePruned(c) ==    \* mutant: entries of zones that are not enabled are dropped
    /\ h.step = "object"
    /\ Matches(c, msg.ts) \/ c \notin created
    /\ live' = live \cup {c}
    /\ created' = created \cup {c}
    /\ lastSeen' = [lastSeen EXCEPT ![c] = msg.ts]
    /\ \E k \in IF IdentityDrift THEN FallbackKeys ELSE {fallback[c]} :
         fallback' = [fallback EXCEPT ![c] = k]
    /\ entry' = [entry EXCEPT ![c] = [z \in Zones |-> IF z \in msg.zones THEN @[z] ELSE NewEntry]]
    /\ h' = [At("zone") EXCEPT !.obj = h.obj, !.cvi = c, !.todo = msg.zones]
    /\ UNCHANGED <<clock, lastTs, msg, ballot, plate, localVars, redisVars, rows, crashes>>

\* resolve: the object matches a CVI seen recently enough, or becomes a new one;
\* apply folds the observation in, which may move the embedding centroid.
Resolve(c) ==
    /\ h.step = "object"
    /\ Matches(c, msg.ts) \/ c \notin created
    /\ live' = live \cup {c}
    /\ created' = created \cup {c}
    /\ lastSeen' = [lastSeen EXCEPT ![c] = msg.ts]
    /\ \E k \in IF IdentityDrift THEN FallbackKeys ELSE {fallback[c]} :
         fallback' = [fallback EXCEPT ![c] = k]
    /\ h' = [At("zone") EXCEPT !.obj = h.obj, !.cvi = c, !.todo = msg.zones]
    /\ UNCHANGED <<clock, lastTs, msg, ballot, plate, entry, localVars, redisVars,
                   rows, crashes>>

\* The offset is committed whatever the handler did.  A KafkaError ends the
\* consume loop; the process stays up and nothing restarts the loop.
Commit ==
    /\ h.step = "commit"
    /\ \/ "ok" \in CommitOutcomes /\ msg' = None /\ h' = At("idle")
       \/ "failed" \in CommitOutcomes /\ msg' = msg /\ h' = At("stopped")
    /\ UNCHANGED <<clock, lastTs, cviVars, entry, localVars, redisVars, rows, crashes>>

-------------------------------------------------------------------------------
(* The state machine (state_machine.py _evaluate_zone): one observation of *)
(* the CVI h.cvi, made at msg.ts, against zone z.                          *)

\* The handler moves on: to the next zone, the next object, or the commit.
Advance(z) ==
    h' = IF h.todo # {z} THEN [At("zone") EXCEPT !.obj = h.obj, !.cvi = h.cvi,
                                                 !.todo = h.todo \ {z}]
         ELSE IF h.obj < Len(msg.objects) THEN [At("object") EXCEPT !.obj = h.obj + 1]
         ELSE At("commit")

Current(z)  == entry[h.cvi][z]
Inside(z)   == z \in msg.objects[h.obj]
SetEntry(z, e) == entry' = [entry EXCEPT ![h.cvi][z] = e]
Evaluates(z) == h.step = "zone" /\ z \in h.todo

Enter(z) ==
    /\ Evaluates(z) /\ Inside(z)
    /\ Current(z).state = "OUTSIDE"
    /\ SetEntry(z, [Current(z) EXCEPT !.state = "INSIDE_ZONE", !.entered = msg.ts,
                                      !.exitAt = None])
    /\ Advance(z)
    /\ UNCHANGED <<clock, lastTs, msg, cviVars, localVars, redisVars, rows, crashes>>

Leave(z) ==
    /\ Evaluates(z) /\ ~Inside(z)
    /\ Current(z).state \in {"INSIDE_ZONE", "VIOLATED"}
    /\ SetEntry(z, [Current(z) EXCEPT !.state = "EXIT_CANDIDATE", !.exitAt = msg.ts])
    /\ Advance(z)
    /\ UNCHANGED <<clock, lastTs, msg, cviVars, localVars, redisVars, rows, crashes>>

ReEnterAnew(z) ==    \* mutant: the re-entry resets entered_at
    /\ Evaluates(z) /\ Inside(z)
    /\ Current(z).state = "EXIT_CANDIDATE"
    /\ SetEntry(z, [Current(z) EXCEPT !.state = "INSIDE_ZONE", !.exitAt = None,
                                      !.entered = msg.ts])
    /\ Advance(z)
    /\ UNCHANGED <<clock, lastTs, msg, cviVars, localVars, redisVars, rows, crashes>>

\* Re-entry during the grace period: entered_at is kept.
ReEnter(z) ==
    /\ Evaluates(z) /\ Inside(z)
    /\ Current(z).state = "EXIT_CANDIDATE"
    /\ SetEntry(z, [Current(z) EXCEPT !.state = "INSIDE_ZONE", !.exitAt = None])
    /\ Advance(z)
    /\ UNCHANGED <<clock, lastTs, msg, cviVars, localVars, redisVars, rows, crashes>>

ExitDue(z) ==
    /\ Evaluates(z) /\ ~Inside(z)
    /\ Current(z).state = "EXIT_CANDIDATE"
    /\ msg.ts - Current(z).exitAt >= ExitConfirm

\* A confirmed exit after a row was written starts the cooldown.
ConfirmExit(z) ==
    /\ ExitDue(z) /\ Current(z).violation # None
    /\ SetEntry(z, [Current(z) EXCEPT !.state = "COOLDOWN",
                                      !.coolUntil = msg.ts + Cooldown])
    /\ IF Current(z).lastKey # None THEN ClearActive(z, Current(z).lastKey)
       ELSE UNCHANGED <<localVars, redisVars>>
    /\ Advance(z)
    /\ UNCHANGED <<clock, lastTs, msg, cviVars, rows, crashes>>

ExitAndClear(z) ==    \* mutant: the exit releases the key of another CVI's row
    /\ ExitDue(z) /\ Current(z).violation = None
    /\ SetEntry(z, NewEntry)
    /\ IF Current(z).lastKey # None THEN ClearActive(z, Current(z).lastKey)
       ELSE UNCHANGED <<localVars, redisVars>>
    /\ Advance(z)
    /\ UNCHANGED <<clock, lastTs, msg, cviVars, rows, crashes>>

ExitAndBump(z) ==    \* mutant: every confirmed exit opens a new cycle
    /\ ExitDue(z) /\ Current(z).violation = None
    /\ SetEntry(z, NewEntry)
    /\ BumpCycle(z, Identity(h.cvi))
    /\ Advance(z)
    /\ UNCHANGED <<clock, lastTs, msg, cviVars, rows, crashes>>

\* Without a row of its own the entry goes straight back to OUTSIDE.
ExitWithoutViolation(z) ==
    /\ ExitDue(z) /\ Current(z).violation = None
    /\ SetEntry(z, [Current(z) EXCEPT !.state = "OUTSIDE", !.entered = None,
                                      !.exitAt = None])
    /\ Advance(z)
    /\ UNCHANGED <<clock, lastTs, msg, cviVars, localVars, redisVars, rows, crashes>>

\* The cooldown is over: the cycle of the identity the CVI has NOW is bumped.
EndCooldown(z) ==
    /\ Evaluates(z)
    /\ Current(z).state = "COOLDOWN" /\ msg.ts >= Current(z).coolUntil
    /\ BumpCycle(z, Identity(h.cvi))
    /\ SetEntry(z, [Current(z) EXCEPT
                      !.state = IF Inside(z) THEN "INSIDE_ZONE" ELSE "OUTSIDE",
                      !.entered = IF Inside(z) THEN msg.ts ELSE None,
                      !.exitAt = None, !.violation = None, !.lastKey = None])
    /\ Advance(z)
    /\ UNCHANGED <<clock, lastTs, msg, cviVars, rows, crashes>>

Matured(z) ==
    /\ Evaluates(z) /\ Inside(z)
    /\ Current(z).state = "INSIDE_ZONE"
    /\ msg.ts - Current(z).entered >= Threshold

\* No transition: the observation confirms the state the entry is in.
Stay(z) ==
    /\ Evaluates(z)
    /\ \/ Current(z).state = "OUTSIDE" /\ ~Inside(z)
       \/ Current(z).state = "INSIDE_ZONE" /\ Inside(z) /\ ~Matured(z)
       \/ Current(z).state = "EXIT_CANDIDATE" /\ ~Inside(z) /\ ~ExitDue(z)
       \/ Current(z).state = "VIOLATED" /\ Inside(z)
       \/ Current(z).state = "COOLDOWN" /\ msg.ts < Current(z).coolUntil
    /\ Advance(z)
    /\ UNCHANGED <<clock, lastTs, msg, cviVars, entry, localVars, redisVars, rows, crashes>>

-------------------------------------------------------------------------------
(* Firing (_fire_violation, violation_writer.py insert).  The identity is  *)
(* read first; the plate that goes into the row is read after two awaits.  *)

FireStart(z) ==
    /\ Matured(z)
    /\ h' = [h EXCEPT !.step = "firing", !.zone = z, !.ident = Identity(h.cvi)]
    /\ UNCHANGED <<clock, lastTs, msg, cviVars, entry, localVars, redisVars, rows, crashes>>

\* The identity already has an active violation: VIOLATED, but no row.
FireSkip ==
    /\ h.step = "firing"
    /\ \E o \in RedisOutcomes : IsActive(h.zone, h.ident, o)
    /\ SetEntry(h.zone, [Current(h.zone) EXCEPT !.state = "VIOLATED",
                                                !.lastKey = h.ident])
    /\ Advance(h.zone)
    /\ UNCHANGED <<clock, lastTs, msg, cviVars, localVars, redisVars, rows, crashes>>

FireBuild ==
    /\ h.step = "firing"
    /\ \E o \in RedisOutcomes : ~IsActive(h.zone, h.ident, o)
    /\ \E o \in RedisOutcomes :
         h' = [h EXCEPT !.step = "inserting", !.plate = plate[h.cvi],
                        !.cycle = CurrentCycle(h.zone, h.ident, o)]
    /\ UNCHANGED <<clock, lastTs, msg, cviVars, entry, localVars, redisVars, rows, crashes>>

Candidate ==
    [zone |-> h.zone, ident |-> h.ident, cycle |-> h.cycle, cvi |-> h.cvi,
     first |-> Current(h.zone).entered, at |-> msg.ts, plate |-> h.plate]

\* The rows that make the unique constraint reject r.
Conflicts(r) == {q \in rows : q.zone = r.zone /\ RowId(q) = RowId(r)}

\* violations.cvi_id refers to cvi_records, a table no service writes.
CviRecordMissing == FkEnforced

OnlyForeignKey(r) == CviRecordMissing    \* mutant: no unique constraint

\* IntegrityError: a duplicate, or a failed foreign key.
Rejected(r) == CviRecordMissing \/ Conflicts(r) # {}

\* entry.violation_id after an insert that returned.
ViolationAfter(r) == IF Rejected(r) THEN Current(h.zone).violation ELSE RowId(r)

\* insert returns.  A rejected row is taken for a duplicate: created is FALSE
\* and the entry keeps the violation_id it had.
FireInsert ==
    /\ h.step = "inserting" /\ "ok" \in DbOutcomes
    /\ rows' = IF Rejected(Candidate) THEN rows ELSE rows \cup {Candidate}
    /\ SetEntry(h.zone, [Current(h.zone) EXCEPT
                           !.state = "VIOLATED", !.lastKey = h.ident,
                           !.violation = ViolationAfter(Candidate)])
    /\ h' = [h EXCEPT !.step = "marking"]
    /\ UNCHANGED <<clock, lastTs, msg, cviVars, localVars, redisVars, crashes>>

RaiseAndMark ==    \* mutant: the key is marked although no row was written
    /\ h.step = "inserting" /\ "refused" \in DbOutcomes
    /\ h' = [h EXCEPT !.step = "marking"]
    /\ UNCHANGED <<clock, lastTs, msg, cviVars, entry, localVars, redisVars, rows, crashes>>

RaiseAndStop ==    \* mutant: the exception ends the consume loop
    /\ h.step = "inserting" /\ "refused" \in DbOutcomes
    /\ h' = At("stopped")
    /\ UNCHANGED <<clock, lastTs, msg, cviVars, entry, localVars, redisVars, rows, crashes>>

\* insert raises (the database is away, or answers too late): the exception
\* ends the message, the objects and zones that were left included.
FireRaise ==
    /\ h.step = "inserting"
    /\ \/ "refused" \in DbOutcomes /\ rows' = rows
       \/ /\ "lost" \in DbOutcomes
          /\ rows' = IF Rejected(Candidate) THEN rows ELSE rows \cup {Candidate}
    /\ h' = At("commit")
    /\ UNCHANGED <<clock, lastTs, msg, cviVars, entry, localVars, redisVars, crashes>>

FireMark ==
    /\ h.step = "marking"
    /\ MarkActive(h.zone, h.ident)
    /\ Advance(h.zone)
    /\ UNCHANGED <<clock, lastTs, msg, cviVars, entry, rows, crashes>>

-------------------------------------------------------------------------------
(* The other tasks of the process, and its environment *)

Running == h.step # "down"

\* A reading of plate p for CVI c arrives on ocr_results (apply_ocr_result).
ApplyOcr(c, p) ==
    /\ OcrEnabled /\ Running
    /\ c \in live /\ Len(ballot[c]) < MaxVotes
    /\ LET counted == Append(ballot[c], p) IN
         /\ ballot' = [ballot EXCEPT ![c] = counted]
         /\ plate' = [plate EXCEPT ![c] = PlateAfter(counted, @)]
    /\ UNCHANGED <<clock, lastTs, msg, h, live, created, fallback, lastSeen, entry,
                   localVars, redisVars, rows, crashes>>

\* One pass of the eviction loop: it compares wall-clock time with the
\* timestamp of the last observation.  The handler may still hold an evicted CVI.
EvictStale ==
    LET stale == {c \in live : lastSeen[c] < clock - EvictIdle} IN
    /\ Running /\ stale # {}
    /\ live' = live \ stale
    /\ UNCHANGED <<clock, lastTs, msg, h, created, ballot, plate, fallback, lastSeen,
                   entry, localVars, redisVars, rows, crashes>>

\* The process is killed, or cancelled by SIGTERM at an await.
Crash ==
    /\ Running /\ crashes < MaxCrashes /\ created # Cvis
    /\ crashes' = crashes + 1
    /\ h' = At("down")
    /\ live' = {}
    /\ ballot' = [c \in Cvis |-> <<>>]
    /\ plate' = [c \in Cvis |-> None]
    /\ lastSeen' = [c \in Cvis |-> 0]
    /\ entry' = NoEntries
    /\ localActive' = {}
    /\ localCycle' = [z \in Zones |-> [k \in Keys |-> 0]]
    /\ UNCHANGED <<clock, lastTs, msg, created, fallback, redisVars, rows>>

\* The container is restarted (restart: unless-stopped); nothing is restored
\* from Redis or the database.
Restart ==
    /\ h.step = "down"
    /\ h' = At("idle")
    /\ UNCHANGED <<clock, lastTs, msg, cviVars, entry, localVars, redisVars, rows, crashes>>

Tick ==
    /\ clock < MaxTime
    /\ clock' = clock + 1
    /\ UNCHANGED <<lastTs, msg, h, cviVars, entry, localVars, redisVars, rows, crashes>>

-------------------------------------------------------------------------------
Evaluate(z) ==
    \/ Enter(z) \/ Leave(z) \/ ReEnter(z) \/ ConfirmExit(z)
    \/ ExitWithoutViolation(z) \/ EndCooldown(z) \/ Stay(z) \/ FireStart(z)

Fire == FireSkip \/ FireBuild \/ FireInsert \/ FireRaise \/ FireMark

\* The steps that finish a message once it was polled.
HandlerStep ==
    \/ Redeliver \/ Fire \/ Commit
    \/ \E c \in Cvis : Resolve(c)
    \/ \E z \in Zones : Evaluate(z)

Next ==
    \/ Poll \/ HandlerStep
    \/ \E c \in Cvis, p \in Plates : ApplyOcr(c, p)
    \/ EvictStale \/ Crash \/ Restart \/ Tick

Spec == Init /\ [][Next]_vars

\* The event loop runs a task that can run, and docker restarts the container.
\* Nothing is assumed of the cameras, of plate-service or of the clock.
FairSpec == Spec /\ WF_vars(HandlerStep) /\ WF_vars(Restart)

-------------------------------------------------------------------------------
(* Properties *)

\* Types of all variables (the fields of every record included).
TypeOK ==
    /\ clock \in Nat /\ lastTs \in Nat /\ crashes \in Nat
    /\ msg \in Messages \cup {None}
    /\ h \in Handlers
    /\ live \subseteq created /\ created \subseteq Cvis
    /\ ballot \in [Cvis -> Seq(Plates)]
    /\ plate \in [Cvis -> Plates \cup {None}]
    /\ fallback \in [Cvis -> FallbackKeys]
    /\ lastSeen \in [Cvis -> Nat]
    /\ entry \in [Cvis -> [Zones -> Entries]]
    /\ localActive \subseteq Zones \X Keys
    /\ localCycle \in [Zones -> [Keys -> Nat]]
    /\ redisActive \in [Zones -> [Keys -> Nat]]
    /\ redisCycle \in [Zones -> [Keys -> Nat]]
    /\ rows \subseteq Rows

StableIdentity == ~IdentityDrift /\ ~OcrEnabled
ReliableRedis  == RedisOutcomes = {"ok"}

\* Two penalties of one CVI in one zone for different visits are at least the
\* exit confirmation, the cooldown and the parking threshold apart, whatever
\* happens to the identity, to Redis or to the process in between.
PenaltySpacing ==
    \A r, s \in rows :
        r.cvi = s.cvi /\ r.zone = s.zone /\ r.first < s.first =>
            s.at >= r.at + ExitConfirm + Cooldown + Threshold

\* A visit (a CVI in a zone since one entered_at) is penalised at most once.
OnePenaltyPerVisit ==
    \A r, s \in rows :
        r.cvi = s.cvi /\ r.zone = s.zone /\ r.first = s.first => r = s

\* An active_violation key stands for a row that was written.
ActiveKeyHasRow ==
    \A z \in Zones, k \in Keys :
        redisActive[z][k] > 0 \/ <<z, k>> \in localActive =>
            \E r \in rows : r.zone = z /\ r.ident = k

\* No row belongs to a cycle that was not reached yet: the row a bumped cycle
\* allows is never swallowed by an older one.
RowsInReachedCycles ==
    \A r \in rows : r.cycle <= redisCycle[r.zone][r.ident]

\* While the incident of a written row is open, its active key is kept for the
\* whole TTL: no other CVI, restart or exit releases it (state_machine.py
\* clears it only when the exit of this very entry is confirmed).
HolderKeepsActiveKey ==
    \A c \in live, z \in Zones :
        LET e == entry[c][z] IN
        /\ e.violation # None
        /\ e.state \in {"INSIDE_ZONE", "VIOLATED", "EXIT_CANDIDATE"}
        /\ ~(h.step = "marking" /\ h.cvi = c /\ h.zone = z)
        => \E r \in rows : /\ r.zone = z /\ RowId(r) = e.violation
                           /\ redisActive[z][r.ident] >= r.at + ActiveTtl

\* Every message that was polled is committed in the end, crashes included.
MessageCommitted == msg # None ~> msg = None

\* The ledger of penalties this service implements when identities are stable
\* and Redis answers.
Ledger == INSTANCE PenaltyLedger WITH
    ledger <- {[zone |-> r.zone, ident |-> r.ident, cycle |-> r.cycle] : r \in rows},
    cycle  <- redisCycle

LedgerSpec == Ledger!Spec

\* The CVIs of the service, with messages that come again, evictions and restarts,
\* keep to what CVIManager promises (CviMatching implements the same registry).
Registry == INSTANCE CviRegistry WITH
    MaxIdle <- EvictIdle,
    seen <- [c \in Cvis |-> IF c \in live THEN lastSeen[c] ELSE 0]

RegistrySpec == Registry!Spec
===============================================================================
