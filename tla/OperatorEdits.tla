----------------------------- MODULE OperatorEdits -----------------------------
(***************************************************************************)
(* Cameras and zones: the edits of the operators (event-api, cameras.py    *)
(* and zones.py), the audit log they leave, and the zones by which         *)
(* violation-service judges (zone_cache.py).                               *)
(*                                                                         *)
(* A handler of event-api is two steps.  It loads the row with sess.get,   *)
(* and it flushes, adds the audit row and commits: the row lock taken by   *)
(* the flush makes the second step atomic towards the other edits of the   *)
(* row.  In between other requests write what they like, and what has      *)
(* been loaded is stale.  The UPDATE and DELETE of a row name its id only. *)
(***************************************************************************)
EXTENDS Integers, Sequences

CONSTANTS
    Cameras,        \* camera ids, chosen by the operator
    Details,        \* the editable columns of a camera, as one value
    Shapes,         \* polygon, name and times of a zone, as one value
    Operators,      \* requests that event-api may be in the middle of at once
    None,           \* no row
    Ttl,            \* ZoneCache.ttl_seconds
    QueryTime, MaxZones, MaxEdits, MaxTime, MaxRestarts     \* bounds of a run

ZoneIds == 1..MaxZones
Zones   == [cam : Cameras, shape : Shapes, enabled : BOOLEAN]

\* A camera, or None where there is no row.
CameraRows == Details \cup {None}

ASSUME NoneAssumption == None \notin Cameras \cup Details \cup Shapes \cup Zones
ASSUME TimesAssumption == {Ttl, QueryTime} \subseteq Nat
ASSUME BoundsAssumption == {MaxZones, MaxEdits, MaxTime, MaxRestarts} \subseteq Nat

VARIABLES
    camera,     \* table cameras
    zone,       \* table zones
    nextZone,   \* its id sequence
    audit,      \* table audit_log in the order of the commits
    call,       \* what a request of an operator has loaded, and wants to write
    edits,      \* how many requests there were; a bound only
    clock,      \* time.monotonic()
    changedAt,  \* when the enabled zones of a camera last changed (history)
    cache,      \* ZoneCache._by_camera
    lastRefresh,\* ZoneCache._last_refresh
    query,      \* where the handler of a detection message is
    restarts    \* a bound only

tables  == <<camera, zone, nextZone, audit, changedAt>>
api     == <<tables, call, edits>>
service == <<cache, lastRefresh, query>>
vars    == <<api, service, clock, restarts>>

-------------------------------------------------------------------------------
(* State *)

CameraOps == {"camera.create", "camera.update", "camera.delete"}
ZoneOps   == {"zone.create", "zone.update", "zone.delete"}

\* An entry of the audit log; a deleted camera takes its zones with it without
\* an entry of theirs.
Entries == [op : CameraOps, target : Cameras] \cup
           [op : ZoneOps, target : ZoneIds, cam : Cameras]

Calls == {None} \cup
         [op : CameraOps, target : Cameras, old : CameraRows, new : CameraRows] \cup
         [op : {"zone.create"}, new : Zones] \cup
         [op : {"zone.update", "zone.delete"}, target : ZoneIds, old : Zones, new : Zones \cup {None}]

\* The zones that ZoneCache.refresh selects for camera c.
Enabled(c) == {[id |-> z, shape |-> zone[z].shape] :
                   z \in {y \in ZoneIds : zone[y] # None /\ zone[y].cam = c /\ zone[y].enabled}}
Judging == [id : ZoneIds, shape : Shapes]

\* startup() refreshes the cache before it starts to consume.
NoQuery  == [step |-> "idle"]
Starting == [step |-> "select", cam |-> None]

Init ==
    /\ camera = [c \in Cameras |-> None]
    /\ zone = [z \in ZoneIds |-> None]
    /\ nextZone = 1
    /\ audit = <<>>
    /\ call = [o \in Operators |-> None]
    /\ edits = 0
    /\ clock = 0
    /\ changedAt = [c \in Cameras |-> 0]
    /\ cache = [c \in Cameras |-> {}]
    /\ lastRefresh = 0
    /\ query = Starting
    /\ restarts = 0

-------------------------------------------------------------------------------
(* event-api: a request loads its row *)

Load(o, loaded) ==
    /\ call[o] = None /\ edits < MaxEdits
    /\ edits' = edits + 1
    /\ call' = [call EXCEPT ![o] = loaded]
    /\ UNCHANGED <<tables, service, clock, restarts>>

\* create_camera: an id that exists is a 409.
PostCamera(o, c, new) ==
    /\ camera[c] = None
    /\ Load(o, [op |-> "camera.create", target |-> c, old |-> None, new |-> new])

\* upsert_camera: the full body creates a camera that is missing.
PutCamera(o, c, new) ==
    Load(o, [op |-> IF camera[c] = None THEN "camera.create" ELSE "camera.update",
             target |-> c, old |-> camera[c], new |-> new])

DeleteCamera(o, c) ==
    /\ camera[c] # None
    /\ Load(o, [op |-> "camera.delete", target |-> c, old |-> camera[c], new |-> None])

\* create_zone: the camera is looked up, and nothing of it is kept.
PostZone(o, new) ==
    /\ camera[new.cam] # None
    /\ Load(o, [op |-> "zone.create", new |-> new])

PutZone(o, z, shape, enabled) ==
    /\ zone[z] # None
    /\ Load(o, [op |-> "zone.update", target |-> z, old |-> zone[z],
                new |-> [cam |-> zone[z].cam, shape |-> shape, enabled |-> enabled]])

DeleteZone(o, z) ==
    /\ zone[z] # None
    /\ Load(o, [op |-> "zone.delete", target |-> z, old |-> zone[z], new |-> None])

-------------------------------------------------------------------------------
(* event-api: a request writes, and replies *)

Doing(o, op) == call[o] # None /\ call[o].op = op

\* Mutant of Reply: the session, with the row that it loaded, outlives the request.
ReplyKeepingSession(o) ==
    /\ call' = [call EXCEPT ![o].op = "kept"]
    /\ changedAt' = [c \in Cameras |-> IF Enabled(c)' # Enabled(c) THEN clock ELSE changedAt[c]]
    /\ UNCHANGED <<edits, service, clock, restarts>>

Reply(o) ==
    /\ call' = [call EXCEPT ![o] = None]
    /\ changedAt' = [c \in Cameras |-> IF Enabled(c)' # Enabled(c) THEN clock ELSE changedAt[c]]
    /\ UNCHANGED <<edits, service, clock, restarts>>

\* record_audit, in the transaction of the write
RecordAudit(entry) == audit' = Append(audit, entry)

CameraEntry(o) == [op |-> call[o].op, target |-> call[o].target]
ZoneEntry(o)   == [op |-> call[o].op, target |-> call[o].target, cam |-> call[o].old.cam]

\* Mutant of InsertCamera: the IntegrityError is taken for success.
InsertCameraAnyway(o) ==
    /\ Doing(o, "camera.create")
    /\ camera' = [camera EXCEPT ![call[o].target] = IF @ = None THEN call[o].new ELSE @]
    /\ RecordAudit(CameraEntry(o))
    /\ UNCHANGED <<zone, nextZone>>
    /\ Reply(o)

\* The INSERT of create_camera and upsert_camera.  An id that has come to exist
\* raises IntegrityError (RollBack).
InsertCamera(o) ==
    /\ Doing(o, "camera.create")
    /\ camera[call[o].target] = None
    /\ camera' = [camera EXCEPT ![call[o].target] = call[o].new]
    /\ RecordAudit(CameraEntry(o))
    /\ UNCHANGED <<zone, nextZone>>
    /\ Reply(o)

\* The UPDATE names the columns that differ from what was loaded.  Without any
\* there is none, and the audit row alone is committed; with one and no row left,
\* StaleDataError is raised (RollBack).
UpdateCamera(o) ==
    LET q == call[o] IN
    /\ Doing(o, "camera.update")
    /\ \/ q.new = q.old /\ UNCHANGED camera
       \/ /\ q.new # q.old /\ camera[q.target] # None
          /\ camera' = [camera EXCEPT ![q.target] = q.new]
    /\ RecordAudit(CameraEntry(o))
    /\ UNCHANGED <<zone, nextZone>>
    /\ Reply(o)

\* Mutant of RemoveCamera: zones has no ON DELETE CASCADE, and no foreign key.
RemoveCameraOnly(o) ==
    /\ Doing(o, "camera.delete")
    /\ camera' = [camera EXCEPT ![call[o].target] = None]
    /\ RecordAudit(CameraEntry(o))
    /\ UNCHANGED <<zone, nextZone>>
    /\ Reply(o)

\* The DELETE of a row that is gone matches nothing, which is no error.
RemoveCamera(o) ==
    /\ Doing(o, "camera.delete")
    /\ camera' = [camera EXCEPT ![call[o].target] = None]
    /\ zone' = [z \in ZoneIds |->
                   IF zone[z] # None /\ zone[z].cam = call[o].target THEN None ELSE zone[z]]
    /\ RecordAudit(CameraEntry(o))
    /\ UNCHANGED nextZone
    /\ Reply(o)

\* The foreign key: a camera that is gone raises IntegrityError (RollBack).
InsertZone(o) ==
    /\ Doing(o, "zone.create")
    /\ camera[call[o].new.cam] # None
    /\ nextZone \in ZoneIds
    /\ zone' = [zone EXCEPT ![nextZone] = call[o].new]
    /\ nextZone' = nextZone + 1
    /\ RecordAudit([op |-> "zone.create", target |-> nextZone, cam |-> call[o].new.cam])
    /\ UNCHANGED camera
    /\ Reply(o)

\* Columns that were not edited keep what another request has put there.
Merge(row, old, new) ==
    [row EXCEPT !.shape = IF new.shape = old.shape THEN @ ELSE new.shape,
                !.enabled = IF new.enabled = old.enabled THEN @ ELSE new.enabled]

UpdateZone(o) ==
    LET q == call[o] IN
    /\ Doing(o, "zone.update")
    /\ \/ q.new = q.old /\ UNCHANGED zone
       \/ /\ q.new # q.old /\ zone[q.target] # None
          /\ zone' = [zone EXCEPT ![q.target] = Merge(@, q.old, q.new)]
    /\ RecordAudit(ZoneEntry(o))
    /\ UNCHANGED <<camera, nextZone>>
    /\ Reply(o)

RemoveZone(o) ==
    /\ Doing(o, "zone.delete")
    /\ zone' = [zone EXCEPT ![call[o].target] = None]
    /\ RecordAudit(ZoneEntry(o))
    /\ UNCHANGED <<camera, nextZone>>
    /\ Reply(o)

\* Mutant of RollBack: the audit row has a session of its own.
RollBackAudited(o) ==
    /\ call[o] # None /\ call[o].op \in CameraOps
    /\ RecordAudit(CameraEntry(o))
    /\ UNCHANGED <<camera, zone, nextZone>>
    /\ Reply(o)

\* The transaction fails for any reason, or event-api dies: nothing is written.
RollBack(o) ==
    /\ call[o] # None
    /\ UNCHANGED <<camera, zone, nextZone, audit>>
    /\ Reply(o)

-------------------------------------------------------------------------------
(* violation-service: the zones by which a detection message is judged *)

\* consume() calls zones_for_camera.
Detection(c) ==
    /\ query.step = "idle"
    /\ query' = IF clock - lastRefresh > Ttl
                THEN [step |-> "select", cam |-> c]
                ELSE [step |-> "judge", cam |-> c, zones |-> cache[c]]
    /\ UNCHANGED <<api, cache, lastRefresh, clock, restarts>>

\* refresh: the statement is executed ...
Select ==
    /\ query.step = "select"
    /\ query' = [step |-> "swap", cam |-> query.cam, asOf |-> clock,
                 rows |-> [c \in Cameras |-> Enabled(c)]]
    /\ UNCHANGED <<api, cache, lastRefresh, clock, restarts>>

\* Mutant of SelectFails: the old zones are used once more.
SelectFailsQuietly ==
    /\ query.step \in {"select", "swap"}
    /\ query' = IF query.cam = None THEN NoQuery
                ELSE [step |-> "judge", cam |-> query.cam, zones |-> cache[query.cam]]
    /\ UNCHANGED <<api, cache, lastRefresh, clock, restarts>>

\* ... or raises: the message is logged, and committed without being judged; the
\* service that was starting dies, and is started again.
SelectFails ==
    /\ query.step \in {"select", "swap"}
    /\ query' = IF query.cam = None THEN Starting ELSE NoQuery
    /\ UNCHANGED <<api, cache, lastRefresh, clock, restarts>>

\* The session is closed, and the zones are replaced.
Swap ==
    /\ query.step = "swap"
    /\ cache' = query.rows
    /\ lastRefresh' = clock
    /\ query' = IF query.cam = None THEN NoQuery
                ELSE [step |-> "judge", cam |-> query.cam, zones |-> query.rows[query.cam]]
    /\ UNCHANGED <<api, clock, restarts>>

Judged ==
    /\ query.step = "judge"
    /\ query' = NoQuery
    /\ UNCHANGED <<api, cache, lastRefresh, clock, restarts>>

ServiceRestart ==
    /\ restarts < MaxRestarts /\ restarts' = restarts + 1
    /\ cache' = [c \in Cameras |-> {}] /\ lastRefresh' = 0 /\ query' = Starting
    /\ UNCHANGED <<api, clock>>

\* Time passes; closing the session takes at most QueryTime.
Tick ==
    /\ clock < MaxTime
    /\ query.step = "swap" => clock - query.asOf < QueryTime
    /\ clock' = clock + 1
    /\ UNCHANGED <<api, service, restarts>>

-------------------------------------------------------------------------------
Loads(o) ==
    \/ \E c \in Cameras, new \in Details : PostCamera(o, c, new) \/ PutCamera(o, c, new)
    \/ \E c \in Cameras : DeleteCamera(o, c)
    \/ \E new \in Zones : PostZone(o, new)
    \/ \E z \in ZoneIds, shape \in Shapes, enabled \in BOOLEAN : PutZone(o, z, shape, enabled)
    \/ \E z \in ZoneIds : DeleteZone(o, z)

Writes(o) ==
    \/ InsertCamera(o) \/ UpdateCamera(o) \/ RemoveCamera(o)
    \/ InsertZone(o) \/ UpdateZone(o) \/ RemoveZone(o)
    \/ RollBack(o)

ServiceStep == (\E c \in Cameras : Detection(c)) \/ Select \/ SelectFails \/ Swap \/ Judged

Next == (\E o \in Operators : Loads(o) \/ Writes(o)) \/ ServiceStep \/ ServiceRestart \/ Tick

Spec == Init /\ [][Next]_vars

-------------------------------------------------------------------------------
(* Properties *)

Queries ==
    {NoQuery} \cup [step : {"select"}, cam : Cameras \cup {None}] \cup
    [step : {"swap"}, cam : Cameras \cup {None}, asOf : Nat, rows : [Cameras -> SUBSET Judging]] \cup
    [step : {"judge"}, cam : Cameras, zones : SUBSET Judging]

\* Types of all variables.
TypeOK ==
    /\ camera \in [Cameras -> CameraRows]
    /\ zone \in [ZoneIds -> Zones \cup {None}]
    /\ nextZone \in 1..(MaxZones + 1)
    /\ audit \in Seq(Entries)
    /\ call \in [Operators -> Calls]
    /\ {edits, clock, lastRefresh, restarts} \subseteq Nat
    /\ changedAt \in [Cameras -> Nat]
    /\ cache \in [Cameras -> SUBSET Judging]
    /\ query \in Queries

\* No zone outlives its camera: not when the camera is deleted while the zone is
\* being created, nor when it is deleted twice and created in between.
ZonesHaveCamera == \A z \in ZoneIds : zone[z] # None => camera[zone[z].cam] # None

IsEntry(i, op, target) == audit[i].op = op /\ audit[i].target = target

\* By the audit log, camera c and zone z are there.
CameraLogged(c) ==
    \E i \in DOMAIN audit :
        /\ IsEntry(i, "camera.create", c)
        /\ \A j \in DOMAIN audit : j > i => ~IsEntry(j, "camera.delete", c)
ZoneLogged(z) ==
    \E i \in DOMAIN audit :
        /\ IsEntry(i, "zone.create", z)
        /\ \A j \in DOMAIN audit : j > i =>
              ~IsEntry(j, "zone.delete", z) /\ ~IsEntry(j, "camera.delete", audit[i].cam)

\* The audit log tells which cameras and zones there are, whatever requests
\* overtake each other between their load and their write.
AuditKnowsExistence ==
    /\ \A c \in Cameras : camera[c] # None <=> CameraLogged(c)
    /\ \A z \in ZoneIds : zone[z] # None <=> ZoneLogged(z)

\* A camera is created again only after it was deleted: of two requests that
\* create it, one is refused.
CreatedOnce ==
    \A i, j \in DOMAIN audit, c \in Cameras :
        i < j /\ IsEntry(i, "camera.create", c) /\ IsEntry(j, "camera.create", c) =>
            \E k \in DOMAIN audit : i < k /\ k < j /\ IsEntry(k, "camera.delete", c)

\* A detection is judged by the zones as they are, unless they were edited within
\* the last Ttl (and the time a query takes): no failure makes stale zones last.
EditsInForce ==
    [][query'.step = "judge" /\ query.step # "judge"
          /\ changedAt[query'.cam] + Ttl + QueryTime < clock
       => query'.zones = Enabled(query'.cam)]_vars
===============================================================================
