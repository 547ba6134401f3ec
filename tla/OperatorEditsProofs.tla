-------------------------- MODULE OperatorEditsProofs --------------------------
(***************************************************************************)
(* What holds of cameras, zones and the audit log for every number of      *)
(* requests in flight, every set of cameras and whatever the bounds.       *)
(***************************************************************************)
EXTENDS OperatorEdits, TLAPS

\* What a request has loaded and wants to write.  Of what it has loaded only the
\* camera of a zone is still true later on.
CallOK(q) ==
    /\ q.op \in CameraOps => q.target \in Cameras
    /\ q.op \in {"camera.create", "camera.update"} => q.new \in Details
    /\ q.op \in {"zone.create", "zone.update"} => q.new \in Zones
    /\ q.op \in {"zone.update", "zone.delete"} => q.target \in ZoneIds /\ q.old \in Zones

TablesOK ==
    /\ camera \in [Cameras -> Details \cup {None}]
    /\ zone \in [ZoneIds -> Zones \cup {None}]
    /\ nextZone \in Nat
    /\ audit \in Seq(Entries)

\* The id of a zone is used once, for a zone of one camera.
ZonesLogged ==
    \A i \in DOMAIN audit : audit[i].op = "zone.create" =>
        /\ audit[i].target < nextZone
        /\ zone[audit[i].target] # None => zone[audit[i].target].cam = audit[i].cam

EditsInv ==
    /\ TablesOK /\ ZonesLogged
    /\ DOMAIN call = Operators /\ \A o \in Operators : call[o] # None => CallOK(call[o])
    /\ ZonesHaveCamera /\ AuditKnowsExistence /\ CreatedOnce

\* The constants are told apart from None.
LEMMA NotNone ==
    /\ \A d \in Details : d # None
    /\ \A r \in Zones : r # None
BY NoneAssumption

LEMMA EditsInit == Init => EditsInv
BY DEF Init, EditsInv, TablesOK, ZonesLogged, ZonesHaveCamera, AuditKnowsExistence,
       CreatedOnce, CameraLogged, ZoneLogged

-------------------------------------------------------------------------------
(* What one more entry does to the audit log *)

Appended(e) == e \in Entries /\ audit' = Append(audit, e)

LEMMA EntryFields ==
    ASSUME NEW e \in Entries
    PROVE  /\ e.op \in CameraOps \cup ZoneOps
           /\ e.op \in CameraOps => e.target \in Cameras
           /\ e.op \in ZoneOps => e.target \in ZoneIds /\ e.cam \in Cameras
BY DEF Entries, CameraOps, ZoneOps

LEMMA AppendedEntry ==
    ASSUME TablesOK, NEW e, Appended(e)
    PROVE  /\ audit' \in Seq(Entries)
           /\ Len(audit) \in Nat /\ DOMAIN audit = 1..Len(audit)
           /\ DOMAIN audit' = 1..(Len(audit) + 1)
           /\ audit'[Len(audit) + 1] = e
           /\ \A i \in DOMAIN audit : i \in DOMAIN audit' /\ audit'[i] = audit[i]
BY DEF TablesOK, Appended

\* A camera is there by the log if it was just created, or it was and was not deleted.
LEMMA CameraLoggedStep ==
    ASSUME TablesOK, NEW e, Appended(e), NEW c \in Cameras
    PROVE  CameraLogged(c)' <=>
              \/ e.op = "camera.create" /\ e.target = c
              \/ CameraLogged(c) /\ ~(e.op = "camera.delete" /\ e.target = c)
<1> USE AppendedEntry
<1>1. ASSUME e.op = "camera.create" /\ e.target = c PROVE CameraLogged(c)'
  <2>1. Len(audit) + 1 \in DOMAIN audit' /\ \A j \in DOMAIN audit' : ~(j > Len(audit) + 1)
    OBVIOUS
  <2>2. audit'[Len(audit) + 1] = e
    OBVIOUS
  <2> QED
    BY ONLY <1>1, <2>1, <2>2 DEF CameraLogged, IsEntry
<1>2. ASSUME CameraLogged(c), ~(e.op = "camera.delete" /\ e.target = c)
      PROVE  CameraLogged(c)'
  BY <1>2 DEF CameraLogged, IsEntry
<1>3. ASSUME CameraLogged(c)', ~(e.op = "camera.create" /\ e.target = c)
      PROVE  CameraLogged(c) /\ ~(e.op = "camera.delete" /\ e.target = c)
  BY <1>3 DEF CameraLogged, IsEntry
<1> QED
  BY <1>1, <1>2, <1>3

\* A zone is there by the log if it was just created, or it was, and neither it
\* nor its camera was deleted.
LEMMA ZoneLoggedStep ==
    ASSUME TablesOK, ZonesLogged, NEW e, Appended(e), NEW z \in ZoneIds,
           ZoneLogged(z) <=> zone[z] # None
    PROVE  ZoneLogged(z)' <=>
              \/ e.op = "zone.create" /\ e.target = z
              \/ /\ zone[z] # None
                 /\ ~(e.op = "zone.delete" /\ e.target = z)
                 /\ ~(e.op = "camera.delete" /\ e.target = zone[z].cam)
<1> USE AppendedEntry
<1>1. ASSUME e.op = "zone.create" /\ e.target = z PROVE ZoneLogged(z)'
  <2>1. Len(audit) + 1 \in DOMAIN audit' /\ \A j \in DOMAIN audit' : ~(j > Len(audit) + 1)
    OBVIOUS
  <2>2. audit'[Len(audit) + 1] = e
    OBVIOUS
  <2> QED
    BY ONLY <1>1, <2>1, <2>2 DEF ZoneLogged, IsEntry
<1>2. ASSUME zone[z] # None,
             ~(e.op = "zone.delete" /\ e.target = z),
             ~(e.op = "camera.delete" /\ e.target = zone[z].cam)
      PROVE  ZoneLogged(z)'
  <2>1. PICK i \in DOMAIN audit :
            /\ IsEntry(i, "zone.create", z)
            /\ \A j \in DOMAIN audit : j > i =>
                  ~IsEntry(j, "zone.delete", z) /\ ~IsEntry(j, "camera.delete", audit[i].cam)
    BY <1>2 DEF ZoneLogged
  <2>2. audit[i].cam = zone[z].cam
    BY <1>2, <2>1 DEF ZonesLogged, IsEntry
  <2> QED
    BY <1>2, <2>1, <2>2 DEF ZoneLogged, IsEntry
<1>3. ASSUME ZoneLogged(z)', ~(e.op = "zone.create" /\ e.target = z)
      PROVE  /\ zone[z] # None
             /\ ~(e.op = "zone.delete" /\ e.target = z)
             /\ ~(e.op = "camera.delete" /\ e.target = zone[z].cam)
  <2>1. PICK i \in DOMAIN audit' :
            /\ IsEntry(i, "zone.create", z)'
            /\ \A j \in DOMAIN audit' : j > i =>
                  ~IsEntry(j, "zone.delete", z)' /\ ~IsEntry(j, "camera.delete", audit[i].cam)'
    BY <1>3 DEF ZoneLogged
  <2>2. i \in DOMAIN audit /\ i < Len(audit) + 1
    BY <1>3, <2>1 DEF IsEntry
  <2>3. ZoneLogged(z)
    BY <2>1, <2>2 DEF ZoneLogged, IsEntry
  <2>4. audit[i].cam = zone[z].cam
    BY <2>1, <2>2, <2>3 DEF ZonesLogged, IsEntry
  <2> QED
    BY <2>1, <2>2, <2>3, <2>4 DEF IsEntry
<1> QED
  BY <1>1, <1>2, <1>3

\* An entry that tells what becomes of the tables keeps the log truthful.
LEMMA AuditStep ==
    ASSUME EditsInv, NEW e, Appended(e),
           \A c \in Cameras : camera'[c] # None <=>
              \/ e.op = "camera.create" /\ e.target = c
              \/ camera[c] # None /\ ~(e.op = "camera.delete" /\ e.target = c),
           \A z \in ZoneIds : zone'[z] # None <=>
              \/ e.op = "zone.create" /\ e.target = z
              \/ /\ zone[z] # None
                 /\ ~(e.op = "zone.delete" /\ e.target = z)
                 /\ ~(e.op = "camera.delete" /\ e.target = zone[z].cam)
    PROVE  AuditKnowsExistence'
<1>1. ASSUME NEW c \in Cameras PROVE (camera[c] # None <=> CameraLogged(c))'
  BY CameraLoggedStep DEF EditsInv, AuditKnowsExistence
<1>2. ASSUME NEW z \in ZoneIds PROVE (zone[z] # None <=> ZoneLogged(z))'
  BY ZoneLoggedStep DEF EditsInv, AuditKnowsExistence
<1> QED
  BY <1>1, <1>2 DEF AuditKnowsExistence

\* A camera that is not there was deleted after it was last created.
LEMMA CreatedOnceStep ==
    ASSUME EditsInv, NEW e, Appended(e), e.op = "camera.create" => camera[e.target] = None
    PROVE  CreatedOnce'
<1> USE AppendedEntry DEF EditsInv
<1> SUFFICES ASSUME NEW i \in DOMAIN audit', NEW j \in DOMAIN audit', NEW c \in Cameras,
                    i < j, IsEntry(i, "camera.create", c)', IsEntry(j, "camera.create", c)'
             PROVE  \E k \in DOMAIN audit' :
                       i < k /\ k < j /\ IsEntry(k, "camera.delete", c)'
  BY DEF CreatedOnce
<1>1. i \in DOMAIN audit /\ IsEntry(i, "camera.create", c)
  BY DEF IsEntry
<1>2. CASE j \in DOMAIN audit
  <2>1. PICK k \in DOMAIN audit : i < k /\ k < j /\ IsEntry(k, "camera.delete", c)
    BY <1>1, <1>2 DEF CreatedOnce, IsEntry
  <2> QED
    BY <2>1 DEF IsEntry
<1>3. CASE j = Len(audit) + 1
  <2>1. ~CameraLogged(c)
    BY <1>3 DEF IsEntry, AuditKnowsExistence
  <2>2. PICK k \in DOMAIN audit : k > i /\ IsEntry(k, "camera.delete", c)
    BY <1>1, <2>1 DEF CameraLogged
  <2> QED
    BY <1>3, <2>2 DEF IsEntry
<1> QED
  BY <1>2, <1>3

-------------------------------------------------------------------------------
(* The steps of event-api *)

CallsOK == DOMAIN call = Operators /\ \A o \in Operators : call[o] # None => CallOK(call[o])

\* A request that has loaded its row has changed nothing.
LEMMA LoadStep ==
    ASSUME EditsInv, NEW o \in Operators, Loads(o)
    PROVE  UNCHANGED tables /\ CallsOK'
<1> SUFFICES ASSUME NEW loaded, Load(o, loaded), CallOK(loaded)
             PROVE  UNCHANGED tables /\ CallsOK'
  BY NotNone DEF Loads, PostCamera, PutCamera, DeleteCamera, PostZone, PutZone, DeleteZone,
                 CallOK, CameraOps, EditsInv, TablesOK, Zones
<1> QED
  BY DEF Load, CallsOK, EditsInv

\* A request that replies is over.
LEMMA ReplyStep ==
    ASSUME EditsInv, NEW o \in Operators, Reply(o)
    PROVE  CallsOK'
BY DEF Reply, CallsOK, EditsInv

\* The written tables keep the invariant when the entry tells what was written.
LEMMA WriteStep ==
    ASSUME EditsInv, CallsOK', TablesOK', ZonesLogged', ZonesHaveCamera',
           NEW e, Appended(e), e.op = "camera.create" => camera[e.target] = None,
           \A c \in Cameras : camera'[c] # None <=>
              \/ e.op = "camera.create" /\ e.target = c
              \/ camera[c] # None /\ ~(e.op = "camera.delete" /\ e.target = c),
           \A z \in ZoneIds : zone'[z] # None <=>
              \/ e.op = "zone.create" /\ e.target = z
              \/ /\ zone[z] # None
                 /\ ~(e.op = "zone.delete" /\ e.target = z)
                 /\ ~(e.op = "camera.delete" /\ e.target = zone[z].cam)
    PROVE  EditsInv'
<1>1. AuditKnowsExistence'
  BY AuditStep
<1>2. CreatedOnce'
  BY CreatedOnceStep
<1> QED
  BY <1>1, <1>2 DEF EditsInv, CallsOK

\* An entry that creates no zone, and zones that only go or keep their camera.
LEMMA ZonesLoggedStep ==
    ASSUME EditsInv, NEW e, Appended(e), e.op # "zone.create", nextZone' = nextZone,
           \A z \in ZoneIds : zone'[z] # None => zone[z] # None /\ zone'[z].cam = zone[z].cam
    PROVE  ZonesLogged'
BY AppendedEntry, EntryFields DEF EditsInv, ZonesLogged, Appended, TablesOK, Entries, ZoneOps, CameraOps

\* A camera that is created was not there.
LEMMA InsertCameraStep ==
    ASSUME EditsInv, NEW o \in Operators, InsertCamera(o)
    PROVE  EditsInv'
<1> DEFINE e == CameraEntry(o)
<1>1. CallOK(call[o]) /\ call[o].op = "camera.create"
  BY DEF InsertCamera, Doing, EditsInv
<1>2. Appended(e) /\ e.op = "camera.create"
  BY <1>1 DEF InsertCamera, Appended, RecordAudit, CameraEntry, ZoneEntry, Entries, CallOK,
              CameraOps, ZoneOps, Zones, EditsInv, TablesOK, ZoneIds
<1>3. TablesOK'
  BY <1>1, <1>2, AppendedEntry DEF InsertCamera, TablesOK, EditsInv, CallOK, Zones, ZoneIds
<1>4. CallsOK'
  BY ReplyStep DEF InsertCamera
<1>5. ZonesLogged'
  <2>1. \A z \in ZoneIds : zone'[z] # None => zone[z] # None /\ zone'[z].cam = zone[z].cam
    BY <1>1, NotNone DEF InsertCamera, EditsInv, TablesOK, CallOK, Zones, ZoneIds
  <2> QED
    BY <1>2, <2>1, ZonesLoggedStep DEF InsertCamera
<1>6. ZonesHaveCamera'
  BY <1>1, <1>2, NotNone DEF InsertCamera, EditsInv, TablesOK, CallOK, CameraEntry, ZoneEntry, CameraOps, Zones, ZoneIds, ZonesHaveCamera
<1>7. \A c \in Cameras : camera'[c] # None <=>
         \/ e.op = "camera.create" /\ e.target = c
         \/ camera[c] # None /\ ~(e.op = "camera.delete" /\ e.target = c)
  BY <1>1, <1>2, NotNone DEF InsertCamera, EditsInv, TablesOK, CallOK, CameraEntry, ZoneEntry, CameraOps, Zones, ZoneIds
<1>8. \A z \in ZoneIds : zone'[z] # None <=>
         \/ e.op = "zone.create" /\ e.target = z
         \/ /\ zone[z] # None
            /\ ~(e.op = "zone.delete" /\ e.target = z)
            /\ ~(e.op = "camera.delete" /\ e.target = zone[z].cam)
  BY <1>1, <1>2, NotNone DEF InsertCamera, EditsInv, TablesOK, CallOK, CameraEntry, ZoneEntry, CameraOps, Zones, ZoneIds
<1>9. e.op = "camera.create" => camera[e.target] = None
  BY <1>1, <1>2, NotNone DEF InsertCamera, EditsInv, TablesOK, CallOK, CameraEntry, ZoneEntry, CameraOps, Zones, ZoneIds
<1> QED
  BY <1>2, <1>3, <1>4, <1>5, <1>6, <1>7, <1>8, <1>9, WriteStep

\* A camera that is updated stays, or was gone already.
LEMMA UpdateCameraStep ==
    ASSUME EditsInv, NEW o \in Operators, UpdateCamera(o)
    PROVE  EditsInv'
<1> DEFINE e == CameraEntry(o)
<1>1. CallOK(call[o]) /\ call[o].op = "camera.update"
  BY DEF UpdateCamera, Doing, EditsInv
<1>2. Appended(e) /\ e.op = "camera.update"
  BY <1>1 DEF UpdateCamera, Appended, RecordAudit, CameraEntry, ZoneEntry, Entries, CallOK,
              CameraOps, ZoneOps, Zones, EditsInv, TablesOK, ZoneIds
<1>3. TablesOK'
  BY <1>1, <1>2, AppendedEntry DEF UpdateCamera, TablesOK, EditsInv, CallOK, Zones, ZoneIds
<1>4. CallsOK'
  BY ReplyStep DEF UpdateCamera
<1>5. ZonesLogged'
  <2>1. \A z \in ZoneIds : zone'[z] # None => zone[z] # None /\ zone'[z].cam = zone[z].cam
    BY <1>1, NotNone DEF UpdateCamera, EditsInv, TablesOK, CallOK, Zones, ZoneIds
  <2> QED
    BY <1>2, <2>1, ZonesLoggedStep DEF UpdateCamera
<1>6. ZonesHaveCamera'
  BY <1>1, <1>2, NotNone DEF UpdateCamera, EditsInv, TablesOK, CallOK, CameraEntry, ZoneEntry, CameraOps, Zones, ZoneIds, ZonesHaveCamera
<1>7. \A c \in Cameras : camera'[c] # None <=>
         \/ e.op = "camera.create" /\ e.target = c
         \/ camera[c] # None /\ ~(e.op = "camera.delete" /\ e.target = c)
  BY <1>1, <1>2, NotNone DEF UpdateCamera, EditsInv, TablesOK, CallOK, CameraEntry, ZoneEntry, CameraOps, Zones, ZoneIds
<1>8. \A z \in ZoneIds : zone'[z] # None <=>
         \/ e.op = "zone.create" /\ e.target = z
         \/ /\ zone[z] # None
            /\ ~(e.op = "zone.delete" /\ e.target = z)
            /\ ~(e.op = "camera.delete" /\ e.target = zone[z].cam)
  BY <1>1, <1>2, NotNone DEF UpdateCamera, EditsInv, TablesOK, CallOK, CameraEntry, ZoneEntry, CameraOps, Zones, ZoneIds
<1>9. e.op = "camera.create" => camera[e.target] = None
  BY <1>1, <1>2, NotNone DEF UpdateCamera, EditsInv, TablesOK, CallOK, CameraEntry, ZoneEntry, CameraOps, Zones, ZoneIds
<1> QED
  BY <1>2, <1>3, <1>4, <1>5, <1>6, <1>7, <1>8, <1>9, WriteStep

\* A camera takes its zones along.
LEMMA RemoveCameraStep ==
    ASSUME EditsInv, NEW o \in Operators, RemoveCamera(o)
    PROVE  EditsInv'
<1> DEFINE e == CameraEntry(o)
<1>1. CallOK(call[o]) /\ call[o].op = "camera.delete"
  BY DEF RemoveCamera, Doing, EditsInv
<1>2. Appended(e) /\ e.op = "camera.delete"
  BY <1>1 DEF RemoveCamera, Appended, RecordAudit, CameraEntry, ZoneEntry, Entries, CallOK,
              CameraOps, ZoneOps, Zones, EditsInv, TablesOK, ZoneIds
<1>3. TablesOK'
  BY <1>1, <1>2, AppendedEntry DEF RemoveCamera, TablesOK, EditsInv, CallOK, Zones, ZoneIds
<1>4. CallsOK'
  BY ReplyStep DEF RemoveCamera
<1>5. ZonesLogged'
  <2>1. \A z \in ZoneIds : zone'[z] # None => zone[z] # None /\ zone'[z].cam = zone[z].cam
    BY <1>1, NotNone DEF RemoveCamera, EditsInv, TablesOK, CallOK, Zones, ZoneIds
  <2> QED
    BY <1>2, <2>1, ZonesLoggedStep DEF RemoveCamera
<1>6. ZonesHaveCamera'
  BY <1>1, <1>2, NotNone DEF RemoveCamera, EditsInv, TablesOK, CallOK, CameraEntry, ZoneEntry, CameraOps, Zones, ZoneIds, ZonesHaveCamera
<1>7. \A c \in Cameras : camera'[c] # None <=>
         \/ e.op = "camera.create" /\ e.target = c
         \/ camera[c] # None /\ ~(e.op = "camera.delete" /\ e.target = c)
  BY <1>1, <1>2, NotNone DEF RemoveCamera, EditsInv, TablesOK, CallOK, CameraEntry, ZoneEntry, CameraOps, Zones, ZoneIds
<1>8. \A z \in ZoneIds : zone'[z] # None <=>
         \/ e.op = "zone.create" /\ e.target = z
         \/ /\ zone[z] # None
            /\ ~(e.op = "zone.delete" /\ e.target = z)
            /\ ~(e.op = "camera.delete" /\ e.target = zone[z].cam)
  BY <1>1, <1>2, NotNone DEF RemoveCamera, EditsInv, TablesOK, CallOK, CameraEntry, ZoneEntry, CameraOps, Zones, ZoneIds
<1>9. e.op = "camera.create" => camera[e.target] = None
  BY <1>1, <1>2, NotNone DEF RemoveCamera, EditsInv, TablesOK, CallOK, CameraEntry, ZoneEntry, CameraOps, Zones, ZoneIds
<1> QED
  BY <1>2, <1>3, <1>4, <1>5, <1>6, <1>7, <1>8, <1>9, WriteStep

\* A zone gets an id of its own, and has its camera.
LEMMA InsertZoneStep ==
    ASSUME EditsInv, NEW o \in Operators, InsertZone(o)
    PROVE  EditsInv'
<1> DEFINE e == [op |-> "zone.create", target |-> nextZone, cam |-> call[o].new.cam]
<1>1. CallOK(call[o]) /\ call[o].op = "zone.create"
  BY DEF InsertZone, Doing, EditsInv
<1>2. Appended(e) /\ e.op = "zone.create"
  BY <1>1 DEF InsertZone, Appended, RecordAudit, CameraEntry, ZoneEntry, Entries, CallOK,
              CameraOps, ZoneOps, Zones, EditsInv, TablesOK, ZoneIds
<1>3. TablesOK'
  BY <1>1, <1>2, AppendedEntry DEF InsertZone, TablesOK, EditsInv, CallOK, Zones, ZoneIds
<1>4. CallsOK'
  BY ReplyStep DEF InsertZone
<1>5. ZonesLogged'
  <2>1. nextZone \in ZoneIds /\ nextZone \in Nat /\ nextZone' = nextZone + 1
        /\ zone' = [zone EXCEPT ![nextZone] = call[o].new]
    BY <1>1 DEF InsertZone, EditsInv, TablesOK
  <2>2. \A i \in DOMAIN audit : audit[i] \in Entries
    BY DEF EditsInv, TablesOK
  <2>3. \A i \in DOMAIN audit : audit[i].op = "zone.create" =>
            /\ audit[i].target \in ZoneIds /\ audit[i].target < nextZone
            /\ zone'[audit[i].target] = zone[audit[i].target]
    BY <2>1, <2>2, EntryFields DEF EditsInv, ZonesLogged, TablesOK, ZoneIds, ZoneOps
  <2>4. zone'[nextZone] = call[o].new
    BY <2>1 DEF EditsInv, TablesOK
  <2> QED
    BY <1>2, <2>1, <2>3, <2>4, AppendedEntry DEF EditsInv, ZonesLogged, ZoneIds
<1>6. ZonesHaveCamera'
  BY <1>1, <1>2, NotNone DEF InsertZone, EditsInv, TablesOK, CallOK, CameraEntry, ZoneEntry, CameraOps, Zones, ZoneIds, ZonesHaveCamera
<1>7. \A c \in Cameras : camera'[c] # None <=>
         \/ e.op = "camera.create" /\ e.target = c
         \/ camera[c] # None /\ ~(e.op = "camera.delete" /\ e.target = c)
  BY <1>1, <1>2, NotNone DEF InsertZone, EditsInv, TablesOK, CallOK, CameraEntry, ZoneEntry, CameraOps, Zones, ZoneIds
<1>8. \A z \in ZoneIds : zone'[z] # None <=>
         \/ e.op = "zone.create" /\ e.target = z
         \/ /\ zone[z] # None
            /\ ~(e.op = "zone.delete" /\ e.target = z)
            /\ ~(e.op = "camera.delete" /\ e.target = zone[z].cam)
  BY <1>1, <1>2, NotNone DEF InsertZone, EditsInv, TablesOK, CallOK, CameraEntry, ZoneEntry, CameraOps, Zones, ZoneIds
<1>9. e.op = "camera.create" => camera[e.target] = None
  BY <1>1, <1>2, NotNone DEF InsertZone, EditsInv, TablesOK, CallOK, CameraEntry, ZoneEntry, CameraOps, Zones, ZoneIds
<1> QED
  BY <1>2, <1>3, <1>4, <1>5, <1>6, <1>7, <1>8, <1>9, WriteStep

\* The columns of one request over those of another are a row, of the same camera.
LEMMA MergedRow ==
    ASSUME NEW row \in Zones, NEW old \in Zones, NEW new \in Zones
    PROVE  Merge(row, old, new) \in Zones /\ Merge(row, old, new).cam = row.cam
<1>1. PICK shape \in Shapes, enabled \in BOOLEAN :
         Merge(row, old, new) = [row EXCEPT !.shape = shape, !.enabled = enabled]
  <2>1. row.shape \in Shapes /\ new.shape \in Shapes
        /\ row.enabled \in BOOLEAN /\ new.enabled \in BOOLEAN
    BY DEF Zones
  <2> DEFINE s == IF new.shape = old.shape THEN row.shape ELSE new.shape
             b == IF new.enabled = old.enabled THEN row.enabled ELSE new.enabled
  <2>2. s \in Shapes /\ b \in BOOLEAN
    BY <2>1
  <2>3. Merge(row, old, new) = [row EXCEPT !.shape = s, !.enabled = b]
    BY DEF Merge, Zones
  <2> QED
    BY <2>2, <2>3
<1> QED
  BY <1>1 DEF Zones

\* A zone that is updated keeps its camera, or was gone already.
LEMMA UpdateZoneStep ==
    ASSUME EditsInv, NEW o \in Operators, UpdateZone(o)
    PROVE  EditsInv'
<1> DEFINE e == ZoneEntry(o)
<1>1. CallOK(call[o]) /\ call[o].op = "zone.update"
  BY DEF UpdateZone, Doing, EditsInv
<1>2. Appended(e) /\ e.op = "zone.update"
  BY <1>1 DEF UpdateZone, Appended, RecordAudit, CameraEntry, ZoneEntry, Entries, CallOK,
              CameraOps, ZoneOps, Zones, EditsInv, TablesOK, ZoneIds
<1>rows. \A z \in ZoneIds :
         /\ zone'[z] \in Zones \cup {None}
         /\ zone'[z] # None <=> zone[z] # None
         /\ zone'[z] # None => zone'[z].cam = zone[z].cam
  BY <1>1, NotNone, MergedRow DEF UpdateZone, EditsInv, TablesOK, CallOK
<1>dom. DOMAIN zone' = ZoneIds /\ zone' = [z \in ZoneIds |-> zone'[z]]
  BY DEF UpdateZone, EditsInv, TablesOK
<1>3. TablesOK'
  BY <1>2, <1>rows, <1>dom, AppendedEntry DEF UpdateZone, TablesOK, EditsInv
<1>4. CallsOK'
  BY ReplyStep DEF UpdateZone
<1>5. ZonesLogged'
  BY <1>2, <1>rows, ZonesLoggedStep DEF UpdateZone
<1>6. ZonesHaveCamera'
  BY <1>2, <1>rows, NotNone DEF UpdateZone, EditsInv, ZonesHaveCamera
<1>7. \A c \in Cameras : camera'[c] # None <=>
         \/ e.op = "camera.create" /\ e.target = c
         \/ camera[c] # None /\ ~(e.op = "camera.delete" /\ e.target = c)
  BY <1>2, <1>rows, NotNone DEF UpdateZone, EditsInv
<1>8. \A z \in ZoneIds : zone'[z] # None <=>
         \/ e.op = "zone.create" /\ e.target = z
         \/ /\ zone[z] # None
            /\ ~(e.op = "zone.delete" /\ e.target = z)
            /\ ~(e.op = "camera.delete" /\ e.target = zone[z].cam)
  BY <1>2, <1>rows, NotNone DEF UpdateZone, EditsInv
<1>9. e.op = "camera.create" => camera[e.target] = None
  BY <1>2, <1>rows, NotNone DEF UpdateZone, EditsInv
<1> QED
  BY <1>2, <1>3, <1>4, <1>5, <1>6, <1>7, <1>8, <1>9, WriteStep

\* A zone that is deleted is gone.
LEMMA RemoveZoneStep ==
    ASSUME EditsInv, NEW o \in Operators, RemoveZone(o)
    PROVE  EditsInv'
<1> DEFINE e == ZoneEntry(o)
<1>1. CallOK(call[o]) /\ call[o].op = "zone.delete"
  BY DEF RemoveZone, Doing, EditsInv
<1>2. Appended(e) /\ e.op = "zone.delete"
  BY <1>1 DEF RemoveZone, Appended, RecordAudit, CameraEntry, ZoneEntry, Entries, CallOK,
              CameraOps, ZoneOps, Zones, EditsInv, TablesOK, ZoneIds
<1>3. TablesOK'
  BY <1>1, <1>2, AppendedEntry DEF RemoveZone, TablesOK, EditsInv, CallOK, Zones, ZoneIds
<1>4. CallsOK'
  BY ReplyStep DEF RemoveZone
<1>5. ZonesLogged'
  <2>1. \A z \in ZoneIds : zone'[z] # None => zone[z] # None /\ zone'[z].cam = zone[z].cam
    BY <1>1, NotNone DEF RemoveZone, EditsInv, TablesOK, CallOK, Zones, ZoneIds
  <2> QED
    BY <1>2, <2>1, ZonesLoggedStep DEF RemoveZone
<1>6. ZonesHaveCamera'
  BY <1>1, <1>2, NotNone DEF RemoveZone, EditsInv, TablesOK, CallOK, CameraEntry, ZoneEntry, CameraOps, Zones, ZoneIds, ZonesHaveCamera
<1>7. \A c \in Cameras : camera'[c] # None <=>
         \/ e.op = "camera.create" /\ e.target = c
         \/ camera[c] # None /\ ~(e.op = "camera.delete" /\ e.target = c)
  BY <1>1, <1>2, NotNone DEF RemoveZone, EditsInv, TablesOK, CallOK, CameraEntry, ZoneEntry, CameraOps, Zones, ZoneIds
<1>8. \A z \in ZoneIds : zone'[z] # None <=>
         \/ e.op = "zone.create" /\ e.target = z
         \/ /\ zone[z] # None
            /\ ~(e.op = "zone.delete" /\ e.target = z)
            /\ ~(e.op = "camera.delete" /\ e.target = zone[z].cam)
  BY <1>1, <1>2, NotNone DEF RemoveZone, EditsInv, TablesOK, CallOK, CameraEntry, ZoneEntry, CameraOps, Zones, ZoneIds
<1>9. e.op = "camera.create" => camera[e.target] = None
  BY <1>1, <1>2, NotNone DEF RemoveZone, EditsInv, TablesOK, CallOK, CameraEntry, ZoneEntry, CameraOps, Zones, ZoneIds
<1> QED
  BY <1>2, <1>3, <1>4, <1>5, <1>6, <1>7, <1>8, <1>9, WriteStep

\* A transaction that is rolled back leaves the tables as they are, ...
LEMMA RollBackStep ==
    ASSUME EditsInv, NEW o \in Operators, RollBack(o)
    PROVE  EditsInv'
<1>1. CallsOK'
  BY ReplyStep DEF RollBack
<1>2. camera' = camera /\ zone' = zone /\ nextZone' = nextZone /\ audit' = audit
  BY DEF RollBack
<1> QED
  BY <1>1, <1>2 DEF EditsInv, CallsOK, TablesOK, ZonesLogged, ZonesHaveCamera,
      AuditKnowsExistence, CameraLogged, ZoneLogged, CreatedOnce, IsEntry

\* ... and so do the steps that only load, the cache and the clock.
LEMMA IdleStep ==
    ASSUME EditsInv, UNCHANGED tables, CallsOK'
    PROVE  EditsInv'
BY DEF EditsInv, CallsOK, tables, TablesOK, ZonesLogged, ZonesHaveCamera,
       AuditKnowsExistence, CameraLogged, ZoneLogged, CreatedOnce, IsEntry

LEMMA EditsStep == EditsInv /\ [Next]_vars => EditsInv'
<1> SUFFICES ASSUME EditsInv, [Next]_vars PROVE EditsInv'
  OBVIOUS
<1>1. ASSUME NEW o \in Operators, Loads(o) PROVE EditsInv'
  BY <1>1, LoadStep, IdleStep
<1>2. ASSUME NEW o \in Operators, Writes(o) PROVE EditsInv'
  BY <1>2, InsertCameraStep, UpdateCameraStep, RemoveCameraStep,
     InsertZoneStep, UpdateZoneStep, RemoveZoneStep, RollBackStep DEF Writes
<1>3. CASE ServiceStep \/ ServiceRestart \/ Tick \/ UNCHANGED vars
  <2>1. UNCHANGED tables /\ call' = call
    BY <1>3 DEF ServiceStep, Detection, Select, SelectFails, Swap, Judged, ServiceRestart,
                Tick, vars, api
  <2> QED
    BY <2>1, IdleStep DEF EditsInv, CallsOK, CallOK
<1> QED
  BY <1>1, <1>2, <1>3 DEF Next

THEOREM EditsInvariant == Spec => []EditsInv
BY EditsInit, EditsStep, PTL DEF Spec

\* No zone outlives its camera, whatever requests meet (cameras.py, zones.py and
\* the ON DELETE CASCADE of 0001_initial_schema.py).
THEOREM ZonesHaveCameras == Spec => []ZonesHaveCamera
<1>1. EditsInv => ZonesHaveCamera
  BY DEF EditsInv
<1> QED
  BY <1>1, EditsInvariant, PTL

\* The audit log tells which cameras and zones there are (record_audit, in the
\* transaction of the write).
THEOREM AuditTruthful == Spec => []AuditKnowsExistence
<1>1. EditsInv => AuditKnowsExistence
  BY DEF EditsInv
<1> QED
  BY <1>1, EditsInvariant, PTL

\* Of two requests that create a camera, one is refused (create_camera).
THEOREM CamerasCreatedOnce == Spec => []CreatedOnce
<1>1. EditsInv => CreatedOnce
  BY DEF EditsInv
<1> QED
  BY <1>1, EditsInvariant, PTL
-------------------------------------------------------------------------------
(* The zones by which a detection is judged *)

\* Zones that were selected at time t are those of camera c, or were edited since.
AsOf(zones, c, t) == zones = Enabled(c) \/ changedAt[c] >= t

\* The service is starting: its cache has not been filled.
IsStarting == query.step \in {"select", "swap"} /\ query.cam = None

\* The cache is at most one query older than its refresh, and there was one before
\* the first detection.
FreshInv ==
    /\ clock \in Nat
    /\ changedAt \in [Cameras -> Nat]
    /\ lastRefresh \in Nat /\ lastRefresh <= clock
    /\ \/ IsStarting
       \/ \A c \in Cameras : AsOf(cache[c], c, lastRefresh - QueryTime)
    /\ query.step \in {"select", "swap"} => query.cam \in Cameras \cup {None}
    /\ query.step = "swap" =>
          /\ query.asOf \in Nat /\ query.asOf <= clock /\ clock <= query.asOf + QueryTime
          /\ \A c \in Cameras : AsOf(query.rows[c], c, query.asOf)

LEMMA FreshInit == Init => FreshInv
BY TimesAssumption DEF Init, FreshInv, IsStarting, Starting

\* A write of event-api notes the time if it changes the zones of a camera.
LEMMA ReplyKeepsFresh == ASSUME FreshInv, NEW o, Reply(o) PROVE FreshInv'
<1>1. /\ UNCHANGED <<service, clock>> /\ clock \in Nat /\ QueryTime \in Nat
      /\ changedAt' = [c \in Cameras |-> IF Enabled(c)' # Enabled(c) THEN clock ELSE changedAt[c]]
  BY TimesAssumption DEF Reply, FreshInv
<1>2. changedAt' \in [Cameras -> Nat]
  BY <1>1 DEF FreshInv
<1>3. ASSUME NEW zones, NEW c \in Cameras, NEW t, t \in Int, t <= clock, AsOf(zones, c, t)
      PROVE  zones = Enabled(c)' \/ changedAt'[c] >= t
  BY <1>1, <1>3 DEF AsOf
<1>4. IsStarting' \/ \A c \in Cameras : AsOf(cache[c], c, lastRefresh - QueryTime)'
  <2>1. lastRefresh - QueryTime \in Int /\ lastRefresh - QueryTime <= clock
    BY <1>1 DEF FreshInv
  <2>2. QED
    BY <1>1, <1>3, <2>1 DEF FreshInv, IsStarting, AsOf, service
<1>5. query.step = "swap" => \A c \in Cameras : AsOf(query.rows[c], c, query.asOf)'
  BY <1>1, <1>3 DEF FreshInv, AsOf, service
<1>6. QED
  BY <1>1, <1>2, <1>4, <1>5 DEF FreshInv, service

LEMMA FreshStep == FreshInv /\ [Next]_vars => FreshInv'
<1> SUFFICES ASSUME FreshInv, [Next]_vars PROVE FreshInv'
  OBVIOUS
<1> USE TimesAssumption
<1>1. ASSUME NEW o \in Operators, Writes(o) PROVE FreshInv'
  <2>1. Reply(o)
    BY <1>1 DEF Writes, InsertCamera, UpdateCamera, RemoveCamera, InsertZone, UpdateZone,
                RemoveZone, RollBack
  <2>2. QED
    BY <2>1, ReplyKeepsFresh
<1>2. ASSUME UNCHANGED <<zone, changedAt, service, clock>> PROVE FreshInv'
  BY <1>2 DEF FreshInv, IsStarting, AsOf, Enabled, service
<1>3. ASSUME NEW o \in Operators, Loads(o) PROVE FreshInv'
  <2>1. \E loaded : Load(o, loaded)
    BY <1>3 DEF Loads, PostCamera, PutCamera, DeleteCamera, PostZone, PutZone, DeleteZone
  <2>2. QED
    BY <1>2, <2>1 DEF Load, tables
<1>4. ASSUME NEW c \in Cameras, Detection(c) PROVE FreshInv'
  BY <1>4 DEF Detection, FreshInv, IsStarting, AsOf, Enabled, api, tables
<1>5. CASE Select
  <2>1. /\ query' = [step |-> "swap", cam |-> query.cam, asOf |-> clock,
                     rows |-> [c \in Cameras |-> Enabled(c)]]
        /\ query.step = "select" /\ query.cam \in Cameras \cup {None}
        /\ UNCHANGED <<zone, changedAt, cache, lastRefresh, clock>>
    BY <1>5 DEF Select, FreshInv, api, tables
  <2>2. \A c \in Cameras : AsOf(query.rows[c], c, query.asOf)'
    BY <2>1 DEF AsOf, Enabled
  <2>3. QED
    BY <2>1, <2>2 DEF FreshInv, IsStarting, AsOf, Enabled
<1>6. CASE SelectFails \/ Judged
  BY <1>6 DEF SelectFails, Judged, NoQuery, Starting, FreshInv, IsStarting, AsOf, Enabled,
              api, tables
<1>7. CASE Swap
  <2>1. /\ cache' = query.rows /\ lastRefresh' = clock
        /\ query'.step \in {"idle", "judge"} /\ UNCHANGED <<zone, changedAt, clock>>
        /\ query.asOf \in Nat /\ clock <= query.asOf + QueryTime
        /\ \A c \in Cameras : AsOf(query.rows[c], c, query.asOf)
    BY <1>7 DEF Swap, NoQuery, FreshInv, api, tables
  <2>2. \A c \in Cameras : AsOf(cache[c], c, lastRefresh - QueryTime)'
    BY <2>1 DEF AsOf, Enabled, FreshInv
  <2>3. QED
    BY <2>1, <2>2 DEF FreshInv
<1>8. CASE ServiceRestart
  BY <1>8 DEF ServiceRestart, FreshInv, IsStarting, Starting, api, tables
<1>9. CASE Tick
  BY <1>9 DEF Tick, FreshInv, IsStarting, AsOf, Enabled, api, tables, service
<1>10. CASE UNCHANGED vars
  BY <1>2, <1>10 DEF vars, api, tables
<1>11. QED
  BY <1>1, <1>3, <1>4, <1>5, <1>6, <1>7, <1>8, <1>9, <1>10 DEF Next, ServiceStep

\* A detection is judged by zones that are in force, or were edited within the
\* last Ttl and the time a query takes, whatever refreshes fail or are overtaken.
THEOREM EditsTakeEffect == Spec => EditsInForce
<1> DEFINE Timely == query'.step = "judge" /\ query.step # "judge"
                        /\ changedAt[query'.cam] + Ttl + QueryTime < clock
                     => query'.zones = Enabled(query'.cam)
<1>1. ASSUME FreshInv, Next PROVE Timely
  <2> USE <1>1, TimesAssumption
  <2>1. ASSUME NEW c \in Cameras, Detection(c) PROVE Timely
    <3>1. CASE clock - lastRefresh > Ttl
      BY <2>1, <3>1 DEF Detection
    <3>2. CASE ~(clock - lastRefresh > Ttl)
      <4>1. query'.cam = c /\ query'.zones = cache[c]
        BY <2>1, <3>2 DEF Detection
      <4>2. AsOf(cache[c], c, lastRefresh - QueryTime)
        BY <2>1 DEF Detection, FreshInv, IsStarting
      <4>3. QED
        BY <3>2, <4>1, <4>2 DEF AsOf, FreshInv
    <3>3. QED
      BY <3>1, <3>2
  <2>2. CASE Swap
    <3> SUFFICES ASSUME query'.step = "judge"
                 PROVE  Timely
      OBVIOUS
    <3>1. query'.cam = query.cam /\ query'.zones = query.rows[query.cam] /\ query.cam \in Cameras
      BY <2>2 DEF Swap, NoQuery, FreshInv
    <3>2. AsOf(query.rows[query.cam], query.cam, query.asOf)
      BY <2>2, <3>1 DEF Swap, FreshInv
    <3>3. QED
      BY <2>2, <3>1, <3>2 DEF AsOf, FreshInv, Swap
  <2>3. CASE Select \/ SelectFails \/ Judged \/ ServiceRestart
    BY <2>3 DEF Select, SelectFails, Judged, ServiceRestart, NoQuery, Starting
  <2>4. CASE query' = query
    BY <2>4
  <2>5. ASSUME NEW o \in Operators, Loads(o) \/ Writes(o) PROVE query' = query
    <3>1. (\E loaded : Load(o, loaded)) \/ Reply(o)
      BY <2>5 DEF Loads, PostCamera, PutCamera, DeleteCamera, PostZone, PutZone, DeleteZone,
                  Writes, InsertCamera, UpdateCamera, RemoveCamera, InsertZone, UpdateZone,
                  RemoveZone, RollBack
    <3>2. QED
      BY <3>1 DEF Load, Reply, service
  <2>6. QED
    BY <2>1, <2>2, <2>3, <2>4, <2>5 DEF Next, ServiceStep, Tick, service
<1>2. FreshInv /\ [Next]_vars => [Timely]_vars
  BY <1>1
<1>3. QED
  BY <1>2, FreshInit, FreshStep, PTL DEF Spec, EditsInForce
-------------------------------------------------------------------------------
(* Types *)

TypeInv == TypeOK /\ EditsInv /\ FreshInv

LEMMA TypeInit == Init => TypeInv
<1> SUFFICES ASSUME Init PROVE TypeOK
  BY EditsInit, FreshInit DEF TypeInv
<1>1. call \in [Operators -> Calls]
  BY DEF Init, Calls, CameraRows
<1>2. {edits, clock, lastRefresh, restarts} \subseteq Nat /\ nextZone \in 1..(MaxZones + 1)
  BY TimesAssumption, BoundsAssumption DEF Init
<1> QED
  BY <1>1, <1>2 DEF Init, TypeOK, CameraRows, Queries, Starting

\* The zones a query returns.
LEMMA EnabledTyped == ASSUME TypeOK, NEW c \in Cameras PROVE Enabled(c) \in SUBSET Judging
<1>1. \A z \in ZoneIds : zone[z] # None => zone[z].shape \in Shapes
  BY DEF TypeOK, CameraRows, Zones
<1> QED
  BY <1>1 DEF Enabled, Judging

\* A request loads rows of the tables.
LEMMA LoadTyped == ASSUME TypeOK, NEW o \in Operators, Loads(o) PROVE call' \in [Operators -> Calls]
<1>1. ASSUME NEW loaded, loaded \in Calls, Load(o, loaded) PROVE call' \in [Operators -> Calls]
  BY <1>1 DEF Load, TypeOK, CameraRows
<1>2. ASSUME NEW c \in Cameras, NEW new \in Details, PostCamera(o, c, new) \/ PutCamera(o, c, new)
      PROVE  call' \in [Operators -> Calls]
  <2>1. \A op \in CameraOps : \A old \in Details \cup {None} :
            [op |-> op, target |-> c, old |-> old, new |-> new] \in Calls
    BY DEF Calls, CameraRows
  <2>2. camera[c] \in Details \cup {None}
    BY DEF TypeOK, CameraRows
  <2> QED
    BY <1>1, <1>2, <2>1, <2>2 DEF PostCamera, PutCamera, CameraOps
<1>3. ASSUME NEW c \in Cameras, DeleteCamera(o, c) PROVE call' \in [Operators -> Calls]
  <2>1. camera[c] \in Details \cup {None}
    BY DEF TypeOK, CameraRows
  <2>2. [op |-> "camera.delete", target |-> c, old |-> camera[c], new |-> None] \in Calls
    BY <2>1 DEF Calls, CameraRows, CameraOps
  <2> QED
    BY <1>1, <1>3, <2>2 DEF DeleteCamera
<1>4. ASSUME NEW new \in Zones, PostZone(o, new) PROVE call' \in [Operators -> Calls]
  <2>1. [op |-> "zone.create", new |-> new] \in Calls
    BY DEF Calls, CameraRows
  <2> QED
    BY <1>1, <1>4, <2>1 DEF PostZone
<1>5. ASSUME NEW z \in ZoneIds, NEW shape \in Shapes, NEW enabled \in BOOLEAN,
             PutZone(o, z, shape, enabled)
      PROVE  call' \in [Operators -> Calls]
  <2>1. zone[z] \in Zones
    BY <1>5 DEF PutZone, TypeOK, CameraRows
  <2>2. [cam |-> zone[z].cam, shape |-> shape, enabled |-> enabled] \in Zones
    BY <2>1 DEF Zones
  <2>3. [op |-> "zone.update", target |-> z, old |-> zone[z],
         new |-> [cam |-> zone[z].cam, shape |-> shape, enabled |-> enabled]] \in Calls
    BY <2>1, <2>2 DEF Calls, CameraRows
  <2> QED
    BY <1>1, <1>5, <2>3 DEF PutZone
<1>6. ASSUME NEW z \in ZoneIds, DeleteZone(o, z) PROVE call' \in [Operators -> Calls]
  <2>1. zone[z] \in Zones
    BY <1>6 DEF DeleteZone, TypeOK, CameraRows
  <2>2. [op |-> "zone.delete", target |-> z, old |-> zone[z], new |-> None] \in Calls
    BY <2>1 DEF Calls, CameraRows
  <2> QED
    BY <1>1, <1>6, <2>2 DEF DeleteZone
<1> QED
  BY <1>2, <1>3, <1>4, <1>5, <1>6 DEF Loads

\* The id sequence stays within the zones.
LEMMA WriteTyped ==
    ASSUME TypeOK, NEW o \in Operators, Writes(o)
    PROVE  call' \in [Operators -> Calls] /\ nextZone' \in 1..(MaxZones + 1)
<1>1. Reply(o) /\ (nextZone' = nextZone \/ (nextZone \in ZoneIds /\ nextZone' = nextZone + 1))
  <2>1. CASE InsertZone(o)
    BY <2>1 DEF InsertZone
  <2>2. CASE InsertCamera(o) \/ UpdateCamera(o) \/ RemoveCamera(o)
    BY <2>2 DEF InsertCamera, UpdateCamera, RemoveCamera
  <2>3. CASE UpdateZone(o) \/ RemoveZone(o) \/ RollBack(o)
    BY <2>3 DEF UpdateZone, RemoveZone, RollBack
  <2> QED
    BY <2>1, <2>2, <2>3 DEF Writes
<1>2. call' \in [Operators -> Calls]
  BY <1>1 DEF Reply, TypeOK, Calls, CameraRows
<1> QED
  BY <1>1, <1>2, BoundsAssumption DEF TypeOK, CameraRows, ZoneIds

LEMMA TypeStep == TypeInv /\ [Next]_vars => TypeInv'
<1> SUFFICES ASSUME TypeInv, [Next]_vars PROVE TypeOK'
  BY EditsStep, FreshStep DEF TypeInv
<1>1. EditsInv' /\ FreshInv'
  BY EditsStep, FreshStep DEF TypeInv
<1>2. /\ (camera \in [Cameras -> Details \cup {None}])' /\ (zone \in [ZoneIds -> Zones \cup {None}])'
      /\ (audit \in Seq(Entries))' /\ (changedAt \in [Cameras -> Nat])'
      /\ clock' \in Nat /\ lastRefresh' \in Nat
  BY <1>1 DEF EditsInv, TablesOK, FreshInv
<1>3. ASSUME NEW o \in Operators, Loads(o) PROVE TypeOK'
  <2>1. \E loaded : Load(o, loaded)
    BY <1>3 DEF Loads, PostCamera, PutCamera, DeleteCamera, PostZone, PutZone, DeleteZone
  <2>2. /\ edits' = edits + 1 /\ UNCHANGED <<nextZone, restarts, cache, query>>
    BY <2>1 DEF Load, tables, service
  <2> QED
    BY <1>2, <1>3, <2>2, LoadTyped DEF TypeInv, TypeOK, CameraRows
<1>4. ASSUME NEW o \in Operators, Writes(o) PROVE TypeOK'
  <2>1. Reply(o)
    BY <1>4 DEF Writes, InsertCamera, UpdateCamera, RemoveCamera, InsertZone, UpdateZone,
                RemoveZone, RollBack
  <2>2. UNCHANGED <<edits, restarts, cache, query>>
    BY <2>1 DEF Reply, service
  <2> QED
    BY <1>2, <1>4, <2>2, WriteTyped DEF TypeInv, TypeOK, CameraRows
<1>5. ASSUME UNCHANGED <<nextZone, call, edits>>, restarts' \in Nat,
             cache' \in [Cameras -> SUBSET Judging], query' \in Queries
      PROVE  TypeOK'
  BY <1>2, <1>5 DEF TypeInv, TypeOK, CameraRows
<1>6. /\ cache \in [Cameras -> SUBSET Judging] /\ query \in Queries
      /\ NoQuery \in Queries /\ Starting \in Queries /\ restarts \in Nat /\ clock \in Nat
  BY DEF TypeInv, TypeOK, CameraRows, Queries, Starting
<1>7. ASSUME NEW c \in Cameras, Detection(c) PROVE TypeOK'
  <2>1. query' \in Queries
    BY <1>6, <1>7 DEF Detection, Queries
  <2> QED
    BY <1>5, <1>6, <1>7, <2>1 DEF Detection, api, tables
<1>8. CASE Select
  <2>1. query.cam \in Cameras \cup {None}
    BY <1>8 DEF Select, TypeInv, FreshInv
  <2>2. [c \in Cameras |-> Enabled(c)] \in [Cameras -> SUBSET Judging]
    BY EnabledTyped DEF TypeInv
  <2>3. query' \in Queries
    BY <1>6, <1>8, <2>1, <2>2 DEF Select, Queries
  <2> QED
    BY <1>5, <1>6, <1>8, <2>3 DEF Select, api, tables
<1>9. CASE SelectFails \/ Judged
  BY <1>5, <1>6, <1>9 DEF SelectFails, Judged, api, tables
<1>10. CASE Swap
  <2>1. query.cam \in Cameras \cup {None} /\ query.rows \in [Cameras -> SUBSET Judging]
    BY <1>6, <1>10 DEF Swap, Queries, NoQuery
  <2>2. query' \in Queries /\ cache' \in [Cameras -> SUBSET Judging]
    BY <1>6, <1>10, <2>1 DEF Swap, Queries
  <2> QED
    BY <1>5, <1>6, <1>10, <2>2 DEF Swap, api, tables
<1>11. CASE ServiceRestart
  <2>1. cache' \in [Cameras -> SUBSET Judging]
    BY <1>11 DEF ServiceRestart
  <2> QED
    BY <1>5, <1>6, <1>11, <2>1 DEF ServiceRestart, api, tables
<1>12. CASE Tick \/ UNCHANGED vars
  BY <1>5, <1>6, <1>12 DEF Tick, vars, api, tables, service
<1> QED
  BY <1>3, <1>4, <1>7, <1>8, <1>9, <1>10, <1>11, <1>12 DEF Next, ServiceStep

\* The type invariant, for every number of requests and whatever the bounds.
THEOREM TypeCorrect == Spec => []TypeOK
<1>1. TypeInv => TypeOK
  BY DEF TypeInv
<1> QED
  BY <1>1, TypeInit, TypeStep, PTL DEF Spec
===============================================================================
