------------------------------ MODULE CviMatching ------------------------------
(***************************************************************************)
(* Which vehicle an observation is taken for: CVIManager of               *)
(* violation-service (cvi_manager.py, cvi.py), for one camera.             *)
(*                                                                         *)
(* The detections of a frame come one after the other to resolve(), which  *)
(* gives each the first CVI that one of four rules finds, or a new one.    *)
(* The rules know boxes, track ids and embeddings; the vehicles behind     *)
(* them are in the model only, for the properties to compare with.  The    *)
(* scene is not restricted: vehicles overlap, look alike and get the track *)
(* ids of others, and a history says which of them met in such a way.      *)
(* Between two detections the eviction loop and the ocr_results consumer   *)
(* run.  The model is one run of the process: a restart keeps no CVI.      *)
(***************************************************************************)
EXTENDS Integers, FiniteSets

CONSTANTS
    Cvis,               \* cvi_ids; each is handed out at most once (uuid4)
    Vehicles,
    Boxes,              \* where the box of a vehicle can be
    Overlapping,        \* the pairs of boxes with an IoU above 0.30
    Tracks,             \* ds_track_ids
    None,
    TrackWindow,        \* TRACK_ID_LAST_SEEN_WINDOW
    SpatialWindow,      \* SPATIAL_LAST_SEEN_WINDOW
    EmbeddingWindow,    \* EMBEDDING_LAST_SEEN_WINDOW
    PlateWindow,        \* PLATE_LAST_SEEN_WINDOW
    MaxIdle,            \* max_idle_seconds of evict_stale
    Alike,              \* the pairs of vehicles whose embeddings may be similar
    ReId,               \* sgie.enabled: detections may carry an embedding
    MaxSightings,       \* bound on the observations of an EmbeddingWindow
    MaxTime             \* bound of a run

\* A box overlaps with itself, and a vehicle may look like itself; the windows are
\* ordered as they are in the code.
ASSUME BoxesAssumption ==
    /\ Overlapping \subseteq Boxes \X Boxes
    /\ \A b \in Boxes : <<b, b>> \in Overlapping
    /\ \A a, b \in Boxes : <<a, b>> \in Overlapping => <<b, a>> \in Overlapping
ASSUME WindowsAssumption ==
    /\ {TrackWindow, SpatialWindow, EmbeddingWindow, PlateWindow, MaxIdle,
        MaxSightings, MaxTime} \subseteq Nat
    /\ TrackWindow <= SpatialWindow /\ SpatialWindow <= EmbeddingWindow
ASSUME AlikeAssumption ==
    Alike \subseteq Vehicles \X Vehicles /\ \A v \in Vehicles : <<v, v>> \in Alike
ASSUME ReIdAssumption == ReId \in BOOLEAN

VARIABLES
    clock,      \* wall-clock time
    now,        \* timestamp of the newest frame
    todo,       \* its detections that are not resolved yet
    cvi,        \* CVIManager._cvis: what the rules look at, or None
    created,    \* the cvi_ids handed out so far
    sightings,  \* what was seen in the last EmbeddingWindow (history)
    met,        \* the pairs of vehicles that could be confused (history)
    fed,        \* the vehicles a CVI was given observations of (history)
    stay        \* the CVI of a vehicle when it stopped, and now (history)

history == <<sightings, met, fed, stay>>
vars == <<clock, now, todo, cvi, created, history>>

-------------------------------------------------------------------------------
(* State *)

\* Whether an object has a usable embedding: with the SGIE it may have skipped the frame.
Embeddings == IF ReId THEN BOOLEAN ELSE {FALSE}

\* A detected object.
Objects == [box : Boxes, track : Tracks, embedded : Embeddings]

\* An Observation, with the vehicle that it shows.  from_detection sets no plate.
Observations == [of : Vehicles, at : Nat, box : Boxes, track : Tracks,
                 embedded : BOOLEAN, plate : {None}]

\* What the history keeps of it, for the properties.
Sightings == [of : Vehicles, at : Nat, box : Boxes, track : Tracks]

Sighting(o) == [of |-> o.of, at |-> o.at, box |-> o.box, track |-> o.track]

\* A CVI; looks are the vehicles of which its embedding centroid has samples, and
\* a plate is that of a vehicle.
Records == [seen : Nat, box : Boxes, track : Tracks,
            looks : SUBSET Vehicles, plate : Vehicles \cup {None}]

\* Where a vehicle stands: the CVI that it came to stand with, and the last one.
Stays == [from : Cvis, in : Cvis]

ASSUME NoneAssumption == None \notin Vehicles \cup Objects \cup Records

Init ==
    /\ clock = 0 /\ now = 0 /\ todo = {}
    /\ cvi = [c \in Cvis |-> None] /\ created = {}
    /\ sightings = {} /\ met = {}
    /\ fed = [c \in Cvis |-> {}]
    /\ stay = [v \in Vehicles |-> None]

live == {c \in Cvis : cvi[c] # None}

-------------------------------------------------------------------------------
(* The frames *)

\* Mutant of FromDetection: the observation carries the plate, as its docstring says.
FromDetectionWithPlate(v, object, ts) ==
    [of |-> v, at |-> ts, box |-> object.box, track |-> object.track,
     embedded |-> object.embedded, plate |-> v]

\* from_detection: an object with the time of its frame, and without a plate.
FromDetection(v, object, ts) ==
    [of |-> v, at |-> ts, box |-> object.box, track |-> object.track,
     embedded |-> object.embedded, plate |-> None]

\* The observations that a frame may bring: any of the vehicles, anywhere.  The
\* tracker gives every object of a frame an id of its own.
Frames(ts) ==
    {F \in {{FromDetection(v, f[v], ts) : v \in {w \in Vehicles : f[w] # None}} :
                f \in [Vehicles -> Objects \cup {None}]} :
        \A o, p \in F : o.of # p.of => o.track # p.track}

\* History: the vehicles of two sightings met if one of the rules 2 to 4 may take
\* the later one for the earlier: the boxes overlap, the track is the same, or
\* they look alike, within the window of the rule.
Confusable(s, o) ==
    \/ <<s.box, o.box>> \in Overlapping /\ o.at - s.at <= SpatialWindow
    \/ s.track = o.track /\ o.at - s.at <= TrackWindow
    \/ o.embedded /\ <<s.of, o.of>> \in Alike /\ o.at - s.at <= EmbeddingWindow

Meetings(seen, F) ==
    {{m[1].of, m[2].of} : m \in {p \in seen \X F :
                                   p[1].of # p[2].of /\ Confusable(p[1], p[2])}}

\* The next frame that arrives; frames may be lost, and late.
Poll ==
    /\ todo = {}
    /\ \E ts \in (now + 1) .. clock :
         /\ now' = ts
         /\ \E F \in Frames(ts) \ {{}} :
              /\ todo' = F
              /\ sightings' = {s \in sightings : ts - s.at <= EmbeddingWindow}
                                 \cup {Sighting(o) : o \in F}
              /\ Cardinality(sightings') <= MaxSightings
              /\ met' = met \cup Meetings(sightings', F)
    /\ UNCHANGED <<clock, cvi, created, fed, stay>>

-------------------------------------------------------------------------------
(* The four rules of _match *)

Within(c, o, window) == o.at - cvi[c].seen <= window

\* Priority 1.
ByPlate(o) ==
    {c \in live : o.plate # None /\ cvi[c].plate = o.plate /\ Within(c, o, PlateWindow)}

\* The CVIs of which the similarity to the embedding may pass the threshold: those
\* with samples of a vehicle that looks alike, and a mixture may be like anything.
\* The samples of one vehicle may fail it as well.
Likenesses(o) ==
    SUBSET {c \in live : \/ \E u \in cvi[c].looks : <<u, o.of>> \in Alike
                         \/ \E u, w \in cvi[c].looks : u # w}

\* Mutant of Nearby: a box is compared with however old it is.
NearbyOnce(o) == {c \in live : <<cvi[c].box, o.box>> \in Overlapping}

Nearby(o) ==
    {c \in live : Within(c, o, SpatialWindow) /\ <<cvi[c].box, o.box>> \in Overlapping}

\* Priority 2.  Of several the embedding decides (_pick_by_embedding, which does
\* without the threshold).
BySpace(o, alike) ==
    LET shown == {c \in Nearby(o) : o.embedded /\ cvi[c].looks # {}}
    IN  IF \E c \in live : Nearby(o) = {c} THEN Nearby(o)
        ELSE IF shown \cap alike # {} THEN shown \cap alike ELSE shown

\* Priority 3.
ByLook(o, alike) == {c \in alike : o.embedded /\ Within(c, o, EmbeddingWindow)}

\* Priority 4.
ByTrack(o) == {c \in live : cvi[c].track = o.track /\ Within(c, o, TrackWindow)}

FirstOf(A, B) == IF A # {} THEN A ELSE B

\* The CVIs that _match may return: _by_camera is a set, in no order.
Matching(o, alike) ==
    FirstOf(ByPlate(o), FirstOf(BySpace(o, alike), FirstOf(ByLook(o, alike), ByTrack(o))))

-------------------------------------------------------------------------------
(* CVIManager *)

\* Mutant of Fold: the box is only set when the CVI is created.
FoldInPlace(r, o) == [r EXCEPT !.seen = o.at, !.track = o.track,
                               !.looks = IF o.embedded THEN @ \cup {o.of} ELSE @]

\* CVI.apply.
Fold(r, o) == [r EXCEPT !.seen = o.at, !.box = o.box, !.track = o.track,
                        !.looks = IF o.embedded THEN @ \cup {o.of} ELSE @]

\* CVI.from_observation.
FromObservation(o) == [seen |-> o.at, box |-> o.box, track |-> o.track,
                       looks |-> IF o.embedded THEN {o.of} ELSE {}, plate |-> None]

\* History: the CVI is the vehicle's only, and its only one that is recent; the stay
\* goes on if the vehicle is where it was when it was last seen, within the window
\* of rule 2 and before the eviction could have come first.
Alone(o, c) ==
    /\ fed[c] \subseteq {o.of}
    /\ \A d \in live \ {c} : o.of \in fed[d] => ~Within(d, o, SpatialWindow)

Earlier(o) == {s \in sightings : s.of = o.of /\ s.at < o.at}

Unmoved(o) ==
    \E s \in Earlier(o) :
        /\ \A r \in Earlier(o) : r.at <= s.at
        /\ s.box = o.box /\ o.at - s.at <= SpatialWindow /\ clock - s.at <= MaxIdle

Resolved(o, c) ==
    /\ todo' = todo \ {o}
    /\ fed' = [fed EXCEPT ![c] = @ \cup {o.of}]
    /\ stay' = [stay EXCEPT ![o.of] =
                    IF @ # None /\ Unmoved(o) THEN [@ EXCEPT !.in = c]
                    ELSE IF Alone(o, c) THEN [from |-> c, in |-> c] ELSE None]
    /\ UNCHANGED <<clock, now, sightings, met>>

\* resolve: the CVI that matches, or a new one.
Match(o, c) ==
    /\ \E alike \in Likenesses(o) : c \in Matching(o, alike)
    /\ cvi' = [cvi EXCEPT ![c] = Fold(@, o)]
    /\ Resolved(o, c)
    /\ UNCHANGED created

Create(o, c) ==
    /\ \E alike \in Likenesses(o) : Matching(o, alike) = {}
    /\ c \notin created
    /\ created' = created \cup {c}
    /\ cvi' = [cvi EXCEPT ![c] = FromObservation(o)]
    /\ Resolved(o, c)

\* apply_ocr_result, with the vote that makes the majority; a plate that is read
\* belongs to one of the vehicles that the CVI stands for.
ApplyOcrResult(c, v) ==
    /\ c \in live /\ v \in fed[c]
    /\ cvi' = [cvi EXCEPT ![c].plate = v]
    /\ UNCHANGED <<clock, now, todo, created, history>>

\* Mutant of EvictStale: a CVI that is as old as allowed goes.
EvictStaleAtLimit ==
    /\ \E c \in live : cvi[c].seen <= clock - MaxIdle
    /\ cvi' = [c \in Cvis |-> IF c \in live /\ cvi[c].seen <= clock - MaxIdle
                              THEN None ELSE cvi[c]]
    /\ UNCHANGED <<clock, now, todo, created, history>>

\* evict_stale, by the wall clock.
EvictStale ==
    /\ \E c \in live : cvi[c].seen < clock - MaxIdle
    /\ cvi' = [c \in Cvis |-> IF c \in live /\ cvi[c].seen < clock - MaxIdle
                              THEN None ELSE cvi[c]]
    /\ UNCHANGED <<clock, now, todo, created, history>>

Tick ==
    /\ clock < MaxTime
    /\ clock' = clock + 1
    /\ UNCHANGED <<now, todo, cvi, created, history>>

Next ==
    \/ Poll \/ EvictStale \/ Tick
    \/ \E o \in todo, c \in Cvis : Match(o, c) \/ Create(o, c)
    \/ \E c \in Cvis, v \in Vehicles : ApplyOcrResult(c, v)

Spec == Init /\ [][Next]_vars

-------------------------------------------------------------------------------
(* Properties *)

TypeOK ==
    /\ clock \in Nat /\ now \in Nat
    /\ todo \subseteq Observations /\ sightings \subseteq Sightings
    /\ cvi \in [Cvis -> Records \cup {None}]
    /\ created \subseteq Cvis /\ live \subseteq created
    /\ met \subseteq SUBSET Vehicles
    /\ fed \in [Cvis -> SUBSET Vehicles]
    /\ stay \in [Vehicles -> Stays \cup {None}]

\* A CVI is given two vehicles only if two of those it was given have met: a box, a
\* track id or a likeness older than its window never joins two vehicles, whatever
\* was lost, late, evicted or re-identified.
MixedOnlyIfMet ==
    \A c \in live : (\E u, v \in fed[c] : u # v)
                        => \E u, v \in fed[c] : u # v /\ {u, v} \in met

\* A vehicle that stands still, is seen at least once per SpatialWindow and has met
\* no other keeps its CVI, and with it the timer of its incident: through new track
\* ids, other vehicles that come, go and are confused, evictions, and frames that
\* are late.
ParkedKeepsCvi ==
    \A v \in Vehicles :
        stay[v] # None /\ (\A m \in met : v \notin m) => stay[v].in = stay[v].from

\* What ViolationService relies on: whatever the four rules make of the scene, a
\* CVI is a stretch of sightings without gaps and without steps back in time.
Windows == {TrackWindow, SpatialWindow, EmbeddingWindow, PlateWindow}
LongestWindow == CHOOSE w \in Windows : \A x \in Windows : x <= w

Registry == INSTANCE CviRegistry WITH
    MatchWindow <- LongestWindow,
    seen <- [c \in Cvis |-> IF c \in live THEN cvi[c].seen ELSE 0]

RegistrySpec == Registry!Spec
===============================================================================
