--------------------------- MODULE CviMatchingProofs ---------------------------
(***************************************************************************)
(* Theorems about CviMatching, for every value of its constants and in     *)
(* every scene: vehicles are only mixed up if they met, and one that stays *)
(* and met no other keeps its CVI.                                         *)
(***************************************************************************)
EXTENDS CviMatching, TLAPS

\* Sightings are recent, and those to be resolved are of the newest frame, one of
\* each vehicle.
Timely ==
    /\ now <= clock
    /\ \A s \in sightings : s.at <= now /\ now - s.at <= EmbeddingWindow
    /\ \A o \in todo : o.at = now /\ Sighting(o) \in sightings
    /\ \A o, p \in todo : o.of = p.of => o = p
    /\ \A o \in todo, s \in sightings : s.of = o.of /\ s.at = now => s = Sighting(o)

\* The history has the vehicles that the next detections may be confused with.
Noticed ==
    \A o \in todo, s \in sightings :
        s.of # o.of /\ Confusable(s, o) => {s.of, o.of} \in met

\* What a CVI remembers is a sighting of a vehicle that it was given.
Traced ==
    /\ \A c \in Cvis \ created : fed[c] = {}
    /\ \A c \in live :
         /\ fed[c] # {} /\ cvi[c].looks \subseteq fed[c] /\ cvi[c].seen <= now
         /\ now - cvi[c].seen <= EmbeddingWindow =>
              \E s \in sightings :
                  /\ s.of \in fed[c] /\ s.at = cvi[c].seen
                  /\ s.box = cvi[c].box /\ s.track = cvi[c].track

IdentityInv == TypeOK /\ Timely /\ Noticed /\ Traced /\ MixedOnlyIfMet

\* The sightings of a vehicle that are resolved.
Settled(v) == {s \in sightings : s.of = v /\ \A o \in todo : o.of = v => s.at < o.at}

\* The CVI of a vehicle that stays has its last sighting, or was evicted when the
\* stay could not go on.
Remembered(v, c) ==
    \A s \in Settled(v) : (\A r \in Settled(v) : r.at <= s.at) =>
        \/ c \in live /\ cvi[c].seen = s.at /\ cvi[c].box = s.box
        \/ clock - s.at > MaxIdle

\* The other recent CVIs have last seen another vehicle.
Unrivalled(v, c) ==
    \A d \in live \ {c} : now - cvi[d].seen <= SpatialWindow =>
        \E s \in sightings : s.of # v /\ s.at = cvi[d].seen /\ s.box = cvi[d].box

Unmet(v) == \A m \in met : v \notin m

StayInv ==
    \A v \in Vehicles : stay[v] # None /\ Unmet(v) =>
        /\ stay[v].in = stay[v].from
        /\ stay[v].in \in created /\ fed[stay[v].in] = {v}
        /\ Remembered(v, stay[v].in) /\ Unrivalled(v, stay[v].in)

-------------------------------------------------------------------------------
(* Lemmas about the operators of the specification *)

LEMMA ConstantsType ==
    /\ TrackWindow \in Nat /\ SpatialWindow \in Nat /\ EmbeddingWindow \in Nat
    /\ MaxIdle \in Nat
    /\ TrackWindow <= SpatialWindow /\ SpatialWindow <= EmbeddingWindow
BY WindowsAssumption

\* A new frame brings observations of its time, one of a vehicle.
LEMMA FramesType ==
    ASSUME NEW ts \in Nat, NEW F \in Frames(ts)
    PROVE  /\ F \subseteq Observations
           /\ \A o \in F : o.at = ts
           /\ \A o, p \in F : o.of = p.of => o = p
<1>1. PICK f \in [Vehicles -> Objects \cup {None}] :
          F = {FromDetection(v, f[v], ts) : v \in {w \in Vehicles : f[w] # None}}
  BY DEF Frames
<1>2. \A v \in Vehicles : f[v] # None => f[v] \in Objects
  BY <1>1
<1>3. \A v \in Vehicles : f[v] # None =>
          /\ FromDetection(v, f[v], ts) \in Observations
          /\ FromDetection(v, f[v], ts).at = ts /\ FromDetection(v, f[v], ts).of = v
  BY <1>2 DEF FromDetection, Objects, Embeddings, Observations
<1>4. QED
  BY <1>1, <1>3

\* What the history keeps of an observation.
LEMMA SightingType ==
    ASSUME NEW o \in Observations
    PROVE  /\ Sighting(o) \in Sightings
           /\ Sighting(o).of = o.of /\ Sighting(o).at = o.at
           /\ Sighting(o).box = o.box /\ Sighting(o).track = o.track
BY DEF Sighting, Sightings, Observations

\* What a poll does to the frame and to the history.
LEMMA PollFrame ==
    ASSUME TypeOK, Poll
    PROVE  \E ts \in Nat : \E F \in Frames(ts) :
               /\ now' = ts /\ now < ts /\ ts <= clock /\ todo' = F
               /\ sightings' = {s \in sightings : ts - s.at <= EmbeddingWindow}
                                  \cup {Sighting(o) : o \in F}
               /\ met' = met \cup Meetings(sightings', F)
               /\ F \subseteq Observations /\ Meetings(sightings', F) \subseteq SUBSET Vehicles
<1>1. clock \in Nat /\ now \in Nat /\ sightings \subseteq Sightings
  BY DEF TypeOK
<1>2. PICK ts \in (now + 1) .. clock :
          /\ now' = ts
          /\ \E F \in Frames(ts) \ {{}} :
               /\ todo' = F
               /\ sightings' = {s \in sightings : ts - s.at <= EmbeddingWindow}
                                  \cup {Sighting(o) : o \in F}
               /\ met' = met \cup Meetings(sightings', F)
  BY DEF Poll
<1>3. ts \in Nat /\ now < ts /\ ts <= clock
  BY <1>1
<1>4. PICK F \in Frames(ts) :
          /\ todo' = F
          /\ sightings' = {s \in sightings : ts - s.at <= EmbeddingWindow}
                             \cup {Sighting(o) : o \in F}
          /\ met' = met \cup Meetings(sightings', F)
  BY <1>2
<1>5. F \subseteq Observations
  BY <1>3, FramesType
<1>6. sightings' \subseteq Sightings
  BY <1>1, <1>4, <1>5, SightingType
<1>7. Meetings(sightings', F) \subseteq SUBSET Vehicles
  <2> DEFINE pairs == {p \in sightings' \X F : p[1].of # p[2].of /\ Confusable(p[1], p[2])}
  <2>1. \A p \in pairs : {p[1].of, p[2].of} \subseteq Vehicles
    BY <1>5, <1>6 DEF Sightings, Observations
  <2>2. QED
    BY <2>1 DEF Meetings
<1>8. QED
  BY <1>2, <1>3, <1>4, <1>5, <1>7

\* The rules only return CVIs that are live, whatever the scene is like.
LEMMA MatchingLive ==
    ASSUME NEW o, NEW alike \in Likenesses(o)
    PROVE  Matching(o, alike) \subseteq live
<1>1. alike \subseteq live
  BY DEF Likenesses
<1>2. ByPlate(o) \subseteq live /\ Nearby(o) \subseteq live /\ ByTrack(o) \subseteq live
  BY DEF ByPlate, Nearby, ByTrack
<1>3. BySpace(o, alike) \subseteq Nearby(o) /\ ByLook(o, alike) \subseteq alike
  BY DEF BySpace, ByLook
<1>4. QED
  BY <1>1, <1>2, <1>3 DEF Matching, FirstOf

\* An observation leaves a CVI with a record of its type, that was seen then.
LEMMA RecordAfter ==
    ASSUME TypeOK, NEW o \in todo, NEW c \in Cvis, Match(o, c) \/ Create(o, c)
    PROVE  /\ cvi' \in [Cvis -> Records \cup {None}] /\ cvi'[c].seen = o.at
           /\ \A d \in Cvis \ {c} : cvi'[d] = cvi[d]
           /\ live' = live \cup {c} /\ created' = created \cup {c}
<1>1. o \in Observations /\ cvi \in [Cvis -> Records \cup {None}] /\ live \subseteq created
  BY DEF TypeOK
<1>2. o.at \in Nat /\ o.box \in Boxes /\ o.track \in Tracks /\ o.of \in Vehicles
  BY <1>1 DEF Observations
<1>3. \/ c \in live /\ cvi' = [cvi EXCEPT ![c] = Fold(cvi[c], o)] /\ created' = created
      \/ cvi' = [cvi EXCEPT ![c] = FromObservation(o)] /\ created' = created \cup {c}
  BY MatchingLive DEF Match, Create
<1>4. cvi'[c] \in Records /\ cvi'[c].seen = o.at
  <2>1. CASE c \in live /\ cvi' = [cvi EXCEPT ![c] = Fold(cvi[c], o)]
    <3>1. cvi[c] \in Records /\ cvi'[c] = Fold(cvi[c], o)
      BY <2>1, <1>1 DEF live
    <3>2. Fold(cvi[c], o) \in Records /\ Fold(cvi[c], o).seen = o.at
      BY <3>1, <1>2 DEF Fold, Records
    <3>3. QED
      BY <3>1, <3>2
  <2>2. CASE cvi' = [cvi EXCEPT ![c] = FromObservation(o)]
    <3>1. cvi'[c] = FromObservation(o)
      BY <2>2, <1>1
    <3>2. QED
      BY <3>1, <1>2 DEF FromObservation, Records
  <2>3. QED
    BY <1>3, <2>1, <2>2
<1>5. QED
  BY <1>1, <1>3, <1>4, NoneAssumption DEF live

-------------------------------------------------------------------------------
(* Types *)

LEMMA TypeInit == Init => TypeOK
BY DEF Init, TypeOK, live

LEMMA TypeStep == ASSUME TypeOK, [Next]_vars PROVE TypeOK'
<1>0. /\ cvi \in [Cvis -> Records \cup {None}] /\ clock \in Nat /\ now \in Nat
      /\ created \subseteq Cvis /\ live \subseteq created
      /\ fed \in [Cvis -> SUBSET Vehicles] /\ stay \in [Vehicles -> Stays \cup {None}]
      /\ todo \subseteq Observations /\ sightings \subseteq Sightings
      /\ met \subseteq SUBSET Vehicles
  BY DEF TypeOK
<1>1. CASE Poll
  <2>1. PICK ts \in Nat : \E F \in Frames(ts) :
            /\ now' = ts /\ todo' = F
            /\ sightings' = {s \in sightings : ts - s.at <= EmbeddingWindow}
                               \cup {Sighting(o) : o \in F}
            /\ met' = met \cup Meetings(sightings', F)
            /\ F \subseteq Observations /\ Meetings(sightings', F) \subseteq SUBSET Vehicles
    BY <1>1, PollFrame
  <2>2. sightings' \subseteq Sightings /\ met' \subseteq SUBSET Vehicles
    BY <1>0, <2>1, SightingType
  <2>3. UNCHANGED <<clock, cvi, created, fed, stay>> /\ live' = live
    BY <1>1 DEF Poll, live
  <2>4. QED
    BY <1>0, <2>1, <2>2, <2>3 DEF TypeOK
<1>2. ASSUME NEW o \in todo, NEW c \in Cvis, Match(o, c) \/ Create(o, c)
      PROVE  TypeOK'
  <2>1. Resolved(o, c) /\ o \in Observations /\ o.of \in Vehicles
    BY <1>2, <1>0 DEF Match, Create, Observations
  <2>2. fed' \in [Cvis -> SUBSET Vehicles]
    BY <2>1, <1>0 DEF Resolved
  <2>3. stay' \in [Vehicles -> Stays \cup {None}]
    <3>1. [from |-> c, in |-> c] \in Stays
      BY DEF Stays
    <3>2. stay[o.of] # None => [stay[o.of] EXCEPT !.in = c] \in Stays
      BY <2>1, <1>0 DEF Stays
    <3>3. QED
      BY <1>0, <2>1, <3>1, <3>2 DEF Resolved
  <2>4. QED
    BY <1>0, <1>2, <2>1, <2>2, <2>3, RecordAfter DEF TypeOK, Resolved
<1>3. ASSUME NEW c \in Cvis, NEW v \in Vehicles, ApplyOcrResult(c, v)
      PROVE  TypeOK'
  <2>1. c \in live /\ cvi[c] \in Records /\ cvi' = [cvi EXCEPT ![c] = [cvi[c] EXCEPT !.plate = v]]
    BY <1>3, <1>0 DEF ApplyOcrResult, live
  <2>2. [cvi[c] EXCEPT !.plate = v] \in Records
    BY <2>1 DEF Records
  <2>3. cvi' \in [Cvis -> Records \cup {None}] /\ live' = live
    BY <2>1, <2>2, <1>0, NoneAssumption DEF live
  <2>4. QED
    BY <1>0, <1>3, <2>3 DEF TypeOK, ApplyOcrResult, history
<1>4. CASE EvictStale
  <2>1. cvi' \in [Cvis -> Records \cup {None}] /\ live' \subseteq live
    BY <1>4, <1>0 DEF EvictStale, live
  <2>2. QED
    BY <1>0, <1>4, <2>1 DEF TypeOK, EvictStale, history
<1>5. CASE Tick
  BY <1>0, <1>5 DEF TypeOK, Tick, history, live
<1>6. CASE UNCHANGED vars
  BY <1>0, <1>6 DEF TypeOK, vars, history, live
<1>7. QED
  BY <1>1, <1>2, <1>3, <1>4, <1>5, <1>6 DEF Next

\* The types of all variables, in every scene.
THEOREM TypeCorrect == Spec => []TypeOK
BY TypeInit, TypeStep, PTL DEF Spec

-------------------------------------------------------------------------------
(* CviMatching implements CviRegistry *)

\* Frames come in the order of their timestamps, and no CVI was seen after the
\* newest of them.
SeenInv ==
    /\ TypeOK
    /\ now <= clock
    /\ \A o \in todo : o.at = now
    /\ \A c \in live : cvi[c].seen <= now

SeenOf == [c \in Cvis |-> IF c \in live THEN cvi[c].seen ELSE 0]

\* The longest window is one of the windows.
LEMMA LongestWindowType ==
    /\ LongestWindow \in Nat
    /\ TrackWindow <= LongestWindow /\ SpatialWindow <= LongestWindow
    /\ EmbeddingWindow <= LongestWindow /\ PlateWindow <= LongestWindow
<1>1. \A w \in Windows : w \in Nat
  BY WindowsAssumption DEF Windows
<1>2. \E w \in Windows : \A x \in Windows : x <= w
  <2>1. PICK a \in {TrackWindow, SpatialWindow} : TrackWindow <= a /\ SpatialWindow <= a
    BY WindowsAssumption
  <2>2. PICK b \in {EmbeddingWindow, PlateWindow} : EmbeddingWindow <= b /\ PlateWindow <= b
    BY WindowsAssumption
  <2>3. PICK w \in {a, b} : a <= w /\ b <= w
    BY <2>1, <2>2, WindowsAssumption
  <2>4. QED
    BY <1>1, <2>1, <2>2, <2>3 DEF Windows
<1>3. LongestWindow \in Windows /\ \A x \in Windows : x <= LongestWindow
  BY <1>2 DEF LongestWindow
<1>4. QED
  BY <1>1, <1>3 DEF Windows

LEMMA SeenInit == Init => SeenInv
BY TypeInit DEF Init, SeenInv, live

LEMMA SeenStep == ASSUME SeenInv, [Next]_vars PROVE SeenInv'
<1>0. /\ TypeOK /\ TypeOK' /\ clock \in Nat /\ now \in Nat /\ now <= clock
      /\ cvi \in [Cvis -> Records \cup {None}]
      /\ \A c \in live : cvi[c].seen \in Nat /\ cvi[c].seen <= now
  BY TypeStep DEF SeenInv, TypeOK, live, Records
<1>1. CASE Poll
  <2>1. PICK ts \in (now + 1) .. clock :
            now' = ts /\ \E F \in Frames(ts) \ {{}} : todo' = F
    BY <1>1 DEF Poll
  <2>2. \A o \in todo' : o.at = ts
    BY <1>0, <2>1, FramesType
  <2>3. UNCHANGED <<clock, cvi>> /\ live' = live
    BY <1>1 DEF Poll, live
  <2>4. QED
    BY <1>0, <2>1, <2>2, <2>3 DEF SeenInv
<1>2. ASSUME NEW o \in todo, NEW c \in Cvis, Match(o, c) \/ Create(o, c)
      PROVE  SeenInv'
  <2>1. /\ cvi'[c].seen = o.at /\ live' = live \cup {c}
        /\ \A d \in Cvis \ {c} : cvi'[d] = cvi[d]
    BY <1>0, <1>2, RecordAfter
  <2>2. todo' = todo \ {o} /\ UNCHANGED <<clock, now>>
    BY <1>2 DEF Match, Create, Resolved
  <2>3. \A d \in live' : cvi'[d].seen <= now
    BY <1>0, <2>1 DEF SeenInv, live
  <2>4. QED
    BY <1>0, <2>2, <2>3 DEF SeenInv
<1>3. ASSUME NEW c \in Cvis, NEW v \in Vehicles, ApplyOcrResult(c, v)
      PROVE  SeenInv'
  <2>1. c \in live /\ cvi[c] \in Records /\ cvi' = [cvi EXCEPT ![c] = [cvi[c] EXCEPT !.plate = v]]
    BY <1>0, <1>3 DEF ApplyOcrResult, live
  <2>2. live' \subseteq live /\ \A d \in live : cvi'[d].seen = cvi[d].seen
    BY <1>0, <2>1 DEF live, Records
  <2>3. UNCHANGED <<clock, now, todo>>
    BY <1>3 DEF ApplyOcrResult
  <2>4. QED
    BY <1>0, <2>2, <2>3 DEF SeenInv
<1>4. CASE EvictStale
  <2>1. live' \subseteq live /\ \A d \in live' : cvi'[d] = cvi[d]
    BY <1>0, <1>4 DEF EvictStale, live
  <2>2. QED
    BY <1>0, <1>4, <2>1 DEF SeenInv, EvictStale
<1>5. CASE Tick
  BY <1>0, <1>5 DEF SeenInv, Tick, live
<1>6. CASE UNCHANGED vars
  BY <1>0, <1>6 DEF SeenInv, vars, live
<1>7. QED
  BY <1>1, <1>2, <1>3, <1>4, <1>5, <1>6 DEF Next

\* The rules return a CVI that was seen within the longest window: what a match
\* needs, in every scene.
LEMMA MatchRecent ==
    ASSUME TypeOK, NEW o \in todo, NEW c \in Cvis, Match(o, c)
    PROVE  c \in live /\ Within(c, o, LongestWindow)
<1>1. PICK alike \in Likenesses(o) : c \in Matching(o, alike)
  BY DEF Match
<1>2. c \in live
  BY <1>1, MatchingLive
<1>3. o.at \in Nat /\ cvi[c].seen \in Nat
  BY <1>2 DEF TypeOK, Observations, live, Records
<1>4. c \in ByPlate(o) \cup Nearby(o) \cup ByLook(o, alike) \cup ByTrack(o)
  BY <1>1 DEF Matching, FirstOf, BySpace
<1>5. \/ Within(c, o, PlateWindow) \/ Within(c, o, SpatialWindow)
      \/ Within(c, o, EmbeddingWindow) \/ Within(c, o, TrackWindow)
  BY <1>4 DEF ByPlate, Nearby, ByLook, ByTrack
<1>6. QED
  BY <1>2, <1>3, <1>5, LongestWindowType, WindowsAssumption DEF Within

\* Whatever rule applies, and whatever the scene is like, an observation is taken
\* for a CVI in use that was seen within the longest of the windows.
THEOREM MatchesWithinWindow ==
    Spec => [][\A o \in todo, c \in Cvis :
                  Match(o, c) => c \in live /\ Within(c, o, LongestWindow)]_vars
<1>1. TypeOK => \A o \in todo, c \in Cvis :
                   Match(o, c) => c \in live /\ Within(c, o, LongestWindow)
  BY MatchRecent
<1>2. QED
  BY <1>1, TypeCorrect, PTL

\* A step of the manager is a step of the registry, or leaves it alone.
LEMMA RegistrySimulation ==
    ASSUME SeenInv, [Next]_vars
    PROVE  [Registry!Next]_<<clock, live, created, SeenOf>>
<1>0. /\ TypeOK /\ clock \in Nat /\ now \in Nat /\ now <= clock
      /\ cvi \in [Cvis -> Records \cup {None}] /\ live \subseteq created
      /\ created \subseteq Cvis /\ live \subseteq Cvis
      /\ \A c \in live : cvi[c].seen \in Nat /\ cvi[c].seen <= now
  BY DEF SeenInv, TypeOK, live, Records
<1>1. ASSUME NEW o \in todo, NEW c \in Cvis, Match(o, c) \/ Create(o, c)
      PROVE  Registry!Next
  <2>1. /\ cvi'[c].seen = o.at /\ live' = live \cup {c} /\ created' = created \cup {c}
        /\ \A d \in Cvis \ {c} : cvi'[d] = cvi[d]
    BY <1>0, <1>1, RecordAfter
  <2>2. o.at = now /\ UNCHANGED clock
    BY <1>1 DEF SeenInv, Match, Create, Resolved
  <2>3. PICK ts \in 0 .. clock : ts = now
    BY <1>0
  <2>4. SeenOf' = [SeenOf EXCEPT ![c] = ts]
    BY <1>0, <2>1, <2>2, <2>3 DEF SeenOf
  <2>5. CASE Match(o, c)
    <3>1. c \in live /\ ts - cvi[c].seen <= LongestWindow
      BY <1>0, <2>2, <2>3, <2>5, MatchRecent DEF Within
    <3>2. SeenOf[c] = cvi[c].seen /\ live' = live /\ created' = created
      BY <1>0, <2>1, <3>1 DEF SeenOf
    <3>3. ts \in SeenOf[c] .. clock
      BY <1>0, <2>3, <3>1, <3>2
    <3>4. Registry!Match(c, ts)
      BY <2>2, <2>4, <3>1, <3>2, <3>3 DEF Registry!Match, SeenOf
    <3>5. QED
      BY <3>4 DEF Registry!Next
  <2>6. CASE Create(o, c)
    <3>1. c \notin created
      BY <2>6 DEF Create
    <3>2. Registry!Create(c, ts)
      BY <2>1, <2>2, <2>4, <3>1 DEF Registry!Create, SeenOf
    <3>3. QED
      BY <3>2 DEF Registry!Next
  <2>7. QED
    BY <1>1, <2>5, <2>6
<1>2. CASE EvictStale
  <2> DEFINE stale == {c \in live : SeenOf[c] < clock - MaxIdle}
  <2>1. stale = {c \in live : cvi[c].seen < clock - MaxIdle}
    BY <1>0 DEF SeenOf
  <2>2. /\ cvi' = [c \in Cvis |-> IF c \in stale THEN None ELSE cvi[c]]
        /\ UNCHANGED <<clock, created>>
    BY <1>2, <2>1 DEF EvictStale
  <2> HIDE DEF stale
  <2>3. live' = live \ stale
    BY <1>0, <2>2 DEF live
  <2>4. SeenOf' = [c \in Cvis |-> IF c \in stale THEN 0 ELSE SeenOf[c]]
    BY <1>0, <2>2, <2>3 DEF SeenOf
  <2>5. Registry!Evict
    BY <2>2, <2>3, <2>4 DEF Registry!Evict, Registry!Retire, stale, SeenOf
  <2>6. QED
    BY <2>5 DEF Registry!Next
<1>3. CASE Tick
  <2>1. clock' = clock + 1 /\ live' = live /\ created' = created /\ SeenOf' = SeenOf
    BY <1>3 DEF Tick, live, SeenOf
  <2>2. Registry!Tick
    BY <2>1 DEF Registry!Tick, SeenOf
  <2>3. QED
    BY <2>2 DEF Registry!Next
<1>4. CASE Poll \/ UNCHANGED vars
  BY <1>4 DEF Poll, vars, live, SeenOf
<1>5. ASSUME NEW c \in Cvis, NEW v \in Vehicles, ApplyOcrResult(c, v)
      PROVE  UNCHANGED <<clock, live, created, SeenOf>>
  <2>1. c \in live /\ cvi[c] \in Records /\ cvi' = [cvi EXCEPT ![c] = [cvi[c] EXCEPT !.plate = v]]
    BY <1>0, <1>5 DEF ApplyOcrResult, live
  <2>2. [cvi[c] EXCEPT !.plate = v] \in Records /\ [cvi[c] EXCEPT !.plate = v].seen = cvi[c].seen
    BY <2>1 DEF Records
  <2>3. live' = live
    BY <1>0, <2>1, <2>2, NoneAssumption DEF live
  <2>4. \A d \in live : cvi'[d].seen = cvi[d].seen
    BY <1>0, <2>1, <2>2
  <2>5. QED
    BY <1>5, <2>3, <2>4 DEF ApplyOcrResult, SeenOf
<1>6. QED
  BY <1>1, <1>2, <1>3, <1>4, <1>5 DEF Next

\* In every scene, crowded or not, the manager keeps to what CviRegistry promises:
\* the part of CVIManager that ViolationService relies on.
THEOREM MatchingImplementsRegistry == Spec => RegistrySpec
<1>1. Init => Registry!Init
  BY DEF Init, Registry!Init, live
<1>2. Init => SeenInv
  BY SeenInit
<1>3. SeenInv /\ [Next]_vars => SeenInv'
  BY SeenStep
<1>4. SeenInv /\ [Next]_vars => [Registry!Next]_<<clock, live, created, SeenOf>>
  BY RegistrySimulation
<1>5. QED
  BY <1>1, <1>2, <1>3, <1>4, PTL DEF Spec, RegistrySpec, Registry!Spec, SeenOf

-------------------------------------------------------------------------------
(* Vehicles that are mixed up have met *)

\* If a rule takes an observation for one of a CVI, then the CVI was given its
\* vehicle or one that it met, or it stands for several vehicles already.
LEMMA MatchExplained ==
    ASSUME IdentityInv, NEW o \in todo, NEW alike \in Likenesses(o),
           NEW c \in Matching(o, alike)
    PROVE  /\ c \in live
           /\ \/ \E u \in fed[c] : u = o.of \/ {u, o.of} \in met
              \/ \E u, w \in fed[c] : u # w
<1>1. /\ o \in Observations /\ o.at = now /\ o.plate = None /\ o.at \in Nat /\ now \in Nat
      /\ \A s \in sightings : s.at \in Nat
  BY DEF IdentityInv, TypeOK, Timely, Observations, Sightings
<1>2. \A d \in live : cvi[d].seen \in Nat
  BY DEF IdentityInv, TypeOK, live, Records
<1>3. c \in live
  BY MatchingLive
<1>4. ASSUME NEW s \in sightings, s.of \in fed[c], Confusable(s, o)
      PROVE  \E u \in fed[c] : u = o.of \/ {u, o.of} \in met
  BY <1>4 DEF IdentityInv, Noticed
<1>5. ASSUME NEW w \in {TrackWindow, SpatialWindow, EmbeddingWindow}, Within(c, o, w)
      PROVE  \E s \in sightings :
                /\ s.of \in fed[c] /\ s.box = cvi[c].box /\ s.track = cvi[c].track
                /\ o.at - s.at <= w
  <2>1. now - cvi[c].seen <= w /\ now - cvi[c].seen <= EmbeddingWindow
    BY <1>1, <1>2, <1>3, <1>5, ConstantsType DEF Within
  <2>2. QED
    BY <2>1, <1>1, <1>3 DEF IdentityInv, Traced
<1>6. CASE c \in Nearby(o)
  <2>1. Within(c, o, SpatialWindow) /\ <<cvi[c].box, o.box>> \in Overlapping
    BY <1>6 DEF Nearby
  <2>2. PICK s \in sightings :
            s.of \in fed[c] /\ s.box = cvi[c].box /\ o.at - s.at <= SpatialWindow
    BY <2>1, <1>5
  <2>3. Confusable(s, o)
    BY <2>1, <2>2 DEF Confusable
  <2>4. QED
    BY <1>3, <1>4, <2>2, <2>3
<1>7. CASE c \in ByLook(o, alike)
  <2>1. c \in alike /\ o.embedded /\ Within(c, o, EmbeddingWindow)
    BY <1>7 DEF ByLook
  <2>2. \/ \E u \in cvi[c].looks : <<u, o.of>> \in Alike
        \/ \E u, w \in cvi[c].looks : u # w
    BY <2>1 DEF Likenesses
  <2>3. cvi[c].looks \subseteq fed[c]
    BY <1>3 DEF IdentityInv, Traced
  <2>4. PICK s \in sightings : s.of \in fed[c] /\ o.at - s.at <= EmbeddingWindow
    BY <2>1, <1>5
  <2>5. CASE \A u, w \in fed[c] : u = w
    <3>1. <<s.of, o.of>> \in Alike
      BY <2>2, <2>3, <2>4, <2>5
    <3>2. Confusable(s, o)
      BY <2>1, <2>4, <3>1 DEF Confusable
    <3>3. QED
      BY <1>3, <1>4, <2>4, <3>2
  <2>6. QED
    BY <1>3, <2>5
<1>8. CASE c \in ByTrack(o)
  <2>1. Within(c, o, TrackWindow) /\ cvi[c].track = o.track
    BY <1>8 DEF ByTrack
  <2>2. PICK s \in sightings :
            s.of \in fed[c] /\ s.track = cvi[c].track /\ o.at - s.at <= TrackWindow
    BY <2>1, <1>5
  <2>3. Confusable(s, o)
    BY <2>1, <2>2 DEF Confusable
  <2>4. QED
    BY <1>3, <1>4, <2>2, <2>3
<1>9. ByPlate(o) = {}
  BY <1>1 DEF ByPlate
<1>10. c \in Nearby(o) \cup ByLook(o, alike) \cup ByTrack(o)
  BY <1>9 DEF Matching, FirstOf, BySpace
<1>11. QED
  BY <1>6, <1>7, <1>8, <1>10

LEMMA IdentityInit == Init => IdentityInv
BY TypeInit DEF Init, IdentityInv, Timely, Noticed, Traced, MixedOnlyIfMet, live

LEMMA IdentityPoll == ASSUME IdentityInv, Poll PROVE IdentityInv'
<1>0. /\ TypeOK /\ TypeOK' /\ clock \in Nat /\ now \in Nat
      /\ \A s \in sightings : s.at \in Nat /\ s.at <= now
  BY TypeStep DEF IdentityInv, TypeOK, Timely, Sightings, Next
<1>1. PICK ts \in Nat : \E F \in Frames(ts) :
          /\ now' = ts /\ now < ts /\ ts <= clock /\ todo' = F
          /\ sightings' = {s \in sightings : ts - s.at <= EmbeddingWindow}
                             \cup {Sighting(o) : o \in F}
          /\ met' = met \cup Meetings(sightings', F)
          /\ F \subseteq Observations
  BY <1>0, PollFrame
<1>2. PICK F \in Frames(ts) :
          /\ now' = ts /\ now < ts /\ ts <= clock /\ todo' = F
          /\ sightings' = {s \in sightings : ts - s.at <= EmbeddingWindow}
                             \cup {Sighting(o) : o \in F}
          /\ met' = met \cup Meetings(sightings', F)
          /\ F \subseteq Observations
  BY <1>1
<1>3. UNCHANGED <<clock, cvi, created, fed, stay>> /\ live' = live
  BY DEF Poll, live
<1>4. (\A o \in F : o.at = ts) /\ (\A o, p \in F : o.of = p.of => o = p)
  BY FramesType
<1>5. Timely'
  <2>1. \A s \in sightings' : s.at <= ts /\ ts - s.at <= EmbeddingWindow
    <3>1. \A o \in F : Sighting(o).at = ts
      BY <1>2, <1>4, SightingType
    <3>2. QED
      BY <3>1, <1>0, <1>2, ConstantsType
  <2>2. \A o \in F : Sighting(o) \in sightings'
    BY <1>2
  <2>3. ASSUME NEW o \in F, NEW s \in sightings', s.of = o.of, s.at = ts
        PROVE  s = Sighting(o)
    <3>1. PICK p \in F : s = Sighting(p)
      BY <2>3, <1>0, <1>2
    <3>2. p = o
      BY <2>3, <3>1, <1>2, <1>4, SightingType
    <3>3. QED
      BY <3>1, <3>2
  <2>4. QED
    BY <2>1, <2>2, <2>3, <1>2, <1>3, <1>4 DEF Timely
<1>6. Noticed'
  <2> SUFFICES ASSUME NEW o \in F, NEW s \in sightings', s.of # o.of, Confusable(s, o)
               PROVE  {s.of, o.of} \in met'
    BY <1>2 DEF Noticed, Confusable
  <2>1. <<s, o>> \in {p \in sightings' \X F : p[1].of # p[2].of /\ Confusable(p[1], p[2])}
    OBVIOUS
  <2>2. {s.of, o.of} \in Meetings(sightings', F)
    BY <2>1 DEF Meetings
  <2>3. QED
    BY <2>2, <1>2
<1>7. Traced'
  <2>1. \A c \in live : cvi[c].seen \in Nat
    BY DEF IdentityInv, TypeOK, live, Records
  <2>2. ASSUME NEW c \in live, ts - cvi[c].seen <= EmbeddingWindow
        PROVE  \E s \in sightings' :
                  /\ s.of \in fed[c] /\ s.at = cvi[c].seen
                  /\ s.box = cvi[c].box /\ s.track = cvi[c].track
    <3>1. now - cvi[c].seen <= EmbeddingWindow
      BY <1>0, <1>2, <2>1, <2>2, ConstantsType
    <3>2. PICK s \in sightings :
              /\ s.of \in fed[c] /\ s.at = cvi[c].seen
              /\ s.box = cvi[c].box /\ s.track = cvi[c].track
      BY <3>1 DEF IdentityInv, Traced
    <3>3. s \in sightings'
      BY <3>2, <2>2, <1>2
    <3>4. QED
      BY <3>2, <3>3
  <2>3. \A c \in live : /\ fed[c] # {} /\ cvi[c].looks \subseteq fed[c]
                        /\ cvi[c].seen <= ts
    BY <1>0, <1>2, <2>1 DEF IdentityInv, Traced
  <2>4. QED
    BY <1>2, <1>3, <2>2, <2>3 DEF IdentityInv, Traced
<1>8. MixedOnlyIfMet'
  BY <1>2, <1>3 DEF IdentityInv, MixedOnlyIfMet
<1>9. QED
  BY <1>0, <1>5, <1>6, <1>7, <1>8 DEF IdentityInv

LEMMA IdentityResolve ==
    ASSUME IdentityInv, NEW o \in todo, NEW c \in Cvis, Match(o, c) \/ Create(o, c)
    PROVE  IdentityInv'
<1>1. /\ todo' = todo \ {o} /\ fed' = [fed EXCEPT ![c] = @ \cup {o.of}]
      /\ UNCHANGED <<clock, now, sightings, met>>
  BY DEF Match, Create, Resolved
<1>2. /\ o \in Observations /\ o.at = now /\ o.at \in Nat /\ Sighting(o) \in sightings
      /\ o.of \in Vehicles /\ now \in Nat
  BY DEF IdentityInv, TypeOK, Timely, Observations
<1>3. \/ c \in live /\ cvi' = [cvi EXCEPT ![c] = Fold(cvi[c], o)]
         /\ \/ \E u \in fed[c] : u = o.of \/ {u, o.of} \in met
            \/ \E u, w \in fed[c] : u # w
      \/ fed[c] = {} /\ cvi' = [cvi EXCEPT ![c] = FromObservation(o)]
  BY MatchExplained DEF Match, Create, IdentityInv, Traced
<1>4. /\ cvi \in [Cvis -> Records \cup {None}] /\ fed \in [Cvis -> SUBSET Vehicles]
      /\ fed'[c] = fed[c] \cup {o.of} /\ \A d \in Cvis \ {c} : fed'[d] = fed[d]
  BY <1>1 DEF IdentityInv, TypeOK
<1>5. /\ cvi'[c].seen = o.at /\ live' = live \cup {c} /\ created' = created \cup {c}
      /\ \A d \in Cvis \ {c} : cvi'[d] = cvi[d]
  BY RecordAfter DEF IdentityInv
<1>6. cvi'[c].box = o.box /\ cvi'[c].track = o.track /\ cvi'[c].looks \subseteq fed'[c]
  <2>1. CASE c \in live /\ cvi' = [cvi EXCEPT ![c] = Fold(cvi[c], o)]
    <3>1. cvi[c] \in Records /\ cvi[c].looks \subseteq fed[c] /\ cvi'[c] = Fold(cvi[c], o)
      BY <2>1, <1>4 DEF live, IdentityInv, Traced
    <3>2. /\ Fold(cvi[c], o).box = o.box /\ Fold(cvi[c], o).track = o.track
          /\ Fold(cvi[c], o).looks \subseteq cvi[c].looks \cup {o.of}
      BY <3>1 DEF Fold, Records
    <3>3. QED
      BY <3>1, <3>2, <1>4
  <2>2. CASE cvi' = [cvi EXCEPT ![c] = FromObservation(o)]
    <3>1. cvi'[c] = FromObservation(o)
      BY <2>2, <1>4
    <3>2. QED
      BY <3>1, <1>4 DEF FromObservation
  <2>3. QED
    BY <1>3, <2>1, <2>2
<1>7. TypeOK'
  BY TypeStep DEF IdentityInv, Next
<1>8. Timely' /\ Noticed'
  BY <1>1 DEF IdentityInv, Timely, Noticed, Confusable
<1>9. Traced'
  <2>1. \A d \in Cvis \ created' : fed'[d] = {}
    BY <1>4, <1>5 DEF IdentityInv, Traced
  <2>2. ASSUME NEW d \in live'
        PROVE  /\ fed'[d] # {} /\ cvi'[d].looks \subseteq fed'[d] /\ cvi'[d].seen <= now'
               /\ now' - cvi'[d].seen <= EmbeddingWindow =>
                    \E s \in sightings' :
                        /\ s.of \in fed'[d] /\ s.at = cvi'[d].seen
                        /\ s.box = cvi'[d].box /\ s.track = cvi'[d].track
    <3>1. CASE d = c
      <4>1. /\ Sighting(o).of \in fed'[c] /\ Sighting(o).at = cvi'[c].seen
            /\ Sighting(o).box = cvi'[c].box /\ Sighting(o).track = cvi'[c].track
        BY <1>2, <1>4, <1>5, <1>6, SightingType
      <4>2. QED
        BY <3>1, <4>1, <1>1, <1>2, <1>4, <1>5, <1>6
    <3>2. CASE d # c
      <4>1. d \in live /\ cvi'[d] = cvi[d] /\ fed'[d] = fed[d]
        BY <3>2, <1>4, <1>5 DEF live
      <4>2. QED
        BY <4>1, <1>1 DEF IdentityInv, Traced
    <3>3. QED
      BY <3>1, <3>2
  <2>3. QED
    BY <2>1, <2>2 DEF Traced
<1>10. MixedOnlyIfMet'
  <2>1. ASSUME NEW u \in fed'[c], NEW v \in fed'[c], u # v
        PROVE  \E x, y \in fed'[c] : x # y /\ {x, y} \in met
    <3>1. CASE \E x, y \in fed[c] : x # y
      <4>1. c \in live
        BY <3>1, <1>3
      <4>2. QED
        BY <3>1, <4>1, <1>4 DEF IdentityInv, MixedOnlyIfMet
    <3>2. CASE \A x, y \in fed[c] : x = y
      <4>1. PICK x \in fed[c] : x # o.of
        BY <2>1, <1>4
      <4>2. {x, o.of} \in met
        BY <3>2, <4>1, <1>3
      <4>3. QED
        BY <4>1, <4>2, <1>4
    <3>3. QED
      BY <3>1, <3>2
  <2>2. ASSUME NEW d \in live' \ {c}
        PROVE  (\E u, v \in fed'[d] : u # v)
                   => \E u, v \in fed'[d] : u # v /\ {u, v} \in met
    <3>1. d \in live /\ fed'[d] = fed[d]
      BY <1>4, <1>5 DEF live
    <3>2. QED
      BY <3>1 DEF IdentityInv, MixedOnlyIfMet
  <2>3. QED
    BY <2>1, <2>2, <1>1 DEF MixedOnlyIfMet
<1>11. QED
  BY <1>7, <1>8, <1>9, <1>10 DEF IdentityInv

LEMMA IdentityStep == ASSUME IdentityInv, [Next]_vars PROVE IdentityInv'
<1>0. /\ cvi \in [Cvis -> Records \cup {None}] /\ clock \in Nat /\ now \in Nat /\ TypeOK'
  BY TypeStep DEF IdentityInv, TypeOK
<1>1. ASSUME NEW c \in Cvis, NEW v \in Vehicles, ApplyOcrResult(c, v)
      PROVE  IdentityInv'
  <2>1. /\ c \in live /\ cvi[c] \in Records /\ cvi'[c] = [cvi[c] EXCEPT !.plate = v]
        /\ \A d \in Cvis \ {c} : cvi'[d] = cvi[d]
    BY <1>1, <1>0 DEF ApplyOcrResult, live
  <2>2. /\ cvi'[c] \in Records
        /\ cvi'[c].seen = cvi[c].seen /\ cvi'[c].box = cvi[c].box
        /\ cvi'[c].track = cvi[c].track /\ cvi'[c].looks = cvi[c].looks
    BY <2>1 DEF Records
  <2>3. live' = live
    BY <2>1, <2>2, NoneAssumption DEF live
  <2>4. UNCHANGED <<clock, now, todo, created, sightings, met, fed, stay>>
    BY <1>1 DEF ApplyOcrResult, history
  <2>5. Timely' /\ Noticed' /\ MixedOnlyIfMet'
    BY <2>3, <2>4 DEF IdentityInv, Timely, Noticed, Confusable, MixedOnlyIfMet
  <2>6. \A d \in live : /\ cvi'[d].seen = cvi[d].seen /\ cvi'[d].box = cvi[d].box
                        /\ cvi'[d].track = cvi[d].track /\ cvi'[d].looks = cvi[d].looks
    BY <2>1, <2>2 DEF live
  <2>7. Traced'
    BY <2>3, <2>4, <2>6 DEF IdentityInv, Traced
  <2>8. QED
    BY <1>0, <2>5, <2>7 DEF IdentityInv
<1>2. CASE EvictStale
  <2>1. live' \subseteq live /\ \A d \in live' : cvi'[d] = cvi[d]
    BY <1>2, <1>0 DEF EvictStale, live
  <2>2. UNCHANGED <<clock, now, todo, created, sightings, met, fed, stay>>
    BY <1>2 DEF EvictStale, history
  <2>3. Timely' /\ Noticed' /\ MixedOnlyIfMet'
    BY <2>1, <2>2 DEF IdentityInv, Timely, Noticed, Confusable, MixedOnlyIfMet
  <2>4. Traced'
    BY <2>1, <2>2 DEF IdentityInv, Traced
  <2>5. QED
    BY <1>0, <2>3, <2>4 DEF IdentityInv
<1>3. CASE Tick
  <2>1. /\ UNCHANGED <<now, todo, cvi, created, sightings, met, fed, stay>> /\ live' = live
        /\ clock' = clock + 1
    BY <1>3 DEF Tick, history, live
  <2>2. Timely' /\ Noticed'
    BY <2>1, <1>0 DEF IdentityInv, Timely, Noticed, Confusable
  <2>3. Traced'
    BY <2>1 DEF IdentityInv, Traced
  <2>4. MixedOnlyIfMet'
    BY <2>1 DEF IdentityInv, MixedOnlyIfMet
  <2>5. QED
    BY <2>2, <2>3, <2>4, <1>0 DEF IdentityInv
<1>4. CASE UNCHANGED vars
  <2>1. /\ UNCHANGED <<clock, now, todo, cvi, created, sightings, met, fed, stay>>
        /\ live' = live
    BY <1>4 DEF vars, history, live
  <2>2. Timely' /\ Noticed'
    BY <2>1 DEF IdentityInv, Timely, Noticed, Confusable
  <2>3. Traced'
    BY <2>1 DEF IdentityInv, Traced
  <2>4. MixedOnlyIfMet'
    BY <2>1 DEF IdentityInv, MixedOnlyIfMet
  <2>5. QED
    BY <2>2, <2>3, <2>4, <1>0 DEF IdentityInv
<1>5. QED
  BY <1>1, <1>2, <1>3, <1>4, IdentityPoll, IdentityResolve DEF Next

\* In every scene, whoever looks alike: a CVI is only given the observations of two
\* vehicles if there are two in it that met.
THEOREM VehiclesToldApart == Spec => []MixedOnlyIfMet
<1>1. IdentityInv /\ [Next]_vars => IdentityInv'
  BY IdentityStep
<1>2. IdentityInv => MixedOnlyIfMet
  BY DEF IdentityInv
<1>3. QED
  BY <1>1, <1>2, IdentityInit, PTL DEF Spec

-------------------------------------------------------------------------------
(* A vehicle that stays keeps its CVI *)

\* The sightings of a vehicle before the one that is to be resolved are resolved.
LEMMA EarlierSettled ==
    ASSUME IdentityInv, NEW o \in todo
    PROVE  Earlier(o) = Settled(o.of)
<1>1. \A p \in todo : p.of = o.of => p.at = o.at
  BY DEF IdentityInv, Timely
<1>2. Settled(o.of) \subseteq Earlier(o)
  BY DEF Earlier, Settled
<1>3. Earlier(o) \subseteq Settled(o.of)
  BY <1>1 DEF Earlier, Settled
<1>4. QED
  BY <1>2, <1>3

\* A rule does not take another vehicle's observation for one of the CVI of a
\* vehicle that met no other.
LEMMA OthersKeptOut ==
    ASSUME IdentityInv, NEW v \in Vehicles, Unmet(v), NEW o \in todo, o.of # v,
           NEW c \in Cvis, Match(o, c) \/ Create(o, c)
    PROVE  fed[c] # {v}
<1>1. CASE Match(o, c)
  <2>1. \/ \E u \in fed[c] : u = o.of \/ {u, o.of} \in met
        \/ \E u, w \in fed[c] : u # w
    BY <1>1, MatchExplained DEF Match
  <2>2. {v, o.of} \notin met
    BY DEF Unmet
  <2>3. ASSUME NEW u \in fed[c], fed[c] = {v}
        PROVE  u = v
    BY <2>3
  <2>4. QED
    BY <2>1, <2>2, <2>3
<1>2. CASE Create(o, c)
  BY <1>2 DEF Create, IdentityInv, Traced
<1>3. QED
  BY <1>1, <1>2

\* The observation of such a vehicle that has not moved goes to the CVI it had.
LEMMA StayGoesOn ==
    ASSUME IdentityInv, StayInv, NEW o \in todo, stay[o.of] # None, Unmet(o.of), Unmoved(o),
           NEW alike \in Likenesses(o)
    PROVE  Matching(o, alike) = {stay[o.of].in}
<1> DEFINE k == stay[o.of].in
<1>1. /\ o \in Observations /\ o.at = now /\ o.at \in Nat /\ o.plate = None
      /\ o.of \in Vehicles /\ o.box \in Boxes /\ now \in Nat /\ clock \in Nat
      /\ \A s \in sightings : s.at \in Nat
      /\ \A d \in live : d \in Cvis /\ cvi[d].seen \in Nat
  BY DEF IdentityInv, TypeOK, Timely, Observations, Sightings, live, Records
<1>2. Remembered(o.of, k) /\ Unrivalled(o.of, k)
  BY <1>1 DEF StayInv
<1>3. PICK s \in Earlier(o) :
          /\ \A r \in Earlier(o) : r.at <= s.at
          /\ s.box = o.box /\ o.at - s.at <= SpatialWindow /\ clock - s.at <= MaxIdle
  BY DEF Unmoved
<1>4. s \in Settled(o.of) /\ \A r \in Settled(o.of) : r.at <= s.at
  BY <1>3, EarlierSettled
<1>5. s.at \in Nat
  BY <1>1, <1>4 DEF Settled
<1>6. k \in live /\ cvi[k].seen = s.at /\ cvi[k].box = s.box
  BY <1>1, <1>2, <1>3, <1>4, <1>5, ConstantsType DEF Remembered
<1>7. k \in Nearby(o)
  BY <1>1, <1>3, <1>5, <1>6, BoxesAssumption DEF Nearby, Within
<1>8. ASSUME NEW d \in Nearby(o)
      PROVE  d = k
  <2>1. d \in live /\ now - cvi[d].seen <= SpatialWindow /\ <<cvi[d].box, o.box>> \in Overlapping
    BY <1>1 DEF Nearby, Within
  <2> SUFFICES ASSUME d # k
               PROVE  FALSE
    OBVIOUS
  <2>2. PICK r \in sightings : r.of # o.of /\ r.at = cvi[d].seen /\ r.box = cvi[d].box
    BY <1>2, <2>1 DEF Unrivalled
  <2>3. Confusable(r, o)
    BY <1>1, <2>1, <2>2 DEF Confusable
  <2>4. QED
    BY <2>2, <2>3 DEF IdentityInv, Noticed, Unmet
<1>9. Nearby(o) = {k} /\ BySpace(o, alike) = {k}
  BY <1>6, <1>7, <1>8 DEF BySpace
<1>10. ByPlate(o) = {}
  BY <1>1 DEF ByPlate
<1>11. QED
  BY <1>9, <1>10 DEF Matching, FirstOf

LEMMA StayInit == Init => StayInv
BY DEF Init, StayInv

LEMMA StayPoll == ASSUME IdentityInv, StayInv, Poll PROVE StayInv'
<1>0. /\ TypeOK /\ clock \in Nat /\ now \in Nat
      /\ \A s \in sightings : s.at \in Nat /\ s.at <= now
      /\ \A d \in live : cvi[d].seen \in Nat
  BY DEF IdentityInv, TypeOK, Timely, Sightings, live, Records
<1>1. PICK ts \in Nat : \E F \in Frames(ts) :
          /\ now' = ts /\ now < ts /\ todo' = F
          /\ sightings' = {s \in sightings : ts - s.at <= EmbeddingWindow}
                             \cup {Sighting(o) : o \in F}
          /\ met' = met \cup Meetings(sightings', F)
          /\ F \subseteq Observations
  BY <1>0, PollFrame
<1>2. PICK F \in Frames(ts) :
          /\ now' = ts /\ now < ts /\ todo' = F
          /\ sightings' = {s \in sightings : ts - s.at <= EmbeddingWindow}
                             \cup {Sighting(o) : o \in F}
          /\ met' = met \cup Meetings(sightings', F)
          /\ F \subseteq Observations
  BY <1>1
<1>3. UNCHANGED <<clock, cvi, created, fed, stay>> /\ live' = live /\ todo = {}
  BY DEF Poll, live
<1>4. \A o \in F : o.at = ts /\ Sighting(o).at = ts /\ Sighting(o).of = o.of
  BY <1>2, FramesType, SightingType
<1>5. ASSUME NEW v \in Vehicles
      PROVE  /\ Settled(v) = {s \in sightings : s.of = v}
             /\ Settled(v)' = {s \in Settled(v) : ts - s.at <= EmbeddingWindow}
  <2>1. Settled(v) = {s \in sightings : s.of = v}
    BY <1>3 DEF Settled
  <2>2. Settled(v)' = {s \in sightings' : s.of = v /\ \A o \in F : o.of = v => s.at < o.at}
    BY <1>2 DEF Settled
  <2>3. ASSUME NEW s \in sightings, ts - s.at <= EmbeddingWindow
        PROVE  s \in sightings' /\ \A o \in F : s.at < o.at
    BY <2>3, <1>0, <1>2, <1>4
  <2>4. ASSUME NEW o \in F, Sighting(o).of = v
        PROVE  Sighting(o) \notin Settled(v)'
    BY <2>2, <2>4, <1>1, <1>4
  <2>5. QED
    BY <2>1, <2>2, <2>3, <2>4, <1>2
<1>6. ASSUME NEW v \in Vehicles, stay'[v] # None, Unmet(v)'
      PROVE  /\ stay[v] # None /\ Unmet(v)
             /\ Remembered(v, stay[v].in)' /\ Unrivalled(v, stay[v].in)'
  <2>1. stay[v] # None /\ Unmet(v)
    BY <1>2, <1>3, <1>6 DEF Unmet
  <2>2. Remembered(v, stay[v].in) /\ Unrivalled(v, stay[v].in)
    BY <2>1 DEF StayInv
  <2>3. ASSUME NEW s \in Settled(v)', \A r \in Settled(v)' : r.at <= s.at
        PROVE  \/ stay[v].in \in live /\ cvi[stay[v].in].seen = s.at /\ cvi[stay[v].in].box = s.box
               \/ clock - s.at > MaxIdle
    <3>1. s \in Settled(v) /\ s.at \in Nat /\ ts - s.at <= EmbeddingWindow
      BY <1>0, <1>5
    <3>2. ASSUME NEW r \in Settled(v)
          PROVE  r.at <= s.at
      <4>1. r.at \in Nat
        BY <1>0, <1>5
      <4>2. CASE ts - r.at <= EmbeddingWindow
        BY <4>2, <1>5, <2>3
      <4>3. CASE ~(ts - r.at <= EmbeddingWindow)
        BY <4>1, <4>3, <3>1, ConstantsType
      <4>4. QED
        BY <4>2, <4>3
    <3>3. QED
      BY <2>2, <3>1, <3>2 DEF Remembered
  <2>4. Remembered(v, stay[v].in)'
    BY <2>3, <1>3 DEF Remembered
  <2>5. ASSUME NEW d \in live \ {stay[v].in}, ts - cvi[d].seen <= SpatialWindow
        PROVE  \E s \in sightings' : s.of # v /\ s.at = cvi[d].seen /\ s.box = cvi[d].box
    <3>1. now - cvi[d].seen <= SpatialWindow /\ ts - cvi[d].seen <= EmbeddingWindow
      BY <1>0, <1>2, <2>5, ConstantsType
    <3>2. PICK s \in sightings : s.of # v /\ s.at = cvi[d].seen /\ s.box = cvi[d].box
      BY <2>2, <3>1 DEF Unrivalled
    <3>3. QED
      BY <1>2, <3>1, <3>2
  <2>6. Unrivalled(v, stay[v].in)'
    BY <2>5, <1>2, <1>3 DEF Unrivalled
  <2>7. QED
    BY <2>1, <2>4, <2>6
<1>7. ASSUME NEW v \in Vehicles, stay'[v] # None, Unmet(v)'
      PROVE  /\ stay'[v].in = stay'[v].from
             /\ stay'[v].in \in created' /\ fed'[stay'[v].in] = {v}
             /\ Remembered(v, stay[v].in)' /\ Unrivalled(v, stay[v].in)'
  BY <1>3, <1>6, <1>7 DEF StayInv
<1>8. QED
  BY <1>7 DEF StayInv

LEMMA StayResolve ==
    ASSUME IdentityInv, StayInv, NEW o \in todo, NEW c \in Cvis, Match(o, c) \/ Create(o, c)
    PROVE  StayInv'
<1>1. /\ todo' = todo \ {o} /\ fed' = [fed EXCEPT ![c] = @ \cup {o.of}]
      /\ UNCHANGED <<clock, now, sightings, met>>
      /\ stay' = [stay EXCEPT ![o.of] =
                      IF @ # None /\ Unmoved(o) THEN [@ EXCEPT !.in = c]
                      ELSE IF Alone(o, c) THEN [from |-> c, in |-> c] ELSE None]
  BY DEF Match, Create, Resolved
<1>2. /\ o \in Observations /\ o.at = now /\ o.at \in Nat /\ o.of \in Vehicles
      /\ Sighting(o) \in sightings
      /\ \A s \in sightings : s.at \in Nat /\ s.at <= now
  BY DEF IdentityInv, TypeOK, Timely, Observations, Sightings
<1>3. /\ cvi \in [Cvis -> Records \cup {None}] /\ fed \in [Cvis -> SUBSET Vehicles]
      /\ stay \in [Vehicles -> Stays \cup {None}]
      /\ \A d \in live : cvi[d].seen \in Nat
  BY DEF IdentityInv, TypeOK, live, Records
<1>4. /\ cvi'[c].seen = o.at /\ live' = live \cup {c} /\ created' = created \cup {c}
      /\ \A d \in Cvis \ {c} : cvi'[d] = cvi[d]
  BY RecordAfter DEF IdentityInv
<1>5. fed'[c] = fed[c] \cup {o.of} /\ \A d \in Cvis \ {c} : fed'[d] = fed[d]
  BY <1>1, <1>3
<1>6. cvi'[c].box = o.box
  <2>1. \/ c \in live /\ cvi' = [cvi EXCEPT ![c] = Fold(cvi[c], o)]
        \/ cvi' = [cvi EXCEPT ![c] = FromObservation(o)]
    BY MatchingLive DEF Match, Create
  <2>2. FromObservation(o).box = o.box
    BY DEF FromObservation
  <2>3. c \in live => cvi[c] \in Records /\ Fold(cvi[c], o).box = o.box
    BY <1>3 DEF live, Fold, Records
  <2>4. QED
    BY <1>3, <2>1, <2>2, <2>3
<1>7. Unmet(o.of)' = Unmet(o.of) /\ \A v \in Vehicles : Unmet(v)' = Unmet(v)
  BY <1>1 DEF Unmet
<1>8. /\ \A v \in Vehicles \ {o.of} : Settled(v)' = Settled(v)
      /\ Sighting(o) \in Settled(o.of)'
      /\ \A s \in Settled(o.of)' : s.at = now => s = Sighting(o)
  <2>1. ASSUME NEW v \in Vehicles \ {o.of}
        PROVE  Settled(v)' = Settled(v)
    BY <1>1 DEF Settled
  <2>2. \A p \in todo' : p.of # o.of
    BY <1>1 DEF IdentityInv, Timely
  <2>3. Sighting(o) \in Settled(o.of)'
    BY <1>1, <1>2, <2>2, SightingType DEF Settled
  <2>4. \A s \in sightings : s.of = o.of /\ s.at = now => s = Sighting(o)
    BY DEF IdentityInv, Timely
  <2>5. \A s \in Settled(o.of)' : s.at = now => s = Sighting(o)
    BY <1>1, <2>4 DEF Settled
  <2>6. QED
    BY <2>1, <2>3, <2>5
<1>9. ASSUME NEW v \in Vehicles, stay'[v] # None, Unmet(v)
      PROVE  /\ stay'[v].in = stay'[v].from
             /\ stay'[v].in \in created' /\ fed'[stay'[v].in] = {v}
             /\ Remembered(v, stay[v].in)' /\ Unrivalled(v, stay[v].in)'
  <2>1. CASE v # o.of
    <3>1. stay'[v] = stay[v] /\ stay[v] \in Stays
      BY <2>1, <1>1, <1>3, <1>9
    <3>2. /\ stay[v].in = stay[v].from /\ stay[v].in \in created /\ fed[stay[v].in] = {v}
          /\ Remembered(v, stay[v].in) /\ Unrivalled(v, stay[v].in)
      BY <3>1, <1>9 DEF StayInv
    <3>3. stay[v].in # c /\ stay[v].in \in Cvis
      BY <3>1, <3>2, <2>1, <1>9, OthersKeptOut DEF Stays
    <3>4. Remembered(v, stay[v].in)'
      <4>1. stay[v].in \in live => stay[v].in \in live' /\ cvi'[stay[v].in] = cvi[stay[v].in]
        BY <3>3, <1>4
      <4>2. QED
        BY <4>1, <3>1, <3>2, <2>1, <1>1, <1>8 DEF Remembered
    <3>5. Unrivalled(v, stay[v].in)'
      <4>1. ASSUME NEW d \in live' \ {stay[v].in}, now - cvi'[d].seen <= SpatialWindow
            PROVE  \E s \in sightings : s.of # v /\ s.at = cvi'[d].seen /\ s.box = cvi'[d].box
        <5>1. CASE d # c
          <6>1. d \in live \ {stay[v].in} /\ cvi'[d] = cvi[d]
            BY <4>1, <5>1, <1>4 DEF live
          <6>2. QED
            BY <6>1, <4>1, <3>2 DEF Unrivalled
        <5>2. CASE d = c
          BY <5>2, <2>1, <1>2, <1>4, <1>6, SightingType
        <5>3. QED
          BY <5>1, <5>2
      <4>2. QED
        BY <4>1, <3>1, <1>1 DEF Unrivalled
    <3>6. QED
      BY <3>1, <3>2, <3>3, <3>4, <3>5, <1>4, <1>5
  <2>2. CASE v = o.of
    <3>1. /\ stay'[v] = [from |-> c, in |-> c] /\ fed[c] \subseteq {v}
          /\ Unrivalled(v, c)
      <4>1. CASE stay[v] # None /\ Unmoved(o)
        <5>1. /\ stay[v] \in Stays /\ stay[v].in = stay[v].from
              /\ fed[stay[v].in] = {v} /\ Unrivalled(v, stay[v].in)
          BY <4>1, <1>3, <1>9 DEF StayInv
        <5>2. c = stay[v].in
          <6>1. \A alike \in Likenesses(o) : Matching(o, alike) = {stay[v].in}
            BY <4>1, <2>2, <1>9, StayGoesOn
          <6>2. \E alike \in Likenesses(o) : c \in Matching(o, alike) \/ Matching(o, alike) = {}
            BY DEF Match, Create
          <6>3. QED
            BY <6>1, <6>2
        <5>3. stay'[v] = [stay[v] EXCEPT !.in = c]
          BY <4>1, <2>2, <1>1, <1>2, <1>3
        <5>4. [stay[v] EXCEPT !.in = c] = [from |-> c, in |-> c]
          BY <5>1, <5>2 DEF Stays
        <5>5. QED
          BY <5>1, <5>2, <5>3, <5>4
      <4>2. CASE ~(stay[v] # None /\ Unmoved(o))
        <5>1. stay'[v] = IF Alone(o, c) THEN [from |-> c, in |-> c] ELSE None
          BY <4>2, <2>2, <1>1, <1>2, <1>3
        <5>2. Alone(o, c)
          BY <5>1, <1>9
        <5>3. ASSUME NEW d \in live \ {c}, now - cvi[d].seen <= SpatialWindow
              PROVE  \E s \in sightings : s.of # v /\ s.at = cvi[d].seen /\ s.box = cvi[d].box
          <6>1. v \notin fed[d]
            BY <5>2, <5>3, <2>2, <1>2 DEF Alone, Within
          <6>2. now - cvi[d].seen <= EmbeddingWindow
            BY <5>3, <1>2, <1>3, ConstantsType
          <6>3. QED
            BY <6>1, <6>2 DEF IdentityInv, Traced
        <5>4. QED
          BY <5>1, <5>2, <5>3, <2>2 DEF Alone, Unrivalled
      <4>3. QED
        BY <4>1, <4>2
    <3>2. stay'[v].in = c /\ stay'[v].from = c /\ fed'[c] = {v}
      BY <3>1, <2>2, <1>5
    <3>3. \A s \in Settled(v)' : (\A r \in Settled(v)' : r.at <= s.at) => s = Sighting(o)
      <4>1. Sighting(o).at = now
        BY <1>2, SightingType
      <4>2. \A s \in Settled(v)' : s.at \in Nat /\ s.at <= now
        BY <1>1, <1>2 DEF Settled
      <4>3. now \in Nat
        BY <1>2
      <4>4. QED
        BY <4>1, <4>2, <4>3, <2>2, <1>8
    <3>4. Remembered(v, stay[v].in)'
      <4>1. cvi'[c].seen = Sighting(o).at /\ cvi'[c].box = Sighting(o).box /\ c \in live'
        BY <1>2, <1>4, <1>6, SightingType
      <4>2. QED
        BY <3>2, <3>3, <4>1 DEF Remembered
    <3>5. Unrivalled(v, stay[v].in)'
      <4>1. \A d \in live' \ {c} : d \in live \ {c} /\ cvi'[d] = cvi[d]
        BY <1>4 DEF live
      <4>2. QED
        BY <4>1, <3>1, <3>2, <1>1 DEF Unrivalled
    <3>6. QED
      BY <3>2, <3>4, <3>5, <1>4
  <2>3. QED
    BY <2>1, <2>2
<1>10. QED
  BY <1>7, <1>9 DEF StayInv

LEMMA StayStep == ASSUME IdentityInv, StayInv, [Next]_vars PROVE StayInv'
<1>0. /\ cvi \in [Cvis -> Records \cup {None}] /\ clock \in Nat /\ now \in Nat
      /\ stay \in [Vehicles -> Stays \cup {None}]
      /\ \A d \in live : d \in Cvis /\ cvi[d].seen \in Nat
      /\ \A s \in sightings : s.at \in Nat
  BY DEF IdentityInv, TypeOK, Sightings, live, Records
<1>1. ASSUME NEW c \in Cvis, NEW v \in Vehicles, ApplyOcrResult(c, v)
      PROVE  StayInv'
  <2>1. /\ UNCHANGED <<clock, now, todo, created, sightings, met, fed, stay>>
        /\ \A d \in Cvis \ {c} : cvi'[d] = cvi[d]
        /\ c \in live /\ cvi'[c] = [cvi[c] EXCEPT !.plate = v]
    BY <1>1, <1>0 DEF ApplyOcrResult, history, live
  <2>2. cvi[c] \in Records /\ cvi'[c] \in Records
        /\ cvi'[c].seen = cvi[c].seen /\ cvi'[c].box = cvi[c].box
    BY <2>1, <1>0 DEF live, Records
  <2>3. live' = live
    BY <2>1, <2>2, NoneAssumption DEF live
  <2>4. \A d \in live : cvi'[d].seen = cvi[d].seen /\ cvi'[d].box = cvi[d].box
    BY <2>1, <2>2 DEF live
  <2>5. \A u \in Vehicles : Settled(u)' = Settled(u) /\ Unmet(u)' = Unmet(u)
    BY <2>1 DEF Settled, Unmet
  <2>6. QED
    BY <2>1, <2>3, <2>4, <2>5 DEF StayInv, Remembered, Unrivalled
<1>2. CASE EvictStale
  <2>1. /\ UNCHANGED <<clock, now, todo, created, sightings, met, fed, stay>>
        /\ live' = {d \in live : ~(cvi[d].seen < clock - MaxIdle)}
        /\ \A d \in live' : cvi'[d] = cvi[d]
    BY <1>2, <1>0 DEF EvictStale, history, live
  <2>2. \A u \in Vehicles : /\ Settled(u)' = Settled(u) /\ Settled(u) \subseteq sightings
                            /\ Unmet(u)' = Unmet(u)
    BY <2>1 DEF Settled, Unmet
  <2>3. ASSUME NEW v \in Vehicles, stay[v] # None, Unmet(v)
        PROVE  Remembered(v, stay[v].in)' /\ Unrivalled(v, stay[v].in)'
    <3>1. Remembered(v, stay[v].in) /\ Unrivalled(v, stay[v].in)
      BY <2>3 DEF StayInv
    <3>2. ASSUME NEW s \in Settled(v), \A r \in Settled(v) : r.at <= s.at
          PROVE  \/ /\ stay[v].in \in live' /\ cvi'[stay[v].in].seen = s.at
                    /\ cvi'[stay[v].in].box = s.box
                 \/ clock - s.at > MaxIdle
      <4>1. CASE stay[v].in \in live /\ cvi[stay[v].in].seen = s.at /\ cvi[stay[v].in].box = s.box
        <5>1. s.at \in Nat
          BY <2>2, <1>0
        <5>2. QED
          BY <4>1, <5>1, <2>1, <1>0, ConstantsType
      <4>2. QED
        BY <3>1, <3>2, <4>1 DEF Remembered
    <3>3. QED
      BY <3>1, <3>2, <2>1, <2>2 DEF Remembered, Unrivalled
  <2>4. QED
    BY <2>1, <2>2, <2>3 DEF StayInv
<1>3. CASE Tick
  <2>1. /\ UNCHANGED <<now, todo, cvi, created, sightings, met, fed, stay>> /\ live' = live
        /\ clock' = clock + 1
    BY <1>3 DEF Tick, history, live
  <2>2. \A u \in Vehicles : /\ Settled(u)' = Settled(u) /\ Settled(u) \subseteq sightings
                            /\ Unmet(u)' = Unmet(u)
    BY <2>1 DEF Settled, Unmet
  <2>3. ASSUME NEW v \in Vehicles, stay[v] # None, Unmet(v)
        PROVE  Remembered(v, stay[v].in)' /\ Unrivalled(v, stay[v].in)'
    <3>1. Remembered(v, stay[v].in) /\ Unrivalled(v, stay[v].in)
      BY <2>3 DEF StayInv
    <3>2. \A s \in Settled(v) : clock - s.at > MaxIdle => clock' - s.at > MaxIdle
      BY <2>1, <2>2, <1>0, ConstantsType
    <3>3. QED
      BY <3>1, <3>2, <2>1, <2>2 DEF Remembered, Unrivalled
  <2>4. QED
    BY <2>1, <2>2, <2>3 DEF StayInv
<1>4. CASE UNCHANGED vars
  BY <1>4 DEF vars, history, live, StayInv, Remembered, Unrivalled, Unmet, Settled
<1>5. QED
  BY <1>1, <1>2, <1>3, <1>4, StayPoll, StayResolve DEF Next

\* A vehicle that stays where it is, is seen once per SpatialWindow and met no other
\* keeps its CVI: through new track ids, late frames, evictions and whatever is made
\* of the other vehicles.
THEOREM ParkedVehiclesKept == Spec => []ParkedKeepsCvi
<1>1. Init => IdentityInv /\ StayInv
  BY IdentityInit, StayInit
<1>2. IdentityInv /\ StayInv /\ [Next]_vars => (IdentityInv /\ StayInv)'
  BY IdentityStep, StayStep
<1>3. StayInv => ParkedKeepsCvi
  BY DEF StayInv, Unmet, ParkedKeepsCvi
<1>4. QED
  BY <1>1, <1>2, <1>3, PTL DEF Spec
===============================================================================
