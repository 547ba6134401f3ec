---------------------------- MODULE FrameTapProofs ----------------------------
(***************************************************************************)
(* What holds of the probes for every list of cameras, any of them         *)
(* disabled, every size of the queue and every capacity of the rings.      *)
(***************************************************************************)
EXTENDS FrameTap, FiniteSetTheorems, WellFoundedInduction, TLAPS

\* build() counts pads and slots alike: a pad leads to the slot of its camera.
IndexOK ==
    /\ next \in Nat
    /\ idByPad \in Seq(Cameras)
    /\ \A p \in DOMAIN padToSlot :
          /\ p \in Pads /\ padToSlot[p] \in DOMAIN idByPad
          /\ idByPad[padToSlot[p]] = CameraList[p]

NamesInv == IndexOK /\ DetectionNamesCamera

LEMMA NamesInit == Init => NamesInv
BY DEF Init, NamesInv, IndexOK, DetectionNamesCamera

LEMMA BuildKeepsIndex == ASSUME IndexOK, BuildCamera PROVE IndexOK'
<1>1. CASE CameraList[next] \notin enabled
  BY <1>1 DEF IndexOK, BuildCamera
<1>2. CASE CameraList[next] \in enabled
  <2>1. /\ idByPad' = Append(idByPad, CameraList[next])
        /\ padToSlot' = [p \in DOMAIN padToSlot \cup {next} |->
                            IF p = next THEN Len(idByPad) + 1 ELSE padToSlot[p]]
        /\ next \in Pads /\ next' = next + 1 /\ CameraList[next] \in Cameras
    BY <1>2 DEF BuildCamera, Cameras
  <2>2. /\ idByPad' \in Seq(Cameras) /\ DOMAIN idByPad' = 1..(Len(idByPad) + 1)
        /\ idByPad'[Len(idByPad) + 1] = CameraList[next]
        /\ \A s \in DOMAIN idByPad : idByPad'[s] = idByPad[s]
    BY <2>1 DEF IndexOK
  <2>3. ASSUME NEW p \in DOMAIN padToSlot'
        PROVE  /\ p \in Pads /\ padToSlot'[p] \in DOMAIN idByPad'
               /\ idByPad'[padToSlot'[p]] = CameraList[p]
    BY <2>1, <2>2, <2>3 DEF IndexOK
  <2> QED
    BY <2>1, <2>2, <2>3 DEF IndexOK
<1> QED
  BY <1>1, <1>2

LEMMA NamesStep == NamesInv /\ [Next]_vars => NamesInv'
<1> SUFFICES ASSUME NamesInv, [Next]_vars PROVE NamesInv'
  OBVIOUS
<1>1. CASE BuildCamera
  BY <1>1, BuildKeepsIndex DEF NamesInv, DetectionNamesCamera, BuildCamera, kafka
<1>2. ASSUME NEW b \in Batches, Push(b) PROVE NamesInv'
  BY <1>2 DEF NamesInv, IndexOK, DetectionNamesCamera, Push, index, kafka
<1>3. CASE Detect
  <2>1. \A i \in DOMAIN batch : batch[i].pad \in DOMAIN padToSlot =>
            Detection(batch[i]).sensor = Detection(batch[i]).of.cam
    BY DEF NamesInv, IndexOK, Detection, FrameOf
  <2>2. UNCHANGED <<index, topic>>
        /\ \A m \in queue' \ queue : \E i \in DOMAIN batch :
              batch[i].pad \in DOMAIN padToSlot /\ m = Detection(batch[i])
    BY <1>3 DEF Detect, Publish
  <2> QED
    BY <2>1, <2>2 DEF NamesInv, IndexOK, DetectionNamesCamera, index
<1>4. CASE Tap
  BY <1>4 DEF NamesInv, IndexOK, DetectionNamesCamera, Tap, index, kafka
<1>5. ASSUME NEW m \in queue, Deliver(m) \/ DeliveryFails(m) PROVE NamesInv'
  BY <1>5 DEF NamesInv, IndexOK, DetectionNamesCamera, Deliver, DeliveryFails, index
<1>6. CASE UNCHANGED vars
  BY <1>6 DEF NamesInv, IndexOK, DetectionNamesCamera, vars, index, kafka
<1> QED
  BY <1>1, <1>2, <1>3, <1>4, <1>5, <1>6 DEF Next

\* No detection is published under the name of another camera.
THEOREM DetectionsNamed == Spec => []DetectionNamesCamera
<1>1. NamesInv => DetectionNamesCamera
  BY DEF NamesInv
<1> QED
  BY <1>1, NamesInit, NamesStep, PTL DEF Spec

-------------------------------------------------------------------------------
\* A set of numbers has a smallest one.
LEMMA SmallestOf ==
    ASSUME NEW S \in SUBSET Nat, S # {}
    PROVE  \E i \in S : \A j \in S : ~(j < i)
<1> DEFINE R == OpToRel(<, Nat)
<1>1. IsWellFoundedOn(R, Nat)
  BY NatLessThanWellFounded
<1>2. PICK i \in S : \A j \in S : <<j, i>> \notin R
  BY <1>1, WFMin
<1> QED
  BY <1>2 DEF OpToRel

\* Two of Capacity successive numbers never fall on the same slot.
LEMMA SlotsDistinct ==
    ASSUME NEW C \in Nat \ {0}, NEW i \in Nat, NEW j \in Nat, i < j, j - i < C
    PROVE  i % C # j % C
<1>1. PICK q \in Int : i % C = i - C * q
  <2>1. i % C = i - C * (i \div C) /\ i \div C \in Int
    OBVIOUS
  <2> QED
    BY <2>1
<1>2. PICK r \in Int : j % C = j - C * r
  <2>1. j % C = j - C * (j \div C) /\ j \div C \in Int
    OBVIOUS
  <2> QED
    BY <2>1
<1> SUFFICES ASSUME i % C = j % C PROVE FALSE
  OBVIOUS
<1>3. j - i = C * (r - q)
  BY <1>1, <1>2
<1>4. CASE r - q <= 0
  BY <1>3, <1>4
<1>5. CASE r - q >= 1
  BY <1>3, <1>5
<1> QED
  BY <1>4, <1>5

\* The ring holds the last Capacity slots of what was captured, each at its place.
Rings(r, h) ==
    /\ h \in Seq(Stored) /\ r.written = Len(h)
    /\ DOMAIN r.slots = 0..(Capacity - 1)
    /\ \A i \in 0..(Len(h) - 1) : i >= Len(h) - Capacity => r.slots[i % Capacity] = h[i + 1]

LEMMA PushKeepsRing ==
    ASSUME NEW r, NEW h, NEW s \in Stored, Rings(r, h)
    PROVE  Rings(RingPush(r, s), Append(h, s))
<1> DEFINE n == Len(h)
           p == RingPush(r, s)
           k == Append(h, s)
<1>1. n \in Nat /\ h \in Seq(Stored) /\ Capacity \in Nat \ {0}
  BY SizesAssumption DEF Rings
<1>2. /\ k \in Seq(Stored) /\ Len(k) = n + 1 /\ k[n + 1] = s
      /\ \A i \in 0..(n - 1) : k[i + 1] = h[i + 1]
  BY <1>1
<1>3. n % Capacity \in 0..(Capacity - 1)
  BY <1>1
<1>4. /\ p.written = n + 1 /\ DOMAIN p.slots = 0..(Capacity - 1)
      /\ p.slots[n % Capacity] = s
      /\ \A j \in 0..(Capacity - 1) : j # n % Capacity => p.slots[j] = r.slots[j]
  BY <1>3 DEF RingPush, Rings
<1>5. ASSUME NEW i \in 0..n, i >= n + 1 - Capacity
      PROVE  p.slots[i % Capacity] = k[i + 1]
  <2>1. CASE i = n
    BY <2>1, <1>2, <1>4
  <2>2. CASE i < n
    <3>1. i % Capacity # n % Capacity
      <4>1. i \in Nat /\ i < n /\ n - i < Capacity
        BY <2>2, <1>1, <1>5
      <4> HIDE DEF n
      <4> QED
        BY <4>1, <1>1, SlotsDistinct
    <3>2. i % Capacity \in 0..(Capacity - 1)
      BY <1>1
    <3>3. r.slots[i % Capacity] = h[i + 1]
      BY <2>2, <1>1, <1>5 DEF Rings
    <3> QED
      BY <3>1, <3>2, <3>3, <2>2, <1>2, <1>4
  <2> QED
    BY <2>1, <2>2, <1>1
<1>6. \A i \in 0..(Len(k) - 1) : i >= Len(k) - Capacity => p.slots[i % Capacity] = k[i + 1]
  BY <1>1, <1>2, <1>5
<1> QED
  BY <1>2, <1>4, <1>6 DEF Rings

\* The number of the smallest one, and of a set shifted by one.
LEMMA MinIs ==
    ASSUME NEW S \in SUBSET Nat, NEW i \in S, \A j \in S : ~(j < i)
    PROVE  Min(S) = i
<1>1. i \in S /\ \A j \in S : i <= j
  OBVIOUS
<1>2. PICK m \in S : m = Min(S) /\ \A j \in S : m <= j
  BY <1>1 DEF Min
<1> QED
  BY <1>1, <1>2

LEMMA MinShifted ==
    ASSUME NEW S \in SUBSET Nat, NEW T \in SUBSET (Nat \ {0}), S # {},
           \A i \in Nat : i \in S <=> i + 1 \in T
    PROVE  Min(S) \in S /\ Min(T) = Min(S) + 1
<1>1. PICK i \in S : \A j \in S : ~(j < i)
  BY SmallestOf
<1>2. ASSUME NEW j \in T PROVE ~(j < i + 1)
  <2>1. j - 1 \in Nat /\ (j - 1) + 1 = j
    OBVIOUS
  <2>2. j - 1 \in S
    BY <2>1
  <2>3. i \in Nat /\ ~(j - 1 < i)
    BY <1>1, <2>2
  <2> QED
    BY <2>1, <2>3
<1>3. i + 1 \in T
  BY <1>1
<1>4. Min(T) = i + 1
  BY <1>2, <1>3, MinIs
<1>5. Min(S) = i
  BY <1>1, MinIs
<1> QED
  BY <1>1, <1>4, <1>5

\* The scan of the ring and the definition over all that was captured agree.
LEMMA FindWanted ==
    ASSUME NEW r, NEW h, NEW wanted \in Nat, Rings(r, h)
    PROVE  Find(r, wanted) = Wanted(h, wanted)
<1> DEFINE n == Len(h)
           first == IF r.written < Capacity THEN 0 ELSE r.written - Capacity
           exact == {i \in first..(r.written - 1) : r.slots[i % Capacity].num = wanted}
           recent == {i \in DOMAIN h : i > n - Capacity /\ h[i].num = wanted}
<1>1. n \in Nat /\ Capacity \in Nat \ {0} /\ DOMAIN h = 1..n /\ r.written = n
      /\ first \in Nat /\ (n = 0 <=> h = <<>>)
  BY SizesAssumption DEF Rings
<1>2. \A i \in 0..(n - 1) : i >= n - Capacity => r.slots[i % Capacity] = h[i + 1]
  BY DEF Rings
<1>3. exact \in SUBSET Nat /\ recent \in SUBSET (Nat \ {0})
      /\ \A i \in exact : i \in 0..(n - 1) /\ i >= n - Capacity
  BY <1>1
<1>4. ASSUME NEW i \in Nat PROVE i \in exact <=> i + 1 \in recent
  <2>1. CASE i < n /\ n - Capacity <= i
    <3>1. r.slots[i % Capacity].num = h[i + 1].num
      BY <2>1, <1>1, <1>2
    <3>2. i \in first..(r.written - 1) /\ i + 1 \in DOMAIN h /\ i + 1 > n - Capacity
      BY <2>1, <1>1
    <3> QED
      BY <3>1, <3>2
  <2>2. CASE ~(i < n /\ n - Capacity <= i)
    BY <2>2, <1>1
  <2> QED
    BY <2>1, <2>2
<1>5. CASE n = 0
  BY <1>1, <1>5 DEF Find, Wanted
<1>6. CASE n > 0 /\ (wanted = 0 \/ exact = {})
  <2>1. n - 1 \in 0..(n - 1) /\ n - 1 >= n - Capacity /\ (n - 1) + 1 = n
    BY <1>6, <1>1
  <2>2. r.slots[(n - 1) % Capacity] = h[n]
    BY <2>1, <1>2
  <2>3. wanted = 0 \/ recent = {}
    <3> HIDE DEF exact, recent
    <3>1. ASSUME exact = {}, NEW i \in recent PROVE FALSE
      <4>1. i - 1 \in Nat /\ (i - 1) + 1 = i
        BY <1>3, <3>1
      <4> QED
        BY <4>1, <1>4, <3>1
    <3> QED
      BY <1>6, <3>1
  <2>4. Find(r, wanted) = r.slots[(r.written - 1) % Capacity]
    BY <1>6, <1>1 DEF Find
  <2>5. Wanted(h, wanted) = h[n]
    BY <2>3, <1>6, <1>1 DEF Wanted
  <2> QED
    BY <2>2, <2>4, <2>5, <1>1
<1>7. CASE n > 0 /\ wanted # 0 /\ exact # {}
  <2>1. Min(exact) \in exact /\ Min(recent) = Min(exact) + 1
    <3> HIDE DEF exact, recent
    <3> QED
      BY <1>7, <1>3, <1>4, MinShifted
  <2>2. recent # {}
    <3> HIDE DEF exact, recent
    <3> QED
      BY <2>1, <1>3, <1>4
  <2>3. Find(r, wanted) = r.slots[Min(exact) % Capacity]
    BY <1>7, <1>1 DEF Find
  <2>4. Wanted(h, wanted) = h[Min(recent)]
    BY <2>2, <1>7, <1>1 DEF Wanted
  <2>5. r.slots[Min(exact) % Capacity] = h[Min(exact) + 1]
    <3> HIDE DEF exact
    <3> QED
      BY <2>1, <1>2, <1>3
  <2> QED
    BY <2>1, <2>3, <2>4, <2>5
<1> QED
  BY <1>1, <1>5, <1>6, <1>7

\* The frames of the buffer in the probes.
BatchOK ==
    /\ frames \in [Cameras -> Nat]
    /\ batch \in Seq([pad : Pads, num : Nat])

RingsInv == BatchOK /\ \A c \in Cameras : Rings(rings[c], captured[c])
                    /\ DOMAIN rings = Cameras /\ DOMAIN captured = Cameras

LEMMA RingsInit == Init => RingsInv
<1> SUFFICES ASSUME Init PROVE RingsInv
  OBVIOUS
<1>1. Rings(EmptyRing, <<>>)
  BY SizesAssumption DEF Rings, EmptyRing
<1> QED
  BY <1>1 DEF Init, RingsInv, BatchOK

LEMMA PushKeepsBatch == ASSUME BatchOK, NEW b \in Batches, Push(b) PROVE BatchOK'
<1>1. PICK n \in 1..Len(CameraList) : b \in [1..n -> Pads]
  BY DEF Batches
<1>2. n \in Nat /\ DOMAIN b = 1..n /\ \A i \in 1..n : b[i] \in Pads /\ CameraList[b[i]] \in Cameras
  BY <1>1, ListAssumption DEF Cameras
<1>3. batch' = [i \in 1..n |-> [pad |-> b[i], num |-> frames[CameraList[b[i]]]]]
  BY <1>2 DEF Push
<1>4. batch' \in [1..n -> [pad : Pads, num : Nat]]
  BY <1>2, <1>3 DEF BatchOK
<1>5. batch' \in Seq([pad : Pads, num : Nat])
  <2> DEFINE Entry == [pad : Pads, num : Nat]
  <2> HIDE DEF Entry
  <2>1. batch' \in [1..n -> Entry]
    BY <1>4 DEF Entry
  <2>2. batch' \in Seq(Entry)
    BY <2>1, <1>2
  <2> QED
    BY <2>2 DEF Entry
<1>6. frames' \in [Cameras -> Nat]
  BY DEF Push, BatchOK
<1> QED
  BY <1>5, <1>6 DEF BatchOK

\* The tap puts at most one new slot into a ring.
LEMMA TapPushes ==
    ASSUME RingsInv, Tap, NEW c \in Cameras
    PROVE  \/ rings'[c] = rings[c] /\ captured'[c] = captured[c]
           \/ \E s \in Stored : /\ rings'[c] = RingPush(rings[c], s)
                                /\ captured'[c] = Append(captured[c], s)
<1> DEFINE encodable == {i \in DOMAIN batch : /\ batch[i].pad \in DOMAIN idByPad
                                              /\ batch[i].pad \in DOMAIN batch}
           slot(i) == [num |-> batch[i].num, shows |-> Picture(batch[i])]
<1>1. PICK encoded \in SUBSET encodable :
        /\ rings' = [d \in Cameras |->
              LET tapped == {i \in encoded : idByPad[batch[i].pad] = d}
              IN  IF tapped = {} THEN rings[d]
                  ELSE RingPush(rings[d], slot(CHOOSE i \in tapped : TRUE))]
        /\ captured' = [d \in Cameras |->
              LET tapped == {i \in encoded : idByPad[batch[i].pad] = d}
              IN  IF tapped = {} THEN captured[d]
                  ELSE Append(captured[d], slot(CHOOSE i \in tapped : TRUE))]
  BY DEF Tap
<1>2. ASSUME NEW i \in encodable PROVE slot(i) \in Stored
  <2>1. batch[i] \in [pad : Pads, num : Nat] /\ batch[batch[i].pad] \in [pad : Pads, num : Nat]
    <3> DEFINE Entry == [pad : Pads, num : Nat]
    <3>1. batch \in Seq(Entry) /\ i \in DOMAIN batch /\ batch[i].pad \in DOMAIN batch
      BY <1>2 DEF RingsInv, BatchOK
    <3> HIDE DEF Entry
    <3>2. \A k \in DOMAIN batch : batch[k] \in Entry
      BY <3>1
    <3>3. batch[i] \in Entry /\ batch[batch[i].pad] \in Entry
      BY <3>1, <3>2
    <3> QED
      BY <3>3 DEF Entry
  <2>2. \A f \in [pad : Pads, num : Nat] : FrameOf(f) \in Frame
    BY DEF FrameOf, Frame, Cameras
  <2> QED
    BY <2>1, <2>2 DEF Stored, Picture
<1> DEFINE tapped == {i \in encoded : idByPad[batch[i].pad] = c}
<1>3. CASE tapped = {}
  BY <1>1, <1>3
<1>4. CASE tapped # {}
  <2> DEFINE s == slot(CHOOSE i \in tapped : TRUE)
  <2>1. s \in Stored
    BY <1>2, <1>4
  <2>2. rings'[c] = RingPush(rings[c], s) /\ captured'[c] = Append(captured[c], s)
    BY <1>1, <1>4
  <2> HIDE DEF s
  <2> QED
    BY <2>1, <2>2
<1> QED
  BY <1>3, <1>4

LEMMA TapKeepsRings == ASSUME RingsInv, Tap PROVE RingsInv'
<1>1. ASSUME NEW c \in Cameras PROVE Rings(rings'[c], captured'[c])
  <2>1. Rings(rings[c], captured[c])
    BY DEF RingsInv
  <2> QED
    BY <2>1, TapPushes, PushKeepsRing
<1>2. ASSUME NEW c \in Cameras PROVE Rings(rings[c], captured[c])'
  BY <1>1 DEF Rings
<1>3. BatchOK'
  BY DEF RingsInv, BatchOK, Tap
<1> QED
  BY <1>2, <1>3 DEF RingsInv, Tap

LEMMA RingsStep == RingsInv /\ [Next]_vars => RingsInv'
<1> SUFFICES ASSUME RingsInv, [Next]_vars PROVE RingsInv'
  OBVIOUS
<1>1. ASSUME NEW b \in Batches, Push(b) PROVE RingsInv'
  <2>1. BatchOK'
    BY <1>1, PushKeepsBatch DEF RingsInv
  <2> QED
    BY <1>1, <2>1 DEF RingsInv, Rings, Push
<1>2. CASE Tap
  BY <1>2, TapKeepsRings
<1>3. ASSUME UNCHANGED <<frames, batch, rings, captured>> PROVE RingsInv'
  BY <1>3 DEF RingsInv, Rings, BatchOK
<1>4. CASE BuildCamera \/ Detect \/ (\E m \in queue : Deliver(m) \/ DeliveryFails(m)) \/ UNCHANGED vars
  BY <1>3, <1>4 DEF BuildCamera, Detect, Deliver, DeliveryFails, vars, tap
<1> QED
  BY <1>1, <1>2, <1>4 DEF Next

\* A lookup in a ring finds what was captured, for every capacity.
THEOREM RingsFindCaptured == Spec => []RingFindsCaptured
<1>1. RingsInv => RingFindsCaptured
  <2> SUFFICES ASSUME RingsInv, NEW c \in Cameras, NEW wanted \in 0..MaxFrames
               PROVE  Find(rings[c], wanted) = Wanted(captured[c], wanted)
    BY DEF RingFindsCaptured
  <2>1. wanted \in Nat /\ Rings(rings[c], captured[c])
    BY SizesAssumption DEF RingsInv
  <2> QED
    BY <2>1, FindWanted
<1> QED
  BY <1>1, RingsInit, RingsStep, PTL DEF Spec
-------------------------------------------------------------------------------
(* Detections that are lost are counted *)

\* Messages are of frames that were sent, and not of those the probe is to see.
Published ==
    \A m \in queue \cup topic :
        /\ m.sensor \in Cameras /\ m.of.cam \in Cameras
        /\ m.of.num \in Nat /\ m.of.num < frames[m.of.cam]
        /\ probe = "detection" => \A i \in DOMAIN batch : FrameOf(batch[i]) # m.of

CountInv ==
    /\ BatchOK /\ IndexOK
    /\ IsFiniteSet(queue) /\ IsFiniteSet(topic) /\ queue \cap topic = {}
    /\ probe = "detection" =>
          \A i \in DOMAIN batch : batch[i].num < frames[CameraList[batch[i].pad]]
    /\ Published
    /\ stats \in [Cameras -> [frames : Nat, fails : Nat]]
    /\ warned \in [Cameras -> Nat]
    /\ DropsCounted

LEMMA CountInit == Init => CountInv
<1> SUFFICES ASSUME Init PROVE CountInv
  OBVIOUS
<1>1. ASSUME NEW c \in Cameras PROVE {m \in queue \cup topic : m.sensor = c} = {}
  BY DEF Init
<1>2. Cardinality({}) = 0 /\ IsFiniteSet({})
  BY FS_EmptySet
<1>3. DropsCounted
  BY <1>1, <1>2 DEF Init, DropsCounted
<1>4. QED
  BY <1>2, <1>3 DEF Init, CountInv, BatchOK, IndexOK, Published

\* The frames of a buffer have the fields of frames.
LEMMA BatchFields ==
    ASSUME BatchOK, NEW i \in DOMAIN batch
    PROVE  /\ batch[i].pad \in Pads /\ batch[i].num \in Nat
           /\ CameraList[batch[i].pad] \in Cameras
<1> DEFINE Entry == [pad : Pads, num : Nat]
<1>1. batch \in Seq(Entry)
  BY DEF BatchOK
<1> HIDE DEF Entry
<1>2. batch[i] \in Entry
  BY <1>1
<1> QED
  BY <1>2 DEF Entry, Cameras

\* The messages about a buffer are finitely many.
LEMMA MessagesFinite ==
    ASSUME BatchOK, NEW I \in SUBSET DOMAIN batch
    PROVE  IsFiniteSet({Detection(batch[i]) : i \in I})
<1> DEFINE T == {Detection(batch[i]) : i \in I}
           f == [i \in I |-> Detection(batch[i])]
<1>1. IsFiniteSet(DOMAIN batch)
  <2> DEFINE Entry == [pad : Pads, num : Nat]
  <2>1. batch \in Seq(Entry)
    BY DEF BatchOK
  <2> HIDE DEF Entry
  <2>2. Len(batch) \in Nat /\ DOMAIN batch = 1..Len(batch)
    BY <2>1
  <2>3. IsFiniteSet(1..Len(batch))
    BY <2>2, FS_Interval
  <2> QED
    BY <2>2, <2>3
<1>2. IsFiniteSet(I)
  BY <1>1, FS_Subset
<1>3. f \in Surjection(I, T)
  BY DEF Surjection
<1> QED
  BY <1>2, <1>3, FS_Surjection

\* The messages of S about camera c.
About(S, c) == {m \in S : m.sensor = c}

\* Two sets of messages without a common one are counted apart.
LEMMA CountApart ==
    ASSUME NEW A, NEW B, IsFiniteSet(A), IsFiniteSet(B), A \cap B = {}, NEW c
    PROVE  /\ Cardinality(About(A \cup B, c)) =
                 Cardinality(About(A, c)) + Cardinality(About(B, c))
           /\ Cardinality(About(A, c)) \in Nat
           /\ Cardinality(About(B, c)) \in Nat
<1>1. IsFiniteSet(About(A, c)) /\ IsFiniteSet(About(B, c))
  BY FS_Subset DEF About
<1>2. About(A, c) \cap About(B, c) = {} /\ About(A \cup B, c) = About(A, c) \cup About(B, c)
  BY DEF About
<1>3. /\ Cardinality(About(A, c)) \in Nat /\ Cardinality(About(B, c)) \in Nat
      /\ Cardinality({}) = 0
  BY <1>1, FS_CardinalityType, FS_EmptySet
<1>4. Cardinality(About(A, c) \cup About(B, c)) =
        Cardinality(About(A, c)) + Cardinality(About(B, c)) - Cardinality(About(A, c) \cap About(B, c))
  BY <1>1, FS_Union
<1>5. /\ Cardinality(About(A, c) \cap About(B, c)) = 0
      /\ Cardinality(About(A \cup B, c)) = Cardinality(About(A, c) \cup About(B, c))
  BY <1>2, <1>3, Zenon
<1> HIDE DEF About
<1> QED
  BY <1>3, <1>4, <1>5

\* A message is sent or counted as dropped.
LEMMA DetectCounts == ASSUME CountInv, Detect PROVE CountInv'
<1> DEFINE I == {j \in DOMAIN batch : batch[j].pad \in DOMAIN padToSlot}
           messages == {Detection(batch[i]) : i \in I}
<1>1. PICK sent \in SUBSET messages : Publish(sent, messages \ sent)
  BY DEF Detect
<1>2. IsFiniteSet(messages)
  BY MessagesFinite DEF CountInv
<1>3. IsFiniteSet(sent) /\ IsFiniteSet(messages \ sent) /\ IsFiniteSet(queue \cup sent)
  BY <1>2, FS_Subset, FS_Union DEF CountInv
<1>4. ASSUME NEW m \in sent
      PROVE  /\ m.sensor \in Cameras /\ m.of.cam \in Cameras /\ m.of.num \in Nat
             /\ m.of.num < frames[m.of.cam] /\ m \notin queue \cup topic
  <2>1. PICK i \in I : m = Detection(batch[i])
    OBVIOUS
  <2>2. m.of = FrameOf(batch[i]) /\ m.of.cam = CameraList[batch[i].pad] /\ m.of.num = batch[i].num
    BY <2>1 DEF Detection, FrameOf
  <2>3. m.sensor \in Cameras
    <3>1. /\ m.sensor = idByPad[padToSlot[batch[i].pad]]
          /\ batch[i].pad \in DOMAIN padToSlot
      BY <2>1 DEF Detection
    <3>2. padToSlot[batch[i].pad] \in DOMAIN idByPad /\ idByPad \in Seq(Cameras)
      BY <3>1 DEF CountInv, IndexOK
    <3> QED
      BY <3>1, <3>2
  <2> QED
    BY <2>2, <2>3, BatchFields DEF CountInv, Published, Detect
<1>5. queue' = queue \cup sent /\ topic' = topic /\ (queue \cup topic) \cap sent = {}
  BY <1>1, <1>4 DEF Publish, Detect
<1>6. stats' = [c \in Cameras |->
         [frames |-> stats[c].frames + Cardinality(About(sent \cup (messages \ sent), c)),
          fails  |-> stats[c].fails + Cardinality(About(messages \ sent, c))]]
  BY <1>1 DEF Publish, About
<1> HIDE DEF messages
<1>7. ASSUME NEW c \in Cameras
      PROVE  /\ stats'[c] \in [frames : Nat, fails : Nat]
             /\ stats'[c].frames = Cardinality(About(queue' \cup topic', c))
                                   + stats'[c].fails + warned'[c]
  <2>1. IsFiniteSet(queue \cup topic)
    BY FS_Union DEF CountInv
  <2>2. /\ Cardinality(About((queue \cup topic) \cup sent, c)) =
               Cardinality(About(queue \cup topic, c)) + Cardinality(About(sent, c))
        /\ Cardinality(About(queue \cup topic, c)) \in Nat
    <3> DEFINE earlier == queue \cup topic
    <3>1. IsFiniteSet(earlier) /\ earlier \cap sent = {}
      BY <1>5, <2>1
    <3> HIDE DEF earlier
    <3>2. /\ Cardinality(About(earlier \cup sent, c)) =
                 Cardinality(About(earlier, c)) + Cardinality(About(sent, c))
          /\ Cardinality(About(earlier, c)) \in Nat
      BY <1>3, <3>1, CountApart
    <3> QED
      BY <3>2 DEF earlier
  <2>3. /\ Cardinality(About(sent \cup (messages \ sent), c)) =
               Cardinality(About(sent, c)) + Cardinality(About(messages \ sent, c))
        /\ Cardinality(About(sent, c)) \in Nat
        /\ Cardinality(About(messages \ sent, c)) \in Nat
    <3>1. sent \cap (messages \ sent) = {}
      OBVIOUS
    <3> QED
      BY <1>3, <3>1, CountApart
  <2>4. queue' \cup topic' = (queue \cup topic) \cup sent
    BY <1>5
  <2>5. /\ stats[c].frames = Cardinality(About(queue \cup topic, c))
                             + stats[c].fails + warned[c]
        /\ stats[c].frames \in Nat /\ stats[c].fails \in Nat /\ warned[c] \in Nat
    BY DEF CountInv, DropsCounted, About
  <2>6. /\ stats'[c].frames = stats[c].frames
               + Cardinality(About(sent \cup (messages \ sent), c))
        /\ stats'[c].fails = stats[c].fails + Cardinality(About(messages \ sent, c))
        /\ stats'[c] = [frames |-> stats'[c].frames, fails |-> stats'[c].fails]
    BY <1>6
  <2>7. warned' = warned
    BY DEF Detect
  <2>8. stats'[c].frames \in Nat /\ stats'[c].fails \in Nat
    BY <2>3, <2>5, <2>6
  <2>9. Cardinality(About(queue' \cup topic', c)) =
           Cardinality(About((queue \cup topic) \cup sent, c))
    BY <2>4, Zenon
  <2>10. stats'[c].frames = Cardinality(About(queue' \cup topic', c)) + stats'[c].fails + warned'[c]
    BY <2>2, <2>3, <2>5, <2>6, <2>7, <2>9
  <2> QED
    BY <2>6, <2>8, <2>10
<1>8. stats' \in [Cameras -> [frames : Nat, fails : Nat]]
  BY <1>6, <1>7
<1>9. Published' /\ BatchOK' /\ IndexOK' /\ (queue \cap topic = {})'
  BY <1>4, <1>5 DEF CountInv, Published, BatchOK, IndexOK, Detect, index, FrameOf
<1> QED
  BY <1>3, <1>5, <1>7, <1>8, <1>9 DEF CountInv, DropsCounted, Detect, About

\* A new buffer has new frames.
LEMMA PushCounts == ASSUME CountInv, NEW b \in Batches, Push(b) PROVE CountInv'
<1>1. BatchOK'
  BY PushKeepsBatch DEF CountInv
<1>2. UNCHANGED <<index, kafka>> /\ probe' = "detection"
      /\ frames \in [Cameras -> Nat] /\ DOMAIN batch' = DOMAIN b
  BY DEF Push, CountInv, BatchOK
<1>3. ASSUME NEW i \in DOMAIN b
      PROVE  /\ batch'[i].pad = b[i] /\ batch'[i].num = frames[CameraList[b[i]]]
             /\ CameraList[b[i]] \in Cameras
             /\ frames'[CameraList[b[i]]] = frames[CameraList[b[i]]] + 1
  <2>1. b[i] \in Pads
    BY DEF Batches
  <2> QED
    BY <2>1 DEF Push, Cameras
<1>4. \A c \in Cameras : frames'[c] >= frames[c] /\ frames'[c] \in Nat
  BY <1>2 DEF Push
<1>5. \A i \in DOMAIN batch' : batch'[i].num < frames'[CameraList[batch'[i].pad]]
  BY <1>2, <1>3
<1>6. Published'
  <2> SUFFICES ASSUME NEW m \in queue \cup topic
               PROVE  /\ m.sensor \in Cameras /\ m.of.cam \in Cameras
                      /\ m.of.num \in Nat /\ m.of.num < frames'[m.of.cam]
                      /\ \A i \in DOMAIN batch' : FrameOf(batch'[i]) # m.of
    BY <1>2 DEF Published, kafka, FrameOf
  <2>1. /\ m.sensor \in Cameras /\ m.of.cam \in Cameras
        /\ m.of.num \in Nat /\ m.of.num < frames[m.of.cam]
    BY DEF CountInv, Published
  <2>2. ASSUME NEW i \in DOMAIN batch', FrameOf(batch'[i]) = m.of PROVE FALSE
    BY <1>2, <1>3, <2>1, <2>2 DEF FrameOf
  <2> QED
    BY <1>2, <1>4, <2>1, <2>2
<1> QED
  BY <1>1, <1>2, <1>5, <1>6 DEF CountInv, IndexOK, DropsCounted, index, kafka

\* A message that leaves the queue is in the topic, or has been warned of.
LEMMA DeliveryCounts ==
    ASSUME CountInv, NEW m \in queue, Deliver(m) \/ DeliveryFails(m)
    PROVE  CountInv'
<1>1. CASE Deliver(m)
  <2>1. queue' \cup topic' = queue \cup topic /\ (queue \cap topic = {})'
    BY <1>1 DEF Deliver, CountInv
  <2>2. IsFiniteSet(queue') /\ IsFiniteSet(topic')
    BY <1>1, FS_RemoveElement, FS_AddElement DEF Deliver, CountInv
  <2> QED
    BY <1>1, <2>1, <2>2 DEF CountInv, Published, BatchOK, IndexOK, DropsCounted, Deliver, index
<1>2. CASE DeliveryFails(m)
  <2>1. /\ queue' \cup topic' = (queue \cup topic) \ {m} /\ (queue \cap topic = {})'
        /\ IsFiniteSet(queue \cup topic)
    BY <1>2, FS_Union DEF DeliveryFails, CountInv
  <2>2. IsFiniteSet(queue') /\ IsFiniteSet(topic')
    BY <1>2, FS_RemoveElement DEF DeliveryFails, CountInv
  <2>3. ASSUME NEW c \in Cameras
        PROVE  stats'[c].frames = Cardinality(About(queue' \cup topic', c))
                                 + stats'[c].fails + warned'[c]
    <3> DEFINE S == About(queue \cup topic, c)
    <3>1. IsFiniteSet(S)
      BY <2>1, FS_Subset DEF About
    <3>2. About(queue' \cup topic', c) = S \ {m}
      BY <2>1 DEF About
    <3>3. /\ Cardinality(S \ {m}) = IF m \in S THEN Cardinality(S) - 1 ELSE Cardinality(S)
          /\ Cardinality(S) \in Nat
      BY <3>1, FS_RemoveElement, FS_CardinalityType
    <3>4. warned'[c] = IF m \in S THEN warned[c] + 1 ELSE warned[c]
      BY <1>2 DEF DeliveryFails, CountInv, About
    <3>5. /\ stats' = stats /\ stats[c].frames = Cardinality(S) + stats[c].fails + warned[c]
          /\ stats[c].fails \in Nat /\ warned[c] \in Nat
      BY <1>2 DEF DeliveryFails, CountInv, DropsCounted, About
    <3> HIDE DEF S
    <3>6. Cardinality(About(queue' \cup topic', c)) = Cardinality(S \ {m})
      BY <3>2, Zenon
    <3> QED
      BY <3>3, <3>4, <3>5, <3>6
  <2>4. warned' \in [Cameras -> Nat]
    BY <1>2 DEF DeliveryFails, CountInv, Published
  <2>5. Published'
    BY <1>2, <2>1 DEF CountInv, Published, DeliveryFails
  <2> QED
    BY <1>2, <2>1, <2>2, <2>3, <2>4, <2>5
       DEF CountInv, BatchOK, IndexOK, DropsCounted, DeliveryFails, index, About
<1> QED
  BY <1>1, <1>2

LEMMA CountStep == CountInv /\ [Next]_vars => CountInv'
<1> SUFFICES ASSUME CountInv, [Next]_vars PROVE CountInv'
  OBVIOUS
<1>1. CASE BuildCamera
  <2>1. IndexOK'
    BY <1>1, BuildKeepsIndex DEF CountInv
  <2> QED
    BY <1>1, <2>1 DEF CountInv, Published, BatchOK, DropsCounted, BuildCamera, kafka
<1>2. ASSUME NEW b \in Batches, Push(b) PROVE CountInv'
  BY <1>2, PushCounts
<1>3. CASE Detect
  BY <1>3, DetectCounts
<1>4. CASE Tap
  <2>1. BatchOK'
    BY <1>4 DEF CountInv, BatchOK, Tap
  <2> QED
    BY <1>4, <2>1 DEF CountInv, Published, IndexOK, DropsCounted, Tap, index, kafka
<1>5. ASSUME NEW m \in queue, Deliver(m) \/ DeliveryFails(m) PROVE CountInv'
  BY <1>5, DeliveryCounts
<1>6. CASE UNCHANGED vars
  BY <1>6 DEF CountInv, Published, BatchOK, IndexOK, DropsCounted, vars, index, kafka
<1> QED
  BY <1>1, <1>2, <1>3, <1>4, <1>5, <1>6 DEF Next

\* Every frame that went through the probe is delivered, queued or counted, for
\* every size of the queue and every order of its threads.
THEOREM LossesCounted == Spec => []DropsCounted
<1>1. CountInv => DropsCounted
  BY DEF CountInv
<1> QED
  BY <1>1, CountInit, CountStep, PTL DEF Spec
-------------------------------------------------------------------------------
(* The picture is the one that was asked for *)

\* Disabled cameras come last in the configuration.
DisabledLast ==
    \A p, q \in Pads : q <= p /\ CameraList[p] \in enabled => CameraList[q] \in enabled

\* A slot that was captured shows camera c, in the frame of its number.
ShowsItself(slots, c) ==
    \A i \in DOMAIN slots : slots[i].shows = [cam |-> c, num |-> slots[i].num]

\* The first half: slots are pads, as long as only enabled cameras came.
SlotsArePads ==
    /\ (\A q \in Pads : q < next => CameraList[q] \in enabled) => Len(idByPad) = next - 1
    /\ DisabledLast => \A k \in DOMAIN idByPad : idByPad[k] = CameraList[k]

\* The second half: surfaces are pads.
AlignInv ==
    /\ RingsInv /\ IndexOK /\ SlotsArePads
    /\ aligned => /\ \A i \in DOMAIN batch : DisabledLast /\ batch[i].pad = i
                  /\ \A c \in Cameras : ShowsItself(captured[c], c)

LEMMA AlignInit == Init => AlignInv
<1> SUFFICES ASSUME Init PROVE AlignInv
  OBVIOUS
<1>1. SlotsArePads /\ IndexOK
  BY DEF Init, SlotsArePads, IndexOK
<1> QED
  BY <1>1, RingsInit DEF Init, AlignInv, ShowsItself

LEMMA BuildKeepsSlots ==
    ASSUME IndexOK, SlotsArePads, BuildCamera PROVE SlotsArePads'
<1>1. next \in Pads /\ next' = next + 1 /\ next \in Nat /\ enabled' = enabled
      /\ Len(idByPad) \in Nat /\ DOMAIN idByPad = 1..Len(idByPad) /\ Pads \subseteq Nat
  BY ListAssumption DEF BuildCamera, IndexOK, Pads
<1>2. CASE CameraList[next] \notin enabled
  BY <1>1, <1>2 DEF BuildCamera, SlotsArePads, DisabledLast
<1>3. CASE CameraList[next] \in enabled
  <2>1. /\ idByPad' = Append(idByPad, CameraList[next]) /\ CameraList[next] \in Cameras
        /\ idByPad \in Seq(Cameras)
    BY <1>3 DEF BuildCamera, IndexOK, Cameras
  <2>2. /\ Len(idByPad') = Len(idByPad) + 1
        /\ DOMAIN idByPad' = 1..(Len(idByPad) + 1)
        /\ idByPad'[Len(idByPad) + 1] = CameraList[next]
        /\ \A k \in DOMAIN idByPad : idByPad'[k] = idByPad[k]
    BY <2>1
  <2>3. ASSUME \A q \in Pads : q < next' => CameraList[q] \in enabled
        PROVE  Len(idByPad') = next' - 1
    <3>1. \A q \in Pads : q < next => CameraList[q] \in enabled
      BY <1>1, <2>3
    <3>2. Len(idByPad) = next - 1
      BY <3>1 DEF SlotsArePads
    <3> QED
      BY <1>1, <2>2, <3>2
  <2>4. ASSUME DisabledLast, NEW k \in DOMAIN idByPad' PROVE idByPad'[k] = CameraList[k]
    <3>1. \A q \in Pads : q < next => CameraList[q] \in enabled
      BY <1>1, <1>3, <2>4 DEF DisabledLast
    <3>2. Len(idByPad) + 1 = next
      BY <1>1, <3>1 DEF SlotsArePads
    <3>3. k \in DOMAIN idByPad \/ k = next
      BY <1>1, <2>2, <3>2
    <3> QED
      BY <2>2, <2>4, <3>2, <3>3 DEF SlotsArePads
  <2> QED
    BY <1>1, <2>3, <2>4 DEF SlotsArePads, DisabledLast
<1> QED
  BY <1>2, <1>3

\* What the tap takes of an aligned batch is the frame itself.
LEMMA TapShows ==
    ASSUME AlignInv, Tap, aligned, NEW c \in Cameras
    PROVE  ShowsItself(captured'[c], c)
<1> DEFINE slot(i) == [num |-> batch[i].num, shows |-> Picture(batch[i])]
<1>1. PICK encoded \in SUBSET {i \in DOMAIN batch : /\ batch[i].pad \in DOMAIN idByPad
                                                    /\ batch[i].pad \in DOMAIN batch} :
        captured' = [d \in Cameras |->
              LET tapped == {i \in encoded : idByPad[batch[i].pad] = d}
              IN  IF tapped = {} THEN captured[d]
                  ELSE Append(captured[d], slot(CHOOSE i \in tapped : TRUE))]
  BY DEF Tap
<1> DEFINE tapped == {i \in encoded : idByPad[batch[i].pad] = c}
<1>2. ShowsItself(captured[c], c) /\ captured[c] \in Seq(Stored)
  BY DEF AlignInv, RingsInv, Rings
<1>3. CASE tapped = {}
  BY <1>1, <1>2, <1>3
<1>4. CASE tapped # {}
  <2> DEFINE i == CHOOSE i \in tapped : TRUE
  <2>1. /\ i \in DOMAIN batch /\ batch[i].pad \in DOMAIN idByPad /\ idByPad[batch[i].pad] = c
    BY <1>4
  <2> HIDE DEF i
  <2>2. batch[i].pad = i /\ DisabledLast
    BY <2>1 DEF AlignInv
  <2>3. CameraList[i] = c
    BY <2>1, <2>2 DEF AlignInv, SlotsArePads
  <2>4. slot(i).shows = [cam |-> c, num |-> slot(i).num]
    BY <2>2, <2>3 DEF Picture, FrameOf
  <2>5. captured'[c] = Append(captured[c], slot(i))
    BY <1>1, <1>4 DEF i
  <2> HIDE DEF slot
  <2>6. \A k \in DOMAIN captured'[c] :
            \/ k \in DOMAIN captured[c] /\ captured'[c][k] = captured[c][k]
            \/ captured'[c][k] = slot(i)
    BY <1>2, <2>5
  <2> QED
    BY <1>2, <2>4, <2>6 DEF ShowsItself
<1> QED
  BY <1>3, <1>4

LEMMA AlignStep == AlignInv /\ [Next]_vars => AlignInv'
<1> SUFFICES ASSUME AlignInv, [Next]_vars PROVE AlignInv'
  OBVIOUS
<1>1. RingsInv'
  BY RingsStep DEF AlignInv
<1>2. CASE BuildCamera
  <2>1. IndexOK' /\ SlotsArePads'
    BY <1>2, BuildKeepsIndex, BuildKeepsSlots DEF AlignInv
  <2> QED
    BY <1>1, <1>2, <2>1 DEF AlignInv, BuildCamera, tap, DisabledLast
<1>3. ASSUME NEW b \in Batches, Push(b) PROVE AlignInv'
  <2>1. /\ UNCHANGED index /\ captured' = captured /\ DOMAIN batch' = DOMAIN b
        /\ \A i \in DOMAIN b : batch'[i].pad = b[i]
        /\ aligned' => aligned /\ DisabledLast /\ \A i \in DOMAIN b : b[i] = i
    BY <1>3 DEF Push, DisabledLast
  <2>2. IndexOK' /\ SlotsArePads' /\ DisabledLast' = DisabledLast
    BY <2>1 DEF AlignInv, IndexOK, SlotsArePads, DisabledLast, index
  <2>3. aligned' => \A i \in DOMAIN batch' : DisabledLast' /\ batch'[i].pad = i
    BY <2>1, <2>2
  <2>4. aligned' => \A c \in Cameras : ShowsItself(captured[c], c)'
    BY <2>1 DEF AlignInv, ShowsItself
  <2> QED
    BY <1>1, <2>2, <2>3, <2>4 DEF AlignInv
<1>4. CASE Tap
  <2>1. UNCHANGED <<index, aligned>> /\ batch' = <<>>
    BY <1>4 DEF Tap
  <2>2. IndexOK' /\ SlotsArePads'
    BY <2>1 DEF AlignInv, IndexOK, SlotsArePads, DisabledLast, index
  <2> QED
    BY <1>1, <1>4, <2>1, <2>2, TapShows DEF AlignInv
<1>5. ASSUME UNCHANGED <<index, batch, captured, aligned>> PROVE AlignInv'
  BY <1>1, <1>5 DEF AlignInv, IndexOK, SlotsArePads, DisabledLast, ShowsItself, index
<1>6. CASE Detect \/ (\E m \in queue : Deliver(m) \/ DeliveryFails(m)) \/ UNCHANGED vars
  BY <1>5, <1>6 DEF Detect, Deliver, DeliveryFails, vars, tap
<1> QED
  BY <1>2, <1>3, <1>4, <1>6 DEF Next

\* What is handed out of a ring was captured.
LEMMA WantedIsOne ==
    ASSUME NEW h, h \in Seq(Stored), NEW wanted, Wanted(h, wanted) # None
    PROVE  \E i \in DOMAIN h : Wanted(h, wanted) = h[i]
<1> DEFINE recent == {i \in DOMAIN h : i > Len(h) - Capacity /\ h[i].num = wanted}
<1>1. h # <<>> /\ Len(h) \in Nat /\ DOMAIN h = 1..Len(h)
  BY DEF Wanted
<1>2. CASE wanted = 0 \/ recent = {}
  <2>1. Wanted(h, wanted) = h[Len(h)]
    BY <1>1, <1>2 DEF Wanted
  <2>2. Len(h) \in DOMAIN h
    BY <1>1
  <2> QED
    BY <2>1, <2>2
<1>3. CASE wanted # 0 /\ recent # {}
  <2>1. Wanted(h, wanted) = h[Min(recent)]
    BY <1>1, <1>3 DEF Wanted
  <2>2. recent \in SUBSET Nat /\ recent \subseteq DOMAIN h
    BY <1>1
  <2> HIDE DEF recent
  <2>3. PICK i \in recent : \A j \in recent : ~(j < i)
    BY <1>3, <2>2, SmallestOf
  <2>4. Min(recent) = i
    BY <2>2, <2>3, MinIs
  <2> QED
    BY <2>1, <2>2, <2>3, <2>4
<1> QED
  BY <1>2, <1>3

\* A snapshot shows its camera in the frame of its number, for every list of cameras
\* and every capacity, as long as batches are full and disabled cameras come last.
THEOREM SnapshotsRight == Spec => []RightWhileAligned
<1>1. AlignInv => RightWhileAligned
  <2> SUFFICES ASSUME AlignInv, aligned, NEW c \in Cameras, NEW s \in Handed(c)
               PROVE  s.shows = [cam |-> c, num |-> s.num]
    BY DEF RightWhileAligned
  <2>1. PICK wanted \in 0..MaxFrames : s = Find(rings[c], wanted) /\ s # None
    BY DEF Handed
  <2>2. wanted \in Nat /\ Rings(rings[c], captured[c])
    BY SizesAssumption DEF AlignInv, RingsInv
  <2>3. s = Wanted(captured[c], wanted)
    BY <2>1, <2>2, FindWanted
  <2>4. PICK i \in DOMAIN captured[c] : s = captured[c][i]
    BY <2>1, <2>2, <2>3, WantedIsOne DEF Rings
  <2> QED
    BY <2>4 DEF AlignInv, ShowsItself
<1> QED
  BY <1>1, AlignInit, AlignStep, PTL DEF Spec
-------------------------------------------------------------------------------
(* Types *)

TypeInv == TypeOK /\ CountInv /\ RingsInv

LEMMA TypeInit == Init => TypeInv
<1> SUFFICES ASSUME Init PROVE TypeInv
  OBVIOUS
<1>1. EmptyRing.slots \in [0..(Capacity - 1) -> Stored \cup {None}] /\ EmptyRing.written \in Nat
  BY DEF EmptyRing
<1>2. Len(CameraList) \in Nat
  BY ListAssumption
<1>3. TypeOK
  BY <1>1, <1>2 DEF Init, TypeOK
<1> QED
  BY <1>3, CountInit, RingsInit DEF TypeInv

\* Messages are about frames of cameras.
LEMMA DetectionTyped ==
    ASSUME CountInv, NEW i \in DOMAIN batch, batch[i].pad \in DOMAIN padToSlot
    PROVE  Detection(batch[i]) \in Message
<1>1. /\ padToSlot[batch[i].pad] \in DOMAIN idByPad /\ idByPad \in Seq(Cameras)
  BY DEF CountInv, IndexOK
<1>2. idByPad[padToSlot[batch[i].pad]] \in Cameras
  BY <1>1
<1>3. FrameOf(batch[i]) \in Frame
  BY BatchFields DEF CountInv, FrameOf, Frame
<1> QED
  BY <1>2, <1>3 DEF Detection, Message

\* A ring keeps its type.
LEMMA RingTyped ==
    ASSUME NEW r, NEW s \in Stored,
           r.slots \in [0..(Capacity - 1) -> Stored \cup {None}], r.written \in Nat
    PROVE  /\ RingPush(r, s).slots \in [0..(Capacity - 1) -> Stored \cup {None}]
           /\ RingPush(r, s).written \in Nat
BY SizesAssumption DEF RingPush

LEMMA TapTyped ==
    ASSUME TypeInv, Tap, NEW c \in Cameras
    PROVE  rings'[c].slots \in [0..(Capacity - 1) -> Stored \cup {None}] /\ rings'[c].written \in Nat
<1>1. \/ rings'[c] = rings[c]
      \/ \E s \in Stored : rings'[c] = RingPush(rings[c], s)
  BY TapPushes DEF TypeInv
<1>2. /\ rings[c].slots \in [0..(Capacity - 1) -> Stored \cup {None}]
      /\ rings[c].written \in Nat
  BY DEF TypeInv, TypeOK
<1> QED
  BY <1>1, <1>2, RingTyped

LEMMA TypeStep == TypeInv /\ [Next]_vars => TypeInv'
<1> SUFFICES ASSUME TypeInv, [Next]_vars PROVE TypeOK'
  BY CountStep, RingsStep DEF TypeInv
<1>1. CountInv' /\ RingsInv'
  BY CountStep, RingsStep DEF TypeInv
<1>2. /\ (idByPad \in Seq(Cameras))' /\ (DOMAIN padToSlot \subseteq Pads)'
      /\ (\A p \in DOMAIN padToSlot : padToSlot[p] \in DOMAIN idByPad)'
      /\ (batch \in Seq([pad : Pads, num : Nat]))' /\ (frames \in [Cameras -> Nat])'
      /\ (stats \in [Cameras -> [frames : Nat, fails : Nat]])' /\ (warned \in [Cameras -> Nat])'
      /\ (\A c \in Cameras : captured[c] \in Seq(Stored))'
  BY <1>1 DEF CountInv, RingsInv, BatchOK, IndexOK, Rings
<1>3. CASE BuildCamera
  <2>1. next' \in 1..(Len(CameraList) + 1)
    <3>1. CameraList \in Seq(Cameras)
      BY ListAssumption
    <3>2. Len(CameraList) \in Nat /\ Pads = 1..Len(CameraList)
      BY <3>1 DEF Pads
    <3> QED
      BY <1>3, <3>2 DEF BuildCamera
  <2> QED
    BY <1>2, <1>3, <2>1 DEF BuildCamera, TypeInv, TypeOK, kafka, tap
<1>4. ASSUME NEW b \in Batches, Push(b) PROVE TypeOK'
  BY <1>2, <1>4 DEF Push, TypeInv, TypeOK, index, kafka
<1>5. CASE Detect
  <2>1. queue' \subseteq Message
    <3>1. \A m \in queue' : m \in queue \/ \E i \in DOMAIN batch :
              batch[i].pad \in DOMAIN padToSlot /\ m = Detection(batch[i])
      BY <1>5 DEF Detect, Publish
    <3> QED
      BY <3>1, DetectionTyped DEF TypeInv, TypeOK
  <2> QED
    BY <1>2, <1>5, <2>1 DEF Detect, TypeInv, TypeOK, index, tap
<1>6. CASE Tap
  BY <1>2, <1>6, TapTyped DEF Tap, TypeInv, TypeOK, index, kafka
<1>7. ASSUME NEW m \in queue, Deliver(m) \/ DeliveryFails(m) PROVE TypeOK'
  BY <1>2, <1>7 DEF Deliver, DeliveryFails, TypeInv, TypeOK, index, tap
<1>8. CASE UNCHANGED vars
  BY <1>2, <1>8 DEF vars, TypeInv, TypeOK, index, kafka, tap
<1> QED
  BY <1>3, <1>4, <1>5, <1>6, <1>7, <1>8 DEF Next

\* The type invariant, for every configuration, queue and ring.
THEOREM TypeCorrect == Spec => []TypeOK
<1>1. TypeInv => TypeOK
  BY DEF TypeInv
<1> QED
  BY <1>1, TypeInit, TypeStep, PTL DEF Spec
===============================================================================
