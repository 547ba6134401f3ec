------------------------------- MODULE FrameTap -------------------------------
(***************************************************************************)
(* From the cameras to the detections and the frame rings: cpp-deepstream  *)
(* (pipeline.cpp, detection_probe.cpp, snapshot_tap.cpp, kafka_producer.cpp). *)
(*                                                                         *)
(* A camera has three numbers.  Its pad is its place in the configuration, *)
(* its slot its place among the enabled cameras, and its surface the place *)
(* of its frame in a batch.  The streaming thread takes a batch through    *)
(* two probes: the first publishes the detections of each frame, the       *)
(* second puts a JPEG of it into the ring of its camera, from which the    *)
(* request thread (OcrPipeline) takes the snapshots.                       *)
(*                                                                         *)
(* Pads, slots and surfaces are counted from 1 here and from 0 in the code. *)
(* The model is one run of the process: a restart keeps nothing.           *)
(***************************************************************************)
EXTENDS Integers, Sequences, FiniteSets, FiniteSetsExt

CONSTANTS
    CameraList,     \* cfg.cameras, enabled or not
    None,           \* no frame
    Capacity,       \* FrameRing::CAPACITY
    MaxQueue,       \* queue.buffering.max.messages
    InOrder,        \* nvstreammux keeps the order of the pads in a batch
    MaxFrames       \* bound of a run

Pads    == DOMAIN CameraList
Cameras == {CameraList[p] : p \in Pads}

\* load_runtime_cfg refuses a duplicate id.
ASSUME ListAssumption ==
    /\ CameraList \in Seq(Cameras)
    /\ \A p, q \in Pads : CameraList[p] = CameraList[q] => p = q
ASSUME SizesAssumption == Capacity \in Nat \ {0} /\ {MaxQueue, MaxFrames} \subseteq Nat /\ InOrder \in BOOLEAN

VARIABLES
    enabled,    \* the cameras that the configuration enables
    next,       \* the camera build() comes to next; behind the last one, it runs
    idByPad,    \* CameraIndex.id_by_pad: in spite of its name, indexed by slot
    padToSlot,  \* CameraIndex.pad_to_slot
    frames,     \* the number of frames that a camera has sent
    batch,      \* the frames of the buffer that is in the probes, by surface
    probe,      \* the probe that is next: "none", "detection" or "tap"
    stats,      \* ProbeStats of a camera: its frames and produce_fails
    warned,     \* messages of a camera of whose loss dr_cb has warned
    queue,      \* messages in the queue of the producer
    topic,      \* messages in the topic detections
    rings,      \* SnapshotTap.rings_
    captured,   \* everything that was pushed into them (history)
    aligned     \* surfaces have been pads, and slots too (history)

index == <<enabled, next, idByPad, padToSlot>>
kafka == <<stats, warned, queue, topic>>
tap   == <<rings, captured, aligned>>
vars  == <<index, frames, batch, probe, kafka, tap>>

-------------------------------------------------------------------------------
(* State *)

\* A frame of a camera; a message that names a sensor, about a frame; and what is
\* stored under a frame number, with the frame that it shows.
Frame    == [cam : Cameras, num : Nat]
Message  == [sensor : Cameras, of : Frame]
Stored   == [num : Nat, shows : Frame]

EmptyRing == [slots |-> [i \in 0..(Capacity - 1) |-> None], written |-> 0]

Init ==
    /\ enabled \in SUBSET Cameras
    /\ next = 1 /\ idByPad = <<>> /\ padToSlot = <<>>
    /\ frames = [c \in Cameras |-> 0]
    /\ batch = <<>> /\ probe = "none"
    /\ stats = [c \in Cameras |-> [frames |-> 0, fails |-> 0]]
    /\ warned = [c \in Cameras |-> 0]
    /\ queue = {} /\ topic = {}
    /\ rings = [c \in Cameras |-> EmptyRing]
    /\ captured = [c \in Cameras |-> <<>>]
    /\ aligned = TRUE

-------------------------------------------------------------------------------
(* Pipeline::build *)

\* Mutant of BuildCamera: the slot of a pad is size() and not size() - 1.
BuildCameraShifted ==
    /\ next \in Pads
    /\ next' = next + 1
    /\ IF CameraList[next] \in enabled
       THEN /\ idByPad' = Append(idByPad, CameraList[next])
            /\ padToSlot' = [p \in DOMAIN padToSlot \cup {next} |->
                                IF p = next THEN Len(idByPad) + 2 ELSE padToSlot[p]]
       ELSE UNCHANGED <<idByPad, padToSlot>>
    /\ UNCHANGED <<enabled, frames, batch, probe, kafka, tap>>

\* An iteration of the loop over cfg.cameras.
BuildCamera ==
    /\ next \in Pads
    /\ next' = next + 1
    /\ IF CameraList[next] \in enabled
       THEN /\ idByPad' = Append(idByPad, CameraList[next])
            /\ padToSlot' = [p \in DOMAIN padToSlot \cup {next} |->
                                IF p = next THEN Len(idByPad) + 1 ELSE padToSlot[p]]
       ELSE UNCHANGED <<idByPad, padToSlot>>
    /\ UNCHANGED <<enabled, frames, batch, probe, kafka, tap>>

-------------------------------------------------------------------------------
(* The streaming thread *)

\* The pads with a source bin, in an order in which their frames may be in a batch.
Batches == {b \in UNION {[1..n -> Pads] : n \in 1..Len(CameraList)} :
               /\ \A i \in DOMAIN b : CameraList[b[i]] \in enabled
               /\ \A i, j \in DOMAIN b : i < j => IF InOrder THEN b[i] < b[j] ELSE b[i] # b[j]}

\* nvstreammux pushes a buffer: the cameras that were in time, in any order.
Push(b) ==
    /\ next = Len(CameraList) + 1 /\ probe = "none"
    /\ \A i \in DOMAIN b : frames[CameraList[b[i]]] < MaxFrames
    /\ batch' = [i \in DOMAIN b |-> [pad |-> b[i], num |-> frames[CameraList[b[i]]]]]
    /\ frames' = [c \in Cameras |->
                     IF \E i \in DOMAIN b : CameraList[b[i]] = c THEN frames[c] + 1 ELSE frames[c]]
    /\ aligned' = (aligned /\ (\A i \in DOMAIN b : b[i] = i)
                           /\ \A p, q \in Pads :
                                 q <= p /\ CameraList[p] \in enabled => CameraList[q] \in enabled)
    /\ probe' = "detection"
    /\ UNCHANGED <<index, kafka, rings, captured>>

FrameOf(f) == [cam |-> CameraList[f.pad], num |-> f.num]

\* Mutant of Detection: id_by_pad is what its name says.
DetectionByPad(f) == [sensor |-> IF f.pad <= Len(idByPad) THEN idByPad[f.pad] ELSE CameraList[1],
                      of |-> FrameOf(f)]

\* What DetectionProbe makes of a frame: the camera is found by pad and slot.
Detection(f) == [sensor |-> idByPad[padToSlot[f.pad]], of |-> FrameOf(f)]

\* Mutant of Publish: what produce_json returns is ignored.
PublishUnchecked(sent, dropped) ==
    /\ queue' = queue \cup sent
    /\ stats' = [c \in Cameras |->
                    [stats[c] EXCEPT !.frames = @ + Cardinality({m \in sent \cup dropped : m.sensor = c})]]

\* produce_json: the queue takes a message, or it is counted as failed.
Publish(sent, dropped) ==
    /\ queue' = queue \cup sent
    /\ stats' = [c \in Cameras |->
          [frames |-> stats[c].frames + Cardinality({m \in sent \cup dropped : m.sensor = c}),
           fails  |-> stats[c].fails + Cardinality({m \in dropped : m.sensor = c})]]

\* DetectionProbe::on_buffer.  Another thread drains the queue meanwhile: any of
\* the messages may be the ones that find it full.
Detect ==
    /\ probe = "detection" /\ probe' = "tap"
    /\ LET messages == {Detection(batch[i]) : i \in {j \in DOMAIN batch :
                                                        batch[j].pad \in DOMAIN padToSlot}}
       IN \E sent \in SUBSET messages :
             /\ Cardinality(queue \cup sent) <= MaxQueue
             /\ Publish(sent, messages \ sent)
    /\ UNCHANGED <<index, frames, batch, warned, topic, tap>>

\* Mutant of RingPush: the index is advanced before it is used.
RingPushLate(r, s) ==
    [slots |-> [r.slots EXCEPT ![(r.written + 1) % Capacity] = s], written |-> r.written + 1]

\* FrameRing::push
RingPush(r, s) ==
    [slots |-> [r.slots EXCEPT ![r.written % Capacity] = s], written |-> r.written + 1]

\* Mutant of Picture: the first surface is encoded for every frame.
PictureOfFirst(f) == FrameOf(batch[1])

\* encode_frame_: the surface is looked up by source_id, which is the pad.
Picture(f) == FrameOf(batch[f.pad])

\* SnapshotTap::on_buffer.  pad_to_camera_ is id_by_pad, looked up by pad; a
\* surface may fail to be encoded, and one behind the last does not exist.
Tap ==
    /\ probe = "tap" /\ probe' = "none" /\ batch' = <<>>
    /\ \E encoded \in SUBSET {i \in DOMAIN batch : /\ batch[i].pad \in DOMAIN idByPad
                                                   /\ batch[i].pad \in DOMAIN batch} :
          LET tapped(c)  == {i \in encoded : idByPad[batch[i].pad] = c}
              slot(i)    == [num |-> batch[i].num, shows |-> Picture(batch[i])]
              newSlot(c) == slot(CHOOSE i \in tapped(c) : TRUE)
          IN /\ rings' = [c \in Cameras |-> IF tapped(c) = {} THEN rings[c]
                                            ELSE RingPush(rings[c], newSlot(c))]
             /\ captured' = [c \in Cameras |-> IF tapped(c) = {} THEN captured[c]
                                               ELSE Append(captured[c], newSlot(c))]
    /\ UNCHANGED <<index, frames, kafka, aligned>>

-------------------------------------------------------------------------------
(* The poll thread of the producer *)

Deliver(m) ==
    /\ m \in queue
    /\ queue' = queue \ {m} /\ topic' = topic \cup {m}
    /\ UNCHANGED <<index, frames, batch, probe, stats, warned, tap>>

\* A message that was not delivered in time: dr_cb warns, and that is all.
DeliveryFails(m) ==
    /\ m \in queue
    /\ queue' = queue \ {m}
    /\ warned' = [warned EXCEPT ![m.sensor] = @ + 1]
    /\ UNCHANGED <<index, frames, batch, probe, stats, topic, tap>>

-------------------------------------------------------------------------------
Next ==
    \/ BuildCamera
    \/ \E b \in Batches : Push(b)
    \/ Detect \/ Tap
    \/ \E m \in queue : Deliver(m) \/ DeliveryFails(m)

Spec == Init /\ [][Next]_vars

-------------------------------------------------------------------------------
(* FrameRing::find_or_latest *)

\* The slot of frame wanted, unless it is 0; else the newest slot.
Find(r, wanted) ==
    LET first == IF r.written < Capacity THEN 0 ELSE r.written - Capacity
        exact == {i \in first..(r.written - 1) : r.slots[i % Capacity].num = wanted}
    IN IF r.written = 0 THEN None
       ELSE IF wanted # 0 /\ exact # {}
       THEN r.slots[Min(exact) % Capacity]
       ELSE r.slots[(r.written - 1) % Capacity]

-------------------------------------------------------------------------------
(* Properties *)

\* Types of all variables.
TypeOK ==
    /\ enabled \subseteq Cameras
    /\ next \in 1..(Len(CameraList) + 1)
    /\ idByPad \in Seq(Cameras)
    /\ DOMAIN padToSlot \subseteq Pads
    /\ \A p \in DOMAIN padToSlot : padToSlot[p] \in DOMAIN idByPad
    /\ frames \in [Cameras -> Nat]
    /\ batch \in Seq([pad : Pads, num : Nat])
    /\ probe \in {"none", "detection", "tap"}
    /\ stats \in [Cameras -> [frames : Nat, fails : Nat]]
    /\ warned \in [Cameras -> Nat]
    /\ queue \subseteq Message /\ topic \subseteq Message
    /\ \A c \in Cameras : /\ rings[c].slots \in [0..(Capacity - 1) -> Stored \cup {None}]
                          /\ rings[c].written \in Nat
                          /\ captured[c] \in Seq(Stored)
    /\ aligned \in BOOLEAN

\* Detections are published as those of the camera that took the frame, with any
\* cameras disabled and whatever a batch holds.
DetectionNamesCamera == \A m \in queue \cup topic : m.sensor = m.of.cam

\* Every frame that went through the probe is in the topic or the queue, or is
\* counted: in produce_fails, or by a warning of dr_cb.
DropsCounted ==
    \A c \in Cameras :
        stats[c].frames = Cardinality({m \in queue \cup topic : m.sensor = c})
                          + stats[c].fails + warned[c]

\* What find_or_latest promises of what has been captured: the frame that is
\* wanted if it is among the last Capacity ones, the newest one otherwise.
Wanted(slots, wanted) ==
    LET recent == {i \in DOMAIN slots : i > Len(slots) - Capacity /\ slots[i].num = wanted}
    IN IF slots = <<>> THEN None
       ELSE IF wanted = 0 \/ recent = {} THEN slots[Len(slots)]
       ELSE slots[Min(recent)]

\* The ring hands out what was captured, also once it has wrapped around.
RingFindsCaptured ==
    \A c \in Cameras, wanted \in 0..MaxFrames :
        Find(rings[c], wanted) = Wanted(captured[c], wanted)

Handed(c) == {Find(rings[c], wanted) : wanted \in 0..MaxFrames} \ {None}

\* A snapshot of camera c shows camera c.
SnapshotOfCamera == \A c \in Cameras : \A s \in Handed(c) : s.shows.cam = c

\* As long as batches are full and in the order of the configuration, and disabled
\* cameras come last in it, a snapshot shows its camera, in the frame of its number.
RightWhileAligned ==
    aligned => \A c \in Cameras : \A s \in Handed(c) : s.shows = [cam |-> c, num |-> s.num]
===============================================================================
