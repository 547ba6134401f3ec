----------------------------- MODULE OcrPipeline -----------------------------
(***************************************************************************)
(* How a CVI gets its plate: the round trip of a snapshot request.         *)
(*                                                                         *)
(*   violation-service  snapshot_requests   (poll loop of the requester)   *)
(*   cpp-deepstream     snapshot_responses  (crop into the shared volume)  *)
(*   snapshot-consumer  snapshot_stored     (upload to MinIO, unlink)      *)
(*   violation-service  ocr_requests        (stored loop of the requester) *)
(*   plate-service      ocr_results                                        *)
(*   violation-service  a vote for the plate of the CVI                    *)
(*                                                                         *)
(* Every consumer handles a message, then commits its offset; a failed     *)
(* commit is swallowed.  After a crash of its process, or a rebalance of   *)
(* its group, it starts again behind the last offset committed.  (A group  *)
(* that never committed, and reads from the end then, is not modelled.)    *)
(***************************************************************************)
EXTENDS Naturals, Functions, PlateVotes

CONSTANTS
    Cvis,             \* cvi_ids; each is handed out at most once (uuid4)
    Requests,         \* request_ids of snapshot requests (uuid4)
    MaxAttempts,      \* max_attempts_per_cvi
    SendOutcomes,     \* what publishing may do: "ok", "refused", "lost" (ack)
    PutOutcomes,      \* what an upload to MinIO may do, likewise
    RecogniserRaises, \* TRUE: the recogniser may raise instead of reading
    Crashable,        \* the processes that may die
    Stoppable,        \* the processes that may get a SIGTERM
    Rebalanced,       \* the topics whose consumer group may be rebalanced
    MaxFaults         \* bound of a run: crashes and rebalances

Topics    == {"requests", "responses", "stored", "ocrRequests", "ocrResults"}
Processes == {"deepstream", "uploader", "violation", "plate"}

ASSUME OutcomesAssumption ==
    /\ "ok" \in SendOutcomes /\ SendOutcomes \subseteq {"ok", "refused", "lost"}
    /\ "ok" \in PutOutcomes /\ PutOutcomes \subseteq {"ok", "refused", "lost"}
    /\ RecogniserRaises \in BOOLEAN
ASSUME FaultsAssumption ==
    /\ Crashable \subseteq Processes /\ Rebalanced \subseteq Topics
    /\ Stoppable \subseteq {"uploader", "plate"}
    /\ MaxFaults \in Nat /\ MaxAttempts \in Nat
ASSUME NoneAssumption == None \notin Cvis \cup Requests

VARIABLES
    log,       \* the messages of a topic behind the committed offsets
    done,      \* those of them that were handled
    sent,      \* how many messages about a request a topic has had
    files,     \* crops on the shared volume
    objects,   \* crops in MinIO
    job,       \* the response snapshot-consumer works on, or None
    live,      \* CVIManager._cvis
    created,   \* the cvi_ids handed out so far
    ballot,    \* CVI.plate_votes, in order of arrival
    plate,     \* CVI.plate_text
    poll,      \* the pass of the poll loop over its candidates
    pending,   \* PlateOCRRequester._pending: the CVI a request is for
    attempts,  \* PlateOCRRequester._attempts_count
    faults     \* crashes and rebalances so far, for MaxFaults only

kafkaVars   == <<log, done, sent>>
storageVars == <<files, objects, job>>
cviVars     == <<live, created, ballot, plate>>
askVars     == <<poll, pending, attempts>>
vars == <<kafkaVars, storageVars, cviVars, askVars, faults>>

-------------------------------------------------------------------------------
(* Messages.  A copy is told from the earlier ones about the same request, *)
(* which its key keeps in order.  What a message says of its request:      *)
(* "ok"/"failed" (a crop, or any other status), or the plate that was read.*)

Messages == [req : Requests, copy : Nat \ {0}, cvi : Cvis \cup {None},
             body : {"ok", "failed", None} \cup Plates]

Publish(t, r, c, body, outcome) ==
    IF outcome = "refused" THEN UNCHANGED <<log, sent>>
    ELSE /\ log' = [log EXCEPT ![t] =
                      @ \cup {[req |-> r, copy |-> sent[t][r] + 1, cvi |-> c, body |-> body]}]
         /\ sent' = [sent EXCEPT ![t][r] = @ + 1]

\* The messages a consumer may get next, from one partition or another.
Unhandled(t) == log[t] \ done[t]
Ready(t) == {m \in Unhandled(t) :
                \A n \in Unhandled(t) : n.req = m.req => m.copy <= n.copy}

Handled(t, m) == done' = [done EXCEPT ![t] = @ \cup {m}]

\* commit: what was handled will not come again.
Commit(t) ==
    /\ done[t] # {}
    /\ log' = [log EXCEPT ![t] = @ \ done[t]]
    /\ done' = [done EXCEPT ![t] = {}]
    /\ UNCHANGED <<sent, storageVars, cviVars, askVars, faults>>

NoPass == [todo |-> {}, cvi |-> None, req |-> None]

Init ==
    /\ log = [t \in Topics |-> {}] /\ done = [t \in Topics |-> {}]
    /\ sent = [t \in Topics |-> [r \in Requests |-> 0]]
    /\ files = {} /\ objects = {} /\ job = None
    /\ live = {} /\ created = {}
    /\ ballot = [c \in Cvis |-> <<>>] /\ plate = [c \in Cvis |-> None]
    /\ poll = NoPass
    /\ pending = [r \in Requests |-> None]
    /\ attempts = [c \in Cvis |-> 0]
    /\ faults = 0

-------------------------------------------------------------------------------
(* violation-service: CVIs and the poll loop (plate_ocr_requester.py) *)

Appear(c) ==
    /\ c \notin created
    /\ live' = live \cup {c} /\ created' = created \cup {c}
    /\ UNCHANGED <<kafkaVars, storageVars, ballot, plate, askVars, faults>>

\* The attempts of an evicted CVI are kept.
Evict(c) ==
    /\ c \in live
    /\ live' = live \ {c}
    /\ UNCHANGED <<kafkaVars, storageVars, created, ballot, plate, askVars, faults>>

\* _select_candidates; which CVIs are in a zone, and last asked for longer ago
\* than the attempt gap, is left open.
SelectCandidates ==
    /\ poll = NoPass
    /\ \E cvis \in SUBSET {c \in live : plate[c] = None /\ attempts[c] < MaxAttempts} :
         /\ cvis # {}
         /\ poll' = [poll EXCEPT !.todo = cvis]
    /\ UNCHANGED <<kafkaVars, storageVars, cviVars, pending, attempts, faults>>

\* The request goes out; if publishing raises the CVI is passed over.
SendRequest(c, r) ==
    /\ poll.req = None /\ c \in poll.todo /\ sent["requests"][r] = 0
    /\ \E o \in SendOutcomes :
         /\ Publish("requests", r, None, None, o)
         /\ poll' = IF o = "ok" THEN [poll EXCEPT !.cvi = c, !.req = r]
                    ELSE [poll EXCEPT !.todo = @ \ {c}]
    /\ UNCHANGED <<done, storageVars, cviVars, pending, attempts, faults>>

\* Behind two awaits it is entered into _pending.
Register ==
    /\ poll.req # None
    /\ pending' = [pending EXCEPT ![poll.req] = poll.cvi]
    /\ attempts' = [attempts EXCEPT ![poll.cvi] = @ + 1]
    /\ poll' = [NoPass EXCEPT !.todo = poll.todo \ {poll.cvi}]
    /\ UNCHANGED <<kafkaVars, storageVars, cviVars, faults>>

-------------------------------------------------------------------------------
(* cpp-deepstream: the request loop (snapshot_consumer.cpp) *)

\* A frame is found and its crop written, or a terminal status is sent.
AnswerRequest(m) ==
    /\ m \in Ready("requests")
    /\ \E body \in {"ok", "failed"}, o \in SendOutcomes :
         /\ files' = IF body = "ok" THEN files \cup {m.req} ELSE files
         /\ Publish("responses", m.req, None, body, o)
    /\ Handled("requests", m)
    /\ UNCHANGED <<objects, job, cviVars, askVars, faults>>

-------------------------------------------------------------------------------
(* snapshot-consumer (main.py consume, uploader.py handle) *)

Job(m, next, result) == [msg |-> m, next |-> next, result |-> result]
Jobs == [msg : Messages, next : {"unlink", "announce"}, result : {"ok", "failed"}]

\* Mutant of UploadSnapshot: the offset is committed before the message is handled.
UploadCommitted(m) ==
    /\ job = None /\ m \in Ready("responses")
    /\ job' = Job(m, "announce", IF m.req \in files THEN "ok" ELSE "failed")
    /\ log' = [log EXCEPT !["responses"] = @ \ {m}]
    /\ UNCHANGED <<done, sent, files, objects, cviVars, askVars, faults>>

\* Mutant of UploadSnapshot: an exception of the upload is only logged.
UploadUnchecked(m) ==
    /\ job = None /\ m \in Ready("responses")
    /\ IF m.body = "ok" /\ m.req \in files
       THEN /\ objects' \in {objects, objects \cup {m.req}}
            /\ job' = Job(m, "unlink", "ok")
       ELSE job' = Job(m, "announce", "failed") /\ objects' = objects
    /\ UNCHANGED <<kafkaVars, files, cviVars, askVars, faults>>

\* The crop is uploaded; a request that failed, or whose file is gone, is not.
UploadSnapshot(m) ==
    /\ job = None /\ m \in Ready("responses")
    /\ IF m.body = "ok" /\ m.req \in files
       THEN \E o \in PutOutcomes :
              /\ objects' = IF o = "refused" THEN objects ELSE objects \cup {m.req}
              /\ job' = IF o = "ok" THEN Job(m, "unlink", "ok") ELSE Job(m, "announce", "failed")
       ELSE job' = Job(m, "announce", "failed") /\ objects' = objects
    /\ UNCHANGED <<kafkaVars, files, cviVars, askVars, faults>>

\* The local file is removed, if that is possible.
UnlinkFile ==
    /\ job # None /\ job.next = "unlink"
    /\ files' \in {files, files \ {job.msg.req}}
    /\ job' = [job EXCEPT !.next = "announce"]
    /\ UNCHANGED <<kafkaVars, objects, cviVars, askVars, faults>>

\* _publish_stored, which swallows its errors.
Announce ==
    /\ job # None /\ job.next = "announce"
    /\ \E o \in SendOutcomes : Publish("stored", job.msg.req, None, job.result, o)
    /\ Handled("responses", job.msg)
    /\ job' = None
    /\ UNCHANGED <<files, objects, cviVars, askVars, faults>>

-------------------------------------------------------------------------------
(* violation-service: the stored loop and the votes *)

\* Mutant of HandleStored: the entry of _pending is read, not popped.
HandleStoredKeeps(m) ==
    /\ m \in Ready("stored")
    /\ IF pending[m.req] # None /\ m.body = "ok"
       THEN \E o \in SendOutcomes : Publish("ocrRequests", m.req, pending[m.req], None, o)
       ELSE UNCHANGED <<log, sent>>
    /\ Handled("stored", m)
    /\ UNCHANGED <<storageVars, cviVars, askVars, faults>>

\* _handle_snapshot_stored: the crop is fetched and sent to plate-service.  A
\* fetch that fails is a refused publication.
HandleStored(m) ==
    /\ m \in Ready("stored")
    /\ pending' = [pending EXCEPT ![m.req] = None]
    /\ IF pending[m.req] # None /\ m.body = "ok"
       THEN \E o \in SendOutcomes : Publish("ocrRequests", m.req, pending[m.req], None, o)
       ELSE UNCHANGED <<log, sent>>
    /\ Handled("stored", m)
    /\ UNCHANGED <<storageVars, cviVars, poll, attempts, faults>>

PlatesOf(votes) == [i \in DOMAIN votes |-> votes[i].plate]

\* Mutant of CountVote: a null result is a vote too.
CountNull(m) ==
    /\ m \in Ready("ocrResults")
    /\ IF m.cvi \in live
       THEN ballot' = [ballot EXCEPT ![m.cvi] = Append(@, [req |-> m.req, plate |-> m.body])]
       ELSE UNCHANGED ballot
    /\ Handled("ocrResults", m)
    /\ UNCHANGED <<log, sent, storageVars, live, created, plate, askVars, faults>>

\* apply_ocr_result, where a null result and an unknown CVI are no vote.
CountVote(m) ==
    LET c == m.cvi
        votes == Append(ballot[c], [req |-> m.req, plate |-> m.body])
    IN
    /\ m \in Ready("ocrResults")
    /\ IF c \in live /\ m.body # None
       THEN /\ ballot' = [ballot EXCEPT ![c] = votes]
            /\ plate' = [plate EXCEPT ![c] =
                           PlateAfter(PlatesOf(votes), @)]
       ELSE UNCHANGED <<ballot, plate>>
    /\ Handled("ocrResults", m)
    /\ UNCHANGED <<log, sent, storageVars, live, created, askVars, faults>>

-------------------------------------------------------------------------------
(* plate-service (main.py consume, processor.py handle) *)

\* Mutant of Recognise: only an accepted plate is published.
RecogniseAccepted(m) ==
    /\ m \in Ready("ocrRequests")
    /\ \/ \E p \in Plates, o \in SendOutcomes : Publish("ocrResults", m.req, m.cvi, p, o)
       \/ UNCHANGED <<log, sent>>
    /\ Handled("ocrRequests", m)
    /\ UNCHANGED <<storageVars, cviVars, askVars, faults>>

\* One result for every request, a null one if no plate is accepted; nothing
\* if the recogniser or the publication raises.
Recognise(m) ==
    /\ m \in Ready("ocrRequests")
    /\ \/ \E p \in Plates \cup {None}, o \in SendOutcomes :
            Publish("ocrResults", m.req, m.cvi, p, o)
       \/ RecogniserRaises /\ UNCHANGED <<log, sent>>
    /\ Handled("ocrRequests", m)
    /\ UNCHANGED <<storageVars, cviVars, askVars, faults>>

-------------------------------------------------------------------------------
(* Faults.  A process that ends is restarted by docker. *)

Fault == faults < MaxFaults /\ faults' = faults + 1

\* The consumers of these topics start again behind the committed offset.
Again(topics) == done' = [t \in Topics |-> IF t \in topics THEN {} ELSE done[t]]

\* A rebalance in the middle of a message is one behind it: the position is
\* reset, and the commit that follows commits nothing new.
Rebalance(t) ==
    /\ Fault /\ t \in Rebalanced /\ done[t] # {} /\ (t = "responses" => job = None)
    /\ Again({t})
    /\ UNCHANGED <<log, sent, storageVars, cviVars, askVars>>

CrashDeepStream ==
    /\ Fault /\ "deepstream" \in Crashable
    /\ Again({"requests"})
    /\ UNCHANGED <<log, sent, storageVars, cviVars, askVars>>

CrashUploader ==
    /\ Fault /\ "uploader" \in Crashable
    /\ Again({"responses"})
    /\ job' = None
    /\ UNCHANGED <<log, sent, files, objects, cviVars, askVars>>

\* SIGTERM: the consumer task is cancelled in the middle of a message, and its
\* finally clause commits the offset of that message.
Abandon(t, m) ==
    /\ log' = [log EXCEPT ![t] = @ \ (done[t] \cup {m})]
    /\ done' = [done EXCEPT ![t] = {}]

StopUploader ==
    /\ Fault /\ "uploader" \in Stoppable
    /\ job # None
    /\ Abandon("responses", job.msg)
    /\ job' = None
    /\ UNCHANGED <<sent, files, objects, cviVars, askVars>>

StopPlate(m) ==
    /\ Fault /\ "plate" \in Stoppable
    /\ m \in Ready("ocrRequests")
    /\ Abandon("ocrRequests", m)
    /\ UNCHANGED <<sent, storageVars, cviVars, askVars>>

CrashPlate ==
    /\ Fault /\ "plate" \in Crashable
    /\ Again({"ocrRequests"})
    /\ UNCHANGED <<log, sent, storageVars, cviVars, askVars>>

CrashViolation ==
    /\ Fault /\ "violation" \in Crashable
    /\ Again({"stored", "ocrResults"})
    /\ live' = {}
    /\ ballot' = [c \in Cvis |-> <<>>] /\ plate' = [c \in Cvis |-> None]
    /\ poll' = NoPass
    /\ pending' = [r \in Requests |-> None]
    /\ attempts' = [c \in Cvis |-> 0]
    /\ UNCHANGED <<log, sent, storageVars, created>>

-------------------------------------------------------------------------------
PollLoop   == Register \/ \E c \in Cvis, r \in Requests : SendRequest(c, r)
DeepStream == \E m \in log["requests"] : AnswerRequest(m)
Uploader   == UnlinkFile \/ Announce \/ \E m \in log["responses"] : UploadSnapshot(m)
StoredLoop == \E m \in log["stored"] : HandleStored(m)
Plate      == \E m \in log["ocrRequests"] : Recognise(m)
Voter      == \E m \in log["ocrResults"] : CountVote(m)

Next ==
    \/ \E c \in Cvis : Appear(c) \/ Evict(c)
    \/ SelectCandidates \/ PollLoop \/ DeepStream \/ Uploader \/ StoredLoop \/ Plate \/ Voter
    \/ \E t \in Topics : Commit(t) \/ Rebalance(t)
    \/ CrashDeepStream \/ CrashUploader \/ CrashPlate \/ CrashViolation
    \/ StopUploader \/ \E m \in log["ocrRequests"] : StopPlate(m)

Spec == Init /\ [][Next]_vars

\* Every loop goes on with its next message; nothing is assumed of commits.
FairSpec ==
    /\ Spec
    /\ WF_vars(PollLoop) /\ WF_vars(DeepStream) /\ WF_vars(Uploader)
    /\ WF_vars(StoredLoop) /\ WF_vars(Plate) /\ WF_vars(Voter)

-------------------------------------------------------------------------------
(* Properties *)

\* Types of all variables.
TypeOK ==
    /\ log \in [Topics -> SUBSET Messages] /\ done \in [Topics -> SUBSET Messages]
    /\ \A t \in Topics : done[t] \subseteq log[t]
    /\ sent \in [Topics -> [Requests -> Nat]]
    /\ files \subseteq Requests /\ objects \subseteq Requests
    /\ job \in Jobs \cup {None}
    /\ live \subseteq created /\ created \subseteq Cvis
    /\ ballot \in [Cvis -> Seq([req : Requests, plate : Plates])]
    /\ plate \in [Cvis -> Plates \cup {None}]
    /\ poll \in [todo : SUBSET Cvis, cvi : Cvis \cup {None}, req : Requests \cup {None}]
    /\ pending \in [Requests -> Cvis \cup {None}]
    /\ attempts \in [Cvis -> Nat]
    /\ faults \in Nat

\* A snapshot request leads to one OCR request at most, however often the
\* messages in between are delivered.
OneOcrRequestPerSnapshot == \A r \in Requests : sent["ocrRequests"][r] <= 1

\* The requests whose snapshots gave the votes of c for plate p.
Snapshots(c, p) ==
    {r \in Requests : \E i \in DOMAIN ballot[c] : ballot[c][i] = [req |-> r, plate |-> p]}

\* A plate is elected by readings of different snapshots ("a repeat of the same
\* plate only inflates the count, not the plate_text resolution logic").
DistinctReadings ==
    \A c \in live : plate[c] # None => Cardinality(Snapshots(c, plate[c])) >= Majority

\* No crop is lost on its way: one that cpp-deepstream reports is on the shared
\* volume or in MinIO, and one that snapshot-consumer announces is in MinIO, where
\* _handle_snapshot_stored fetches it - whoever dies between upload, unlink,
\* announcement and commit, and whatever an upload that raises has stored.
CropsKept ==
    /\ \A m \in log["responses"] : m.body = "ok" => m.req \in files \cup objects
    /\ \A m \in log["stored"] : m.body = "ok" => m.req \in objects

\* The answer to a request is passed on in the end, whoever dies meanwhile.
ResponseAnnounced ==
    \A r \in Requests : sent["responses"][r] > 0 ~> sent["stored"][r] > 0

\* Every OCR request gets a result in the end.
OcrRequestAnswered ==
    \A r \in Requests : sent["ocrRequests"][r] > 0 ~> sent["ocrResults"][r] > 0

\* A request that is in _pending before its snapshot is announced leaves it in
\* the end ("so the violation-service's lookup never leaks").  One that is entered
\* after the announcement was handled stays.
PendingResolved ==
    \A r \in Requests :
        pending[r] # None /\ sent["stored"][r] = 0 ~> pending[r] = None

-------------------------------------------------------------------------------
(* What the round trip implements *)

\* The votes and the plates of the CVIs in memory.
Cast == [c \in Cvis |-> IF c \in live THEN Range(ballot[c]) ELSE {}]
Held == [c \in Cvis |-> IF c \in live THEN plate[c] ELSE None]

Election == INSTANCE PlateElection WITH ballots <- Cast, plate <- Held

\* Through retries, redeliveries and restarts a snapshot votes once, and a CVI has
\* a leading plate from the vote on that gives one the majority.
ElectionSpec == Election!Spec
===============================================================================
