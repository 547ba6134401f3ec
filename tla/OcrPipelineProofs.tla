-------------------------- MODULE OcrPipelineProofs --------------------------
(***************************************************************************)
(* Theorems about OcrPipeline, for every value of its constants.           *)
(***************************************************************************)
EXTENDS OcrPipeline, PlateVotesProofs, FunctionTheorems

Votings == [req : Requests, plate : Plates]

\* What the next step needs to know besides the types: results carry plates, the
\* response in work is not handled yet, and so is a request before it is pending.
Shape ==
    /\ \A m \in log["ocrResults"] : m.body \in Plates \cup {None}
    /\ job # None => job.msg \in log["responses"] \ done["responses"]
    /\ poll.req # None => poll.cvi \in Cvis

-------------------------------------------------------------------------------
(* Lemmas about the operators of the specification *)

\* The plates of a list of votes.
LEMMA PlatesOfType ==
    ASSUME NEW b \in Seq(Votings)
    PROVE  /\ PlatesOf(b) \in Seq(Plates)
           /\ DOMAIN PlatesOf(b) = DOMAIN b
           /\ \A i \in DOMAIN b : PlatesOf(b)[i] = b[i].plate
<1>1. Len(b) \in Nat /\ DOMAIN b = 1 .. Len(b)
  BY LenProperties
<1>2. \A i \in 1 .. Len(b) : b[i].plate \in Plates
  <2> TAKE i \in 1 .. Len(b)
  <2>1. b[i] \in Votings
    BY ElementOfSeq
  <2>2. QED
    BY <2>1 DEF Votings
<1>3. PlatesOf(b) \in [1 .. Len(b) -> Plates]
  BY <1>1, <1>2 DEF PlatesOf
<1>4. PlatesOf(b) \in Seq(Plates)
  BY <1>1, <1>3, SeqDef
<1>5. QED
  BY <1>1, <1>4 DEF PlatesOf

\* One more vote is one more plate.
LEMMA PlatesOfAppend ==
    ASSUME NEW b \in Seq(Votings), NEW v \in Votings
    PROVE  PlatesOf(Append(b, v)) = Append(PlatesOf(b), v.plate)
<1>1. Append(b, v) \in Seq(Votings) /\ v.plate \in Plates
  BY DEF Votings
<1>2. PlatesOf(b) \in Seq(Plates) /\ PlatesOf(Append(b, v)) \in Seq(Plates)
  BY <1>1, PlatesOfType
<1>3. /\ Len(PlatesOf(b)) = Len(b) /\ Len(PlatesOf(Append(b, v))) = Len(b) + 1
      /\ DOMAIN Append(b, v) = 1 .. Len(b) + 1 /\ Len(b) \in Nat
  <2>1. DOMAIN b = 1 .. Len(b) /\ DOMAIN Append(b, v) = 1 .. Len(b) + 1 /\ Len(b) \in Nat
    OBVIOUS
  <2>2. DOMAIN PlatesOf(b) = DOMAIN b /\ DOMAIN PlatesOf(Append(b, v)) = DOMAIN Append(b, v)
    BY <1>1, PlatesOfType
  <2>3. QED
    BY <1>2, <2>1, <2>2
<1>4. \A i \in 1 .. Len(b) + 1 : PlatesOf(Append(b, v))[i] = Append(PlatesOf(b), v.plate)[i]
  <2> TAKE i \in 1 .. Len(b) + 1
  <2>1. PlatesOf(Append(b, v))[i] = Append(b, v)[i].plate
    BY <1>1, <1>3, PlatesOfType
  <2>2. i \in 1 .. Len(b) => PlatesOf(b)[i] = b[i].plate
    BY PlatesOfType
  <2>3. QED
    BY <1>2, <1>3, <2>1, <2>2
<1>5. QED
  BY <1>1, <1>2, <1>3, <1>4, SeqEqual

\* At most one message about r is added to topic t, and says one of bodies.
Published(t, r, c, bodies) ==
    /\ r \in Requests
    /\ log' \in [Topics -> SUBSET Messages] /\ sent' \in [Topics -> [Requests -> Nat]]
    /\ \A u \in Topics : log[u] \subseteq log'[u]
    /\ \A u \in Topics \ {t} : log'[u] = log[u] /\ sent'[u] = sent[u]
    /\ \/ log' = log /\ sent' = sent
       \/ \E m \in Messages :
            /\ m.req = r /\ m.cvi = c /\ m.body \in bodies /\ m.copy = sent[t][r] + 1
            /\ log'[t] = log[t] \cup {m}
            /\ sent'[t] = [sent[t] EXCEPT ![r] = @ + 1]

\* That is what publishing does.
LEMMA PublishFacts ==
    ASSUME TypeOK, NEW t \in Topics, NEW r \in Requests, NEW c \in Cvis \cup {None},
           NEW bodies \in SUBSET ({"ok", "failed", None} \cup Plates),
           NEW body \in bodies, NEW o, Publish(t, r, c, body, o)
    PROVE  Published(t, r, c, bodies)
<1> DEFINE m == [req |-> r, copy |-> sent[t][r] + 1, cvi |-> c, body |-> body]
<1>1. log \in [Topics -> SUBSET Messages] /\ sent \in [Topics -> [Requests -> Nat]]
  BY DEF TypeOK
<1>2. m \in Messages
  BY <1>1 DEF Messages
<1>3. CASE o = "refused"
  BY <1>1, <1>3 DEF Publish, Published
<1>4. CASE o # "refused"
  <2>1. /\ log' = [log EXCEPT ![t] = @ \cup {m}]
        /\ sent' = [sent EXCEPT ![t][r] = @ + 1]
    BY <1>4 DEF Publish
  <2>2. log'[t] = log[t] \cup {m} /\ \A u \in Topics \ {t} : log'[u] = log[u]
    BY <1>1, <2>1
  <2>3. log' \in [Topics -> SUBSET Messages]
    BY <1>1, <1>2, <2>1
  <2>4. sent'[t] = [sent[t] EXCEPT ![r] = @ + 1] /\ \A u \in Topics \ {t} : sent'[u] = sent[u]
    BY <1>1, <2>1
  <2>5. sent' \in [Topics -> [Requests -> Nat]]
    BY <1>1, <2>1
  <2>6. \A u \in Topics : log[u] \subseteq log'[u]
    BY <2>2
  <2>7. m.req = r /\ m.cvi = c /\ m.body \in bodies /\ m.copy = sent[t][r] + 1
    OBVIOUS
  <2> HIDE DEF m
  <2>8. QED
    BY <1>2, <2>2, <2>3, <2>4, <2>5, <2>6, <2>7 DEF Published
<1>5. QED
  BY <1>3, <1>4

\* A message that is ready is one of the topic, and was not handled yet.
LEMMA ReadyFacts ==
    ASSUME TypeOK, NEW t \in Topics, NEW m \in Ready(t)
    PROVE  /\ m \in log[t] /\ m \notin done[t] /\ m \in Messages
           /\ m.req \in Requests /\ m.cvi \in Cvis \cup {None} /\ m.copy \in Nat
<1>1. m \in log[t] /\ m \notin done[t]
  BY DEF Ready, Unhandled
<1>2. m \in Messages
  BY <1>1 DEF TypeOK
<1>3. QED
  BY <1>1, <1>2 DEF Messages

\* Handling a message keeps the bookkeeping of a topic well typed.
LEMMA HandledType ==
    ASSUME TypeOK, NEW t \in Topics, NEW m \in log[t], Handled(t, m),
           \A u \in Topics : log[u] \subseteq log'[u]
    PROVE  /\ done' \in [Topics -> SUBSET Messages]
           /\ \A u \in Topics : done'[u] \subseteq log'[u]
<1>1. m \in Messages
  BY DEF TypeOK
<1>2. done' = [done EXCEPT ![t] = @ \cup {m}]
  BY DEF Handled
<1>3. QED
  BY <1>1, <1>2 DEF TypeOK

\* Starting again behind the committed offsets keeps it well typed.
LEMMA AgainType ==
    ASSUME TypeOK, NEW topics \in SUBSET Topics, Again(topics), log' = log
    PROVE  /\ log' \in [Topics -> SUBSET Messages] /\ done' \in [Topics -> SUBSET Messages]
           /\ \A u \in Topics : done'[u] \subseteq log'[u] /\ done'[u] \subseteq done[u]
<1>1. done' = [u \in Topics |-> IF u \in topics THEN {} ELSE done[u]]
  BY DEF Again
<1>2. QED
  BY <1>1 DEF TypeOK

\* Abandoning a message commits it, and what was handled before it.
LEMMA AbandonType ==
    ASSUME TypeOK, NEW t \in Topics, NEW m, Abandon(t, m)
    PROVE  /\ log' \in [Topics -> SUBSET Messages] /\ done' \in [Topics -> SUBSET Messages]
           /\ \A u \in Topics : done'[u] \subseteq log'[u]
           /\ \A u \in Topics : log'[u] \subseteq log[u]
           /\ \A u \in Topics \ {t} : log'[u] = log[u] /\ done'[u] = done[u]
           /\ log'[t] = log[t] \ (done[t] \cup {m}) /\ done'[t] = {}
<1>1. log' = [log EXCEPT ![t] = @ \ (done[t] \cup {m})] /\ done' = [done EXCEPT ![t] = {}]
  BY DEF Abandon
<1>2. QED
  BY <1>1 DEF TypeOK

\* The names of the topics.
LEMMA TopicNames ==
    /\ "requests" \in Topics /\ "responses" \in Topics /\ "stored" \in Topics
    /\ "ocrRequests" \in Topics /\ "ocrResults" \in Topics
BY DEF Topics

\* What each loop publishes for the message it handles.
LEMMA Traffic ==
    ASSUME TypeOK
    PROVE  /\ \A c \in Cvis, r \in Requests :
                SendRequest(c, r) => Published("requests", r, None, {None})
           /\ \A m \in log["requests"] :
                AnswerRequest(m) => Published("responses", m.req, None, {"ok", "failed"})
           /\ Announce => Published("stored", job.msg.req, None, {"ok", "failed"})
           /\ \A m \in log["stored"] :
                HandleStored(m) => /\ Published("ocrRequests", m.req, pending[m.req], {None})
                                   /\ pending[m.req] # None \/ sent' = sent
           /\ \A m \in log["ocrRequests"] :
                Recognise(m) => Published("ocrResults", m.req, m.cvi, Plates \cup {None})
<1> USE TopicNames
<1>0. ASSUME NEW t \in Topics, NEW r \in Requests, NEW c, NEW bodies, UNCHANGED <<log, sent>>
      PROVE  Published(t, r, c, bodies)
  BY <1>0 DEF Published, TypeOK
<1>1. ASSUME NEW c \in Cvis, NEW r \in Requests, SendRequest(c, r)
      PROVE  Published("requests", r, None, {None})
  <2>1. PICK o \in SendOutcomes : Publish("requests", r, None, None, o)
    BY <1>1 DEF SendRequest
  <2>2. QED
    BY <2>1, PublishFacts
<1>2. ASSUME NEW m \in log["requests"], AnswerRequest(m)
      PROVE  Published("responses", m.req, None, {"ok", "failed"})
  <2>1. PICK body \in {"ok", "failed"}, o \in SendOutcomes : Publish("responses", m.req, None, body, o)
    BY <1>2 DEF AnswerRequest
  <2>2. m.req \in Requests
    BY <1>2, ReadyFacts DEF AnswerRequest
  <2>3. QED
    BY <2>1, <2>2, PublishFacts
<1>3. ASSUME Announce PROVE Published("stored", job.msg.req, None, {"ok", "failed"})
  <2>1. job.msg.req \in Requests /\ job.result \in {"ok", "failed"}
    BY <1>3 DEF TypeOK, Announce, Jobs, Messages
  <2>2. PICK o \in SendOutcomes : Publish("stored", job.msg.req, None, job.result, o)
    BY <1>3 DEF Announce
  <2>3. QED
    BY <2>1, <2>2, PublishFacts
<1>4. ASSUME NEW m \in log["stored"], HandleStored(m)
      PROVE  /\ Published("ocrRequests", m.req, pending[m.req], {None})
             /\ pending[m.req] # None \/ sent' = sent
  <2>1. m.req \in Requests
    BY <1>4, ReadyFacts DEF HandleStored
  <2>2. CASE pending[m.req] # None /\ m.body = "ok"
    <3>1. PICK o \in SendOutcomes : Publish("ocrRequests", m.req, pending[m.req], None, o)
      BY <1>4, <2>2 DEF HandleStored
    <3>2. pending[m.req] \in Cvis \cup {None}
      BY <2>1 DEF TypeOK
    <3>3. QED
      BY <2>1, <2>2, <3>1, <3>2, PublishFacts
  <2>3. CASE ~ (pending[m.req] # None /\ m.body = "ok")
    BY <1>0, <1>4, <2>1, <2>3 DEF HandleStored
  <2>4. QED
    BY <2>2, <2>3
<1>5. ASSUME NEW m \in log["ocrRequests"], Recognise(m)
      PROVE  Published("ocrResults", m.req, m.cvi, Plates \cup {None})
  <2>1. m.req \in Requests /\ m.cvi \in Cvis \cup {None}
    BY <1>5, ReadyFacts DEF Recognise
  <2>2. ASSUME NEW p \in Plates \cup {None}, NEW o \in SendOutcomes,
               Publish("ocrResults", m.req, m.cvi, p, o)
        PROVE  Published("ocrResults", m.req, m.cvi, Plates \cup {None})
    BY <2>1, <2>2, PublishFacts
  <2>3. QED
    BY <1>0, <1>5, <2>1, <2>2 DEF Recognise
<1>6. QED
  BY <1>1, <1>2, <1>3, <1>4, <1>5

-------------------------------------------------------------------------------
(* Type correctness *)

LEMMA TypeInit ==
    ASSUME Init
    PROVE  TypeOK /\ Shape
<1>1. job = None /\ poll.req = None
  BY DEF Init, NoPass
<1>2. log \in [Topics -> SUBSET Messages] /\ done \in [Topics -> SUBSET Messages]
  BY DEF Init
<1>3. \A t \in Topics : log[t] = {} /\ done[t] = {}
  BY DEF Init
<1>4. ballot \in [Cvis -> Seq(Votings)] /\ plate \in [Cvis -> Plates \cup {None}]
  BY DEF Init
<1>5. /\ poll \in [todo : SUBSET Cvis, cvi : Cvis \cup {None}, req : Requests \cup {None}]
      /\ pending \in [Requests -> Cvis \cup {None}] /\ attempts \in [Cvis -> Nat] /\ faults \in Nat
      /\ sent \in [Topics -> [Requests -> Nat]]
  BY DEF Init, NoPass
<1>6. files \subseteq Requests /\ objects \subseteq Requests /\ live \subseteq created
      /\ created \subseteq Cvis
  BY DEF Init
<1>7. QED
  BY <1>1, <1>2, <1>3, <1>4, <1>5, <1>6, TopicNames DEF TypeOK, Shape, Votings

LEMMA TypeStep ==
    ASSUME TypeOK, Shape, [Next]_vars
    PROVE  TypeOK'
<1> USE TopicNames
<1>1. ASSUME NEW c \in Cvis, Appear(c) PROVE TypeOK'
  BY <1>1 DEF TypeOK, Appear, kafkaVars, storageVars, askVars
<1>2. ASSUME NEW c \in Cvis, Evict(c) PROVE TypeOK'
  BY <1>2 DEF TypeOK, Evict, kafkaVars, storageVars, askVars
<1>3. CASE SelectCandidates
  <2>1. PICK cvis \in SUBSET live : poll' = [poll EXCEPT !.todo = cvis]
    BY <1>3 DEF SelectCandidates
  <2>2. poll' \in [todo : SUBSET Cvis, cvi : Cvis \cup {None}, req : Requests \cup {None}]
    BY <2>1 DEF TypeOK
  <2>3. QED
    BY <1>3, <2>2 DEF TypeOK, SelectCandidates, kafkaVars, storageVars, cviVars
<1>4. ASSUME NEW c \in Cvis, NEW r \in Requests, SendRequest(c, r) PROVE TypeOK'
  <2>1. \/ poll' = [poll EXCEPT !.cvi = c, !.req = r]
        \/ poll' = [poll EXCEPT !.todo = @ \ {c}]
    BY <1>4 DEF SendRequest
  <2>2. poll' \in [todo : SUBSET Cvis, cvi : Cvis \cup {None}, req : Requests \cup {None}]
    BY <2>1 DEF TypeOK
  <2>3. Published("requests", r, None, {None})
    BY <1>4, Traffic
  <2>4. QED
    BY <1>4, <2>2, <2>3 DEF TypeOK, Published, SendRequest, storageVars, cviVars
<1>5. CASE Register
  <2>1. poll.req \in Requests /\ poll.cvi \in Cvis
    BY <1>5 DEF TypeOK, Shape, Register
  <2>2. pending' \in [Requests -> Cvis \cup {None}] /\ attempts' \in [Cvis -> Nat]
    BY <1>5, <2>1 DEF TypeOK, Register
  <2>3. poll' \in [todo : SUBSET Cvis, cvi : Cvis \cup {None}, req : Requests \cup {None}]
    BY <1>5, <2>1 DEF TypeOK, Register, NoPass
  <2>4. QED
    BY <1>5, <2>2, <2>3 DEF TypeOK, Register, kafkaVars, storageVars, cviVars
<1>6. ASSUME NEW m \in log["requests"], AnswerRequest(m) PROVE TypeOK'
  <2>1. Published("responses", m.req, None, {"ok", "failed"})
    BY <1>6, Traffic
  <2>2. /\ done' \in [Topics -> SUBSET Messages]
        /\ \A u \in Topics : done'[u] \subseteq log'[u]
    BY <1>6, <2>1, HandledType DEF AnswerRequest, Published
  <2>3. files' \subseteq Requests
    BY <1>6, <2>1 DEF TypeOK, AnswerRequest, Published
  <2>4. QED
    BY <1>6, <2>1, <2>2, <2>3 DEF TypeOK, Published, AnswerRequest, cviVars, askVars
<1>7. ASSUME NEW m \in log["responses"], UploadSnapshot(m) PROVE TypeOK'
  <2>1. m \in Messages /\ m.req \in Requests
    BY <1>7, ReadyFacts DEF UploadSnapshot
  <2>2. objects' \subseteq Requests
    BY <1>7, <2>1 DEF TypeOK, UploadSnapshot
  <2>3. job' \in Jobs
    BY <1>7, <2>1 DEF UploadSnapshot, Job, Jobs
  <2>4. QED
    BY <1>7, <2>2, <2>3 DEF TypeOK, UploadSnapshot, kafkaVars, cviVars, askVars
<1>8. CASE UnlinkFile
  <2>1. job' \in Jobs
    BY <1>8 DEF TypeOK, UnlinkFile, Jobs
  <2>2. files' \subseteq Requests
    BY <1>8 DEF TypeOK, UnlinkFile
  <2>3. QED
    BY <1>8, <2>1, <2>2 DEF TypeOK, UnlinkFile, kafkaVars, cviVars, askVars
<1>9. CASE Announce
  <2>1. Published("stored", job.msg.req, None, {"ok", "failed"})
    BY <1>9, Traffic
  <2>2. /\ done' \in [Topics -> SUBSET Messages]
        /\ \A u \in Topics : done'[u] \subseteq log'[u]
    BY <1>9, <2>1, HandledType DEF Announce, Shape, Published
  <2>3. QED
    BY <1>9, <2>1, <2>2 DEF TypeOK, Published, Announce, cviVars, askVars
<1>10. ASSUME NEW m \in log["stored"], HandleStored(m) PROVE TypeOK'
  <2>1. Published("ocrRequests", m.req, pending[m.req], {None})
    BY <1>10, Traffic
  <2>2. /\ done' \in [Topics -> SUBSET Messages]
        /\ \A u \in Topics : done'[u] \subseteq log'[u]
    BY <1>10, <2>1, HandledType DEF HandleStored, Published
  <2>3. pending' \in [Requests -> Cvis \cup {None}]
    BY <1>10, <2>1 DEF TypeOK, HandleStored, Published
  <2>4. QED
    BY <1>10, <2>1, <2>2, <2>3 DEF TypeOK, Published, HandleStored, storageVars, cviVars
<1>11. ASSUME NEW m \in log["ocrResults"], CountVote(m) PROVE TypeOK'
  <2>1. /\ done' \in [Topics -> SUBSET Messages]
        /\ \A u \in Topics : done'[u] \subseteq log'[u]
    BY <1>11, HandledType DEF CountVote
  <2>2. ballot' \in [Cvis -> Seq(Votings)] /\ plate' \in [Cvis -> Plates \cup {None}]
    <3>1. CASE m.cvi \in live /\ m.body # None
      <4> DEFINE c == m.cvi
                 v == [req |-> m.req, plate |-> m.body]
                 votes == Append(ballot[c], v)
      <4>1. c \in Cvis
        BY <3>1 DEF TypeOK
      <4>2. v \in Votings
        BY <1>11, <3>1, ReadyFacts DEF CountVote, Shape, Votings
      <4>3. votes \in Seq(Votings)
        <5>1. ballot[c] \in Seq(Votings)
          BY <4>1 DEF TypeOK, Votings
        <5> HIDE DEF v
        <5>2. QED
          BY <4>2, <5>1
      <4>4. PlateAfter(PlatesOf(votes), plate[c]) \in Plates \cup {None}
        BY <4>1, <4>3, PlatesOfType, PlateAfterType DEF TypeOK
      <4>5. /\ ballot' = [ballot EXCEPT ![c] = votes]
            /\ plate' = [plate EXCEPT ![c] = PlateAfter(PlatesOf(votes), plate[c])]
        BY <1>11, <3>1, <4>1 DEF CountVote, TypeOK
      <4>6. QED
        BY <4>1, <4>3, <4>4, <4>5 DEF TypeOK, Votings
    <3>2. CASE ~ (m.cvi \in live /\ m.body # None)
      BY <1>11, <3>2 DEF CountVote, TypeOK, Votings
    <3>3. QED
      BY <3>1, <3>2
  <2>3. QED
    BY <1>11, <2>1, <2>2 DEF TypeOK, CountVote, storageVars, askVars, Votings
<1>12. ASSUME NEW m \in log["ocrRequests"], Recognise(m) PROVE TypeOK'
  <2>1. Published("ocrResults", m.req, m.cvi, Plates \cup {None})
    BY <1>12, Traffic
  <2>2. /\ done' \in [Topics -> SUBSET Messages]
        /\ \A u \in Topics : done'[u] \subseteq log'[u]
    BY <1>12, <2>1, HandledType DEF Recognise, Published
  <2>3. QED
    BY <1>12, <2>1, <2>2 DEF TypeOK, Published, Recognise, storageVars, cviVars, askVars
<1>13. ASSUME NEW t \in Topics, Commit(t) PROVE TypeOK'
  BY <1>13 DEF TypeOK, Commit, storageVars, cviVars, askVars
<1>14. ASSUME NEW t \in Topics, Rebalance(t) PROVE TypeOK'
  <2>1. Again({t}) /\ {t} \in SUBSET Topics /\ log' = log
    BY <1>14 DEF Rebalance
  <2>2. /\ log' \in [Topics -> SUBSET Messages] /\ done' \in [Topics -> SUBSET Messages]
        /\ \A u \in Topics : done'[u] \subseteq log'[u]
    BY <2>1, AgainType
  <2>3. faults' \in Nat
    BY <1>14 DEF TypeOK, Rebalance, Fault
  <2>4. QED
    BY <1>14, <2>2, <2>3 DEF TypeOK, Rebalance, storageVars, cviVars, askVars
<1>15. CASE CrashDeepStream
  <2>1. Again({"requests"}) /\ {"requests"} \in SUBSET Topics /\ log' = log
    BY <1>15 DEF CrashDeepStream
  <2>2. /\ log' \in [Topics -> SUBSET Messages] /\ done' \in [Topics -> SUBSET Messages]
        /\ \A u \in Topics : done'[u] \subseteq log'[u]
    BY <2>1, AgainType
  <2>3. faults' \in Nat
    BY <1>15 DEF TypeOK, CrashDeepStream, Fault
  <2>4. QED
    BY <1>15, <2>2, <2>3 DEF TypeOK, CrashDeepStream, storageVars, cviVars, askVars
<1>16. CASE CrashUploader
  <2>1. Again({"responses"}) /\ {"responses"} \in SUBSET Topics /\ log' = log
    BY <1>16 DEF CrashUploader
  <2>2. /\ log' \in [Topics -> SUBSET Messages] /\ done' \in [Topics -> SUBSET Messages]
        /\ \A u \in Topics : done'[u] \subseteq log'[u]
    BY <2>1, AgainType
  <2>3. faults' \in Nat
    BY <1>16 DEF TypeOK, CrashUploader, Fault
  <2>4. QED
    BY <1>16, <2>2, <2>3 DEF TypeOK, CrashUploader, cviVars, askVars
<1>17. CASE CrashPlate
  <2>1. Again({"ocrRequests"}) /\ {"ocrRequests"} \in SUBSET Topics /\ log' = log
    BY <1>17 DEF CrashPlate
  <2>2. /\ log' \in [Topics -> SUBSET Messages] /\ done' \in [Topics -> SUBSET Messages]
        /\ \A u \in Topics : done'[u] \subseteq log'[u]
    BY <2>1, AgainType
  <2>3. faults' \in Nat
    BY <1>17 DEF TypeOK, CrashPlate, Fault
  <2>4. QED
    BY <1>17, <2>2, <2>3 DEF TypeOK, CrashPlate, storageVars, cviVars, askVars
<1>18. CASE CrashViolation
  <2>1. Again({"stored", "ocrResults"}) /\ {"stored", "ocrResults"} \in SUBSET Topics /\ log' = log
    BY <1>18 DEF CrashViolation
  <2>2. poll' \in [todo : SUBSET Cvis, cvi : Cvis \cup {None}, req : Requests \cup {None}]
    BY <1>18 DEF CrashViolation, NoPass
  <2>3. ballot' \in [Cvis -> Seq(Votings)]
    BY <1>18 DEF CrashViolation
  <2>4. /\ plate' \in [Cvis -> Plates \cup {None}] /\ pending' \in [Requests -> Cvis \cup {None}]
        /\ attempts' \in [Cvis -> Nat] /\ live' \subseteq created'
    BY <1>18 DEF CrashViolation
  <2>5. /\ log' \in [Topics -> SUBSET Messages] /\ done' \in [Topics -> SUBSET Messages]
        /\ \A u \in Topics : done'[u] \subseteq log'[u]
    BY <2>1, AgainType
  <2>6. faults' \in Nat
    BY <1>18 DEF TypeOK, CrashViolation, Fault
  <2>7. QED
    BY <1>18, <2>2, <2>3, <2>4, <2>5, <2>6 DEF TypeOK, CrashViolation, storageVars, Votings
<1>19. CASE StopUploader
  <2>1. Abandon("responses", job.msg)
    BY <1>19 DEF StopUploader
  <2>2. /\ log' \in [Topics -> SUBSET Messages] /\ done' \in [Topics -> SUBSET Messages]
        /\ \A u \in Topics : done'[u] \subseteq log'[u]
    BY <2>1, AbandonType
  <2>3. faults' \in Nat
    BY <1>19 DEF TypeOK, StopUploader, Fault
  <2>4. QED
    BY <1>19, <2>2, <2>3 DEF TypeOK, StopUploader, cviVars, askVars
<1>20. ASSUME NEW m \in log["ocrRequests"], StopPlate(m) PROVE TypeOK'
  <2>1. Abandon("ocrRequests", m)
    BY <1>20 DEF StopPlate
  <2>2. /\ log' \in [Topics -> SUBSET Messages] /\ done' \in [Topics -> SUBSET Messages]
        /\ \A u \in Topics : done'[u] \subseteq log'[u]
    BY <2>1, AbandonType
  <2>3. faults' \in Nat
    BY <1>20 DEF TypeOK, StopPlate, Fault
  <2>4. QED
    BY <1>20, <2>2, <2>3 DEF TypeOK, StopPlate, storageVars, cviVars, askVars
<1>21. CASE UNCHANGED vars
  BY <1>21 DEF TypeOK, vars, kafkaVars, storageVars, cviVars, askVars
<1>22. QED
  BY <1>1, <1>2, <1>3, <1>4, <1>5, <1>6, <1>7, <1>8, <1>9, <1>10, <1>11, <1>12, <1>13, <1>14,
     <1>15, <1>16, <1>17, <1>18, <1>19, <1>20, <1>21
  DEF Next, PollLoop, DeepStream, Uploader, StoredLoop, Plate, Voter

\* What handling, starting again and abandoning do to the other topics.
LEMMA OtherTopics ==
    ASSUME TypeOK
    PROVE  /\ \A m : \A t \in Topics :
                Handled(t, m) => \A u \in Topics \ {t} : done'[u] = done[u]
           /\ \A topics \in SUBSET Topics : Again(topics) =>
                \A u \in Topics \ topics : done'[u] = done[u]
           /\ \A t \in Topics : Commit(t) =>
                /\ \A u \in Topics \ {t} : log'[u] = log[u] /\ done'[u] = done[u]
                /\ log'[t] = log[t] \ done[t] /\ done'[t] = {}
BY DEF TypeOK, Handled, Again, Commit

LEMMA ShapeStep ==
    ASSUME TypeOK, Shape, [Next]_vars
    PROVE  Shape'
<1> USE TopicNames
<1> DEFINE Results == log["ocrResults"]
           Job0 == job # None => job.msg \in log["responses"] \ done["responses"]
           Poll0 == poll.req # None => poll.cvi \in Cvis
<1>0. ASSUME Results' \subseteq Results, Job0', Poll0' PROVE Shape'
  BY <1>0 DEF Shape
<1>1. ASSUME NEW c \in Cvis, Appear(c) PROVE Shape'
  BY <1>1 DEF Shape, Appear, kafkaVars, storageVars, askVars
<1>2. ASSUME NEW c \in Cvis, Evict(c) PROVE Shape'
  BY <1>2 DEF Shape, Evict, kafkaVars, storageVars, askVars
<1>3. CASE SelectCandidates
  <2>1. poll'.req = poll.req /\ poll'.cvi = poll.cvi
    BY <1>3 DEF SelectCandidates, TypeOK
  <2>2. QED
    BY <1>3, <2>1 DEF Shape, SelectCandidates, kafkaVars, storageVars
<1>4. ASSUME NEW c \in Cvis, NEW r \in Requests, SendRequest(c, r) PROVE Shape'
  <2>1. \/ poll' = [poll EXCEPT !.cvi = c, !.req = r]
        \/ poll' = [poll EXCEPT !.todo = @ \ {c}]
    BY <1>4 DEF SendRequest
  <2>2. Poll0'
    BY <2>1 DEF TypeOK, Shape
  <2>3. \A u \in Topics \ {"requests"} : log'[u] = log[u]
    BY <1>4, Traffic DEF Published
  <2>4. Job0'
    BY <1>4, <2>3 DEF SendRequest, storageVars, Shape
  <2>5. QED
    BY <1>0, <2>2, <2>3, <2>4
<1>5. CASE Register
  <2>1. poll'.req = None
    BY <1>5 DEF Register, NoPass
  <2>2. QED
    BY <1>5, <2>1 DEF Shape, Register, kafkaVars, storageVars
<1>6. ASSUME NEW m \in log["requests"], AnswerRequest(m) PROVE Shape'
  <2>1. Published("responses", m.req, None, {"ok", "failed"})
    BY <1>6, Traffic
  <2>2. done'["responses"] = done["responses"]
    BY <1>6, OtherTopics DEF AnswerRequest
  <2>3. QED
    BY <1>6, <2>1, <2>2 DEF AnswerRequest, Published, Shape, askVars
<1>7. ASSUME NEW m \in log["responses"], UploadSnapshot(m) PROVE Shape'
  <2>1. job'.msg = m
    BY <1>7 DEF UploadSnapshot, Job
  <2>2. m \in log["responses"] \ done["responses"]
    BY <1>7, ReadyFacts DEF UploadSnapshot
  <2>3. QED
    BY <1>7, <2>1, <2>2 DEF UploadSnapshot, Shape, kafkaVars, askVars
<1>8. CASE UnlinkFile
  <2>1. job # None /\ job'.msg = job.msg
    BY <1>8 DEF TypeOK, UnlinkFile
  <2>2. QED
    BY <1>8, <2>1 DEF UnlinkFile, Shape, kafkaVars, askVars
<1>9. CASE Announce
  <2>1. Published("stored", job.msg.req, None, {"ok", "failed"})
    BY <1>9, Traffic
  <2>2. QED
    BY <1>9, <2>1 DEF Announce, Published, Shape, askVars
<1>10. ASSUME NEW m \in log["stored"], HandleStored(m) PROVE Shape'
  <2>1. Published("ocrRequests", m.req, pending[m.req], {None})
    BY <1>10, Traffic
  <2>2. done'["responses"] = done["responses"]
    BY <1>10, OtherTopics DEF HandleStored
  <2>3. QED
    BY <1>10, <2>1, <2>2 DEF HandleStored, Published, Shape, storageVars
<1>11. ASSUME NEW m \in log["ocrResults"], CountVote(m) PROVE Shape'
  <2>1. done'["responses"] = done["responses"]
    BY <1>11, OtherTopics DEF CountVote
  <2>2. QED
    BY <1>11, <2>1 DEF CountVote, Shape, storageVars, askVars
<1>12. ASSUME NEW m \in log["ocrRequests"], Recognise(m) PROVE Shape'
  <2>1. Published("ocrResults", m.req, m.cvi, Plates \cup {None})
    BY <1>12, Traffic
  <2>2. done'["responses"] = done["responses"]
    BY <1>12, OtherTopics DEF Recognise
  <2>3. \A n \in log'["ocrResults"] : n.body \in Plates \cup {None}
    BY <2>1 DEF Published, Shape
  <2>4. QED
    BY <1>12, <2>1, <2>2, <2>3 DEF Recognise, Published, Shape, storageVars, askVars
<1>13. ASSUME NEW t \in Topics, Commit(t) PROVE Shape'
  <2>1. Results' \subseteq Results
    BY <1>13, OtherTopics
  <2>2. log'["responses"] \ done'["responses"] = log["responses"] \ done["responses"]
    BY <1>13, OtherTopics
  <2>3. job' = job /\ poll' = poll
    BY <1>13 DEF Commit, storageVars, askVars
  <2>4. QED
    BY <1>0, <2>1, <2>2, <2>3 DEF Shape
<1>14. ASSUME NEW t \in Topics, Rebalance(t) PROVE Shape'
  <2>1. log' = log /\ job' = job /\ poll' = poll
    BY <1>14 DEF Rebalance, storageVars, askVars
  <2>2. Job0'
    <3>1. CASE t = "responses"
      BY <1>14, <2>1, <3>1 DEF Rebalance
    <3>2. CASE t # "responses"
      <4>1. done'["responses"] = done["responses"]
        BY <1>14, <3>2, OtherTopics DEF Rebalance
      <4>2. QED
        BY <2>1, <4>1 DEF Shape
    <3>3. QED
      BY <3>1, <3>2
  <2>3. QED
    BY <1>0, <2>1, <2>2 DEF Shape
<1>15. CASE CrashDeepStream
  <2>1. done'["responses"] = done["responses"]
    BY <1>15, OtherTopics DEF CrashDeepStream
  <2>2. QED
    BY <1>15, <2>1 DEF CrashDeepStream, Shape, storageVars, askVars
<1>16. CASE CrashUploader
  BY <1>16 DEF CrashUploader, Shape, askVars
<1>17. CASE CrashPlate
  <2>1. done'["responses"] = done["responses"]
    BY <1>17, OtherTopics DEF CrashPlate
  <2>2. QED
    BY <1>17, <2>1 DEF CrashPlate, Shape, storageVars, askVars
<1>18. CASE CrashViolation
  <2>1. done'["responses"] = done["responses"]
    BY <1>18, OtherTopics DEF CrashViolation
  <2>2. poll'.req = None
    BY <1>18 DEF CrashViolation, NoPass
  <2>3. QED
    BY <1>18, <2>1, <2>2 DEF CrashViolation, Shape, storageVars
<1>19. CASE StopUploader
  <2>1. Results' \subseteq Results
    BY <1>19, AbandonType DEF StopUploader
  <2>2. job' = None /\ poll' = poll
    BY <1>19 DEF StopUploader, askVars
  <2>3. QED
    BY <1>0, <2>1, <2>2 DEF Shape
<1>20. ASSUME NEW m \in log["ocrRequests"], StopPlate(m) PROVE Shape'
  <2>1. /\ Results' \subseteq Results /\ log'["responses"] = log["responses"]
        /\ done'["responses"] = done["responses"]
    BY <1>20, AbandonType DEF StopPlate
  <2>2. QED
    BY <1>0, <1>20, <2>1 DEF StopPlate, Shape, storageVars, askVars
<1>21. CASE UNCHANGED vars
  BY <1>21 DEF Shape, vars, kafkaVars, storageVars, askVars
<1>22. QED
  BY <1>1, <1>2, <1>3, <1>4, <1>5, <1>6, <1>7, <1>8, <1>9, <1>10, <1>11, <1>12, <1>13, <1>14,
     <1>15, <1>16, <1>17, <1>18, <1>19, <1>20, <1>21
  DEF Next, PollLoop, DeepStream, Uploader, StoredLoop, Plate, Voter

\* Every variable keeps its type, whatever is lost, delivered twice or restarted.
THEOREM TypeCorrect == Spec => [](TypeOK /\ Shape)
<1>1. Init => TypeOK /\ Shape
  BY TypeInit
<1>2. TypeOK /\ Shape /\ [Next]_vars => (TypeOK /\ Shape)'
  BY TypeStep, ShapeStep
<1>3. QED
  BY <1>1, <1>2, PTL DEF Spec

-------------------------------------------------------------------------------
(* One OCR request per snapshot *)

\* A request_id is used once: it is on its way into _pending, or is pending, or
\* was pending; in the first two cases no OCR request was sent for it yet.
OnceInv == \A r \in Requests :
    /\ sent["requests"][r] = 0 =>
         pending[r] = None /\ poll.req # r /\ sent["ocrRequests"][r] = 0
    /\ pending[r] # None \/ poll.req = r => sent["ocrRequests"][r] = 0
    /\ pending[r] # None => poll.req # r
    /\ sent["ocrRequests"][r] <= 1

\* Only the poll loop sends snapshot requests, only the stored loop OCR requests;
\* nothing else moves a request into _pending or towards it.
LEMMA AskingFrame ==
    ASSUME TypeOK, [Next]_vars
    PROVE  \/ \E c \in Cvis, r \in Requests : SendRequest(c, r)
           \/ Register
           \/ \E m \in log["stored"] : HandleStored(m)
           \/ CrashViolation
           \/ /\ sent'["requests"] = sent["requests"] /\ sent'["ocrRequests"] = sent["ocrRequests"]
              /\ pending' = pending /\ poll'.req = poll.req
<1> USE TopicNames
<1> DEFINE Same == /\ sent'["requests"] = sent["requests"] /\ sent'["ocrRequests"] = sent["ocrRequests"]
                   /\ pending' = pending /\ poll'.req = poll.req
<1>1. ASSUME NEW c \in Cvis, Appear(c) \/ Evict(c) PROVE Same
  BY <1>1 DEF Appear, Evict, kafkaVars, askVars
<1>2. CASE SelectCandidates
  BY <1>2 DEF SelectCandidates, TypeOK, kafkaVars
<1>3. ASSUME NEW m \in log["requests"], AnswerRequest(m) PROVE Same
  <2>1. Published("responses", m.req, None, {"ok", "failed"})
    BY <1>3, Traffic
  <2>2. QED
    BY <1>3, <2>1 DEF AnswerRequest, Published, askVars
<1>4. ASSUME NEW m \in log["responses"], UploadSnapshot(m) PROVE Same
  BY <1>4 DEF UploadSnapshot, kafkaVars, askVars
<1>5. CASE UnlinkFile
  BY <1>5 DEF UnlinkFile, kafkaVars, askVars
<1>6. CASE Announce
  <2>1. Published("stored", job.msg.req, None, {"ok", "failed"})
    BY <1>6, Traffic
  <2>2. QED
    BY <1>6, <2>1 DEF Announce, Published, askVars
<1>7. ASSUME NEW m \in log["ocrResults"], CountVote(m) PROVE Same
  BY <1>7 DEF CountVote, askVars
<1>8. ASSUME NEW m \in log["ocrRequests"], Recognise(m) PROVE Same
  <2>1. Published("ocrResults", m.req, m.cvi, Plates \cup {None})
    BY <1>8, Traffic
  <2>2. QED
    BY <1>8, <2>1 DEF Recognise, Published, askVars
<1>9. ASSUME NEW t \in Topics, Commit(t) \/ Rebalance(t) PROVE Same
  BY <1>9 DEF Commit, Rebalance, askVars
<1>10. CASE CrashDeepStream \/ CrashUploader \/ CrashPlate \/ StopUploader
  BY <1>10 DEF CrashDeepStream, CrashUploader, CrashPlate, StopUploader, askVars
<1>11. ASSUME NEW m \in log["ocrRequests"], StopPlate(m) PROVE Same
  BY <1>11 DEF StopPlate, askVars
<1>12. CASE UNCHANGED vars
  BY <1>12 DEF vars, kafkaVars, askVars
<1>13. QED
  BY <1>1, <1>2, <1>3, <1>4, <1>5, <1>6, <1>7, <1>8, <1>9, <1>10, <1>11, <1>12
  DEF Next, PollLoop, DeepStream, Uploader, StoredLoop, Plate, Voter

LEMMA OnceStep ==
    ASSUME TypeOK, Shape, OnceInv, [Next]_vars
    PROVE  OnceInv'
<1> USE TopicNames, NoneAssumption
<1>0. /\ \A r \in Requests : sent["requests"][r] \in Nat /\ sent["ocrRequests"][r] \in Nat
      /\ sent["requests"] \in [Requests -> Nat] /\ sent["ocrRequests"] \in [Requests -> Nat]
      /\ pending \in [Requests -> Cvis \cup {None}]
  BY DEF TypeOK
<1>1. ASSUME NEW c \in Cvis, NEW r \in Requests, SendRequest(c, r) PROVE OnceInv'
  <2>1. PICK o \in SendOutcomes :
          /\ Publish("requests", r, None, None, o)
          /\ poll' = IF o = "ok" THEN [poll EXCEPT !.cvi = c, !.req = r]
                     ELSE [poll EXCEPT !.todo = @ \ {c}]
    BY <1>1 DEF SendRequest
  <2>2. sent["requests"][r] = 0 /\ poll.req = None /\ pending' = pending
    BY <1>1 DEF SendRequest
  <2>3. Published("requests", r, None, {None})
    BY <1>1, Traffic
  <2>4. /\ sent'["ocrRequests"] = sent["ocrRequests"]
        /\ sent' = sent \/ sent'["requests"] = [sent["requests"] EXCEPT ![r] = @ + 1]
    BY <2>3 DEF Published
  <2>5. poll'.req = r => sent'["requests"] = [sent["requests"] EXCEPT ![r] = @ + 1]
    <3>1. CASE o = "ok"
      BY <1>0, <2>1, <3>1 DEF Publish, TypeOK
    <3>2. CASE o # "ok"
      BY <2>1, <2>2, <3>2 DEF TypeOK
    <3>3. QED
      BY <3>1, <3>2
  <2>6. poll'.req \in {r, None}
    BY <2>1, <2>2 DEF TypeOK
  <2>7. QED
    BY <1>0, <2>2, <2>4, <2>5, <2>6 DEF OnceInv
<1>2. CASE Register
  <2>1. poll.req \in Requests /\ poll'.req = None /\ sent' = sent
    BY <1>2 DEF TypeOK, Register, NoPass, kafkaVars
  <2>2. pending' = [pending EXCEPT ![poll.req] = poll.cvi]
    BY <1>2 DEF Register
  <2>3. QED
    BY <1>0, <2>1, <2>2 DEF OnceInv
<1>3. ASSUME NEW m \in log["stored"], HandleStored(m) PROVE OnceInv'
  <2>0. /\ Published("ocrRequests", m.req, pending[m.req], {None})
        /\ pending[m.req] # None \/ sent' = sent
    BY <1>3, Traffic
  <2>1. /\ m.req \in Requests
        /\ sent'["requests"] = sent["requests"]
        /\ \/ sent' = sent
           \/ /\ pending[m.req] # None
              /\ sent'["ocrRequests"] = [sent["ocrRequests"] EXCEPT ![m.req] = @ + 1]
    BY <2>0 DEF Published
  <2>2. pending' = [pending EXCEPT ![m.req] = None] /\ poll' = poll
    BY <1>3 DEF HandleStored
  <2>3. QED
    BY <1>0, <2>1, <2>2 DEF OnceInv
<1>4. CASE CrashViolation
  <2>1. sent' = sent /\ poll'.req = None /\ \A r \in Requests : pending'[r] = None
    BY <1>4 DEF CrashViolation, NoPass
  <2>2. QED
    BY <1>0, <2>1 DEF OnceInv
<1>5. CASE /\ sent'["requests"] = sent["requests"] /\ sent'["ocrRequests"] = sent["ocrRequests"]
           /\ pending' = pending /\ poll'.req = poll.req
  BY <1>5 DEF OnceInv
<1>6. QED
  BY <1>1, <1>2, <1>3, <1>4, <1>5, AskingFrame

\* A snapshot leads to one OCR request at most: popping the request from _pending
\* makes the stored loop idempotent (_handle_snapshot_stored).
THEOREM SnapshotsReadOnce == Spec => []OneOcrRequestPerSnapshot
<1>1. Init => OnceInv
  BY TopicNames, NoneAssumption DEF Init, NoPass, OnceInv
<1>2. TypeOK /\ Shape /\ OnceInv /\ [Next]_vars => OnceInv'
  BY OnceStep
<1>3. OnceInv => OneOcrRequestPerSnapshot
  BY DEF OnceInv, OneOcrRequestPerSnapshot
<1>4. QED
  BY <1>1, <1>2, <1>3, TypeCorrect, PTL DEF Spec

-------------------------------------------------------------------------------
(* A plate is elected by readings of different snapshots *)

\* plate-service and the topics around it deliver once: it does not die between
\* a publication and a commit, and the two consumer groups are not rebalanced.
OnceDelivered ==
    "plate" \notin Crashable /\ "ocrRequests" \notin Rebalanced /\ "ocrResults" \notin Rebalanced

OcrTopics == {"ocrRequests", "ocrResults"}
Open(t) == log[t] \ done[t]

\* About a snapshot there is one OCR request, and one result once it was handled.
ReadOnce ==
    /\ \A t \in OcrTopics : \A m \in log[t] : sent[t][m.req] > 0
    /\ \A t \in OcrTopics : \A m, n \in log[t] : m.req = n.req => m = n
    /\ \A m \in Open("ocrRequests") : sent["ocrResults"][m.req] = 0
    /\ \A r \in Requests : sent["ocrRequests"][r] = 0 => sent["ocrResults"][r] = 0

\* A result that is still to be handled has not voted, and no result votes twice.
VotedOnce ==
    /\ \A c \in Cvis : \A i \in DOMAIN ballot[c] : sent["ocrResults"][ballot[c][i].req] > 0
    /\ \A m \in Open("ocrResults") : m.cvi \in live =>
         \A i \in DOMAIN ballot[m.cvi] : ballot[m.cvi][i].req # m.req
    /\ \A c \in Cvis : c \notin created => ballot[c] = <<>>
    /\ \A c \in Cvis : \A i, j \in DOMAIN ballot[c] : ballot[c][i].req = ballot[c][j].req => i = j

Elected == \A c \in Cvis : plate[c] # None => Votes(PlatesOf(ballot[c]), plate[c]) >= Majority

VotingInv == ReadOnce /\ VotedOnce /\ Elected

\* Only the stored loop and plate-service add to the two topics; nothing else
\* brings an OCR request back to plate-service.
LEMMA ReadingFrame ==
    ASSUME TypeOK, OnceDelivered, [Next]_vars
    PROVE  \/ \E m \in log["stored"] : HandleStored(m)
           \/ \E m \in log["ocrRequests"] : Recognise(m)
           \/ /\ \A t \in OcrTopics : log'[t] \subseteq log[t] /\ sent'[t] = sent[t]
              /\ log'["ocrRequests"] \ done'["ocrRequests"] \subseteq Open("ocrRequests")
<1> USE TopicNames DEF Open, OcrTopics
<1> DEFINE Same == /\ \A t \in OcrTopics : log'[t] \subseteq log[t] /\ sent'[t] = sent[t]
                   /\ log'["ocrRequests"] \ done'["ocrRequests"] \subseteq Open("ocrRequests")
<1>1. ASSUME NEW c \in Cvis, Appear(c) \/ Evict(c) PROVE Same
  BY <1>1 DEF Appear, Evict, kafkaVars
<1>2. CASE SelectCandidates \/ Register \/ UnlinkFile
  BY <1>2 DEF SelectCandidates, Register, UnlinkFile, kafkaVars
<1>3. ASSUME NEW c \in Cvis, NEW r \in Requests, SendRequest(c, r) PROVE Same
  <2>1. Published("requests", r, None, {None})
    BY <1>3, Traffic
  <2>2. QED
    BY <1>3, <2>1 DEF SendRequest, Published
<1>4. ASSUME NEW m \in log["requests"], AnswerRequest(m) PROVE Same
  <2>1. Published("responses", m.req, None, {"ok", "failed"})
    BY <1>4, Traffic
  <2>2. done'["ocrRequests"] = done["ocrRequests"]
    BY <1>4, OtherTopics DEF AnswerRequest
  <2>3. QED
    BY <2>1, <2>2 DEF Published
<1>5. ASSUME NEW m \in log["responses"], UploadSnapshot(m) PROVE Same
  BY <1>5 DEF UploadSnapshot, kafkaVars
<1>6. CASE Announce
  <2>1. Published("stored", job.msg.req, None, {"ok", "failed"})
    BY <1>6, Traffic
  <2>2. done'["ocrRequests"] = done["ocrRequests"]
    BY <1>6, OtherTopics DEF Announce
  <2>3. QED
    BY <2>1, <2>2 DEF Published
<1>7. ASSUME NEW m \in log["ocrResults"], CountVote(m) PROVE Same
  <2>1. done'["ocrRequests"] = done["ocrRequests"]
    BY <1>7, OtherTopics DEF CountVote
  <2>2. QED
    BY <1>7, <2>1 DEF CountVote
<1>8. ASSUME NEW t \in Topics, Commit(t) PROVE Same
  <2>1. /\ \A u \in Topics \ {t} : log'[u] = log[u] /\ done'[u] = done[u]
        /\ log'[t] = log[t] \ done[t] /\ done'[t] = {}
    BY <1>8, OtherTopics
  <2>2. sent' = sent
    BY <1>8 DEF Commit
  <2>3. QED
    BY <2>1, <2>2
<1>9. ASSUME NEW t \in Topics, Rebalance(t) PROVE Same
  <2>1. Again({t}) /\ t # "ocrRequests" /\ log' = log /\ sent' = sent
    BY <1>9 DEF Rebalance, OnceDelivered
  <2>2. done'["ocrRequests"] = done["ocrRequests"]
    BY <2>1, OtherTopics
  <2>3. QED
    BY <2>1, <2>2
<1>10. CASE CrashDeepStream \/ CrashUploader \/ CrashPlate \/ CrashViolation
  <2>1. /\ log' = log /\ sent' = sent
        /\ Again({"requests"}) \/ Again({"responses"}) \/ Again({"stored", "ocrResults"})
    BY <1>10 DEF CrashDeepStream, CrashUploader, CrashPlate, CrashViolation, OnceDelivered
  <2>2. done'["ocrRequests"] = done["ocrRequests"]
    BY <2>1, OtherTopics
  <2>3. QED
    BY <2>1, <2>2
<1>11. CASE StopUploader
  BY <1>11, AbandonType DEF StopUploader
<1>12. ASSUME NEW m \in log["ocrRequests"], StopPlate(m) PROVE Same
  <2>1. /\ log'["ocrRequests"] = log["ocrRequests"] \ (done["ocrRequests"] \cup {m})
        /\ log'["ocrResults"] = log["ocrResults"] /\ sent' = sent
    BY <1>12, AbandonType DEF StopPlate
  <2>2. QED
    BY <2>1
<1>13. CASE UNCHANGED vars
  BY <1>13 DEF vars, kafkaVars
<1>14. QED
  BY <1>1, <1>2, <1>3, <1>4, <1>5, <1>6, <1>7, <1>8, <1>9, <1>10, <1>11, <1>12, <1>13
  DEF Next, PollLoop, DeepStream, Uploader, StoredLoop, Plate, Voter

LEMMA ReadOnceStep ==
    ASSUME TypeOK, OnceInv, ReadOnce, OnceDelivered, [Next]_vars
    PROVE  ReadOnce'
<1> USE TopicNames DEF Open, OcrTopics
<1>0. /\ \A t \in OcrTopics : log[t] \subseteq Messages /\ sent[t] \in [Requests -> Nat]
      /\ \A t \in OcrTopics : done[t] \subseteq log[t]
      /\ \A m \in Messages : m.req \in Requests
  BY DEF TypeOK, Messages
<1>1. ASSUME NEW m \in log["stored"], HandleStored(m) PROVE ReadOnce'
  <2>1. /\ Published("ocrRequests", m.req, pending[m.req], {None})
        /\ pending[m.req] # None \/ sent' = sent
    BY <1>1, Traffic
  <2>2. done'["ocrRequests"] = done["ocrRequests"]
    BY <1>1, OtherTopics DEF HandleStored
  <2>3. CASE log' = log /\ sent' = sent
    BY <2>2, <2>3 DEF ReadOnce
  <2>4. CASE ~ (log' = log /\ sent' = sent)
    <3>1. PICK n \in Messages :
            /\ n.req = m.req
            /\ log'["ocrRequests"] = log["ocrRequests"] \cup {n}
            /\ sent'["ocrRequests"] = [sent["ocrRequests"] EXCEPT ![m.req] = @ + 1]
      BY <2>1, <2>4 DEF Published
    <3>2. log'["ocrResults"] = log["ocrResults"] /\ sent'["ocrResults"] = sent["ocrResults"]
      BY <2>1 DEF Published
    <3>3. m.req \in Requests /\ sent["ocrRequests"][m.req] \in Nat
      BY <1>0, <2>1 DEF Published
    <3>4. sent'["ocrRequests"][m.req] = sent["ocrRequests"][m.req] + 1
      BY <1>0, <3>1, <3>3
    <3>5. sent' # sent
      BY <3>3, <3>4
    <3>6. sent["ocrRequests"][m.req] = 0
      BY <2>1, <3>3, <3>5 DEF OnceInv
    <3>7. sent["ocrResults"][m.req] = 0 /\ \A k \in log["ocrRequests"] : k.req # m.req
      BY <3>3, <3>6 DEF ReadOnce
    <3>8. \A r \in Requests : sent'["ocrRequests"][r] = IF r = m.req THEN 1 ELSE sent["ocrRequests"][r]
      BY <1>0, <3>1, <3>6
    <3>9. QED
      BY <1>0, <2>2, <3>1, <3>2, <3>7, <3>8 DEF ReadOnce
  <2>5. QED
    BY <2>3, <2>4
<1>2. ASSUME NEW m \in log["ocrRequests"], Recognise(m) PROVE ReadOnce'
  <2>1. Published("ocrResults", m.req, m.cvi, Plates \cup {None})
    BY <1>2, Traffic
  <2>2. m \in Open("ocrRequests") /\ m.req \in Requests
    BY <1>2, ReadyFacts DEF Recognise
  <2>3. done'["ocrRequests"] = done["ocrRequests"] \cup {m}
    BY <1>2 DEF Recognise, Handled, TypeOK
  <2>4. CASE log' = log /\ sent' = sent
    BY <2>3, <2>4 DEF ReadOnce
  <2>5. CASE ~ (log' = log /\ sent' = sent)
    <3>1. PICK n \in Messages :
            /\ n.req = m.req
            /\ log'["ocrResults"] = log["ocrResults"] \cup {n}
            /\ sent'["ocrResults"] = [sent["ocrResults"] EXCEPT ![m.req] = @ + 1]
      BY <2>1, <2>5 DEF Published
    <3>2. log'["ocrRequests"] = log["ocrRequests"] /\ sent'["ocrRequests"] = sent["ocrRequests"]
      BY <2>1 DEF Published
    <3>3. /\ sent["ocrResults"][m.req] = 0 /\ sent["ocrRequests"][m.req] > 0
          /\ \A k \in log["ocrResults"] : k.req # m.req
          /\ \A k \in log["ocrRequests"] : k.req = m.req => k = m
      BY <1>0, <2>2 DEF ReadOnce
    <3>4. \A r \in Requests : sent'["ocrResults"][r] = IF r = m.req THEN 1 ELSE sent["ocrResults"][r]
      BY <1>0, <3>1, <3>3
    <3>5. QED
      BY <1>0, <2>2, <2>3, <3>1, <3>2, <3>3, <3>4 DEF ReadOnce
  <2>6. QED
    BY <2>4, <2>5
<1>3. CASE /\ \A t \in OcrTopics : log'[t] \subseteq log[t] /\ sent'[t] = sent[t]
           /\ log'["ocrRequests"] \ done'["ocrRequests"] \subseteq Open("ocrRequests")
  BY <1>3 DEF ReadOnce
<1>4. QED
  BY <1>1, <1>2, <1>3, ReadingFrame

\* Only plate-service adds results, and only the voter and a death of
\* violation-service change a ballot.
LEMMA VotingFrame ==
    ASSUME TypeOK, OnceDelivered, [Next]_vars
    PROVE  \/ \E m \in log["ocrRequests"] : Recognise(m)
           \/ \E m \in log["ocrResults"] : CountVote(m)
           \/ \E c \in Cvis : Appear(c)
           \/ CrashViolation
           \/ /\ sent'["ocrResults"] = sent["ocrResults"]
              /\ Open("ocrResults")' \subseteq Open("ocrResults")
              /\ ballot' = ballot /\ plate' = plate /\ created' = created /\ live' \subseteq live
<1> USE TopicNames DEF Open
<1> DEFINE Cvi == ballot' = ballot /\ plate' = plate /\ created' = created /\ live' \subseteq live
           Same == /\ sent'["ocrResults"] = sent["ocrResults"]
                   /\ Open("ocrResults")' \subseteq Open("ocrResults")
                   /\ Cvi
<1>1. ASSUME NEW c \in Cvis, Evict(c) PROVE Same
  BY <1>1 DEF Evict, kafkaVars
<1>2. CASE SelectCandidates \/ Register \/ UnlinkFile
  BY <1>2 DEF SelectCandidates, Register, UnlinkFile, kafkaVars, cviVars
<1>3. ASSUME NEW c \in Cvis, NEW r \in Requests, SendRequest(c, r) PROVE Same
  <2>1. Published("requests", r, None, {None})
    BY <1>3, Traffic
  <2>2. QED
    BY <1>3, <2>1 DEF SendRequest, Published, cviVars
<1>4. ASSUME NEW m \in log["requests"], AnswerRequest(m) PROVE Same
  <2>1. Published("responses", m.req, None, {"ok", "failed"})
    BY <1>4, Traffic
  <2>2. done'["ocrResults"] = done["ocrResults"] /\ Cvi
    BY <1>4, OtherTopics DEF AnswerRequest, cviVars
  <2>3. QED
    BY <2>1, <2>2 DEF Published
<1>5. ASSUME NEW m \in log["responses"], UploadSnapshot(m) PROVE Same
  BY <1>5 DEF UploadSnapshot, kafkaVars, cviVars
<1>6. CASE Announce
  <2>1. Published("stored", job.msg.req, None, {"ok", "failed"})
    BY <1>6, Traffic
  <2>2. done'["ocrResults"] = done["ocrResults"] /\ Cvi
    BY <1>6, OtherTopics DEF Announce, cviVars
  <2>3. QED
    BY <2>1, <2>2 DEF Published
<1>7. ASSUME NEW m \in log["stored"], HandleStored(m) PROVE Same
  <2>1. Published("ocrRequests", m.req, pending[m.req], {None})
    BY <1>7, Traffic
  <2>2. done'["ocrResults"] = done["ocrResults"] /\ Cvi
    BY <1>7, OtherTopics DEF HandleStored, cviVars
  <2>3. QED
    BY <2>1, <2>2 DEF Published
<1>8. ASSUME NEW t \in Topics, Commit(t) PROVE Same
  <2>1. /\ \A u \in Topics \ {t} : log'[u] = log[u] /\ done'[u] = done[u]
        /\ log'[t] = log[t] \ done[t] /\ done'[t] = {}
    BY <1>8, OtherTopics
  <2>2. sent' = sent /\ Cvi
    BY <1>8 DEF Commit, cviVars
  <2>3. QED
    BY <2>1, <2>2
<1>9. ASSUME NEW t \in Topics, Rebalance(t) PROVE Same
  <2>1. Again({t}) /\ t # "ocrResults" /\ log' = log /\ sent' = sent /\ Cvi
    BY <1>9 DEF Rebalance, OnceDelivered, cviVars
  <2>2. done'["ocrResults"] = done["ocrResults"]
    BY <2>1, OtherTopics
  <2>3. QED
    BY <2>1, <2>2
<1>10. CASE CrashDeepStream \/ CrashUploader \/ CrashPlate
  <2>1. /\ log' = log /\ sent' = sent /\ Cvi
        /\ Again({"requests"}) \/ Again({"responses"})
    BY <1>10 DEF CrashDeepStream, CrashUploader, CrashPlate, OnceDelivered, cviVars
  <2>2. done'["ocrResults"] = done["ocrResults"]
    BY <2>1, OtherTopics
  <2>3. QED
    BY <2>1, <2>2
<1>11. CASE StopUploader
  BY <1>11, AbandonType DEF StopUploader, cviVars
<1>12. ASSUME NEW m \in log["ocrRequests"], StopPlate(m) PROVE Same
  BY <1>12, AbandonType DEF StopPlate, cviVars
<1>13. CASE UNCHANGED vars
  BY <1>13 DEF vars, kafkaVars, cviVars
<1>14. QED
  BY <1>1, <1>2, <1>3, <1>4, <1>5, <1>6, <1>7, <1>8, <1>9, <1>10, <1>11, <1>12, <1>13
  DEF Next, PollLoop, DeepStream, Uploader, StoredLoop, Plate, Voter

LEMMA VotedOnceStep ==
    ASSUME TypeOK, Shape, ReadOnce, VotedOnce, OnceDelivered, [Next]_vars
    PROVE  VotedOnce'
<1> USE TopicNames DEF Open, OcrTopics
<1>0. /\ log["ocrResults"] \subseteq Messages /\ done["ocrResults"] \subseteq log["ocrResults"]
      /\ sent["ocrResults"] \in [Requests -> Nat]
      /\ live \subseteq Cvis /\ live \subseteq created
      /\ ballot \in [Cvis -> Seq(Votings)]
      /\ \A c \in Cvis : \A i \in DOMAIN ballot[c] : ballot[c][i].req \in Requests
  <2>1. ASSUME NEW c \in Cvis, NEW i \in DOMAIN ballot[c] PROVE ballot[c][i].req \in Requests
    <3>1. ballot[c] \in Seq(Votings)
      BY DEF TypeOK, Votings
    <3>2. ballot[c][i] \in Votings
      BY <3>1
    <3>3. QED
      BY <3>2 DEF Votings
  <2>2. QED
    BY <2>1 DEF TypeOK, Votings
<1>1. ASSUME NEW m \in log["ocrRequests"], Recognise(m) PROVE VotedOnce'
  <2>1. Published("ocrResults", m.req, m.cvi, Plates \cup {None})
    BY <1>1, Traffic
  <2>2. m \in Open("ocrRequests") /\ m.req \in Requests
    BY <1>1, ReadyFacts DEF Recognise
  <2>3. /\ done'["ocrResults"] = done["ocrResults"]
        /\ ballot' = ballot /\ live' = live /\ created' = created
    BY <1>1, OtherTopics DEF Recognise, cviVars
  <2>4. CASE log' = log /\ sent' = sent
    BY <2>3, <2>4 DEF VotedOnce
  <2>5. CASE ~ (log' = log /\ sent' = sent)
    <3>1. PICK n \in Messages :
            /\ n.req = m.req
            /\ log'["ocrResults"] = log["ocrResults"] \cup {n}
            /\ sent'["ocrResults"] = [sent["ocrResults"] EXCEPT ![m.req] = @ + 1]
      BY <2>1, <2>5 DEF Published
    <3>2. sent["ocrResults"][m.req] = 0
      BY <2>2 DEF ReadOnce
    <3>3. \A r \in Requests : sent'["ocrResults"][r] = IF r = m.req THEN 1 ELSE sent["ocrResults"][r]
      BY <1>0, <2>2, <3>1, <3>2
    <3>4. \A c \in Cvis : \A i \in DOMAIN ballot[c] : ballot[c][i].req # m.req
      BY <3>2 DEF VotedOnce
    <3>5. \A c \in Cvis : \A i \in DOMAIN ballot[c] : sent'["ocrResults"][ballot[c][i].req] > 0
      BY <1>0, <3>3, <3>4 DEF VotedOnce
    <3>6. Open("ocrResults")' \subseteq Open("ocrResults") \cup {n}
      BY <2>3, <3>1
    <3>7. \A k \in Open("ocrResults")' : k.cvi \in live =>
            \A i \in DOMAIN ballot[k.cvi] : ballot[k.cvi][i].req # k.req
      BY <1>0, <3>1, <3>4, <3>6 DEF VotedOnce
    <3>8. QED
      BY <2>3, <3>5, <3>7 DEF VotedOnce
  <2>6. QED
    BY <2>4, <2>5
<1>2. ASSUME NEW m \in log["ocrResults"], CountVote(m) PROVE VotedOnce'
  <2>1. /\ m \in Open("ocrResults") /\ m.req \in Requests
        /\ sent' = sent /\ log' = log /\ live' = live /\ created' = created
    BY <1>2, ReadyFacts DEF CountVote
  <2>2. Open("ocrResults")' = Open("ocrResults") \ {m}
    BY <1>0, <1>2, <2>1 DEF CountVote, Handled, TypeOK
  <2>3. CASE ballot' = ballot
    BY <2>1, <2>2, <2>3 DEF VotedOnce
  <2>4. CASE ballot' # ballot
    <3> DEFINE c == m.cvi
               v == [req |-> m.req, plate |-> m.body]
    <3>1. /\ c \in live /\ c \in Cvis /\ m.body \in Plates
          /\ ballot' = [ballot EXCEPT ![c] = Append(ballot[c], v)]
      BY <1>0, <1>2, <2>4 DEF CountVote, Shape
    <3>2. v \in Votings /\ ballot[c] \in Seq(Votings)
      BY <1>0, <2>1, <3>1 DEF Votings
    <3>3. /\ Len(ballot[c]) \in Nat /\ DOMAIN ballot[c] = 1 .. Len(ballot[c])
          /\ DOMAIN ballot'[c] = 1 .. Len(ballot[c]) + 1
          /\ \A i \in DOMAIN ballot[c] : ballot'[c][i] = ballot[c][i]
          /\ ballot'[c][Len(ballot[c]) + 1].req = m.req
      BY <1>0, <3>1, <3>2
    <3>4. \A d \in Cvis \ {c} : ballot'[d] = ballot[d]
      BY <1>0, <3>1
    <3>5. /\ sent["ocrResults"][m.req] > 0
          /\ \A n \in Open("ocrResults")' : n.req # m.req
          /\ \A i \in DOMAIN ballot[c] : ballot[c][i].req # m.req
      BY <2>1, <2>2, <3>1 DEF ReadOnce, VotedOnce
    <3> HIDE DEF c, v
    <3>6. \A i \in DOMAIN ballot'[c] : i \in DOMAIN ballot[c] \/ i = Len(ballot[c]) + 1
      BY <3>3
    <3>7. ASSUME NEW d \in Cvis, NEW i \in DOMAIN ballot'[d]
          PROVE  sent["ocrResults"][ballot'[d][i].req] > 0
      BY <3>3, <3>4, <3>5, <3>6 DEF VotedOnce
    <3>8. ASSUME NEW n \in Open("ocrResults")', n.cvi \in live, NEW i \in DOMAIN ballot'[n.cvi]
          PROVE  ballot'[n.cvi][i].req # n.req
      <4>1. n \in Open("ocrResults") /\ n.req # m.req /\ n.cvi \in Cvis
        BY <1>0, <2>2, <3>5, <3>8
      <4>2. \A j \in DOMAIN ballot[n.cvi] : ballot[n.cvi][j].req # n.req
        BY <3>8, <4>1 DEF VotedOnce
      <4>3. CASE n.cvi = c
        BY <3>3, <3>6, <3>8, <4>1, <4>2, <4>3
      <4>4. CASE n.cvi # c
        BY <3>4, <3>8, <4>1, <4>2, <4>4
      <4>5. QED
        BY <4>3, <4>4
    <3>9. ASSUME NEW d \in Cvis, d \notin created PROVE ballot'[d] = <<>>
      BY <1>0, <3>1, <3>4, <3>9 DEF VotedOnce
    <3>10. ASSUME NEW d \in Cvis, NEW i \in DOMAIN ballot'[d], NEW j \in DOMAIN ballot'[d],
                  ballot'[d][i].req = ballot'[d][j].req
           PROVE  i = j
      <4>1. CASE d = c
        BY <3>1, <3>3, <3>5, <3>6, <3>10, <4>1 DEF VotedOnce
      <4>2. CASE d # c
        BY <3>4, <3>10, <4>2 DEF VotedOnce
      <4>3. QED
        BY <4>1, <4>2
    <3>11. QED
      BY <2>1, <3>7, <3>8, <3>9, <3>10 DEF VotedOnce
  <2>5. QED
    BY <2>3, <2>4
<1>3. ASSUME NEW c \in Cvis, Appear(c) PROVE VotedOnce'
  <2>1. /\ c \notin created /\ live' = live \cup {c} /\ created' = created \cup {c}
        /\ ballot' = ballot /\ sent' = sent /\ log' = log /\ done' = done
    BY <1>3 DEF Appear, kafkaVars
  <2>2. DOMAIN ballot[c] = {}
    BY <2>1 DEF VotedOnce
  <2>3. QED
    BY <2>1, <2>2 DEF VotedOnce
<1>4. CASE CrashViolation
  <2>1. live' = {} /\ sent' = sent /\ \A c \in Cvis : ballot'[c] = <<>>
    BY <1>4 DEF CrashViolation
  <2>2. \A c \in Cvis : DOMAIN ballot'[c] = {}
    BY <2>1
  <2>3. QED
    BY <2>1, <2>2 DEF VotedOnce
<1>5. CASE /\ sent'["ocrResults"] = sent["ocrResults"]
           /\ Open("ocrResults")' \subseteq Open("ocrResults")
           /\ ballot' = ballot /\ created' = created /\ live' \subseteq live
  BY <1>5 DEF VotedOnce
<1>6. QED
  BY <1>1, <1>2, <1>3, <1>4, <1>5, VotingFrame

LEMMA ElectedStep ==
    ASSUME TypeOK, Shape, Elected, OnceDelivered, [Next]_vars
    PROVE  Elected'
<1>1. ASSUME NEW m \in log["ocrResults"], CountVote(m) PROVE Elected'
  <2>1. CASE UNCHANGED <<ballot, plate>>
    BY <2>1 DEF Elected
  <2>2. CASE ~ UNCHANGED <<ballot, plate>>
    <3> DEFINE c == m.cvi
               v == [req |-> m.req, plate |-> m.body]
               votes == Append(ballot[c], v)
    <3>1. /\ m.req \in Requests /\ c \in Cvis /\ m.body \in Plates
          /\ ballot' = [ballot EXCEPT ![c] = votes]
          /\ plate' = [plate EXCEPT ![c] = PlateAfter(PlatesOf(votes), plate[c])]
      BY <1>1, <2>2, ReadyFacts, TopicNames DEF CountVote, Shape, TypeOK
    <3>2. /\ v \in Votings /\ ballot[c] \in Seq(Votings) /\ votes \in Seq(Votings)
          /\ plate[c] \in Plates \cup {None}
          /\ ballot'[c] = votes /\ plate'[c] = PlateAfter(PlatesOf(votes), plate[c])
      <4>1. v \in Votings
        BY <3>1 DEF Votings
      <4>2. ballot \in [Cvis -> Seq(Votings)] /\ plate \in [Cvis -> Plates \cup {None}]
        BY DEF TypeOK, Votings
      <4>3. ballot[c] \in Seq(Votings) /\ plate[c] \in Plates \cup {None}
        BY <3>1, <4>2
      <4>4. votes \in Seq(Votings)
        BY <4>1, <4>3
      <4>5. QED
        BY <3>1, <4>1, <4>2, <4>3, <4>4
    <3>3. \A d \in Cvis \ {c} : ballot'[d] = ballot[d] /\ plate'[d] = plate[d]
      BY <3>1 DEF TypeOK
    <3>4. /\ PlatesOf(ballot[c]) \in Seq(Plates) /\ PlatesOf(votes) \in Seq(Plates)
          /\ PlatesOf(votes) = Append(PlatesOf(ballot[c]), m.body)
      BY <3>2, PlatesOfType, PlatesOfAppend
    <3>5. CASE plate'[c] # plate[c]
      <4>1. Votes(PlatesOf(ballot'[c]), plate'[c]) >= Majority
        BY <3>2, <3>4, <3>5, ElectedWithMajority
      <4>2. QED
        BY <3>3, <4>1 DEF Elected
    <3>6. CASE plate'[c] = plate[c]
      <4>1. Votes(PlatesOf(votes), plate[c]) >= Votes(PlatesOf(ballot[c]), plate[c])
        BY <3>1, <3>4, VotesGrow
      <4>2. Votes(PlatesOf(votes), plate[c]) \in Nat /\ Votes(PlatesOf(ballot[c]), plate[c]) \in Nat
        BY <3>4, VotesType
      <4>3. plate'[c] # None => Votes(PlatesOf(ballot'[c]), plate'[c]) >= Majority
        BY <3>1, <3>2, <3>6, <4>1, <4>2, MajorityAssumption DEF Elected
      <4>4. QED
        BY <3>3, <4>3 DEF Elected
    <3>7. QED
      BY <3>5, <3>6
  <2>3. QED
    BY <2>1, <2>2
<1>2. CASE CrashViolation
  BY <1>2 DEF CrashViolation, Elected
<1>3. ASSUME NEW c \in Cvis, Appear(c) PROVE Elected'
  BY <1>3 DEF Appear, Elected
<1>4. ASSUME NEW m \in log["ocrRequests"], Recognise(m) PROVE Elected'
  BY <1>4 DEF Recognise, cviVars, Elected
<1>5. CASE ballot' = ballot /\ plate' = plate
  BY <1>5 DEF Elected
<1>6. QED
  BY <1>1, <1>2, <1>3, <1>4, <1>5, VotingFrame

\* As many snapshots as votes: no two votes of a CVI come from one snapshot.
LEMMA SnapshotsAreVotes ==
    ASSUME TypeOK, VotedOnce, NEW c \in Cvis, NEW p \in Plates
    PROVE  Cardinality(Snapshots(c, p)) = Votes(PlatesOf(ballot[c]), p)
<1> DEFINE b == ballot[c]
           V == {i \in DOMAIN PlatesOf(b) : PlatesOf(b)[i] = p}
           f == [i \in V |-> b[i].req]
<1>1. b \in Seq(Votings)
  BY DEF TypeOK, Votings
<1>2. /\ PlatesOf(b) \in Seq(Plates) /\ DOMAIN PlatesOf(b) = DOMAIN b
      /\ \A i \in DOMAIN b : PlatesOf(b)[i] = b[i].plate
  BY <1>1, PlatesOfType
<1>3. V = {i \in DOMAIN b : b[i].plate = p}
  BY <1>2
<1>4. \A i \in DOMAIN b : b[i] \in Votings
  BY <1>1
<1>5. \A i \in V : b[i] = [req |-> b[i].req, plate |-> p] /\ b[i].req \in Requests
  BY <1>3, <1>4 DEF Votings
<1>6. Snapshots(c, p) = {b[i].req : i \in V}
  <2>1. ASSUME NEW r \in Requests, NEW i \in DOMAIN b, b[i] = [req |-> r, plate |-> p]
        PROVE  i \in V /\ b[i].req = r
    BY <1>3, <2>1
  <2>2. QED
    BY <1>3, <1>5, <2>1 DEF Snapshots
<1>7. \A i, j \in V : b[i].req = b[j].req => i = j
  BY <1>3 DEF VotedOnce
<1>8. f \in Bijection(V, Snapshots(c, p))
  BY <1>6, <1>7, Fun_IsBij
<1>9. IsFiniteSet(V)
  BY <1>2, VotesType
<1>10. Cardinality(V) = Cardinality(Snapshots(c, p))
  BY <1>8, <1>9, FS_Bijection DEF ExistsBijection
<1>11. QED
  BY <1>10 DEF Votes

\* When plate-service and the topics around it deliver once, no result votes twice,
\* and a plate has the majority: the invariant of the votes.
LEMMA VotesCountedOnce ==
    ASSUME OnceDelivered
    PROVE  Spec => []VotingInv
<1>1. Init => VotingInv
  BY TopicNames DEF Init, VotingInv, ReadOnce, VotedOnce, Elected, Open, OcrTopics
<1>2. TypeOK /\ Shape /\ OnceInv /\ VotingInv /\ [Next]_vars => VotingInv'
  BY ReadOnceStep, VotedOnceStep, ElectedStep DEF VotingInv
<1>3. Init => OnceInv
  BY TopicNames, NoneAssumption DEF Init, NoPass, OnceInv
<1>4. TypeOK /\ Shape /\ OnceInv /\ [Next]_vars => OnceInv'
  BY OnceStep
<1> QED
  BY <1>1, <1>2, <1>3, <1>4, TypeCorrect, PTL DEF Spec

\* Then a plate is elected by readings of different snapshots, whatever happens to
\* the rest of the pipeline (record_plate_vote counts results, and
\* _handle_snapshot_stored keeps them apart).
THEOREM PlateByDistinctSnapshots ==
    ASSUME OnceDelivered
    PROVE  Spec => []DistinctReadings
<1>1. TypeOK /\ VotingInv => DistinctReadings
  BY SnapshotsAreVotes DEF VotingInv, Elected, DistinctReadings, TypeOK
<1> QED
  BY <1>1, VotesCountedOnce, TypeCorrect, PTL

-------------------------------------------------------------------------------
(* No crop is lost on its way *)

\* snapshot-consumer removes a file, and announces success, only for a crop that it
\* has uploaded.
InHand == job # None /\ (job.next = "unlink" \/ job.result = "ok") => job.msg.req \in objects

CropInv == CropsKept /\ InHand

\* A step that leaves the crops alone: messages may be committed, and
\* snapshot-consumer may drop the response that it works on.
OffTheWay ==
    /\ log'["responses"] \subseteq log["responses"] /\ log'["stored"] \subseteq log["stored"]
    /\ files' = files /\ objects' = objects /\ job' \in {job, None}

LEMMA CropFrame ==
    ASSUME TypeOK, [Next]_vars
    PROVE  \/ \E m \in log["requests"] : AnswerRequest(m)
           \/ \E m \in log["responses"] : UploadSnapshot(m)
           \/ UnlinkFile \/ Announce
           \/ OffTheWay
<1> USE TopicNames DEF OffTheWay
<1>1. ASSUME NEW c \in Cvis, Appear(c) \/ Evict(c) PROVE OffTheWay
  BY <1>1 DEF Appear, Evict, kafkaVars, storageVars
<1>2. CASE SelectCandidates \/ Register
  BY <1>2 DEF SelectCandidates, Register, kafkaVars, storageVars
<1>3. ASSUME NEW c \in Cvis, NEW r \in Requests, SendRequest(c, r) PROVE OffTheWay
  <2>1. Published("requests", r, None, {None})
    BY <1>3, Traffic
  <2> QED
    BY <1>3, <2>1 DEF Published, SendRequest, storageVars
<1>4. ASSUME NEW m \in log["stored"], HandleStored(m) PROVE OffTheWay
  <2>1. Published("ocrRequests", m.req, pending[m.req], {None})
    BY <1>4, Traffic
  <2> QED
    BY <1>4, <2>1 DEF Published, HandleStored, storageVars
<1>5. ASSUME NEW m \in log["ocrRequests"], Recognise(m) PROVE OffTheWay
  <2>1. Published("ocrResults", m.req, m.cvi, Plates \cup {None})
    BY <1>5, Traffic
  <2> QED
    BY <1>5, <2>1 DEF Published, Recognise, storageVars
<1>6. ASSUME NEW m \in log["ocrResults"], CountVote(m) PROVE OffTheWay
  BY <1>6 DEF CountVote, storageVars
<1>7. ASSUME NEW t \in Topics, Commit(t) PROVE OffTheWay
  <2>1. \A u \in Topics : log'[u] \subseteq log[u]
    BY <1>7, OtherTopics
  <2> QED
    BY <1>7, <2>1 DEF Commit, storageVars
<1>8. ASSUME NEW t \in Topics, Rebalance(t) PROVE OffTheWay
  BY <1>8 DEF Rebalance, storageVars
<1>9. CASE CrashDeepStream \/ CrashUploader \/ CrashPlate \/ CrashViolation
  BY <1>9 DEF CrashDeepStream, CrashUploader, CrashPlate, CrashViolation, storageVars
<1>10. CASE StopUploader
  <2>1. \A u \in Topics : log'[u] \subseteq log[u]
    BY <1>10, AbandonType DEF StopUploader
  <2> QED
    BY <1>10, <2>1 DEF StopUploader
<1>11. ASSUME NEW m \in log["ocrRequests"], StopPlate(m) PROVE OffTheWay
  <2>1. \A u \in Topics : log'[u] \subseteq log[u]
    BY <1>11, AbandonType DEF StopPlate
  <2> QED
    BY <1>11, <2>1 DEF StopPlate, storageVars
<1>12. CASE UNCHANGED vars
  BY <1>12 DEF vars, kafkaVars, storageVars
<1> QED
  BY <1>1, <1>2, <1>3, <1>4, <1>5, <1>6, <1>7, <1>8, <1>9, <1>10, <1>11, <1>12
  DEF Next, PollLoop, DeepStream, Uploader, StoredLoop, Plate, Voter

LEMMA CropStep ==
    ASSUME TypeOK, CropInv, [Next]_vars
    PROVE  CropInv'
<1> USE TopicNames DEF CropInv, CropsKept, InHand
<1>1. ASSUME NEW m \in log["requests"], AnswerRequest(m) PROVE CropInv'
  <2>1. PICK body \in {"ok", "failed"}, o \in SendOutcomes :
          /\ files' = IF body = "ok" THEN files \cup {m.req} ELSE files
          /\ Publish("responses", m.req, None, body, o)
    BY <1>1 DEF AnswerRequest
  <2>2. Published("responses", m.req, None, {body})
    BY <1>1, <2>1, ReadyFacts, PublishFacts DEF AnswerRequest
  <2>3. \A k \in log'["responses"] :
           k \in log["responses"] \/ (k.req = m.req /\ k.body = body)
    BY <2>2 DEF Published
  <2>4. log'["stored"] = log["stored"] /\ objects' = objects /\ job' = job
    BY <1>1, <2>2 DEF Published, AnswerRequest
  <2>5. files \subseteq files' /\ (body = "ok" => m.req \in files')
    BY <2>1
  <2> QED
    BY <2>3, <2>4, <2>5
<1>2. ASSUME NEW m \in log["responses"], UploadSnapshot(m) PROVE CropInv'
  <2>1. log' = log /\ files' = files /\ objects \subseteq objects'
    BY <1>2 DEF UploadSnapshot, kafkaVars
  <2>2. \/ job' = Job(m, "unlink", "ok") /\ m.req \in objects'
        \/ job' = Job(m, "announce", "failed")
    BY <1>2 DEF UploadSnapshot
  <2>3. InHand'
    BY <2>2 DEF Job
  <2> QED
    BY <2>1, <2>3
<1>3. CASE UnlinkFile
  <2>1. job # None /\ job.msg.req \in objects /\ job \in Jobs
    BY <1>3 DEF UnlinkFile, TypeOK
  <2>2. job'.msg = job.msg /\ objects' = objects /\ log' = log
    BY <1>3, <2>1 DEF UnlinkFile, Jobs, kafkaVars
  <2>3. files' = files \/ files' = files \ {job.msg.req}
    BY <1>3 DEF UnlinkFile
  <2> QED
    BY <2>1, <2>2, <2>3
<1>4. CASE Announce
  <2>1. /\ job \in Jobs /\ job # None
        /\ job.msg.req \in Requests /\ job.result \in {"ok", "failed"}
    BY <1>4 DEF Announce, TypeOK, Jobs, Messages
  <2>2. PICK o \in SendOutcomes : Publish("stored", job.msg.req, None, job.result, o)
    BY <1>4 DEF Announce
  <2>3. Published("stored", job.msg.req, None, {job.result})
    BY <2>1, <2>2, PublishFacts
  <2>4. \A k \in log'["stored"] :
           k \in log["stored"] \/ (k.req = job.msg.req /\ k.body = job.result)
    BY <2>3 DEF Published
  <2>5. /\ log'["responses"] = log["responses"] /\ files' = files /\ objects' = objects
        /\ job' = None
    BY <1>4, <2>3 DEF Announce, Published
  <2>6. job.result = "ok" => job.msg.req \in objects
    BY <2>1
  <2> QED
    BY <2>4, <2>5, <2>6
<1>5. CASE OffTheWay
  BY <1>5 DEF OffTheWay
<1> QED
  BY <1>1, <1>2, <1>3, <1>4, <1>5, CropFrame

\* A crop that was reported is on the shared volume until it is in MinIO, and one
\* that was announced is there, whatever dies, is delivered twice or is refused:
\* handle (uploader.py) unlinks behind the upload, and reports success behind both.
THEOREM CropsSurvive == Spec => []CropsKept
<1>1. Init => CropInv
  BY TopicNames DEF Init, CropInv, CropsKept, InHand
<1>2. TypeOK /\ CropInv /\ [Next]_vars => CropInv'
  BY CropStep
<1>3. CropInv => CropsKept
  BY DEF CropInv
<1> QED
  BY <1>1, <1>2, <1>3, TypeCorrect, PTL DEF Spec

-------------------------------------------------------------------------------
(* The round trip implements PlateElection *)

\* As many votes as there are readings of p: no two come from one snapshot.
LEMMA SupportIsVotes ==
    ASSUME NEW b \in Seq(Votings), NEW p,
           \A i, j \in DOMAIN b : b[i].req = b[j].req => i = j
    PROVE  Election!Support(Range(b), p) = Votes(PlatesOf(b), p)
<1> DEFINE V == {i \in DOMAIN PlatesOf(b) : PlatesOf(b)[i] = p}
           W == {v \in Range(b) : v.plate = p}
           f == [i \in V |-> b[i]]
<1>1. /\ PlatesOf(b) \in Seq(Plates) /\ DOMAIN PlatesOf(b) = DOMAIN b
      /\ \A i \in DOMAIN b : PlatesOf(b)[i] = b[i].plate
  BY PlatesOfType
<1>2. V = {i \in DOMAIN b : b[i].plate = p}
  BY <1>1
<1>3. \A i \in V : b[i] \in W
  BY <1>2 DEF Range
<1>4. \A w \in W : \E i \in V : b[i] = w
  BY <1>2 DEF Range
<1>5. \A i, j \in V : b[i] = b[j] => i = j
  BY <1>2
<1>6. IsFiniteSet(V)
  BY <1>1, VotesType
<1>7. Election!Support(Range(b), p) = Cardinality(W)
  BY Zenon DEF Election!Support, Election!Cardinality, Cardinality
<1>8. Votes(PlatesOf(b), p) = Cardinality(V)
  BY DEF Votes
<1> HIDE DEF V, W
<1>9. f \in Bijection(V, W)
  <2>1. f \in [V -> W]
    BY <1>3
  <2> QED
    BY <1>4, <1>5, <2>1, Fun_IsBij
<1>10. Cardinality(V) = Cardinality(W)
  BY <1>6, <1>9, FS_Bijection DEF ExistsBijection
<1> QED
  BY <1>7, <1>8, <1>10

\* A result that is counted is a vote of a snapshot that has not voted.
LEMMA VoteSimulation ==
    ASSUME TypeOK, TypeOK', Shape, VotingInv, VotingInv',
           NEW m \in log["ocrResults"], CountVote(m)
    PROVE  UNCHANGED <<live, created, Cast, Held>> \/ Election!Vote(m.cvi, m.req, m.body)
<1> DEFINE c == m.cvi
           v == [req |-> m.req, plate |-> m.body]
           b == ballot[c]
           votes == Append(b, v)
<1>1. /\ m \in Open("ocrResults") /\ m.req \in Requests
      /\ live' = live /\ created' = created
  BY ReadyFacts, TopicNames DEF CountVote, Open
<1>2. CASE UNCHANGED <<ballot, plate>>
  BY <1>1, <1>2 DEF Cast, Held
<1>3. CASE ~ UNCHANGED <<ballot, plate>>
  <2>1. /\ c \in live /\ c \in Cvis /\ m.body \in Plates
        /\ ballot' = [ballot EXCEPT ![c] = votes]
        /\ plate' = [plate EXCEPT ![c] = PlateAfter(PlatesOf(votes), plate[c])]
    BY <1>3 DEF CountVote, Shape, TypeOK
  <2>2. ballot \in [Cvis -> Seq(Votings)] /\ plate \in [Cvis -> Plates \cup {None}]
    BY DEF TypeOK, Votings
  <2>3. b \in Seq(Votings) /\ v \in Votings /\ plate[c] \in Plates \cup {None}
    BY <1>1, <2>1, <2>2 DEF Votings
  <2>4. votes \in Seq(Votings)
    <3> HIDE DEF b, v
    <3> QED
      BY <2>3
  <2>5. ballot'[c] = votes /\ plate'[c] = PlateAfter(PlatesOf(votes), plate[c])
    BY <2>1, <2>2
  <2>6. \A d \in Cvis \ {c} : ballot'[d] = ballot[d] /\ plate'[d] = plate[d]
    BY <2>1, <2>2
  <2>7. \A i, j \in DOMAIN votes : votes[i].req = votes[j].req => i = j
    BY <2>1, <2>5 DEF VotingInv, VotedOnce
  <2>8. Cast[c] = Range(b) /\ \A w \in Cast[c] : w.req # m.req
    <3>1. Cast[c] = Range(b)
      BY <2>1 DEF Cast
    <3>2. \A i \in DOMAIN b : b[i].req # m.req
      BY <1>1, <2>1 DEF VotingInv, VotedOnce
    <3> QED
      BY <3>1, <3>2 DEF Range
  <2> DEFINE cast == Cast[c] \cup {v}
  <2>9. Range(votes) = cast
    <3>1. Cast[c] = Range(b)
      BY <2>8
    <3>2. /\ DOMAIN b = 1 .. Len(b) /\ DOMAIN votes = 1 .. Len(b) + 1 /\ Len(b) \in Nat
          /\ \A i \in 1 .. Len(b) : votes[i] = b[i]
          /\ votes[Len(b) + 1] = v
      <4> HIDE DEF b, v
      <4> QED
        BY <2>3
    <3> HIDE DEF b, v, votes
    <3>3. \A i \in DOMAIN votes : i \in DOMAIN b \/ i = Len(b) + 1
      BY <3>2
    <3> QED
      BY <3>1, <3>2, <3>3 DEF Range
  <2>10. Cast' = [Cast EXCEPT ![c] = cast]
    <3>1. \A d \in Cvis : Cast'[d] = IF d \in live THEN Range(ballot'[d]) ELSE {}
      BY <1>1 DEF Cast
    <3>2. Cast'[c] = cast
      BY <2>1, <2>5, <2>9, <3>1
    <3>3. \A d \in Cvis \ {c} : Cast'[d] = Cast[d]
      BY <2>6, <3>1 DEF Cast
    <3>4. Cast' = [d \in Cvis |-> Cast'[d]] /\ Cast = [d \in Cvis |-> Cast[d]]
      BY DEF Cast
    <3> HIDE DEF cast
    <3> QED
      BY <2>1, <3>2, <3>3, <3>4
  <2>11. Held' = [Held EXCEPT ![c] = PlateAfter(PlatesOf(votes), plate[c])]
    <3>1. \A d \in Cvis : Held'[d] = IF d \in live THEN plate'[d] ELSE None
      BY <1>1 DEF Held
    <3>2. Held' = [d \in Cvis |-> Held'[d]] /\ Held = [d \in Cvis |-> Held[d]]
      BY DEF Held
    <3>3. \A d \in Cvis \ {c} : Held'[d] = Held[d]
      BY <2>6, <3>1 DEF Held
    <3>4. Held'[c] = PlateAfter(PlatesOf(votes), plate[c])
      BY <2>1, <2>5, <3>1
    <3> QED
      BY <2>1, <3>2, <3>3, <3>4
  <2>12. Held[c] = plate[c]
    BY <2>1 DEF Held
  <2>13. \A p : Election!Support(cast, p) = Votes(PlatesOf(votes), p)
    <3> HIDE DEF votes, cast
    <3> QED
      BY <2>4, <2>7, <2>9, SupportIsVotes
  <2>14. PlatesOf(votes) \in Seq(Plates)
    BY <2>4, PlatesOfType
  <2> DEFINE elected == PlateAfter(PlatesOf(votes), plate[c])
  <2> HIDE DEF votes
  <2>15. IF \E q \in Plates : Election!Support(cast, q) >= Majority
         THEN \E q \in Election!Leaders(cast) : Held' = [Held EXCEPT ![c] = q]
         ELSE Held' = Held
    <3>1. CASE \E q \in Plates : Election!Support(cast, q) >= Majority
      <4>1. PICK q \in Plates : Votes(PlatesOf(votes), q) >= Majority
        BY <2>13, <3>1
      <4>2. /\ elected \in Plates
            /\ \A r \in Plates : Votes(PlatesOf(votes), r) <= Votes(PlatesOf(votes), elected)
        BY <2>3, <2>14, <4>1, MajorityElects
      <4>3. elected \in Election!Leaders(cast)
        <5> HIDE DEF elected, cast
        <5>1. \A r \in Plates : Election!Support(cast, r) <= Election!Support(cast, elected)
          BY <2>13, <4>2
        <5> QED
          BY <4>2, <5>1 DEF Election!Leaders
      <4> QED
        BY <2>11, <3>1, <4>3
    <3>2. CASE ~ \E q \in Plates : Election!Support(cast, q) >= Majority
      <4>1. elected \in Plates \cup {None}
        BY <2>3, <2>14, PlateAfterType
      <4>2. elected # plate[c] => Votes(PlatesOf(votes), elected) >= Majority
        BY <2>3, <2>14, ElectedWithMajority
      <4>3. Votes(PlatesOf(votes), None) = 0
        BY <2>14, VotesBound, NoneIsNoPlate
      <4>4. elected = plate[c]
        BY <2>13, <3>2, <4>1, <4>2, <4>3, MajorityAssumption
      <4>5. Held = [Held EXCEPT ![c] = Held[c]]
        BY <2>1 DEF Held
      <4> QED
        BY <2>11, <2>12, <3>2, <4>4, <4>5
    <3> QED
      BY <3>1, <3>2
  <2> HIDE DEF elected
  <2> QED
    BY <1>1, <2>1, <2>8, <2>10, <2>15 DEF Election!Vote
<1> QED
  BY <1>2, <1>3

\* A CVI that is given out has no votes left over from an earlier one.
LEMMA AppearSimulation ==
    ASSUME TypeOK, VotedOnce, Elected, NEW c \in Cvis, Appear(c)
    PROVE  Election!Appear(c)
<1>1. /\ c \notin created /\ c \notin live
      /\ live' = live \cup {c} /\ created' = created \cup {c}
      /\ ballot' = ballot /\ plate' = plate
  BY DEF Appear, TypeOK
<1>2. ballot[c] = <<>>
  BY <1>1 DEF VotedOnce
<1>3. plate[c] = None
  <2>1. Votes(PlatesOf(<<>>), plate[c]) = 0
    <3>1. <<>> \in Seq(Votings) /\ DOMAIN <<>> = {}
      OBVIOUS
    <3>2. PlatesOf(<<>>) \in Seq(Plates) /\ DOMAIN PlatesOf(<<>>) = {}
      BY <3>1, PlatesOfType
    <3> QED
      BY <3>2, VotesBound
  <2> QED
    BY <1>2, <2>1, MajorityAssumption DEF Elected
<1>4. Range(ballot[c]) = {}
  BY <1>2 DEF Range
<1>5. Cast' = Cast /\ Held' = Held
  BY <1>1, <1>3, <1>4 DEF Cast, Held
<1> QED
  BY <1>1, <1>5 DEF Election!Appear

\* CVIs that leave the memory leave with their votes, evicted or in a crash.
LEMMA RetireSimulation ==
    ASSUME created' = created, live' \subseteq live,
           \A c \in Cvis : c \in live' => ballot'[c] = ballot[c] /\ plate'[c] = plate[c]
    PROVE  \E gone \in SUBSET live : Election!Retire(gone)
<1> DEFINE gone == live \ live'
<1>1. live' = live \ gone /\ gone \in SUBSET live
  OBVIOUS
<1>2. Cast' = [c \in Cvis |-> IF c \in gone THEN {} ELSE Cast[c]]
  BY DEF Cast
<1>3. Held' = [c \in Cvis |-> IF c \in gone THEN None ELSE Held[c]]
  BY DEF Held
<1> QED
  BY <1>1, <1>2, <1>3 DEF Election!Retire

LEMMA ElectionSimulation ==
    ASSUME TypeOK, TypeOK', Shape, VotingInv, VotingInv', OnceDelivered, [Next]_vars
    PROVE  Election!Next \/ UNCHANGED <<live, created, Cast, Held>>
<1>1. ASSUME NEW m \in log["ocrRequests"], Recognise(m)
      PROVE  UNCHANGED <<live, created, Cast, Held>>
  BY <1>1 DEF Recognise, cviVars, Cast, Held
<1>2. ASSUME NEW m \in log["ocrResults"], CountVote(m)
      PROVE  Election!Next \/ UNCHANGED <<live, created, Cast, Held>>
  <2>1. m.req \in Requests /\ m.body \in Plates \cup {None}
    BY <1>2, ReadyFacts, TopicNames DEF CountVote, Shape
  <2>2. CASE m.body = None
    BY <1>2, <2>2 DEF CountVote, Cast, Held
  <2>3. CASE m.cvi \notin live
    BY <1>2, <2>3 DEF CountVote, Cast, Held
  <2>4. CASE m.body # None /\ m.cvi \in live
    BY <1>2, <2>1, <2>4, VoteSimulation DEF Election!Next, TypeOK
  <2> QED
    BY <2>2, <2>3, <2>4
<1>3. ASSUME NEW c \in Cvis, Appear(c) PROVE Election!Next
  BY <1>3, AppearSimulation DEF Election!Next, VotingInv
<1>4. CASE CrashViolation
  <2>1. created' = created /\ live' = {}
    BY <1>4 DEF CrashViolation
  <2> QED
    BY <2>1, RetireSimulation DEF Election!Next
<1>5. CASE ballot' = ballot /\ plate' = plate /\ created' = created /\ live' \subseteq live
  BY <1>5, RetireSimulation DEF Election!Next
<1> QED
  BY <1>1, <1>2, <1>3, <1>4, <1>5, VotingFrame

\* When plate-service and the topics around it deliver once, the round trip of a
\* snapshot implements PlateElection: one vote of a snapshot, whatever is sent again,
\* and the leader for a plate from the vote on that gives one the majority.
THEOREM OcrImplementsElection ==
    ASSUME OnceDelivered
    PROVE  Spec => ElectionSpec
<1>1. Init => Election!Init
  BY DEF Init, Election!Init, Cast, Held
<1>2. TypeOK /\ TypeOK' /\ Shape /\ VotingInv /\ VotingInv' /\ [Next]_vars
        => [Election!Next]_<<live, created, Cast, Held>>
  BY ElectionSimulation
<1> QED
  BY <1>1, <1>2, VotesCountedOnce, TypeCorrect, PTL DEF Spec, ElectionSpec, Election!Spec
===============================================================================
