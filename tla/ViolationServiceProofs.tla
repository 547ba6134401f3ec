----------------------- MODULE ViolationServiceProofs -----------------------
(***************************************************************************)
(* Theorems about ViolationService, for every value of its constants.      *)
(***************************************************************************)
EXTENDS ViolationService, PlateVotesProofs

-------------------------------------------------------------------------------
(* Lemmas about the operators of the specification *)

\* The constants that are times are natural numbers.
LEMMA TimesType ==
    /\ Threshold \in Nat /\ ExitConfirm \in Nat /\ Cooldown \in Nat /\ ActiveTtl \in Nat
    /\ Threshold > 0 /\ ExitConfirm > 0 /\ Cooldown > 0 /\ ActiveTtl > 0
    /\ FrameGap \in Nat /\ MatchWindow \in Nat /\ EvictIdle \in Nat
BY TimesAssumption

\* The control records of the handler are well typed.
LEMMA AtType ==
    ASSUME NEW s \in Steps
    PROVE  At(s) \in Handlers
BY DEF At, Handlers

\* A message begins with its first object, or is committed if it has none.
LEMMA BeginType ==
    ASSUME NEW m \in Messages
    PROVE  /\ Begin(m) \in Handlers
           /\ \/ Begin(m).step = "commit"
              \/ Begin(m).step = "object" /\ Begin(m).obj = 1 /\ 1 \in 1 .. Len(m.objects)
<1>1. At("commit") \in Handlers /\ At("object") \in Handlers
  BY AtType DEF Steps
<1>2. CASE m.objects = <<>>
  BY <1>1, <1>2 DEF Begin, At
<1>3. CASE m.objects # <<>>
  <2>1. Len(m.objects) \in Nat /\ Len(m.objects) # 0
    BY <1>3, EmptySeq DEF Messages
  <2>2. QED
    BY <1>1, <1>3, <2>1 DEF Begin, At
<1>4. QED
  BY <1>2, <1>3

\* Advance leaves a well-typed control record.
LEMMA AdvanceType ==
    ASSUME TypeOK, NEW z \in Zones, h.step = "zone" \/ h.step = "firing" \/ h.step = "marking",
           msg \in Messages, Advance(z)
    PROVE  h' \in Handlers
<1>1. h \in Handlers /\ Len(msg.objects) \in Nat
  BY DEF TypeOK, Messages
<1>2. h.obj \in Nat /\ h.cvi \in Cvis \cup {None} /\ h.todo \in SUBSET Zones
  BY <1>1 DEF Handlers
<1>3. At("zone") \in Handlers /\ At("object") \in Handlers /\ At("commit") \in Handlers
  BY AtType DEF Steps
<1>4. [At("zone") EXCEPT !.obj = h.obj, !.cvi = h.cvi, !.todo = h.todo \ {z}] \in Handlers
  BY <1>2, <1>3 DEF Handlers, At
<1>5. [At("object") EXCEPT !.obj = h.obj + 1] \in Handlers
  BY <1>2, <1>3 DEF Handlers, At
<1>6. QED
  BY <1>3, <1>4, <1>5 DEF Advance

\* An entry set to a well-typed value leaves all entries well typed.
LEMMA SetEntryType ==
    ASSUME TypeOK, h.cvi \in Cvis, NEW z \in Zones, NEW e \in Entries, SetEntry(z, e)
    PROVE  entry' \in [Cvis -> [Zones -> Entries]]
BY DEF TypeOK, SetEntry

-------------------------------------------------------------------------------
(* The inductive invariant, part 1: control state, entries and timestamps *)

\* The control record of the handler agrees with the message it works on.
HandlerOK ==
    /\ h.step \notin {"down", "idle"} => msg \in Messages
    /\ h.step \in {"object", "zone", "firing", "inserting", "marking"} =>
           h.obj \in 1 .. Len(msg.objects)
    /\ h.step \in {"zone", "firing", "inserting", "marking"} => h.cvi \in created
    /\ h.step \in {"firing", "inserting", "marking"} => h.zone \in Zones /\ h.ident \in Keys
    /\ h.step \in {"firing", "inserting"} =>
           /\ Current(h.zone).state = "INSIDE_ZONE"
           /\ msg.ts - Current(h.zone).entered >= Threshold

\* The fields an entry has in each state, and no entry time of the future.
Fits(e) ==
    /\ e.state = "OUTSIDE" => e.entered = None /\ e.violation = None
    /\ e.state # "OUTSIDE" => e.entered \in Nat /\ e.entered <= lastTs
    /\ e.state = "EXIT_CANDIDATE" => e.exitAt \in Nat
    /\ e.state = "COOLDOWN" => e.coolUntil \in Nat /\ e.violation # None

EntryOK ==
    \A c \in Cvis, z \in Zones :
        /\ c \notin created => entry[c][z] = NewEntry
        /\ Fits(entry[c][z])

\* The uncommitted message is the newest one.
MessageOK ==
    /\ msg \in Messages => msg.ts = lastTs
    /\ lastTs <= clock

Shape == TypeOK /\ HandlerOK /\ EntryOK /\ MessageOK

LEMMA InitShape == Init => Shape
<1> SUFFICES ASSUME Init PROVE Shape
  OBVIOUS
<1>1. At("idle") \in Handlers /\ NewEntry \in Entries
  BY AtType DEF Steps, NewEntry, Entries, States
<1>2. <<>> \in Seq(Plates)
  OBVIOUS
<1>3. TypeOK
  BY <1>1, <1>2 DEF Init, TypeOK, NoEntries
<1>4. HandlerOK
  BY DEF Init, HandlerOK, At
<1>5. EntryOK
  BY DEF Init, EntryOK, Fits, NoEntries, NewEntry
<1>6. MessageOK
  BY NoneAssumption DEF Init, MessageOK, Messages
<1>7. QED
  BY <1>3, <1>4, <1>5, <1>6 DEF Shape

\* The row an insert is about to write is well typed.
LEMMA CandidateType ==
    ASSUME Shape, h.step = "inserting"
    PROVE  /\ Candidate \in Rows
           /\ h.cvi \in Cvis /\ h.zone \in Zones /\ h.ident \in Keys
<1>1. /\ h.cvi \in Cvis /\ h.zone \in Zones /\ h.ident \in Keys
      /\ msg \in Messages /\ Current(h.zone).state = "INSIDE_ZONE"
  BY DEF Shape, TypeOK, HandlerOK
<1>2. Current(h.zone).entered \in Nat
  BY <1>1 DEF Shape, TypeOK, EntryOK, Fits, Current
<1>3. h.cycle \in Nat /\ h.plate \in Plates \cup {None} /\ msg.ts \in Nat
  BY <1>1 DEF Shape, TypeOK, Handlers, Messages
<1>4. QED
  BY <1>1, <1>2, <1>3 DEF Candidate, Rows

\* A message that is redelivered differs in its zones at most.
LEMMA RedeliveredType ==
    ASSUME NEW m \in Messages, NEW zones \in ZoneSets
    PROVE  [m EXCEPT !.zones = zones] \in Messages /\ [m EXCEPT !.zones = zones].ts = m.ts
BY SetsAssumption DEF Messages

\* Every step keeps the types.
LEMMA TypeStep == Shape /\ [Next]_vars => TypeOK'
<1> SUFFICES ASSUME Shape, TypeOK, HandlerOK, EntryOK, [Next]_vars PROVE TypeOK'
  BY DEF Shape
<1> USE DEF cviVars, localVars, redisVars
<1>1. CASE Poll
  <2>1. PICK ts \in lastTs + FrameGap .. clock, n \in 0 .. MaxObjects :
               /\ \E objects \in [1 .. n -> SUBSET Zones], zones \in ZoneSets :
                    msg' = [ts |-> ts, zones |-> zones, objects |-> objects]
               /\ lastTs' = ts
    BY <1>1 DEF Poll
  <2>2. PICK objects \in [1 .. n -> SUBSET Zones], zones \in ZoneSets :
               msg' = [ts |-> ts, zones |-> zones, objects |-> objects]
    BY <2>1
  <2>3. ts \in Nat /\ n \in Nat
    BY TimesType, BoundsAssumption DEF TypeOK
  <2>4. objects \in Seq(SUBSET Zones)
    BY <2>3, SeqDef
  <2>5. msg' \in Messages /\ lastTs' \in Nat
    BY <2>1, <2>2, <2>3, <2>4, SetsAssumption DEF Messages
  <2>6. h' \in Handlers
    BY <1>1, <2>5, BeginType DEF Poll
  <2>7. QED
    BY <1>1, <2>5, <2>6 DEF TypeOK, Poll
<1>2. CASE Redeliver
  <2>1. msg' \in Messages
    BY <1>2, RedeliveredType DEF Redeliver, TypeOK
  <2>2. QED
    BY <1>2, <2>1, BeginType DEF TypeOK, Redeliver
<1>3. ASSUME NEW c \in Cvis, Resolve(c) PROVE TypeOK'
  <2>1. msg.ts \in Nat /\ msg.zones \subseteq Zones /\ h.obj \in Nat
    BY <1>3 DEF TypeOK, HandlerOK, Resolve, Messages, Handlers
  <2>2. h' \in Handlers
    BY <1>3, <2>1 DEF Resolve, At, Handlers, Steps
  <2>3. fallback' \in [Cvis -> FallbackKeys]
    BY <1>3 DEF TypeOK, Resolve
  <2>4. lastSeen' \in [Cvis -> Nat] /\ live' \subseteq created' /\ created' \subseteq Cvis
    BY <1>3, <2>1 DEF TypeOK, Resolve
  <2>5. QED
    BY <1>3, <2>2, <2>3, <2>4 DEF TypeOK, Resolve
<1>4. CASE Commit
  BY <1>4, AtType DEF TypeOK, Commit, Steps
<1>5. ASSUME NEW z \in Zones, Evaluate(z) PROVE TypeOK'
  <2> USE DEF Evaluates, Current, Inside
  <2>0. h.step = "zone"
    BY <1>5 DEF Evaluate, Enter, Leave, ReEnter, ConfirmExit, ExitWithoutViolation,
                EndCooldown, Stay, FireStart, ExitDue, Matured
  <2>1. /\ h.cvi \in Cvis /\ Current(z) \in Entries
        /\ msg \in Messages /\ msg.ts \in Nat
    BY <2>0 DEF TypeOK, HandlerOK, Messages
  <2>2. CASE Enter(z)
    <3>1. [Current(z) EXCEPT !.state = "INSIDE_ZONE", !.entered = msg.ts, !.exitAt = None]
            \in Entries
      BY <2>1 DEF Entries, States
    <3>2. QED
      BY <2>0, <2>1, <2>2, <3>1, SetEntryType, AdvanceType DEF TypeOK, Enter
  <2>3. CASE Leave(z)
    <3>1. [Current(z) EXCEPT !.state = "EXIT_CANDIDATE", !.exitAt = msg.ts] \in Entries
      BY <2>1 DEF Entries, States
    <3>2. QED
      BY <2>0, <2>1, <2>3, <3>1, SetEntryType, AdvanceType DEF TypeOK, Leave
  <2>4. CASE ReEnter(z)
    <3>1. [Current(z) EXCEPT !.state = "INSIDE_ZONE", !.exitAt = None] \in Entries
      BY <2>1 DEF Entries, States
    <3>2. QED
      BY <2>0, <2>1, <2>4, <3>1, SetEntryType, AdvanceType DEF TypeOK, ReEnter
  <2>5. CASE ConfirmExit(z)
    <3>1. [Current(z) EXCEPT !.state = "COOLDOWN", !.coolUntil = msg.ts + Cooldown]
            \in Entries
      <4>1. msg.ts + Cooldown \in Nat
        BY <2>1, TimesType
      <4>2. QED
        BY <2>1, <4>1 DEF Entries, States
    <3>2. h' \in Handlers /\ entry' \in [Cvis -> [Zones -> Entries]]
      BY <2>0, <2>1, <2>5, <3>1, SetEntryType, AdvanceType DEF ConfirmExit
    <3>3. Current(z).lastKey \in Keys \cup {None}
      BY <2>1 DEF Entries
    <3>4. /\ localActive' \subseteq Zones \X Keys
          /\ localCycle' = localCycle /\ redisCycle' = redisCycle
          /\ redisActive' \in [Zones -> [Keys -> Nat]]
      <4>1. CASE Current(z).lastKey = None
        BY <2>5, <4>1 DEF TypeOK, ConfirmExit
      <4>2. CASE Current(z).lastKey # None
        <5>1. Current(z).lastKey \in Keys /\ ClearActive(z, Current(z).lastKey)
          BY <2>5, <3>3, <4>2 DEF ConfirmExit
        <5>2. QED
          BY <5>1 DEF TypeOK, ClearActive
      <4>3. QED
        BY <4>1, <4>2
    <3>5. QED
      BY <2>5, <3>2, <3>4 DEF TypeOK, ConfirmExit
  <2>6. CASE ExitWithoutViolation(z)
    <3>1. [Current(z) EXCEPT !.state = "OUTSIDE", !.entered = None, !.exitAt = None]
            \in Entries
      BY <2>1 DEF Entries, States
    <3>2. QED
      BY <2>0, <2>1, <2>6, <3>1, SetEntryType, AdvanceType DEF TypeOK, ExitWithoutViolation
  <2>7. CASE EndCooldown(z)
    <3>1. [Current(z) EXCEPT
             !.state = IF Inside(z) THEN "INSIDE_ZONE" ELSE "OUTSIDE",
             !.entered = IF Inside(z) THEN msg.ts ELSE None,
             !.exitAt = None, !.violation = None, !.lastKey = None] \in Entries
      BY <2>1 DEF Entries, States
    <3>2. h' \in Handlers /\ entry' \in [Cvis -> [Zones -> Entries]]
      BY <2>0, <2>1, <2>7, <3>1, SetEntryType, AdvanceType DEF EndCooldown
    <3>3. Identity(h.cvi) \in Keys
      BY <2>1 DEF TypeOK, Identity, Keys
    <3>4. /\ localActive' = localActive /\ redisActive' = redisActive
          /\ localCycle' \in [Zones -> [Keys -> Nat]]
          /\ redisCycle' \in [Zones -> [Keys -> Nat]]
      BY <2>7, <3>3 DEF TypeOK, EndCooldown, BumpCycle
    <3>5. QED
      BY <2>7, <3>2, <3>4 DEF TypeOK, EndCooldown
  <2>8. CASE Stay(z)
    BY <2>0, <2>1, <2>8, AdvanceType DEF TypeOK, Stay
  <2>9. CASE FireStart(z)
    <3>1. Identity(h.cvi) \in Keys
      BY <2>1 DEF TypeOK, Identity, Keys
    <3>2. h' \in Handlers
      BY <2>9, <3>1 DEF TypeOK, FireStart, Handlers, Steps
    <3>3. QED
      BY <2>9, <3>2 DEF TypeOK, FireStart
  <2>10. QED
    BY <1>5, <2>2, <2>3, <2>4, <2>5, <2>6, <2>7, <2>8, <2>9 DEF Evaluate
<1>6. CASE FireSkip
  <2>1. /\ h.cvi \in Cvis /\ h.zone \in Zones /\ h.ident \in Keys
        /\ msg \in Messages /\ h.step = "firing"
    BY <1>6 DEF TypeOK, HandlerOK, FireSkip
  <2>2. Current(h.zone) \in Entries
    BY <2>1 DEF TypeOK, Current
  <2>3. [Current(h.zone) EXCEPT !.state = "VIOLATED", !.lastKey = h.ident] \in Entries
    BY <2>1, <2>2 DEF Entries, States
  <2>4. QED
    BY <1>6, <2>1, <2>3, SetEntryType, AdvanceType DEF TypeOK, FireSkip
<1>7. CASE FireBuild
  <2>1. h.cvi \in Cvis /\ h.zone \in Zones /\ h.ident \in Keys
    BY <1>7 DEF TypeOK, HandlerOK, FireBuild
  <2>2. \A o \in RedisOutcomes : CurrentCycle(h.zone, h.ident, o) \in Nat
    BY <2>1 DEF TypeOK, CurrentCycle
  <2>3. plate[h.cvi] \in Plates \cup {None}
    BY <2>1 DEF TypeOK
  <2>4. h' \in Handlers
    BY <1>7, <2>2, <2>3 DEF TypeOK, FireBuild, Handlers, Steps
  <2>5. QED
    BY <1>7, <2>4 DEF TypeOK, FireBuild
<1>8. CASE FireInsert
  <2>1. h.step = "inserting"
    BY <1>8 DEF FireInsert
  <2>2. Candidate \in Rows /\ h.cvi \in Cvis /\ h.zone \in Zones /\ h.ident \in Keys
    BY <2>1, CandidateType
  <2>3. Current(h.zone) \in Entries
    BY <2>2 DEF TypeOK, Current
  <2>4. RowId(Candidate) \in RowIds
    BY <2>2 DEF RowId, RowIds, Rows
  <2>5. Current(h.zone).violation \in RowIds \cup {None}
    BY <2>3 DEF Entries
  <2>6. ViolationAfter(Candidate) \in RowIds \cup {None}
    BY <2>4, <2>5 DEF ViolationAfter
  <2>7. [Current(h.zone) EXCEPT !.state = "VIOLATED", !.lastKey = h.ident,
                                !.violation = ViolationAfter(Candidate)] \in Entries
    BY <2>2, <2>3, <2>6 DEF Entries, States
  <2>8. entry' \in [Cvis -> [Zones -> Entries]]
    BY <1>8, <2>2, <2>7, SetEntryType DEF FireInsert
  <2>9. h' \in Handlers /\ rows' \subseteq Rows
    BY <1>8, <2>2 DEF TypeOK, FireInsert, Handlers, Steps
  <2>10. QED
    BY <1>8, <2>8, <2>9 DEF TypeOK, FireInsert
<1>9. CASE FireRaise
  <2>1. Candidate \in Rows
    BY <1>9, CandidateType DEF FireRaise
  <2>2. h' \in Handlers /\ rows' \subseteq Rows
    BY <1>9, <2>1, AtType DEF TypeOK, FireRaise, Steps
  <2>3. QED
    BY <1>9, <2>2 DEF TypeOK, FireRaise
<1>10. CASE FireMark
  <2>1. h.zone \in Zones /\ h.ident \in Keys /\ msg \in Messages /\ h.step = "marking"
    BY <1>10 DEF TypeOK, HandlerOK, FireMark
  <2>2. h' \in Handlers
    BY <1>10, <2>1, AdvanceType DEF FireMark
  <2>3. /\ localActive' \subseteq Zones \X Keys
        /\ localCycle' = localCycle /\ redisCycle' = redisCycle
        /\ redisActive' \in [Zones -> [Keys -> Nat]]
    <3>1. clock + ActiveTtl \in Nat
      BY TimesType DEF TypeOK
    <3>2. QED
      BY <1>10, <2>1, <3>1 DEF TypeOK, FireMark, MarkActive
  <2>4. QED
    BY <1>10, <2>2, <2>3 DEF TypeOK, FireMark
<1>11. ASSUME NEW c \in Cvis, NEW p \in Plates, ApplyOcr(c, p) PROVE TypeOK'
  <2>1. Append(ballot[c], p) \in Seq(Plates) /\ plate[c] \in Plates \cup {None}
    BY <1>11 DEF TypeOK, ApplyOcr
  <2>2. PlateAfter(Append(ballot[c], p), plate[c]) \in Plates \cup {None}
    BY <2>1, PlateAfterType
  <2>3. QED
    BY <1>11, <2>1, <2>2 DEF TypeOK, ApplyOcr
<1>12. CASE EvictStale
  BY <1>12 DEF TypeOK, EvictStale
<1>13. CASE Crash
  BY <1>13, AtType DEF TypeOK, Crash, Steps, NoEntries, NewEntry, Entries, States
<1>14. CASE Restart
  BY <1>14, AtType DEF TypeOK, Restart, Steps
<1>15. CASE Tick
  BY <1>15 DEF TypeOK, Tick
<1>16. CASE UNCHANGED vars
  BY <1>16 DEF TypeOK, vars
<1>17. QED
  BY <1>1, <1>2, <1>3, <1>4, <1>5, <1>6, <1>7, <1>8, <1>9, <1>10, <1>11, <1>12,
     <1>13, <1>14, <1>15, <1>16 DEF Next, HandlerStep, Fire
-------------------------------------------------------------------------------
(* Every step keeps the rest of the shape *)

\* What the handler knows while it evaluates, or fires in, a zone.
LEMMA HeldFacts ==
    ASSUME Shape, h.step \in {"zone", "firing", "inserting", "marking"}, NEW z \in Zones
    PROVE  /\ h.cvi \in created /\ h.cvi \in Cvis
           /\ Current(z) = entry[h.cvi][z] /\ Current(z) \in Entries /\ Fits(Current(z))
           /\ msg \in Messages /\ msg.ts = lastTs /\ lastTs \in Nat
           /\ h.obj \in 1 .. Len(msg.objects) /\ Len(msg.objects) \in Nat
<1>1. h.cvi \in created /\ h.cvi \in Cvis /\ msg \in Messages
  BY DEF Shape, TypeOK, HandlerOK
<1>2. h.obj \in 1 .. Len(msg.objects)
  BY DEF Shape, HandlerOK
<1>3. Len(msg.objects) \in Nat
  BY <1>1 DEF Messages
<1>4. entry[h.cvi][z] \in Entries /\ Fits(entry[h.cvi][z])
  BY <1>1 DEF Shape, TypeOK, EntryOK
<1>5. msg.ts = lastTs /\ lastTs \in Nat
  BY <1>1 DEF Shape, TypeOK, MessageOK
<1>6. QED
  BY <1>1, <1>2, <1>3, <1>4, <1>5 DEF Current

\* Moving on to the next zone, object or commit keeps the control record.
LEMMA AdvanceOK ==
    ASSUME Shape, h.step \in {"zone", "firing", "marking"}, NEW z \in Zones, Advance(z),
           msg' = msg, created' = created
    PROVE  HandlerOK'
<1>1. /\ h.cvi \in created /\ msg \in Messages
      /\ h.obj \in 1 .. Len(msg.objects) /\ Len(msg.objects) \in Nat
  BY HeldFacts
<1>2. CASE h.todo # {z}
  <2>1. h'.step = "zone" /\ h'.obj = h.obj /\ h'.cvi = h.cvi
    BY <1>2 DEF Advance, At
  <2>2. QED
    BY <1>1, <2>1 DEF HandlerOK
<1>3. CASE h.todo = {z} /\ h.obj < Len(msg.objects)
  <2>1. h'.step = "object" /\ h'.obj = h.obj + 1
    BY <1>3 DEF Advance, At
  <2>2. QED
    BY <1>1, <1>3, <2>1 DEF HandlerOK
<1>4. CASE h.todo = {z} /\ ~(h.obj < Len(msg.objects))
  <2>1. h'.step = "commit"
    BY <1>4 DEF Advance, At
  <2>2. QED
    BY <1>1, <2>1 DEF HandlerOK
<1>5. QED
  BY <1>2, <1>3, <1>4

\* An entry set to a fitting value leaves all entries fitting.
LEMMA SetEntryOK ==
    ASSUME Shape, h.cvi \in created, NEW z \in Zones, NEW e, Fits(e), SetEntry(z, e),
           lastTs' = lastTs, created' = created
    PROVE  EntryOK'
<1>1. ASSUME NEW c \in Cvis, NEW y \in Zones
      PROVE  /\ c \notin created' => entry'[c][y] = NewEntry
             /\ Fits(entry[c][y])'
  <2>1. entry'[c][y] = IF c = h.cvi /\ y = z THEN e ELSE entry[c][y]
    BY DEF Shape, TypeOK, SetEntry
  <2>2. Fits(entry'[c][y])
    BY <2>1 DEF Shape, EntryOK
  <2>3. QED
    BY <2>1, <2>2 DEF Shape, EntryOK, Fits
<1>2. QED
  BY <1>1 DEF EntryOK

\* Evaluating a zone keeps the control record and the entries.
LEMMA EvaluateStep ==
    ASSUME Shape, NEW z \in Zones, Evaluate(z)
    PROVE  HandlerOK' /\ EntryOK'
<1>1. /\ h.step = "zone" /\ msg' = msg /\ created' = created /\ lastTs' = lastTs
  BY DEF Evaluate, Enter, Leave, ReEnter, ConfirmExit, ExitWithoutViolation, EndCooldown,
         Stay, FireStart, ExitDue, Matured, Evaluates, cviVars
<1>2. /\ h.cvi \in created /\ Current(z) \in Entries /\ Fits(Current(z))
      /\ msg.ts = lastTs /\ lastTs \in Nat
  BY <1>1, HeldFacts
<1>3. CASE Enter(z)
  <2>1. Fits([Current(z) EXCEPT !.state = "INSIDE_ZONE", !.entered = msg.ts, !.exitAt = None])
    BY <1>2 DEF Fits, Entries
  <2>2. QED
    BY <1>1, <1>2, <1>3, <2>1, SetEntryOK, AdvanceOK DEF Enter
<1>4. CASE Leave(z)
  <2>1. Fits([Current(z) EXCEPT !.state = "EXIT_CANDIDATE", !.exitAt = msg.ts])
    BY <1>2, <1>4 DEF Fits, Entries, Leave
  <2>2. QED
    BY <1>1, <1>2, <1>4, <2>1, SetEntryOK, AdvanceOK DEF Leave
<1>5. CASE ReEnter(z)
  <2>1. Fits([Current(z) EXCEPT !.state = "INSIDE_ZONE", !.exitAt = None])
    BY <1>2, <1>5 DEF Fits, Entries, ReEnter
  <2>2. QED
    BY <1>1, <1>2, <1>5, <2>1, SetEntryOK, AdvanceOK DEF ReEnter
<1>6. CASE ConfirmExit(z)
  <2>1. msg.ts + Cooldown \in Nat
    BY <1>2, TimesType
  <2>2. Fits([Current(z) EXCEPT !.state = "COOLDOWN", !.coolUntil = msg.ts + Cooldown])
    BY <1>2, <1>6, <2>1 DEF Fits, Entries, ConfirmExit, ExitDue
  <2>3. QED
    BY <1>1, <1>2, <1>6, <2>2, SetEntryOK, AdvanceOK DEF ConfirmExit
<1>7. CASE ExitWithoutViolation(z)
  <2>1. Fits([Current(z) EXCEPT !.state = "OUTSIDE", !.entered = None, !.exitAt = None])
    BY <1>2, <1>7 DEF Fits, Entries, ExitWithoutViolation
  <2>2. QED
    BY <1>1, <1>2, <1>7, <2>1, SetEntryOK, AdvanceOK DEF ExitWithoutViolation
<1>8. CASE EndCooldown(z)
  <2>1. Fits([Current(z) EXCEPT
                !.state = IF Inside(z) THEN "INSIDE_ZONE" ELSE "OUTSIDE",
                !.entered = IF Inside(z) THEN msg.ts ELSE None,
                !.exitAt = None, !.violation = None, !.lastKey = None])
    BY <1>2 DEF Fits, Entries
  <2>2. QED
    BY <1>1, <1>2, <1>8, <2>1, SetEntryOK, AdvanceOK DEF EndCooldown
<1>9. CASE Stay(z)
  <2>1. EntryOK'
    BY <1>1, <1>9 DEF Shape, EntryOK, Fits, Stay
  <2>2. QED
    BY <1>1, <1>9, <2>1, AdvanceOK DEF Stay
<1>10. CASE FireStart(z)
  <2>1. EntryOK'
    BY <1>1, <1>10 DEF Shape, EntryOK, Fits, FireStart
  <2>2. /\ h'.step = "firing" /\ h'.zone = z /\ h'.ident = Identity(h.cvi)
        /\ h'.obj = h.obj /\ h'.cvi = h.cvi /\ entry' = entry
    BY <1>10 DEF FireStart, Shape, TypeOK, Handlers
  <2>3. Identity(h.cvi) \in Keys
    BY <1>2 DEF Shape, TypeOK, Identity, Keys
  <2>4. Current(z).state = "INSIDE_ZONE" /\ msg.ts - Current(z).entered >= Threshold
    BY <1>10 DEF FireStart, Matured
  <2>5. HandlerOK'
    BY <1>1, <1>2, <2>2, <2>3, <2>4 DEF Shape, HandlerOK, Current
  <2>6. QED
    BY <2>1, <2>5
<1>11. QED
  BY <1>3, <1>4, <1>5, <1>6, <1>7, <1>8, <1>9, <1>10 DEF Evaluate

\* Firing keeps the control record and the entries.
LEMMA FireStep ==
    ASSUME Shape, Fire
    PROVE  HandlerOK' /\ EntryOK'
<1>1. /\ h.step \in {"firing", "inserting", "marking"}
      /\ msg' = msg /\ created' = created /\ lastTs' = lastTs
  BY DEF Fire, FireSkip, FireBuild, FireInsert, FireRaise, FireMark, cviVars
<1>2. h.zone \in Zones
  BY <1>1 DEF Shape, HandlerOK
<1>3. /\ h.cvi \in created /\ Current(h.zone) \in Entries /\ Fits(Current(h.zone))
      /\ msg \in Messages /\ msg.ts = lastTs /\ lastTs \in Nat
  BY <1>1, <1>2, HeldFacts
<1>4. CASE FireSkip
  <2>1. h.step = "firing" /\ Current(h.zone).state = "INSIDE_ZONE"
    BY <1>4 DEF Shape, HandlerOK, FireSkip
  <2>2. Fits([Current(h.zone) EXCEPT !.state = "VIOLATED", !.lastKey = h.ident])
    BY <1>3, <2>1 DEF Fits, Entries
  <2>3. QED
    BY <1>1, <1>2, <1>3, <1>4, <2>1, <2>2, SetEntryOK, AdvanceOK DEF FireSkip
<1>5. CASE FireBuild
  <2>1. EntryOK'
    BY <1>1, <1>5 DEF Shape, EntryOK, Fits, FireBuild
  <2>2. /\ h.step = "firing" /\ h'.step = "inserting" /\ h'.zone = h.zone
        /\ h'.ident = h.ident /\ h'.obj = h.obj /\ h'.cvi = h.cvi /\ entry' = entry
    BY <1>5 DEF FireBuild, Shape, TypeOK, Handlers
  <2>3. HandlerOK'
    BY <1>1, <1>3, <2>2 DEF Shape, HandlerOK, Current
  <2>4. QED
    BY <2>1, <2>3
<1>6. CASE FireInsert
  <2>1. h.step = "inserting" /\ Current(h.zone).state = "INSIDE_ZONE"
    BY <1>6 DEF Shape, HandlerOK, FireInsert
  <2>2. Fits([Current(h.zone) EXCEPT !.state = "VIOLATED", !.lastKey = h.ident,
                                     !.violation = ViolationAfter(Candidate)])
    BY <1>3, <2>1 DEF Fits, Entries
  <2>3. EntryOK'
    BY <1>1, <1>2, <1>3, <1>6, <2>2, SetEntryOK DEF FireInsert
  <2>4. /\ h'.step = "marking" /\ h'.zone = h.zone
        /\ h'.ident = h.ident /\ h'.obj = h.obj /\ h'.cvi = h.cvi
    BY <1>6 DEF FireInsert, Shape, TypeOK, Handlers
  <2>5. HandlerOK'
    BY <1>1, <1>3, <2>1, <2>4 DEF Shape, HandlerOK
  <2>6. QED
    BY <2>3, <2>5
<1>7. CASE FireRaise
  <2>1. EntryOK'
    BY <1>1, <1>7 DEF Shape, EntryOK, Fits, FireRaise
  <2>2. QED
    BY <1>1, <1>3, <1>7, <2>1 DEF FireRaise, At, HandlerOK
<1>8. CASE FireMark
  <2>1. EntryOK'
    BY <1>1, <1>8 DEF Shape, EntryOK, Fits, FireMark
  <2>2. QED
    BY <1>1, <1>2, <1>8, <2>1, AdvanceOK DEF FireMark
<1>9. QED
  BY <1>4, <1>5, <1>6, <1>7, <1>8 DEF Fire
\* The shape is an inductive invariant.
LEMMA ShapeStep == Shape /\ [Next]_vars => Shape'
<1> SUFFICES ASSUME Shape, [Next]_vars PROVE HandlerOK' /\ EntryOK' /\ MessageOK'
  BY TypeStep DEF Shape
<1> USE DEF cviVars, localVars, redisVars
<1>1. CASE Poll
  <2>1. PICK ts \in lastTs + FrameGap .. clock :
             /\ \E n \in 0 .. MaxObjects :
                   \E objects \in [1 .. n -> SUBSET Zones], zones \in ZoneSets :
                      msg' = [ts |-> ts, zones |-> zones, objects |-> objects]
             /\ lastTs' = ts
    BY <1>1 DEF Poll
  <2>2. lastTs \in Nat /\ clock \in Nat /\ FrameGap \in Nat
    BY TimesType DEF Shape, TypeOK
  <2>3. msg'.ts = ts /\ lastTs <= lastTs' /\ lastTs' <= clock /\ lastTs' \in Nat
    BY <2>1, <2>2
  <2>4. msg' \in Messages
    <3>1. PICK n \in 0 .. MaxObjects :
                 \E objects \in [1 .. n -> SUBSET Zones], zones \in ZoneSets :
                    msg' = [ts |-> ts, zones |-> zones, objects |-> objects]
      BY <2>1
    <3>2. PICK objects \in [1 .. n -> SUBSET Zones], zones \in ZoneSets :
                 msg' = [ts |-> ts, zones |-> zones, objects |-> objects]
      BY <3>1
    <3>3. n \in Nat
      BY BoundsAssumption
    <3>4. objects \in Seq(SUBSET Zones)
      BY <3>3, SeqDef
    <3>5. QED
      BY <2>1, <2>3, <3>2, <3>4, SetsAssumption DEF Messages
  <2>5. HandlerOK'
    BY <1>1, <2>4, BeginType DEF Poll, HandlerOK
  <2>6. EntryOK'
    <3>1. ASSUME NEW c \in Cvis, NEW z \in Zones
          PROVE  (c \notin created => entry[c][z] = NewEntry) /\ Fits(entry[c][z])'
      <4>1. entry[c][z] \in Entries /\ entry'[c][z] = entry[c][z]
        BY <1>1 DEF Shape, TypeOK, Poll
      <4>2. entry[c][z].entered \in Nat \cup {None}
        BY <4>1 DEF Entries
      <4>3. QED
        BY <2>2, <2>3, <4>1, <4>2 DEF Shape, EntryOK, Fits
    <3>2. QED
      BY <1>1, <3>1 DEF EntryOK, Poll
  <2>7. MessageOK'
    BY <1>1, <2>1, <2>3 DEF MessageOK, Poll
  <2>8. QED
    BY <2>5, <2>6, <2>7
<1>2. CASE Redeliver
  <2>1. msg' \in Messages /\ msg'.ts = msg.ts
    BY <1>2, RedeliveredType DEF Shape, TypeOK, Redeliver
  <2>2. HandlerOK'
    BY <1>2, <2>1, BeginType DEF HandlerOK, Redeliver
  <2>3. EntryOK'
    BY <1>2 DEF Shape, EntryOK, Fits, Redeliver
  <2>4. MessageOK'
    <3>1. msg \in Messages
      BY <1>2 DEF Shape, TypeOK, Redeliver
    <3>2. QED
      BY <1>2, <2>1, <3>1 DEF Shape, MessageOK, Redeliver
  <2>5. QED
    BY <2>2, <2>3, <2>4
<1>3. ASSUME NEW c \in Cvis, Resolve(c) PROVE HandlerOK' /\ EntryOK' /\ MessageOK'
  <2>1. h'.step = "zone" /\ h'.obj = h.obj /\ h'.cvi = c
    BY <1>3 DEF Resolve, At
  <2>2. HandlerOK'
    BY <1>3, <2>1 DEF Shape, HandlerOK, Resolve
  <2>3. EntryOK'
    BY <1>3 DEF Shape, EntryOK, Fits, Resolve
  <2>4. MessageOK'
    BY <1>3 DEF Shape, MessageOK, Resolve
  <2>5. QED
    BY <2>2, <2>3, <2>4
<1>4. CASE Commit
  <2>1. HandlerOK'
    BY <1>4, NoneAssumption DEF Shape, HandlerOK, Commit, At
  <2>2. EntryOK' /\ MessageOK'
    BY <1>4, NoneAssumption DEF Shape, EntryOK, Fits, MessageOK, Commit, Messages
  <2>3. QED
    BY <2>1, <2>2
<1>5. ASSUME NEW z \in Zones, Evaluate(z) PROVE HandlerOK' /\ EntryOK' /\ MessageOK'
  <2>1. msg' = msg /\ lastTs' = lastTs /\ clock' = clock
    BY <1>5 DEF Evaluate, Enter, Leave, ReEnter, ConfirmExit, ExitWithoutViolation,
                EndCooldown, Stay, FireStart
  <2>2. QED
    BY <1>5, <2>1, EvaluateStep DEF Shape, MessageOK
<1>6. CASE Fire
  <2>1. msg' = msg /\ lastTs' = lastTs /\ clock' = clock
    BY <1>6 DEF Fire, FireSkip, FireBuild, FireInsert, FireRaise, FireMark
  <2>2. QED
    BY <1>6, <2>1, FireStep DEF Shape, MessageOK
<1>7. ASSUME NEW c \in Cvis, NEW p \in Plates, ApplyOcr(c, p)
      PROVE  HandlerOK' /\ EntryOK' /\ MessageOK'
  BY <1>7 DEF Shape, HandlerOK, EntryOK, Fits, MessageOK, ApplyOcr, Current
<1>8. CASE EvictStale
  BY <1>8 DEF Shape, HandlerOK, EntryOK, Fits, MessageOK, EvictStale, Current
<1>9. CASE Crash
  <2>1. HandlerOK' /\ MessageOK'
    BY <1>9 DEF Shape, HandlerOK, MessageOK, Crash, At
  <2>2. EntryOK'
    BY <1>9 DEF EntryOK, Fits, Crash, NoEntries, NewEntry
  <2>3. QED
    BY <2>1, <2>2
<1>10. CASE Restart
  BY <1>10 DEF Shape, HandlerOK, EntryOK, Fits, MessageOK, Restart, At
<1>11. CASE Tick
  BY <1>11 DEF Shape, TypeOK, HandlerOK, EntryOK, Fits, MessageOK, Tick, Current
<1>12. CASE UNCHANGED vars
  BY <1>12 DEF Shape, HandlerOK, EntryOK, Fits, MessageOK, vars, Current
<1>13. QED
  BY <1>1, <1>2, <1>3, <1>4, <1>5, <1>6, <1>7, <1>8, <1>9, <1>10, <1>11, <1>12
     DEF Next, HandlerStep

\* In every reachable state all variables are well typed, the control record
\* of the handler fits the message, and no entry holds a time of the future.
THEOREM ShapeInvariant == Spec => []Shape
BY InitShape, ShapeStep, PTL DEF Spec

\* The variables of violation-service keep their types, whatever the messages,
\* the failures of Redis and of the database, and the restarts.
THEOREM TypeCorrect == Spec => []TypeOK
<1>1. Shape => TypeOK
  BY DEF Shape
<1>2. QED
  BY ShapeInvariant, <1>1, PTL

-------------------------------------------------------------------------------
(* The distance of penalties: two of one CVI in one zone for different visits *)
(* are far apart, whatever happens to the identity of the CVI, to Redis and  *)
(* to the process, as long as an INSERT that raised has written nothing.     *)

\* The CVIs whose entries the process can still act on.
Holds(c) == c \in live \/ h.cvi = c

\* When the next visit may begin, at the earliest, after penalty r.
Released(r) == r.at + ExitConfirm + Cooldown

\* The visit of penalty r is over: e is a later visit, or none.
Closed(r, e) ==
    /\ Released(r) <= lastTs
    /\ e.entered = None \/ Released(r) <= e.entered

\* The visit of penalty r is the one of entry e, and not over.
Open(r, e) ==
    /\ e.violation # None /\ e.entered = r.first
    /\ e.state = "EXIT_CANDIDATE" => r.at <= e.exitAt
    /\ e.state = "COOLDOWN" => Released(r) <= e.coolUntil

Past ==
    \A r \in rows : r.at <= lastTs /\ r.first + Threshold <= r.at /\ r.cvi \in created

History ==
    \A r \in rows : Holds(r.cvi) =>
        LET e == entry[r.cvi][r.zone] IN Closed(r, e) \/ Open(r, e)

\* The inductive invariant: PenaltySpacing needs to know, of every penalty of a
\* held CVI, on which side of the end of its visit the entry is.
SpacingInv == Shape /\ Past /\ History /\ PenaltySpacing

-------------------------------------------------------------------------------
LEMMA SpacingInit == Init => SpacingInv
BY InitShape DEF Init, SpacingInv, Past, History, PenaltySpacing

\* The fields of a row that are times.
LEMMA RowTimes ==
    ASSUME TypeOK, NEW r \in rows
    PROVE  /\ r.at \in Nat /\ r.first \in Nat /\ Released(r) \in Nat
           /\ r.cvi \in Cvis /\ r.zone \in Zones
<1>1. r \in Rows
  BY DEF TypeOK
<1>2. r.at \in Nat /\ r.first \in Nat /\ r.cvi \in Cvis /\ r.zone \in Zones
  BY <1>1 DEF Rows
<1>3. QED
  BY <1>2, TimesType DEF Released

\* A step that writes no row, changes no entry and takes up no other CVI keeps
\* the invariant.
LEMMA QuietStep ==
    ASSUME SpacingInv, Shape', lastTs <= lastTs', rows' = rows, entry' = entry,
           created \subseteq created',
           \A c \in Cvis : Holds(c)' => Holds(c) \/ c \notin created
    PROVE  SpacingInv'
<1>1. lastTs \in Nat /\ lastTs' \in Nat
  BY DEF SpacingInv, Shape, TypeOK
<1>2. Past'
  <2>1. ASSUME NEW r \in rows
        PROVE  r.at <= lastTs' /\ r.first + Threshold <= r.at /\ r.cvi \in created'
    BY <1>1, RowTimes DEF SpacingInv, Shape, Past
  <2>2. QED
    BY <2>1 DEF Past
<1>3. History'
  <2>1. ASSUME NEW r \in rows, Holds(r.cvi)'
        PROVE  Closed(r, entry[r.cvi][r.zone])' \/ Open(r, entry[r.cvi][r.zone])'
    <3>1. /\ r.at \in Nat /\ r.first \in Nat /\ Released(r) \in Nat
          /\ r.cvi \in Cvis /\ r.zone \in Zones /\ r.cvi \in created
      BY RowTimes DEF SpacingInv, Shape, Past
    <3>2. Closed(r, entry[r.cvi][r.zone]) \/ Open(r, entry[r.cvi][r.zone])
      BY <2>1, <3>1 DEF SpacingInv, History
    <3>3. QED
      BY <1>1, <3>1, <3>2 DEF Closed, Open, Released
  <2>2. QED
    BY <2>1 DEF History
<1>4. PenaltySpacing'
  BY DEF SpacingInv, PenaltySpacing
<1>5. QED
  BY <1>2, <1>3, <1>4 DEF SpacingInv

\* A step that sets the entry of the CVI at hand and writes no row keeps the
\* invariant if it keeps each penalty of that entry on a side.
LEMMA EntryStep ==
    ASSUME SpacingInv, Shape', lastTs' = lastTs, rows' = rows, created' = created,
           \A c \in Cvis : Holds(c)' => Holds(c),
           h.cvi \in Cvis, NEW z \in Zones, NEW e, SetEntry(z, e),
           ASSUME NEW r \in rows, r.cvi = h.cvi, r.zone = z,
                  Closed(r, Current(z)) \/ Open(r, Current(z))
           PROVE  Closed(r, e) \/ Open(r, e)
    PROVE  SpacingInv'
<1>1. Past' /\ PenaltySpacing'
  BY DEF SpacingInv, Past, PenaltySpacing
<1>2. ASSUME NEW r \in rows, Holds(r.cvi)'
      PROVE  Closed(r, entry[r.cvi][r.zone])' \/ Open(r, entry[r.cvi][r.zone])'
  <2>1. r.cvi \in Cvis /\ r.zone \in Zones
    BY RowTimes DEF SpacingInv, Shape
  <2>2. Closed(r, entry[r.cvi][r.zone]) \/ Open(r, entry[r.cvi][r.zone])
    BY <1>2, <2>1 DEF SpacingInv, History
  <2>3. CASE r.cvi = h.cvi /\ r.zone = z
    <3>1. entry'[r.cvi][r.zone] = e
      BY <2>1, <2>3 DEF SpacingInv, Shape, TypeOK, SetEntry
    <3>2. Closed(r, e) \/ Open(r, e)
      BY <2>2, <2>3 DEF Current
    <3>3. QED
      BY <3>1, <3>2 DEF Closed, Open, Released
  <2>4. CASE ~(r.cvi = h.cvi /\ r.zone = z)
    <3>1. entry'[r.cvi][r.zone] = entry[r.cvi][r.zone]
      BY <2>1, <2>4 DEF SpacingInv, Shape, TypeOK, SetEntry
    <3>2. QED
      BY <2>2, <3>1 DEF Closed, Open, Released
  <2>5. QED
    BY <2>3, <2>4
<1>3. History'
  BY <1>2 DEF History
<1>4. QED
  BY <1>1, <1>3 DEF SpacingInv
-------------------------------------------------------------------------------
\* The steps of the handler hold no CVI they did not hold before.
LEMMA AdvanceHolds ==
    ASSUME NEW z, Advance(z), live' = live, TypeOK, NEW c \in Cvis, Holds(c)'
    PROVE  Holds(c)
BY NoneAssumption DEF Advance, At, Holds

\* Evaluating a zone keeps the invariant: each transition keeps the penalties
\* of the entry on a side, and the end of the cooldown closes the open ones.
LEMMA EvaluateSpacing ==
    ASSUME SpacingInv, Shape', NEW z \in Zones, Evaluate(z)
    PROVE  SpacingInv'
<1> USE DEF cviVars
<1>1. /\ h.step = "zone" /\ lastTs' = lastTs /\ rows' = rows /\ created' = created
      /\ live' = live
  BY DEF Evaluate, Enter, Leave, ReEnter, ConfirmExit, ExitWithoutViolation, EndCooldown,
         Stay, FireStart, ExitDue, Matured, Evaluates
<1>2. /\ h.cvi \in Cvis /\ Current(z) \in Entries /\ Fits(Current(z))
      /\ msg.ts = lastTs /\ lastTs \in Nat
  BY <1>1, HeldFacts DEF SpacingInv
<1>3. \A c \in Cvis : Holds(c)' => Holds(c)
  <2>1. CASE Advance(z)
    BY <1>1, <2>1, AdvanceHolds DEF SpacingInv, Shape
  <2>2. CASE FireStart(z)
    BY <1>1, <2>2 DEF SpacingInv, Shape, TypeOK, Handlers, FireStart, Holds
  <2>3. QED
    BY <2>1, <2>2 DEF Evaluate, Enter, Leave, ReEnter, ConfirmExit, ExitWithoutViolation,
                      EndCooldown, Stay
<1>4. ASSUME NEW r \in rows
      PROVE  /\ r.at \in Nat /\ r.first \in Nat /\ Released(r) \in Nat
             /\ r.at <= lastTs /\ Released(r) = r.at + ExitConfirm + Cooldown
  BY RowTimes DEF SpacingInv, Shape, Past, Released
<1>5. CASE Enter(z)
  <2> DEFINE e == [Current(z) EXCEPT !.state = "INSIDE_ZONE", !.entered = msg.ts,
                                     !.exitAt = None]
  <2>1. ASSUME NEW r \in rows, Closed(r, Current(z)) \/ Open(r, Current(z))
        PROVE  Closed(r, e) \/ Open(r, e)
    <3>1. Current(z).violation = None
      BY <1>2, <1>5 DEF Enter, Fits
    <3>2. Released(r) <= lastTs /\ e.entered = lastTs
      BY <1>2, <2>1, <3>1 DEF Closed, Open, Entries
    <3>3. QED
      BY <3>2 DEF Closed
  <2>2. SetEntry(z, e)
    BY <1>5 DEF Enter
  <2>3. QED
    BY <1>1, <1>2, <1>3, <2>1, <2>2, EntryStep
<1>6. CASE Leave(z)
  <2> DEFINE e == [Current(z) EXCEPT !.state = "EXIT_CANDIDATE", !.exitAt = msg.ts]
  <2>1. ASSUME NEW r \in rows, Closed(r, Current(z)) \/ Open(r, Current(z))
        PROVE  Closed(r, e) \/ Open(r, e)
    <3>1. /\ e.entered = Current(z).entered /\ e.violation = Current(z).violation
          /\ e.exitAt = lastTs /\ e.state = "EXIT_CANDIDATE"
      BY <1>2 DEF Entries
    <3>2. QED
      BY <1>4, <2>1, <3>1 DEF Closed, Open
  <2>2. SetEntry(z, e)
    BY <1>6 DEF Leave
  <2>3. QED
    BY <1>1, <1>2, <1>3, <2>1, <2>2, EntryStep
<1>7. CASE ReEnter(z)
  <2> DEFINE e == [Current(z) EXCEPT !.state = "INSIDE_ZONE", !.exitAt = None]
  <2>1. ASSUME NEW r \in rows, Closed(r, Current(z)) \/ Open(r, Current(z))
        PROVE  Closed(r, e) \/ Open(r, e)
    <3>1. /\ e.entered = Current(z).entered /\ e.violation = Current(z).violation
          /\ e.state = "INSIDE_ZONE"
      BY <1>2 DEF Entries
    <3>2. QED
      BY <2>1, <3>1 DEF Closed, Open
  <2>2. SetEntry(z, e)
    BY <1>7 DEF ReEnter
  <2>3. QED
    BY <1>1, <1>2, <1>3, <2>1, <2>2, EntryStep
<1>8. CASE ConfirmExit(z)
  <2> DEFINE e == [Current(z) EXCEPT !.state = "COOLDOWN", !.coolUntil = msg.ts + Cooldown]
  <2>1. ASSUME NEW r \in rows, Closed(r, Current(z)) \/ Open(r, Current(z))
        PROVE  Closed(r, e) \/ Open(r, e)
    <3>1. /\ e.entered = Current(z).entered /\ e.violation = Current(z).violation
          /\ e.state = "COOLDOWN" /\ e.coolUntil = lastTs + Cooldown
      BY <1>2 DEF Entries
    <3>2. /\ Current(z).state = "EXIT_CANDIDATE" /\ Current(z).exitAt \in Nat
          /\ lastTs - Current(z).exitAt >= ExitConfirm
      BY <1>2, <1>8 DEF ConfirmExit, ExitDue, Fits
    <3>3. r.at <= Current(z).exitAt => Released(r) <= e.coolUntil
      BY <1>2, <1>4, <3>1, <3>2, TimesType
    <3>4. QED
      BY <2>1, <3>1, <3>2, <3>3 DEF Closed, Open
  <2>2. SetEntry(z, e)
    BY <1>8 DEF ConfirmExit
  <2>3. QED
    BY <1>1, <1>2, <1>3, <2>1, <2>2, EntryStep
<1>9. CASE ExitWithoutViolation(z)
  <2> DEFINE e == [Current(z) EXCEPT !.state = "OUTSIDE", !.entered = None, !.exitAt = None]
  <2>1. ASSUME NEW r \in rows, Closed(r, Current(z)) \/ Open(r, Current(z))
        PROVE  Closed(r, e) \/ Open(r, e)
    <3>1. Released(r) <= lastTs
      BY <1>9, <2>1 DEF ExitWithoutViolation, Closed, Open
    <3>2. e.entered = None
      BY <1>2 DEF Entries
    <3>3. QED
      BY <3>1, <3>2 DEF Closed
  <2>2. SetEntry(z, e)
    BY <1>9 DEF ExitWithoutViolation
  <2>3. QED
    BY <1>1, <1>2, <1>3, <2>1, <2>2, EntryStep
<1>10. CASE EndCooldown(z)
  <2> DEFINE e == [Current(z) EXCEPT
                     !.state = IF Inside(z) THEN "INSIDE_ZONE" ELSE "OUTSIDE",
                     !.entered = IF Inside(z) THEN msg.ts ELSE None,
                     !.exitAt = None, !.violation = None, !.lastKey = None]
  <2>1. ASSUME NEW r \in rows, Closed(r, Current(z)) \/ Open(r, Current(z))
        PROVE  Closed(r, e) \/ Open(r, e)
    <3>1. /\ Current(z).state = "COOLDOWN" /\ Current(z).coolUntil \in Nat
          /\ Current(z).coolUntil <= lastTs
      BY <1>2, <1>10 DEF EndCooldown, Fits
    <3>2. Released(r) <= lastTs
      BY <1>2, <1>4, <2>1, <3>1 DEF Closed, Open
    <3>3. e.entered = None \/ e.entered = lastTs
      BY <1>2 DEF Entries
    <3>4. QED
      BY <3>2, <3>3 DEF Closed
  <2>2. SetEntry(z, e)
    BY <1>10 DEF EndCooldown
  <2>3. QED
    BY <1>1, <1>2, <1>3, <2>1, <2>2, EntryStep
<1>11. CASE Stay(z) \/ FireStart(z)
  <2>1. entry' = entry
    BY <1>11 DEF Stay, FireStart
  <2>2. QED
    BY <1>1, <1>2, <1>3, <2>1, QuietStep
<1>12. QED
  BY <1>5, <1>6, <1>7, <1>8, <1>9, <1>10, <1>11 DEF Evaluate
\* The penalty an insert writes is far from those of earlier visits, and the
\* entry it belongs to is the visit it was written for.
LEMMA InsertSpacing ==
    ASSUME SpacingInv, Shape', FireInsert
    PROVE  SpacingInv'
<1> DEFINE new == Candidate
           e == [Current(h.zone) EXCEPT !.state = "VIOLATED", !.lastKey = h.ident,
                                        !.violation = ViolationAfter(Candidate)]
<1>1. /\ h.step = "inserting" /\ lastTs' = lastTs /\ created' = created /\ live' = live
      /\ SetEntry(h.zone, e) /\ h'.cvi = h.cvi
      /\ rows' = IF Rejected(new) THEN rows ELSE rows \cup {new}
  BY DEF FireInsert, cviVars, SpacingInv, Shape, TypeOK, Handlers
<1>2. h.cvi \in Cvis /\ h.zone \in Zones /\ new \in Rows
  BY <1>1, CandidateType DEF SpacingInv
<1>3. /\ h.cvi \in created /\ Current(h.zone) \in Entries /\ Fits(Current(h.zone))
      /\ msg.ts = lastTs /\ lastTs \in Nat /\ Current(h.zone) = entry[h.cvi][h.zone]
  BY <1>1, <1>2, HeldFacts DEF SpacingInv
<1>4. /\ Current(h.zone).state = "INSIDE_ZONE" /\ Current(h.zone).entered \in Nat
      /\ msg.ts - Current(h.zone).entered >= Threshold
  BY <1>1, <1>3 DEF SpacingInv, Shape, HandlerOK, Fits
<1>5. /\ new.cvi = h.cvi /\ new.zone = h.zone /\ new.at = lastTs
      /\ new.first = Current(h.zone).entered /\ new.first + Threshold <= new.at
  BY <1>3, <1>4, TimesType DEF Candidate
<1>6. /\ e.state = "VIOLATED" /\ e.entered = Current(h.zone).entered
      /\ e.violation = ViolationAfter(new)
  BY <1>3 DEF Entries
<1>7. new \in rows' => e.violation # None \/ new \in rows
  <2>1. new \in rows' /\ new \notin rows => ~Rejected(new)
    BY <1>1
  <2>2. RowId(new) # None
    BY <1>2, NoneAssumption DEF RowId, Rows, Keys
  <2>3. QED
    BY <1>6, <2>1, <2>2 DEF ViolationAfter
<1>8. ASSUME NEW r \in rows, r.cvi = h.cvi, r.zone = h.zone
      PROVE  /\ Closed(r, Current(h.zone)) \/ Open(r, Current(h.zone))
             /\ Closed(r, e) \/ Open(r, e)
  <2>1. Closed(r, Current(h.zone)) \/ Open(r, Current(h.zone))
    BY <1>3, <1>8 DEF SpacingInv, History, Holds
  <2>2. Current(h.zone).violation # None => e.violation # None
    <3>1. RowId(new) # None
      BY <1>2, NoneAssumption DEF RowId, Rows, Keys
    <3>2. QED
      BY <1>6, <3>1 DEF ViolationAfter
  <2>3. QED
    BY <1>6, <2>1, <2>2 DEF Closed, Open
<1>9. Past'
  <2>1. ASSUME NEW r \in rows'
        PROVE  r.at <= lastTs /\ r.first + Threshold <= r.at /\ r.cvi \in created
    <3>1. CASE r \in rows
      BY <3>1 DEF SpacingInv, Past
    <3>2. CASE r = new
      BY <1>3, <1>5, <3>2
    <3>3. QED
      BY <1>1, <3>1, <3>2
  <2>2. QED
    BY <1>1, <2>1 DEF Past
<1>10. History'
  <2>1. ASSUME NEW r \in rows', Holds(r.cvi)'
        PROVE  Closed(r, entry[r.cvi][r.zone])' \/ Open(r, entry[r.cvi][r.zone])'
    <3>1. CASE r \in rows
      <4>1. r.cvi \in Cvis /\ r.zone \in Zones
        BY <3>1, RowTimes DEF SpacingInv, Shape
      <4>2. Closed(r, entry[r.cvi][r.zone]) \/ Open(r, entry[r.cvi][r.zone])
        BY <1>1, <2>1, <3>1 DEF SpacingInv, History, Holds
      <4>3. CASE r.cvi = h.cvi /\ r.zone = h.zone
        <5>1. entry'[r.cvi][r.zone] = e
          BY <1>1, <4>1, <4>3 DEF SpacingInv, Shape, TypeOK, SetEntry
        <5>2. Closed(r, e) \/ Open(r, e)
          BY <1>8, <3>1, <4>3
        <5>3. QED
          BY <1>1, <5>1, <5>2 DEF Closed, Open, Released
      <4>4. CASE ~(r.cvi = h.cvi /\ r.zone = h.zone)
        <5>1. entry'[r.cvi][r.zone] = entry[r.cvi][r.zone]
          BY <1>1, <4>1, <4>4 DEF SpacingInv, Shape, TypeOK, SetEntry
        <5>2. QED
          BY <1>1, <4>2, <5>1 DEF Closed, Open, Released
      <4>5. QED
        BY <4>3, <4>4
    <3>2. CASE r = new /\ r \notin rows
      <4>1. entry'[r.cvi][r.zone] = e
        BY <1>1, <1>2, <1>5, <3>2 DEF SpacingInv, Shape, TypeOK, SetEntry
      <4>2. e.violation # None
        BY <1>7, <2>1, <3>2
      <4>3. QED
        BY <1>5, <1>6, <3>2, <4>1, <4>2 DEF Open
    <3>3. QED
      BY <1>1, <2>1, <3>1, <3>2
  <2>2. QED
    BY <2>1 DEF History
<1>11. PenaltySpacing'
  <2>1. ASSUME NEW r \in rows', NEW s \in rows', r.cvi = s.cvi, r.zone = s.zone,
               r.first < s.first
        PROVE  s.at >= r.at + ExitConfirm + Cooldown + Threshold
    <3>1. CASE r \in rows /\ s \in rows
      BY <2>1, <3>1 DEF SpacingInv, PenaltySpacing
    <3>2. CASE r \in rows /\ s = new
      <4>1. Closed(r, Current(h.zone)) \/ Open(r, Current(h.zone))
        BY <1>5, <1>8, <2>1, <3>2
      <4>2. r.at \in Nat /\ r.first \in Nat
        BY <3>2, RowTimes DEF SpacingInv, Shape
      <4>3. ~Open(r, Current(h.zone))
        BY <1>4, <1>5, <2>1, <3>2, <4>2 DEF Open
      <4>4. r.at + ExitConfirm + Cooldown <= s.first
        BY <1>4, <1>5, <3>2, <4>1, <4>3, NoneAssumption DEF Closed, Released
      <4>5. QED
        BY <1>3, <1>4, <1>5, <3>2, <4>2, <4>4, TimesType
    <3>3. CASE r = new /\ s \in rows
      <4>1. Closed(s, Current(h.zone)) \/ Open(s, Current(h.zone))
        BY <1>5, <1>8, <2>1, <3>3
      <4>2. s.at \in Nat /\ s.first \in Nat /\ s.first + Threshold <= s.at
        BY <3>3, RowTimes DEF SpacingInv, Shape, Past
      <4>3. Closed(s, Current(h.zone)) => s.first <= r.first
        BY <1>4, <1>5, <3>3, <4>2, NoneAssumption, TimesType DEF Closed, Released
      <4>4. Open(s, Current(h.zone)) => s.first = r.first
        BY <1>5, <3>3 DEF Open
      <4>5. QED
        BY <1>4, <1>5, <2>1, <3>3, <4>1, <4>2, <4>3, <4>4
    <3>4. CASE r = new /\ s = new
      BY <1>4, <1>5, <2>1, <3>4
    <3>5. QED
      BY <1>1, <2>1, <3>1, <3>2, <3>3, <3>4
  <2>2. QED
    BY <2>1 DEF PenaltySpacing
<1>12. QED
  BY <1>9, <1>10, <1>11 DEF SpacingInv

-------------------------------------------------------------------------------
\* The invariant is inductive when an INSERT that raised has written nothing.
LEMMA SpacingStep ==
    ASSUME "lost" \notin DbOutcomes, SpacingInv, [Next]_vars
    PROVE  SpacingInv'
<1> USE DEF cviVars
<1>1. Shape /\ Shape'
  BY ShapeStep DEF SpacingInv
<1>2. lastTs \in Nat /\ lastTs <= lastTs /\ None \notin Cvis
  BY <1>1, NoneAssumption DEF Shape, TypeOK
<1>3. CASE Poll
  <2>1. lastTs <= lastTs'
    BY <1>1, <1>3, TimesType DEF Poll, Shape, TypeOK
  <2>2. \A c \in Cvis : Holds(c)' => Holds(c)
    BY <1>2, <1>3 DEF Poll, Begin, At, Holds
  <2>3. QED
    BY <1>1, <1>3, <2>1, <2>2, QuietStep DEF Poll
<1>4. CASE Redeliver
  <2>1. \A c \in Cvis : Holds(c)' => Holds(c)
    BY <1>2, <1>4 DEF Redeliver, Begin, At, Holds
  <2>2. QED
    BY <1>1, <1>2, <1>4, <2>1, QuietStep DEF Redeliver
<1>5. ASSUME NEW c \in Cvis, Resolve(c) PROVE SpacingInv'
  <2>1. \A d \in Cvis : Holds(d)' => Holds(d) \/ d \notin created
    BY <1>5 DEF Resolve, At, Holds, Matches
  <2>2. created \subseteq created' /\ entry' = entry /\ rows' = rows /\ lastTs' = lastTs
    BY <1>5 DEF Resolve
  <2>3. QED
    BY <1>1, <1>2, <2>1, <2>2, QuietStep
<1>6. CASE Commit
  <2>1. \A c \in Cvis : Holds(c)' => Holds(c)
    BY <1>2, <1>6 DEF Commit, At, Holds
  <2>2. QED
    BY <1>1, <1>2, <1>6, <2>1, QuietStep DEF Commit
<1>7. ASSUME NEW z \in Zones, Evaluate(z) PROVE SpacingInv'
  BY <1>1, <1>7, EvaluateSpacing
<1>8. CASE FireSkip
  <2> DEFINE e == [Current(h.zone) EXCEPT !.state = "VIOLATED", !.lastKey = h.ident]
  <2>1. /\ h.step = "firing" /\ h.zone \in Zones /\ Advance(h.zone) /\ SetEntry(h.zone, e)
        /\ lastTs' = lastTs /\ rows' = rows /\ created' = created /\ live' = live
    BY <1>1, <1>8 DEF FireSkip, Shape, HandlerOK
  <2>2. h.cvi \in Cvis /\ Current(h.zone) \in Entries
    BY <1>1, <2>1, HeldFacts
  <2>3. ASSUME NEW r \in rows, Closed(r, Current(h.zone)) \/ Open(r, Current(h.zone))
        PROVE  Closed(r, e) \/ Open(r, e)
    <3>1. /\ e.entered = Current(h.zone).entered
          /\ e.violation = Current(h.zone).violation /\ e.state = "VIOLATED"
      BY <2>2 DEF Entries
    <3>2. QED
      BY <2>3, <3>1 DEF Closed, Open
  <2>4. \A c \in Cvis : Holds(c)' => Holds(c)
    BY <1>1, <2>1, AdvanceHolds DEF Shape
  <2>5. QED
    BY <1>1, <2>1, <2>2, <2>3, <2>4, EntryStep
<1>9. CASE FireBuild
  <2>1. \A c \in Cvis : Holds(c)' => Holds(c)
    BY <1>1, <1>9 DEF FireBuild, Shape, TypeOK, Handlers, Holds
  <2>2. QED
    BY <1>1, <1>2, <1>9, <2>1, QuietStep DEF FireBuild
<1>10. CASE FireInsert
  BY <1>1, <1>10, InsertSpacing
<1>11. CASE FireRaise
  <2>1. \A c \in Cvis : Holds(c)' => Holds(c)
    BY <1>2, <1>11 DEF FireRaise, At, Holds
  <2>2. QED
    BY <1>1, <1>2, <1>11, <2>1, QuietStep DEF FireRaise
<1>12. CASE FireMark
  <2>1. Advance(h.zone)
    BY <1>12 DEF FireMark
  <2>2. \A c \in Cvis : Holds(c)' => Holds(c)
    BY <1>1, <1>12, <2>1, AdvanceHolds DEF FireMark, Shape
  <2>3. QED
    BY <1>1, <1>2, <1>12, <2>2, QuietStep DEF FireMark
<1>13. ASSUME NEW c \in Cvis, NEW p \in Plates, ApplyOcr(c, p) PROVE SpacingInv'
  <2>1. \A d \in Cvis : Holds(d)' => Holds(d)
    BY <1>13 DEF ApplyOcr, Holds
  <2>2. QED
    BY <1>1, <1>2, <1>13, <2>1, QuietStep DEF ApplyOcr
<1>14. CASE EvictStale
  <2>1. \A c \in Cvis : Holds(c)' => Holds(c)
    BY <1>14 DEF EvictStale, Holds
  <2>2. QED
    BY <1>1, <1>2, <1>14, <2>1, QuietStep DEF EvictStale
<1>15. CASE Crash
  <2>1. \A c \in Cvis : ~Holds(c)'
    BY <1>2, <1>15 DEF Crash, At, Holds
  <2>2. History'
    <3>1. \A r \in rows : r.cvi \in Cvis
      BY <1>1, RowTimes DEF Shape
    <3>2. QED
      BY <1>15, <2>1, <3>1 DEF Crash, History
  <2>3. Past' /\ PenaltySpacing'
    BY <1>15 DEF SpacingInv, Past, PenaltySpacing, Crash
  <2>4. QED
    BY <1>1, <2>2, <2>3 DEF SpacingInv
<1>16. CASE Restart
  <2>1. \A c \in Cvis : Holds(c)' => Holds(c)
    BY <1>2, <1>16 DEF Restart, At, Holds
  <2>2. QED
    BY <1>1, <1>2, <1>16, <2>1, QuietStep DEF Restart
<1>17. CASE Tick
  <2>1. \A c \in Cvis : Holds(c)' => Holds(c)
    BY <1>17 DEF Tick, Holds
  <2>2. QED
    BY <1>1, <1>2, <1>17, <2>1, QuietStep DEF Tick
<1>18. CASE UNCHANGED vars
  <2>1. \A c \in Cvis : Holds(c)' => Holds(c)
    BY <1>18 DEF vars, Holds
  <2>2. QED
    BY <1>1, <1>2, <1>18, <2>1, QuietStep DEF vars
<1>19. QED
  BY <1>3, <1>4, <1>5, <1>6, <1>7, <1>8, <1>9, <1>10, <1>11, <1>12, <1>13, <1>14,
     <1>15, <1>16, <1>17, <1>18 DEF Next, HandlerStep, Fire

\* Two penalties of one CVI in one zone for different visits are at least
\* exit_confirm_seconds + cooldown_seconds + threshold_seconds apart, for any
\* identities, Redis failures and restarts, when an INSERT that raised has
\* written nothing.
THEOREM PenaltiesSpaced ==
    ASSUME "lost" \notin DbOutcomes
    PROVE  Spec => []PenaltySpacing
<1>1. SpacingInv => PenaltySpacing
  BY DEF SpacingInv
<1>2. SpacingInv /\ [Next]_vars => SpacingInv'
  BY SpacingStep
<1>3. QED
  BY SpacingInit, <1>1, <1>2, PTL DEF Spec
-------------------------------------------------------------------------------
(* An active key stands for a row *)

HasPenalty(z, k) == \E r \in rows : r.zone = z /\ r.ident = k

\* A key is marked only behind an insert that returned, and then its row is there.
KeyRowInv ==
    /\ Shape /\ ActiveKeyHasRow
    /\ h.step = "marking" => HasPenalty(h.zone, h.ident)

LEMMA KeyRowInit == Init => KeyRowInv
BY InitShape DEF Init, KeyRowInv, ActiveKeyHasRow, At

\* Rows are never deleted, and only FireMark sets a key.
LEMMA KeysSet ==
    ASSUME Shape, [Next]_vars
    PROVE  /\ rows \subseteq rows'
           /\ \A z \in Zones, k \in Keys :
                redisActive'[z][k] > 0 \/ <<z, k>> \in localActive' =>
                  \/ redisActive[z][k] > 0 \/ <<z, k>> \in localActive
                  \/ h.step = "marking" /\ z = h.zone /\ k = h.ident
<1> USE DEF cviVars, localVars, redisVars
<1> DEFINE NoneSet == \A z \in Zones, k \in Keys :
                        redisActive'[z][k] > 0 \/ <<z, k>> \in localActive' =>
                          redisActive[z][k] > 0 \/ <<z, k>> \in localActive
<1>0. redisActive \in [Zones -> [Keys -> Nat]] /\ h \in Handlers
  BY DEF Shape, TypeOK
<1>1. ASSUME NEW z \in Zones, Evaluate(z) PROVE rows' = rows /\ NoneSet
  <2>1. ASSUME NEW k, ClearActive(z, k) PROVE NoneSet
    BY <1>0, <2>1 DEF ClearActive
  <2>2. CASE ConfirmExit(z)
    BY <2>1, <2>2 DEF ConfirmExit
  <2>3. CASE EndCooldown(z)
    BY <2>3 DEF EndCooldown, BumpCycle
  <2>4. CASE ~ConfirmExit(z) /\ ~EndCooldown(z)
    BY <1>1, <2>4 DEF Evaluate, Enter, Leave, ReEnter, ExitWithoutViolation, Stay, FireStart
  <2>5. QED
    BY <1>1, <2>2, <2>3, <2>4 DEF ConfirmExit, EndCooldown
<1>2. CASE FireMark
  <2>1. h.zone \in Zones /\ h.ident \in Keys /\ MarkActive(h.zone, h.ident)
        /\ h.step = "marking" /\ rows' = rows
    BY <1>2 DEF FireMark, Shape, HandlerOK
  <2>2. QED
    BY <1>0, <2>1 DEF MarkActive
<1>3. CASE FireSkip \/ FireBuild \/ FireInsert \/ FireRaise
  BY <1>3 DEF FireSkip, FireBuild, FireInsert, FireRaise
<1>4. CASE Crash
  BY <1>4 DEF Crash
<1>5. QED
  BY <1>1, <1>2, <1>3, <1>4
     DEF Next, HandlerStep, Fire, Poll, Redeliver, Commit, Resolve, ApplyOcr, EvictStale,
         Restart, Tick, vars

\* The handler gets to marking only by an insert that wrote the row, or was
\* rejected because there is one.
LEMMA MarkingStep ==
    ASSUME ~FkEnforced, KeyRowInv, [Next]_vars, h'.step = "marking"
    PROVE  HasPenalty(h.zone, h.ident)'
<1> USE DEF cviVars, localVars, redisVars
<1>0. h \in Handlers
  BY DEF KeyRowInv, Shape, TypeOK
<1>1. CASE FireInsert
  <2>1. h'.zone = h.zone /\ h'.ident = h.ident
    BY <1>0, <1>1 DEF FireInsert, Handlers
  <2>2. Candidate.zone = h.zone /\ Candidate.ident = h.ident
    BY DEF Candidate
  <2>3. CASE Rejected(Candidate)
    <3>1. PICK q \in rows : q.zone = Candidate.zone /\ RowId(q) = RowId(Candidate)
      BY <2>3 DEF Rejected, CviRecordMissing, Conflicts
    <3>2. q.ident = h.ident /\ q.zone = h.zone
      BY <2>2, <3>1 DEF RowId
    <3>3. QED
      BY <1>1, <2>1, <2>3, <3>2 DEF FireInsert, HasPenalty
  <2>4. CASE ~Rejected(Candidate)
    BY <1>1, <2>1, <2>2, <2>4 DEF FireInsert, HasPenalty
  <2>5. QED
    BY <2>3, <2>4
<1>2. CASE h' = h
  BY <1>2, KeysSet DEF KeyRowInv, HasPenalty
<1>3. ASSUME NEW z, Advance(z) PROVE FALSE
  BY <1>3 DEF Advance, At
<1>4. ASSUME NEW z \in Zones, Evaluate(z) PROVE FALSE
  <2>1. CASE FireStart(z)
    BY <1>0, <2>1 DEF FireStart, Handlers
  <2>2. QED
    BY <1>3, <1>4, <2>1 DEF Evaluate, Enter, Leave, ReEnter, ConfirmExit,
                            ExitWithoutViolation, EndCooldown, Stay
<1>5. CASE FireSkip \/ FireMark
  BY <1>3, <1>5 DEF FireSkip, FireMark
<1>6. CASE FireBuild
  BY <1>0, <1>6 DEF FireBuild, Handlers
<1>7. CASE Poll \/ Redeliver \/ Commit \/ FireRaise \/ Crash \/ Restart
  BY <1>7 DEF Poll, Redeliver, Begin, Commit, FireRaise, Crash, Restart, At
<1>8. ASSUME NEW c \in Cvis, Resolve(c) PROVE FALSE
  BY <1>8 DEF Resolve, At
<1>9. QED
  BY <1>1, <1>2, <1>4, <1>5, <1>6, <1>7, <1>8
     DEF Next, HandlerStep, Fire, ApplyOcr, EvictStale, Tick, vars

\* Where no foreign key is enforced an active key, shared or process-local,
\* stands for a row: whatever Redis, the database and identities do.
THEOREM ActiveKeysHaveRows ==
    ASSUME ~FkEnforced
    PROVE  Spec => []ActiveKeyHasRow
<1>1. ASSUME KeyRowInv, [Next]_vars PROVE KeyRowInv'
  <2>1. Shape'
    BY <1>1, ShapeStep DEF KeyRowInv
  <2>2. h'.step = "marking" => HasPenalty(h.zone, h.ident)'
    BY <1>1, MarkingStep
  <2>3. ActiveKeyHasRow'
    <3>1. ASSUME NEW z \in Zones, NEW k \in Keys,
                 redisActive'[z][k] > 0 \/ <<z, k>> \in localActive'
          PROVE  \E r \in rows' : r.zone = z /\ r.ident = k
      BY <1>1, <3>1, KeysSet DEF KeyRowInv, ActiveKeyHasRow, HasPenalty
    <3>2. QED
      BY <3>1 DEF ActiveKeyHasRow
  <2>4. QED
    BY <2>1, <2>2, <2>3 DEF KeyRowInv
<1>2. KeyRowInv => ActiveKeyHasRow
  BY DEF KeyRowInv
<1>3. QED
  BY <1>1, <1>2, KeyRowInit, PTL DEF Spec
-------------------------------------------------------------------------------
(* ViolationService implements CviRegistry *)

\* No CVI was seen after the newest message.
SeenInv == Shape /\ \A c \in live : lastSeen[c] <= lastTs

SeenOf == [c \in Cvis |-> IF c \in live THEN lastSeen[c] ELSE 0]

\* What the steps that leave the CVIs alone have in common.
CvisKept == UNCHANGED <<clock, live, created, lastSeen>> /\ lastTs <= lastTs'

\* A CVI is created, seen, evicted or lost with the process, and by no other step.
LEMMA CviSteps ==
    ASSUME Shape, [Next]_vars
    PROVE  \/ CvisKept \/ EvictStale \/ Crash \/ Tick
           \/ \E c \in Cvis : Resolve(c)
<1> USE DEF cviVars, CvisKept
<1>0. lastTs \in Nat
  BY DEF Shape, TypeOK
<1>1. CASE Poll
  BY <1>0, <1>1, TimesType DEF Poll, Shape, TypeOK
<1>2. CASE Redeliver \/ Commit \/ Restart \/ UNCHANGED vars
  BY <1>0, <1>2 DEF Redeliver, Commit, Restart, vars
<1>3. ASSUME NEW z \in Zones, Evaluate(z) PROVE CvisKept
  BY <1>0, <1>3 DEF Evaluate, Enter, Leave, ReEnter, ConfirmExit, ExitWithoutViolation,
                    EndCooldown, Stay, FireStart
<1>4. CASE Fire
  <2>1. UNCHANGED <<clock, live, created, lastSeen, lastTs>>
    BY <1>4 DEF Fire, FireSkip, FireBuild, FireInsert, FireRaise, FireMark
  <2>2. QED
    BY <1>0, <2>1
<1>5. ASSUME NEW c \in Cvis, NEW p \in Plates, ApplyOcr(c, p) PROVE CvisKept
  BY <1>0, <1>5 DEF ApplyOcr
<1>6. QED
  BY <1>1, <1>2, <1>3, <1>4, <1>5 DEF Next, HandlerStep

LEMMA SeenInit == Init => SeenInv
BY InitShape DEF Init, SeenInv

LEMMA SeenStep == ASSUME SeenInv, [Next]_vars PROVE SeenInv'
<1>0. /\ Shape /\ Shape' /\ lastTs \in Nat /\ lastSeen \in [Cvis -> Nat]
      /\ live \subseteq Cvis
  BY ShapeStep DEF SeenInv, Shape, TypeOK
<1>1. CASE CvisKept
  <2>1. \A c \in live : lastSeen[c] \in Nat /\ lastTs' \in Nat
    BY <1>0 DEF Shape, TypeOK
  <2>2. QED
    BY <1>0, <1>1, <2>1 DEF SeenInv, CvisKept
<1>2. CASE EvictStale
  BY <1>0, <1>2 DEF SeenInv, EvictStale
<1>3. CASE Crash
  BY <1>0, <1>3 DEF SeenInv, Crash
<1>4. CASE Tick
  BY <1>0, <1>4 DEF SeenInv, Tick, cviVars
<1>5. ASSUME NEW c \in Cvis, Resolve(c) PROVE SeenInv'
  <2>1. msg.ts = lastTs /\ lastTs' = lastTs
    BY <1>0, <1>5 DEF Resolve, Shape, HandlerOK, MessageOK
  <2>2. live' = live \cup {c} /\ lastSeen' = [lastSeen EXCEPT ![c] = msg.ts]
    BY <1>5 DEF Resolve
  <2>3. QED
    BY <1>0, <2>1, <2>2 DEF SeenInv
<1>6. QED
  BY <1>0, <1>1, <1>2, <1>3, <1>4, <1>5, CviSteps

\* A step of the service is a step of the registry, or leaves it alone.
LEMMA RegistrySimulation ==
    ASSUME SeenInv, [Next]_vars
    PROVE  [Registry!Next]_<<clock, live, created, SeenOf>>
<1>0. /\ Shape /\ lastTs \in Nat /\ clock \in Nat /\ lastTs <= clock
      /\ lastSeen \in [Cvis -> Nat] /\ live \subseteq created /\ created \subseteq Cvis
      /\ \A c \in live : lastSeen[c] <= lastTs
  BY DEF SeenInv, Shape, TypeOK, MessageOK
<1>1. ASSUME NEW c \in Cvis, Resolve(c) PROVE Registry!Next
  <2>1. msg.ts = lastTs /\ (Matches(c, lastTs) \/ c \notin created)
    BY <1>0, <1>1 DEF Resolve, Shape, HandlerOK, MessageOK
  <2>2. /\ live' = live \cup {c} /\ created' = created \cup {c}
        /\ lastSeen' = [lastSeen EXCEPT ![c] = lastTs] /\ UNCHANGED clock
    BY <1>1, <2>1 DEF Resolve
  <2>3. PICK ts \in 0 .. clock : ts = lastTs
    BY <1>0
  <2>4. SeenOf' = [SeenOf EXCEPT ![c] = ts]
    BY <1>0, <2>2, <2>3 DEF SeenOf
  <2>5. CASE Matches(c, lastTs)
    <3>1. c \in live /\ SeenOf[c] = lastSeen[c] /\ live' = live /\ created' = created
      BY <1>0, <2>2, <2>5 DEF Matches, SeenOf
    <3>2. ts \in SeenOf[c] .. clock /\ ts - SeenOf[c] <= MatchWindow
      BY <1>0, <2>3, <2>5, <3>1 DEF Matches
    <3>3. Registry!Match(c, ts)
      BY <2>2, <2>4, <3>1, <3>2 DEF Registry!Match, SeenOf
    <3>4. QED
      BY <3>3 DEF Registry!Next
  <2>6. CASE c \notin created
    <3>1. Registry!Create(c, ts)
      BY <2>2, <2>4, <2>6 DEF Registry!Create, SeenOf
    <3>2. QED
      BY <3>1 DEF Registry!Next
  <2>7. QED
    BY <2>1, <2>5, <2>6
<1>2. CASE EvictStale
  <2> DEFINE stale == {c \in live : SeenOf[c] < clock - EvictIdle}
  <2>1. stale = {c \in live : lastSeen[c] < clock - EvictIdle}
    BY <1>0 DEF SeenOf
  <2>2. live' = live \ stale /\ UNCHANGED <<clock, created, lastSeen>>
    BY <1>2, <2>1 DEF EvictStale
  <2> HIDE DEF stale
  <2>3. SeenOf' = [c \in Cvis |-> IF c \in stale THEN 0 ELSE SeenOf[c]]
    BY <1>0, <2>2 DEF SeenOf
  <2>4. Registry!Evict
    BY <2>2, <2>3 DEF Registry!Evict, Registry!Retire, stale, SeenOf
  <2>5. QED
    BY <2>4 DEF Registry!Next
<1>3. CASE Crash
  <2>1. live' = {} /\ UNCHANGED <<clock, created>>
    BY <1>3 DEF Crash
  <2>2. SeenOf' = [c \in Cvis |-> IF c \in live THEN 0 ELSE SeenOf[c]]
    BY <1>0, <2>1 DEF SeenOf
  <2>3. Registry!Stop
    BY <2>1, <2>2 DEF Registry!Stop, Registry!Retire, SeenOf
  <2>4. QED
    BY <2>3 DEF Registry!Next
<1>4. CASE Tick
  <2>1. clock' = clock + 1 /\ live' = live /\ created' = created /\ SeenOf' = SeenOf
    BY <1>4 DEF Tick, cviVars, SeenOf
  <2>2. Registry!Tick
    BY <2>1 DEF Registry!Tick, SeenOf
  <2>3. QED
    BY <2>2 DEF Registry!Next
<1>5. CASE CvisKept
  BY <1>5 DEF CvisKept, SeenOf
<1>6. QED
  BY <1>0, <1>1, <1>2, <1>3, <1>4, <1>5, CviSteps

\* The CVIs of the service keep to what CviRegistry promises, whatever fails, dies
\* or is delivered again: what is proved of CviMatching's registry is what
\* ViolationService assumes of the CVI manager, and no more.
THEOREM ServiceImplementsRegistry == Spec => RegistrySpec
<1>1. Init => Registry!Init
  BY DEF Init, Registry!Init
<1>2. Init => SeenInv
  BY SeenInit
<1>3. SeenInv /\ [Next]_vars => SeenInv'
  BY SeenStep
<1>4. SeenInv /\ [Next]_vars => [Registry!Next]_<<clock, live, created, SeenOf>>
  BY RegistrySimulation
<1>5. QED
  BY <1>1, <1>2, <1>3, <1>4, PTL DEF Spec, RegistrySpec, Registry!Spec, SeenOf
===============================================================================
