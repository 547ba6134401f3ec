------------------------- MODULE StableIdentityProofs -------------------------
(***************************************************************************)
(* With identities that do not change and a Redis that answers,            *)
(* ViolationService implements PenaltyLedger, and penalises each visit     *)
(* once: proved for every value of the other constants, so for any         *)
(* messages, restarts, evictions and failures of the database.             *)
(***************************************************************************)
EXTENDS ViolationServiceProofs

\* What the two hypotheses make of the keys: the identity of a CVI is the
\* fallback key it was created with, and the handler and the entries use it.
KeyInv ==
    /\ \A c \in Cvis : plate[c] = None
    /\ h.step \in {"firing", "inserting", "marking"} => h.ident = fallback[h.cvi]
    /\ h.step = "inserting" => h.cycle = redisCycle[h.zone][h.ident]
    /\ \A c \in Cvis, z \in Zones : entry[c][z].lastKey \in {None, fallback[c]}

\* A row is older than any visit that begins now.
RowsPast == \A r \in rows : r.first < lastTs /\ r.at <= lastTs

RowsKeyed == \A r \in rows : r.ident = fallback[r.cvi]

UniqueIds == \A r, s \in rows : r.zone = s.zone /\ RowId(r) = RowId(s) => r = s

\* The penalty of a visit is of the current cycle of its identity ...
VisitCycle ==
    \A r \in rows :
        entry[r.cvi][r.zone].entered = r.first => r.cycle = redisCycle[r.zone][r.ident]

\* ... and the row an entry refers to is the penalty of its visit.
OwnRow(r, c, z) ==
    /\ r.zone = z /\ r.cvi = c /\ RowId(r) = entry[c][z].violation
    /\ r.first = entry[c][z].entered

ViolationRow ==
    \A c \in Cvis, z \in Zones :
        entry[c][z].violation # None => \E r \in rows : OwnRow(r, c, z)

LedgerInv ==
    /\ Shape /\ KeyInv /\ RowsPast /\ RowsKeyed /\ UniqueIds /\ VisitCycle /\ ViolationRow
    /\ RowsInReachedCycles /\ OnePenaltyPerVisit
-------------------------------------------------------------------------------
(* The three kinds of step, as far as the ledger of penalties is concerned *)

\* An entry keeps its visit and its row, or has no row and no past visit.
Carried(c, z) ==
    \/ /\ entry'[c][z].violation = entry[c][z].violation
       /\ entry'[c][z].entered = entry[c][z].entered
    \/ /\ entry'[c][z].violation = None
       /\ entry'[c][z].entered \in {None, lastTs}

Quiet ==
    /\ rows' = rows /\ redisCycle' = redisCycle
    /\ \A c \in Cvis, z \in Zones : Carried(c, z)

CycleClosed(z) ==
    /\ rows' = rows
    /\ h.cvi \in Cvis /\ entry[h.cvi][z].violation # None
    /\ redisCycle' = [redisCycle EXCEPT ![z][fallback[h.cvi]] = @ + 1]
    /\ \A c \in Cvis, y \in Zones : Carried(c, y)
    /\ entry'[h.cvi][z].violation = None /\ entry'[h.cvi][z].entered \in {None, lastTs}

Inserted ==
    /\ h.step = "inserting" /\ ~Rejected(Candidate)
    /\ rows' = rows \cup {Candidate} /\ redisCycle' = redisCycle
    /\ \A c \in Cvis, z \in Zones :
         /\ entry'[c][z].entered = entry[c][z].entered
         /\ \/ entry'[c][z].violation = entry[c][z].violation
            \/ /\ c = h.cvi /\ z = h.zone
               /\ entry'[c][z].violation = RowId(Candidate)

\* An entry that is set to one that keeps its visit and its row, or has none.
LEMMA SetEntryCarried ==
    ASSUME TypeOK, h.cvi \in Cvis, NEW z \in Zones, NEW e, SetEntry(z, e),
           \/ e.violation = Current(z).violation /\ e.entered = Current(z).entered
           \/ e.violation = None /\ e.entered \in {None, lastTs}
    PROVE  \A c \in Cvis, y \in Zones : Carried(c, y)
<1> SUFFICES ASSUME NEW c \in Cvis, NEW y \in Zones PROVE Carried(c, y)
  OBVIOUS
<1>1. entry'[c][y] = IF c = h.cvi /\ y = z THEN e ELSE entry[c][y]
  BY DEF TypeOK, SetEntry
<1>2. QED
  BY <1>1 DEF Carried, Current

\* Evaluating a zone writes no row, and changes a cycle only when a cooldown
\* ends, after which the entry has no row.
LEMMA EvaluateEffects ==
    ASSUME ReliableRedis, Shape, KeyInv, NEW z \in Zones, Evaluate(z)
    PROVE  Quiet \/ CycleClosed(z)
<1> USE DEF cviVars, localVars, redisVars
<1>1. h.step = "zone"
  BY DEF Evaluate, Enter, Leave, ReEnter, ConfirmExit, ExitWithoutViolation, EndCooldown,
         Stay, FireStart, ExitDue, Matured, Evaluates
<1>2. /\ h.cvi \in Cvis /\ Current(z) \in Entries /\ Fits(Current(z))
      /\ msg.ts = lastTs /\ TypeOK /\ Current(z) = entry[h.cvi][z]
  BY <1>1, HeldFacts DEF Shape
<1>3. CASE Enter(z)
  <2> DEFINE e == [Current(z) EXCEPT !.state = "INSIDE_ZONE", !.entered = msg.ts,
                                     !.exitAt = None]
  <2>1. SetEntry(z, e) /\ e.violation = None /\ e.entered = lastTs
    BY <1>2, <1>3 DEF Enter, Fits, Entries
  <2>2. \A c \in Cvis, y \in Zones : Carried(c, y)
    BY <1>2, <2>1, SetEntryCarried
  <2>3. QED
    BY <1>3, <2>2 DEF Enter, Quiet
<1>4. CASE Leave(z)
  <2> DEFINE e == [Current(z) EXCEPT !.state = "EXIT_CANDIDATE", !.exitAt = msg.ts]
  <2>1. /\ SetEntry(z, e)
        /\ e.violation = Current(z).violation /\ e.entered = Current(z).entered
    BY <1>2, <1>4 DEF Leave, Entries
  <2>2. \A c \in Cvis, y \in Zones : Carried(c, y)
    BY <1>2, <2>1, SetEntryCarried
  <2>3. QED
    BY <1>4, <2>2 DEF Leave, Quiet
<1>5. CASE ReEnter(z)
  <2> DEFINE e == [Current(z) EXCEPT !.state = "INSIDE_ZONE", !.exitAt = None]
  <2>1. /\ SetEntry(z, e)
        /\ e.violation = Current(z).violation /\ e.entered = Current(z).entered
    BY <1>2, <1>5 DEF ReEnter, Entries
  <2>2. \A c \in Cvis, y \in Zones : Carried(c, y)
    BY <1>2, <2>1, SetEntryCarried
  <2>3. QED
    BY <1>5, <2>2 DEF ReEnter, Quiet
<1>6. CASE ConfirmExit(z)
  <2> DEFINE e == [Current(z) EXCEPT !.state = "COOLDOWN", !.coolUntil = msg.ts + Cooldown]
  <2>1. /\ SetEntry(z, e)
        /\ e.violation = Current(z).violation /\ e.entered = Current(z).entered
    BY <1>2, <1>6 DEF ConfirmExit, Entries
  <2>2. \A c \in Cvis, y \in Zones : Carried(c, y)
    BY <1>2, <2>1, SetEntryCarried
  <2>3. rows' = rows /\ redisCycle' = redisCycle
    BY <1>6 DEF ConfirmExit, ClearActive
  <2>4. QED
    BY <2>2, <2>3 DEF Quiet
<1>7. CASE ExitWithoutViolation(z)
  <2> DEFINE e == [Current(z) EXCEPT !.state = "OUTSIDE", !.entered = None, !.exitAt = None]
  <2>1. SetEntry(z, e) /\ e.violation = None /\ e.entered = None
    BY <1>2, <1>7 DEF ExitWithoutViolation, Entries
  <2>2. \A c \in Cvis, y \in Zones : Carried(c, y)
    BY <1>2, <2>1, SetEntryCarried
  <2>3. QED
    BY <1>7, <2>2 DEF ExitWithoutViolation, Quiet
<1>8. CASE EndCooldown(z)
  <2> DEFINE e == [Current(z) EXCEPT
                     !.state = IF Inside(z) THEN "INSIDE_ZONE" ELSE "OUTSIDE",
                     !.entered = IF Inside(z) THEN msg.ts ELSE None,
                     !.exitAt = None, !.violation = None, !.lastKey = None]
  <2>1. SetEntry(z, e) /\ e.violation = None /\ e.entered \in {None, lastTs}
    BY <1>2, <1>8 DEF EndCooldown, Entries
  <2>2. \A c \in Cvis, y \in Zones : Carried(c, y)
    BY <1>2, <2>1, SetEntryCarried
  <2>3. entry'[h.cvi][z] = e
    BY <1>2, <2>1 DEF TypeOK, SetEntry
  <2>4. Current(z).violation # None
    BY <1>2, <1>8 DEF EndCooldown, Fits
  <2>5. Identity(h.cvi) = fallback[h.cvi]
    BY <1>2 DEF KeyInv, Identity
  <2>6. redisCycle' = [redisCycle EXCEPT ![z][fallback[h.cvi]] = @ + 1] /\ rows' = rows
    BY <1>8, <2>5 DEF EndCooldown, BumpCycle, ReliableRedis
  <2>7. QED
    BY <1>2, <2>1, <2>2, <2>3, <2>4, <2>6 DEF CycleClosed
<1>9. CASE Stay(z) \/ FireStart(z)
  BY <1>9 DEF Stay, FireStart, Quiet, Carried
<1>10. QED
  BY <1>3, <1>4, <1>5, <1>6, <1>7, <1>8, <1>9 DEF Evaluate

\* Every step is of one of the three kinds.
LEMMA Effects ==
    ASSUME ReliableRedis, Shape, Shape', KeyInv, [Next]_vars
    PROVE  Quiet \/ Inserted \/ \E z \in Zones : CycleClosed(z)
<1> USE DEF cviVars, localVars, redisVars
<1>1. ASSUME NEW z \in Zones, Evaluate(z) PROVE Quiet \/ CycleClosed(z)
  BY <1>1, EvaluateEffects
<1>2. CASE FireSkip
  <2> DEFINE e == [Current(h.zone) EXCEPT !.state = "VIOLATED", !.lastKey = h.ident]
  <2>1. h.step = "firing" /\ h.zone \in Zones /\ TypeOK
    BY <1>2 DEF FireSkip, Shape, HandlerOK
  <2>2. h.cvi \in Cvis /\ Current(h.zone) \in Entries
    BY <2>1, HeldFacts
  <2>3. /\ SetEntry(h.zone, e) /\ e.violation = Current(h.zone).violation
        /\ e.entered = Current(h.zone).entered
    BY <1>2, <2>2 DEF FireSkip, Entries
  <2>4. \A c \in Cvis, y \in Zones : Carried(c, y)
    BY <2>1, <2>2, <2>3, SetEntryCarried
  <2>5. QED
    BY <1>2, <2>4 DEF FireSkip, Quiet
<1>3. CASE FireInsert
  <2> DEFINE e == [Current(h.zone) EXCEPT !.state = "VIOLATED", !.lastKey = h.ident,
                                          !.violation = ViolationAfter(Candidate)]
  <2>1. h.step = "inserting" /\ SetEntry(h.zone, e) /\ redisCycle' = redisCycle
    BY <1>3 DEF FireInsert
  <2>2. h.cvi \in Cvis /\ h.zone \in Zones /\ TypeOK
    BY <2>1, CandidateType DEF Shape
  <2>3. Current(h.zone) \in Entries /\ Current(h.zone) = entry[h.cvi][h.zone]
    BY <2>1, <2>2, HeldFacts
  <2>4. e.entered = Current(h.zone).entered /\ e.violation = ViolationAfter(Candidate)
    BY <2>3 DEF Entries
  <2>5. CASE Rejected(Candidate)
    <3>1. e.violation = Current(h.zone).violation /\ rows' = rows
      BY <1>3, <2>4, <2>5 DEF ViolationAfter, FireInsert
    <3>2. \A c \in Cvis, y \in Zones : Carried(c, y)
      BY <2>1, <2>2, <2>4, <3>1, SetEntryCarried
    <3>3. QED
      BY <2>1, <3>1, <3>2 DEF Quiet
  <2>6. CASE ~Rejected(Candidate)
    <3>1. e.violation = RowId(Candidate) /\ rows' = rows \cup {Candidate}
      BY <1>3, <2>4, <2>6 DEF ViolationAfter, FireInsert
    <3>2. ASSUME NEW c \in Cvis, NEW z \in Zones
          PROVE  /\ entry'[c][z].entered = entry[c][z].entered
                 /\ \/ entry'[c][z].violation = entry[c][z].violation
                    \/ /\ c = h.cvi /\ z = h.zone
                       /\ entry'[c][z].violation = RowId(Candidate)
      <4>1. entry'[c][z] = IF c = h.cvi /\ z = h.zone THEN e ELSE entry[c][z]
        BY <2>1, <2>2 DEF TypeOK, SetEntry
      <4>2. QED
        BY <2>3, <2>4, <3>1, <4>1
    <3>3. QED
      BY <2>1, <2>6, <3>1, <3>2 DEF Inserted
  <2>7. QED
    BY <2>5, <2>6
<1>4. CASE FireRaise
  <2>1. entry' = entry /\ redisCycle' = redisCycle /\ h.step = "inserting"
    BY <1>4 DEF FireRaise
  <2>2. rows' = rows \/ (~Rejected(Candidate) /\ rows' = rows \cup {Candidate})
    BY <1>4 DEF FireRaise
  <2>3. QED
    BY <2>1, <2>2 DEF Quiet, Inserted, Carried
<1>5. CASE Crash
  <2>1. \A c \in Cvis, z \in Zones :
          entry'[c][z].violation = None /\ entry'[c][z].entered = None
    BY <1>5 DEF Crash, NoEntries, NewEntry
  <2>2. QED
    BY <1>5, <2>1 DEF Crash, Quiet, Carried
<1>6. CASE rows' = rows /\ redisCycle' = redisCycle /\ entry' = entry
  BY <1>6 DEF Quiet, Carried
<1>7. QED
  BY <1>1, <1>2, <1>3, <1>4, <1>5, <1>6
     DEF Next, HandlerStep, Fire, Poll, Redeliver, Commit, Resolve, FireBuild, FireMark,
         MarkActive, ApplyOcr, EvictStale, Restart, Tick, vars
-------------------------------------------------------------------------------
(* Keys *)

\* Identities that are stable are never changed.
LEMMA FallbackKept ==
    ASSUME StableIdentity, TypeOK, [Next]_vars
    PROVE  fallback' = fallback
<1> USE DEF cviVars, localVars, redisVars
<1>1. ASSUME NEW c \in Cvis, Resolve(c) PROVE fallback' = fallback
  <2>1. fallback' = [fallback EXCEPT ![c] = fallback[c]]
    BY <1>1 DEF Resolve, StableIdentity
  <2>2. QED
    BY <2>1 DEF TypeOK
<1>2. ASSUME NEW z \in Zones, Evaluate(z) PROVE fallback' = fallback
  BY <1>2 DEF Evaluate, Enter, Leave, ReEnter, ConfirmExit, ExitWithoutViolation,
              EndCooldown, Stay, FireStart
<1>3. CASE Fire
  BY <1>3 DEF Fire, FireSkip, FireBuild, FireInsert, FireRaise, FireMark
<1>4. QED
  BY <1>1, <1>2, <1>3 DEF Next, HandlerStep, Poll, Redeliver, Commit, ApplyOcr, EvictStale,
                          Crash, Restart, Tick, vars

\* An entry that is set to one without a key or with the key of its CVI.
LEMMA SetEntryKey ==
    ASSUME TypeOK, KeyInv, h.cvi \in Cvis, NEW z \in Zones, NEW e, SetEntry(z, e),
           e.lastKey \in {None, fallback[h.cvi]}
    PROVE  \A c \in Cvis, y \in Zones : entry'[c][y].lastKey \in {None, fallback[c]}
<1> SUFFICES ASSUME NEW c \in Cvis, NEW y \in Zones
             PROVE  entry'[c][y].lastKey \in {None, fallback[c]}
  OBVIOUS
<1>1. entry'[c][y] = IF c = h.cvi /\ y = z THEN e ELSE entry[c][y]
  BY DEF TypeOK, SetEntry
<1>2. QED
  BY <1>1 DEF KeyInv

\* The keys of the entries stay those of their CVIs.
LEMMA KeyEntries ==
    ASSUME StableIdentity, Shape, KeyInv, [Next]_vars
    PROVE  \A c \in Cvis, z \in Zones : entry'[c][z].lastKey \in {None, fallback[c]}
<1> USE DEF cviVars, localVars, redisVars
<1>1. CASE entry' = entry
  BY <1>1 DEF KeyInv
<1>2. ASSUME NEW z \in Zones, Evaluate(z)
      PROVE  \/ entry' = entry
             \/ \A c \in Cvis, y \in Zones : entry'[c][y].lastKey \in {None, fallback[c]}
  <2>1. h.step = "zone"
    BY <1>2 DEF Evaluate, Enter, Leave, ReEnter, ConfirmExit, ExitWithoutViolation,
                EndCooldown, Stay, FireStart, ExitDue, Matured, Evaluates
  <2>2. h.cvi \in Cvis /\ Current(z) \in Entries /\ Current(z) = entry[h.cvi][z] /\ TypeOK
    BY <2>1, HeldFacts DEF Shape
  <2>3. Current(z).lastKey \in {None, fallback[h.cvi]}
    BY <2>2 DEF KeyInv
  <2>4. entry' = entry \/ \E e : SetEntry(z, e) /\ e.lastKey \in {None, Current(z).lastKey}
    <3>1. CASE Enter(z)
      <4> DEFINE e == [Current(z) EXCEPT !.state = "INSIDE_ZONE", !.entered = msg.ts,
                                         !.exitAt = None]
      <4>1. SetEntry(z, e) /\ e.lastKey \in {None, Current(z).lastKey}
        BY <2>2, <3>1 DEF Enter, Entries
      <4>2. QED
        BY <4>1
    <3>2. CASE Leave(z)
      <4> DEFINE e == [Current(z) EXCEPT !.state = "EXIT_CANDIDATE", !.exitAt = msg.ts]
      <4>1. SetEntry(z, e) /\ e.lastKey \in {None, Current(z).lastKey}
        BY <2>2, <3>2 DEF Leave, Entries
      <4>2. QED
        BY <4>1
    <3>3. CASE ReEnter(z)
      <4> DEFINE e == [Current(z) EXCEPT !.state = "INSIDE_ZONE", !.exitAt = None]
      <4>1. SetEntry(z, e) /\ e.lastKey \in {None, Current(z).lastKey}
        BY <2>2, <3>3 DEF ReEnter, Entries
      <4>2. QED
        BY <4>1
    <3>4. CASE ConfirmExit(z)
      <4> DEFINE e == [Current(z) EXCEPT !.state = "COOLDOWN",
                                         !.coolUntil = msg.ts + Cooldown]
      <4>1. SetEntry(z, e) /\ e.lastKey \in {None, Current(z).lastKey}
        BY <2>2, <3>4 DEF ConfirmExit, Entries
      <4>2. QED
        BY <4>1
    <3>5. CASE ExitWithoutViolation(z)
      <4> DEFINE e == [Current(z) EXCEPT !.state = "OUTSIDE", !.entered = None,
                                         !.exitAt = None]
      <4>1. SetEntry(z, e) /\ e.lastKey \in {None, Current(z).lastKey}
        BY <2>2, <3>5 DEF ExitWithoutViolation, Entries
      <4>2. QED
        BY <4>1
    <3>6. CASE EndCooldown(z)
      <4> DEFINE e == [Current(z) EXCEPT
                         !.state = IF Inside(z) THEN "INSIDE_ZONE" ELSE "OUTSIDE",
                         !.entered = IF Inside(z) THEN msg.ts ELSE None,
                         !.exitAt = None, !.violation = None, !.lastKey = None]
      <4>1. SetEntry(z, e) /\ e.lastKey \in {None, Current(z).lastKey}
        BY <2>2, <3>6 DEF EndCooldown, Entries
      <4>2. QED
        BY <4>1
    <3>7. CASE Stay(z) \/ FireStart(z)
      BY <3>7 DEF Stay, FireStart
    <3>8. QED
      BY <1>2, <3>1, <3>2, <3>3, <3>4, <3>5, <3>6, <3>7 DEF Evaluate
  <2>5. QED
    BY <2>2, <2>3, <2>4, SetEntryKey
<1>3. CASE FireSkip \/ FireInsert
  <2>1. h.step \in {"firing", "inserting"} /\ TypeOK
    BY <1>3 DEF FireSkip, FireInsert, Shape
  <2>2. h.cvi \in Cvis /\ h.zone \in Zones /\ Current(h.zone) \in Entries
    BY <2>1, HeldFacts DEF Shape, HandlerOK
  <2>3. h.ident = fallback[h.cvi]
    BY <2>1 DEF KeyInv
  <2>4. \E e : SetEntry(h.zone, e) /\ e.lastKey = h.ident
    <3>1. CASE FireSkip
      <4> DEFINE e == [Current(h.zone) EXCEPT !.state = "VIOLATED", !.lastKey = h.ident]
      <4>1. SetEntry(h.zone, e) /\ e.lastKey = h.ident
        BY <2>2, <3>1 DEF FireSkip, Entries
      <4>2. QED
        BY <4>1
    <3>2. CASE FireInsert
      <4> DEFINE e == [Current(h.zone) EXCEPT !.state = "VIOLATED", !.lastKey = h.ident,
                                              !.violation = ViolationAfter(Candidate)]
      <4>1. SetEntry(h.zone, e) /\ e.lastKey = h.ident
        BY <2>2, <3>2 DEF FireInsert, Entries
      <4>2. QED
        BY <4>1
    <3>3. QED
      BY <1>3, <3>1, <3>2
  <2>5. QED
    BY <2>1, <2>2, <2>3, <2>4, SetEntryKey
<1>4. CASE Crash
  BY <1>4 DEF Crash, NoEntries, NewEntry
<1>5. QED
  BY <1>1, <1>2, <1>3, <1>4
     DEF Next, HandlerStep, Fire, Poll, Redeliver, Commit, Resolve, FireBuild, FireRaise,
         FireMark, ApplyOcr, EvictStale, Restart, Tick, vars

\* The handler keeps the key and the cycle it read until the row is written.
LEMMA KeyStep ==
    ASSUME StableIdentity, ReliableRedis, Shape, KeyInv, [Next]_vars
    PROVE  KeyInv'
<1> USE DEF cviVars, localVars, redisVars
<1> DEFINE firing == {"firing", "inserting", "marking"}
<1>1. fallback' = fallback /\ (\A c \in Cvis : plate'[c] = None)
  <2>1. fallback' = fallback
    BY FallbackKept DEF Shape
  <2>2. plate' = plate \/ plate' = [c \in Cvis |-> None]
    <3>1. ASSUME NEW z \in Zones, Evaluate(z) PROVE plate' = plate
      BY <3>1 DEF Evaluate, Enter, Leave, ReEnter, ConfirmExit, ExitWithoutViolation,
                  EndCooldown, Stay, FireStart
    <3>2. CASE Fire
      BY <3>2 DEF Fire, FireSkip, FireBuild, FireInsert, FireRaise, FireMark
    <3>3. QED
      BY <3>1, <3>2 DEF Next, HandlerStep, Poll, Redeliver, Commit, Resolve, ApplyOcr,
                        StableIdentity, EvictStale, Crash, Restart, Tick, vars
  <2>3. QED
    BY <2>1, <2>2 DEF KeyInv
<1>2. /\ h'.step \in firing => h'.ident = fallback[h'.cvi]
      /\ h'.step = "inserting" => h'.cycle = redisCycle'[h'.zone][h'.ident]
  <2>1. h \in Handlers
    BY DEF Shape, TypeOK
  <2>2. ASSUME NEW z \in Zones, Advance(z) PROVE h'.step \notin firing
    BY <2>2 DEF Advance, At
  <2>3. ASSUME NEW z \in Zones, Evaluate(z), ~FireStart(z) PROVE h'.step \notin firing
    BY <2>2, <2>3 DEF Evaluate, Enter, Leave, ReEnter, ConfirmExit, ExitWithoutViolation,
                      EndCooldown, Stay
  <2>4. ASSUME NEW z \in Zones, FireStart(z)
        PROVE  h'.step = "firing" /\ h'.ident = fallback[h'.cvi]
    <3>1. h.cvi \in Cvis
      BY <2>4, HeldFacts DEF FireStart, Matured, Evaluates
    <3>2. QED
      BY <2>1, <2>4, <3>1 DEF FireStart, Handlers, Identity, KeyInv
  <2>5. CASE FireSkip \/ FireMark
    <3>1. h.zone \in Zones /\ Advance(h.zone)
      BY <2>5 DEF FireSkip, FireMark, Shape, HandlerOK
    <3>2. QED
      BY <2>2, <3>1
  <2>6. CASE FireBuild
    <3>1. /\ h'.step = "inserting" /\ h'.ident = h.ident /\ h'.cvi = h.cvi
          /\ h'.zone = h.zone /\ h'.cycle = redisCycle[h.zone][h.ident]
          /\ redisCycle' = redisCycle /\ h.step = "firing"
      BY <2>1, <2>6 DEF FireBuild, Handlers, CurrentCycle, ReliableRedis
    <3>2. QED
      BY <3>1 DEF KeyInv
  <2>7. CASE FireInsert
    BY <2>1, <2>7 DEF FireInsert, Handlers, KeyInv
  <2>8. CASE h' = h /\ redisCycle' = redisCycle
    BY <2>8 DEF KeyInv
  <2>9. CASE Poll \/ Redeliver \/ Commit \/ FireRaise \/ Crash \/ Restart
    BY <2>9 DEF Poll, Redeliver, Begin, Commit, FireRaise, Crash, Restart, At
  <2>10. ASSUME NEW c \in Cvis, Resolve(c) PROVE h'.step \notin firing
    BY <2>10 DEF Resolve, At
  <2>11. QED
    BY <2>3, <2>4, <2>5, <2>6, <2>7, <2>8, <2>9, <2>10
       DEF Next, HandlerStep, Fire, ApplyOcr, EvictStale, Tick, vars
<1>3. \A c \in Cvis, z \in Zones : entry'[c][z].lastKey \in {None, fallback[c]}
  BY KeyEntries
<1>4. QED
  BY <1>1, <1>2, <1>3 DEF KeyInv
-------------------------------------------------------------------------------
(* Rows *)

\* The fields of a row.
LEMMA RowFields ==
    ASSUME TypeOK, NEW r \in rows
    PROVE  /\ r.zone \in Zones /\ r.cvi \in Cvis /\ r.ident \in Keys
           /\ r.first \in Nat /\ r.at \in Nat /\ r.cycle \in Nat
<1>1. r \in Rows
  BY DEF TypeOK
<1>2. QED
  BY <1>1 DEF Rows

\* The row of a visit that is about to be written is of the current cycle, and
\* the visit began before this message.
LEMMA CandidateFacts ==
    ASSUME Shape, KeyInv, h.step = "inserting"
    PROVE  /\ h.cvi \in Cvis /\ h.zone \in Zones /\ h.ident \in Keys
           /\ Candidate.zone = h.zone /\ Candidate.cvi = h.cvi
           /\ Candidate.ident = fallback[h.cvi] /\ Candidate.ident = h.ident
           /\ Candidate.cycle = redisCycle[h.zone][h.ident]
           /\ Candidate.first = entry[h.cvi][h.zone].entered
           /\ Candidate.first < lastTs /\ Candidate.at <= lastTs
           /\ Candidate.first \in Nat /\ Candidate.cycle \in Nat
<1>1. h.cvi \in Cvis /\ h.zone \in Zones /\ h.ident \in Keys
  BY CandidateType
<1>2. /\ Current(h.zone) = entry[h.cvi][h.zone] /\ Fits(Current(h.zone))
      /\ msg.ts = lastTs /\ lastTs \in Nat
  BY <1>1, HeldFacts
<1>3. /\ Current(h.zone).entered \in Nat
      /\ msg.ts - Current(h.zone).entered >= Threshold
  BY <1>2 DEF Shape, HandlerOK, Fits
<1>4. redisCycle[h.zone][h.ident] \in Nat
  BY <1>1 DEF Shape, TypeOK
<1>5. QED
  BY <1>1, <1>2, <1>3, <1>4, TimesType DEF Candidate, KeyInv

\* The timestamp of the partition never goes back.
LEMMA TimeForward ==
    ASSUME Shape, [Next]_vars
    PROVE  lastTs <= lastTs' /\ lastTs \in Nat /\ lastTs' \in Nat
<1> USE DEF cviVars, localVars, redisVars
<1>1. lastTs \in Nat /\ lastTs' \in Nat
  BY ShapeStep DEF Shape, TypeOK
<1>2. CASE Poll
  BY <1>1, <1>2, TimesType DEF Poll, Shape, TypeOK
<1>3. ASSUME NEW z \in Zones, Evaluate(z) PROVE lastTs' = lastTs
  BY <1>3 DEF Evaluate, Enter, Leave, ReEnter, ConfirmExit, ExitWithoutViolation,
              EndCooldown, Stay, FireStart
<1>4. ASSUME Fire PROVE lastTs' = lastTs
  BY <1>4 DEF Fire, FireSkip, FireBuild, FireInsert, FireRaise, FireMark
<1>5. lastTs' = lastTs \/ Poll
  BY <1>3, <1>4 DEF Next, HandlerStep, Redeliver, Commit, Resolve, ApplyOcr, EvictStale,
                    Crash, Restart, Tick, vars
<1>6. QED
  BY <1>1, <1>2, <1>5

\* Rows stay in the past, under the key of their CVI.
LEMMA RowsStep ==
    ASSUME StableIdentity, ReliableRedis, Shape, KeyInv, RowsPast, RowsKeyed, [Next]_vars
    PROVE  RowsPast' /\ RowsKeyed'
<1>1. /\ lastTs <= lastTs' /\ lastTs \in Nat /\ lastTs' \in Nat
      /\ fallback' = fallback /\ TypeOK
  BY TimeForward, FallbackKept DEF Shape
<1>2. rows' = rows \/ (h.step = "inserting" /\ rows' = rows \cup {Candidate})
  BY Effects, ShapeStep DEF Quiet, Inserted, CycleClosed
<1>3. ASSUME NEW r \in rows'
      PROVE  r.first < lastTs' /\ r.at <= lastTs' /\ r.ident = fallback[r.cvi]
  <2>1. CASE r \in rows
    BY <1>1, <2>1, RowFields DEF RowsPast, RowsKeyed
  <2>2. CASE r = Candidate /\ h.step = "inserting"
    <3>1. Candidate.at = lastTs
      <4>1. h.zone \in Zones /\ msg.ts = lastTs
        BY <2>2, CandidateType, HeldFacts
      <4>2. QED
        BY <4>1 DEF Candidate
    <3>2. QED
      BY <1>1, <2>2, <3>1, CandidateFacts
  <2>3. QED
    BY <1>2, <1>3, <2>1, <2>2
<1>4. QED
  BY <1>1, <1>3 DEF RowsPast, RowsKeyed

\* A visit that ends with a row has the penalty of the current cycle.
LEMMA ClosedPenalty ==
    ASSUME LedgerInv, NEW c \in Cvis, NEW z \in Zones, entry[c][z].violation # None
    PROVE  \E q \in rows : /\ OwnRow(q, c, z) /\ q.ident = fallback[c]
                          /\ q.cycle = redisCycle[z][fallback[c]]
<1>1. PICK q \in rows : OwnRow(q, c, z)
  BY DEF LedgerInv, ViolationRow
<1>2. q.ident = fallback[c] /\ q.cycle = redisCycle[z][fallback[c]]
  BY <1>1 DEF LedgerInv, RowsKeyed, VisitCycle, OwnRow
<1>3. QED
  BY <1>1, <1>2

\* An entry that is carried over keeps its row.
LEMMA CarriedRows ==
    ASSUME LedgerInv, \A c \in Cvis, z \in Zones : Carried(c, z), rows' = rows
    PROVE  ViolationRow'
<1>1. ASSUME NEW c \in Cvis, NEW z \in Zones, entry'[c][z].violation # None
      PROVE  \E r \in rows : OwnRow(r, c, z)'
  <2>1. entry'[c][z].violation = entry[c][z].violation /\ entry'[c][z].entered = entry[c][z].entered
    BY <1>1 DEF Carried
  <2>2. PICK r \in rows : OwnRow(r, c, z)
    BY <1>1, <2>1 DEF LedgerInv, ViolationRow
  <2>3. QED
    BY <2>1, <2>2 DEF OwnRow, RowId
<1>2. QED
  BY <1>1 DEF ViolationRow

\* No row belongs to a visit that begins now.
LEMMA CarriedVisit ==
    ASSUME LedgerInv, \A c \in Cvis, z \in Zones : Carried(c, z),
           NEW r \in rows, entry'[r.cvi][r.zone].entered = r.first
    PROVE  entry[r.cvi][r.zone].entered = r.first
<1>1. r.cvi \in Cvis /\ r.zone \in Zones /\ r.first \in Nat /\ lastTs \in Nat
  BY RowFields DEF LedgerInv, Shape, TypeOK
<1>2. r.first < lastTs /\ r.first # None
  BY <1>1, NoneAssumption DEF LedgerInv, RowsPast
<1>3. QED
  BY <1>1, <1>2 DEF Carried

-------------------------------------------------------------------------------
(* The invariant is inductive *)

\* The new row of a visit is the only one, and of a cycle without a row.
LEMMA InsertedStep ==
    ASSUME LedgerInv, Inserted
    PROVE  /\ UniqueIds' /\ VisitCycle' /\ ViolationRow'
           /\ RowsInReachedCycles' /\ OnePenaltyPerVisit'
<1> DEFINE new == Candidate
<1>1. /\ h.cvi \in Cvis /\ h.zone \in Zones /\ h.ident \in Keys
      /\ new.zone = h.zone /\ new.cvi = h.cvi
      /\ new.ident = fallback[h.cvi] /\ new.ident = h.ident
      /\ new.cycle = redisCycle[h.zone][h.ident] /\ new.cycle \in Nat
      /\ new.first = entry[h.cvi][h.zone].entered /\ new.first \in Nat
  BY CandidateFacts DEF LedgerInv, Inserted
<1>2. \A r \in rows : ~(r.zone = new.zone /\ RowId(r) = RowId(new))
  BY DEF Inserted, Rejected, CviRecordMissing, Conflicts
<1>3. rows' = rows \cup {new} /\ redisCycle' = redisCycle
  BY DEF Inserted
<1>4. \A r \in rows : r.zone \in Zones /\ r.cvi \in Cvis
  BY RowFields DEF LedgerInv, Shape
<1>5. UniqueIds'
  <2>1. ASSUME NEW r \in rows', NEW s \in rows', r.zone = s.zone, RowId(r) = RowId(s)
        PROVE  r = s
    BY <1>2, <1>3, <2>1 DEF LedgerInv, UniqueIds
  <2>2. QED
    BY <2>1 DEF UniqueIds, RowId
<1>6. VisitCycle'
  <2>1. ASSUME NEW r \in rows', entry'[r.cvi][r.zone].entered = r.first
        PROVE  r.cycle = redisCycle[r.zone][r.ident]
    <3>1. CASE r = new
      BY <1>1, <3>1
    <3>2. CASE r \in rows
      BY <1>4, <2>1, <3>2 DEF Inserted, LedgerInv, VisitCycle
    <3>3. QED
      BY <1>3, <2>1, <3>1, <3>2
  <2>2. QED
    BY <1>3, <2>1 DEF VisitCycle
<1>7. ViolationRow'
  <2>1. ASSUME NEW c \in Cvis, NEW z \in Zones, entry'[c][z].violation # None
        PROVE  \E r \in rows' : OwnRow(r, c, z)'
    <3>1. CASE entry'[c][z].violation = entry[c][z].violation
      <4>1. PICK r \in rows : OwnRow(r, c, z)
        BY <2>1, <3>1 DEF LedgerInv, ViolationRow
      <4>2. OwnRow(r, c, z)'
        BY <3>1, <4>1 DEF OwnRow, RowId, Inserted
      <4>3. QED
        BY <1>3, <4>1, <4>2
    <3>2. CASE c = h.cvi /\ z = h.zone /\ entry'[c][z].violation = RowId(new)
      <4>1. /\ new.zone = z /\ new.cvi = c /\ RowId(new) = entry'[c][z].violation
            /\ new.first = entry'[c][z].entered
        BY <1>1, <3>2 DEF Inserted
      <4>2. QED
        BY <1>3, <4>1 DEF OwnRow, RowId
    <3>3. QED
      BY <3>1, <3>2 DEF Inserted
  <2>2. QED
    BY <2>1 DEF ViolationRow
<1>8. RowsInReachedCycles'
  <2>1. ASSUME NEW r \in rows' PROVE r.cycle <= redisCycle[r.zone][r.ident]
    BY <1>1, <1>3, <2>1 DEF LedgerInv, RowsInReachedCycles
  <2>2. QED
    BY <1>3, <2>1 DEF RowsInReachedCycles
<1>9. OnePenaltyPerVisit'
  <2>1. ASSUME NEW r \in rows, r.cvi = new.cvi, r.zone = new.zone, r.first = new.first
        PROVE  FALSE
    <3>1. r.ident = new.ident /\ r.cycle = new.cycle
      BY <1>1, <2>1 DEF LedgerInv, RowsKeyed, VisitCycle
    <3>2. QED
      BY <1>2, <2>1, <3>1 DEF RowId
  <2>2. QED
    BY <1>3, <2>1 DEF LedgerInv, OnePenaltyPerVisit
<1>10. QED
  BY <1>5, <1>6, <1>7, <1>8, <1>9

\* Closing a cycle leaves no visit whose penalty is of that cycle.
LEMMA ClosedStep ==
    ASSUME LedgerInv, NEW z \in Zones, CycleClosed(z)
    PROVE  VisitCycle' /\ RowsInReachedCycles'
<1> DEFINE k == fallback[h.cvi]
<1>1. /\ h.cvi \in Cvis /\ k \in Keys /\ rows' = rows
      /\ redisCycle \in [Zones -> [Keys -> Nat]]
      /\ redisCycle' = [redisCycle EXCEPT ![z][k] = @ + 1]
  BY DEF CycleClosed, LedgerInv, Shape, TypeOK, Keys
<1>2. ASSUME NEW r \in rows
      PROVE  /\ r.zone \in Zones /\ r.ident \in Keys /\ r.cycle \in Nat
             /\ redisCycle'[r.zone][r.ident] = IF r.zone = z /\ r.ident = k
                                               THEN redisCycle[z][k] + 1
                                               ELSE redisCycle[r.zone][r.ident]
             /\ redisCycle[r.zone][r.ident] \in Nat
  <2>1. r.zone \in Zones /\ r.ident \in Keys /\ r.cycle \in Nat
    BY RowFields DEF LedgerInv, Shape
  <2>2. QED
    BY <1>1, <2>1
<1>3. VisitCycle'
  <2>1. ASSUME NEW r \in rows, entry'[r.cvi][r.zone].entered = r.first
        PROVE  r.cycle = redisCycle'[r.zone][r.ident]
    <3>1. r.cycle = redisCycle[r.zone][r.ident]
      BY <2>1, CarriedVisit DEF CycleClosed, LedgerInv, VisitCycle
    <3>2. CASE r.zone = z /\ r.ident = k
      <4>1. PICK q \in rows : /\ OwnRow(q, h.cvi, z) /\ q.ident = k
                              /\ q.cycle = redisCycle[z][k]
        BY <1>1, ClosedPenalty DEF CycleClosed
      <4>2. q.zone = r.zone /\ RowId(q) = RowId(r)
        BY <3>1, <3>2, <4>1 DEF OwnRow, RowId
      <4>3. q = r
        BY <4>2 DEF LedgerInv, UniqueIds
      <4>4. r.cvi = h.cvi /\ r.first \in Nat /\ r.first < lastTs /\ lastTs \in Nat
        BY <4>1, <4>3, RowFields DEF OwnRow, LedgerInv, Shape, TypeOK, RowsPast
      <4>5. QED
        BY <2>1, <3>2, <4>4, NoneAssumption DEF CycleClosed
    <3>3. CASE ~(r.zone = z /\ r.ident = k)
      BY <1>2, <3>1, <3>3
    <3>4. QED
      BY <3>2, <3>3
  <2>2. QED
    BY <1>1, <2>1 DEF VisitCycle
<1>4. RowsInReachedCycles'
  <2>1. ASSUME NEW r \in rows PROVE r.cycle <= redisCycle'[r.zone][r.ident]
    BY <1>2 DEF LedgerInv, RowsInReachedCycles
  <2>2. QED
    BY <1>1, <2>1 DEF RowsInReachedCycles
<1>5. QED
  BY <1>3, <1>4

LEMMA LedgerInit == StableIdentity /\ Init => LedgerInv
<1> SUFFICES ASSUME Init PROVE LedgerInv
  OBVIOUS
<1>1. KeyInv
  BY DEF Init, KeyInv, At, NoEntries, NewEntry
<1>2. ViolationRow
  BY DEF Init, ViolationRow, NoEntries, NewEntry
<1>3. rows = {} /\ Shape
  BY InitShape DEF Init
<1>4. QED
  BY <1>1, <1>2, <1>3 DEF LedgerInv, RowsPast, RowsKeyed, UniqueIds, VisitCycle,
                          RowsInReachedCycles, OnePenaltyPerVisit

\* The invariant is inductive.
LEMMA LedgerStep ==
    ASSUME StableIdentity, ReliableRedis, LedgerInv, [Next]_vars
    PROVE  LedgerInv'
<1>1. Shape' /\ KeyInv' /\ RowsPast' /\ RowsKeyed'
  BY ShapeStep, KeyStep, RowsStep DEF LedgerInv
<1>2. UniqueIds' /\ VisitCycle' /\ ViolationRow' /\ RowsInReachedCycles' /\ OnePenaltyPerVisit'
  <2>1. CASE Quiet
    <3>1. ViolationRow' /\ VisitCycle'
      BY <2>1, CarriedRows, CarriedVisit DEF Quiet, LedgerInv, VisitCycle
    <3>2. QED
      BY <2>1, <3>1 DEF Quiet, LedgerInv, UniqueIds, RowId, RowsInReachedCycles,
                        OnePenaltyPerVisit
  <2>2. CASE Inserted
    BY <2>2, InsertedStep
  <2>3. ASSUME NEW z \in Zones, CycleClosed(z)
        PROVE  /\ UniqueIds' /\ VisitCycle' /\ ViolationRow'
               /\ RowsInReachedCycles' /\ OnePenaltyPerVisit'
    <3>1. ViolationRow'
      BY <2>3, CarriedRows DEF CycleClosed
    <3>2. VisitCycle' /\ RowsInReachedCycles'
      BY <2>3, ClosedStep
    <3>3. UniqueIds' /\ OnePenaltyPerVisit'
      BY <2>3 DEF CycleClosed, LedgerInv, UniqueIds, RowId, OnePenaltyPerVisit
    <3>4. QED
      BY <3>1, <3>2, <3>3
  <2>4. QED
    BY <1>1, <2>1, <2>2, <2>3, Effects DEF LedgerInv
<1>3. QED
  BY <1>1, <1>2 DEF LedgerInv
-------------------------------------------------------------------------------
(* Theorems *)

\* A visit is penalised at most once, whatever is redelivered, evicted,
\* restarted or refused by the database, while identities are stable and Redis
\* answers.
THEOREM VisitsPenalisedOnce ==
    ASSUME StableIdentity, ReliableRedis
    PROVE  Spec => []OnePenaltyPerVisit
<1>1. LedgerInv => OnePenaltyPerVisit
  BY DEF LedgerInv
<1>2. Init => LedgerInv
  BY LedgerInit
<1>3. LedgerInv /\ [Next]_vars => LedgerInv'
  BY LedgerStep
<1>4. QED
  BY <1>1, <1>2, <1>3, PTL DEF Spec

\* A cycle that was not reached has no penalty, so the first one after a bump
\* is never taken for a duplicate.
THEOREM CyclesReached ==
    ASSUME StableIdentity, ReliableRedis
    PROVE  Spec => []RowsInReachedCycles
<1>1. LedgerInv => RowsInReachedCycles
  BY DEF LedgerInv
<1>2. Init => LedgerInv
  BY LedgerInit
<1>3. LedgerInv /\ [Next]_vars => LedgerInv'
  BY LedgerStep
<1>4. QED
  BY <1>1, <1>2, <1>3, PTL DEF Spec

\* A step of the service issues a penalty of the ledger, closes a cycle of it,
\* or leaves it alone.
LEMMA LedgerSimulation ==
    ASSUME StableIdentity, ReliableRedis, LedgerInv, [Next]_vars
    PROVE  \/ Ledger!Next
           \/ {[zone |-> r.zone, ident |-> r.ident, cycle |-> r.cycle] : r \in rows'}
                = {[zone |-> r.zone, ident |-> r.ident, cycle |-> r.cycle] : r \in rows}
              /\ redisCycle' = redisCycle
<1> DEFINE P(r) == [zone |-> r.zone, ident |-> r.ident, cycle |-> r.cycle]
<1>1. CASE Quiet
  BY <1>1 DEF Quiet
<1>2. CASE Inserted
  <2>1. /\ h.zone \in Zones /\ h.ident \in Keys
        /\ P(Candidate) = [zone |-> h.zone, ident |-> h.ident,
                           cycle |-> redisCycle[h.zone][h.ident]]
    BY <1>2, CandidateFacts DEF LedgerInv, Inserted
  <2>2. \A r \in rows : P(r) # P(Candidate)
    BY <1>2 DEF Inserted, Rejected, CviRecordMissing, Conflicts, RowId
  <2>3. {P(r) : r \in rows'} = {P(r) : r \in rows} \cup {P(Candidate)}
    BY <1>2 DEF Inserted
  <2>4. PICK z \in Zones, k \in Keys : z = h.zone /\ k = h.ident
    BY <2>1
  <2>5. Ledger!Issue(z, k)
    BY <1>2, <2>1, <2>2, <2>3, <2>4 DEF Ledger!Issue, Ledger!Penalty, Inserted
  <2>6. QED
    BY <2>4, <2>5 DEF Ledger!Next
<1>3. ASSUME NEW z \in Zones, CycleClosed(z) PROVE Ledger!Next
  <2>1. h.cvi \in Cvis /\ fallback[h.cvi] \in Keys
    BY <1>3 DEF CycleClosed, LedgerInv, Shape, TypeOK, Keys
  <2>2. PICK q \in rows : /\ OwnRow(q, h.cvi, z) /\ q.ident = fallback[h.cvi]
                          /\ q.cycle = redisCycle[z][fallback[h.cvi]]
    BY <1>3, <2>1, ClosedPenalty DEF CycleClosed
  <2>3. Ledger!CloseCycle(z, fallback[h.cvi])
    BY <1>3, <2>2 DEF CycleClosed, OwnRow, Ledger!CloseCycle, Ledger!Penalty
  <2>4. QED
    BY <2>1, <2>3 DEF Ledger!Next
<1>4. QED
  BY <1>1, <1>2, <1>3, Effects, ShapeStep DEF LedgerInv

\* With stable identities and a Redis that answers, the service implements the
\* ledger of penalties: one penalty per identity and cycle, in consecutive
\* cycles, each closed only after its penalty.
THEOREM ServiceImplementsLedger ==
    ASSUME StableIdentity, ReliableRedis
    PROVE  Spec => LedgerSpec
<1>1. Init => Ledger!Init
  BY DEF Init, Ledger!Init
<1>2. Init => LedgerInv
  BY LedgerInit
<1>3. LedgerInv /\ [Next]_vars => LedgerInv'
  BY LedgerStep
<1>4. LedgerInv /\ [Next]_vars =>
        [Ledger!Next]_<<{[zone |-> r.zone, ident |-> r.ident, cycle |-> r.cycle] : r \in rows},
                        redisCycle>>
  BY LedgerSimulation
<1>5. QED
  BY <1>1, <1>2, <1>3, <1>4, PTL DEF Spec, LedgerSpec, Ledger!Spec
-------------------------------------------------------------------------------
(* The holder of a row keeps its active key *)

\* States in which the incident of an entry's row is open.
OpenStates == {"INSIDE_ZONE", "VIOLATED", "EXIT_CANDIDATE"}

\* The visit of row r is the one its CVI is in, and goes on.
Ongoing(r) == OwnRow(r, r.cvi, r.zone) /\ entry[r.cvi][r.zone].state \in OpenStates

BeingMarked(c, z) == h.step = "marking" /\ h.cvi = c /\ h.zone = z

KeyKept ==
    \A r \in rows : Ongoing(r) /\ ~BeingMarked(r.cvi, r.zone) =>
                      redisActive[r.zone][r.ident] >= r.at + ActiveTtl

\* An open incident that has a row had it before the step.
Continued(c, z) ==
    entry'[c][z].violation # None /\ entry'[c][z].state \in OpenStates =>
        /\ entry'[c][z].violation = entry[c][z].violation
        /\ entry'[c][z].entered = entry[c][z].entered
        /\ entry[c][z].state \in OpenStates

LEMMA SetEntryContinued ==
    ASSUME TypeOK, h.cvi \in Cvis, NEW z \in Zones, NEW e, SetEntry(z, e),
           \/ e.violation = None
           \/ e.state \notin OpenStates
           \/ /\ e.violation = Current(z).violation /\ e.entered = Current(z).entered
              /\ Current(z).state \in OpenStates
    PROVE  \A c \in Cvis, y \in Zones : Continued(c, y)
<1> SUFFICES ASSUME NEW c \in Cvis, NEW y \in Zones PROVE Continued(c, y)
  OBVIOUS
<1>1. entry'[c][y] = IF c = h.cvi /\ y = z THEN e ELSE entry[c][y]
  BY DEF TypeOK, SetEntry
<1>2. QED
  BY <1>1 DEF Continued, Current

LEMMA EvaluateContinued ==
    ASSUME Shape, NEW z \in Zones, Evaluate(z)
    PROVE  \A c \in Cvis, y \in Zones : Continued(c, y)
<1>1. h.step = "zone"
  BY DEF Evaluate, Enter, Leave, ReEnter, ConfirmExit, ExitWithoutViolation, EndCooldown,
         Stay, FireStart, ExitDue, Matured, Evaluates
<1>2. h.cvi \in Cvis /\ Current(z) \in Entries /\ Fits(Current(z)) /\ TypeOK
  BY <1>1, HeldFacts DEF Shape
<1>3. CASE Enter(z)
  <2> DEFINE e == [Current(z) EXCEPT !.state = "INSIDE_ZONE", !.entered = msg.ts,
                                     !.exitAt = None]
  <2>1. SetEntry(z, e) /\ e.violation = None
    BY <1>2, <1>3 DEF Enter, Fits, Entries
  <2>2. QED
    BY <1>2, <2>1, SetEntryContinued
<1>4. CASE Leave(z)
  <2> DEFINE e == [Current(z) EXCEPT !.state = "EXIT_CANDIDATE", !.exitAt = msg.ts]
  <2>1. /\ SetEntry(z, e) /\ Current(z).state \in OpenStates
        /\ e.violation = Current(z).violation /\ e.entered = Current(z).entered
    BY <1>2, <1>4 DEF Leave, Entries, OpenStates
  <2>2. QED
    BY <1>2, <2>1, SetEntryContinued
<1>5. CASE ReEnter(z)
  <2> DEFINE e == [Current(z) EXCEPT !.state = "INSIDE_ZONE", !.exitAt = None]
  <2>1. /\ SetEntry(z, e) /\ Current(z).state \in OpenStates
        /\ e.violation = Current(z).violation /\ e.entered = Current(z).entered
    BY <1>2, <1>5 DEF ReEnter, Entries, OpenStates
  <2>2. QED
    BY <1>2, <2>1, SetEntryContinued
<1>6. CASE ConfirmExit(z)
  <2> DEFINE e == [Current(z) EXCEPT !.state = "COOLDOWN", !.coolUntil = msg.ts + Cooldown]
  <2>1. SetEntry(z, e) /\ e.state \notin OpenStates
    BY <1>2, <1>6 DEF ConfirmExit, Entries, OpenStates
  <2>2. QED
    BY <1>2, <2>1, SetEntryContinued
<1>7. CASE ExitWithoutViolation(z)
  <2> DEFINE e == [Current(z) EXCEPT !.state = "OUTSIDE", !.entered = None, !.exitAt = None]
  <2>1. SetEntry(z, e) /\ e.state \notin OpenStates
    BY <1>2, <1>7 DEF ExitWithoutViolation, Entries, OpenStates
  <2>2. QED
    BY <1>2, <2>1, SetEntryContinued
<1>8. CASE EndCooldown(z)
  <2> DEFINE e == [Current(z) EXCEPT
                     !.state = IF Inside(z) THEN "INSIDE_ZONE" ELSE "OUTSIDE",
                     !.entered = IF Inside(z) THEN msg.ts ELSE None,
                     !.exitAt = None, !.violation = None, !.lastKey = None]
  <2>1. SetEntry(z, e) /\ e.violation = None
    BY <1>2, <1>8 DEF EndCooldown, Entries
  <2>2. QED
    BY <1>2, <2>1, SetEntryContinued
<1>9. CASE Stay(z) \/ FireStart(z)
  BY <1>9 DEF Stay, FireStart, Continued
<1>10. QED
  BY <1>3, <1>4, <1>5, <1>6, <1>7, <1>8, <1>9 DEF Evaluate

\* Only an insert that returned gives an open incident a row.
LEMMA OngoingBefore ==
    ASSUME LedgerInv, LedgerInv', [Next]_vars,
           NEW r \in rows', Ongoing(r)', ~BeingMarked(r.cvi, r.zone)'
    PROVE  r \in rows /\ Ongoing(r)
<1> USE DEF cviVars, localVars, redisVars
<1>1. /\ r.cvi \in Cvis /\ r.zone \in Zones /\ TypeOK /\ Shape /\ h \in Handlers
      /\ entry'[r.cvi][r.zone].violation = RowId(r)
      /\ entry'[r.cvi][r.zone].entered = r.first
      /\ entry'[r.cvi][r.zone].state \in OpenStates /\ RowId(r) # None
  <2>1. r.cvi \in Cvis /\ r.zone \in Zones /\ r.ident \in Keys /\ r.cycle \in Nat
    <3>1. TypeOK'
      BY DEF LedgerInv, Shape
    <3>2. rows' \subseteq Rows
      BY <3>1 DEF TypeOK
    <3>3. QED
      BY <3>2 DEF Rows
  <2>2. RowId(r) \in [ident : Plates \cup FallbackKeys, cycle : Nat]
    BY <2>1 DEF RowId, Keys
  <2>3. RowId(r) # None
    BY <2>2, NoneAssumption
  <2>4. QED
    BY <2>1, <2>3 DEF LedgerInv, Shape, TypeOK, Ongoing, OwnRow, RowId
<1>2. ASSUME rows' = rows, Continued(r.cvi, r.zone) PROVE r \in rows /\ Ongoing(r)
  BY <1>1, <1>2 DEF Continued, Ongoing, OwnRow
<1>3. CASE FireInsert
  <2>1. h.step = "inserting" /\ h.cvi \in Cvis /\ h.zone \in Zones
    BY <1>1, <1>3, CandidateType DEF FireInsert
  <2>2. h'.step = "marking" /\ h'.cvi = h.cvi /\ h'.zone = h.zone
    BY <1>1, <1>3 DEF FireInsert, Handlers
  <2>3. ~(r.cvi = h.cvi /\ r.zone = h.zone)
    BY <2>2 DEF BeingMarked
  <2>4. entry'[r.cvi][r.zone] = entry[r.cvi][r.zone]
    BY <1>1, <1>3, <2>1, <2>3 DEF FireInsert, SetEntry, TypeOK
  <2>5. r \in rows
    BY <1>3, <2>3 DEF FireInsert, Candidate
  <2>6. QED
    BY <1>1, <2>4, <2>5 DEF Ongoing, OwnRow
<1>4. CASE FireRaise
  <2>1. entry' = entry /\ (rows' = rows \/ (~Rejected(Candidate) /\ rows' = rows \cup {Candidate}))
    BY <1>4 DEF FireRaise
  <2>2. r \in rows
    <3>1. PICK q \in rows : OwnRow(q, r.cvi, r.zone)
      BY <1>1, <2>1 DEF LedgerInv, ViolationRow
    <3>2. q.zone = r.zone /\ RowId(q) = RowId(r)
      BY <1>1, <2>1, <3>1 DEF OwnRow
    <3>3. CASE ~Rejected(Candidate) /\ r = Candidate
      BY <3>1, <3>2, <3>3 DEF Rejected, CviRecordMissing, Conflicts
    <3>4. QED
      BY <2>1, <3>3
  <2>3. QED
    BY <1>1, <2>1, <2>2 DEF Ongoing, OwnRow
<1>5. CASE FireSkip
  <2> DEFINE e == [Current(h.zone) EXCEPT !.state = "VIOLATED", !.lastKey = h.ident]
  <2>1. h.step = "firing" /\ h.zone \in Zones
    BY <1>1, <1>5 DEF FireSkip, Shape, HandlerOK
  <2>2. h.cvi \in Cvis /\ Current(h.zone) \in Entries
    BY <1>1, <2>1, HeldFacts
  <2>3. Current(h.zone).state \in OpenStates
    BY <1>1, <2>1 DEF Shape, HandlerOK, OpenStates
  <2>4. /\ SetEntry(h.zone, e) /\ e.violation = Current(h.zone).violation
        /\ e.entered = Current(h.zone).entered
    BY <1>5, <2>2 DEF FireSkip, Entries
  <2>5. Continued(r.cvi, r.zone)
    BY <1>1, <2>1, <2>2, <2>3, <2>4, SetEntryContinued
  <2>6. QED
    BY <1>2, <1>5, <2>5 DEF FireSkip
<1>6. ASSUME NEW z \in Zones, Evaluate(z) PROVE r \in rows /\ Ongoing(r)
  <2>1. Continued(r.cvi, r.zone)
    BY <1>1, <1>6, EvaluateContinued
  <2>2. rows' = rows
    BY <1>6 DEF Evaluate, Enter, Leave, ReEnter, ConfirmExit, ExitWithoutViolation,
                EndCooldown, Stay, FireStart
  <2>3. QED
    BY <1>2, <2>1, <2>2
<1>7. CASE Crash
  <2>1. entry'[r.cvi][r.zone].violation = None
    BY <1>1, <1>7 DEF Crash, NoEntries, NewEntry
  <2>2. QED
    BY <1>1, <2>1
<1>8. CASE rows' = rows /\ entry' = entry
  BY <1>1, <1>8 DEF Ongoing, OwnRow
<1>9. QED
  BY <1>3, <1>4, <1>5, <1>6, <1>7, <1>8
     DEF Next, HandlerStep, Fire, Poll, Redeliver, Commit, Resolve, FireBuild, FireMark,
         ApplyOcr, EvictStale, Restart, Tick, vars

\* Steps that leave all keys alone, or set or delete one.
LEMMA KeySteps ==
    ASSUME [Next]_vars
    PROVE  \/ redisActive' = redisActive /\ (h' = h \/ h.step # "marking" \/ Crash)
           \/ FireMark
           \/ \E z \in Zones : ConfirmExit(z)
<1> USE DEF cviVars, localVars, redisVars
<1>1. ASSUME NEW z \in Zones, Evaluate(z), ~ConfirmExit(z)
      PROVE  redisActive' = redisActive /\ h.step # "marking"
  BY <1>1 DEF Evaluate, Enter, Leave, ReEnter, ExitWithoutViolation, EndCooldown, BumpCycle,
              Stay, FireStart, ExitDue, Matured, Evaluates
<1>2. CASE FireSkip \/ FireBuild \/ FireInsert \/ FireRaise
  BY <1>2 DEF FireSkip, FireBuild, FireInsert, FireRaise
<1>3. CASE Poll \/ Redeliver \/ Commit \/ Restart \/ EvictStale \/ Tick \/ Crash
  BY <1>3 DEF Poll, Redeliver, Commit, Restart, EvictStale, Tick, Crash
<1>4. ASSUME NEW c \in Cvis, Resolve(c)
      PROVE  redisActive' = redisActive /\ h.step # "marking"
  BY <1>4 DEF Resolve
<1>5. ASSUME NEW c \in Cvis, NEW p \in Plates, ApplyOcr(c, p)
      PROVE  redisActive' = redisActive /\ h' = h
  BY <1>5 DEF ApplyOcr
<1>6. CASE UNCHANGED vars
  BY <1>6 DEF vars
<1>7. QED
  BY <1>1, <1>2, <1>3, <1>4, <1>5, <1>6 DEF Next, HandlerStep, Fire

\* The key of an open incident is set once its row is there, and deleted only by
\* its own exit: any other CVI that holds the key would hold the same row.
LEMMA KeyKeptStep ==
    ASSUME ReliableRedis, LedgerInv, LedgerInv', KeyKept, [Next]_vars
    PROVE  KeyKept'
<1> USE DEF cviVars, localVars, redisVars
<1> SUFFICES ASSUME NEW r \in rows', Ongoing(r)', ~BeingMarked(r.cvi, r.zone)'
             PROVE  redisActive'[r.zone][r.ident] >= r.at + ActiveTtl
  BY DEF KeyKept
<1>1. r \in rows /\ Ongoing(r)
  BY OngoingBefore
<1>2. /\ r.zone \in Zones /\ r.cvi \in Cvis /\ r.ident \in Keys /\ r.at \in Nat
      /\ r.at <= lastTs /\ lastTs <= clock /\ lastTs \in Nat /\ clock \in Nat
      /\ r.ident = fallback[r.cvi] /\ ActiveTtl \in Nat
      /\ redisActive \in [Zones -> [Keys -> Nat]]
  BY <1>1, RowFields, TimesType DEF LedgerInv, Shape, TypeOK, MessageOK, RowsPast, RowsKeyed
<1>3. CASE redisActive' = redisActive /\ (h' = h \/ h.step # "marking" \/ Crash)
  <2>1. ~BeingMarked(r.cvi, r.zone)
    <3>1. CASE Crash
      <4>1. entry'[r.cvi][r.zone].violation = None
        BY <1>2, <3>1 DEF Crash, NoEntries, NewEntry
      <4>2. RowId(r) \in [ident : Plates \cup FallbackKeys, cycle : Nat]
        BY <1>1, RowFields DEF LedgerInv, Shape, RowId, Keys
      <4>3. QED
        BY <4>1, <4>2, NoneAssumption DEF Ongoing, OwnRow, RowId
    <3>2. QED
      BY <1>3, <3>1 DEF BeingMarked
  <2>2. QED
    BY <1>1, <1>3, <2>1 DEF KeyKept
<1>4. CASE FireMark
  <2>1. /\ h.step = "marking" /\ h.zone \in Zones /\ h.ident \in Keys
        /\ redisActive' = [redisActive EXCEPT ![h.zone][h.ident] = clock + ActiveTtl]
        /\ h.ident = fallback[h.cvi]
    BY <1>4 DEF FireMark, MarkActive, ReliableRedis, LedgerInv, Shape, HandlerOK, KeyInv
  <2>2. CASE r.zone = h.zone /\ r.ident = h.ident
    <3>1. redisActive'[r.zone][r.ident] = clock + ActiveTtl
      BY <1>2, <2>1, <2>2
    <3>2. QED
      BY <1>2, <3>1
  <2>3. CASE ~(r.zone = h.zone /\ r.ident = h.ident)
    <3>1. redisActive'[r.zone][r.ident] = redisActive[r.zone][r.ident]
      BY <1>2, <2>1, <2>3
    <3>2. ~BeingMarked(r.cvi, r.zone)
      BY <1>2, <2>1, <2>3 DEF BeingMarked
    <3>3. QED
      BY <1>1, <3>1, <3>2 DEF KeyKept
  <2>4. QED
    BY <2>2, <2>3
<1>5. ASSUME NEW z \in Zones, ConfirmExit(z)
      PROVE  redisActive'[r.zone][r.ident] >= r.at + ActiveTtl
  <2> DEFINE k == Current(z).lastKey
  <2>1. /\ h.step = "zone" /\ h.cvi \in Cvis /\ Current(z) \in Entries
        /\ Current(z) = entry[h.cvi][z] /\ Current(z).violation # None
    BY <1>5, HeldFacts DEF ConfirmExit, ExitDue, Evaluates, LedgerInv
  <2>2. ~(r.cvi = h.cvi /\ r.zone = z)
    <3>1. entry'[h.cvi][z].state = "COOLDOWN"
      BY <1>5, <2>1 DEF ConfirmExit, SetEntry, LedgerInv, Shape, TypeOK, Entries
    <3>2. QED
      BY <3>1 DEF Ongoing, OpenStates
  <2>3. k \in {None, fallback[h.cvi]}
    BY <2>1 DEF LedgerInv, KeyInv
  <2>4. ~(r.zone = z /\ r.ident = fallback[h.cvi])
    <3>1. SUFFICES ASSUME r.zone = z, r.ident = fallback[h.cvi] PROVE FALSE
      OBVIOUS
    <3>2. PICK q \in rows : /\ OwnRow(q, h.cvi, z) /\ q.ident = fallback[h.cvi]
                            /\ q.cycle = redisCycle[z][fallback[h.cvi]]
      BY <2>1, ClosedPenalty
    <3>3. r.cycle = redisCycle[r.zone][r.ident]
      BY <1>1 DEF LedgerInv, VisitCycle, Ongoing, OwnRow
    <3>4. q.zone = r.zone /\ RowId(q) = RowId(r)
      BY <3>1, <3>2, <3>3 DEF OwnRow, RowId
    <3>5. q = r
      BY <1>1, <3>4 DEF LedgerInv, UniqueIds
    <3>6. QED
      BY <2>2, <3>1, <3>2, <3>5 DEF OwnRow
  <2>5. redisActive'[r.zone][r.ident] = redisActive[r.zone][r.ident]
    <3>1. CASE k = None
      BY <1>5, <3>1 DEF ConfirmExit
    <3>2. CASE k # None
      <4>1. redisActive' = [redisActive EXCEPT ![z][fallback[h.cvi]] = 0]
        BY <1>5, <2>3, <3>2 DEF ConfirmExit, ClearActive, ReliableRedis
      <4>2. QED
        BY <1>2, <2>4, <4>1
    <3>3. QED
      BY <3>1, <3>2
  <2>6. ~BeingMarked(r.cvi, r.zone)
    BY <2>1 DEF BeingMarked
  <2>7. QED
    BY <1>1, <2>5, <2>6 DEF KeyKept
<1>6. QED
  BY <1>3, <1>4, <1>5, KeySteps

\* While the incident of a written row is open its active key is kept for the
\* whole TTL, whatever other CVIs with that key, restarts and evictions do, and
\* however the database fails.
THEOREM HoldersKeepKeys ==
    ASSUME StableIdentity, ReliableRedis
    PROVE  Spec => []HolderKeepsActiveKey
<1>1. LedgerInv /\ KeyKept => HolderKeepsActiveKey
  <2> SUFFICES ASSUME LedgerInv, KeyKept, NEW c \in live, NEW z \in Zones,
                      entry[c][z].violation # None, entry[c][z].state \in OpenStates,
                      ~BeingMarked(c, z)
               PROVE  \E r \in rows :
                        /\ r.zone = z /\ RowId(r) = entry[c][z].violation
                        /\ redisActive[z][r.ident] >= r.at + ActiveTtl
    BY DEF HolderKeepsActiveKey, OpenStates, BeingMarked
  <2>1. c \in Cvis
    BY DEF LedgerInv, Shape, TypeOK
  <2>2. PICK r \in rows : OwnRow(r, c, z)
    BY <2>1 DEF LedgerInv, ViolationRow
  <2>3. Ongoing(r) /\ r.cvi = c /\ r.zone = z
    BY <2>2 DEF Ongoing, OwnRow
  <2>4. QED
    BY <2>2, <2>3 DEF KeyKept, OwnRow
<1>2. Init => LedgerInv /\ KeyKept
  BY LedgerInit DEF Init, KeyKept
<1>3. LedgerInv /\ KeyKept /\ [Next]_vars => LedgerInv' /\ KeyKept'
  BY LedgerStep, KeyKeptStep
<1>4. QED
  BY <1>1, <1>2, <1>3, PTL DEF Spec
===============================================================================
