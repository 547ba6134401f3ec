------------------------------ MODULE CviRegistry ------------------------------
(***************************************************************************)
(* What a CVI manager promises to those who use it, without boxes, tracks, *)
(* embeddings, zones or messages: an id is given to one stretch of         *)
(* sightings, in which no gap is longer than the matching window and time  *)
(* does not go back; ids that have been idle for too long are retired all  *)
(* at once, and no id comes back, not after a restart either.              *)
(***************************************************************************)
EXTENDS Integers

CONSTANTS Cvis,
          MatchWindow,  \* the longest gap within a stretch
          MaxIdle       \* how long an id is kept without a sighting

VARIABLES clock,        \* wall-clock time
          live,         \* the ids in use
          created,      \* the ids given out
          seen          \* the time of the last sighting of an id in use

Init == clock = 0 /\ live = {} /\ created = {} /\ seen = [c \in Cvis |-> 0]

Match(c, ts) ==
    /\ c \in live /\ ts \in seen[c] .. clock
    /\ ts - seen[c] <= MatchWindow
    /\ seen' = [seen EXCEPT ![c] = ts]
    /\ UNCHANGED <<clock, live, created>>

Create(c, ts) ==
    /\ c \notin created /\ ts \in 0 .. clock
    /\ live' = live \cup {c} /\ created' = created \cup {c}
    /\ seen' = [seen EXCEPT ![c] = ts]
    /\ UNCHANGED clock

Retire(gone) ==
    /\ live' = live \ gone
    /\ seen' = [c \in Cvis |-> IF c \in gone THEN 0 ELSE seen[c]]
    /\ UNCHANGED <<clock, created>>

Evict == Retire({c \in live : seen[c] < clock - MaxIdle})
Stop  == Retire(live)
Tick  == clock' = clock + 1 /\ UNCHANGED <<live, created, seen>>

Next ==
    \/ \E c \in Cvis, ts \in 0 .. clock : Match(c, ts) \/ Create(c, ts)
    \/ Evict \/ Stop \/ Tick

Spec == Init /\ [][Next]_<<clock, live, created, seen>>
===============================================================================
