---------------------------- MODULE PlateElection ----------------------------
(***************************************************************************)
(* What the OCR round trip promises about the plate of a CVI, without      *)
(* topics, files, offsets or processes: a snapshot has one vote at most,   *)
(* whenever and in whatever order the readings come; as soon as a plate    *)
(* holds the majority the CVI has a plate, and it is one that no other     *)
(* plate has more votes than.  A CVI that is dropped takes its votes along.*)
(***************************************************************************)
EXTENDS Naturals, FiniteSets

CONSTANTS Cvis, Requests, Plates, Majority, None

VARIABLES live,     \* the CVIs in memory
          created,  \* the cvi_ids handed out
          ballots,  \* the votes for the plate of a CVI, each of one snapshot
          plate     \* the plate of a CVI, or None

Init ==
    /\ live = {} /\ created = {}
    /\ ballots = [c \in Cvis |-> {}] /\ plate = [c \in Cvis |-> None]

Support(votes, p) == Cardinality({v \in votes : v.plate = p})

Leaders(votes) ==
    {p \in Plates : \A q \in Plates : Support(votes, q) <= Support(votes, p)}

Appear(c) ==
    /\ c \notin created
    /\ live' = live \cup {c} /\ created' = created \cup {c}
    /\ UNCHANGED <<ballots, plate>>

Retire(gone) ==
    /\ live' = live \ gone
    /\ ballots' = [c \in Cvis |-> IF c \in gone THEN {} ELSE ballots[c]]
    /\ plate' = [c \in Cvis |-> IF c \in gone THEN None ELSE plate[c]]
    /\ UNCHANGED created

Vote(c, r, p) ==
    LET votes == ballots[c] \cup {[req |-> r, plate |-> p]} IN
    /\ c \in live /\ \A v \in ballots[c] : v.req # r
    /\ ballots' = [ballots EXCEPT ![c] = votes]
    /\ IF \E q \in Plates : Support(votes, q) >= Majority
       THEN \E q \in Leaders(votes) : plate' = [plate EXCEPT ![c] = q]
       ELSE plate' = plate
    /\ UNCHANGED <<live, created>>

Next ==
    \/ \E c \in Cvis : Appear(c)
    \/ \E c \in Cvis, r \in Requests, p \in Plates : Vote(c, r, p)
    \/ \E gone \in SUBSET live : Retire(gone)

Spec == Init /\ [][Next]_<<live, created, ballots, plate>>
===============================================================================
