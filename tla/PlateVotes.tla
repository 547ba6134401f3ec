------------------------------ MODULE PlateVotes ------------------------------
(***************************************************************************)
(* The plate vote of a CVI (violation-service, cvi.py): every accepted OCR *)
(* reading is one vote, and the plate with the most votes becomes the      *)
(* CVI's plate once it holds a majority.                                   *)
(*                                                                         *)
(* plate_votes is a Counter.  It is kept here as the sequence of the votes *)
(* in the order of their arrival, because Counter.most_common(1) breaks a  *)
(* tie in favour of the plate that was inserted first.                     *)
(***************************************************************************)
EXTENDS Naturals, Sequences, FiniteSets

CONSTANTS Plates,     \* normalised plate texts
          Majority,   \* PLATE_VOTE_MAJORITY
          None        \* an absent value

ASSUME MajorityAssumption == Majority \in Nat \ {0}
ASSUME NoneIsNoPlate == None \notin Plates

\* The votes plate p holds in ballot.
Votes(ballot, p) == Cardinality({i \in DOMAIN ballot : ballot[i] = p})

\* most_common(1): no plate has more votes, and among equals it came first.
Leads(ballot, i) ==
    \A j \in DOMAIN ballot :
        \/ Votes(ballot, ballot[i]) > Votes(ballot, ballot[j])
        \/ Votes(ballot, ballot[i]) = Votes(ballot, ballot[j]) /\ i <= j

\* Mutant of PlateAfter: the plate is elected one vote too late.
PlateAfterOver(ballot, plate) ==
    LET leaders == {i \in DOMAIN ballot : Leads(ballot, i)}
        elected == {ballot[i] : i \in leaders}
        stable  == {p \in elected : Votes(ballot, p) > Majority}
    IN IF stable = {} THEN plate ELSE CHOOSE p \in stable : TRUE

\* plate_text after the last vote of ballot was counted: the leader if it
\* has the majority, the plate text the CVI had before otherwise.
PlateAfter(ballot, plate) ==
    LET leaders == {i \in DOMAIN ballot : Leads(ballot, i)}
        elected == {ballot[i] : i \in leaders}
        stable  == {p \in elected : Votes(ballot, p) >= Majority}
    IN IF stable = {} THEN plate ELSE CHOOSE p \in stable : TRUE
===============================================================================
