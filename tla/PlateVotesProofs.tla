--------------------------- MODULE PlateVotesProofs ---------------------------
(***************************************************************************)
(* What the plate vote returns, for all plates and every majority.         *)
(***************************************************************************)
EXTENDS PlateVotes, Integers, SequenceTheorems, FiniteSetTheorems, WellFoundedInduction, TLAPS

\* The votes a plate holds are a number.
LEMMA VotesType ==
    ASSUME NEW b \in Seq(Plates), NEW p
    PROVE  /\ IsFiniteSet({i \in DOMAIN b : b[i] = p})
           /\ Votes(b, p) \in Nat
<1>1. DOMAIN b = 1 .. Len(b) /\ Len(b) \in Nat
  BY LenProperties
<1>2. IsFiniteSet(1 .. Len(b))
  BY <1>1, FS_Interval
<1>3. IsFiniteSet({i \in DOMAIN b : b[i] = p})
  BY <1>1, <1>2, FS_Subset
<1>4. QED
  BY <1>3, FS_CardinalityType DEF Votes

\* A vote leaves the plate of a CVI a plate, or absent.
LEMMA PlateAfterType ==
    ASSUME NEW b \in Seq(Plates), NEW p \in Plates \cup {None}
    PROVE  PlateAfter(b, p) \in Plates \cup {None}
<1> DEFINE leaders == {i \in DOMAIN b : Leads(b, i)}
           elected == {b[i] : i \in leaders}
           stable  == {q \in elected : Votes(b, q) >= Majority}
<1>1. stable \subseteq Plates
  <2>1. \A i \in DOMAIN b : b[i] \in Plates
    OBVIOUS
  <2>2. QED
    BY <2>1
<1>2. CASE stable = {}
  BY <1>2 DEF PlateAfter
<1>3. CASE stable # {}
  <2>1. (CHOOSE q \in stable : TRUE) \in stable
    BY <1>3
  <2>2. QED
    BY <1>1, <1>3, <2>1 DEF PlateAfter
<1>4. QED
  BY <1>2, <1>3

\* A plate is only elected with a majority of Majority votes, and no plate has
\* more votes then (record_plate_vote).
THEOREM ElectedWithMajority ==
    ASSUME NEW b \in Seq(Plates), NEW p \in Plates \cup {None}, PlateAfter(b, p) # p
    PROVE  /\ Votes(b, PlateAfter(b, p)) >= Majority
           /\ \A i \in DOMAIN b : Votes(b, b[i]) <= Votes(b, PlateAfter(b, p))
<1> DEFINE leaders == {i \in DOMAIN b : Leads(b, i)}
           elected == {b[i] : i \in leaders}
           stable  == {q \in elected : Votes(b, q) >= Majority}
<1>1. stable # {} /\ PlateAfter(b, p) = CHOOSE q \in stable : TRUE
  BY DEF PlateAfter
<1>2. PlateAfter(b, p) \in stable
  BY <1>1
<1>3. PICK i \in leaders : PlateAfter(b, p) = b[i]
  BY <1>2
<1>4. \A j \in DOMAIN b : Votes(b, b[j]) <= Votes(b, b[i])
  <2>1. \A q : Votes(b, q) \in Nat
    BY VotesType
  <2>2. QED
    BY <1>3, <2>1 DEF Leads
<1>5. QED
  BY <1>2, <1>3, <1>4

\* A vote takes no votes away.
LEMMA VotesGrow ==
    ASSUME NEW b \in Seq(Plates), NEW q \in Plates, NEW p
    PROVE  Votes(Append(b, q), p) >= Votes(b, p)
<1> DEFINE before == {i \in DOMAIN b : b[i] = p}
           after  == {i \in DOMAIN Append(b, q) : Append(b, q)[i] = p}
<1>1. before \subseteq after
  OBVIOUS
<1>2. Append(b, q) \in Seq(Plates)
  OBVIOUS
<1>3. IsFiniteSet(after)
  BY <1>2, VotesType
<1>4. Cardinality(before) <= Cardinality(after)
  BY <1>1, <1>3, FS_Subset
<1>5. Cardinality(before) \in Nat /\ Cardinality(after) \in Nat
  BY <1>2, VotesType DEF Votes
<1>6. QED
  BY <1>4, <1>5 DEF Votes

\* No plate has more votes than there are, and one without a vote has none.
LEMMA VotesBound ==
    ASSUME NEW b \in Seq(Plates), NEW p
    PROVE  /\ Votes(b, p) <= Len(b)
           /\ Votes(b, p) = 0 \/ \E i \in DOMAIN b : b[i] = p
<1> DEFINE V == {i \in DOMAIN b : b[i] = p}
<1>1. DOMAIN b = 1 .. Len(b) /\ Len(b) \in Nat
  BY LenProperties
<1>2. IsFiniteSet(1 .. Len(b)) /\ Cardinality(1 .. Len(b)) = Len(b)
  BY <1>1, FS_Interval
<1>3. V \subseteq 1 .. Len(b)
  BY <1>1
<1>4. Cardinality(V) <= Len(b)
  <2> HIDE DEF V
  <2> QED
    BY <1>2, <1>3, FS_Subset
<1>5. V = {} => Cardinality(V) = 0
  BY FS_EmptySet
<1> QED
  BY <1>4, <1>5 DEF Votes

\* Numbers have a least one among them.
LEMMA LeastNumber ==
    ASSUME NEW T \in SUBSET Nat, T # {}
    PROVE  \E x \in T : \A y \in T : x <= y
<1> DEFINE R == {ss \in Nat \X Nat : ss[1] < ss[2]}
<1>1. IsWellFoundedOn(R, Nat)
  BY NatLessThanWellFounded, Zenon DEF OpToRel
<1>2. PICK x \in T : \A y \in T : <<y, x>> \notin R
  <2> HIDE DEF R
  <2> QED
    BY <1>1, WFMin
<1>3. ASSUME NEW y \in T PROVE x <= y
  <2>1. x \in Nat /\ y \in Nat
    OBVIOUS
  <2>2. <<y, x>> \notin R
    BY <1>2
  <2>3. y < x => <<y, x>> \in R
    BY <2>1
  <2> HIDE DEF R
  <2> QED
    BY <2>1, <2>2, <2>3
<1> QED
  BY <1>3

\* Some vote is for a plate that none has more votes than.
LEMMA SomePlateLeads ==
    ASSUME NEW b \in Seq(Plates), DOMAIN b # {}
    PROVE  \E i \in DOMAIN b : Leads(b, i)
<1> DEFINE missing == {Len(b) - Votes(b, b[j]) : j \in DOMAIN b}
<1>1. DOMAIN b \subseteq Nat /\ Len(b) \in Nat
  BY LenProperties
<1>2. \A p : Votes(b, p) \in Nat /\ Votes(b, p) <= Len(b)
  BY VotesType, VotesBound
<1>3. missing \in SUBSET Nat /\ missing # {}
  BY <1>1, <1>2
<1>4. PICK n \in missing : \A k \in missing : n <= k
  <2> HIDE DEF missing
  <2> QED
    BY <1>3, LeastNumber
<1>5. PICK m \in DOMAIN b : n = Len(b) - Votes(b, b[m])
  OBVIOUS
<1>6. \A j \in DOMAIN b : Votes(b, b[j]) <= Votes(b, b[m])
  <2> TAKE j \in DOMAIN b
  <2>1. n <= Len(b) - Votes(b, b[j])
    BY <1>4
  <2> QED
    BY <1>1, <1>2, <1>5, <2>1
<1> DEFINE best == {j \in DOMAIN b : Votes(b, b[j]) = Votes(b, b[m])}
<1>7. best \in SUBSET Nat /\ best # {}
  BY <1>1
<1>8. PICK i \in best : \A j \in best : i <= j
  <2> HIDE DEF best
  <2> QED
    BY <1>7, LeastNumber
<1>9. ASSUME NEW j \in DOMAIN b
      PROVE  \/ Votes(b, b[i]) > Votes(b, b[j])
             \/ Votes(b, b[i]) = Votes(b, b[j]) /\ i <= j
  <2>1. Votes(b, b[i]) = Votes(b, b[m]) /\ Votes(b, b[j]) <= Votes(b, b[m])
    BY <1>6
  <2>2. Votes(b, b[j]) = Votes(b, b[m]) => i <= j
    BY <1>8
  <2> QED
    BY <1>2, <2>1, <2>2
<1> QED
  BY <1>9 DEF Leads

\* As soon as some plate holds the majority the CVI has a plate, and it is one that
\* no plate has more votes than: record_plate_vote only looks at the first of
\* most_common, and misses no majority by that.
THEOREM MajorityElects ==
    ASSUME NEW b \in Seq(Plates), NEW p \in Plates \cup {None},
           NEW q \in Plates, Votes(b, q) >= Majority
    PROVE  /\ PlateAfter(b, p) \in Plates /\ Votes(b, PlateAfter(b, p)) >= Majority
           /\ \A r \in Plates : Votes(b, r) <= Votes(b, PlateAfter(b, p))
<1> DEFINE leaders == {i \in DOMAIN b : Leads(b, i)}
           elected == {b[i] : i \in leaders}
           stable  == {r \in elected : Votes(b, r) >= Majority}
<1>1. \A r : Votes(b, r) \in Nat /\ (Votes(b, r) = 0 \/ \E i \in DOMAIN b : b[i] = r)
  BY VotesType, VotesBound
<1>2. DOMAIN b # {}
  BY <1>1, MajorityAssumption
<1>3. \A i \in leaders : \A r : Votes(b, r) <= Votes(b, b[i])
  <2> TAKE i \in leaders
  <2>1. \A j \in DOMAIN b : Votes(b, b[j]) <= Votes(b, b[i])
    BY <1>1 DEF Leads
  <2> TAKE r
  <2>2. Votes(b, r) = 0 => Votes(b, r) <= Votes(b, b[i])
    BY <1>1
  <2> QED
    BY <1>1, <2>1, <2>2
<1>4. leaders # {}
  BY <1>2, SomePlateLeads
<1>5. stable # {}
  BY <1>1, <1>3, <1>4, MajorityAssumption
<1>6. PlateAfter(b, p) \in stable
  BY <1>5 DEF PlateAfter
<1>7. PICK i \in leaders : PlateAfter(b, p) = b[i]
  BY <1>6
<1>8. b[i] \in Plates
  BY <1>7
<1> QED
  BY <1>3, <1>6, <1>7, <1>8
===============================================================================
