-------------------------- MODULE PenaltyCardsProofs --------------------------
(***************************************************************************)
(* What holds of the way to a penalty card for every set of violations and *)
(* operators and whatever the bounds.                                      *)
(***************************************************************************)
EXTENDS PenaltyCards, TLAPS

\* What penalty-card-service knows of the message it is in.  It alone writes
\* URLs, and no deleted row comes back: what Receive has read of the URL stays
\* true until Record.
JobOK ==
    /\ job.step \in {"store", "record", "announce"} =>
          job.v \in Violations /\ announced[job.v] = 0
    /\ job.step \in {"store", "record"} => ~HasCard(job.v)
    /\ job.step \in {"record", "announce"} => job.v \in pdf
    /\ job.step = "announce" => ~HasRow(job.v) \/ HasCard(job.v)
    /\ \A o \in Operators : call[o].op # "none" => call[o].v \in Violations

\* An announced card is in its row, as long as there is one.
AnnouncedRecorded == \A v \in Violations : announced[v] > 0 => ~HasRow(v) \/ HasCard(v)

CardInv == TypeOK /\ JobOK /\ CardsAreStored /\ AnnouncedOnce /\ AnnouncedRecorded

LEMMA RowFields == \A r \in Rows : r # None
BY NoneAssumption

\* A request that ends leaves a call that no step looks at.
LEMMA NoCallType == NoCall \in Calls /\ NoCall.op = "none"
BY DEF NoCall, Calls, ViolationStatus

LEMMA TriggerType ==
    ASSUME NEW v \in Violations
    PROVE  LET t == [NoCall EXCEPT !.op = "trigger", !.v = v]
           IN  t \in Calls /\ t.v = v
BY DEF NoCall, Calls, ViolationStatus

\* The invariant holds initially.
LEMMA CardInit == Init => CardInv
BY NoneAssumption, BoundsAssumption DEF Init, CardInv, TypeOK, JobOK, CardsAreStored, AnnouncedOnce,
       AnnouncedRecorded, HasRow, HasCard, NoJob, NoCall, Rows, Steps, Calls, ViolationStatus

\* Every step preserves it.
LEMMA CardStepInv == CardInv /\ [Next]_vars => CardInv'
<1> SUFFICES ASSUME CardInv, [Next]_vars PROVE CardInv'
  OBVIOUS
<1> USE NoneAssumption, BoundsAssumption, RowFields
<1> USE DEF CardInv, TypeOK, JobOK, CardsAreStored, AnnouncedOnce, AnnouncedRecorded, HasRow, HasCard
<1>1. ASSUME NEW v \in Violations, Receive(v) PROVE CardInv'
  BY <1>1 DEF Receive, GiveUp, Steps, counts
<1>2. CASE Store
  BY <1>2 DEF Store, Await, GiveUp, Steps
<1>3. CASE Record
  <2>1. job.v \in Violations /\ job.v \in pdf /\ ~HasCard(job.v) /\ announced[job.v] = 0
    BY <1>3 DEF Record
  <2>2. /\ job' \in [step : Steps, v : Violations \cup {None}] /\ job'.v = job.v
        /\ job'.step \in {"announce", "commit", "cancelled"}
        /\ excuse' \in [Violations -> SUBSET {"failed", "cancelled"}] /\ stops' \in Nat
    BY <1>3, <2>1 DEF Record, Await, GiveUp, Steps
  <2>3. \/ WriteCardUrl(job.v)
        \/ UNCHANGED table /\ job'.step # "announce"
    BY <1>3, <2>1 DEF Record, Await, GiveUp
  <2> DEFINE issued == [status |-> "card_issued", url |-> TRUE]
  <2>4. issued \in Rows /\ issued.url /\ issued # None
    BY DEF Rows
  <2> HIDE DEF issued
  <2>5. /\ table' \in [Violations -> Rows \cup {None}]
        /\ \A v \in Violations \ {job.v} : table'[v] = table[v]
        /\ table'[job.v] \in {None, table[job.v], issued}
        /\ HasRow(job.v) /\ job'.step = "announce" => table'[job.v].url
        /\ (table[job.v] = None) <=> (table'[job.v] = None)
    <3>1. CASE HasRow(job.v) /\ table' = [table EXCEPT ![job.v] = issued]
      BY <2>1, <2>4, <3>1
    <3>2. CASE UNCHANGED table /\ (~HasRow(job.v) \/ job'.step # "announce")
      BY <2>1, <2>4, <3>2
    <3> QED
      BY <2>3, <3>1, <3>2 DEF WriteCardUrl, issued
  <2>6. UNCHANGED <<pdf, asked, handled, announced, call, reviews, triggers>>
    BY <1>3 DEF Record
  <2> QED
    BY <2>1, <2>2, <2>5, <2>6
<1>4. CASE Announce
  BY <1>4 DEF Announce, Await, GiveUp, Steps
<1>5. CASE Finish
  BY <1>5 DEF Finish, CommitOffsets, NoJob, Steps, counts
<1>6. CASE Terminate
  BY <1>6 DEF Terminate, NoJob, Steps, counts
<1>7. CASE Crash
  BY <1>7 DEF Crash, NoJob, Steps
<1>8. ASSUME NEW o \in Operators, NEW v \in Violations, NEW new \in ViolationStatus,
             OpenReview(o, v, new)
      PROVE CardInv'
  BY <1>8 DEF OpenReview, Calls, Rows
<1>9. ASSUME NEW o \in Operators, CommitReview(o) PROVE CardInv'
  <2>1. /\ call' \in [Operators -> Calls]
        /\ \A p \in Operators : call'[p] = call[p] \/ call'[p].op = "none"
    BY <1>9, NoCallType DEF CommitReview, EndCall
  <2>2. call[o].v \in Violations /\ call[o].new \in ViolationStatus
    BY <1>9 DEF CommitReview, Calls
  <2>3. \/ UNCHANGED table
        \/ /\ HasRow(call[o].v)
           /\ table' = [table EXCEPT ![call[o].v].status = call[o].new]
    BY <1>9 DEF CommitReview
  <2>4. /\ table' \in [Violations -> Rows \cup {None}]
        /\ \A v \in Violations : /\ (table[v] = None) <=> (table'[v] = None)
                                 /\ table[v] # None => table'[v].url = table[v].url
    BY <2>2, <2>3 DEF Rows
  <2>5. UNCHANGED <<pdf, asked, handled, job, announced, excuse, counts>>
    BY <1>9 DEF CommitReview
  <2> QED
    BY <2>1, <2>4, <2>5 DEF counts
<1>10. ASSUME NEW o \in Operators, NEW v \in Violations, OpenTrigger(o, v) PROVE CardInv'
  <2>1. /\ call' \in [Operators -> Calls]
        /\ \A p \in Operators : call'[p] = call[p] \/ call'[p].v = v
    BY <1>10, TriggerType DEF OpenTrigger
  <2> QED
    BY <1>10, <2>1 DEF OpenTrigger
<1>11. ASSUME NEW o \in Operators, SendTrigger(o) PROVE CardInv'
  <2>1. /\ call' \in [Operators -> Calls]
        /\ \A p \in Operators : call'[p] = call[p] \/ call'[p].op = "none"
    BY <1>11, NoCallType DEF SendTrigger, EndCall
  <2>2. /\ asked' \in [Violations -> Nat]
        /\ \A v \in Violations : asked[v] <= asked'[v]
    BY <1>11 DEF SendTrigger
  <2> QED
    BY <1>11, <2>1, <2>2 DEF SendTrigger, counts
<1>12. ASSUME NEW v \in Violations, Cascade(v) PROVE CardInv'
  BY <1>12 DEF Cascade, counts
<1>13. CASE UNCHANGED vars
  BY <1>13 DEF vars, counts
<1> QED
  BY <1>1, <1>2, <1>3, <1>4, <1>5, <1>6, <1>7, <1>8, <1>9, <1>10, <1>11, <1>12, <1>13
     DEF Next, CardStep

THEOREM CardInvariant == Spec => []CardInv
BY CardInit, CardStepInv, PTL DEF Spec

\* Type correctness of the review and card flow.
THEOREM TypeCorrect == Spec => []TypeOK
BY CardInvariant, PTL DEF CardInv

\* A URL in a row, and an announcement, stand for a PDF in the bucket.
THEOREM CardsStored == Spec => []CardsAreStored
BY CardInvariant, PTL DEF CardInv

\* No card is announced twice.
THEOREM CardsAnnouncedOnce == Spec => []AnnouncedOnce
BY CardInvariant, PTL DEF CardInv

\* What a step does to the row of an issued card.
IssuedRowStep ==
    \A v \in Violations :
        HasCard(v) /\ HasRow(v)' /\ table'[v] # table[v] =>
            \E o \in Operators :
                /\ call[o].op = "review" /\ call[o].v = v /\ call'[o] = NoCall
                /\ table'[v] = [status |-> call[o].new, url |-> TRUE]

LEMMA IssuedRows == CardInv /\ [Next]_vars => IssuedRowStep
<1> SUFFICES ASSUME CardInv, [Next]_vars, NEW v \in Violations,
                    HasCard(v), HasRow(v)', table'[v] # table[v]
             PROVE \E o \in Operators :
                       /\ call[o].op = "review" /\ call[o].v = v /\ call'[o] = NoCall
                       /\ table'[v] = [status |-> call[o].new, url |-> TRUE]
  BY DEF IssuedRowStep
<1>1. table[v] \in Rows /\ table[v].url = TRUE
  BY DEF CardInv, TypeOK, HasCard, HasRow, Rows
<1>2. ~Record
  BY <1>1 DEF CardInv, TypeOK, JobOK, Record, Await, GiveUp, WriteCardUrl, HasRow, HasCard
<1>3. ASSUME NEW w \in Violations, Cascade(w) PROVE FALSE
  BY <1>3 DEF Cascade, HasRow, CardInv, TypeOK
<1>4. ASSUME NEW o \in Operators, CommitReview(o)
      PROVE /\ call[o].op = "review" /\ call[o].v = v /\ call'[o] = NoCall
            /\ table'[v] = [status |-> call[o].new, url |-> TRUE]
  <2>1. table' = [table EXCEPT ![call[o].v].status = call[o].new] /\ call[o].v = v
    BY <1>4 DEF CommitReview, CardInv, TypeOK
  <2>2. table'[v] = [status |-> call[o].new, url |-> TRUE]
    BY <2>1, <1>1 DEF CardInv, TypeOK, Rows
  <2> QED
    BY <1>4, <2>1, <2>2 DEF CommitReview, EndCall, CardInv, TypeOK
<1>5. \E o \in Operators : CommitReview(o)
  BY <1>2, <1>3 DEF Next, CardStep, Receive, Store, Announce, Finish, Terminate, Crash,
     OpenReview, OpenTrigger, SendTrigger, vars
<1> QED
  BY <1>4, <1>5

\* A decision taken after the card was issued is not overwritten by the card.
THEOREM DecisionsStand == Spec => DecisionStands
<1>1. CardInv /\ [Next]_vars => [IssuedRowStep]_vars
  BY IssuedRows
<1> QED
  BY <1>1, CardInvariant, PTL DEF Spec, DecisionStands, IssuedRowStep

-------------------------------------------------------------------------------
(* The service implements CardLifecycle *)

LifecycleVars == <<table, pdf, announced>>

\* Store, Record and Announce do their part of the life of a card, or nothing.
LEMMA WritesInOrder ==
    ASSUME CardInv
    PROVE  /\ Store => Lifecycle!Store(job.v) \/ UNCHANGED LifecycleVars
           /\ Record => Lifecycle!Issue(job.v) \/ UNCHANGED LifecycleVars
           /\ Announce => Lifecycle!Announce(job.v) \/ UNCHANGED LifecycleVars
<1> USE DEF LifecycleVars, HasRow, HasCard, Lifecycle!Open, Lifecycle!Removed
<1>1. ASSUME Store PROVE Lifecycle!Store(job.v) \/ UNCHANGED LifecycleVars
  <2>1. ~HasCard(job.v) /\ UNCHANGED <<table, announced>>
    BY <1>1 DEF Store, CardInv, JobOK
  <2>2. pdf' = pdf \cup {job.v} \/ pdf' = pdf
    BY <1>1 DEF Store, Await
  <2> QED
    BY <2>1, <2>2 DEF Lifecycle!Store
<1>2. ASSUME Record PROVE Lifecycle!Issue(job.v) \/ UNCHANGED LifecycleVars
  <2>1. ~HasCard(job.v) /\ job.v \in pdf /\ UNCHANGED <<pdf, announced>>
    BY <1>2 DEF Record, CardInv, JobOK
  <2>2. \/ HasRow(job.v) /\ table' = [table EXCEPT ![job.v] = [status |-> "card_issued", url |-> TRUE]]
        \/ table' = table
    BY <1>2 DEF Record, Await, WriteCardUrl
  <2> QED
    BY <2>1, <2>2 DEF Lifecycle!Issue
<1>3. ASSUME Announce PROVE Lifecycle!Announce(job.v) \/ UNCHANGED LifecycleVars
  <2>1. /\ announced[job.v] = 0 /\ job.v \in pdf
        /\ ~HasRow(job.v) \/ HasCard(job.v)
        /\ UNCHANGED <<table, pdf>>
    BY <1>3 DEF Announce, CardInv, JobOK
  <2>2. announced' = [announced EXCEPT ![job.v] = 1] \/ announced' = announced
    BY <1>3, <2>1 DEF Announce, Await, CardInv, TypeOK, JobOK
  <2> QED
    BY <2>1, <2>2 DEF Lifecycle!Announce
<1> QED
  BY <1>1, <1>2, <1>3

LEMMA LifecycleSimulation ==
    ASSUME CardInv, [Next]_vars
    PROVE  Lifecycle!Next \/ UNCHANGED LifecycleVars
<1> USE DEF LifecycleVars
<1>1. CASE Store \/ Record \/ Announce
  <2>1. job.v \in Violations
    BY <1>1 DEF Store, Record, Announce, CardInv, JobOK
  <2> QED
    BY <1>1, <2>1, WritesInOrder DEF Lifecycle!Next
<1>2. ASSUME NEW v \in Violations, Receive(v) PROVE UNCHANGED LifecycleVars
  BY <1>2 DEF Receive
<1>3. CASE Finish \/ Terminate \/ Crash
  BY <1>3 DEF Finish, Terminate, Crash
<1>4. ASSUME NEW o \in Operators, NEW v \in Violations, NEW new \in ViolationStatus,
             OpenReview(o, v, new)
      PROVE  UNCHANGED LifecycleVars
  BY <1>4 DEF OpenReview
<1>5. ASSUME NEW o \in Operators, NEW v \in Violations, OpenTrigger(o, v)
      PROVE  UNCHANGED LifecycleVars
  BY <1>5 DEF OpenTrigger
<1>6. ASSUME NEW o \in Operators, SendTrigger(o) PROVE UNCHANGED LifecycleVars
  BY <1>6 DEF SendTrigger
<1>7. ASSUME NEW o \in Operators, CommitReview(o)
      PROVE  Lifecycle!Next \/ UNCHANGED LifecycleVars
  <2>1. call[o].v \in Violations /\ call[o].new \in ViolationStatus
    BY <1>7 DEF CommitReview, CardInv, TypeOK, JobOK, Calls
  <2>2. \/ UNCHANGED table
        \/ /\ HasRow(call[o].v)
           /\ table' = [table EXCEPT ![call[o].v].status = call[o].new]
    BY <1>7 DEF CommitReview
  <2>3. UNCHANGED <<pdf, announced>>
    BY <1>7 DEF CommitReview
  <2> QED
    BY <2>1, <2>2, <2>3 DEF Lifecycle!Next, Lifecycle!Decide, Lifecycle!Removed, HasRow
<1>8. ASSUME NEW v \in Violations, Cascade(v) PROVE Lifecycle!Next
  BY <1>8 DEF Cascade, Lifecycle!Next, Lifecycle!Remove
<1>9. CASE UNCHANGED vars
  BY <1>9 DEF vars
<1> QED
  BY <1>1, <1>2, <1>3, <1>4, <1>5, <1>6, <1>7, <1>8, <1>9 DEF Next, CardStep

\* The two services together implement CardLifecycle, whatever fails, is delivered
\* again or deleted: stored, issued, announced in this order, the last two once.
THEOREM CardsImplementLifecycle == Spec => LifecycleSpec
<1>1. Init => Lifecycle!Init
  BY DEF Init, Lifecycle!Init
<1>2. CardInv /\ [Next]_vars => [Lifecycle!Next]_LifecycleVars
  BY LifecycleSimulation
<1> QED
  BY <1>1, <1>2, CardInvariant, PTL DEF Spec, LifecycleSpec, Lifecycle!Spec, LifecycleVars
===============================================================================
