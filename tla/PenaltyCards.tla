----------------------------- MODULE PenaltyCards -----------------------------
(***************************************************************************)
(* From a violation to its penalty card.                                   *)
(*                                                                         *)
(* An operator reviews a violation and asks for its card (event-api,       *)
(* routers/violations.py); penalty-card-service takes the request from     *)
(* penalty_card_requests, stores a PDF, writes its URL and the status      *)
(* 'card_issued' into the row, publishes penalty_card_issued and commits.  *)
(* Both write the status of the row, neither knows of the other.           *)
(*                                                                         *)
(* penalty-card-service handles one message at a time; a step of the model *)
(* is the stretch up to the next await whose effect outlives the process.  *)
(* A request of event-api has two steps: the row is read by sess.get, and  *)
(* written (or the request published) behind the next await.               *)
(***************************************************************************)
EXTENDS Integers

CONSTANTS
    Violations,     \* violation ids
    Operators,      \* requests that event-api may be in the middle of at once
    None,           \* no row; no violation
    MaxReviews, MaxTriggers, MaxStops     \* bounds of a run

ASSUME BoundsAssumption == {MaxReviews, MaxTriggers, MaxStops} \subseteq Nat

VARIABLES
    table,      \* violations: status and whether penalty_card_url is set
    pdf,        \* the violations whose PDF is in the bucket; its key is a function
                \* of the row's immutable columns, so a second PDF replaces the first
    asked,      \* per violation, the requests behind the committed offset
    handled,    \* those of them that are behind the position of the consumer
    job,        \* the message penalty-card-service is in
    announced,  \* penalty_card_issued messages about a violation
    excuse,     \* how a request ended without a card: CARD_FAILURES was
                \* incremented, or the handler was cancelled
    call,       \* what a request of an operator has read
    reviews, triggers, stops  \* counts, for the bounds only

counts == <<reviews, triggers, stops>>
vars == <<table, pdf, asked, handled, job, announced, excuse, call, counts>>

-------------------------------------------------------------------------------
(* State *)

\* shared.schemas.ViolationStatus: what an operator may set.
ViolationStatus == {"pending", "approved", "dismissed", "disputed"}

Rows  == [status : ViolationStatus \cup {"card_issued"}, url : BOOLEAN]
Steps == {"idle", "store", "record", "announce", "commit", "cancelled"}
Calls == [op : {"none", "trigger", "review"}, v : Violations \cup {None},
          old : ViolationStatus \cup {"card_issued"}, new : ViolationStatus]

ASSUME NoneAssumption == None \notin Violations /\ None \notin Rows

NoJob  == [step |-> "idle", v |-> None]
NoCall == [op |-> "none", v |-> None, old |-> "pending", new |-> "pending"]

HasRow(v)  == table[v] # None
HasCard(v) == HasRow(v) /\ table[v].url

Init ==
    /\ table = [v \in Violations |-> [status |-> "pending", url |-> FALSE]]
    /\ pdf = {}
    /\ asked = [v \in Violations |-> 0]
    /\ handled = [v \in Violations |-> 0]
    /\ job = NoJob
    /\ announced = [v \in Violations |-> 0]
    /\ excuse = [v \in Violations |-> {}]
    /\ call = [o \in Operators |-> NoCall]
    /\ reviews = 0 /\ triggers = 0 /\ stops = 0

-------------------------------------------------------------------------------
(* penalty-card-service *)

\* An await raised, or SIGTERM cancelled it: the except clauses count a failure,
\* which a CancelledError passes by; the finally clause commits either way.
GiveUp(v) ==
    \/ /\ job' = [step |-> "commit", v |-> v]
       /\ excuse' = [excuse EXCEPT ![v] = @ \cup {"failed"}]
       /\ UNCHANGED stops
    \/ /\ stops < MaxStops /\ stops' = stops + 1
       /\ job' = [step |-> "cancelled", v |-> v]
       /\ excuse' = [excuse EXCEPT ![v] = @ \cup {"cancelled"}]

\* An await that ends as planned, or after which the message is given up.  The
\* write that is awaited is made (Done) or, if it is given up, possibly not.
Await(next, Done, NotDone) ==
    \/ Done /\ job' = [job EXCEPT !.step = next] /\ UNCHANGED <<excuse, stops>>
    \/ (Done \/ NotDone) /\ GiveUp(job.v)

\* Mutant of Receive: there is no idempotency guard.
ReceiveUnguarded(v) ==
    /\ job.step = "idle" /\ asked[v] > handled[v] /\ HasRow(v)
    /\ handled' = [handled EXCEPT ![v] = @ + 1]
    /\ job' = [step |-> "store", v |-> v]
    /\ UNCHANGED <<table, pdf, asked, announced, excuse, call, counts>>

\* Mutant of Receive: the guard looks at the status, which a review changes.
ReceiveByStatus(v) ==
    /\ job.step = "idle" /\ asked[v] > handled[v] /\ HasRow(v)
    /\ handled' = [handled EXCEPT ![v] = @ + 1]
    /\ job' = [step |-> IF table[v].status = "card_issued" THEN "commit" ELSE "store", v |-> v]
    /\ UNCHANGED <<table, pdf, asked, announced, excuse, call, counts>>

\* Mutant of Receive: the offset is committed before the message is handled.
ReceiveCommitted(v) ==
    /\ job.step = "idle" /\ asked[v] > 0
    /\ asked' = [asked EXCEPT ![v] = @ - 1]
    /\ job' = [step |-> IF HasRow(v) /\ ~HasCard(v) THEN "store" ELSE "commit", v |-> v]
    /\ UNCHANGED <<table, pdf, handled, announced, excuse, call, counts>>

\* The row is read.  Without one, or with a card, there is nothing to do.
Receive(v) ==
    /\ job.step = "idle" /\ asked[v] > handled[v]
    /\ handled' = [handled EXCEPT ![v] = @ + 1]
    /\ \/ /\ ~HasRow(v) \/ HasCard(v)
          /\ job' = [step |-> "commit", v |-> v]
          /\ UNCHANGED <<excuse, stops>>
       \/ /\ HasRow(v) /\ ~HasCard(v)
          /\ job' = [step |-> "store", v |-> v]
          /\ UNCHANGED <<excuse, stops>>
       \/ GiveUp(v)
    /\ UNCHANGED <<table, pdf, asked, announced, call, reviews, triggers>>

\* Mutant of Store: the upload is started, and not awaited.
StoreUnawaited ==
    /\ job.step = "store"
    /\ job' = [job EXCEPT !.step = "record"]
    /\ pdf' \in {pdf, pdf \cup {job.v}}
    /\ UNCHANGED <<table, asked, handled, announced, excuse, call, counts>>

\* Render and upload.
Store ==
    /\ job.step = "store"
    /\ Await("record", pdf' = pdf \cup {job.v}, UNCHANGED pdf)
    /\ UNCHANGED <<table, asked, handled, announced, call, reviews, triggers>>

\* Mutant of WriteCardUrl: the row is written whether it is still there or not.
UpsertCardUrl(v) == table' = [table EXCEPT ![v] = [status |-> "card_issued", url |-> TRUE]]

\* write_card_url: an UPDATE that looks at nothing but the id.
WriteCardUrl(v) ==
    table' = IF HasRow(v)
             THEN [table EXCEPT ![v] = [status |-> "card_issued", url |-> TRUE]]
             ELSE table

Record ==
    /\ job.step = "record"
    /\ Await("announce", WriteCardUrl(job.v), UNCHANGED table)
    /\ UNCHANGED <<pdf, asked, handled, announced, call, reviews, triggers>>

Announce ==
    /\ job.step = "announce"
    /\ Await("commit", announced' = [announced EXCEPT ![job.v] = @ + 1],
             UNCHANGED announced)
    /\ UNCHANGED <<table, pdf, asked, handled, call, reviews, triggers>>

\* Mutant of CommitOffsets: what is committed is not forgotten.
CommitOffsetsAgain ==
    /\ asked' = [v \in Violations |-> asked[v] - handled[v]]
    /\ UNCHANGED handled

\* consumer.commit() commits the position; what it raises is suppressed.
CommitOffsets ==
    /\ asked' = [v \in Violations |-> asked[v] - handled[v]]
    /\ handled' = [v \in Violations |-> 0]

Finish ==
    /\ job.step = "commit"
    /\ job' = NoJob
    /\ CommitOffsets \/ UNCHANGED <<asked, handled>>
    /\ UNCHANGED <<table, pdf, announced, excuse, call, counts>>

\* After SIGTERM the process ends; its successor starts behind the offset.
Terminate ==
    /\ job.step = "cancelled"
    /\ job' = NoJob
    /\ asked' = asked \/ asked' = [v \in Violations |-> asked[v] - handled[v]]
    /\ handled' = [v \in Violations |-> 0]
    /\ UNCHANGED <<table, pdf, announced, excuse, call, counts>>

\* The process is killed, or its partitions are revoked, and handed out again.
Crash ==
    /\ stops < MaxStops /\ stops' = stops + 1
    /\ job' = NoJob
    /\ handled' = [v \in Violations |-> 0]
    /\ UNCHANGED <<table, pdf, asked, announced, excuse, call, reviews, triggers>>

-------------------------------------------------------------------------------
(* event-api *)

EndCall(o) == call' = [call EXCEPT ![o] = NoCall]

\* patch_violation: sess.get; a missing row is a 404.
OpenReview(o, v, new) ==
    /\ call[o] = NoCall /\ HasRow(v) /\ reviews < MaxReviews
    /\ reviews' = reviews + 1
    /\ call' = [call EXCEPT ![o] =
                    [op |-> "review", v |-> v, old |-> table[v].status, new |-> new]]
    /\ UNCHANGED <<table, pdf, asked, handled, job, announced, excuse, triggers, stops>>

\* flush, audit row and commit.  The UPDATE names the columns that differ from
\* what was loaded; it fails if the row is gone.  The session may also fail.
CommitReview(o) ==
    LET c == call[o] IN
    /\ c.op = "review"
    /\ \/ /\ HasRow(c.v)
          /\ table' = IF c.new = c.old THEN table
                      ELSE [table EXCEPT ![c.v].status = c.new]
       \/ UNCHANGED table
    /\ EndCall(o)
    /\ UNCHANGED <<pdf, asked, handled, job, announced, excuse, counts>>

\* trigger_penalty_card: with a URL it answers already_issued.
OpenTrigger(o, v) ==
    /\ call[o] = NoCall /\ HasRow(v) /\ ~HasCard(v) /\ triggers < MaxTriggers
    /\ triggers' = triggers + 1
    /\ call' = [call EXCEPT ![o] = [NoCall EXCEPT !.op = "trigger", !.v = v]]
    /\ UNCHANGED <<table, pdf, asked, handled, job, announced, excuse, reviews, stops>>

\* The request is published, or that fails.
SendTrigger(o) ==
    /\ call[o].op = "trigger"
    /\ asked' = [asked EXCEPT ![call[o].v] = @ + 1] \/ UNCHANGED asked
    /\ EndCall(o)
    /\ UNCHANGED <<table, pdf, handled, job, announced, excuse, counts>>

\* A deleted camera or zone takes its violations with it (ON DELETE CASCADE).
Cascade(v) ==
    /\ HasRow(v)
    /\ table' = [table EXCEPT ![v] = None]
    /\ UNCHANGED <<pdf, asked, handled, job, announced, excuse, call, counts>>

-------------------------------------------------------------------------------
CardStep == (\E v \in Violations : Receive(v)) \/ Store \/ Record \/ Announce \/ Finish \/ Terminate

Next ==
    \/ CardStep \/ Crash
    \/ \E o \in Operators, v \in Violations, new \in ViolationStatus : OpenReview(o, v, new)
    \/ \E o \in Operators : CommitReview(o)
    \/ \E o \in Operators, v \in Violations : OpenTrigger(o, v)
    \/ \E o \in Operators : SendTrigger(o)
    \/ \E v \in Violations : Cascade(v)

Spec == Init /\ [][Next]_vars

\* The consume loop goes on with what it can do; its awaits end.
FairSpec == Spec /\ WF_vars(CardStep)

-------------------------------------------------------------------------------
(* Properties *)

\* Types of all variables.
TypeOK ==
    /\ table \in [Violations -> Rows \cup {None}]
    /\ pdf \subseteq Violations
    /\ asked \in [Violations -> Nat] /\ handled \in [Violations -> Nat]
    /\ \A v \in Violations : handled[v] <= asked[v]
    /\ job \in [step : Steps, v : Violations \cup {None}]
    /\ announced \in [Violations -> Nat]
    /\ excuse \in [Violations -> SUBSET {"failed", "cancelled"}]
    /\ call \in [Operators -> Calls]
    /\ {reviews, triggers, stops} \subseteq Nat

\* A card that a row refers to, or that was announced, is in the bucket: a crash,
\* a lost reply or a cancellation never leaves a URL without its PDF.
CardsAreStored == \A v \in Violations : HasCard(v) \/ announced[v] > 0 => v \in pdf

\* A violation's card is announced at most once, however often it was asked for
\* and however often the requests are redelivered (the idempotency guard).
AnnouncedOnce == \A v \in Violations : announced[v] <= 1

\* Once a card is issued only a review changes the status: neither a redelivered
\* request nor a second one puts card_issued over a later decision.
DecisionStands ==
    [][\A v \in Violations :
          HasCard(v) /\ HasRow(v)' /\ table'[v] # table[v] =>
              \E o \in Operators :
                  /\ call[o].op = "review" /\ call[o].v = v /\ call'[o] = NoCall
                  /\ table'[v] = [status |-> call[o].new, url |-> TRUE]]_vars

\* A request leads to a card, unless its violation is gone, a failure was
\* counted, or SIGTERM cancelled the handler: none disappears silently.
RequestServed ==
    \A v \in Violations :
        asked[v] > 0 ~> (~HasRow(v) \/ HasCard(v) \/ excuse[v] # {})

-------------------------------------------------------------------------------
(* What the service implements *)

Lifecycle == INSTANCE CardLifecycle WITH Decisions <- ViolationStatus

\* Whatever fails, is redelivered or deleted meanwhile, a card is stored, issued and
\* announced in this order, and no violation comes back by its card.
LifecycleSpec == Lifecycle!Spec
===============================================================================
