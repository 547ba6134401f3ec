---------------------------- MODULE CardLifecycle ----------------------------
(***************************************************************************)
(* The life of a penalty card, without requests, offsets, handlers and     *)
(* their failures: its PDF is stored, as often as that is tried before the *)
(* card is issued in the row of its violation; it is issued once, and      *)
(* announced once, after that.  An operator decides at any time, and a     *)
(* violation that is removed stays removed, card or no card.               *)
(***************************************************************************)
EXTENDS Integers

CONSTANTS Violations,
          Decisions,   \* the statuses an operator may set
          None         \* no row

VARIABLES table,       \* per violation its status and whether it has a card
          pdf,         \* the violations whose PDF is stored
          announced    \* per violation the announcements of its card

Init ==
    /\ table = [v \in Violations |-> [status |-> "pending", url |-> FALSE]]
    /\ pdf = {} /\ announced = [v \in Violations |-> 0]

Open(v)    == table[v] # None /\ ~table[v].url
Removed(v) == table[v] = None

Store(v) ==
    /\ Open(v) \/ Removed(v)
    /\ pdf' = pdf \cup {v}
    /\ UNCHANGED <<table, announced>>

Issue(v) ==
    /\ Open(v) /\ v \in pdf
    /\ table' = [table EXCEPT ![v] = [status |-> "card_issued", url |-> TRUE]]
    /\ UNCHANGED <<pdf, announced>>

Announce(v) ==
    /\ ~Open(v) /\ v \in pdf /\ announced[v] = 0
    /\ announced' = [announced EXCEPT ![v] = 1]
    /\ UNCHANGED <<table, pdf>>

Decide(v, decision) ==
    /\ ~Removed(v)
    /\ table' = [table EXCEPT ![v].status = decision]
    /\ UNCHANGED <<pdf, announced>>

Remove(v) ==
    /\ table' = [table EXCEPT ![v] = None]
    /\ UNCHANGED <<pdf, announced>>

Next == \E v \in Violations :
    \/ Store(v) \/ Issue(v) \/ Announce(v) \/ Remove(v)
    \/ \E decision \in Decisions : Decide(v, decision)

Spec == Init /\ [][Next]_<<table, pdf, announced>>
===============================================================================
