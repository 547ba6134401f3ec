----------------------------- MODULE PenaltyLedger -----------------------------
(***************************************************************************)
(* What the duplicate prevention of violation-service promises, without    *)
(* CVIs, messages, restarts or Redis: in a zone, an identity is penalised  *)
(* once per cycle, in consecutive cycles, and a cycle is left only after   *)
(* it was penalised.                                                       *)
(***************************************************************************)
EXTENDS Naturals

CONSTANTS Zones, Keys

VARIABLES ledger,   \* the penalties written
          cycle     \* the current cycle of every identity in every zone

Penalties == [zone : Zones, ident : Keys, cycle : Nat]

Penalty(z, k) == [zone |-> z, ident |-> k, cycle |-> cycle[z][k]]

Init == ledger = {} /\ cycle = [z \in Zones |-> [k \in Keys |-> 0]]

Issue(z, k) ==
    /\ Penalty(z, k) \notin ledger
    /\ ledger' = ledger \cup {Penalty(z, k)}
    /\ UNCHANGED cycle

CloseCycle(z, k) ==
    /\ Penalty(z, k) \in ledger
    /\ cycle' = [cycle EXCEPT ![z][k] = @ + 1]
    /\ UNCHANGED ledger

Next == \E z \in Zones, k \in Keys : Issue(z, k) \/ CloseCycle(z, k)

Spec == Init /\ [][Next]_<<ledger, cycle>>
===============================================================================
