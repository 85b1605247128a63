----------------------------- MODULE FillLedger -----------------------------
(***************************************************************************)
(* What the order pipeline promises about fills, with no threads, events or *)
(* versions in it.  The broker executes shares one by one; the durable rows *)
(* record a growing prefix of what was executed; the risk sleeve is told of *)
(* shares that are recorded, and of each one at most once.  With fairness   *)
(* everything executed is recorded, and everything recorded is booked       *)
(* unless a restart or a raising handler interrupts a booking:              *)
(* live_risk_state.apply_confirmed_fill calls it "exactly-once".            *)
(* LiveOrders.tla is shown to implement it.                                 *)
(***************************************************************************)
EXTENDS Integers

CONSTANTS
    Ords,           \* the orders of a decision
    Qty             \* shares per order

VARIABLES
    executed,       \* [Ords -> 0..Qty]: shares the broker executed
    recorded,       \* [Ords -> 0..Qty]: shares in the durable rows
    booked,         \* [Ords -> [1..Qty -> Nat]]: times each share was booked
    interrupted     \* whether a booking may have been interrupted

ledger == <<executed, recorded, booked, interrupted>>

Init ==
    /\ executed = [o \in Ords |-> 0]
    /\ recorded = [o \in Ords |-> 0]
    /\ booked = [o \in Ords |-> [u \in 1..Qty |-> 0]]
    /\ interrupted = FALSE

Execute(o) ==
    /\ \E n \in (executed[o] + 1)..Qty : executed' = [executed EXCEPT ![o] = n]
    /\ UNCHANGED <<recorded, booked, interrupted>>

Record(o) ==
    /\ \E n \in (recorded[o] + 1)..executed[o] :
         recorded' = [recorded EXCEPT ![o] = n]
    /\ UNCHANGED <<executed, booked, interrupted>>

\* Shares that are recorded and that the sleeve was never told of.
Owed(o) == {u \in 1..recorded[o] : booked[o][u] = 0}

Book(o) ==
    /\ \E m, n \in Owed(o) :
         /\ m <= n
         /\ m..n \subseteq Owed(o)
         /\ booked' = [booked EXCEPT ![o] =
                         [u \in 1..Qty |-> IF u \in m..n THEN 1 ELSE @[u]]]
    /\ UNCHANGED <<executed, recorded, interrupted>>

Interrupt ==
    /\ interrupted' = TRUE
    /\ UNCHANGED <<executed, recorded, booked>>

Next == Interrupt \/ \E o \in Ords : Execute(o) \/ Record(o) \/ Book(o)

AtMostOnce == Init /\ [][Next]_ledger

ExactlyOnce ==
    /\ AtMostOnce
    /\ \A o \in Ords : WF_ledger(Record(o)) /\ WF_ledger(~interrupted /\ Book(o))
=============================================================================
