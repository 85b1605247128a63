----------------------------- MODULE RiskLedger -----------------------------
(***************************************************************************)
(* What the drawdown record of an account promises, with no versions, no    *)
(* copies and no threads in it: its writers take turns.  The record is      *)
(* opened once; each evaluation raises its peak to an equity the broker     *)
(* reported, if that is higher, and each fill is booked in its sleeve at    *)
(* most once, in the record as the writer before left it.                   *)
(* LiveRisk.tla is shown to implement it.                                   *)
(***************************************************************************)
EXTENDS Integers

CONSTANTS
    Equities,       \* what the broker may report, > 0
    Entries,        \* fills that buy
    Exits,          \* fills that sell
    Leveraged       \* fills of leveraged symbols

VARIABLES
    peak,           \* the high-water mark, 0 while there is no record
    equity,         \* the equity of the last evaluation
    sleeve,         \* leveraged holdings
    booked          \* the fills that are in the record

record == <<peak, equity, sleeve, booked>>

Init ==
    /\ peak = equity /\ peak \in Equities \cup {0}
    /\ sleeve = 0 /\ booked = {}

Open ==
    /\ peak = 0
    /\ peak' = equity' /\ peak' \in Equities
    /\ sleeve' = 0
    /\ UNCHANGED booked

Evaluate ==
    /\ peak # 0
    /\ equity' \in Equities
    /\ peak' = IF equity' > peak THEN equity' ELSE peak
    /\ UNCHANGED <<sleeve, booked>>

\* A sell that finds the sleeve empty leaves it so.
Book(f) ==
    /\ peak # 0 /\ f \notin booked
    /\ booked' = booked \cup {f}
    /\ \/ f \notin Leveraged /\ sleeve' = sleeve
       \/ f \in Leveraged /\ f \in Entries /\ sleeve' = sleeve + 1
       \/ f \in Leveraged /\ f \in Exits /\ sleeve' = IF sleeve > 0 THEN sleeve - 1 ELSE 0
    /\ UNCHANGED <<peak, equity>>

Next == Open \/ Evaluate \/ \E f \in Entries \cup Exits : Book(f)

Spec == Init /\ [][Next]_record
=============================================================================
