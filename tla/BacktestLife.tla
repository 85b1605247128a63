---------------------------- MODULE BacktestLife ----------------------------
(***************************************************************************)
(* What becomes of a backtest, with no rows, queues, threads or containers  *)
(* in it.  One that is posted is claimed or withdrawn, nothing else; one    *)
(* that is claimed runs once or never; and one that is over stays so.  One  *)
(* heavy backtest runs at a time while the engine knows its own count.      *)
(* BacktestQueue.tla is shown to implement it.                              *)
(***************************************************************************)
CONSTANTS
    Backtests,
    High            \* the heavy ones

VARIABLES
    life,           \* [Backtests -> where it is]
    counted         \* the engine knows how many heavy ones run

seen == <<life, counted>>

Init == life = [k \in Backtests |-> "new"] /\ counted = TRUE

\* One backtest goes from a stage to the next.
Goes(k, from, to) ==
    /\ life[k] = from
    /\ life' = [life EXCEPT ![k] = to]
    /\ UNCHANGED counted

Post(k)     == Goes(k, "new", "posted")
Claim(k)    == Goes(k, "posted", "due")
Withdraw(k) == Goes(k, "posted", "over")

Begin(k) ==
    /\ Goes(k, "due", "runs")
    /\ k \in High /\ counted => \A j \in High : life[j] # "runs"

\* A run ends or a claim comes to nothing; a deployment ends many at once.
End(S) ==
    /\ \A k \in S : life[k] \in {"due", "runs"}
    /\ life' = [k \in Backtests |-> IF k \in S THEN "over" ELSE life[k]]
    /\ UNCHANGED counted

LoseCount == counted' = FALSE /\ UNCHANGED life

Next ==
    \/ \E k \in Backtests : Post(k) \/ Claim(k) \/ Withdraw(k) \/ Begin(k)
    \/ \E S \in SUBSET Backtests : End(S)
    \/ LoseCount

Spec == Init /\ [][Next]_seen
=============================================================================
