---------------------------- MODULE BrokerTurns ----------------------------
(***************************************************************************)
(* What the supervisor promises of an instance's brokers, with no threads,  *)
(* feeds or rows in it: they take turns.  A broker starts when none trades; *)
(* a crash is final, and what trades is halted; the window's starts are     *)
(* limited; and when the process has ended nothing starts.  Once two starts *)
(* have overlapped (raced), only the limit and the end are promised.        *)
(* InstanceProcess.tla is shown to implement it.                            *)
(***************************************************************************)
EXTENDS Integers

CONSTANT MaxRestarts    \* starts in one window

VARIABLES
    alive, started,     \* the brokers that trade, those ever started
    window,             \* starts of this window
    crash,              \* "no", "tripped" or "halted"
    raced, up

turns == <<alive, started, window, crash, raced, up>>

Init ==
    /\ alive = {} /\ started = 0 /\ window = 0
    /\ crash = "no" /\ raced = FALSE /\ up = TRUE

Start ==
    /\ up /\ window < MaxRestarts
    /\ raced \/ (alive = {} /\ crash = "no")
    /\ started' = started + 1 /\ window' = window + 1
    /\ alive' = alive \cup {started'}
    /\ UNCHANGED <<crash, raced, up>>

\* A broker exits or is replaced.
Leave ==
    /\ alive' \in SUBSET alive
    /\ UNCHANGED <<started, window, crash, raced, up>>

Race == raced' = TRUE /\ UNCHANGED <<alive, started, window, crash, up>>

NewWindow == window' = 0 /\ UNCHANGED <<alive, started, crash, raced, up>>

Trip ==
    /\ crash = "no" /\ crash' = "tripped"
    /\ raced' \in {raced, TRUE}
    /\ UNCHANGED <<alive, started, window, up>>

Halt ==
    /\ crash = "tripped" /\ crash' = "halted"
    /\ alive' \in SUBSET alive /\ (raced \/ alive' = {})
    /\ UNCHANGED <<started, window, raced, up>>

End ==
    /\ up' = FALSE /\ alive' = {}
    /\ crash' = IF crash = "tripped" THEN "halted" ELSE crash
    /\ UNCHANGED <<started, window, raced>>

Next == Start \/ Leave \/ Race \/ NewWindow \/ Trip \/ Halt \/ End

Spec == Init /\ [][Next]_turns
=============================================================================
