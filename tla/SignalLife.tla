----------------------------- MODULE SignalLife -----------------------------
(***************************************************************************)
(* What becomes of a trade signal, with no requests, commands, leases or    *)
(* sweeps in it.  It is decided, and a rejection is the end; an approval    *)
(* may be taken back, run out, or be claimed for placing.  A claim is given *)
(* up, or it is recorded, and a record is followed by one order at most.    *)
(* Once it is recorded the signal is never open again, and where handlers   *)
(* are prompt and refusals are refusals (Sure), a signal that was sent      *)
(* stays submitted and one that failed stays failed.                        *)
(* SwingApproval.tla is shown to implement it.                              *)
(***************************************************************************)
EXTENDS Integers

CONSTANT Sure       \* handlers are prompt, and a refusal is one

VARIABLES
    status,         \* of the signal
    recorded,       \* whether a record of an order names it
    sent            \* orders at the broker

life == <<status, recorded, sent>>

Approved == {"approved", "approved_half"}

Init == status = "pending" /\ recorded = FALSE /\ sent = 0

Becomes(s) == status' = s /\ UNCHANGED <<recorded, sent>>

Decide == status = "pending" /\ \E s \in Approved \cup {"rejected"} : Becomes(s)

TakeBack == status \in Approved /\ Becomes("pending")
Expire   == status \in Approved /\ Becomes("failed")
Claim    == status \in Approved /\ Becomes("submitted")

\* A late handler goes on although the sweep has failed its signal.
InHand == status = "submitted" \/ (~Sure /\ status = "failed")

Reopen == InHand /\ ~recorded /\ Becomes("pending")
Fail   == status = "submitted" /\ (Sure => sent = 0) /\ Becomes("failed")

Record ==
    /\ InHand /\ ~recorded
    /\ recorded' = TRUE
    /\ UNCHANGED <<status, sent>>

Send ==
    /\ InHand /\ recorded /\ sent = 0
    /\ sent' = 1
    /\ UNCHANGED <<status, recorded>>

Next == Decide \/ TakeBack \/ Expire \/ Claim \/ Reopen \/ Fail \/ Record \/ Send

Spec == Init /\ [][Next]_life
=============================================================================
