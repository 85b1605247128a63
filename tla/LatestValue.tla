---------------------------- MODULE LatestValue ----------------------------
(***************************************************************************)
(* What a watcher promises the handler of a row: it hears of states the row *)
(* has had, never of an older one than it has heard of, perhaps not of all  *)
(* of them, and in the end of the last one.  States are counted.            *)
(***************************************************************************)
EXTENDS Integers

CONSTANT Rows

VARIABLES state, heard

vars == <<state, heard>>

Init == heard = [k \in Rows |-> 0] /\ state = [k \in Rows |-> 0]

Changes(k) ==
    /\ state' = [state EXCEPT ![k] = @ + 1]
    /\ UNCHANGED heard

\* One look at the rows may bring news of several.
Hears ==
    /\ heard' \in [Rows -> Nat]
    /\ \A k \in Rows : heard[k] <= heard'[k] /\ heard'[k] <= state[k]
    /\ UNCHANGED state

Next == (\E k \in Rows : Changes(k)) \/ Hears

Safe == Init /\ [][Next]_vars

\* When the rows come to rest, everything has been heard.
UpToDate == <>[][FALSE]_state => <>[](heard = state)

Spec == Safe /\ UpToDate
=============================================================================
