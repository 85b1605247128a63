---------------------------- MODULE ChangeWatch ----------------------------
(***************************************************************************)
(* The change watcher every service of the system listens with              *)
(* (db/watch.py): it waits for a notification or two seconds, reads the     *)
(* watched rows, compares them with what it read before, and calls the      *)
(* handler with the old and the new value of each row that differs.         *)
(*                                                                         *)
(* A row's value is what the comparison sees; its number counts its writes, *)
(* which the watcher does not see.  Notifications carry no data, are lost   *)
(* with the connection, and one of them ends a wait.  A handler that raises *)
(* is not called again: for the watcher it has heard.                       *)
(***************************************************************************)
EXTENDS Integers

CONSTANTS
    Keys,            \* the watched rows
    Values, Absent,  \* what a row may hold, no row
    Initially,       \* what the rows may hold at first
    Watchers,        \* the kinds of watcher: one that reports the rows of its
                     \* first look, one that is "silent" then, one that
                     \* reports them and "squash"es changes within a window
    MaxWrites,       \* bound: writes to a row
    MaxLost          \* bound: connections lost

ASSUME WatchAssumption ==
    /\ Absent \notin Values
    /\ Initially \subseteq Values \cup {Absent}
    /\ Watchers \subseteq {"report", "silent", "squash"}
    /\ MaxWrites \in Nat /\ MaxLost \in Nat

VARIABLES
    mode,     \* the kind of this watcher
    rows,     \* the table
    notes,    \* notifications not yet taken
    place,    \* where the watcher is
    look,     \* what it has read
    got,      \* the last wait ended with a notification
    cache, seeded,
    pending,  \* [Keys -> the oldest value of a squashed change]
    told,     \* what the handler was last called with
    lost

watcher == <<place, look, got, cache, seeded, pending, told>>
vars == <<mode, rows, notes, watcher, lost>>

-----------------------------------------------------------------------------
Contents == Values \cup {Absent}
States   == [val: Contents, n: Nat]
Nothing  == [val |-> Absent, n |-> 0]
NoChange == [on |-> FALSE, due |-> FALSE, old |-> Nothing]

Init ==
    /\ mode \in Watchers
    /\ rows \in [Keys -> [val: Initially, n: {0}]]
    /\ notes = 0
    /\ place = "down" /\ look = [k \in Keys |-> Nothing] /\ got = TRUE
    /\ cache = [k \in Keys |-> Nothing] /\ seeded = FALSE
    /\ pending = [k \in Keys |-> NoChange]
    /\ told = [k \in Keys |-> [old |-> Absent, new |-> Absent]]
    /\ lost = 0

\* A committed write notifies whoever listens.
Put(k, v) ==
    /\ rows' = [rows EXCEPT ![k] = [val |-> v, n |-> rows[k].n + 1]]
    /\ notes' = IF place = "down" THEN 0 ELSE notes + 1

Write(k, v) ==
    /\ rows[k].n < MaxWrites /\ rows[k].val # v
    /\ Put(k, v)
    /\ UNCHANGED <<mode, watcher, lost>>

-----------------------------------------------------------------------------
Listen ==
    /\ place = "down"
    /\ place' = "read" /\ got' = TRUE
    /\ UNCHANGED <<mode, rows, notes, look, cache, seeded, pending, told, lost>>

Snapshot ==
    /\ place = "read"
    /\ place' = "compare" /\ look' = rows
    /\ UNCHANGED <<mode, rows, notes, got, cache, seeded, pending, told, lost>>

\* (Mutation: the cache is walked for the rows that are still there.)
CallsIfThere(k) == cache[k].val # look[k].val /\ look[k].val # Absent

Calls(k) == cache[k].val # look[k].val

\* The first look of a watcher that does not report what was there.
Seed ==
    /\ place = "compare" /\ ~seeded /\ mode = "silent"
    /\ cache' = look /\ seeded' = TRUE
    /\ told' = [k \in Keys |-> [old |-> look[k].val, new |-> look[k].val]]
    /\ place' = "flush"
    /\ UNCHANGED <<mode, rows, notes, look, got, pending, lost>>

Tell ==
    told' = [k \in Keys |-> IF Calls(k)
                            THEN [old |-> cache[k].val, new |-> look[k].val]
                            ELSE told[k]]

\* (Mutation: the value just replaced.)
HoldLast ==
    pending' = [k \in Keys |->
        IF ~Calls(k) THEN pending[k]
        ELSE [on |-> TRUE, due |-> FALSE, old |-> cache[k]]]

\* A squashed change remembers the oldest value and starts its window anew.
Hold ==
    pending' = [k \in Keys |->
        IF ~Calls(k) THEN pending[k]
        ELSE [on |-> TRUE, due |-> FALSE,
              old |-> IF pending[k].on THEN pending[k].old ELSE cache[k]]]

Diff ==
    /\ place = "compare" /\ (seeded \/ mode # "silent")
    /\ cache' = look /\ seeded' = TRUE
    /\ IF mode = "squash" THEN Hold /\ UNCHANGED told ELSE Tell /\ UNCHANGED pending
    /\ place' = "flush"
    /\ UNCHANGED <<mode, rows, notes, look, got, lost>>

\* (Mutation: only what is due.)
FlushedDue(k) == pending[k].on /\ pending[k].due

\* What is due is reported, and after a wait without a notification
\* everything is.
Flushed(k) == pending[k].on /\ (pending[k].due \/ ~got)

Flush ==
    /\ place = "flush"
    /\ told' = [k \in Keys |-> IF Flushed(k)
                               THEN [old |-> pending[k].old.val, new |-> cache[k].val]
                               ELSE told[k]]
    /\ pending' = [k \in Keys |-> IF Flushed(k) THEN NoChange ELSE pending[k]]
    /\ place' = "wait"
    /\ UNCHANGED <<mode, rows, notes, look, got, cache, seeded, lost>>

\* (Mutation: the notification is taken without a look whether there is one.)
WakeAnyway ==
    /\ place = "wait"
    /\ notes' = notes - 1 /\ got' = TRUE
    /\ place' = "read"
    /\ UNCHANGED <<mode, rows, look, cache, seeded, pending, told, lost>>

Wake ==
    /\ place = "wait" /\ notes > 0
    /\ notes' = notes - 1 /\ got' = TRUE
    /\ place' = "read"
    /\ UNCHANGED <<mode, rows, look, cache, seeded, pending, told, lost>>

Poll ==
    /\ place = "wait" /\ notes = 0
    /\ got' = FALSE
    /\ place' = "read"
    /\ UNCHANGED <<mode, rows, notes, look, cache, seeded, pending, told, lost>>

\* Anything may raise; the watcher connects again and keeps what it knows.
Lose ==
    /\ place # "down" /\ lost < MaxLost
    /\ lost' = lost + 1
    /\ place' = "down" /\ notes' = 0
    /\ UNCHANGED <<mode, rows, look, got, cache, seeded, pending, told>>

\* squash_window passes.
Expire(k) ==
    /\ pending[k].on /\ ~pending[k].due
    /\ pending' = [pending EXCEPT ![k] = [on |-> TRUE, due |-> TRUE,
                                          old |-> pending[k].old]]
    /\ UNCHANGED <<mode, rows, notes, place, look, got, cache, seeded, told, lost>>

Step == Listen \/ Snapshot \/ Seed \/ Diff \/ Flush \/ Wake \/ Poll

Next ==
    \/ \E k \in Keys, v \in Contents : Write(k, v)
    \/ Step \/ Lose
    \/ \E k \in Keys : Expire(k)

Spec == Init /\ [][Next]_vars

\* The watcher's thread runs on.
FairSpec == Spec /\ WF_vars(Step)

-----------------------------------------------------------------------------
\* Every variable holds values of its kind; a change is held back only in a
\* watcher that squashes.
TypeOK ==
    /\ mode \in Watchers
    /\ rows \in [Keys -> States] /\ notes \in Nat
    /\ place \in {"down", "read", "compare", "flush", "wait"}
    /\ look \in [Keys -> States] /\ got \in BOOLEAN
    /\ cache \in [Keys -> States] /\ seeded \in BOOLEAN
    /\ pending \in [Keys -> [on: BOOLEAN, due: BOOLEAN, old: States]]
    /\ mode = "squash" \/ \A k \in Keys : ~pending[k].on
    /\ told \in [Keys -> [old: Contents, new: Contents]]
    /\ lost \in 0..MaxLost

\* The state the handler has heard of: the one compared last, or while a
\* change is held back the one before it.
Heard == [k \in Keys |-> IF pending[k].on THEN pending[k].old ELSE cache[k]]

\* The handler was last called with the state the watcher takes it to know,
\* whatever was squashed and however often the connection was lost.
HeardIsTold ==
    seeded => \A k \in Keys : told[k].new = Heard[k].val

\* A handler can rely on the old value of a change: it is the new value of the
\* change before; and unless changes are squashed, the two differ.
CallsChain ==
    [][\A k \in Keys : seeded /\ told'[k] # told[k] =>
          /\ told'[k].old = told[k].new
          /\ mode = "squash" \/ told'[k].new # told'[k].old]_told

Promise == INSTANCE LatestValue WITH
    Rows  <- Keys,
    state <- [k \in Keys |-> rows[k].n],
    heard <- [k \in Keys |-> Heard[k].n]

\* "A missed NOTIFY costs at most one interval" (db/watch.py:12): the handler
\* hears of the rows in their order and in the end of the last state.
HearsTheLatest == Promise!Spec
=============================================================================
