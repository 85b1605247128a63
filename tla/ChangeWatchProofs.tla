-------------------------- MODULE ChangeWatchProofs --------------------------
(***************************************************************************)
(* Theorems of ChangeWatch, for any rows, values, writes and lost           *)
(* connections, and for each kind of watcher.                               *)
(***************************************************************************)
EXTENDS ChangeWatch, TLAPS

-----------------------------------------------------------------------------
(***************************************************************************)
(* Type correctness.                                                        *)
(***************************************************************************)
Changes == [on: BOOLEAN, due: BOOLEAN, old: States]

LEMMA Pieces ==
    /\ Nothing \in States /\ NoChange \in Changes
    /\ NoChange.on = FALSE /\ NoChange.due = FALSE
    /\ \A s \in States : s.val \in Contents /\ s.n \in Nat
    /\ \A p \in Changes : p.on \in BOOLEAN /\ p.due \in BOOLEAN /\ p.old \in States
    /\ \A s \in States, d \in BOOLEAN : [on |-> TRUE, due |-> d, old |-> s] \in Changes
<1>1. Nothing \in States
  BY DEF Nothing, States, Contents
<1>2. NoChange \in Changes /\ NoChange.on = FALSE /\ NoChange.due = FALSE
  BY <1>1 DEF NoChange, Changes
<1> QED
  BY <1>1, <1>2 DEF States, Changes

LEMMA TypeInit == Init => TypeOK
<1> SUFFICES ASSUME Init PROVE TypeOK
  OBVIOUS
<1>1. rows \in [Keys -> States]
  BY WatchAssumption DEF Init, States, Contents
<1>2. look \in [Keys -> States] /\ cache \in [Keys -> States]
  BY Pieces DEF Init
<1>3. pending \in [Keys -> Changes] /\ \A k \in Keys : ~pending[k].on
  BY Pieces DEF Init
<1>4. told \in [Keys -> [old: Contents, new: Contents]]
  BY DEF Init, Contents
<1>5. lost \in 0..MaxLost
  BY WatchAssumption DEF Init
<1> QED
  BY <1>1, <1>2, <1>3, <1>4, <1>5 DEF Init, TypeOK, Changes

LEMMA HoldType ==
    ASSUME TypeOK, Hold
    PROVE  pending' \in [Keys -> Changes]
<1> SUFFICES ASSUME NEW k \in Keys
             PROVE  (IF ~Calls(k) THEN pending[k]
                     ELSE [on |-> TRUE, due |-> FALSE,
                           old |-> IF pending[k].on THEN pending[k].old ELSE cache[k]])
                        \in Changes
  BY DEF Hold
<1>1. pending[k] \in Changes /\ cache[k] \in States
  BY DEF TypeOK, Changes
<1>2. pending[k].old \in States
  BY <1>1, Pieces
<1>3. (IF pending[k].on THEN pending[k].old ELSE cache[k]) \in States
  BY <1>1, <1>2
<1> QED
  BY <1>1, <1>3, Pieces

LEMMA FlushType ==
    ASSUME TypeOK, Flush
    PROVE  /\ told' \in [Keys -> [old: Contents, new: Contents]]
           /\ pending' \in [Keys -> Changes]
           /\ mode = "squash" \/ \A k \in Keys : ~pending'[k].on
<1>1. ASSUME NEW k \in Keys
      PROVE  /\ pending[k] \in Changes
             /\ pending[k].old.val \in Contents /\ cache[k].val \in Contents
  <2>1. pending[k] \in Changes /\ cache[k] \in States
    BY DEF TypeOK, Changes
  <2>2. pending[k].old \in States
    BY <2>1, Pieces
  <2> QED
    BY <2>1, <2>2, Pieces
<1>2. told' \in [Keys -> [old: Contents, new: Contents]]
  BY <1>1 DEF TypeOK, Flush
<1>3. pending' \in [Keys -> Changes]
  BY <1>1, Pieces DEF Flush
<1>4. mode = "squash" \/ \A k \in Keys : ~pending'[k].on
  BY Pieces DEF TypeOK, Flush
<1> QED
  BY <1>2, <1>3, <1>4

LEMMA ExpireType ==
    ASSUME TypeOK, NEW q \in Keys, Expire(q)
    PROVE  /\ pending' \in [Keys -> Changes]
           /\ \A k \in Keys : /\ pending'[k].on = pending[k].on
                              /\ pending'[k].old = pending[k].old
<1>1. pending[q] \in Changes /\ pending[q].on = TRUE
  BY DEF TypeOK, Expire, Changes
<1>2. [on |-> TRUE, due |-> TRUE, old |-> pending[q].old] \in Changes
  BY <1>1, Pieces
<1>3. pending' = [pending EXCEPT ![q] = [on |-> TRUE, due |-> TRUE, old |-> pending[q].old]]
  BY DEF Expire
<1>4. pending \in [Keys -> Changes]
  BY DEF TypeOK, Changes
<1>5. pending' \in [Keys -> Changes]
  BY <1>2, <1>3, <1>4
<1>6. ASSUME NEW k \in Keys
      PROVE  pending'[k].on = pending[k].on /\ pending'[k].old = pending[k].old
  <2>1. CASE k = q
    <3>1. pending'[q] = [on |-> TRUE, due |-> TRUE, old |-> pending[q].old]
      BY <1>3, <1>4
    <3>2. pending'[q].on = TRUE /\ pending'[q].old = pending[q].old
      BY <3>1
    <3> QED
      BY <1>1, <2>1, <3>2
  <2>2. CASE k # q
    BY <1>3, <1>4, <2>2
  <2> QED
    BY <2>1, <2>2
<1> QED
  BY <1>5, <1>6

LEMMA TypeStep == TypeOK /\ [Next]_vars => TypeOK'
<1> SUFFICES ASSUME TypeOK, [Next]_vars PROVE TypeOK'
  OBVIOUS
<1>1. ASSUME NEW q \in Keys, NEW v \in Contents, Write(q, v) PROVE TypeOK'
  <2>1. rows' \in [Keys -> States]
    BY <1>1 DEF TypeOK, Write, Put, States
  <2>2. notes' \in Nat
    BY <1>1 DEF TypeOK, Write, Put
  <2> QED
    BY <1>1, <2>1, <2>2 DEF TypeOK, Write, watcher
<1>2. CASE Listen \/ Snapshot \/ Poll
  BY <1>2 DEF TypeOK, Listen, Snapshot, Poll
<1>8. CASE Wake
  BY <1>8 DEF TypeOK, Wake
<1>9. CASE Lose
  BY <1>9, WatchAssumption DEF TypeOK, Lose
<1>3. CASE Seed
  <2>1. told' \in [Keys -> [old: Contents, new: Contents]]
    BY <1>3, Pieces DEF TypeOK, Seed
  <2> QED
    BY <1>3, <2>1 DEF TypeOK, Seed
<1>4. CASE Diff
  <2>1. CASE mode = "squash"
    <3>1. pending' \in [Keys -> Changes]
      BY <1>4, <2>1, HoldType DEF Diff
    <3> QED
      BY <1>4, <2>1, <3>1 DEF TypeOK, Diff, Changes
  <2>2. CASE mode # "squash"
    <3>1. told' \in [Keys -> [old: Contents, new: Contents]]
      BY <1>4, <2>2, Pieces DEF TypeOK, Diff, Tell
    <3> QED
      BY <1>4, <2>2, <3>1 DEF TypeOK, Diff
  <2> QED
    BY <2>1, <2>2
<1>5. CASE Flush
  BY <1>5, FlushType DEF TypeOK, Flush, Changes
<1>6. ASSUME NEW q \in Keys, Expire(q) PROVE TypeOK'
  <2>1. /\ pending' \in [Keys -> Changes]
        /\ \A k \in Keys : pending'[k].on = pending[k].on
    BY <1>6, ExpireType
  <2> QED
    BY <1>6, <2>1 DEF TypeOK, Expire, Changes
<1>7. CASE UNCHANGED vars
  BY <1>7 DEF TypeOK, vars, watcher
<1> QED
  BY <1>1, <1>2, <1>3, <1>4, <1>5, <1>6, <1>7, <1>8, <1>9 DEF Next, Step

\* The watcher keeps its types whatever is written and however often the
\* connection is lost, and holds a change back only when it squashes.
THEOREM TypeCorrect == Spec => []TypeOK
BY TypeInit, TypeStep, PTL DEF Spec

-----------------------------------------------------------------------------
(***************************************************************************)
(* What the handler was told.                                               *)
(***************************************************************************)
\* From the start, and not only from the first look on.
ToldInv == \A k \in Keys : told[k].new = Heard[k].val

\* The watcher compares only by taking a new look at its rows: between looks,
\* what it takes the handler to know does not change.
LEMMA HeardMoves ==
    ASSUME TypeOK, [Next]_vars, NEW k \in Keys
    PROVE  \/ Heard'[k] = Heard[k]
           \/ Seed /\ Heard'[k] = look[k]
           \/ Diff /\ ~pending[k].on /\ Heard[k] = cache[k] /\ Heard'[k] = look[k]
              /\ (mode = "squash" => ~Calls(k))
           \/ Flush /\ Flushed(k) /\ Heard[k] = pending[k].old /\ Heard'[k] = cache[k]
<1> USE DEF Heard
<1>1. CASE UNCHANGED <<pending, cache>>
  BY <1>1
<1>2. CASE (\E q \in Keys, v \in Contents : Write(q, v)) \/ Listen \/ Snapshot \/ Wake
           \/ Poll \/ Lose \/ UNCHANGED vars
  <2>1. UNCHANGED <<pending, cache>>
    BY <1>2 DEF Write, Listen, Snapshot, Wake, Poll, Lose, vars, watcher
  <2> QED
    BY <1>1, <2>1
<1>3. CASE Seed
  <2>1. ~pending[k].on
    BY <1>3 DEF TypeOK, Seed
  <2> QED
    BY <1>3, <2>1 DEF Seed
<1>4. CASE Diff
  <2>1. cache' = look
    BY <1>4 DEF Diff
  <2>2. CASE mode # "squash"
    <3>1. ~pending[k].on /\ pending' = pending
      BY <1>4, <2>2 DEF TypeOK, Diff
    <3> QED
      BY <1>4, <2>1, <2>2, <3>1
  <2>3. CASE mode = "squash" /\ Calls(k)
    <3>1. pending'[k] = [on |-> TRUE, due |-> FALSE,
              old |-> IF pending[k].on THEN pending[k].old ELSE cache[k]]
      BY <1>4, <2>3 DEF Diff, Hold
    <3>2. /\ pending'[k].on = TRUE
          /\ pending'[k].old = IF pending[k].on THEN pending[k].old ELSE cache[k]
      BY <3>1
    <3> QED
      BY <3>2
  <2>4. CASE mode = "squash" /\ ~Calls(k)
    <3>1. pending'[k] = pending[k]
      BY <1>4, <2>4 DEF Diff, Hold
    <3>2. CASE pending[k].on
      BY <3>1, <3>2
    <3>3. CASE ~pending[k].on
      BY <1>4, <2>1, <2>4, <3>1, <3>3
    <3> QED
      BY <3>2, <3>3
  <2> QED
    BY <2>2, <2>3, <2>4
<1>5. CASE Flush
  <2>1. CASE Flushed(k)
    <3>1. pending'[k] = NoChange /\ cache' = cache
      BY <1>5, <2>1 DEF Flush
    <3>2. pending[k].on /\ ~pending'[k].on
      BY <2>1, <3>1, Pieces DEF Flushed
    <3> QED
      BY <1>5, <2>1, <3>1, <3>2
  <2>2. CASE ~Flushed(k)
    BY <1>5, <2>2 DEF Flush
  <2> QED
    BY <2>1, <2>2
<1>6. ASSUME NEW q \in Keys, Expire(q) PROVE Heard'[k] = Heard[k]
  BY <1>6, ExpireType DEF Expire
<1> QED
  BY <1>2, <1>3, <1>4, <1>5, <1>6 DEF Next, Step

\* What the handler is called with.
LEMMA ToldMoves ==
    ASSUME TypeOK, [Next]_vars, NEW k \in Keys
    PROVE  \/ told'[k] = told[k] /\ ~Seed /\ ~(Diff /\ mode # "squash" /\ Calls(k))
              /\ ~(Flush /\ Flushed(k))
           \/ Seed /\ ~seeded /\ told'[k].new = look[k].val
           \/ /\ Diff /\ mode # "squash" /\ Calls(k)
              /\ told'[k].old = cache[k].val /\ told'[k].new = look[k].val
           \/ /\ Flush /\ Flushed(k)
              /\ told'[k].old = pending[k].old.val /\ told'[k].new = cache[k].val
<1>1. CASE Seed
  BY <1>1 DEF Seed
<1>2. CASE Diff
  BY <1>2 DEF Diff, Tell, Seed, Flush
<1>3. CASE Flush
  BY <1>3 DEF Flush, Seed, Diff
<1>4. CASE ~Seed /\ ~Diff /\ ~Flush
  <2>1. told' = told
    BY <1>4 DEF Next, Step, Write, Listen, Snapshot, Wake, Poll, Lose, Expire, vars, watcher
  <2> QED
    BY <1>4, <2>1
<1> QED
  BY <1>1, <1>2, <1>3, <1>4

LEMMA ToldStep ==
    ASSUME TypeOK, ToldInv, [Next]_vars
    PROVE  ToldInv'
<1> SUFFICES ASSUME NEW k \in Keys PROVE told'[k].new = Heard'[k].val
  BY DEF ToldInv
<1>0. told[k].new = Heard[k].val
  BY DEF ToldInv
<1>1. CASE Seed
  <2>1. Heard'[k] = look[k]
    BY <1>1 DEF Seed, Heard, TypeOK
  <2>2. told'[k].new = look[k].val
    BY <1>1 DEF Seed
  <2> QED
    BY <2>1, <2>2
<1>2. CASE Diff /\ mode # "squash"
  <2>1. Heard'[k] = look[k] /\ Heard[k] = cache[k]
    BY <1>2 DEF Diff, Heard, TypeOK
  <2>2. told'[k].new = look[k].val \/ (told'[k] = told[k] /\ cache[k].val = look[k].val)
    BY <1>2 DEF Diff, Tell, Calls
  <2> QED
    BY <1>0, <2>1, <2>2
<1>3. CASE Diff /\ mode = "squash"
  <2>1. told' = told
    BY <1>3 DEF Diff
  <2>2. Heard'[k] = Heard[k] \/ (Heard[k] = cache[k] /\ Heard'[k] = look[k] /\ ~Calls(k))
    BY <1>3, HeardMoves DEF Diff, Seed, Flush
  <2> QED
    BY <1>0, <2>1, <2>2 DEF Calls
<1>4. CASE Flush
  <2>1. CASE Flushed(k)
    <3>1. told'[k].new = cache[k].val /\ pending'[k] = NoChange /\ cache' = cache
      BY <1>4, <2>1 DEF Flush
    <3>2. Heard'[k] = cache[k]
      BY <3>1, Pieces DEF Heard
    <3> QED
      BY <3>1, <3>2
  <2>2. CASE ~Flushed(k)
    BY <1>0, <1>4, <2>2 DEF Flush, Heard
  <2> QED
    BY <2>1, <2>2
<1>5. CASE ~Seed /\ ~Diff /\ ~Flush
  BY <1>0, <1>5, HeardMoves, ToldMoves
<1> QED
  BY <1>1, <1>2, <1>3, <1>4, <1>5

Informed == TypeOK /\ ToldInv

LEMMA InformedInit == Init => Informed
<1> SUFFICES ASSUME Init PROVE Informed
  OBVIOUS
<1>1. ASSUME NEW k \in Keys PROVE told[k].new = Heard[k].val
  <2>1. told[k].new = Absent /\ cache[k] = Nothing /\ pending[k] = NoChange
    BY DEF Init
  <2> QED
    BY <2>1, Pieces DEF Heard, Nothing
<1> QED
  BY <1>1, TypeInit DEF Informed, ToldInv

LEMMA InformedStep == Informed /\ [Next]_vars => Informed'
BY TypeStep, ToldStep DEF Informed

\* The handler was last called with the state the watcher takes it to know:
\* changes that were squashed, connections that were lost and rows that were
\* deleted included.
THEOREM WasTold == Spec => []HeardIsTold
<1>1. Informed => HeardIsTold
  BY DEF Informed, ToldInv, HeardIsTold
<1> QED
  BY InformedInit, InformedStep, <1>1, PTL DEF Spec

LEMMA ChainStep ==
    ASSUME Informed, [Next]_vars, NEW k \in Keys, seeded, told'[k] # told[k]
    PROVE  /\ told'[k].old = told[k].new
           /\ mode = "squash" \/ told'[k].new # told'[k].old
<1>0. told[k].new = Heard[k].val
  BY DEF Informed, ToldInv
<1>1. CASE Diff /\ mode # "squash" /\ Calls(k)
  <2>1. told'[k].old = cache[k].val /\ told'[k].new = look[k].val
    BY <1>1 DEF Diff, Tell
  <2>2. Heard[k] = cache[k]
    BY <1>1 DEF Informed, TypeOK, Heard
  <2> QED
    BY <1>0, <1>1, <2>1, <2>2 DEF Calls
<1>2. CASE Flush /\ Flushed(k)
  <2>1. told'[k].old = pending[k].old.val
    BY <1>2 DEF Flush
  <2>2. Heard[k] = pending[k].old /\ mode = "squash"
    BY <1>2 DEF Informed, TypeOK, Heard, Flushed
  <2> QED
    BY <1>0, <2>1, <2>2
<1> QED
  BY <1>1, <1>2, ToldMoves DEF Informed

\* The old value of every call is the new value of the call before.
THEOREM Chained == Spec => CallsChain
<1>1. Informed /\ [Next]_vars =>
        [\A k \in Keys : seeded /\ told'[k] # told[k] =>
              /\ told'[k].old = told[k].new
              /\ mode = "squash" \/ told'[k].new # told'[k].old]_told
  BY ChainStep
<1> QED
  BY InformedInit, InformedStep, <1>1, PTL DEF Spec, CallsChain

-----------------------------------------------------------------------------
(***************************************************************************)
(* The watcher keeps its promise.                                           *)
(***************************************************************************)
\* What is held back is older than what was compared, that is older than what
\* was read, and that older than what there is.
AgeInv ==
    \A k \in Keys :
        /\ pending[k].on => pending[k].old.n <= cache[k].n
        /\ cache[k].n <= look[k].n
        /\ look[k].n <= rows[k].n

LEMMA Numbers ==
    ASSUME TypeOK, NEW k \in Keys
    PROVE  /\ rows[k].n \in Nat /\ look[k].n \in Nat /\ cache[k].n \in Nat
           /\ pending[k].old.n \in Nat /\ Heard[k].n \in Nat
<1>1. /\ rows[k] \in States /\ look[k] \in States /\ cache[k] \in States
      /\ pending[k] \in Changes
  BY DEF TypeOK, Changes
<1>2. pending[k].old \in States
  BY <1>1, Pieces
<1> QED
  BY <1>1, <1>2, Pieces DEF Heard

LEMMA Written ==
    ASSUME TypeOK, NEW q \in Keys, NEW v \in Contents, Write(q, v)
    PROVE  /\ rows'[q].n = rows[q].n + 1
           /\ \A k \in Keys : k # q => rows'[k] = rows[k]
           /\ UNCHANGED <<look, cache, pending>>
<1>1. rows'[q] = [val |-> v, n |-> rows[q].n + 1]
  BY DEF TypeOK, Write, Put
<1> QED
  BY <1>1 DEF TypeOK, Write, Put, watcher

LEMMA RowsStay ==
    ASSUME [Next]_vars, ~(\E q \in Keys, v \in Contents : Write(q, v))
    PROVE  rows' = rows
BY DEF Next, Step, Listen, Snapshot, Seed, Diff, Flush, Wake, Poll, Lose, Expire, vars

LEMMA AgeStep ==
    ASSUME TypeOK, AgeInv, [Next]_vars
    PROVE  AgeInv'
<1> SUFFICES ASSUME NEW k \in Keys
             PROVE  /\ pending'[k].on => pending'[k].old.n <= cache'[k].n
                    /\ cache'[k].n <= look'[k].n
                    /\ look'[k].n <= rows'[k].n
  BY DEF AgeInv
<1>0. /\ pending[k].on => pending[k].old.n <= cache[k].n
      /\ cache[k].n <= look[k].n /\ look[k].n <= rows[k].n
      /\ rows[k].n \in Nat /\ look[k].n \in Nat /\ cache[k].n \in Nat
      /\ pending[k].old.n \in Nat
  BY Numbers DEF AgeInv
<1>1. ASSUME NEW q \in Keys, NEW v \in Contents, Write(q, v)
      PROVE  /\ UNCHANGED <<look, cache, pending>>
             /\ rows'[k] = rows[k] \/ rows'[k].n = rows[k].n + 1
  BY <1>1, Written
<1>2. CASE \E q \in Keys, v \in Contents : Write(q, v)
  BY <1>0, <1>1, <1>2
<1>3. CASE Snapshot
  BY <1>0, <1>3 DEF Snapshot
<1>4. CASE Seed
  BY <1>0, <1>4 DEF Seed, TypeOK
<1>5. CASE Diff
  <2>1. cache' = look /\ look' = look /\ rows' = rows
    BY <1>5 DEF Diff
  <2>2. pending'[k].on => pending'[k].old.n <= look[k].n
    <3>1. CASE pending'[k] = pending[k]
      BY <1>0, <3>1
    <3>2. CASE Hold /\ Calls(k)
      <4>1. pending'[k] = [on |-> TRUE, due |-> FALSE,
                old |-> IF pending[k].on THEN pending[k].old ELSE cache[k]]
        BY <3>2 DEF Hold
      <4>2. pending'[k].old = IF pending[k].on THEN pending[k].old ELSE cache[k]
        BY <4>1
      <4> QED
        BY <1>0, <4>2
    <3> QED
      BY <1>5, <3>1, <3>2 DEF Diff, Hold
  <2> QED
    BY <1>0, <2>1, <2>2
<1>6. CASE Flush
  <2>1. UNCHANGED <<cache, look, rows>>
    BY <1>6 DEF Flush
  <2>2. pending'[k] = pending[k] \/ ~pending'[k].on
    BY <1>6, Pieces DEF Flush
  <2> QED
    BY <1>0, <2>1, <2>2
<1>7. ASSUME NEW q \in Keys, Expire(q)
      PROVE  /\ UNCHANGED <<cache, look, rows>>
             /\ pending'[k].on = pending[k].on /\ pending'[k].old = pending[k].old
  BY <1>7, ExpireType DEF Expire
<1>8. CASE \E q \in Keys : Expire(q)
  BY <1>0, <1>7, <1>8
<1>9. CASE Listen \/ Wake \/ Poll \/ Lose \/ UNCHANGED vars
  <2>1. UNCHANGED <<rows, look, cache, pending>>
    BY <1>9 DEF Listen, Wake, Poll, Lose, vars, watcher
  <2> QED
    BY <1>0, <2>1
<1> QED
  BY <1>2, <1>3, <1>4, <1>5, <1>6, <1>8, <1>9 DEF Next, Step

Watched == TypeOK /\ AgeInv

LEMMA WatchedInit == Init => Watched
<1> SUFFICES ASSUME Init PROVE Watched
  OBVIOUS
<1>1. ASSUME NEW k \in Keys
      PROVE  /\ pending[k].on => pending[k].old.n <= cache[k].n
             /\ cache[k].n <= look[k].n /\ look[k].n <= rows[k].n
  <2>1. pending[k] = NoChange /\ cache[k] = Nothing /\ look[k] = Nothing /\ rows[k].n = 0
    BY DEF Init
  <2> QED
    BY <2>1, Pieces DEF Nothing
<1> QED
  BY <1>1, TypeInit DEF Watched, AgeInv

\* The handler never hears of an older state than before, nor of one that
\* the row has not had.
LEMMA HeardGrows ==
    ASSUME Watched, [Next]_vars, NEW k \in Keys
    PROVE  /\ Heard[k].n <= Heard'[k].n
           /\ Heard'[k].n <= rows[k].n
           /\ Heard[k].n \in Nat /\ Heard'[k].n \in Nat
<1>1. /\ pending[k].on => pending[k].old.n <= cache[k].n
      /\ cache[k].n <= look[k].n /\ look[k].n <= rows[k].n
      /\ rows[k].n \in Nat /\ look[k].n \in Nat /\ cache[k].n \in Nat
      /\ pending[k].old.n \in Nat /\ Heard[k].n \in Nat
  BY Numbers DEF Watched, AgeInv
<1>2. Heard[k].n <= look[k].n
  BY <1>1 DEF Heard
<1>3. Flushed(k) => pending[k].on
  BY DEF Flushed
<1> QED
  BY <1>1, <1>2, <1>3, HeardMoves DEF Watched

LEMMA PromiseInit == Init => Promise!Init
<1> SUFFICES ASSUME Init PROVE Promise!Init
  OBVIOUS
<1>1. ASSUME NEW k \in Keys PROVE rows[k].n = 0 /\ Heard[k].n = 0
  <2>1. pending[k] = NoChange /\ cache[k] = Nothing /\ rows[k].n = 0
    BY DEF Init
  <2> QED
    BY <2>1, Pieces DEF Heard, Nothing
<1> QED
  BY <1>1 DEF Promise!Init

LEMMA PromiseStep ==
    ASSUME Watched, [Next]_vars
    PROVE  [Promise!Next]_(Promise!vars)
<1>0. \A k \in Keys : rows[k].n \in Nat
  BY Numbers DEF Watched
<1>1. ASSUME NEW q \in Keys, NEW v \in Contents, Write(q, v)
      PROVE  Promise!Changes(q)
  <2>1. [k \in Keys |-> rows'[k].n] = [[k \in Keys |-> rows[k].n] EXCEPT ![q] = @ + 1]
    BY <1>1, Written DEF Watched
  <2>2. [k \in Keys |-> Heard'[k].n] = [k \in Keys |-> Heard[k].n]
    BY <1>1, Written DEF Watched, Heard
  <2> QED
    BY <2>1, <2>2 DEF Promise!Changes
<1>2. CASE ~(\E q \in Keys, v \in Contents : Write(q, v))
  <2>1. [k \in Keys |-> rows'[k].n] = [k \in Keys |-> rows[k].n]
    BY <1>2, RowsStay
  <2>2. [k \in Keys |-> Heard'[k].n] \in [Keys -> Nat]
    BY HeardGrows
  <2>3. \A k \in Keys : Heard[k].n <= Heard'[k].n /\ Heard'[k].n <= rows[k].n
    BY HeardGrows
  <2> QED
    BY <2>1, <2>2, <2>3 DEF Promise!Next, Promise!Hears
<1> QED
  BY <1>1, <1>2 DEF Promise!Next

LEMMA WatchedStep == Watched /\ [Next]_vars => Watched'
BY TypeStep, AgeStep DEF Watched

\* The safety half of what LatestValue promises: the handler hears of states
\* the row has had, each no older than the one before, and of nothing else.
THEOREM KeepsPromise == Spec => Promise!Safe
<1>1. Watched /\ [Next]_vars => [Promise!Next]_(Promise!vars)
  BY PromiseStep
<1> QED
  BY WatchedInit, WatchedStep, PromiseInit, <1>1, PTL DEF Spec, Promise!Safe
=============================================================================
