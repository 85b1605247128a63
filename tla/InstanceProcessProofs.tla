------------------------ MODULE InstanceProcessProofs ------------------------
(***************************************************************************)
(* Theorems of InstanceProcess, for any number of edits, exits, failures    *)
(* and starts, and any limit of the crash-loop breaker.                     *)
(***************************************************************************)
EXTENDS InstanceProcess, FiniteSetTheorems, SequenceTheorems, TLAPS

-----------------------------------------------------------------------------
(***************************************************************************)
(* Type correctness.                                                        *)
(***************************************************************************)
Brokers == [state: {"alive", "dying", "dead"}, stocks: 0..MaxEdits]

LEMMA Bounds ==
    /\ MaxRestarts \in Nat /\ MaxEdits \in Nat /\ MaxExits \in Nat
    /\ MaxFaults \in Nat /\ MaxStarts \in Nat
BY InstanceAssumption

\* What becomes of the brokers.
LEMMA TerminatedTypes ==
    ASSUME brokers \in Seq(Brokers), NEW p \in 0..Len(brokers)
    PROVE  /\ Terminated(p) \in Seq(Brokers)
           /\ Len(Terminated(p)) = Len(brokers)
           /\ DOMAIN Terminated(p) = DOMAIN brokers
           /\ \A b \in DOMAIN brokers :
                 /\ Terminated(p)[b].state = "alive"
                       => brokers[b].state = "alive" /\ b # p
                 /\ Terminated(p)[b].state = "dead" => brokers[b].state = "dead"
<1>1. CASE p # 0 /\ Poll(p) = "alive"
  <2>1. p \in 1..Len(brokers)
    BY <1>1
  <2>2. brokers[p] \in Brokers
    BY <2>1
  <2> DEFINE new == [state |-> "dying", stocks |-> brokers[p].stocks]
  <2>3. new \in Brokers /\ new.state = "dying"
    BY <2>2 DEF Brokers
  <2>4. Terminated(p) = [brokers EXCEPT ![p] = new]
    BY <1>1 DEF Terminated
  <2> HIDE DEF new
  <2>5. /\ Terminated(p) \in Seq(Brokers) /\ Len(Terminated(p)) = Len(brokers)
        /\ DOMAIN Terminated(p) = DOMAIN brokers
    BY <2>1, <2>3, <2>4
  <2>6. \A b \in DOMAIN brokers : Terminated(p)[b] = IF b = p THEN new ELSE brokers[b]
    BY <2>1, <2>4
  <2> QED
    BY <2>3, <2>5, <2>6
<1>2. CASE ~(p # 0 /\ Poll(p) = "alive")
  BY <1>2 DEF Terminated, Poll
<1> QED
  BY <1>1, <1>2

LEMMA ReturnsTypes ==
    ASSUME TypeOK, NEW t \in Starters, Returns(t)
    PROVE  /\ at' \in [Threads -> Places]
           /\ \A u \in Threads : at'[u] \in {at[u], "idle", "loop"}
           /\ at'[t] = IF t = "main" THEN "loop" ELSE "idle"
           /\ \A u \in Threads : u # t /\ at[u] # "off" => at'[u] = at[u]
           /\ \A u \in Threads : u # t /\ at[u] = "off" => at'[u] = "idle"
BY DEF TypeOK, Returns, Threads, Starters, Places

LEMMA TypeInit == Init => TypeOK
<1> SUFFICES ASSUME Init PROVE TypeOK
  OBVIOUS
<1>1. at \in [Threads -> Places] /\ \A t \in Starters : at[t] # "waiting"
  BY DEF Init, Threads, Starters, Places
<1>2. Len(brokers) = 0 /\ brokers \in Seq(Brokers)
  BY DEF Init
<1>3. /\ stocks \in 0..MaxEdits /\ current \in 0..MaxEdits /\ sent \in -1..MaxEdits
      /\ exits \in 0..MaxExits /\ faults \in 0..MaxFaults
      /\ inbox \in Seq(0..MaxEdits)
  BY InstanceAssumption DEF Init
<1>4. seen \in [Starters -> 0..Len(brokers)] /\ proc \in 0..Len(brokers)
  BY <1>2 DEF Init
<1> QED
  BY <1>1, <1>2, <1>3, <1>4 DEF Init, TypeOK, Brokers

LEMMA FaultType ==
    ASSUME TypeOK, Fault
    PROVE  faults' \in 0..MaxFaults
BY InstanceAssumption DEF TypeOK, Fault

LEMMA StarterKeepsTypes ==
    ASSUME TypeOK, NEW t \in Starters, StarterNext(t)
    PROVE  TypeOK'
<1>0. /\ brokers \in Seq(Brokers) /\ Len(brokers) \in Nat
      /\ t \in Threads /\ at \in [Threads -> Places]
      /\ proc \in 0..Len(brokers)
  BY DEF TypeOK, Brokers, Threads
<1>1. CASE Enter(t)
  <2>1. brokers' = Terminated(proc) \/ brokers' = brokers
    BY <1>1 DEF Enter
  <2>2. brokers' \in Seq(Brokers) /\ Len(brokers') = Len(brokers)
    BY <1>0, <2>1, TerminatedTypes
  <2>3. at' \in [Threads -> Places] /\ \A u \in Starters : at'[u] = "waiting" => at[u] = "waiting"
    BY <1>0, <1>1, ReturnsTypes DEF Enter, Goto, Places, Inside, Threads
  <2> QED
    BY <1>1, <2>2, <2>3 DEF Enter, TypeOK, Brokers, row, feed, crash
<1>2. CASE Wait(t)
  <2>1. at' \in [Threads -> Places]
    BY <1>0, <1>2 DEF Wait, Raises, Goto, Places, Inside
  <2>3. seen' \in [Starters -> 0..Len(brokers)]
    BY <1>0, <1>2 DEF Wait, TypeOK
  <2>2. \A u \in Starters : at'[u] = "waiting" => seen'[u] # 0
    BY <1>0, <1>2 DEF Wait, Raises, Goto, TypeOK, Threads
  <2> QED
    BY <1>2, <2>1, <2>2, <2>3 DEF Wait, TypeOK, row, feed, crash
<1>3. CASE Waited(t)
  BY <1>0, <1>3 DEF Waited, Goto, TypeOK, Places, Inside, Threads, row, feed, crash
<1>4. CASE Count(t)
  <2>1. at' \in [Threads -> Places] /\ \A u \in Starters : at'[u] = "waiting" => at[u] = "waiting"
    BY <1>0, <1>4, ReturnsTypes DEF Count, Goto, Places, Inside, Threads
  <2>2. recent' \in Nat
    BY <1>4 DEF Count, TypeOK
  <2>3. latched' \in BOOLEAN
    BY <1>4 DEF Count, TypeOK
  <2> QED
    BY <1>4, <2>1, <2>2, <2>3 DEF Count, TypeOK, row, feed
<1>5. CASE Load(t)
  <2>1. at' \in [Threads -> Places] /\ \A u \in Starters : at'[u] = "waiting" => at[u] = "waiting"
    BY <1>0, <1>5, ReturnsTypes DEF Load, Goto, Places, Inside, Threads
  <2>2. faults' \in 0..MaxFaults
    BY <1>5, FaultType DEF Load, TypeOK
  <2> QED
    BY <1>5, <2>1, <2>2 DEF Load, TypeOK, row, feed, crash
<1>6. CASE Refuse(t)
  <2>1. faults' \in 0..MaxFaults
    BY <1>6, FaultType DEF Refuse
  <2> QED
    BY <1>0, <1>6, <2>1 DEF Refuse, Raises, Goto, TypeOK, Places, Inside, Threads, row,
       feed, crash
<1>7. CASE Spawn(t)
  <2>1. [state |-> "alive", stocks |-> current] \in Brokers
    BY DEF TypeOK, Brokers
  <2>2. brokers' \in Seq(Brokers) /\ Len(brokers') = Len(brokers) + 1
    BY <1>0, <1>7, <2>1 DEF Spawn
  <2>3. at' \in [Threads -> Places] /\ \A u \in Starters : at'[u] = "waiting" => at[u] = "waiting"
    BY <1>0, <1>7 DEF Spawn, Goto, Places, Inside, Threads
  <2>4. proc' \in 0..Len(brokers') /\ seen' \in [Starters -> 0..Len(brokers')]
    BY <1>0, <1>7, <2>2 DEF Spawn, TypeOK
  <2>5. spawned' \in Nat
    BY <1>7 DEF Spawn, TypeOK
  <2> QED
    BY <1>7, <2>2, <2>3, <2>4, <2>5 DEF Spawn, TypeOK, Brokers, row, feed, crash
<1>8. CASE Watchdog(t)
  <2>1. brokers' = Terminated(proc) \/ brokers' = brokers
    BY <1>8 DEF Watchdog
  <2>2. brokers' \in Seq(Brokers) /\ Len(brokers') = Len(brokers)
    BY <1>0, <2>1, TerminatedTypes
  <2>3. at' \in [Threads -> Places] /\ \A u \in Starters : at'[u] = "waiting" => at[u] = "waiting"
    BY <1>0, <1>8, ReturnsTypes DEF Watchdog, Raises, Goto, Places, Inside, Threads
  <2>4. faults' \in 0..MaxFaults
    BY <1>8, FaultType DEF Watchdog, TypeOK
  <2>5. proc' \in 0..Len(brokers')
    BY <1>0, <1>8, <2>2 DEF Watchdog
  <2> QED
    BY <1>8, <2>2, <2>3, <2>4, <2>5 DEF Watchdog, TypeOK, Brokers, row, feed, crash
<1> QED
  BY <1>1, <1>2, <1>3, <1>4, <1>5, <1>6, <1>7, <1>8 DEF StarterNext

LEMMA AfterIs ==
    /\ After("main") = "held" /\ After("stocks") = "idle" /\ After("stop") = "gone"
BY DEF After

\* A broker that ended, and none that started.
Thinned ==
    /\ brokers' \in Seq(Brokers) /\ Len(brokers') = Len(brokers)
    /\ DOMAIN brokers' = DOMAIN brokers
    /\ \A b \in DOMAIN brokers : brokers'[b].state = "alive" => brokers[b].state = "alive"

LEMMA EndsOne ==
    ASSUME brokers \in Seq(Brokers), NEW b \in DOMAIN brokers, Quit(b) \/ Die(b)
    PROVE  Thinned
<1> DEFINE new == [state |-> "dead", stocks |-> brokers[b].stocks]
<1>1. brokers[b] \in Brokers
  OBVIOUS
<1>2. new \in Brokers /\ new.state = "dead"
  BY <1>1 DEF Brokers
<1>3. brokers' = [brokers EXCEPT ![b] = new]
  BY DEF Quit, Die
<1> HIDE DEF new
<1>4. \A c \in DOMAIN brokers : brokers'[c] = IF c = b THEN new ELSE brokers[c]
  BY <1>3
<1> QED
  BY <1>2, <1>3, <1>4 DEF Thinned

LEMMA ExitEnds ==
    ASSUME brokers \in Seq(Brokers), Exit
    PROVE  /\ Thinned
           /\ \A b \in DOMAIN brokers : brokers'[b].state = "dead"
<1>1. ASSUME NEW b \in DOMAIN brokers
      PROVE  /\ [state |-> "dead", stocks |-> brokers[b].stocks] \in Brokers
             /\ [state |-> "dead", stocks |-> brokers[b].stocks].state = "dead"
  <2>1. brokers[b] \in Brokers
    OBVIOUS
  <2>2. brokers[b].stocks \in 0..MaxEdits
    BY <2>1 DEF Brokers
  <2> QED
    BY <2>2 DEF Brokers
<1>2. brokers' = [b \in DOMAIN brokers |-> [state |-> "dead", stocks |-> brokers[b].stocks]]
  BY DEF Exit
<1>3. DOMAIN brokers = 1..Len(brokers) /\ Len(brokers) \in Nat
  OBVIOUS
<1>4. brokers' \in [1..Len(brokers) -> Brokers]
  BY <1>1, <1>2, <1>3
<1>5. brokers' \in Seq(Brokers) /\ Len(brokers') = Len(brokers)
  BY <1>3, <1>4
<1>6. \A b \in DOMAIN brokers : brokers'[b].state = "dead"
  BY <1>1, <1>2
<1> QED
  BY <1>2, <1>5, <1>6 DEF Thinned

LEMMA TerminateThins ==
    ASSUME TypeOK, brokers' = Terminated(proc)
    PROVE  /\ Thinned
           /\ \A b \in DOMAIN brokers : brokers'[b].state = "alive" => b # proc
BY TerminatedTypes DEF TypeOK, Brokers, Thinned

LEMMA TypeStep == TypeOK /\ [Next]_vars => TypeOK'
<1> SUFFICES ASSUME TypeOK, [Next]_vars PROVE TypeOK'
  OBVIOUS
<1>0. /\ brokers \in Seq(Brokers) /\ Len(brokers) \in Nat
      /\ at \in [Threads -> Places] /\ proc \in 0..Len(brokers)
  BY DEF TypeOK, Brokers
<1> USE DEF row, feed, crash
<1>1. ASSUME NEW t \in Threads, Trip(t) PROVE TypeOK'
  <2>1. After(t) \in Places /\ After(t) # "waiting"
    BY AfterIs DEF Threads, Starters, Places
  <2>2. at' \in [Threads -> Places] /\ \A u \in Starters : at'[u] = "waiting" => at[u] = "waiting"
    BY <1>0, <1>1, <2>1 DEF Trip, Goto, Places, Inside, Threads
  <2> QED
    BY <1>1, <2>2 DEF Trip, TypeOK
<1>2. ASSUME NEW t \in Threads, Terminate(t) PROVE TypeOK'
  <2>1. After(t) \in Places /\ After(t) # "waiting"
    BY AfterIs DEF Threads, Starters, Places
  <2>2. at' \in [Threads -> Places] /\ \A u \in Starters : at'[u] = "waiting" => at[u] = "waiting"
    BY <1>0, <1>2, <2>1 DEF Terminate, Goto, Places, Inside, Threads
  <2>3. brokers' \in Seq(Brokers) /\ Len(brokers') = Len(brokers)
    BY <1>2, TerminateThins DEF Terminate, Thinned
  <2> QED
    BY <1>2, <2>2, <2>3 DEF Terminate, TypeOK, Brokers
<1>3. ASSUME NEW t \in Threads, FeedLost(t) PROVE TypeOK'
  <2>1. faults' \in 0..MaxFaults
    BY <1>3, FaultType DEF FeedLost
  <2>2. at' \in [Threads -> Places] /\ \A u \in Starters : at'[u] = "waiting" => at[u] = "waiting"
    BY <1>0, <1>3 DEF FeedLost, Goto, Places, Inside, Threads
  <2> QED
    BY <1>3, <2>1, <2>2 DEF FeedLost, TypeOK
<1>4. CASE Boot
  <2>1. faults' \in 0..MaxFaults
    BY <1>4, FaultType DEF Boot, TypeOK
  <2>2. at' \in [Threads -> Places] /\ \A u \in Starters : at'[u] = "waiting" => at[u] = "waiting"
    BY <1>0, <1>4 DEF Boot, Goto, Places, Inside, Threads
  <2> QED
    BY <1>4, <2>1, <2>2 DEF Boot, TypeOK
<1>5. CASE Supervise
  <2>1. at' \in [Threads -> Places] /\ \A u \in Starters : at'[u] = "waiting" => at[u] = "waiting"
    BY <1>0, <1>5 DEF Supervise, Goto, Places, Inside, Threads
  <2>2. raced' \in BOOLEAN
    BY <1>5 DEF Supervise, Overlaps, TypeOK
  <2> QED
    BY <1>5, <2>1, <2>2 DEF Supervise, TypeOK
<1>6. CASE Exit
  <2>1. at' \in [Threads -> Places] /\ \A u \in Starters : at'[u] # "waiting"
    BY <1>6 DEF Exit, Places, Threads
  <2>2. brokers' \in Seq(Brokers) /\ Len(brokers') = Len(brokers)
    BY <1>0, <1>6, ExitEnds DEF Thinned
  <2> QED
    BY <1>6, <2>1, <2>2 DEF Exit, TypeOK, Brokers
<1>7. CASE Notify
  BY <1>7 DEF Notify, TypeOK
<1>8. CASE Change
  <2>1. at' \in [Threads -> Places] /\ \A u \in Starters : at'[u] = "waiting" => at[u] = "waiting"
    BY <1>0, <1>8 DEF Change, Goto, Places, Inside, Threads
  <2>2. raced' \in BOOLEAN
    BY <1>8 DEF Change, Overlaps, TypeOK
  <2>4. inbox \in Seq(0..MaxEdits) /\ inbox # <<>>
    BY <1>8 DEF Change, TypeOK
  <2>5. Head(inbox) \in 0..MaxEdits /\ Tail(inbox) \in Seq(0..MaxEdits)
    BY <2>4, HeadTailProperties
  <2>3. inbox' \in Seq(0..MaxEdits) /\ current' \in 0..MaxEdits
    BY <1>8, <2>5 DEF Change
  <2> QED
    BY <1>8, <2>1, <2>2, <2>3 DEF Change, TypeOK
<1>9. CASE Edit
  BY <1>9, Bounds DEF Edit, TypeOK
<1>12. CASE PressStop
  BY <1>12 DEF PressStop, TypeOK
<1>13. CASE Calm
  BY <1>13 DEF Calm, TypeOK
<1>10. ASSUME NEW b \in DOMAIN brokers, Quit(b) \/ Die(b) PROVE TypeOK'
  <2>1. brokers' \in Seq(Brokers) /\ Len(brokers') = Len(brokers)
    BY <1>0, <1>10, EndsOne DEF Thinned
  <2>2. exits' = exits \/ (exits < MaxExits /\ exits' = exits + 1)
    BY <1>10 DEF Quit, Die
  <2>3. exits' \in 0..MaxExits
    BY <2>2, Bounds DEF TypeOK
  <2>4. TypeOK /\ UNCHANGED <<runCommand, stocks, inbox, sent, current, proc, at, seen,
                              entered, latched, recent, up, raced, spawned, faults>>
    BY <1>10 DEF Quit, Die
  <2> QED
    BY <2>1, <2>3, <2>4 DEF TypeOK, Brokers
<1>11. CASE UNCHANGED vars
  BY <1>11 DEF vars, TypeOK
<1> QED
  BY <1>1, <1>2, <1>3, <1>4, <1>5, <1>6, <1>7, <1>8, <1>9, <1>10, <1>11,
     <1>12, <1>13,     StarterKeepsTypes DEF Next, HeldStop, FeedStop

\* The supervisor's state keeps its types, and a thread that waits for a broker
\* waits for one.
THEOREM TypeCorrect == Spec => []TypeOK
BY TypeInit, TypeStep, PTL DEF Spec

-----------------------------------------------------------------------------
(***************************************************************************)
(* The crash loop.  A start that was counted and has not made its broker     *)
(* yet is as good as a broker.                                              *)
(***************************************************************************)
Counted(t) == IF at[t] \in {"load", "spawn"} THEN 1 ELSE 0

LoopInv ==
    /\ spawned + Counted("main") + Counted("stocks") <= MaxRestarts
    /\ ~latched => /\ spawned + Counted("main") + Counted("stocks") <= recent
                   /\ recent <= MaxRestarts

LEMMA LoopInit == Init => LoopInv
<1> SUFFICES ASSUME Init PROVE LoopInv
  OBVIOUS
<1>1. at["main"] = "boot" /\ at["stocks"] = "off"
  BY DEF Init, Threads, Starters
<1> QED
  BY <1>1, Bounds DEF Init, LoopInv, Counted

\* A step that neither counts a start nor makes a broker.
LEMMA LoopKept ==
    ASSUME LoopInv, TypeOK, TypeOK',
           UNCHANGED <<spawned, recent, latched>>,
           \A t \in Starters : Counted(t)' <= Counted(t)
    PROVE  LoopInv'
<1>1. Counted("main")' <= Counted("main") /\ Counted("stocks")' <= Counted("stocks")
  BY DEF Starters
<1>2. /\ Counted("main") \in 0..1 /\ Counted("stocks") \in 0..1
      /\ Counted("main")' \in 0..1 /\ Counted("stocks")' \in 0..1
  BY DEF Counted
<1>3. spawned \in Nat /\ recent \in Nat /\ latched \in BOOLEAN
  BY DEF TypeOK
<1>4. spawned' = spawned /\ recent' = recent /\ latched' = latched
  OBVIOUS
<1> HIDE DEF Counted
<1> QED
  BY <1>1, <1>2, <1>3, <1>4, Bounds DEF LoopInv

\* What one thread does adds to the count only where it is counted.
LEMMA LoopOfOne ==
    ASSUME LoopInv, TypeOK, TypeOK', NEW t \in Starters,
           \A u \in Starters : u # t => Counted(u)' <= Counted(u),
           NEW d \in {0, 1}, NEW e \in {0, 1},
           spawned' = spawned + d, Counted(t)' + d <= Counted(t) + e,
           \/ e = 0 /\ UNCHANGED <<recent, latched>>
           \/ /\ e = 1 /\ ~latched /\ ~latched'
              /\ recent' = recent + 1 /\ recent' <= MaxRestarts
    PROVE  LoopInv'
<1>2. /\ Counted("main") \in 0..1 /\ Counted("stocks") \in 0..1
      /\ Counted("main")' \in 0..1 /\ Counted("stocks")' \in 0..1
  BY DEF Counted
<1>3. /\ spawned \in Nat /\ recent \in Nat
      /\ spawned' \in Nat /\ recent' \in Nat /\ MaxRestarts \in Nat
  BY Bounds DEF TypeOK
<1>1. \/ t = "main" /\ Counted("stocks")' <= Counted("stocks")
      \/ t = "stocks" /\ Counted("main")' <= Counted("main")
  BY DEF Starters
<1> DEFINE sum  == spawned + Counted("main") + Counted("stocks")
           sum1 == spawned' + Counted("main")' + Counted("stocks")'
<1>4. sum1 <= sum + e /\ sum \in Nat /\ sum1 \in Nat
  BY <1>1, <1>2, <1>3
<1>5. sum <= MaxRestarts /\ (~latched => sum <= recent /\ recent <= MaxRestarts)
  BY DEF LoopInv
<1> HIDE DEF sum, sum1
<1>6. CASE e = 0 /\ UNCHANGED <<recent, latched>>
  <2>1. sum1 <= MaxRestarts /\ (~latched' => sum1 <= recent' /\ recent' <= MaxRestarts)
    BY <1>3, <1>4, <1>5, <1>6
  <2> QED
    BY <2>1 DEF LoopInv, sum1
<1>7. CASE /\ e = 1 /\ ~latched /\ ~latched'
           /\ recent' = recent + 1 /\ recent' <= MaxRestarts
  <2>1. sum1 <= MaxRestarts /\ sum1 <= recent' /\ recent' <= MaxRestarts
    BY <1>3, <1>4, <1>5, <1>7
  <2> QED
    BY <2>1 DEF LoopInv, sum1
<1> QED
  BY <1>6, <1>7

LEMMA LoopStarter ==
    ASSUME TypeOK, TypeOK', LoopInv, NEW t \in Starters, StarterNext(t)
    PROVE  LoopInv'
<1>0. /\ at \in [Threads -> Places] /\ t \in Threads /\ Starters \subseteq Threads
      /\ spawned \in Nat
  BY DEF TypeOK, Threads
<1>1. \A u \in Starters : u # t => at'[u] \in {at[u], "idle", "loop"}
  BY <1>0, ReturnsTypes
     DEF StarterNext, Enter, Wait, Waited, Count, Load, Refuse, Spawn, Watchdog,
         Goto, Raises
<1>2. \A u \in Starters : u # t => Counted(u)' <= Counted(u)
  BY <1>1 DEF Counted
<1>3. CASE Enter(t) \/ Wait(t) \/ Waited(t) \/ Refuse(t) \/ Watchdog(t)
  <2>1. at'[t] \notin {"load", "spawn"}
    BY <1>0, <1>3, ReturnsTypes
       DEF Enter, Wait, Waited, Refuse, Watchdog, Goto, Raises
  <2>2. UNCHANGED <<spawned, recent, latched>>
    BY <1>3 DEF Enter, Wait, Waited, Refuse, Watchdog, crash
  <2>3. Counted(t)' <= Counted(t)
    BY <2>1 DEF Counted
  <2> QED
    BY <1>2, <2>2, <2>3, LoopKept
<1>4. CASE Load(t)
  <2>1. UNCHANGED <<spawned, recent, latched>> /\ at[t] = "load"
    BY <1>4 DEF Load, crash
  <2>3. Counted(t)' <= Counted(t)
    BY <2>1 DEF Counted
  <2> QED
    BY <1>2, <2>1, <2>3, LoopKept
<1>5. CASE Spawn(t)
  <2>1. /\ UNCHANGED <<recent, latched>> /\ spawned' = spawned + 1
        /\ at[t] = "spawn" /\ at'[t] = "watchdog"
    BY <1>0, <1>5 DEF Spawn, Goto, crash
  <2>2. Counted(t)' = 0 /\ Counted(t) = 1
    BY <2>1 DEF Counted
  <2> QED
    BY <1>2, <2>1, <2>2, LoopOfOne
<1>6. CASE Count(t)
  <2>1. at[t] = "count" /\ UNCHANGED spawned /\ spawned' = spawned + 0
    BY <1>0, <1>6 DEF Count
  <2>2. Counted(t) = 0 /\ Counted(t)' \in 0..1
    BY <2>1 DEF Counted
  <2>3. CASE latched
    <3>1. UNCHANGED <<spawned, recent, latched>> /\ Returns(t)
      BY <1>6, <2>3 DEF Count
    <3>2. at'[t] \notin {"load", "spawn"}
      BY <3>1, ReturnsTypes
    <3>3. Counted(t)' <= Counted(t)
      BY <3>2 DEF Counted
    <3> QED
      BY <1>2, <3>1, <3>3, LoopKept
  <2>4. CASE ~latched /\ recent' > MaxRestarts
    <3>1. latched' = TRUE /\ at'[t] = "crash"
      BY <1>0, <1>6, <2>4, Bounds DEF Count, Goto, TypeOK
    <3>2. Counted(t)' = 0 /\ \A u \in Starters : Counted(u)' <= Counted(u)
      BY <1>2, <2>2, <3>1 DEF Counted
    <3>3. /\ Counted("main")' <= Counted("main") /\ Counted("stocks")' <= Counted("stocks")
          /\ Counted("main") \in 0..1 /\ Counted("stocks") \in 0..1
          /\ Counted("main")' \in 0..1 /\ Counted("stocks")' \in 0..1
      BY <3>2 DEF Counted, Starters
    <3> QED
      BY <1>0, <2>1, <3>1, <3>3, Bounds DEF LoopInv
  <2>5. CASE ~latched /\ recent' <= MaxRestarts
    <3>1. ~latched' /\ recent' = recent + 1
      BY <1>6, <2>5, Bounds DEF Count, TypeOK
    <3>2. Counted(t)' + 0 <= Counted(t) + 1
      BY <2>2
    <3> QED
      BY <1>2, <2>1, <2>5, <3>1, <3>2, LoopOfOne
  <2>6. recent' > MaxRestarts \/ recent' <= MaxRestarts
    BY Bounds DEF TypeOK
  <2> QED
    BY <2>3, <2>4, <2>5, <2>6
<1> QED
  BY <1>3, <1>4, <1>5, <1>6 DEF StarterNext

LEMMA LoopStep == TypeOK /\ TypeOK' /\ LoopInv /\ [Next]_vars => LoopInv'
<1> SUFFICES ASSUME TypeOK, TypeOK', LoopInv, [Next]_vars PROVE LoopInv'
  OBVIOUS
<1>0. at \in [Threads -> Places] /\ Starters \subseteq Threads
  BY DEF TypeOK, Threads
<1> USE DEF row, feed, crash
<1>1. ASSUME NEW t \in Threads, Trip(t) \/ Terminate(t) \/ FeedLost(t) PROVE LoopInv'
  <2>1. UNCHANGED <<spawned, recent, latched>>
    BY <1>1 DEF Trip, Terminate, FeedLost
  <2>2. \A u \in Threads : at'[u] \in {at[u], "crash", "terminate", After(t)}
    BY <1>0, <1>1 DEF Trip, Terminate, FeedLost, Goto
  <2>3. After(t) \notin {"load", "spawn"}
    BY AfterIs DEF Threads, Starters
  <2>4. \A u \in Starters : Counted(u)' <= Counted(u)
    BY <1>0, <2>2, <2>3 DEF Counted
  <2> QED
    BY <2>1, <2>4, LoopKept
<1>2. CASE Boot \/ Supervise \/ Exit \/ Change
  <2>1. UNCHANGED <<spawned, recent, latched>>
    BY <1>2 DEF Boot, Supervise, Exit, Change
  <2>2. \A u \in Starters : at'[u] \in {at[u], "enter", "crash", "held", "gone"}
    BY <1>0, <1>2 DEF Boot, Supervise, Exit, Change, Goto, Starters, Threads
  <2>4. \A u \in Starters : Counted(u)' <= Counted(u)
    BY <2>2 DEF Counted
  <2> QED
    BY <2>1, <2>4, LoopKept
<1>3. CASE Notify \/ Edit \/ PressStop \/ \E b \in DOMAIN brokers : Quit(b) \/ Die(b)
  <2>1. UNCHANGED <<spawned, recent, latched, at>>
    BY <1>3 DEF Notify, Edit, PressStop, Quit, Die
  <2>4. \A u \in Starters : Counted(u)' <= Counted(u)
    BY <2>1 DEF Counted
  <2> QED
    BY <2>1, <2>4, LoopKept
<1>4. CASE Calm
  <2>1. spawned' = 0 /\ recent' = 0 /\ \A t \in Starters : at'[t] \notin Inside
    BY <1>4 DEF Calm
  <2>2. Counted("main")' = 0 /\ Counted("stocks")' = 0
    BY <2>1 DEF Counted, Inside, Starters
  <2> QED
    BY <2>1, <2>2, Bounds DEF LoopInv
<1>5. CASE UNCHANGED vars
  <2>1. UNCHANGED <<spawned, recent, latched, at>>
    BY <1>5 DEF vars
  <2>4. \A u \in Starters : Counted(u)' <= Counted(u)
    BY <2>1 DEF Counted
  <2> QED
    BY <2>1, <2>4, LoopKept
<1> QED
  BY <1>1, <1>2, <1>3, <1>4, <1>5, LoopStarter DEF Next, HeldStop, FeedStop

\* However the two threads that start brokers interleave, no more brokers than
\* CRASH_LOOP_MAX_RESTARTS are started in one window.
THEOREM CrashLoopHolds == Spec => []CrashLoopBounded
<1>1. TypeOK /\ LoopInv => CrashLoopBounded
  <2> SUFFICES ASSUME TypeOK, LoopInv PROVE spawned <= MaxRestarts
    BY DEF CrashLoopBounded
  <2>1. Counted("main") \in 0..1 /\ Counted("stocks") \in 0..1 /\ spawned \in Nat
    BY DEF Counted, TypeOK
  <2> QED
    BY <2>1, Bounds DEF LoopInv
<1> QED
  BY <1>1, TypeInit, TypeStep, LoopInit, LoopStep, PTL DEF Spec

-----------------------------------------------------------------------------
(***************************************************************************)
(* One broker.  A thread that has told the old broker to terminate finds    *)
(* nobody trading, up to the moment it makes the new one.                   *)
(***************************************************************************)
Cleared == {"wait", "waiting", "count", "load", "spawn"}

\* While no start has overlapped another, or a crash.
Apart ==
    /\ ~(at["main"] \in Inside /\ at["stocks"] \in Inside)
    /\ \A b \in DOMAIN brokers : brokers[b].state = "alive" => b = proc
    /\ \A t \in Starters : at[t] \in Cleared =>
          \A b \in DOMAIN brokers : brokers[b].state # "alive"

\* The second thread is started after main's first start.
OneInv ==
    /\ at["main"] = "boot" => at["stocks"] = "off"
    /\ ~raced => Apart

\* After a crash the winner of the flag has yet to terminate the broker, or it
\* no longer trades.
Halted ==
    /\ \A t \in Starters : at[t] \notin Inside \ {"enter"}
    /\ \/ \E t \in Threads : at[t] = "terminate"
       \/ \A b \in DOMAIN brokers : brokers[b].state # "alive"

HeldInv ==
    /\ \A t \in Threads : at[t] \in {"terminate", "held"} => entered
    /\ ~raced /\ entered => Halted

LEMMA OneInit == Init => OneInv /\ HeldInv
<1> SUFFICES ASSUME Init PROVE OneInv /\ HeldInv
  OBVIOUS
<1>1. /\ at["main"] = "boot" /\ at["stocks"] = "off" /\ DOMAIN brokers = {}
      /\ ~entered /\ \A t \in Threads : at[t] \notin {"terminate", "held"}
  BY DEF Init, Threads, Starters
<1> QED
  BY <1>1 DEF OneInv, Apart, HeldInv, Inside, Cleared, Starters

Silent == \A b \in DOMAIN brokers : brokers[b].state # "alive"

\* A step of a thread that was inside start_broker, seen from the other one.
LEMMA OtherStands ==
    ASSUME TypeOK, OneInv, Apart, NEW t \in Starters, at[t] \in Inside,
           StarterNext(t), NEW u \in Starters \ {t}
    PROVE  /\ at[u] \notin Inside /\ at'[u] \notin Inside
           /\ at'[u] \in {at[u], "idle", "loop"}
<1>0. at \in [Threads -> Places] /\ Starters \subseteq Threads
  BY DEF TypeOK, Threads
<1>1. at[u] \notin Inside
  BY DEF Apart, Starters
<1>2. at'[u] \in {at[u], "idle", "loop"}
  BY <1>0, ReturnsTypes
     DEF StarterNext, Enter, Wait, Waited, Count, Load, Refuse, Spawn, Watchdog,
         Goto, Raises
<1> QED
  BY <1>1, <1>2 DEF Inside

LEMMA StarterInside ==
    ASSUME NEW t \in Starters, StarterNext(t)
    PROVE  at[t] \in Inside
BY DEF StarterNext, Enter, Wait, Waited, Count, Load, Refuse, Spawn, Watchdog, Inside

\* What a step of start_broker does to the brokers.
LEMMA StarterBrokers ==
    ASSUME TypeOK, Apart, NEW t \in Starters, StarterNext(t)
    PROVE  /\ \A b \in DOMAIN brokers' : brokers'[b].state = "alive" => b = proc'
           /\ at'[t] \in Cleared => Silent'
<1>0. /\ at \in [Threads -> Places] /\ t \in Threads
      /\ brokers \in Seq(Brokers) /\ Len(brokers) \in Nat
      /\ proc \in 0..Len(brokers) /\ DOMAIN brokers = 1..Len(brokers)
  BY DEF TypeOK, Brokers, Threads
<1>1. /\ \A b \in DOMAIN brokers : brokers[b].state = "alive" => b = proc
      /\ at[t] \in Cleared => Silent
  BY DEF Apart, Silent
<1> USE DEF row, feed, crash
<1>2. CASE Enter(t)
  <2>1. CASE entered /\ Returns(t) /\ UNCHANGED <<brokers, proc>>
    <3>1. at'[t] \notin Cleared
      BY <2>1, ReturnsTypes DEF Cleared
    <3> QED
      BY <1>1, <2>1, <3>1
  <2>2. CASE /\ proc # 0 /\ brokers' = Terminated(proc) /\ UNCHANGED proc
    <3>1. Thinned /\ \A b \in DOMAIN brokers : brokers'[b].state = "alive" => b # proc
      BY <2>2, TerminateThins
    <3>2. Silent'
      BY <1>1, <3>1 DEF Thinned, Silent
    <3> QED
      BY <3>2 DEF Silent
  <2>3. CASE ~(proc # 0 /\ Running(proc)) /\ UNCHANGED <<brokers, proc>>
    <3>1. Silent
      BY <1>0, <1>1, <2>3 DEF Running, Poll, Silent
    <3> QED
      BY <1>1, <2>3, <3>1 DEF Silent
  <2> QED
    BY <1>2, <2>1, <2>2, <2>3 DEF Enter
<1>3. CASE Wait(t) \/ Waited(t) \/ Count(t) \/ Load(t) \/ Refuse(t)
  <2>1. UNCHANGED brokers /\ at[t] \in Cleared /\ (proc' = proc \/ proc' = 0)
    BY <1>3 DEF Wait, Waited, Count, Load, Refuse, Cleared
  <2> QED
    BY <1>1, <2>1 DEF Silent
<1>4. CASE Spawn(t)
  <2>1. /\ Silent /\ proc' = Len(brokers) + 1 /\ at'[t] = "watchdog"
        /\ brokers' = Append(brokers, [state |-> "alive", stocks |-> current])
    BY <1>0, <1>1, <1>4 DEF Spawn, Goto, Cleared
  <2>2. /\ DOMAIN brokers' = 1..(Len(brokers) + 1)
        /\ \A b \in DOMAIN brokers : brokers'[b] = brokers[b]
    BY <1>0, <2>1
  <2>3. ASSUME NEW b \in DOMAIN brokers', b # proc' PROVE brokers'[b].state # "alive"
    <3>1. b \in DOMAIN brokers
      BY <1>0, <2>1, <2>2, <2>3
    <3> QED
      BY <2>1, <2>2, <3>1 DEF Silent
  <2> QED
    BY <2>1, <2>3 DEF Cleared
<1>5. CASE Watchdog(t)
  <2>0. at'[t] \notin Cleared
    BY <1>0, <1>5, ReturnsTypes DEF Watchdog, Raises, Goto, Cleared
  <2>1. CASE UNCHANGED <<brokers, proc>>
    BY <1>1, <2>0, <2>1
  <2>2. CASE brokers' = Terminated(proc) /\ proc' = 0
    <3>1. Thinned /\ \A b \in DOMAIN brokers : brokers'[b].state = "alive" => b # proc
      BY <2>2, TerminateThins
    <3> QED
      BY <1>1, <2>0, <3>1 DEF Thinned
  <2> QED
    BY <1>5, <2>1, <2>2 DEF Watchdog
<1> QED
  BY <1>2, <1>3, <1>4, <1>5 DEF StarterNext

LEMMA OneStarter ==
    ASSUME TypeOK, TypeOK', OneInv, NEW t \in Starters, StarterNext(t)
    PROVE  OneInv'
<1>0. at \in [Threads -> Places] /\ Starters \subseteq Threads /\ at[t] \in Inside
  BY StarterInside DEF TypeOK, Threads
<1>1. at'["main"] # "boot"
  <2>1. t = "main" \/ t = "stocks"
    BY DEF Starters
  <2>2. at["main"] # "boot"
    BY <1>0, <2>1 DEF OneInv, Inside
  <2> QED
    <3>1. CASE t = "main"
      BY <1>0, <3>1, ReturnsTypes
         DEF StarterNext, Enter, Wait, Waited, Count, Load, Refuse, Spawn, Watchdog,
             Goto, Raises, Threads
    <3>2. CASE t = "stocks"
      BY <1>0, <2>2, <3>2, ReturnsTypes
         DEF StarterNext, Enter, Wait, Waited, Count, Load, Refuse, Spawn, Watchdog,
             Goto, Raises, Threads, Starters
    <3> QED
      BY <2>1, <3>1, <3>2
<1>2. UNCHANGED raced
  BY DEF StarterNext, Enter, Wait, Waited, Count, Load, Refuse, Spawn, Watchdog
<1>3. ASSUME Apart PROVE Apart'
  <2>1. \A u \in Starters \ {t} : at'[u] \notin Inside
    BY <1>0, <1>3, OtherStands
  <2>2. ~(at'["main"] \in Inside /\ at'["stocks"] \in Inside)
    BY <2>1 DEF Starters
  <2>3. \A u \in Starters : at'[u] \in Cleared => u = t
    BY <2>1 DEF Cleared, Inside
  <2> QED
    BY <1>3, <2>2, <2>3, StarterBrokers DEF Apart, Silent
<1> QED
  BY <1>1, <1>2, <1>3 DEF OneInv

\* Steps that start no broker and clear nobody.
LEMMA ApartKept ==
    ASSUME Apart, Thinned, UNCHANGED proc,
           ~(at'["main"] \in Inside /\ at'["stocks"] \in Inside),
           \A t \in Starters : at'[t] \in Cleared => at[t] \in Cleared
    PROVE  Apart'
BY DEF Apart, Thinned

LEMMA OneStep == TypeOK /\ TypeOK' /\ OneInv /\ [Next]_vars => OneInv'
<1> SUFFICES ASSUME TypeOK, TypeOK', OneInv, [Next]_vars PROVE OneInv'
  OBVIOUS
<1>0. /\ at \in [Threads -> Places] /\ Starters \subseteq Threads
      /\ brokers \in Seq(Brokers) /\ raced \in BOOLEAN
      /\ "main" \in Threads /\ "stocks" \in Threads
  BY DEF TypeOK, Brokers, Threads, Starters
<1> USE DEF row, feed, crash
<1>1. UNCHANGED brokers => Thinned
  BY <1>0 DEF Thinned
<1>2. ASSUME NEW t \in Threads, Trip(t) \/ Terminate(t) \/ FeedLost(t) PROVE OneInv'
  <2>1. /\ UNCHANGED proc /\ Thinned /\ (~raced' => ~raced)
    BY <1>0, <1>1, <1>2, TerminateThins DEF Trip, Terminate, FeedLost
  <2>2. /\ After(t) \notin Inside /\ After(t) # "boot"
    BY AfterIs DEF Threads, Starters, Inside
  <2>3. \A u \in Threads : at'[u] \in {at[u], "crash", "terminate", After(t)}
    BY <1>0, <1>2 DEF Trip, Terminate, FeedLost, Goto
  <2>4. at[t] # "off" /\ \A u \in Threads : u # t => at'[u] = at[u]
    BY <1>0, <1>2 DEF Trip, Terminate, FeedLost, Goto
  <2>5. \A u \in Threads : at'[u] \in Inside => at'[u] = at[u]
    BY <2>2, <2>3 DEF Inside
  <2>6. at'["main"] = "boot" => at["main"] = "boot" /\ at'["stocks"] = "off"
    BY <1>0, <2>2, <2>3, <2>4 DEF OneInv
  <2>7. \A u \in Starters : at'[u] \in Cleared => at[u] \in Cleared
    BY <1>0, <2>5 DEF Cleared, Inside
  <2>8. Apart => Apart'
    BY <1>0, <2>1, <2>5, <2>7, ApartKept DEF Apart
  <2> QED
    BY <2>1, <2>6, <2>8 DEF OneInv
<1>3. CASE Boot
  <2>1. at["stocks"] = "off" /\ at'["stocks"] = "off" /\ at'["main"] \in {"enter", "crash"}
    BY <1>0, <1>3 DEF Boot, OneInv, Goto
  <2>2. UNCHANGED <<proc, brokers, raced>>
    BY <1>3 DEF Boot
  <2>3. Apart => Apart'
    BY <1>1, <2>1, <2>2, ApartKept DEF Inside, Cleared, Starters
  <2> QED
    BY <2>1, <2>2, <2>3 DEF OneInv
<1>4. CASE Supervise
  <2>1. /\ UNCHANGED <<proc, brokers>> /\ at'["stocks"] = at["stocks"]
        /\ at'["main"] \in {"enter", "held"}
    BY <1>0, <1>4 DEF Supervise, Goto
  <2>2. ASSUME ~raced'
        PROVE  ~raced /\ ~(at'["main"] \in Inside /\ at'["stocks"] \in Inside)
    BY <1>0, <1>4, <2>1, <2>2 DEF Supervise, Overlaps, Goto, Inside, Starters
  <2>3. ASSUME ~raced' PROVE Apart'
    BY <1>1, <2>1, <2>2, <2>3, ApartKept DEF Cleared, Starters, OneInv
  <2> QED
    BY <2>1, <2>3 DEF OneInv
<1>5. CASE Exit
  <2>1. \A t \in Threads : at'[t] = "gone"
    BY <1>5 DEF Exit
  <2>2. UNCHANGED <<proc, raced>> /\ Thinned
    BY <1>0, <1>5, ExitEnds DEF Exit
  <2>3. Apart => Apart'
    BY <1>0, <2>1, <2>2, ApartKept DEF Inside, Cleared
  <2> QED
    BY <1>0, <2>1, <2>2, <2>3 DEF OneInv
<1>6. CASE Change
  <2>1. /\ UNCHANGED <<proc, brokers>> /\ at'["main"] = at["main"]
        /\ at["stocks"] = "idle" /\ at'["stocks"] \in {"enter", "idle"}
    BY <1>0, <1>6 DEF Change, Goto
  <2>2. ASSUME ~raced'
        PROVE  ~raced /\ ~(at'["main"] \in Inside /\ at'["stocks"] \in Inside)
    <3>1. CASE UNCHANGED <<at, raced>>
      BY <2>1, <2>2, <3>1 DEF Inside
    <3>2. CASE Overlaps("stocks")
      <4>1. ~raced /\ \A u \in Starters \ {"stocks"} : at[u] \notin Inside
        BY <1>0, <2>2, <3>2 DEF Overlaps
      <4> QED
        BY <2>1, <4>1 DEF Starters
    <3> QED
      BY <1>6, <3>1, <3>2 DEF Change
  <2>3. ASSUME ~raced' PROVE Apart'
    BY <1>1, <2>1, <2>2, <2>3, ApartKept DEF Cleared, Starters, OneInv
  <2> QED
    BY <2>1, <2>3 DEF OneInv
<1>7. CASE Notify \/ Edit \/ PressStop \/ Calm \/ UNCHANGED vars
  BY <1>7 DEF Notify, Edit, PressStop, Calm, vars, OneInv, Apart
<1>8. ASSUME NEW b \in DOMAIN brokers, Quit(b) \/ Die(b) PROVE OneInv'
  <2>1. UNCHANGED <<at, proc, raced>>
    BY <1>8 DEF Quit, Die
  <2>2. Apart => Apart'
    BY <1>0, <1>8, <2>1, EndsOne, ApartKept DEF Apart
  <2> QED
    BY <2>1, <2>2 DEF OneInv
<1> QED
  BY <1>2, <1>3, <1>4, <1>5, <1>6, <1>7, <1>8, OneStarter DEF Next, HeldStop, FeedStop

\* Until two starts have overlapped, or a crash a start, at most one broker
\* trades.
THEOREM OneBroker == Spec => []OneBrokerUnlessRaced
<1>1. TypeOK /\ OneInv => OneBrokerUnlessRaced
  <2> SUFFICES ASSUME TypeOK, OneInv, ~raced PROVE Cardinality(Alive) <= 1
    BY DEF OneBrokerUnlessRaced
  <2>1. Alive \subseteq {proc}
    BY DEF OneInv, Apart, Alive, Poll
  <2>2. Alive = {} \/ Alive = {proc}
    BY <2>1
  <2> QED
    BY <2>2, FS_EmptySet, FS_Singleton
<1> QED
  BY <1>1, TypeInit, TypeStep, OneInit, OneStep, PTL DEF Spec

-----------------------------------------------------------------------------
(***************************************************************************)
(* The crash that is held open.                                             *)
(***************************************************************************)
LEMMA HeldStarter ==
    ASSUME TypeOK, OneInv, HeldInv, NEW t \in Starters, StarterNext(t)
    PROVE  HeldInv'
<1>0. at \in [Threads -> Places] /\ Starters \subseteq Threads /\ at[t] \in Inside
  BY StarterInside DEF TypeOK, Threads
<1>1. UNCHANGED <<raced, entered>>
  BY DEF StarterNext, Enter, Wait, Waited, Count, Load, Refuse, Spawn, Watchdog, crash
<1>2. \A u \in Threads : at'[u] \in {"terminate", "held"} => at'[u] = at[u]
  BY <1>0, ReturnsTypes
     DEF StarterNext, Enter, Wait, Waited, Count, Load, Refuse, Spawn, Watchdog,
         Goto, Raises, Threads, Starters
<1>3. ASSUME ~raced, entered, Halted PROVE Halted'
  <2>1. Enter(t) /\ Returns(t) /\ UNCHANGED brokers
    BY <1>0, <1>3 DEF Halted, StarterNext, Enter, Wait, Waited, Count, Load, Refuse, Spawn,
       Watchdog, Inside
  <2>2. \A u \in Starters : at'[u] \notin Inside \ {"enter"}
    BY <1>0, <1>3, <2>1, ReturnsTypes DEF Halted, Inside
  <2>3. \A u \in Threads : at[u] = "terminate" => at'[u] = "terminate"
    BY <1>0, <2>1, ReturnsTypes DEF Inside
  <2> QED
    BY <1>3, <2>1, <2>2, <2>3 DEF Halted
<1> QED
  BY <1>1, <1>2, <1>3 DEF HeldInv

LEMMA HeldStep == TypeOK /\ TypeOK' /\ OneInv /\ HeldInv /\ [Next]_vars => HeldInv'
<1> SUFFICES ASSUME TypeOK, TypeOK', OneInv, HeldInv, [Next]_vars PROVE HeldInv'
  OBVIOUS
<1>0. /\ at \in [Threads -> Places] /\ Starters \subseteq Threads
      /\ brokers \in Seq(Brokers) /\ raced \in BOOLEAN /\ entered \in BOOLEAN
      /\ "main" \in Threads /\ "stocks" \in Threads
  BY DEF TypeOK, Brokers, Threads, Starters
<1> USE DEF row, feed, crash
<1>1. ASSUME NEW t \in Threads, Trip(t) PROVE HeldInv'
  <2>1. /\ entered' = TRUE /\ UNCHANGED brokers /\ at[t] = "crash"
        /\ raced' = (raced \/ (~entered /\ \E u \in Starters : at[u] \in Inside))
        /\ at'[t] = IF entered THEN After(t) ELSE "terminate"
        /\ \A u \in Threads : u # t => at'[u] = at[u]
    BY <1>0, <1>1 DEF Trip, Goto
  <2>2. After(t) \notin Inside
    BY AfterIs DEF Threads, Starters, Inside
  <2>3. at'[t] \notin Inside
    BY <2>1, <2>2 DEF Inside
  <2>4. ASSUME ~raced' PROVE Halted'
    <3>1. \A u \in Starters : at'[u] \notin Inside \ {"enter"}
      BY <1>0, <2>1, <2>3, <2>4 DEF HeldInv, Halted
    <3>2. CASE entered
      BY <1>0, <2>1, <2>4, <3>1, <3>2 DEF HeldInv, Halted
    <3>3. CASE ~entered
      BY <2>1, <3>1, <3>3 DEF Halted
    <3> QED
      BY <3>2, <3>3
  <2> QED
    BY <2>1, <2>4 DEF HeldInv
<1>2. ASSUME NEW t \in Threads, Terminate(t) PROVE HeldInv'
  <2>1. /\ UNCHANGED <<raced, entered>> /\ brokers' = Terminated(proc)
        /\ at'[t] = After(t) /\ \A u \in Threads : u # t => at'[u] = at[u]
    BY <1>0, <1>2 DEF Terminate, Goto
  <2>2. After(t) \notin Inside
    BY AfterIs DEF Threads, Starters, Inside
  <2>5. entered
    BY <1>2 DEF HeldInv, Terminate
  <2>3. ASSUME ~raced, entered PROVE Halted'
    <3>1. Thinned /\ \A b \in DOMAIN brokers : brokers'[b].state = "alive" => b # proc
      BY <2>1, TerminateThins
    <3>2. \A b \in DOMAIN brokers' : brokers'[b].state # "alive"
      BY <2>3, <3>1 DEF Thinned, OneInv, Apart
    <3>3. \A u \in Starters : at'[u] \notin Inside \ {"enter"}
      BY <1>0, <2>1, <2>2, <2>3 DEF HeldInv, Halted
    <3> QED
      BY <3>2, <3>3 DEF Halted
  <2> QED
    BY <2>1, <2>3, <2>5 DEF HeldInv
<1>3. ASSUME NEW t \in Threads, FeedLost(t) PROVE HeldInv'
  <2>1. /\ UNCHANGED <<raced, entered, brokers>> /\ at[t] = "idle" /\ at'[t] = "crash"
        /\ \A u \in Threads : u # t => at'[u] = at[u]
    BY <1>0, <1>3 DEF FeedLost, Goto
  <2>2. Halted => Halted'
    BY <1>0, <2>1 DEF Halted, Inside
  <2> QED
    BY <1>0, <2>1, <2>2 DEF HeldInv
<1>4. CASE Boot
  <2>1. /\ UNCHANGED <<raced, entered, brokers>> /\ at["main"] = "boot"
        /\ at'["main"] \in {"enter", "crash"}
        /\ \A u \in Threads : u # "main" => at'[u] = at[u]
    BY <1>0, <1>4 DEF Boot, Goto
  <2>2. Halted => Halted'
    BY <1>0, <2>1 DEF Halted, Inside
  <2> QED
    BY <2>1, <2>2 DEF HeldInv
<1>5. CASE Supervise
  <2>1. /\ UNCHANGED <<entered, brokers>> /\ (~raced' => ~raced)
        /\ at["main"] = "loop" /\ (at'["main"] = "held" => entered)
        /\ at'["main"] \in {"enter", "held"}
        /\ \A u \in Threads : u # "main" => at'[u] = at[u]
    BY <1>0, <1>5 DEF Supervise, Goto, Overlaps
  <2>2. Halted => Halted'
    BY <1>0, <2>1 DEF Halted, Inside
  <2> QED
    BY <2>1, <2>2 DEF HeldInv
<1>6. CASE Exit
  <2>1. \A t \in Threads : at'[t] = "gone"
    BY <1>6 DEF Exit
  <2>2. \A b \in DOMAIN brokers' : brokers'[b].state # "alive"
    BY <1>0, <1>6, ExitEnds DEF Thinned
  <2>3. Halted'
    BY <1>0, <2>1, <2>2 DEF Halted, Inside
  <2> QED
    BY <1>0, <2>1, <2>3 DEF HeldInv
<1>7. CASE Change
  <2>1. /\ UNCHANGED <<entered, brokers>> /\ (~raced' => ~raced)
        /\ at["stocks"] = "idle" /\ at'["stocks"] \in {"enter", "idle"}
        /\ \A u \in Threads : u # "stocks" => at'[u] = at[u]
    BY <1>0, <1>7 DEF Change, Goto, Overlaps
  <2>2. Halted => Halted'
    BY <1>0, <2>1 DEF Halted, Inside
  <2> QED
    BY <1>0, <2>1, <2>2 DEF HeldInv
<1>8. CASE Notify \/ Edit \/ PressStop \/ Calm \/ UNCHANGED vars
  BY <1>8 DEF Notify, Edit, PressStop, Calm, vars, HeldInv, Halted
<1>9. ASSUME NEW b \in DOMAIN brokers, Quit(b) \/ Die(b) PROVE HeldInv'
  <2>1. UNCHANGED <<at, raced, entered>>
    BY <1>9 DEF Quit, Die
  <2>2. Thinned
    BY <1>0, <1>9, EndsOne
  <2>3. Halted => Halted'
    BY <2>1, <2>2 DEF Halted, Thinned
  <2> QED
    BY <2>1, <2>3 DEF HeldInv
<1> QED
  BY <1>1, <1>2, <1>3, <1>4, <1>5, <1>6, <1>7, <1>8, <1>9, HeldStarter
     DEF Next, HeldStop, FeedStop

\* A container held open after a crash does not trade, until a start has
\* overlapped another or the crash.
THEOREM CrashHalts == Spec => []HeldIsHalted
<1>1. TypeOK /\ HeldInv => HeldIsHalted
  <2> SUFFICES ASSUME HeldInv, at["main"] = "held", ~raced,
                      \A t \in Threads : at[t] # "terminate"
               PROVE  Alive = {}
    BY DEF HeldIsHalted
  <2>1. "main" \in Threads
    BY DEF Threads, Starters
  <2>2. Halted
    BY <2>1 DEF HeldInv
  <2> QED
    BY <2>2 DEF Halted, Alive, Poll
<1> QED
  BY <1>1, TypeInit, TypeStep, OneInit, OneStep, HeldStep, PTL DEF Spec

-----------------------------------------------------------------------------
(***************************************************************************)
(* The brokers take turns.                                                  *)
(***************************************************************************)
\* Nothing goes on in a process that has ended.
UpInv == up \/ \A t \in Threads : at[t] = "gone"

LEMMA UpStep == TypeOK /\ UpInv /\ [Next]_vars => UpInv'
<1> SUFFICES ASSUME TypeOK, UpInv, [Next]_vars PROVE UpInv'
  OBVIOUS
<1>0. Starters \subseteq Threads /\ {"main", "stocks", "stop"} \subseteq Threads
  BY DEF Threads, Starters
<1>1. CASE up
  <2>1. Exit \/ UNCHANGED up
    BY DEF Next, StarterNext, Enter, Wait, Waited, Count, Load, Refuse, Spawn, Watchdog,
       Trip, Terminate, FeedLost, Boot, Supervise, HeldStop, FeedStop, Notify, Change,
       Edit, PressStop, Calm, Quit, Die, vars
  <2>2. Exit => UpInv'
    BY DEF Exit, UpInv
  <2> QED
    BY <1>1, <2>1, <2>2 DEF UpInv
<1>2. CASE \A t \in Threads : at[t] = "gone"
  <2>1. \A t \in Starters : ~StarterNext(t)
    BY <1>0, <1>2, StarterInside DEF Inside
  <2>2. \A t \in Threads : ~Trip(t) /\ ~Terminate(t) /\ ~FeedLost(t)
    BY <1>2 DEF Trip, Terminate, FeedLost
  <2>3. ~Boot /\ ~Supervise /\ ~HeldStop /\ ~FeedStop /\ ~Notify /\ ~Change
    BY <1>0, <1>2 DEF Boot, Supervise, HeldStop, FeedStop, Notify, Change
  <2>4. UNCHANGED at
    BY <2>1, <2>2, <2>3 DEF Next, Edit, PressStop, Calm, Quit, Die, vars
  <2> QED
    BY <1>2, <2>4 DEF UpInv
<1> QED
  BY <1>1, <1>2 DEF UpInv

LEMMA CrashKept ==
    ASSUME UNCHANGED entered,
           \A t \in Threads : at'[t] = "terminate" <=> at[t] = "terminate"
    PROVE  Crash' = Crash
BY DEF Crash

\* Nobody starts, and somebody may leave.
LEMMA LeavesOrStays ==
    ASSUME TypeOK, Thinned, Crash' = Crash, UNCHANGED <<spawned, up, raced>>
    PROVE  Turns!Leave
<1>1. Len(brokers') = Len(brokers) /\ Alive' \in SUBSET Alive
  BY DEF Thinned, Alive, Poll
<1> QED
  BY <1>1 DEF Turns!Leave

\* A start is found to overlap, or not.
LEMMA RacesOrStays ==
    ASSUME UNCHANGED brokers, Crash' = Crash, UNCHANGED <<spawned, up>>,
           raced' = raced \/ raced' = TRUE
    PROVE  [Turns!Next]_(Turns!turns)
<1>1. Len(brokers') = Len(brokers) /\ Alive' = Alive
  BY DEF Alive, Poll
<1>2. CASE raced' = raced
  BY <1>1, <1>2 DEF Turns!turns
<1>3. CASE raced' = TRUE
  BY <1>1, <1>3 DEF Turns!Race, Turns!Next
<1> QED
  BY <1>2, <1>3

Kept == TypeOK /\ LoopInv /\ OneInv /\ HeldInv /\ UpInv

LEMMA SpawnStarts ==
    ASSUME Kept, NEW t \in Starters, Spawn(t)
    PROVE  Turns!Start
<1>0. /\ at \in [Threads -> Places] /\ t \in Threads /\ Starters \subseteq Threads
      /\ brokers \in Seq(Brokers) /\ Len(brokers) \in Nat /\ spawned \in Nat
      /\ DOMAIN brokers = 1..Len(brokers) /\ at[t] = "spawn"
  BY DEF Kept, TypeOK, Brokers, Threads, Spawn
<1>1. up
  BY <1>0 DEF Kept, UpInv
<1>2. spawned < MaxRestarts
  <2>1. Counted("main") \in 0..1 /\ Counted("stocks") \in 0..1 /\ Counted(t) = 1
    BY <1>0 DEF Counted
  <2>2. spawned + Counted("main") + Counted("stocks") <= MaxRestarts
    BY DEF Kept, LoopInv
  <2>3. t = "main" \/ t = "stocks"
    BY DEF Starters
  <2> QED
    BY <1>0, <2>1, <2>2, <2>3, Bounds
<1>3. ASSUME ~raced PROVE Alive = {} /\ Crash = "no"
  <2>1. Alive = {}
    BY <1>0, <1>3 DEF Kept, OneInv, Apart, Cleared, Alive, Poll
  <2>2. ~entered
    BY <1>0, <1>3 DEF Kept, HeldInv, Halted, Inside
  <2> QED
    BY <2>1, <2>2 DEF Crash
<1>4. /\ Len(brokers') = Len(brokers) + 1 /\ spawned' = spawned + 1
      /\ UNCHANGED <<entered, raced, up>>
      /\ \A u \in Threads : at'[u] = IF u = t THEN "watchdog" ELSE at[u]
  BY <1>0 DEF Spawn, Goto, crash
<1>5. Crash' = Crash
  BY <1>0, <1>4, CrashKept
<1>6. Alive' = Alive \cup {Len(brokers) + 1}
  <2> DEFINE new == [state |-> "alive", stocks |-> current]
  <2>1. brokers' = Append(brokers, new) /\ new.state = "alive"
    BY DEF Spawn
  <2> HIDE DEF new
  <2>2. /\ DOMAIN brokers' = 1..(Len(brokers) + 1)
        /\ brokers'[Len(brokers) + 1] = new
        /\ \A b \in DOMAIN brokers : brokers'[b] = brokers[b]
    BY <1>0, <2>1
  <2> QED
    BY <1>0, <2>1, <2>2 DEF Alive, Poll
<1> QED
  BY <1>1, <1>2, <1>3, <1>4, <1>5, <1>6 DEF Turns!Start

LEMMA StarterTurns ==
    ASSUME Kept, NEW t \in Starters, StarterNext(t)
    PROVE  Turns!Next
<1>0. /\ at \in [Threads -> Places] /\ Starters \subseteq Threads /\ at[t] \in Inside
      /\ TypeOK /\ brokers \in Seq(Brokers)
  BY StarterInside DEF Kept, TypeOK, Threads, Brokers
<1>1. CASE Spawn(t)
  BY <1>1, SpawnStarts DEF Turns!Next
<1>2. CASE ~Spawn(t)
  <2>1. UNCHANGED <<entered, spawned, up, raced>>
    BY <1>2 DEF StarterNext, Enter, Wait, Waited, Count, Load, Refuse, Watchdog, crash
  <2>2. \A u \in Threads : at'[u] = "terminate" <=> at[u] = "terminate"
    BY <1>0, <1>2, ReturnsTypes
       DEF StarterNext, Enter, Wait, Waited, Count, Load, Refuse, Watchdog,
           Goto, Raises, Threads, Starters, Inside
  <2>3. Crash' = Crash
    BY <2>1, <2>2, CrashKept
  <2>4. UNCHANGED brokers \/ brokers' = Terminated(proc)
    BY <1>2 DEF StarterNext, Enter, Wait, Waited, Count, Load, Refuse, Watchdog
  <2>5. Thinned
    BY <1>0, <2>4, TerminateThins DEF Thinned
  <2> QED
    BY <1>0, <2>1, <2>3, <2>5, LeavesOrStays DEF Turns!Next
<1> QED
  BY <1>1, <1>2

\* trip_crash.
LEMMA TripTurns ==
    ASSUME Kept, NEW t \in Threads, Trip(t)
    PROVE  [Turns!Next]_(Turns!turns)
<1>0. /\ at \in [Threads -> Places] /\ entered \in BOOLEAN /\ raced \in BOOLEAN
  BY DEF Kept, TypeOK
<1>1. /\ entered' = TRUE /\ UNCHANGED <<brokers, spawned, up>> /\ at[t] = "crash"
      /\ at'[t] = IF entered THEN After(t) ELSE "terminate"
      /\ \A u \in Threads : u # t => at'[u] = at[u]
  BY <1>0 DEF Trip, Goto
<1>2. raced' = raced \/ raced' = TRUE
  BY <1>0 DEF Trip
<1>3. CASE entered
  <2>1. After(t) # "terminate"
    BY AfterIs DEF Threads, Starters
  <2>2. Crash' = Crash
    BY <1>0, <1>1, <1>3, <2>1, CrashKept
  <2> QED
    BY <1>1, <1>2, <2>2, RacesOrStays
<1>4. CASE ~entered
  <2>1. Crash = "no" /\ Crash' = "tripped"
    BY <1>1, <1>4 DEF Crash
  <2>2. Len(brokers') = Len(brokers) /\ Alive' = Alive
    BY <1>1 DEF Alive, Poll
  <2>3. Turns!Trip
    BY <1>1, <1>2, <2>1, <2>2 DEF Turns!Trip
  <2> QED
    BY <2>3 DEF Turns!Next
<1> QED
  BY <1>3, <1>4

LEMMA TerminateTurns ==
    ASSUME Kept, NEW t \in Threads, Terminate(t)
    PROVE  Turns!Next
<1>0. /\ at \in [Threads -> Places] /\ raced \in BOOLEAN /\ TypeOK
  BY DEF Kept, TypeOK
<1>1. /\ UNCHANGED <<raced, entered, spawned, up>> /\ brokers' = Terminated(proc)
      /\ at[t] = "terminate" /\ at'[t] = After(t)
      /\ \A u \in Threads : u # t => at'[u] = at[u]
  BY <1>0 DEF Terminate, Goto, crash
<1>2. After(t) # "terminate"
  BY AfterIs DEF Threads, Starters
<1>3. Thinned /\ \A b \in DOMAIN brokers : brokers'[b].state = "alive" => b # proc
  BY <1>0, <1>1, TerminateThins
<1>4. entered /\ Crash = "tripped"
  BY <1>1 DEF Kept, HeldInv, Crash
<1>5. CASE \E u \in Threads : at'[u] = "terminate"
  <2>1. Crash' = Crash
    BY <1>1, <1>4, <1>5 DEF Crash
  <2> QED
    BY <1>0, <1>1, <1>3, <2>1, LeavesOrStays DEF Turns!Next
<1>6. CASE \A u \in Threads : at'[u] # "terminate"
  <2>1. Crash' = "halted"
    BY <1>1, <1>4, <1>6 DEF Crash
  <2>2. Len(brokers') = Len(brokers) /\ Alive' \in SUBSET Alive
    BY <1>3 DEF Thinned, Alive, Poll
  <2>3. ~raced => Alive' = {}
    BY <1>3 DEF Kept, OneInv, Apart, Thinned, Alive, Poll
  <2>4. Turns!Halt
    BY <1>1, <1>4, <2>1, <2>2, <2>3 DEF Turns!Halt
  <2> QED
    BY <2>4 DEF Turns!Next
<1> QED
  BY <1>5, <1>6

LEMMA ExitTurns ==
    ASSUME Kept, Exit
    PROVE  Turns!Next
<1>1. /\ UNCHANGED <<entered, spawned, raced>> /\ up' = FALSE
      /\ \A t \in Threads : at'[t] = "gone"
  BY DEF Exit, crash
<1>2. Crash' = IF Crash = "tripped" THEN "halted" ELSE Crash
  BY <1>1 DEF Crash
<1>3. Thinned /\ \A b \in DOMAIN brokers : brokers'[b].state = "dead"
  BY ExitEnds DEF Kept, TypeOK, Brokers
<1>4. Len(brokers') = Len(brokers) /\ Alive' = {}
  BY <1>3 DEF Thinned, Alive, Poll
<1>5. Turns!End
  BY <1>1, <1>2, <1>4 DEF Turns!End
<1> QED
  BY <1>5 DEF Turns!Next

LEMMA TurnsStep ==
    ASSUME Kept, [Next]_vars
    PROVE  [Turns!Next]_(Turns!turns)
<1>0. /\ at \in [Threads -> Places] /\ Starters \subseteq Threads
      /\ TypeOK /\ brokers \in Seq(Brokers) /\ raced \in BOOLEAN
      /\ "main" \in Threads /\ "stocks" \in Threads
  BY DEF Kept, TypeOK, Brokers, Threads, Starters
<1> USE DEF row, feed, crash
<1>1. ASSUME NEW t \in Threads, FeedLost(t) PROVE [Turns!Next]_(Turns!turns)
  <2>1. Crash' = Crash
    BY <1>0, <1>1, CrashKept DEF FeedLost, Goto
  <2> QED
    BY <1>1, <2>1, RacesOrStays DEF FeedLost
<1>2. CASE Boot \/ Supervise \/ Change
  <2>1. \A t \in Threads : at'[t] = "terminate" <=> at[t] = "terminate"
    BY <1>0, <1>2 DEF Boot, Supervise, Change, Goto
  <2>2. UNCHANGED <<brokers, entered, spawned, up>>
    BY <1>2 DEF Boot, Supervise, Change
  <2>3. raced' = raced \/ raced' = TRUE
    BY <1>0, <1>2 DEF Boot, Supervise, Change, Overlaps
  <2> QED
    BY <2>1, <2>2, <2>3, CrashKept, RacesOrStays
<1>3. CASE Notify \/ Edit \/ PressStop \/ UNCHANGED vars
  <2>1. UNCHANGED <<brokers, at, entered, spawned, up, raced>>
    BY <1>3 DEF Notify, Edit, PressStop, vars
  <2> QED
    BY <2>1, CrashKept, RacesOrStays
<1>4. CASE Calm
  <2>1. UNCHANGED <<brokers, at, entered, up, raced>> /\ spawned' = 0
    BY <1>4 DEF Calm
  <2>2. Crash' = Crash /\ Len(brokers') = Len(brokers) /\ Alive' = Alive
    BY <2>1, CrashKept DEF Alive, Poll
  <2>3. Turns!NewWindow
    BY <2>1, <2>2 DEF Turns!NewWindow
  <2> QED
    BY <2>3 DEF Turns!Next
<1>5. ASSUME NEW b \in DOMAIN brokers, Quit(b) \/ Die(b) PROVE [Turns!Next]_(Turns!turns)
  <2>1. UNCHANGED <<at, entered, spawned, up, raced>>
    BY <1>5 DEF Quit, Die
  <2> QED
    BY <1>0, <1>5, <2>1, EndsOne, CrashKept, LeavesOrStays DEF Turns!Next
<1> QED
  BY <1>1, <1>2, <1>3, <1>4, <1>5, StarterTurns, TripTurns, TerminateTurns, ExitTurns
     DEF Next, HeldStop, FeedStop

\* InstanceProcess implements BrokerTurns, for any number of edits, exits, faults
\* and starts: no broker starts while another trades or after a crash, a crash
\* halts what trades, and until the process ends and beyond, overlapping starts or
\* not, the limit of a window holds.
THEOREM BrokersTakeTurns == Spec => TakeTurns
<1>1. Init => UpInv /\ Turns!Init
  <2> SUFFICES ASSUME Init PROVE UpInv /\ Turns!Init
    OBVIOUS
  <2>1. Len(brokers) = 0 /\ Alive = {} /\ Crash = "no"
    BY DEF Init, Alive, Crash
  <2> QED
    BY <2>1 DEF Init, UpInv, Turns!Init
<1>2. TypeOK /\ LoopInv /\ OneInv /\ HeldInv /\ UpInv /\ [Next]_vars
        => [Turns!Next]_(Turns!turns)
  BY TurnsStep DEF Kept
<1> QED
  BY <1>1, <1>2, TypeInit, TypeStep, LoopInit, LoopStep, OneInit, OneStep, HeldStep,
     UpStep, PTL DEF Spec, TakeTurns, Turns!Spec
=============================================================================
