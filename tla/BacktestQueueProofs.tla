------------------------- MODULE BacktestQueueProofs -------------------------
(***************************************************************************)
(* Theorems of BacktestQueue, for any finite set of backtests, heavy or     *)
(* not, and any number of failed calls, killed containers and deployments.  *)
(***************************************************************************)
EXTENDS BacktestQueue, FiniteSetTheorems, SequenceTheorems, TLAPS

-----------------------------------------------------------------------------
(***************************************************************************)
(* Type correctness.                                                        *)
(***************************************************************************)
LEMMA Bounds ==
    /\ MaxFaults \in Nat /\ MaxRestarts \in Nat
    /\ High \subseteq Backtests /\ Nobody \notin Backtests
BY BacktestAssumption

LEMMA FiniteSubset ==
    ASSUME NEW S \in SUBSET Backtests
    PROVE  IsFiniteSet(S) /\ Cardinality(S) \in Nat
BY BacktestAssumption, FS_Subset, FS_CardinalityType

\* A set in some order is a sequence of its elements.
LEMMA OrderedSet ==
    ASSUME NEW S \in SUBSET Backtests
    PROVE  SetToSeq(S) \in Seq(S)
<1>1. Cardinality(S) \in Nat /\ ExistsBijection(1..Cardinality(S), S)
  BY BacktestAssumption, FS_Subset, FS_CardinalityType
<1>2. PICK f : f \in Bijection(1..Cardinality(S), S)
  BY <1>1 DEF ExistsBijection
<1>3. f \in [1..Cardinality(S) -> S] /\ IsInjective(f)
  BY <1>2 DEF Bijection, Injection
<1>4. SetToSeq(S) \in [1..Cardinality(S) -> S]
  BY <1>3 DEF SetToSeq
<1> QED
  BY <1>1, <1>4

LEMMA QueueTypes ==
    ASSUME TypeOK, NEW S \in SUBSET Backtests, Queue(S)
    PROVE  ids' \subseteq Backtests /\ queue' \in Seq(Backtests) /\ deferred' \in Seq(High)
<1>1. SetToSeq(S \ ids) \in Seq(S \ ids)
  BY OrderedSet
<1>2. SetToSeq(S \ ids) \in Seq(Backtests)
  BY <1>1
<1>3. queue \in Seq(Backtests) /\ queue' = queue \o SetToSeq(S \ ids)
  BY DEF TypeOK, Queue
<1>4. queue' \in Seq(Backtests)
  BY <1>2, <1>3, ConcatProperties
<1> QED
  BY <1>4 DEF TypeOK, Queue

LEMMA TypeInit == Init => TypeOK
<1> SUFFICES ASSUME Init PROVE TypeOK
  OBVIOUS
<1>1. queue \in Seq(Backtests) /\ deferred \in Seq(High)
  BY DEF Init
<1>2. faults \in 0..MaxFaults /\ restarts \in 0..MaxRestarts /\ slots \in Nat
  BY Bounds DEF Init
<1> QED
  BY <1>1, <1>2 DEF Init, TypeOK

LEMMA FaultTypes ==
    ASSUME TypeOK, Fault
    PROVE  faults' \in 0..MaxFaults /\ restarts' \in 0..MaxRestarts
BY Bounds DEF TypeOK, Fault

\* The rows, the containers, and the threads that are not done.
Tabled ==
    /\ row \in [Backtests -> {"new", "pending", "running", "gone"}]
    /\ stop \subseteq {k \in Backtests : row[k] = "running"}

Boxed ==
    /\ box \in [Backtests -> {"none", "boot", "aware", "unaware", "alone"}]
    /\ started \subseteq Backtests

Threaded ==
    /\ launch \in [Backtests -> {"none", "fresh", "old"}]
    /\ job \in [Backtests -> {"none", "queued", "running", "failed", "returned",
                              "done"}]
    /\ active \subseteq Backtests
    /\ {k \in Backtests : job[k] \notin {"none", "done"}} \subseteq active

Queued ==
    ids \subseteq Backtests /\ queue \in Seq(Backtests) /\ deferred \in Seq(High)

Looped ==
    /\ main \in {"clean", "count", "top", "health", "settle", "sweep", "pick", "claim", "launch"}
    /\ IF main \in {"claim", "launch"} THEN cur \in Backtests ELSE cur = Nobody
    /\ names \subseteq Backtests /\ news \subseteq Backtests

Bounded ==
    /\ slots \in Nat /\ uncounted \in BOOLEAN
    /\ faults \in 0..MaxFaults /\ restarts \in 0..MaxRestarts

LEMMA TypeParts ==
    /\ TypeOK <=> Tabled /\ Boxed /\ Threaded /\ Queued /\ Looped /\ Bounded
    /\ TypeOK' <=> Tabled' /\ Boxed' /\ Threaded' /\ Queued' /\ Looped' /\ Bounded'
BY DEF TypeOK, Tabled, Boxed, Threaded, Queued, Looped, Bounded

LEMMA PartsKept ==
    /\ Tabled /\ UNCHANGED <<row, stop>> => Tabled'
    /\ Boxed /\ UNCHANGED <<box, started>> => Boxed'
    /\ Threaded /\ UNCHANGED <<launch, job, active>> => Threaded'
    /\ Queued /\ UNCHANGED <<ids, queue, deferred>> => Queued'
    /\ Looped /\ UNCHANGED <<main, cur, names, news>> => Looped'
    /\ Bounded /\ UNCHANGED <<slots, uncounted, faults, restarts>> => Bounded'
BY DEF Tabled, Boxed, Threaded, Queued, Looped, Bounded

LEMMA ReturnsTypes ==
    ASSUME Boxed, Threaded, NEW k \in Backtests, NEW how \in {"returned", "failed"},
           Returns(k, how), UNCHANGED <<started, launch, active>>
    PROVE  Boxed' /\ Threaded'
<1>1. Boxed'
  BY DEF Boxed, Returns
<1>2. /\ job' \in [Backtests -> {"none", "queued", "running", "failed", "returned", "done"}]
      /\ \A j \in Backtests : job'[j] \notin {"none", "done"} => job[j] \notin {"none", "done"}
  BY DEF Threaded, Returns
<1> QED
  BY <1>1, <1>2 DEF Threaded

\* The API and the brokers.
LEMMA BrokerTypes ==
    ASSUME TypeOK, NEW k \in Backtests,
           \/ Insert(k) \/ Stop(k) \/ Delete(k)
           \/ Seed(k) \/ Obey(k) \/ Finish(k) \/ Killed(k)
    PROVE  TypeOK'
<1> USE DEF docker, memory, slot, thread, loop, bounds, table
<1>0. Tabled /\ Boxed /\ Threaded /\ Queued /\ Looped /\ Bounded
  BY TypeParts
<1>1. CASE Insert(k) \/ Stop(k) \/ Delete(k)
  <2>1. Tabled'
    BY <1>0, <1>1 DEF Insert, Stop, Delete, Tabled
  <2> QED
    BY <1>0, <1>1, <2>1, PartsKept, TypeParts DEF Insert, Stop, Delete
<1>2. CASE Seed(k)
  <2>1. Boxed'
    BY <1>0, <1>2 DEF Seed, Boxed
  <2> QED
    BY <1>0, <1>2, <2>1, PartsKept, TypeParts DEF Seed
<1>3. CASE Obey(k)
  <2>1. Tabled'
    BY <1>0, <1>3 DEF Obey, Tabled
  <2>2. Boxed' /\ Threaded'
    BY <1>0, <1>3, ReturnsTypes DEF Obey
  <2> QED
    BY <1>0, <1>3, <2>1, <2>2, PartsKept, TypeParts DEF Obey
<1>4. CASE Finish(k)
  <2>2. Boxed' /\ Threaded'
    BY <1>0, <1>4, ReturnsTypes DEF Finish
  <2> QED
    BY <1>0, <1>4, <2>2, PartsKept, TypeParts DEF Finish
<1>5. CASE Killed(k)
  <2>1. faults' \in 0..MaxFaults /\ restarts' \in 0..MaxRestarts
    BY <1>5, FaultTypes DEF Killed
  <2>2. Boxed' /\ Threaded'
    BY <1>0, <1>5, ReturnsTypes DEF Killed
  <2>3. Bounded'
    BY <1>0, <1>5, <2>1 DEF Killed, Bounded
  <2> QED
    BY <1>0, <1>5, <2>2, <2>3, PartsKept, TypeParts DEF Killed
<1> QED
  BY <1>1, <1>2, <1>3, <1>4, <1>5

\* The threads of the pool, the feed's, and the clock.
LEMMA JobTypes ==
    ASSUME TypeOK, NEW k \in Backtests,
           \/ Begin(k) \/ Refused(k) \/ CallRaises(k) \/ Failed(k)
           \/ RemoveRow(k) \/ RemoveRowRaises(k)
           \/ FeedLook(k) \/ FeedQueue(k) \/ Age(k)
    PROVE  TypeOK'
<1> USE DEF docker, memory, slot, thread, loop, bounds, table
<1>0. Tabled /\ Boxed /\ Threaded /\ Queued /\ Looped /\ Bounded
  BY TypeParts
<1>1. CASE Begin(k)
  <2>1. Boxed'
    BY <1>0, <1>1 DEF Begin, Boxed
  <2>2. Threaded'
    BY <1>0, <1>1 DEF Begin, Threaded
  <2> QED
    BY <1>0, <1>1, <2>1, <2>2, PartsKept, TypeParts DEF Begin
<1>2. CASE Refused(k) \/ CallRaises(k)
  <2>1. faults' \in 0..MaxFaults /\ restarts' \in 0..MaxRestarts
    BY <1>2, FaultTypes DEF Refused, CallRaises
  <2>2. Threaded'
    BY <1>0, <1>2 DEF Refused, CallRaises, Threaded
  <2>3. Bounded'
    BY <1>0, <1>2, <2>1 DEF Refused, CallRaises, Bounded
  <2> QED
    BY <1>0, <1>2, <2>2, <2>3, PartsKept, TypeParts DEF Refused, CallRaises
<1>3. CASE Failed(k)
  <2>1. Boxed'
    BY <1>0, <1>3 DEF Failed, Boxed
  <2>2. Threaded'
    BY <1>0, <1>3 DEF Failed, Threaded
  <2> QED
    BY <1>0, <1>3, <2>1, <2>2, PartsKept, TypeParts DEF Failed
<1>4. CASE RemoveRow(k)
  <2>1. Tabled'
    BY <1>0, <1>4 DEF RemoveRow, Tabled
  <2>2. Threaded'
    BY <1>0, <1>4 DEF RemoveRow, Forget, Threaded
  <2>3. Queued'
    BY <1>0, <1>4 DEF RemoveRow, Forget, Queued
  <2> QED
    BY <1>0, <1>4, <2>1, <2>2, <2>3, PartsKept, TypeParts DEF RemoveRow
<1>5. CASE RemoveRowRaises(k)
  <2>1. faults' \in 0..MaxFaults /\ restarts' \in 0..MaxRestarts
    BY <1>5, FaultTypes DEF RemoveRowRaises
  <2>2. Threaded'
    BY <1>0, <1>5 DEF RemoveRowRaises, Forget, Threaded
  <2>3. Queued'
    BY <1>0, <1>5 DEF RemoveRowRaises, Forget, Queued
  <2>4. Bounded'
    BY <1>0, <1>5, <2>1 DEF RemoveRowRaises, Bounded
  <2> QED
    BY <1>0, <1>5, <2>2, <2>3, <2>4, PartsKept, TypeParts DEF RemoveRowRaises
<1>6. CASE FeedLook(k)
  <2>1. Looped'
    BY <1>0, <1>6 DEF FeedLook, Looped
  <2> QED
    BY <1>0, <1>6, <2>1, PartsKept, TypeParts DEF FeedLook
<1>7. CASE FeedQueue(k)
  <2>1. Looped'
    BY <1>0, <1>7 DEF FeedQueue, Looped
  <2>2. {k} \in SUBSET Backtests /\ Queue({k})
    BY <1>7 DEF FeedQueue
  <2>3. Queued'
    BY <2>2, QueueTypes DEF Queued
  <2> QED
    BY <1>0, <1>7, <2>1, <2>3, PartsKept, TypeParts DEF FeedQueue
<1>8. CASE Age(k)
  <2>1. Threaded'
    BY <1>0, <1>8 DEF Age, Threaded
  <2> QED
    BY <1>0, <1>8, <2>1, PartsKept, TypeParts DEF Age
<1> QED
  BY <1>1, <1>2, <1>3, <1>4, <1>5, <1>6, <1>7, <1>8

\* The main loop.
LEMMA LoopTypes ==
    ASSUME TypeOK, Turn \/ CountFails \/ PickRaises \/ ClaimRaises \/ LaunchRaises
    PROVE  TypeOK'
<1> USE DEF docker, memory, slot, thread, loop, bounds, table
<1>0. Tabled /\ Boxed /\ Threaded /\ Queued /\ Looped /\ Bounded
  BY TypeParts
<1>1. CASE Clean
  <2>1. Boxed'
    BY <1>0, <1>1 DEF Clean, Boxed
  <2>2. Looped'
    BY <1>0, <1>1, Bounds DEF Clean, Looped
  <2>3. faults' \in 0..MaxFaults /\ restarts' \in 0..MaxRestarts
    BY <1>0, <1>1, FaultTypes DEF Clean, NoFault, Bounded
  <2>4. Bounded'
    BY <1>0, <1>1, <2>3 DEF Clean, Bounded
  <2> QED
    BY <1>0, <1>1, <2>1, <2>2, <2>4, PartsKept, TypeParts DEF Clean
<1>2. CASE Count
  <2>1. Looped'
    BY <1>0, <1>2 DEF Count, Looped
  <2>2. Queued'
    BY <1>0, <1>2, QueueTypes DEF Count, Queued, Pending
  <2>3. Counted \in Nat
    BY FiniteSubset DEF Counted, Living
  <2>4. Bounded'
    BY <1>0, <1>2, <2>3 DEF Count, Bounded
  <2> QED
    BY <1>0, <1>2, <2>1, <2>2, <2>4, PartsKept, TypeParts DEF Count
<1>3. CASE Harvest
  <2>1. Looped'
    BY <1>0, <1>3 DEF Harvest, Looped
  <2>2. Threaded'
    BY <1>0, <1>3 DEF Harvest, Done, Threaded
  <2>3. Freed \in Nat
    BY <1>0, FiniteSubset DEF Freed, Done, Threaded
  <2>4. slots' \in Nat
    BY <1>0, <1>3, <2>3 DEF Harvest, Bounded
  <2>5. Bounded'
    BY <1>0, <1>3, <2>4 DEF Harvest, Bounded
  <2> QED
    BY <1>0, <1>3, <2>1, <2>2, <2>5, PartsKept, TypeParts DEF Harvest
<1>4. CASE ListContainers
  <2>1. Looped'
    BY <1>0, <1>4 DEF ListContainers, Living, Looped
  <2> QED
    BY <1>0, <1>4, <2>1, PartsKept, TypeParts DEF ListContainers
<1>5. CASE Settle
  <2>1. Looped'
    BY <1>0, <1>5 DEF Settle, Looped
  <2>2. Tabled'
    BY <1>0, <1>5 DEF Settle, Tabled
  <2>3. Threaded'
    BY <1>0, <1>5 DEF Settle, Threaded
  <2>4. Queued'
    BY <1>0, <1>5 DEF Settle, Queued
  <2> QED
    BY <1>0, <1>5, <2>1, <2>2, <2>3, <2>4, PartsKept, TypeParts DEF Settle
<1>6. CASE Sweep
  <2>1. Looped'
    BY <1>0, <1>6 DEF Sweep, Looped
  <2>2. Queued'
    BY <1>0, <1>6, QueueTypes DEF Sweep, Queued, Pending
  <2> QED
    BY <1>0, <1>6, <2>1, <2>2, PartsKept, TypeParts DEF Sweep
<1>7. CASE PickDeferred
  <2>1. deferred \in Seq(High) /\ deferred # <<>>
    BY <1>0, <1>7 DEF PickDeferred, FromDeferred, Queued
  <2>2. Head(deferred) \in High /\ Tail(deferred) \in Seq(High)
    BY <2>1, HeadTailProperties
  <2>3. Looped'
    BY <1>0, <1>7, <2>2, Bounds DEF PickDeferred, Looped
  <2>4. Queued'
    BY <1>0, <1>7, <2>2 DEF PickDeferred, Queued
  <2> QED
    BY <1>0, <1>7, <2>3, <2>4, PartsKept, TypeParts DEF PickDeferred
<1>8. CASE PickQueued
  <2>1. queue \in Seq(Backtests) /\ queue # <<>> /\ deferred \in Seq(High)
    BY <1>0, <1>8 DEF PickQueued, Queued
  <2>2. Head(queue) \in Backtests /\ Tail(queue) \in Seq(Backtests)
    BY <2>1, HeadTailProperties
  <2>5. Head(queue) \in High => Append(deferred, Head(queue)) \in Seq(High)
    BY <2>1
  <2>3. Looped'
    BY <1>0, <1>8, <2>2, Bounds DEF PickQueued, Picking, Looped
  <2>4. Queued'
    BY <1>0, <1>8, <2>2, <2>5 DEF PickQueued, Queued
  <2> QED
    BY <1>0, <1>8, <2>3, <2>4, PartsKept, TypeParts DEF PickQueued
<1>9. CASE PickNone
  <2>1. Looped'
    BY <1>0, <1>9 DEF PickNone, Picking, Looped
  <2> QED
    BY <1>0, <1>9, <2>1, PartsKept, TypeParts DEF PickNone
<1>10. CASE PickRaises
  <2>1. faults' \in 0..MaxFaults /\ restarts' \in 0..MaxRestarts
    BY <1>10, FaultTypes DEF PickRaises
  <2>2. Looped'
    BY <1>0, <1>10 DEF PickRaises, Picking, Looped
  <2>3. queue # <<>> => Append(Tail(queue), Head(queue)) \in Seq(Backtests)
    <3>1. queue \in Seq(Backtests)
      BY <1>0 DEF Queued
    <3>2. queue # <<>> => Head(queue) \in Backtests /\ Tail(queue) \in Seq(Backtests)
      BY <3>1, HeadTailProperties
    <3> QED
      BY <3>2
  <2>4. Queued'
    BY <1>0, <1>10, <2>3 DEF PickRaises, Queued
  <2>5. Bounded'
    BY <1>0, <1>10, <2>1 DEF PickRaises, Bounded
  <2> QED
    BY <1>0, <1>10, <2>2, <2>4, <2>5, PartsKept, TypeParts DEF PickRaises
<1>11. CASE Claim
  <2>1. Looped'
    BY <1>0, <1>11 DEF Claim, Looped
  <2>2. Tabled'
    BY <1>0, <1>11 DEF Claim, Claims, Looped, Tabled
  <2> QED
    BY <1>0, <1>11, <2>1, <2>2, PartsKept, TypeParts DEF Claim
<1>12. CASE Pass
  <2>1. Looped'
    BY <1>0, <1>12 DEF Pass, Looped
  <2>2. Queued'
    BY <1>0, <1>12 DEF Pass, Queued
  <2> QED
    BY <1>0, <1>12, <2>1, <2>2, PartsKept, TypeParts DEF Pass
<1>13. CASE Launch
  <2>1. Looped'
    BY <1>0, <1>13 DEF Launch, Looped
  <2>2. Threaded'
    BY <1>0, <1>13 DEF Launch, Looped, Threaded
  <2>3. Bounded'
    BY <1>0, <1>13 DEF Launch, Bounded
  <2> QED
    BY <1>0, <1>13, <2>1, <2>2, <2>3, PartsKept, TypeParts DEF Launch
<1>14. ASSUME Again, cur \in Backtests, UNCHANGED <<ids, names, news>>
       PROVE  Looped' /\ Queued'
  <2>1. Looped'
    BY <1>0, <1>14 DEF Again, Looped
  <2>2. cur \in High => <<cur>> \o deferred \in Seq(High)
    <3>1. ASSUME cur \in High PROVE <<cur>> \in Seq(High)
      BY <3>1
    <3> QED
      BY <1>0, <3>1, ConcatProperties DEF Queued
  <2>3. Append(queue, cur) \in Seq(Backtests)
    BY <1>0, <1>14 DEF Queued
  <2> QED
    BY <1>0, <1>14, <2>1, <2>2, <2>3 DEF Again, Queued
<1>15. CASE ClaimRaises
  <2>1. faults' \in 0..MaxFaults /\ restarts' \in 0..MaxRestarts /\ cur \in Backtests
    BY <1>0, <1>15, FaultTypes DEF ClaimRaises, Looped
  <2>2. Looped' /\ Queued'
    BY <1>14, <1>15, <2>1 DEF ClaimRaises
  <2>3. Tabled'
    BY <1>0, <1>15, <2>1 DEF ClaimRaises, Claims, Tabled
  <2>4. Bounded'
    BY <1>0, <1>15, <2>1 DEF ClaimRaises, Bounded
  <2> QED
    BY <1>0, <1>15, <2>2, <2>3, <2>4, PartsKept, TypeParts DEF ClaimRaises
<1>16. CASE LaunchRaises
  <2>1. faults' \in 0..MaxFaults /\ restarts' \in 0..MaxRestarts /\ cur \in Backtests
    BY <1>0, <1>16, FaultTypes DEF LaunchRaises, Looped
  <2>2. Looped' /\ Queued'
    BY <1>14, <1>16, <2>1 DEF LaunchRaises
  <2>3. Threaded'
    BY <1>0, <1>16, <2>1 DEF LaunchRaises, Threaded
  <2>4. Bounded'
    BY <1>0, <1>16, <2>1 DEF LaunchRaises, Bounded
  <2> QED
    BY <1>0, <1>16, <2>2, <2>3, <2>4, PartsKept, TypeParts DEF LaunchRaises
<1>17. CASE CountFails
  <2>1. Looped'
    BY <1>0, <1>17 DEF CountFails, Looped
  <2>2. Queued'
    BY <1>0, <1>17, QueueTypes DEF CountFails, Queued, Pending
  <2>3. faults' \in 0..MaxFaults /\ restarts' \in 0..MaxRestarts
    BY <1>17, FaultTypes DEF CountFails
  <2>4. Bounded'
    BY <1>0, <1>17, <2>3 DEF CountFails, Bounded
  <2> QED
    BY <1>0, <1>17, <2>1, <2>2, <2>4, PartsKept, TypeParts DEF CountFails
<1> QED
  BY <1>1, <1>2, <1>3, <1>4, <1>5, <1>6, <1>7, <1>8, <1>9, <1>10, <1>11, <1>12,
     <1>13, <1>15, <1>16, <1>17 DEF Turn

LEMMA RestartTypes == TypeOK /\ Restart => TypeOK'
<1> SUFFICES ASSUME TypeOK, Restart PROVE TypeOK'
  OBVIOUS
<1> USE DEF docker, table
<1>0. Tabled /\ Boxed /\ Threaded /\ Queued /\ Looped /\ Bounded
  BY TypeParts
<1>1. queue' = <<>> /\ deferred' = <<>> /\ restarts' \in 0..MaxRestarts
  BY <1>0, Bounds DEF Restart, Bounded
<1>2. Queued'
  BY <1>1 DEF Restart, Queued
<1>3. Threaded' /\ Looped' /\ Bounded'
  BY <1>0, <1>1 DEF Restart, Threaded, Looped, Bounded
<1> QED
  BY <1>0, <1>2, <1>3, PartsKept, TypeParts DEF Restart

LEMMA TypeStep == TypeOK /\ [Next]_vars => TypeOK'
<1> SUFFICES ASSUME TypeOK, [Next]_vars PROVE TypeOK'
  OBVIOUS
<1>1. CASE UNCHANGED vars
  BY <1>1, PartsKept, TypeParts
     DEF vars, docker, memory, slot, thread, loop, bounds, table
<1> QED
  BY <1>1, BrokerTypes, JobTypes, LoopTypes, RestartTypes
     DEF Next, BrokerStep, JobStep, FeedStep, Mishap

\* The rows, the queue, the threads and the slots keep their types; the loop has
\* a row in hand exactly while it claims or launches one, and a thread that is
\* not done is one that it will harvest.
THEOREM TypeCorrect == Spec => []TypeOK
BY TypeInit, TypeStep, PTL DEF Spec

-----------------------------------------------------------------------------
(***************************************************************************)
(* Started once.  A row that may still be claimed has neither a container    *)
(* nor a thread behind it, and a row once claimed is never pending again.   *)
(***************************************************************************)
Fresh(k) == k \notin started /\ job[k] = "none"

OnceInv ==
    /\ \A k \in Backtests : row[k] \in {"new", "pending"} => Fresh(k)
    /\ \A k \in Backtests : job[k] = "queued" => k \notin started
    /\ \A k \in Backtests : Alive(k) => k \in started
    /\ main = "launch" => Fresh(cur) /\ row[cur] \notin {"new", "pending"}

\* A thread that has returned leaves no container.
EndedInv ==
    \A k \in Backtests : job[k] \in {"returned", "done"} => ~Alive(k)

\* What the health check does not see was launched after it looked.
LiveInv ==
    /\ \A k \in Backtests : job[k] = "queued" => launch[k] = "fresh"
    /\ main = "settle" =>
          \A k \in Backtests : Alive(k) => k \in names \/ launch[k] = "fresh"

Core == OnceInv /\ EndedInv /\ LiveInv

LEMMA CoreInit == Init => Core
BY DEF Init, Core, OnceInv, Fresh, Alive, EndedInv, LiveInv

LEMMA CoreKept ==
    Core /\ UNCHANGED <<row, box, started, launch, job, main, cur, names>> => Core'
BY DEF Core, OnceInv, Fresh, Alive, EndedInv, LiveInv

\* The loop goes on to a place where it has no row in hand and no list.
LEMMA CoreOfLoop ==
    ASSUME Core, UNCHANGED <<row, box, started, launch, job>>,
           main' \notin {"launch", "settle"}
    PROVE  Core'
BY DEF Core, OnceInv, Fresh, Alive, EndedInv, LiveInv

\* The API and the brokers.
LEMMA CoreOfBroker ==
    ASSUME TypeOK, Core, NEW k \in Backtests,
           \/ Insert(k) \/ Delete(k) \/ Seed(k)
           \/ Obey(k) \/ Finish(k) \/ Killed(k)
    PROVE  Core'
<1> USE DEF docker, memory, slot, thread, loop, bounds, table
<1>0. Tabled /\ Boxed /\ Threaded /\ Looped
  BY TypeParts
<1>99. OnceInv /\ EndedInv /\ LiveInv
  BY DEF Core
<1>1. CASE Insert(k)
  <2>1. OnceInv'
    BY <1>0, <1>99, <1>1 DEF Insert, OnceInv, Fresh, Alive, Tabled, Boxed, Threaded, Looped
  <2>2. EndedInv'
    BY <1>0, <1>99, <1>1 DEF Insert, OnceInv, EndedInv, Alive, Tabled, Boxed, Threaded, Looped
  <2>3. LiveInv'
    BY <1>0, <1>99, <1>1 DEF Insert, LiveInv, Alive, Tabled, Boxed, Threaded, Looped
  <2> QED
    BY <2>1, <2>2, <2>3 DEF Core
<1>2. CASE Delete(k)
  <2>1. OnceInv'
    BY <1>0, <1>99, <1>2 DEF Delete, OnceInv, Fresh, Alive, Tabled, Boxed, Threaded, Looped
  <2>2. EndedInv'
    BY <1>0, <1>99, <1>2 DEF Delete, OnceInv, EndedInv, Alive, Tabled, Boxed, Threaded, Looped
  <2>3. LiveInv'
    BY <1>0, <1>99, <1>2 DEF Delete, LiveInv, Alive, Tabled, Boxed, Threaded, Looped
  <2> QED
    BY <2>1, <2>2, <2>3 DEF Core
<1>3. CASE Seed(k)
  <2>1. OnceInv'
    BY <1>0, <1>99, <1>3 DEF Seed, OnceInv, Fresh, Alive, Tabled, Boxed, Threaded, Looped
  <2>2. EndedInv'
    BY <1>0, <1>99, <1>3 DEF Seed, OnceInv, EndedInv, Alive, Tabled, Boxed, Threaded, Looped
  <2>3. LiveInv'
    BY <1>0, <1>99, <1>3 DEF Seed, LiveInv, Alive, Tabled, Boxed, Threaded, Looped
  <2> QED
    BY <2>1, <2>2, <2>3 DEF Core
<1>4. CASE Obey(k)
  <2>1. OnceInv'
    BY <1>0, <1>99, <1>4 DEF Obey, Returns, OnceInv, Fresh, Alive, Tabled, Boxed, Threaded, Looped
  <2>2. EndedInv'
    BY <1>0, <1>99, <1>4 DEF Obey, Returns, OnceInv, EndedInv, Alive, Tabled, Boxed, Threaded, Looped
  <2>3. LiveInv'
    BY <1>0, <1>99, <1>4 DEF Obey, Returns, LiveInv, Alive, Tabled, Boxed, Threaded, Looped
  <2> QED
    BY <2>1, <2>2, <2>3 DEF Core
<1>5. CASE Finish(k)
  <2>1. OnceInv'
    BY <1>0, <1>99, <1>5 DEF Finish, Returns, OnceInv, Fresh, Alive, Tabled, Boxed, Threaded, Looped
  <2>2. EndedInv'
    BY <1>0, <1>99, <1>5 DEF Finish, Returns, OnceInv, EndedInv, Alive, Tabled, Boxed, Threaded, Looped
  <2>3. LiveInv'
    BY <1>0, <1>99, <1>5 DEF Finish, Returns, LiveInv, Alive, Tabled, Boxed, Threaded, Looped
  <2> QED
    BY <2>1, <2>2, <2>3 DEF Core
<1>6. CASE Killed(k)
  <2>1. OnceInv'
    BY <1>0, <1>99, <1>6 DEF Killed, Returns, OnceInv, Fresh, Alive, Tabled, Boxed, Threaded, Looped
  <2>2. EndedInv'
    BY <1>0, <1>99, <1>6 DEF Killed, Returns, OnceInv, EndedInv, Alive, Tabled, Boxed, Threaded, Looped
  <2>3. LiveInv'
    BY <1>0, <1>99, <1>6 DEF Killed, Returns, LiveInv, Alive, Tabled, Boxed, Threaded, Looped
  <2> QED
    BY <2>1, <2>2, <2>3 DEF Core
<1> QED
  BY <1>1, <1>2, <1>3, <1>4, <1>5, <1>6

\* The threads of the pool, and the clock.
LEMMA CoreOfJob ==
    ASSUME TypeOK, Core, NEW k \in Backtests,
           \/ Begin(k) \/ Refused(k) \/ CallRaises(k) \/ Failed(k)
           \/ RemoveRow(k) \/ RemoveRowRaises(k) \/ Age(k)
    PROVE  Core'
<1> USE DEF docker, memory, slot, thread, loop, bounds, table
<1>0. Tabled /\ Boxed /\ Threaded /\ Looped
  BY TypeParts
<1>99. OnceInv /\ EndedInv /\ LiveInv
  BY DEF Core
<1>1. CASE Begin(k)
  <2>1. OnceInv'
    BY <1>0, <1>99, <1>1 DEF Begin, OnceInv, Fresh, Alive, Tabled, Boxed, Threaded, Looped
  <2>2. EndedInv'
    BY <1>0, <1>99, <1>1 DEF Begin, OnceInv, EndedInv, Alive, Tabled, Boxed, Threaded, Looped
  <2>3. LiveInv'
    BY <1>0, <1>99, <1>1 DEF Begin, LiveInv, Alive, Tabled, Boxed, Threaded, Looped
  <2> QED
    BY <2>1, <2>2, <2>3 DEF Core
<1>2. CASE Refused(k)
  <2>1. OnceInv'
    BY <1>0, <1>99, <1>2 DEF Refused, OnceInv, Fresh, Alive, Tabled, Boxed, Threaded, Looped
  <2>2. EndedInv'
    BY <1>0, <1>99, <1>2 DEF Refused, OnceInv, EndedInv, Alive, Tabled, Boxed, Threaded, Looped
  <2>3. LiveInv'
    BY <1>0, <1>99, <1>2 DEF Refused, LiveInv, Alive, Tabled, Boxed, Threaded, Looped
  <2> QED
    BY <2>1, <2>2, <2>3 DEF Core
<1>3. CASE CallRaises(k)
  <2>1. OnceInv'
    BY <1>0, <1>99, <1>3 DEF CallRaises, OnceInv, Fresh, Alive, Tabled, Boxed, Threaded, Looped
  <2>2. EndedInv'
    BY <1>0, <1>99, <1>3 DEF CallRaises, OnceInv, EndedInv, Alive, Tabled, Boxed, Threaded, Looped
  <2>3. LiveInv'
    BY <1>0, <1>99, <1>3 DEF CallRaises, LiveInv, Alive, Tabled, Boxed, Threaded, Looped
  <2> QED
    BY <2>1, <2>2, <2>3 DEF Core
<1>4. CASE Failed(k)
  <2>1. OnceInv'
    BY <1>0, <1>99, <1>4 DEF Failed, OnceInv, Fresh, Alive, Tabled, Boxed, Threaded, Looped
  <2>2. EndedInv'
    BY <1>0, <1>99, <1>4 DEF Failed, OnceInv, EndedInv, Alive, Tabled, Boxed, Threaded, Looped
  <2>3. LiveInv'
    BY <1>0, <1>99, <1>4 DEF Failed, LiveInv, Alive, Tabled, Boxed, Threaded, Looped
  <2> QED
    BY <2>1, <2>2, <2>3 DEF Core
<1>5. CASE RemoveRow(k)
  <2>1. OnceInv'
    BY <1>0, <1>99, <1>5 DEF RemoveRow, Forget, OnceInv, Fresh, Alive, Tabled, Boxed, Threaded, Looped
  <2>2. EndedInv'
    BY <1>0, <1>99, <1>5 DEF RemoveRow, Forget, OnceInv, EndedInv, Alive, Tabled, Boxed, Threaded, Looped
  <2>3. LiveInv'
    BY <1>0, <1>99, <1>5 DEF RemoveRow, Forget, EndedInv, LiveInv, Alive, Tabled, Boxed, Threaded, Looped
  <2> QED
    BY <2>1, <2>2, <2>3 DEF Core
<1>6. CASE RemoveRowRaises(k)
  <2>1. OnceInv'
    BY <1>0, <1>99, <1>6 DEF RemoveRowRaises, Forget, OnceInv, Fresh, Alive, Tabled, Boxed, Threaded, Looped
  <2>2. EndedInv'
    BY <1>0, <1>99, <1>6 DEF RemoveRowRaises, Forget, OnceInv, EndedInv, Alive, Tabled, Boxed, Threaded, Looped
  <2>3. LiveInv'
    BY <1>0, <1>99, <1>6 DEF RemoveRowRaises, Forget, EndedInv, LiveInv, Alive, Tabled, Boxed, Threaded, Looped
  <2> QED
    BY <2>1, <2>2, <2>3 DEF Core
<1>7. CASE Age(k)
  <2>1. OnceInv'
    BY <1>0, <1>99, <1>7 DEF Age, OnceInv, Fresh, Alive, Tabled, Boxed, Threaded, Looped
  <2>2. EndedInv'
    BY <1>0, <1>99, <1>7 DEF Age, OnceInv, EndedInv, Alive, Tabled, Boxed, Threaded, Looped
  <2>3. LiveInv'
    BY <1>0, <1>99, <1>7 DEF Age, LiveInv, Alive, Tabled, Boxed, Threaded, Looped
  <2> QED
    BY <2>1, <2>2, <2>3 DEF Core
<1> QED
  BY <1>1, <1>2, <1>3, <1>4, <1>5, <1>6, <1>7

\* The main loop, where it changes a row, a container or a thread.
LEMMA CoreOfTurn ==
    ASSUME TypeOK, Core,
           \/ Clean \/ ListContainers \/ Settle \/ Claim \/ ClaimRaises
           \/ Launch \/ LaunchRaises \/ Restart
    PROVE  Core'
<1> USE DEF docker, memory, slot, thread, loop, bounds, table
<1>0. Tabled /\ Boxed /\ Threaded /\ Looped
  BY TypeParts
<1>99. OnceInv /\ EndedInv /\ LiveInv
  BY DEF Core
<1>1. CASE Clean
  <2>1. OnceInv'
    BY <1>0, <1>99, <1>1 DEF Clean, OnceInv, Fresh, Alive, Tabled, Boxed, Threaded, Looped
  <2>2. EndedInv'
    BY <1>0, <1>99, <1>1 DEF Clean, OnceInv, EndedInv, Alive, Tabled, Boxed, Threaded, Looped
  <2>3. LiveInv'
    BY <1>0, <1>99, <1>1 DEF Clean, LiveInv, Alive, Tabled, Boxed, Threaded, Looped
  <2> QED
    BY <2>1, <2>2, <2>3 DEF Core
<1>2. CASE ListContainers
  <2>1. OnceInv'
    BY <1>0, <1>99, <1>2 DEF ListContainers, Living, OnceInv, Fresh, Alive, Tabled, Boxed, Threaded, Looped
  <2>2. EndedInv'
    BY <1>0, <1>99, <1>2 DEF ListContainers, Living, OnceInv, EndedInv, Alive, Tabled, Boxed, Threaded, Looped
  <2>3. LiveInv'
    BY <1>0, <1>99, <1>2 DEF ListContainers, Living, LiveInv, Alive, Tabled, Boxed, Threaded, Looped
  <2> QED
    BY <2>1, <2>2, <2>3 DEF Core
<1>3. CASE Settle
  <2>1. OnceInv'
    BY <1>0, <1>99, <1>3 DEF Settle, Missing, OnceInv, Fresh, Alive, Tabled, Boxed, Threaded, Looped
  <2>2. EndedInv'
    BY <1>0, <1>99, <1>3 DEF Settle, Missing, OnceInv, EndedInv, Alive, Tabled, Boxed, Threaded, Looped
  <2>3. LiveInv'
    BY <1>0, <1>99, <1>3 DEF Settle, Missing, LiveInv, Alive, Tabled, Boxed, Threaded, Looped
  <2> QED
    BY <2>1, <2>2, <2>3 DEF Core
<1>4. CASE Claim
  <2>1. OnceInv'
    BY <1>0, <1>99, <1>4 DEF Claim, Claims, Claimable, OnceInv, Fresh, Alive, Tabled, Boxed, Threaded, Looped
  <2>2. EndedInv'
    BY <1>0, <1>99, <1>4 DEF Claim, Claims, Claimable, OnceInv, EndedInv, Alive, Tabled, Boxed, Threaded, Looped
  <2>3. LiveInv'
    BY <1>0, <1>99, <1>4 DEF Claim, Claims, Claimable, LiveInv, Alive, Tabled, Boxed, Threaded, Looped
  <2> QED
    BY <2>1, <2>2, <2>3 DEF Core
<1>5. CASE ClaimRaises
  <2>1. OnceInv'
    BY <1>0, <1>99, <1>5 DEF ClaimRaises, Claims, Claimable, Again, OnceInv, Fresh, Alive, Tabled, Boxed, Threaded, Looped
  <2>2. EndedInv'
    BY <1>0, <1>99, <1>5 DEF ClaimRaises, Claims, Claimable, Again, OnceInv, EndedInv, Alive, Tabled, Boxed, Threaded, Looped
  <2>3. LiveInv'
    BY <1>0, <1>99, <1>5 DEF ClaimRaises, Claims, Claimable, Again, LiveInv, Alive, Tabled, Boxed, Threaded, Looped
  <2> QED
    BY <2>1, <2>2, <2>3 DEF Core
<1>6. CASE Launch
  <2>1. OnceInv'
    BY <1>0, <1>99, <1>6 DEF Launch, OnceInv, Fresh, Alive, Tabled, Boxed, Threaded, Looped
  <2>2. EndedInv'
    BY <1>0, <1>99, <1>6 DEF Launch, OnceInv, EndedInv, Alive, Tabled, Boxed, Threaded, Looped
  <2>3. LiveInv'
    BY <1>0, <1>99, <1>6 DEF Launch, LiveInv, Alive, Tabled, Boxed, Threaded, Looped
  <2> QED
    BY <2>1, <2>2, <2>3 DEF Core
<1>7. CASE LaunchRaises
  <2>1. OnceInv'
    BY <1>0, <1>99, <1>7 DEF LaunchRaises, Again, OnceInv, Fresh, Alive, Tabled, Boxed, Threaded, Looped
  <2>2. EndedInv'
    BY <1>0, <1>99, <1>7 DEF LaunchRaises, Again, OnceInv, EndedInv, Alive, Tabled, Boxed, Threaded, Looped
  <2>3. LiveInv'
    BY <1>0, <1>99, <1>7 DEF LaunchRaises, Again, LiveInv, Alive, Tabled, Boxed, Threaded, Looped
  <2> QED
    BY <2>1, <2>2, <2>3 DEF Core
<1>8. CASE Restart
  <2>1. OnceInv'
    BY <1>0, <1>99, <1>8 DEF Restart, OnceInv, Fresh, Alive, Tabled, Boxed, Threaded, Looped
  <2>2. EndedInv'
    BY <1>0, <1>99, <1>8 DEF Restart, OnceInv, EndedInv, Alive, Tabled, Boxed, Threaded, Looped
  <2>3. LiveInv'
    BY <1>0, <1>99, <1>8 DEF Restart, LiveInv, Alive, Tabled, Boxed, Threaded, Looped
  <2> QED
    BY <2>1, <2>2, <2>3 DEF Core
<1> QED
  BY <1>1, <1>2, <1>3, <1>4, <1>5, <1>6, <1>7, <1>8

LEMMA CoreStep == TypeOK /\ Core /\ [Next]_vars => Core'
<1> SUFFICES ASSUME TypeOK, Core, [Next]_vars PROVE Core'
  OBVIOUS
<1> USE DEF docker, memory, slot, thread, loop, bounds, table
<1>1. CASE UNCHANGED vars
  BY <1>1, CoreKept DEF vars
<1>2. ASSUME NEW k \in Backtests, Stop(k) \/ FeedLook(k) \/ FeedQueue(k) PROVE Core'
  BY <1>2, CoreKept DEF Stop, FeedLook, FeedQueue
<1>3. CASE Count \/ CountFails \/ Harvest \/ Sweep
  BY <1>3, CoreOfLoop DEF Count, CountFails, Harvest, Sweep
<1>4. CASE PickDeferred \/ PickQueued \/ PickNone \/ PickRaises \/ Pass
  BY <1>4, CoreOfLoop DEF PickDeferred, PickQueued, PickNone, PickRaises, Pass
<1> QED
  BY <1>1, <1>2, <1>3, <1>4, CoreOfBroker, CoreOfJob, CoreOfTurn
     DEF Next, BrokerStep, JobStep, FeedStep, Turn, Mishap

\* Only a thread of the pool makes a container.
LEMMA MakesContainer ==
    ASSUME TypeOK, Core, [Next]_vars, NEW k \in Backtests, box[k] = "none", Alive(k)'
    PROVE  Begin(k)
<1> USE DEF docker, memory, slot, thread, loop, bounds, table
<1>0. Boxed
  BY TypeParts
<1>1. ASSUME NEW j \in Backtests, Seed(j) \/ Failed(j) \/ Obey(j) \/ Finish(j) \/ Killed(j)
      PROVE  FALSE
  BY <1>0, <1>1 DEF Seed, Failed, Obey, Finish, Killed, Returns, Boxed, Alive
<1>2. ~Clean
  BY <1>0 DEF Clean, Boxed, Alive
<1>3. ~UNCHANGED box
  BY DEF Alive
<1>4. ASSUME NEW j \in Backtests, Begin(j) PROVE j = k
  BY <1>0, <1>3, <1>4 DEF Begin, Boxed, Alive
<1>5. ASSUME NEW j \in Backtests,
             \/ Insert(j) \/ Stop(j) \/ Delete(j) \/ Age(j) \/ RemoveRow(j)
             \/ RemoveRowRaises(j) \/ Refused(j) \/ CallRaises(j)
             \/ FeedLook(j) \/ FeedQueue(j)
      PROVE  UNCHANGED box
  BY <1>5 DEF Insert, Stop, Delete, Age, RemoveRow, RemoveRowRaises, Refused, CallRaises,
     FeedLook, FeedQueue
<1>6. Turn /\ ~Clean => UNCHANGED box
  BY DEF Turn, Count, Harvest, ListContainers, Settle, Sweep, PickDeferred, PickQueued,
     PickNone, Claim, Pass, Launch
<1>7. CountFails \/ PickRaises \/ ClaimRaises \/ LaunchRaises \/ Restart => UNCHANGED box
  BY DEF CountFails, PickRaises, ClaimRaises, LaunchRaises, Restart
<1>8. UNCHANGED vars => UNCHANGED box
  BY DEF vars
<1> QED
  BY <1>1, <1>2, <1>3, <1>4, <1>5, <1>6, <1>7, <1>8
     DEF Next, BrokerStep, JobStep, FeedStep, Mishap

\* A backtest is started once, however often it is queued, re-queued or swept up,
\* and whatever is restarted.
THEOREM StartedOnce == Spec => LaunchedOnce
<1>1. TypeOK /\ Core /\ [Next]_vars
        => [\A k \in Backtests : box[k] = "none" /\ Alive(k)' => k \notin started]_vars
  <2> SUFFICES ASSUME TypeOK, Core, [Next]_vars, NEW k \in Backtests,
                      box[k] = "none", Alive(k)'
               PROVE  k \notin started
    OBVIOUS
  <2>1. Begin(k)
    BY MakesContainer
  <2> QED
    BY <2>1 DEF Begin, Core, OnceInv
<1> QED
  BY <1>1, TypeInit, TypeStep, CoreInit, CoreStep, PTL DEF Spec, LaunchedOnce

\* A living backtest loses its row to the operator alone.
THEOREM RowKept == Spec => LiveKeepsItsRow
<1>1. TypeOK /\ Core /\ [Next]_vars
        => [\A k \in Backtests :
               row[k] = "running" /\ row'[k] = "gone" /\ Alive(k)' => Delete(k)]_vars
  <2> SUFFICES ASSUME TypeOK, Core, [Next]_vars, NEW k \in Backtests,
                      row[k] = "running", row'[k] = "gone", Alive(k)'
               PROVE  Delete(k)
    OBVIOUS
  <2> USE DEF docker, memory, slot, thread, loop, bounds, table
  <2>0. Tabled /\ Boxed /\ Looped
    BY TypeParts
  <2>1. ASSUME NEW j \in Backtests, Insert(j) \/ Obey(j) \/ RemoveRow(j) PROVE FALSE
    <3>1. j = k /\ ~Insert(j)
      BY <2>0, <2>1 DEF Insert, Obey, RemoveRow, Tabled
    <3>2. CASE Obey(k)
      BY <2>0, <3>2 DEF Obey, Returns, Boxed, Alive
    <3>3. CASE RemoveRow(k)
      BY <3>3 DEF RemoveRow, Core, EndedInv, Alive
    <3> QED
      BY <2>1, <3>1, <3>2, <3>3
  <2>2. ~Settle
    BY <2>0 DEF Settle, Missing, Core, LiveInv, Alive
  <2>3. ~Claim /\ ~ClaimRaises
    BY <2>0 DEF Claim, ClaimRaises, Claims, Tabled, Looped
  <2>4. ASSUME NEW j \in Backtests, Delete(j) PROVE j = k
    BY <2>0, <2>4 DEF Delete, Tabled
  <2>5. ASSUME NEW j \in Backtests,
               \/ Stop(j) \/ Age(j) \/ RemoveRowRaises(j) \/ Refused(j) \/ CallRaises(j)
               \/ FeedLook(j) \/ FeedQueue(j) \/ Seed(j) \/ Failed(j) \/ Finish(j)
               \/ Killed(j) \/ Begin(j)
        PROVE  UNCHANGED row
    BY <2>5 DEF Stop, Age, RemoveRowRaises, Refused, CallRaises, FeedLook, FeedQueue, Seed,
       Failed, Finish, Killed, Begin
  <2>6. Turn /\ ~Settle /\ ~Claim => UNCHANGED row
    BY DEF Turn, Clean, Count, Harvest, ListContainers, Sweep, PickDeferred, PickQueued,
       PickNone, Pass, Launch
  <2>7. CountFails \/ PickRaises \/ LaunchRaises \/ Restart \/ UNCHANGED vars
          => UNCHANGED row
    BY DEF CountFails, PickRaises, LaunchRaises, Restart, vars
  <2> QED
    BY <2>1, <2>2, <2>3, <2>4, <2>5, <2>6, <2>7
       DEF Next, BrokerStep, JobStep, FeedStep, Mishap
<1> QED
  BY <1>1, TypeInit, TypeStep, CoreInit, CoreStep, PTL DEF Spec, LiveKeepsItsRow

-----------------------------------------------------------------------------
(***************************************************************************)
(* One heavy backtest.  The slot counter may be too high, but once the       *)
(* engine has counted it is zero only when no heavy container runs and none  *)
(* has been submitted.                                                      *)
(***************************************************************************)
Busy == {k \in High : Alive(k) \/ k \in active}

AtMostOne == \A x, y \in Busy : x = y

Sound ==
    /\ AtMostOne
    /\ IF Starting THEN active = {} ELSE slots = 0 => Busy = {}
    /\ main \in {"claim", "launch"} /\ cur \in High => slots = 0

SlotInv == ~uncounted => Sound

LEMMA SlotInit == Init => SlotInv
<1> SUFFICES ASSUME Init PROVE SlotInv
  OBVIOUS
<1>1. main = "clean" /\ active = {} /\ \A k \in High : ~Alive(k)
  BY Bounds DEF Init, Alive
<1> QED
  BY <1>1 DEF SlotInv, Sound, AtMostOne, Busy, Starting

\* Nothing heavy begins.
LEMMA SlotKept ==
    ASSUME Sound, Busy' \subseteq Busy, UNCHANGED <<slots, active, main, cur>>
    PROVE  Sound'
BY DEF Sound, AtMostOne, Starting

\* The loop goes on with the counter as it is.
LEMMA SlotOfLoop ==
    ASSUME Sound, UNCHANGED <<slots, active, box>>, Starting' = Starting,
           main' \in {"claim", "launch"} /\ cur' \in High => slots = 0
    PROVE  Sound'
<1>1. Busy' = Busy
  BY DEF Busy, Alive
<1> QED
  BY <1>1 DEF Sound, AtMostOne

LEMMA SlotOfCount ==
    ASSUME TypeOK, Sound, Count
    PROVE  Sound'
<1>1. /\ active = {} /\ main' = "top" /\ slots' = Counted
      /\ UNCHANGED <<active, box>>
  BY DEF Count, Sound, Starting, docker
<1>2. Busy' = Busy
  BY <1>1 DEF Busy, Alive
<1>3. ASSUME slots' = 0 PROVE Busy = {}
  <2>1. {k \in Living : Heavy(k)} \in SUBSET Backtests
    BY DEF Living
  <2>2. {k \in Living : Heavy(k)} = {}
    BY <1>1, <1>3, <2>1, FiniteSubset, BacktestAssumption, FS_Subset, FS_EmptySet
       DEF Counted
  <2> QED
    BY <1>1, <2>2, Bounds DEF Busy, Living, Heavy
<1> QED
  BY <1>1, <1>2, <1>3 DEF Sound, AtMostOne, Starting

LEMMA SlotOfHarvest ==
    ASSUME TypeOK, Core, Sound, Harvest
    PROVE  Sound'
<1>1. /\ main = "top" /\ main' = "health" /\ UNCHANGED box
      /\ active' = active \ Done
      /\ slots' = IF Freed > slots THEN 0 ELSE slots - Freed
  BY DEF Harvest, docker
<1>2. Busy' \subseteq Busy
  BY <1>1 DEF Busy, Alive
<1>3. Done \cap High \in SUBSET Backtests
  BY Bounds
<1>4. Freed \in Nat /\ slots \in Nat
  BY <1>3, FiniteSubset DEF Freed, TypeOK
<1>5. ASSUME slots' = 0 PROVE Busy' = {}
  <2>1. CASE Freed = 0
    <3>1. slots = 0
      BY <1>1, <1>4, <1>5, <2>1
    <3> QED
      BY <1>1, <1>2, <3>1 DEF Sound, Starting
  <2>2. CASE Freed # 0
    <3>1. Done \cap High # {}
      BY <2>2, FS_EmptySet DEF Freed
    <3>2. PICK d \in Done : d \in High
      BY <3>1
    <3>3. d \in active /\ job[d] = "done" /\ d \in Backtests
      BY <3>2, Bounds DEF Done
    <3>4. d \in Busy /\ ~Alive(d)
      BY <3>2, <3>3 DEF Busy, Core, EndedInv
    <3>5. Busy = {d}
      BY <3>4 DEF Sound, AtMostOne
    <3>6. d \notin Busy'
      BY <1>1, <3>2, <3>4 DEF Busy, Alive
    <3> QED
      BY <1>2, <3>5, <3>6
  <2> QED
    BY <2>1, <2>2
<1> QED
  BY <1>1, <1>2, <1>5 DEF Sound, AtMostOne, Starting

LEMMA SlotOfLaunch ==
    ASSUME TypeOK, Sound, Launch
    PROVE  Sound'
<1>1. /\ main = "launch" /\ main' = "top" /\ UNCHANGED box
      /\ active' = active \cup {cur}
      /\ slots' = IF cur \in High THEN slots + 1 ELSE slots
  BY DEF Launch, docker
<1>2. CASE cur \in High
  <2>1. slots = 0 /\ Busy = {}
    BY <1>1, <1>2 DEF Sound, Starting
  <2>2. Busy' = {cur}
    BY <1>1, <1>2, <2>1 DEF Busy, Alive
  <2>3. slots' # 0
    BY <1>1, <1>2, <2>1
  <2> QED
    BY <1>1, <2>2, <2>3 DEF Sound, AtMostOne, Starting
<1>3. CASE cur \notin High
  <2>1. Busy' = Busy
    BY <1>1, <1>3 DEF Busy, Alive
  <2> QED
    BY <1>1, <1>3, <2>1 DEF Sound, AtMostOne, Starting
<1> QED
  BY <1>2, <1>3

\* A container begins only for a thread whose future the loop holds.
LEMMA FewerBusy ==
    ASSUME TypeOK, Core, [Next]_vars, active' \subseteq active
    PROVE  Busy' \subseteq Busy
<1>1. ASSUME NEW k \in High, Alive(k)', ~Alive(k) PROVE k \in active
  <2>1. k \in Backtests /\ box[k] = "none"
    BY <1>1, Bounds DEF Alive
  <2>2. Begin(k)
    BY <1>1, <2>1, MakesContainer
  <2> QED
    BY <2>1, <2>2 DEF Begin, TypeOK
<1> QED
  BY <1>1 DEF Busy

LEMMA SoundStep == TypeOK /\ Core /\ Sound /\ [Next]_vars => Sound' \/ uncounted'
<1> SUFFICES ASSUME TypeOK, Core, Sound, [Next]_vars PROVE Sound' \/ uncounted'
  OBVIOUS
<1> USE DEF docker, memory, slot, thread, loop, bounds, table
<1>1. ASSUME UNCHANGED <<slots, active, main, cur>> PROVE Sound'
  BY <1>1, FewerBusy, SlotKept
<1>2. UNCHANGED vars => UNCHANGED <<slots, active, main, cur>>
  BY DEF vars
<1>3. ASSUME NEW k \in Backtests,
             \/ Insert(k) \/ Stop(k) \/ Delete(k) \/ BrokerStep(k) \/ Finish(k)
             \/ JobStep(k) \/ Age(k) \/ Killed(k) \/ Refused(k) \/ CallRaises(k)
             \/ RemoveRowRaises(k) \/ FeedLook(k) \/ FeedQueue(k)
      PROVE  UNCHANGED <<slots, active, main, cur>>
  BY <1>3 DEF Insert, Stop, Delete, BrokerStep, Seed, Obey, Finish, JobStep, Begin, Failed,
     RemoveRow, Age, Killed, Refused, CallRaises, RemoveRowRaises, FeedLook, FeedQueue
<1>4. CASE Clean
  <2>1. Busy' \subseteq Busy
    BY <1>4, FewerBusy DEF Clean
  <2> QED
    BY <1>4, <2>1 DEF Clean, Sound, AtMostOne, Starting
<1>5. CASE ListContainers \/ Settle \/ Sweep
  BY <1>5, SlotOfLoop DEF ListContainers, Settle, Sweep, Starting
<1>6. CASE PickDeferred
  <2>1. slots = 0
    BY <1>6 DEF PickDeferred, FromDeferred, SlotFree, MaxHigh, TypeOK
  <2> QED
    BY <1>6, <2>1, SlotOfLoop DEF PickDeferred, Picking, Starting
<1>7. CASE PickQueued
  <2>1. main' = "claim" /\ cur' \in High => slots = 0
    BY <1>7 DEF PickQueued, SlotFree, MaxHigh, TypeOK
  <2>2. main' \in {"top", "claim"}
    BY <1>7 DEF PickQueued
  <2> QED
    BY <1>7, <2>1, <2>2, SlotOfLoop DEF PickQueued, Picking, Starting
<1>8. CASE PickNone \/ PickRaises
  BY <1>8, SlotOfLoop DEF PickNone, PickRaises, Picking, Starting
<1>9. CASE Claim
  BY <1>9, SlotOfLoop DEF Claim, Starting, Sound
<1>10. CASE Pass \/ ClaimRaises \/ LaunchRaises
  BY <1>10, SlotOfLoop DEF Pass, ClaimRaises, LaunchRaises, Again, Starting
<1>11. CASE Restart
  <2>1. active' = {} /\ main' = "clean"
    BY <1>11 DEF Restart
  <2>2. Busy' \subseteq Busy
    BY <2>1, FewerBusy
  <2> QED
    BY <2>1, <2>2 DEF Sound, AtMostOne, Starting
<1>12. CountFails => uncounted'
  BY DEF CountFails
<1> QED
  BY <1>12, <1>1, <1>2, <1>3, <1>4, <1>5, <1>6, <1>7, <1>8, <1>9, <1>10, <1>11,
     SlotOfCount, SlotOfHarvest, SlotOfLaunch
     DEF Next, FeedStep, Turn, Mishap

\* Only a count that fails changes what the engine knows.
LEMMA KeepsCount ==
    ASSUME [Next]_vars, ~CountFails
    PROVE  UNCHANGED uncounted
<1> USE DEF docker, memory, slot, thread, loop, bounds, table
<1>1. ASSUME NEW k \in Backtests,
             \/ Insert(k) \/ Stop(k) \/ Delete(k) \/ BrokerStep(k) \/ Finish(k)
             \/ JobStep(k) \/ Age(k) \/ Killed(k) \/ Refused(k) \/ CallRaises(k)
             \/ RemoveRowRaises(k) \/ FeedLook(k) \/ FeedQueue(k)
      PROVE  UNCHANGED uncounted
  BY <1>1 DEF Insert, Stop, Delete, BrokerStep, Seed, Obey, Finish, JobStep, Begin, Failed,
     RemoveRow, Age, Killed, Refused, CallRaises, RemoveRowRaises, FeedLook, FeedQueue
<1>2. Turn => UNCHANGED uncounted
  BY DEF Turn, Clean, Count, Harvest, ListContainers, Settle, Sweep, PickDeferred,
     PickQueued, PickNone, Claim, Pass, Launch
<1>3. PickRaises \/ ClaimRaises \/ LaunchRaises \/ Restart => UNCHANGED uncounted
  BY DEF PickRaises, ClaimRaises, LaunchRaises, Restart
<1>4. UNCHANGED vars => UNCHANGED uncounted
  BY DEF vars
<1> QED
  BY <1>1, <1>2, <1>3, <1>4 DEF Next, FeedStep, Mishap

\* A count that failed is never made up for.
LEMMA StaysUncounted ==
    ASSUME uncounted, [Next]_vars
    PROVE  uncounted'
BY KeepsCount DEF CountFails

LEMMA SlotStep == TypeOK /\ Core /\ SlotInv /\ [Next]_vars => SlotInv'
BY SoundStep, StaysUncounted DEF SlotInv

\* Heavy backtests run one at a time, across deployments and with containers
\* that a new engine could not remove, if it could count them.
THEOREM OneHeavy == Spec => []HighAlone
<1>1. SlotInv => HighAlone
  <2> SUFFICES ASSUME SlotInv, ~uncounted PROVE Cardinality({k \in High : Alive(k)}) <= 1
    BY DEF HighAlone, MaxHigh
  <2> DEFINE S == {k \in High : Alive(k)}
  <2>1. \A x, y \in S : x = y
    BY DEF SlotInv, Sound, AtMostOne, Busy
  <2>2. S = {} \/ \E x : S = {x}
    BY <2>1
  <2> HIDE DEF S
  <2>3. Cardinality(S) <= 1
    <3>1. S = {} => Cardinality(S) = 0
      BY FS_EmptySet
    <3>2. ASSUME NEW x, S = {x} PROVE Cardinality(S) = 1
      BY <3>2, FS_Singleton
    <3>3. Cardinality(S) \in {0, 1}
      BY <2>2, <3>1, <3>2
    <3> QED
      BY <3>3
  <2> QED
    BY <2>3 DEF S
<1> QED
  BY <1>1, TypeInit, TypeStep, CoreInit, CoreStep, SlotInit, SlotStep, PTL DEF Spec

-----------------------------------------------------------------------------
(***************************************************************************)
(* One life.  Most steps leave every backtest at its stage or end some; a   *)
(* posted one is moved by its claim and by the operator alone.              *)
(***************************************************************************)
Winds ==
    \A k \in Backtests :
        \/ Stage(k)' = Stage(k)
        \/ Stage(k) \in {"due", "runs"} /\ Stage(k)' = "over"

LEMMA WindsLives ==
    ASSUME Winds, UNCHANGED uncounted
    PROVE  Life!Next
<1> DEFINE S == {k \in Backtests : Stage(k)' # Stage(k)}
<1>1. \A k \in S : Stage(k) \in {"due", "runs"} /\ Stage(k)' = "over"
  BY DEF Winds
<1>2. Life!End(S)
  BY <1>1 DEF Life!End
<1> QED
  BY <1>2 DEF Life!Next

LEMMA OneGoes ==
    ASSUME NEW k \in Backtests, NEW to, Stage(k)' = to,
           \A j \in Backtests \ {k} : Stage(j)' = Stage(j), UNCHANGED uncounted
    PROVE  Life!Goes(k, Stage(k), to)
BY DEF Life!Goes

LEMMA SameWinds ==
    UNCHANGED <<row, box, started, job, main, cur>> => Winds
BY DEF Winds, Stage, Due, Alive

\* The loop goes on with no claim in hand.
LEMMA LoopWinds ==
    ASSUME UNCHANGED <<row, box, started, job>>, main # "launch", main' # "launch"
    PROVE  Winds
BY DEF Winds, Stage, Due, Alive

\* The API.
LEMMA ApiLives ==
    ASSUME TypeOK, Core, NEW k \in Backtests, Insert(k) \/ Stop(k) \/ Delete(k),
           UNCHANGED uncounted
    PROVE  Life!Next
<1> USE DEF docker, memory, slot, thread, loop, bounds, table
<1>0. Tabled /\ Boxed /\ Threaded /\ Looped /\ OnceInv
  BY TypeParts DEF Core
<1>1. CASE Insert(k)
  <2>1. \A j \in Backtests \ {k} : Stage(j)' = Stage(j)
    BY <1>0, <1>1 DEF Insert, Stage, Due, Alive, Tabled
  <2>2. Stage(k) = "new" /\ Stage(k)' = "posted"
    BY <1>0, <1>1 DEF Insert, Stage, Alive, OnceInv, Fresh, Tabled
  <2>3. Life!Post(k)
    BY <2>1, <2>2, OneGoes DEF Life!Post
  <2> QED
    BY <2>3 DEF Life!Next
<1>2. CASE Stop(k)
  BY <1>2, SameWinds, WindsLives DEF Stop
<1>3. CASE Delete(k) /\ row[k] = "pending"
  <2>1. \A j \in Backtests \ {k} : Stage(j)' = Stage(j)
    BY <1>0, <1>3 DEF Delete, Stage, Due, Alive, Tabled
  <2>2. Fresh(k) /\ ~Alive(k) /\ ~(main = "launch" /\ cur = k)
    BY <1>0, <1>3 DEF OnceInv, Fresh
  <2>3. Stage(k) = "posted" /\ Stage(k)' = "over"
    BY <1>0, <1>3, <2>2 DEF Delete, Stage, Due, Alive, Fresh, Tabled
  <2>4. Life!Withdraw(k)
    BY <2>1, <2>3, OneGoes DEF Life!Withdraw
  <2> QED
    BY <2>4 DEF Life!Next
<1>4. CASE Delete(k) /\ row[k] = "running"
  <2>1. Winds
    BY <1>0, <1>4 DEF Delete, Winds, Stage, Due, Alive, Tabled
  <2> QED
    BY <2>1, WindsLives
<1> QED
  BY <1>1, <1>2, <1>3, <1>4 DEF Delete

\* A container is made for a claimed backtest, and a heavy one's is alone.
LEMMA BeginLives ==
    ASSUME TypeOK, Core, SlotInv, NEW k \in Backtests, Begin(k), UNCHANGED uncounted
    PROVE  Life!Next
<1> USE DEF docker, memory, slot, thread, loop, bounds, table
<1>0. Tabled /\ Boxed /\ Threaded /\ Looped /\ OnceInv
  BY TypeParts DEF Core
<1>1. job[k] = "queued" /\ k \notin started /\ ~Alive(k) /\ k \in active
  BY <1>0 DEF Begin, OnceInv, Threaded
<1>2. \A j \in Backtests \ {k} : Stage(j)' = Stage(j)
  BY <1>0, <1>1 DEF Begin, Stage, Due, Alive, Boxed, Threaded
<1>3. Stage(k) = "due" /\ Stage(k)' = "runs"
  BY <1>0, <1>1 DEF Begin, Stage, Due, Alive, OnceInv, Fresh, Boxed
<1>4. Life!Goes(k, "due", "runs")
  BY <1>2, <1>3, OneGoes
<1>5. ASSUME k \in High, ~uncounted, NEW j \in High PROVE Stage(j) # "runs"
  <2>1. Alive(j) => j = k
    BY <1>1, <1>5 DEF SlotInv, Sound, AtMostOne, Busy
  <2> QED
    BY <1>1, <2>1 DEF Stage
<1>6. Life!Begin(k)
  BY <1>4, <1>5, Bounds DEF Life!Begin
<1> QED
  BY <1>6 DEF Life!Next

\* The brokers, and the threads that run them.
LEMMA ThreadWinds ==
    ASSUME TypeOK, Core, NEW k \in Backtests,
           \/ Seed(k) \/ Obey(k) \/ Finish(k) \/ Killed(k) \/ Age(k)
           \/ Refused(k) \/ CallRaises(k) \/ Failed(k) \/ RemoveRow(k) \/ RemoveRowRaises(k)
           \/ FeedLook(k) \/ FeedQueue(k)
    PROVE  Winds
<1> USE DEF docker, memory, slot, thread, loop, bounds, table
<1>0. Tabled /\ Boxed /\ Threaded /\ Looped /\ OnceInv
  BY TypeParts DEF Core
<1>1. CASE Age(k) \/ FeedLook(k) \/ FeedQueue(k)
  BY <1>1, SameWinds DEF Age, FeedLook, FeedQueue
<1>2. CASE Seed(k)
  BY <1>0, <1>2 DEF Seed, Winds, Stage, Due, Alive, Boxed
<1>3. CASE Obey(k)
  BY <1>0, <1>3 DEF Obey, Told, Returns, Winds, Stage, Due, Alive, Tabled, Boxed, Threaded, OnceInv, Fresh
<1>4. CASE Finish(k) \/ Killed(k)
  BY <1>0, <1>4 DEF Finish, Killed, Returns, Winds, Stage, Due, Alive, Boxed, Threaded, OnceInv, Fresh
<1>5. CASE Refused(k) \/ CallRaises(k)
  BY <1>0, <1>5 DEF Refused, CallRaises, Winds, Stage, Due, Alive, Threaded, OnceInv, Fresh
<1>6. CASE Failed(k)
  BY <1>0, <1>6 DEF Failed, Winds, Stage, Due, Alive, Boxed, Threaded, OnceInv, Fresh
<1>7. CASE RemoveRow(k) \/ RemoveRowRaises(k)
  BY <1>0, <1>7 DEF RemoveRow, RemoveRowRaises, Forget, Winds, Stage, Due, Alive, Tabled,
     Threaded, OnceInv, Fresh
<1> QED
  BY <1>1, <1>2, <1>3, <1>4, <1>5, <1>6, <1>7

\* The loop and a deployment, where they claim nothing.
LEMMA TurnWinds ==
    ASSUME TypeOK, Core, (Turn /\ ~Claim) \/ PickRaises \/ LaunchRaises \/ Restart
    PROVE  Winds
<1> USE DEF docker, memory, slot, thread, loop, bounds, table
<1>0. Tabled /\ Boxed /\ Threaded /\ Looped /\ OnceInv
  BY TypeParts DEF Core
<1>1. CASE Count \/ Harvest \/ ListContainers \/ Sweep
  BY <1>1, LoopWinds DEF Count, Harvest, ListContainers, Sweep
<1>2. CASE PickDeferred \/ PickQueued \/ PickNone \/ PickRaises \/ Pass
  BY <1>2, LoopWinds DEF PickDeferred, PickQueued, PickNone, PickRaises, Pass, Picking
<1>3. CASE Clean
  BY <1>0, <1>3 DEF Clean, Winds, Stage, Due, Alive, Boxed, OnceInv, Fresh
<1>4. CASE Settle
  BY <1>0, <1>4 DEF Settle, Missing, Winds, Stage, Due, Alive, Tabled, OnceInv, Fresh
<1>5. CASE Launch
  BY <1>0, <1>5 DEF Launch, Winds, Stage, Due, Alive, Threaded, Looped, OnceInv, Fresh
<1>6. CASE LaunchRaises
  BY <1>0, <1>6 DEF LaunchRaises, Again, Winds, Stage, Due, Alive, Looped, OnceInv, Fresh
<1>7. CASE Restart
  BY <1>0, <1>7 DEF Restart, Winds, Stage, Due, Alive, Tabled, Threaded, OnceInv, Fresh
<1> QED
  BY <1>1, <1>2, <1>3, <1>4, <1>5, <1>6, <1>7 DEF Turn

\* A claim, whether or not an exception follows it.
LEMMA ClaimLives ==
    ASSUME TypeOK, Core, Claim \/ ClaimRaises, UNCHANGED uncounted
    PROVE  Life!Next
<1> USE DEF docker, memory, slot, thread, loop, bounds, table
<1>0. Tabled /\ Boxed /\ Threaded /\ Looped /\ OnceInv
  BY TypeParts DEF Core
<1>1. main = "claim" /\ cur \in Backtests /\ UNCHANGED <<box, started, job>>
  BY <1>0 DEF Claim, ClaimRaises, Looped
<1>2. CASE ClaimRaises /\ UNCHANGED table
  BY <1>1, <1>2, LoopWinds, WindsLives DEF ClaimRaises, Again
<1>3. CASE Claimable /\ Claims /\ (main' = "launch" => cur' = cur)
  <2>1. \A j \in Backtests \ {cur} : Stage(j)' = Stage(j)
    BY <1>0, <1>1, <1>3 DEF Claims, Stage, Due, Alive, Tabled
  <2>2. Stage(cur) = "posted"
    BY <1>0, <1>1, <1>3 DEF Claimable, Stage, Alive, OnceInv, Fresh
  <2>3. \A j \in Backtests : j = cur => Stage(j)' = "due"
    BY <1>0, <1>1, <1>3 DEF Claimable, Claims, Stage, Due, Alive, OnceInv, Fresh, Tabled
  <2>4. \A k \in Backtests : k = cur => Life!Claim(k)
    <3> SUFFICES ASSUME NEW k \in Backtests, k = cur PROVE Life!Claim(k)
      OBVIOUS
    <3>1. Stage(k) = "posted" /\ Stage(k)' = "due"
      BY <2>2, <2>3
    <3>2. \A j \in Backtests \ {k} : Stage(j)' = Stage(j)
      BY <2>1
    <3> QED
      BY <3>1, <3>2, OneGoes DEF Life!Claim
  <2> QED
    BY <1>1, <2>4 DEF Life!Next
<1> QED
  BY <1>2, <1>3 DEF Claim, ClaimRaises, Again

LEMMA LifeStep ==
    ASSUME TypeOK, Core, SlotInv, [Next]_vars
    PROVE  [Life!Next]_(Life!seen)
<1>1. CASE CountFails
  <2>1. \A k \in Backtests : Stage(k)' = Stage(k)
    BY <1>1 DEF CountFails, docker, table, thread, Stage, Due, Alive
  <2>2. Life!LoseCount
    BY <1>1, <2>1 DEF CountFails, Life!LoseCount
  <2> QED
    BY <2>2 DEF Life!Next
<1>2. CASE ~CountFails
  <2>1. UNCHANGED uncounted
    BY <1>2, KeepsCount
  <2>2. CASE UNCHANGED vars
    BY <2>1, <2>2, SameWinds, WindsLives
       DEF vars, table, docker, thread, loop
  <2>3. ASSUME NEW k \in Backtests, Insert(k) \/ Stop(k) \/ Delete(k) PROVE Life!Next
    BY <2>1, <2>3, ApiLives
  <2>4. ASSUME NEW k \in Backtests, Begin(k) PROVE Life!Next
    BY <2>1, <2>4, BeginLives
  <2>5. ASSUME NEW k \in Backtests,
               \/ BrokerStep(k) \/ Finish(k) \/ (JobStep(k) /\ ~Begin(k)) \/ Age(k)
               \/ Killed(k) \/ Refused(k) \/ CallRaises(k) \/ RemoveRowRaises(k)
               \/ FeedLook(k) \/ FeedQueue(k)
        PROVE  Life!Next
    BY <2>1, <2>5, ThreadWinds, WindsLives DEF BrokerStep, JobStep
  <2>6. (Turn /\ ~Claim) \/ PickRaises \/ LaunchRaises \/ Restart => Life!Next
    BY <2>1, TurnWinds, WindsLives
  <2>7. Claim \/ ClaimRaises => Life!Next
    BY <2>1, ClaimLives
  <2> QED
    BY <1>2, <2>2, <2>3, <2>4, <2>5, <2>6, <2>7 DEF Next, FeedStep, Mishap
<1> QED
  BY <1>1, <1>2

\* BacktestQueue implements BacktestLife, with any backtests, failed calls, killed
\* containers and deployments: no posted backtest is lost before its claim, none
\* that was withdrawn is ever started, a claim leads to one run at most, and heavy
\* ones run one at a time while the engine could count them.
THEOREM ImplementsBacktestLife == Spec => LivesOnce
<1>1. Init => Life!Init
  <2> SUFFICES ASSUME Init PROVE Life!Init
    OBVIOUS
  <2>1. \A k \in Backtests : Stage(k) = "new"
    BY DEF Init, Stage, Alive
  <2> QED
    BY <2>1 DEF Init, Life!Init
<1>2. TypeOK /\ Core /\ SlotInv /\ [Next]_vars => [Life!Next]_(Life!seen)
  BY LifeStep
<1> QED
  BY <1>1, <1>2, TypeInit, TypeStep, CoreInit, CoreStep, SlotInit, SlotStep, PTL
     DEF Spec, LivesOnce, Life!Spec
=============================================================================
