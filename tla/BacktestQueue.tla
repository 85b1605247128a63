--------------------------- MODULE BacktestQueue ---------------------------
(***************************************************************************)
(* The backtest engine (engines/backtest_engine.py), the brokers it starts  *)
(* and the API's calls.                                                     *)
(*                                                                         *)
(* A backtest is a row of BacktestInstances.  The feed's thread and the     *)
(* main loop's sweep put pending rows on a queue, each once; the main loop  *)
(* claims a row, submits a thread that runs its container, and gives the    *)
(* only slot for heavy backtests to one at a time.  Every two minutes it    *)
(* compares the running rows with Docker's containers.  The row is deleted  *)
(* when the backtest is over.                                               *)
(*                                                                         *)
(* Left out: the results, pausing, stop-all, the CPU gate.                  *)
(***************************************************************************)
EXTENDS Integers, Sequences, FiniteSets, SequencesExt

CONSTANTS
    Backtests,
    High,         \* those with a strategy of difficulty 8 or more
    Nobody,
    MaxFaults,    \* bound: calls that fail, containers that are killed
    MaxRestarts   \* bound: deployments of the engine

ASSUME BacktestAssumption ==
    /\ High \subseteq Backtests /\ IsFiniteSet(Backtests)
    /\ Nobody \notin Backtests
    /\ MaxFaults \in Nat /\ MaxRestarts \in Nat

VARIABLES
    row,       \* [Backtests -> "new", "pending", "running" or "gone"]
    stop,      \* rows with run = False
    box,       \* [Backtests -> the container and its broker]
    started,   \* those that had a container
    ids,       \* _queued_or_active_ids
    queue, deferred,
    slots,     \* _high_difficulty_running
    active,    \* futures not harvested yet
    uncounted, \* history: an engine started without a count of its survivors
    launch,    \* [Backtests -> age of its _container_launch_times]
    job,       \* [Backtests -> where its run_one_backtest is]
    main, cur, \* where the main loop is, and with which row
    names,     \* Docker's containers as the health check listed them
    news,      \* pending rows the feed's thread has read and will queue
    faults, restarts

table  == <<row, stop>>
docker == <<box, started>>
memory == <<ids, queue, deferred>>
slot   == <<slots, active, uncounted>>
thread == <<launch, job>>
loop   == <<main, cur, names>>
bounds == <<faults, restarts>>
vars == <<table, docker, memory, slot, thread, loop, news, bounds>>

-----------------------------------------------------------------------------
MaxHigh   == 1   \* MAX_CONCURRENT_HIGH_DIFFICULTY
Alive(k)  == box[k] # "none"
Living    == {k \in Backtests : Alive(k)}

\* (Mutation: the sweep goes by what the feed has seen.)
PendingSeen == {k \in news : row[k] = "pending"}

Pending   == {k \in Backtests : row[k] = "pending"}
NoFault   == UNCHANGED bounds
Fault     == faults < MaxFaults /\ faults' = faults + 1 /\ UNCHANGED restarts

Init ==
    /\ row = [k \in Backtests |-> "new"] /\ stop = {}
    /\ box = [k \in Backtests |-> "none"] /\ started = {}
    /\ ids = {} /\ queue = <<>> /\ deferred = <<>>
    /\ slots = 0 /\ active = {} /\ uncounted = FALSE
    /\ launch = [k \in Backtests |-> "none"]
    /\ job = [k \in Backtests |-> "none"]
    /\ main = "clean" /\ cur = Nobody /\ names = {}
    /\ news = {}
    /\ faults = 0 /\ restarts = 0

-----------------------------------------------------------------------------
\* The API (interactive_utils.py).

Insert(k) ==
    /\ row[k] = "new"
    /\ row' = [row EXCEPT ![k] = "pending"]
    /\ UNCHANGED <<stop, docker, memory, slot, thread, loop, news, bounds>>

Stop(k) ==
    /\ row[k] = "running" /\ k \notin stop
    /\ stop' = stop \cup {k}
    /\ UNCHANGED <<row, docker, memory, slot, thread, loop, news, bounds>>

Delete(k) ==
    /\ row[k] \in {"pending", "running"}
    /\ row' = [row EXCEPT ![k] = "gone"] /\ stop' = stop \ {k}
    /\ UNCHANGED <<docker, memory, slot, thread, loop, news, bounds>>

-----------------------------------------------------------------------------
\* A broker in its container (broker.py).  Once it is set up it watches its own
\* row, without a look at what the row says then, and ends by itself or when
\* the watch reports run = False or the row's removal.

\* The thread that waits for the container.
Returns(k, how) ==
    /\ box' = [box EXCEPT ![k] = "none"]
    /\ job' = IF job[k] = "running" THEN [job EXCEPT ![k] = how] ELSE job

\* What the watcher finds is what it compares with.
Seed(k) ==
    /\ box[k] = "boot"
    /\ box' = [box EXCEPT ![k] = IF row[k] = "gone" THEN "alone"
                                 ELSE IF k \in stop THEN "unaware" ELSE "aware"]
    /\ UNCHANGED <<table, started, memory, slot, thread, loop,
                   news, bounds>>

Told(k) ==
    \/ box[k] = "aware" /\ (k \in stop \/ row[k] = "gone")
    \/ box[k] = "unaware" /\ row[k] = "gone"

Obey(k) ==
    /\ Told(k)
    /\ row' = [row EXCEPT ![k] = "gone"] /\ stop' = stop \ {k}
    /\ Returns(k, "returned")
    /\ UNCHANGED <<started, memory, slot, launch, loop, news, bounds>>

Finish(k) ==
    /\ box[k] \in {"aware", "unaware", "alone"}
    /\ Returns(k, "returned")
    /\ UNCHANGED <<table, started, memory, slot, launch, loop, news, bounds>>

\* Out of memory.
Killed(k) ==
    /\ Alive(k) /\ Fault
    /\ Returns(k, "failed")
    /\ UNCHANGED <<table, started, memory, slot, launch, loop, news>>

-----------------------------------------------------------------------------
\* run_one_backtest, a thread of the pool.

Begin(k) ==
    /\ job[k] = "queued"
    /\ IF Alive(k)
       THEN job' = [job EXCEPT ![k] = "returned"] /\ UNCHANGED docker
       ELSE /\ job' = [job EXCEPT ![k] = "running"]
            /\ box' = [box EXCEPT ![k] = "boot"]
            /\ started' = started \cup {k}
    /\ UNCHANGED <<table, memory, slot, launch, loop, news, bounds>>

\* No Docker, no image, an invalid row.
Refused(k) ==
    /\ job[k] = "queued" /\ Fault
    /\ job' = [job EXCEPT ![k] = "returned"]
    /\ UNCHANGED <<table, docker, memory, slot, launch, loop, news>>

\* The call that waits for the container raises while it runs on.
CallRaises(k) ==
    /\ job[k] = "running" /\ Fault
    /\ job' = [job EXCEPT ![k] = "failed"]
    /\ UNCHANGED <<table, docker, memory, slot, launch, loop, news>>

\* The container is removed, which is taken to succeed.
Failed(k) ==
    /\ job[k] = "failed"
    /\ box' = [box EXCEPT ![k] = "none"]
    /\ job' = [job EXCEPT ![k] = "returned"]
    /\ UNCHANGED <<table, started, memory, slot, launch, loop, news,
                   bounds>>

\* _remove_row_and_mark_done.
Forget(k) ==
    /\ ids' = ids \ {k}
    /\ launch' = [launch EXCEPT ![k] = "none"]

RemoveRow(k) ==
    /\ job[k] = "returned"
    /\ row' = [row EXCEPT ![k] = "gone"] /\ stop' = stop \ {k}
    /\ Forget(k)
    /\ job' = [job EXCEPT ![k] = "done"]
    /\ UNCHANGED <<docker, queue, deferred, slot, loop, news, bounds>>

RemoveRowRaises(k) ==
    /\ job[k] = "returned" /\ Fault
    /\ Forget(k)
    /\ job' = [job EXCEPT ![k] = "done"]
    /\ UNCHANGED <<table, docker, queue, deferred, slot, loop, news>>

-----------------------------------------------------------------------------
\* The feed's thread queues the rows it has listed or its watcher reports
\* (ChangeWatch), which by then may be claimed, gone or queued.  It need not
\* report a row: one inserted between its listing and the watcher's first look
\* it never does.

Starting == main \in {"clean", "count"}

FeedLook(k) ==
    /\ ~Starting /\ row[k] = "pending" /\ k \notin news
    /\ news' = news \cup {k}
    /\ UNCHANGED <<table, docker, memory, slot, thread, loop, bounds>>

\* Each row that is not queued or active yet.
Queue(S) ==
    /\ ids' = ids \cup S
    /\ queue' = queue \o SetToSeq(S \ ids)
    /\ UNCHANGED deferred

FeedQueue(k) ==
    /\ k \in news
    /\ news' = news \ {k}
    /\ Queue({k})
    /\ UNCHANGED <<table, docker, slot, thread, loop, bounds>>

-----------------------------------------------------------------------------
\* The start of the engine: remove the containers of the process before,
\* count those that are left, queue what is pending.

Clean ==
    /\ main = "clean" /\ main' = "count"
    /\ \E left \in SUBSET Living :
          /\ box' = [k \in Backtests |-> IF k \in left THEN box[k] ELSE "none"]
          /\ IF left = {} THEN NoFault ELSE Fault
    /\ UNCHANGED <<table, started, memory, slot, thread, cur, names, news>>

\* A container without a row counts as heavy.
Heavy(k) == k \in High \/ row[k] = "gone"

\* (Mutation: the counter lives in memory only.)
CountedNone == 0

Counted == Cardinality({k \in Living : Heavy(k)})

Count ==
    /\ main = "count" /\ main' = "top"
    /\ slots' = Counted
    /\ Queue(Pending)
    /\ UNCHANGED <<table, docker, active, uncounted, thread, cur, names, news,
                   bounds>>

\* Docker or the database cannot be asked: the counter stays at zero.
CountFails ==
    /\ main = "count" /\ main' = "top" /\ Fault
    /\ uncounted' = TRUE
    /\ Queue(Pending)
    /\ UNCHANGED <<table, docker, slots, active, thread, cur, names, news>>

-----------------------------------------------------------------------------
\* The main loop.

\* (Mutation: every future is taken for done.)
DoneAll == active

Done == {k \in active : job[k] = "done"}

Freed == Cardinality(Done \cap High)

Harvest ==
    /\ main = "top" /\ main' = "health"
    /\ active' = active \ Done
    /\ slots' = IF Freed > slots THEN 0 ELSE slots - Freed
    /\ UNCHANGED <<table, docker, memory, uncounted, thread, cur, names, news,
                   bounds>>

ListContainers ==
    /\ main = "health" /\ main' = "settle"
    /\ names' = Living
    /\ UNCHANGED <<table, docker, memory, slot, thread, cur, news, bounds>>

\* (Mutation: no grace period.)
MissingAtOnce == {k \in Backtests : row[k] = "running" /\ k \notin names}

\* The running rows without a container in that list, unless just launched.
Missing ==
    {k \in Backtests : row[k] = "running" /\ k \notin names /\ launch[k] # "fresh"}

Settle ==
    /\ main = "settle" /\ main' = "sweep" /\ names' = {}
    /\ row' = [k \in Backtests |-> IF k \in Missing THEN "gone" ELSE row[k]]
    /\ stop' = stop \ Missing
    /\ ids' = ids \ Missing
    /\ launch' = [k \in Backtests |-> IF k \in Missing THEN "none" ELSE launch[k]]
    /\ UNCHANGED <<docker, queue, deferred, slot, job, cur, news, bounds>>

Sweep ==
    /\ main \in {"health", "sweep"} /\ main' = "pick"
    /\ Queue(Pending)
    /\ UNCHANGED <<table, docker, slot, thread, cur, names, news, bounds>>

\* The check and the sweep are not due in every turn.
Picking == main \in {"health", "sweep", "pick"}

SlotFree == slots < MaxHigh
FromDeferred == deferred # <<>> /\ SlotFree

PickDeferred ==
    /\ Picking /\ FromDeferred
    /\ cur' = Head(deferred) /\ deferred' = Tail(deferred)
    /\ main' = "claim"
    /\ UNCHANGED <<table, docker, ids, queue, slot, thread, names, news,
                   bounds>>

PickQueued ==
    /\ Picking /\ ~FromDeferred /\ queue # <<>>
    /\ queue' = Tail(queue)
    /\ IF Head(queue) \in High /\ ~SlotFree
       THEN /\ deferred' = Append(deferred, Head(queue))
            /\ main' = "top" /\ UNCHANGED cur
       ELSE /\ cur' = Head(queue) /\ main' = "claim" /\ UNCHANGED deferred
    /\ UNCHANGED <<table, docker, ids, slot, thread, names, news, bounds>>

PickNone ==
    /\ Picking /\ ~FromDeferred /\ queue = <<>>
    /\ main' = "top"
    /\ UNCHANGED <<table, docker, memory, slot, thread, cur, names, news,
                   bounds>>

\* The row's strategies cannot be read.
PickRaises ==
    /\ Picking /\ Fault /\ main' = "top"
    /\ \/ FromDeferred /\ UNCHANGED queue
       \/ ~FromDeferred /\ queue # <<>> /\ queue' = Append(Tail(queue), Head(queue))
    /\ UNCHANGED <<table, docker, ids, deferred, slot, thread, cur, names, news>>

\* A row whose turn ends in an exception waits for another one.
Again ==
    /\ main' = "top" /\ cur' = Nobody
    /\ IF cur \in High
       THEN deferred' = <<cur>> \o deferred /\ UNCHANGED queue
       ELSE queue' = Append(queue, cur) /\ UNCHANGED deferred

\* (Mutation: the update names the row alone.)
ClaimableAny == row[cur] # "gone"

Claimable == row[cur] = "pending"

Claims ==
    /\ row' = [row EXCEPT ![cur] = "running"]
    /\ stop' = stop \ {cur}

Claim ==
    /\ main = "claim" /\ Claimable
    /\ Claims
    /\ main' = "launch"
    /\ UNCHANGED <<docker, memory, slot, thread, cur, names, news, bounds>>

\* Someone else has the row, or it was removed.
Pass ==
    /\ main = "claim" /\ ~Claimable
    /\ ids' = ids \ {cur}
    /\ main' = "top" /\ cur' = Nobody
    /\ UNCHANGED <<table, docker, queue, deferred, slot, thread, names,
                   news, bounds>>

\* The exception may come before the claim or, from the result's row, after.
ClaimRaises ==
    /\ main = "claim" /\ Fault
    /\ \/ UNCHANGED table
       \/ Claimable /\ Claims
    /\ Again
    /\ UNCHANGED <<docker, ids, slot, thread, names, news>>

Launch ==
    /\ main = "launch"
    /\ launch' = [launch EXCEPT ![cur] = "fresh"]
    /\ job' = [job EXCEPT ![cur] = "queued"]
    /\ active' = active \cup {cur}
    /\ slots' = IF cur \in High THEN slots + 1 ELSE slots
    /\ main' = "top" /\ cur' = Nobody
    /\ UNCHANGED <<table, docker, memory, uncounted, names, news, bounds>>

LaunchRaises ==
    /\ main = "launch" /\ Fault
    /\ launch' = [launch EXCEPT ![cur] = "fresh"]
    /\ Again
    /\ UNCHANGED <<table, docker, ids, slot, job, names, news>>

\* CONTAINER_LAUNCH_GRACE_SEC pass; a submitted thread starts sooner, and a
\* check that began before a container takes less.
Age(k) ==
    /\ launch[k] = "fresh" /\ job[k] # "queued"
    /\ main = "settle" /\ Alive(k) => k \in names
    /\ launch' = [launch EXCEPT ![k] = "old"]
    /\ UNCHANGED <<table, docker, memory, slot, job, loop, news, bounds>>

\* A deployment: a new process, the containers of the old one run on.
Restart ==
    /\ restarts < MaxRestarts /\ restarts' = restarts + 1 /\ UNCHANGED faults
    /\ ids' = {} /\ queue' = <<>> /\ deferred' = <<>>
    /\ slots' = 0 /\ active' = {}
    /\ launch' = [k \in Backtests |-> "none"]
    /\ job' = [k \in Backtests |-> "none"]
    /\ main' = "clean" /\ cur' = Nobody /\ names' = {}
    /\ news' = {}
    /\ UNCHANGED <<table, docker, uncounted>>

-----------------------------------------------------------------------------
Turn ==
    \/ Clean \/ Count
    \/ Harvest \/ ListContainers \/ Settle
    \/ Sweep
    \/ PickDeferred \/ PickQueued \/ PickNone
    \/ Claim \/ Pass \/ Launch

JobStep(k) == Begin(k) \/ Failed(k) \/ RemoveRow(k)

BrokerStep(k) == Seed(k) \/ Obey(k)

FeedStep == \E k \in Backtests : FeedLook(k) \/ FeedQueue(k)

Mishap ==
    \/ \E k \in Backtests :
          Killed(k) \/ Refused(k) \/ CallRaises(k) \/ RemoveRowRaises(k)
    \/ CountFails \/ PickRaises \/ ClaimRaises \/ LaunchRaises

Next ==
    \/ \E k \in Backtests :
          \/ Insert(k) \/ Stop(k) \/ Delete(k)
          \/ BrokerStep(k) \/ Finish(k)
          \/ JobStep(k) \/ Age(k)
    \/ FeedStep \/ Turn \/ Mishap \/ Restart

Spec == Init /\ [][Next]_vars

\* The main loop runs on and its two timers are due again and again, threads,
\* brokers and the clock go on; the feed need not deliver.
Looping == WF_vars(Turn) /\ SF_vars(ListContainers) /\ SF_vars(Sweep)

Work(k) == JobStep(k) \/ BrokerStep(k) \/ Age(k)

FairSpec == Spec /\ Looping /\ WF_vars(\E k \in Backtests : Work(k) \/ Finish(k))

\* The same with simulations that may take any time.
LongSpec == Spec /\ Looping /\ WF_vars(\E k \in Backtests : Work(k))

-----------------------------------------------------------------------------
\* Every variable holds values of its kind, the loop has a row in hand exactly
\* while it claims or launches one, and knows every thread that is not done.
TypeOK ==
    /\ row \in [Backtests -> {"new", "pending", "running", "gone"}]
    /\ stop \subseteq {k \in Backtests : row[k] = "running"}
    /\ box \in [Backtests -> {"none", "boot", "aware", "unaware", "alone"}]
    /\ started \subseteq Backtests
    /\ ids \subseteq Backtests
    /\ queue \in Seq(Backtests) /\ deferred \in Seq(High)
    /\ slots \in Nat /\ active \subseteq Backtests /\ uncounted \in BOOLEAN
    /\ launch \in [Backtests -> {"none", "fresh", "old"}]
    /\ job \in [Backtests -> {"none", "queued", "running", "failed", "returned",
                              "done"}]
    /\ {k \in Backtests : job[k] \notin {"none", "done"}} \subseteq active
    /\ main \in {"clean", "count", "top", "health", "settle", "sweep", "pick", "claim", "launch"}
    /\ IF main \in {"claim", "launch"} THEN cur \in Backtests ELSE cur = Nobody
    /\ names \subseteq Backtests
    /\ news \subseteq Backtests
    /\ faults \in 0..MaxFaults /\ restarts \in 0..MaxRestarts

\* Heavy backtests run one at a time, across deployments and with containers
\* that a new engine could not remove, if it could count them.
HighAlone == ~uncounted => Cardinality({k \in High : Alive(k)}) <= MaxHigh

\* A backtest is started once, however often it is queued, re-queued or swept
\* up and by whomever, and whatever is restarted.
LaunchedOnce ==
    [][\A k \in Backtests : box[k] = "none" /\ Alive(k)' => k \notin started]_vars

\* Where a backtest is in its life: due from its claim on, while its row or a
\* thread may still bring it to a container.
Due(k) == row[k] = "running" \/ job[k] = "queued" \/ (main = "launch" /\ cur = k)

Stage(k) ==
    IF Alive(k) THEN "runs"
    ELSE IF k \in started THEN "over"
    ELSE IF row[k] = "new" THEN "new"
    ELSE IF row[k] = "pending" THEN "posted"
    ELSE IF Due(k) THEN "due" ELSE "over"

Life == INSTANCE BacktestLife
           WITH life <- [k \in Backtests |-> Stage(k)], counted <- ~uncounted

\* What failed calls, threads, killed containers and deployments do to it, a
\* backtest has one life: no posted one is lost before its claim, none that was
\* withdrawn is ever started, a claim leads to one run at most, and heavy ones
\* run one at a time while the engine could count them.
LivesOnce == Life!Spec

\* A living backtest loses its row to the operator alone: neither to the check,
\* whose list of containers may be old, nor to a thread that gave up on it.
LiveKeepsItsRow ==
    [][\A k \in Backtests :
          row[k] = "running" /\ row'[k] = "gone" /\ Alive(k)' => Delete(k)]_vars

\* The slots taken are those of the engine's own heavy backtests; a container
\* that a new engine could not remove keeps its slot for good.
SlotsReturn == [](slots <= Cardinality(active \cap High))

\* Every backtest leaves the queue: it is run, or settled when its container,
\* its thread, its feed's event or the engine was lost.
QueueDrains ==
    SlotsReturn => \A k \in Backtests :
        row[k] \in {"pending", "running"} ~> row[k] = "gone"

\* "When run=false (stop requested): set BacktestResults status to stopped,
\* remove row from BacktestInstances, and exit immediately" (broker.py:6617).
StopEnds == \A k \in Backtests : k \in stop ~> ~Alive(k)
=============================================================================
