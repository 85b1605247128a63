-------------------------- MODULE InstanceProcess --------------------------
(***************************************************************************)
(* The supervisor of one trading instance (instance.py): the process that   *)
(* starts the instance's broker, replaces it when the tickers change,       *)
(* restarts it when it exits, and gives up in a crash it holds open.        *)
(*                                                                         *)
(*   main    starts the first broker, restarts an exited one, and blocks    *)
(*           after a crash until the operator presses Stop                  *)
(*   stocks  a thread that replaces the broker when its row is edited       *)
(*   stop    a thread that ends the process when Stop is pressed            *)
(*                                                                         *)
(* main and stocks both run start_broker, on the global broker_process and  *)
(* without a lock.  A broker is a process of its own: told to terminate, it *)
(* goes on for a while.                                                     *)
(***************************************************************************)
EXTENDS Integers, Sequences, FiniteSets

CONSTANTS
    MaxRestarts,  \* CRASH_LOOP_MAX_RESTARTS
    MaxEdits,     \* bound: edits of the tickers
    MaxExits,     \* bound: brokers that exit of themselves
    MaxFaults,    \* bound: starts that are refused or fail, feeds lost for good
    MaxStarts     \* bound: brokers started

ASSUME InstanceAssumption ==
    {MaxRestarts, MaxEdits, MaxExits, MaxFaults, MaxStarts} \subseteq Nat

VARIABLES
    runCommand, stocks,  \* the Instances row; stocks counts the edits
    inbox, sent,         \* changes queued for the stocks thread, the last one
    current,             \* current_symbols
    brokers,             \* every broker started: its state and its tickers
    proc,                \* broker_process, 0 for None
    at,                  \* where each thread is
    seen,                \* the broker a thread waits for
    entered, latched,    \* _crash_entered, _crash_loop_latched
    recent,              \* starts of the last minute
    up,                  \* the supervisor runs
    raced,               \* history: a start overlapped a start, or a crash
    spawned,             \* history: brokers of the last minute
    exits, faults

row   == <<runCommand, stocks>>
feed  == <<inbox, sent>>
crash == <<entered, latched>>
vars == <<row, feed, current, brokers, proc, at, seen, crash, recent, up,
          raced, spawned, exits, faults>>

-----------------------------------------------------------------------------
Starters == {"main", "stocks"}
Threads  == Starters \cup {"stop"}
Inside   == {"enter", "wait", "waiting", "count", "load", "spawn", "watchdog"}
Places   == Inside \cup {"off", "boot", "loop", "idle", "crash", "terminate",
                         "held", "gone"}

Poll(b) == brokers[b].state
Running(b) == Poll(b) \in {"alive", "dying"}
Alive == {b \in DOMAIN brokers : Poll(b) = "alive"}

\* brokers after b was told to terminate
Terminated(b) ==
    IF b # 0 /\ Poll(b) = "alive"
    THEN [brokers EXCEPT ![b] = [state |-> "dying", stocks |-> brokers[b].stocks]]
    ELSE brokers

Fault == faults < MaxFaults /\ faults' = faults + 1

Goto(t, place) == at' = [at EXCEPT ![t] = place]

\* start_broker returns.  The two threads are started after main's first.
Returns(t) ==
    at' = [u \in Threads |->
              IF u = t THEN IF t = "main" THEN "loop" ELSE "idle"
              ELSE IF at[u] = "off" THEN "idle" ELSE at[u]]

\* It raises: main's handlers trip the crash, the stocks thread logs.
Raises(t) == Goto(t, IF t = "main" THEN "crash" ELSE "idle")

Overlaps(t) == raced' = (raced \/ \E u \in Starters \ {t} : at[u] \in Inside)

Init ==
    /\ runCommand = TRUE /\ stocks = 0
    /\ inbox = <<>> /\ sent = -1 /\ current = 0
    /\ brokers = <<>> /\ proc = 0
    /\ at = [t \in Threads |-> IF t = "main" THEN "boot" ELSE "off"]
    /\ seen = [t \in Starters |-> 0]
    /\ entered = FALSE /\ latched = FALSE /\ recent = 0
    /\ up = TRUE /\ raced = FALSE /\ spawned = 0
    /\ exits = 0 /\ faults = 0

-----------------------------------------------------------------------------
\* start_broker, step by step.

\* (Mutation: the old broker is left to itself.)
EnterAnew(t) ==
    /\ at[t] = "enter"
    /\ Goto(t, "count")
    /\ UNCHANGED <<row, feed, current, brokers, proc, seen, crash, recent, up,
                   raced, spawned, exits, faults>>

Enter(t) ==
    /\ at[t] = "enter"
    /\ \/ entered /\ Returns(t) /\ UNCHANGED brokers
       \/ /\ ~entered /\ proc # 0 /\ Running(proc)
          /\ brokers' = Terminated(proc) /\ Goto(t, "wait")
       \/ /\ ~entered /\ ~(proc # 0 /\ Running(proc))
          /\ Goto(t, "count") /\ UNCHANGED brokers
    /\ UNCHANGED <<row, feed, current, proc, seen, crash, recent, up, raced,
                   spawned, exits, faults>>

\* (Mutation: None is waited for.)
WaitBlind(t) ==
    /\ at[t] = "wait"
    /\ Goto(t, "waiting") /\ seen' = [seen EXCEPT ![t] = proc]
    /\ UNCHANGED <<row, feed, current, brokers, proc, crash, recent, up, raced,
                   spawned, exits, faults>>

\* The global is read again for wait().
Wait(t) ==
    /\ at[t] = "wait"
    /\ \/ proc = 0 /\ Raises(t) /\ UNCHANGED seen
       \/ proc # 0 /\ Goto(t, "waiting") /\ seen' = [seen EXCEPT ![t] = proc]
    /\ UNCHANGED <<row, feed, current, brokers, proc, crash, recent, up, raced,
                   spawned, exits, faults>>

Waited(t) ==
    /\ at[t] = "waiting" /\ Poll(seen[t]) = "dead"
    /\ proc' = 0 /\ seen' = [seen EXCEPT ![t] = 0]
    /\ Goto(t, "count")
    /\ UNCHANGED <<row, feed, current, brokers, crash, recent, up, raced,
                   spawned, exits, faults>>

\* (Mutation: only restarts of an exited broker count.)
CountMain(t) ==
    /\ at[t] = "count"
    /\ \/ latched /\ Returns(t) /\ UNCHANGED <<latched, recent>>
       \/ /\ ~latched
          /\ recent' = recent + IF t = "main" THEN 1 ELSE 0
          /\ \/ recent' > MaxRestarts /\ latched' = TRUE /\ Goto(t, "crash")
             \/ recent' <= MaxRestarts /\ UNCHANGED latched /\ Goto(t, "load")
    /\ UNCHANGED <<row, feed, current, brokers, proc, seen, entered, up, raced,
                   spawned, exits, faults>>

\* The crash-loop breaker.
Count(t) ==
    /\ at[t] = "count"
    /\ \/ latched /\ Returns(t) /\ UNCHANGED <<latched, recent>>
       \/ /\ ~latched
          /\ recent' = recent + 1
          /\ \/ recent' > MaxRestarts /\ latched' = TRUE /\ Goto(t, "crash")
             \/ recent' <= MaxRestarts /\ UNCHANGED latched /\ Goto(t, "load")
    /\ UNCHANGED <<row, feed, current, brokers, proc, seen, entered, up, raced,
                   spawned, exits, faults>>

Load(t) ==
    /\ at[t] = "load"
    /\ \/ Goto(t, "spawn") /\ UNCHANGED faults
       \/ Fault /\ Returns(t)
    /\ UNCHANGED <<row, feed, current, brokers, proc, seen, crash, recent, up,
                   raced, spawned, exits>>

\* The readiness and preflight checks may refuse; then the process is made.
Refuse(t) ==
    /\ at[t] = "spawn" /\ Fault
    /\ Raises(t)
    /\ UNCHANGED <<row, feed, current, brokers, proc, seen, crash, recent, up,
                   raced, spawned, exits>>

Spawn(t) ==
    /\ at[t] = "spawn" /\ Len(brokers) < MaxStarts
    /\ brokers' = Append(brokers, [state |-> "alive", stocks |-> current])
    /\ proc' = Len(brokers) + 1
    /\ spawned' = spawned + 1
    /\ Goto(t, "watchdog")
    /\ UNCHANGED <<row, feed, current, seen, crash, recent, up, raced, exits,
                   faults>>

\* A funded broker whose watchdog does not start is stopped again: the one
\* broker_process now names.
Watchdog(t) ==
    /\ at[t] = "watchdog"
    /\ \/ Returns(t) /\ UNCHANGED <<brokers, proc, faults>>
       \/ Fault /\ brokers' = Terminated(proc) /\ proc' = 0 /\ Raises(t)
    /\ UNCHANGED <<row, feed, current, seen, crash, recent, up, raced, spawned,
                   exits>>

-----------------------------------------------------------------------------
\* trip_crash: one thread wins the flag and terminates the broker.

\* main leaves its loop; the stop thread is gone.  (So is a stocks thread
\* that lost its feed; it could no longer start anything.)
After(t) == CASE t = "main" -> "held" [] t = "stocks" -> "idle"
              [] t = "stop" -> "gone"

Trip(t) ==
    /\ at[t] = "crash"
    /\ entered' = TRUE
    /\ Goto(t, IF entered THEN After(t) ELSE "terminate")
    /\ raced' = (raced \/ (~entered /\ \E u \in Starters : at[u] \in Inside))
    /\ UNCHANGED <<row, feed, current, brokers, proc, seen, latched, recent, up,
                   spawned, exits, faults>>

\* (Mutation: the broker is left running.)
TerminateNone(t) ==
    /\ at[t] = "terminate"
    /\ Goto(t, After(t))
    /\ UNCHANGED <<row, feed, current, brokers, proc, seen, crash, recent, up,
                   raced, spawned, exits, faults>>

Terminate(t) ==
    /\ at[t] = "terminate"
    /\ brokers' = Terminated(proc)
    /\ Goto(t, After(t))
    /\ UNCHANGED <<row, feed, current, proc, seen, crash, recent, up, raced,
                   spawned, exits, faults>>

-----------------------------------------------------------------------------
\* The main thread: run().

Boot ==
    /\ at["main"] = "boot"
    /\ \/ current' = stocks /\ Goto("main", "enter") /\ UNCHANGED faults
       \/ Fault /\ Goto("main", "crash") /\ UNCHANGED current
    /\ UNCHANGED <<row, feed, brokers, proc, seen, crash, recent, up, raced,
                   spawned, exits>>

\* (Mutation: an exited broker is not looked for.)
SuperviseNot ==
    /\ at["main"] = "loop" /\ entered
    /\ Goto("main", "held")
    /\ UNCHANGED <<row, feed, current, brokers, proc, seen, crash, recent, up,
                   raced, spawned, exits, faults>>

\* Every two seconds: an exited broker is started again.
Supervise ==
    /\ at["main"] = "loop"
    /\ \/ entered /\ Goto("main", "held") /\ UNCHANGED raced
       \/ /\ ~entered /\ proc # 0 /\ Poll(proc) = "dead"
          /\ Goto("main", "enter") /\ Overlaps("main")
    /\ UNCHANGED <<row, feed, current, brokers, proc, seen, crash, recent, up,
                   spawned, exits, faults>>

\* os._exit: the container ends, and every process in it.
Exit ==
    /\ up' = FALSE
    /\ brokers' = [b \in DOMAIN brokers |->
                      [state |-> "dead", stocks |-> brokers[b].stocks]]
    /\ at' = [t \in Threads |-> "gone"]
    /\ UNCHANGED <<row, feed, current, proc, seen, crash, recent, raced,
                   spawned, exits, faults>>

\* (Mutation: a held container is never let go.)
HeldStopNever == FALSE /\ UNCHANGED vars

HeldStop == at["main"] = "held" /\ ~runCommand /\ Exit

FeedStop == at["stop"] = "idle" /\ ~runCommand /\ Exit

-----------------------------------------------------------------------------
\* The feeds, and the stocks thread.

Notify ==
    /\ at["stocks"] \notin {"off", "gone"} /\ sent # stocks
    /\ inbox' = Append(inbox, stocks) /\ sent' = stocks
    /\ UNCHANGED <<row, current, brokers, proc, at, seen, crash, recent, up,
                   raced, spawned, exits, faults>>

Change ==
    /\ at["stocks"] = "idle" /\ inbox # <<>>
    /\ inbox' = Tail(inbox)
    /\ current' = Head(inbox)
    /\ \/ Head(inbox) = current /\ UNCHANGED <<at, raced>>
       \/ Head(inbox) # current /\ Goto("stocks", "enter") /\ Overlaps("stocks")
    /\ UNCHANGED <<row, sent, brokers, proc, seen, crash, recent, up, spawned,
                   exits, faults>>

\* A feed is lost more often than it may be reconnected.
FeedLost(t) ==
    /\ t \in {"stocks", "stop"} /\ at[t] = "idle" /\ Fault
    /\ Goto(t, "crash")
    /\ UNCHANGED <<row, feed, current, brokers, proc, seen, crash, recent, up,
                   raced, spawned, exits>>

-----------------------------------------------------------------------------
\* The operator, the brokers, the clock.

Edit ==
    /\ stocks < MaxEdits
    /\ stocks' = stocks + 1
    /\ UNCHANGED <<runCommand, feed, current, brokers, proc, at, seen, crash,
                   recent, up, raced, spawned, exits, faults>>

PressStop ==
    /\ runCommand
    /\ runCommand' = FALSE
    /\ UNCHANGED <<stocks, feed, current, brokers, proc, at, seen, crash,
                   recent, up, raced, spawned, exits, faults>>

Quit(b) ==
    /\ Poll(b) = "alive" /\ exits < MaxExits
    /\ exits' = exits + 1
    /\ brokers' = [brokers EXCEPT ![b] = [state |-> "dead", stocks |-> brokers[b].stocks]]
    /\ UNCHANGED <<row, feed, current, proc, at, seen, crash, recent, up, raced,
                   spawned, faults>>

Die(b) ==
    /\ Poll(b) = "dying"
    /\ brokers' = [brokers EXCEPT ![b] = [state |-> "dead", stocks |-> brokers[b].stocks]]
    /\ UNCHANGED <<row, feed, current, proc, at, seen, crash, recent, up, raced,
                   spawned, exits, faults>>

\* CRASH_LOOP_WINDOW_SEC without a start.
Calm ==
    /\ recent > 0 /\ \A t \in Starters : at[t] \notin Inside
    /\ recent' = 0 /\ spawned' = 0
    /\ UNCHANGED <<row, feed, current, brokers, proc, at, seen, crash, up,
                   raced, exits, faults>>

StarterNext(t) ==
    Enter(t) \/ Wait(t) \/ Waited(t) \/ Count(t) \/ Load(t) \/ Refuse(t)
    \/ Spawn(t) \/ Watchdog(t)

Next ==
    \/ \E t \in Starters : StarterNext(t)
    \/ \E t \in Threads : Trip(t) \/ Terminate(t) \/ FeedLost(t)
    \/ Boot \/ Supervise \/ HeldStop \/ FeedStop
    \/ Notify \/ Change
    \/ Edit \/ PressStop \/ Calm
    \/ \E b \in DOMAIN brokers : Quit(b) \/ Die(b)

Spec == Init /\ [][Next]_vars

\* Threads run on, a terminated broker ends, and a change is delivered.
Fairness ==
    /\ \A t \in Starters : WF_vars(StarterNext(t))
    /\ \A t \in Threads : WF_vars(Trip(t) \/ Terminate(t))
    /\ WF_vars(Boot \/ Supervise) /\ WF_vars(HeldStop) /\ WF_vars(FeedStop)
    /\ WF_vars(Notify) /\ WF_vars(Change)
    /\ \A b \in 1..MaxStarts : WF_vars(b \in DOMAIN brokers /\ Die(b))

FairSpec == Spec /\ Fairness

-----------------------------------------------------------------------------
\* Every variable holds values of its kind, and a thread that waits for a
\* broker waits for one.
TypeOK ==
    /\ runCommand \in BOOLEAN /\ stocks \in 0..MaxEdits
    /\ inbox \in Seq(0..MaxEdits) /\ sent \in -1..MaxEdits
    /\ current \in 0..MaxEdits
    /\ brokers \in Seq([state: {"alive", "dying", "dead"}, stocks: 0..MaxEdits])
    /\ proc \in 0..Len(brokers)
    /\ at \in [Threads -> Places]
    /\ seen \in [Starters -> 0..Len(brokers)]
    /\ \A t \in Starters : at[t] = "waiting" => seen[t] # 0
    /\ entered \in BOOLEAN /\ latched \in BOOLEAN /\ recent \in Nat
    /\ up \in BOOLEAN /\ raced \in BOOLEAN /\ spawned \in Nat
    /\ exits \in 0..MaxExits /\ faults \in 0..MaxFaults

\* Until two starts have overlapped, or a crash a start, at most one broker
\* trades: the old one was told to terminate and was waited for.
OneBrokerUnlessRaced == ~raced => Cardinality(Alive) <= 1

\* A container held open after a crash does not trade, under the same
\* condition (trip_crash: "Halt trading").
HeldIsHalted ==
    at["main"] = "held" /\ ~raced /\ (\A t \in Threads : at[t] # "terminate")
        => Alive = {}

\* Whichever threads start them, no more brokers than CRASH_LOOP_MAX_RESTARTS
\* are started in one window.
CrashLoopBounded == spawned <= MaxRestarts

Crash ==
    IF ~entered THEN "no"
    ELSE IF \E t \in Threads : at[t] = "terminate" THEN "tripped" ELSE "halted"

Turns == INSTANCE BrokerTurns
            WITH alive <- Alive, started <- Len(brokers), window <- spawned, crash <- Crash

\* However the threads that start, replace, restart and terminate brokers
\* interleave, the brokers of an instance take turns: none starts while another
\* trades or after a crash, and a crash that was tripped halts what trades.  Two
\* starts that overlap end that promise, but neither the limit of a window nor
\* the end of the process.
TakeTurns == Turns!Spec

\* Stop ends the process, from any place of any thread and from a held crash.
\* The exception: the stop feed was lost while a start raced, and main waits
\* for ever for a broker that the other thread has started since.
StopIsObeyed == ~runCommand ~> ~up \/ (raced /\ at["stop"] = "gone")

\* With nothing failing, the instance comes back to one broker that runs with
\* the tickers of the row, however edits and exits follow each other.
KeepsItsBroker ==
    [](runCommand /\ ~raced /\ ~latched /\ faults = 0) =>
        <>[](proc # 0 /\ brokers[proc] = [state |-> "alive", stocks |-> stocks])

\* "Start a single broker process with all tickers" (instance.py:574).
SingleBroker == Cardinality(Alive) <= 1
=============================================================================
