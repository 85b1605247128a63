------------------------------ MODULE LiveRisk ------------------------------
(***************************************************************************)
(* The durable drawdown record of a live account and everything that writes *)
(* it or trusts it (live_risk_state.py, and its callers in broker.py).      *)
(*                                                                         *)
(* The actors:                                                              *)
(*   the strategy loop  boots the record, and in every cycle clears what    *)
(*                      the order gate may believe, evaluates the account's *)
(*                      equity into the record, publishes the verdict,      *)
(*                      plans, evaluates again and hands entries to the     *)
(*                      executor.                                           *)
(*   fill handlers      one per confirmed fill, on the thread that applied  *)
(*                      the broker event: they book the fill in the same    *)
(*                      record.                                             *)
(*   the executor       runs the gate and the POST of an entry; the loop    *)
(*                      stops waiting after 90 seconds, the executor does   *)
(*                      not stop.                                           *)
(* The record is written with a compare-and-swap on its version; the        *)
(* process keeps its last copy in a global that no lock protects.           *)
(*                                                                         *)
(* Entries are BUYs.  One leveraged and one ordinary symbol are enough: a   *)
(* fill is of the one or of the other.  Equity is in units of money, the    *)
(* thresholds in percent.  Basis, peak, allocation, cooldown and the        *)
(* notional caps, all functions of the same fills and equity, are left out. *)
(***************************************************************************)
EXTENDS Integers, FiniteSets

CONSTANTS
    Equities,                   \* what the broker may report, > 0
    SoftPct, HardPct, KillPct,  \* RiskLimits
    Entries,                    \* buy orders
    Exits,                      \* fills that sell
    Leveraged,                  \* fills in DEFAULT_LEVERAGED_SYMBOLS
    Paper,                      \* the account is a paper account
    MaxTicks,                   \* bound: cycles of the strategy loop
    MaxFaults,                  \* bound: failed calls to database or broker
    MaxCrashes                  \* bound: restarts

Fills == Entries \cup Exits

ASSUME RiskAssumption ==
    /\ Equities \subseteq Nat \ {0}
    /\ {SoftPct, HardPct, KillPct, MaxTicks, MaxFaults, MaxCrashes} \subseteq Nat
    /\ 0 < SoftPct /\ SoftPct < HardPct /\ HardPct < KillPct /\ KillPct < 100
    /\ Entries \cap Exits = {}
    /\ IsFiniteSet(Entries) /\ IsFiniteSet(Exits)
    /\ Paper \in BOOLEAN

VARIABLES
    row,        \* the durable record
    mem,        \* _live_risk_state, the copy of the process
    health,     \* dependency "risk_state", and "stale" when its stamp is old
    snapId,     \* risk_snapshot_id: the version published, 0 for ""
    at,         \* where the strategy loop is
    stage,      \* the save it is in: boot, pre-cycle, pre-submit, or blind
                \* after a pre-submit save that failed
    doc,        \* the record it is about to save
    was,        \* the level before the evaluation
    todo,       \* working entries the kill rung has still to cancel
    task,       \* [Fills -> place of the fill's handler]
    work,       \* [Fills -> the record that handler is about to save]
    order,      \* [Entries -> place of the order]
    seen,       \* [Entries -> the risk_snapshot_id of its intent]
    built,      \* history: the cycle each entry was built in
    applied,    \* history: the fills whose save was committed
    tick, faults, crashes

process == <<at, stage, doc, was, todo>>
handlers == <<task, work>>
orders  == <<order, seen, built>>
published == <<health, snapId>>
vars == <<row, mem, published, process, handlers, orders, applied,
          tick, faults, crashes>>

-----------------------------------------------------------------------------
Levels == {"normal", "soft", "hard", "kill"}
Rows   == [ver: Nat, high: Nat, equity: Nat, sleeve: Nat]
NoRow  == [ver |-> 0, high |-> 0, equity |-> 0, sleeve |-> 0]
Exists(r) == r.ver > 0

Deep(r, pct) == 100 * (r.high - r.equity) >= pct * r.high
LevelOf(r) == CASE Deep(r, KillPct) -> "kill"
                [] Deep(r, HardPct) -> "hard"
                [] Deep(r, SoftPct) -> "soft"
                [] OTHER            -> "normal"

Initialized(e) == [ver |-> 0, high |-> e, equity |-> e, sleeve |-> 0]

Evaluated(r, e) ==
    [ver |-> r.ver, high |-> IF e > r.high THEN e ELSE r.high,
     equity |-> e, sleeve |-> r.sleeve]

\* (Mutation: the sleeve may go short.)
SoldUnclamped(n) == n - 1

Sold(n) == IF n > 0 THEN n - 1 ELSE 0

Filled(r, f) ==
    [ver |-> r.ver, high |-> r.high, equity |-> r.equity,
     sleeve |-> IF f \notin Leveraged THEN r.sleeve
                ELSE IF f \in Entries THEN r.sleeve + 1 ELSE Sold(r.sleeve)]

Saved(d) ==
    [ver |-> d.ver + 1, high |-> d.high, equity |-> d.equity, sleeve |-> d.sleeve]

(***************************************************************************)
(* RiskStateStore.save reads the row, compares, and swaps in a second        *)
(* database call.  A missing row reads as version 0 with no peak.            *)
(***************************************************************************)
Current(d) == d.ver = row.ver /\ d.high >= row.high

\* (Mutation: the swap forgets the version.)
SwapsAny(d) == d.ver <= row.ver

Swaps(d) == d.ver = row.ver

Fault == faults < MaxFaults /\ faults' = faults + 1

Holds(lev) ==
    Cardinality({e \in Entries : order[e] = "filled" /\ (e \in Leveraged <=> lev)})
  > Cardinality({x \in Exits : task[x] # "none" /\ (x \in Leveraged <=> lev)})

Init ==
    /\ row \in {NoRow} \cup {Saved(Initialized(e)) : e \in Equities}
    /\ order \in [Entries -> {"none", "working"}]
    /\ mem = NoRow
    /\ health = "unknown" /\ snapId = 0
    /\ at = "down" /\ stage = "boot" /\ doc = NoRow /\ was = "normal" /\ todo = {}
    /\ task = [f \in Fills |-> "none"]
    /\ work = [f \in Fills |-> NoRow]
    /\ seen = [e \in Entries |-> 0]
    /\ built = [e \in Entries |-> 0]
    /\ applied = {}
    /\ tick = 0 /\ faults = 0 /\ crashes = 0

-----------------------------------------------------------------------------
(* Boot: _initialize_live_risk_authority.                                   *)

Start ==
    /\ at = "down"
    /\ at' = "load"
    /\ UNCHANGED <<row, mem, published, stage, doc, was, todo, handlers, orders,
                   applied, tick, faults, crashes>>

LoadRow ==
    /\ at = "load" /\ Exists(row)
    /\ mem' = row
    /\ at' = "idle"
    /\ UNCHANGED <<row, published, stage, doc, was, todo, handlers, orders,
                   applied, tick, faults, crashes>>

\* A missing row and an unreadable one raise the same exception.  A paper
\* account bootstraps at once, a funded one counts positions first.
LoadFails ==
    /\ at = "load"
    /\ \/ ~Exists(row) /\ UNCHANGED faults
       \/ Fault
    /\ \E e \in Equities : doc' = Initialized(e)
    /\ at' = IF Paper THEN "check" ELSE "positions"
    /\ UNCHANGED <<row, mem, published, stage, was, todo, handlers, orders,
                   applied, tick, crashes>>

Refuse ==
    /\ at' = "idle"
    /\ doc' = NoRow
    /\ UNCHANGED <<row, mem, published, stage, was, todo, handlers, orders,
                   applied, tick, crashes>>

CountPositions ==
    /\ at = "positions"
    /\ \/ /\ ~Holds(TRUE) /\ ~Holds(FALSE)
          /\ at' = "orders"
          /\ UNCHANGED <<row, mem, published, stage, doc, was, todo, handlers,
                         orders, applied, tick, faults, crashes>>
       \/ (Holds(TRUE) \/ Holds(FALSE)) /\ Refuse /\ UNCHANGED faults
       \/ Fault /\ Refuse

Working == {e \in Entries : order[e] = "working"}

\* list_open_orders answers [] when it fails, and the snapshot that is to
\* tell the two apart has no attribute open_orders: its count is always 0.
CountOrders ==
    /\ at = "orders"
    /\ \/ /\ \/ Working = {} /\ UNCHANGED faults
             \/ Fault
          /\ at' = "check"
          /\ UNCHANGED <<row, mem, published, stage, doc, was, todo, handlers,
                         orders, applied, tick, crashes>>
       \/ Working # {} /\ Refuse /\ UNCHANGED faults
       \/ Fault /\ Refuse

-----------------------------------------------------------------------------
(* One cycle of the strategy loop.  On an idle tick the verdict is cleared  *)
(* as well, and nothing is evaluated or traded.                             *)

\* (Mutation: the last cycle's verdict stays published.)
BeginTickKept ==
    /\ at = "idle" /\ tick < MaxTicks
    /\ tick' = tick + 1
    /\ at' \in {"evaluate", "idle"} /\ stage' = "pre"
    /\ UNCHANGED <<row, mem, published, doc, was, todo, handlers, orders, applied,
                   faults, crashes>>

BeginTick ==
    /\ at = "idle" /\ tick < MaxTicks
    /\ tick' = tick + 1
    /\ health' = "unknown" /\ snapId' = 0
    /\ at' \in {"evaluate", "idle"} /\ stage' = "pre"
    /\ UNCHANGED <<row, mem, doc, was, todo, handlers, orders, applied,
                   faults, crashes>>

\* A refresh that raises.  At boot a lost swap ends the process; before the
\* cycle it is recorded and the cycle is skipped; before the submissions it
\* is logged and the loop goes on with what is published.
Fails ==
    /\ at' = CASE stage = "boot" -> "down" [] stage = "pre" -> "idle" [] OTHER -> "trade"
    /\ stage' = IF stage = "sync" THEN "blind" ELSE stage
    /\ health' = IF stage = "pre" THEN "unknown" ELSE health
    /\ doc' = NoRow /\ was' = "normal"
    /\ UNCHANGED <<snapId, todo>>

Evaluate ==
    /\ at = "evaluate" /\ Exists(mem)
    /\ \E e \in Equities : doc' = Evaluated(mem, e)
    /\ was' = LevelOf(mem)
    /\ at' = "check"
    /\ UNCHANGED <<row, mem, published, stage, todo, handlers, orders, applied,
                   tick, faults, crashes>>

EvaluateFails ==
    /\ at = "evaluate"
    /\ \/ ~Exists(mem) /\ UNCHANGED faults
       \/ Fault
    /\ Fails
    /\ UNCHANGED <<row, mem, handlers, orders, applied, tick, crashes>>

Check ==
    /\ at = "check" /\ Current(doc)
    /\ at' = "swap"
    /\ UNCHANGED <<row, mem, published, stage, doc, was, todo, handlers, orders,
                   applied, tick, faults, crashes>>

CheckFails ==
    /\ at = "check"
    /\ \/ ~Current(doc) /\ UNCHANGED faults
       \/ Fault
    /\ Fails
    /\ UNCHANGED <<row, mem, handlers, orders, applied, tick, crashes>>

Swap ==
    /\ at = "swap" /\ Swaps(doc)
    /\ row' = Saved(doc)
    /\ at' = "assign"
    /\ UNCHANGED <<mem, published, stage, doc, was, todo, handlers, orders,
                   applied, tick, faults, crashes>>

\* Another writer was first, or the database is gone; its last answer may
\* be lost after the commit.
SwapFails ==
    /\ at = "swap"
    /\ \/ ~Swaps(doc) /\ UNCHANGED <<row, faults>>
       \/ Fault /\ UNCHANGED row
       \/ Fault /\ Swaps(doc) /\ row' = Saved(doc)
    /\ Fails
    /\ UNCHANGED <<mem, handlers, orders, applied, tick, crashes>>

\* The global is replaced; a fall to the kill level goes on to the rung.
Assign ==
    /\ at = "assign"
    /\ mem' = Saved(doc)
    /\ doc' = NoRow /\ was' = "normal"
    /\ at' = CASE stage = "boot" -> "idle"
               [] stage # "boot" /\ LevelOf(doc) = "kill" /\ was # "kill" -> "rung"
               [] OTHER -> "publish"
    /\ UNCHANGED <<row, published, stage, todo, handlers, orders, applied, tick,
                   faults, crashes>>

\* cancel_open_buy_orders: the strict list, then one cancel after another.
ListBuys ==
    /\ at = "rung"
    /\ \/ todo' = Working /\ UNCHANGED faults
       \/ todo' = {} /\ Fault
    /\ at' = "publish"
    /\ UNCHANGED <<row, mem, published, stage, doc, was, handlers, orders,
                   applied, tick, crashes>>

CancelBuy(e) ==
    /\ at = "publish" /\ e \in todo
    /\ todo' = todo \ {e}
    /\ \/ /\ order[e] = "working" /\ order' = [order EXCEPT ![e] = "canceled"]
          /\ UNCHANGED faults
       \/ order[e] # "working" /\ UNCHANGED <<order, faults>>
       \/ Fault /\ UNCHANGED order
    /\ UNCHANGED <<row, mem, published, at, stage, doc, was, handlers, seen,
                   built, applied, tick, crashes>>

Publish ==
    /\ at = "publish" /\ todo = {}
    /\ health' = IF LevelOf(mem) = "normal" THEN "healthy" ELSE "unhealthy"
    /\ snapId' = mem.ver
    /\ at' = IF stage = "pre" THEN "plan" ELSE "trade"
    /\ UNCHANGED <<row, mem, stage, doc, was, todo, handlers, orders, applied,
                   tick, faults, crashes>>

\* The strategies have run: with something to execute, evaluate once more.
BeginSync ==
    /\ at = "plan"
    /\ at' = "evaluate" /\ stage' = "sync"
    /\ UNCHANGED <<row, mem, published, doc, was, todo, handlers, orders,
                   applied, tick, faults, crashes>>

\* The loop builds an intent for the executor and may not wait for it.
Build(e) ==
    /\ at = "trade" /\ order[e] = "none"
    /\ order' = [order EXCEPT ![e] = "built"]
    /\ seen' = [seen EXCEPT ![e] = snapId]
    /\ built' = [built EXCEPT ![e] = tick]
    /\ UNCHANGED <<row, mem, published, process, handlers, applied, tick,
                   faults, crashes>>

EndTick ==
    /\ at \in {"plan", "trade"}
    /\ at' = "idle"
    /\ UNCHANGED <<row, mem, published, stage, doc, was, todo, handlers, orders,
                   applied, tick, faults, crashes>>

-----------------------------------------------------------------------------
(* The executor: the gate on the published view, then the POST.             *)

\* An empty published id falls back on the intent's own.
\* (Mutation: the identity of the risk snapshot is not compared.)
AdmissibleAnyId(e) == health = "healthy"

Admissible(e) == health = "healthy" /\ (snapId = 0 \/ snapId = seen[e])

Move(e, place) ==
    /\ order' = [order EXCEPT ![e] = place]
    /\ seen' = [seen EXCEPT ![e] = 0]
    /\ built' = [built EXCEPT ![e] = 0]
    /\ UNCHANGED <<row, mem, published, process, work, applied, tick, faults, crashes>>

Admit(e) == order[e] = "built" /\ Admissible(e) /\ Move(e, "admitted") /\ UNCHANGED task
Block(e) == order[e] = "built" /\ ~Admissible(e) /\ Move(e, "blocked") /\ UNCHANGED task

Land(e) == order[e] = "admitted" /\ Move(e, "working") /\ UNCHANGED task

Fill(e) ==
    /\ order[e] = "working"
    /\ Move(e, "filled")
    /\ task' = [task EXCEPT ![e] = "reported"]

Exit(x) ==
    /\ task[x] = "none" /\ Holds(x \in Leveraged)
    /\ task' = [task EXCEPT ![x] = "reported"]
    /\ UNCHANGED <<row, mem, published, process, work, orders, applied, tick,
                   faults, crashes>>

-----------------------------------------------------------------------------
(* _apply_live_confirmed_fill_risk on the thread that applied the event.     *)

Running == at \notin {"down", "load", "positions", "orders"}
           /\ ~(stage = "boot" /\ at \in {"check", "swap", "assign"})

Step(f, place, d) ==
    /\ task' = [task EXCEPT ![f] = place]
    /\ work' = [work EXCEPT ![f] = d]
    /\ UNCHANGED <<published, process, orders, tick, crashes>>

TakeFill(f) ==
    /\ Running /\ task[f] = "reported" /\ Exists(mem)
    /\ Step(f, "compare", Filled(mem, f))
    /\ UNCHANGED <<row, mem, applied, faults>>

\* The global is read again to see whether anything changed: for an
\* ordinary symbol it differs only if another thread has replaced it.
Compare(f) ==
    /\ task[f] = "compare"
    /\ \/ f \notin Leveraged /\ work[f] = mem /\ Step(f, "booked", NoRow)
       \/ (f \in Leveraged \/ work[f] # mem) /\ Step(f, "check", work[f])
    /\ UNCHANGED <<row, mem, applied, faults>>

CheckFill(f) ==
    /\ task[f] = "check" /\ Current(work[f])
    /\ Step(f, "swap", work[f])
    /\ UNCHANGED <<row, mem, applied, faults>>

SwapFill(f) ==
    /\ task[f] = "swap" /\ Swaps(work[f])
    /\ row' = Saved(work[f])
    /\ applied' = applied \cup {f}
    /\ Step(f, "assign", work[f])
    /\ UNCHANGED <<mem, faults>>

\* (Mutation: the copy of the process is not replaced.)
AssignFillKept(f) ==
    /\ task[f] = "assign"
    /\ Step(f, "booked", NoRow)
    /\ UNCHANGED <<row, mem, applied, faults>>

AssignFill(f) ==
    /\ task[f] = "assign"
    /\ mem' = Saved(work[f])
    /\ Step(f, "booked", NoRow)
    /\ UNCHANGED <<row, applied, faults>>

\* The handler raises, and is not called again for this fill.
FillFails(f) ==
    /\ \/ /\ task[f] = "reported" /\ Running /\ ~Exists(mem)
          /\ UNCHANGED <<row, applied, faults>>
       \/ /\ task[f] = "check"
          /\ \/ ~Current(work[f]) /\ UNCHANGED faults
             \/ Fault
          /\ UNCHANGED <<row, applied>>
       \/ /\ task[f] = "swap"
          /\ \/ ~Swaps(work[f]) /\ UNCHANGED <<row, applied, faults>>
             \/ Fault /\ UNCHANGED <<row, applied>>
             \/ /\ Fault /\ Swaps(work[f])
                /\ row' = Saved(work[f]) /\ applied' = applied \cup {f}
    /\ Step(f, "raised", NoRow)
    /\ UNCHANGED mem

-----------------------------------------------------------------------------
(* Environment: the 60 seconds of max_control_age, crashes.                 *)

Age ==
    /\ health = "healthy"
    /\ health' = "stale"
    /\ UNCHANGED <<row, mem, snapId, process, handlers, orders, applied, tick,
                   faults, crashes>>

Interrupted(place) ==
    CASE place \in {"compare", "check", "swap"} -> "raised"
      [] place = "assign" -> "booked"
      [] OTHER -> place

Crash ==
    /\ at # "down" /\ crashes < MaxCrashes
    /\ crashes' = crashes + 1
    /\ mem' = NoRow
    /\ health' = "unknown" /\ snapId' = 0
    /\ at' = "down" /\ doc' = NoRow /\ todo' = {}
    /\ task' = [f \in Fills |-> Interrupted(task[f])]
    /\ work' = [f \in Fills |-> NoRow]
    /\ order' = [e \in Entries |-> IF order[e] = "built" THEN "blocked" ELSE order[e]]
    /\ seen' = [e \in Entries |-> 0]
    /\ built' = [e \in Entries |-> 0]
    /\ was' = "normal" /\ stage' = "boot"
    /\ UNCHANGED <<row, applied, tick, faults>>

Loop ==
    \/ Start \/ LoadRow \/ LoadFails \/ CountPositions \/ CountOrders
    \/ BeginTick \/ Evaluate \/ EvaluateFails \/ Check \/ CheckFails
    \/ Swap \/ SwapFails \/ Assign \/ ListBuys \/ Publish \/ BeginSync \/ EndTick
    \/ \E e \in Entries : CancelBuy(e) \/ Build(e)

Executor == \E e \in Entries : Admit(e) \/ Block(e) \/ Land(e) \/ Fill(e)

Handler ==
    \E f \in Fills : \/ TakeFill(f) \/ Compare(f) \/ CheckFill(f)
                     \/ SwapFill(f) \/ AssignFill(f) \/ FillFails(f)

Next ==
    \/ Loop \/ Executor \/ Handler
    \/ \E x \in Exits : Exit(x)
    \/ Age \/ Crash

Spec == Init /\ [][Next]_vars

-----------------------------------------------------------------------------
LoopPlaces == {"down", "load", "positions", "orders", "idle", "evaluate", "check",
               "swap", "assign", "rung", "publish", "plan", "trade"}
TaskPlaces == {"none", "reported", "compare", "check", "swap", "assign", "booked",
               "raised"}
OrderPlaces == {"none", "built", "blocked", "admitted", "working", "filled", "canceled"}

\* Every variable holds values of its kind.  A handler that is at work has
\* read a record: the process does not run handlers before it has booted.
TypeOK ==
    /\ row \in Rows /\ mem \in Rows /\ doc \in Rows
    /\ health \in {"unknown", "healthy", "unhealthy", "stale"}
    /\ snapId \in Nat
    /\ at \in LoopPlaces /\ stage \in {"boot", "pre", "sync", "blind"}
    /\ was \in Levels /\ todo \subseteq Entries
    /\ task \in [Fills -> TaskPlaces] /\ work \in [Fills -> Rows]
    /\ order \in [Entries -> OrderPlaces]
    /\ seen \in [Entries -> Nat] /\ built \in [Entries -> Nat]
    /\ applied \subseteq Fills
    /\ tick \in 0..MaxTicks /\ faults \in 0..MaxFaults /\ crashes \in 0..MaxCrashes

\* The high-water mark never falls and the record never disappears, although
\* fill handlers save copies of the record they read before the loop raised
\* the mark, and although an unreadable record is taken for a missing one
\* (live_risk_state.py:858, broker.py:9788).
PeakNeverFalls ==
    [][Exists(row) => Exists(row') /\ row'.high >= row.high]_row

\* No writer overwrites what another one committed: the sleeve holds every
\* committed buy and sell of the leveraged symbol.  Only a sell that finds
\* the sleeve empty is clamped, so the sleeve may exceed the difference.
SleeveHoldsCommitted ==
    LET bought == applied \cap Entries \cap Leveraged
        sold   == applied \cap Exits \cap Leveraged
    IN  /\ row.sleeve <= Cardinality(bought)
        /\ row.sleeve + Cardinality(sold) >= Cardinality(bought)

\* The copy of the process is a past record, and is behind only while a
\* thread stands between its swap and its assignment - or after a failed
\* call, when nothing ever brings it up to date again.
MemoryCatchesUp ==
    Exists(mem) =>
        /\ mem.ver <= row.ver
        /\ mem.ver = row.ver => mem = row
        /\ mem.ver < row.ver =>
               \/ faults > 0
               \/ at = "assign"
               \/ \E f \in Fills : task[f] = "assign"

Admitted(e) == order[e] = "built" /\ order'[e] = "admitted"

\* An entry is admitted only in the cycle whose evaluation it was built on:
\* an executor thread that was stuck in an earlier cycle finds the gate
\* closed, even when the account is healthy again (gate.py:179).
AdmittedOnItsTick == [][\A e \in Entries : Admitted(e) => built[e] = tick]_vars

\* No entry passes the gate after the process has evaluated the account to
\* be in drawdown, before, during or after the publication of that verdict.
AdmittedWhenNormal ==
    [][\A e \in Entries : Admitted(e) => LevelOf(mem) = "normal"]_vars

Ledger == INSTANCE RiskLedger
    WITH peak <- row.high, equity <- row.equity, sleeve <- row.sleeve, booked <- applied

\* The record is written as if its writers took turns, although each makes its
\* copy, checks and saves it in three steps, while others do the same: what is
\* committed is the record as the last writer left it with one evaluation or
\* one fill more, and no fill is in it twice.
CommitsInTurn == Ledger!Spec
=============================================================================
