--------------------------- MODULE LiveRiskProofs ---------------------------
(***************************************************************************)
(* Theorems of LiveRisk, for any equities, thresholds, orders, fills and    *)
(* numbers of cycles, failed calls and restarts.                            *)
(***************************************************************************)
EXTENDS LiveRisk, FiniteSetTheorems, TLAPS

-----------------------------------------------------------------------------
(***************************************************************************)
(* What the operators on records return.                                    *)
(***************************************************************************)
LEMMA RowTypes ==
    /\ NoRow \in Rows
    /\ \A e \in Equities : Initialized(e) \in Rows
    /\ \A r \in Rows, e \in Equities : Evaluated(r, e) \in Rows
    /\ \A r \in Rows, f \in Fills : Filled(r, f) \in Rows
    /\ \A r \in Rows : Saved(r) \in Rows
<1>1. NoRow \in Rows
  BY DEF NoRow, Rows
<1>2. ASSUME NEW e \in Equities PROVE Initialized(e) \in Rows
  BY RiskAssumption DEF Initialized, Rows
<1>3. ASSUME NEW r \in Rows, NEW e \in Equities PROVE Evaluated(r, e) \in Rows
  BY RiskAssumption DEF Evaluated, Rows
<1>4. ASSUME NEW r \in Rows, NEW f \in Fills PROVE Filled(r, f) \in Rows
  BY DEF Filled, Sold, Rows
<1>5. ASSUME NEW r \in Rows PROVE Saved(r) \in Rows
  BY DEF Saved, Rows
<1> QED
  BY <1>1, <1>2, <1>3, <1>4, <1>5

LEMMA RowFields ==
    ASSUME NEW r \in Rows
    PROVE  r.ver \in Nat /\ r.high \in Nat /\ r.equity \in Nat /\ r.sleeve \in Nat
BY DEF Rows

LEMMA LevelType == \A r : LevelOf(r) \in Levels
BY DEF LevelOf, Levels

\* The level is a function of the peak and the equity.
LEMMA SameLevel ==
    ASSUME NEW r, NEW s, r.high = s.high, r.equity = s.equity
    PROVE  LevelOf(r) = LevelOf(s)
BY DEF LevelOf, Deep

-----------------------------------------------------------------------------
(***************************************************************************)
(* Type correctness.                                                        *)
(***************************************************************************)
LEMMA TypeInit == Init => TypeOK
<1> SUFFICES ASSUME Init PROVE TypeOK
  OBVIOUS
<1> USE DEF Init
<1>1. row \in Rows /\ mem \in Rows /\ doc \in Rows
  BY RowTypes
<1>2. was \in Levels /\ todo \subseteq Entries
  BY DEF Levels
<1>3. task \in [Fills -> TaskPlaces] /\ work \in [Fills -> Rows]
  BY RowTypes DEF TaskPlaces
<1>4. order \in [Entries -> OrderPlaces]
  BY DEF OrderPlaces
<1>5. seen \in [Entries -> Nat] /\ built \in [Entries -> Nat] /\ snapId \in Nat
  OBVIOUS
<1>6. tick \in 0..MaxTicks /\ faults \in 0..MaxFaults /\ crashes \in 0..MaxCrashes
  BY RiskAssumption
<1>7. at \in LoopPlaces
  BY DEF LoopPlaces
<1> HIDE DEF Init
<1> QED
  BY <1>1, <1>2, <1>3, <1>4, <1>5, <1>6, <1>7 DEF TypeOK, Init

\* A failed call is counted within its bound.
LEMMA FaultType ==
    ASSUME TypeOK, Fault
    PROVE  faults' \in 0..MaxFaults
BY RiskAssumption DEF TypeOK, Fault

LEMMA LoopKeepsTypes ==
    ASSUME TypeOK, Loop
    PROVE  TypeOK'
<1> USE DEF TypeOK, process, handlers, orders, published
<1>1. CASE Start
  BY <1>1 DEF Start, LoopPlaces
<1>2. CASE LoadRow
  BY <1>2 DEF LoadRow, LoopPlaces
<1>3. CASE LoadFails
  <2>1. doc' \in Rows
    BY <1>3, RowTypes DEF LoadFails
  <2>2. faults' \in 0..MaxFaults
    BY <1>3, FaultType DEF LoadFails
  <2>3. at' \in LoopPlaces
    BY <1>3 DEF LoadFails, LoopPlaces
  <2> QED
    BY <1>3, <2>1, <2>2, <2>3 DEF LoadFails
<1>4. CASE CountPositions
  <2>1. faults' \in 0..MaxFaults
    BY <1>4, FaultType DEF CountPositions
  <2>2. doc' \in Rows /\ at' \in LoopPlaces
    BY <1>4, RowTypes DEF CountPositions, Refuse, LoopPlaces
  <2> QED
    BY <1>4, <2>1, <2>2 DEF CountPositions, Refuse
<1>5. CASE CountOrders
  <2>1. faults' \in 0..MaxFaults
    BY <1>5, FaultType DEF CountOrders
  <2>2. doc' \in Rows /\ at' \in LoopPlaces
    BY <1>5, RowTypes DEF CountOrders, Refuse, LoopPlaces
  <2> QED
    BY <1>5, <2>1, <2>2 DEF CountOrders, Refuse
<1>6. CASE BeginTick
  BY <1>6, RiskAssumption DEF BeginTick, LoopPlaces
<1>7. CASE Evaluate
  <2>1. doc' \in Rows /\ was' \in Levels
    BY <1>7, RowTypes, LevelType DEF Evaluate
  <2> QED
    BY <1>7, <2>1 DEF Evaluate, LoopPlaces
<1>8. ASSUME Fails
      PROVE  /\ at' \in LoopPlaces /\ stage' \in {"boot", "pre", "sync", "blind"}
             /\ doc' \in Rows /\ was' \in Levels /\ todo' \subseteq Entries
             /\ health' \in {"unknown", "healthy", "unhealthy", "stale"} /\ snapId' \in Nat
  BY <1>8, RowTypes DEF Fails, LoopPlaces, Levels
<1>9. CASE EvaluateFails
  <2>1. faults' \in 0..MaxFaults
    BY <1>9, FaultType DEF EvaluateFails
  <2> QED
    BY <1>8, <1>9, <2>1 DEF EvaluateFails
<1>10. CASE Check
  BY <1>10 DEF Check, LoopPlaces
<1>11. CASE CheckFails
  <2>1. faults' \in 0..MaxFaults
    BY <1>11, FaultType DEF CheckFails
  <2> QED
    BY <1>8, <1>11, <2>1 DEF CheckFails
<1>12. CASE Swap
  BY <1>12, RowTypes DEF Swap, LoopPlaces
<1>13. CASE SwapFails
  <2>1. faults' \in 0..MaxFaults
    BY <1>13, FaultType DEF SwapFails
  <2>2. row' \in Rows
    BY <1>13, RowTypes DEF SwapFails
  <2> QED
    BY <1>8, <1>13, <2>1, <2>2 DEF SwapFails
<1>14. CASE Assign
  BY <1>14, RowTypes DEF Assign, LoopPlaces, Levels
<1>15. CASE ListBuys
  <2>1. faults' \in 0..MaxFaults
    BY <1>15, FaultType DEF ListBuys
  <2> QED
    BY <1>15, <2>1 DEF ListBuys, Working, LoopPlaces
<1>16. CASE Publish
  BY <1>16, RowFields DEF Publish, LoopPlaces
<1>17. CASE BeginSync
  BY <1>17 DEF BeginSync, LoopPlaces
<1>18. CASE EndTick
  BY <1>18 DEF EndTick, LoopPlaces
<1>19. ASSUME NEW e \in Entries, CancelBuy(e) PROVE TypeOK'
  <2>1. faults' \in 0..MaxFaults
    BY <1>19, FaultType DEF CancelBuy
  <2>2. order' \in [Entries -> OrderPlaces]
    BY <1>19 DEF CancelBuy, OrderPlaces
  <2> QED
    BY <1>19, <2>1, <2>2 DEF CancelBuy
<1>20. ASSUME NEW e \in Entries, Build(e) PROVE TypeOK'
  BY <1>20 DEF Build, OrderPlaces
<1> QED
  BY <1>1, <1>2, <1>3, <1>4, <1>5, <1>6, <1>7, <1>9, <1>10, <1>11, <1>12, <1>13,
     <1>14, <1>15, <1>16, <1>17, <1>18, <1>19, <1>20 DEF Loop

LEMMA MoveKeepsTypes ==
    ASSUME TypeOK, NEW e \in Entries, NEW place \in OrderPlaces, Move(e, place),
           task' \in [Fills -> TaskPlaces]
    PROVE  TypeOK'
BY DEF TypeOK, Move, process, published

LEMMA ExecutorKeepsTypes ==
    ASSUME TypeOK, Executor
    PROVE  TypeOK'
<1> PICK e \in Entries : Admit(e) \/ Block(e) \/ Land(e) \/ Fill(e)
  BY DEF Executor
<1>1. task' \in [Fills -> TaskPlaces]
  BY DEF TypeOK, Admit, Block, Land, Fill, TaskPlaces
<1>2. \E place \in OrderPlaces : Move(e, place)
  BY DEF Admit, Block, Land, Fill, OrderPlaces
<1> QED
  BY <1>1, <1>2, MoveKeepsTypes

LEMMA StepKeepsTypes ==
    ASSUME TypeOK, NEW f \in Fills, NEW place \in TaskPlaces, NEW d \in Rows,
           Step(f, place, d),
           row' \in Rows, mem' \in Rows, applied' \subseteq Fills,
           faults' \in 0..MaxFaults
    PROVE  TypeOK'
BY DEF TypeOK, Step, published, process, orders

LEMMA HandlerKeepsTypes ==
    ASSUME TypeOK, Handler
    PROVE  TypeOK'
<1> PICK f \in Fills : \/ TakeFill(f) \/ Compare(f) \/ CheckFill(f)
                       \/ SwapFill(f) \/ AssignFill(f) \/ FillFails(f)
  BY DEF Handler
<1> /\ row \in Rows /\ mem \in Rows /\ work[f] \in Rows /\ NoRow \in Rows
    /\ applied \subseteq Fills /\ faults \in 0..MaxFaults
  BY RowTypes DEF TypeOK
<1> USE DEF TaskPlaces
<1>1. CASE TakeFill(f)
  BY <1>1, RowTypes, StepKeepsTypes DEF TakeFill
<1>2. CASE Compare(f)
  BY <1>2, StepKeepsTypes DEF Compare
<1>3. CASE CheckFill(f)
  BY <1>3, StepKeepsTypes DEF CheckFill
<1>4. CASE SwapFill(f)
  BY <1>4, RowTypes, StepKeepsTypes DEF SwapFill
<1>5. CASE AssignFill(f)
  BY <1>5, RowTypes, StepKeepsTypes DEF AssignFill
<1>6. CASE FillFails(f)
  <2>1. faults' \in 0..MaxFaults
    BY <1>6, FaultType DEF FillFails
  <2>2. row' \in Rows /\ applied' \subseteq Fills
    BY <1>6, RowTypes DEF FillFails
  <2>3. mem' \in Rows
    BY <1>6 DEF FillFails
  <2> QED
    BY <1>6, <2>1, <2>2, <2>3, StepKeepsTypes DEF FillFails
<1> QED
  BY <1>1, <1>2, <1>3, <1>4, <1>5, <1>6

LEMMA CrashKeepsTypes ==
    ASSUME TypeOK, Crash
    PROVE  TypeOK'
<1>1. task' \in [Fills -> TaskPlaces]
  BY DEF TypeOK, Crash, Interrupted, TaskPlaces
<1>2. order' \in [Entries -> OrderPlaces]
  BY DEF TypeOK, Crash, OrderPlaces
<1>3. mem' \in Rows /\ doc' \in Rows /\ work' \in [Fills -> Rows]
  BY RowTypes DEF Crash
<1>4. crashes' \in 0..MaxCrashes
  BY RiskAssumption DEF TypeOK, Crash
<1> QED
  BY <1>1, <1>2, <1>3, <1>4 DEF TypeOK, Crash, LoopPlaces, Levels

LEMMA TypeStep == TypeOK /\ [Next]_vars => TypeOK'
<1> SUFFICES ASSUME TypeOK, [Next]_vars PROVE TypeOK'
  OBVIOUS
<1>1. ASSUME NEW x \in Exits, Exit(x) PROVE TypeOK'
  BY <1>1 DEF TypeOK, Exit, TaskPlaces, Fills, published, process, orders
<1>2. CASE Age
  BY <1>2 DEF TypeOK, Age, process, handlers, orders
<1>3. CASE UNCHANGED vars
  BY <1>3 DEF TypeOK, vars, published, process, handlers, orders
<1> QED
  BY <1>1, <1>2, <1>3, LoopKeepsTypes, ExecutorKeepsTypes, HandlerKeepsTypes,
     CrashKeepsTypes DEF Next

\* Every variable of the risk machinery keeps its type, whatever the loop,
\* the executor, the handlers, the broker and restarts do in whatever order:
\* peaks, versions and sleeves stay natural numbers.
THEOREM TypeCorrect == Spec => []TypeOK
<1>1. Init => TypeOK
  BY TypeInit
<1>2. TypeOK /\ [Next]_vars => TypeOK'
  BY TypeStep
<1> QED
  BY <1>1, <1>2, PTL DEF Spec

-----------------------------------------------------------------------------
(***************************************************************************)
(* Who moves what.                                                          *)
(***************************************************************************)
LEMMA FailsMoves ==
    ASSUME TypeOK, Fails
    PROVE  /\ stage = "boot" => at' = "down" /\ stage' = "boot"
           /\ stage = "pre" => at' = "idle" /\ stage' = "pre"
           /\ stage \in {"sync", "blind"} => at' = "trade" /\ stage' = "blind"
           /\ stage \in {"boot", "pre", "sync", "blind"}
           /\ health' = IF stage = "pre" THEN "unknown" ELSE health
           /\ doc' = NoRow /\ UNCHANGED <<snapId, todo>>
BY DEF TypeOK, Fails

LEMMA AssignMoves ==
    ASSUME Assign
    PROVE  /\ stage = "boot" => at' = "idle"
           /\ stage # "boot" => at' \in {"rung", "publish"}
           /\ at = "assign" /\ mem' = Saved(doc) /\ doc' = NoRow
           /\ UNCHANGED <<row, published, stage, handlers, orders, applied, tick, faults>>
BY DEF Assign

LEMMA InterruptedMoves ==
    \A place : /\ Interrupted(place) \notin {"compare", "check", "swap", "assign"}
               /\ Interrupted(place) \in {"none", "reported"} => Interrupted(place) = place
BY DEF Interrupted

\* The loop leaves the handlers alone, and they leave it alone.
LEMMA LoopFrame == Loop => UNCHANGED <<task, work, applied>>
BY DEF Loop, Start, LoadRow, LoadFails, CountPositions, CountOrders, Refuse, BeginTick,
       Evaluate, EvaluateFails, Check, CheckFails, Swap, SwapFails, Assign, ListBuys,
       Publish, BeginSync, EndTick, CancelBuy, Build, handlers

LEMMA HandlerFrame ==
    Handler => UNCHANGED <<health, snapId, at, stage, doc, was, todo, order, seen, built, tick>>
BY DEF Handler, TakeFill, Compare, CheckFill, SwapFill, AssignFill, FillFails, Step,
       published, process, orders

\* What is neither a step of the loop nor of a handler nor a crash.
Outside == Executor \/ (\E x \in Exits : Exit(x)) \/ Age

\* A fill is handled once: its handler starts when the order is filled.
OrderInv == \A e \in Entries : order[e] # "filled" => task[e] = "none"

LEMMA OutsideFrame ==
    ASSUME TypeOK, OrderInv, Outside
    PROVE  /\ UNCHANGED <<row, mem, at, stage, doc, work, applied, tick, faults, snapId>>
           /\ \A f \in Fills : \/ task'[f] = task[f]
                               \/ task'[f] = "reported" /\ task[f] = "none"
           /\ health' = health \/ (health' = "stale" /\ health = "healthy")
<1>1. ASSUME NEW e \in Entries, Fill(e)
      PROVE  \A f \in Fills : task'[f] = task[f] \/ (task'[f] = "reported" /\ task[f] = "none")
  <2>1. task[e] = "none"
    BY <1>1 DEF Fill, OrderInv
  <2> QED
    BY <1>1, <2>1 DEF TypeOK, Fill
<1>2. ASSUME NEW e \in Entries, Admit(e) \/ Block(e) \/ Land(e) \/ Fill(e)
      PROVE  UNCHANGED <<row, mem, at, stage, doc, work, applied, tick, faults, snapId, health>>
  BY <1>2 DEF Admit, Block, Land, Fill, Move, process, published
<1>3. ASSUME NEW e \in Entries, Admit(e) \/ Block(e) \/ Land(e)
      PROVE  task' = task
  BY <1>3 DEF Admit, Block, Land
<1>4. ASSUME NEW x \in Exits, Exit(x)
      PROVE  /\ UNCHANGED <<row, mem, at, stage, doc, work, applied, tick, faults, snapId, health>>
             /\ \A f \in Fills : task'[f] = task[f] \/ (task'[f] = "reported" /\ task[f] = "none")
  BY <1>4 DEF TypeOK, Exit, process, published, orders, Fills
<1>5. CASE Age
  BY <1>5 DEF Age, process, handlers
<1> QED
  BY <1>1, <1>2, <1>3, <1>4, <1>5 DEF Outside, Executor

LEMMA NextCases ==
    [Next]_vars <=> Loop \/ Handler \/ Outside \/ Crash \/ UNCHANGED vars
BY DEF Next, Outside

LEMMA OrderInit == Init => OrderInv
BY DEF Init, OrderInv, Fills

LEMMA OrderStep == TypeOK /\ OrderInv /\ [Next]_vars => OrderInv'
<1> SUFFICES ASSUME TypeOK, OrderInv, [Next]_vars PROVE OrderInv'
  OBVIOUS
<1>1. CASE Loop
  <2>1. ASSUME NEW e \in Entries, CancelBuy(e) PROVE OrderInv'
    BY <1>1, <2>1, LoopFrame DEF TypeOK, OrderInv, CancelBuy
  <2>2. ASSUME NEW e \in Entries, Build(e) PROVE OrderInv'
    BY <1>1, <2>2, LoopFrame DEF TypeOK, OrderInv, Build
  <2>3. ASSUME ~\E e \in Entries : CancelBuy(e) \/ Build(e) PROVE order' = order
    BY <1>1, <2>3 DEF Loop, Start, LoadRow, LoadFails, CountPositions, CountOrders, Refuse,
       BeginTick, Evaluate, EvaluateFails, Check, CheckFails, Swap, SwapFails, Assign,
       ListBuys, Publish, BeginSync, EndTick, orders
  <2> QED
    BY <1>1, <2>1, <2>2, <2>3, LoopFrame DEF OrderInv
<1>2. CASE Handler
  <2>1. order' = order
    BY <1>2, HandlerFrame
  <2>2. PICK f \in Fills : \/ TakeFill(f) \/ Compare(f) \/ CheckFill(f)
                           \/ SwapFill(f) \/ AssignFill(f) \/ FillFails(f)
    BY <1>2 DEF Handler
  <2>3. task[f] # "none" /\ \E place : task' = [task EXCEPT ![f] = place]
    BY <2>2 DEF TakeFill, Compare, CheckFill, SwapFill, AssignFill, FillFails, Step
  <2> QED
    BY <2>1, <2>3 DEF OrderInv, TypeOK, Fills
<1>3. CASE Outside
  <2>1. ASSUME NEW e \in Entries, Admit(e) \/ Block(e) \/ Land(e) \/ Fill(e)
        PROVE  OrderInv'
    BY <2>1 DEF OrderInv, TypeOK, Admit, Block, Land, Fill, Move, Fills
  <2>2. ASSUME NEW x \in Exits, Exit(x) PROVE OrderInv'
    BY <2>2, RiskAssumption DEF OrderInv, TypeOK, Exit, orders, Fills
  <2>3. CASE Age
    BY <2>3 DEF OrderInv, Age, orders, handlers
  <2> QED
    BY <1>3, <2>1, <2>2, <2>3 DEF Outside, Executor
<1>4. CASE Crash
  BY <1>4 DEF OrderInv, TypeOK, Crash, Interrupted, Fills
<1>5. CASE UNCHANGED vars
  BY <1>5 DEF OrderInv, vars, orders, handlers
<1> QED
  BY <1>1, <1>2, <1>3, <1>4, <1>5, NextCases

-----------------------------------------------------------------------------
(***************************************************************************)
(* The peak.  A save that has passed its check is committed only if nobody  *)
(* was faster, and then the row still has the peak the check compared: the  *)
(* version stands for the contents.                                         *)
(***************************************************************************)
PeakInv ==
    /\ at = "swap" => doc.ver <= row.ver /\ (doc.ver = row.ver => doc.high >= row.high)
    /\ \A f \in Fills :
           task[f] = "swap" =>
               work[f].ver <= row.ver /\ (work[f].ver = row.ver => work[f].high >= row.high)

\* A save reaches its swap through its check.
LEMMA LoopReachesSwap ==
    ASSUME TypeOK, [Next]_vars, at' = "swap"
    PROVE  doc' = doc /\ (at = "swap" \/ (at = "check" /\ Current(doc) /\ row' = row))
<1>1. ASSUME Fails PROVE FALSE
  BY <1>1, FailsMoves
<1>2. CASE Loop
  BY <1>1, <1>2, AssignMoves
  DEF Loop, Start, LoadRow, LoadFails, CountPositions, CountOrders, Refuse, BeginTick,
      Evaluate, EvaluateFails, Check, CheckFails, Swap, SwapFails, ListBuys, Publish,
      BeginSync, EndTick, CancelBuy, Build, process
<1>3. CASE Crash
  BY <1>3 DEF Crash
<1>4. CASE Executor \/ (\E x \in Exits : Exit(x)) \/ Age
  BY <1>4 DEF Executor, Exit, Age, process, Admit, Block, Land, Fill, Move
<1>5. CASE Handler
  BY <1>5, HandlerFrame
<1>6. CASE UNCHANGED vars
  BY <1>6 DEF vars, process
<1> QED
  BY <1>2, <1>3, <1>4, <1>5, <1>6 DEF Next

LEMMA HandlerReachesSwap ==
    ASSUME TypeOK, OrderInv, [Next]_vars, NEW f \in Fills, task'[f] = "swap"
    PROVE  /\ work'[f] = work[f]
           /\ task[f] = "swap" \/ (task[f] = "check" /\ Current(work[f]) /\ row' = row)
<1>1. CASE Loop
  BY <1>1, LoopFrame
<1>2. CASE Handler
  <2> PICK g \in Fills : \/ TakeFill(g) \/ Compare(g) \/ CheckFill(g)
                         \/ SwapFill(g) \/ AssignFill(g) \/ FillFails(g)
    BY <1>2 DEF Handler
  <2>1. CASE CheckFill(g)
    BY <2>1 DEF TypeOK, CheckFill, Step
  <2>2. ASSUME ~CheckFill(g)
        PROVE  g # f /\ task'[f] = task[f] /\ work'[f] = work[f]
    BY <2>2 DEF TypeOK, TakeFill, Compare, SwapFill, AssignFill, FillFails, Step
  <2> QED
    BY <2>1, <2>2
<1>3. CASE Outside
  BY <1>3, OutsideFrame
<1>4. CASE Crash
  BY <1>4, InterruptedMoves DEF Crash
<1>5. CASE UNCHANGED vars
  BY <1>5 DEF vars, handlers
<1> QED
  BY <1>1, <1>2, <1>3, <1>4, <1>5, NextCases

LEMMA RowMoves ==
    ASSUME TypeOK, OrderInv, [Next]_vars
    PROVE  \/ row' = row
           \/ at = "swap" /\ Swaps(doc) /\ row' = Saved(doc)
           \/ \E f \in Fills : task[f] = "swap" /\ Swaps(work[f]) /\ row' = Saved(work[f])
<1>1. CASE Loop
  BY <1>1
  DEF Loop, Start, LoadRow, LoadFails, CountPositions, CountOrders, Refuse, BeginTick,
      Evaluate, EvaluateFails, Check, CheckFails, Swap, SwapFails, Assign, ListBuys, Publish,
      BeginSync, EndTick, CancelBuy, Build
<1>2. CASE Handler
  BY <1>2 DEF Handler, TakeFill, Compare, CheckFill, SwapFill, AssignFill, FillFails
<1>3. CASE Outside
  BY <1>3, OutsideFrame
<1>4. CASE Crash
  BY <1>4 DEF Crash
<1>5. CASE UNCHANGED vars
  BY <1>5 DEF vars
<1> QED
  BY <1>1, <1>2, <1>3, <1>4, <1>5, NextCases

LEMMA PeakRises ==
    ASSUME TypeOK, OrderInv, PeakInv, [Next]_vars
    PROVE  row' = row \/ (row'.ver = row.ver + 1 /\ row'.high >= row.high)
BY RowMoves DEF PeakInv, Swaps, Saved

LEMMA PeakInit == Init => PeakInv
BY DEF Init, PeakInv

LEMMA PeakStep == TypeOK /\ OrderInv /\ PeakInv /\ [Next]_vars => PeakInv'
<1> SUFFICES ASSUME TypeOK, OrderInv, PeakInv, [Next]_vars PROVE PeakInv'
  OBVIOUS
<1> /\ row \in Rows /\ row' \in Rows /\ doc \in Rows
    /\ work \in [Fills -> Rows]
  BY TypeStep DEF TypeOK
<1>1. row.ver \in Nat /\ row.high \in Nat /\ doc.ver \in Nat /\ row'.ver \in Nat
  BY RowFields
<1>2. ASSUME at' = "swap"
      PROVE  doc'.ver <= row'.ver /\ (doc'.ver = row'.ver => doc'.high >= row'.high)
  <2>1. doc' = doc /\ (at = "swap" \/ (Current(doc) /\ row' = row))
    BY <1>2, LoopReachesSwap
  <2>2. doc.ver <= row.ver /\ (doc.ver = row.ver => doc.high >= row.high)
    BY <1>1, <2>1 DEF PeakInv, Current
  <2> QED
    BY <1>1, <2>1, <2>2, PeakRises
<1>3. ASSUME NEW f \in Fills, task'[f] = "swap"
      PROVE  /\ work'[f].ver <= row'.ver
             /\ work'[f].ver = row'.ver => work'[f].high >= row'.high
  <2>1. work'[f] = work[f] /\ (task[f] = "swap" \/ (Current(work[f]) /\ row' = row))
    BY <1>3, HandlerReachesSwap
  <2>2. work[f].ver \in Nat
    BY RowFields
  <2>3. work[f].ver <= row.ver /\ (work[f].ver = row.ver => work[f].high >= row.high)
    BY <1>1, <2>1, <2>2 DEF PeakInv, Current
  <2> QED
    BY <1>1, <2>1, <2>2, <2>3, PeakRises
<1> QED
  BY <1>2, <1>3 DEF PeakInv

\* The durable peak never falls and the record never disappears: neither a
\* fill handler that saves a copy taken before the peak was raised, nor a
\* bootstrap over a record that could not be read, gets past the version.
THEOREM PeakKept == Spec => PeakNeverFalls
<1>1. Init => TypeOK /\ OrderInv /\ PeakInv
  BY TypeInit, OrderInit, PeakInit
<1>2. TypeOK /\ OrderInv /\ PeakInv /\ [Next]_vars => (TypeOK /\ OrderInv /\ PeakInv)'
  BY TypeStep, OrderStep, PeakStep
<1>3. TypeOK /\ OrderInv /\ PeakInv /\ [Next]_vars
      => [Exists(row) => Exists(row') /\ row'.high >= row.high]_row
  <2> SUFFICES ASSUME TypeOK, OrderInv, PeakInv, [Next]_vars, row' # row
               PROVE  Exists(row') /\ row'.high >= row.high
    OBVIOUS
  <2>1. row.ver \in Nat
    BY RowFields DEF TypeOK
  <2> QED
    BY <2>1, PeakRises DEF Exists
<1> QED
  BY <1>1, <1>2, <1>3, PTL DEF Spec, PeakNeverFalls

-----------------------------------------------------------------------------
(***************************************************************************)
(* The copy of the process and the writers.                                 *)
(***************************************************************************)
Booting == at \in {"down", "load", "positions", "orders"}
Saving(f) == task[f] \in {"compare", "check", "swap"}

\* Where the loop is tells which save it is in, and no handler is at work
\* before the process has booted.
StageInv ==
    /\ Booting => stage = "boot"
    /\ at \in {"evaluate", "rung", "publish", "plan", "trade"} => stage # "boot"
    /\ ~Running => \A f \in Fills : ~Saving(f) /\ task[f] # "assign"

\* The copy is a past row, and every writer starts from a past copy.
CopyInv ==
    /\ mem.ver <= row.ver
    /\ Exists(mem) /\ mem.ver = row.ver => mem = row
    /\ ~Running => ~Exists(mem)
    /\ at \in {"rung", "publish"} => Exists(mem)

LoopWriterInv ==
    /\ at \in {"positions", "orders", "check", "swap"} /\ stage = "boot"
           => doc.ver = 0 /\ doc.sleeve = 0
    /\ at \in {"check", "swap"} /\ stage # "boot"
           => /\ Exists(doc) /\ doc.ver <= mem.ver
              /\ doc.ver = mem.ver => doc.sleeve = mem.sleeve
    /\ at = "assign" => row = Saved(doc) /\ doc.ver = mem.ver

HandlerWriterInv ==
    \A f \in Fills :
        /\ Saving(f) => /\ Exists(work[f]) /\ work[f].ver <= mem.ver
                        /\ work[f].ver = mem.ver => work[f] = Filled(mem, f)
        /\ task[f] = "assign" => /\ row = Saved(work[f])
                                 /\ Exists(mem) /\ work[f].ver = mem.ver
                                 /\ work[f].high = mem.high /\ work[f].equity = mem.equity

\* Only one writer stands between its swap and its assignment.
OneWriterInv ==
    \A f \in Fills : task[f] = "assign" => /\ at # "assign"
                                           /\ \A g \in Fills : task[g] = "assign" => g = f

\* The copy lags behind only for a writer in between, or after a fault.
LagInv ==
    Exists(mem) /\ mem.ver < row.ver =>
        faults > 0 \/ at = "assign" \/ (\E f \in Fills : task[f] = "assign")

WriterInv == StageInv /\ CopyInv /\ LoopWriterInv /\ HandlerWriterInv /\ OneWriterInv

LEMMA StageInit == Init => StageInv
BY DEF Init, StageInv, Booting, Running, Saving

\* Only a crash stops the process, and only the loop moves itself.
LEMMA LoopStage ==
    ASSUME TypeOK, StageInv, Loop
    PROVE  /\ Booting' => stage' = "boot"
           /\ at' \in {"evaluate", "rung", "publish", "plan", "trade"} => stage' # "boot"
           /\ ~Running' => ~Running
<1> USE DEF StageInv, Booting, Running, process
<1>1. CASE Start
  BY <1>1 DEF Start
<1>2. CASE LoadRow
  BY <1>2 DEF LoadRow
<1>3. CASE LoadFails
  BY <1>3 DEF LoadFails
<1>4. CASE CountPositions
  BY <1>4 DEF CountPositions, Refuse
<1>5. CASE CountOrders
  BY <1>5 DEF CountOrders, Refuse
<1>6. CASE BeginTick
  BY <1>6 DEF BeginTick
<1>7. CASE Evaluate
  BY <1>7 DEF Evaluate
<1>8. CASE EvaluateFails
  BY <1>8, FailsMoves DEF EvaluateFails
<1>9. CASE Check
  BY <1>9 DEF Check
<1>10. CASE CheckFails
  BY <1>10, FailsMoves DEF CheckFails
<1>11. CASE Swap
  BY <1>11 DEF Swap
<1>12. CASE SwapFails
  BY <1>12, FailsMoves DEF SwapFails
<1>13. CASE Assign
  BY <1>13, AssignMoves
<1>14. CASE ListBuys
  BY <1>14 DEF ListBuys
<1>15. CASE Publish
  BY <1>15 DEF Publish
<1>16. CASE BeginSync
  BY <1>16 DEF BeginSync
<1>17. CASE EndTick
  BY <1>17 DEF EndTick
<1>18. ASSUME NEW e \in Entries, CancelBuy(e) \/ Build(e)
       PROVE  UNCHANGED <<at, stage>>
  BY <1>18 DEF CancelBuy, Build
<1> QED
  BY <1>1, <1>2, <1>3, <1>4, <1>5, <1>6, <1>7, <1>8, <1>9, <1>10, <1>11, <1>12, <1>13,
     <1>14, <1>15, <1>16, <1>17, <1>18 DEF Loop

\* A handler starts only in a running process that has a record.
LEMMA HandlerMoves ==
    ASSUME TypeOK, Handler
    PROVE  \E f \in Fills :
               /\ \A g \in Fills \ {f} : task'[g] = task[g] /\ work'[g] = work[g]
               /\ Saving(f) \/ task[f] = "assign" \/ (task[f] = "reported" /\ Running)
               /\ \/ /\ task[f] = "reported" /\ Exists(mem)
                     /\ task'[f] = "compare" /\ work'[f] = Filled(mem, f)
                     /\ UNCHANGED <<row, mem, applied, faults>>
                  \/ /\ Saving(f)
                     /\ task'[f] \in {"check", "swap"} /\ work'[f] = work[f]
                     /\ UNCHANGED <<row, mem, applied, faults>>
                  \/ /\ task[f] = "swap" /\ Swaps(work[f]) /\ row' = Saved(work[f])
                     /\ task'[f] = "assign" /\ work'[f] = work[f]
                     /\ applied' = applied \cup {f}
                     /\ UNCHANGED <<mem, faults>>
                  \/ /\ task[f] = "assign" /\ mem' = Saved(work[f])
                     /\ task'[f] = "booked" /\ UNCHANGED <<row, applied, faults>>
                  \/ /\ task[f] # "assign" /\ task'[f] \in {"booked", "raised"}
                     /\ mem' = mem
                     /\ \/ UNCHANGED <<row, applied>> /\ (faults' = faults \/ faults' = faults + 1)
                        \/ /\ task[f] = "swap" /\ Swaps(work[f]) /\ row' = Saved(work[f])
                           /\ applied' = applied \cup {f} /\ faults' = faults + 1
<1> PICK f \in Fills : \/ TakeFill(f) \/ Compare(f) \/ CheckFill(f)
                       \/ SwapFill(f) \/ AssignFill(f) \/ FillFails(f)
  BY DEF Handler
<1>1. \A g \in Fills \ {f} : task'[g] = task[g] /\ work'[g] = work[g]
  BY DEF TypeOK, TakeFill, Compare, CheckFill, SwapFill, AssignFill, FillFails, Step
<1>2. Saving(f) \/ task[f] = "assign" \/ (task[f] = "reported" /\ Running)
  BY DEF Saving, TakeFill, Compare, CheckFill, SwapFill, AssignFill, FillFails
<1>3. CASE TakeFill(f)
  BY <1>1, <1>2, <1>3 DEF TypeOK, TakeFill, Step
<1>4. CASE Compare(f)
  BY <1>1, <1>2, <1>4 DEF TypeOK, Compare, Step, Saving
<1>5. CASE CheckFill(f)
  BY <1>1, <1>2, <1>5 DEF TypeOK, CheckFill, Step, Saving
<1>6. CASE SwapFill(f)
  BY <1>1, <1>2, <1>6 DEF TypeOK, SwapFill, Step
<1>7. CASE AssignFill(f)
  BY <1>1, <1>2, <1>7 DEF TypeOK, AssignFill, Step
<1>8. CASE FillFails(f)
  BY <1>1, <1>2, <1>8 DEF TypeOK, FillFails, Step, Fault
<1> QED
  BY <1>3, <1>4, <1>5, <1>6, <1>7, <1>8

LEMMA StageStep == TypeOK /\ OrderInv /\ StageInv /\ [Next]_vars => StageInv'
<1> SUFFICES ASSUME TypeOK, OrderInv, StageInv, [Next]_vars PROVE StageInv'
  OBVIOUS
<1>1. CASE Loop
  <2>1. \A f \in Fills : (Saving(f))' = Saving(f) /\ task'[f] = task[f]
    BY <1>1, LoopFrame DEF Saving
  <2> QED
    BY <1>1, <2>1, LoopStage DEF StageInv
<1>2. CASE Handler
  <2>1. UNCHANGED <<at, stage>> /\ Running' = Running /\ Booting' = Booting
    BY <1>2, HandlerFrame DEF Running, Booting
  <2>2. ASSUME ~Running PROVE FALSE
    BY <1>2, <2>2, HandlerMoves DEF StageInv
  <2> QED
    BY <2>1, <2>2 DEF StageInv
<1>3. CASE Outside
  <2>1. UNCHANGED <<at, stage>> /\ Running' = Running /\ Booting' = Booting
    BY <1>3, OutsideFrame DEF Running, Booting
  <2>2. ASSUME NEW f \in Fills, (Saving(f))' \/ task'[f] = "assign"
        PROVE  Saving(f) \/ task[f] = "assign"
    BY <1>3, <2>2, OutsideFrame DEF Saving
  <2> QED
    BY <2>1, <2>2 DEF StageInv
<1>4. CASE Crash
  <2>1. \A f \in Fills : task'[f] \notin {"compare", "check", "swap", "assign"}
    BY <1>4, InterruptedMoves DEF Crash
  <2> QED
    BY <1>4, <2>1 DEF Crash, StageInv, Booting, Running, Saving
<1>5. CASE UNCHANGED vars
  BY <1>5 DEF vars, process, handlers, StageInv, Booting, Running, Saving
<1> QED
  BY <1>1, <1>2, <1>3, <1>4, <1>5, NextCases

LEMMA WriterInit == Init => WriterInv /\ LagInv
<1> SUFFICES ASSUME Init PROVE WriterInv /\ LagInv
  OBVIOUS
<1>1. row \in Rows
  BY RowTypes DEF Init
<1>2. row.ver \in Nat
  BY <1>1, RowFields
<1>3. mem.ver = 0
  BY DEF Init, NoRow
<1>4. CopyInv /\ LagInv
  BY <1>2, <1>3 DEF Init, CopyInv, LagInv, Exists
<1>5. LoopWriterInv /\ HandlerWriterInv /\ OneWriterInv
  BY DEF Init, LoopWriterInv, HandlerWriterInv, OneWriterInv, Saving
<1> QED
  BY <1>4, <1>5, StageInit DEF WriterInv

LEMMA FilledKeeps ==
    ASSUME NEW r \in Rows, NEW f \in Fills
    PROVE  /\ Filled(r, f).ver = r.ver /\ Filled(r, f).high = r.high
           /\ Filled(r, f).equity = r.equity
BY DEF Filled

LEMMA SavedFields ==
    ASSUME NEW r \in Rows
    PROVE  /\ Saved(r).ver = r.ver + 1 /\ Saved(r).high = r.high
           /\ Saved(r).equity = r.equity /\ Saved(r).sleeve = r.sleeve
BY DEF Saved

\* The numbers that the records hold.
LEMMA Versions ==
    ASSUME TypeOK
    PROVE  /\ row.ver \in Nat /\ mem.ver \in Nat /\ doc.ver \in Nat
           /\ row.sleeve \in Nat /\ mem.sleeve \in Nat /\ doc.sleeve \in Nat
           /\ \A f \in Fills : work[f].ver \in Nat
BY RowFields DEF TypeOK

\* The writer that commits was up to date: nobody else is in between.
LEMMA LoopCommits ==
    ASSUME TypeOK, WriterInv, at = "swap", Swaps(doc)
    PROVE  /\ mem.ver = row.ver /\ doc.ver = mem.ver
           /\ \A f \in Fills : task[f] # "assign"
<1>1. doc.ver <= mem.ver
  BY Versions DEF WriterInv, LoopWriterInv, Exists
<1>2. mem.ver = row.ver /\ doc.ver = mem.ver
  BY <1>1, Versions DEF WriterInv, CopyInv, Swaps
<1>3. ASSUME NEW f \in Fills, task[f] = "assign" PROVE FALSE
  <2>1. row.ver = work[f].ver + 1 /\ work[f].ver = mem.ver
    BY <1>3, SavedFields DEF TypeOK, WriterInv, HandlerWriterInv
  <2> QED
    BY <1>2, <2>1, Versions
<1> QED
  BY <1>2, <1>3

LEMMA HandlerCommits ==
    ASSUME TypeOK, WriterInv, NEW f \in Fills, task[f] = "swap", Swaps(work[f])
    PROVE  /\ mem.ver = row.ver /\ work[f].ver = mem.ver /\ Exists(mem)
           /\ work[f] = Filled(row, f) /\ mem = row
           /\ at # "assign" /\ \A g \in Fills : task[g] # "assign"
<1>1. work[f].ver <= mem.ver /\ Exists(work[f])
      /\ (work[f].ver = mem.ver => work[f] = Filled(mem, f))
  BY DEF WriterInv, HandlerWriterInv, Saving
<1>2. mem.ver = row.ver /\ work[f].ver = mem.ver /\ Exists(mem)
  BY <1>1, Versions DEF WriterInv, CopyInv, Swaps, Exists
<1>3. mem = row
  BY <1>2 DEF WriterInv, CopyInv
<1>4. ASSUME at = "assign" PROVE FALSE
  <2>1. row.ver = doc.ver + 1 /\ doc.ver = mem.ver
    BY <1>4, SavedFields DEF TypeOK, WriterInv, LoopWriterInv
  <2> QED
    BY <1>2, <2>1, Versions
<1>5. ASSUME NEW g \in Fills, task[g] = "assign" PROVE FALSE
  <2>1. row.ver = work[g].ver + 1 /\ work[g].ver = mem.ver
    BY <1>5, SavedFields DEF TypeOK, WriterInv, HandlerWriterInv
  <2> QED
    BY <1>2, <2>1, Versions
<1> QED
  BY <1>1, <1>2, <1>3, <1>4, <1>5

(***************************************************************************)
(* Where the rows and the handlers' records stay, only the loop's own place *)
(* and record have to be looked at.                                         *)
(***************************************************************************)
LEMMA QuietLoop ==
    ASSUME TypeOK, WriterInv, LagInv, UNCHANGED <<row, mem, task, work, applied>>,
           faults' \in Nat, faults > 0 => faults' > 0, at # "assign", at' # "assign",
           ~Running' => ~Running, at' \in {"rung", "publish"} => at \in {"rung", "publish"},
           StageInv', LoopWriterInv'
    PROVE  WriterInv' /\ LagInv'
<1>1. CopyInv'
  BY DEF WriterInv, CopyInv, Exists
<1>2. HandlerWriterInv' /\ OneWriterInv'
  BY DEF WriterInv, HandlerWriterInv, OneWriterInv, Saving, Exists
<1>3. LagInv'
  BY DEF LagInv, Exists
<1> QED
  BY <1>1, <1>2, <1>3 DEF WriterInv

LEMMA FaultGrows ==
    ASSUME TypeOK
    PROVE  /\ faults \in Nat
           /\ Fault => faults' \in Nat /\ faults' > 0
BY RiskAssumption DEF TypeOK, Fault

LEMMA EvaluatedKeeps ==
    ASSUME NEW r, NEW e
    PROVE  Evaluated(r, e).ver = r.ver /\ Evaluated(r, e).sleeve = r.sleeve
BY DEF Evaluated

LEMMA LoopWriters ==
    ASSUME TypeOK, WriterInv, LagInv, Loop, StageInv', UNCHANGED <<task, work, applied>>
    PROVE  WriterInv' /\ LagInv'
<1> USE FaultGrows
<1> ~Running' => ~Running
  BY LoopStage DEF WriterInv
<1> StageInv /\ LoopWriterInv /\ CopyInv
  BY DEF WriterInv
<1>1. CASE Start
  BY <1>1, QuietLoop DEF Start, LoopWriterInv
<1>2. CASE LoadRow
  <2>1. mem' = row /\ row' = row /\ at = "load" /\ at' = "idle" /\ Exists(row)
    BY <1>2 DEF LoadRow
  <2>2. \A f \in Fills : ~Saving(f) /\ task[f] # "assign"
    BY <2>1 DEF StageInv, Running
  <2> Running'
    BY <2>1 DEF Running
  <2>3. HandlerWriterInv' /\ OneWriterInv'
    BY <2>2 DEF HandlerWriterInv, OneWriterInv, Saving
  <2>4. CopyInv' /\ LoopWriterInv' /\ LagInv'
    BY <2>1, Versions DEF CopyInv, LoopWriterInv, LagInv, Exists
  <2> QED
    BY <2>3, <2>4 DEF WriterInv
<1>3. CASE LoadFails
  <2>1. LoopWriterInv'
    BY <1>3 DEF LoadFails, LoopWriterInv, Initialized, StageInv, Booting
  <2> QED
    BY <1>3, <2>1, QuietLoop DEF LoadFails
<1>4. CASE CountPositions
  <2>1. LoopWriterInv'
    BY <1>4 DEF CountPositions, Refuse, LoopWriterInv, StageInv, Booting
  <2> QED
    BY <1>4, <2>1, QuietLoop DEF CountPositions, Refuse
<1>5. CASE CountOrders
  <2>1. LoopWriterInv'
    BY <1>5 DEF CountOrders, Refuse, LoopWriterInv, StageInv, Booting
  <2> QED
    BY <1>5, <2>1, QuietLoop DEF CountOrders, Refuse
<1>6. CASE BeginTick
  BY <1>6, QuietLoop DEF BeginTick, LoopWriterInv
<1>7. CASE Evaluate
  <2>1. /\ Exists(mem) /\ \E e \in Equities : doc' = Evaluated(mem, e)
        /\ at' = "check" /\ stage' = stage /\ stage # "boot"
        /\ UNCHANGED <<row, mem, faults>>
    BY <1>7 DEF Evaluate, StageInv
  <2>2. doc'.ver = mem.ver /\ doc'.sleeve = mem.sleeve
    BY <2>1, EvaluatedKeeps
  <2>3. LoopWriterInv'
    BY <2>1, <2>2, Versions DEF LoopWriterInv, Exists
  <2> QED
    BY <1>7, <2>1, <2>3, QuietLoop DEF Evaluate
<1>8. ASSUME Fails PROVE at' \in {"down", "idle", "trade"} /\ LoopWriterInv'
  BY <1>8, FailsMoves DEF LoopWriterInv
<1>9. CASE EvaluateFails
  BY <1>8, <1>9, QuietLoop DEF EvaluateFails
<1>10. CASE Check
  <2>1. LoopWriterInv'
    BY <1>10 DEF Check, LoopWriterInv, Exists
  <2> QED
    BY <1>10, <2>1, QuietLoop DEF Check
<1>11. CASE CheckFails
  BY <1>8, <1>11, QuietLoop DEF CheckFails
<1>12. CASE Swap
  <2>1. /\ at = "swap" /\ Swaps(doc) /\ row' = Saved(doc)
        /\ at' = "assign" /\ UNCHANGED <<mem, doc, stage>>
    BY <1>12 DEF Swap
  <2>2. /\ mem.ver = row.ver /\ doc.ver = mem.ver
        /\ \A f \in Fills : task[f] # "assign"
    BY <2>1, LoopCommits
  <2>3. row'.ver = mem.ver + 1
    BY <2>1, <2>2, SavedFields DEF TypeOK
  <2>4. CopyInv'
    BY <2>1, <2>3, Versions DEF CopyInv, Exists
  <2>5. LoopWriterInv' /\ OneWriterInv' /\ LagInv'
    BY <2>1, <2>2 DEF LoopWriterInv, OneWriterInv, LagInv
  <2>6. HandlerWriterInv'
    BY <2>1, <2>2 DEF WriterInv, HandlerWriterInv, Saving, Exists
  <2> QED
    BY <2>4, <2>5, <2>6 DEF WriterInv
<1>13. CASE SwapFails
  <2>1. CASE row' = row
    BY <1>8, <1>13, <2>1, QuietLoop DEF SwapFails
  <2>2. CASE row' # row
    <3>1. at = "swap" /\ Swaps(doc) /\ row' = Saved(doc) /\ mem' = mem /\ Fault /\ Fails
      BY <1>13, <2>2 DEF SwapFails
    <3>2. /\ mem.ver = row.ver /\ doc.ver = mem.ver
          /\ \A f \in Fills : task[f] # "assign"
      BY <3>1, LoopCommits
    <3>3. row'.ver = mem.ver + 1
      BY <3>1, <3>2, SavedFields DEF TypeOK
    <3>4. CopyInv'
      BY <1>8, <3>1, <3>3, Versions DEF CopyInv, Exists
    <3>5. OneWriterInv' /\ LagInv'
      BY <3>1, <3>2 DEF OneWriterInv, LagInv
    <3>6. HandlerWriterInv'
      BY <3>1, <3>2 DEF WriterInv, HandlerWriterInv, Saving, Exists
    <3> QED
      BY <1>8, <3>1, <3>4, <3>5, <3>6 DEF WriterInv
  <2> QED
    BY <2>1, <2>2
<1>14. CASE Assign
  <2>1. /\ at = "assign" /\ at' \in {"idle", "rung", "publish"}
        /\ mem' = Saved(doc) /\ row' = row
    BY <1>14, AssignMoves DEF StageInv
  <2>2. row = Saved(doc) /\ doc.ver = mem.ver
    BY <2>1 DEF LoopWriterInv
  <2>3. mem' = row /\ mem'.ver = mem.ver + 1
    BY <2>1, <2>2, SavedFields DEF TypeOK
  <2>4. CopyInv' /\ LagInv' /\ LoopWriterInv'
    BY <2>1, <2>3, Versions DEF CopyInv, LagInv, LoopWriterInv, Exists, Running
  <2>5. \A f \in Fills : task[f] # "assign"
    BY <2>1 DEF WriterInv, OneWriterInv
  <2>6. ASSUME NEW f \in Fills, Saving(f)
        PROVE  Exists(work[f]) /\ work[f].ver < mem'.ver
    BY <2>3, <2>6, Versions DEF WriterInv, HandlerWriterInv
  <2>7. OneWriterInv' /\ HandlerWriterInv'
    BY <2>3, <2>5, <2>6, Versions DEF OneWriterInv, HandlerWriterInv, Saving, Exists
  <2> QED
    BY <2>4, <2>7 DEF WriterInv
<1>15. CASE ListBuys
  BY <1>15, QuietLoop DEF ListBuys, LoopWriterInv
<1>16. CASE Publish
  BY <1>16, QuietLoop DEF Publish, LoopWriterInv
<1>17. CASE BeginSync
  BY <1>17, QuietLoop DEF BeginSync, LoopWriterInv
<1>18. CASE EndTick
  BY <1>18, QuietLoop DEF EndTick, LoopWriterInv
<1>19. ASSUME NEW e \in Entries, CancelBuy(e) PROVE WriterInv' /\ LagInv'
  BY <1>19, QuietLoop DEF CancelBuy, LoopWriterInv
<1>20. ASSUME NEW e \in Entries, Build(e) PROVE WriterInv' /\ LagInv'
  BY <1>20, QuietLoop DEF Build, LoopWriterInv, process
<1> QED
  BY <1>1, <1>2, <1>3, <1>4, <1>5, <1>6, <1>7, <1>9, <1>10, <1>11, <1>12, <1>13,
     <1>14, <1>15, <1>16, <1>17, <1>18, <1>19, <1>20 DEF Loop

LEMMA HandlerWriters ==
    ASSUME TypeOK, WriterInv, LagInv, Handler, StageInv'
    PROVE  WriterInv' /\ LagInv'
<1> PICK f \in Fills :
        /\ \A g \in Fills \ {f} : task'[g] = task[g] /\ work'[g] = work[g]
        /\ Saving(f) \/ task[f] = "assign" \/ (task[f] = "reported" /\ Running)
        /\ \/ /\ task[f] = "reported" /\ Exists(mem)
              /\ task'[f] = "compare" /\ work'[f] = Filled(mem, f)
              /\ UNCHANGED <<row, mem, applied, faults>>
           \/ /\ Saving(f)
              /\ task'[f] \in {"check", "swap"} /\ work'[f] = work[f]
              /\ UNCHANGED <<row, mem, applied, faults>>
           \/ /\ task[f] = "swap" /\ Swaps(work[f]) /\ row' = Saved(work[f])
              /\ task'[f] = "assign" /\ work'[f] = work[f]
              /\ applied' = applied \cup {f}
              /\ UNCHANGED <<mem, faults>>
           \/ /\ task[f] = "assign" /\ mem' = Saved(work[f])
              /\ task'[f] = "booked" /\ UNCHANGED <<row, applied, faults>>
           \/ /\ task[f] # "assign" /\ task'[f] \in {"booked", "raised"}
              /\ mem' = mem
              /\ \/ UNCHANGED <<row, applied>> /\ (faults' = faults \/ faults' = faults + 1)
                 \/ /\ task[f] = "swap" /\ Swaps(work[f]) /\ row' = Saved(work[f])
                    /\ applied' = applied \cup {f} /\ faults' = faults + 1
  BY HandlerMoves
<1> UNCHANGED <<at, stage, doc>>
  BY HandlerFrame
<1> Running
  BY DEF WriterInv, StageInv
<1> Running' = Running
  BY DEF Running
<1> faults \in Nat /\ mem \in Rows /\ row \in Rows /\ work[f] \in Rows
  BY FaultGrows DEF TypeOK
<1> StageInv /\ CopyInv /\ LoopWriterInv /\ HandlerWriterInv /\ OneWriterInv
  BY DEF WriterInv
<1>1. CASE /\ task[f] = "reported" /\ Exists(mem)
           /\ task'[f] = "compare" /\ work'[f] = Filled(mem, f)
           /\ UNCHANGED <<row, mem, applied, faults>>
  <2>1. work'[f].ver = mem.ver
    BY <1>1, FilledKeeps
  <2>2. HandlerWriterInv'
    BY <1>1, <2>1, Versions DEF HandlerWriterInv, Saving, Exists
  <2>3. OneWriterInv' /\ LagInv'
    BY <1>1 DEF OneWriterInv, LagInv, Exists
  <2>4. CopyInv' /\ LoopWriterInv'
    BY <1>1 DEF CopyInv, LoopWriterInv, Exists
  <2> QED
    BY <2>2, <2>3, <2>4 DEF WriterInv
<1>2. CASE /\ Saving(f)
           /\ task'[f] \in {"check", "swap"} /\ work'[f] = work[f]
           /\ UNCHANGED <<row, mem, applied, faults>>
  <2>1. HandlerWriterInv'
    BY <1>2 DEF HandlerWriterInv, Saving, Exists
  <2>2. OneWriterInv' /\ LagInv'
    BY <1>2 DEF OneWriterInv, LagInv, Exists, Saving
  <2>3. CopyInv' /\ LoopWriterInv'
    BY <1>2 DEF CopyInv, LoopWriterInv, Exists
  <2> QED
    BY <2>1, <2>2, <2>3 DEF WriterInv
<1>3. ASSUME task[f] = "swap", Swaps(work[f]), row' = Saved(work[f])
      PROVE  /\ mem.ver = row.ver /\ work[f].ver = mem.ver /\ Exists(mem)
             /\ work[f].high = mem.high /\ work[f].equity = mem.equity
             /\ at # "assign" /\ (\A g \in Fills : task[g] # "assign")
             /\ row'.ver = mem.ver + 1
  <2>1. /\ mem.ver = row.ver /\ work[f].ver = mem.ver /\ Exists(mem)
        /\ work[f] = Filled(row, f) /\ mem = row
        /\ at # "assign" /\ \A g \in Fills : task[g] # "assign"
    BY <1>3, HandlerCommits
  <2> QED
    BY <1>3, <2>1, FilledKeeps, SavedFields
<1>4. CASE /\ task[f] = "swap" /\ Swaps(work[f]) /\ row' = Saved(work[f])
           /\ task'[f] = "assign" /\ work'[f] = work[f]
           /\ UNCHANGED <<mem, faults>>
  <2>1. HandlerWriterInv'
    BY <1>3, <1>4 DEF HandlerWriterInv, Saving, Exists
  <2>2. OneWriterInv' /\ LagInv'
    BY <1>3, <1>4 DEF OneWriterInv, LagInv
  <2>3. CopyInv' /\ LoopWriterInv'
    BY <1>3, <1>4, Versions DEF CopyInv, LoopWriterInv, Exists
  <2> QED
    BY <2>1, <2>2, <2>3 DEF WriterInv
<1>5. CASE /\ task[f] = "assign" /\ mem' = Saved(work[f])
           /\ task'[f] = "booked" /\ UNCHANGED <<row, applied, faults>>
  <2>1. mem' = row /\ work[f].ver = mem.ver /\ Exists(mem)
    BY <1>5 DEF HandlerWriterInv
  <2>2. mem'.ver = mem.ver + 1
    BY <1>5, <2>1, SavedFields
  <2>3. at # "assign" /\ \A g \in Fills \ {f} : task[g] # "assign"
    BY <1>5 DEF OneWriterInv
  <2>4. ASSUME NEW g \in Fills, (Saving(g))'
        PROVE  Exists(work'[g]) /\ work'[g].ver < mem'.ver
    BY <1>5, <2>2, <2>4, Versions DEF HandlerWriterInv, Saving, Exists
  <2>5. HandlerWriterInv'
    BY <1>5, <2>2, <2>3, <2>4, Versions DEF HandlerWriterInv, Saving
  <2>6. CopyInv' /\ LagInv' /\ OneWriterInv'
    BY <1>5, <2>1, <2>2, <2>3, Versions DEF CopyInv, LagInv, OneWriterInv, Exists
  <2>7. LoopWriterInv'
    BY <1>5, <2>2, <2>3, Versions DEF LoopWriterInv, Exists
  <2> QED
    BY <2>5, <2>6, <2>7 DEF WriterInv
<1>6. CASE /\ task[f] # "assign" /\ task'[f] \in {"booked", "raised"}
           /\ mem' = mem /\ row' = row /\ (faults' = faults \/ faults' = faults + 1)
  <2>1. HandlerWriterInv'
    BY <1>6 DEF HandlerWriterInv, Saving, Exists
  <2>2. OneWriterInv' /\ LagInv'
    BY <1>6 DEF OneWriterInv, LagInv, Exists
  <2>3. CopyInv' /\ LoopWriterInv'
    BY <1>6 DEF CopyInv, LoopWriterInv, Exists
  <2> QED
    BY <2>1, <2>2, <2>3 DEF WriterInv
<1>7. CASE /\ task[f] = "swap" /\ Swaps(work[f]) /\ row' = Saved(work[f])
           /\ task'[f] \in {"booked", "raised"}
           /\ mem' = mem /\ faults' = faults + 1
  <2>1. HandlerWriterInv'
    BY <1>3, <1>7 DEF HandlerWriterInv, Saving, Exists
  <2>2. OneWriterInv' /\ LagInv'
    BY <1>3, <1>7 DEF OneWriterInv, LagInv
  <2>3. CopyInv' /\ LoopWriterInv'
    BY <1>3, <1>7, Versions DEF CopyInv, LoopWriterInv, Exists
  <2> QED
    BY <2>1, <2>2, <2>3 DEF WriterInv
<1> QED
  BY <1>1, <1>2, <1>4, <1>5, <1>6, <1>7

LEMMA WriterStep ==
    TypeOK /\ OrderInv /\ WriterInv /\ LagInv /\ [Next]_vars => WriterInv' /\ LagInv'
<1> SUFFICES ASSUME TypeOK, OrderInv, WriterInv, LagInv, [Next]_vars
             PROVE  WriterInv' /\ LagInv'
  OBVIOUS
<1> StageInv /\ StageInv'
  BY StageStep DEF WriterInv
<1>1. CASE Loop
  BY <1>1, LoopFrame, LoopWriters
<1>2. CASE Handler
  BY <1>2, HandlerWriters
<1>3. CASE Outside
  <2>1. UNCHANGED <<row, mem, at, stage, doc, work, faults>> /\ Running' = Running
    BY <1>3, OutsideFrame DEF Running
  <2>2. \A f \in Fills : /\ (Saving(f))' = Saving(f)
                         /\ (task'[f] = "assign") = (task[f] = "assign")
    BY <1>3, OutsideFrame DEF Saving
  <2>3. CopyInv' /\ LoopWriterInv' /\ LagInv'
    BY <2>1, <2>2 DEF WriterInv, CopyInv, LoopWriterInv, LagInv, Exists
  <2>4. HandlerWriterInv' /\ OneWriterInv'
    BY <2>1, <2>2 DEF WriterInv, HandlerWriterInv, OneWriterInv, Exists
  <2> QED
    BY <2>3, <2>4 DEF WriterInv
<1>4. CASE Crash
  <2>1. \A f \in Fills : task'[f] \notin {"compare", "check", "swap", "assign"}
    BY <1>4, InterruptedMoves DEF Crash
  <2>2. mem'.ver = 0 /\ at' = "down" /\ row' = row
    BY <1>4 DEF Crash, NoRow
  <2>3. CopyInv' /\ LoopWriterInv' /\ LagInv'
    BY <2>2, Versions DEF CopyInv, LoopWriterInv, LagInv, Exists
  <2>4. HandlerWriterInv' /\ OneWriterInv'
    BY <2>1 DEF HandlerWriterInv, OneWriterInv, Saving
  <2> QED
    BY <2>3, <2>4 DEF WriterInv
<1>5. CASE UNCHANGED vars
  BY <1>5 DEF vars, process, handlers, WriterInv, StageInv, CopyInv, LoopWriterInv,
     HandlerWriterInv, OneWriterInv, LagInv, Booting, Running, Saving, Exists
<1> QED
  BY <1>1, <1>2, <1>3, <1>4, <1>5, NextCases

LEMMA WriterSafe == Spec => [](TypeOK /\ OrderInv /\ WriterInv /\ LagInv)
<1>1. Init => TypeOK /\ OrderInv /\ WriterInv /\ LagInv
  BY TypeInit, OrderInit, WriterInit
<1>2. TypeOK /\ OrderInv /\ WriterInv /\ LagInv /\ [Next]_vars
      => (TypeOK /\ OrderInv /\ WriterInv /\ LagInv)'
  BY TypeStep, OrderStep, WriterStep
<1> QED
  BY <1>1, <1>2, PTL DEF Spec

\* The unprotected copy of the process is always a row of the past, and is
\* behind the durable row only between some writer's swap and its assignment,
\* as long as no call has failed: any number of handlers and the loop may
\* read, change and save it at once.
THEOREM CopyCatchesUp == Spec => []MemoryCatchesUp
<1>1. TypeOK /\ WriterInv /\ LagInv => MemoryCatchesUp
  BY Versions DEF WriterInv, CopyInv, LagInv, MemoryCatchesUp
<1> QED
  BY <1>1, WriterSafe, PTL

-----------------------------------------------------------------------------
(***************************************************************************)
(* The gate's evidence.  The published verdict is that of the copy in       *)
(* memory except between an evaluation and its publication, and then no     *)
(* entry of the current cycle has been built; an entry of an earlier cycle  *)
(* carries a version below the one that is published.                       *)
(***************************************************************************)
VerdictInv ==
    /\ snapId <= mem.ver
    /\ health \in {"healthy", "stale"} => snapId > 0
    /\ stage = "boot" => health = "unknown"
    /\ health = "healthy" /\ at \notin {"rung", "publish"} => LevelOf(mem) = "normal"

BuiltInv ==
    \A e \in Entries :
        /\ seen[e] <= mem.ver /\ built[e] <= tick
        /\ at \in {"rung", "publish"} => seen[e] < mem.ver
        /\ order[e] = "built" =>
               /\ built[e] = tick => at \in {"trade", "idle"}
               /\ health = "healthy" /\ seen[e] = snapId => built[e] = tick

EvidenceInv == VerdictInv /\ BuiltInv

LEMMA EvidenceInit == Init => EvidenceInv
<1> SUFFICES ASSUME Init PROVE EvidenceInv
  OBVIOUS
<1>1. mem.ver = 0
  BY DEF Init, NoRow
<1> QED
  BY <1>1 DEF Init, EvidenceInv, VerdictInv, BuiltInv

LEMMA EvidenceTypes ==
    ASSUME TypeOK
    PROVE  /\ snapId \in Nat /\ tick \in Nat /\ mem.ver \in Nat
           /\ \A e \in Entries : seen[e] \in Nat /\ built[e] \in Nat
BY Versions, RiskAssumption DEF TypeOK

\* Steps that publish nothing, build nothing and keep the copy in memory.
LEMMA QuietEvidence ==
    ASSUME TypeOK, EvidenceInv, UNCHANGED <<mem, snapId, seen, built, tick>>,
           health' = health \/ health' = "unknown",
           stage' = "boot" => stage = "boot",
           at \notin {"rung", "publish"} \/ at' \in {"rung", "publish"},
           at' \in {"rung", "publish"} => at \in {"rung", "publish"},
           at' \in {"trade", "idle"} \/ at \notin {"trade", "idle"},
           \A e \in Entries : order'[e] = "built" => order[e] = "built"
    PROVE  EvidenceInv'
BY EvidenceTypes DEF EvidenceInv, VerdictInv, BuiltInv

LEMMA LoopEvidence ==
    ASSUME TypeOK, WriterInv, EvidenceInv, Loop
    PROVE  EvidenceInv'
<1> USE DEF process, published, orders
<1> StageInv /\ LoopWriterInv /\ CopyInv
  BY DEF WriterInv
<1>1. CASE Start
  BY <1>1, QuietEvidence DEF Start
<1>2. CASE LoadRow
  <2>1. /\ mem' = row /\ mem.ver <= row.ver /\ at' = "idle" /\ stage = "boot"
        /\ UNCHANGED <<stage, health, snapId, seen, built, tick, order>>
    BY <1>2 DEF LoadRow, CopyInv, StageInv, Booting
  <2> QED
    BY <2>1, EvidenceTypes, Versions DEF EvidenceInv, VerdictInv, BuiltInv
<1>3. CASE LoadFails
  BY <1>3, QuietEvidence DEF LoadFails
<1>4. CASE CountPositions
  BY <1>4, QuietEvidence DEF CountPositions, Refuse
<1>5. CASE CountOrders
  BY <1>5, QuietEvidence DEF CountOrders, Refuse
<1>6. CASE BeginTick
  BY <1>6, EvidenceTypes DEF BeginTick, EvidenceInv, VerdictInv, BuiltInv
<1>7. CASE Evaluate
  BY <1>7, QuietEvidence DEF Evaluate
<1>8. ASSUME Fails, UNCHANGED <<mem, seen, built, tick, order>>,
             at \in {"evaluate", "check", "swap"}
      PROVE  EvidenceInv'
  BY <1>8, FailsMoves, QuietEvidence
<1>9. CASE EvaluateFails
  BY <1>8, <1>9 DEF EvaluateFails
<1>10. CASE Check
  BY <1>10, QuietEvidence DEF Check
<1>11. CASE CheckFails
  BY <1>8, <1>11 DEF CheckFails
<1>12. CASE Swap
  BY <1>12, QuietEvidence DEF Swap
<1>13. CASE SwapFails
  BY <1>8, <1>13 DEF SwapFails
<1>14. CASE Assign
  <2>1. /\ at = "assign" /\ mem'.ver = mem.ver + 1
        /\ stage = "boot" => at' = "idle"
        /\ stage # "boot" => at' \in {"rung", "publish"}
        /\ UNCHANGED <<stage, health, snapId, seen, built, tick, order>>
    BY <1>14, AssignMoves, SavedFields DEF TypeOK, LoopWriterInv
  <2> QED
    BY <2>1, EvidenceTypes DEF EvidenceInv, VerdictInv, BuiltInv
<1>15. CASE ListBuys
  BY <1>15, QuietEvidence DEF ListBuys
<1>16. CASE Publish
  <2>1. /\ at = "publish" /\ at' \in {"plan", "trade"} /\ stage # "boot"
        /\ health' = IF LevelOf(mem) = "normal" THEN "healthy" ELSE "unhealthy"
        /\ snapId' = mem.ver /\ Exists(mem)
        /\ UNCHANGED <<mem, stage, seen, built, tick, order>>
    BY <1>16 DEF Publish, StageInv, CopyInv
  <2>2. VerdictInv'
    BY <2>1, EvidenceTypes DEF EvidenceInv, VerdictInv, Exists
  <2>3. BuiltInv'
    BY <2>1, EvidenceTypes DEF EvidenceInv, BuiltInv
  <2> QED
    BY <2>2, <2>3 DEF EvidenceInv
<1>17. CASE BeginSync
  BY <1>17, QuietEvidence DEF BeginSync
<1>18. CASE EndTick
  BY <1>18, QuietEvidence DEF EndTick
<1>19. ASSUME NEW e \in Entries, CancelBuy(e) PROVE EvidenceInv'
  <2>1. \A d \in Entries : order'[d] = "built" => order[d] = "built"
    BY <1>19 DEF CancelBuy, TypeOK
  <2> QED
    BY <1>19, <2>1, QuietEvidence DEF CancelBuy
<1>20. ASSUME NEW e \in Entries, Build(e) PROVE EvidenceInv'
  <2>1. /\ at = "trade" /\ UNCHANGED <<at, stage, mem, health, snapId, tick>>
        /\ seen'[e] = snapId /\ built'[e] = tick
        /\ \A d \in Entries \ {e} : /\ seen'[d] = seen[d] /\ built'[d] = built[d]
                                    /\ order'[d] = order[d]
    BY <1>20 DEF Build, TypeOK
  <2> QED
    BY <2>1, EvidenceTypes DEF EvidenceInv, VerdictInv, BuiltInv
<1> QED
  BY <1>1, <1>2, <1>3, <1>4, <1>5, <1>6, <1>7, <1>9, <1>10, <1>11, <1>12, <1>13,
     <1>14, <1>15, <1>16, <1>17, <1>18, <1>19, <1>20 DEF Loop

LEMMA HandlerEvidence ==
    ASSUME TypeOK, WriterInv, EvidenceInv, Handler
    PROVE  EvidenceInv'
<1>1. UNCHANGED <<health, snapId, at, stage, order, seen, built, tick>>
  BY HandlerFrame
<1>2. \/ mem' = mem
      \/ mem'.ver = mem.ver + 1 /\ mem'.high = mem.high /\ mem'.equity = mem.equity
  BY HandlerMoves, SavedFields DEF TypeOK, WriterInv, HandlerWriterInv
<1>3. mem'.ver >= mem.ver /\ LevelOf(mem') = LevelOf(mem)
  BY <1>2, SameLevel, EvidenceTypes
<1>4. mem'.ver \in Nat
  BY <1>2, EvidenceTypes
<1> QED
  BY <1>1, <1>3, <1>4, EvidenceTypes DEF EvidenceInv, VerdictInv, BuiltInv

LEMMA OutsideEvidence ==
    ASSUME TypeOK, OrderInv, EvidenceInv, Outside
    PROVE  EvidenceInv'
<1>1. /\ UNCHANGED <<mem, snapId, at, stage, tick>>
      /\ health' = health \/ (health' = "stale" /\ health = "healthy")
  BY OutsideFrame
<1>2. \A e \in Entries : \/ /\ order'[e] = order[e]
                            /\ seen'[e] = seen[e] /\ built'[e] = built[e]
                         \/ order'[e] # "built" /\ seen'[e] = 0 /\ built'[e] = 0
  BY DEF Outside, Executor, Admit, Block, Land, Fill, Move, Exit, Age, orders, TypeOK
<1>3. \A e \in Entries : seen'[e] <= seen[e] /\ built'[e] <= built[e]
  BY <1>2, EvidenceTypes
<1>4. VerdictInv'
  BY <1>1, EvidenceTypes DEF EvidenceInv, VerdictInv
<1>5. BuiltInv'
  <2> SUFFICES ASSUME NEW e \in Entries
               PROVE  /\ seen'[e] <= mem'.ver /\ built'[e] <= tick'
                      /\ at' \in {"rung", "publish"} => seen'[e] < mem'.ver
                      /\ order'[e] = "built" =>
                             /\ built'[e] = tick' => at' \in {"trade", "idle"}
                             /\ health' = "healthy" /\ seen'[e] = snapId'
                                    => built'[e] = tick'
    BY DEF BuiltInv
  <2>1. CASE order'[e] # "built" /\ seen'[e] = 0 /\ built'[e] = 0
    BY <1>1, <2>1, EvidenceTypes DEF EvidenceInv, BuiltInv
  <2>2. CASE order'[e] = order[e] /\ seen'[e] = seen[e] /\ built'[e] = built[e]
    BY <1>1, <2>2, EvidenceTypes DEF EvidenceInv, BuiltInv
  <2> QED
    BY <1>2, <2>1, <2>2
<1> QED
  BY <1>4, <1>5 DEF EvidenceInv

LEMMA EvidenceStep ==
    TypeOK /\ OrderInv /\ WriterInv /\ EvidenceInv /\ [Next]_vars => EvidenceInv'
<1> SUFFICES ASSUME TypeOK, OrderInv, WriterInv, EvidenceInv, [Next]_vars
             PROVE  EvidenceInv'
  OBVIOUS
<1>1. CASE Crash
  <2>1. mem'.ver = 0
    BY <1>1 DEF Crash, NoRow
  <2> QED
    BY <1>1, <2>1, EvidenceTypes DEF Crash, EvidenceInv, VerdictInv, BuiltInv
<1>2. CASE UNCHANGED vars
  BY <1>2 DEF vars, published, process, orders, EvidenceInv, VerdictInv, BuiltInv
<1> QED
  BY <1>1, <1>2, LoopEvidence, HandlerEvidence, OutsideEvidence, NextCases

LEMMA EvidenceSafe == Spec => [](TypeOK /\ OrderInv /\ WriterInv /\ LagInv /\ EvidenceInv)
<1>1. Init => EvidenceInv
  BY EvidenceInit
<1>2. TypeOK /\ OrderInv /\ WriterInv /\ LagInv /\ EvidenceInv /\ [Next]_vars => EvidenceInv'
  BY EvidenceStep
<1> QED
  BY <1>1, <1>2, WriterSafe, PTL DEF Spec

\* Only the gate admits, on what is published at that moment.
LEMMA AdmittedAt ==
    ASSUME TypeOK, EvidenceInv, [Next]_vars, NEW e \in Entries, Admitted(e)
    PROVE  Admissible(e)
<1>1. CASE Loop
  BY <1>1
  DEF Admitted, TypeOK, Loop, Start, LoadRow, LoadFails, CountPositions, CountOrders, Refuse,
      BeginTick, Evaluate, EvaluateFails, Check, CheckFails, Swap, SwapFails, Assign,
      ListBuys, Publish, BeginSync, EndTick, CancelBuy, Build, orders
<1>2. CASE Handler
  BY <1>2, HandlerFrame DEF Admitted
<1>3. ASSUME NEW d \in Entries, Admit(d) PROVE Admissible(e)
  BY <1>3 DEF Admitted, Admit, Move, TypeOK
<1>4. ASSUME NEW d \in Entries, Block(d) \/ Land(d) \/ Fill(d) PROVE FALSE
  BY <1>4 DEF Admitted, Block, Land, Fill, Move, TypeOK
<1>5. CASE (\E x \in Exits : Exit(x)) \/ Age \/ Crash \/ UNCHANGED vars
  BY <1>5 DEF Admitted, Exit, Age, Crash, vars, orders
<1> QED
  BY <1>1, <1>2, <1>3, <1>4, <1>5 DEF Next, Executor

LEMMA AdmissibleOnItsTick ==
    ASSUME TypeOK, EvidenceInv, NEW e \in Entries, order[e] = "built", Admissible(e)
    PROVE  built[e] = tick /\ LevelOf(mem) = "normal"
<1>1. health = "healthy" /\ seen[e] = snapId
  BY EvidenceTypes DEF Admissible, EvidenceInv, VerdictInv
<1>2. built[e] = tick
  BY <1>1 DEF EvidenceInv, BuiltInv
<1>3. at \in {"trade", "idle"}
  BY <1>2 DEF EvidenceInv, BuiltInv
<1> QED
  BY <1>1, <1>2, <1>3 DEF EvidenceInv, VerdictInv

\* An executor thread that was stuck in an earlier cycle never passes the
\* gate, however late it gets there and whatever is published by then.
THEOREM OnItsTick == Spec => AdmittedOnItsTick
<1>1. TypeOK /\ EvidenceInv /\ [Next]_vars
      => [\A e \in Entries : Admitted(e) => built[e] = tick]_vars
  BY AdmittedAt, AdmissibleOnItsTick DEF Admitted
<1> QED
  BY <1>1, EvidenceSafe, PTL DEF Spec, AdmittedOnItsTick

\* No entry passes the gate while the process knows the account to be in
\* drawdown, although the verdict is published some steps after it is saved.
THEOREM WhenNormal == Spec => AdmittedWhenNormal
<1>1. TypeOK /\ EvidenceInv /\ [Next]_vars
      => [\A e \in Entries : Admitted(e) => LevelOf(mem) = "normal"]_vars
  BY AdmittedAt, AdmissibleOnItsTick DEF Admitted
<1> QED
  BY <1>1, EvidenceSafe, PTL DEF Spec, AdmittedWhenNormal

-----------------------------------------------------------------------------
(***************************************************************************)
(* The sleeve.  A commit is of the row as it stands with one fill more, or  *)
(* with the same sleeve: the bookings are counted by cardinality.           *)
(***************************************************************************)
Pending(f) == task[f] \in {"none", "reported", "compare", "check", "swap"}

SleeveInv ==
    /\ ~Exists(row) => applied = {}
    /\ \A f \in Fills : Pending(f) => f \notin applied
    /\ SleeveHoldsCommitted

LEMMA EmptySleeve ==
    ASSUME applied = {}, row.sleeve = 0
    PROVE  SleeveHoldsCommitted
BY FS_EmptySet DEF SleeveHoldsCommitted

LEMMA SleeveInit == Init => SleeveInv
<1> SUFFICES ASSUME Init PROVE SleeveInv
  OBVIOUS
<1>1. row.sleeve = 0 /\ applied = {}
  BY DEF Init, NoRow, Saved, Initialized
<1> QED
  BY <1>1, EmptySleeve DEF SleeveInv

\* One more fill is one more of its kind.
LEMMA Counted ==
    ASSUME NEW S \in SUBSET Fills, NEW T \in {Entries, Exits}, NEW f \in Fills, f \notin S
    PROVE  LET n(U) == Cardinality(U \cap T \cap Leveraged)
           IN  /\ n(S) \in Nat
               /\ n(S \cup {f}) = IF f \in T /\ f \in Leveraged THEN n(S) + 1 ELSE n(S)
<1> DEFINE C(U) == U \cap T \cap Leveraged
<1>1. IsFiniteSet(C(S))
  BY RiskAssumption, FS_Subset
<1>2. Cardinality(C(S)) \in Nat
  BY <1>1, FS_CardinalityType
<1>3. CASE f \in T /\ f \in Leveraged
  <2>1. C(S \cup {f}) = C(S) \cup {f} /\ f \notin C(S)
    BY <1>3
  <2> QED
    BY <1>1, <1>2, <1>3, <2>1, FS_AddElement
<1>4. CASE ~(f \in T /\ f \in Leveraged)
  <2>1. C(S \cup {f}) = C(S)
    BY <1>4
  <2> QED
    BY <1>2, <1>4, <2>1
<1> QED
  BY <1>3, <1>4

LEMMA BookedSleeve ==
    ASSUME TypeOK, SleeveHoldsCommitted, NEW f \in Fills, f \notin applied,
           applied' = applied \cup {f}, row' = Saved(Filled(row, f))
    PROVE  SleeveHoldsCommitted'
<1> DEFINE b == Cardinality(applied \cap Entries \cap Leveraged)
           s == Cardinality(applied \cap Exits \cap Leveraged)
           b1 == Cardinality((applied \cup {f}) \cap Entries \cap Leveraged)
           s1 == Cardinality((applied \cup {f}) \cap Exits \cap Leveraged)
           new == row'.sleeve
<1>1. row.sleeve \in Nat /\ row \in Rows
  BY Versions DEF TypeOK
<1>2. b \in Nat /\ b1 = IF f \in Entries /\ f \in Leveraged THEN b + 1 ELSE b
  BY Counted DEF TypeOK
<1>3. s \in Nat /\ s1 = IF f \in Exits /\ f \in Leveraged THEN s + 1 ELSE s
  BY Counted DEF TypeOK
<1>4. row.sleeve <= b /\ row.sleeve + s >= b
  BY DEF SleeveHoldsCommitted
<1>5. new = IF f \notin Leveraged THEN row.sleeve
            ELSE IF f \in Entries THEN row.sleeve + 1
            ELSE IF row.sleeve > 0 THEN row.sleeve - 1 ELSE 0
  BY <1>1 DEF Saved, Filled, Sold
<1>6. f \in Entries <=> f \notin Exits
  BY RiskAssumption DEF Fills
<1>7. new <= b1 /\ new + s1 >= b1
  <2> HIDE DEF b, s, b1, s1, new
  <2> QED
    BY <1>1, <1>2, <1>3, <1>4, <1>5, <1>6
<1> QED
  BY <1>7 DEF SleeveHoldsCommitted

LEMMA SleeveStep ==
    TypeOK /\ OrderInv /\ WriterInv /\ SleeveInv /\ [Next]_vars => SleeveInv'
<1> SUFFICES ASSUME TypeOK, OrderInv, WriterInv, SleeveInv, [Next]_vars
             PROVE  SleeveInv'
  OBVIOUS
<1>1. ASSUME UNCHANGED <<row, applied>>,
             \A f \in Fills : (Pending(f))' => Pending(f)
      PROVE  SleeveInv'
  BY <1>1 DEF SleeveInv, SleeveHoldsCommitted, Exists
<1>2. CASE Loop
  <2>1. UNCHANGED <<task, work, applied>>
    BY <1>2, LoopFrame
  <2>2. CASE row' = row
    BY <1>1, <2>1, <2>2 DEF Pending
  <2>3. CASE row' # row
    <3>1. at = "swap" /\ Swaps(doc) /\ row' = Saved(doc)
      BY <1>2, <2>3
      DEF Loop, Start, LoadRow, LoadFails, CountPositions, CountOrders, Refuse, BeginTick,
          Evaluate, EvaluateFails, Check, CheckFails, Swap, SwapFails, Assign, ListBuys,
          Publish, BeginSync, EndTick, CancelBuy, Build
    <3>2. mem.ver = row.ver /\ doc.ver = mem.ver
      BY <3>1, LoopCommits
    <3>3. row'.ver = row.ver + 1 /\ row'.sleeve = doc.sleeve
      BY <3>1, <3>2, SavedFields DEF TypeOK
    <3>4. Exists(row')
      BY <3>3, Versions DEF Exists
    <3>5. SleeveHoldsCommitted'
      <4>1. CASE stage = "boot"
        <5>1. doc.sleeve = 0 /\ ~Exists(row)
          BY <3>1, <3>2, <4>1 DEF WriterInv, LoopWriterInv, Exists
        <5>2. applied' = {} /\ row'.sleeve = 0
          BY <2>1, <3>3, <5>1 DEF SleeveInv
        <5> QED
          BY <5>2, FS_EmptySet DEF SleeveHoldsCommitted
      <4>2. CASE stage # "boot"
        <5>1. doc.sleeve = mem.sleeve /\ Exists(mem)
          BY <3>1, <3>2, <4>2 DEF WriterInv, LoopWriterInv, Exists
        <5>2. mem = row
          BY <3>2, <5>1 DEF WriterInv, CopyInv
        <5> QED
          BY <2>1, <3>3, <5>1, <5>2 DEF SleeveInv, SleeveHoldsCommitted
      <4> QED
        BY <4>1, <4>2
    <3> QED
      BY <2>1, <3>4, <3>5 DEF SleeveInv, Pending, Exists
  <2> QED
    BY <2>2, <2>3
<1>3. CASE Handler
  <2>1. PICK f \in Fills :
          /\ \A g \in Fills \ {f} : task'[g] = task[g]
          /\ \/ Pending(f) /\ UNCHANGED <<row, applied>>
             \/ task'[f] \in {"booked", "raised"} /\ UNCHANGED <<row, applied>>
             \/ /\ task[f] = "swap" /\ Swaps(work[f]) /\ row' = Saved(work[f])
                /\ applied' = applied \cup {f} /\ task'[f] \in {"assign", "booked", "raised"}
    BY <1>3, HandlerMoves DEF Pending, Saving
  <2>2. CASE Pending(f) /\ UNCHANGED <<row, applied>>
    BY <1>1, <2>1, <2>2 DEF Pending
  <2>3. CASE task'[f] \in {"booked", "raised"} /\ UNCHANGED <<row, applied>>
    BY <1>1, <2>1, <2>3 DEF Pending
  <2>4. CASE /\ task[f] = "swap" /\ Swaps(work[f]) /\ row' = Saved(work[f])
             /\ applied' = applied \cup {f} /\ task'[f] \in {"assign", "booked", "raised"}
    <3>1. work[f] = Filled(row, f)
      BY <2>4, HandlerCommits
    <3>2. f \notin applied
      BY <2>4 DEF SleeveInv, Pending
    <3>3. SleeveHoldsCommitted'
      BY <2>4, <3>1, <3>2, BookedSleeve DEF SleeveInv
    <3>4. Exists(row')
      <4>1. row'.ver = work[f].ver + 1 /\ work[f].ver \in Nat
        BY <2>4, SavedFields, Versions DEF TypeOK
      <4> QED
        BY <4>1 DEF Exists
    <3>5. \A g \in Fills : (Pending(g))' => g \notin applied'
      BY <2>1, <2>4 DEF SleeveInv, Pending
    <3> QED
      BY <3>3, <3>4, <3>5 DEF SleeveInv, Exists
  <2> QED
    BY <2>1, <2>2, <2>3, <2>4
<1>4. CASE Outside
  BY <1>1, <1>4, OutsideFrame DEF Pending
<1>5. CASE Crash
  BY <1>1, <1>5, InterruptedMoves DEF Crash, Pending
<1>6. CASE UNCHANGED vars
  BY <1>1, <1>6 DEF vars, handlers, Pending
<1> QED
  BY <1>2, <1>3, <1>4, <1>5, <1>6, NextCases

\* With any number of fills booked at once and evaluations in between, the
\* durable sleeve is the buys less the sells that were committed, except for
\* what a sell found already gone.
THEOREM SleeveKept == Spec => []SleeveHoldsCommitted
<1>1. Init => SleeveInv
  BY SleeveInit
<1>2. TypeOK /\ OrderInv /\ WriterInv /\ LagInv /\ SleeveInv /\ [Next]_vars => SleeveInv'
  BY SleeveStep
<1>3. SleeveInv => SleeveHoldsCommitted
  BY DEF SleeveInv
<1> QED
  BY <1>1, <1>2, <1>3, WriterSafe, PTL DEF Spec

-----------------------------------------------------------------------------
(***************************************************************************)
(* The writers take turns: LiveRisk implements RiskLedger.                   *)
(***************************************************************************)
Opens(d) == \E e \in Equities : d = Initialized(e)
Evaluates(r, d) == \E e \in Equities : d = Evaluated(r, e)

\* What the loop is about to save is a first record, or the copy of the process,
\* evaluated, unless a handler has replaced that copy since.
DocInv ==
    /\ at \in {"positions", "orders", "check", "swap"} /\ stage = "boot" => Opens(doc)
    /\ at \in {"check", "swap"} /\ stage # "boot" /\ doc.ver = mem.ver
           => Evaluates(mem, doc)

\* A record has a peak.
RowInv == (row.high = 0 => ~Exists(row)) /\ (~Exists(row) => row.high = 0)

TurnInv == DocInv /\ RowInv

LEMMA TurnInit == Init => TurnInv
<1> SUFFICES ASSUME Init PROVE TurnInv
  OBVIOUS
<1>1. DocInv
  BY DEF Init, DocInv
<1>2. CASE row = NoRow
  BY <1>1, <1>2 DEF TurnInv, RowInv, Exists, NoRow
<1>3. ASSUME NEW e \in Equities, row = Saved(Initialized(e))
      PROVE  TurnInv
  <2>1. e \in Nat /\ e # 0
    BY RiskAssumption
  <2> QED
    BY <1>1, <1>3, <2>1 DEF TurnInv, RowInv, Exists, Saved, Initialized
<1> QED
  BY <1>2, <1>3 DEF Init

LEMMA EvaluatedFields ==
    ASSUME NEW r \in Rows, NEW e \in Equities
    PROVE  /\ Evaluated(r, e) \in Rows /\ Evaluated(r, e).ver = r.ver
           /\ Evaluated(r, e).high = (IF e > r.high THEN e ELSE r.high)
           /\ Evaluated(r, e).equity = e /\ Evaluated(r, e).sleeve = r.sleeve
<1>1. e \in Nat
  BY RiskAssumption
<1> QED
  BY <1>1 DEF Evaluated, Rows

LEMMA LoopDoc ==
    ASSUME TypeOK, StageInv, DocInv, Loop
    PROVE  DocInv'
<1>1. ASSUME at' \notin {"positions", "orders", "check", "swap"}
      PROVE  DocInv'
  BY <1>1 DEF DocInv
<1>2. CASE LoadFails
  <2>1. stage' = "boot" /\ \E e \in Equities : doc' = Initialized(e)
    BY <1>2 DEF LoadFails, StageInv, Booting
  <2> QED
    BY <2>1 DEF DocInv, Opens
<1>3. CASE Evaluate
  <2>1. stage' # "boot" /\ mem' = mem /\ \E e \in Equities : doc' = Evaluated(mem, e)
    BY <1>3 DEF Evaluate, StageInv
  <2> QED
    BY <2>1 DEF DocInv, Evaluates
<1>4. CASE CountPositions \/ CountOrders
  <2>1. CASE at' = "idle"
    BY <1>1, <2>1
  <2>2. CASE at' # "idle"
    <3>1. /\ at \in {"positions", "orders"} /\ doc' = doc /\ stage' = stage
          /\ stage = "boot"
      BY <1>4, <2>2 DEF CountPositions, CountOrders, Refuse, StageInv, Booting
    <3> QED
      BY <3>1 DEF DocInv, Opens
  <2> QED
    BY <2>1, <2>2
<1>5. CASE Check
  <2>1. at = "check" /\ UNCHANGED <<doc, stage, mem>>
    BY <1>5 DEF Check
  <2> QED
    BY <2>1 DEF DocInv, Opens, Evaluates
<1>6. CASE EvaluateFails \/ CheckFails \/ SwapFails
  <2>1. Fails
    BY <1>6 DEF EvaluateFails, CheckFails, SwapFails
  <2> QED
    BY <1>1, <2>1, FailsMoves
<1>7. ASSUME NEW e \in Entries, CancelBuy(e) \/ Build(e)
      PROVE  DocInv'
  <2>1. at \in {"publish", "trade"} /\ at' = at
    BY <1>7 DEF CancelBuy, Build, process
  <2> QED
    BY <1>1, <2>1
<1>8. CASE Assign
  <2>1. at' \in {"idle", "rung", "publish"}
    BY <1>8, AssignMoves
  <2> QED
    BY <1>1, <2>1
<1>9. CASE Start \/ LoadRow \/ BeginTick \/ Swap \/ ListBuys \/ Publish \/ BeginSync \/ EndTick
  <2>1. at' \in {"load", "idle", "evaluate", "assign", "publish", "plan", "trade"}
    BY <1>9 DEF Start, LoadRow, BeginTick, Swap, ListBuys, Publish, BeginSync, EndTick
  <2> QED
    BY <1>1, <2>1
<1> QED
  BY <1>2, <1>3, <1>4, <1>5, <1>6, <1>7, <1>8, <1>9 DEF Loop

\* A handler that replaces the copy leaves the loop's record behind it.
LEMMA HandlerDoc ==
    ASSUME TypeOK, WriterInv, DocInv, Handler
    PROVE  DocInv'
<1>1. UNCHANGED <<at, stage, doc>>
  BY HandlerFrame
<1>2. CASE mem' = mem
  BY <1>1, <1>2 DEF DocInv, Opens, Evaluates
<1>3. CASE mem' # mem
  <2>1. PICK f \in Fills : task[f] = "assign" /\ mem' = Saved(work[f])
    BY <1>3, HandlerMoves
  <2>2. mem'.ver = mem.ver + 1
    BY <2>1, SavedFields DEF TypeOK, WriterInv, HandlerWriterInv
  <2>3. at \in {"check", "swap"} /\ stage # "boot" => doc.ver # mem'.ver
    BY <2>2, Versions DEF WriterInv, LoopWriterInv
  <2> QED
    BY <1>1, <2>3 DEF DocInv, Opens
<1> QED
  BY <1>2, <1>3

\* What is committed, and by whom, of the record as it stands.
LEMMA Commits ==
    ASSUME TypeOK, OrderInv, WriterInv, SleeveInv, DocInv, [Next]_vars
    PROVE  \/ UNCHANGED <<row, applied>>
           \/ /\ ~Exists(row) /\ UNCHANGED applied
              /\ \E e \in Equities : row' = Saved(Initialized(e))
           \/ /\ Exists(row) /\ UNCHANGED applied
              /\ \E e \in Equities : row' = Saved(Evaluated(row, e))
           \/ \E f \in Fills : /\ Exists(row) /\ f \notin applied
                                /\ row' = Saved(Filled(row, f))
                                /\ applied' = applied \cup {f}
<1>1. CASE Loop
  <2>1. UNCHANGED applied
    BY <1>1, LoopFrame
  <2>2. CASE row' = row
    BY <2>1, <2>2
  <2>3. CASE row' # row
    <3>1. at = "swap" /\ Swaps(doc) /\ row' = Saved(doc)
      BY <1>1, <2>3
      DEF Loop, Start, LoadRow, LoadFails, CountPositions, CountOrders, Refuse, BeginTick,
          Evaluate, EvaluateFails, Check, CheckFails, Swap, SwapFails, Assign, ListBuys,
          Publish, BeginSync, EndTick, CancelBuy, Build
    <3>2. mem.ver = row.ver /\ doc.ver = mem.ver
      BY <3>1, LoopCommits
    <3>3. CASE stage = "boot"
      <4>1. doc.ver = 0 /\ Opens(doc)
        BY <3>1, <3>3 DEF WriterInv, LoopWriterInv, DocInv
      <4>2. ~Exists(row)
        BY <3>2, <4>1 DEF Exists
      <4> QED
        BY <2>1, <3>1, <4>1, <4>2 DEF Opens
    <3>4. CASE stage # "boot"
      <4>1. Exists(mem) /\ Evaluates(mem, doc)
        BY <3>1, <3>2, <3>4 DEF WriterInv, LoopWriterInv, DocInv, Exists
      <4>2. mem = row
        BY <3>2, <4>1 DEF WriterInv, CopyInv
      <4> QED
        BY <2>1, <3>1, <4>1, <4>2 DEF Evaluates
    <3> QED
      BY <3>3, <3>4
  <2> QED
    BY <2>2, <2>3
<1>2. CASE Handler
  <2>1. PICK f \in Fills :
          \/ UNCHANGED <<row, applied>>
          \/ /\ task[f] = "swap" /\ Swaps(work[f]) /\ row' = Saved(work[f])
             /\ applied' = applied \cup {f}
    BY <1>2, HandlerMoves
  <2>2. CASE task[f] = "swap" /\ Swaps(work[f]) /\ row' = Saved(work[f])
             /\ applied' = applied \cup {f}
    <3>1. work[f] = Filled(row, f) /\ Exists(row)
      BY <2>2, HandlerCommits
    <3>2. f \notin applied
      BY <2>2 DEF SleeveInv, Pending
    <3> QED
      BY <2>2, <3>1, <3>2
  <2> QED
    BY <2>1, <2>2
<1>3. CASE Outside
  BY <1>3, OutsideFrame
<1>4. CASE Crash
  BY <1>4 DEF Crash
<1>5. CASE UNCHANGED vars
  BY <1>5 DEF vars
<1> QED
  BY <1>1, <1>2, <1>3, <1>4, <1>5, NextCases

LEMMA TurnStep ==
    ASSUME TypeOK, OrderInv, WriterInv, SleeveInv, TurnInv, [Next]_vars
    PROVE  TurnInv' /\ [Ledger!Next]_(Ledger!record)
<1>1. /\ row \in Rows /\ row.ver \in Nat /\ row.high \in Nat /\ row.equity \in Nat
      /\ row.sleeve \in Nat
  BY RowFields DEF TypeOK
<1>2. DocInv'
  <2>1. CASE Loop
    BY <2>1, LoopDoc DEF WriterInv, TurnInv
  <2>2. CASE Handler
    BY <2>2, HandlerDoc DEF TurnInv
  <2>3. CASE Outside
    BY <2>3, OutsideFrame DEF TurnInv, DocInv, Opens, Evaluates
  <2>4. CASE Crash
    BY <2>4 DEF Crash, DocInv
  <2>5. CASE UNCHANGED vars
    BY <2>5 DEF vars, process, TurnInv, DocInv, Opens, Evaluates
  <2> QED
    BY <2>1, <2>2, <2>3, <2>4, <2>5, NextCases
<1>3. CASE UNCHANGED <<row, applied>>
  BY <1>2, <1>3 DEF TurnInv, RowInv, Exists, Ledger!record
<1>4. ASSUME ~Exists(row), UNCHANGED applied, NEW e \in Equities,
             row' = Saved(Initialized(e))
      PROVE  RowInv' /\ Ledger!Open
  <2>1. e \in Nat /\ e # 0
    BY RiskAssumption
  <2>2. row'.ver = 1 /\ row'.high = e /\ row'.equity = e /\ row'.sleeve = 0
    BY <1>4 DEF Saved, Initialized
  <2> QED
    BY <1>4, <2>1, <2>2 DEF TurnInv, RowInv, Exists, Ledger!Open
<1>5. ASSUME Exists(row), UNCHANGED applied, NEW e \in Equities,
             row' = Saved(Evaluated(row, e))
      PROVE  RowInv' /\ Ledger!Evaluate
  <2>1. e \in Nat /\ e # 0
    BY RiskAssumption
  <2>2. /\ row'.ver = row.ver + 1 /\ row'.high = (IF e > row.high THEN e ELSE row.high)
        /\ row'.equity = e /\ row'.sleeve = row.sleeve
    BY <1>1, <1>5, EvaluatedFields, SavedFields
  <2> QED
    BY <1>1, <1>5, <2>1, <2>2 DEF TurnInv, RowInv, Exists, Ledger!Evaluate
<1>6. ASSUME NEW f \in Fills, Exists(row), f \notin applied, row' = Saved(Filled(row, f)),
             applied' = applied \cup {f}
      PROVE  RowInv' /\ Ledger!Book(f)
  <2>1. /\ row'.ver = row.ver + 1 /\ row'.high = row.high /\ row'.equity = row.equity
        /\ row'.sleeve = IF f \notin Leveraged THEN row.sleeve
                         ELSE IF f \in Entries THEN row.sleeve + 1
                         ELSE IF row.sleeve > 0 THEN row.sleeve - 1 ELSE 0
    BY <1>1, <1>6 DEF Saved, Filled, Sold
  <2>2. RowInv'
    BY <1>1, <1>6, <2>1 DEF TurnInv, RowInv, Exists
  <2>3. row.high # 0
    BY <1>6 DEF TurnInv, RowInv
  <2>4. f \in Entries \/ (f \in Exits /\ f \notin Entries)
    BY RiskAssumption DEF Fills
  <2> QED
    BY <1>6, <2>1, <2>2, <2>3, <2>4 DEF Ledger!Book
<1> QED
  BY <1>2, <1>3, <1>4, <1>5, <1>6, Commits DEF TurnInv, Ledger!Next, Fills

(***************************************************************************)
(* LiveRisk implements RiskLedger: whatever copies the loop and the handlers *)
(* make, whichever of their calls fail and whenever the process restarts,    *)
(* every commit is one evaluation or one fill more of the record as the      *)
(* writer before left it, and no fill is committed twice.                    *)
(***************************************************************************)
THEOREM ImplementsRiskLedger == Spec => CommitsInTurn
<1>1. Init => SleeveInv /\ TurnInv
  BY SleeveInit, TurnInit
<1>2. Init => Ledger!Init
  <2> SUFFICES ASSUME Init PROVE Ledger!Init
    OBVIOUS
  <2>1. CASE row = NoRow
    BY <2>1 DEF Init, NoRow, Ledger!Init
  <2>2. ASSUME NEW e \in Equities, row = Saved(Initialized(e))
        PROVE  Ledger!Init
    BY <2>2 DEF Init, Saved, Initialized, Ledger!Init
  <2> QED
    BY <2>1, <2>2 DEF Init
<1>3. TypeOK /\ OrderInv /\ WriterInv /\ LagInv /\ SleeveInv /\ [Next]_vars => SleeveInv'
  BY SleeveStep
<1>4. TypeOK /\ OrderInv /\ WriterInv /\ LagInv /\ SleeveInv /\ TurnInv /\ [Next]_vars
         => TurnInv' /\ [Ledger!Next]_(Ledger!record)
  BY TurnStep
<1> QED
  BY <1>1, <1>2, <1>3, <1>4, WriterSafe, PTL DEF Spec, CommitsInTurn, Ledger!Spec
=============================================================================
