-------------------------- MODULE LiveOrdersClosing --------------------------
(***************************************************************************)
(* What a closed row promises, in LiveOrders: that no fill is forgotten;    *)
(* that the row is final, by how it was closed and under what that way of   *)
(* closing it needs; that a decision never has two orders that may fill;    *)
(* and that the reservations are the rows.                                  *)
(***************************************************************************)
EXTENDS LiveOrdersProofs

RowsGrowing == \A o \in Ords : RowGrows(o)

\* The general invariants, and what they make of a step.
Base == TypeInv /\ FillsInv /\ RowsInv /\ BookingInv

LEMMA BaseInit == Init => Base
BY TypeInit, FillsInit, RowsInit, BookingInit DEF Base

LEMMA BaseStep == Base /\ [Next]_vars => Base' /\ RowsGrowing
BY TypeStep, FillsStep, RowsStep, BookingStep DEF Base, RowsGrowing

LEMMA WorkerType ==
    ASSUME TypeInv, NEW w \in Workers
    PROVE  /\ job[w] \in Jobs /\ job[w].ev \in Events /\ Ord(w) \in Ords
           /\ job[w].from \in 0..Qty /\ job[w].ev.cum \in 0..Qty /\ job[w].ver \in Nat
           /\ rec[Ord(w)] \in Records /\ rec[Ord(w)].cum \in 0..Qty
           /\ pc \in [Workers -> PCs] /\ job \in [Workers -> Jobs]
           /\ rec \in [Ords -> Records]
BY DEF TypeInv, TypeOK, Jobs, Events, Ord, Records

\* What a step may do to the rows.
LEMMA WhoWrites ==
    ASSUME [Next]_vars
    PROVE  \/ rec' = rec
           \/ \E t \in Submitters : Create(t) \/ Mark(t) \/ Conclude(t)
           \/ \E w \in Workers : AppendEvent(w)
BY DEF Next, Submit, Identify, Lookup, Gate, Post, WaitAccepted, WaitRefused, WaitLost,
       WaitGatewayError, Recover, Settle, ApplyEvent, ReadRow, BookFill, HandlerRaises,
       FinishEvent, NextUpdate, Reconcile, Capture, CaptureUnusable, SweepOrder,
       ListRows, RetireRow, CountLineage, Publish, Environment, Land, WireLoses,
       Execute, RequestCancel, CloseOrder, BrokerMoves, Age, Crash, durable, vars

\* An append that is a submission's own leaves the shares as they are; one that
\* applies an event writes the event.
LEMMA Written ==
    ASSUME Base
    PROVE  /\ \A t \in Submitters : Create(t) /\ rec' # rec =>
                /\ rec[Ord(t)].state = "none"
                /\ rec' = [rec EXCEPT ![Ord(t)] = IntentRecord]
           /\ \A t \in Submitters : Mark(t) /\ rec' # rec =>
                /\ Appendable(rec[Ord(t)], <<"submitting", job[t].ver + 1>>, job[t].ver,
                              "submitting")
                /\ rec' = [rec EXCEPT ![Ord(t)] =
                             Appended(rec[Ord(t)], <<"submitting", job[t].ver + 1>>,
                                      "submitting", rec[Ord(t)].cum, FALSE)]
           /\ \A w \in Workers : AppendEvent(w) /\ rec' # rec =>
                /\ job[w].from = rec[Ord(w)].cum /\ job[w].from <= job[w].ev.cum
                /\ job[w].ev.state \in Follows(rec[Ord(w)].state)
                /\ rec' = [rec EXCEPT ![Ord(w)] =
                             Appended(rec[Ord(w)], <<job[w].ev.state, job[w].ev.cum>>,
                                      job[w].ev.state, job[w].ev.cum, ~IsStub(job[w].ev))]
                /\ job' = job /\ Goto(w, AfterAppend(w))
<1>1. \A t \in Submitters : t \in Workers
  BY DEF Workers
<1>2. ASSUME NEW t \in Submitters, Create(t), rec' # rec
      PROVE  /\ rec[Ord(t)].state = "none"
             /\ rec' = [rec EXCEPT ![Ord(t)] = IntentRecord]
  BY <1>2 DEF Create
<1>3. ASSUME NEW t \in Submitters, Mark(t), rec' # rec
      PROVE  /\ Appendable(rec[Ord(t)], <<"submitting", job[t].ver + 1>>, job[t].ver,
                           "submitting")
             /\ rec' = [rec EXCEPT ![Ord(t)] =
                          Appended(rec[Ord(t)], <<"submitting", job[t].ver + 1>>,
                                   "submitting", rec[Ord(t)].cum, FALSE)]
  <2>1. pc[t] = "mark" /\ VerOK(t)
    BY <1>1, <1>3 DEF Mark, Base, RowsInv
  <2>2. /\ Appendable(rec[Ord(t)], <<"submitting", job[t].ver + 1>>, job[t].ver,
                      "submitting")
        /\ Write(Ord(t), Appended(rec[Ord(t)], <<"submitting", job[t].ver + 1>>,
                                  "submitting", job[t].from, FALSE))
    BY <1>3 DEF Mark
  <2>3. job[t].from = rec[Ord(t)].cum
    BY <2>1, <2>2 DEF VerOK, AppendPCs, Appendable
  <2> QED
    BY <2>2, <2>3 DEF Write
<1>4. ASSUME NEW w \in Workers, AppendEvent(w), rec' # rec
      PROVE  /\ job[w].from = rec[Ord(w)].cum /\ job[w].from <= job[w].ev.cum
             /\ job[w].ev.state \in Follows(rec[Ord(w)].state)
             /\ rec' = [rec EXCEPT ![Ord(w)] =
                          Appended(rec[Ord(w)], <<job[w].ev.state, job[w].ev.cum>>,
                                   job[w].ev.state, job[w].ev.cum, ~IsStub(job[w].ev))]
             /\ job' = job /\ Goto(w, AfterAppend(w))
  <2>1. pc[w] = "append" /\ VerOK(w)
    BY <1>4 DEF AppendEvent, Base, RowsInv
  <2>2. /\ Appendable(rec[Ord(w)], <<job[w].ev.state, job[w].ev.cum>>, job[w].ver,
                      job[w].ev.state)
        /\ Write(Ord(w), Appended(rec[Ord(w)], <<job[w].ev.state, job[w].ev.cum>>,
                                  job[w].ev.state, job[w].ev.cum, ~IsStub(job[w].ev)))
        /\ job' = job /\ Goto(w, AfterAppend(w))
    BY <1>4 DEF AppendEvent, Ord
  <2> QED
    BY <2>1, <2>2 DEF VerOK, AppendPCs, Appendable, Write
<1> QED
  BY <1>2, <1>3, <1>4

LEMMA Concluded ==
    ASSUME Base, NEW t \in Submitters, Conclude(t), rec' # rec
    PROVE  LET state == IF job[t].refused THEN "rejected" ELSE "unknown" IN
           /\ Appendable(rec[Ord(t)], <<state, job[t].ver + 1>>, job[t].ver, state)
           /\ rec' = [rec EXCEPT ![Ord(t)] =
                        Appended(rec[Ord(t)], <<state, job[t].ver + 1>>, state,
                                 rec[Ord(t)].cum, FALSE)]
<1> DEFINE state == IF job[t].refused THEN "rejected" ELSE "unknown"
<1>1. pc[t] = "conclude" /\ VerOK(t)
  BY DEF Conclude, Base, RowsInv, Workers
<1>2. /\ Appendable(rec[Ord(t)], <<state, job[t].ver + 1>>, job[t].ver, state)
      /\ Write(Ord(t), Appended(rec[Ord(t)], <<state, job[t].ver + 1>>, state,
                                job[t].from, FALSE))
  BY DEF Conclude
<1>3. job[t].from = rec[Ord(t)].cum
  BY <1>1, <1>2 DEF VerOK, AppendPCs, Appendable
<1> QED
  BY <1>2, <1>3 DEF Write

-----------------------------------------------------------------------------
(***************************************************************************)
(* No fill is forgotten.  Shares become durable in the one append that      *)
(* leaves its worker about to book exactly them.                            *)
(***************************************************************************)
LEMMA FaultsCounted ==
    ASSUME TypeInv, [Next]_vars, crashes' = 0, handlerFails' = 0
    PROVE  /\ crashes = 0 /\ handlerFails = 0
           /\ ~Crash /\ \A w \in Workers : ~HandlerRaises(w)
<1>1. crashes \in Nat /\ handlerFails \in Nat
  BY DEF TypeInv, TypeOK
<1>2. ~Crash /\ \A w \in Workers : ~HandlerRaises(w)
  BY <1>1 DEF Crash, HandlerRaises
<1>3. crashes' = crashes /\ handlerFails' = handlerFails
  BY <1>2
     DEF Next, Submit, Identify, Lookup, Gate, Create, Mark, Post, WaitAccepted,
         WaitRefused, WaitLost, WaitGatewayError, Recover, Settle, Conclude, ApplyEvent,
         ReadRow, AppendEvent, BookFill, FinishEvent, NextUpdate, Reconcile, Capture,
         CaptureUnusable, SweepOrder, ListRows, RetireRow, CountLineage, Publish,
         Environment, Land, WireLoses, Execute, RequestCancel, CloseOrder, BrokerMoves,
         Age, vars
<1> QED
  BY <1>2, <1>3

\* A worker about to book stays so until it books, raises, or dies.
LEMMA StaysToBook ==
    ASSUME TypeInv, [Next]_vars, ~Crash, NEW w \in Workers, pc[w] = "book"
    PROVE  \/ pc'[w] = pc[w] /\ job'[w] = job[w]
           \/ BookFill(w) \/ HandlerRaises(w)
<1>1. ASSUME NEW t \in Submitters, Submit(t)
      PROVE  pc'[w] = pc[w] /\ job'[w] = job[w]
  <2>1. t # w
    BY <1>1 DEF Submit, Identify, Lookup, Gate, Create, Mark, Post, WaitAccepted,
       WaitRefused, WaitLost, WaitGatewayError, Recover, Settle, Conclude
  <2> QED
    BY <1>1, <2>1, WorkersAreLocal DEF Local, Workers, TypeInv
<1>2. ASSUME NEW v \in Workers, ApplyEvent(v)
      PROVE  (pc'[w] = pc[w] /\ job'[w] = job[w]) \/ BookFill(w) \/ HandlerRaises(w)
  <2>1. CASE v = w
    BY <1>2, <2>1 DEF ApplyEvent, ReadRow, AppendEvent, FinishEvent
  <2>2. CASE v # w
    BY <1>2, <2>2, WorkersAreLocal DEF Local, TypeInv
  <2> QED
    BY <2>1, <2>2
<1>3. CASE NextUpdate
  <2>1. StreamWorker # w /\ StreamWorker \in Workers
    BY <1>3 DEF NextUpdate, Workers
  <2> QED
    BY <1>3, <2>1, WorkersAreLocal DEF Local, TypeInv
<1>4. ASSUME NEW r \in Reconcilers, Reconcile(r)
      PROVE  pc'[w] = pc[w] /\ job'[w] = job[w]
  <2>1. r # w
    BY <1>4 DEF Reconcile, Capture, CaptureUnusable, SweepOrder, ListRows, RetireRow,
       CountLineage, Publish
  <2> QED
    BY <1>4, <2>1, WorkersAreLocal DEF Local, Workers, TypeInv
<1>5. CASE Environment \/ UNCHANGED vars
  BY <1>5 DEF Environment, Land, WireLoses, Execute, RequestCancel, CloseOrder,
     BrokerMoves, Age, vars
<1> QED
  BY <1>1, <1>2, <1>3, <1>4, <1>5 DEF Next

LEMMA NothingForgottenStep ==
    Base /\ NoFillForgotten /\ [Next]_vars => NoFillForgotten'
<1> SUFFICES ASSUME Base, NoFillForgotten, [Next]_vars, crashes' = 0, handlerFails' = 0,
                    NEW o \in Ords, NEW u \in 1..rec'[o].cum
             PROVE  \/ booked'[o][u] = 1
                    \/ \E w \in Workers : Ord(w)' = o /\ u \in Span(w)'
  BY DEF NoFillForgotten
<1>1. /\ ~Crash /\ \A w \in Workers : ~HandlerRaises(w)
      /\ \A p \in Ords : \A x \in 1..rec[p].cum :
           booked[p][x] = 1 \/ \E w \in Workers : Ord(w) = p /\ x \in Span(w)
  BY FaultsCounted DEF NoFillForgotten, Base
<1>2. Base' /\ RowsGrowing
  BY BaseStep
<1>3. rec[o].cum \in 0..Qty /\ rec'[o].cum \in 0..Qty /\ u \in Units
  <2>1. rec[o].cum \in 0..Qty /\ rec'[o].cum \in 0..Qty
    BY <1>2 DEF Base, TypeInv, TypeOK, Records
  <2> QED
    BY <2>1, QtyAssumption DEF Units
<1>4. \A w \in Workers : Span(w) # {} => pc[w] = "book"
  BY DEF Span
\* The share is new: the worker that appended it holds it.
<1>5. CASE u > rec[o].cum
  <2>1. rec'[o] # rec[o] /\ rec' # rec
    BY <1>3, <1>5
  <2>2. PICK w \in Workers : AppendEvent(w)
    <3>1. ASSUME NEW t \in Submitters, Create(t) \/ Mark(t) \/ Conclude(t)
          PROVE  FALSE
      <4>1. Ord(t) \in Ords /\ rec \in [Ords -> Records]
        BY WorkerType DEF Base, Workers
      <4>2. CASE Create(t)
        <5>1. rec' = [rec EXCEPT ![Ord(t)] = IntentRecord]
          BY <2>1, <4>2, Written
        <5>2. rec'[o].cum = 0 \/ rec'[o] = rec[o]
          BY <4>1, <5>1 DEF IntentRecord, NoRecord
        <5> QED
          BY <1>3, <1>5, <2>1, <5>2
      <4>3. CASE Mark(t)
        <5>1. PICK id, state :
                rec' = [rec EXCEPT ![Ord(t)] =
                          Appended(rec[Ord(t)], id, state, rec[Ord(t)].cum, FALSE)]
          BY <2>1, <4>3, Written
        <5>2. rec'[o].cum = rec[o].cum
          BY <4>1, <5>1 DEF Appended
        <5> QED
          BY <1>3, <1>5, <5>2
      <4>4. CASE Conclude(t)
        <5>1. PICK id, state :
                rec' = [rec EXCEPT ![Ord(t)] =
                          Appended(rec[Ord(t)], id, state, rec[Ord(t)].cum, FALSE)]
          BY <2>1, <4>4, Concluded
        <5>2. rec'[o].cum = rec[o].cum
          BY <4>1, <5>1 DEF Appended
        <5> QED
          BY <1>3, <1>5, <5>2
      <4> QED
        BY <3>1, <4>2, <4>3, <4>4
    <3> QED
      BY <2>1, <3>1, WhoWrites
  <2>3. /\ job[w].from = rec[Ord(w)].cum /\ job[w].from <= job[w].ev.cum
        /\ rec' = [rec EXCEPT ![Ord(w)] =
                     Appended(rec[Ord(w)], <<job[w].ev.state, job[w].ev.cum>>,
                              job[w].ev.state, job[w].ev.cum, ~IsStub(job[w].ev))]
        /\ job' = job /\ Goto(w, AfterAppend(w))
    BY <2>1, <2>2, Written
  <2>4. /\ Ord(w) \in Ords /\ rec \in [Ords -> Records] /\ pc \in [Workers -> PCs]
        /\ job[w].ev.cum \in 0..Qty
    BY WorkerType DEF Base
  <2>5. Ord(w) = o /\ rec'[o].cum = job[w].ev.cum
    BY <2>1, <2>3, <2>4 DEF Appended
  <2>6. AfterAppend(w) = "book"
    BY <1>3, <1>5, <2>3, <2>5 DEF AfterAppend
  <2>7. pc'[w] = "book"
    BY <2>3, <2>4, <2>6 DEF Goto
  <2>8. Span(w)' = (rec[o].cum + 1)..rec'[o].cum /\ Ord(w)' = o
    BY <2>3, <2>5, <2>7 DEF Span, Ord
  <2> QED
    BY <1>3, <1>5, <2>8
\* The share was booked, or is held and is booked now or still held.
<1>6. CASE u <= rec[o].cum
  <2>1. booked[o][u] = 1 \/ \E w \in Workers : Ord(w) = o /\ u \in Span(w)
    BY <1>1, <1>3, <1>6
  <2>2. booked \in [Ords -> [Units -> Nat]] /\ booked' \in [Ords -> [Units -> Nat]]
    BY <1>2 DEF Base, TypeInv, TypeOK
  <2>3. booked'[o][u] >= booked[o][u]
    <3>1. CASE \E w \in Workers : BookFill(w)
      <4>1. PICK w \in Workers : BookFill(w)
        BY <3>1
      <4>2. booked' = [booked EXCEPT ![Ord(w)] =
                         [x \in Units |-> IF x \in Span(w) THEN @[x] + 1 ELSE @[x]]]
        BY <4>1 DEF BookFill
      <4> QED
        BY <1>3, <2>2, <4>2
    <3>2. CASE ~\E w \in Workers : BookFill(w)
      <4>1. booked' = booked
        BY <1>1, <3>2
           DEF Next, Submit, Identify, Lookup, Gate, Create, Mark, Post, WaitAccepted,
               WaitRefused, WaitLost, WaitGatewayError, Recover, Settle, Conclude,
               ApplyEvent, ReadRow, AppendEvent, FinishEvent, NextUpdate, Reconcile,
               Capture, CaptureUnusable, SweepOrder, ListRows, RetireRow, CountLineage,
               Publish, Environment, Land, WireLoses, Execute, RequestCancel, CloseOrder,
               BrokerMoves, Age, durable, vars
      <4> QED
        BY <1>3, <2>2, <4>1
    <3> QED
      BY <3>1, <3>2
  <2>4. booked'[o][u] <= 1 /\ booked'[o][u] \in Nat /\ booked[o][u] \in Nat
    BY <1>2, <1>3, <2>2 DEF Base, BookingInv, BookedAtMostOnce
  <2>5. CASE booked[o][u] = 1
    BY <2>3, <2>4, <2>5
  <2>6. ASSUME NEW w \in Workers, Ord(w) = o, u \in Span(w)
        PROVE  booked'[o][u] = 1 \/ (Ord(w)' = o /\ u \in Span(w)')
    <3>1. pc[w] = "book"
      BY <1>4, <2>6
    <3>2. CASE pc'[w] = pc[w] /\ job'[w] = job[w]
      BY <2>6, <3>2 DEF Span, Ord
    <3>3. CASE BookFill(w)
      <4>1. booked'[o][u] = booked[o][u] + 1
        BY <1>3, <2>2, <2>6, <3>3 DEF BookFill
      <4> QED
        BY <2>4, <4>1
    <3> QED
      BY <1>1, <3>1, <3>2, <3>3, StaysToBook DEF Base
  <2> QED
    BY <2>1, <2>5, <2>6
<1> QED
  BY <1>3, <1>5, <1>6

(***************************************************************************)
(* A fill is missing from the risk sleeve only while the worker that made   *)
(* it durable still holds it, unless a crash or a handler failure hit that  *)
(* window: whichever threads write the row, no append leaves a share to     *)
(* nobody.                                                                  *)
(***************************************************************************)
THEOREM NothingForgotten == Spec => []NoFillForgotten
<1>1. Init => NoFillForgotten
  BY DEF Init, NoFillForgotten, NoRecord
<1>2. Base /\ [Next]_vars => Base'
  BY BaseStep
<1> QED
  BY <1>1, <1>2, BaseInit, NothingForgottenStep, PTL DEF Spec

-----------------------------------------------------------------------------
(***************************************************************************)
(* Where a step may take a submitter, an order and its wire.                *)
(***************************************************************************)
Same(w) == pc'[w] = pc[w] /\ job'[w] = job[w]

Idles(w) == pc'[w] = "idle" /\ job'[w] = NoJob

Applies(w) ==
    pc[w] \in ApplyPCs /\ pc'[w] \in ApplyPCs /\ job'[w].refused = job[w].refused

Submitting == \E t \in Submitters : Submit(t)

LEMMA AwayFromSubmit ==
    ASSUME Base, [Next]_vars, ~Submitting, NEW t \in Submitters
    PROVE  Same(t) \/ Idles(t) \/ Applies(t)
<1>1. /\ t \in Workers /\ job[t] \in Jobs
      /\ pc \in [Workers -> PCs] /\ job \in [Workers -> Jobs]
  BY WorkerType DEF Base, Workers
<1>2. ASSUME NEW w \in Workers, ApplyEvent(w)
      PROVE  Same(t) \/ Idles(t) \/ Applies(t)
  <2>1. CASE w # t
    BY <1>1, <1>2, <2>1, WorkersAreLocal DEF Local, Same, Base, TypeInv
  <2>2. CASE w = t
    <3>1. Finish(t) => Idles(t)
      BY <1>1, ConstantsAssumption DEF Finish, Idles
    <3>2. Done(t) => Idles(t)
      BY <1>1, ControlLocal DEF Idles, Base, TypeInv
    <3>3. CASE ReadRow(t)
      <4>1. CASE Finish(t)
        BY <3>1, <4>1
      <4>2. CASE ~Finish(t)
        <5>1. /\ pc[t] = "read" /\ pc'[t] = "append"
              /\ job' = [job EXCEPT ![t].ver = rec[job[t].ev.ord].version,
                                    ![t].from = rec[job[t].ev.ord].cum]
          BY <1>1, <3>3, <4>2 DEF ReadRow, Goto
        <5>2. job'[t].refused = job[t].refused
          BY <1>1, <5>1 DEF Jobs
        <5> QED
          BY <5>1, <5>2 DEF Applies, ApplyPCs
      <4> QED
        BY <4>1, <4>2
    <3>4. CASE AppendEvent(t)
      <4>1. CASE Finish(t)
        BY <3>1, <4>1
      <4>2. CASE ~Finish(t)
        <5>1. pc[t] = "append" /\ pc'[t] \in {"book", "finish"} /\ job' = job
          BY <1>1, <3>4, <4>2 DEF AppendEvent, Declined, Goto, AfterAppend
        <5> QED
          BY <5>1 DEF Applies, ApplyPCs
      <4> QED
        BY <4>1, <4>2
    <3>5. CASE BookFill(t)
      <4>1. pc[t] = "book" /\ pc'[t] = "finish" /\ job' = job
        BY <1>1, <3>5 DEF BookFill, Goto
      <4> QED
        BY <4>1 DEF Applies, ApplyPCs
    <3>6. CASE HandlerRaises(t) \/ FinishEvent(t)
      BY <3>1, <3>2, <3>6 DEF HandlerRaises, FinishEvent
    <3> QED
      BY <1>2, <2>2, <3>3, <3>4, <3>5, <3>6 DEF ApplyEvent
  <2> QED
    BY <2>1, <2>2
<1>3. CASE NextUpdate
  <2>1. StreamWorker \in Workers /\ StreamWorker # t
    BY ConstantsAssumption DEF Workers
  <2> QED
    BY <1>1, <1>3, <2>1, WorkersAreLocal DEF Local, Same, Base, TypeInv
<1>4. ASSUME NEW r \in Reconcilers, Reconcile(r)
      PROVE  Same(t)
  <2>1. r \in Workers /\ r # t
    BY ConstantsAssumption DEF Workers
  <2> QED
    BY <1>1, <1>4, <2>1, WorkersAreLocal DEF Local, Same, Base, TypeInv
<1>5. CASE Environment \/ UNCHANGED vars
  BY <1>1, <1>5 DEF Environment, Land, WireLoses, Execute, RequestCancel, CloseOrder,
     BrokerMoves, Age, Crash, vars, Same, Idles
<1> QED
  BY <1>2, <1>3, <1>4, <1>5 DEF Next, Submitting

\* Where a submission goes: it ends, applies what the broker shows, starts, or
\* goes on about the same order.
SubmitEnds(t) == Idles(t)

SubmitApplies(t) ==
    /\ pc[t] \in {"lookup", "post", "wait", "recover"} /\ pc'[t] = "read"
    /\ AtBroker(Ord(t)) /\ job'[t].ev = Reference(Ord(t))
    /\ job'[t].refused = job[t].refused /\ job'[t].todo = job[t].todo

SubmitStarts(t) ==
    /\ pc[t] = "idle" /\ job'[t].refused = job[t].refused
    /\ \/ pc'[t] = "lookup"
       \/ pc'[t] = "gate" /\ rec[Ord(t)'].state = "none"
    /\ \A p \in Ords : p < Ord(t)' => Spent(rec[p])
    /\ rec' = rec

Moves(t, from, to) ==
    pc[t] = from /\ pc'[t] = to /\ job'[t].refused = job[t].refused

SubmitGoesOn(t) ==
    /\ Ord(t)' = Ord(t)
    /\ \/ Moves(t, "gate", "create") /\ job' = job /\ rec' = rec
       \/ Moves(t, "create", "mark") /\ Create(t)
       \/ Moves(t, "mark", "post") /\ Mark(t)
       \/ Moves(t, "post", "recover") /\ rec' = rec
       \/ Moves(t, "post", "wait") /\ ~AtBroker(Ord(t)) /\ rec' = rec
       \/ Moves(t, "wait", "recover") /\ rec' = rec
       \/ Moves(t, "recover", "settle") /\ rec' = rec
       \/ /\ Moves(t, "settle", "conclude") /\ rec' = rec
          /\ job'[t].ver = rec[Ord(t)].version
       \/ /\ pc[t] = "post" /\ pc'[t] = "recover" /\ ~AtBroker(Ord(t))
          /\ UNCHANGED <<rec, broker, wire>>
       \/ /\ pc[t] = "wait" /\ pc'[t] = "recover" /\ ~AtBroker(Ord(t))
          /\ GatewayErrors \/ wire' = [wire EXCEPT ![Ord(t)] = @ - 1]
          /\ UNCHANGED <<rec, broker>>

LEMMA SubmitMoves ==
    ASSUME Base, NEW t \in Submitters, Submit(t)
    PROVE  SubmitEnds(t) \/ SubmitApplies(t) \/ SubmitStarts(t) \/ SubmitGoesOn(t)
<1>1. /\ t \in Workers /\ job[t] \in Jobs /\ Ord(t) \in Ords
      /\ pc \in [Workers -> PCs] /\ job \in [Workers -> Jobs]
  BY WorkerType DEF Base, Workers
<1>2. Done(t) => SubmitEnds(t)
  BY <1>1, ControlLocal DEF SubmitEnds, Idles, Base, TypeInv
<1>3. ASSUME Apply(t, Reference(Ord(t))), AtBroker(Ord(t)),
             pc[t] \in {"lookup", "post", "wait", "recover"}
      PROVE  SubmitApplies(t)
  <2>1. pc'[t] = "read" /\ job' = [job EXCEPT ![t].ev = Reference(Ord(t))]
    BY <1>1, <1>3 DEF Apply, Goto
  <2>2. /\ job'[t].ev = Reference(Ord(t)) /\ job'[t].refused = job[t].refused
        /\ job'[t].todo = job[t].todo
    BY <1>1, <2>1 DEF Jobs
  <2> QED
    BY <1>3, <2>1, <2>2 DEF SubmitApplies
<1>4. ASSUME NEW l, Goto(t, l), job' = job
      PROVE  /\ pc'[t] = l /\ Ord(t)' = Ord(t)
             /\ job'[t].refused = job[t].refused
  BY <1>1, <1>4 DEF Goto, Ord
<1>5. ASSUME NEW l, Goto(t, l), job' = [job EXCEPT ![t].refused = TRUE]
      PROVE  pc'[t] = l /\ Ord(t)' = Ord(t)
  BY <1>1, <1>5 DEF Goto, Ord, Jobs
<1>6. CASE Identify(t)
  <2>1. PICK o \in Ords :
          /\ \A p \in Ords : p < o => Spent(rec[p])
          /\ \/ rec[o].state = "none" /\ Goto(t, "gate")
             \/ Goto(t, "lookup")
          /\ job' = [job EXCEPT ![t].ev = Event(o, "intent", 0)]
    BY <1>6 DEF Identify
  <2>2. job'[t].ev = Event(o, "intent", 0) /\ job'[t].refused = job[t].refused
    BY <1>1, <2>1 DEF Jobs
  <2>3. Ord(t)' = o
    BY <2>2 DEF Ord, Event
  <2>4. pc[t] = "idle" /\ rec' = rec
    BY <1>6 DEF Identify, durable
  <2>5. \/ pc'[t] = "lookup"
        \/ pc'[t] = "gate" /\ rec[o].state = "none"
    BY <1>1, <2>1 DEF Goto
  <2> QED
    BY <2>1, <2>2, <2>3, <2>4, <2>5 DEF SubmitStarts
<1>7. CASE Lookup(t)
  BY <1>2, <1>3, <1>7 DEF Lookup
<1>8. CASE Gate(t)
  BY <1>2, <1>4, <1>8 DEF Gate, SubmitGoesOn, Moves, durable
<1>9. CASE Create(t)
  <2>1. pc[t] = "create" /\ pc'[t] = "mark"
    BY <1>1, <1>9 DEF Create, Goto
  <2>2. Ord(t)' = Ord(t) /\ job'[t].refused = job[t].refused
    <3>1. \/ job' = job
          \/ job' = [job EXCEPT ![t].ver = rec[Ord(t)].version,
                                ![t].from = rec[Ord(t)].cum]
      BY <1>9 DEF Create
    <3>2. job'[t].ev = job[t].ev /\ job'[t].refused = job[t].refused
      BY <1>1, <3>1 DEF Jobs
    <3> QED
      BY <3>2 DEF Ord
  <2> QED
    BY <1>9, <2>1, <2>2 DEF SubmitGoesOn, Moves
<1>10. CASE Mark(t)
  BY <1>2, <1>4, <1>10 DEF Mark, SubmitGoesOn, Moves
<1>11. CASE Post(t)
  <2>1. pc[t] = "post" /\ rec' = rec /\ broker' = broker
    BY <1>11 DEF Post, durable
  <2>2. CASE AtBroker(Ord(t)) /\ Apply(t, Reference(Ord(t)))
    BY <1>3, <2>1, <2>2
  <2>3. CASE Goto(t, "recover") /\ job' = job
    BY <1>4, <2>1, <2>3 DEF SubmitGoesOn, Moves
  <2>4. CASE /\ ~AtBroker(Ord(t)) /\ Goto(t, "recover")
             /\ job' = [job EXCEPT ![t].refused = TRUE] /\ wire' = wire
    BY <1>5, <2>1, <2>4 DEF SubmitGoesOn
  <2>5. CASE ~AtBroker(Ord(t)) /\ Goto(t, "wait") /\ job' = job
    BY <1>4, <2>1, <2>5 DEF SubmitGoesOn, Moves
  <2> QED
    BY <1>11, <2>2, <2>3, <2>4, <2>5 DEF Post
<1>12. CASE WaitAccepted(t)
  BY <1>3, <1>12 DEF WaitAccepted
<1>13. CASE WaitRefused(t)
  BY <1>5, <1>13 DEF WaitRefused, SubmitGoesOn, durable
<1>14. CASE WaitLost(t)
  BY <1>4, <1>14 DEF WaitLost, SubmitGoesOn, Moves, durable
<1>15. CASE WaitGatewayError(t)
  BY <1>5, <1>15 DEF WaitGatewayError, SubmitGoesOn, durable, outside
<1>16. CASE Recover(t)
  BY <1>3, <1>4, <1>16 DEF Recover, SubmitGoesOn, Moves, durable
<1>17. CASE Settle(t)
  <2>1. job'[t].ev = job[t].ev /\ job'[t].refused = job[t].refused
        /\ job'[t].ver = rec[Ord(t)].version
    BY <1>1, <1>17 DEF Settle, Jobs
  <2>2. pc[t] = "settle" /\ pc'[t] = "conclude" /\ rec' = rec
    BY <1>1, <1>17 DEF Settle, Goto, durable
  <2> QED
    BY <2>1, <2>2 DEF SubmitGoesOn, Moves, Ord
<1>18. CASE Conclude(t)
  BY <1>2, <1>18 DEF Conclude
<1> QED
  BY <1>6, <1>7, <1>8, <1>9, <1>10, <1>11, <1>12, <1>13, <1>14, <1>15, <1>16, <1>17,
     <1>18 DEF Submit

\* What becomes of an order and its wire.
Posted(o) ==
    /\ broker'[o] = broker[o] /\ ~AtBroker(o) /\ wire'[o] = wire[o] + 1
    /\ \E t \in Submitters : Submit(t) /\ pc[t] = "post" /\ Ord(t) = o

LEMMA WorldMoves ==
    ASSUME Base, [Next]_vars, NEW o \in Ords
    PROVE  \/ broker'[o] = broker[o] /\ wire'[o] = wire[o]
           \/ broker'[o] = broker[o] /\ wire[o] > 0 /\ wire'[o] = wire[o] - 1
           \/ /\ ~AtBroker(o) /\ broker'[o].status = "working"
              /\ wire[o] > 0 /\ wire'[o] = wire[o] - 1
           \/ /\ broker[o].status \in {"working", "canceling"}
              /\ broker'[o].status # "absent" /\ wire'[o] = wire[o]
           \/ Posted(o)
<1> DEFINE Goal == \/ broker'[o] = broker[o] /\ wire'[o] = wire[o]
                   \/ broker'[o] = broker[o] /\ wire[o] > 0 /\ wire'[o] = wire[o] - 1
                   \/ /\ ~AtBroker(o) /\ broker'[o].status = "working"
                      /\ wire[o] > 0 /\ wire'[o] = wire[o] - 1
                   \/ /\ broker[o].status \in {"working", "canceling"}
                      /\ broker'[o].status # "absent" /\ wire'[o] = wire[o]
                   \/ Posted(o)
<1>1. /\ wire \in [Ords -> Nat]
      /\ broker \in [Ords -> [status: BrokerStates, fill: 0..Qty]]
  BY DEF Base, TypeInv, TypeOK
<1>2. ASSUME NEW t \in Submitters, Post(t) \/ WaitRefused(t)
      PROVE  Goal
  <2>1. Ord(t) \in Ords /\ broker' = broker
    BY <1>2, WorkerType DEF Base, Workers, Post, WaitRefused
  <2>2. CASE wire' = wire
    BY <2>1, <2>2
  <2>3. CASE Post(t) /\ wire' # wire
    <3>1. /\ pc[t] = "post" /\ ~AtBroker(Ord(t))
          /\ wire' = [wire EXCEPT ![Ord(t)] = @ + 1]
      BY <2>3 DEF Post
    <3> QED
      BY <1>1, <2>1, <2>3, <3>1 DEF Posted, Submit
  <2>4. CASE WaitRefused(t)
    <3>1. wire[Ord(t)] > 0 /\ wire' = [wire EXCEPT ![Ord(t)] = @ - 1]
      BY <2>4 DEF WaitRefused
    <3> QED
      BY <1>1, <2>1, <3>1
  <2> QED
    BY <1>2, <2>2, <2>3, <2>4
<1>3. ASSUME NEW p \in Ords, Land(p) \/ WireLoses(p)
      PROVE  Goal
  <2>1. wire[p] > 0 /\ wire' = [wire EXCEPT ![p] = @ - 1]
    BY <1>3 DEF Land, WireLoses
  <2>2. \/ broker' = broker
        \/ /\ ~AtBroker(p)
           /\ broker' = [broker EXCEPT ![p] = [status |-> "working", fill |-> 0]]
    BY <1>3 DEF Land, WireLoses, BrokerMoves
  <2> QED
    BY <1>1, <2>1, <2>2
<1>4. ASSUME NEW p \in Ords, Execute(p) \/ RequestCancel(p) \/ CloseOrder(p)
      PROVE  Goal
  <2>1. broker[p].status \in {"working", "canceling"} /\ wire' = wire
    BY <1>4 DEF Execute, RequestCancel, CloseOrder
  <2>2. PICK b : broker' = [broker EXCEPT ![p] = b] /\ b.status # "absent"
    <3>1. CASE Execute(p)
      <4> DEFINE b == [status |-> IF broker[p].fill + 1 = Qty THEN "filled"
                                  ELSE broker[p].status,
                       fill |-> broker[p].fill + 1]
      <4>1. broker' = [broker EXCEPT ![p] = b] /\ b.status # "absent"
        BY <2>1, <3>1 DEF Execute, BrokerMoves
      <4> QED
        BY <4>1
    <3>2. CASE RequestCancel(p)
      <4> DEFINE b == [broker[p] EXCEPT !.status = "canceling"]
      <4>1. broker' = [broker EXCEPT ![p] = b]
        BY <3>2 DEF RequestCancel, BrokerMoves
      <4>2. b.status # "absent"
        BY <1>1
      <4> QED
        BY <4>1, <4>2
    <3>3. CASE CloseOrder(p)
      <4> DEFINE b == [broker[p] EXCEPT !.status = "canceled"]
      <4>1. broker' = [broker EXCEPT ![p] = b]
        BY <3>3 DEF CloseOrder, BrokerMoves
      <4>2. b.status # "absent"
        BY <1>1
      <4> QED
        BY <4>1, <4>2
    <3> QED
      BY <1>4, <3>1, <3>2, <3>3
  <2> QED
    BY <1>1, <2>1, <2>2
<1>5. \/ broker' = broker /\ wire' = wire
      \/ \E t \in Submitters : Post(t) \/ WaitRefused(t)
      \/ \E p \in Ords : Land(p) \/ WireLoses(p)
      \/ \E p \in Ords : Execute(p) \/ RequestCancel(p) \/ CloseOrder(p)
  BY DEF Next, Submit, Identify, Lookup, Gate, Create, Mark, WaitAccepted, WaitLost,
         WaitGatewayError, Recover, Settle, Conclude, ApplyEvent, ReadRow, AppendEvent,
         BookFill, HandlerRaises, FinishEvent, NextUpdate, Reconcile, Capture,
         CaptureUnusable, SweepOrder, ListRows, RetireRow, CountLineage, Publish,
         Environment, Age, Crash, outside, vars
<1> QED
  BY <1>2, <1>3, <1>4, <1>5

-----------------------------------------------------------------------------
(***************************************************************************)
(* An ordinal is reached past spent ones only, and a spent row stays so.    *)
(***************************************************************************)
LadderInv ==
    /\ \A o, p \in Ords : rec[o].state # "none" /\ p < o => Spent(rec[p])
    /\ \A t \in Submitters, p \in Ords :
          pc[t] \in {"gate", "create"} /\ p < Ord(t) => Spent(rec[p])

\* A row that did not exist is created, by the submission at "create".
LEMMA CreatedBy ==
    ASSUME Base, [Next]_vars, NEW o \in Ords, rec[o].state = "none", rec'[o] # rec[o]
    PROVE  \E t \in Submitters :
              pc[t] = "create" /\ Ord(t) = o /\ Create(t) /\ rec'[o] = IntentRecord
<1>1. rec' # rec /\ rec \in [Ords -> Records] /\ "none" \notin LiveStates
  BY DEF Base, TypeInv, TypeOK, LiveStates, EarlyStates, WorkingStates
<1>2. ASSUME NEW t \in Submitters, Mark(t) \/ Conclude(t)
      PROVE  FALSE
  <2>1. Ord(t) \in Ords
    BY WorkerType DEF Base, Workers
  <2>2. PICK id, ver, state, r : /\ Appendable(rec[Ord(t)], id, ver, state)
                                 /\ rec' = [rec EXCEPT ![Ord(t)] = r]
    <3>1. CASE Mark(t)
      <4>1. /\ Appendable(rec[Ord(t)], <<"submitting", job[t].ver + 1>>, job[t].ver,
                          "submitting")
            /\ rec' = [rec EXCEPT ![Ord(t)] =
                         Appended(rec[Ord(t)], <<"submitting", job[t].ver + 1>>,
                                  "submitting", rec[Ord(t)].cum, FALSE)]
        BY <1>1, <3>1, Written
      <4> QED
        BY <4>1
    <3>2. CASE Conclude(t)
      BY <1>1, <3>2, Concluded
    <3> QED
      BY <1>2, <3>1, <3>2
  <2>3. Ord(t) = o
    BY <1>1, <2>1, <2>2
  <2> QED
    BY <1>1, <2>2, <2>3, FollowsLive DEF Appendable
<1>3. ASSUME NEW w \in Workers, AppendEvent(w)
      PROVE  FALSE
  <2>1. Ord(w) \in Ords
    BY WorkerType DEF Base
  <2>2. PICK r : /\ job[w].ev.state \in Follows(rec[Ord(w)].state)
                 /\ rec' = [rec EXCEPT ![Ord(w)] = r]
    BY <1>1, <1>3, Written
  <2>3. Ord(w) = o
    BY <1>1, <2>1, <2>2
  <2> QED
    BY <1>1, <2>2, <2>3, FollowsLive
<1>4. ASSUME NEW t \in Submitters, Create(t)
      PROVE  pc[t] = "create" /\ Ord(t) = o /\ rec'[o] = IntentRecord
  <2>1. Ord(t) \in Ords
    BY WorkerType DEF Base, Workers
  <2>2. pc[t] = "create" /\ rec' = [rec EXCEPT ![Ord(t)] = IntentRecord]
    BY <1>1, <1>4, Written DEF Create
  <2> QED
    BY <1>1, <2>1, <2>2
<1> QED
  BY <1>1, <1>2, <1>3, <1>4, WhoWrites

LEMMA ClosedRowsStay ==
    ASSUME Base, RowsGrowing, NEW o \in Ords, rec[o].state \in TerminalStates
    PROVE  rec'[o] = rec[o]
BY DEF RowsGrowing, RowGrows, TerminalStates, LiveStates, EarlyStates, WorkingStates

LEMMA LadderInit == Init => LadderInv
BY DEF Init, LadderInv, NoRecord, Workers

LEMMA LadderStep == Base /\ LadderInv /\ [Next]_vars => LadderInv'
<1> SUFFICES ASSUME Base, LadderInv, [Next]_vars
             PROVE  LadderInv'
  OBVIOUS
<1>1. Base' /\ RowsGrowing
  BY BaseStep
<1>2. \A p \in Ords : Spent(rec[p]) => Spent(rec[p])'
  BY <1>1, ClosedRowsStay DEF Spent
<1>3. ASSUME NEW o \in Ords, NEW p \in Ords, rec'[o].state # "none", p < o
      PROVE  Spent(rec[p])'
  <2>1. CASE rec[o].state # "none"
    BY <1>2, <1>3, <2>1 DEF LadderInv
  <2>2. CASE rec[o].state = "none"
    <3>1. PICK t \in Submitters : pc[t] = "create" /\ Ord(t) = o
      BY <1>3, <2>2, CreatedBy
    <3> QED
      BY <1>2, <1>3, <3>1 DEF LadderInv
  <2> QED
    BY <2>1, <2>2
<1>4. ASSUME NEW t \in Submitters, NEW p \in Ords,
             pc'[t] \in {"gate", "create"}, p < Ord(t)'
      PROVE  Spent(rec[p])'
  <2>1. CASE Same(t)
    BY <1>2, <1>4, <2>1 DEF LadderInv, Same, Ord
  <2>2. CASE Submit(t)
    <3>1. CASE SubmitStarts(t)
      BY <1>2, <1>4, <3>1 DEF SubmitStarts
    <3>2. CASE SubmitGoesOn(t)
      <4>1. pc[t] = "gate" /\ Ord(t)' = Ord(t)
        BY <1>4, <3>2 DEF SubmitGoesOn, Moves
      <4> QED
        BY <1>2, <1>4, <4>1 DEF LadderInv
    <3> QED
      BY <1>4, <2>2, <3>1, <3>2, SubmitMoves DEF SubmitEnds, Idles, SubmitApplies
  <2>3. ASSUME NEW s \in Submitters, Submit(s), s # t
        PROVE  Same(t)
    BY <2>3, WorkersAreLocal DEF Local, Same, Workers, Base, TypeInv
  <2>4. CASE ~Submitting
    BY <1>4, <2>1, <2>4, AwayFromSubmit DEF Idles, Applies, ApplyPCs
  <2> QED
    BY <2>1, <2>2, <2>3, <2>4 DEF Submitting
<1> QED
  BY <1>3, <1>4 DEF LadderInv

-----------------------------------------------------------------------------
(***************************************************************************)
(* One POST is sent for an ordinal, by the one call that made its row; a    *)
(* call that knows itself refused, or has not sent yet, has nothing on its  *)
(* way.                                                                     *)
(***************************************************************************)
\* One thread submits the decision, and what reads as a refusal is one.
Alone == (\A s, t \in Submitters : s = t) /\ ~GatewayErrors

\* A call is over before its row is old.
Timely == PromptPosts /\ FreshDecision

Unsent(o) == ~AtBroker(o) /\ wire[o] = 0

Sending(t) ==
    /\ pc[t] \in {"gate", "create"} => rec[Ord(t)].state = "none"
    /\ pc[t] \in SendPCs \ {"create"} => rec[Ord(t)].state # "none"
    /\ pc[t] \in {"mark", "post"} => Unsent(Ord(t))
    /\ job[t].refused => pc[t] \in {"recover", "settle", "conclude"} /\ Unsent(Ord(t))

PostInv ==
    /\ \A o \in Ords : rec[o].state = "none" => Unsent(o)
    /\ \A o \in Ords : wire[o] \in 0..1 /\ (AtBroker(o) => wire[o] = 0)
    /\ \A t \in Submitters : Sending(t)

LEMMA PostInit == Init => PostInv
<1> SUFFICES ASSUME Init PROVE PostInv
  OBVIOUS
<1>1. \A o \in Ords : Unsent(o) /\ wire[o] = 0
  BY DEF Init, Unsent, AtBroker, NoOrder
<1>2. \A t \in Submitters : pc[t] = "idle" /\ job[t].refused = FALSE
  BY DEF Init, NoJob, Workers
<1> QED
  BY <1>1, <1>2 DEF PostInv, Sending, SendPCs, Unsent

\* A row that exists goes on existing.
LEMMA RowsStay ==
    ASSUME RowsGrowing, NEW o \in Ords, rec[o].state # "none"
    PROVE  rec'[o].state # "none"
BY DEF RowsGrowing, RowGrows, IntentRecord, NoRecord

LEMMA UnsentStays ==
    ASSUME Base, [Next]_vars, NEW o \in Ords, Unsent(o), ~Posted(o)
    PROVE  Unsent(o)'
<1>1. wire[o] = 0 /\ broker[o].status = "absent"
  BY DEF Unsent, AtBroker
<1>2. broker'[o] = broker[o] /\ wire'[o] = wire[o]
  BY <1>1, WorldMoves
<1> QED
  BY <1>1, <1>2 DEF Unsent, AtBroker

LEMMA PostedOnce ==
    ASSUME Base, PostInv, NEW o \in Ords, Posted(o)
    PROVE  /\ rec[o].state # "none" /\ wire[o] = 0 /\ wire'[o] = 1
           /\ broker[o].status = "absent" /\ broker'[o] = broker[o]
<1>1. PICK t \in Submitters : pc[t] = "post" /\ Ord(t) = o
  BY DEF Posted
<1>2. Unsent(o) /\ rec[o].state # "none"
  BY <1>1 DEF PostInv, Sending, SendPCs
<1> QED
  BY <1>2 DEF Posted, Unsent, AtBroker

LEMMA PostStep ==
    ASSUME Alone, Base, PostInv, [Next]_vars
    PROVE  PostInv'
<1>1. Base' /\ RowsGrowing
  BY BaseStep
<1>2. /\ wire \in [Ords -> Nat]
      /\ \A t \in Submitters : Ord(t) \in Ords /\ Sending(t) /\ t \in Workers
      /\ \A s, t \in Submitters : s = t
  BY WorkerType DEF Base, TypeInv, TypeOK, PostInv, Workers, Alone
<1>3. ASSUME NEW o \in Ords, rec'[o].state = "none"
      PROVE  Unsent(o)'
  <2>1. rec[o].state = "none"
    BY <1>1, <1>3, RowsStay
  <2> QED
    BY <2>1, UnsentStays, PostedOnce DEF PostInv
<1>4. ASSUME NEW o \in Ords
      PROVE  wire'[o] \in 0..1 /\ (AtBroker(o)' => wire'[o] = 0)
  <2>1. wire[o] \in 0..1 /\ (AtBroker(o) => wire[o] = 0)
    BY DEF PostInv
  <2>2. AtBroker(o) <=> broker[o].status # "absent"
    BY DEF AtBroker
  <2>3. AtBroker(o)' <=> broker'[o].status # "absent"
    BY DEF AtBroker
  <2>4. CASE Posted(o)
    BY <2>3, <2>4, PostedOnce
  <2>5. CASE ~Posted(o)
    BY <2>1, <2>2, <2>3, <2>5, WorldMoves
  <2> QED
    BY <2>4, <2>5
<1>5. ASSUME NEW t \in Submitters
      PROVE  Sending(t)'
  <2>0. PICK o \in Ords : o = Ord(t)
    BY <1>2
  <2>1. /\ Sending(t) /\ t \in Workers
        /\ Unsent(o) /\ pc[t] # "post" => Unsent(o)'
    BY <1>2, <2>0, UnsentStays DEF Posted
  <2>2. job[t].refused => pc[t] \in {"recover", "settle", "conclude"}
    BY <2>0, <2>1 DEF Sending
  <2>3. CASE SubmitEnds(t) \/ Idles(t)
    BY <2>3 DEF Sending, SubmitEnds, Idles, NoJob, SendPCs
  <2>4. CASE ~Submitting
    <3>1. CASE Same(t)
      <4>1. rec[o].state = "none" => rec'[o].state = "none"
        BY <2>0, <2>1, <2>4, CreatedBy DEF Submitting, Submit
      <4>2. rec[o].state # "none" => rec'[o].state # "none"
        BY <1>1, <2>0, <2>1, RowsStay
      <4>3. Unsent(o) => Unsent(o)'
        BY <2>0, <2>1, <2>4, UnsentStays DEF Posted, Submitting
      <4>4. Ord(t)' = o
        BY <2>0, <3>1 DEF Same, Ord
      <4> QED
        BY <2>0, <2>1, <3>1, <4>1, <4>2, <4>3, <4>4 DEF Sending, Same, Unsent, AtBroker
    <3>2. CASE Applies(t)
      BY <2>2, <3>2 DEF Applies, Sending, ApplyPCs, SendPCs
    <3> QED
      BY <2>3, <2>4, <3>1, <3>2, AwayFromSubmit
  <2>5. CASE Submit(t)
    <3>1. CASE SubmitApplies(t)
      <4>1. job[t].refused => Unsent(o)
        BY <2>0, <2>1 DEF Sending
      <4>2. ~job'[t].refused
        BY <2>0, <3>1, <4>1 DEF SubmitApplies, Unsent
      <4> QED
        BY <3>1, <4>2 DEF SubmitApplies, Sending, SendPCs
    <3>2. CASE SubmitStarts(t)
      BY <2>2, <3>2 DEF SubmitStarts, Sending, SendPCs
    <3>3. CASE SubmitGoesOn(t)
      <4>1. Ord(t)' = o
        BY <2>0, <3>3 DEF SubmitGoesOn
      <4>2. rec[o].state # "none" => rec'[o].state # "none"
        BY <1>1, <2>0, <2>1, RowsStay
      <4>3. Unsent(o)' <=> broker'[o].status = "absent" /\ wire'[o] = 0
        BY DEF Unsent, AtBroker
      <4>4. CASE Moves(t, "gate", "create") /\ rec' = rec
        BY <2>0, <2>1, <2>2, <4>1, <4>4 DEF Moves, Sending, SendPCs
      <4>5. CASE Moves(t, "create", "mark") /\ Create(t)
        <5>1. rec[o].state = "none" /\ pc[t] = "create" /\ pc'[t] = "mark"
              /\ job'[t].refused = job[t].refused
          BY <2>0, <2>1, <4>5 DEF Moves, Sending
        <5>2. rec' = [rec EXCEPT ![o] = IntentRecord]
          BY <2>0, <4>5, <5>1 DEF Create
        <5>3. rec'[o].state # "none"
          BY <2>0, <2>1, <5>2, WorkerType DEF Base, IntentRecord, NoRecord
        <5>4. Unsent(o)'
          BY <2>0, <2>1, <5>1 DEF PostInv
        <5> QED
          BY <2>0, <2>2, <4>1, <5>1, <5>3, <5>4 DEF Sending, SendPCs
      <4>6. CASE Moves(t, "mark", "post")
        <5>1. /\ rec[o].state # "none" /\ Unsent(o) /\ pc[t] = "mark"
              /\ pc'[t] = "post" /\ job'[t].refused = job[t].refused
          BY <2>0, <2>1, <4>6 DEF Moves, Sending, SendPCs
        <5> QED
          BY <2>0, <2>1, <2>2, <4>1, <4>2, <5>1 DEF Sending, SendPCs
      <4>7. CASE \/ Moves(t, "post", "recover") \/ Moves(t, "post", "wait")
                 \/ Moves(t, "wait", "recover") \/ Moves(t, "recover", "settle")
                 \/ Moves(t, "settle", "conclude")
        <5>1. /\ rec[o].state # "none"
              /\ pc[t] \in {"post", "wait", "recover", "settle"}
              /\ pc'[t] \in {"wait", "recover", "settle", "conclude"}
              /\ job'[t].refused = job[t].refused
          BY <2>0, <2>1, <4>7 DEF Moves, Sending, SendPCs
        <5>2. job[t].refused =>
                Unsent(o)' /\ pc'[t] \in {"recover", "settle", "conclude"}
          BY <2>0, <2>1, <2>2, <4>7 DEF Moves, Sending
        <5> QED
          BY <2>0, <4>1, <4>2, <5>1, <5>2 DEF Sending, SendPCs
      <4>8. CASE /\ pc[t] = "post" /\ pc'[t] = "recover" /\ UNCHANGED <<rec, broker, wire>>
        <5>1. Unsent(o)' /\ rec'[o].state # "none"
          BY <2>0, <2>1, <4>2, <4>8, <4>3 DEF Sending, Unsent, AtBroker, SendPCs
        <5> QED
          BY <4>1, <4>8, <5>1 DEF Sending, SendPCs
      <4>9. CASE /\ pc[t] = "wait" /\ pc'[t] = "recover" /\ ~AtBroker(o)
                 /\ wire' = [wire EXCEPT ![o] = @ - 1]
                 /\ UNCHANGED <<rec, broker>>
        <5>1. wire[o] \in 0..1 /\ wire'[o] = wire[o] - 1
          BY <1>2, <2>0, <2>1, <4>9 DEF PostInv
        <5>2. wire'[o] \in Nat
          BY <1>1, <2>0, <2>1 DEF Base, TypeInv, TypeOK
        <5>3. Unsent(o)'
          BY <4>3, <4>9, <5>1, <5>2 DEF AtBroker
        <5> QED
          BY <2>0, <2>1, <4>1, <4>2, <4>9, <5>3 DEF Sending, SendPCs
      <4> QED
        BY <2>0, <3>3, <4>4, <4>5, <4>6, <4>7, <4>8, <4>9 DEF SubmitGoesOn, Alone
    <3> QED
      BY <2>3, <2>5, <3>1, <3>2, <3>3, SubmitMoves
  <2> QED
    BY <1>2, <2>4, <2>5 DEF Submitting
<1> QED
  BY <1>3, <1>4, <1>5 DEF PostInv


-----------------------------------------------------------------------------
(***************************************************************************)
(* The news in flight.  An event that waits in the stream, in a reconciler's*)
(* list or in a worker's hands says what the broker goes on saying, or it   *)
(* closes an order that will never exist.                                   *)
(***************************************************************************)
\* A submission that comes to a closed row: its first event is declined.
Late(t) ==
    /\ rec[Ord(t)].state \in TerminalStates
    /\ pc[t] = "create" \/ (pc[t] = "mark" /\ job[t].ver = rec[Ord(t)].version)

\* Nothing is on its way for o, and nothing will be again.
Quiet(o) ==
    /\ wire[o] = 0 /\ rec[o].state # "none"
    /\ \A t \in Submitters : pc[t] \in SendPCs /\ Ord(t) = o => Late(t)

Dead(o) == Quiet(o) /\ ~AtBroker(o)

Heard(e) ==
    \/ e.state \in WorkingStates /\ AtBroker(e.ord)
    \/ /\ e.state \in {"filled", "canceled"}
       /\ broker[e.ord].status = e.state /\ e.cum = broker[e.ord].fill
    \/ e.state = "expired" /\ e.cum = 0 /\ (Timely => Dead(e.ord))

NewsInv ==
    /\ Timely => \A o \in aged : Quiet(o)
    /\ Timely => \A r \in Reconcilers : \A s \in snap[r].old :
                     s[1] \notin snap[r].shown => Dead(s[1])
    /\ \A i \in 1..Len(stream) : Heard(stream[i])
    /\ \A w \in Workers :
         /\ \A e \in job[w].todo : Heard(e)
         /\ pc[w] \in ApplyPCs => Heard(job[w].ev)

LEMMA NewsInit == Init => NewsInv
<1> SUFFICES ASSUME Init PROVE NewsInv
  OBVIOUS
<1>1. aged = {} /\ \A r \in Reconcilers : snap[r].old = {}
  BY DEF Init, NoSnap
<1>2. Len(stream) = 0
  BY DEF Init
<1>3. \A w \in Workers : pc[w] = "idle" /\ job[w].todo = {}
  BY DEF Init, NoJob
<1> QED
  BY <1>1, <1>2, <1>3 DEF NewsInv, ApplyPCs

LEMMA AtBrokerStays ==
    ASSUME Base, [Next]_vars, NEW o \in Ords
    PROVE  /\ AtBroker(o) => AtBroker(o)'
           /\ broker[o].status \in {"filled", "canceled"} => broker'[o] = broker[o]
           /\ ~AtBroker(o) /\ wire[o] = 0 => ~AtBroker(o)'
BY WorldMoves DEF AtBroker, Posted

\* An id of a submitting event is no later than its row's version.
MarksInv ==
    \A o \in Ords : \A n \in Nat : <<"submitting", n>> \in rec[o].ids => n <= rec[o].version

LEMMA MarksInit == Init => MarksInv
BY DEF Init, MarksInv, NoRecord

\* A submission goes no further than a closed row.
LEMMA LateStays ==
    ASSUME Base, MarksInv, [Next]_vars, NEW t \in Submitters, Submit(t),
           rec[Ord(t)].state # "none", pc'[t] \in SendPCs,
           pc[t] = "gate" \/ Late(t)
    PROVE  Late(t)' /\ Ord(t)' = Ord(t) /\ rec' = rec
<1>1. /\ t \in Workers /\ Ord(t) \in Ords /\ rec[Ord(t)] \in Records
      /\ pc \in [Workers -> PCs] /\ job \in [Workers -> Jobs]
  BY WorkerType DEF Base, Workers
<1>2. /\ LiveStates \cap TerminalStates = {} /\ "none" \notin TerminalStates
      /\ States = LiveStates \cup TerminalStates
  BY DEF States, LiveStates, EarlyStates, WorkingStates, TerminalStates
<1>3. ~Done(t)
  BY <1>1 DEF Done, Goto, SendPCs
<1>4. CASE pc[t] = "gate"
  <2>1. Gate(t)
    BY <1>4 DEF Submit, Identify, Lookup, Create, Mark, Post, WaitAccepted, WaitRefused,
       WaitLost, WaitGatewayError, Recover, Settle, Conclude
  <2>2. ~Open(Ord(t)) /\ pc'[t] = "create" /\ job' = job /\ rec' = rec
    BY <1>1, <1>3, <2>1 DEF Gate, Goto, durable
  <2>3. rec[Ord(t)].state \in TerminalStates
    BY <1>1, <1>2, <2>2 DEF Open, Records
  <2> QED
    BY <2>2, <2>3 DEF Late, Ord
<1>5. CASE pc[t] = "create" /\ Late(t)
  <2>1. Create(t)
    BY <1>5 DEF Submit, Identify, Lookup, Gate, Mark, Post, WaitAccepted, WaitRefused,
       WaitLost, WaitGatewayError, Recover, Settle, Conclude
  <2>2. /\ job' = [job EXCEPT ![t].ver = rec[Ord(t)].version, ![t].from = rec[Ord(t)].cum]
        /\ rec' = rec /\ pc'[t] = "mark"
    BY <1>1, <2>1 DEF Create, Goto
  <2>3. job'[t].ver = rec[Ord(t)].version /\ job'[t].ev = job[t].ev
    BY <1>1, <2>2 DEF Jobs
  <2> QED
    BY <1>5, <2>2, <2>3 DEF Late, Ord
<1>6. CASE pc[t] = "mark" /\ Late(t)
  <2>1. Mark(t)
    BY <1>6 DEF Submit, Identify, Lookup, Gate, Create, Post, WaitAccepted, WaitRefused,
       WaitLost, WaitGatewayError, Recover, Settle, Conclude
  <2>2. job[t].ver = rec[Ord(t)].version /\ job[t].ver \in Nat
    BY <1>1, <1>6, WorkerType DEF Late, Base
  <2>3. ~Seen(rec[Ord(t)], <<"submitting", job[t].ver + 1>>)
    BY <1>1, <2>2 DEF MarksInv, Seen
  <2>4. "submitting" \notin Follows(rec[Ord(t)].state)
    BY <1>2, <1>6, FollowsLive DEF Late
  <2> QED
    BY <1>3, <2>1, <2>3, <2>4 DEF Mark, Appendable
<1> QED
  BY <1>4, <1>5, <1>6 DEF Late

LEMMA QuietStays ==
    ASSUME Base, MarksInv, [Next]_vars, NEW o \in Ords, Quiet(o)
    PROVE  Quiet(o)'
<1>1. Base' /\ RowsGrowing
  BY BaseStep
<1>2. wire'[o] = 0
  <2>1. ~Posted(o)
    BY DEF Posted, Quiet, Late, SendPCs
  <2> QED
    BY <2>1, WorldMoves DEF Quiet
<1>3. rec'[o].state # "none"
  BY <1>1, RowsStay DEF Quiet
<1>4. ASSUME NEW t \in Submitters, pc'[t] \in SendPCs, Ord(t)' = o
      PROVE  Late(t)'
  <2>1. pc[t] \in SendPCs /\ Ord(t) = o => Late(t)
    BY DEF Quiet
  <2>2. CASE Submit(t)
    <3>1. SubmitGoesOn(t)
      BY <1>4, <2>2, SubmitMoves
         DEF SubmitEnds, Idles, SubmitApplies, SubmitStarts, SendPCs, Late
    <3>2. Ord(t) = o /\ (pc[t] = "gate" \/ pc[t] \in SendPCs)
      BY <1>4, <3>1 DEF SubmitGoesOn, Moves, SendPCs
    <3> QED
      BY <1>4, <2>1, <2>2, <3>2, LateStays DEF Quiet
  <2>3. CASE Same(t)
    <3>1. Late(t) /\ Ord(t) = o /\ pc'[t] = pc[t] /\ job'[t] = job[t]
      BY <1>4, <2>1, <2>3 DEF Same, Ord
    <3>2. rec'[o] = rec[o]
      BY <1>1, <3>1, ClosedRowsStay DEF Late
    <3> QED
      BY <3>1, <3>2 DEF Late, Ord
  <2>4. ASSUME NEW s \in Submitters, Submit(s), s # t
        PROVE  Same(t)
    BY <2>4, WorkersAreLocal DEF Local, Same, Workers, Base, TypeInv
  <2>5. CASE ~Submitting
    BY <1>4, <2>3, <2>5, AwayFromSubmit DEF Idles, Applies, SendPCs, ApplyPCs
  <2> QED
    BY <2>2, <2>3, <2>4, <2>5 DEF Submitting
<1> QED
  BY <1>2, <1>3, <1>4 DEF Quiet

LEMMA DeadStays ==
    ASSUME Base, MarksInv, [Next]_vars, NEW o \in Ords, Dead(o)
    PROVE  Dead(o)'
BY QuietStays, AtBrokerStays DEF Dead, Quiet

LEMMA HeardStays ==
    ASSUME Base, MarksInv, [Next]_vars, NEW e \in Events, Heard(e)
    PROVE  Heard(e)'
<1>1. PICK o \in Ords : o = e.ord
  BY DEF Events
<1>2. CASE e.state \in WorkingStates /\ AtBroker(e.ord)
  BY <1>1, <1>2, AtBrokerStays DEF Heard, AtBroker
<1>3. CASE /\ e.state \in {"filled", "canceled"}
           /\ broker[e.ord].status = e.state /\ e.cum = broker[e.ord].fill
  BY <1>1, <1>3, AtBrokerStays DEF Heard
<1>4. CASE e.state = "expired" /\ e.cum = 0 /\ (Timely => Dead(e.ord))
  <2>1. ASSUME Timely PROVE Dead(o)'
    BY <1>1, <1>4, <2>1, DeadStays
  <2>2. Dead(o)' => Dead(e.ord)'
    BY <1>1 DEF Dead, Quiet, AtBroker
  <2> QED
    BY <1>4, <2>1, <2>2 DEF Heard, Timely
<1> QED
  BY <1>2, <1>3, <1>4 DEF Heard

\* What the broker shows of an order says what it is.
LEMMA StateReads ==
    ASSUME NEW b, b.status \in BrokerStates \ {"absent"}
    PROVE  \/ StateOf(b) \in WorkingStates
           \/ StateOf(b) \in {"filled", "canceled"} /\ b.status = StateOf(b)
<1>1. b.status \in {"working", "canceling", "filled", "canceled"}
  BY DEF BrokerStates
<1>2. CASE b.status = "working"
  BY <1>2, Zenon DEF StateOf, WorkingStates
<1>3. CASE b.status = "canceling"
  BY <1>3, Zenon DEF StateOf, WorkingStates
<1>4. CASE b.status = "filled"
  BY <1>4, Zenon DEF StateOf
<1>5. CASE b.status = "canceled"
  BY <1>5, Zenon DEF StateOf
<1> QED
  BY <1>1, <1>2, <1>3, <1>4, <1>5

LEMMA ReferenceHeard ==
    ASSUME Base, NEW o \in Ords, AtBroker(o)
    PROVE  Reference(o) \in Events /\ Heard(Reference(o))
<1>1. /\ Reference(o) \in Events /\ Reference(o).ord = o
      /\ Reference(o).cum = broker[o].fill
  BY ReferenceType DEF Base, TypeInv
<1>2. broker[o].status \in BrokerStates \ {"absent"}
  BY DEF Base, TypeInv, TypeOK, AtBroker
<1>3. Reference(o).state = StateOf(broker[o])
  BY DEF Reference, Event
<1> QED
  BY <1>1, <1>2, <1>3, StateReads DEF Heard

\* A trade update says what its order has become.
LEMMA UpdateHeard ==
    ASSUME NEW o \in Ords, NEW b, b.status \in BrokerStates \ {"absent"},
           broker'[o] = b, NEW e, e = Event(o, StateOf(b), b.fill)
    PROVE  Heard(e)'
<1>1. e.ord = o /\ e.state = StateOf(b) /\ e.cum = b.fill
  BY DEF Event
<1> QED
  BY <1>1, StateReads DEF Heard, AtBroker

\* Only time makes a row old.
LEMMA AgedBy ==
    ASSUME [Next]_vars, FreshDecision
    PROVE  \/ aged' \subseteq aged
           \/ \E o \in Ords : Age(o)
BY DEF Next, Submit, Identify, Lookup, Gate, Create, Mark, Post, WaitAccepted, WaitRefused,
       WaitLost, WaitGatewayError, Recover, Settle, Conclude, ApplyEvent, ReadRow,
       AppendEvent, BookFill, HandlerRaises, FinishEvent, NextUpdate, Reconcile, Capture,
       CaptureUnusable, SweepOrder, ListRows, RetireRow, CountLineage, Publish,
       Environment, Land, WireLoses, Execute, RequestCancel, CloseOrder, BrokerMoves,
       Crash, Write, durable, vars

LEMMA AgedQuiet ==
    ASSUME Timely, Base, MarksInv, NewsInv, [Next]_vars, NEW o \in aged'
    PROVE  Quiet(o)'
<1>1. o \in Ords
  BY BaseStep DEF Base, TypeInv, TypeOK
<1>2. CASE o \in aged
  BY <1>1, <1>2, QuietStays DEF NewsInv
<1>3. CASE o \notin aged
  <2>1. PICK p \in Ords : Age(p)
    BY <1>3, AgedBy DEF Timely
  <2>2. Age(o)
    BY <1>3, <2>1 DEF Age
  <2>3. Quiet(o)
    BY <2>2 DEF Age, Timely, Quiet, EarlyStates
  <2> QED
    BY <1>1, <2>3, QuietStays
<1> QED
  BY <1>2, <1>3

\* What a snapshot remembers of the old rows.
LEMMA SnapBy ==
    ASSUME Base, [Next]_vars, NEW r \in Reconcilers
    PROVE  \/ snap'[r] = snap[r]
           \/ snap'[r].old = {}
           \/ snap'[r].shown = Shown /\ snap'[r].old = {<<o, rec[o].version>> : o \in aged}
<1>1. snap \in [Reconcilers -> Snaps]
  BY DEF Base, TypeInv, TypeOK
<1>2. \/ snap' = snap
      \/ \E s \in Reconcilers : Capture(s) \/ ListRows(s) \/ Publish(s) \/ HandlerRaises(s)
      \/ Crash
  BY DEF Next, Submit, Identify, Lookup, Gate, Create, Mark, Post, WaitAccepted,
       WaitRefused, WaitLost, WaitGatewayError, Recover, Settle, Conclude, ApplyEvent,
       ReadRow, AppendEvent, BookFill, HandlerRaises, FinishEvent, NextUpdate, Reconcile,
       CaptureUnusable, SweepOrder, RetireRow, CountLineage, Environment, Land, WireLoses,
       Execute, RequestCancel, CloseOrder, BrokerMoves, Age, vars
<1>3. CASE \E s \in Reconcilers : Capture(s)
  <2>1. PICK s \in Reconcilers : Capture(s)
    BY <1>3
  <2> QED
    BY <1>1, <2>1 DEF Capture
<1>4. CASE \E s \in Reconcilers : ListRows(s)
  <2>1. PICK s \in Reconcilers : ListRows(s)
    BY <1>4
  <2>2. snap' = [snap EXCEPT ![s].shown = {}, ![s].old = {}]
    BY <2>1 DEF ListRows
  <2> QED
    BY <1>1, <2>2 DEF Snaps
<1>5. CASE \E s \in Reconcilers : Publish(s) \/ HandlerRaises(s)
  <2>1. PICK s \in Reconcilers : snap' = [snap EXCEPT ![s] = NoSnap]
    BY <1>5 DEF Publish, HandlerRaises
  <2> QED
    BY <1>1, <2>1 DEF NoSnap
<1>6. CASE Crash
  BY <1>6 DEF Crash, NoSnap
<1> QED
  BY <1>2, <1>3, <1>4, <1>5, <1>6

LEMMA SnapDead ==
    ASSUME Timely, Base, MarksInv, NewsInv, [Next]_vars, NEW r \in Reconcilers,
           NEW s \in snap'[r].old, s[1] \notin snap'[r].shown
    PROVE  Dead(s[1])'
<1>1. PICK o \in Ords : o = s[1]
  BY BaseStep DEF Base, TypeInv, TypeOK, Snaps
<1>2. Dead(o)
  <2>1. CASE snap'[r] = snap[r]
    BY <1>1, <2>1 DEF NewsInv
  <2>2. CASE snap'[r].shown = Shown /\ snap'[r].old = {<<p, rec[p].version>> : p \in aged}
    BY <1>1, <2>2 DEF NewsInv, Dead, Shown
  <2> QED
    BY <2>1, <2>2, SnapBy
<1>3. Dead(o)'
  BY <1>2, DeadStays
<1> QED
  BY <1>1, <1>3 DEF Dead, Quiet, AtBroker

\* What joins the stream.
LEMMA StreamHeard ==
    ASSUME Base, MarksInv, NewsInv, [Next]_vars, NEW i \in 1..Len(stream')
    PROVE  Heard(stream[i])'
<1>1. stream \in Seq(Events) /\ stream' \in Seq(Events)
  BY BaseStep DEF Base, TypeInv, TypeOK
<1>2. \A e \in Events : Heard(e) => Heard(e)'
  BY HeardStays
<1>3. CASE stream' = stream
  <2>1. PICK e \in Events : e = stream[i] /\ Heard(e)
    BY <1>1, <1>3 DEF NewsInv
  <2>2. Heard(e)'
    BY <1>2, <2>1
  <2> QED
    BY <1>3, <2>1, <2>2
<1>4. CASE NextUpdate
  <2>1. stream # <<>> /\ stream' = Tail(stream)
    BY <1>4 DEF NextUpdate
  <2>2. i + 1 \in 1..Len(stream) /\ stream'[i] = stream[i + 1]
    BY <1>1, <2>1
  <2>3. Heard(stream[i + 1]) /\ stream[i + 1] \in Events
    BY <1>1, <2>2 DEF NewsInv
  <2>4. PICK e \in Events : e = stream[i + 1]
    BY <2>3
  <2> QED
    BY <1>2, <2>2, <2>3, <2>4
<1>5. CASE Crash
  BY <1>5 DEF Crash
<1>6. ASSUME NEW o \in Ords, NEW b, b.status \in BrokerStates \ {"absent"}, BrokerMoves(o, b)
      PROVE  Heard(stream[i])'
  <2>1. CASE stream' = stream
    BY <1>3, <2>1
  <2>2. CASE stream' = Append(stream, Event(o, StateOf(b), b.fill))
    <3>1. CASE i <= Len(stream)
      <4>1. stream'[i] = stream[i] /\ stream[i] \in Events /\ Heard(stream[i])
        BY <1>1, <2>2, <3>1 DEF NewsInv
      <4>2. PICK e \in Events : e = stream[i]
        BY <4>1
      <4> QED
        BY <1>2, <4>1, <4>2
    <3>2. CASE i > Len(stream)
      <4>1. stream'[i] = Event(o, StateOf(b), b.fill)
        BY <1>1, <2>2, <3>2
      <4>2. PICK e : e = Event(o, StateOf(b), b.fill)
        OBVIOUS
      <4>3. broker \in [Ords -> [status: BrokerStates, fill: 0..Qty]]
        BY DEF Base, TypeInv, TypeOK
      <4>4. broker'[o] = b
        BY <1>6, <4>3 DEF BrokerMoves
      <4>5. Heard(e)'
        BY <1>6, <4>2, <4>4, UpdateHeard
      <4> QED
        BY <4>1, <4>2, <4>5
    <3> QED
      BY <1>1, <3>1, <3>2
  <2> QED
    BY <1>6, <2>1, <2>2 DEF BrokerMoves
<1>7. CASE \E o \in Ords : Land(o) \/ Execute(o) \/ RequestCancel(o) \/ CloseOrder(o)
  <2>0. broker \in [Ords -> [status: BrokerStates, fill: 0..Qty]]
    BY DEF Base, TypeInv, TypeOK
  <2>1. PICK o \in Ords : Land(o) \/ Execute(o) \/ RequestCancel(o) \/ CloseOrder(o)
    BY <1>7
  <2>2. CASE Land(o)
    <3> DEFINE b == [status |-> "working", fill |-> 0]
    <3>1. stream' = stream \/ BrokerMoves(o, b)
      BY <2>2 DEF Land
    <3>2. b.status \in BrokerStates \ {"absent"}
      BY DEF BrokerStates
    <3> QED
      BY <1>3, <1>6, <3>1, <3>2
  <2>3. CASE Execute(o)
    <3> DEFINE b == [status |-> IF broker[o].fill + 1 = Qty THEN "filled"
                                ELSE broker[o].status,
                     fill |-> broker[o].fill + 1]
    <3>1. BrokerMoves(o, b) /\ broker[o].status \in {"working", "canceling"}
      BY <2>3 DEF Execute
    <3>2. b.status \in BrokerStates \ {"absent"}
      BY <3>1 DEF BrokerStates
    <3> QED
      BY <1>6, <3>1, <3>2
  <2>4. CASE RequestCancel(o)
    <3> DEFINE b == [broker[o] EXCEPT !.status = "canceling"]
    <3>1. BrokerMoves(o, b)
      BY <2>4 DEF RequestCancel
    <3>2. b.status \in BrokerStates \ {"absent"}
      BY <2>0 DEF BrokerStates
    <3> QED
      BY <1>6, <3>1, <3>2
  <2>5. CASE CloseOrder(o)
    <3> DEFINE b == [broker[o] EXCEPT !.status = "canceled"]
    <3>1. BrokerMoves(o, b)
      BY <2>5 DEF CloseOrder
    <3>2. b.status \in BrokerStates \ {"absent"}
      BY <2>0 DEF BrokerStates
    <3> QED
      BY <1>6, <3>1, <3>2
  <2> QED
    BY <2>1, <2>2, <2>3, <2>4, <2>5
<1>8. \/ stream' = stream \/ NextUpdate \/ Crash
      \/ \E o \in Ords : Land(o) \/ Execute(o) \/ RequestCancel(o) \/ CloseOrder(o)
  BY DEF Next, Submit, Identify, Lookup, Gate, Create, Mark, Post, WaitAccepted,
       WaitRefused, WaitLost, WaitGatewayError, Recover, Settle, Conclude, ApplyEvent,
       ReadRow, AppendEvent, BookFill, HandlerRaises, FinishEvent, Reconcile, Capture,
       CaptureUnusable, SweepOrder, ListRows, RetireRow, CountLineage, Publish,
       Environment, WireLoses, Age, outside, vars
<1> QED
  BY <1>3, <1>4, <1>5, <1>7, <1>8

\* What a worker has in its list and in its hands.
LEMMA RetiredHeard ==
    ASSUME Base, NewsInv, NEW r \in Reconcilers, ListRows(r),
           NEW e \in job'[r].todo
    PROVE  e \in Events /\ Heard(e)
<1>1. job \in [Workers -> Jobs] /\ r \in Workers
  BY DEF Base, TypeInv, TypeOK, Workers
<1> DEFINE missing == {o \in Ords : Open(o)} \ snap[r].shown
           retire  == {o \in missing : Abandonable(rec[o]) /\ WasOld(r, o)}
<1>2. job' = [job EXCEPT ![r].todo = {Event(o, "expired", 0) : o \in retire},
                         ![r].phase = "retire",
                         ![r].issue = missing # retire,
                         ![r].lineage = Lineage]
  BY DEF ListRows
<1>3. job'[r].todo = {Event(o, "expired", 0) : o \in retire}
  <2> HIDE DEF retire, missing
  <2> QED
    BY <1>1, <1>2 DEF Jobs
<1>4. PICK o \in retire : e = Event(o, "expired", 0)
  BY <1>3
<1>5. o \in Ords /\ o \notin snap[r].shown /\ WasOld(r, o)
  BY <1>4
<1>6. ASSUME Timely PROVE Dead(o)
  BY <1>5, <1>6 DEF NewsInv, WasOld, Timely
<1>7. e \in Events /\ e.ord = o /\ e.state = "expired" /\ e.cum = 0
  <2>1. "expired" \in States /\ 0 \in 0..Qty
    BY QtyAssumption DEF States, TerminalStates
  <2> HIDE DEF retire
  <2> QED
    BY <1>4, <1>5, <2>1, EventType
<1>8. Timely => Dead(e.ord)
  <2>1. Timely => Dead(o)
    BY <1>6
  <2>2. e.ord = o
    BY <1>7
  <2> HIDE DEF retire
  <2> QED
    BY <2>1, <2>2
<1> QED
  BY <1>7, <1>8 DEF Heard


LEMMA WorkerHears ==
    ASSUME Base, NewsInv, [Next]_vars, NEW w \in Workers
    PROVE  /\ \A e \in job'[w].todo : e \in Events /\ Heard(e)
           /\ pc'[w] \in ApplyPCs => job'[w].ev \in Events /\ Heard(job'[w].ev)
<1> DEFINE Goal == /\ \A e \in job'[w].todo : e \in Events /\ Heard(e)
                   /\ pc'[w] \in ApplyPCs => job'[w].ev \in Events /\ Heard(job'[w].ev)
<1>1. /\ job \in [Workers -> Jobs] /\ pc \in [Workers -> PCs] /\ job[w] \in Jobs
      /\ job[w].todo \subseteq Events /\ job[w].ev \in Events
      /\ \A e \in job[w].todo : Heard(e)
      /\ pc[w] \in ApplyPCs => Heard(job[w].ev)
  BY WorkerType DEF Base, TypeInv, TypeOK, NewsInv, Jobs
<1>2. Same(w) => Goal
  BY <1>1 DEF Same
<1>3. Idles(w) => Goal
  BY DEF Idles, NoJob, ApplyPCs
<1>4. ASSUME NEW v \in Workers, v # w,
             \/ v \in Submitters /\ Submit(v)
             \/ ApplyEvent(v)
             \/ v \in Reconcilers /\ Reconcile(v)
             \/ v = StreamWorker /\ NextUpdate
      PROVE  Goal
  BY <1>2, <1>4, WorkersAreLocal DEF Local, Same, Base, TypeInv
<1>5. CASE w \in Submitters /\ Submit(w)
  <2>1. job'[w].todo = job[w].todo \/ Idles(w)
    <3>1. /\ \A e : Apply(w, e) => job'[w].todo = job[w].todo
          /\ Done(w) => Idles(w)
      BY <1>1, ControlLocal DEF Apply, Idles, Jobs, Base, TypeInv
    <3>2. CASE Identify(w)
      <4>1. PICK o : job' = [job EXCEPT ![w].ev = Event(o, "intent", 0)]
        BY <3>2 DEF Identify
      <4> QED
        BY <1>1, <4>1 DEF Jobs
    <3>3. CASE Lookup(w) \/ Gate(w) \/ WaitAccepted(w) \/ WaitLost(w) \/ Recover(w)
      BY <3>1, <3>3 DEF Lookup, Gate, WaitAccepted, WaitLost, Recover
    <3>4. CASE Mark(w) \/ Conclude(w)
      BY <3>1, <3>4 DEF Mark, Conclude
    <3>5. CASE Create(w)
      <4>1. \/ job' = job
            \/ job' = [job EXCEPT ![w].ver = rec[Ord(w)].version,
                                  ![w].from = rec[Ord(w)].cum]
        BY <3>5 DEF Create
      <4> QED
        BY <1>1, <4>1 DEF Jobs
    <3>6. CASE Post(w) \/ WaitRefused(w) \/ WaitGatewayError(w)
      <4>1. \/ job' = job \/ job' = [job EXCEPT ![w].refused = TRUE]
            \/ Apply(w, Reference(Ord(w)))
        BY <3>6 DEF Post, WaitRefused, WaitGatewayError
      <4> QED
        BY <1>1, <3>1, <4>1 DEF Jobs
    <3>7. CASE Settle(w)
      BY <1>1, <3>7 DEF Settle, Jobs
    <3> QED
      BY <1>5, <3>2, <3>3, <3>4, <3>5, <3>6, <3>7 DEF Submit
  <2>2. ASSUME pc'[w] \in ApplyPCs
        PROVE  job'[w].ev \in Events /\ Heard(job'[w].ev)
    <3>1. SubmitApplies(w)
      BY <1>5, <2>2, SubmitMoves
         DEF SubmitEnds, Idles, SubmitStarts, SubmitGoesOn, Moves, ApplyPCs
    <3>2. Ord(w) \in Ords
      BY WorkerType DEF Base
    <3> QED
      BY <3>1, <3>2, ReferenceHeard DEF SubmitApplies
  <2> QED
    BY <1>1, <1>3, <2>1, <2>2
<1>6. CASE ApplyEvent(w)
  <2>1. Finish(w) => Goal
    <3>1. CASE w \in Reconcilers
      <4>1. ASSUME Finish(w)
            PROVE  job'[w].todo = job[w].todo /\ pc'[w] \in Phases
        BY <1>1, <3>1, <4>1 DEF Finish, Jobs
      <4> QED
        BY <1>1, <4>1 DEF Phases, ApplyPCs
    <3>2. CASE w \notin Reconcilers
      BY <1>1, <1>3, <3>2 DEF Finish, Idles
    <3> QED
      BY <3>1, <3>2
  <2>2. CASE ReadRow(w) /\ ~Finish(w)
    <3>1. /\ pc[w] \in ApplyPCs
          /\ job' = [job EXCEPT ![w].ver = rec[job[w].ev.ord].version,
                                ![w].from = rec[job[w].ev.ord].cum]
      BY <2>2 DEF ReadRow, ApplyPCs
    <3>2. job'[w].ev = job[w].ev /\ job'[w].todo = job[w].todo
      BY <1>1, <3>1 DEF Jobs
    <3> QED
      BY <1>1, <3>1, <3>2
  <2>3. CASE (AppendEvent(w) \/ BookFill(w)) /\ ~Finish(w)
    <3>1. job' = job /\ pc[w] \in ApplyPCs
      BY <2>3 DEF AppendEvent, Declined, BookFill, ApplyPCs
    <3> QED
      BY <1>1, <3>1
  <2>4. CASE HandlerRaises(w) \/ FinishEvent(w)
    <3>1. Done(w) => Idles(w)
      BY ControlLocal DEF Idles, Base, TypeInv
    <3> QED
      BY <1>3, <2>1, <2>4, <3>1 DEF HandlerRaises, FinishEvent
  <2> QED
    BY <1>6, <2>1, <2>2, <2>3, <2>4 DEF ApplyEvent
<1>7. CASE w = StreamWorker /\ NextUpdate
  <2>1. /\ stream # <<>> /\ stream \in Seq(Events)
        /\ job' = [job EXCEPT ![w].ev = Head(stream)]
    BY <1>7 DEF NextUpdate, Apply, Base, TypeInv, TypeOK
  <2>2. Head(stream) \in Events /\ Heard(Head(stream))
    <3>1. 1 \in 1..Len(stream) /\ Head(stream) = stream[1] /\ stream[1] \in Events
      BY <2>1
    <3> QED
      BY <3>1 DEF NewsInv
  <2>3. job'[w].ev = Head(stream) /\ job'[w].todo = job[w].todo
    BY <1>1, <2>1 DEF Jobs
  <2> QED
    BY <1>1, <2>2, <2>3
<1>8. CASE w \in Reconcilers /\ Reconcile(w)
  <2>1. CASE Capture(w)
    <3>1. /\ job' = [job EXCEPT ![w].todo = {Reference(o) : o \in Shown},
                                ![w].phase = "sweep"]
          /\ pc'[w] = "sweep"
      BY <1>1, <2>1 DEF Capture, Goto
    <3>2. job'[w].todo = {Reference(o) : o \in Shown}
      BY <1>1, <3>1 DEF Jobs
    <3>3. \A o \in Shown : Reference(o) \in Events /\ Heard(Reference(o))
      BY ReferenceHeard DEF Shown
    <3> QED
      BY <3>1, <3>2, <3>3 DEF ApplyPCs
  <2>2. CASE CaptureUnusable(w)
    BY <1>2, <2>2 DEF CaptureUnusable, Same
  <2>3. CASE SweepOrder(w) \/ RetireRow(w)
    <3>1. PICK e \in job[w].todo : job' = [job EXCEPT ![w].todo = @ \ {e}, ![w].ev = e]
      BY <2>3 DEF SweepOrder, RetireRow
    <3>2. job'[w].todo = job[w].todo \ {e} /\ job'[w].ev = e
      BY <1>1, <3>1 DEF Jobs
    <3> QED
      BY <1>1, <3>2
  <2>4. CASE ListRows(w)
    <3>1. pc'[w] \in {"publish", "retire"}
      BY <1>1, <2>4 DEF ListRows, Goto
    <3> QED
      BY <1>8, <2>4, <3>1, RetiredHeard DEF ApplyPCs
  <2>5. CASE CountLineage(w)
    <3>1. job' = [job EXCEPT ![w].lineage = Lineage] /\ pc'[w] = "publish"
      BY <1>1, <2>5 DEF CountLineage, Goto
    <3>2. job'[w].todo = job[w].todo
      BY <1>1, <3>1 DEF Jobs
    <3> QED
      BY <1>1, <3>1, <3>2 DEF ApplyPCs
  <2>6. CASE Publish(w)
    BY <1>3, <2>6, ControlLocal DEF Publish, Idles, Base, TypeInv
  <2> QED
    BY <1>8, <2>1, <2>2, <2>3, <2>4, <2>5, <2>6 DEF Reconcile
<1>9. CASE Environment \/ UNCHANGED vars
  <2>1. Same(w) \/ Idles(w)
    BY <1>9 DEF Environment, Land, WireLoses, Execute, RequestCancel, CloseOrder,
       BrokerMoves, Age, Crash, vars, Same, Idles
  <2> QED
    BY <1>2, <1>3, <2>1
<1> QED
  BY <1>4, <1>5, <1>6, <1>7, <1>8, <1>9 DEF Next, Workers

LEMMA NewsStep ==
    ASSUME Base, MarksInv, NewsInv, [Next]_vars
    PROVE  NewsInv'
<1>1. ASSUME NEW w \in Workers, NEW e \in job'[w].todo
      PROVE  Heard(e)'
  BY WorkerHears, HeardStays
<1>2. ASSUME NEW w \in Workers, pc'[w] \in ApplyPCs
      PROVE  Heard(job[w].ev)'
  <2>1. PICK e \in Events : e = job'[w].ev /\ Heard(e)
    BY <1>2, WorkerHears
  <2>2. Heard(e)'
    BY <2>1, HeardStays
  <2> QED
    BY <2>1, <2>2
<1>3. ASSUME Timely PROVE \A o \in aged' : Quiet(o)'
  BY <1>3, AgedQuiet
<1>4. ASSUME Timely
      PROVE  \A r \in Reconcilers : \A s \in snap'[r].old :
                s[1] \notin snap'[r].shown => Dead(s[1])'
  BY <1>4, SnapDead
<1>5. \A i \in 1..Len(stream') : Heard(stream[i])'
  BY StreamHeard
<1> QED
  BY <1>1, <1>2, <1>3, <1>4, <1>5 DEF NewsInv, Timely

LEMMA MarksStep ==
    ASSUME Base, NewsInv, MarksInv, [Next]_vars
    PROVE  MarksInv'
<1> SUFFICES ASSUME NEW o \in Ords, NEW n \in Nat, <<"submitting", n>> \in rec'[o].ids
             PROVE  n <= rec'[o].version
  BY DEF MarksInv
<1>1. /\ rec \in [Ords -> Records] /\ rec[o].version \in Nat
      /\ \A w \in Workers : Ord(w) \in Ords
      /\ \A t \in Submitters : t \in Workers
  BY WorkerType DEF Base, TypeInv, TypeOK, Workers, Records
<1>2. CASE rec'[o] = rec[o]
  BY <1>2 DEF MarksInv
<1>3. ASSUME NEW id, NEW state, NEW cum, NEW bid, rec'[o] = Appended(rec[o], id, state, cum, bid),
             id = <<"submitting", n>> => n <= rec[o].version + 1
      PROVE  n <= rec'[o].version
  <2>1. rec'[o].version = rec[o].version + 1 /\ rec'[o].ids = rec[o].ids \cup {id}
    BY <1>3 DEF Appended
  <2>2. CASE <<"submitting", n>> \in rec[o].ids
    BY <1>1, <2>1, <2>2 DEF MarksInv
  <2>3. CASE <<"submitting", n>> = id
    BY <1>3, <2>1, <2>3
  <2> QED
    BY <2>1, <2>2, <2>3
<1>4. CASE rec'[o] # rec[o]
  <2>1. rec' # rec
    BY <1>4
  <2>2. ASSUME NEW t \in Submitters, Create(t)
        PROVE  n <= rec'[o].version
    <3>1. rec' = [rec EXCEPT ![Ord(t)] = IntentRecord]
      BY <2>1, <2>2, Written
    <3>2. rec'[o].ids = {}
      BY <1>1, <1>4, <3>1 DEF IntentRecord, NoRecord
    <3> QED
      BY <3>2
  <2>3. ASSUME NEW t \in Submitters, Mark(t)
        PROVE  n <= rec'[o].version
    <3>1. /\ Appendable(rec[Ord(t)], <<"submitting", job[t].ver + 1>>, job[t].ver,
                        "submitting")
          /\ rec' = [rec EXCEPT ![Ord(t)] =
                       Appended(rec[Ord(t)], <<"submitting", job[t].ver + 1>>,
                                "submitting", rec[Ord(t)].cum, FALSE)]
      BY <2>1, <2>3, Written
    <3>2. /\ o = Ord(t) /\ job[t].ver = rec[o].version
          /\ rec'[o] = Appended(rec[o], <<"submitting", job[t].ver + 1>>, "submitting",
                                rec[o].cum, FALSE)
      BY <1>1, <1>4, <3>1 DEF Appendable
    <3>3. rec[o].version + 1 \in Nat /\ n = job[t].ver + 1 => n <= rec[o].version + 1
      BY <1>1, <3>2
    <3>4. <<"submitting", job[t].ver + 1>> = <<"submitting", n>> => n = job[t].ver + 1
      OBVIOUS
    <3>5. <<"submitting", job[t].ver + 1>> = <<"submitting", n>> => n <= rec[o].version + 1
      BY <1>1, <3>3, <3>4
    <3> QED
      BY <1>3, <3>2, <3>5
  <2>4. ASSUME NEW t \in Submitters, Conclude(t)
        PROVE  n <= rec'[o].version
    <3> DEFINE state == IF job[t].refused THEN "rejected" ELSE "unknown"
    <3>1. rec' = [rec EXCEPT ![Ord(t)] =
                    Appended(rec[Ord(t)], <<state, job[t].ver + 1>>, state,
                             rec[Ord(t)].cum, FALSE)]
      BY <2>1, <2>4, Concluded
    <3>2. rec'[o] = Appended(rec[o], <<state, job[t].ver + 1>>, state, rec[o].cum, FALSE)
      BY <1>1, <1>4, <3>1
    <3>3. state # "submitting"
      OBVIOUS
    <3> QED
      BY <1>3, <3>2, <3>3
  <2>5. ASSUME NEW w \in Workers, AppendEvent(w)
        PROVE  n <= rec'[o].version
    <3>1. rec' = [rec EXCEPT ![Ord(w)] =
                    Appended(rec[Ord(w)], <<job[w].ev.state, job[w].ev.cum>>,
                             job[w].ev.state, job[w].ev.cum, ~IsStub(job[w].ev))]
      BY <2>1, <2>5, Written
    <3>2. rec'[o] = Appended(rec[o], <<job[w].ev.state, job[w].ev.cum>>,
                             job[w].ev.state, job[w].ev.cum, ~IsStub(job[w].ev))
      BY <1>1, <1>4, <3>1
    <3>3. Heard(job[w].ev)
      BY <2>5 DEF AppendEvent, NewsInv, ApplyPCs
    <3>4. job[w].ev.state # "submitting"
      BY <3>3 DEF Heard, WorkingStates
    <3> QED
      BY <1>3, <3>2, <3>4
  <2> QED
    BY <2>1, <2>2, <2>3, <2>4, <2>5, WhoWrites
<1> QED
  BY <1>2, <1>4

-----------------------------------------------------------------------------
(***************************************************************************)
(* While a submission has sent nothing, or knows that nothing will come of  *)
(* it, its row is its own: but for a reconciler that retires it, nobody     *)
(* closes it, or moves it at all, meanwhile.                                *)
(***************************************************************************)
Retired(o) == rec[o].state = "expired"

OwnInv ==
    \A t \in Submitters :
        /\ pc[t] = "mark" => \/ Retired(Ord(t))
                             \/ (rec[Ord(t)] = IntentRecord /\ job[t].ver = 0)
        /\ pc[t] \in SendPCs /\ ~AtBroker(Ord(t)) =>
              rec[Ord(t)].state \notin TerminalStates \ {"expired"}
        /\ pc[t] = "conclude" /\ job[t].refused =>
              Retired(Ord(t)) \/ job[t].ver = rec[Ord(t)].version

LEMMA OwnInit == Init => OwnInv
<1> SUFFICES ASSUME Init, NEW t \in Submitters PROVE pc[t] = "idle"
  BY DEF OwnInv, SendPCs
<1> QED
  BY DEF Init, Workers

\* What another worker hears of the order is that the broker has it, or that
\* it is given up.
LEMMA Undisturbed ==
    ASSUME Alone, Base, NewsInv, [Next]_vars, NEW t \in Submitters,
           pc[t] \in SendPCs, ~AtBroker(Ord(t)), ~Submit(t)
    PROVE  rec'[Ord(t)] = rec[Ord(t)] \/ rec'[Ord(t)].state = "expired"
<1>1. \A w \in Workers : Ord(w) \in Ords
  BY WorkerType DEF Base
<1>2. rec \in [Ords -> Records] /\ t \in Workers
  BY DEF Base, TypeInv, TypeOK, Workers
<1>3. ASSUME NEW w \in Workers, AppendEvent(w), rec' # rec
      PROVE  rec'[Ord(t)] = rec[Ord(t)] \/ rec'[Ord(t)].state = "expired"
  <2>1. rec' = [rec EXCEPT ![Ord(w)] =
                  Appended(rec[Ord(w)], <<job[w].ev.state, job[w].ev.cum>>,
                           job[w].ev.state, job[w].ev.cum, ~IsStub(job[w].ev))]
    BY <1>3, Written
  <2>2. Heard(job[w].ev)
    BY <1>3 DEF AppendEvent, NewsInv, ApplyPCs
  <2>3. Ord(w) = Ord(t) => job[w].ev.state = "expired"
    BY <2>2 DEF Heard, Ord, AtBroker
  <2>4. rec'[Ord(w)].state = job[w].ev.state
    BY <1>1, <1>2, <2>1 DEF Appended
  <2> QED
    BY <1>1, <1>2, <2>1, <2>3, <2>4
<1>4. ASSUME NEW s \in Submitters
      PROVE  ~(Create(s) \/ Mark(s) \/ Conclude(s))
  BY DEF Alone, Submit
<1> QED
  BY <1>3, <1>4, WhoWrites

LEMMA OwnStep ==
    ASSUME Alone, Base, PostInv, NewsInv, OwnInv, [Next]_vars
    PROVE  OwnInv'
<1> DEFINE others == TerminalStates \ {"expired"}
<1> SUFFICES ASSUME NEW t \in Submitters
             PROVE  /\ pc'[t] = "mark" => \/ rec'[Ord(t)'].state = "expired"
                                         \/ (rec'[Ord(t)'] = IntentRecord /\ job'[t].ver = 0)
                    /\ pc'[t] \in SendPCs /\ ~AtBroker(Ord(t))' =>
                          rec'[Ord(t)'].state \notin others
                    /\ pc'[t] = "conclude" /\ job'[t].refused =>
                          \/ rec'[Ord(t)'].state = "expired"
                          \/ job'[t].ver = rec'[Ord(t)'].version
  BY DEF OwnInv, Retired
<1>1. PICK o \in Ords : o = Ord(t)
  BY WorkerType DEF Base, Workers
<1>2. /\ rec \in [Ords -> Records] /\ t \in Workers /\ Sending(t)
      /\ job \in [Workers -> Jobs] /\ pc \in [Workers -> PCs]
      /\ AtBroker(o) => AtBroker(o)'
      /\ IntentRecord.state \notin TerminalStates
  BY AtBrokerStays
     DEF Base, TypeInv, TypeOK, Workers, PostInv, IntentRecord, NoRecord, TerminalStates
<1>3. /\ pc[t] = "mark" =>
            rec[o].state = "expired" \/ (rec[o] = IntentRecord /\ job[t].ver = 0)
      /\ pc[t] = "mark" => ~AtBroker(o)
      /\ pc[t] \in SendPCs /\ ~AtBroker(o) => rec[o].state \notin others
      /\ pc[t] = "conclude" /\ job[t].refused =>
            (rec[o].state = "expired" \/ job[t].ver = rec[o].version) /\ ~AtBroker(o)
  BY <1>1, <1>2 DEF OwnInv, Sending, Unsent, Retired
<1>4. CASE Idles(t) \/ Applies(t)
  BY <1>4 DEF Idles, Applies, SendPCs, ApplyPCs
<1>5. CASE Same(t) /\ ~Submit(t)
  <2>1. /\ Ord(t)' = o /\ pc'[t] = pc[t] /\ job'[t] = job[t]
    BY <1>1, <1>5 DEF Same, Ord
  <2>2. pc[t] \in SendPCs /\ ~AtBroker(o) => rec'[o] = rec[o] \/ rec'[o].state = "expired"
    BY <1>1, <1>5, Undisturbed
  <2>3. pc[t] \in SendPCs /\ ~AtBroker(o)' => rec'[o].state \notin others
    BY <1>2, <1>3, <2>2
  <2>4. AtBroker(Ord(t))' <=> AtBroker(o)'
    BY <2>1 DEF AtBroker
  <2>5. pc[t] \in {"mark", "conclude"} => pc[t] \in SendPCs
    BY DEF SendPCs
  <2>6. pc'[t] = "mark" => \/ rec'[o].state = "expired"
                           \/ (rec'[o] = IntentRecord /\ job'[t].ver = 0)
    BY <1>3, <2>1, <2>2, <2>5
  <2>7. pc'[t] = "conclude" /\ job'[t].refused =>
            rec'[o].state = "expired" \/ job'[t].ver = rec'[o].version
    BY <1>3, <2>1, <2>2, <2>5
  <2> QED
    BY <2>1, <2>3, <2>4, <2>6, <2>7
<1>6. CASE Submit(t)
  <2>1. CASE SubmitEnds(t) \/ SubmitApplies(t) \/ SubmitStarts(t)
    BY <1>4, <2>1 DEF SubmitEnds, SubmitApplies, SubmitStarts, SendPCs
  <2>2. CASE SubmitGoesOn(t)
    <3>1. Ord(t)' = o
      BY <1>1, <2>2 DEF SubmitGoesOn
    <3>2. AtBroker(Ord(t))' <=> AtBroker(o)'
      BY <3>1 DEF AtBroker
    <3>3. CASE Moves(t, "gate", "create") /\ rec' = rec
      <4>1. rec[o].state = "none" /\ pc'[t] = "create"
        BY <1>1, <1>2, <3>3 DEF Moves, Sending
      <4> QED
        BY <3>1, <3>3, <4>1 DEF TerminalStates
    <3>4. CASE Moves(t, "create", "mark") /\ Create(t)
      <4>1. rec[o].state = "none" /\ pc[t] = "create" /\ pc'[t] = "mark"
        BY <1>1, <1>2, <3>4 DEF Moves, Sending
      <4>2. rec' = [rec EXCEPT ![o] = IntentRecord] /\ job' = job
        BY <1>1, <3>4, <4>1 DEF Create
      <4>3. job[t].ver = 0
        BY <1>2, <4>1 DEF Base, FillsInv, JobKnown, CleanPCs
      <4> QED
        BY <1>2, <3>1, <4>1, <4>2, <4>3
    <3>5. CASE Moves(t, "mark", "post") /\ Mark(t)
      <4>1. pc'[t] = "post" /\ (rec[o].state = "expired" \/ rec[o] = IntentRecord)
        BY <1>3, <3>5 DEF Moves
      <4>2. \/ rec' = rec
            \/ rec' = [rec EXCEPT ![o] =
                         Appended(rec[o], <<"submitting", job[t].ver + 1>>,
                                  "submitting", job[t].from, FALSE)]
        BY <1>1, <3>5 DEF Mark, Write
      <4>3. rec'[o].state \in {"intent", "submitting", "expired"}
        BY <1>2, <4>1, <4>2 DEF Appended, IntentRecord, NoRecord
      <4> QED
        BY <3>1, <4>1, <4>3 DEF TerminalStates
    <3>6. CASE /\ pc[t] \in SendPCs /\ rec' = rec
               /\ pc'[t] \in {"wait", "recover", "settle"}
      BY <1>2, <1>3, <3>1, <3>2, <3>6
    <3>7. CASE /\ Moves(t, "settle", "conclude") /\ rec' = rec
               /\ job'[t].ver = rec[o].version
      <4>1. pc[t] \in SendPCs /\ pc'[t] = "conclude"
        BY <3>7 DEF Moves, SendPCs
      <4> QED
        BY <1>2, <1>3, <3>1, <3>2, <3>7, <4>1
    <3>8. \/ Moves(t, "gate", "create") /\ rec' = rec
          \/ Moves(t, "create", "mark") /\ Create(t)
          \/ Moves(t, "mark", "post") /\ Mark(t)
          \/ /\ pc[t] \in SendPCs /\ rec' = rec
             /\ pc'[t] \in {"wait", "recover", "settle"}
          \/ /\ Moves(t, "settle", "conclude") /\ rec' = rec
             /\ job'[t].ver = rec[o].version
      BY <1>1, <2>2 DEF SubmitGoesOn, Moves, SendPCs
    <3> QED
      BY <3>3, <3>4, <3>5, <3>6, <3>7, <3>8
  <2> QED
    BY <1>6, <2>1, <2>2, SubmitMoves
<1> QED
  BY <1>4, <1>5, <1>6, AwayFromSubmit DEF Submitting, Alone

-----------------------------------------------------------------------------
(***************************************************************************)
(* A closed row is final, by how it was closed.                             *)
(***************************************************************************)
\* A row that says "filled" or "canceled" agrees with the broker, for good.
ReportedIsFinal ==
    \A o \in Ords : rec[o].state \in {"filled", "canceled"} =>
        broker[o].status = rec[o].state /\ broker[o].fill = rec[o].cum

\* An order whose row says "rejected" has no fill, and will not reach the broker.
RefusedIsFinal ==
    \A o \in Ords : rec[o].state = "rejected" => rec[o].cum = 0 /\ Unsent(o)

\* So has, and so will, an order whose row a reconciler retired.
RetiredIsFinal ==
    \A o \in Ords : Retired(o) => rec[o].cum = 0 /\ Unsent(o)

\* Why each stays final.
ClosedInv ==
    /\ ReportedIsFinal
    /\ Alone => RefusedIsFinal
    /\ Timely => \A o \in Ords : Retired(o) => rec[o].cum = 0 /\ Dead(o)

LEMMA ClosedInit == Init => ClosedInv
BY DEF Init, ClosedInv, ReportedIsFinal, RefusedIsFinal, Retired, NoRecord

\* The row of o is closed by its own submission, or by news.
LEMMA ClosedBy ==
    ASSUME Base, [Next]_vars, NEW o \in Ords, rec[o].state \notin TerminalStates,
           rec'[o].state \in TerminalStates
    PROVE  /\ broker' = broker /\ wire' = wire
           /\ \/ /\ rec'[o].cum = rec[o].cum /\ rec'[o].state = "rejected"
                 /\ \E t \in Submitters : job[t].refused /\ Ord(t) = o
              \/ \E w \in Workers : /\ pc[w] \in ApplyPCs /\ Ord(w) = o
                                    /\ rec'[o].state = job[w].ev.state
                                    /\ rec'[o].cum = job[w].ev.cum
<1>1. \A w \in Workers : Ord(w) \in Ords
  BY WorkerType DEF Base
<1>2. /\ rec \in [Ords -> Records] /\ rec' # rec /\ rec'[o] # rec[o]
      /\ \A t \in Submitters : t \in Workers
  BY DEF Base, TypeInv, TypeOK, Workers
<1>3. ASSUME NEW t \in Submitters, Create(t) \/ Mark(t)
      PROVE  FALSE
  <2>1. CASE Create(t)
    <3>1. rec' = [rec EXCEPT ![Ord(t)] = IntentRecord]
      BY <1>2, <2>1, Written
    <3> QED
      BY <1>1, <1>2, <3>1 DEF IntentRecord, NoRecord, TerminalStates
  <2>2. CASE Mark(t)
    <3>1. rec' = [rec EXCEPT ![Ord(t)] =
                    Appended(rec[Ord(t)], <<"submitting", job[t].ver + 1>>,
                             "submitting", rec[Ord(t)].cum, FALSE)]
      BY <1>2, <2>2, Written
    <3> QED
      BY <1>1, <1>2, <3>1 DEF Appended, TerminalStates
  <2> QED
    BY <1>3, <2>1, <2>2
<1>4. ASSUME NEW t \in Submitters, Conclude(t)
      PROVE  /\ broker' = broker /\ wire' = wire /\ rec'[o].cum = rec[o].cum
             /\ rec'[o].state = "rejected" /\ job[t].refused /\ Ord(t) = o
  <2> DEFINE state == IF job[t].refused THEN "rejected" ELSE "unknown"
  <2>1. rec' = [rec EXCEPT ![Ord(t)] =
                  Appended(rec[Ord(t)], <<state, job[t].ver + 1>>, state,
                           rec[Ord(t)].cum, FALSE)]
    BY <1>2, <1>4, Concluded
  <2>2. Ord(t) = o /\ rec'[o].cum = rec[o].cum /\ rec'[o].state = state
    BY <1>1, <1>2, <2>1 DEF Appended
  <2>3. broker' = broker /\ wire' = wire
    BY <1>4 DEF Conclude, outside
  <2> QED
    BY <2>2, <2>3 DEF TerminalStates
<1>5. ASSUME NEW w \in Workers, AppendEvent(w)
      PROVE  /\ broker' = broker /\ wire' = wire
             /\ pc[w] \in ApplyPCs /\ Ord(w) = o
             /\ rec'[o].state = job[w].ev.state /\ rec'[o].cum = job[w].ev.cum
  <2>1. rec' = [rec EXCEPT ![Ord(w)] =
                  Appended(rec[Ord(w)], <<job[w].ev.state, job[w].ev.cum>>,
                           job[w].ev.state, job[w].ev.cum, ~IsStub(job[w].ev))]
    BY <1>2, <1>5, Written
  <2>2. pc[w] \in ApplyPCs /\ broker' = broker /\ wire' = wire
    BY <1>5 DEF AppendEvent, outside, ApplyPCs
  <2> QED
    BY <1>1, <1>2, <2>1, <2>2 DEF Appended
<1> QED
  BY <1>2, <1>3, <1>4, <1>5, WhoWrites

\* An event that closes a row is the broker's last word, or gives it up.
LEMMA ClosedByNews ==
    ASSUME Base, NewsInv, [Next]_vars, NEW o \in Ords, rec[o].state \notin TerminalStates,
           rec'[o].state \in TerminalStates, rec'[o].state # "rejected"
    PROVE  \/ /\ rec'[o].state \in {"filled", "canceled"} /\ rec'[o].state = broker'[o].status
              /\ rec'[o].cum = broker'[o].fill
           \/ rec'[o].state = "expired" /\ rec'[o].cum = 0 /\ (Timely => Dead(o))
<1>1. /\ broker' = broker /\ wire' = wire
      /\ \E w \in Workers : /\ pc[w] \in ApplyPCs /\ Ord(w) = o
                             /\ rec'[o].state = job[w].ev.state
                             /\ rec'[o].cum = job[w].ev.cum
  BY ClosedBy
<1>2. PICK w \in Workers : /\ pc[w] \in ApplyPCs /\ job[w].ev.ord = o
                           /\ rec'[o].state = job[w].ev.state
                           /\ rec'[o].cum = job[w].ev.cum
  BY <1>1 DEF Ord
<1>3. Heard(job[w].ev)
  BY <1>2 DEF NewsInv
<1> QED
  BY <1>1, <1>2, <1>3 DEF Heard, WorkingStates, TerminalStates

LEMMA ReportedStep ==
    ASSUME Base, NewsInv, ReportedIsFinal, [Next]_vars
    PROVE  ReportedIsFinal'
<1> SUFFICES ASSUME NEW o \in Ords, rec'[o].state \in {"filled", "canceled"}
             PROVE  broker'[o].status = rec'[o].state /\ broker'[o].fill = rec'[o].cum
  BY DEF ReportedIsFinal
<1>1. CASE rec[o].state \in TerminalStates
  <2>1. rec'[o] = rec[o]
    BY <1>1, BaseStep, ClosedRowsStay
  <2>2. broker[o].status = rec[o].state /\ broker[o].fill = rec[o].cum
    BY <2>1 DEF ReportedIsFinal
  <2> QED
    BY <2>1, <2>2, AtBrokerStays
<1>2. CASE rec[o].state \notin TerminalStates
  BY <1>2, ClosedByNews DEF TerminalStates
<1> QED
  BY <1>1, <1>2

LEMMA RefusedStep ==
    ASSUME Alone, Base, PostInv, NewsInv, OwnInv, RefusedIsFinal, [Next]_vars
    PROVE  RefusedIsFinal'
<1> SUFFICES ASSUME NEW o \in Ords, rec'[o].state = "rejected"
             PROVE  rec'[o].cum = 0 /\ Unsent(o)'
  BY DEF RefusedIsFinal
<1>1. CASE rec[o].state \in TerminalStates
  <2>1. rec'[o] = rec[o]
    BY <1>1, BaseStep, ClosedRowsStay
  <2>2. rec[o].cum = 0 /\ Unsent(o)
    BY <2>1 DEF RefusedIsFinal
  <2>3. ~Posted(o)
    BY <2>1, <2>2 DEF Posted, OwnInv, SendPCs, Unsent, TerminalStates
  <2> QED
    BY <2>1, <2>2, <2>3, UnsentStays
<1>2. CASE rec[o].state \notin TerminalStates
  <2>1. \A w \in Workers : pc[w] \in ApplyPCs => job[w].ev.state # "rejected"
    BY DEF NewsInv, Heard, WorkingStates
  <2>2. /\ broker' = broker /\ wire' = wire /\ rec'[o].cum = rec[o].cum
        /\ \E t \in Submitters : job[t].refused /\ Ord(t) = o
    BY <1>2, <2>1, ClosedBy DEF TerminalStates
  <2>3. Unsent(o)
    BY <2>2 DEF PostInv, Sending
  <2>4. /\ rec[o].cum \in 0..Qty /\ rec[o].cum <= broker[o].fill
        /\ broker[o].status = "absent" => broker[o].fill = 0
    BY DEF Base, TypeInv, TypeOK, BrokerOK, FillsInv, NoPhantomFill, Records
  <2>5. rec[o].cum = 0
    BY <2>3, <2>4 DEF Unsent, AtBroker
  <2> QED
    BY <2>2, <2>3, <2>5 DEF Unsent, AtBroker
<1> QED
  BY <1>1, <1>2

LEMMA RetiredStep ==
    ASSUME Timely, Base, MarksInv, NewsInv, [Next]_vars,
           \A o \in Ords : Retired(o) => rec[o].cum = 0 /\ Dead(o),
           NEW o \in Ords, rec'[o].state = "expired"
    PROVE  rec'[o].cum = 0 /\ Dead(o)'
<1>1. CASE rec[o].state \in TerminalStates
  <2>1. rec'[o] = rec[o]
    BY <1>1, BaseStep, ClosedRowsStay
  <2>2. rec[o].cum = 0 /\ Dead(o)
    BY <2>1 DEF Retired
  <2> QED
    BY <2>1, <2>2, DeadStays
<1>2. CASE rec[o].state \notin TerminalStates
  <2>1. rec'[o].cum = 0 /\ Dead(o)
    BY <1>2, ClosedByNews DEF TerminalStates
  <2> QED
    BY <2>1, DeadStays
<1> QED
  BY <1>1, <1>2

\* All of it, each part under the assumptions it needs.
ClosingInv ==
    /\ Base /\ LadderInv /\ MarksInv /\ NewsInv /\ ClosedInv
    /\ Alone => PostInv /\ OwnInv

LEMMA ClosingInit == Init => ClosingInv
BY BaseInit, LadderInit, MarksInit, PostInit, NewsInit, OwnInit, ClosedInit DEF ClosingInv

LEMMA ClosingStep == ClosingInv /\ [Next]_vars => ClosingInv'
<1> SUFFICES ASSUME ClosingInv, [Next]_vars PROVE ClosingInv'
  OBVIOUS
<1>1. Base' /\ LadderInv' /\ MarksInv' /\ NewsInv'
  BY BaseStep, LadderStep, MarksStep, NewsStep DEF ClosingInv
<1>2. ASSUME Alone PROVE PostInv' /\ OwnInv' /\ RefusedIsFinal'
  BY <1>2, PostStep, OwnStep, RefusedStep DEF ClosingInv, ClosedInv
<1>3. ASSUME Timely PROVE \A o \in Ords : Retired(o)' => rec'[o].cum = 0 /\ Dead(o)'
  BY <1>3, RetiredStep DEF ClosingInv, ClosedInv, Retired
<1>4. ReportedIsFinal'
  BY ReportedStep DEF ClosingInv, ClosedInv
<1> QED
  BY <1>1, <1>2, <1>3, <1>4 DEF ClosingInv, ClosedInv, Alone, Timely

LEMMA ClosingSafe == Spec => []ClosingInv
BY ClosingInit, ClosingStep, PTL DEF Spec

(***************************************************************************)
(* A row that was closed by what the broker said is the broker's last word: *)
(* the order is over there in that state, with the shares the row counts.   *)
(* Nothing is assumed: not of the number of submitting threads, of timing,  *)
(* or of what an error answer means.                                        *)
(***************************************************************************)
THEOREM ReportedForGood == Spec => []ReportedIsFinal
<1>1. ClosingInv => ReportedIsFinal
  BY DEF ClosingInv, ClosedInv
<1> QED
  BY <1>1, ClosingSafe, PTL

(***************************************************************************)
(* An order whose row says "rejected" was not sent and is not on its way,   *)
(* whatever the timing: one thread submits, and an error answer that counts *)
(* as a refusal is one.                                                     *)
(***************************************************************************)
THEOREM RefusedForGood ==
    ASSUME Alone
    PROVE  Spec => []RefusedIsFinal
<1>1. ClosingInv => RefusedIsFinal
  BY DEF ClosingInv, ClosedInv
<1> QED
  BY <1>1, ClosingSafe, PTL

(***************************************************************************)
(* An order whose row a reconciler retired was not sent and is not on its   *)
(* way, however many threads submit and whatever error answers mean: the    *)
(* call that might send it is over before the row is old.                   *)
(***************************************************************************)
THEOREM RetiredForGood ==
    ASSUME Timely
    PROVE  Spec => []RetiredIsFinal
<1>1. ClosingInv => RetiredIsFinal
  BY DEF ClosingInv, ClosedInv, RetiredIsFinal, Dead, Quiet, Unsent
<1> QED
  BY <1>1, ClosingSafe, PTL

LEMMA AllClosed ==
    ASSUME Alone, Timely
    PROVE  ClosingInv => ClosedIsFinal
<1> SUFFICES ASSUME ClosingInv, NEW o \in Ords, rec[o].state \in TerminalStates
             PROVE  /\ rec[o].cum = broker[o].fill
                    /\ broker[o].status \notin {"working", "canceling"}
                    /\ AtBroker(o) \/ wire[o] = 0
  BY DEF ClosedIsFinal
<1>1. broker[o].status = "absent" => broker[o].fill = 0
  BY DEF ClosingInv, Base, TypeInv, BrokerOK
<1>2. CASE rec[o].state \in {"filled", "canceled"}
  BY <1>2 DEF ClosingInv, ClosedInv, ReportedIsFinal, AtBroker
<1>3. CASE rec[o].state \in {"rejected", "expired"}
  <2>1. rec[o].cum = 0 /\ Unsent(o)
    BY <1>3 DEF ClosingInv, ClosedInv, RefusedIsFinal, Retired, Dead, Quiet, Unsent
  <2> QED
    BY <1>1, <2>1 DEF Unsent, AtBroker
<1> QED
  BY <1>2, <1>3 DEF TerminalStates

(***************************************************************************)
(* A closed row is the truth: when a row is terminal the broker will not    *)
(* execute another share on that client order id, and the row counts every  *)
(* share it did, whatever order the reply, the updates and the snapshots    *)
(* arrive in.  One thread submits the decision, a refusal is one, and calls *)
(* are over before the grace period is: the three theorems above.           *)
(***************************************************************************)
THEOREM ClosedForGood ==
    ASSUME Alone, Timely
    PROVE  Spec => []ClosedIsFinal
BY AllClosed, ClosingSafe, PTL

LEMMA OneExposed ==
    ASSUME Alone, Timely
    PROVE  ClosingInv => SingleExposure
<1> SUFFICES ASSUME ClosingInv, NEW o \in Ords, NEW p \in Ords, Exposed(o), Exposed(p), o < p
             PROVE  FALSE
  <2>1. \A o, p \in Ords : o < p \/ p < o \/ o = p
    BY ConstantsAssumption DEF Ords
  <2> QED
    BY <2>1 DEF SingleExposure
<1>1. /\ wire \in [Ords -> Nat] /\ broker[o].fill \in 0..Qty /\ broker[p].fill \in 0..Qty
      /\ broker[p].status = "absent" => broker[p].fill = 0
  BY DEF ClosingInv, Base, TypeInv, TypeOK, BrokerOK
<1>2. rec[p].state # "none"
  BY <1>1 DEF ClosingInv, PostInv, Unsent, AtBroker, Exposed
<1>3. rec[o].state \in TerminalStates /\ rec[o].cum = 0
  BY <1>2 DEF ClosingInv, LadderInv, Spent
<1>4. /\ broker[o].fill = 0 /\ broker[o].status \notin {"working", "canceling"}
      /\ wire[o] = 0
  BY <1>3, AllClosed DEF ClosingInv, ClosedIsFinal, PostInv
<1> QED
  BY <1>4 DEF Exposed

(***************************************************************************)
(* One decision never has two orders that can fill, or have filled, at      *)
(* once: a retry ordinal is only reached when the one before it is spent.   *)
(* One thread submits the decision, a refusal is one, and calls are over in *)
(* good time.                                                               *)
(***************************************************************************)
THEOREM ExposedOnce ==
    ASSUME Alone, Timely
    PROVE  Spec => []SingleExposure
BY OneExposed, ClosingSafe, PTL

-----------------------------------------------------------------------------
(***************************************************************************)
(* The reservations are the rows: an open row reserves what it may still    *)
(* buy and, until they are booked, the shares just recorded; a closed row   *)
(* reserves nothing once the worker that closed it is through.              *)
(***************************************************************************)
\* The shares of o that are durable and about to be booked.
Held(o) == {u \in Units : \E w \in Workers : Ord(w) = o /\ u \in Span(w)}

\* A worker that has appended its event to the row of o.
Concerns(w, o) == pc[w] \in {"book", "finish"} /\ Ord(w) = o
Closes(w, o)   == Concerns(w, o) /\ job[w].ev.state \in TerminalStates

ReservedFor(o) ==
    /\ rec[o].state = "none" => resv[o] = NoResv
    /\ Open(o) => resv[o] = Qty - rec[o].cum + Cardinality(Held(o))
    /\ rec[o].state \in TerminalStates =>
          resv[o] = NoResv \/ \E w \in Workers : Closes(w, o)

ReservedInv == handlerFails = 0 => \A o \in Ords : ReservedFor(o)

\* A refusal is written once, and it closes the row.
IdsInv ==
    \A o \in Ords : \A n \in Nat :
        <<"rejected", n>> \in rec[o].ids => rec[o].state \in TerminalStates

\* The event of a worker that is past its append has closed the row, if it
\* closes one.
AppliedInv == \A w \in Workers, o \in Ords : Closes(w, o) => rec[o].state \in TerminalStates

LEMMA ReservedInit == Init => ReservedInv /\ IdsInv /\ AppliedInv
<1> SUFFICES ASSUME Init PROVE ReservedInv /\ IdsInv /\ AppliedInv
  OBVIOUS
<1>1. \A o \in Ords : rec[o] = NoRecord /\ resv[o] = NoResv
  BY DEF Init
<1>2. \A w \in Workers : pc[w] = "idle"
  BY DEF Init
<1> QED
  BY <1>1, <1>2
     DEF ReservedInv, ReservedFor, IdsInv, AppliedInv, Closes, Concerns, NoRecord, Open,
         LiveStates, EarlyStates, WorkingStates, TerminalStates

LEMMA CountSpan ==
    ASSUME NEW c \in Nat, NEW d \in Nat, c <= d
    PROVE  IsFiniteSet((c + 1)..d) /\ Cardinality((c + 1)..d) = d - c
<1> DEFINE b == c + 1
<1>1. b \in Int /\ d \in Int
  OBVIOUS
<1>2. IsFiniteSet(b..d) /\ Cardinality(b..d) = IF b > d THEN 0 ELSE d - b + 1
  <2> HIDE DEF b
  <2> QED
    BY <1>1, FS_Interval
<1> QED
  BY <1>2

LEMMA CountAdds ==
    ASSUME NEW c \in Nat, NEW d \in Nat, c <= d, NEW S \in SUBSET (1..c)
    PROVE  Cardinality(S \cup ((c + 1)..d)) = Cardinality(S) + d - c
<1> DEFINE T == (c + 1)..d
<1>1. IsFiniteSet(T) /\ Cardinality(T) = d - c
  BY CountSpan
<1>2. IsFiniteSet(1..c)
  BY FS_Interval
<1>3. IsFiniteSet(S)
  BY <1>2, FS_Subset
<1>4. S \cap T = {}
  OBVIOUS
<1>5. /\ Cardinality(S \cup T) = Cardinality(S) + Cardinality(T) - Cardinality(S \cap T)
      /\ Cardinality(S) \in Nat /\ Cardinality(S \cap T) = 0
  <2> HIDE DEF T
  <2> QED
    BY <1>1, <1>3, <1>4, FS_Union, FS_CardinalityType, FS_EmptySet
<1> QED
  BY <1>1, <1>5

LEMMA CountDrops ==
    ASSUME NEW n \in Nat, NEW S \in SUBSET (1..n), NEW c \in Nat, NEW d \in Nat, c <= d,
           (c + 1)..d \subseteq S
    PROVE  /\ Cardinality(S \ ((c + 1)..d)) = Cardinality(S) - (d - c)
           /\ d - c <= Cardinality(S)
<1> DEFINE T == (c + 1)..d
<1>1. IsFiniteSet(T) /\ Cardinality(T) = d - c
  BY CountSpan
<1>2. IsFiniteSet(1..n)
  BY FS_Interval
<1>3. IsFiniteSet(S) /\ T \subseteq S
  BY <1>2, FS_Subset
<1>4. /\ Cardinality(T) <= Cardinality(S)
      /\ Cardinality(S \ T) = Cardinality(S) - Cardinality(S \cap T)
      /\ S \cap T = T
  <2> HIDE DEF T
  <2> QED
    BY <1>3, FS_Subset, FS_Difference
<1> QED
  BY <1>1, <1>4

LEMMA CountFits ==
    ASSUME NEW n \in Nat, NEW S \in SUBSET (1..n)
    PROVE  Cardinality(S) \in 0..n
<1>1. IsFiniteSet(1..n) /\ Cardinality(1..n) = n
  BY FS_Interval
<1>2. IsFiniteSet(S) /\ Cardinality(S) <= n
  BY <1>1, FS_Subset
<1> QED
  BY <1>2, FS_CardinalityType

\* What is held has been recorded.
HeldRecorded == \A o \in Ords : Held(o) \subseteq 1..rec[o].cum

LEMMA HeldFits == Base => HeldRecorded
<1> SUFFICES ASSUME Base, NEW o \in Ords, NEW u \in Held(o)
             PROVE  u \in 1..rec[o].cum
  BY DEF HeldRecorded
<1>1. PICK w \in Workers : Ord(w) = o /\ u \in Span(w)
  BY DEF Held
<1>2. pc[w] = "book" /\ u \in (job[w].from + 1)..job[w].ev.cum
  BY <1>1 DEF Span
<1>3. job[w].ev.cum <= rec[o].cum
  BY <1>1, <1>2 DEF Base, BookingInv, SpanOK
<1>4. job[w].from \in 0..Qty /\ job[w].ev.cum \in 0..Qty /\ rec[o].cum \in 0..Qty
  BY <1>1, WorkerType DEF Base
<1> QED
  BY <1>2, <1>3, <1>4, QtyAssumption

\* Nothing is held twice: a worker's span counts in full.
LEMMA HeldHas ==
    ASSUME Base, NEW w \in Workers, pc[w] = "book"
    PROVE  Span(w) \subseteq Held(Ord(w)) /\ Span(w) = (job[w].from + 1)..job[w].ev.cum
<1>1. Span(w) = (job[w].from + 1)..job[w].ev.cum
  BY DEF Span
<1>2. job[w].from \in 0..Qty /\ job[w].ev.cum \in 0..Qty
  BY WorkerType DEF Base
<1>3. Span(w) \subseteq Units
  BY <1>1, <1>2, QtyAssumption DEF Units
<1> QED
  BY <1>1, <1>3 DEF Held

-----------------------------------------------------------------------------
(***************************************************************************)
(* A worker past its append moves by booking and finishing alone.           *)
(***************************************************************************)
PastPCs == {"book", "finish"}

LEMMA PastAppend ==
    ASSUME Base, [Next]_vars, NEW w \in Workers
    PROVE  \/ Same(w)
           \/ pc[w] \notin PastPCs /\ pc'[w] \notin PastPCs
           \/ AppendEvent(w) \/ BookFill(w) \/ FinishEvent(w) \/ HandlerRaises(w)
           \/ Crash
<1> DEFINE Goal == \/ Same(w)
                   \/ pc[w] \notin PastPCs /\ pc'[w] \notin PastPCs
                   \/ AppendEvent(w) \/ BookFill(w) \/ FinishEvent(w) \/ HandlerRaises(w)
                   \/ Crash
<1>1. pc \in [Workers -> PCs] /\ job \in [Workers -> Jobs] /\ job[w] \in Jobs
  BY DEF Base, TypeInv, TypeOK
<1>2. ASSUME NEW v \in Workers, v # w,
             \/ v \in Submitters /\ Submit(v)
             \/ ApplyEvent(v)
             \/ v \in Reconcilers /\ Reconcile(v)
             \/ v = StreamWorker /\ NextUpdate
      PROVE  Goal
  BY <1>2, WorkersAreLocal DEF Local, Same, Base, TypeInv
<1>3. CASE w \in Submitters /\ Submit(w)
  <2>1. pc[w] \notin PastPCs
    BY <1>3 DEF Submit, Identify, Lookup, Gate, Create, Mark, Post, WaitAccepted,
       WaitRefused, WaitLost, WaitGatewayError, Recover, Settle, Conclude, PastPCs
  <2>2. pc'[w] \notin PastPCs
    BY <1>3, SubmitMoves DEF SubmitEnds, Idles, SubmitApplies, SubmitStarts, SubmitGoesOn,
       Moves, PastPCs
  <2> QED
    BY <2>1, <2>2
<1>4. CASE ReadRow(w)
  <2>1. pc[w] = "read" /\ (pc'[w] = "append" \/ Finish(w))
    BY <1>1, <1>4 DEF ReadRow, Goto
  <2>2. Finish(w) => pc'[w] \in Phases
    BY <1>1 DEF Finish, Jobs, Phases
  <2> QED
    BY <2>1, <2>2 DEF Phases, PastPCs
<1>5. CASE w \in Reconcilers /\ Reconcile(w)
  BY <1>1, <1>5 DEF Reconcile, Capture, CaptureUnusable, SweepOrder, ListRows, RetireRow,
     CountLineage, Publish, Goto, Done, PastPCs
<1>6. CASE w = StreamWorker /\ NextUpdate
  BY <1>1, <1>6 DEF NextUpdate, Apply, Goto, PastPCs
<1>7. CASE Environment \/ UNCHANGED vars
  BY <1>7 DEF Environment, Land, WireLoses, Execute, RequestCancel, CloseOrder,
     BrokerMoves, Age, vars, Same
<1> QED
  BY <1>2, <1>3, <1>4, <1>5, <1>6, <1>7 DEF Next, Workers, ApplyEvent

\* An order that no worker past its append touches keeps what it reserves.
Untouched(o) ==
    \A w \in Workers : Same(w) \/ (~Concerns(w, o) /\ ~Concerns(w, o)')

LEMMA ReservedKept ==
    ASSUME NEW o \in Ords, ReservedFor(o), Untouched(o), resv'[o] = resv[o],
           \/ rec'[o] = rec[o]
           \/ rec'[o].cum = rec[o].cum /\ Open(o) /\ Open(o)'
    PROVE  ReservedFor(o)'
<1>1. ASSUME NEW w \in Workers
      PROVE  /\ Closes(w, o)' <=> Closes(w, o)
             /\ \A u : (Ord(w) = o /\ u \in Span(w))' <=> (Ord(w) = o /\ u \in Span(w))
  <2>1. CASE Same(w)
    BY <2>1 DEF Same, Closes, Concerns, Ord, Span
  <2>2. CASE ~Concerns(w, o) /\ ~Concerns(w, o)'
    BY <2>2 DEF Closes, Concerns, Ord, Span
  <2> QED
    BY <2>1, <2>2 DEF Untouched
<1>2. Held(o)' = Held(o)
  BY <1>1 DEF Held
<1>3. Open(o)' <=> rec'[o].state \in LiveStates
  BY DEF Open
<1>4. Open(o) <=> rec[o].state \in LiveStates
  BY DEF Open
<1>5. LiveStates \cap TerminalStates = {} /\ "none" \notin LiveStates
  BY DEF LiveStates, EarlyStates, WorkingStates, TerminalStates
<1> QED
  BY <1>1, <1>2, <1>3, <1>4, <1>5 DEF ReservedFor

\* A row changes by being created or by the append of one event.
LEMMA RowAppends ==
    ASSUME Base, [Next]_vars, NEW o \in Ords, rec'[o] # rec[o]
    PROVE  \/ rec[o].state = "none" /\ rec'[o] = IntentRecord
           \/ /\ rec[o].state \in LiveStates
              /\ \E state, n, cum, bid :
                   rec'[o] = Appended(rec[o], <<state, n>>, state, cum, bid)
<1>1. /\ rec \in [Ords -> Records] /\ rec' # rec
      /\ \A w \in Workers : Ord(w) \in Ords
      /\ \A t \in Submitters : t \in Workers
  BY WorkerType DEF Base, TypeInv, TypeOK, Workers
<1>2. ASSUME NEW t \in Submitters, Create(t)
      PROVE  rec[o].state = "none" /\ rec'[o] = IntentRecord
  <2>1. rec[Ord(t)].state = "none" /\ rec' = [rec EXCEPT ![Ord(t)] = IntentRecord]
    BY <1>1, <1>2, Written
  <2> QED
    BY <1>1, <2>1
<1>3. ASSUME NEW w \in Workers, NEW state, NEW n, NEW cum, NEW bid,
             state \in Follows(rec[Ord(w)].state),
             rec' = [rec EXCEPT ![Ord(w)] =
                       Appended(rec[Ord(w)], <<state, n>>, state, cum, bid)]
      PROVE  /\ rec[o].state \in LiveStates
             /\ \E s, m, c, b : rec'[o] = Appended(rec[o], <<s, m>>, s, c, b)
  <2>1. Ord(w) = o /\ rec'[o] = Appended(rec[o], <<state, n>>, state, cum, bid)
    BY <1>1, <1>3
  <2> QED
    BY <1>3, <2>1, FollowsLive
<1>4. ASSUME NEW t \in Submitters, Mark(t)
      PROVE  /\ rec[o].state \in LiveStates
             /\ \E s, m, c, b : rec'[o] = Appended(rec[o], <<s, m>>, s, c, b)
  <2>1. /\ Appendable(rec[Ord(t)], <<"submitting", job[t].ver + 1>>, job[t].ver,
                      "submitting")
        /\ rec' = [rec EXCEPT ![Ord(t)] =
                     Appended(rec[Ord(t)], <<"submitting", job[t].ver + 1>>,
                              "submitting", rec[Ord(t)].cum, FALSE)]
    BY <1>1, <1>4, Written
  <2>2. "submitting" \in Follows(rec[Ord(t)].state)
    BY <2>1 DEF Appendable
  <2> QED
    BY <1>1, <1>3, <2>1, <2>2
<1>5. ASSUME NEW t \in Submitters, Conclude(t)
      PROVE  /\ rec[o].state \in LiveStates
             /\ \E s, m, c, b : rec'[o] = Appended(rec[o], <<s, m>>, s, c, b)
  <2>1. PICK state :
          /\ Appendable(rec[Ord(t)], <<state, job[t].ver + 1>>, job[t].ver, state)
          /\ rec' = [rec EXCEPT ![Ord(t)] =
                       Appended(rec[Ord(t)], <<state, job[t].ver + 1>>, state,
                                rec[Ord(t)].cum, FALSE)]
    BY <1>1, <1>5, Concluded
  <2>2. state \in Follows(rec[Ord(t)].state)
    BY <2>1 DEF Appendable
  <2> QED
    BY <1>1, <1>3, <2>1, <2>2
<1>6. ASSUME NEW w \in Workers, AppendEvent(w)
      PROVE  /\ rec[o].state \in LiveStates
             /\ \E s, m, c, b : rec'[o] = Appended(rec[o], <<s, m>>, s, c, b)
  <2>1. /\ job[w].ev.state \in Follows(rec[Ord(w)].state)
        /\ rec' = [rec EXCEPT ![Ord(w)] =
                     Appended(rec[Ord(w)], <<job[w].ev.state, job[w].ev.cum>>,
                              job[w].ev.state, job[w].ev.cum, ~IsStub(job[w].ev))]
    BY <1>1, <1>6, Written
  <2> QED
    BY <1>3, <2>1
<1> QED
  BY <1>1, <1>2, <1>4, <1>5, <1>6, WhoWrites

LEMMA IdsStep ==
    ASSUME Base, IdsInv, [Next]_vars
    PROVE  IdsInv'
<1> SUFFICES ASSUME NEW o \in Ords, NEW n \in Nat, <<"rejected", n>> \in rec'[o].ids
             PROVE  rec'[o].state \in TerminalStates
  BY DEF IdsInv
<1>1. CASE rec'[o] = rec[o]
  BY <1>1 DEF IdsInv
<1>2. CASE rec'[o] = IntentRecord
  BY <1>2 DEF IntentRecord, NoRecord
<1>3. CASE rec[o].state \in LiveStates /\ rec'[o] # rec[o] /\ rec'[o] # IntentRecord
  <2>1. PICK state, m, cum, bid :
          rec'[o] = Appended(rec[o], <<state, m>>, state, cum, bid)
    BY <1>3, RowAppends
  <2>2. rec[o].state \notin TerminalStates
    BY <1>3 DEF LiveStates, EarlyStates, WorkingStates, TerminalStates
  <2>3. <<"rejected", n>> \notin rec[o].ids
    BY <2>2 DEF IdsInv
  <2>4. rec'[o].ids = rec[o].ids \cup {<<state, m>>} /\ rec'[o].state = state
    BY <2>1 DEF Appended
  <2>5. state = "rejected"
    BY <2>3, <2>4
  <2> QED
    BY <2>4, <2>5 DEF TerminalStates
<1> QED
  BY <1>1, <1>2, <1>3, RowAppends

LEMMA FinishLeaves ==
    ASSUME Base, NEW w \in Workers, Finish(w) \/ Done(w)
    PROVE  pc'[w] \notin PastPCs
<1>1. pc \in [Workers -> PCs] /\ job[w].phase \in Phases
  BY DEF Base, TypeInv, TypeOK, Jobs
<1> QED
  BY <1>1 DEF Finish, Done, Goto, Phases, PastPCs

\* An append hands its worker on, with the event in the row.
LEMMA Handed ==
    ASSUME Base, NEW w \in Workers, AppendEvent(w)
    PROVE  /\ pc[w] = "append" /\ resv' = resv
           /\ \/ rec' = rec /\ pc'[w] \notin PastPCs
              \/ /\ job' = job /\ pc'[w] = AfterAppend(w)
                 /\ job[w].from = rec[Ord(w)].cum /\ job[w].from <= job[w].ev.cum
                 /\ rec[Ord(w)].state \in LiveStates
                 /\ rec' = [rec EXCEPT ![Ord(w)] =
                              Appended(rec[Ord(w)], <<job[w].ev.state, job[w].ev.cum>>,
                                       job[w].ev.state, job[w].ev.cum, ~IsStub(job[w].ev))]
<1>1. pc[w] = "append" /\ resv' = resv
  BY DEF AppendEvent, memory
<1>2. CASE rec' = rec /\ Finish(w)
  BY <1>1, <1>2, FinishLeaves
<1>3. CASE ~(rec' = rec /\ Finish(w))
  <2>1. /\ Appendable(rec[Ord(w)], <<job[w].ev.state, job[w].ev.cum>>, job[w].ver,
                      job[w].ev.state)
        /\ rec' = [rec EXCEPT ![Ord(w)] =
                     Appended(rec[Ord(w)], <<job[w].ev.state, job[w].ev.cum>>,
                              job[w].ev.state, job[w].ev.cum, ~IsStub(job[w].ev))]
        /\ job' = job /\ Goto(w, AfterAppend(w))
    BY <1>3 DEF AppendEvent, Declined, Write, Ord
  <2>2. /\ job[w].from = rec[Ord(w)].cum /\ job[w].from <= job[w].ev.cum
    BY <1>1, <2>1 DEF Base, RowsInv, VerOK, AppendPCs, Appendable
  <2>3. job[w].ev.state \in Follows(rec[Ord(w)].state)
    BY <2>1 DEF Appendable
  <2>4. pc'[w] = AfterAppend(w)
    BY <2>1, WorkerType DEF Base, Goto
  <2> QED
    BY <1>1, <2>1, <2>2, <2>3, <2>4, FollowsLive
<1> QED
  BY <1>2, <1>3

LEMMA AppliedStep ==
    ASSUME Base, AppliedInv, [Next]_vars
    PROVE  AppliedInv'
<1> SUFFICES ASSUME NEW w \in Workers, NEW o \in Ords, pc'[w] \in PastPCs, Ord(w)' = o,
                    job'[w].ev.state \in TerminalStates
             PROVE  rec'[o].state \in TerminalStates
  BY DEF AppliedInv, Closes, Concerns, PastPCs
<1>1. ASSUME pc[w] \in PastPCs, job'[w] = job[w]
      PROVE  rec'[o].state \in TerminalStates
  <2>1. Closes(w, o)
    BY <1>1 DEF Closes, Concerns, PastPCs, Ord
  <2>2. rec[o].state \in TerminalStates
    BY <2>1 DEF AppliedInv
  <2> QED
    BY <2>2, BaseStep, ClosedRowsStay
<1>2. CASE Same(w)
  BY <1>1, <1>2 DEF Same
<1>3. CASE AppendEvent(w)
  <2>1. /\ job' = job
        /\ rec' = [rec EXCEPT ![Ord(w)] =
                     Appended(rec[Ord(w)], <<job[w].ev.state, job[w].ev.cum>>,
                              job[w].ev.state, job[w].ev.cum, ~IsStub(job[w].ev))]
    BY <1>3, Handed
  <2> QED
    BY <2>1, WorkerType DEF Base, Appended, Ord
<1>4. CASE BookFill(w)
  BY <1>1, <1>4 DEF BookFill, PastPCs
<1>5. CASE FinishEvent(w) \/ HandlerRaises(w)
  BY <1>5, FinishLeaves DEF FinishEvent, HandlerRaises
<1>6. CASE Crash
  BY <1>6 DEF Crash, PastPCs
<1> QED
  BY <1>2, <1>3, <1>4, <1>5, <1>6, PastAppend

LEMMA MayFollow ==
    /\ "submitting" \in Follows("intent")
    /\ \A s \in LiveStates : "rejected" \in Follows(s)
<1>1. "submitting" \in States /\ "rejected" \in States /\ "rejected" \in TerminalStates
  BY DEF States, LiveStates, EarlyStates, TerminalStates
<1>2. "submitting" \in States \ {"intent"} /\ "rejected" \in States \ {"intent"}
  BY <1>1
<1>3. Follows("intent") = States \ {"intent"}
  BY Zenon DEF Follows
<1>4. Follows("submitting") = States \ {"intent"}
  BY Zenon DEF Follows
<1>5. Follows("unknown") = States \ {"intent"}
  BY Zenon DEF Follows
<1>6. Follows("acknowledged") = WorkingStates \cup TerminalStates
  BY Zenon DEF Follows
<1>7. Follows("partial") = {"partial"} \cup TerminalStates
  BY Zenon DEF Follows
<1> QED
  BY <1>1, <1>2, <1>3, <1>4, <1>5, <1>6, <1>7 DEF LiveStates, EarlyStates, WorkingStates

\* Only the worker that acts moves.
Acts(w) ==
    \/ w \in Submitters /\ Submit(w)
    \/ ApplyEvent(w)

LEMMA OthersSame ==
    ASSUME Base, NEW w \in Workers, Acts(w), NEW v \in Workers, v # w
    PROVE  Same(v)
BY WorkersAreLocal DEF Acts, Local, Same, Base, TypeInv

LEMMA UntouchedBy ==
    ASSUME Base, NEW w \in Workers, Acts(w), NEW o \in Ords,
           ~Concerns(w, o), ~Concerns(w, o)'
    PROVE  Untouched(o)
BY OthersSame DEF Untouched

\* The submission's steps that touch its row or its reservation.
LEMMA ReservedCreate ==
    ASSUME Base, Base', PostInv, ReservedInv, handlerFails = 0, NEW t \in Submitters,
           Create(t), NEW o \in Ords
    PROVE  ReservedFor(o)'
<1>1. /\ rec \in [Ords -> Records] /\ resv \in [Ords -> Nat] /\ pc \in [Workers -> PCs]
      /\ t \in Workers /\ Ord(t) \in Ords /\ ReservedFor(o)
  BY WorkerType DEF Base, TypeInv, TypeOK, Workers, ReservedInv
<1>2. /\ rec[Ord(t)].state = "none" /\ pc[t] = "create" /\ pc'[t] = "mark"
      /\ rec' = [rec EXCEPT ![Ord(t)] = IntentRecord]
      /\ resv' = [resv EXCEPT ![Ord(t)] = Qty]
  <2>1. pc[t] = "create" /\ rec[Ord(t)].state = "none"
    BY DEF Create, PostInv, Sending
  <2> QED
    BY <1>1, <2>1 DEF Create, Goto
<1>3. CASE o # Ord(t)
  <2>1. Untouched(o)
    BY <1>1, <1>2, UntouchedBy DEF Acts, Submit, Concerns
  <2> QED
    BY <1>1, <1>2, <1>3, <2>1, ReservedKept
<1>4. CASE o = Ord(t)
  <2>1. rec'[o].cum = 0 /\ rec'[o].state = "intent" /\ resv'[o] = Qty
    BY <1>1, <1>2, <1>4 DEF IntentRecord, NoRecord
  <2>2. HeldRecorded'
    BY HeldFits, PTL
  <2>3. Held(o)' = {}
    <3>1. Held(o)' \subseteq 1..rec'[o].cum
      BY <2>2 DEF HeldRecorded
    <3> QED
      BY <2>1, <3>1
  <2>4. Cardinality(Held(o)') = 0
    BY <2>3, FS_EmptySet
  <2>5. resv'[o] = Qty - rec'[o].cum + Cardinality(Held(o)')
    BY <2>1, <2>4, QtyAssumption
  <2> QED
    BY <2>1, <2>5 DEF ReservedFor, TerminalStates
<1> QED
  BY <1>3, <1>4

LEMMA ReservedMark ==
    ASSUME Base, OwnInv, ReservedInv, handlerFails = 0, NEW t \in Submitters, Mark(t),
           NEW o \in Ords
    PROVE  ReservedFor(o)'
<1>1. /\ rec \in [Ords -> Records] /\ resv \in [Ords -> Nat] /\ pc \in [Workers -> PCs]
      /\ t \in Workers /\ Ord(t) \in Ords /\ ReservedFor(o)
  BY WorkerType DEF Base, TypeInv, TypeOK, Workers, ReservedInv
<1> DEFINE id == <<"submitting", job[t].ver + 1>>
           r  == Appended(rec[Ord(t)], id, "submitting", job[t].from, FALSE)
<1>2. pc[t] = "mark" /\ pc'[t] \notin PastPCs
  BY <1>1, FinishLeaves DEF Mark, Goto, PastPCs
<1>3. Untouched(o)
  BY <1>1, <1>2, UntouchedBy DEF Acts, Submit, Concerns, PastPCs
<1>4. CASE Retired(Ord(t))
  <2>1. "submitting" \notin Follows(rec[Ord(t)].state)
    BY <1>4, FollowsLive DEF Retired, LiveStates, EarlyStates, WorkingStates
  <2>2. rec' = rec /\ (resv' = resv \/ resv' = [resv EXCEPT ![Ord(t)] = NoResv])
    BY <2>1 DEF Mark, Appendable
  <2>3. CASE resv'[o] = resv[o]
    BY <1>1, <1>3, <2>2, <2>3, ReservedKept
  <2>4. CASE resv'[o] # resv[o]
    <3>1. o = Ord(t) /\ resv'[o] = NoResv
      BY <1>1, <2>2, <2>4
    <3> QED
      BY <1>4, <2>2, <3>1
         DEF Retired, ReservedFor, Open, LiveStates, EarlyStates, WorkingStates
  <2> QED
    BY <2>3, <2>4
<1>5. CASE rec[Ord(t)] = IntentRecord /\ job[t].ver = 0
  <2>1. job[t].from = rec[Ord(t)].cum
    BY <1>1, <1>2, <1>5 DEF Base, RowsInv, VerOK, AppendPCs, IntentRecord, NoRecord
  <2>2. Appendable(rec[Ord(t)], id, job[t].ver, "submitting")
    BY <1>5, MayFollow DEF Appendable, Seen, IntentRecord, NoRecord
  <2>3. /\ rec' = [rec EXCEPT ![Ord(t)] = r] \/ rec' = rec
        /\ resv' = resv
    BY <2>2 DEF Mark, Write
  <2>4. CASE rec'[o] = rec[o]
    BY <1>1, <1>3, <2>3, <2>4, ReservedKept
  <2>5. CASE rec'[o] # rec[o]
    <3>1. Ord(t) = o /\ rec'[o] = r
      BY <1>1, <2>3, <2>5
    <3>2. rec'[o].cum = rec[o].cum /\ rec'[o].state = "submitting" /\ rec[o].state = "intent"
      BY <1>5, <2>1, <3>1 DEF Appended, IntentRecord, NoRecord
    <3>3. Open(o) /\ Open(o)'
      BY <3>2 DEF Open, LiveStates, EarlyStates
    <3> QED
      BY <1>1, <1>3, <2>3, <3>2, <3>3, ReservedKept
  <2> QED
    BY <2>4, <2>5
<1> QED
  BY <1>2, <1>4, <1>5 DEF OwnInv

LEMMA ReservedConclude ==
    ASSUME Base, PostInv, OwnInv, IdsInv, ReservedInv, handlerFails = 0,
           NEW t \in Submitters, Conclude(t), NEW o \in Ords
    PROVE  ReservedFor(o)'
<1>1. /\ rec \in [Ords -> Records] /\ resv \in [Ords -> Nat] /\ pc \in [Workers -> PCs]
      /\ t \in Workers /\ Ord(t) \in Ords /\ ReservedFor(o) /\ rec[Ord(t)] \in Records
      /\ job[t].ver \in Nat
  BY WorkerType DEF Base, TypeInv, TypeOK, Workers, ReservedInv
<1> DEFINE state == IF job[t].refused THEN "rejected" ELSE "unknown"
           id    == <<state, job[t].ver + 1>>
           r     == Appended(rec[Ord(t)], id, state, job[t].from, FALSE)
<1>2. /\ pc[t] = "conclude" /\ pc'[t] \notin PastPCs
      /\ resv' = IF job[t].refused THEN [resv EXCEPT ![Ord(t)] = NoResv] ELSE resv
      /\ IF Appendable(rec[Ord(t)], id, job[t].ver, state)
         THEN rec' = [rec EXCEPT ![Ord(t)] = r] ELSE rec' = rec
  BY <1>1, FinishLeaves DEF Conclude, Write
<1>3. Untouched(o)
  BY <1>1, <1>2, UntouchedBy DEF Acts, Submit, Concerns, PastPCs
<1>4. CASE o # Ord(t)
  <2>1. rec'[o] = rec[o] /\ resv'[o] = resv[o]
    BY <1>1, <1>2, <1>4
  <2> QED
    BY <1>1, <1>3, <2>1, ReservedKept
<1>5. CASE o = Ord(t) /\ job[t].refused
  <2>1. /\ rec[o].state # "none" /\ ~AtBroker(o)
    BY <1>2, <1>5 DEF PostInv, Sending, Unsent, SendPCs
  <2>2. resv'[o] = NoResv
    BY <1>1, <1>2, <1>5
  <2>3. CASE Retired(o)
    <3>1. state \notin Follows(rec[o].state)
      BY <2>3, FollowsLive DEF Retired, LiveStates, EarlyStates, WorkingStates
    <3>2. rec' = rec
      BY <1>2, <1>5, <3>1 DEF Appendable
    <3> QED
      BY <2>2, <2>3, <3>2
         DEF Retired, ReservedFor, Open, LiveStates, EarlyStates, WorkingStates
  <2>4. CASE ~Retired(o)
    <3>1. rec[o].state \notin TerminalStates /\ job[t].ver = rec[o].version
      BY <1>2, <1>5, <2>1, <2>4 DEF OwnInv, SendPCs, Retired
    <3>2. rec[o].state \in LiveStates
      BY <1>1, <1>5, <2>1, <3>1 DEF Records, States
    <3>3. <<"rejected", job[t].ver + 1>> \notin rec[o].ids
      BY <1>1, <3>1 DEF IdsInv
    <3>4. Appendable(rec[Ord(t)], id, job[t].ver, state)
      BY <1>5, <3>1, <3>2, <3>3, MayFollow DEF Appendable, Seen
    <3>5. rec'[o].state = "rejected"
      BY <1>1, <1>2, <1>5, <3>4 DEF Appended
    <3> QED
      BY <2>2, <3>5
         DEF ReservedFor, Open, TerminalStates, LiveStates, EarlyStates, WorkingStates
  <2> QED
    BY <2>3, <2>4
<1>6. CASE o = Ord(t) /\ ~job[t].refused
  <2>1. resv' = resv
    BY <1>2, <1>6
  <2>2. CASE rec' = rec
    BY <1>1, <1>3, <2>1, <2>2, ReservedKept
  <2>3. CASE rec' # rec
    <3>1. Appendable(rec[o], id, job[t].ver, state) /\ rec'[o] = r
      BY <1>1, <1>2, <1>6, <2>3
    <3>2. job[t].from = rec[o].cum
      BY <1>2, <1>6, <3>1 DEF Base, RowsInv, VerOK, AppendPCs, Appendable, Workers
    <3>3. rec[o].state \in LiveStates
      <4>1. state \in Follows(rec[o].state)
        BY <3>1 DEF Appendable
      <4> QED
        BY <4>1, FollowsLive
    <3>4. rec'[o].state = "unknown" /\ rec'[o].cum = rec[o].cum
      BY <1>6, <3>1, <3>2 DEF Appended
    <3>5. Open(o) /\ Open(o)'
      BY <3>3, <3>4 DEF Open, LiveStates, EarlyStates
    <3> QED
      BY <1>1, <1>3, <2>1, <3>4, <3>5, ReservedKept
  <2> QED
    BY <2>2, <2>3
<1> QED
  BY <1>4, <1>5, <1>6

\* An append books nothing yet: its worker holds what is new.
LEMMA ReservedAppend ==
    ASSUME Base, Base', ReservedInv, handlerFails = 0, NEW w \in Workers, AppendEvent(w),
           NEW o \in Ords
    PROVE  ReservedFor(o)'
<1>1. /\ rec \in [Ords -> Records] /\ Ord(w) \in Ords /\ ReservedFor(o)
      /\ job[w].ev.cum \in 0..Qty /\ rec[o].cum \in 0..Qty
  BY WorkerType DEF Base, TypeInv, TypeOK, ReservedInv, Records
<1>2. pc[w] = "append" /\ resv' = resv /\ Acts(w)
  BY Handed DEF Acts, ApplyEvent
<1>3. CASE rec' = rec /\ pc'[w] \notin PastPCs
  <2>1. Untouched(o)
    BY <1>2, <1>3, UntouchedBy DEF Concerns, PastPCs
  <2> QED
    BY <1>1, <1>2, <1>3, <2>1, ReservedKept
<1>4. CASE ~(rec' = rec /\ pc'[w] \notin PastPCs)
  <2>1. /\ job' = job /\ pc'[w] = AfterAppend(w)
        /\ job[w].from = rec[Ord(w)].cum /\ job[w].from <= job[w].ev.cum
        /\ rec[Ord(w)].state \in LiveStates
        /\ rec' = [rec EXCEPT ![Ord(w)] =
                     Appended(rec[Ord(w)], <<job[w].ev.state, job[w].ev.cum>>,
                              job[w].ev.state, job[w].ev.cum, ~IsStub(job[w].ev))]
    BY <1>4, Handed
  <2>2. Ord(w)' = Ord(w)
    BY <2>1 DEF Ord
  <2>3. CASE o # Ord(w)
    <3>1. Untouched(o)
      BY <1>2, <2>2, <2>3, UntouchedBy DEF Concerns
    <3> QED
      BY <1>1, <1>2, <2>1, <2>3, <3>1, ReservedKept
  <2>4. CASE o = Ord(w)
    <3>1. PICK c \in 0..Qty, d \in 0..Qty :
            /\ c = rec[o].cum /\ d = job[w].ev.cum /\ c <= d /\ c = job[w].from
      BY <1>1, <2>1, <2>4
    <3>2. rec'[o].cum = d /\ rec'[o].state = job[w].ev.state
      BY <1>1, <2>1, <2>4, <3>1 DEF Appended
    <3>3. pc'[w] = IF d > c THEN "book" ELSE "finish"
      BY <2>1, <3>1 DEF AfterAppend
    <3>4. Span(w)' = (c + 1)..d /\ Span(w) = {}
      <4>1. Span(w)' = IF pc'[w] = "book" THEN (c + 1)..d ELSE {}
        BY <2>1, <3>1 DEF Span
      <4> QED
        BY <1>2, <3>1, <3>3, <4>1 DEF Span
    <3>5. ASSUME NEW v \in Workers, v # w
          PROVE  Span(v)' = Span(v) /\ Ord(v)' = Ord(v)
      BY <1>2, <3>5, OthersSame DEF Same, Span, Ord
    <3>6. (c + 1)..d \subseteq Units
      BY <3>1, QtyAssumption DEF Units
    <3>7. Held(o)' = Held(o) \cup ((c + 1)..d)
      <4>1. Held(o)' = {u \in Units : \E v \in Workers : Ord(v)' = o /\ u \in Span(v)'}
        BY DEF Held
      <4>2. \A u \in Units : (\E v \in Workers : Ord(v)' = o /\ u \in Span(v)')
              <=> \/ \E v \in Workers : Ord(v) = o /\ u \in Span(v)
                  \/ u \in (c + 1)..d
        BY <2>2, <2>4, <3>4, <3>5
      <4> QED
        BY <3>6, <4>1, <4>2 DEF Held
    <3>8. Held(o) \subseteq 1..c
      BY <3>1, HeldFits DEF HeldRecorded
    <3>9. /\ Cardinality(Held(o)') = Cardinality(Held(o)) + d - c
          /\ Cardinality(Held(o)) \in 0..c
      BY <3>1, <3>7, <3>8, CountAdds, CountFits
    <3>10. resv[o] = Qty - c + Cardinality(Held(o))
      BY <1>1, <2>1, <2>4, <3>1 DEF ReservedFor, Open
    <3>11. resv'[o] = Qty - rec'[o].cum + Cardinality(Held(o)')
      BY <1>2, <3>1, <3>2, <3>9, <3>10, QtyAssumption
    <3>12. rec'[o].state \in TerminalStates => Closes(w, o)'
      BY <2>1, <2>2, <2>4, <3>2, <3>3 DEF Closes, Concerns
    <3>13. rec'[o].state # "none"
      BY <1>1, <2>1, <3>2, <3>1, WorkerType
         DEF Base, Events, States, LiveStates, EarlyStates, WorkingStates, TerminalStates
    <3> QED
      BY <3>11, <3>12, <3>13 DEF ReservedFor
  <2> QED
    BY <2>3, <2>4
<1> QED
  BY <1>3, <1>4

\* Booking takes the worker's shares off what is held and off the reservation.
LEMMA ReservedBook ==
    ASSUME Base, ReservedInv, handlerFails = 0, NEW w \in Workers, BookFill(w),
           NEW o \in Ords
    PROVE  ReservedFor(o)'
<1>1. /\ rec \in [Ords -> Records] /\ Ord(w) \in Ords /\ ReservedFor(o)
      /\ resv \in [Ords -> Nat] /\ pc \in [Workers -> PCs]
      /\ job[w].ev.cum \in 0..Qty /\ job[w].from \in 0..Qty /\ rec[o].cum \in 0..Qty
  BY WorkerType DEF Base, TypeInv, TypeOK, ReservedInv, Records
<1>2. /\ pc[w] = "book" /\ pc'[w] = "finish" /\ job' = job /\ rec' = rec /\ Acts(w)
      /\ Reserve(Ord(w), job[w].ev.cum - job[w].from) /\ Ord(w)' = Ord(w)
  BY <1>1 DEF BookFill, Goto, Acts, ApplyEvent, Ord
<1>3. CASE o # Ord(w)
  <2>1. Untouched(o)
    BY <1>2, <1>3, UntouchedBy DEF Concerns
  <2>2. resv'[o] = resv[o]
    BY <1>1, <1>2, <1>3 DEF Reserve
  <2> QED
    BY <1>1, <1>2, <2>1, <2>2, ReservedKept
<1>4. CASE o = Ord(w)
  <2>1. PICK c \in 0..Qty, d \in 0..Qty : c = job[w].from /\ d = job[w].ev.cum /\ c < d
    BY <1>1, <1>2 DEF Base, BookingInv, SpanOK
  <2>2. Span(w) = (c + 1)..d /\ Span(w) \subseteq Held(o) /\ Span(w)' = {}
    BY <1>2, <1>4, <2>1, HeldHas DEF Span
  <2>3. ASSUME NEW v \in Workers, v # w
        PROVE  /\ Span(v)' = Span(v) /\ Ord(v)' = Ord(v)
               /\ Ord(v) = o => Span(v) \cap Span(w) = {}
    <3>1. Same(v)
      BY <1>2, <2>3, OthersSame
    <3>2. Ord(v) = o => Span(v) \cap Span(w) = {}
      BY <1>4, <2>3 DEF Base, BookingInv
    <3> QED
      BY <3>1, <3>2 DEF Same, Span, Ord
  <2>4. Held(o)' = Held(o) \ ((c + 1)..d)
    <3>1. Held(o)' = {u \in Units : \E v \in Workers : Ord(v)' = o /\ u \in Span(v)'}
      BY DEF Held
    <3>2. \A u \in Units : (\E v \in Workers : Ord(v)' = o /\ u \in Span(v)')
            <=> /\ \E v \in Workers : Ord(v) = o /\ u \in Span(v)
                /\ u \notin (c + 1)..d
      BY <2>2, <2>3
    <3> QED
      BY <3>1, <3>2 DEF Held
  <2>5. PICK n \in 0..Qty : n = rec[o].cum /\ Held(o) \subseteq 1..n
    BY <1>1, HeldFits DEF HeldRecorded
  <2>6. /\ Cardinality(Held(o)') = Cardinality(Held(o)) - (d - c)
        /\ d - c <= Cardinality(Held(o)) /\ Cardinality(Held(o)) \in 0..n
    <3>1. PICK S \in SUBSET (1..n) : S = Held(o) /\ (c + 1)..d \subseteq S
      BY <2>2, <2>5
    <3>2. c \in Nat /\ d \in Nat /\ n \in Nat /\ c <= d
      BY <2>1, QtyAssumption
    <3>3. Cardinality(S \ ((c + 1)..d)) = Cardinality(S) - (d - c)
          /\ d - c <= Cardinality(S)
      BY <3>1, <3>2, CountDrops
    <3>4. Cardinality(S) \in 0..n
      BY <3>2, CountFits
    <3> QED
      BY <2>4, <3>1, <3>3, <3>4
  <2>7. CASE resv[o] = NoResv
    <3>1. resv'[o] = NoResv
      BY <1>2, <1>4, <2>7 DEF Reserve
    <3>2. ~Open(o)
      BY <1>1, <2>5, <2>6, <2>7, QtyAssumption DEF ReservedFor, NoResv
    <3>3. ~Open(o)'
      BY <1>2, <3>2 DEF Open
    <3> QED
      BY <3>1, <3>3 DEF ReservedFor
  <2>8. CASE resv[o] # NoResv
    <3>1. resv'[o] = IF resv[o] > d - c THEN resv[o] - (d - c) ELSE 0
      BY <1>1, <1>2, <1>4, <2>1, <2>8 DEF Reserve
    <3>2. rec'[o].state # "none"
      BY <1>1, <1>2, <2>8 DEF ReservedFor
    <3>3. ASSUME Open(o)'
          PROVE  resv'[o] = Qty - rec'[o].cum + Cardinality(Held(o)')
      <4>1. Open(o)
        BY <1>2, <3>3 DEF Open
      <4>2. resv[o] = Qty - n + Cardinality(Held(o))
        BY <1>1, <2>5, <4>1 DEF ReservedFor
      <4> QED
        BY <1>2, <2>1, <2>5, <2>6, <3>1, <4>2, QtyAssumption
    <3>4. ASSUME rec'[o].state \in TerminalStates
          PROVE  \E v \in Workers : Closes(v, o)'
      <4>1. PICK v \in Workers : Closes(v, o)
        BY <1>1, <1>2, <2>8, <3>4 DEF ReservedFor
      <4>2. Closes(v, o)'
        <5>1. CASE v = w
          BY <1>2, <4>1, <5>1 DEF Closes, Concerns
        <5>2. CASE v # w
          BY <1>2, <4>1, <5>2, OthersSame DEF Same, Closes, Concerns, Ord
        <5> QED
          BY <5>1, <5>2
      <4> QED
        BY <4>2
    <3> QED
      BY <3>2, <3>3, <3>4 DEF ReservedFor
  <2> QED
    BY <2>7, <2>8
<1> QED
  BY <1>3, <1>4

\* The worker that closed a row drops its reservation.
LEMMA ReservedFinish ==
    ASSUME Base, AppliedInv, ReservedInv, handlerFails = 0, NEW w \in Workers,
           FinishEvent(w), NEW o \in Ords
    PROVE  ReservedFor(o)'
<1>1. /\ Ord(w) \in Ords /\ ReservedFor(o) /\ resv \in [Ords -> Nat]
      /\ Ord(w) = job[w].ev.ord
  BY WorkerType DEF Base, TypeInv, TypeOK, ReservedInv, Ord
<1>2. /\ pc[w] = "finish" /\ pc'[w] \notin PastPCs /\ rec' = rec /\ Acts(w)
      /\ resv' = IF job[w].ev.state \in TerminalStates
                 THEN [resv EXCEPT ![job[w].ev.ord] = NoResv] ELSE resv
  BY FinishLeaves DEF FinishEvent, Acts, ApplyEvent, durable
<1>3. CASE o # Ord(w)
  <2>1. Untouched(o)
    BY <1>2, <1>3, UntouchedBy DEF Concerns, PastPCs
  <2>2. resv'[o] = resv[o]
    BY <1>1, <1>2, <1>3
  <2> QED
    BY <1>1, <1>2, <2>1, <2>2, ReservedKept
<1>4. CASE o = Ord(w) /\ job[w].ev.state \in TerminalStates
  <2>1. Closes(w, o)
    BY <1>2, <1>4 DEF Closes, Concerns
  <2>2. rec'[o].state \in TerminalStates
    BY <1>2, <2>1 DEF AppliedInv
  <2>3. resv'[o] = NoResv
    BY <1>1, <1>2, <1>4
  <2> QED
    BY <2>2, <2>3 DEF ReservedFor, Open, TerminalStates, LiveStates, EarlyStates,
       WorkingStates
<1>5. CASE o = Ord(w) /\ job[w].ev.state \notin TerminalStates
  <2>1. resv' = resv
    BY <1>2, <1>5
  <2>2. ASSUME NEW v \in Workers
        PROVE  /\ Closes(v, o) => Closes(v, o)'
               /\ \A u : (Ord(v) = o /\ u \in Span(v))' <=> (Ord(v) = o /\ u \in Span(v))
    <3>1. CASE v = w
      BY <1>2, <1>5, <3>1 DEF Closes, Span, PastPCs
    <3>2. CASE v # w
      BY <1>2, <3>2, OthersSame DEF Same, Closes, Concerns, Ord, Span
    <3> QED
      BY <3>1, <3>2
  <2>3. Held(o)' = Held(o)
    BY <2>2 DEF Held
  <2> QED
    BY <1>1, <1>2, <2>1, <2>2, <2>3 DEF ReservedFor, Open
<1> QED
  BY <1>3, <1>4, <1>5

LEMMA ReservedCrash ==
    ASSUME Base, Crash, NEW o \in Ords
    PROVE  ReservedFor(o)'
<1>1. rec' = rec /\ resv'[o] = IF Open(o) THEN Qty - rec[o].cum ELSE NoResv
  BY DEF Crash, durable, Restored
<1>2. \A w \in Workers : Span(w)' = {}
  BY DEF Crash, Span
<1>3. Held(o)' = {}
  BY <1>2 DEF Held
<1>4. Cardinality(Held(o)') = 0
  BY <1>3, FS_EmptySet
<1>5. rec[o].cum \in 0..Qty
  BY DEF Base, TypeInv, TypeOK, Records
<1> QED
  BY <1>1, <1>4, <1>5, QtyAssumption
     DEF ReservedFor, Open, TerminalStates, LiveStates, EarlyStates, WorkingStates

\* Raising handlers are counted; nothing undoes one.
LEMMA HandlersCounted ==
    ASSUME TypeInv, [Next]_vars, handlerFails' = 0
    PROVE  handlerFails = 0 /\ \A w \in Workers : ~HandlerRaises(w)
<1>1. handlerFails \in Nat
  BY DEF TypeInv, TypeOK
<1>2. \A w \in Workers : ~HandlerRaises(w)
  BY <1>1 DEF HandlerRaises
<1>3. handlerFails' = handlerFails
  BY <1>2
     DEF Next, Submit, Identify, Lookup, Gate, Create, Mark, Post, WaitAccepted,
         WaitRefused, WaitLost, WaitGatewayError, Recover, Settle, Conclude, ApplyEvent,
         ReadRow, AppendEvent, BookFill, FinishEvent, NextUpdate, Reconcile, Capture,
         CaptureUnusable, SweepOrder, ListRows, RetireRow, CountLineage, Publish,
         Environment, Land, WireLoses, Execute, RequestCancel, CloseOrder, BrokerMoves,
         Age, Crash, vars
<1> QED
  BY <1>2, <1>3

\* What any other step does to rows and reservations: nothing.
LEMMA WhoReserves ==
    ASSUME [Next]_vars
    PROVE  \/ resv' = resv /\ rec' = rec
           \/ \E t \in Submitters : Create(t) \/ Mark(t) \/ Conclude(t)
           \/ \E w \in Workers :
                AppendEvent(w) \/ BookFill(w) \/ FinishEvent(w) \/ HandlerRaises(w)
           \/ Crash
BY DEF Next, Submit, Identify, Lookup, Gate, Post, WaitAccepted, WaitRefused, WaitLost,
       WaitGatewayError, Recover, Settle, ApplyEvent, ReadRow, NextUpdate, Reconcile,
       Capture, CaptureUnusable, SweepOrder, ListRows, RetireRow, CountLineage, Publish,
       Environment, Land, WireLoses, Execute, RequestCancel, CloseOrder, BrokerMoves,
       Age, durable, memory, vars

BooksInv == ReservedInv /\ IdsInv /\ AppliedInv

LEMMA BooksStep ==
    ASSUME Alone, ClosingInv, BooksInv, [Next]_vars
    PROVE  BooksInv'
<1>1. Base /\ PostInv /\ OwnInv /\ IdsInv /\ AppliedInv /\ ReservedInv /\ Base'
  BY BaseStep DEF ClosingInv, BooksInv
<1>2. IdsInv' /\ AppliedInv'
  BY <1>1, IdsStep, AppliedStep
<1>3. ASSUME handlerFails' = 0, NEW o \in Ords
      PROVE  ReservedFor(o)'
  <2>1. handlerFails = 0 /\ \A w \in Workers : ~HandlerRaises(w)
    BY <1>1, <1>3, HandlersCounted DEF Base
  <2>2. CASE \E t \in Submitters : Create(t) \/ Mark(t) \/ Conclude(t)
    BY <1>1, <2>1, <2>2, ReservedCreate, ReservedMark, ReservedConclude
  <2>3. CASE \E w \in Workers : AppendEvent(w) \/ BookFill(w) \/ FinishEvent(w)
    BY <1>1, <2>1, <2>3, ReservedAppend, ReservedBook, ReservedFinish
  <2>4. CASE Crash
    BY <1>1, <2>4, ReservedCrash
  <2>5. CASE /\ ~\E w \in Workers : AppendEvent(w) \/ BookFill(w) \/ FinishEvent(w)
             /\ ~Crash /\ resv' = resv /\ rec' = rec
    <3>1. Untouched(o)
      BY <1>1, <2>1, <2>5, PastAppend DEF Untouched, Concerns, PastPCs
    <3> QED
      BY <1>1, <2>1, <2>5, <3>1, ReservedKept DEF ReservedInv
  <2> QED
    BY <2>1, <2>2, <2>3, <2>4, <2>5, WhoReserves
<1> QED
  BY <1>2, <1>3 DEF BooksInv, ReservedInv

LEMMA IdleReserves == Base /\ BooksInv => ReservationsMatchRows
<1> SUFFICES ASSUME Base, BooksInv, handlerFails = 0, NEW o \in Ords,
                    \A w \in Workers : ~Busy(w, o)
             PROVE  resv[o] = IF Open(o) THEN Qty - rec[o].cum ELSE NoResv
  BY DEF ReservationsMatchRows
<1>1. \A w \in Workers : ~Concerns(w, o)
  BY DEF Busy, Concerns, ApplyPCs
<1>2. Held(o) = {}
  BY <1>1 DEF Held, Span, Concerns
<1>3. Cardinality(Held(o)) = 0
  BY <1>2, FS_EmptySet
<1>4. rec[o].cum \in 0..Qty /\ rec[o].state \in States \cup {"none"} /\ ReservedFor(o)
  BY DEF Base, TypeInv, TypeOK, Records, BooksInv, ReservedInv
<1>5. CASE Open(o)
  <2>1. resv[o] = Qty - rec[o].cum + 0
    BY <1>3, <1>4, <1>5 DEF ReservedFor
  <2> QED
    BY <1>4, <1>5, <2>1, QtyAssumption
<1>6. CASE ~Open(o)
  <2>1. rec[o].state = "none" \/ rec[o].state \in TerminalStates
    BY <1>4, <1>6 DEF Open, States
  <2>2. ~\E w \in Workers : Closes(w, o)
    BY <1>1 DEF Closes
  <2> QED
    BY <1>4, <1>6, <2>1, <2>2 DEF ReservedFor
<1> QED
  BY <1>5, <1>6

(***************************************************************************)
(* The reservations in memory are the rows: once no worker is busy with an  *)
(* order, an open row reserves what it may still buy and a closed row       *)
(* reserves nothing, after a restart as well, as long as no handler raised. *)
(* One thread submits the decision and a refusal is one; nothing is assumed *)
(* of the timing.                                                           *)
(***************************************************************************)
THEOREM ReservationsExact ==
    ASSUME Alone
    PROVE  Spec => []ReservationsMatchRows
<1>1. Init => ClosingInv /\ BooksInv
  BY ClosingInit, ReservedInit DEF BooksInv
<1>2. ClosingInv /\ BooksInv /\ [Next]_vars => ClosingInv' /\ BooksInv'
  BY ClosingStep, BooksStep
<1>3. ClosingInv /\ BooksInv => ReservationsMatchRows
  BY IdleReserves DEF ClosingInv
<1> QED
  BY <1>1, <1>2, <1>3, PTL DEF Spec
=============================================================================
