----------------------------- MODULE LiveOrders -----------------------------
(***************************************************************************)
(* One trading decision on its way to the broker, and the broker's answer   *)
(* on its way back into the books (live_orders/service.py, store.py,        *)
(* reconcile.py, wired together in broker.py and broker_adapters/alpaca.py).*)
(*                                                                         *)
(* The actors, each a thread of the program:                                *)
(*   Submitters   run LiveOrderService.submit.  The strategy loop waits 90  *)
(*                seconds for its executor thread and then goes on, so a    *)
(*                second thread may submit the same decision while the      *)
(*                first is still inside submit.                             *)
(*   StreamWorker the single worker that applies trade updates in order.    *)
(*   Reconcilers  the strategy loop and the snapshot thread, each running   *)
(*                capture_reconciliation_snapshot, StartupReconciler and    *)
(*                complete_startup_reconciliation.                          *)
(* They share the durable rows (an ordinal of the decision is a row, keyed  *)
(* by its client order id), the risk sleeve that confirmed fills are booked *)
(* into, and the process memory: reservations, position mirror, health.     *)
(* The environment is the broker (external), the wire to it, time, crashes. *)
(*                                                                         *)
(* The decision is a BUY: a row counts the shares it bought.                *)
(***************************************************************************)
EXTENDS OrderLifecycle, Sequences, FiniteSets

CONSTANTS
    MaxRetries,     \* max_terminal_retries of the service
    Submitters, Reconcilers, StreamWorker,
    MaxCrashes,     \* bound: restarts of the process in a behaviour
    MaxHandlerFails,\* bound: confirmed-fill handlers that raise
    MaxQueue,       \* bound: trade updates that wait in the stream's queue
    PromptPosts,    \* a POST is over before its row is past the grace period
    FreshDecision,  \* the decision's own timestamp is within the grace period
    GatewayErrors   \* a proxy may answer 5xx for a POST that is still running

Workers == Submitters \cup Reconcilers \cup {StreamWorker}
Ords    == 0..MaxRetries

ASSUME ConstantsAssumption ==
    /\ MaxRetries \in Nat
    /\ MaxCrashes \in Nat
    /\ MaxHandlerFails \in Nat
    /\ MaxQueue \in Nat
    /\ {PromptPosts, FreshDecision, GatewayErrors} \subseteq BOOLEAN
    /\ StreamWorker \notin Submitters \cup Reconcilers
    /\ Submitters \cap Reconcilers = {}

VARIABLES
    rec,        \* [Ords -> Records]: the durable lifecycle rows
    aged,       \* the rows whose last event is older than the grace period
    booked,     \* [Ords -> [Units -> Nat]]: how often the durable risk
                \* sleeve was told of each share of an order
    broker,     \* [Ords -> order at the broker]: status and filled shares
    wire,       \* [Ords -> Nat]: POSTs on their way to the broker
    stream,     \* trade updates queued for the stream worker
    pc,         \* where each worker is
    job,        \* the registers of each worker
    snap,       \* the broker snapshot each reconciler works from
    resv,       \* [Ords -> remaining shares, or NoResv]: _reservations
    mirror,     \* the adapter's position mirror, in shares
    healthy,    \* the "positions" health that reconciliation publishes
    crashes, handlerFails

durable == <<rec, aged, booked>>
memory  == <<resv, mirror, healthy>>
outside == <<broker, wire, stream>>
vars == <<durable, memory, outside, pc, job, snap, crashes, handlerFails>>

-----------------------------------------------------------------------------
BrokerStates == {"absent", "working", "canceling", "filled", "canceled"}
NoOrder      == [status |-> "absent", fill |-> 0]

Events == [ord: Ords, state: States, cum: 0..Qty]
NoEvent == [ord |-> 0, state |-> "intent", cum |-> 0]
Event(o, state, cum) == [ord |-> o, state |-> state, cum |-> cum]

\* submit once its row may exist, apply_broker_event, and the whole.
SendPCs  == {"create", "mark", "post", "wait", "recover", "settle", "conclude"}
ApplyPCs == {"read", "append", "book", "finish"}
Phases   == {"idle", "sweep", "retire"}
PCs == SendPCs \cup ApplyPCs \cup Phases \cup {"lookup", "gate", "publish"}

(***************************************************************************)
(* The registers of a worker: the event it applies, the version and the     *)
(* cumulative quantity it read from the row, whether the broker refused the *)
(* order it submits, and, in a reconciler, the orders left to do, the loop   *)
(* it is in, whether an issue was found and the lineage it counted.         *)
(***************************************************************************)
Jobs == [ev: Events, ver: Nat, from: 0..Qty, refused: BOOLEAN,
         todo: SUBSET Events, phase: Phases, issue: BOOLEAN, lineage: Nat]

NoJob == [ev |-> NoEvent, ver |-> 0, from |-> 0, refused |-> FALSE,
          todo |-> {}, phase |-> "idle", issue |-> FALSE, lineage |-> 0]

\* What a snapshot shows: orders, position, and the rows that were old then.
Snaps  == [shown: SUBSET Ords, position: Nat, old: SUBSET (Ords \X Nat)]
NoSnap == [shown |-> {}, position |-> 0, old |-> {}]
NoResv == Qty + 1

(***************************************************************************)
(* What the broker holds for an order, as an event: a REST reply            *)
(* (_event_from_reference, _event_from_order) and a trade update            *)
(* (_normalized_trade_update) read alike.                                   *)
(***************************************************************************)
StateOf(order) ==
    CASE order.status = "canceling" -> "acknowledged"
      [] order.status = "canceled"  -> "canceled"
      [] order.status = "filled"    -> "filled"
      [] OTHER -> IF order.fill = 0 THEN "acknowledged" ELSE "partial"

\* (Mutation: the requested quantity where the filled one belongs.)
ReferenceOfRequest(o) == Event(o, StateOf(broker[o]), Qty)

Reference(o) == Event(o, StateOf(broker[o]), broker[o].fill)

AtBroker(o) == broker[o].status # "absent"
Open(o) == rec[o].state \in LiveStates

\* Shares the broker holds for the decision, and shares the rows account for.
Position == Cardinality({s \in Ords \X Units : s[2] <= broker[s[1]].fill})
Lineage  == Cardinality({s \in Ords \X Units : s[2] <= rec[s[1]].cum})

Init ==
    /\ rec = [o \in Ords |-> NoRecord]
    /\ aged = {}
    /\ booked = [o \in Ords |-> [u \in Units |-> 0]]
    /\ broker = [o \in Ords |-> NoOrder]
    /\ wire = [o \in Ords |-> 0]
    /\ stream = <<>>
    /\ pc = [w \in Workers |-> "idle"]
    /\ job = [w \in Workers |-> NoJob]
    /\ snap = [r \in Reconcilers |-> NoSnap]
    /\ resv = [o \in Ords |-> NoResv]
    /\ mirror = 0
    /\ healthy = FALSE
    /\ crashes = 0
    /\ handlerFails = 0

(***************************************************************************)
(* Control helpers.  A worker that has applied its event goes back to its   *)
(* caller: a reconciler to the loop it was in, the others to idle.          *)
(***************************************************************************)
Goto(w, label) == pc' = [pc EXCEPT ![w] = label]

Finish(w) ==
    /\ pc' = [pc EXCEPT ![w] = IF w \in Reconcilers THEN job[w].phase ELSE "idle"]
    /\ job' = [job EXCEPT ![w] =
                 IF w \in Reconcilers
                 THEN [@ EXCEPT !.ev = NoEvent, !.ver = 0, !.from = 0]
                 ELSE NoJob]

Done(w) ==
    /\ Goto(w, "idle")
    /\ job' = [job EXCEPT ![w] = NoJob]

\* Start applying event e in worker w.
Apply(w, e) ==
    /\ Goto(w, "read")
    /\ job' = [job EXCEPT ![w].ev = e]

\* The row of o becomes r: an event written now is not old.
Write(o, r) ==
    /\ rec' = [rec EXCEPT ![o] = r]
    /\ aged' = aged \ {o}

-----------------------------------------------------------------------------
(***************************************************************************)
(* LiveOrderService.submit, in submitter t for ordinal job[t].ev.ord.       *)
(***************************************************************************)
Ord(w) == job[w].ev.ord

\* _live_identity: walk past the spent ordinals.  A fresh ordinal goes to the
\* gate, an open row to the broker lookup; a row that ended with shares, or
\* no ordinal left, denies the submission and changes nothing.
Identify(t) ==
    /\ pc[t] = "idle"
    /\ \E o \in Ords :
         /\ \A p \in Ords : p < o => Spent(rec[p])
         /\ \/ rec[o].state = "none" /\ Goto(t, "gate")
            \/ Open(o) /\ Goto(t, "lookup")
         /\ job' = [job EXCEPT ![t].ev = Event(o, "intent", 0)]
    /\ UNCHANGED <<durable, memory, outside, snap, crashes, handlerFails>>

\* _reconcile_existing: ask the broker for the order of an open row.  No
\* answer, or none found, ends the call with the outcome uncertain.
Lookup(t) ==
    /\ pc[t] = "lookup"
    /\ \/ AtBroker(Ord(t)) /\ Apply(t, Reference(Ord(t)))
       \/ Done(t)
    /\ UNCHANGED <<durable, memory, outside, snap, crashes, handlerFails>>

\* The gate: positions health is required of every order, and an order that is
\* already open is refused.  Any other dependency may refuse as well.
Gate(t) ==
    /\ pc[t] = "gate"
    /\ \/ healthy /\ ~Open(Ord(t)) /\ Goto(t, "create") /\ UNCHANGED job
       \/ Done(t)
    /\ UNCHANGED <<durable, memory, outside, snap, crashes, handlerFails>>

\* store.create_intent, which hands back the row another thread created
\* first, and the reservation that follows it.
Create(t) ==
    /\ pc[t] = "create"
    /\ LET o == Ord(t) IN
         /\ IF rec[o].state = "none"
            THEN /\ rec' = [rec EXCEPT ![o] = IntentRecord]
                 /\ aged' = IF FreshDecision THEN aged \ {o} ELSE aged \cup {o}
                 /\ job' = job
            ELSE /\ job' = [job EXCEPT ![t].ver = rec[o].version,
                                       ![t].from = rec[o].cum]
                 /\ UNCHANGED <<rec, aged>>
         /\ resv' = [resv EXCEPT ![o] = Qty]
    /\ Goto(t, "mark")
    /\ UNCHANGED <<booked, outside, mirror, healthy, snap, crashes, handlerFails>>

\* The submitting event, under the version read at Create.  A conflict frees
\* the reservation and denies; a duplicate id is no conflict and goes on.
Mark(t) ==
    /\ pc[t] = "mark"
    /\ LET o  == Ord(t)
           id == <<"submitting", job[t].ver + 1>> IN
         \/ /\ Appendable(rec[o], id, job[t].ver, "submitting")
            /\ Write(o, Appended(rec[o], id, "submitting", job[t].from, FALSE))
            /\ Goto(t, "post")
            /\ UNCHANGED <<job, resv>>
         \/ /\ Seen(rec[o], id)
            /\ Goto(t, "post")
            /\ UNCHANGED <<rec, aged, job, resv>>
         \/ /\ ~Seen(rec[o], id)
            /\ ~Appendable(rec[o], id, job[t].ver, "submitting")
            /\ resv' = [resv EXCEPT ![o] = NoResv]
            /\ Done(t)
            /\ UNCHANGED <<rec, aged>>
    /\ UNCHANGED <<booked, outside, mirror, healthy, snap, crashes, handlerFails>>

\* adapter.submit_order: look the client order id up first.  Found: that is
\* the reply.  Lookup down: ambiguous, nothing sent.  A preflight check may
\* refuse, nothing sent.  Otherwise the POST leaves.
Post(t) ==
    /\ pc[t] = "post"
    /\ LET o == Ord(t) IN
         \/ AtBroker(o) /\ Apply(t, Reference(o)) /\ UNCHANGED wire
         \/ Goto(t, "recover") /\ UNCHANGED <<job, wire>>
         \/ /\ ~AtBroker(o)
            /\ Goto(t, "recover")
            /\ job' = [job EXCEPT ![t].refused = TRUE]
            /\ UNCHANGED wire
         \/ /\ ~AtBroker(o)
            /\ wire' = [wire EXCEPT ![o] = @ + 1]
            /\ Goto(t, "wait")
            /\ UNCHANGED job
    /\ UNCHANGED <<durable, memory, broker, stream, snap, crashes, handlerFails>>

\* The order is at the broker and the adapter learns it, from the reply or
\* from the lookup it makes when the POST raised.
WaitAccepted(t) ==
    /\ pc[t] = "wait"
    /\ AtBroker(Ord(t))
    /\ Apply(t, Reference(Ord(t)))
    /\ UNCHANGED <<durable, memory, outside, snap, crashes, handlerFails>>

\* The broker answers that it takes no such order, and holds none.
WaitRefused(t) ==
    /\ pc[t] = "wait"
    /\ wire[Ord(t)] > 0 /\ ~AtBroker(Ord(t))
    /\ wire' = [wire EXCEPT ![Ord(t)] = @ - 1]
    /\ job' = [job EXCEPT ![t].refused = TRUE]
    /\ Goto(t, "recover")
    /\ UNCHANGED <<durable, memory, broker, stream, snap, crashes, handlerFails>>

\* (Mutation: every exception counts as the broker's refusal.)
WaitLostIsRefused(t) ==
    /\ pc[t] = "wait"
    /\ job' = [job EXCEPT ![t].refused = TRUE]
    /\ Goto(t, "recover")
    /\ UNCHANGED <<durable, memory, outside, snap, crashes, handlerFails>>

\* The POST raised without an answer: a timeout, a reset connection.
WaitLost(t) ==
    /\ pc[t] = "wait"
    /\ Goto(t, "recover")
    /\ UNCHANGED <<job, durable, memory, outside, snap, crashes, handlerFails>>

\* A 5xx answer while the POST is still running: it carries a status code, so
\* the adapter sets broker_definitive_rejection.
WaitGatewayError(t) ==
    /\ GatewayErrors
    /\ pc[t] = "wait"
    /\ ~AtBroker(Ord(t))
    /\ job' = [job EXCEPT ![t].refused = TRUE]
    /\ Goto(t, "recover")
    /\ UNCHANGED <<durable, memory, outside, snap, crashes, handlerFails>>

\* The service's own lookup after the transport raised.
Recover(t) ==
    /\ pc[t] = "recover"
    /\ \/ AtBroker(Ord(t)) /\ Apply(t, Reference(Ord(t)))
       \/ Goto(t, "settle") /\ UNCHANGED job
    /\ UNCHANGED <<durable, memory, outside, snap, crashes, handlerFails>>

\* require() before the closing event ...
Settle(t) ==
    /\ pc[t] = "settle"
    /\ job' = [job EXCEPT ![t].ver = rec[Ord(t)].version,
                          ![t].from = rec[Ord(t)].cum]
    /\ Goto(t, "conclude")
    /\ UNCHANGED <<durable, memory, outside, snap, crashes, handlerFails>>

\* ... and that event: rejected when the broker refused, else unknown.  A
\* store that declines it is swallowed.  A refusal frees the reservation.
Conclude(t) ==
    /\ pc[t] = "conclude"
    /\ LET o     == Ord(t)
           state == IF job[t].refused THEN "rejected" ELSE "unknown"
           id    == <<state, job[t].ver + 1>> IN
         /\ IF Appendable(rec[o], id, job[t].ver, state)
            THEN Write(o, Appended(rec[o], id, state, job[t].from, FALSE))
            ELSE UNCHANGED <<rec, aged>>
         /\ resv' = IF job[t].refused THEN [resv EXCEPT ![o] = NoResv] ELSE resv
    /\ Done(t)
    /\ UNCHANGED <<booked, outside, mirror, healthy, snap, crashes, handlerFails>>

Submit(t) ==
    \/ Identify(t) \/ Lookup(t) \/ Gate(t) \/ Create(t) \/ Mark(t) \/ Post(t)
    \/ WaitAccepted(t) \/ WaitRefused(t) \/ WaitLost(t) \/ WaitGatewayError(t)
    \/ Recover(t) \/ Settle(t) \/ Conclude(t)

-----------------------------------------------------------------------------
(***************************************************************************)
(* LiveOrderService.apply_broker_event, in any worker w.                    *)
(***************************************************************************)
\* Read the row and drop what it already covers.
ReadRow(w) ==
    /\ pc[w] = "read"
    /\ LET e == job[w].ev
           r == rec[e.ord] IN
         \/ /\ Relevant(r, e.state, e.cum)
            /\ job' = [job EXCEPT ![w].ver = r.version, ![w].from = r.cum]
            /\ Goto(w, "append")
         \/ ~Relevant(r, e.state, e.cum) /\ Finish(w)
    /\ UNCHANGED <<durable, memory, outside, snap, crashes, handlerFails>>

\* The reconciler's own closing event; no broker status maps to it here.
IsStub(e) == e.state = "expired"

\* (Mutations: canceled and filled events that bring shares go unbooked, an
\* event the store declined is booked all the same.)
AfterAppendPartials(w) ==
    IF job[w].ev.state \in {"partial", "filled"} /\ job[w].ev.cum < Qty
    THEN "book" ELSE "finish"
DeclinedIsBooked(w) ==
    IF job[w].ev.cum > job[w].from
    THEN Goto(w, "book") /\ UNCHANGED job ELSE Finish(w)

\* New shares are booked, whatever the state of the event that brings them; an
\* event that the store declines ends the call.
AfterAppend(w) == IF job[w].ev.cum > job[w].from THEN "book" ELSE "finish"
Declined(w) == Finish(w)

\* store.append under the version that was read.  Losing the race, or an
\* illegal transition, drops the event; the broker's next word repeats it.
AppendEvent(w) ==
    /\ pc[w] = "append"
    /\ LET e  == job[w].ev
           r  == rec[e.ord]
           id == <<e.state, e.cum>> IN
         \/ /\ Appendable(r, id, job[w].ver, e.state)
            /\ Write(e.ord, Appended(r, id, e.state, e.cum, ~IsStub(e)))
            /\ Goto(w, AfterAppend(w))
            /\ UNCHANGED job
         \/ /\ ~Appendable(r, id, job[w].ver, e.state)
            /\ Declined(w)
            /\ UNCHANGED <<rec, aged>>
    /\ UNCHANGED <<booked, memory, outside, snap, crashes, handlerFails>>

\* The shares that worker w has made durable and not yet booked.
Span(w) == IF pc[w] = "book" THEN (job[w].from + 1)..job[w].ev.cum ELSE {}

Reserve(o, n) ==
    resv' = IF resv[o] = NoResv THEN resv
            ELSE [resv EXCEPT ![o] = IF @ > n THEN @ - n ELSE 0]

\* The reservation is drawn down and confirmed_fill_handler books the shares.
BookFill(w) ==
    /\ pc[w] = "book"
    /\ LET o == Ord(w) IN
         /\ booked' = [booked EXCEPT ![o] =
                         [u \in Units |-> IF u \in Span(w) THEN @[u] + 1 ELSE @[u]]]
         /\ Reserve(o, job[w].ev.cum - job[w].from)
    /\ Goto(w, "finish")
    /\ UNCHANGED <<rec, aged, mirror, healthy, outside, job, snap, crashes, handlerFails>>

\* The handler raises (no risk state, or its row was saved by another thread
\* meanwhile): the exception leaves apply_broker_event with the fill durable
\* and nothing booked.  A reconcile it interrupts publishes "unhealthy".
HandlerRaises(w) ==
    /\ handlerFails < MaxHandlerFails
    /\ pc[w] = "book"
    /\ handlerFails' = handlerFails + 1
    /\ Reserve(Ord(w), job[w].ev.cum - job[w].from)
    /\ IF w \in Reconcilers
       THEN healthy' = FALSE /\ snap' = [snap EXCEPT ![w] = NoSnap]
       ELSE UNCHANGED <<healthy, snap>>
    /\ Done(w)
    /\ UNCHANGED <<durable, mirror, outside, crashes>>

\* A terminal event drops the reservation; event_handler moves the mirror.
FinishEvent(w) ==
    /\ pc[w] = "finish"
    /\ LET e == job[w].ev IN
         /\ resv' = IF e.state \in TerminalStates
                    THEN [resv EXCEPT ![e.ord] = NoResv] ELSE resv
         /\ mirror' = mirror + (e.cum - job[w].from)
    /\ Finish(w)
    /\ UNCHANGED <<durable, healthy, outside, snap, crashes, handlerFails>>

ApplyEvent(w) ==
    \/ ReadRow(w) \/ AppendEvent(w) \/ BookFill(w) \/ HandlerRaises(w)
    \/ FinishEvent(w)

\* The stream worker takes the next trade update off its queue.
NextUpdate ==
    /\ pc[StreamWorker] = "idle"
    /\ stream # <<>>
    /\ stream' = Tail(stream)
    /\ Apply(StreamWorker, Head(stream))
    /\ UNCHANGED <<durable, memory, broker, wire, snap, crashes, handlerFails>>

-----------------------------------------------------------------------------
(***************************************************************************)
(* _reconcile_alpaca_ownership, in reconciler r.                            *)
(***************************************************************************)
\* (Mutation: the snapshot asks for open orders only.)
ShownOpen == {o \in Ords : broker[o].status \in {"working", "canceling"}}

\* Orders of every status are asked for.
Shown == {o \in Ords : AtBroker(o)}

\* capture_reconciliation_snapshot: orders, position and the moment of
\* observation, of which only this matters later: which rows were old by then.
Capture(r) ==
    /\ pc[r] = "idle"
    /\ snap' = [snap EXCEPT ![r] =
                  [shown |-> Shown, position |-> Position,
                   old |-> {<<o, rec[o].version>> : o \in aged}]]
    /\ job' = [job EXCEPT ![r].todo = {Reference(o) : o \in Shown},
                          ![r].phase = "sweep"]
    /\ Goto(r, "sweep")
    /\ UNCHANGED <<durable, memory, outside, crashes, handlerFails>>

\* The broker does not answer, its positions move while they are read, or its
\* order list is cut short: nothing is applied and nothing is owned.
CaptureUnusable(r) ==
    /\ pc[r] = "idle"
    /\ healthy' = FALSE
    /\ mirror' \in {0, mirror}
    /\ UNCHANGED <<durable, resv, outside, pc, job, snap, crashes, handlerFails>>

\* The first loop: every broker order of a known row goes to the applier.
SweepOrder(r) ==
    /\ pc[r] = "sweep"
    /\ \E e \in job[r].todo :
         job' = [job EXCEPT ![r].todo = @ \ {e}, ![r].ev = e]
    /\ Goto(r, "read")
    /\ UNCHANGED <<durable, memory, outside, snap, crashes, handlerFails>>

\* Whether the last event of o was past the grace period when r observed.
WasOld(r, o) ==
    \/ <<o, rec[o].version>> \in snap[r].old
    \/ ~FreshDecision /\ rec[o].version = 0

\* The rows are listed again: those still open that the snapshot does not show
\* are retired when abandoned and old, and are an issue otherwise.
ListRows(r) ==
    /\ pc[r] = "sweep"
    /\ job[r].todo = {}
    /\ LET missing == {o \in Ords : Open(o)} \ snap[r].shown
           retire  == {o \in missing : Abandonable(rec[o]) /\ WasOld(r, o)} IN
         job' = [job EXCEPT ![r].todo = {Event(o, "expired", 0) : o \in retire},
                            ![r].phase = "retire",
                            ![r].issue = missing # retire,
                            ![r].lineage = Lineage]
         /\ Goto(r, IF retire = {} THEN "publish" ELSE "retire")
    /\ snap' = [snap EXCEPT ![r].shown = {}, ![r].old = {}]
    /\ UNCHANGED <<durable, memory, outside, crashes, handlerFails>>

\* _resolve_abandoned: the closing event goes through the same applier, which
\* reads the row afresh.
RetireRow(r) ==
    /\ pc[r] = "retire"
    /\ \E e \in job[r].todo :
         job' = [job EXCEPT ![r].todo = @ \ {e}, ![r].ev = e]
    /\ Goto(r, "read")
    /\ UNCHANGED <<durable, memory, outside, snap, crashes, handlerFails>>

\* The rows are read once more, only when one was retired.
CountLineage(r) ==
    /\ pc[r] = "retire"
    /\ job[r].todo = {}
    /\ job' = [job EXCEPT ![r].lineage = Lineage]
    /\ Goto(r, "publish")
    /\ UNCHANGED <<durable, memory, outside, snap, crashes, handlerFails>>

\* Ownership: what the lifecycle proves and the broker holds.  Lineage above
\* the broker's position is an issue.
Publish(r) ==
    /\ pc[r] = "publish"
    /\ mirror' = IF job[r].lineage < snap[r].position
                 THEN job[r].lineage ELSE snap[r].position
    /\ healthy' = (~job[r].issue /\ job[r].lineage <= snap[r].position)
    /\ snap' = [snap EXCEPT ![r] = NoSnap]
    /\ Done(r)
    /\ UNCHANGED <<durable, resv, outside, crashes, handlerFails>>

Reconcile(r) ==
    \/ Capture(r) \/ CaptureUnusable(r) \/ SweepOrder(r) \/ ListRows(r)
    \/ RetireRow(r) \/ CountLineage(r) \/ Publish(r)

-----------------------------------------------------------------------------
(***************************************************************************)
(* The environment.                                                         *)
(***************************************************************************)
\* The broker changes order o and sends a trade update, which the process may
\* miss while the stream is down.
BrokerMoves(o, order) ==
    /\ broker' = [broker EXCEPT ![o] = order]
    /\ \/ UNCHANGED stream
       \/ /\ Len(stream) < MaxQueue
          /\ stream' = Append(stream, Event(o, StateOf(order), order.fill))
    /\ UNCHANGED <<durable, memory, pc, job, snap, crashes, handlerFails>>

\* A POST arrives.  A client order id the broker knows is turned away.
Land(o) ==
    /\ wire[o] > 0
    /\ wire' = [wire EXCEPT ![o] = @ - 1]
    /\ \/ ~AtBroker(o) /\ BrokerMoves(o, [status |-> "working", fill |-> 0])
       \/ /\ AtBroker(o)
          /\ UNCHANGED <<durable, memory, broker, stream, pc, job, snap, crashes, handlerFails>>

\* A POST never arrives.
WireLoses(o) ==
    /\ wire[o] > 0
    /\ wire' = [wire EXCEPT ![o] = @ - 1]
    /\ UNCHANGED <<durable, memory, broker, stream, pc, job, snap, crashes, handlerFails>>

Execute(o) ==
    /\ broker[o].status \in {"working", "canceling"}
    /\ BrokerMoves(o, [status |-> IF broker[o].fill + 1 = Qty THEN "filled"
                                  ELSE broker[o].status,
                       fill |-> broker[o].fill + 1])
    /\ UNCHANGED wire

\* Somebody asks for the cancel: a kill switch, a bracket exit, the operator.
\* The order reads "pending_cancel" until it closes.  Without a share it reads
\* like a working order, and is left working here.
RequestCancel(o) ==
    /\ broker[o].status = "working"
    /\ broker[o].fill > 0
    /\ BrokerMoves(o, [broker[o] EXCEPT !.status = "canceling"])
    /\ UNCHANGED wire

\* The order is over with what it has: canceled, rejected or expired there.
CloseOrder(o) ==
    /\ broker[o].status \in {"working", "canceling"}
    /\ BrokerMoves(o, [broker[o] EXCEPT !.status = "canceled"])
    /\ UNCHANGED wire

\* Time passes: the last event of o is now older than the grace period.
Age(o) ==
    /\ o \notin aged
    /\ rec[o].state \in EarlyStates
    /\ PromptPosts =>
         /\ wire[o] = 0
         /\ \A t \in Submitters :
              pc[t] \in SendPCs => Ord(t) # o
    /\ aged' = aged \cup {o}
    /\ UNCHANGED <<rec, booked, memory, outside, pc, job, snap, crashes, handlerFails>>

\* (Mutation: terminal rows are restored too.)
RestoredAll ==
    [o \in Ords |-> IF rec[o].state = "none" THEN NoResv ELSE Qty - rec[o].cum]

Restored == [o \in Ords |-> IF Open(o) THEN Qty - rec[o].cum ELSE NoResv]

\* The process dies and comes back: threads, stream queue and mirror are gone,
\* the health is unknown, _restore_reservations rebuilds the reservations.
Crash ==
    /\ crashes < MaxCrashes
    /\ crashes' = crashes + 1
    /\ pc' = [w \in Workers |-> "idle"]
    /\ job' = [w \in Workers |-> NoJob]
    /\ snap' = [r \in Reconcilers |-> NoSnap]
    /\ stream' = <<>>
    /\ resv' = Restored
    /\ mirror' = 0
    /\ healthy' = FALSE
    /\ UNCHANGED <<durable, broker, wire, handlerFails>>

Environment ==
    \/ \E o \in Ords : \/ Land(o) \/ WireLoses(o) \/ Execute(o)
                       \/ RequestCancel(o) \/ CloseOrder(o) \/ Age(o)
    \/ Crash

Next ==
    \/ \E t \in Submitters : Submit(t)
    \/ \E w \in Workers : ApplyEvent(w)
    \/ NextUpdate
    \/ \E r \in Reconcilers : Reconcile(r)
    \/ Environment

Spec == Init /\ [][Next]_vars

(***************************************************************************)
(* Fairness: the threads keep running (a submission is only ever begun by   *)
(* choice), the loops that reconcile get an answer from the broker now and  *)
(* then, a POST is over at some point, time passes.  Nothing is assumed of  *)
(* the broker's executions, of the stream or of the handlers.               *)
(***************************************************************************)
SubmitStep(t) == pc[t] # "idle" /\ Submit(t)

Fairness ==
    /\ \A t \in Submitters : WF_vars(SubmitStep(t))
    /\ \A w \in Workers : WF_vars(ApplyEvent(w))
    /\ WF_vars(NextUpdate)
    /\ \A r \in Reconcilers :
         /\ WF_vars(Capture(r))
         /\ WF_vars(SweepOrder(r) \/ ListRows(r) \/ RetireRow(r)
                    \/ CountLineage(r) \/ Publish(r))
    /\ \A o \in Ords : WF_vars(Land(o) \/ WireLoses(o)) /\ WF_vars(Age(o))

FairSpec == Spec /\ Fairness

-----------------------------------------------------------------------------
TypeOK ==
    /\ rec \in [Ords -> Records]
    /\ aged \subseteq Ords
    /\ booked \in [Ords -> [Units -> Nat]]
    /\ broker \in [Ords -> [status: BrokerStates, fill: 0..Qty]]
    /\ wire \in [Ords -> Nat]
    /\ stream \in Seq(Events)
    /\ pc \in [Workers -> PCs]
    /\ job \in [Workers -> Jobs]
    /\ snap \in [Reconcilers -> Snaps]
    /\ resv \in [Ords -> Nat]
    /\ mirror \in Int
    /\ healthy \in BOOLEAN
    /\ crashes \in Nat
    /\ handlerFails \in Nat

(***************************************************************************)
(* Nothing is counted that the broker did not execute: the durable row never*)
(* shows more shares than the broker filled on that client order id,        *)
(* whichever of the reply, the trade update and the snapshot wrote it.      *)
(***************************************************************************)
NoPhantomFill == \A o \in Ords : rec[o].cum <= broker[o].fill

(***************************************************************************)
(* Exactly-once booking, as far as a crash allows: no share of an order is  *)
(* booked twice, however many workers learn of the same fill at once, and   *)
(* none is booked that the durable row does not show.                       *)
(***************************************************************************)
BookedAtMostOnce ==
    \A o \in Ords, u \in Units :
        /\ booked[o][u] <= 1
        /\ booked[o][u] = 1 => u <= rec[o].cum

(***************************************************************************)
(* A fill is missing from the risk sleeve only while the worker that made   *)
(* it durable still holds it, unless a crash or a handler failure hit that  *)
(* window.                                                                  *)
(***************************************************************************)
NoFillForgotten ==
    crashes = 0 /\ handlerFails = 0 =>
        \A o \in Ords : \A u \in 1..rec[o].cum :
            \/ booked[o][u] = 1
            \/ \E w \in Workers : Ord(w) = o /\ u \in Span(w)

(***************************************************************************)
(* A closed row is the truth: when a row is terminal the broker will not    *)
(* execute another share on that client order id, and the row counts every  *)
(* share it did.                                                            *)
(***************************************************************************)
ClosedIsFinal ==
    \A o \in Ords : rec[o].state \in TerminalStates =>
        /\ rec[o].cum = broker[o].fill
        /\ broker[o].status \notin {"working", "canceling"}
        /\ AtBroker(o) \/ wire[o] = 0

(***************************************************************************)
(* One decision never has two orders that can fill, or have filled, at once.*)
(***************************************************************************)
Exposed(o) == broker[o].fill > 0 \/ broker[o].status \in {"working", "canceling"} \/ wire[o] > 0
SingleExposure == \A o, p \in Ords : Exposed(o) /\ Exposed(p) => o = p

(***************************************************************************)
(* A terminal row is never rewritten, a row never loses shares, and every   *)
(* write moves the version by one.                                          *)
(***************************************************************************)
RowsOnlyGrow ==
    [][\A o \in Ords : rec[o]' # rec[o] =>
          /\ rec[o].state \notin TerminalStates
          /\ rec[o].cum <= rec[o].cum'
          /\ rec[o].state = "none" \/ rec[o].version' = rec[o].version + 1]_vars

(***************************************************************************)
(* The reservations in memory are the rows: once no worker is busy with an  *)
(* order, an open row reserves what it may still buy and a closed row       *)
(* reserves nothing, after a restart as well.  (A handler that raises       *)
(* leaves the reservation of a closed row behind.)                          *)
(***************************************************************************)
Busy(w, o) == pc[w] \in SendPCs \cup ApplyPCs /\ Ord(w) = o
ReservationsMatchRows ==
    handlerFails = 0 =>
        \A o \in Ords : (\A w \in Workers : ~Busy(w, o)) =>
            resv[o] = IF Open(o) THEN Qty - rec[o].cum ELSE NoResv

(***************************************************************************)
(* An order that is over at the broker is closed here in the end.           *)
(***************************************************************************)
ClosesReachTheRows ==
    \A o \in Ords : broker[o].status \in {"filled", "canceled"}
                        ~> rec[o].state \in TerminalStates

(***************************************************************************)
(* Trading is never blocked for good: whatever was lost, a reconcile finds  *)
(* every row at the broker or retires it, and publishes healthy again.      *)
(***************************************************************************)
KeepsRecovering == []<>healthy

Ledger == INSTANCE FillLedger WITH
    executed <- [o \in Ords |-> broker[o].fill],
    recorded <- [o \in Ords |-> rec[o].cum],
    interrupted <- crashes > 0 \/ handlerFails > 0

(***************************************************************************)
(* The rows and the sleeve implement the ledger: no step books a share that *)
(* is not recorded, or twice, or records one that was not executed.         *)
(***************************************************************************)
AtMostOnce == Ledger!AtMostOnce

(***************************************************************************)
(* Every executed share is recorded in the end, though updates are lost and *)
(* the process restarts; and every recorded one is booked, unless a restart *)
(* or a raising handler came in between.                                    *)
(***************************************************************************)
ExactlyOnce == Ledger!ExactlyOnce
=============================================================================
