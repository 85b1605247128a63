-------------------------- MODULE LiveOrdersProofs --------------------------
(***************************************************************************)
(* Theorems of LiveOrders, for any quantity, number of retries, threads,    *)
(* crashes and queue length, and whatever the timing assumptions.           *)
(***************************************************************************)
EXTENDS LiveOrders, FiniteSetTheorems, SequenceTheorems, TLAPS

-----------------------------------------------------------------------------
(***************************************************************************)
(* The types of the values the actions write.                               *)
(***************************************************************************)
LEMMA ConstantTypes ==
    /\ Qty \in Nat /\ Qty > 0
    /\ NoEvent \in Events
    /\ NoJob \in Jobs
    /\ NoSnap \in Snaps
    /\ NoRecord \in Records
    /\ IntentRecord \in Records
    /\ NoResv \in Nat
<1>1. Qty \in Nat /\ Qty > 0
  BY QtyAssumption
<1>2. 0 \in Ords
  BY ConstantsAssumption DEF Ords
<1>3. NoEvent \in Events
  BY <1>1, <1>2 DEF NoEvent, Events, States, LiveStates, EarlyStates
<1>4. "idle" \in Phases
  BY DEF Phases
<1>5. NoJob \in Jobs
  BY <1>1, <1>3, <1>4 DEF NoJob, Jobs
<1>6. NoSnap \in Snaps
  BY DEF NoSnap, Snaps
<1>7. NoRecord \in Records /\ IntentRecord \in Records
  <2>1. NoRecord \in Records
    BY <1>1 DEF NoRecord, Records
  <2>2. "intent" \in States \cup {"none"}
    BY DEF States, LiveStates, EarlyStates
  <2> QED
    BY <2>1, <2>2 DEF IntentRecord, Records
<1>8. NoResv \in Nat
  BY <1>1 DEF NoResv
<1> QED
  BY <1>1, <1>3, <1>5, <1>6, <1>7, <1>8

LEMMA AppendedType ==
    ASSUME NEW r \in Records, NEW id \in EventIds, NEW state \in States,
           NEW cum \in 0..Qty, NEW bid \in BOOLEAN
    PROVE  Appended(r, id, state, cum, bid) \in Records
<1>1. r.ids \cup {id} \in SUBSET EventIds
  BY DEF Records
<1>2. r.version + 1 \in Nat /\ (r.bid \/ bid) \in BOOLEAN
  BY DEF Records
<1>3. state \in States \cup {"none"}
  OBVIOUS
<1> QED
  BY <1>1, <1>2, <1>3 DEF Appended, Records

LEMMA EventType ==
    ASSUME NEW o \in Ords, NEW state \in States, NEW cum \in 0..Qty
    PROVE  /\ Event(o, state, cum) \in Events
           /\ Event(o, state, cum).ord = o
           /\ Event(o, state, cum).state = state
           /\ Event(o, state, cum).cum = cum
BY DEF Event, Events

LEMMA StateOfType ==
    ASSUME NEW order \in [status: BrokerStates, fill: 0..Qty]
    PROVE  StateOf(order) \in States \ {"expired"}
BY DEF StateOf, States, LiveStates, WorkingStates, TerminalStates

LEMMA ReferenceType ==
    ASSUME TypeOK, NEW o \in Ords
    PROVE  /\ Reference(o) \in Events
           /\ Reference(o).ord = o
           /\ Reference(o).cum = broker[o].fill
BY StateOfType, EventType DEF TypeOK, Reference

(***************************************************************************)
(* Shares are counted over a finite set of orders and units.                *)
(***************************************************************************)
LEMMA CountType ==
    ASSUME NEW T \in SUBSET (Ords \X Units)
    PROVE  Cardinality(T) \in Nat
<1>1. IsFiniteSet(Ords) /\ IsFiniteSet(Units)
  BY FS_Interval, ConstantsAssumption, QtyAssumption DEF Ords, Units
<1>2. IsFiniteSet(Ords \X Units)
  BY <1>1, FS_Product
<1>3. IsFiniteSet(T)
  BY <1>2, FS_Subset
<1> QED
  BY <1>3, FS_CardinalityType

LEMMA PositionType == Position \in Nat /\ Lineage \in Nat
BY CountType DEF Position, Lineage

-----------------------------------------------------------------------------
(***************************************************************************)
(* Type correctness.  The broker's orders have to be known not to be over-  *)
(* filled before Execute is seen to keep the type of the fill.              *)
(***************************************************************************)
BrokerOK ==
    \A o \in Ords :
        /\ broker[o].status \in {"working", "canceling"} => broker[o].fill < Qty
        /\ broker[o].status = "absent" => broker[o].fill = 0

TypeInv == TypeOK /\ BrokerOK

LEMMA TypeInit == Init => TypeInv
<1> SUFFICES ASSUME Init PROVE TypeInv
  OBVIOUS
<1> USE ConstantTypes DEF Init
<1>1. rec \in [Ords -> Records] /\ aged \subseteq Ords
  OBVIOUS
<1>2. booked \in [Ords -> [Units -> Nat]]
  OBVIOUS
<1>3. NoOrder \in [status: BrokerStates, fill: 0..Qty]
  BY DEF NoOrder, BrokerStates
<1>4. broker \in [Ords -> [status: BrokerStates, fill: 0..Qty]] /\ wire \in [Ords -> Nat]
  BY <1>3
<1>5. stream \in Seq(Events)
  OBVIOUS
<1>6. pc \in [Workers -> PCs] /\ job \in [Workers -> Jobs]
  BY DEF PCs, Phases
<1>7. snap \in [Reconcilers -> Snaps] /\ resv \in [Ords -> Nat]
  OBVIOUS
<1>8. BrokerOK
  BY DEF BrokerOK, NoOrder
<1>9. mirror \in Int /\ crashes \in Nat /\ handlerFails \in Nat
  OBVIOUS
<1>10. healthy \in BOOLEAN
  OBVIOUS
<1> HIDE ConstantTypes DEF Init
<1> QED
  BY <1>1, <1>2, <1>4, <1>5, <1>6, <1>7, <1>8, <1>9, <1>10 DEF TypeInv, TypeOK

(***************************************************************************)
(* The updates of a worker's registers, and of where it is.                 *)
(***************************************************************************)
LEMMA JobEvent ==
    ASSUME TypeOK, NEW w \in Workers, NEW e \in Events
    PROVE  [job EXCEPT ![w].ev = e] \in [Workers -> Jobs]
BY DEF TypeOK, Jobs

LEMMA JobRead ==
    ASSUME TypeOK, NEW w \in Workers, NEW v \in Nat, NEW q \in 0..Qty
    PROVE  [job EXCEPT ![w].ver = v, ![w].from = q] \in [Workers -> Jobs]
BY DEF TypeOK, Jobs

LEMMA JobRefused ==
    ASSUME TypeOK, NEW w \in Workers
    PROVE  [job EXCEPT ![w].refused = TRUE] \in [Workers -> Jobs]
BY DEF TypeOK, Jobs

LEMMA JobNone ==
    ASSUME TypeOK, NEW w \in Workers
    PROVE  [job EXCEPT ![w] = NoJob] \in [Workers -> Jobs]
BY ConstantTypes DEF TypeOK

LEMMA JobTakes ==
    ASSUME TypeOK, NEW w \in Workers, NEW e \in job[w].todo
    PROVE  [job EXCEPT ![w].todo = @ \ {e}, ![w].ev = e] \in [Workers -> Jobs]
<1>1. job \in [Workers -> Jobs]
  BY DEF TypeOK
<1>2. e \in Events /\ job[w].todo \ {e} \in SUBSET Events
  BY <1>1 DEF Jobs
<1> QED
  BY <1>1, <1>2 DEF Jobs

LEMMA JobLoop ==
    ASSUME TypeOK, NEW w \in Workers, NEW T \in SUBSET Events, NEW p \in Phases
    PROVE  [job EXCEPT ![w].todo = T, ![w].phase = p] \in [Workers -> Jobs]
BY DEF TypeOK, Jobs

LEMMA JobLists ==
    ASSUME TypeOK, NEW w \in Workers, NEW T \in SUBSET Events, NEW p \in Phases,
           NEW b \in BOOLEAN, NEW n \in Nat
    PROVE  [job EXCEPT ![w].todo = T, ![w].phase = p, ![w].issue = b,
                       ![w].lineage = n] \in [Workers -> Jobs]
<1>1. job \in [Workers -> Jobs]
  BY DEF TypeOK
<1>2. [job[w] EXCEPT !.todo = T, !.phase = p] \in Jobs
  BY <1>1 DEF Jobs
<1>3. [[job[w] EXCEPT !.todo = T, !.phase = p] EXCEPT !.issue = b, !.lineage = n] \in Jobs
  BY <1>2 DEF Jobs
<1> QED
  BY <1>1, <1>3 DEF Jobs

LEMMA JobReset ==
    ASSUME TypeOK, NEW w \in Workers
    PROVE  [job EXCEPT ![w] = [@ EXCEPT !.ev = NoEvent, !.ver = 0, !.from = 0]]
             \in [Workers -> Jobs]
<1>1. job \in [Workers -> Jobs]
  BY DEF TypeOK
<1>2. [job[w] EXCEPT !.ev = NoEvent] \in Jobs
  BY <1>1, ConstantTypes DEF Jobs
<1>3. \A j \in Jobs, v \in Nat, q \in 0..Qty :
        [j EXCEPT !.ver = v, !.from = q] \in Jobs
  BY DEF Jobs
<1>4. 0 \in Nat /\ 0 \in 0..Qty
  BY QtyAssumption
<1>5. [[job[w] EXCEPT !.ev = NoEvent] EXCEPT !.ver = 0, !.from = 0] \in Jobs
  BY <1>2, <1>3, <1>4
<1>6. [[job[w] EXCEPT !.ev = NoEvent] EXCEPT !.ver = 0, !.from = 0]
        = [job[w] EXCEPT !.ev = NoEvent, !.ver = 0, !.from = 0]
  BY <1>1 DEF Jobs
<1> QED
  BY <1>1, <1>5, <1>6

LEMMA GotoType ==
    ASSUME TypeOK, NEW w \in Workers, NEW l \in PCs, Goto(w, l)
    PROVE  pc' \in [Workers -> PCs]
BY DEF TypeOK, Goto

LEMMA ApplyType ==
    ASSUME TypeOK, NEW w \in Workers, NEW e \in Events, Apply(w, e)
    PROVE  pc' \in [Workers -> PCs] /\ job' \in [Workers -> Jobs]
<1>1. "read" \in PCs
  BY DEF PCs, Phases, ApplyPCs
<1> QED
  BY <1>1, GotoType, JobEvent DEF Apply

LEMMA DoneType ==
    ASSUME TypeOK, NEW w \in Workers, Done(w)
    PROVE  pc' \in [Workers -> PCs] /\ job' \in [Workers -> Jobs]
<1>1. "idle" \in PCs
  BY DEF PCs, Phases
<1> QED
  BY <1>1, GotoType, JobNone DEF Done

LEMMA FinishType ==
    ASSUME TypeOK, NEW w \in Workers, Finish(w)
    PROVE  pc' \in [Workers -> PCs] /\ job' \in [Workers -> Jobs]
<1>1. pc \in [Workers -> PCs] /\ "idle" \in PCs /\ job[w].phase \in PCs
  BY DEF PCs, Phases, TypeOK, Jobs
<1>2. pc' \in [Workers -> PCs]
  BY <1>1 DEF Finish
<1>3. CASE w \in Reconcilers
  BY <1>2, <1>3, JobReset DEF Finish
<1>4. CASE w \notin Reconcilers
  BY <1>2, <1>4, JobNone DEF Finish
<1> QED
  BY <1>3, <1>4

\* An action that only moves a worker and fills its registers.
ControlOnly == UNCHANGED <<durable, memory, outside, snap, crashes, handlerFails>>

LEMMA ControlKeepsTypes ==
    ASSUME TypeInv, ControlOnly, pc' \in [Workers -> PCs], job' \in [Workers -> Jobs]
    PROVE  TypeInv'
BY DEF ControlOnly, durable, memory, outside, TypeInv, TypeOK, BrokerOK

LEMMA WriteType ==
    ASSUME TypeOK, NEW o \in Ords, NEW r \in Records, Write(o, r)
    PROVE  rec' \in [Ords -> Records] /\ aged' \subseteq Ords
BY DEF TypeOK, Write

(***************************************************************************)
(* The actions of submit keep the types.                                    *)
(***************************************************************************)
LEMMA SubmitKeepsTypes ==
    ASSUME TypeInv, NEW t \in Submitters, Submit(t)
    PROVE  TypeInv'
<1> USE DEF TypeInv
<1>1. t \in Workers /\ Ord(t) \in Ords /\ job[t] \in Jobs
  BY DEF Workers, Ord, TypeOK, Jobs, Events
<1>2. {"idle", "lookup", "gate", "create", "mark", "post", "wait", "recover",
       "settle", "conclude"} \subseteq PCs
  BY DEF PCs, Phases, SendPCs
<1>3. {"intent", "submitting", "rejected", "unknown"} \subseteq States
  BY DEF States, LiveStates, EarlyStates, TerminalStates
<1>4. rec[Ord(t)] \in Records /\ job[t].ver \in Nat /\ job[t].from \in 0..Qty
  BY <1>1 DEF TypeOK, Jobs
<1>5. CASE Identify(t)
  <2>1. PICK o \in Ords : /\ Goto(t, "gate") \/ Goto(t, "lookup")
                          /\ job' = [job EXCEPT ![t].ev = Event(o, "intent", 0)]
    BY <1>5 DEF Identify
  <2>2. Event(o, "intent", 0) \in Events
    BY <1>3, QtyAssumption, EventType
  <2>3. pc' \in [Workers -> PCs] /\ job' \in [Workers -> Jobs]
    BY <1>1, <1>2, <2>1, <2>2, JobEvent, GotoType
  <2> QED
    BY <1>5, <2>3, ControlKeepsTypes DEF Identify, ControlOnly
<1>6. CASE Lookup(t)
  <2>1. pc' \in [Workers -> PCs] /\ job' \in [Workers -> Jobs]
    BY <1>1, <1>6, ReferenceType, ApplyType, DoneType DEF Lookup
  <2> QED
    BY <1>6, <2>1, ControlKeepsTypes DEF Lookup, ControlOnly
<1>7. CASE Gate(t)
  <2>1. pc' \in [Workers -> PCs] /\ job' \in [Workers -> Jobs]
    BY <1>1, <1>2, <1>7, GotoType, DoneType DEF Gate, TypeOK
  <2> QED
    BY <1>7, <2>1, ControlKeepsTypes DEF Gate, ControlOnly
<1>8. CASE Create(t)
  <2>1. pc' \in [Workers -> PCs]
    BY <1>1, <1>2, <1>8, GotoType DEF Create
  <2>2. rec' \in [Ords -> Records] /\ aged' \subseteq Ords
    BY <1>1, <1>8, ConstantTypes DEF Create, TypeOK
  <2>3. job' \in [Workers -> Jobs]
    <3>1. rec[Ord(t)].version \in Nat /\ rec[Ord(t)].cum \in 0..Qty
      BY <1>4 DEF Records
    <3>2. \/ job' = job
          \/ job' = [job EXCEPT ![t].ver = rec[Ord(t)].version,
                                ![t].from = rec[Ord(t)].cum]
      BY <1>8 DEF Create
    <3>3. job \in [Workers -> Jobs]
      BY DEF TypeOK
    <3>4. [job EXCEPT ![t].ver = rec[Ord(t)].version, ![t].from = rec[Ord(t)].cum]
            \in [Workers -> Jobs]
      BY <1>1, <3>1, JobRead
    <3> QED
      BY <3>2, <3>3, <3>4
  <2>4. resv' \in [Ords -> Nat]
    BY <1>1, <1>8, QtyAssumption DEF Create, TypeOK
  <2> QED
    BY <1>8, <2>1, <2>2, <2>3, <2>4 DEF Create, TypeOK, BrokerOK, outside
<1>9. CASE Mark(t)
  <2> DEFINE o  == Ord(t)
             id == <<"submitting", job[t].ver + 1>>
             r  == Appended(rec[o], id, "submitting", job[t].from, FALSE)
  <2>1. r \in Records
    <3>1. id \in EventIds
      BY <1>3, <1>4 DEF EventIds
    <3> QED
      BY <1>3, <1>4, <3>1, AppendedType
  <2>2. rec' \in [Ords -> Records] /\ aged' \subseteq Ords
    BY <1>1, <1>9, <2>1, WriteType DEF Mark, TypeOK
  <2>3. pc' \in [Workers -> PCs] /\ job' \in [Workers -> Jobs]
    BY <1>1, <1>2, <1>9, GotoType, DoneType DEF Mark, TypeOK
  <2>4. resv' \in [Ords -> Nat]
    BY <1>1, <1>9, ConstantTypes DEF Mark, TypeOK
  <2> QED
    BY <1>9, <2>2, <2>3, <2>4 DEF Mark, TypeOK, BrokerOK, outside
<1>10. CASE Post(t)
  <2>1. pc' \in [Workers -> PCs] /\ job' \in [Workers -> Jobs]
    <3>1. CASE Apply(t, Reference(Ord(t)))
      BY <1>1, <3>1, ReferenceType, ApplyType
    <3>2. CASE /\ Goto(t, "recover") \/ Goto(t, "wait")
               /\ job' = job \/ job' = [job EXCEPT ![t].refused = TRUE]
      BY <1>1, <1>2, <3>2, GotoType, JobRefused DEF TypeOK
    <3> QED
      BY <1>10, <3>1, <3>2 DEF Post
  <2>2. wire' \in [Ords -> Nat]
    <3>1. wire' = wire \/ wire' = [wire EXCEPT ![Ord(t)] = @ + 1]
      BY <1>10 DEF Post
    <3>2. wire \in [Ords -> Nat]
      BY DEF TypeOK
    <3> QED
      BY <1>1, <3>1, <3>2
  <2> QED
    BY <1>10, <2>1, <2>2 DEF Post, TypeOK, BrokerOK, durable, memory
<1>11. CASE WaitAccepted(t)
  <2>1. pc' \in [Workers -> PCs] /\ job' \in [Workers -> Jobs]
    BY <1>1, <1>11, ReferenceType, ApplyType DEF WaitAccepted
  <2> QED
    BY <1>11, <2>1, ControlKeepsTypes DEF WaitAccepted, ControlOnly
<1>12. CASE WaitRefused(t)
  <2>1. pc' \in [Workers -> PCs] /\ job' \in [Workers -> Jobs]
    BY <1>1, <1>2, <1>12, JobRefused, GotoType DEF WaitRefused
  <2>2. wire' \in [Ords -> Nat]
    BY <1>1, <1>12 DEF WaitRefused, TypeOK
  <2> QED
    BY <1>12, <2>1, <2>2 DEF WaitRefused, TypeOK, BrokerOK, durable, memory
<1>13. CASE WaitLost(t) \/ WaitGatewayError(t)
  <2>1. pc' \in [Workers -> PCs] /\ job' \in [Workers -> Jobs]
    BY <1>1, <1>2, <1>13, JobRefused, GotoType
       DEF WaitLost, WaitGatewayError, TypeOK
  <2> QED
    BY <1>13, <2>1, ControlKeepsTypes DEF WaitLost, WaitGatewayError, ControlOnly
<1>14. CASE Recover(t)
  <2>1. pc' \in [Workers -> PCs] /\ job' \in [Workers -> Jobs]
    BY <1>1, <1>2, <1>14, ReferenceType, ApplyType, GotoType DEF Recover, TypeOK
  <2> QED
    BY <1>14, <2>1, ControlKeepsTypes DEF Recover, ControlOnly
<1>15. CASE Settle(t)
  <2>1. rec[Ord(t)].version \in Nat /\ rec[Ord(t)].cum \in 0..Qty
    BY <1>4 DEF Records
  <2>2. pc' \in [Workers -> PCs] /\ job' \in [Workers -> Jobs]
    BY <1>1, <1>2, <1>15, <2>1, JobRead, GotoType DEF Settle
  <2> QED
    BY <1>15, <2>2, ControlKeepsTypes DEF Settle, ControlOnly
<1>16. CASE Conclude(t)
  <2> DEFINE o     == Ord(t)
             state == IF job[t].refused THEN "rejected" ELSE "unknown"
             id    == <<state, job[t].ver + 1>>
             r     == Appended(rec[o], id, state, job[t].from, FALSE)
  <2>1. r \in Records
    <3>1. id \in EventIds
      BY <1>3, <1>4 DEF EventIds
    <3> QED
      BY <1>3, <1>4, <3>1, AppendedType
  <2>2. rec' \in [Ords -> Records] /\ aged' \subseteq Ords
    BY <1>1, <1>16, <2>1, WriteType DEF Conclude, TypeOK
  <2>3. pc' \in [Workers -> PCs] /\ job' \in [Workers -> Jobs]
    BY <1>1, <1>16, DoneType DEF Conclude
  <2>4. resv' \in [Ords -> Nat]
    BY <1>1, <1>16, ConstantTypes DEF Conclude, TypeOK
  <2> QED
    BY <1>16, <2>2, <2>3, <2>4 DEF Conclude, TypeOK, BrokerOK, outside
<1> QED
  BY <1>5, <1>6, <1>7, <1>8, <1>9, <1>10, <1>11, <1>12, <1>13, <1>14, <1>15,
     <1>16 DEF Submit

(***************************************************************************)
(* The actions of apply_broker_event keep the types.                        *)
(***************************************************************************)
LEMMA ApplyKeepsTypes ==
    ASSUME TypeInv, NEW w \in Workers, ApplyEvent(w)
    PROVE  TypeInv'
<1> USE DEF TypeInv
<1>1. job[w] \in Jobs /\ job[w].ev \in Events /\ Ord(w) \in Ords
  BY DEF Ord, TypeOK, Jobs, Events
<1>2. {"append", "book", "finish"} \subseteq PCs
  BY DEF PCs, Phases, ApplyPCs
<1>3. rec[Ord(w)] \in Records /\ job[w].ver \in Nat /\ job[w].from \in 0..Qty
  BY <1>1 DEF TypeOK, Jobs
<1>4. resv \in [Ords -> Nat] /\ rec \in [Ords -> Records] /\ job \in [Workers -> Jobs]
  BY DEF TypeOK
<1>5. job[w].ev.state \in States /\ job[w].ev.cum \in 0..Qty
  BY <1>1 DEF Events
<1>6. ASSUME NEW n \in Int, Reserve(Ord(w), n)
      PROVE  resv' \in [Ords -> Nat]
  BY <1>1, <1>4, <1>6 DEF Reserve
<1>7. CASE ReadRow(w)
  <2>1. rec[Ord(w)].version \in Nat /\ rec[Ord(w)].cum \in 0..Qty
    BY <1>3 DEF Records
  <2>2. CASE /\ job' = [job EXCEPT ![w].ver = rec[Ord(w)].version,
                                   ![w].from = rec[Ord(w)].cum]
             /\ Goto(w, "append")
    <3>1. pc' \in [Workers -> PCs] /\ job' \in [Workers -> Jobs]
      BY <1>2, <2>1, <2>2, JobRead, GotoType
    <3> QED
      BY <1>7, <3>1, ControlKeepsTypes DEF ReadRow, ControlOnly
  <2>3. CASE Finish(w)
    BY <1>7, <2>3, FinishType, ControlKeepsTypes DEF ReadRow, ControlOnly
  <2> QED
    BY <1>7, <2>2, <2>3 DEF ReadRow, Ord
<1>8. CASE AppendEvent(w)
  <2> DEFINE e == job[w].ev
             r == Appended(rec[e.ord], <<e.state, e.cum>>, e.state, e.cum, ~IsStub(e))
  <2>1. r \in Records
    <3>1. <<e.state, e.cum>> \in EventIds /\ (~IsStub(e)) \in BOOLEAN
      BY <1>5, QtyAssumption DEF EventIds
    <3> QED
      BY <1>3, <1>5, <3>1, AppendedType DEF Ord
  <2>2. CASE /\ Write(e.ord, r) /\ Goto(w, AfterAppend(w)) /\ job' = job
    <3>1. rec' \in [Ords -> Records] /\ aged' \subseteq Ords
      BY <1>1, <2>1, <2>2, WriteType DEF Ord
    <3>2. pc' \in [Workers -> PCs]
      BY <1>2, <2>2, GotoType DEF AfterAppend
    <3> QED
      BY <1>8, <2>2, <3>1, <3>2
         DEF AppendEvent, TypeOK, BrokerOK, memory, outside
  <2>3. CASE Finish(w) /\ UNCHANGED <<rec, aged>>
    BY <1>8, <2>3, FinishType, ControlKeepsTypes
       DEF AppendEvent, ControlOnly, durable, memory, outside
  <2> QED
    BY <1>8, <2>2, <2>3 DEF AppendEvent, Declined
<1>9. job[w].ev.cum - job[w].from \in Int
  BY <1>3, <1>5
<1>10. CASE BookFill(w)
  <2>1. booked' \in [Ords -> [Units -> Nat]]
    <3>1. booked \in [Ords -> [Units -> Nat]]
      BY DEF TypeOK
    <3>2. [u \in Units |-> IF u \in Span(w) THEN booked[Ord(w)][u] + 1
                           ELSE booked[Ord(w)][u]] \in [Units -> Nat]
      BY <1>1, <3>1
    <3> QED
      BY <1>1, <1>10, <3>1, <3>2 DEF BookFill
  <2>2. pc' \in [Workers -> PCs]
    BY <1>2, <1>10, GotoType DEF BookFill
  <2>3. resv' \in [Ords -> Nat]
    BY <1>6, <1>9, <1>10 DEF BookFill
  <2> QED
    BY <1>10, <2>1, <2>2, <2>3 DEF BookFill, TypeOK, BrokerOK, outside
<1>11. CASE HandlerRaises(w)
  <2>1. pc' \in [Workers -> PCs] /\ job' \in [Workers -> Jobs]
    BY <1>11, DoneType DEF HandlerRaises
  <2>2. resv' \in [Ords -> Nat]
    BY <1>6, <1>9, <1>11 DEF HandlerRaises
  <2>3. handlerFails' \in Nat
    BY <1>11 DEF HandlerRaises, TypeOK
  <2>4. snap' \in [Reconcilers -> Snaps]
    BY <1>11, ConstantTypes DEF HandlerRaises, TypeOK
  <2>5. healthy' \in BOOLEAN
    <3>1. healthy' = FALSE \/ healthy' = healthy
      BY <1>11 DEF HandlerRaises
    <3> QED
      BY <3>1 DEF TypeOK
  <2> QED
    BY <1>11, <2>1, <2>2, <2>3, <2>4, <2>5
       DEF HandlerRaises, TypeOK, BrokerOK, durable, outside
<1>12. CASE FinishEvent(w)
  <2>1. pc' \in [Workers -> PCs] /\ job' \in [Workers -> Jobs]
    BY <1>12, FinishType DEF FinishEvent
  <2>2. resv' \in [Ords -> Nat]
    BY <1>1, <1>4, <1>12, ConstantTypes DEF FinishEvent
  <2>3. mirror' \in Int
    <3>1. mirror \in Int
      BY DEF TypeOK
    <3> QED
      BY <1>3, <1>5, <1>12, <3>1 DEF FinishEvent
  <2> QED
    BY <1>12, <2>1, <2>2, <2>3
       DEF FinishEvent, TypeOK, BrokerOK, durable, outside
<1> QED
  BY <1>7, <1>8, <1>10, <1>11, <1>12 DEF ApplyEvent

LEMMA NextUpdateKeepsTypes ==
    ASSUME TypeInv, NextUpdate
    PROVE  TypeInv'
<1>1. StreamWorker \in Workers /\ stream \in Seq(Events) /\ stream # <<>>
  BY DEF Workers, TypeInv, TypeOK, NextUpdate
<1>2. Head(stream) \in Events /\ Tail(stream) \in Seq(Events)
  BY <1>1, HeadTailProperties
<1>3. pc' \in [Workers -> PCs] /\ job' \in [Workers -> Jobs]
  BY <1>1, <1>2, ApplyType DEF NextUpdate, TypeInv
<1> QED
  BY <1>2, <1>3 DEF NextUpdate, TypeInv, TypeOK, BrokerOK, durable, memory

(***************************************************************************)
(* The actions of the reconcilers keep the types.                           *)
(***************************************************************************)
LEMMA ReconcileKeepsTypes ==
    ASSUME TypeInv, NEW r \in Reconcilers, Reconcile(r)
    PROVE  TypeInv'
<1> USE DEF TypeInv
<1>1. r \in Workers /\ snap \in [Reconcilers -> Snaps] /\ snap[r] \in Snaps
  BY DEF Workers, TypeOK
<1>2. {"read", "sweep", "retire", "publish"} \subseteq PCs /\ {"sweep", "retire"} \subseteq Phases
  BY DEF PCs, Phases, ApplyPCs
<1>3. CASE Capture(r)
  <2>1. {Reference(o) : o \in Shown} \in SUBSET Events
    BY ReferenceType DEF Shown
  <2>2. pc' \in [Workers -> PCs] /\ job' \in [Workers -> Jobs]
    BY <1>1, <1>2, <1>3, <2>1, GotoType, JobLoop DEF Capture
  <2>3. {<<o, rec[o].version>> : o \in aged} \in SUBSET (Ords \X Nat)
    BY DEF TypeOK, Records
  <2>4. [shown |-> Shown, position |-> Position,
         old |-> {<<o, rec[o].version>> : o \in aged}] \in Snaps
    BY <2>3, PositionType DEF Snaps, Shown
  <2>5. snap' \in [Reconcilers -> Snaps]
    BY <1>1, <1>3, <2>4 DEF Capture
  <2> QED
    BY <1>3, <2>2, <2>5 DEF Capture, TypeOK, BrokerOK, durable, memory, outside
<1>4. CASE CaptureUnusable(r)
  <2>1. mirror' \in Int
    <3>1. mirror' = 0 \/ mirror' = mirror
      BY <1>4 DEF CaptureUnusable
    <3> QED
      BY <3>1 DEF TypeOK
  <2>2. healthy' \in BOOLEAN
    BY <1>4 DEF CaptureUnusable
  <2> QED
    BY <1>4, <2>1, <2>2 DEF CaptureUnusable, TypeOK, BrokerOK, durable, outside
<1>5. CASE SweepOrder(r) \/ RetireRow(r)
  <2>1. PICK e \in job[r].todo : job' = [job EXCEPT ![r].todo = @ \ {e}, ![r].ev = e]
    BY <1>5 DEF SweepOrder, RetireRow
  <2>2. pc' \in [Workers -> PCs] /\ job' \in [Workers -> Jobs]
    BY <1>1, <1>2, <1>5, <2>1, GotoType, JobTakes DEF SweepOrder, RetireRow
  <2> QED
    BY <1>5, <2>2, ControlKeepsTypes DEF SweepOrder, RetireRow, ControlOnly
<1>6. CASE ListRows(r)
  <2> DEFINE missing == {o \in Ords : Open(o)} \ snap[r].shown
             retire  == {o \in missing : Abandonable(rec[o]) /\ WasOld(r, o)}
  <2>1. {Event(o, "expired", 0) : o \in retire} \in SUBSET Events
    BY EventType, QtyAssumption DEF States, TerminalStates
  <2>2. (missing # retire) \in BOOLEAN /\ Lineage \in Nat
    BY PositionType
  <2>3. pc' \in [Workers -> PCs]
    BY <1>1, <1>2, <1>6, GotoType DEF ListRows
  <2>4. job' \in [Workers -> Jobs]
    <3> HIDE DEF missing, retire
    <3>1. job' = [job EXCEPT ![r].todo = {Event(o, "expired", 0) : o \in retire},
                             ![r].phase = "retire",
                             ![r].issue = (missing # retire),
                             ![r].lineage = Lineage]
      BY <1>6 DEF ListRows, missing, retire
    <3> QED
      BY <1>1, <1>2, <2>1, <2>2, <3>1, JobLists
  <2>5. snap' \in [Reconcilers -> Snaps]
    BY <1>1, <1>6 DEF ListRows, Snaps
  <2> QED
    BY <1>6, <2>3, <2>4, <2>5
       DEF ListRows, TypeOK, BrokerOK, durable, memory, outside
<1>7. CASE CountLineage(r)
  <2>1. job' \in [Workers -> Jobs]
    BY <1>1, <1>7, PositionType DEF CountLineage, TypeOK, Jobs
  <2>2. pc' \in [Workers -> PCs]
    BY <1>1, <1>2, <1>7, GotoType DEF CountLineage
  <2> QED
    BY <1>7, <2>1, <2>2, ControlKeepsTypes DEF CountLineage, ControlOnly
<1>8. CASE Publish(r)
  <2>1. pc' \in [Workers -> PCs] /\ job' \in [Workers -> Jobs]
    BY <1>1, <1>8, DoneType DEF Publish
  <2>2. job[r].lineage \in Nat /\ snap[r].position \in Nat
    BY <1>1 DEF TypeOK, Jobs, Snaps
  <2>3. mirror' \in Int
    BY <1>8, <2>2 DEF Publish
  <2>4. healthy' \in BOOLEAN
    BY <1>8 DEF Publish
  <2>5. snap' \in [Reconcilers -> Snaps]
    BY <1>1, <1>8, ConstantTypes DEF Publish
  <2> QED
    BY <1>8, <2>1, <2>3, <2>4, <2>5
       DEF Publish, TypeOK, BrokerOK, durable, outside
<1> QED
  BY <1>3, <1>4, <1>5, <1>6, <1>7, <1>8 DEF Reconcile

(***************************************************************************)
(* The environment keeps the types: every move of the broker is to an order *)
(* that is not over-filled.                                                 *)
(***************************************************************************)
GoodOrders ==
    {b \in [status: BrokerStates, fill: 0..Qty] :
        /\ b.status \in {"working", "canceling"} => b.fill < Qty
        /\ b.status = "absent" => b.fill = 0}

LEMMA BrokerMovesType ==
    ASSUME TypeInv, NEW o \in Ords, NEW b \in GoodOrders, BrokerMoves(o, b)
    PROVE  /\ broker' \in [Ords -> [status: BrokerStates, fill: 0..Qty]]
           /\ stream' \in Seq(Events)
           /\ BrokerOK'
<1>1. broker \in [Ords -> [status: BrokerStates, fill: 0..Qty]] /\ stream \in Seq(Events)
  BY DEF TypeInv, TypeOK
<1>2. b \in [status: BrokerStates, fill: 0..Qty] /\ b.fill \in 0..Qty
  BY DEF GoodOrders
<1>3. broker' \in [Ords -> [status: BrokerStates, fill: 0..Qty]]
  BY <1>1, <1>2 DEF BrokerMoves
<1>4. Event(o, StateOf(b), b.fill) \in Events
  BY <1>2, StateOfType, EventType
<1>5. stream' \in Seq(Events)
  BY <1>1, <1>4 DEF BrokerMoves
<1>6. BrokerOK'
  BY <1>1 DEF BrokerMoves, BrokerOK, GoodOrders, TypeInv
<1> QED
  BY <1>3, <1>5, <1>6

LEMMA EnvironmentKeepsTypes ==
    ASSUME TypeInv, Environment
    PROVE  TypeInv'
<1> USE DEF TypeInv
<1>1. broker \in [Ords -> [status: BrokerStates, fill: 0..Qty]] /\ wire \in [Ords -> Nat]
  BY DEF TypeOK
<1>2. ASSUME NEW o \in Ords, NEW b \in GoodOrders, BrokerMoves(o, b),
             wire' \in [Ords -> Nat]
      PROVE  TypeInv'
  BY <1>2, BrokerMovesType DEF BrokerMoves, TypeOK, durable, memory
<1>3. ASSUME NEW o \in Ords, wire[o] > 0, wire' = [wire EXCEPT ![o] = @ - 1]
      PROVE  wire' \in [Ords -> Nat]
  BY <1>1, <1>3
<1>4. ASSUME NEW o \in Ords, Land(o)
      PROVE  TypeInv'
  <2>1. wire' \in [Ords -> Nat]
    BY <1>3, <1>4 DEF Land
  <2>2. CASE BrokerMoves(o, [status |-> "working", fill |-> 0])
    <3>1. [status |-> "working", fill |-> 0] \in GoodOrders
      BY QtyAssumption DEF GoodOrders, BrokerStates
    <3> QED
      BY <1>2, <2>1, <2>2, <3>1
  <2>3. CASE UNCHANGED <<durable, memory, broker, stream, pc, job, snap, crashes, handlerFails>>
    BY <2>1, <2>3 DEF TypeOK, BrokerOK, durable, memory
  <2> QED
    BY <1>4, <2>2, <2>3 DEF Land
<1>5. ASSUME NEW o \in Ords, WireLoses(o)
      PROVE  TypeInv'
  BY <1>3, <1>5 DEF WireLoses, TypeOK, BrokerOK, durable, memory
<1>6. ASSUME NEW o \in Ords, Execute(o)
      PROVE  TypeInv'
  <2> DEFINE b == [status |-> IF broker[o].fill + 1 = Qty THEN "filled"
                              ELSE broker[o].status,
                   fill |-> broker[o].fill + 1]
  <2>1. b \in GoodOrders
    BY <1>1, <1>6, QtyAssumption DEF Execute, BrokerOK, GoodOrders, BrokerStates
  <2> QED
    BY <1>1, <1>2, <1>6, <2>1 DEF Execute
<1>7. ASSUME NEW o \in Ords, RequestCancel(o)
      PROVE  TypeInv'
  <2>1. [broker[o] EXCEPT !.status = "canceling"] \in GoodOrders
    BY <1>1, <1>7 DEF RequestCancel, BrokerOK, GoodOrders, BrokerStates
  <2> QED
    BY <1>1, <1>2, <1>7, <2>1 DEF RequestCancel
<1>8. ASSUME NEW o \in Ords, CloseOrder(o)
      PROVE  TypeInv'
  <2>1. [broker[o] EXCEPT !.status = "canceled"] \in GoodOrders
    BY <1>1, <1>8 DEF CloseOrder, BrokerOK, GoodOrders, BrokerStates
  <2> QED
    BY <1>1, <1>2, <1>8, <2>1 DEF CloseOrder
<1>9. ASSUME NEW o \in Ords, Age(o)
      PROVE  TypeInv'
  BY <1>9 DEF Age, TypeOK, BrokerOK, memory, outside
<1>10. CASE Crash
  <2>1. pc' \in [Workers -> PCs] /\ job' \in [Workers -> Jobs]
    BY <1>10, ConstantTypes DEF Crash, PCs, Phases
  <2>2. snap' \in [Reconcilers -> Snaps] /\ stream' \in Seq(Events)
    BY <1>10, ConstantTypes DEF Crash
  <2>3. resv' \in [Ords -> Nat]
    <3>1. \A o \in Ords : rec[o].cum \in 0..Qty
      BY DEF TypeOK, Records
    <3>2. \A o \in Ords : Qty - rec[o].cum \in Nat
      BY <3>1, QtyAssumption
    <3> QED
      BY <1>10, <3>2, ConstantTypes DEF Crash, Restored
  <2>4. mirror' \in Int /\ crashes' \in Nat
    BY <1>10 DEF Crash, TypeOK
  <2>5. healthy' \in BOOLEAN
    BY <1>10 DEF Crash
  <2> QED
    BY <1>10, <2>1, <2>2, <2>3, <2>4, <2>5 DEF Crash, TypeOK, BrokerOK, durable
<1> QED
  BY <1>4, <1>5, <1>6, <1>7, <1>8, <1>9, <1>10 DEF Environment

LEMMA TypeStep == TypeInv /\ [Next]_vars => TypeInv'
<1> SUFFICES ASSUME TypeInv, [Next]_vars
             PROVE  TypeInv'
  OBVIOUS
<1>1. CASE UNCHANGED vars
  BY <1>1 DEF vars, durable, memory, outside, TypeInv, TypeOK, BrokerOK
<1>2. CASE Next
  BY <1>2, SubmitKeepsTypes, ApplyKeepsTypes, NextUpdateKeepsTypes,
     ReconcileKeepsTypes, EnvironmentKeepsTypes DEF Next
<1> QED
  BY <1>1, <1>2

(***************************************************************************)
(* Type correctness, for any number of workers, retries and shares: no      *)
(* handler writes a row, a reservation or a job outside its type, and the   *)
(* broker is never filled beyond the quantity.                              *)
(***************************************************************************)
THEOREM TypeCorrect == Spec => []TypeOK
<1>1. TypeInv => TypeOK
  BY DEF TypeInv
<1> QED
  BY <1>1, TypeInit, TypeStep, PTL DEF Spec

-----------------------------------------------------------------------------
(***************************************************************************)
(* A step of one worker leaves the others where they are.                   *)
(***************************************************************************)
Local(w) == \A v \in Workers \ {w} : pc'[v] = pc[v] /\ job'[v] = job[v]

LEMMA ControlLocal ==
    ASSUME TypeOK, NEW w \in Workers
    PROVE  /\ \A l \in PCs : Goto(w, l) => /\ pc'[w] = l
                                           /\ \A v \in Workers \ {w} : pc'[v] = pc[v]
           /\ \A e \in Events : Apply(w, e) => /\ pc'[w] = "read"
                                               /\ job'[w] = [job[w] EXCEPT !.ev = e]
                                               /\ Local(w)
           /\ Done(w) => pc'[w] = "idle" /\ job'[w] = NoJob /\ Local(w)
<1>1. pc \in [Workers -> PCs] /\ job \in [Workers -> Jobs]
  BY DEF TypeOK
<1>2. \A l \in PCs : Goto(w, l) => /\ pc'[w] = l
                                   /\ \A v \in Workers \ {w} : pc'[v] = pc[v]
  BY <1>1 DEF Goto
<1>3. \A e \in Events : Apply(w, e) => /\ pc'[w] = "read"
                                       /\ job'[w] = [job[w] EXCEPT !.ev = e]
                                       /\ Local(w)
  BY <1>1 DEF Apply, Goto, Local
<1>4. Done(w) => pc'[w] = "idle" /\ job'[w] = NoJob /\ Local(w)
  BY <1>1 DEF Done, Goto, Local
<1> QED
  BY <1>2, <1>3, <1>4

LEMMA FinishLocal ==
    ASSUME TypeOK, NEW w \in Workers, Finish(w)
    PROVE  /\ Local(w)
           /\ \/ pc'[w] = "idle" /\ job'[w] = NoJob
              \/ /\ w \in Reconcilers
                 /\ pc'[w] = job[w].phase
                 /\ job'[w] = [job[w] EXCEPT !.ev = NoEvent, !.ver = 0, !.from = 0]
<1>1. pc \in [Workers -> PCs] /\ job \in [Workers -> Jobs]
  BY DEF TypeOK
<1>2. CASE w \in Reconcilers
  BY <1>1, <1>2 DEF Finish, Local
<1>3. CASE w \notin Reconcilers
  BY <1>1, <1>3 DEF Finish, Local
<1> QED
  BY <1>2, <1>3

LEMMA WorkersAreLocal ==
    ASSUME TypeOK, NEW w \in Workers,
           \/ w \in Submitters /\ Submit(w)
           \/ ApplyEvent(w)
           \/ w \in Reconcilers /\ Reconcile(w)
           \/ w = StreamWorker /\ NextUpdate
    PROVE  Local(w)
<1>1. pc \in [Workers -> PCs] /\ job \in [Workers -> Jobs]
  BY DEF TypeOK
<1>2. CASE Submit(w)
  BY <1>1, <1>2 DEF Local, Submit, Identify, Lookup, Gate, Create, Mark, Post,
     WaitAccepted, WaitRefused, WaitLost, WaitGatewayError, Recover, Settle,
     Conclude, Goto, Apply, Done
<1>3. CASE ApplyEvent(w)
  BY <1>1, <1>3, FinishLocal DEF Local, ApplyEvent, ReadRow, AppendEvent, Declined,
     BookFill, HandlerRaises, FinishEvent, Goto, Done
<1>4. CASE Reconcile(w)
  BY <1>1, <1>4 DEF Local, Reconcile, Capture, CaptureUnusable, SweepOrder,
     ListRows, RetireRow, CountLineage, Publish, Goto, Done
<1>5. CASE w = StreamWorker /\ NextUpdate
  BY <1>1, <1>5 DEF Local, NextUpdate, Apply, Goto
<1> QED
  BY <1>2, <1>3, <1>4, <1>5

-----------------------------------------------------------------------------
(***************************************************************************)
(* No phantom fill.  The row is written from what a worker carries, so the  *)
(* invariant has to cover everything in flight: no event in the stream, in  *)
(* a reconciler's list or in a worker's hands counts more shares than the   *)
(* broker has executed by now, nor does the quantity a worker read.         *)
(***************************************************************************)
Known(e) == e.cum <= broker[e.ord].fill

\* Where a worker holds no quantity read from a row.
CleanPCs == {"idle", "gate", "create", "sweep", "retire"}

JobKnown(w) ==
    /\ Known(job[w].ev)
    /\ \A e \in job[w].todo : Known(e)
    /\ job[w].from <= broker[Ord(w)].fill
    /\ pc[w] \in CleanPCs => job[w].ver = 0 /\ job[w].from = 0

StreamKnown == \A i \in 1..Len(stream) : Known(stream[i])

FillsInv == NoPhantomFill /\ StreamKnown /\ \A w \in Workers : JobKnown(w)

LEMMA FillsInit == TypeInv /\ Init => FillsInv
<1> SUFFICES ASSUME TypeInv, Init PROVE FillsInv
  OBVIOUS
<1>1. 0 \in Ords
  BY ConstantsAssumption DEF Ords
<1>2. \A w \in Workers : JobKnown(w)
  BY <1>1 DEF Init, JobKnown, Known, NoJob, NoEvent, NoOrder, Ord
<1>3. NoPhantomFill /\ StreamKnown
  BY DEF Init, NoPhantomFill, StreamKnown, NoRecord, NoOrder
<1> QED
  BY <1>2, <1>3 DEF FillsInv

\* What was known stays known: the broker never takes a share back.
LEMMA KnownStays ==
    ASSUME TypeInv, FillsInv, broker' \in [Ords -> [status: BrokerStates, fill: 0..Qty]],
           \A o \in Ords : broker[o].fill <= broker'[o].fill
    PROVE  /\ \A e \in Events : Known(e) => e.cum <= broker'[e.ord].fill
           /\ rec' = rec => NoPhantomFill'
           /\ stream' = stream => StreamKnown'
           /\ \A w \in Workers : pc'[w] = pc[w] /\ job'[w] = job[w] => JobKnown(w)'
<1>1. broker \in [Ords -> [status: BrokerStates, fill: 0..Qty]]
  BY DEF TypeInv, TypeOK
<1>2. \A e \in Events : Known(e) => e.cum <= broker'[e.ord].fill
  BY <1>1 DEF Known, Events
<1>3. rec' = rec => NoPhantomFill'
  BY <1>1 DEF FillsInv, NoPhantomFill, TypeInv, TypeOK, Records
<1>4. stream' = stream => StreamKnown'
  <2> SUFFICES ASSUME stream' = stream, NEW i \in 1..Len(stream)
               PROVE  Known(stream[i])'
    BY DEF StreamKnown
  <2>1. stream[i] \in Events
    BY DEF TypeInv, TypeOK
  <2>2. Known(stream[i])
    BY DEF FillsInv, StreamKnown
  <2> QED
    BY <1>2, <2>1, <2>2 DEF Known
<1>5. ASSUME NEW w \in Workers, pc'[w] = pc[w], job'[w] = job[w]
      PROVE  JobKnown(w)'
  <2>1. JobKnown(w) /\ job[w] \in Jobs
    BY DEF FillsInv, TypeInv, TypeOK
  <2>2. job[w].ev \in Events /\ job[w].todo \subseteq Events /\ Ord(w) \in Ords
        /\ job[w].from \in 0..Qty
    BY <2>1 DEF Jobs, Events, Ord
  <2>3. Known(job[w].ev)' /\ \A e \in job'[w].todo : Known(e)'
    BY <1>2, <1>5, <2>1, <2>2 DEF JobKnown, Known
  <2>4. job'[w].from <= broker'[Ord(w)'].fill
    BY <1>1, <1>5, <2>1, <2>2 DEF JobKnown, Ord
  <2> QED
    BY <1>5, <2>1, <2>3, <2>4 DEF JobKnown
<1> QED
  BY <1>2, <1>3, <1>4, <1>5

\* A step of worker w that leaves stream and broker alone.
LEMMA WorkerKnown ==
    ASSUME TypeInv, FillsInv, NEW w \in Workers, Local(w), JobKnown(w)',
           broker' = broker, stream' = stream, rec' = rec \/ NoPhantomFill'
    PROVE  FillsInv'
<1>1. /\ broker' \in [Ords -> [status: BrokerStates, fill: 0..Qty]]
      /\ \A o \in Ords : broker[o].fill <= broker'[o].fill
  BY DEF TypeInv, TypeOK
<1> QED
  BY <1>1, KnownStays DEF FillsInv, Local

\* The job a worker is left with when it has nothing to do.
LEMMA IdleKnown ==
    ASSUME TypeInv, NEW w \in Workers, job'[w] = NoJob,
           broker' \in [Ords -> [status: BrokerStates, fill: 0..Qty]]
    PROVE  JobKnown(w)'
<1>1. 0 \in Ords
  BY ConstantsAssumption DEF Ords
<1> QED
  BY <1>1 DEF JobKnown, Known, NoJob, NoEvent, Ord

\* Applying what the broker shows of the order in hand.
LEMMA ApplyKnown ==
    ASSUME TypeInv, FillsInv, NEW w \in Workers, Apply(w, Reference(Ord(w))),
           broker' = broker, stream' = stream, rec' = rec \/ NoPhantomFill'
    PROVE  FillsInv'
<1>1. job[w] \in Jobs /\ Ord(w) \in Ords
  BY DEF TypeInv, TypeOK, Jobs, Events, Ord
<1>2. /\ Reference(Ord(w)) \in Events
      /\ Reference(Ord(w)).ord = Ord(w)
      /\ Reference(Ord(w)).cum = broker[Ord(w)].fill
  BY <1>1, ReferenceType DEF TypeInv
<1>3. /\ pc'[w] = "read" /\ Local(w)
      /\ job'[w] = [job[w] EXCEPT !.ev = Reference(Ord(w))]
  BY <1>2, ControlLocal DEF TypeInv
<1>4. /\ job'[w].ev = Reference(Ord(w)) /\ job'[w].todo = job[w].todo
      /\ job'[w].from = job[w].from
  BY <1>1, <1>3 DEF Jobs
<1>5. broker[Ord(w)].fill \in 0..Qty
  BY <1>1 DEF TypeInv, TypeOK
<1>6. JobKnown(w)'
  BY <1>2, <1>3, <1>4, <1>5 DEF FillsInv, JobKnown, Known, Ord, CleanPCs
<1> QED
  BY <1>3, <1>6, WorkerKnown

LEMMA DoneKnown ==
    ASSUME TypeInv, FillsInv, NEW w \in Workers, Done(w),
           broker' = broker, stream' = stream, rec' = rec \/ NoPhantomFill'
    PROVE  FillsInv'
BY ControlLocal, IdleKnown, WorkerKnown DEF TypeInv, TypeOK

LEMMA FinishKnown ==
    ASSUME TypeInv, FillsInv, NEW w \in Workers, Finish(w),
           broker' = broker, stream' = stream, rec' = rec \/ NoPhantomFill'
    PROVE  FillsInv'
<1>1. Local(w)
  BY FinishLocal DEF TypeInv
<1>2. CASE job'[w] = NoJob
  BY <1>1, <1>2, IdleKnown, WorkerKnown DEF TypeInv, TypeOK
<1>3. CASE job'[w] = [job[w] EXCEPT !.ev = NoEvent, !.ver = 0, !.from = 0]
  <2>1. job[w] \in Jobs /\ 0 \in Ords /\ broker \in [Ords -> [status: BrokerStates, fill: 0..Qty]]
    BY ConstantsAssumption DEF TypeInv, TypeOK, Ords
  <2>2. /\ job'[w].ev = NoEvent /\ job'[w].todo = job[w].todo
        /\ job'[w].ver = 0 /\ job'[w].from = 0
    BY <1>3, <2>1 DEF Jobs
  <2>3. 0 <= broker[0].fill
    BY <2>1
  <2>4. JobKnown(w)'
    BY <2>2, <2>3 DEF FillsInv, JobKnown, Known, NoEvent, Ord
  <2> QED
    BY <1>1, <2>4, WorkerKnown
<1> QED
  BY <1>2, <1>3, FinishLocal DEF TypeInv

\* A row that comes to count what was known of its order is no phantom.
LEMMA WriteKnown ==
    ASSUME TypeInv, FillsInv, NEW o \in Ords, NEW r, r.cum <= broker[o].fill,
           broker' = broker, rec' = [rec EXCEPT ![o] = r]
    PROVE  NoPhantomFill'
BY DEF FillsInv, NoPhantomFill, TypeInv, TypeOK

LEMMA SubmitKnown ==
    ASSUME TypeInv, FillsInv, NEW t \in Submitters, Submit(t)
    PROVE  FillsInv'
<1>1. t \in Workers /\ job[t] \in Jobs /\ Ord(t) \in Ords /\ Local(t)
  <2>1. t \in Workers
    BY DEF Workers
  <2> QED
    BY <2>1, WorkersAreLocal DEF TypeInv, TypeOK, Jobs, Events, Ord
<1>2. /\ job \in [Workers -> Jobs]
      /\ pc \in [Workers -> PCs]
      /\ broker \in [Ords -> [status: BrokerStates, fill: 0..Qty]]
      /\ rec \in [Ords -> Records]
  BY DEF TypeInv, TypeOK
<1>3. JobKnown(t) /\ rec[Ord(t)].cum <= broker[Ord(t)].fill
  BY <1>1 DEF FillsInv, NoPhantomFill
\* Moving on, with what the worker knows, or with the row's own quantity.
<1>4. ASSUME pc'[t] \notin CleanPCs, job'[t].ev = job[t].ev,
             job'[t].todo = job[t].todo, job'[t].from \in {job[t].from, rec[Ord(t)].cum},
             broker' = broker, stream' = stream, rec' = rec \/ NoPhantomFill'
      PROVE  FillsInv'
  <2>1. JobKnown(t)'
    BY <1>3, <1>4 DEF JobKnown, Known, Ord
  <2> QED
    BY <1>1, <1>4, <2>1, WorkerKnown
<1>5. CASE Identify(t)
  <2>1. PICK o \in Ords : /\ Goto(t, "gate") \/ Goto(t, "lookup")
                          /\ job' = [job EXCEPT ![t].ev = Event(o, "intent", 0)]
    BY <1>5 DEF Identify
  <2>2. /\ job'[t].ev = Event(o, "intent", 0) /\ job'[t].todo = job[t].todo
        /\ job'[t].from = job[t].from /\ job'[t].ver = job[t].ver
    BY <1>1, <1>2, <2>1 DEF Jobs
  <2>3. job[t].from = 0 /\ job[t].ver = 0
    BY <1>3, <1>5 DEF Identify, JobKnown, CleanPCs
  <2>4. 0 <= broker[o].fill
    BY <1>2
  <2>5. JobKnown(t)'
    BY <1>3, <1>5, <2>2, <2>3, <2>4 DEF JobKnown, Known, Ord, Event, Identify, outside
  <2> QED
    BY <1>1, <1>5, <2>5, WorkerKnown DEF Identify, durable, outside
<1>6. CASE Lookup(t)
  BY <1>1, <1>6, ApplyKnown, DoneKnown DEF Lookup, durable, outside
<1>7. CASE Gate(t)
  <2>1. CASE Goto(t, "create") /\ UNCHANGED job
    <3>1. job[t].from = 0 /\ job[t].ver = 0
      BY <1>3, <1>7 DEF Gate, JobKnown, CleanPCs
    <3>2. JobKnown(t)'
      BY <1>3, <1>7, <2>1, <3>1 DEF JobKnown, Known, Ord, Gate, outside
    <3> QED
      BY <1>1, <1>7, <3>2, WorkerKnown DEF Gate, durable, outside
  <2>2. CASE Done(t)
    BY <1>1, <1>7, <2>2, DoneKnown DEF Gate, durable, outside
  <2> QED
    BY <1>7, <2>1, <2>2 DEF Gate
<1>8. CASE Create(t)
  <2>1. /\ pc'[t] = "mark" /\ broker' = broker /\ stream' = stream
    BY <1>1, <1>2, <1>8 DEF Create, Goto, outside
  <2>2. \/ job' = job
        \/ job' = [job EXCEPT ![t].ver = rec[Ord(t)].version,
                              ![t].from = rec[Ord(t)].cum]
    BY <1>8 DEF Create
  <2>3. /\ job'[t].ev = job[t].ev /\ job'[t].todo = job[t].todo
        /\ job'[t].from \in {job[t].from, rec[Ord(t)].cum}
    BY <1>1, <1>2, <2>2 DEF Jobs
  <2>4. rec' = rec \/ NoPhantomFill'
    <3>1. rec' = rec \/ rec' = [rec EXCEPT ![Ord(t)] = IntentRecord]
      BY <1>8 DEF Create
    <3>2. IntentRecord.cum <= broker[Ord(t)].fill
      BY <1>1, <1>2 DEF IntentRecord, NoRecord
    <3> QED
      BY <1>1, <2>1, <3>1, <3>2, WriteKnown
  <2> QED
    BY <1>4, <2>1, <2>3, <2>4 DEF CleanPCs
<1>9. CASE Mark(t)
  <2>1. broker' = broker /\ stream' = stream
    BY <1>9 DEF Mark, outside
  <2>2. rec' = rec \/ NoPhantomFill'
    <3> DEFINE r == Appended(rec[Ord(t)], <<"submitting", job[t].ver + 1>>,
                             "submitting", job[t].from, FALSE)
    <3>1. rec' = rec \/ rec' = [rec EXCEPT ![Ord(t)] = r]
      BY <1>9 DEF Mark, Write
    <3>2. r.cum <= broker[Ord(t)].fill
      BY <1>3 DEF Appended, JobKnown
    <3> QED
      BY <1>1, <2>1, <3>1, <3>2, WriteKnown
  <2>3. CASE Goto(t, "post") /\ UNCHANGED job
    BY <1>1, <1>2, <1>4, <2>1, <2>2, <2>3 DEF Goto, CleanPCs
  <2>4. CASE Done(t)
    BY <1>1, <2>1, <2>2, <2>4, DoneKnown
  <2> QED
    BY <1>9, <2>3, <2>4 DEF Mark
<1>10. CASE Post(t)
  <2>1. broker' = broker /\ stream' = stream /\ rec' = rec
    BY <1>10 DEF Post, durable
  <2>2. CASE Apply(t, Reference(Ord(t)))
    BY <1>1, <2>1, <2>2, ApplyKnown
  <2>3. CASE /\ Goto(t, "recover") \/ Goto(t, "wait")
             /\ job' = job \/ job' = [job EXCEPT ![t].refused = TRUE]
    <3>1. pc'[t] \notin CleanPCs
      BY <1>1, <1>2, <2>3 DEF Goto, CleanPCs
    <3>2. /\ job'[t].ev = job[t].ev /\ job'[t].todo = job[t].todo
          /\ job'[t].from = job[t].from
      BY <1>1, <1>2, <2>3 DEF Jobs
    <3> QED
      BY <1>4, <2>1, <3>1, <3>2
  <2> QED
    BY <1>10, <2>2, <2>3 DEF Post
<1>11. CASE WaitAccepted(t)
  BY <1>1, <1>11, ApplyKnown DEF WaitAccepted, durable, outside
<1>12. CASE WaitRefused(t) \/ WaitLost(t) \/ WaitGatewayError(t)
  <2>1. broker' = broker /\ stream' = stream /\ rec' = rec
    BY <1>12 DEF WaitRefused, WaitLost, WaitGatewayError, durable, outside
  <2>2. pc'[t] \notin CleanPCs
    BY <1>1, <1>2, <1>12
       DEF WaitRefused, WaitLost, WaitGatewayError, Goto, CleanPCs
  <2>3. /\ job'[t].ev = job[t].ev /\ job'[t].todo = job[t].todo
        /\ job'[t].from = job[t].from
    BY <1>1, <1>2, <1>12 DEF WaitRefused, WaitLost, WaitGatewayError, Jobs
  <2> QED
    BY <1>4, <2>1, <2>2, <2>3
<1>13. CASE Recover(t)
  <2>1. CASE Apply(t, Reference(Ord(t)))
    BY <1>1, <1>13, <2>1, ApplyKnown DEF Recover, durable, outside
  <2>2. CASE Goto(t, "settle") /\ UNCHANGED job
    BY <1>1, <1>2, <1>4, <1>13, <2>2
       DEF Recover, Goto, CleanPCs, durable, outside
  <2> QED
    BY <1>13, <2>1, <2>2 DEF Recover
<1>14. CASE Settle(t)
  <2>1. /\ job'[t].ev = job[t].ev /\ job'[t].todo = job[t].todo
        /\ job'[t].from = rec[Ord(t)].cum
    BY <1>1, <1>2, <1>14 DEF Settle, Jobs
  <2> QED
    BY <1>1, <1>2, <1>4, <1>14, <2>1
       DEF Settle, Goto, CleanPCs, durable, outside
<1>15. CASE Conclude(t)
  <2> DEFINE state == IF job[t].refused THEN "rejected" ELSE "unknown"
             r == Appended(rec[Ord(t)], <<state, job[t].ver + 1>>, state,
                           job[t].from, FALSE)
  <2>1. broker' = broker /\ stream' = stream
    BY <1>15 DEF Conclude, outside
  <2>2. rec' = rec \/ rec' = [rec EXCEPT ![Ord(t)] = r]
    BY <1>15 DEF Conclude, Write
  <2>3. r.cum <= broker[Ord(t)].fill
    BY <1>3 DEF Appended, JobKnown
  <2> QED
    BY <1>1, <1>15, <2>1, <2>2, <2>3, WriteKnown, DoneKnown DEF Conclude
<1> QED
  BY <1>5, <1>6, <1>7, <1>8, <1>9, <1>10, <1>11, <1>12, <1>13, <1>14, <1>15
     DEF Submit

LEMMA ApplyEventKnown ==
    ASSUME TypeInv, FillsInv, NEW w \in Workers, ApplyEvent(w)
    PROVE  FillsInv'
<1>1. job[w] \in Jobs /\ Ord(w) \in Ords /\ Local(w)
  BY WorkersAreLocal DEF TypeInv, TypeOK, Jobs, Events, Ord
<1>2. /\ job \in [Workers -> Jobs]
      /\ pc \in [Workers -> PCs]
      /\ broker \in [Ords -> [status: BrokerStates, fill: 0..Qty]]
  BY DEF TypeInv, TypeOK
<1>3. JobKnown(w) /\ rec[Ord(w)].cum <= broker[Ord(w)].fill
  BY <1>1 DEF FillsInv, NoPhantomFill
<1>4. broker' = broker /\ stream' = stream
  BY DEF ApplyEvent, ReadRow, AppendEvent, BookFill, HandlerRaises, FinishEvent,
         outside
<1>5. CASE ReadRow(w)
  <2>1. rec' = rec
    BY <1>5 DEF ReadRow, durable
  <2>2. CASE /\ job' = [job EXCEPT ![w].ver = rec[Ord(w)].version,
                                   ![w].from = rec[Ord(w)].cum]
             /\ Goto(w, "append")
    <3>1. /\ job'[w].ev = job[w].ev /\ job'[w].todo = job[w].todo
          /\ job'[w].from = rec[Ord(w)].cum
      BY <1>1, <1>2, <2>2 DEF Jobs
    <3>2. pc'[w] = "append"
      BY <1>1, <1>2, <2>2 DEF Goto
    <3>3. JobKnown(w)'
      BY <1>3, <1>4, <3>1, <3>2 DEF JobKnown, Known, Ord, CleanPCs
    <3> QED
      BY <1>1, <1>4, <2>1, <3>3, WorkerKnown
  <2>3. CASE Finish(w)
    BY <1>4, <2>1, <2>3, FinishKnown
  <2> QED
    BY <1>5, <2>2, <2>3 DEF ReadRow, Ord
<1>6. CASE AppendEvent(w)
  <2> DEFINE e == job[w].ev
             r == Appended(rec[e.ord], <<e.state, e.cum>>, e.state, e.cum, ~IsStub(e))
  <2>1. CASE /\ Write(e.ord, r) /\ Goto(w, AfterAppend(w)) /\ job' = job
    <3>1. r.cum <= broker[Ord(w)].fill
      BY <1>3 DEF Appended, JobKnown, Known, Ord
    <3>2. NoPhantomFill'
      BY <1>1, <1>4, <2>1, <3>1, WriteKnown DEF Write, Ord
    <3>3. pc'[w] \notin CleanPCs
      BY <1>1, <1>2, <2>1 DEF Goto, AfterAppend, CleanPCs
    <3>4. JobKnown(w)'
      BY <1>3, <1>4, <2>1, <3>3 DEF JobKnown, Known, Ord
    <3> QED
      BY <1>1, <1>4, <3>2, <3>4, WorkerKnown
  <2>2. CASE Finish(w) /\ UNCHANGED <<rec, aged>>
    BY <1>4, <2>2, FinishKnown
  <2> QED
    BY <1>6, <2>1, <2>2 DEF AppendEvent, Declined
<1>7. CASE BookFill(w)
  <2>1. pc'[w] \notin CleanPCs
    BY <1>1, <1>2, <1>7 DEF BookFill, Goto, CleanPCs
  <2>2. JobKnown(w)'
    BY <1>3, <1>4, <1>7, <2>1 DEF BookFill, JobKnown, Known, Ord
  <2> QED
    BY <1>1, <1>4, <1>7, <2>2, WorkerKnown DEF BookFill
<1>8. CASE HandlerRaises(w)
  BY <1>4, <1>8, DoneKnown DEF HandlerRaises, durable
<1>9. CASE FinishEvent(w)
  BY <1>4, <1>9, FinishKnown DEF FinishEvent, durable
<1> QED
  BY <1>5, <1>6, <1>7, <1>8, <1>9 DEF ApplyEvent

LEMMA NextUpdateKnown ==
    ASSUME TypeInv, FillsInv, NextUpdate
    PROVE  FillsInv'
<1> DEFINE w == StreamWorker
           e == Head(stream)
<1>1. w \in Workers /\ job[w] \in Jobs /\ stream \in Seq(Events) /\ stream # <<>>
  BY DEF Workers, TypeInv, TypeOK, NextUpdate
<1>2. Local(w)
  BY <1>1, WorkersAreLocal DEF TypeInv
<1>3. /\ broker' = broker /\ rec' = rec
      /\ broker \in [Ords -> [status: BrokerStates, fill: 0..Qty]]
  BY DEF NextUpdate, durable, TypeInv, TypeOK
<1>4. JobKnown(w) /\ StreamKnown
  BY <1>1 DEF FillsInv
<1>5. Known(e) /\ e \in Events
  <2>1. 1 \in 1..Len(stream) /\ e = stream[1] /\ e \in Events
    BY <1>1
  <2> QED
    BY <1>4, <2>1 DEF StreamKnown
<1>6. pc'[w] = "read" /\ job'[w] = [job[w] EXCEPT !.ev = e]
  BY <1>1, <1>5, ControlLocal DEF NextUpdate, TypeInv
<1>7. /\ job'[w].ev = e /\ job'[w].todo = job[w].todo /\ job'[w].from = job[w].from
  BY <1>1, <1>6 DEF Jobs
<1>8. job[w].from = 0
  BY <1>4 DEF JobKnown, NextUpdate, CleanPCs
<1>9. 0 <= broker[e.ord].fill
  BY <1>3, <1>5 DEF Events
<1>10. JobKnown(w)'
  BY <1>3, <1>4, <1>5, <1>6, <1>7, <1>8, <1>9 DEF JobKnown, Known, Ord, CleanPCs
<1>11. StreamKnown'
  <2>1. stream' = Tail(stream)
    BY DEF NextUpdate
  <2>2. ASSUME NEW i \in 1..Len(stream')
        PROVE  Known(stream[i + 1]) /\ stream'[i] = stream[i + 1]
    <3>1. i + 1 \in 1..Len(stream) /\ stream'[i] = stream[i + 1]
      BY <1>1, <2>1, <2>2
    <3> QED
      BY <1>4, <3>1 DEF StreamKnown
  <2>3. ASSUME NEW i \in 1..Len(stream')
        PROVE  Known(stream[i])'
    BY <1>3, <2>2 DEF Known
  <2> QED
    BY <2>3 DEF StreamKnown
<1>12. \A v \in Workers : JobKnown(v)'
  <2>1. \A o \in Ords : broker[o].fill <= broker'[o].fill
    BY <1>3
  <2> QED
    BY <1>2, <1>3, <1>10, <2>1, KnownStays DEF Local
<1> QED
  BY <1>3, <1>11, <1>12 DEF FillsInv, NoPhantomFill

LEMMA ReconcileKnown ==
    ASSUME TypeInv, FillsInv, NEW r \in Reconcilers, Reconcile(r)
    PROVE  FillsInv'
<1>1. r \in Workers /\ job[r] \in Jobs /\ Local(r)
  <2>1. r \in Workers
    BY DEF Workers
  <2> QED
    BY <2>1, WorkersAreLocal DEF TypeInv, TypeOK
<1>2. /\ job \in [Workers -> Jobs]
      /\ pc \in [Workers -> PCs]
      /\ broker \in [Ords -> [status: BrokerStates, fill: 0..Qty]]
  BY DEF TypeInv, TypeOK
<1>3. JobKnown(r)
  BY <1>1 DEF FillsInv
<1>4. broker' = broker /\ stream' = stream /\ rec' = rec
  BY DEF Reconcile, Capture, CaptureUnusable, SweepOrder, ListRows, RetireRow,
         CountLineage, Publish, durable, outside
\* A new list of events, all of them known.
<1>5. ASSUME job'[r].ev = job[r].ev, job'[r].from = job[r].from,
             job'[r].ver = job[r].ver, pc[r] \in CleanPCs,
             \A e \in job'[r].todo : Known(e)
      PROVE  FillsInv'
  <2>1. JobKnown(r)'
    BY <1>3, <1>4, <1>5 DEF JobKnown, Known, Ord
  <2> QED
    BY <1>1, <1>4, <2>1, WorkerKnown
<1>6. CASE Capture(r)
  <2>1. /\ job'[r].ev = job[r].ev /\ job'[r].from = job[r].from
        /\ job'[r].ver = job[r].ver /\ job'[r].todo = {Reference(o) : o \in Shown}
    BY <1>1, <1>2, <1>6 DEF Capture, Jobs
  <2>2. \A o \in Shown : Known(Reference(o))
    <3> TAKE o \in Shown
    <3>1. o \in Ords /\ Reference(o).ord = o /\ Reference(o).cum = broker[o].fill
      BY ReferenceType DEF Shown, TypeInv
    <3> QED
      BY <1>2, <3>1 DEF Known
  <2>3. pc[r] \in CleanPCs
    BY <1>6 DEF Capture, CleanPCs
  <2> QED
    BY <1>5, <2>1, <2>2, <2>3
<1>7. CASE CaptureUnusable(r)
  BY <1>1, <1>3, <1>4, <1>7, WorkerKnown DEF CaptureUnusable, JobKnown, Known, Ord
<1>8. CASE SweepOrder(r) \/ RetireRow(r)
  <2>1. PICK e \in job[r].todo : job' = [job EXCEPT ![r].todo = @ \ {e}, ![r].ev = e]
    BY <1>8 DEF SweepOrder, RetireRow
  <2>2. /\ job'[r].ev = e /\ job'[r].todo = job[r].todo \ {e}
        /\ job'[r].from = job[r].from /\ pc'[r] = "read"
    BY <1>1, <1>2, <1>8, <2>1 DEF SweepOrder, RetireRow, Goto, Jobs
  <2>3. job[r].from = 0
    BY <1>3, <1>8 DEF SweepOrder, RetireRow, JobKnown, CleanPCs
  <2>4. 0 <= broker[e.ord].fill
    BY <1>1, <1>2 DEF Jobs, Events
  <2>5. JobKnown(r)'
    BY <1>3, <1>4, <2>2, <2>3, <2>4 DEF JobKnown, Known, Ord, CleanPCs
  <2> QED
    BY <1>1, <1>4, <2>5, WorkerKnown
<1>9. CASE ListRows(r)
  <2> DEFINE missing == {o \in Ords : Open(o)} \ snap[r].shown
             retire  == {o \in missing : Abandonable(rec[o]) /\ WasOld(r, o)}
  <2>1. /\ job'[r].ev = job[r].ev /\ job'[r].from = job[r].from
        /\ job'[r].ver = job[r].ver
        /\ job'[r].todo = {Event(o, "expired", 0) : o \in retire}
    <3> HIDE DEF missing, retire
    <3>1. job' = [job EXCEPT ![r].todo = {Event(o, "expired", 0) : o \in retire},
                             ![r].phase = "retire",
                             ![r].issue = (missing # retire),
                             ![r].lineage = Lineage]
      BY <1>9 DEF ListRows, missing, retire
    <3> QED
      BY <1>1, <1>2, <3>1 DEF Jobs
  <2>2. \A o \in retire : Known(Event(o, "expired", 0))
    BY <1>2 DEF Known, Event
  <2>3. pc[r] \in CleanPCs
    BY <1>9 DEF ListRows, CleanPCs
  <2> QED
    BY <1>5, <2>1, <2>2, <2>3
<1>10. CASE CountLineage(r)
  <2>1. /\ job'[r].ev = job[r].ev /\ job'[r].from = job[r].from
        /\ job'[r].ver = job[r].ver /\ job'[r].todo = job[r].todo
    BY <1>1, <1>2, <1>10 DEF CountLineage, Jobs
  <2>2. pc[r] \in CleanPCs
    BY <1>10 DEF CountLineage, CleanPCs
  <2> QED
    BY <1>3, <1>5, <2>1, <2>2 DEF JobKnown
<1>11. CASE Publish(r)
  BY <1>1, <1>4, <1>11, DoneKnown DEF Publish
<1> QED
  BY <1>6, <1>7, <1>8, <1>9, <1>10, <1>11 DEF Reconcile

\* A broker that moves on only executes more, and says no more than it did.
LEMMA BrokerMovesKnown ==
    ASSUME TypeInv, FillsInv, NEW o \in Ords, NEW b \in GoodOrders,
           broker[o].fill <= b.fill, BrokerMoves(o, b)
    PROVE  FillsInv'
<1>1. /\ broker \in [Ords -> [status: BrokerStates, fill: 0..Qty]]
      /\ broker' \in [Ords -> [status: BrokerStates, fill: 0..Qty]]
      /\ stream \in Seq(Events)
  BY BrokerMovesType DEF TypeInv, TypeOK
<1>2. broker' = [broker EXCEPT ![o] = b] /\ rec' = rec /\ pc' = pc /\ job' = job
  BY DEF BrokerMoves, durable
<1>3. \A p \in Ords : broker[p].fill <= broker'[p].fill
  BY <1>1, <1>2
<1>4. StreamKnown'
  <2> DEFINE e == Event(o, StateOf(b), b.fill)
  <2>1. CASE stream' = stream
    BY <1>1, <1>3, <2>1, KnownStays
  <2>2. CASE stream' = Append(stream, e)
    <3>1. e \in Events /\ e.ord = o /\ e.cum = b.fill
      BY StateOfType, EventType DEF GoodOrders
    <3>2. Known(e)'
      BY <1>1, <1>2, <3>1 DEF Known
    <3>3. ASSUME NEW i \in 1..Len(stream')
          PROVE  stream'[i].cum <= broker'[stream'[i].ord].fill
      <4>1. CASE i = Len(stream) + 1
        <5>1. stream'[i] = e
          BY <1>1, <2>2, <3>1, <4>1
        <5> QED
          BY <3>2, <5>1 DEF Known
      <4>2. CASE i # Len(stream) + 1
        <5>1. i \in 1..Len(stream) /\ stream'[i] = stream[i] /\ stream[i] \in Events
          BY <1>1, <2>2, <3>1, <3>3, <4>2
        <5>2. Known(stream[i])
          BY <5>1 DEF FillsInv, StreamKnown
        <5> QED
          BY <1>1, <1>3, <5>1, <5>2, KnownStays DEF Known
      <4> QED
        BY <4>1, <4>2
    <3> QED
      BY <3>3 DEF StreamKnown, Known
  <2> QED
    BY <2>1, <2>2 DEF BrokerMoves
<1> QED
  BY <1>1, <1>2, <1>3, <1>4, KnownStays DEF FillsInv

LEMMA EnvironmentKnown ==
    ASSUME TypeInv, FillsInv, Environment
    PROVE  FillsInv'
<1>1. /\ broker \in [Ords -> [status: BrokerStates, fill: 0..Qty]]
      /\ \A o \in Ords : broker[o].fill <= broker[o].fill
  BY DEF TypeInv, TypeOK
\* A step that leaves the broker and everything that reads it alone.
<1>2. ASSUME UNCHANGED <<broker, rec, stream, pc, job>>
      PROVE  FillsInv'
  BY <1>1, <1>2, KnownStays DEF FillsInv
<1>3. ASSUME NEW o \in Ords, Land(o)
      PROVE  FillsInv'
  <2>1. CASE ~AtBroker(o) /\ BrokerMoves(o, [status |-> "working", fill |-> 0])
    <3>1. [status |-> "working", fill |-> 0] \in GoodOrders
      BY QtyAssumption DEF GoodOrders, BrokerStates
    <3>2. broker[o].fill <= 0
      BY <2>1 DEF AtBroker, TypeInv, BrokerOK
    <3> QED
      BY <2>1, <3>1, <3>2, BrokerMovesKnown
  <2>2. CASE UNCHANGED <<durable, memory, broker, stream, pc, job, snap, crashes, handlerFails>>
    BY <1>2, <2>2 DEF durable
  <2> QED
    BY <1>3, <2>1, <2>2 DEF Land
<1>4. ASSUME NEW o \in Ords, WireLoses(o)
      PROVE  FillsInv'
  BY <1>2, <1>4 DEF WireLoses, durable
<1>5. ASSUME NEW o \in Ords, Execute(o)
      PROVE  FillsInv'
  <2> DEFINE b == [status |-> IF broker[o].fill + 1 = Qty THEN "filled"
                              ELSE broker[o].status,
                   fill |-> broker[o].fill + 1]
  <2>1. b \in GoodOrders /\ broker[o].fill <= b.fill
    BY <1>1, <1>5, QtyAssumption
       DEF Execute, TypeInv, BrokerOK, GoodOrders, BrokerStates
  <2> QED
    BY <1>5, <2>1, BrokerMovesKnown DEF Execute
<1>6. ASSUME NEW o \in Ords, RequestCancel(o)
      PROVE  FillsInv'
  <2> DEFINE b == [broker[o] EXCEPT !.status = "canceling"]
  <2>1. b \in GoodOrders /\ broker[o].fill <= b.fill
    BY <1>1, <1>6 DEF RequestCancel, TypeInv, BrokerOK, GoodOrders, BrokerStates
  <2> QED
    BY <1>6, <2>1, BrokerMovesKnown DEF RequestCancel
<1>7. ASSUME NEW o \in Ords, CloseOrder(o)
      PROVE  FillsInv'
  <2> DEFINE b == [broker[o] EXCEPT !.status = "canceled"]
  <2>1. b \in GoodOrders /\ broker[o].fill <= b.fill
    BY <1>1, <1>7 DEF CloseOrder, TypeInv, BrokerOK, GoodOrders, BrokerStates
  <2> QED
    BY <1>7, <2>1, BrokerMovesKnown DEF CloseOrder
<1>8. ASSUME NEW o \in Ords, Age(o)
      PROVE  FillsInv'
  BY <1>2, <1>8 DEF Age, outside
<1>9. CASE Crash
  <2>1. /\ rec' = rec /\ broker' = broker /\ stream' = <<>>
        /\ \A w \in Workers : job'[w] = NoJob
    BY <1>9 DEF Crash, durable
  <2>2. \A w \in Workers : JobKnown(w)'
    BY <1>1, <2>1, IdleKnown
  <2>3. NoPhantomFill' /\ StreamKnown'
    BY <2>1 DEF FillsInv, NoPhantomFill, StreamKnown
  <2> QED
    BY <2>2, <2>3 DEF FillsInv
<1> QED
  BY <1>3, <1>4, <1>5, <1>6, <1>7, <1>8, <1>9 DEF Environment

LEMMA FillsStep == TypeInv /\ FillsInv /\ [Next]_vars => FillsInv'
<1> SUFFICES ASSUME TypeInv, FillsInv, [Next]_vars
             PROVE  FillsInv'
  OBVIOUS
<1>1. CASE UNCHANGED vars
  BY <1>1 DEF vars, durable, outside, FillsInv, NoPhantomFill, StreamKnown,
              JobKnown, Known, Ord
<1>2. CASE Next
  BY <1>2, SubmitKnown, ApplyEventKnown, NextUpdateKnown, ReconcileKnown,
     EnvironmentKnown DEF Next
<1> QED
  BY <1>1, <1>2

(***************************************************************************)
(* No phantom fill: whichever of the POST's reply, the trade update, the    *)
(* lookup and the snapshot a row was written from, in whatever order they   *)
(* reach apply_broker_event, and through lost updates, restarts and races,  *)
(* the row never counts a share that the broker did not execute.            *)
(***************************************************************************)
THEOREM NeverPhantom == Spec => []NoPhantomFill
<1>1. FillsInv => NoPhantomFill
  BY DEF FillsInv
<1> QED
  BY <1>1, TypeInit, TypeStep, FillsInit, FillsStep, PTL DEF Spec

-----------------------------------------------------------------------------
(***************************************************************************)
(* Rows only grow.  A worker that is about to append holds a version and a  *)
(* quantity it read together: if the version is still the row's, so is the  *)
(* quantity, and the compare-and-swap of the store does the rest.           *)
(***************************************************************************)
AppendPCs == {"mark", "conclude", "append"}

VerOK(w) ==
    /\ pc[w] \in AppendPCs =>
         /\ job[w].ver <= rec[Ord(w)].version
         /\ job[w].ver = rec[Ord(w)].version => job[w].from = rec[Ord(w)].cum
    /\ pc[w] = "append" => job[w].from <= job[w].ev.cum

RowsInv ==
    /\ \A o \in Ords : rec[o].state = "none" => rec[o].version = 0 /\ rec[o].cum = 0
    /\ \A w \in Workers : VerOK(w)

\* What any step may do to the row of o: nothing, create it, or append to it.
RowGrows(o) ==
    \/ rec'[o] = rec[o]
    \/ rec[o].state = "none" /\ rec'[o] = IntentRecord
    \/ /\ rec[o].state \in LiveStates
       /\ rec'[o].state # "none"
       /\ rec[o].cum <= rec'[o].cum
       /\ rec'[o].version = rec[o].version + 1

LEMMA FollowsLive ==
    ASSUME NEW from, NEW to \in Follows(from)
    PROVE  from \in LiveStates /\ to # "none"
BY DEF Follows, States, LiveStates, EarlyStates, WorkingStates, TerminalStates

LEMMA AppendGrows ==
    ASSUME TypeOK, NEW o \in Ords, NEW id, NEW ver, NEW state, NEW cum \in 0..Qty,
           NEW bid, Appendable(rec[o], id, ver, state), rec[o].cum <= cum,
           rec' = [rec EXCEPT ![o] = Appended(rec[o], id, state, cum, bid)]
    PROVE  \A p \in Ords : RowGrows(p)
<1>1. rec[o].state \in LiveStates /\ state # "none"
  BY FollowsLive DEF Appendable
<1>2. rec \in [Ords -> Records]
  BY DEF TypeOK
<1>3. RowGrows(o)
  BY <1>1, <1>2 DEF RowGrows, Appended
<1> QED
  BY <1>2, <1>3 DEF RowGrows

LEMMA RowsInit == Init => RowsInv
BY DEF Init, RowsInv, VerOK, NoRecord, AppendPCs

\* Rows that grow leave RowsInv to the workers that moved.
LEMMA GrowthKeepsRows ==
    ASSUME TypeInv, TypeInv', RowsInv, \A o \in Ords : RowGrows(o),
           \A w \in Workers : \/ pc'[w] = pc[w] /\ job'[w] = job[w]
                              \/ VerOK(w)'
    PROVE  RowsInv'
<1>1. \A o \in Ords : rec[o] \in Records /\ rec'[o] \in Records
  BY DEF TypeInv, TypeOK
<1>2. \A o \in Ords : rec'[o].state = "none" => rec'[o].version = 0 /\ rec'[o].cum = 0
  BY DEF RowsInv, RowGrows, IntentRecord, NoRecord
<1>3. ASSUME NEW w \in Workers, pc'[w] = pc[w], job'[w] = job[w]
      PROVE  VerOK(w)'
  <2>1. job[w] \in Jobs /\ Ord(w) \in Ords /\ Ord(w)' = Ord(w) /\ job[w].ver \in Nat
    BY <1>3 DEF TypeInv, TypeOK, Jobs, Events, Ord
  <2> DEFINE o == Ord(w)
  <2>2. VerOK(w) /\ RowGrows(o) /\ rec[o] \in Records /\ rec'[o] \in Records
    BY <1>1, <2>1 DEF RowsInv
  <2>3. \/ rec'[o].version = rec[o].version /\ rec'[o].cum = rec[o].cum
        \/ rec'[o].version = rec[o].version + 1
    BY <2>1, <2>2 DEF RowGrows, RowsInv, IntentRecord, NoRecord
  <2>4. rec[o].version \in Nat
    BY <2>2 DEF Records
  <2>5. pc'[w] \in AppendPCs =>
          /\ job'[w].ver <= rec'[o].version
          /\ job'[w].ver = rec'[o].version => job'[w].from = rec'[o].cum
    BY <1>3, <2>1, <2>2, <2>3, <2>4 DEF VerOK
  <2> QED
    BY <1>3, <2>1, <2>2, <2>5 DEF VerOK
<1> QED
  BY <1>2, <1>3 DEF RowsInv

LEMMA SubmitRows ==
    ASSUME TypeInv, TypeInv', FillsInv, RowsInv, NEW t \in Submitters, Submit(t)
    PROVE  RowsInv' /\ \A o \in Ords : RowGrows(o)
<1>1. t \in Workers /\ job[t] \in Jobs /\ Ord(t) \in Ords /\ Local(t)
  <2>1. t \in Workers
    BY DEF Workers
  <2> QED
    BY <2>1, WorkersAreLocal DEF TypeInv, TypeOK, Jobs, Events, Ord
<1>2. /\ job \in [Workers -> Jobs] /\ job[t].from \in 0..Qty
      /\ pc \in [Workers -> PCs]
      /\ rec \in [Ords -> Records] /\ rec[Ord(t)] \in Records
  BY <1>1 DEF TypeInv, TypeOK, Jobs
<1>3. VerOK(t) /\ JobKnown(t)
  BY <1>1 DEF RowsInv, FillsInv
<1>4. ASSUME VerOK(t)', \A o \in Ords : RowGrows(o)
      PROVE  RowsInv' /\ \A o \in Ords : RowGrows(o)
  BY <1>1, <1>4, GrowthKeepsRows DEF Local
\* Most steps write no row and are not about to.
<1>5. ASSUME rec' = rec, pc'[t] \notin AppendPCs
      PROVE  RowsInv' /\ \A o \in Ords : RowGrows(o)
  BY <1>4, <1>5 DEF RowGrows, VerOK, AppendPCs
<1>6. CASE Create(t)
  <2>1. pc'[t] = "mark"
    BY <1>1, <1>2, <1>6 DEF Create, Goto
  <2>2. CASE rec[Ord(t)].state = "none"
    <3>1. rec' = [rec EXCEPT ![Ord(t)] = IntentRecord] /\ job' = job
      BY <1>6, <2>2 DEF Create
    <3>2. job[t].ver = 0 /\ job[t].from = 0
      BY <1>3, <1>6 DEF Create, JobKnown, CleanPCs
    <3>3. rec'[Ord(t)].version = 0 /\ rec'[Ord(t)].cum = 0
      BY <1>1, <1>2, <3>1 DEF IntentRecord, NoRecord
    <3>4. VerOK(t)'
      BY <2>1, <3>1, <3>2, <3>3 DEF VerOK, Ord
    <3>5. \A o \in Ords : RowGrows(o)
      BY <1>1, <1>2, <2>2, <3>1 DEF RowGrows
    <3> QED
      BY <1>4, <3>4, <3>5
  <2>3. CASE rec[Ord(t)].state # "none"
    <3>1. /\ rec' = rec
          /\ job' = [job EXCEPT ![t].ver = rec[Ord(t)].version,
                                ![t].from = rec[Ord(t)].cum]
      BY <1>6, <2>3 DEF Create
    <3>2. /\ job'[t].ver = rec[Ord(t)].version /\ job'[t].from = rec[Ord(t)].cum
          /\ job'[t].ev = job[t].ev
      BY <1>1, <1>2, <3>1 DEF Jobs
    <3>3. rec[Ord(t)].version \in Nat
      BY <1>2 DEF Records
    <3>4. VerOK(t)'
      BY <2>1, <3>1, <3>2, <3>3 DEF VerOK, Ord
    <3> QED
      BY <1>4, <3>1, <3>4 DEF RowGrows
  <2> QED
    BY <2>2, <2>3
<1>7. CASE Mark(t)
  <2> DEFINE o  == Ord(t)
             id == <<"submitting", job[t].ver + 1>>
             r  == Appended(rec[o], id, "submitting", job[t].from, FALSE)
  <2>1. pc'[t] \notin AppendPCs
    BY <1>1, <1>2, <1>7, ControlLocal DEF Mark, Goto, AppendPCs, TypeInv
  <2>2. CASE rec' = rec
    BY <1>5, <2>1, <2>2
  <2>3. CASE /\ Appendable(rec[o], id, job[t].ver, "submitting")
             /\ rec' = [rec EXCEPT ![o] = r]
    <3>1. job[t].from = rec[o].cum
      BY <1>3, <1>7, <2>3 DEF Mark, VerOK, AppendPCs, Appendable
    <3>2. rec[o].cum <= job[t].from
      BY <1>2, <3>1 DEF Records
    <3>3. \A p \in Ords : RowGrows(p)
      BY <1>1, <1>2, <2>3, <3>2, AppendGrows DEF TypeInv
    <3> QED
      BY <1>4, <2>1, <3>3 DEF VerOK, AppendPCs
  <2> QED
    BY <1>7, <2>2, <2>3 DEF Mark, Write
<1>8. CASE Settle(t)
  <2>1. /\ job'[t].ver = rec[Ord(t)].version /\ job'[t].from = rec[Ord(t)].cum
        /\ job'[t].ev = job[t].ev
    BY <1>1, <1>2, <1>8 DEF Settle, Jobs
  <2>2. rec[Ord(t)].version \in Nat
    BY <1>2 DEF Records
  <2>3. rec' = rec /\ pc'[t] = "conclude"
    BY <1>1, <1>2, <1>8 DEF Settle, Goto, durable
  <2>4. VerOK(t)'
    BY <2>1, <2>2, <2>3 DEF VerOK, Ord
  <2> QED
    BY <1>4, <2>3, <2>4 DEF RowGrows
<1>9. CASE Conclude(t)
  <2> DEFINE o     == Ord(t)
             state == IF job[t].refused THEN "rejected" ELSE "unknown"
             id    == <<state, job[t].ver + 1>>
             r     == Appended(rec[o], id, state, job[t].from, FALSE)
  <2>1. pc'[t] \notin AppendPCs
    BY <1>1, <1>9, ControlLocal DEF Conclude, AppendPCs, TypeInv
  <2>2. CASE rec' = rec
    BY <1>5, <2>1, <2>2
  <2>3. CASE /\ Appendable(rec[o], id, job[t].ver, state)
             /\ rec' = [rec EXCEPT ![o] = r]
    <3>1. job[t].from = rec[o].cum
      BY <1>3, <1>9, <2>3 DEF Conclude, VerOK, AppendPCs, Appendable
    <3>2. rec[o].cum <= job[t].from
      BY <1>2, <3>1 DEF Records
    <3>3. \A p \in Ords : RowGrows(p)
      BY <1>1, <1>2, <2>3, <3>2, AppendGrows DEF TypeInv
    <3> QED
      BY <1>4, <2>1, <3>3 DEF VerOK, AppendPCs
  <2> QED
    BY <1>9, <2>2, <2>3 DEF Conclude, Write
<1>10. CASE \/ Identify(t) \/ Lookup(t) \/ Gate(t) \/ Post(t) \/ WaitAccepted(t)
            \/ WaitRefused(t) \/ WaitLost(t) \/ WaitGatewayError(t) \/ Recover(t)
  <2>1. rec' = rec
    BY <1>10 DEF Identify, Lookup, Gate, Post, WaitAccepted, WaitRefused, WaitLost,
       WaitGatewayError, Recover, durable
  <2>2. pc'[t] \notin AppendPCs
    BY <1>1, <1>2, <1>10
       DEF Identify, Lookup, Gate, Post, WaitAccepted, WaitRefused, WaitLost,
           WaitGatewayError, Recover, Goto, Apply, Done, AppendPCs
  <2> QED
    BY <1>5, <2>1, <2>2
<1> QED
  BY <1>6, <1>7, <1>8, <1>9, <1>10 DEF Submit

LEMMA ApplyEventRows ==
    ASSUME TypeInv, TypeInv', RowsInv, NEW w \in Workers, ApplyEvent(w)
    PROVE  RowsInv' /\ \A o \in Ords : RowGrows(o)
<1>1. job[w] \in Jobs /\ Ord(w) \in Ords /\ Local(w)
  BY WorkersAreLocal DEF TypeInv, TypeOK, Jobs, Events, Ord
<1>2. /\ job \in [Workers -> Jobs] /\ job[w].ev.cum \in 0..Qty
      /\ job[w].phase \in Phases
      /\ pc \in [Workers -> PCs]
      /\ rec \in [Ords -> Records] /\ rec[Ord(w)] \in Records
  BY <1>1 DEF TypeInv, TypeOK, Jobs, Events
<1>3. VerOK(w)
  BY DEF RowsInv
<1>4. ASSUME VerOK(w)', \A o \in Ords : RowGrows(o)
      PROVE  RowsInv' /\ \A o \in Ords : RowGrows(o)
  BY <1>1, <1>4, GrowthKeepsRows DEF Local
<1>5. ASSUME rec' = rec, pc'[w] \notin AppendPCs
      PROVE  RowsInv' /\ \A o \in Ords : RowGrows(o)
  BY <1>4, <1>5 DEF RowGrows, VerOK, AppendPCs
<1>6. Finish(w) => pc'[w] \notin AppendPCs
  BY <1>2, FinishLocal DEF TypeInv, AppendPCs, Phases
<1>7. CASE ReadRow(w)
  <2>1. rec' = rec
    BY <1>7 DEF ReadRow, durable
  <2>2. CASE /\ job' = [job EXCEPT ![w].ver = rec[Ord(w)].version,
                                   ![w].from = rec[Ord(w)].cum]
             /\ Relevant(rec[Ord(w)], job[w].ev.state, job[w].ev.cum)
    <3>1. /\ job'[w].ver = rec[Ord(w)].version /\ job'[w].from = rec[Ord(w)].cum
          /\ job'[w].ev = job[w].ev
      BY <1>1, <1>2, <2>2 DEF Jobs
    <3>2. rec[Ord(w)].version \in Nat /\ rec[Ord(w)].cum <= job[w].ev.cum
      BY <1>2, <2>2 DEF Records, Relevant
    <3>3. VerOK(w)'
      BY <2>1, <3>1, <3>2 DEF VerOK, Ord
    <3> QED
      BY <1>4, <2>1, <3>3 DEF RowGrows
  <2>3. CASE Finish(w)
    BY <1>5, <1>6, <2>1, <2>3
  <2> QED
    BY <1>7, <2>2, <2>3 DEF ReadRow, Ord
<1>8. CASE AppendEvent(w)
  <2> DEFINE e  == job[w].ev
             o  == Ord(w)
             id == <<e.state, e.cum>>
             r  == Appended(rec[o], id, e.state, e.cum, ~IsStub(e))
  <2>1. CASE /\ Appendable(rec[o], id, job[w].ver, e.state)
             /\ Write(o, r) /\ Goto(w, AfterAppend(w))
    <3>1. pc'[w] \notin AppendPCs
      BY <1>1, <1>2, <2>1 DEF Goto, AfterAppend, AppendPCs
    <3>2. rec[o].cum <= e.cum
      BY <1>3, <1>8, <2>1 DEF AppendEvent, VerOK, AppendPCs, Appendable
    <3>3. \A p \in Ords : RowGrows(p)
      BY <1>1, <1>2, <2>1, <3>2, AppendGrows DEF TypeInv, Write
    <3> QED
      BY <1>4, <3>1, <3>3 DEF VerOK, AppendPCs
  <2>2. CASE Finish(w) /\ rec' = rec
    BY <1>5, <1>6, <2>2
  <2> QED
    BY <1>8, <2>1, <2>2 DEF AppendEvent, Declined, Ord
<1>9. CASE BookFill(w)
  <2>1. pc'[w] \notin AppendPCs
    BY <1>1, <1>2, <1>9 DEF BookFill, Goto, AppendPCs
  <2> QED
    BY <1>5, <1>9, <2>1 DEF BookFill
<1>10. CASE HandlerRaises(w)
  <2>1. pc'[w] \notin AppendPCs
    BY <1>1, <1>10, ControlLocal DEF HandlerRaises, AppendPCs, TypeInv
  <2> QED
    BY <1>5, <1>10, <2>1 DEF HandlerRaises, durable
<1>11. CASE FinishEvent(w)
  BY <1>5, <1>6, <1>11 DEF FinishEvent, durable
<1> QED
  BY <1>7, <1>8, <1>9, <1>10, <1>11 DEF ApplyEvent

LEMMA OtherRows ==
    ASSUME TypeInv, TypeInv', RowsInv,
           NextUpdate \/ Environment \/ \E r \in Reconcilers : Reconcile(r)
    PROVE  RowsInv' /\ \A o \in Ords : RowGrows(o)
<1>1. pc \in [Workers -> PCs] /\ job \in [Workers -> Jobs]
  BY DEF TypeInv, TypeOK
<1>2. rec' = rec
  BY DEF NextUpdate, Reconcile, Capture, CaptureUnusable, SweepOrder, ListRows,
         RetireRow, CountLineage, Publish, Environment, Land, WireLoses, Execute,
         RequestCancel, CloseOrder, BrokerMoves, Age, Crash, durable
<1>3. ASSUME NEW w \in Workers
      PROVE  (pc'[w] = pc[w] /\ job'[w] = job[w]) \/ pc'[w] \notin AppendPCs
  <2>1. CASE NextUpdate
    BY <1>1, <2>1 DEF NextUpdate, Apply, Goto, AppendPCs
  <2>2. CASE Environment
    BY <1>1, <2>2 DEF Environment, Land, WireLoses, Execute, RequestCancel,
       CloseOrder, BrokerMoves, Age, Crash, AppendPCs
  <2>3. ASSUME NEW r \in Reconcilers, Reconcile(r)
        PROVE  (pc'[w] = pc[w] /\ job'[w] = job[w]) \/ pc'[w] \notin AppendPCs
    <3>1. r \in Workers /\ Local(r)
      BY <2>3, WorkersAreLocal DEF Workers, TypeInv
    <3>2. CASE w = r
      BY <1>1, <2>3, <3>2 DEF Reconcile, Capture, CaptureUnusable, SweepOrder,
         ListRows, RetireRow, CountLineage, Publish, Goto, Done, AppendPCs
    <3> QED
      BY <3>1, <3>2 DEF Local
  <2> QED
    BY <2>1, <2>2, <2>3
<1>4. \A o \in Ords : RowGrows(o)
  BY <1>2 DEF RowGrows
<1>5. \A w \in Workers : (pc'[w] = pc[w] /\ job'[w] = job[w]) \/ VerOK(w)'
  BY <1>3 DEF VerOK, AppendPCs
<1> QED
  BY <1>4, <1>5, GrowthKeepsRows

LEMMA RowsStep ==
    TypeInv /\ FillsInv /\ RowsInv /\ [Next]_vars
        => RowsInv' /\ \A o \in Ords : RowGrows(o)
<1> SUFFICES ASSUME TypeInv, FillsInv, RowsInv, [Next]_vars
             PROVE  RowsInv' /\ \A o \in Ords : RowGrows(o)
  OBVIOUS
<1>1. TypeInv'
  BY TypeStep
<1>2. CASE UNCHANGED vars
  <2>1. rec' = rec /\ pc' = pc /\ job' = job
    BY <1>2 DEF vars, durable
  <2> QED
    BY <1>1, <2>1, GrowthKeepsRows DEF RowGrows
<1>3. CASE Next
  BY <1>1, <1>3, SubmitRows, ApplyEventRows, OtherRows DEF Next
<1> QED
  BY <1>2, <1>3

(***************************************************************************)
(* A terminal row is never rewritten, a row never loses shares, and every   *)
(* write moves the version by one: the version compare-and-swap and the     *)
(* transition table of store.append are enough for it, whichever threads    *)
(* race to append to the row.                                               *)
(***************************************************************************)
THEOREM RowsGrow == Spec => RowsOnlyGrow
<1>1. TypeInv /\ RowsInv /\ (\A o \in Ords : RowGrows(o))
        => \A o \in Ords : rec[o]' # rec[o] =>
             /\ rec[o].state \notin TerminalStates
             /\ rec[o].cum <= rec[o].cum'
             /\ rec[o].state = "none" \/ rec[o].version' = rec[o].version + 1
  BY DEF RowsInv, RowGrows, IntentRecord, NoRecord, LiveStates, EarlyStates,
         WorkingStates, TerminalStates
<1>2. TypeInv /\ FillsInv /\ RowsInv /\ [Next]_vars
        => [\A o \in Ords : rec[o]' # rec[o] =>
             /\ rec[o].state \notin TerminalStates
             /\ rec[o].cum <= rec[o].cum'
             /\ rec[o].state = "none" \/ rec[o].version' = rec[o].version + 1]_vars
  BY <1>1, RowsStep
<1>3. TypeInv /\ FillsInv /\ RowsInv /\ [Next]_vars => RowsInv'
  BY RowsStep
<1> QED
  BY <1>2, <1>3, TypeInit, TypeStep, FillsInit, FillsStep, RowsInit, PTL
     DEF Spec, RowsOnlyGrow

-----------------------------------------------------------------------------
(***************************************************************************)
(* At-most-once booking.  A worker books the shares between the quantity it *)
(* read and the quantity it made durable: they are not booked yet, and no   *)
(* other worker holds any of them, because the append that claimed them     *)
(* found the row at the quantity read.                                      *)
(***************************************************************************)
SpanOK(w) ==
    pc[w] = "book" =>
        /\ job[w].from < job[w].ev.cum
        /\ job[w].ev.cum <= rec[Ord(w)].cum
        /\ \A u \in Span(w) : booked[Ord(w)][u] = 0

BookingInv ==
    /\ BookedAtMostOnce
    /\ \A w \in Workers : SpanOK(w)
    /\ \A v, w \in Workers :
         v # w /\ Ord(v) = Ord(w) => Span(v) \cap Span(w) = {}

LEMMA BookingInit == Init => BookingInv
<1> SUFFICES ASSUME Init PROVE BookingInv
  OBVIOUS
<1>1. BookedAtMostOnce
  BY DEF Init, BookedAtMostOnce
<1>2. \A w \in Workers : pc[w] = "idle"
  BY DEF Init
<1> QED
  BY <1>1, <1>2 DEF BookingInv, SpanOK, Span

LEMMA SpanType ==
    ASSUME TypeOK, NEW w \in Workers
    PROVE  Span(w) \subseteq Units /\ Ord(w) \in Ords
<1>1. job[w].from \in 0..Qty /\ job[w].ev.cum \in 0..Qty /\ Ord(w) \in Ords
  BY DEF TypeOK, Jobs, Events, Ord
<1> QED
  BY <1>1, QtyAssumption DEF Span, Units

\* A step that books nothing and brings no worker to "book" keeps all of it.
LEMMA NoBooking ==
    ASSUME TypeInv, TypeInv', BookingInv, \A o \in Ords : RowGrows(o), RowsInv,
           booked' = booked,
           \A w \in Workers : \/ pc'[w] = pc[w] /\ job'[w] = job[w]
                              \/ pc'[w] # "book"
    PROVE  BookingInv'
<1>1. \A o \in Ords : rec[o].cum \in 0..Qty /\ rec'[o].cum \in 0..Qty
  BY DEF TypeInv, TypeOK, Records
<1>2. \A o \in Ords : rec[o].cum <= rec'[o].cum
  BY <1>1 DEF RowGrows, RowsInv, IntentRecord, NoRecord
<1>3. BookedAtMostOnce'
  <2> SUFFICES ASSUME NEW o \in Ords, NEW u \in Units
               PROVE  booked[o][u] <= 1 /\ (booked[o][u] = 1 => u <= rec'[o].cum)
    BY DEF BookedAtMostOnce
  <2>1. booked[o][u] <= 1 /\ (booked[o][u] = 1 => u <= rec[o].cum)
    BY DEF BookingInv, BookedAtMostOnce
  <2>2. u \in Int /\ rec[o].cum \in Int /\ rec'[o].cum \in Int
    BY <1>1, QtyAssumption DEF Units
  <2> QED
    BY <1>2, <2>1, <2>2
<1>4. \A w \in Workers : \/ Span(w)' = {}
                         \/ /\ Span(w)' = Span(w) /\ Ord(w)' = Ord(w)
                            /\ pc'[w] = pc[w] /\ job'[w] = job[w]
  BY DEF Span, Ord
<1>5. ASSUME NEW w \in Workers
      PROVE  SpanOK(w)'
  <2>1. CASE pc'[w] # "book"
    BY <2>1 DEF SpanOK
  <2>2. CASE pc'[w] = pc[w] /\ job'[w] = job[w]
    <3>1. SpanOK(w) /\ Ord(w) \in Ords /\ job[w].ev.cum \in 0..Qty
      BY DEF BookingInv, TypeInv, TypeOK, Jobs, Events, Ord
    <3>2. Span(w)' = Span(w) /\ Ord(w)' = Ord(w)
      BY <2>2 DEF Span, Ord
    <3> QED
      BY <1>1, <1>2, <2>2, <3>1, <3>2 DEF SpanOK
  <2> QED
    BY <2>1, <2>2
<1>6. \A v, w \in Workers :
        v # w /\ Ord(v)' = Ord(w)' => Span(v)' \cap Span(w)' = {}
  BY <1>4 DEF BookingInv
<1> QED
  BY <1>3, <1>5, <1>6 DEF BookingInv

\* The append that claims the shares between the row and the event.
LEMMA AppendBooking ==
    ASSUME TypeInv, TypeInv', BookingInv, RowsInv, \A o \in Ords : RowGrows(o),
           NEW w \in Workers, AppendEvent(w)
    PROVE  BookingInv'
<1>1. job[w] \in Jobs /\ Ord(w) \in Ords /\ Local(w)
  BY WorkersAreLocal DEF TypeInv, TypeOK, Jobs, Events, Ord, ApplyEvent
<1>2. /\ job \in [Workers -> Jobs] /\ pc \in [Workers -> PCs]
      /\ rec \in [Ords -> Records] /\ rec[Ord(w)] \in Records
      /\ job[w].phase \in Phases /\ booked' = booked
      /\ job[w].ev.cum \in 0..Qty /\ job[w].from \in 0..Qty
      /\ rec[Ord(w)].cum \in 0..Qty
      /\ booked \in [Ords -> [Units -> Nat]]
  BY <1>1 DEF TypeInv, TypeOK, AppendEvent, Jobs, Events, Records
<1>3. CASE pc'[w] # "book"
  BY <1>1, <1>2, <1>3, NoBooking DEF Local
<1>4. CASE pc'[w] = "book"
  <2> DEFINE e == job[w].ev
             o == Ord(w)
             r == Appended(rec[o], <<e.state, e.cum>>, e.state, e.cum, ~IsStub(e))
  <2>1. ~Finish(w)
    BY <1>2, <1>4, FinishLocal DEF TypeInv, Phases
  <2>2. /\ Appendable(rec[o], <<e.state, e.cum>>, job[w].ver, e.state)
        /\ Write(o, r) /\ Goto(w, AfterAppend(w)) /\ job' = job
    BY <1>4, <2>1 DEF AppendEvent, Declined, Ord
  <2>3. job[w].from = rec[o].cum
    BY <2>2 DEF AppendEvent, RowsInv, VerOK, AppendPCs, Appendable
  <2>4. e.cum > job[w].from
    BY <1>1, <1>2, <1>4, <2>2 DEF Goto, AfterAppend
  <2>5. rec'[o].cum = e.cum /\ \A p \in Ords \ {o} : rec'[p] = rec[p]
    BY <1>1, <1>2, <2>2 DEF Write, Appended
  <2>6. BookedAtMostOnce'
    <3> SUFFICES ASSUME NEW p \in Ords, NEW u \in Units
                 PROVE  booked[p][u] <= 1 /\ (booked[p][u] = 1 => u <= rec'[p].cum)
      BY <1>2 DEF BookedAtMostOnce
    <3>1. booked[p][u] <= 1 /\ (booked[p][u] = 1 => u <= rec[p].cum)
      BY DEF BookingInv, BookedAtMostOnce
    <3>2. u \in Int
      BY QtyAssumption DEF Units
    <3> QED
      BY <1>2, <2>3, <2>4, <2>5, <3>1, <3>2
  <2>7. /\ Span(w)' = (rec[o].cum + 1)..e.cum /\ Ord(w)' = o
        /\ \A v \in Workers \ {w} : Span(v)' = Span(v) /\ Ord(v)' = Ord(v)
    BY <1>1, <1>4, <2>2, <2>3 DEF Span, Ord, Local
  <2>8. \A u \in Span(w)' : booked[o][u] = 0
    <3> SUFFICES ASSUME NEW u \in (rec[o].cum + 1)..e.cum
                 PROVE  booked[o][u] = 0
      BY <2>7
    <3>1. u \in Units /\ u > rec[o].cum
      BY <1>2, QtyAssumption DEF Units
    <3>2. booked[o][u] <= 1 /\ booked[o][u] # 1 /\ booked[o][u] \in Nat
      BY <1>1, <1>2, <3>1 DEF BookingInv, BookedAtMostOnce
    <3> QED
      BY <3>2
  <2>9. SpanOK(w)'
    BY <1>2, <2>2, <2>4, <2>5, <2>7, <2>8 DEF SpanOK
  <2>10. ASSUME NEW v \in Workers \ {w}
         PROVE  SpanOK(v)'
    <3>1. SpanOK(v) /\ Ord(v) \in Ords /\ job[v].ev.cum \in 0..Qty
      BY DEF BookingInv, TypeInv, TypeOK, Jobs, Events, Ord
    <3>2. rec[Ord(v)].cum <= rec'[Ord(v)].cum
      BY <1>2, <2>3, <2>4, <2>5, <3>1 DEF Records
    <3>3. pc'[v] = pc[v] /\ job'[v] = job[v] /\ rec'[Ord(v)].cum \in 0..Qty
          /\ rec[Ord(v)].cum \in 0..Qty
      BY <1>1, <3>1 DEF Local, TypeInv, TypeOK, Records
    <3> QED
      BY <1>2, <2>7, <3>1, <3>2, <3>3 DEF SpanOK
  <2>11. ASSUME NEW v \in Workers \ {w}, Ord(v) = o
         PROVE  Span(v) \cap Span(w)' = {}
    <3>1. \A u \in Span(v) : u <= rec[o].cum
      <4>1. SpanOK(v) /\ job[v].ev.cum \in 0..Qty /\ job[v].from \in 0..Qty
        BY DEF BookingInv, TypeInv, TypeOK, Jobs, Events
      <4> QED
        BY <1>2, <2>11, <4>1 DEF SpanOK, Span
    <3> QED
      BY <1>2, <2>7, <3>1
  <2>12. \A v, x \in Workers :
           v # x /\ Ord(v)' = Ord(x)' => Span(v)' \cap Span(x)' = {}
    <3> TAKE v, x \in Workers
    <3>1. CASE v # w /\ x # w
      BY <2>7, <3>1 DEF BookingInv
    <3>2. CASE v = w \/ x = w
      BY <2>7, <2>11, <3>2
    <3> QED
      BY <3>1, <3>2
  <2> QED
    BY <2>6, <2>9, <2>10, <2>12 DEF BookingInv
<1> QED
  BY <1>3, <1>4

\* The handler's booking of a span.
LEMMA BookBooking ==
    ASSUME TypeInv, BookingInv, NEW w \in Workers, BookFill(w)
    PROVE  BookingInv'
<1>1. Ord(w) \in Ords /\ Span(w) \subseteq Units /\ Local(w)
  BY SpanType, WorkersAreLocal DEF TypeInv, ApplyEvent
<1>2. /\ job' = job /\ rec' = rec /\ pc'[w] = "finish" /\ pc[w] = "book"
      /\ booked \in [Ords -> [Units -> Nat]]
      /\ booked' = [booked EXCEPT ![Ord(w)] =
                      [u \in Units |-> IF u \in Span(w) THEN @[u] + 1 ELSE @[u]]]
  BY DEF BookFill, TypeInv, TypeOK, Goto
<1>3. \A o \in Ords, u \in Units :
        booked'[o][u] = IF o = Ord(w) /\ u \in Span(w) THEN booked[o][u] + 1
                        ELSE booked[o][u]
  BY <1>1, <1>2
<1>4. /\ SpanOK(w)
      /\ \A u \in Span(w) : u <= rec[Ord(w)].cum /\ booked[Ord(w)][u] = 0
  <2>1. SpanOK(w) /\ job[w].ev.cum \in 0..Qty /\ job[w].from \in 0..Qty
        /\ rec[Ord(w)].cum \in 0..Qty
    BY <1>1 DEF BookingInv, TypeInv, TypeOK, Jobs, Events, Records
  <2> QED
    BY <1>2, <2>1 DEF SpanOK, Span
<1>5. BookedAtMostOnce'
  BY <1>2, <1>3, <1>4 DEF BookingInv, BookedAtMostOnce
<1>6. /\ Span(w)' = {}
      /\ \A v \in Workers \ {w} : /\ Span(v)' = Span(v) /\ Ord(v)' = Ord(v)
                                  /\ pc'[v] = pc[v]
  BY <1>1, <1>2 DEF Span, Ord, Local
<1>7. ASSUME NEW v \in Workers
      PROVE  SpanOK(v)'
  <2>1. CASE v = w
    BY <1>2, <2>1 DEF SpanOK
  <2>2. CASE v # w
    <3>1. SpanOK(v) /\ Ord(v) \in Ords /\ Span(v) \subseteq Units
      BY SpanType DEF BookingInv, TypeInv
    <3>2. Ord(v) = Ord(w) => Span(v) \cap Span(w) = {}
      BY <2>2 DEF BookingInv
    <3>3. \A u \in Span(v) : booked'[Ord(v)][u] = booked[Ord(v)][u]
      BY <1>3, <3>1, <3>2
    <3> QED
      BY <1>2, <1>6, <2>2, <3>1, <3>3 DEF SpanOK
  <2> QED
    BY <2>1, <2>2
<1>8. \A v, x \in Workers :
        v # x /\ Ord(v)' = Ord(x)' => Span(v)' \cap Span(x)' = {}
  <2> TAKE v, x \in Workers
  <2>1. CASE v = w \/ x = w
    BY <1>6, <2>1
  <2>2. CASE v # w /\ x # w
    BY <1>6, <2>2 DEF BookingInv
  <2> QED
    BY <2>1, <2>2
<1> QED
  BY <1>5, <1>7, <1>8 DEF BookingInv

LEMMA BookingStep ==
    TypeInv /\ FillsInv /\ RowsInv /\ BookingInv /\ [Next]_vars => BookingInv'
<1> SUFFICES ASSUME TypeInv, FillsInv, RowsInv, BookingInv, [Next]_vars
             PROVE  BookingInv'
  OBVIOUS
<1>1. TypeInv' /\ \A o \in Ords : RowGrows(o)
  BY TypeStep, RowsStep
<1>2. pc \in [Workers -> PCs] /\ job \in [Workers -> Jobs]
  BY DEF TypeInv, TypeOK
<1>3. ASSUME booked' = booked,
             \A w \in Workers : \/ pc'[w] = pc[w] /\ job'[w] = job[w]
                                \/ pc'[w] # "book"
      PROVE  BookingInv'
  BY <1>1, <1>3, NoBooking
<1>4. CASE UNCHANGED vars
  BY <1>3, <1>4 DEF vars, durable
<1>5. ASSUME NEW t \in Submitters, Submit(t)
      PROVE  BookingInv'
  <2>1. t \in Workers /\ Local(t)
    BY <1>5, WorkersAreLocal DEF Workers, TypeInv
  <2>2. booked' = booked
    BY <1>5 DEF Submit, Identify, Lookup, Gate, Create, Mark, Post, WaitAccepted,
       WaitRefused, WaitLost, WaitGatewayError, Recover, Settle, Conclude, durable
  <2>3. pc'[t] # "book"
    BY <1>2, <1>5, <2>1
       DEF Submit, Identify, Lookup, Gate, Create, Mark, Post, WaitAccepted,
           WaitRefused, WaitLost, WaitGatewayError, Recover, Settle, Conclude,
           Goto, Apply, Done
  <2> QED
    BY <1>3, <2>1, <2>2, <2>3 DEF Local
<1>6. ASSUME NEW w \in Workers, ApplyEvent(w)
      PROVE  BookingInv'
  <2>1. Local(w) /\ job[w].phase \in Phases
    BY <1>2, <1>6, WorkersAreLocal DEF TypeInv, Jobs
  <2>2. Finish(w) => pc'[w] # "book"
    BY <2>1, FinishLocal DEF TypeInv, Phases
  <2>3. CASE AppendEvent(w)
    BY <1>1, <2>3, AppendBooking
  <2>4. CASE BookFill(w)
    BY <2>4, BookBooking
  <2>5. CASE ReadRow(w) \/ HandlerRaises(w) \/ FinishEvent(w)
    <3>1. booked' = booked
      BY <2>5 DEF ReadRow, HandlerRaises, FinishEvent, durable
    <3>2. pc'[w] # "book"
      BY <1>2, <2>2, <2>5 DEF ReadRow, HandlerRaises, FinishEvent, Done, Goto
    <3> QED
      BY <1>3, <2>1, <3>1, <3>2 DEF Local
  <2> QED
    BY <1>6, <2>3, <2>4, <2>5 DEF ApplyEvent
<1>7. CASE NextUpdate
  BY <1>2, <1>3, <1>7 DEF NextUpdate, Apply, Goto, durable
<1>8. ASSUME NEW r \in Reconcilers, Reconcile(r)
      PROVE  BookingInv'
  <2>1. r \in Workers /\ Local(r)
    BY <1>8, WorkersAreLocal DEF Workers, TypeInv
  <2>2. booked' = booked
    BY <1>8 DEF Reconcile, Capture, CaptureUnusable, SweepOrder, ListRows,
       RetireRow, CountLineage, Publish, durable
  <2>3. pc'[r] # "book" \/ (pc'[r] = pc[r] /\ job'[r] = job[r])
    <3>1. CASE CaptureUnusable(r)
      BY <3>1 DEF CaptureUnusable
    <3>2. CASE \/ Capture(r) \/ SweepOrder(r) \/ ListRows(r) \/ RetireRow(r)
               \/ CountLineage(r) \/ Publish(r)
      <4>1. \/ Goto(r, "sweep") \/ Goto(r, "read") \/ Goto(r, "retire")
            \/ Goto(r, "publish") \/ Goto(r, "idle")
        BY <3>2 DEF Capture, SweepOrder, ListRows, RetireRow, CountLineage,
           Publish, Done
      <4>2. \/ pc'[r] = "sweep" \/ pc'[r] = "read" \/ pc'[r] = "retire"
            \/ pc'[r] = "publish" \/ pc'[r] = "idle"
        BY <1>2, <2>1, <4>1 DEF Goto
      <4> QED
        BY <4>2
    <3> QED
      BY <1>8, <3>1, <3>2 DEF Reconcile
  <2> QED
    BY <1>3, <2>1, <2>2, <2>3 DEF Local
<1>9. CASE Environment
  BY <1>2, <1>3, <1>9 DEF Environment, Land, WireLoses, Execute, RequestCancel,
     CloseOrder, BrokerMoves, Age, Crash, durable
<1> QED
  BY <1>4, <1>5, <1>6, <1>7, <1>8, <1>9 DEF Next

(***************************************************************************)
(* At-most-once booking: however many threads (submissions, the trade       *)
(* stream, two reconcilers) learn of the same fill at once, and whatever    *)
(* the timing, the risk sleeve is told of a share at most once, and only of *)
(* a share its durable row shows.                                           *)
(***************************************************************************)
THEOREM NeverBookedTwice == Spec => []BookedAtMostOnce
<1>1. BookingInv => BookedAtMostOnce
  BY DEF BookingInv
<1>2. TypeInv /\ FillsInv /\ RowsInv /\ [Next]_vars => RowsInv'
  BY RowsStep
<1> QED
  BY <1>1, <1>2, TypeInit, TypeStep, FillsInit, FillsStep, RowsInit, BookingInit,
     BookingStep, PTL DEF Spec

-----------------------------------------------------------------------------
(***************************************************************************)
(* The pipeline implements the ledger.  What the broker executed, what the  *)
(* rows count and what the sleeve was told of are the ledger's state; every *)
(* step is one of the ledger's or changes nothing of it.                    *)
(***************************************************************************)
Executed    == [o \in Ords |-> broker[o].fill]
Recorded    == [o \in Ords |-> rec[o].cum]
Interrupted == crashes > 0 \/ handlerFails > 0

Refined == [Ledger!Next]_<<Executed, Recorded, booked, Interrupted>>

LEMMA LedgerInit == Init => Ledger!Init
BY DEF Init, Ledger!Init, NoOrder, NoRecord, Units

\* A step that writes at most one row.
LEMMA RowRefines ==
    ASSUME TypeInv, TypeInv', FillsInv', RowsInv, \A o \in Ords : RowGrows(o),
           UNCHANGED <<broker, booked, crashes, handlerFails>>,
           NEW o \in Ords, \A p \in Ords \ {o} : rec'[p] = rec[p]
    PROVE  Refined
<1>1. rec[o].cum \in 0..Qty /\ rec'[o].cum \in 0..Qty /\ broker[o].fill \in 0..Qty
  BY DEF TypeInv, TypeOK, Records
<1>2. rec[o].cum <= rec'[o].cum
  BY <1>1 DEF RowGrows, RowsInv, IntentRecord, NoRecord
<1>3. rec'[o].cum <= broker[o].fill
  BY DEF FillsInv, NoPhantomFill
<1>4. Executed' = Executed /\ Interrupted' = Interrupted
  BY DEF Executed, Interrupted
<1>5. CASE rec'[o].cum = rec[o].cum
  <2>1. Recorded' = Recorded
    BY <1>5 DEF Recorded
  <2> QED
    BY <1>4, <2>1 DEF Refined
<1>6. CASE rec'[o].cum # rec[o].cum
  <2>1. /\ rec'[o].cum \in (Recorded[o] + 1)..Executed[o]
        /\ Recorded' = [Recorded EXCEPT ![o] = rec'[o].cum]
    <3>1. Recorded[o] = rec[o].cum /\ Executed[o] = broker[o].fill
      BY DEF Recorded, Executed
    <3>2. rec'[o].cum \in (Recorded[o] + 1)..Executed[o]
      BY <1>1, <1>2, <1>3, <1>6, <3>1
    <3>3. Recorded' = [Recorded EXCEPT ![o] = rec'[o].cum]
      BY DEF Recorded
    <3> QED
      BY <3>2, <3>3
  <2>2. Ledger!Record(o)
    BY <1>4, <2>1 DEF Ledger!Record, Recorded, Executed, Interrupted
  <2> QED
    BY <2>2 DEF Refined, Ledger!Next
<1> QED
  BY <1>5, <1>6

\* A step that leaves the ledger alone.
LEMMA StutterRefines ==
    ASSUME UNCHANGED <<broker, rec, booked, crashes, handlerFails>>
    PROVE  Refined
<1>1. Executed' = Executed /\ Recorded' = Recorded /\ Interrupted' = Interrupted
  BY DEF Executed, Recorded, Interrupted
<1> QED
  BY <1>1 DEF Refined

\* A step of the broker.
LEMMA BrokerRefines ==
    ASSUME TypeInv, NEW o \in Ords, NEW b \in GoodOrders,
           b.fill \in {broker[o].fill, broker[o].fill + 1}, BrokerMoves(o, b)
    PROVE  Refined
<1>1. /\ broker \in [Ords -> [status: BrokerStates, fill: 0..Qty]]
      /\ broker' = [broker EXCEPT ![o] = b]
      /\ UNCHANGED <<rec, booked, crashes, handlerFails>>
      /\ b.fill \in 0..Qty
  BY DEF TypeInv, TypeOK, BrokerMoves, durable, GoodOrders
<1>2. Recorded' = Recorded /\ Interrupted' = Interrupted
  BY <1>1 DEF Recorded, Interrupted
<1>3. Executed' = [Executed EXCEPT ![o] = b.fill]
  BY <1>1 DEF Executed
<1>4. CASE b.fill = broker[o].fill
  <2>1. Executed' = Executed
    BY <1>3, <1>4 DEF Executed
  <2> QED
    BY <1>1, <1>2, <2>1 DEF Refined
<1>5. CASE b.fill = broker[o].fill + 1
  <2>1. b.fill \in (Executed[o] + 1)..Qty
    BY <1>1, <1>5 DEF Executed
  <2>2. Ledger!Execute(o)
    BY <1>1, <1>2, <1>3, <2>1
       DEF Ledger!Execute, Executed, Recorded, Interrupted
  <2> QED
    BY <2>2 DEF Refined, Ledger!Next
<1> QED
  BY <1>4, <1>5

LEMMA BookRefines ==
    ASSUME TypeInv, BookingInv, NEW w \in Workers, BookFill(w)
    PROVE  Refined
<1> DEFINE o == Ord(w)
           m == job[w].from + 1
           n == job[w].ev.cum
<1>1. /\ o \in Ords /\ job[w].from \in 0..Qty /\ n \in 0..Qty
      /\ rec[o].cum \in 0..Qty /\ SpanOK(w) /\ pc[w] = "book"
      /\ booked \in [Ords -> [Units -> Nat]]
  BY DEF TypeInv, TypeOK, Jobs, Events, Ord, Records, BookingInv, BookFill
<1>2. /\ UNCHANGED <<broker, rec, crashes, handlerFails>>
      /\ booked' = [booked EXCEPT ![o] =
                      [u \in Units |-> IF u \in m..n THEN @[u] + 1 ELSE @[u]]]
  BY <1>1 DEF BookFill, Span, outside
<1>3. /\ m \in Int /\ m <= n /\ n <= rec[o].cum /\ m >= 1
      /\ \A u \in m..n : booked[o][u] = 0
  BY <1>1 DEF SpanOK, Span
<1>4. /\ Executed' = Executed /\ Recorded' = Recorded /\ Interrupted' = Interrupted
      /\ Recorded[o] = rec[o].cum
  BY <1>1, <1>2 DEF Executed, Recorded, Interrupted
<1>5. m..n \subseteq Ledger!Owed(o) /\ m \in Ledger!Owed(o) /\ n \in Ledger!Owed(o)
  BY <1>1, <1>3, <1>4 DEF Ledger!Owed, Recorded
<1>6. booked' = [booked EXCEPT ![o] =
                   [u \in 1..Qty |-> IF u \in m..n THEN 1 ELSE @[u]]]
  <2>1. \A u \in Units : (IF u \in m..n THEN booked[o][u] + 1 ELSE booked[o][u])
                         = (IF u \in m..n THEN 1 ELSE booked[o][u])
    BY <1>3
  <2>2. [u \in Units |-> IF u \in m..n THEN booked[o][u] + 1 ELSE booked[o][u]]
          = [u \in 1..Qty |-> IF u \in m..n THEN 1 ELSE booked[o][u]]
    BY <2>1 DEF Units
  <2> QED
    BY <1>1, <1>2, <2>2
<1>7. Ledger!Book(o)
  BY <1>3, <1>4, <1>5, <1>6
     DEF Ledger!Book, Executed, Recorded, Interrupted
<1> QED
  BY <1>1, <1>7 DEF Refined, Ledger!Next

LEMMA LedgerStep ==
    TypeInv /\ FillsInv /\ RowsInv /\ BookingInv /\ [Next]_vars => Refined
<1> SUFFICES ASSUME TypeInv, FillsInv, RowsInv, BookingInv, [Next]_vars
             PROVE  Refined
  OBVIOUS
<1>1. TypeInv' /\ FillsInv' /\ \A o \in Ords : RowGrows(o)
  BY TypeStep, FillsStep, RowsStep
<1>2. /\ rec \in [Ords -> Records]
      /\ broker \in [Ords -> [status: BrokerStates, fill: 0..Qty]]
      /\ \A w \in Workers : Ord(w) \in Ords
  BY SpanType DEF TypeInv, TypeOK
<1>3. CASE UNCHANGED vars
  BY <1>3, StutterRefines DEF vars, durable, outside
<1>4. ASSUME UNCHANGED <<broker, booked, crashes, handlerFails>>,
             NEW o \in Ords, NEW r, rec' = rec \/ rec' = [rec EXCEPT ![o] = r]
      PROVE  Refined
  BY <1>1, <1>2, <1>4, RowRefines
<1>5. ASSUME NEW t \in Submitters, Submit(t)
      PROVE  Refined
  <2>1. Ord(t) \in Ords
    BY <1>2 DEF Workers
  <2>2. UNCHANGED <<broker, booked, crashes, handlerFails>>
    BY <1>5 DEF Submit, Identify, Lookup, Gate, Create, Mark, Post, WaitAccepted,
       WaitRefused, WaitLost, WaitGatewayError, Recover, Settle, Conclude,
       durable, outside
  <2>3. \E r : rec' = rec \/ rec' = [rec EXCEPT ![Ord(t)] = r]
    BY <1>5 DEF Submit, Identify, Lookup, Gate, Create, Mark, Post, WaitAccepted,
       WaitRefused, WaitLost, WaitGatewayError, Recover, Settle, Conclude, Write,
       durable
  <2> QED
    BY <1>4, <2>1, <2>2, <2>3
<1>6. ASSUME NEW w \in Workers, ApplyEvent(w)
      PROVE  Refined
  <2>1. CASE ReadRow(w) \/ FinishEvent(w)
    BY <2>1, StutterRefines DEF ReadRow, FinishEvent, durable, outside
  <2>2. CASE AppendEvent(w)
    <3>1. UNCHANGED <<broker, booked, crashes, handlerFails>>
      BY <2>2 DEF AppendEvent, outside
    <3>2. \E r : rec' = rec \/ rec' = [rec EXCEPT ![Ord(w)] = r]
      BY <2>2 DEF AppendEvent, Write, Ord
    <3> QED
      BY <1>2, <1>4, <3>1, <3>2
  <2>3. CASE BookFill(w)
    BY <2>3, BookRefines
  <2>4. CASE HandlerRaises(w)
    <3>1. /\ UNCHANGED <<broker, rec, booked, crashes>>
          /\ handlerFails' = handlerFails + 1 /\ handlerFails \in Nat
      BY <2>4 DEF HandlerRaises, durable, outside, TypeInv, TypeOK
    <3>2. /\ Executed' = Executed /\ Recorded' = Recorded /\ booked' = booked
          /\ Interrupted' = TRUE
      BY <3>1 DEF Executed, Recorded, Interrupted
    <3>3. Ledger!Interrupt
      BY <3>2 DEF Ledger!Interrupt, Executed, Recorded, Interrupted
    <3> QED
      BY <3>3 DEF Refined, Ledger!Next
  <2> QED
    BY <1>6, <2>1, <2>2, <2>3, <2>4 DEF ApplyEvent
<1>7. CASE NextUpdate
  BY <1>7, StutterRefines DEF NextUpdate, durable
<1>8. ASSUME NEW r \in Reconcilers, Reconcile(r)
      PROVE  Refined
  BY <1>8, StutterRefines DEF Reconcile, Capture, CaptureUnusable, SweepOrder,
     ListRows, RetireRow, CountLineage, Publish, durable, outside
<1>9. ASSUME NEW o \in Ords, Land(o)
      PROVE  Refined
  <2>1. CASE ~AtBroker(o) /\ BrokerMoves(o, [status |-> "working", fill |-> 0])
    <3>1. [status |-> "working", fill |-> 0] \in GoodOrders
      BY QtyAssumption DEF GoodOrders, BrokerStates
    <3>2. broker[o].fill = 0
      BY <2>1 DEF AtBroker, TypeInv, BrokerOK
    <3> QED
      BY <2>1, <3>1, <3>2, BrokerRefines
  <2>2. CASE UNCHANGED <<durable, memory, broker, stream, pc, job, snap, crashes, handlerFails>>
    BY <2>2, StutterRefines DEF durable
  <2> QED
    BY <1>9, <2>1, <2>2 DEF Land
<1>10. ASSUME NEW o \in Ords, Execute(o)
       PROVE  Refined
  <2> DEFINE b == [status |-> IF broker[o].fill + 1 = Qty THEN "filled"
                              ELSE broker[o].status,
                   fill |-> broker[o].fill + 1]
  <2>1. b \in GoodOrders
    BY <1>2, <1>10, QtyAssumption
       DEF Execute, TypeInv, BrokerOK, GoodOrders, BrokerStates
  <2> QED
    BY <1>10, <2>1, BrokerRefines DEF Execute
<1>11. ASSUME NEW o \in Ords, RequestCancel(o)
       PROVE  Refined
  <2> DEFINE b == [broker[o] EXCEPT !.status = "canceling"]
  <2>1. b \in GoodOrders /\ b.fill = broker[o].fill
    BY <1>2, <1>11 DEF RequestCancel, TypeInv, BrokerOK, GoodOrders, BrokerStates
  <2> QED
    BY <1>11, <2>1, BrokerRefines DEF RequestCancel
<1>12. ASSUME NEW o \in Ords, CloseOrder(o)
       PROVE  Refined
  <2> DEFINE b == [broker[o] EXCEPT !.status = "canceled"]
  <2>1. b \in GoodOrders /\ b.fill = broker[o].fill
    BY <1>2, <1>12 DEF CloseOrder, TypeInv, BrokerOK, GoodOrders, BrokerStates
  <2> QED
    BY <1>12, <2>1, BrokerRefines DEF CloseOrder
<1>13. ASSUME NEW o \in Ords, WireLoses(o) \/ Age(o)
       PROVE  Refined
  BY <1>13, StutterRefines DEF WireLoses, Age, durable, outside
<1>14. CASE Crash
  <2>1. /\ UNCHANGED <<broker, rec, booked, handlerFails>>
        /\ crashes' = crashes + 1 /\ crashes \in Nat
    BY <1>14 DEF Crash, durable, TypeInv, TypeOK
  <2>2. /\ Executed' = Executed /\ Recorded' = Recorded /\ booked' = booked
        /\ Interrupted' = TRUE
    BY <2>1 DEF Executed, Recorded, Interrupted
  <2>3. Ledger!Interrupt
    BY <2>2 DEF Ledger!Interrupt, Executed, Recorded, Interrupted
  <2> QED
    BY <2>3 DEF Refined, Ledger!Next
<1> QED
  BY <1>3, <1>5, <1>6, <1>7, <1>8, <1>9, <1>10, <1>11, <1>12, <1>13, <1>14
     DEF Next, Environment

(***************************************************************************)
(* The order pipeline implements the ledger: across submissions, the trade  *)
(* stream, reconciles, lost updates, restarts and raising handlers, every   *)
(* step either leaves the ledger alone, or executes shares, or records      *)
(* executed ones, or books recorded ones that were never booked.            *)
(***************************************************************************)
THEOREM ImplementsLedger == Spec => AtMostOnce
<1>1. TypeInv /\ FillsInv /\ RowsInv /\ [Next]_vars => RowsInv'
  BY RowsStep
<1>2. TypeInv /\ FillsInv /\ RowsInv /\ BookingInv /\ [Next]_vars
        => [Ledger!Next]_(Ledger!ledger)
  BY LedgerStep DEF Refined, Ledger!ledger, Executed, Recorded, Interrupted
<1> QED
  BY <1>1, <1>2, TypeInit, TypeStep, FillsInit, FillsStep, RowsInit, BookingInit,
     BookingStep, LedgerInit, PTL
     DEF Spec, AtMostOnce, Ledger!AtMostOnce
=============================================================================
