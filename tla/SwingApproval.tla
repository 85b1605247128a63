--------------------------- MODULE SwingApproval ---------------------------
(***************************************************************************)
(* One trade signal of the swing or wheel lane, from the operator's click   *)
(* to the broker.  Everything here concerns that one signal; the actors     *)
(* share its row and the LiveCommands queue, and no lock.                   *)
(*                                                                         *)
(*   requests   clicks in the API process: approve, approve half, reject,   *)
(*              or re-send a stuck approval (interactive_utils.py).  A      *)
(*              request queues at most one command, named after it.         *)
(*   handler    the broker process's command thread: leases a command,      *)
(*              claims the signal, sends the order, writes the outcome      *)
(*              (live_state.py, broker.py).                                 *)
(*   sweep      the strategy loop of that process: fails a claim that has   *)
(*              stood for ten minutes without an order (broker.py).         *)
(*                                                                         *)
(* Every database call is a step of its own and may raise; a write that     *)
(* raised may have been committed all the same, and an insert may commit    *)
(* after its caller has given up.  Prices, quantities, notices and the      *)
(* contents of the order are left out, except that a full and a half        *)
(* approval differ.                                                         *)
(***************************************************************************)
EXTENDS Integers, FiniteSets

CONSTANTS
    Requests,       \* clicks of operators, numbered as they come
    None,           \* no request
    Decisions,      \* what a click may ask for
    PromptHandlers, \* a handler is done within the sweep's ten minutes
    GatewayErrors,  \* an HTTP error read as a refusal may hide an order
    MaxDays,        \* bound: trading days
    MaxFaults       \* bound: database calls that raise, requests that die,
                    \* restarts of the broker process

Approved == {"approved", "approved_half"}
Placed   == {"submitted", "failed"}
Statuses == Approved \cup Placed \cup {"pending", "rejected"}

ASSUME SwingAssumption ==
    /\ None \notin Requests
    /\ Requests \subseteq Nat /\ IsFiniteSet(Requests)
    /\ Decisions \subseteq Approved \cup {"rejected", "resend"}
    /\ PromptHandlers \in BOOLEAN /\ GatewayErrors \in BOOLEAN
    /\ {MaxDays, MaxFaults} \subseteq Nat

VARIABLES
    row,        \* the signal
    queue,      \* [Requests -> the command of that request]
    lodged,     \* a lifecycle record names the signal
    orders,     \* orders at the broker for the signal
    size,       \* the approval the last order was built from
    pc,         \* [Requests -> place of the request, or its answer]
    prior,      \* [Requests -> the row it read]
    doc,        \* [Requests -> the row it decided]
    up,         \* the broker process runs
    hpc, cmd,   \* place of the handler, its command
    snap,       \* the row it read
    spc, stale, \* place of the sweep, the row it listed
    today, faults

request == <<pc, prior, doc>>
handler == <<hpc, cmd, snap>>
sweep   == <<spc, stale>>
broker  == <<lodged, orders, size>>
bounds  == <<today, faults>>
vars == <<row, queue, broker, request, up, handler, sweep, bounds>>

-----------------------------------------------------------------------------
Rows == [status: Statuses, by: Requests \cup {None}, day: 0..MaxDays + 1,
         claim: Requests \cup {None}, aged: BOOLEAN, key: BOOLEAN]

Fresh == [status |-> "pending", by |-> None, day |-> 0, claim |-> None,
          aged |-> FALSE, key |-> FALSE]

WithStatus(d, s) == [status |-> s, by |-> d.by, day |-> d.day,
                     claim |-> d.claim, aged |-> d.aged, key |-> d.key]

\* approvals.decide
Decided(d, s, r) == [status |-> s, by |-> r, day |-> today,
                     claim |-> d.claim, aged |-> d.aged, key |-> d.key]

Claimed(d, c) == [status |-> "submitted", by |-> d.by, day |-> d.day,
                  claim |-> c, aged |-> FALSE, key |-> d.key]

Undecided(d) == [status |-> "pending", by |-> None, day |-> 0,
                 claim |-> d.claim, aged |-> FALSE, key |-> d.key]

\* Marked failed with no order key.
Failed(d) == [status |-> "failed", by |-> d.by, day |-> d.day,
              claim |-> d.claim, aged |-> FALSE, key |-> FALSE]

Keyed(d) == [status |-> d.status, by |-> d.by, day |-> d.day,
             claim |-> d.claim, aged |-> d.aged, key |-> TRUE]

\* signals_store.cas_signal: the row is replaced if its status is the expected.
Cas(expected, d) == row.status = expected /\ row' = d

Answers  == {"ok", "unavailable", "conflict", "error", "uncertain"}
Terminal == {"completed", "failed", "reconciliation_required"}
Open     == {"pending", "running"}

\* From the claim to its outcome the signal is in _swing_approvals_in_flight.
InFlight == hpc \in {"claim", "build", "send", "post", "reset", "fail", "refused",
                     "uncertain", "confirm", "swap"}

Init ==
    /\ row = Fresh
    /\ queue = [r \in Requests |-> "none"]
    /\ lodged = FALSE /\ orders = 0 /\ size = "none"
    /\ pc = [r \in Requests |-> "idle"]
    /\ prior = [r \in Requests |-> Fresh]
    /\ doc = [r \in Requests |-> Fresh]
    /\ up = TRUE
    /\ hpc = "idle" /\ cmd = None /\ snap = Fresh
    /\ spc = "idle" /\ stale = Fresh
    /\ today = 1 /\ faults = 0

\* One of the bounded failures.
Fault == faults < MaxFaults /\ faults' = faults + 1

\* A write that raises: it was committed or it was not.
Perhaps(write) == write \/ UNCHANGED row

-----------------------------------------------------------------------------
\* The requests.

Goto(r, p) == pc' = [pc EXCEPT ![r] = p]

\* The next click.
Arrives(r) ==
    /\ pc[r] = "idle"
    /\ \A q \in Requests : q < r => pc[q] # "idle"

\* A decision reads the row and works out the decided one.  When the row is
\* no longer pending, or the instance does not run, it is refused outright.
Decide(r, d) ==
    /\ Arrives(r)
    /\ row.status = "pending"
    /\ d \in Decisions \ {"resend"}
    /\ Goto(r, "cas")
    /\ prior' = [prior EXCEPT ![r] = row]
    /\ doc' = [doc EXCEPT ![r] = Decided(row, d, r)]
    /\ UNCHANGED <<row, queue, broker, up, handler, sweep, bounds>>

\* The compare-and-swap that makes a decision final.
Commit(r) ==
    /\ pc[r] = "cas"
    /\ \/ /\ Cas("pending", doc[r])
          /\ Goto(r, IF doc[r].status \in Approved THEN "insert" ELSE "ok")
       \/ row.status # "pending" /\ Goto(r, "conflict") /\ UNCHANGED row
    /\ UNCHANGED <<queue, broker, prior, doc, up, handler, sweep, bounds>>

CommitRaises(r) ==
    /\ pc[r] = "cas" /\ Fault
    /\ Perhaps(Cas("pending", doc[r]))
    /\ Goto(r, "error")
    /\ UNCHANGED <<queue, broker, prior, doc, up, handler, sweep, today>>

\* A re-send wants an approval of today and no command that is still open.
Resend(r) ==
    /\ "resend" \in Decisions
    /\ Arrives(r)
    /\ row.status \in Approved /\ row.day = today
    /\ Goto(r, "open")
    /\ UNCHANGED <<row, queue, broker, prior, doc, up, handler, sweep, bounds>>

LookForOpen(r) ==
    /\ pc[r] = "open"
    /\ Goto(r, IF \E c \in Requests : queue[c] \in Open
               THEN "conflict" ELSE "again")
    /\ UNCHANGED <<row, queue, broker, prior, doc, up, handler, sweep, bounds>>

\* live_state.submit_command
Insert(r) ==
    /\ pc[r] \in {"insert", "again"}
    /\ queue' = [queue EXCEPT ![r] = "pending"]
    /\ Goto(r, "ok")
    /\ UNCHANGED <<row, broker, prior, doc, up, handler, sweep, bounds>>

\* It raises (or the instance no longer runs): the command is not there, is
\* there, or will be.  A re-send that failed looks for its command too, but
\* changes nothing any more.
InsertRaises(r) ==
    /\ pc[r] \in {"insert", "again"} /\ Fault
    /\ \E q \in {"none", "late", "pending"} : queue' = [queue EXCEPT ![r] = q]
    /\ Goto(r, IF pc[r] = "insert" THEN "look" ELSE "uncertain")
    /\ UNCHANGED <<row, broker, prior, doc, up, handler, sweep, today>>

CommitsLate(r) ==
    /\ queue[r] = "late"
    /\ queue' = [queue EXCEPT ![r] = "pending"]
    /\ UNCHANGED <<row, broker, request, up, handler, sweep, bounds>>

\* _swing_after_failed_enqueue reads the queue, then the row, then reverts.
LookForOwn(r) ==
    /\ pc[r] = "look"
    /\ Goto(r, IF queue[r] \in {"none", "late"} THEN "reread" ELSE "uncertain")
    /\ UNCHANGED <<row, queue, broker, prior, doc, up, handler, sweep, bounds>>

Reread(r) ==
    /\ pc[r] = "reread"
    /\ Goto(r, IF row.status = doc[r].status THEN "revert" ELSE "uncertain")
    /\ UNCHANGED <<row, queue, broker, prior, doc, up, handler, sweep, bounds>>

ReadRaises(r) ==
    /\ pc[r] \in {"open", "look", "reread"} /\ Fault
    /\ Goto(r, IF pc[r] = "open" THEN "unavailable" ELSE "uncertain")
    /\ UNCHANGED <<row, queue, broker, prior, doc, up, handler, sweep, today>>

\* (Mutation: a plain write.)
RevertBlind(r) ==
    /\ pc[r] = "revert"
    /\ row' = prior[r] /\ Goto(r, "unavailable")
    /\ UNCHANGED <<queue, broker, prior, doc, up, handler, sweep, bounds>>

Revert(r) ==
    /\ pc[r] = "revert"
    /\ \/ Cas(doc[r].status, prior[r]) /\ Goto(r, "unavailable")
       \/ row.status # doc[r].status /\ Goto(r, "uncertain") /\ UNCHANGED row
    /\ UNCHANGED <<queue, broker, prior, doc, up, handler, sweep, bounds>>

RevertRaises(r) ==
    /\ pc[r] = "revert" /\ Fault
    /\ Perhaps(Cas(doc[r].status, prior[r]))
    /\ Goto(r, "uncertain")
    /\ UNCHANGED <<queue, broker, prior, doc, up, handler, sweep, today>>

\* The API process goes away in the middle of a request.
Dies(r) ==
    /\ pc[r] \notin Answers \cup {"idle"} /\ Fault
    /\ Goto(r, "error")
    /\ UNCHANGED <<row, queue, broker, prior, doc, up, handler, sweep, today>>

-----------------------------------------------------------------------------
\* The handler.

Outside == <<request, up, sweep>>

To(h) == hpc' = h

\* live_state.claim_next_pending: a pending command becomes this worker's.
Take(c) ==
    /\ up /\ hpc = "idle"
    /\ queue[c] = "pending"
    /\ queue' = [queue EXCEPT ![c] = "running"]
    /\ cmd' = c /\ To("read")
    /\ UNCHANGED <<row, broker, Outside, snap, bounds>>

\* The lease is written and the command cannot be read back.
TakeRaises(c) ==
    /\ up /\ hpc = "idle" /\ Fault
    /\ queue[c] = "pending"
    /\ queue' = [queue EXCEPT ![c] = "running"]
    /\ UNCHANGED <<row, broker, Outside, handler, today>>

\* (Mutation: an expired lease stays where it is.)
QuarantineNone(c) ==
    /\ up /\ hpc = "idle"
    /\ queue[c] = "running"
    /\ UNCHANGED vars

\* A lease that ran out: the command is set aside, not run again.
Quarantine(c) ==
    /\ up /\ hpc = "idle"
    /\ queue[c] = "running"
    /\ queue' = [queue EXCEPT ![c] = "reconciliation_required"]
    /\ UNCHANGED <<row, broker, Outside, handler, bounds>>

\* Only an approval is placed, and only one of today.
ReadSignal ==
    /\ hpc = "read"
    /\ To(IF row.status \notin Approved THEN "failed"
          ELSE IF row.day # today THEN "old" ELSE "claim")
    /\ snap' = row
    /\ UNCHANGED <<row, queue, broker, Outside, cmd, bounds>>

ReadSignalRaises ==
    /\ hpc = "read" /\ Fault
    /\ To("failed")
    /\ UNCHANGED <<row, queue, broker, Outside, cmd, snap, today>>

FailOld ==
    /\ hpc = "old"
    /\ \/ Cas(snap.status, Failed(snap))
       \/ row.status # snap.status /\ UNCHANGED row
    /\ To("failed")
    /\ UNCHANGED <<queue, broker, Outside, cmd, snap, bounds>>

Claim ==
    /\ hpc = "claim"
    /\ \/ Cas(snap.status, Claimed(snap, cmd)) /\ To("build")
       \/ row.status # snap.status /\ To("failed") /\ UNCHANGED row
    /\ UNCHANGED <<queue, broker, Outside, cmd, snap, bounds>>

ClaimRaises ==
    /\ hpc \in {"old", "claim"} /\ Fault
    /\ Perhaps(Cas(snap.status,
                   IF hpc = "old" THEN Failed(snap) ELSE Claimed(snap, cmd)))
    /\ To("failed")
    /\ UNCHANGED <<queue, broker, Outside, cmd, snap, today>>

\* Controls, price, equity and contract are read and the intent is built.
Build ==
    /\ hpc = "build"
    /\ \E h \in {"send", "reset", "fail"} : To(h)
    /\ UNCHANGED <<row, queue, broker, Outside, cmd, snap, bounds>>

\* (Mutation: a transient refusal after the record.)
LodgeEarly ==
    /\ hpc = "send"
    /\ lodged' = TRUE /\ \E h \in {"post", "refused", "reset"} : To(h)
    /\ UNCHANGED <<row, queue, orders, size, Outside, cmd, snap, bounds>>

\* LiveOrderService.submit up to its record.  A refusal of the gate leaves
\* none; one that comes after the record, or a failed write of it, may.
Lodge ==
    /\ hpc = "send"
    /\ \/ lodged' = TRUE /\ \E h \in {"post", "refused"} : To(h)
       \/ UNCHANGED lodged /\ \E h \in {"reset", "refused", "failed"} : To(h)
    /\ UNCHANGED <<row, queue, orders, size, Outside, cmd, snap, bounds>>

\* (Mutation: an order that timed out is offered again.)
PostRetried ==
    /\ hpc = "post"
    /\ orders' = orders + 1 /\ size' = snap.status
    /\ \E h \in {"confirm", "reset", "failed"} : To(h)
    /\ UNCHANGED <<row, queue, lodged, Outside, cmd, snap, bounds>>

\* The POST and the answer the handler gets of it: an order, or its answer
\* lost; a refusal; or neither, and the service says so or raises.  An order
\* that lands after its answer is counted here.
Post ==
    /\ hpc = "post"
    /\ \/ /\ orders' = orders + 1 /\ size' = snap.status
          /\ \/ \E h \in {"confirm", "uncertain", "failed"} : To(h)
             \/ GatewayErrors /\ To("refused")
       \/ /\ UNCHANGED <<orders, size>>
          /\ \E h \in {"refused", "uncertain"} : To(h)
    /\ UNCHANGED <<row, queue, lodged, Outside, cmd, snap, bounds>>

\* Plain writes of the outcome (update_signal).
Outcome ==
    CASE hpc = "reset"     -> Undecided(row)
      [] hpc = "fail"      -> Failed(row)
      [] hpc = "refused"   -> Keyed(WithStatus(row, "failed"))
      [] hpc = "uncertain" -> Keyed(row)

Write ==
    /\ hpc \in {"reset", "fail", "refused", "uncertain"}
    /\ row' = Outcome
    /\ To("failed")
    /\ UNCHANGED <<queue, broker, Outside, cmd, snap, bounds>>

WriteRaises ==
    /\ hpc \in {"reset", "fail", "refused", "uncertain"} /\ Fault
    /\ Perhaps(row' = Outcome)
    /\ To("failed")
    /\ UNCHANGED <<queue, broker, Outside, cmd, snap, today>>

\* An accepted order is written only into the row of this claim.
Confirm ==
    /\ hpc = "confirm"
    /\ snap' = row
    /\ To(IF row.status = "submitted" /\ row.claim = cmd
          THEN "swap" ELSE "completed")
    /\ UNCHANGED <<row, queue, broker, Outside, cmd, bounds>>

Swap ==
    /\ hpc = "swap"
    /\ \/ Cas("submitted", Keyed(snap))
       \/ row.status # "submitted" /\ UNCHANGED row
    /\ To("completed")
    /\ UNCHANGED <<queue, broker, Outside, cmd, snap, bounds>>

ConfirmRaises ==
    /\ hpc \in {"confirm", "swap"} /\ Fault
    /\ Perhaps(hpc = "swap" /\ Cas("submitted", Keyed(snap)))
    /\ To("completed")
    /\ UNCHANGED <<queue, broker, Outside, cmd, snap, today>>

\* (Mutation: the worker goes on believing it holds the command.)
FinishKept ==
    /\ hpc \in {"completed", "failed"}
    /\ queue' = [queue EXCEPT ![cmd] = hpc]
    /\ To("idle")
    /\ UNCHANGED <<row, broker, Outside, cmd, snap, bounds>>

\* complete_command, fail_command
Finish ==
    /\ hpc \in {"completed", "failed"}
    /\ queue' = [queue EXCEPT ![cmd] = hpc]
    /\ To("idle") /\ cmd' = None /\ snap' = Fresh
    /\ UNCHANGED <<row, broker, Outside, bounds>>

\* They swallow a failed write: the command still reads running.
FinishRaises ==
    /\ hpc \in {"completed", "failed"} /\ Fault
    /\ To("idle") /\ cmd' = None /\ snap' = Fresh
    /\ UNCHANGED <<row, queue, broker, Outside, today>>

-----------------------------------------------------------------------------
\* The sweep.  It lists first and asks for handlers in flight afterwards.

Elsewhere == <<request, up, handler>>

Leave == spc' = "idle" /\ stale' = Fresh

\* (Mutation: only the rows of the day are listed.)
ListToday ==
    /\ up /\ spc = "idle" /\ row.day = today
    /\ row.status = "submitted" /\ ~row.key /\ row.aged
    /\ spc' = "listed" /\ stale' = row
    /\ UNCHANGED <<row, queue, broker, Elsewhere, bounds>>

List ==
    /\ up /\ spc = "idle"
    /\ row.status = "submitted" /\ ~row.key /\ row.aged
    /\ spc' = "listed" /\ stale' = row
    /\ UNCHANGED <<row, queue, broker, Elsewhere, bounds>>

SkipInFlight ==
    /\ spc = "listed"
    /\ \/ InFlight /\ Leave
       \/ ~InFlight /\ spc' = "records" /\ UNCHANGED stale
    /\ UNCHANGED <<row, queue, broker, Elsewhere, bounds>>

\* (Mutation: the order key is enough to tell.)
ReadNoRecords ==
    /\ spc = "records"
    /\ spc' = "fail"
    /\ UNCHANGED <<row, queue, broker, Elsewhere, stale, bounds>>

ReadRecords ==
    /\ spc = "records"
    /\ \/ lodged /\ Leave
       \/ ~lodged /\ spc' = "fail" /\ UNCHANGED stale
    /\ UNCHANGED <<row, queue, broker, Elsewhere, bounds>>

MarkFailed ==
    /\ spc = "fail"
    /\ \/ Cas("submitted", Failed(stale))
       \/ row.status # "submitted" /\ UNCHANGED row
    /\ Leave
    /\ UNCHANGED <<queue, broker, Elsewhere, bounds>>

SweepRaises ==
    /\ spc # "idle" /\ Fault
    /\ Perhaps(spc = "fail" /\ Cas("submitted", Failed(stale)))
    /\ Leave
    /\ UNCHANGED <<queue, broker, Elsewhere, today>>

-----------------------------------------------------------------------------
\* Time and the process.

\* Ten minutes after the claim.
Age ==
    /\ row.status = "submitted" /\ ~row.aged
    /\ ~(PromptHandlers /\ InFlight)
    /\ row' = [status |-> row.status, by |-> row.by, day |-> row.day,
               claim |-> row.claim, aged |-> TRUE, key |-> row.key]
    /\ UNCHANGED <<queue, broker, Elsewhere, sweep, bounds>>

NextDay ==
    /\ today < MaxDays
    /\ today' = today + 1
    /\ UNCHANGED <<row, queue, broker, Elsewhere, sweep, faults>>

Crash ==
    /\ up /\ Fault
    /\ up' = FALSE
    /\ hpc' = "idle" /\ cmd' = None /\ snap' = Fresh
    /\ spc' = "idle" /\ stale' = Fresh
    /\ UNCHANGED <<row, queue, broker, request, today>>

Restart ==
    /\ ~up
    /\ up' = TRUE
    /\ UNCHANGED <<row, queue, broker, request, handler, sweep, bounds>>

-----------------------------------------------------------------------------
RequestNext ==
    \/ \E r \in Requests, d \in Decisions : Decide(r, d)
    \/ \E r \in Requests :
          \/ Commit(r) \/ CommitRaises(r)
          \/ Resend(r) \/ LookForOpen(r)
          \/ Insert(r) \/ InsertRaises(r) \/ CommitsLate(r)
          \/ LookForOwn(r) \/ Reread(r) \/ ReadRaises(r)
          \/ Revert(r) \/ RevertRaises(r) \/ Dies(r)

HandlerProgress ==
    \/ \E c \in Requests : Take(c) \/ Quarantine(c)
    \/ ReadSignal \/ FailOld \/ Claim \/ Build \/ Lodge \/ Post \/ Write
    \/ Confirm \/ Swap \/ Finish

HandlerNext ==
    \/ HandlerProgress
    \/ \E c \in Requests : TakeRaises(c)
    \/ ReadSignalRaises \/ ClaimRaises \/ WriteRaises \/ ConfirmRaises
    \/ FinishRaises

SweepProgress == List \/ SkipInFlight \/ ReadRecords \/ MarkFailed

Next == RequestNext \/ HandlerNext \/ SweepProgress \/ SweepRaises
        \/ Age \/ NextDay \/ Crash \/ Restart

Spec == Init /\ [][Next]_vars

\* The two threads of a running process run on, a stopped process is started
\* again, and time passes; no request has to come.
Fairness == /\ WF_vars(HandlerProgress) /\ WF_vars(SweepProgress)
            /\ WF_vars(Age) /\ WF_vars(Restart)

FairSpec == Spec /\ Fairness

-----------------------------------------------------------------------------
\* Every variable holds values of its kind, and the worker holds a command
\* exactly while it handles one.
TypeOK ==
    /\ row \in Rows
    /\ queue \in [Requests -> {"none", "late"} \cup Open \cup Terminal]
    /\ lodged \in BOOLEAN /\ orders \in Nat
    /\ size \in Approved \cup {"none"}
    /\ pc \in [Requests -> Answers \cup {"idle", "cas", "insert", "again",
                                         "open", "look", "reread", "revert"}]
    /\ prior \in [Requests -> Rows] /\ doc \in [Requests -> Rows]
    /\ up \in BOOLEAN
    /\ InFlight \/ hpc \in {"idle", "read", "old", "completed", "failed"}
    /\ cmd \in Requests \cup {None} /\ (cmd = None <=> hpc = "idle")
    /\ snap \in Rows
    /\ spc \in {"idle", "listed", "records", "fail"} /\ stale \in Rows
    /\ today \in 1..MaxDays + 1 /\ faults \in 0..MaxFaults

\* Whatever is clicked twice, re-sent, retried, reverted or interrupted by a
\* restart, and whatever becomes of the answers, the broker gets one order.
AtMostOneOrder == orders <= 1

\* Once an order may exist, nothing puts the signal back where it could be
\* decided, re-sent or claimed again: not a revert by a request that gave
\* up, not the handler, not the sweep.
SettledOnceSent == lodged => row.status \in Placed

\* A signal shown as failed has no order: neither the handler nor the sweep
\* gives up on one that was sent.  It takes a handler that is done within the
\* sweep's ten minutes, and a refusal by the broker that is one.
FailedHasNoOrder == row.status = "failed" => orders = 0

\* The order was approved, and has the size of an approval that no operator
\* was told was taken back.
PlacedAsApproved ==
    orders > 0 => \E r \in Requests :
        /\ doc[r].status = size
        /\ pc[r] \notin {"idle", "cas", "conflict", "unavailable"}

\* A claim whose handler stopped before the order was on record does not
\* stand for ever: the sweep settles it, across restarts and on later days.
ClaimsSettle ==
    row.status = "submitted" /\ ~lodged ~> row.status # "submitted" \/ lodged

\* Every command that reached the queue comes to an end.
CommandsEnd ==
    \A c \in Requests : queue[c] \in Open ~> queue[c] \in Terminal

\* "A decision is final" (approvals.py:9): an approval is taken back only by
\* the request that made it.
OnlyItsOwn ==
    [][row.status \in Approved /\ row'.status = "pending"
         => pc[row.by] = "revert"]_vars

Life == INSTANCE SignalLife
    WITH Sure <- PromptHandlers /\ ~GatewayErrors,
         status <- row.status, recorded <- lodged, sent <- orders

\* Whatever requests, handlers and the sweep do to the one row, each of them on
\* what it read of it before, the signal has one life: a rejection is the end of
\* it, a claim is given up only while nothing is on record, and a signal whose
\* order is out stays submitted.
HasOneLife == Life!Spec
=============================================================================
