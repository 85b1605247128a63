------------------------- MODULE SwingApprovalProofs -------------------------
(***************************************************************************)
(* Theorems of SwingApproval, for any number of clicks, days, failed calls  *)
(* and restarts, and every set of decisions.                                *)
(***************************************************************************)
EXTENDS SwingApproval, TLAPS

-----------------------------------------------------------------------------
(***************************************************************************)
(* What the operators on rows return.                                       *)
(***************************************************************************)
LEMMA RowFields ==
    ASSUME NEW d \in Rows
    PROVE  /\ d.status \in Statuses /\ d.by \in Requests \cup {None}
           /\ d.day \in 0..MaxDays + 1 /\ d.claim \in Requests \cup {None}
           /\ d.aged \in BOOLEAN /\ d.key \in BOOLEAN
BY DEF Rows

LEMMA FreshType == Fresh \in Rows
BY SwingAssumption DEF Fresh, Rows, Statuses

LEMMA RowTypes ==
    ASSUME NEW d \in Rows
    PROVE  /\ \A s \in Statuses : WithStatus(d, s) \in Rows
           /\ \A c \in Requests : Claimed(d, c) \in Rows
           /\ Undecided(d) \in Rows /\ Failed(d) \in Rows /\ Keyed(d) \in Rows
<1>1. ASSUME NEW s \in Statuses PROVE WithStatus(d, s) \in Rows
  BY RowFields DEF WithStatus, Rows
<1>2. ASSUME NEW c \in Requests PROVE Claimed(d, c) \in Rows
  BY RowFields DEF Claimed, Rows, Statuses, Placed
<1>3. Undecided(d) \in Rows
  BY RowFields, SwingAssumption DEF Undecided, Rows, Statuses
<1>4. Failed(d) \in Rows
  BY RowFields DEF Failed, Rows, Statuses, Placed
<1>5. Keyed(d) \in Rows
  BY RowFields DEF Keyed, Rows
<1> QED
  BY <1>1, <1>2, <1>3, <1>4, <1>5

LEMMA DecidedType ==
    ASSUME TypeOK, NEW d \in Rows, NEW s \in Statuses, NEW r \in Requests
    PROVE  Decided(d, s, r) \in Rows
BY RowFields, SwingAssumption DEF TypeOK, Decided, Rows

\* What the row's writers make of its status.
LEMMA Stamped ==
    ASSUME NEW d
    PROVE  /\ \A s : WithStatus(d, s).status = s
           /\ \A c : Claimed(d, c).status = "submitted"
           /\ \A c : Claimed(d, c).aged = FALSE
           /\ Undecided(d).status = "pending"
           /\ Failed(d).status = "failed"
           /\ Keyed(d).status = d.status
           /\ Keyed(d).aged = d.aged
BY DEF WithStatus, Decided, Claimed, Undecided, Failed, Keyed

\* The outcome the handler writes.
LEMMA Outcomes ==
    /\ hpc = "reset" => Outcome = Undecided(row)
    /\ hpc = "fail" => Outcome = Failed(row)
    /\ hpc = "refused" => Outcome = Keyed(WithStatus(row, "failed"))
    /\ hpc = "uncertain" => Outcome = Keyed(row)
<1>1. CASE hpc = "reset"
  BY <1>1 DEF Outcome
<1>2. CASE hpc = "fail"
  BY <1>2 DEF Outcome
<1>3. CASE hpc = "refused"
  BY <1>3 DEF Outcome
<1>4. CASE hpc = "uncertain"
  BY <1>4 DEF Outcome
<1> QED
  BY <1>1, <1>2, <1>3, <1>4

LEMMA OutcomeType ==
    ASSUME TypeOK, hpc \in {"reset", "fail", "refused", "uncertain"}
    PROVE  Outcome \in Rows
<1>1. row \in Rows /\ "failed" \in Statuses
  BY DEF TypeOK, Statuses, Placed
<1> QED
  BY <1>1, Outcomes, RowTypes

-----------------------------------------------------------------------------
(***************************************************************************)
(* Type correctness.                                                        *)
(***************************************************************************)
Places == Answers \cup {"idle", "cas", "insert", "again", "open", "look",
                        "reread", "revert"}

LEMMA TypeInit == Init => TypeOK
<1> SUFFICES ASSUME Init PROVE TypeOK
  OBVIOUS
<1>1. row \in Rows /\ snap \in Rows /\ stale \in Rows
  BY FreshType DEF Init
<1>2. prior \in [Requests -> Rows] /\ doc \in [Requests -> Rows]
  BY FreshType DEF Init
<1>3. /\ today \in 1..MaxDays + 1 /\ faults \in 0..MaxFaults
  BY SwingAssumption DEF Init
<1>4. hpc = "idle" /\ cmd = None
  BY DEF Init
<1>5. /\ queue \in [Requests -> {"none", "late"} \cup Open \cup Terminal]
      /\ pc \in [Requests -> Places]
  BY DEF Init, Places
<1>6. /\ lodged \in BOOLEAN /\ orders \in Nat /\ up \in BOOLEAN
      /\ size \in Approved \cup {"none"}
      /\ spc \in {"idle", "listed", "records", "fail"}
  BY DEF Init
<1> QED
  BY <1>1, <1>2, <1>3, <1>4, <1>5, <1>6 DEF TypeOK, Places

\* A failed call is counted within its bound.
LEMMA FaultType ==
    ASSUME TypeOK, Fault
    PROVE  faults' \in 0..MaxFaults
BY SwingAssumption DEF TypeOK, Fault

\* A request writes the row, its command, its place and its two copies.
LEMMA RequestTypeFrame ==
    ASSUME TypeOK, UNCHANGED <<broker, up, handler, sweep, today>>,
           row' \in Rows, prior' \in [Requests -> Rows],
           doc' \in [Requests -> Rows], pc' \in [Requests -> Places],
           queue' \in [Requests -> {"none", "late"} \cup Open \cup Terminal],
           faults' \in 0..MaxFaults
    PROVE  TypeOK'
<1> USE DEF TypeOK, broker, handler, sweep
<1>1. InFlight' = InFlight
  BY DEF InFlight
<1>2. cmd' \in Requests \cup {None} /\ (cmd' = None <=> hpc' = "idle")
  OBVIOUS
<1>3. (InFlight \/ hpc \in {"idle", "read", "old", "completed", "failed"})'
  BY <1>1
<1> QED
  BY <1>2, <1>3 DEF Places

LEMMA RequestKeepsTypes ==
    ASSUME TypeOK, RequestNext
    PROVE  TypeOK'
<1>1. /\ UNCHANGED <<broker, up, handler, sweep, today>>
  BY DEF RequestNext, Decide, Commit, CommitRaises, Resend, LookForOpen, Insert,
         InsertRaises, CommitsLate, LookForOwn, Reread, ReadRaises, Revert,
         RevertRaises, Dies, request, bounds
<1>2. faults' \in 0..MaxFaults
  <2>1. Fault \/ faults' = faults
    BY DEF RequestNext, Decide, Commit, CommitRaises, Resend, LookForOpen, Insert,
           InsertRaises, CommitsLate, LookForOwn, Reread, ReadRaises, Revert,
           RevertRaises, Dies, bounds
  <2> QED
    BY <2>1, FaultType DEF TypeOK
<1>3. row' \in Rows
  <2>1. /\ row \in Rows
        /\ \A r \in Requests : prior[r] \in Rows /\ doc[r] \in Rows
    BY DEF TypeOK
  <2> QED
    BY <2>1 DEF RequestNext, Decide, Commit, CommitRaises, Resend, LookForOpen,
         Insert, InsertRaises, CommitsLate, LookForOwn, Reread, ReadRaises, Revert,
         RevertRaises, Dies, Cas, Perhaps
<1>4. prior' \in [Requests -> Rows] /\ doc' \in [Requests -> Rows]
  <2>1. ASSUME NEW r \in Requests, NEW d \in Decisions, Decide(r, d)
        PROVE  prior' \in [Requests -> Rows] /\ doc' \in [Requests -> Rows]
    <3>1. row \in Rows /\ Decided(row, d, r) \in Rows
      <4>1. row \in Rows /\ d \in Statuses
        BY <2>1, SwingAssumption DEF TypeOK, Decide, Statuses
      <4> QED
        BY <4>1, DecidedType
    <3> QED
      BY <2>1, <3>1 DEF TypeOK, Decide
  <2>2. CASE \E r \in Requests, d \in Decisions : Decide(r, d)
    BY <2>1, <2>2
  <2>3. CASE ~(\E r \in Requests, d \in Decisions : Decide(r, d))
    <3>1. UNCHANGED <<prior, doc>>
      BY <2>3 DEF RequestNext, Commit, CommitRaises, Resend, LookForOpen, Insert,
         InsertRaises, CommitsLate, LookForOwn, Reread, ReadRaises, Revert,
         RevertRaises, Dies, request
    <3> QED
      BY <3>1 DEF TypeOK
  <2> QED
    BY <2>2, <2>3
<1>5. pc' \in [Requests -> Places]
  BY DEF TypeOK, Places, Answers, RequestNext, Decide, Commit, CommitRaises, Resend,
         LookForOpen, Insert, InsertRaises, CommitsLate, LookForOwn, Reread,
         ReadRaises, Revert, RevertRaises, Dies, Goto, request
<1>6. queue' \in [Requests -> {"none", "late"} \cup Open \cup Terminal]
  BY DEF TypeOK, Open, RequestNext, Decide, Commit, CommitRaises, Resend,
         LookForOpen, Insert, InsertRaises, CommitsLate, LookForOwn, Reread,
         ReadRaises, Revert, RevertRaises, Dies
<1> QED
  BY <1>1, <1>2, <1>3, <1>4, <1>5, <1>6, RequestTypeFrame

\* The handler writes the row, the queue, the broker's side and its own place.
LEMMA HandlerTypeFrame ==
    ASSUME TypeOK, UNCHANGED <<request, up, sweep, today>>,
           row' \in Rows, snap' \in Rows, lodged' \in BOOLEAN, orders' \in Nat,
           size' \in Approved \cup {"none"},
           queue' \in [Requests -> {"none", "late"} \cup Open \cup Terminal],
           InFlight' \/ hpc' \in {"idle", "read", "old", "completed", "failed"},
           cmd' \in Requests \cup {None}, cmd' = None <=> hpc' = "idle",
           faults' \in 0..MaxFaults
    PROVE  TypeOK'
BY DEF TypeOK, request, sweep

Handled == \/ \E c \in Requests : Take(c) \/ TakeRaises(c) \/ Quarantine(c)
           \/ ReadSignal \/ ReadSignalRaises \/ FailOld \/ Claim \/ ClaimRaises
           \/ Build \/ Lodge \/ Post \/ Write \/ WriteRaises
           \/ Confirm \/ Swap \/ ConfirmRaises \/ Finish \/ FinishRaises

LEMMA HandlerCases == HandlerNext <=> Handled
BY DEF HandlerNext, HandlerProgress, Handled

LEMMA HandlerKeepsRow ==
    ASSUME TypeOK, HandlerNext
    PROVE  row' \in Rows
<1>1. row \in Rows /\ snap \in Rows
  BY DEF TypeOK
<1>2. ASSUME hpc # "idle" PROVE cmd \in Requests
  BY <1>2 DEF TypeOK
<1>3. CASE Claim \/ ClaimRaises
  <2>1. cmd \in Requests
    BY <1>2, <1>3 DEF Claim, ClaimRaises
  <2> QED
    BY <1>1, <1>3, <2>1, RowTypes DEF Claim, ClaimRaises, Cas, Perhaps
<1>4. CASE FailOld \/ Swap \/ ConfirmRaises
  BY <1>1, <1>4, RowTypes DEF FailOld, Swap, ConfirmRaises, Cas, Perhaps
<1>5. CASE Write \/ WriteRaises
  BY <1>1, <1>5, OutcomeType DEF Write, WriteRaises, Perhaps
<1>6. CASE UNCHANGED row
  BY <1>1, <1>6
<1>7. CASE \/ \E c \in Requests : Take(c) \/ TakeRaises(c) \/ Quarantine(c)
           \/ ReadSignal \/ ReadSignalRaises \/ Build \/ Lodge \/ Post
           \/ Confirm \/ Finish \/ FinishRaises
  BY <1>6, <1>7 DEF Take, TakeRaises, Quarantine, ReadSignal, ReadSignalRaises,
       Build, Lodge, Post, Confirm, Finish, FinishRaises
<1> QED
  BY <1>3, <1>4, <1>5, <1>7, HandlerCases DEF Handled

\* Between a command taken and a command finished the handler keeps it.
LEMMA HandlerKeepsPlace ==
    ASSUME TypeOK, HandlerNext
    PROVE  /\ InFlight' \/ hpc' \in {"idle", "read", "old", "completed", "failed"}
           /\ cmd' \in Requests \cup {None}
           /\ cmd' = None <=> hpc' = "idle"
<1> USE DEF TypeOK, InFlight
<1>1. ASSUME NEW c \in Requests, Take(c) \/ TakeRaises(c) \/ Quarantine(c)
      PROVE  /\ InFlight' \/ hpc' \in {"idle", "read", "old", "completed", "failed"}
             /\ cmd' \in Requests \cup {None}
             /\ cmd' = None <=> hpc' = "idle"
  BY <1>1, SwingAssumption DEF Take, TakeRaises, Quarantine, To, handler
<1>2. CASE Finish \/ FinishRaises
  BY <1>2, SwingAssumption DEF Finish, FinishRaises, To
<1>3. CASE \/ ReadSignal \/ ReadSignalRaises \/ FailOld \/ Claim \/ ClaimRaises
           \/ Build \/ Lodge \/ Post \/ Write \/ WriteRaises
           \/ Confirm \/ Swap \/ ConfirmRaises
  <2>1. hpc # "idle" /\ hpc' # "idle" /\ cmd' = cmd
    BY <1>3 DEF ReadSignal, ReadSignalRaises, FailOld, Claim, ClaimRaises, Build,
         Lodge, Post, Write, WriteRaises, Confirm, Swap, ConfirmRaises, To
  <2>2. InFlight' \/ hpc' \in {"idle", "read", "old", "completed", "failed"}
    BY <1>3 DEF ReadSignal, ReadSignalRaises, FailOld, Claim, ClaimRaises, Build,
         Lodge, Post, Write, WriteRaises, Confirm, Swap, ConfirmRaises, To
  <2> QED
    BY <2>1, <2>2
<1> QED
  BY <1>1, <1>2, <1>3, HandlerCases DEF Handled

LEMMA HandlerKeepsBroker ==
    ASSUME TypeOK, HandlerNext, hpc = "post" => snap.status \in Approved
    PROVE  /\ lodged' \in BOOLEAN /\ orders' \in Nat
           /\ size' \in Approved \cup {"none"}
<1>1. CASE Lodge
  BY <1>1 DEF TypeOK, Lodge
<1>2. CASE Post
  BY <1>2 DEF TypeOK, Post
<1>3. CASE Handled /\ ~Lodge /\ ~Post
  <2>1. UNCHANGED broker
    BY <1>3 DEF Handled, Take, TakeRaises, Quarantine, ReadSignal, ReadSignalRaises,
       FailOld, Claim, ClaimRaises, Build, Write, WriteRaises, Confirm, Swap,
       ConfirmRaises, Finish, FinishRaises
  <2> QED
    BY <2>1 DEF TypeOK, broker
<1> QED
  BY <1>1, <1>2, <1>3, HandlerCases

LEMMA HandlerKeepsTypes ==
    ASSUME TypeOK, HandlerNext, hpc = "post" => snap.status \in Approved
    PROVE  TypeOK'
<1> USE HandlerCases
<1> USE DEF Handled, Take, TakeRaises, Quarantine, ReadSignal, ReadSignalRaises,
     FailOld, Claim, ClaimRaises, Build, Lodge, Post, Write, WriteRaises, Confirm, Swap,
     ConfirmRaises, Finish, FinishRaises
<1>1. UNCHANGED <<request, up, sweep, today>>
  BY DEF Outside, bounds
<1>2. faults' \in 0..MaxFaults
  <2>1. Fault \/ faults' = faults
    BY DEF bounds
  <2> QED
    BY <2>1, FaultType DEF TypeOK
<1>3. snap' \in Rows
  BY FreshType DEF TypeOK, handler
<1>4. queue' \in [Requests -> {"none", "late"} \cup Open \cup Terminal]
  BY DEF TypeOK, Open, Terminal
<1> QED
  BY <1>1, <1>2, <1>3, <1>4, HandlerKeepsRow, HandlerKeepsPlace,
     HandlerKeepsBroker, HandlerTypeFrame

\* The sweep and the restarts.
LEMMA OthersKeepTypes ==
    ASSUME TypeOK,
           SweepProgress \/ SweepRaises \/ Age \/ NextDay \/ Crash \/ Restart
    PROVE  TypeOK'
<1>1. CASE SweepProgress \/ SweepRaises
  <2>1. /\ UNCHANGED <<request, up, handler, queue, broker, today>>
    BY <1>1 DEF SweepProgress, List, SkipInFlight, ReadRecords, MarkFailed,
         SweepRaises, Elsewhere, bounds
  <2>2. faults' \in 0..MaxFaults
    <3>1. Fault \/ faults' = faults
      BY <1>1 DEF SweepProgress, List, SkipInFlight, ReadRecords, MarkFailed,
           SweepRaises, bounds
    <3> QED
      BY <3>1, FaultType DEF TypeOK
  <2>3. stale' \in Rows /\ spc' \in {"idle", "listed", "records", "fail"}
    BY <1>1, FreshType DEF TypeOK, SweepProgress, List, SkipInFlight, ReadRecords,
         MarkFailed, SweepRaises, Leave
  <2>4. row' \in Rows
    <3>1. row \in Rows /\ Failed(stale) \in Rows
      BY RowTypes DEF TypeOK
    <3> QED
      BY <1>1, <3>1 DEF SweepProgress, List, SkipInFlight, ReadRecords, MarkFailed,
           SweepRaises, Cas, Perhaps
  <2>5. InFlight' = InFlight
    BY <2>1 DEF InFlight, handler
  <2> QED
    BY <2>1, <2>2, <2>3, <2>4, <2>5 DEF TypeOK, request, handler, broker
<1>2. CASE Age
  <2>1. row' \in Rows
    <3>1. row \in Rows
      BY DEF TypeOK
    <3> QED
      BY <1>2, <3>1, RowFields DEF Age, Rows
  <2>2. UNCHANGED <<request, up, handler, sweep, queue, broker, bounds>>
    BY <1>2 DEF Age, Elsewhere
  <2>3. InFlight' = InFlight
    BY <2>2 DEF InFlight, handler
  <2> QED
    BY <2>1, <2>2, <2>3 DEF TypeOK, request, handler, sweep, broker, bounds
<1>3. CASE NextDay
  <2>1. UNCHANGED <<request, up, handler, sweep, queue, broker, row, faults>>
    BY <1>3 DEF NextDay, Elsewhere
  <2>2. today' \in 1..MaxDays + 1
    BY <1>3, SwingAssumption DEF NextDay, TypeOK
  <2>3. InFlight' = InFlight
    BY <2>1 DEF InFlight, handler
  <2> QED
    BY <2>1, <2>2, <2>3 DEF TypeOK, request, handler, sweep, broker, bounds
<1>4. CASE Crash
  <2>1. UNCHANGED <<request, queue, broker, row, today>>
    BY <1>4 DEF Crash
  <2>2. faults' \in 0..MaxFaults
    BY <1>4, SwingAssumption DEF Crash, Fault, TypeOK
  <2> QED
    BY <1>4, <2>1, <2>2, FreshType DEF TypeOK, Crash, request, broker
<1>5. CASE Restart
  <2>1. UNCHANGED <<request, handler, sweep, queue, broker, row, bounds>>
    BY <1>5 DEF Restart
  <2>2. InFlight' = InFlight
    BY <2>1 DEF InFlight, handler
  <2> QED
    BY <1>5, <2>1, <2>2 DEF TypeOK, Restart, request, handler, sweep, broker, bounds
<1> QED
  BY <1>1, <1>2, <1>3, <1>4, <1>5

\* Until it is sent, what the handler works on is an approval it read.
SnapApproved ==
    hpc \in {"claim", "old", "build", "send", "post"} => snap.status \in Approved

LEMMA SnapStep ==
    ASSUME TypeOK, SnapApproved, [Next]_vars
    PROVE  SnapApproved'
<1>1. CASE HandlerNext
  BY <1>1, HandlerCases DEF SnapApproved, Handled, Take, TakeRaises, Quarantine,
     ReadSignal, ReadSignalRaises, FailOld, Claim, ClaimRaises, Build, Lodge, Post,
     Write, WriteRaises, Confirm, Swap, ConfirmRaises, Finish, FinishRaises, To, handler
<1>2. CASE RequestNext
  <2>1. UNCHANGED handler
    BY <1>2 DEF RequestNext, Decide, Commit, CommitRaises, Resend, LookForOpen, Insert,
         InsertRaises, CommitsLate, LookForOwn, Reread, ReadRaises, Revert,
         RevertRaises, Dies
  <2> QED
    BY <2>1 DEF SnapApproved, handler
<1>3. CASE SweepProgress \/ SweepRaises \/ Age \/ NextDay \/ Restart \/ UNCHANGED vars
  <2>1. UNCHANGED handler
    BY <1>3 DEF SweepProgress, List, SkipInFlight, ReadRecords, MarkFailed,
         SweepRaises, Elsewhere, Age, NextDay, Restart, vars
  <2> QED
    BY <2>1 DEF SnapApproved, handler
<1>4. CASE Crash
  BY <1>4 DEF SnapApproved, Crash
<1> QED
  BY <1>1, <1>2, <1>3, <1>4 DEF Next

Typed == TypeOK /\ SnapApproved

LEMMA TypedStep == Typed /\ [Next]_vars => Typed'
<1> SUFFICES ASSUME Typed, [Next]_vars PROVE Typed'
  OBVIOUS
<1>1. SnapApproved'
  BY SnapStep DEF Typed
<1>2. CASE RequestNext
  BY <1>1, <1>2, RequestKeepsTypes DEF Typed
<1>3. CASE HandlerNext
  BY <1>1, <1>3, HandlerKeepsTypes DEF Typed, SnapApproved
<1>4. CASE SweepProgress \/ SweepRaises \/ Age \/ NextDay \/ Crash \/ Restart
  BY <1>1, <1>4, OthersKeepTypes DEF Typed
<1>5. CASE UNCHANGED vars
  <2>1. InFlight' = InFlight
    BY <1>5 DEF InFlight, vars, handler
  <2> QED
    BY <1>1, <1>5, <2>1 DEF Typed, TypeOK, vars, request, handler, sweep, broker, bounds
<1> QED
  BY <1>2, <1>3, <1>4, <1>5 DEF Next

\* Whatever the requests, the worker, the sweep and the restarts do, every
\* variable keeps its type: the size of an order is that of an approval, and
\* the worker holds a command exactly while it handles one.
THEOREM TypeCorrect == Spec => []TypeOK
<1>1. Init => Typed
  BY TypeInit DEF Typed, SnapApproved, Init
<1>2. Typed /\ [Next]_vars => Typed'
  BY TypedStep
<1>3. Typed => TypeOK
  BY DEF Typed
<1> QED
  BY <1>1, <1>2, <1>3, PTL DEF Spec

-----------------------------------------------------------------------------
(***************************************************************************)
(* The inductive invariants.                                                *)
(***************************************************************************)
\* From the claim of the signal on.
PastClaim == {"build", "send", "post", "reset", "fail", "refused", "uncertain",
              "confirm", "swap"}

\* What a request knows at each of its places: it decides pending rows, and
\* only approvals are queued and taken back.
AskedInv ==
    \A r \in Requests :
        /\ pc[r] \in {"idle", "open"} => doc[r].status = "pending"
        /\ pc[r] \in {"cas", "insert", "look", "reread", "revert"}
              => prior[r].status = "pending"
        /\ pc[r] \in {"insert", "look", "reread", "revert"}
              => doc[r].status \in Approved

\* A record is written only after a claim, and after it nothing is reset.
ClaimInv ==
    /\ hpc \in PastClaim => row.status \in Placed
    /\ hpc \in {"build", "send", "reset", "fail"} => ~lodged
    /\ hpc = "swap" => snap.status = "submitted"
    /\ lodged => row.status \in Placed

\* One order is sent, under the record.
SentInv ==
    /\ hpc = "post" => lodged /\ orders = 0
    /\ orders > 0 => lodged
    /\ orders <= 1

\* With a prompt handler the sweep and the handler are never at one claim:
\* the claim of a handler at work has not aged, what the sweep listed has.
ApartInv ==
    /\ hpc \in PastClaim => row.status = "submitted" /\ row.aged = FALSE
    /\ spc # "idle" => row.status = "submitted" /\ row.aged = TRUE
    /\ spc = "fail" => ~lodged
    /\ hpc = "refused" => orders = 0
    /\ FailedHasNoOrder

\* Some request made the approval, and was not told that it was taken back.
Behind(r, s) ==
    /\ doc[r].status = s
    /\ pc[r] \notin {"idle", "cas", "conflict", "unavailable"}

BehindInv ==
    /\ row.status \in Approved => \E r \in Requests : Behind(r, row.status)
    /\ hpc \in {"build", "send", "post"} => \E r \in Requests : Behind(r, snap.status)
    /\ orders > 0 => \E r \in Requests : Behind(r, size)

\* The clicks keep to their order.  Only Decide writes the copies.
Clicked(r) ==
    \/ Commit(r) \/ CommitRaises(r) \/ Resend(r) \/ LookForOpen(r)
    \/ Insert(r) \/ InsertRaises(r) \/ CommitsLate(r)
    \/ LookForOwn(r) \/ Reread(r) \/ ReadRaises(r)
    \/ Revert(r) \/ RevertRaises(r) \/ Dies(r)

LEMMA RequestCases ==
    RequestNext <=> \E r \in Requests : Clicked(r) \/ \E d \in Decisions : Decide(r, d)
BY DEF RequestNext, Clicked

LEMMA ClickedFrame ==
    ASSUME TypeOK, NEW r \in Requests, Clicked(r)
    PROVE  /\ UNCHANGED <<prior, doc, lodged, orders, size, hpc, cmd, snap, spc, stale,
                          up, today>>
           /\ \A q \in Requests : q # r => pc'[q] = pc[q]
BY DEF TypeOK, Clicked, Commit, CommitRaises, Resend, LookForOpen, Insert, InsertRaises,
       CommitsLate, LookForOwn, Reread, ReadRaises, Revert, RevertRaises, Dies, Goto,
       request, broker, handler, sweep, bounds

\* Where a click goes next.
LEMMA ClickedMoves ==
    ASSUME TypeOK, NEW r \in Requests, Clicked(r)
    PROVE  /\ pc'[r] \in {"idle", "cas"} => pc'[r] = pc[r]
           /\ pc'[r] = "open" => pc[r] \in {"idle", "open"}
           /\ pc'[r] = "insert" => \/ pc[r] = "insert"
                                   \/ pc[r] = "cas" /\ doc[r].status \in Approved
           /\ pc'[r] \in {"look", "reread", "revert"}
                 => pc[r] \in {"insert", "look", "reread", "revert"}
           /\ pc'[r] \in {"conflict", "unavailable"} =>
                 \/ pc[r] \in {"cas", "open", pc'[r]}
                 \/ pc[r] = "revert" /\ Cas(doc[r].status, prior[r])
BY DEF TypeOK, Clicked, Commit, CommitRaises, Resend, LookForOpen, Insert, InsertRaises,
       CommitsLate, LookForOwn, Reread, ReadRaises, Revert, RevertRaises, Dies, Goto,
       Arrives, Answers, request

\* What it does to the row.
LEMMA ClickedWrites ==
    ASSUME TypeOK, NEW r \in Requests, Clicked(r)
    PROVE  \/ row' = row
           \/ /\ pc[r] = "cas" /\ row.status = "pending" /\ row' = doc[r]
              /\ pc'[r] \in {"insert", "ok", "error"}
           \/ pc[r] = "revert" /\ row.status = doc[r].status /\ row' = prior[r]
BY DEF TypeOK, Clicked, Commit, CommitRaises, Resend, LookForOpen, Insert, InsertRaises,
       CommitsLate, LookForOwn, Reread, ReadRaises, Revert, RevertRaises, Dies, Goto,
       Cas, Perhaps

LEMMA DecideMoves ==
    ASSUME TypeOK, NEW r \in Requests, NEW d \in Decisions, Decide(r, d)
    PROVE  /\ UNCHANGED <<row, lodged, orders, size, hpc, cmd, snap, spc, stale, up, today>>
           /\ pc[r] = "idle" /\ pc'[r] = "cas"
           /\ prior'[r].status = "pending" /\ doc'[r].status = d
           /\ \A q \in Requests : q # r => /\ pc'[q] = pc[q] /\ doc'[q] = doc[q]
                                           /\ prior'[q] = prior[q]
<1>1. UNCHANGED <<row, lodged, orders, size, hpc, cmd, snap, spc, stale, up, today>>
  BY DEF Decide, broker, handler, sweep, bounds
<1>2. /\ pc[r] = "idle" /\ pc'[r] = "cas"
      /\ \A q \in Requests : q # r => pc'[q] = pc[q]
  BY DEF TypeOK, Decide, Arrives, Goto
<1>3. /\ prior'[r] = row /\ doc'[r] = Decided(row, d, r) /\ row.status = "pending"
      /\ \A q \in Requests : q # r => doc'[q] = doc[q] /\ prior'[q] = prior[q]
  BY DEF TypeOK, Decide
<1>4. Decided(row, d, r).status = d
  BY DEF Decided
<1> QED
  BY <1>1, <1>2, <1>3, <1>4

\* Everything that is not a request leaves them alone.
LEMMA NotRequest ==
    ASSUME [Next]_vars, ~RequestNext
    PROVE  UNCHANGED <<pc, prior, doc>>
<1>1. CASE HandlerNext
  BY <1>1, HandlerCases DEF Handled, Take, TakeRaises, Quarantine,
     ReadSignal, ReadSignalRaises, FailOld, Claim, ClaimRaises, Build, Lodge, Post,
     Write, WriteRaises, Confirm, Swap, ConfirmRaises, Finish, FinishRaises, Outside,
     request
<1>2. CASE SweepProgress \/ SweepRaises \/ Age \/ NextDay \/ Crash \/ Restart
           \/ UNCHANGED vars
  BY <1>2 DEF SweepProgress, List, SkipInFlight, ReadRecords, MarkFailed, SweepRaises,
     Elsewhere, Age, NextDay, Crash, Restart, vars, request
<1> QED
  BY <1>1, <1>2 DEF Next

LEMMA AskedStep ==
    ASSUME TypeOK, AskedInv, [Next]_vars
    PROVE  AskedInv'
<1>1. CASE ~RequestNext
  BY <1>1, NotRequest DEF AskedInv
<1>2. ASSUME NEW r \in Requests, Clicked(r) PROVE AskedInv'
  BY <1>2, ClickedFrame, ClickedMoves DEF AskedInv
<1>3. ASSUME NEW r \in Requests, NEW d \in Decisions, Decide(r, d) PROVE AskedInv'
  BY <1>3, DecideMoves DEF AskedInv
<1> QED
  BY <1>1, <1>2, <1>3, RequestCases

\* A row that was claimed, or failed, is out of the requests' reach.
LEMMA RequestLeavesPlaced ==
    ASSUME TypeOK, AskedInv, RequestNext
    PROVE  /\ UNCHANGED <<lodged, orders, size, hpc, cmd, snap, spc, stale>>
           /\ row.status \in Placed => row' = row
           /\ row'.status \in Placed => row' = row \/ row.status = "pending"
<1>1. ASSUME NEW r \in Requests, Clicked(r)
      PROVE  /\ UNCHANGED <<lodged, orders, size, hpc, cmd, snap, spc, stale>>
             /\ row.status \in Placed => row' = row
             /\ row'.status \in Placed => row' = row \/ row.status = "pending"
  BY <1>1, ClickedFrame, ClickedWrites DEF AskedInv, Approved, Placed
<1>2. ASSUME NEW r \in Requests, NEW d \in Decisions, Decide(r, d)
      PROVE  UNCHANGED <<row, lodged, orders, size, hpc, cmd, snap, spc, stale>>
  BY <1>2, DecideMoves
<1> QED
  BY <1>1, <1>2, RequestCases

\* What the handler does to the signal, place by place.  Before its claim it
\* writes only over the approval it read; after it, whatever it likes.
LEMMA HandlerMoves ==
    ASSUME Typed, HandlerNext
    PROVE  /\ UNCHANGED <<pc, prior, doc, spc, stale, up, today>>
           /\ hpc' \in PastClaim =>
                 \/ hpc \in PastClaim
                 \/ /\ hpc = "claim" /\ row.status = snap.status /\ hpc' = "build"
                    /\ row' = Claimed(snap, cmd) /\ snap' = snap
           /\ hpc \notin PastClaim =>
                 \/ row' = row
                 \/ row.status \in Approved /\ row'.status \in Placed
           /\ hpc \notin {"send", "post"} => UNCHANGED <<lodged, orders, size>>
           /\ hpc' = "send" => hpc = "build"
           /\ hpc' = "build" => hpc = "claim"
           /\ hpc' = "post" => hpc = "send"
<1>1. hpc \in {"claim", "old"} => snap.status \in Approved
  BY DEF Typed, SnapApproved
<1> HIDE DEF Typed
<1> USE HandlerCases DEF Handled, PastClaim
<1>2. UNCHANGED <<pc, prior, doc, spc, stale, up, today>>
  BY DEF Take, TakeRaises, Quarantine, ReadSignal, ReadSignalRaises, FailOld, Claim,
     ClaimRaises, Build, Lodge, Post, Write, WriteRaises, Confirm, Swap, ConfirmRaises,
     Finish, FinishRaises, Outside, request, sweep, bounds
<1>3. hpc' \in PastClaim =>
         \/ hpc \in PastClaim
         \/ /\ hpc = "claim" /\ row.status = snap.status /\ hpc' = "build"
            /\ row' = Claimed(snap, cmd) /\ snap' = snap
  BY DEF Take, TakeRaises, Quarantine, ReadSignal, ReadSignalRaises, FailOld, Claim,
     ClaimRaises, Build, Lodge, Post, Write, WriteRaises, Confirm, Swap, ConfirmRaises,
     Finish, FinishRaises, To, Cas, handler
<1>4. hpc \notin PastClaim =>
         \/ row' = row
         \/ row.status \in Approved /\ row'.status \in Placed
  <2>1. Failed(snap).status \in Placed /\ Claimed(snap, cmd).status \in Placed
    BY DEF Failed, Claimed, Placed
  <2>2. CASE FailOld \/ Claim \/ ClaimRaises
    BY <1>1, <2>1, <2>2 DEF FailOld, Claim, ClaimRaises, Cas, Perhaps
  <2>3. CASE ~(FailOld \/ Claim \/ ClaimRaises)
    BY <2>3 DEF Take, TakeRaises, Quarantine, ReadSignal, ReadSignalRaises, Build,
       Lodge, Post, Write, WriteRaises, Confirm, Swap, ConfirmRaises, Finish,
       FinishRaises, Perhaps
  <2> QED
    BY <2>2, <2>3
<1>5. hpc \notin {"send", "post"} => UNCHANGED <<lodged, orders, size>>
  BY DEF Take, TakeRaises, Quarantine, ReadSignal, ReadSignalRaises, FailOld, Claim,
     ClaimRaises, Build, Lodge, Post, Write, WriteRaises, Confirm, Swap, ConfirmRaises,
     Finish, FinishRaises, broker
<1>6. /\ hpc' = "send" => hpc = "build"
      /\ hpc' = "build" => hpc = "claim"
      /\ hpc' = "post" => hpc = "send"
  BY DEF Take, TakeRaises, Quarantine, ReadSignal, ReadSignalRaises, FailOld, Claim,
     ClaimRaises, Build, Lodge, Post, Write, WriteRaises, Confirm, Swap, ConfirmRaises,
     Finish, FinishRaises, To, handler
<1> QED
  BY <1>2, <1>3, <1>4, <1>5, <1>6

\* The handler after its claim.
LEMMA PastMoves ==
    ASSUME HandlerNext, hpc \in PastClaim
    PROVE  \/ /\ hpc = "build" /\ hpc' \in {"send", "reset", "fail"}
              /\ row' = row /\ snap' = snap
           \/ /\ hpc = "send" /\ row' = row /\ snap' = snap /\ UNCHANGED <<orders, size>>
              /\ \/ lodged' = TRUE /\ hpc' \in {"post", "refused"}
                 \/ lodged' = lodged /\ hpc' \in {"reset", "refused", "failed"}
           \/ /\ hpc = "post" /\ row' = row /\ snap' = snap /\ lodged' = lodged
              /\ \/ /\ orders' = orders + 1 /\ size' = snap.status
                    /\ \/ hpc' \in {"confirm", "uncertain", "failed"}
                       \/ GatewayErrors /\ hpc' = "refused"
                 \/ UNCHANGED <<orders, size>> /\ hpc' \in {"refused", "uncertain"}
           \/ /\ hpc \in {"reset", "fail", "refused", "uncertain"} /\ hpc' = "failed"
              /\ row' = Outcome \/ row' = row
           \/ /\ hpc = "confirm" /\ row' = row
              /\ \/ hpc' = "swap" /\ snap' = row /\ row.status = "submitted"
                 \/ hpc' = "completed"
           \/ /\ hpc = "swap" /\ hpc' = "completed"
              /\ row' = row \/ row' = Keyed(snap)
BY HandlerCases DEF Handled, PastClaim, Take, TakeRaises, Quarantine, ReadSignal,
     ReadSignalRaises, FailOld, Claim, ClaimRaises, Build, Lodge, Post, Write,
     WriteRaises, Confirm, Swap, ConfirmRaises, Finish, FinishRaises, To, Cas,
     Perhaps, broker

\* The sweep and time.
LEMMA SweepMoves ==
    ASSUME SweepProgress \/ SweepRaises
    PROVE  /\ UNCHANGED <<pc, prior, doc, hpc, cmd, snap, lodged, orders, size, up, today>>
           /\ \/ row' = row
              \/ /\ spc = "fail" /\ spc' = "idle" /\ row.status = "submitted"
                 /\ row' = Failed(stale)
           /\ \/ spc' = "idle"
              \/ spc = "idle" /\ row.status = "submitted" /\ row.aged /\ spc' = "listed"
              \/ spc # "idle" /\ spc' = "records"
              \/ spc # "idle" /\ spc' = "fail" /\ ~lodged
BY DEF SweepProgress, List, SkipInFlight, ReadRecords, MarkFailed, SweepRaises, Leave,
       Cas, Perhaps, Elsewhere, request, handler, broker, bounds

LEMMA TimeMoves ==
    ASSUME Age \/ NextDay \/ Crash \/ Restart \/ UNCHANGED vars
    PROVE  /\ UNCHANGED <<pc, prior, doc, lodged, orders, size>>
           /\ row' = row \/ (Age /\ row.status = "submitted" /\ row'.status = "submitted")
           /\ \/ UNCHANGED <<hpc, cmd, snap, spc, stale>>
              \/ hpc' = "idle" /\ spc' = "idle" /\ row' = row
BY DEF Age, NextDay, Crash, Restart, vars, request, handler, sweep, broker, bounds,
       Elsewhere

Kept == Typed /\ AskedInv /\ ClaimInv /\ SentInv

LEMMA ClaimStep ==
    ASSUME Kept, [Next]_vars
    PROVE  ClaimInv'
<1> USE DEF Kept, Typed
<1>1. CASE RequestNext
  <2>1. /\ UNCHANGED <<lodged, hpc, snap>>
        /\ row.status \in Placed => row' = row
    BY <1>1, RequestLeavesPlaced
  <2> QED
    BY <2>1 DEF ClaimInv, PastClaim
<1>2. CASE HandlerNext /\ hpc \notin PastClaim
  <2>1. CASE hpc' \in PastClaim
    <3>1. /\ hpc = "claim" /\ row.status = snap.status /\ hpc' = "build"
          /\ row' = Claimed(snap, cmd) /\ lodged' = lodged
      BY <1>2, <2>1, HandlerMoves DEF PastClaim
    <3>2. row.status \in Approved /\ row'.status \in Placed
      <4>1. Claimed(snap, cmd).status \in Placed
        BY DEF Claimed, Placed
      <4> QED
        BY <3>1, <4>1 DEF SnapApproved
    <3>3. ~lodged
      BY <3>2 DEF ClaimInv, Approved, Placed
    <3> QED
      BY <3>1, <3>2, <3>3 DEF ClaimInv
  <2>2. CASE hpc' \notin PastClaim
    <3>1. /\ lodged' = lodged
          /\ row' = row \/ row'.status \in Placed
      BY <1>2, HandlerMoves DEF PastClaim
    <3> QED
      BY <2>2, <3>1 DEF ClaimInv, PastClaim
  <2> QED
    BY <2>1, <2>2
<1>3. CASE HandlerNext /\ hpc \in PastClaim
  <2>1. row.status \in Placed
    BY <1>3 DEF ClaimInv
  <2>2. lodged' = lodged \/ hpc = "send"
    BY <1>3, HandlerMoves, PastMoves
  <2>3. row'.status \in Placed \/ (hpc = "reset" /\ hpc' = "failed")
    <3>1. hpc \in {"fail", "refused", "uncertain"} => Outcome.status \in Placed
      BY <2>1, Outcomes DEF Failed, Keyed, WithStatus, Placed
    <3>2. hpc = "swap" => Keyed(snap).status \in Placed
      BY DEF ClaimInv, Keyed, Placed
    <3> QED
      BY <1>3, <2>1, <3>1, <3>2, PastMoves
  <2>4. hpc' \in {"build", "send", "reset", "fail"} => ~lodged'
    BY <1>3, PastMoves, HandlerMoves DEF ClaimInv
  <2>5. hpc' = "swap" => snap'.status = "submitted"
    BY <1>3, PastMoves
  <2>6. hpc = "reset" /\ hpc' = "failed" => ~lodged'
    BY <1>3, PastMoves, HandlerMoves DEF ClaimInv
  <2> QED
    BY <1>3, <2>1, <2>3, <2>4, <2>5, <2>6 DEF ClaimInv, PastClaim
<1>4. CASE SweepProgress \/ SweepRaises
  <2>1. UNCHANGED <<hpc, snap, lodged>> /\ (row' = row \/ row' = Failed(stale))
    BY <1>4, SweepMoves
  <2>2. Failed(stale).status \in Placed
    BY DEF Failed, Placed
  <2> QED
    BY <2>1, <2>2 DEF ClaimInv
<1>5. CASE Age \/ NextDay \/ Crash \/ Restart \/ UNCHANGED vars
  BY <1>5, TimeMoves DEF ClaimInv, PastClaim, Placed
<1> QED
  BY <1>1, <1>2, <1>3, <1>4, <1>5 DEF Next

LEMMA SentStep ==
    ASSUME Kept, [Next]_vars
    PROVE  SentInv'
<1> USE DEF Kept, Typed
<1>0. orders \in Nat
  BY DEF TypeOK
<1>1. CASE RequestNext
  BY <1>1, RequestLeavesPlaced DEF SentInv
<1>2. CASE HandlerNext /\ hpc \notin PastClaim
  BY <1>2, HandlerMoves DEF SentInv, PastClaim
<1>3. CASE HandlerNext /\ hpc \in PastClaim
  <2>1. CASE hpc = "send"
    <3>1. ~lodged /\ orders = 0
      BY <1>0, <2>1 DEF ClaimInv, SentInv
    <3> QED
      BY <1>3, <2>1, <3>1, PastMoves DEF SentInv
  <2>2. CASE hpc = "post"
    BY <1>3, <2>2, PastMoves DEF SentInv
  <2>3. CASE hpc \notin {"send", "post"}
    BY <1>3, <2>3, HandlerMoves DEF SentInv
  <2> QED
    BY <2>1, <2>2, <2>3
<1>4. CASE SweepProgress \/ SweepRaises
  BY <1>4, SweepMoves DEF SentInv
<1>5. CASE Age \/ NextDay \/ Crash \/ Restart \/ UNCHANGED vars
  BY <1>5, TimeMoves DEF SentInv
<1> QED
  BY <1>1, <1>2, <1>3, <1>4, <1>5 DEF Next

LEMMA KeptInit == Init => Kept
<1> SUFFICES ASSUME Init PROVE Kept
  OBVIOUS
<1>1. Typed
  BY TypeInit DEF Typed, SnapApproved, Init
<1>2. AskedInv
  BY DEF AskedInv, Init, Fresh
<1>3. ClaimInv /\ SentInv
  BY DEF ClaimInv, SentInv, PastClaim, Init
<1> QED
  BY <1>1, <1>2, <1>3 DEF Kept

LEMMA KeptStep == Kept /\ [Next]_vars => Kept'
BY TypedStep, AskedStep, ClaimStep, SentStep DEF Kept, Typed

\* Double clicks, re-sends, retries, reverts, lost answers and restarts, in
\* any number and order: the broker gets at most one order for the signal.
THEOREM OneOrder == Spec => []AtMostOneOrder
<1>1. Kept => AtMostOneOrder
  BY DEF Kept, SentInv, AtMostOneOrder
<1> QED
  BY KeptInit, KeptStep, <1>1, PTL DEF Spec

\* Once a record of the order exists the signal stays placed: nobody makes it
\* decidable, re-sendable or claimable again.
THEOREM SentIsSettled == Spec => []SettledOnceSent
<1>1. Kept => SettledOnceSent
  BY DEF Kept, ClaimInv, SettledOnceSent
<1> QED
  BY KeptInit, KeptStep, <1>1, PTL DEF Spec

\* While a handler is prompt and a refusal is one, the sweep never gives up on
\* a claim that a handler works at.
LEMMA ApartStep ==
    ASSUME PromptHandlers, ~GatewayErrors, Kept, ApartInv, [Next]_vars
    PROVE  ApartInv'
<1> USE DEF Kept, Typed
<1>0. /\ orders \in Nat
      /\ row.status \notin Placed => orders = 0
      /\ ~lodged => orders = 0
  BY DEF TypeOK, ClaimInv, SentInv
<1>1. CASE RequestNext
  <2>1. /\ UNCHANGED <<lodged, orders, hpc, spc>>
        /\ row.status \in Placed => row' = row
        /\ row'.status \in Placed => row' = row \/ row.status = "pending"
    BY <1>1, RequestLeavesPlaced
  <2>2. FailedHasNoOrder'
    BY <1>0, <2>1 DEF ApartInv, FailedHasNoOrder, Placed
  <2> QED
    BY <2>1, <2>2 DEF ApartInv, Placed
<1>2. CASE HandlerNext /\ hpc \notin PastClaim
  <2>1. /\ UNCHANGED <<lodged, orders, spc>>
        /\ row' = row \/ (row.status \in Approved /\ row'.status \in Placed)
    BY <1>2, HandlerMoves DEF PastClaim
  <2>2. FailedHasNoOrder'
    BY <1>0, <2>1 DEF ApartInv, FailedHasNoOrder, Approved, Placed
  <2>3. hpc' \in PastClaim =>
           /\ row'.status = "submitted" /\ row'.aged = FALSE
           /\ hpc' = "build"
    <3>1. Claimed(snap, cmd).status = "submitted" /\ Claimed(snap, cmd).aged = FALSE
      BY DEF Claimed
    <3> QED
      BY <1>2, <3>1, HandlerMoves
  <2>4. row' = row \/ spc = "idle"
    BY <2>1 DEF ApartInv, Approved
  <2> QED
    BY <2>1, <2>2, <2>3, <2>4 DEF ApartInv, PastClaim
<1>3. CASE HandlerNext /\ hpc \in PastClaim
  <2>1. spc' = "idle"
    BY <1>3, HandlerMoves DEF ApartInv
  <2>2. hpc' \in PastClaim => row' = row
    BY <1>3, PastMoves DEF PastClaim
  <2>3. hpc' = "refused" => orders' = 0
    BY <1>0, <1>3, PastMoves DEF ClaimInv, SentInv, PastClaim
  <2>4. FailedHasNoOrder'
    <3>1. row.status = "submitted"
      BY <1>3 DEF ApartInv
    <3>2. CASE row' = row
      BY <3>1, <3>2 DEF FailedHasNoOrder
    <3>3. CASE hpc = "swap" /\ row' = Keyed(snap)
      BY <3>3 DEF FailedHasNoOrder, ClaimInv, Keyed
    <3>4. CASE hpc \in {"reset", "fail", "refused", "uncertain"} /\ row' = Outcome
      <4>1. orders' = orders
        BY <1>3, <3>4, HandlerMoves
      <4>2. hpc \in {"fail", "refused"} => orders = 0
        BY <1>0 DEF ClaimInv, ApartInv
      <4>3. hpc \in {"reset", "uncertain"} => Outcome.status # "failed"
        BY <3>1, Outcomes DEF Undecided, Keyed
      <4> QED
        BY <3>4, <4>1, <4>2, <4>3 DEF FailedHasNoOrder
    <3> QED
      BY <1>3, <3>2, <3>3, <3>4, PastMoves
  <2> QED
    BY <1>3, <2>1, <2>2, <2>3, <2>4 DEF ApartInv
<1>4. CASE SweepProgress \/ SweepRaises
  <2>1. row.aged = TRUE \/ row.aged = FALSE
    BY RowFields DEF TypeOK
  <2>2. FailedHasNoOrder'
    <3>1. row' = row \/ orders = 0
      BY <1>0, <1>4, SweepMoves DEF ApartInv
    <3> QED
      BY <1>4, <3>1, SweepMoves DEF ApartInv, FailedHasNoOrder
  <2>3. hpc' \in PastClaim => row' = row
    BY <1>4, SweepMoves DEF ApartInv
  <2>4. spc' # "idle" => row' = row /\ row.status = "submitted" /\ row.aged = TRUE
    BY <1>4, <2>1, SweepMoves DEF ApartInv
  <2>5. spc' = "fail" => ~lodged'
    BY <1>4, SweepMoves
  <2> QED
    BY <1>4, <2>2, <2>3, <2>4, <2>5, SweepMoves DEF ApartInv
<1>5. CASE Age
  <2>1. UNCHANGED <<hpc, spc, lodged, orders>> /\ row'.status = row.status
    BY <1>5 DEF Age, Elsewhere, handler, sweep, broker
  <2>2. row'.aged = TRUE /\ row.status = "submitted"
    BY <1>5 DEF Age
  <2>3. hpc \notin PastClaim
    BY <1>5 DEF Age, InFlight, PastClaim
  <2> QED
    BY <2>1, <2>2, <2>3 DEF ApartInv, FailedHasNoOrder, PastClaim
<1>6. CASE NextDay \/ Crash \/ Restart \/ UNCHANGED vars
  <2>1. row' = row
    BY <1>6 DEF NextDay, Crash, Restart, vars
  <2> QED
    BY <1>6, <2>1, TimeMoves DEF ApartInv, FailedHasNoOrder, PastClaim
<1> QED
  BY <1>1, <1>2, <1>3, <1>4, <1>5, <1>6 DEF Next

\* A signal the operator sees as failed has no order at the broker, if a
\* handler is done within the sweep's ten minutes and a refusal is one.
THEOREM NeverFailedWithOrder ==
    ASSUME PromptHandlers, ~GatewayErrors
    PROVE  Spec => []FailedHasNoOrder
<1>1. Init => Kept /\ ApartInv
  BY KeptInit DEF Init, ApartInv, PastClaim, FailedHasNoOrder, Fresh
<1>2. Kept /\ ApartInv /\ [Next]_vars => (Kept /\ ApartInv)'
  BY KeptStep, ApartStep
<1>3. Kept /\ ApartInv => FailedHasNoOrder
  BY DEF ApartInv
<1> QED
  BY <1>1, <1>2, <1>3, PTL DEF Spec

\* A request stays behind an approval until it takes the approval back.
LEMMA BehindKept ==
    ASSUME TypeOK, AskedInv, [Next]_vars, NEW s \in Approved, NEW r \in Requests,
           Behind(r, s)
    PROVE  \/ Behind(r, s)'
           \/ /\ row.status = s /\ row'.status = "pending"
              /\ row.status \in Approved
<1>1. CASE ~RequestNext
  BY <1>1, NotRequest DEF Behind
<1>2. ASSUME NEW q \in Requests, NEW d \in Decisions, Decide(q, d)
      PROVE  Behind(r, s)'
  BY <1>2, DecideMoves DEF Behind
<1>3. ASSUME NEW q \in Requests, Clicked(q), q # r PROVE Behind(r, s)'
  BY <1>3, ClickedFrame DEF Behind
<1>4. CASE Clicked(r)
  <2>1. doc' = doc /\ prior' = prior
    BY <1>4, ClickedFrame
  <2>2. pc[r] \notin {"idle", "cas", "open", "conflict", "unavailable"}
    BY DEF Behind, AskedInv, Approved
  <2>3. CASE pc[r] = "revert" /\ Cas(doc[r].status, prior[r])
    BY <2>3 DEF Behind, AskedInv, Cas
  <2>4. CASE ~(pc[r] = "revert" /\ Cas(doc[r].status, prior[r]))
    BY <1>4, <2>1, <2>2, <2>4, ClickedMoves DEF Behind
  <2> QED
    BY <2>3, <2>4
<1> QED
  BY <1>1, <1>2, <1>3, <1>4, RequestCases

\* An approval appears in the row only by the request that decided it.
LEMMA ApprovedBy ==
    ASSUME Kept, [Next]_vars, row'.status \in Approved
    PROVE  \/ row' = row
           \/ \E r \in Requests : Behind(r, row.status)'
<1> USE DEF Kept, Typed
<1>1. ASSUME NEW r \in Requests, Clicked(r)
      PROVE  \/ row' = row
             \/ Behind(r, row.status)'
  <2>1. CASE pc[r] = "cas" /\ row' = doc[r] /\ pc'[r] \in {"insert", "ok", "error"}
    BY <1>1, <2>1, ClickedFrame DEF Behind
  <2>2. CASE pc[r] = "revert" /\ row' = prior[r]
    BY <2>2 DEF AskedInv, Approved
  <2> QED
    BY <1>1, <2>1, <2>2, ClickedWrites
<1>2. ASSUME NEW r \in Requests, NEW d \in Decisions, Decide(r, d) PROVE row' = row
  BY <1>2, DecideMoves
<1>3. CASE HandlerNext /\ hpc \notin PastClaim
  BY <1>3, HandlerMoves DEF Approved, Placed
<1>4. CASE HandlerNext /\ hpc \in PastClaim
  <2>1. row.status \in Placed
    BY <1>4 DEF ClaimInv
  <2>2. hpc \in {"reset", "fail", "refused", "uncertain"} => Outcome.status \notin Approved
    BY <2>1, Outcomes DEF Undecided, Failed, Keyed, WithStatus, Placed, Approved
  <2>3. hpc = "swap" => Keyed(snap).status \notin Approved
    BY DEF ClaimInv, Keyed, Approved
  <2> QED
    BY <1>4, <2>2, <2>3, PastMoves
<1>5. CASE SweepProgress \/ SweepRaises
  BY <1>5, SweepMoves DEF Failed, Approved
<1>6. CASE Age \/ NextDay \/ Crash \/ Restart \/ UNCHANGED vars
  BY <1>6, TimeMoves DEF Approved
<1> QED
  BY <1>1, <1>2, <1>3, <1>4, <1>5, <1>6, RequestCases DEF Next

LEMMA BehindStep ==
    ASSUME Kept, BehindInv, [Next]_vars
    PROVE  BehindInv'
<1> USE DEF Kept, Typed
<1>1. ASSUME row'.status \in Approved
      PROVE  \E r \in Requests : Behind(r, row.status)'
  <2>1. CASE row' = row
    <3>1. PICK r \in Requests : Behind(r, row.status)
      BY <1>1, <2>1 DEF BehindInv
    <3>2. Behind(r, row.status)' \/ row'.status = "pending"
      BY <1>1, <2>1, <3>1, BehindKept
    <3> QED
      BY <1>1, <3>2 DEF Approved
  <2>2. CASE row' # row
    BY <1>1, <2>2, ApprovedBy
  <2> QED
    BY <2>1, <2>2
\* A request that is behind what the handler sends cannot back out of it.
<1>2. ASSUME NEW s \in Approved, NEW r \in Requests, Behind(r, s),
             row.status \in Placed
      PROVE  Behind(r, s)'
  BY <1>2, BehindKept DEF Approved, Placed
<1>3. ASSUME hpc' \in {"build", "send", "post"}
      PROVE  \E r \in Requests : Behind(r, snap.status)'
  <2>1. CASE hpc \in {"build", "send", "post"} /\ snap' = snap
    <3>1. PICK r \in Requests : Behind(r, snap.status)
      BY <2>1 DEF BehindInv
    <3>2. snap.status \in Approved /\ row.status \in Placed
      BY <2>1 DEF SnapApproved, ClaimInv, PastClaim
    <3>3. \A s : s = snap.status => Behind(r, s)'
      BY <1>2, <3>1, <3>2
    <3>4. doc'[r].status = snap.status
          /\ pc'[r] \notin {"idle", "cas", "conflict", "unavailable"}
      BY <3>3 DEF Behind
    <3> QED
      BY <2>1, <3>4 DEF Behind
  <2>2. CASE hpc = "claim" /\ HandlerNext /\ hpc' = "build"
    <3>1. row.status = snap.status /\ snap' = snap /\ UNCHANGED <<pc, doc>>
      BY <2>2, HandlerMoves DEF PastClaim
    <3>2. snap.status \in Approved
      BY <2>2 DEF SnapApproved
    <3> QED
      BY <3>1, <3>2 DEF BehindInv, Behind
  <2>3. CASE RequestNext
    BY <1>3, <2>1, <2>3, RequestLeavesPlaced
  <2>4. CASE HandlerNext
    <3>1. hpc' = "build" => hpc = "claim"
      BY <2>4, HandlerMoves
    <3>2. hpc' \in {"send", "post"} => hpc \in {"build", "send"}
      BY <2>4, HandlerMoves
    <3>3. hpc' \in {"send", "post"} => snap' = snap
      BY <2>4, <3>2, PastMoves DEF PastClaim
    <3> QED
      BY <1>3, <2>1, <2>2, <2>4, <3>1, <3>2, <3>3
  <2>5. CASE SweepProgress \/ SweepRaises
    BY <1>3, <2>1, <2>5, SweepMoves
  <2>6. CASE Age \/ NextDay \/ Crash \/ Restart \/ UNCHANGED vars
    BY <1>3, <2>1, <2>6, TimeMoves
  <2> QED
    BY <2>3, <2>4, <2>5, <2>6 DEF Next
<1>4. ASSUME orders' > 0
      PROVE  \E r \in Requests : Behind(r, size)'
  <2>1. CASE UNCHANGED <<orders, size>>
    <3>1. PICK r \in Requests : Behind(r, size)
      BY <1>4, <2>1 DEF BehindInv
    <3>2. row.status \in Placed
      BY <1>4, <2>1 DEF SentInv, ClaimInv
    <3>3. size \in Approved
      <4>1. doc[r].status \in Statuses
        BY RowFields DEF TypeOK
      <4> QED
        BY <3>1, <4>1 DEF Behind, TypeOK, Statuses, Approved, Placed
    <3>4. \A s : s = size => Behind(r, s)'
      BY <1>2, <3>1, <3>2, <3>3
    <3>5. doc'[r].status = size
          /\ pc'[r] \notin {"idle", "cas", "conflict", "unavailable"}
      BY <3>4 DEF Behind
    <3> QED
      BY <2>1, <3>5 DEF Behind
  <2>2. CASE HandlerNext /\ hpc = "post" /\ size' = snap.status
    <3>1. PICK r \in Requests : Behind(r, snap.status)
      BY <2>2 DEF BehindInv
    <3>2. UNCHANGED <<pc, doc>>
      BY <2>2, HandlerMoves
    <3> QED
      BY <2>2, <3>1, <3>2 DEF Behind
  <2>3. CASE RequestNext
    BY <2>1, <2>3, RequestLeavesPlaced
  <2>4. CASE HandlerNext
    BY <2>1, <2>2, <2>4, HandlerMoves, PastMoves DEF PastClaim
  <2>5. CASE SweepProgress \/ SweepRaises
    BY <2>1, <2>5, SweepMoves
  <2>6. CASE Age \/ NextDay \/ Crash \/ Restart \/ UNCHANGED vars
    BY <2>1, <2>6, TimeMoves
  <2> QED
    BY <2>3, <2>4, <2>5, <2>6 DEF Next
<1> QED
  BY <1>1, <1>3, <1>4 DEF BehindInv

\* The order has the size of an approval that a request made and was not told
\* was taken back, although requests revert by status alone.
THEOREM AsApproved == Spec => []PlacedAsApproved
<1>1. Init => Kept /\ BehindInv
  BY KeptInit DEF Init, BehindInv, Fresh, Approved
<1>2. Kept /\ BehindInv /\ [Next]_vars => (Kept /\ BehindInv)'
  BY KeptStep, BehindStep
<1>3. Kept /\ BehindInv => PlacedAsApproved
  BY DEF BehindInv, Behind, PlacedAsApproved
<1> QED
  BY <1>1, <1>2, <1>3, PTL DEF Spec

-----------------------------------------------------------------------------
(***************************************************************************)
(* The life of the signal: SwingApproval implements SignalLife.              *)
(***************************************************************************)
\* What a request is about to commit is a decision.
DecidedInv == \A r \in Requests :
    pc[r] = "cas" => doc[r].status \in Approved \cup {"rejected"}

LEMMA DecidedStep ==
    ASSUME TypeOK, DecidedInv, [Next]_vars
    PROVE  DecidedInv'
<1>1. CASE ~RequestNext
  BY <1>1, NotRequest DEF DecidedInv
<1>2. ASSUME NEW r \in Requests, Clicked(r) PROVE DecidedInv'
  BY <1>2, ClickedFrame, ClickedMoves DEF DecidedInv
<1>3. ASSUME NEW r \in Requests, NEW d \in Decisions, Decide(r, d) PROVE DecidedInv'
  <2>1. d \in Approved \cup {"rejected"}
    BY <1>3, SwingAssumption DEF Decide
  <2> QED
    BY <1>3, <2>1, DecideMoves DEF DecidedInv
<1> QED
  BY <1>1, <1>2, <1>3, RequestCases

LEMMA SwapWrites ==
    ASSUME HandlerNext, hpc = "swap"
    PROVE  row' = row \/ (row.status = "submitted" /\ row' = Keyed(snap))
BY HandlerCases DEF Handled, Take, TakeRaises, Quarantine, ReadSignal, ReadSignalRaises,
   FailOld, Claim, ClaimRaises, Build, Lodge, Post, Write, WriteRaises, Confirm, Swap,
   ConfirmRaises, Finish, FinishRaises, To, Cas, Perhaps

Sure == PromptHandlers /\ ~GatewayErrors

\* A step of the signal's life, in terms of its row.
LivesOn ==
    \/ row'.status = row.status /\ UNCHANGED <<lodged, orders>>
    \/ Life!Next

LEMMA Lives ==
    ASSUME LivesOn
    PROVE  [Life!Next]_(Life!life)
BY DEF LivesOn, Life!life

LEMMA RequestLives ==
    ASSUME Kept, DecidedInv, RequestNext
    PROVE  LivesOn
<1> USE DEF Kept, Typed
<1>1. ASSUME NEW r \in Requests, Clicked(r)
      PROVE  LivesOn
  <2>1. UNCHANGED <<lodged, orders>>
    BY <1>1, ClickedFrame
  <2>2. CASE row' = row
    BY <2>1, <2>2 DEF LivesOn
  <2>3. CASE pc[r] = "cas" /\ row.status = "pending" /\ row' = doc[r]
    <3>1. row'.status \in Approved \cup {"rejected"}
      BY <2>3 DEF DecidedInv
    <3>2. Life!Decide
      BY <2>1, <2>3, <3>1 DEF Life!Decide, Life!Becomes, Life!Approved, Approved
    <3> QED
      BY <3>2 DEF LivesOn, Life!Next
  <2>4. CASE pc[r] = "revert" /\ row.status = doc[r].status /\ row' = prior[r]
    <3>1. row.status \in Approved /\ row'.status = "pending"
      BY <2>4 DEF AskedInv
    <3>2. Life!TakeBack
      BY <2>1, <3>1 DEF Life!TakeBack, Life!Becomes, Life!Approved, Approved
    <3> QED
      BY <3>2 DEF LivesOn, Life!Next
  <2> QED
    BY <1>1, <2>2, <2>3, <2>4, ClickedWrites
<1>2. ASSUME NEW r \in Requests, NEW d \in Decisions, Decide(r, d)
      PROVE  LivesOn
  BY <1>2, DecideMoves DEF LivesOn
<1> QED
  BY <1>1, <1>2, RequestCases

LEMMA ClaimLives ==
    ASSUME Kept, HandlerNext, hpc \notin PastClaim
    PROVE  LivesOn
<1>1. UNCHANGED <<lodged, orders>>
  BY HandlerMoves DEF Kept, PastClaim
<1>2. CASE row' = row
  BY <1>1, <1>2 DEF LivesOn
<1>3. CASE row.status \in Approved /\ row'.status \in Placed
  <2>1. Life!Expire \/ Life!Claim
    BY <1>1, <1>3 DEF Life!Expire, Life!Claim, Life!Becomes, Life!Approved, Approved, Placed
  <2> QED
    BY <2>1 DEF LivesOn, Life!Next
<1> QED
  BY <1>2, <1>3, HandlerMoves DEF Kept

\* A handler past its claim has the signal in hand, and fails what was not sent.
LEMMA HandlerLives ==
    ASSUME Kept, Sure => ApartInv, HandlerNext, hpc \in PastClaim
    PROVE  LivesOn
<1>1. Life!InHand /\ row.status \in Placed
  BY DEF Kept, ClaimInv, ApartInv, Sure, Placed, Life!InHand
<1>2. /\ orders \in Nat
      /\ ~lodged => orders = 0
      /\ hpc \in {"send", "reset", "fail"} => ~lodged
      /\ hpc = "post" => lodged /\ orders = 0
      /\ Sure /\ hpc = "refused" => orders = 0
  BY DEF Kept, Typed, TypeOK, ClaimInv, SentInv, ApartInv
<1>3. ASSUME hpc # "reset", UNCHANGED <<lodged, orders>>, row'.status \in {row.status, "failed"},
             Sure => orders = 0 \/ row'.status = row.status
      PROVE  LivesOn
  <2>1. CASE row'.status = row.status
    BY <1>3, <2>1 DEF LivesOn
  <2>2. CASE row'.status # row.status
    <3>1. row.status = "submitted" /\ row'.status = "failed"
      BY <1>1, <1>3, <2>2 DEF Placed
    <3>2. Life!Fail
      BY <1>3, <3>1 DEF Life!Fail, Life!Becomes, Sure
    <3> QED
      BY <3>2 DEF LivesOn, Life!Next
  <2> QED
    BY <2>1, <2>2
<1>4. CASE hpc = "send"
  <2>1. row' = row /\ orders' = orders /\ (lodged' = TRUE \/ lodged' = lodged)
    BY <1>4, PastMoves
  <2>2. lodged' = TRUE => Life!Record
    BY <1>1, <1>2, <1>4, <2>1 DEF Life!Record
  <2>3. lodged' = lodged => LivesOn
    BY <2>1 DEF LivesOn
  <2> QED
    BY <2>1, <2>2, <2>3 DEF LivesOn, Life!Next
<1>5. CASE hpc = "post"
  <2>1. row' = row /\ lodged' = lodged /\ (orders' = orders + 1 \/ orders' = orders)
    BY <1>5, PastMoves
  <2>2. orders' = orders + 1 => Life!Send
    BY <1>1, <1>2, <1>5, <2>1 DEF Life!Send
  <2>3. orders' = orders => LivesOn
    BY <2>1 DEF LivesOn
  <2> QED
    BY <2>1, <2>2, <2>3 DEF LivesOn, Life!Next
<1>6. CASE hpc \notin {"send", "post"}
  <2>1. UNCHANGED <<lodged, orders>>
    BY <1>6, HandlerMoves DEF Kept
  <2>2. CASE row' = row
    BY <2>1, <2>2 DEF LivesOn
  <2>3. CASE hpc = "reset" /\ row' = Outcome
    <3>1. row'.status = "pending"
      BY <2>3, Outcomes, Stamped DEF Undecided
    <3>2. Life!Reopen
      BY <1>1, <1>2, <2>1, <2>3, <3>1 DEF Life!Reopen, Life!Becomes
    <3> QED
      BY <3>2 DEF LivesOn, Life!Next
  <2>4. CASE hpc \in {"fail", "refused"} /\ row' = Outcome
    <3>1. row'.status = "failed"
      BY <2>4, Outcomes DEF Failed, Keyed, WithStatus
    <3> QED
      BY <1>2, <1>3, <2>1, <2>4, <3>1
  <2>5. CASE hpc = "uncertain" /\ row' = Outcome
    <3>1. row'.status = row.status
      BY <2>5, Outcomes DEF Keyed
    <3> QED
      BY <2>1, <3>1 DEF LivesOn
  <2>6. CASE hpc = "swap" /\ row' # row
    <3>1. row.status = "submitted" /\ row' = Keyed(snap) /\ snap.status = "submitted"
      BY <2>6, SwapWrites DEF Kept, ClaimInv
    <3>2. row'.status = row.status
      BY <3>1 DEF Keyed
    <3> QED
      BY <2>1, <3>2 DEF LivesOn
  <2> QED
    BY <1>6, <2>2, <2>3, <2>4, <2>5, <2>6, PastMoves
<1> QED
  BY <1>4, <1>5, <1>6

LEMMA LifeStep ==
    ASSUME Kept, DecidedInv, Sure => ApartInv, [Next]_vars
    PROVE  [Life!Next]_(Life!life)
<1>1. CASE RequestNext
  BY <1>1, RequestLives, Lives
<1>2. CASE HandlerNext
  BY <1>2, ClaimLives, HandlerLives, Lives
<1>3. CASE SweepProgress \/ SweepRaises
  <2>1. UNCHANGED <<lodged, orders>>
    BY <1>3, SweepMoves
  <2>2. CASE row' = row
    BY <2>1, <2>2, Lives DEF LivesOn
  <2>3. CASE spc = "fail" /\ row.status = "submitted" /\ row' = Failed(stale)
    <3>1. row'.status = "failed"
      BY <2>3 DEF Failed
    <3>2. Sure => orders = 0
      BY <2>3 DEF Kept, Typed, TypeOK, SentInv, ApartInv
    <3>3. Life!Fail
      BY <2>1, <2>3, <3>1, <3>2 DEF Life!Fail, Life!Becomes, Sure
    <3> QED
      BY <3>3 DEF Life!Next
  <2> QED
    BY <1>3, <2>2, <2>3, SweepMoves
<1>4. CASE Age \/ NextDay \/ Crash \/ Restart \/ UNCHANGED vars
  <2>1. UNCHANGED <<lodged, orders>> /\ row'.status = row.status
    BY <1>4, TimeMoves
  <2> QED
    BY <2>1, Lives DEF LivesOn
<1> QED
  BY <1>1, <1>2, <1>3, <1>4 DEF Next

(***************************************************************************)
(* SwingApproval implements SignalLife, with any number of clicks, failed   *)
(* calls and restarts: a rejection is the end of the signal, an approval is *)
(* claimed before anything is sent, and what was recorded is never reopened.*)
(* Where handlers are prompt and refusals are refusals, a signal that was   *)
(* sent stays submitted and one that failed stays failed.                   *)
(***************************************************************************)
THEOREM ImplementsSignalLife == Spec => HasOneLife
<1>1. Init => Kept /\ DecidedInv /\ ApartInv /\ Life!Init
  BY KeptInit
     DEF Init, DecidedInv, ApartInv, PastClaim, FailedHasNoOrder, Fresh, Life!Init
<1>2. Kept /\ DecidedInv /\ [Next]_vars => Kept' /\ DecidedInv'
  BY KeptStep, DecidedStep DEF Kept, Typed
<1>3. Kept /\ (Sure => ApartInv) /\ [Next]_vars => (Sure => ApartInv')
  BY ApartStep DEF Sure
<1>4. Kept /\ DecidedInv /\ (Sure => ApartInv) /\ [Next]_vars
         => [Life!Next]_(Life!life)
  BY LifeStep
<1>5. (Sure => ApartInv)' <=> (Sure => ApartInv')
  BY DEF Sure
<1> QED
  BY <1>1, <1>2, <1>3, <1>4, <1>5, PTL DEF Spec, HasOneLife, Life!Spec
=============================================================================
