--------------------------- MODULE OrderLifecycle ---------------------------
(***************************************************************************)
(* The vocabulary of the durable order lifecycle (live_orders/types.py,     *)
(* store.py, service.py): what a lifecycle row holds, which event may       *)
(* follow which, and the verdict that the service and the store reach on    *)
(* one event.  Everything here is a pure operator: LiveOrders.tla runs it    *)
(* concurrently, LiveOrdersProofs.tla proves about it.                      *)
(*                                                                         *)
(* Quantities are whole shares, prices and fees are left out (an Alpaca     *)
(* equity order carries none), and a row keeps the set of event ids it has  *)
(* seen instead of the events: an id is a hash of the fields that identify  *)
(* the event, here the pair <<state, number>>.                              *)
(***************************************************************************)
EXTENDS Integers

CONSTANT
    Qty             \* the quantity of the order intent, in shares

ASSUME QtyAssumption == Qty \in Nat \ {0}

Units == 1..Qty

EarlyStates    == {"intent", "submitting", "unknown"}
WorkingStates  == {"acknowledged", "partial"}
TerminalStates == {"filled", "canceled", "rejected", "expired"}
LiveStates     == EarlyStates \cup WorkingStates
States         == LiveStates \cup TerminalStates

(***************************************************************************)
(* A row: "none" is the state of a row that does not exist.  bid says       *)
(* whether the row knows the broker's own order id.                         *)
(***************************************************************************)
EventIds == States \X Nat

Records == [state: States \cup {"none"}, version: Nat, cum: 0..Qty,
            bid: BOOLEAN, ids: SUBSET EventIds]

NoRecord == [state |-> "none", version |-> 0, cum |-> 0, bid |-> FALSE,
             ids |-> {}]

IntentRecord == [NoRecord EXCEPT !.state = "intent"]

(***************************************************************************)
(* The transition table of the store.                                       *)
(***************************************************************************)
\* (Mutations: a terminal row may be followed by anything, an acknowledged
\* order cannot be canceled.)
FollowsAny(from) == IF from = "none" THEN {} ELSE States \ {"intent"}
FollowsNoCancel(from) ==
    IF from \in WorkingStates THEN {"partial", "filled", "rejected", "expired"}
    ELSE IF from \in EarlyStates THEN States \ {"intent"} ELSE {}

Follows(from) ==
    CASE from = "intent"       -> States \ {"intent"}
      [] from = "submitting"   -> States \ {"intent"}
      [] from = "unknown"      -> States \ {"intent"}
      [] from = "acknowledged" -> WorkingStates \cup TerminalStates
      [] from = "partial"      -> {"partial"} \cup TerminalStates
      [] OTHER                 -> {}

(***************************************************************************)
(* store.append.  An event whose id the row has already seen is a           *)
(* duplicate, decided before the version is looked at; then the expected    *)
(* version must be the row's (the compare-and-swap of the backend), and the *)
(* transition must be legal: a terminal row is followed by nothing.         *)
(***************************************************************************)
Seen(r, id) == id \in r.ids

\* (Mutation: the version is not compared.)
AppendableAnyVersion(r, id, expected, state) ==
    ~Seen(r, id) /\ state \in Follows(r.state)

Appendable(r, id, expected, state) ==
    /\ ~Seen(r, id)
    /\ r.version = expected
    /\ state \in Follows(r.state)

\* (Mutation: a cumulative quantity taken for an increment.)
AppendedIncrement(r, id, state, cum, bid) ==
    [state |-> state, version |-> r.version + 1, cum |-> r.cum + cum,
     bid |-> r.bid \/ bid, ids |-> r.ids \cup {id}]

Appended(r, id, state, cum, bid) ==
    [state |-> state, version |-> r.version + 1, cum |-> cum,
     bid |-> r.bid \/ bid, ids |-> r.ids \cup {id}]

(***************************************************************************)
(* service.apply_broker_event, before it touches the store: a row that is   *)
(* terminal, or that already counts more, ignores the event, and a fill     *)
(* event must bring new shares.                                             *)
(***************************************************************************)
Relevant(r, state, cum) ==
    /\ r.state \notin TerminalStates
    /\ cum >= r.cum
    /\ state \in {"partial", "filled"} => cum > r.cum

(***************************************************************************)
(* service._live_identity: a row that ended without a share is spent, and   *)
(* the decision moves on to the next retry ordinal.                         *)
(***************************************************************************)
\* (Mutation: an unknown outcome counts as none.)
SpentUnknown(r) ==
    r.state \in (TerminalStates \ {"filled"}) \cup {"unknown"} /\ r.cum = 0

Spent(r) == r.state \in TerminalStates \ {"filled"} /\ r.cum = 0

(***************************************************************************)
(* reconcile._resolve_abandoned: the rows it may retire, age aside.         *)
(***************************************************************************)
\* (Mutation: an ambiguous POST is left open for ever.)
AbandonableUnsent(r) ==
    ~r.bid /\ r.cum = 0 /\ r.state \in EarlyStates \ {"unknown"}

Abandonable(r) == ~r.bid /\ r.cum = 0 /\ r.state \in EarlyStates
=============================================================================
