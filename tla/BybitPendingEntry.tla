------------------------- MODULE BybitPendingEntry -------------------------
(***************************************************************************)
(* The live broker's pending-entry protocol (infrastructure/bybit/         *)
(* bybit_broker.py): one process, one in-memory slot, one durable file,    *)
(* and an exchange that moves on its own between any two calls.            *)
(*                                                                         *)
(* A broker operation is a sequence of atomic steps; a step ends where the *)
(* code next talks to the exchange, so that fills, cancellations and a     *)
(* crash of the process can fall between any two external effects.  `pc`   *)
(* names the next step, `op` the operation it belongs to, `snap` and       *)
(* `listed` what the code has read and not yet used.  An operation starts  *)
(* when pc = "idle" and ends with an `outcome`: "ok" or the class of the   *)
(* exception that leaves it.                                               *)
(*                                                                         *)
(* Prices, symbols and the request's content are abstracted: an order link *)
(* id is a deterministic function of the setup, so one element of Ids is a *)
(* setup, its key and its order link id.  Volumes count lots.  A candle's  *)
(* timestamp is its number; 0 stands for "no candle yet".                  *)
(***************************************************************************)
EXTENDS PendingEntry, FiniteSets, Sequences

CONSTANTS
    Ids,        \* order link ids ("QTR-..."), one per setup
    Volume,     \* lots requested by an entry
    TTL,        \* ttl_candles
    MaxCandle,  \* bound: completed candles that ever appear
    MaxEvents,  \* bound: an operation starts with fewer queued events
    Faults      \* the faults that may happen, a subset of AllFaults

AllFaults ==
    {"crash",     \* the process dies between two steps
     "unknown",   \* a write times out: performed or not, nobody knows
     "reply",     \* a write is performed, its acknowledgement is malformed
     "refuse",    \* a write is definitely refused
     "read",      \* a read fails after its retries
     "lag",       \* a query misses the order or shows an older state
     "save",      \* the durable file cannot be replaced
     "clear",     \* the durable file cannot be removed
     "retry",     \* recovery is repeated although it succeeded
     "foreign",   \* somebody else's active order on the symbol
     "manual",    \* somebody else opens a position on the symbol
     "position"}  \* a position closes

ASSUME VolumeAssumption == Volume \in Nat \ {0}
ASSUME TTLAssumption == TTL \in Nat \ {0}
ASSUME BoundsAssumption == MaxCandle \in Nat /\ MaxEvents \in Nat \ {0}
ASSUME FaultsAssumption == Faults \subseteq AllFaults
ASSUME IdsAssumption ==
    Ids \cap {"none", "foreign", "protective", "position", "history"} = {}

VARIABLES
    \* The exchange: orders by link id, the symbol's position, whether an
    \* order of somebody else is active, and the last completed candle.
    orders, position, foreign, clock,
    \* History: "unseen" when the present position was opened where this
    \* process could not see it in time, "ordinary" otherwise.
    opening,
    \* The durable file: NoEntry, or the entry with its last aged candle.
    store,
    \* The process: "stopped", "starting" (recovering) or "running".
    phase,
    \* BybitBroker's fields.
    slot,          \* _pending_entry
    known,         \* _entry_orders, by status; "none" when absent
    cancelSent,    \* _cancel_requested_order_ids
    lastAged,      \* _last_aged_candle_timestamp
    events,        \* _pending_entry_events
    recNotified,   \* _recovery_event_order_ids
    subNotified,   \* _submission_event_order_ids
    lastTerminal,  \* _last_reconciled_terminal
    \* The operation in progress.
    pc, op, arg, snap, listed, outcome,
    \* History of this process: the ids with a TERMINAL event queued, and the
    \* ids sent to the exchange whose placing was not cleanly acknowledged
    \* and registered.
    reported, unconfirmed

exchangeVars == <<orders, position, foreign, clock, opening>>
slotVars == <<slot, known, cancelSent, lastAged>>
eventVars == <<events, recNotified, subNotified, lastTerminal, reported>>
callVars == <<pc, op, arg, snap, listed, outcome>>
vars == <<exchangeVars, store, phase, slotVars, eventVars, callVars,
          unconfirmed>>

----------------------------------------------------------------------------
(* Values *)

ActiveBybitStatus == {"Created", "New", "PartiallyFilled", "PendingCancel"}

NoOrder == [status |-> "Absent", filled |-> 0, cancelling |-> FALSE]
NewOrder == [status |-> "Created", filled |-> 0, cancelling |-> FALSE]
PlacedOrder == [status : BybitStatus, filled : 0 .. Volume, cancelling : BOOLEAN]
Order == PlacedOrder \cup {NoOrder}
IsActive(id) == orders[id].status \in ActiveBybitStatus
ActiveIds == {id \in Ids : IsActive(id)}

Entry == [id : Ids, status : PendingEntryStatus, filled : 0 .. Volume,
          age : Nat, expiry : BOOLEAN, signal : Nat]
NoEntry == [status |-> "NONE"]

Record == [entry : Entry, lastAged : Nat]
NoRecord == [entry |-> NoEntry, lastAged |-> 0]

Snapshot == [status : PendingEntryStatus, filled : 0 .. Volume]
NoSnapshot == [status |-> "NONE", filled |-> 0]

NoArg == [id |-> "none", candle |-> 0]

Event == [kind : {"SUBMITTED", "RECOVERED", "STATUS_CHANGED", "TERMINAL"},
          id : Ids, status : PendingEntryStatus,
          prev : PendingEntryStatus \cup {"NONE"}, filled : 0 .. Volume]

EventOf(e, kind, prev) ==
    [kind |-> kind, id |-> e.id, status |-> e.status, prev |-> prev,
     filled |-> e.filled]

(* What a query may show of an order that is in state o.                   *)
OlderViews(o) ==
    (IF o.status = "New" THEN {[o EXCEPT !.status = "Created"]} ELSE {})
    \cup (IF o.status \in {"PartiallyFilled", "PendingCancel", "Filled",
                           "Cancelled"}
          THEN {[o EXCEPT !.status = "New", !.filled = 0]} ELSE {})

Views(id) ==
    {orders[id]} \cup (IF "lag" \in Faults THEN OlderViews(orders[id]) ELSE {})

SnapshotOf(o) == [status |-> StatusMapping[o.status], filled |-> o.filled]

(* A save or a removal of the file succeeds, or fails and changes nothing. *)
SaveResults == IF "save" \in Faults THEN BOOLEAN ELSE {TRUE}
ClearResults == IF "clear" \in Faults THEN BOOLEAN ELSE {TRUE}

Init ==
    /\ orders = [id \in Ids |-> NoOrder]
    /\ position = "none"
    /\ foreign = FALSE
    /\ clock = 0
    /\ opening = "ordinary"
    /\ store = NoRecord
    /\ phase = "stopped"
    /\ slot = NoEntry
    /\ known = [id \in Ids |-> "none"]
    /\ cancelSent = {}
    /\ lastAged = 0
    /\ events = <<>>
    /\ recNotified = {}
    /\ subNotified = {}
    /\ lastTerminal = NoEntry
    /\ pc = "idle"
    /\ op = "none"
    /\ arg = NoArg
    /\ snap = NoSnapshot
    /\ listed = {}
    /\ outcome = "none"
    /\ reported = {}
    /\ unconfirmed = {}

----------------------------------------------------------------------------
(* Control: where an operation goes next. *)

Goto(label) == pc' = label /\ UNCHANGED <<op, arg, snap, listed, outcome>>

Return(o) ==
    /\ pc' = "idle" /\ op' = "none" /\ arg' = NoArg
    /\ snap' = NoSnapshot /\ listed' = {} /\ outcome' = o

(* Startup recovery turns every broker error of a query, a reconciliation  *)
(* and the cancellation inside it into a recovery error, persistence       *)
(* errors excepted.                                                        *)
Raise(o) ==
    Return(IF op = "recover" /\ o # "persistence" THEN "error" ELSE o)

(* What follows when a reconciliation or a cancellation returns normally.  *)
Continue ==
    CASE op = "age" -> Goto("age_count")
      [] op = "recover" -> Goto("recover_resume")
      [] op = "resume" -> Goto("recover_finish")
      [] OTHER -> Return("ok")

Begin(operation, label, argument) ==
    /\ pc = "idle"
    /\ Len(events) < MaxEvents
    /\ pc' = label /\ op' = operation /\ arg' = argument
    /\ outcome' = "none"
    /\ UNCHANGED <<snap, listed>>

(* Events are not queued while recovery is in progress.                    *)
Recovering == op \in {"recover", "resume"}

Queue(event) ==
    /\ events' = IF Recovering THEN events ELSE Append(events, event)
    /\ reported' = IF ~Recovering /\ event.kind = "TERMINAL"
                     THEN reported \cup {event.id} ELSE reported

QueueNothing == UNCHANGED <<events, reported>>

RecordWithoutExpiry(e) ==
    [entry |-> [e EXCEPT !.expiry = FALSE], lastAged |-> lastAged]

RecordOf(e) == [entry |-> e, lastAged |-> lastAged]

----------------------------------------------------------------------------
(* The exchange and the rest of the world. *)

ExchangeOnly ==
    UNCHANGED <<store, phase, slotVars, eventVars, callVars, unconfirmed>>

NewCandle ==
    /\ clock < MaxCandle
    /\ clock' = clock + 1
    /\ UNCHANGED <<orders, position, foreign, opening>>
    /\ ExchangeOnly

OrderMoves(id, status) ==
    /\ orders' = [orders EXCEPT ![id].status = status]
    /\ UNCHANGED <<position, foreign, clock, opening>>
    /\ ExchangeOnly

Accept(id) == orders[id].status = "Created" /\ OrderMoves(id, "New")

Reject(id) ==
    /\ orders[id].status = "Created"
    /\ ~orders[id].cancelling
    /\ OrderMoves(id, "Rejected")

BeginCancel(id) ==
    /\ orders[id].cancelling
    /\ orders[id].status \in {"Created", "New", "PartiallyFilled"}
    /\ OrderMoves(id, "PendingCancel")

FinishCancel(id) ==
    /\ orders[id].cancelling
    /\ IsActive(id)
    /\ OrderMoves(id, "Cancelled")

(* The exchange or a person cancels an order the broker has not asked to.  *)
CancelElsewhere(id) ==
    /\ ~orders[id].cancelling
    /\ IsActive(id)
    /\ OrderMoves(id, "Cancelled")

(* Where no reading of the position can keep an entry away from one that   *)
(* opens now: the broker has read it and not yet placed, or, for a position *)
(* of somebody else, an entry is already at work.                          *)
InTheGap == pc \in {"submit_listing", "submit_place"}

BesideAnEntry ==
    /\ phase = "running" \/ slot # NoEntry
    /\ ActiveIds # {}

Opens(unseen) ==
    /\ position' \in {"bare", "protected"}
    /\ opening' = IF unseen THEN "unseen" ELSE "ordinary"

(* One more lot is filled; the fill opens the position, on which the       *)
(* exchange places the protective orders now or a little later.            *)
Fill(id) ==
    /\ IsActive(id)
    /\ LET filled == orders[id].filled + 1 IN
       orders' = [orders EXCEPT
           ![id].filled = filled,
           ![id].status = IF filled = Volume THEN "Filled"
                          ELSE IF @ = "PendingCancel" THEN @
                          ELSE "PartiallyFilled"]
    /\ IF position = "none" THEN Opens(InTheGap)
                            ELSE UNCHANGED <<position, opening>>
    /\ UNCHANGED <<foreign, clock>>
    /\ ExchangeOnly

PositionMoves ==
    /\ \/ position = "bare" /\ position' = "protected" /\ UNCHANGED opening
       \/ /\ position # "none" /\ "position" \in Faults
          /\ position' = "none"
          /\ opening' = "ordinary"
    /\ UNCHANGED <<orders, foreign, clock>>
    /\ ExchangeOnly

(* Somebody else trades on the symbol: an order of theirs becomes active or *)
(* ends, or opens a position, which also happens at the market.             *)
ForeignOrder ==
    /\ "foreign" \in Faults
    /\ foreign' = ~foreign
    /\ UNCHANGED <<position, opening>>

ForeignPosition ==
    /\ "manual" \in Faults
    /\ position = "none"
    /\ Opens(InTheGap \/ BesideAnEntry)
    /\ foreign' \in {foreign, FALSE}

ForeignTrade ==
    /\ ForeignOrder \/ ForeignPosition
    /\ UNCHANGED <<orders, clock>>
    /\ ExchangeOnly

Exchange ==
    \/ NewCandle \/ PositionMoves \/ ForeignTrade
    \/ \E id \in Ids :
         \/ Accept(id) \/ Reject(id) \/ BeginCancel(id) \/ FinishCancel(id)
         \/ CancelElsewhere(id) \/ Fill(id)

----------------------------------------------------------------------------
(* Shared parts of the broker's steps. *)

BrokerOnly == UNCHANGED <<exchangeVars, phase, unconfirmed>>
ControlOnly == BrokerOnly /\ UNCHANGED <<store, slotVars, eventVars>>

(* A read that fails: after the client's retries with a temporary error,   *)
(* or at once because the response is refused or malformed.                *)
FailedRead(failures) ==
    /\ "read" \in Faults
    /\ \E failure \in failures : Raise(failure)
    /\ ControlOnly

Fails(o) == Raise(o) /\ ControlOnly

SetSlot(e) ==
    /\ slot' = e
    /\ known' = [known EXCEPT ![e.id] = e.status]

----------------------------------------------------------------------------
(* submit_entry, for the setup `id` found on the candle `signal`. *)

NewEntry(id, candle) ==
    [id |-> id, status |-> "SUBMITTED", filled |-> 0, age |-> 0,
     expiry |-> FALSE, signal |-> candle]

(* Answered from the broker's own state, without a call: another order is  *)
(* active, the id is known to be terminal, or the same entry is already    *)
(* active, which is saved (again) and announced once.                      *)
SubmitRefusedLocally(id, signal) ==
    /\ phase = "running" /\ pc = "idle" /\ Len(events) < MaxEvents
    /\ \/ slot # NoEntry /\ (slot.id # id \/ slot.signal # signal)
       \/ slot # NoEntry /\ slot.id = id /\ slot.status \in TerminalStatuses
       \/ slot = NoEntry /\ known[id] # "none"
    /\ Fails("error")

SubmitRepeated(id, signal) ==
    /\ phase = "running" /\ pc = "idle" /\ Len(events) < MaxEvents
    /\ slot # NoEntry
    /\ slot.id = id /\ slot.signal = signal
    /\ slot.status \notin TerminalStatuses
    /\ \E saved \in SaveResults :
         IF saved
         THEN /\ store' = RecordOf(slot)
              /\ IF id \in subNotified
                   THEN QueueNothing
                   ELSE Queue(EventOf(slot, "SUBMITTED", "NONE"))
              /\ subNotified' = subNotified \cup {id}
              /\ Return("ok")
         ELSE /\ UNCHANGED <<store, events, reported, subNotified>>
              /\ Return("persistence")
    /\ BrokerOnly /\ UNCHANGED <<slotVars, recNotified, lastTerminal>>

SubmitUnremembered(id, signal) ==
    /\ phase = "running"
    /\ slot = NoEntry
    /\ Begin("submit", "submit_position", [id |-> id, candle |-> signal])
    /\ ControlOnly

Submit(id, signal) ==
    /\ phase = "running"
    /\ slot = NoEntry
    /\ known[id] = "none"
    /\ Begin("submit", "submit_position", [id |-> id, candle |-> signal])
    /\ ControlOnly

PositionNeverBlocks == FALSE

PositionBlocks == position # "none"

SubmitPosition ==
    /\ pc = "submit_position"
    /\ \/ FailedRead({"temporary", "error"})
       \/ PositionBlocks /\ Fails("error")
       \/ /\ ~PositionBlocks /\ Goto("submit_listing")
          /\ ControlOnly

(* The listing is classified without positions: a protective order counts  *)
(* as somebody else's.  Both listings, this one and recovery's, are taken   *)
(* to show exactly the active orders, although the endpoint is the one of   *)
(* the query by link id, which may lag: the code relies on it.             *)
ForeignConflict == foreign \/ position = "protected"

SubmissionConflict == foreign \/ position = "protected" \/ ActiveIds # {}

SubmitListing ==
    /\ pc = "submit_listing"
    /\ \/ FailedRead({"temporary", "error"})
       \/ SubmissionConflict /\ Fails("error")
       \/ /\ ~SubmissionConflict
          /\ Goto("submit_place")
          /\ ControlOnly

(* The exchange refuses a link id it has already seen.                     *)
CanPlace == orders[arg.id] = NoOrder

Placed == [orders EXCEPT ![arg.id] = NewOrder]

SubmitPlace ==
    /\ pc = "submit_place"
    /\ \/ /\ CanPlace
          /\ orders' = Placed
          /\ Goto("submit_ack")
          /\ UNCHANGED unconfirmed
       \/ /\ CanPlace /\ "reply" \in Faults
          /\ orders' = Placed
          /\ Return("error")
          /\ unconfirmed' = unconfirmed \cup {arg.id}
       \/ /\ ~CanPlace \/ "refuse" \in Faults
          /\ Return("error")
          /\ UNCHANGED <<orders, unconfirmed>>
       \/ /\ "unknown" \in Faults
          /\ \/ CanPlace /\ orders' = Placed
             \/ UNCHANGED orders
          /\ Goto("submit_query")
          /\ unconfirmed' = unconfirmed \cup {arg.id}
    /\ UNCHANGED <<position, foreign, clock, opening, store, phase, slotVars,
                   eventVars>>

(* _register_submitted_entry: memory first, then the file, then the event. *)
Register(saved) ==
    LET e == NewEntry(arg.id, arg.candle) IN
    /\ SetSlot(e)
    /\ UNCHANGED <<cancelSent, lastAged, recNotified, lastTerminal>>
    /\ IF saved
       THEN /\ store' = RecordOf(e)
            /\ Queue(EventOf(e, "SUBMITTED", "NONE"))
            /\ subNotified' = subNotified \cup {e.id}
       ELSE UNCHANGED <<store, events, reported, subNotified>>

SubmitAck ==
    /\ pc = "submit_ack"
    /\ \E saved \in SaveResults :
         /\ Register(saved)
         /\ Return(IF saved THEN "ok" ELSE "persistence")
         /\ unconfirmed' = IF saved THEN unconfirmed
                                    ELSE unconfirmed \cup {arg.id}
    /\ UNCHANGED <<exchangeVars, phase>>

(* _reconcile_unknown_submission: an order that the queries show is        *)
(* registered as if acknowledged and then reconciled with what they showed.*)
SubmitQuery ==
    /\ pc = "submit_query"
    /\ \/ FailedRead({"unknown"})
       \/ /\ orders[arg.id] = NoOrder \/ "lag" \in Faults
          /\ Fails("unknown")
       \/ /\ orders[arg.id] # NoOrder
          /\ \E view \in Views(arg.id), saved \in SaveResults :
               /\ Register(saved)
               /\ IF saved
                  THEN /\ pc' = "reconcile" /\ snap' = SnapshotOf(view)
                       /\ UNCHANGED <<op, arg, listed, outcome>>
                  ELSE Return("persistence")
          /\ BrokerOnly

----------------------------------------------------------------------------
(* get_entry_order and refresh_pending_entry: the two queries, ... *)

Refresh ==
    /\ phase = "running"
    /\ slot # NoEntry
    /\ Begin("refresh", "query", NoArg)
    /\ ControlOnly

(* During recovery an active order that only the history shows is          *)
(* remembered as "history": it is reconciled and then refused.             *)
Query ==
    /\ pc = "query"
    /\ \/ FailedRead({"temporary", "error"})
       \/ /\ orders[slot.id] = NoOrder \/ "lag" \in Faults
          /\ Fails("error")
       \/ /\ orders[slot.id] # NoOrder
          /\ \E view \in Views(slot.id) :
               /\ snap' = SnapshotOf(view)
               /\ listed' \in IF /\ op = "recover" /\ "lag" \in Faults
                                 /\ view.status \in ActiveBybitStatus
                              THEN {{}, {"history"}} ELSE {listed}
          /\ pc' = "reconcile"
          /\ UNCHANGED <<op, arg, outcome>>
          /\ ControlOnly

(* ... and _reconcile_active_entry. A confirmed cancellation of an unfilled *)
(* entry that was asked to expire is an expiry.                            *)
StatusByMarker(e, s) ==
    IF s.status = "CANCELLED" /\ e.expiry THEN "EXPIRED" ELSE s.status

EffectiveStatus(e, s) ==
    IF s.status = "CANCELLED" /\ e.expiry /\ e.filled = 0 /\ s.filled = 0
    THEN "EXPIRED" ELSE s.status

(* An expiry passes through CANCEL_REQUESTED even when the acknowledgement *)
(* of the cancellation has not been seen.                                  *)
TransitionBase(e, s) ==
    IF EffectiveStatus(e, s) = "EXPIRED" THEN "CANCEL_REQUESTED" ELSE e.status

InconsistentExpiry(e, s) ==
    /\ EffectiveStatus(e, s) = "EXPIRED"
    /\ e.status # "CANCEL_REQUESTED"
    /\ "CANCEL_REQUESTED" \notin AllowedTransitions[e.status]

(* Snapshots that change no status: the same one, or more fills of an      *)
(* entry whose cancellation is under way.                                  *)
KeepsStatusOnFills(e, s) ==
    e.status = EffectiveStatus(e, s) \/ s.status = "PARTIALLY_FILLED"

KeepsStatus(e, s) ==
    \/ e.status = EffectiveStatus(e, s)
    \/ e.status = "CANCEL_REQUESTED" /\ s.status = "PARTIALLY_FILLED"

Contradicts(e, s) ==
    \/ s.filled < e.filled
    \/ InconsistentExpiry(e, s)
    \/ /\ ~IsStaleSnapshot(e.status, EffectiveStatus(e, s))
       /\ ~KeepsStatus(e, s)
       /\ EffectiveStatus(e, s) \notin AllowedTransitions[TransitionBase(e, s)]

Updated(e, s) ==
    [e EXCEPT !.filled = s.filled,
              !.status = IF KeepsStatus(e, s) THEN @
                                              ELSE EffectiveStatus(e, s)]

(* The four ways a reconciliation ends; `after` continues the operation.   *)
ReconcileRefused ==
    /\ Contradicts(slot, snap)
    /\ Fails(IF snap.filled >= slot.filled /\ InconsistentExpiry(slot, snap)
             THEN "inconsistent" ELSE "error")

ReconcileStale(after) ==
    /\ ~Contradicts(slot, snap)
    /\ IsStaleSnapshot(slot.status, EffectiveStatus(slot, snap))
    /\ \E saved \in SaveResults :
         IF saved THEN store' = RecordOf(slot) /\ after
                  ELSE UNCHANGED store /\ Raise("persistence")
    /\ BrokerOnly /\ UNCHANGED <<slotVars, eventVars>>

ReconcileActive(after) ==
    LET updated == Updated(slot, snap) IN
    /\ ~Contradicts(slot, snap)
    /\ ~IsStaleSnapshot(slot.status, EffectiveStatus(slot, snap))
    /\ updated.status \notin TerminalStatuses
    /\ SetSlot(updated)
    /\ \E saved \in SaveResults :
         IF saved
         THEN /\ store' = RecordOf(updated)
              /\ IF updated # slot
                 THEN Queue(EventOf(updated, "STATUS_CHANGED", slot.status))
                 ELSE QueueNothing
              /\ after
         ELSE /\ UNCHANGED store /\ QueueNothing
              /\ Raise("persistence")
    /\ BrokerOnly
    /\ UNCHANGED <<cancelSent, lastAged, recNotified, subNotified, lastTerminal>>

ReconcileTerminal(after) ==
    LET updated == Updated(slot, snap)
        event == EventOf(updated, "TERMINAL", TransitionBase(slot, snap))
    IN
    /\ ~Contradicts(slot, snap)
    /\ ~IsStaleSnapshot(slot.status, EffectiveStatus(slot, snap))
    /\ updated.status \in TerminalStatuses
    /\ known' = [known EXCEPT ![slot.id] = updated.status]
    /\ \E cleared \in ClearResults :
         IF cleared
         THEN /\ slot' = NoEntry
              /\ store' = NoRecord
              /\ lastTerminal' = event
              /\ Queue(event)
              /\ after
         ELSE /\ slot' = updated
              /\ UNCHANGED <<store, lastTerminal>>
              /\ QueueNothing
              /\ Raise("persistence")
    /\ UNCHANGED <<exchangeVars, phase, unconfirmed, cancelSent, lastAged,
                   recNotified, subNotified>>

(* A partial fill asks for the cancellation of the rest, every time it is  *)
(* seen.                                                                   *)
CancelRestOnce(e, s) ==
    s.status = "PARTIALLY_FILLED" /\ e.status # "PARTIALLY_FILLED"

CancelRest(e, s) == s.status = "PARTIALLY_FILLED"

Reconcile ==
    /\ pc = "reconcile"
    /\ \/ ReconcileRefused
       \/ ReconcileStale(Continue)
       \/ ReconcileActive(IF CancelRest(slot, snap)
                          THEN Goto("cancel") ELSE Continue)
       \/ ReconcileTerminal(Continue)

----------------------------------------------------------------------------
(* cancel_entry *)

CancelEntry ==
    /\ phase = "running"
    /\ slot # NoEntry
    /\ Begin("cancel", "cancel", NoArg)
    /\ ControlOnly

(* Nothing to do for a terminal entry; a cancellation that was already     *)
(* asked for is only saved again, never sent again.                        *)
CancelNotSent ==
    /\ pc = "cancel"
    /\ \/ /\ slot.status \in TerminalStatuses
          /\ UNCHANGED store
          /\ Continue
       \/ /\ slot.status \notin TerminalStatuses
          /\ slot.id \in cancelSent \/ slot.status = "CANCEL_REQUESTED"
          /\ \E saved \in SaveResults :
               IF saved THEN store' = RecordOf(slot) /\ Continue
                        ELSE UNCHANGED store /\ Raise("persistence")
    /\ BrokerOnly /\ UNCHANGED <<slotVars, eventVars>>

CancelRequested == [orders EXCEPT ![slot.id].cancelling = TRUE]

CancelSend ==
    /\ pc = "cancel"
    /\ slot.status \notin TerminalStatuses \cup {"CANCEL_REQUESTED"}
    /\ slot.id \notin cancelSent
    /\ \/ /\ IsActive(slot.id)
          /\ orders' = CancelRequested
          /\ Goto("cancel_ack")
          /\ UNCHANGED cancelSent
       \/ /\ IsActive(slot.id) /\ "reply" \in Faults
          /\ orders' = CancelRequested
          /\ Raise("error")
          /\ UNCHANGED cancelSent
       \/ /\ ~IsActive(slot.id) \/ "refuse" \in Faults
          /\ Raise("error")
          /\ UNCHANGED <<orders, cancelSent>>
       \/ /\ "unknown" \in Faults
          /\ \/ IsActive(slot.id) /\ orders' = CancelRequested
             \/ UNCHANGED orders
          /\ cancelSent' = cancelSent \cup {slot.id}
          /\ Goto("cancel_query")
    /\ UNCHANGED <<position, foreign, clock, opening, store, phase, slot, known,
                   lastAged, eventVars, unconfirmed>>

(* The acknowledgement says that the cancellation was asked for, no more.  *)
AcknowledgedAsDone(e) == [e EXCEPT !.status = "CANCELLED"]

Acknowledged(e) == [e EXCEPT !.status = "CANCEL_REQUESTED"]

CancelAck ==
    LET requested == Acknowledged(slot) IN
    /\ pc = "cancel_ack"
    /\ SetSlot(requested)
    /\ cancelSent' = cancelSent \cup {slot.id}
    /\ \E saved \in SaveResults :
         IF saved
         THEN /\ store' = RecordOf(requested)
              /\ Queue(EventOf(requested, "STATUS_CHANGED", slot.status))
              /\ Continue
         ELSE /\ UNCHANGED store /\ QueueNothing
              /\ Raise("persistence")
    /\ BrokerOnly
    /\ UNCHANGED <<lastAged, recNotified, subNotified, lastTerminal>>

(* _reconcile_unknown_cancellation *)
CancelQuery ==
    /\ pc = "cancel_query"
    /\ \/ FailedRead({"unknown"})
       \/ /\ orders[slot.id] = NoOrder \/ "lag" \in Faults
          /\ Fails("unknown")
       \/ /\ orders[slot.id] # NoOrder
          /\ \E view \in Views(slot.id) : snap' = SnapshotOf(view)
          /\ pc' = "cancel_reconcile"
          /\ UNCHANGED <<op, arg, listed, outcome>>
          /\ ControlOnly

(* Only a snapshot that shows the cancellation or an end confirms it. A    *)
(* partial fill asks for a cancellation again, which is already sent.      *)
CancelReconcile ==
    LET after == IF snap.status \in {"FILLED", "CANCELLED", "REJECTED",
                                     "CANCEL_REQUESTED"}
                 THEN Continue ELSE Raise("unknown")
    IN
    /\ pc = "cancel_reconcile"
    /\ \/ ReconcileRefused
       \/ ReconcileStale(after)
       \/ ReconcileActive(after)
       \/ ReconcileTerminal(after)

----------------------------------------------------------------------------
(* age_pending_entry *)

(* The caller passes the completed candles 1 .. latest.                    *)
Age(latest) ==
    /\ phase = "running"
    /\ slot # NoEntry
    /\ slot.status \notin TerminalStatuses
    /\ Begin("age", "query", [id |-> "none", candle |-> latest])
    /\ ControlOnly

EligibleSinceSignal(e, latest) == {candle \in 1 .. latest : candle > e.signal}

Eligible(e, latest) ==
    {candle \in 1 .. latest : candle > e.signal /\ candle > lastAged}

(* _resume_expiry_cancellation: an entry that was asked to expire and whose *)
(* cancellation is not under way is cancelled now.                         *)
NeverResume(e) == FALSE

ResumeExpiry(e) ==
    /\ e.expiry
    /\ e.status \notin TerminalStatuses \cup {"CANCEL_REQUESTED"}

CancelFor(operation) ==
    /\ pc' = "cancel" /\ op' = operation
    /\ UNCHANGED <<arg, snap, listed, outcome>>

(* Whether the refreshed entry still counts candles.                       *)
StillAges ==
    /\ slot # NoEntry
    /\ slot.status # "CANCEL_REQUESTED"
    /\ ~ResumeExpiry(slot)

(* After the refresh: nothing left to age, an expiry to resume, or candles *)
(* older than the last one counted.                                        *)
AgeSkipped ==
    /\ pc = "age_count"
    /\ \/ /\ slot = NoEntry \/ slot.status = "CANCEL_REQUESTED"
          /\ Fails("ok")
       \/ /\ StillAges
          /\ arg.candle >= lastAged
          /\ Eligible(slot, arg.candle) = {}
          /\ Fails("ok")
       \/ /\ slot # NoEntry
          /\ ResumeExpiry(slot)
          /\ CancelFor("expire")
          /\ ControlOnly
       \/ /\ StillAges
          /\ arg.candle < lastAged
          /\ Fails("error")

(* An age that cannot be saved is forgotten.                               *)
AgeKept(aged) == SetSlot(aged) /\ UNCHANGED lastAged

AgeRolledBack(aged) == UNCHANGED <<slot, known, lastAged>>

(* The new age is saved before the cancellation of an expired entry is     *)
(* sent.                                                                   *)
AgeCount ==
    LET eligible == Eligible(slot, arg.candle)
        age == slot.age + Cardinality(eligible)
        aged == [slot EXCEPT !.age = age, !.expiry = (age >= TTL)]
    IN
    /\ pc = "age_count"
    /\ StillAges
    /\ arg.candle >= lastAged
    /\ eligible # {}
    /\ \E saved \in SaveResults :
         IF saved
         THEN /\ SetSlot(aged)
              /\ lastAged' = arg.candle
              /\ store' = [entry |-> aged, lastAged |-> arg.candle]
              /\ IF aged.expiry
                 THEN CancelFor("expire")
                 ELSE Return("ok")
         ELSE /\ AgeRolledBack(aged)
              /\ UNCHANGED store
              /\ Return("persistence")
    /\ BrokerOnly /\ UNCHANGED <<cancelSent, eventVars>>

----------------------------------------------------------------------------
(* recover_pending_entry, called until it succeeds while the process starts *)

Recover ==
    /\ phase = "starting"
    /\ outcome \in {"none", "temporary"}
         \cup (IF "retry" \in Faults THEN {"ok"} ELSE {})
    /\ Begin("recover", "recover_listing", NoArg)
    /\ lastTerminal' = NoEntry
    /\ BrokerOnly
    /\ UNCHANGED <<store, slotVars, events, recNotified, subNotified, reported>>

(* Outside the queries, recovery lets a temporary error through.            *)
FailedRecoveryRead ==
    /\ "read" \in Faults
    /\ \E failure \in {"temporary", "error"} : Return(failure)
    /\ ControlOnly

(* The file is read, then the symbol's active orders. Without positions a  *)
(* protective order looks like a foreign one and asks for a closer look.   *)
RecoverListing ==
    /\ pc = "recover_listing"
    /\ \/ "save" \in Faults /\ Fails("error")
       \/ FailedRecoveryRead
       \/ LET strangers == (IF foreign THEN {"foreign"} ELSE {})
                \cup (IF position = "protected" THEN {"protective"} ELSE {})
          IN
          /\ listed' = ActiveIds \cup strangers
          /\ snap' \in IF ActiveIds = {}
                       THEN {NoSnapshot}
                       ELSE {SnapshotOf(orders[id]) : id \in ActiveIds}
          /\ pc' = IF strangers = {} THEN "recover_decide"
                                     ELSE "recover_classify"
          /\ UNCHANGED <<op, arg, outcome>>
          /\ ControlOnly

(* A protective order needs a position: if that has closed meanwhile, the  *)
(* order listed before is foreign. The position seen is remembered.        *)
RecoverClassify ==
    /\ pc = "recover_classify"
    /\ \/ FailedRecoveryRead
       \/ /\ listed' = IF position = "none"
                       THEN (listed \ {"protective"}) \cup {"foreign"}
                       ELSE listed \cup {"position"}
          /\ pc' = "recover_decide"
          /\ UNCHANGED <<op, arg, snap, outcome>>
          /\ ControlOnly

Owned == listed \cap Ids

(* Foreign orders, several or orphaned own orders, a protected position    *)
(* beside a durable entry, an own order that is not the durable one, and   *)
(* an own order beside a position all stop the start.                      *)
RecoveryBlockedUnlessOrphaned ==
    \/ "foreign" \in listed
    \/ Cardinality(Owned) > 1
    \/ store # NoRecord /\ "protective" \in listed
    \/ /\ store # NoRecord /\ Owned # {}
       /\ Owned # {store.entry.id} \/ "position" \in listed

RecoveryBlocked ==
    \/ "foreign" \in listed
    \/ Cardinality(Owned) > 1
    \/ store = NoRecord /\ Owned # {}
    \/ store # NoRecord /\ "protective" \in listed
    \/ /\ store # NoRecord /\ Owned # {}
       /\ Owned # {store.entry.id} \/ "position" \in listed

RestoreUnaged ==
    /\ SetSlot([store.entry EXCEPT !.age = 0])
    /\ lastAged' = store.lastAged
    /\ cancelSent' = IF store.entry.status = "CANCEL_REQUESTED"
                     THEN cancelSent \cup {store.entry.id} ELSE cancelSent

Restore ==
    /\ SetSlot(store.entry)
    /\ lastAged' = store.lastAged
    /\ cancelSent' = IF store.entry.status = "CANCEL_REQUESTED"
                     THEN cancelSent \cup {store.entry.id} ELSE cancelSent

RecoverDecide ==
    /\ pc = "recover_decide"
    /\ \/ RecoveryBlocked /\ Fails("error")
       \/ /\ ~RecoveryBlocked /\ store = NoRecord
          /\ slot' = NoEntry
          /\ Goto("recover_finish")
          /\ BrokerOnly
          /\ UNCHANGED <<store, known, cancelSent, lastAged, eventVars>>
       \/ /\ ~RecoveryBlocked /\ store # NoRecord /\ Owned = {}
          /\ Restore
          /\ Goto("query")
          /\ BrokerOnly /\ UNCHANGED <<store, eventVars>>
       \/ /\ ~RecoveryBlocked /\ store # NoRecord /\ Owned # {}
          /\ Goto("recover_position")
          /\ ControlOnly

RecoverPosition ==
    /\ pc = "recover_position"
    /\ \/ FailedRecoveryRead
       \/ position # "none" /\ Fails("error")
       \/ /\ position = "none"
          /\ Restore
          /\ Goto("reconcile")
          /\ BrokerOnly /\ UNCHANGED <<store, eventVars>>

(* An order that only the history showed as active is refused now.         *)
RecoverResume ==
    /\ pc = "recover_resume"
    /\ \/ "history" \in listed /\ Return("error")
       \/ /\ "history" \notin listed
          /\ IF slot # NoEntry /\ ResumeExpiry(slot)
             THEN CancelFor("resume") ELSE Goto("recover_finish")
    /\ ControlOnly

(* One event announces what was recovered; an id is announced once in the  *)
(* life of the process.                                                    *)
AnnounceActiveOnly ==
    IF slot # NoEntry THEN EventOf(slot, "RECOVERED", "NONE") ELSE NoEntry

RecoveryAnnouncement ==
    IF slot # NoEntry THEN EventOf(slot, "RECOVERED", "NONE")
                      ELSE lastTerminal

RecoverFinish ==
    LET announced == RecoveryAnnouncement IN
    /\ pc = "recover_finish"
    /\ IF announced # NoEntry /\ announced.id \notin recNotified
       THEN /\ events' = Append(events, announced)
            /\ recNotified' = recNotified \cup {announced.id}
            /\ reported' = IF slot = NoEntry
                           THEN reported \cup {announced.id} ELSE reported
       ELSE UNCHANGED <<events, recNotified, reported>>
    /\ Return("ok")
    /\ BrokerOnly /\ UNCHANGED <<store, slotVars, subNotified, lastTerminal>>

----------------------------------------------------------------------------
(* The process that owns the broker. *)

DrainEvents ==
    /\ pc = "idle"
    /\ events # <<>>
    /\ events' = <<>>
    /\ BrokerOnly
    /\ UNCHANGED <<store, slotVars, callVars, recNotified, subNotified,
                   lastTerminal, reported>>

(* All of the broker's memory is lost when the process ends. *)
ProcessEnds ==
    /\ phase' = "stopped"
    /\ slot' = NoEntry /\ known' = [id \in Ids |-> "none"]
    /\ cancelSent' = {} /\ lastAged' = 0
    /\ events' = <<>> /\ recNotified' = {} /\ subNotified' = {}
    /\ lastTerminal' = NoEntry /\ reported' = {}
    /\ unconfirmed' = {}
    /\ Return("none")
    /\ opening' = "ordinary"
    /\ UNCHANGED <<orders, position, foreign, clock, store>>

PhaseOnly ==
    UNCHANGED <<exchangeVars, store, slotVars, eventVars, callVars, unconfirmed>>

Start ==
    /\ phase = "stopped"
    /\ phase' = "starting"
    /\ PhaseOnly

StartupDone ==
    /\ phase = "starting" /\ pc = "idle" /\ outcome = "ok"
    /\ phase' = "running"
    /\ PhaseOnly

(* A recovery that fails for good ends the process. *)
StartupFailed ==
    /\ phase = "starting" /\ pc = "idle"
    /\ outcome \notin {"none", "ok", "temporary"}
    /\ ProcessEnds

Crash ==
    /\ "crash" \in Faults
    /\ phase # "stopped"
    /\ ProcessEnds

BrokerStep ==
    \/ SubmitPosition \/ SubmitListing \/ SubmitPlace \/ SubmitAck
    \/ SubmitQuery
    \/ Query \/ Reconcile
    \/ CancelNotSent \/ CancelSend \/ CancelAck \/ CancelQuery
    \/ CancelReconcile
    \/ AgeSkipped \/ AgeCount
    \/ RecoverListing \/ RecoverClassify \/ RecoverDecide \/ RecoverPosition
    \/ RecoverResume \/ RecoverFinish

Call ==
    \/ \E id \in Ids, signal \in 0 .. clock :
         \/ SubmitRefusedLocally(id, signal)
         \/ SubmitRepeated(id, signal)
         \/ Submit(id, signal)
    \/ Refresh \/ CancelEntry \/ Recover
    \/ \E latest \in 0 .. clock : Age(latest)

Process == Start \/ StartupDone \/ StartupFailed \/ Crash \/ DrainEvents

Next == Exchange \/ Call \/ BrokerStep \/ Process

Spec == Init /\ [][Next]_vars

----------------------------------------------------------------------------
(* Types *)

Outcomes == {"none", "ok", "temporary", "unknown", "persistence",
             "inconsistent", "error"}

Labels == {"idle", "submit_position", "submit_listing", "submit_place",
           "submit_ack", "submit_query", "query", "reconcile", "cancel",
           "cancel_ack", "cancel_query", "cancel_reconcile", "age_count",
           "recover_listing", "recover_classify", "recover_decide",
           "recover_position", "recover_resume", "recover_finish"}

Ops == {"none", "submit", "refresh", "cancel", "age", "expire", "recover",
        "resume"}

TypeOK ==
    /\ orders \in [Ids -> Order]
    /\ position \in {"none", "bare", "protected"}
    /\ foreign \in BOOLEAN
    /\ clock \in Nat
    /\ opening \in {"ordinary", "unseen"}
    /\ store \in Record \cup {NoRecord}
    /\ phase \in {"stopped", "starting", "running"}
    /\ slot \in Entry \cup {NoEntry}
    /\ known \in [Ids -> PendingEntryStatus \cup {"none"}]
    /\ cancelSent \subseteq Ids
    /\ lastAged \in Nat
    /\ events \in Seq(Event)
    /\ recNotified \subseteq Ids
    /\ subNotified \subseteq Ids
    /\ lastTerminal \in Event \cup {NoEntry}
    /\ pc \in Labels
    /\ op \in Ops
    /\ arg \in [id : Ids \cup {"none"}, candle : Nat]
    /\ snap \in Snapshot \cup {NoSnapshot}
    /\ listed \subseteq Ids \cup {"foreign", "protective", "position", "history"}
    /\ outcome \in Outcomes
    /\ reported \subseteq Ids
    /\ unconfirmed \subseteq Ids
============================================================================
