-------------------- MODULE BybitPendingEntryProperties --------------------
(***************************************************************************)
(* What the live broker's pending-entry protocol keeps true, and what it   *)
(* eventually does.                                                        *)
(***************************************************************************)
EXTENDS BybitPendingEntry

(* What a step may rely on when it is reached: the entry it works for, the *)
(* snapshot it has read, the id it submits, the record it restores, and,   *)
(* from the listing to the placing, that no own order is active.           *)
ControlOK ==
    /\ pc \in {"query", "reconcile", "cancel", "cancel_ack", "cancel_query",
              "cancel_reconcile"} => slot # NoEntry
    /\ pc \in {"reconcile", "cancel_reconcile"} => snap # NoSnapshot
    /\ pc \in {"submit_position", "submit_listing", "submit_place",
              "submit_ack", "submit_query"} => arg.id \in Ids
    /\ pc \in {"recover_classify", "recover_decide"} /\ Owned # {}
          => snap # NoSnapshot
    /\ pc = "recover_position" => store # NoRecord /\ snap # NoSnapshot
    /\ pc = "submit_place" => ActiveIds = {}
    /\ \A id \in ActiveIds : orders[id].filled < Volume

----------------------------------------------------------------------------
(* Safety.  All of them are about states and steps of the whole system: the *)
(* exchange, the file and the broker's memory together.                     *)

EndedIds == {id \in Ids : orders[id].status \in {"Filled", "Cancelled",
                                                  "Rejected"}}

(* However submissions time out and the process dies, two entry orders of   *)
(* the bot are never active on the exchange at once.                        *)
AtMostOneActiveOrder ==
    \A a, b \in Ids : IsActive(a) /\ IsActive(b) => a = b

(* Between two operations of a running bot, an order of the bot that is     *)
(* active on the exchange is the one in the slot, unless its placing was    *)
(* not acknowledged to this very process.  Orphans of earlier processes     *)
(* never get past recovery.                                                 *)
ActiveOrderAccounted ==
    phase = "running" /\ pc = "idle" =>
        \A id \in ActiveIds :
            id \in unconfirmed \/ (slot # NoEntry /\ slot.id = id)

(* Once the bot runs, a durable record belongs to the entry in the slot and *)
(* is never ahead of it; the age, the expiry marker and the last aged       *)
(* candle agree exactly, because an age that cannot be saved is rolled back.*)
DurableMatchesSlot ==
    phase = "running" /\ store # NoRecord =>
        /\ slot # NoEntry
        /\ slot.id = store.entry.id
        /\ slot.filled >= store.entry.filled
        /\ slot.age = store.entry.age
        /\ slot.expiry = store.entry.expiry
        /\ lastAged = store.lastAged

(* The broker never acts on an expiry that a restart would forget.          *)
ExpiryIsDurable ==
    slot # NoEntry /\ slot.expiry =>
        store # NoRecord /\ store.entry.id = slot.id /\ store.entry.expiry

(* Neither memory nor file claims more than the exchange has done: no fill  *)
(* before it happened, no end of an order that can still fill.              *)
NeverAheadOfExchange ==
    \A e \in {slot, store.entry} : e # NoEntry =>
        /\ e.filled <= orders[e.id].filled
        /\ e.status \in TerminalStatuses => e.id \in EndedIds

(* A TERMINAL event waiting for delivery tells the order's real end: the    *)
(* real quantity, FILLED only if all of it was filled, and EXPIRED only for *)
(* a cancelled order of which nothing was filled.                           *)
TerminalEventsAreTrue ==
    \A i \in 1 .. Len(events) : events[i].kind = "TERMINAL" =>
        LET event == events[i]
            order == orders[event.id]
        IN
        /\ event.id \in EndedIds
        /\ event.filled = order.filled
        /\ event.status = "FILLED" <=> order.status = "Filled"
        /\ event.status = "EXPIRED" => order.filled = 0

(* An entry that left the slot because it ended had its TERMINAL event      *)
(* queued, also when the end was found while recovering.                    *)
EveryEndIsReported ==
    phase = "running" /\ pc = "idle" =>
        \A id \in Ids :
            known[id] \in TerminalStatuses /\ (slot = NoEntry \/ slot.id # id)
                => id \in reported

(* While the bot runs, no untouched entry order of it waits beside an open   *)
(* position: neither the bot's own, whichever order of it was filled, nor   *)
(* one of somebody else, which may open at any time, also between two calls *)
(* of a submission or of a recovery.  Two openings the code does not and    *)
(* cannot see are excepted: any between the reading of the position at     *)
(* bybit_broker.py:154 and the placing, and one of somebody else while an   *)
(* entry of the bot, which runs or has recovered it, is already active.     *)
NoEntryBesidePosition ==
    phase = "running" /\ position # "none" /\ opening = "ordinary" =>
        \A id \in ActiveIds : orders[id].filled > 0

(* Without the exceptions it does not hold: see the README.                 *)
NoEntryBesideAnyPosition ==
    phase = "running" /\ position # "none" =>
        \A id \in ActiveIds : orders[id].filled > 0

(* What the constructor of an entry demands of its fills.                  *)
FillFieldsValid(e) ==
    CASE e.status \in {"SUBMITTED", "WORKING"} -> e.filled = 0
      [] e.status = "PARTIALLY_FILLED" -> 0 < e.filled /\ e.filled < Volume
      [] e.status = "FILLED" -> e.filled = Volume
      [] OTHER -> e.filled < Volume

(* What saving a record demands of it, and what loading it demands: the     *)
(* writer does not look at the fills, the reader refuses the whole file.    *)
Encodable(record) ==
    /\ record.entry.status \in PersistableStatuses
    /\ record.entry.age >= 0

Loadable(record) == Encodable(record) /\ FillFieldsValid(record.entry)

(* Whatever order snapshots arrive in and whatever fails between, the entry *)
(* in the slot is one that can be constructed, and what the broker has      *)
(* saved can be loaded: the next start is never refused because of its own  *)
(* file.                                                                    *)
RecordsLoad ==
    /\ slot # NoEntry => FillFieldsValid(slot)
    /\ store # NoRecord => Loadable(store)

(* An entry has ended but its record could not be removed: the slot stays   *)
(* blocked until the restart.  That restart then finds, from the file and   *)
(* the exchange's present state of the order, the very same end.            *)
BlockedSlotRecovers ==
    slot # NoEntry /\ slot.status \in TerminalStatuses /\ store # NoRecord =>
        LET shown == SnapshotOf(orders[slot.id]) IN
        /\ store.entry.id = slot.id
        /\ ~Contradicts(store.entry, shown)
        /\ ~IsStaleSnapshot(store.entry.status, EffectiveStatus(store.entry, shown))
        /\ Updated(store.entry, shown).status = slot.status
        /\ Updated(store.entry, shown).filled = slot.filled

(* An entry is not older than the market: no candle is counted twice, also  *)
(* when the candles passed to the broker lag behind those counted before,   *)
(* so that no entry is asked to expire before its time.                     *)
NeverExpiresEarly ==
    slot # NoEntry =>
        /\ slot.age <= clock - slot.signal
        /\ slot.expiry => slot.age >= TTL

(* A process tells the end of an order once, and tells nothing of it after. *)
EndIsTheLastWord ==
    [][Len(events') > Len(events) =>
          events'[Len(events')].id \notin reported]_<<events, reported>>

(* What the code does not keep, as the README shows.                       *)
(* The broker asserts that it never finds an exchange's confirmation of an  *)
(* expiry inconsistent with its own state.                                  *)
ExpiryConfirmationsConsistent == outcome # "inconsistent"

----------------------------------------------------------------------------
(* The durable file and the exchange implement the ledger. *)

RecordedEntry(e) ==
    [id |-> e.id, filled |-> e.filled, age |-> e.age, expiry |-> e.expiry,
     cancelling |-> (e.status = "CANCEL_REQUESTED")]

Ledger == INSTANCE EntryLedger WITH
    record <- IF store = NoRecord THEN [id |-> "none"]
                                  ELSE RecordedEntry(store.entry),
    ended <- EndedIds,
    MaxAge <- MaxCandle

(* Every step of the broker, the exchange and a crash is a step of the      *)
(* ledger or leaves it alone: the promise stated in EntryLedger.            *)
ImplementsLedger == Ledger!Spec

----------------------------------------------------------------------------
(* Liveness, under the fairness of the loop that drives the broker: see     *)
(* TradingRuntime.                                                         *)

(* An entry whose time is over is cancelled and leaves the slot, although   *)
(* its cancellation may be refused and its snapshots unreadable at first.   *)
ExpiredEntryEnds == (slot # NoEntry /\ slot.expiry) ~> (slot = NoEntry)

(* A partially filled entry does not keep working: the rest is cancelled    *)
(* or filled, and the slot becomes free.                                    *)
PartialFillEnds == (slot.status = "PARTIALLY_FILLED") ~> (slot = NoEntry)
============================================================================
