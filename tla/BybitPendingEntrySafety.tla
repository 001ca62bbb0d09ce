----------------------- MODULE BybitPendingEntrySafety -----------------------
(***************************************************************************)
(* Proofs, for every instance, that the broker's memory, its file, its     *)
(* events and the exchange agree, and that the file implements EntryLedger.*)
(*                                                                         *)
(* None of these properties is inductive.  The strengthening, SafetyInv,   *)
(* adds to IInv of BybitPendingEntryProofs what each step of an operation  *)
(* knows about the exchange: what a snapshot, once read, still tells of an *)
(* order that has moved on; what a slot and a record say of their order;   *)
(* and which orders may be active where.                                   *)
(***************************************************************************)
EXTENDS BybitPendingEntryProofs

(* Which operation is in progress, and in which phase.                     *)
SubmitLabels == {"submit_position", "submit_listing", "submit_place",
                 "submit_ack", "submit_query"}
RecoverLabels == {"recover_listing", "recover_classify", "recover_decide",
                  "recover_position", "recover_resume", "recover_finish"}

OperationOK ==
    /\ pc = "idle" <=> op = "none"
    /\ phase = "stopped" => op = "none"
    /\ phase = "starting" => op \in {"none", "recover", "resume"}
    /\ phase = "running" => op \notin {"recover", "resume"}
    /\ pc \in SubmitLabels => op = "submit"
    /\ pc \in RecoverLabels => op \in {"recover", "resume"}
    /\ pc = "age_count" => op = "age"

(* A stopped process remembers nothing.                                    *)
StoppedOK ==
    phase = "stopped" =>
        /\ outcome = "none" /\ slot = NoEntry
        /\ reported = {} /\ recNotified = {} /\ unconfirmed = {}
        /\ \A id \in Ids : known[id] = "none"

(* A submission works for an id that the broker does not know yet.         *)
SubmitOK ==
    pc \in SubmitLabels => slot = NoEntry /\ known[arg.id] = "none"

(* What has completed: nothing is counted or signalled ahead of the clock.  *)
ClockOK ==
    /\ clock <= MaxCandle
    /\ lastAged <= clock
    /\ arg.candle <= clock
    /\ store.lastAged <= clock

(* An order is filled as far as its status says.                           *)
OrderValid(o) ==
    /\ o.status \in {"Absent", "Created", "New", "Rejected"} => o.filled = 0
    /\ o.status = "PartiallyFilled" => 0 < o.filled /\ o.filled < Volume
    /\ o.status = "Filled" => o.filled = Volume
    /\ o.status \in {"PendingCancel", "Cancelled"} => o.filled < Volume

OrdersOK == \A id \in Ids : OrderValid(orders[id])

EndedStatus == {"Filled", "Cancelled", "Rejected"}

(* A snapshot that has been read shows the order as it is, or as it was     *)
(* before more of it was filled; an end that it shows is the order's end.   *)
SnapshotFits(s, o) ==
    /\ FillFieldsValid(s)
    /\ s.filled <= o.filled
    /\ s.status \in TerminalStatuses => o.status \in EndedStatus /\ s = SnapshotOf(o)

SnapOK ==
    /\ pc \in {"reconcile", "cancel_reconcile"} => SnapshotFits(snap, orders[slot.id])
    /\ pc \in {"recover_classify", "recover_decide"} =>
         \A id \in Ids : Owned = {id} => SnapshotFits(snap, orders[id])
    /\ pc = "recover_position" => SnapshotFits(snap, orders[store.entry.id])

(* What an entry, in the slot or in the file, says of its order `o`: `last` *)
(* is the last candle it was aged by, `now` the clock.                      *)
EntryFits(e, last, o, now) ==
    /\ FillFieldsValid(e)
    /\ e.filled <= o.filled
    /\ e.signal <= now
    /\ e.age <= IF last > e.signal THEN last - e.signal ELSE 0
    /\ e.expiry => e.age >= TTL
    /\ e.status \in TerminalStatuses =>
         /\ o.status \in EndedStatus
         /\ e.filled = o.filled
         /\ e.status = EffectiveStatus(e, SnapshotOf(o))

SlotOK == slot # NoEntry => EntryFits(slot, lastAged, orders[slot.id], clock)

StoreOK ==
    store # NoRecord =>
        /\ EntryFits(store.entry, store.lastAged, orders[store.entry.id], clock)
        /\ Encodable(store)

(* The steps that save the slot, or ask for its cancellation, have an entry *)
(* that has not ended.                                                      *)
UnendedOK ==
    /\ pc \in {"cancel_ack", "cancel_query", "cancel_reconcile"}
         => slot.status \notin TerminalStatuses
    /\ pc = "cancel" /\ op # "cancel" => slot.status \notin TerminalStatuses
    /\ pc = "age_count" /\ slot # NoEntry
         => slot.status \notin TerminalStatuses

(* The record belongs to the slot's entry and is not ahead of it ...        *)
MatchOK ==
    slot # NoEntry /\ store # NoRecord =>
        /\ slot.id = store.entry.id
        /\ slot.filled >= store.entry.filled
        /\ slot.age = store.entry.age
        /\ slot.expiry = store.entry.expiry
        /\ lastAged = store.lastAged
        /\ store.entry.status = "CANCEL_REQUESTED" =>
             slot.status \in TerminalStatuses \cup {"CANCEL_REQUESTED"}

(* ... and is in the slot as soon as recovery has decided on it.            *)
BeforeRestore ==
    \/ pc \in {"recover_listing", "recover_classify", "recover_decide",
               "recover_position"}
    \/ pc = "idle" /\ outcome # "ok"

HeldOK ==
    /\ store # NoRecord /\ slot = NoEntry =>
         phase = "stopped" \/ (phase = "starting" /\ BeforeRestore)
    /\ phase = "starting" /\ slot # NoEntry => store # NoRecord

(* An event that tells an end tells the order's end.                       *)
EventFits(event, o) ==
    /\ o.status \in EndedStatus
    /\ event.filled = o.filled
    /\ event.status = "FILLED" <=> o.status = "Filled"
    /\ event.status = "EXPIRED" => o.filled = 0

EventsOK ==
    /\ \A i \in 1 .. Len(events) :
         events[i].kind = "TERMINAL" => EventFits(events[i], orders[events[i].id])
    /\ lastTerminal # NoEntry =>
         lastTerminal.kind = "TERMINAL" /\ EventFits(lastTerminal, orders[lastTerminal.id])

(* An id whose end was found has left the slot and the file for good.       *)
Gone(id) == id \in reported \/ (lastTerminal # NoEntry /\ lastTerminal.id = id)

GoneOK ==
    /\ \A id \in Ids : Gone(id) =>
         /\ known[id] \in TerminalStatuses
         /\ slot # NoEntry => slot.id # id
         /\ store # NoRecord => store.entry.id # id
    /\ phase = "starting" => reported \subseteq recNotified

(* Which own orders may be active.                                         *)
AccountedOK ==
    /\ phase = "running" =>
         \A id \in ActiveIds :
             \/ id \in unconfirmed
             \/ slot # NoEntry /\ slot.id = id
             \/ pc = "submit_ack" /\ arg.id = id
    /\ pc \in {"recover_classify", "recover_decide"} => ActiveIds \subseteq listed
    /\ pc = "recover_position" => ActiveIds \subseteq {store.entry.id}
    /\ phase = "starting" /\ ~BeforeRestore =>
         \A id \in ActiveIds : slot # NoEntry /\ slot.id = id

(* Where an entry may be active beside a position: from the reading of the  *)
(* position to the placing any that opens is an unseen one, and as soon as  *)
(* recovery has decided, an ordinary one is not beside an untouched entry.  *)
BesideOK ==
    /\ InTheGap => position = "none" \/ opening = "unseen"
    /\ phase = "running" \/ (phase = "starting" /\ ~BeforeRestore)
         => (position # "none" /\ opening = "ordinary" =>
               \A id \in ActiveIds : orders[id].filled > 0)

(* Where the end of an entry that has left the slot is noted, as long as    *)
(* a successful recovery is not repeated.                                   *)
EndFound(id) ==
    known[id] \in TerminalStatuses /\ (slot = NoEntry \/ slot.id # id)

EndsOK ==
    /\ phase = "running" => \A id \in Ids : EndFound(id) => id \in reported
    /\ phase = "starting" =>
         /\ recNotified # {} => pc = "idle" /\ outcome = "ok"
         /\ \A id \in Ids : EndFound(id) =>
              \/ id \in reported
              \/ /\ lastTerminal # NoEntry /\ lastTerminal.id = id
                 /\ slot = NoEntry
                 /\ \/ pc \in {"recover_resume", "recover_finish"}
                    \/ pc = "idle" /\ outcome \notin {"none", "ok", "temporary"}

SafetyInv ==
    /\ IInv /\ AtMostOneActiveOrder
    /\ OperationOK /\ StoppedOK /\ SubmitOK /\ ClockOK
    /\ OrdersOK /\ SnapOK /\ SlotOK /\ StoreOK /\ UnendedOK
    /\ MatchOK /\ HeldOK
    /\ EventsOK /\ GoneOK
    /\ AccountedOK /\ BesideOK

----------------------------------------------------------------------------
(* The exchange: an order is filled more and more until it ends, and an end *)
(* is final.                                                                *)

LEMMA OrderFields ==
    ASSUME TypeOK, NEW id \in Ids
    PROVE  /\ orders[id] \in Order
           /\ orders[id].filled \in 0 .. Volume
           /\ orders[id].status \in BybitStatus \cup {"Absent"}
           /\ orders[id].status # "Absent" => orders[id] \in PlacedOrder
<1>1. orders[id] \in Order
  BY DEF TypeOK
<1>2. CASE orders[id] = NoOrder
  BY <1>1, <1>2, PlacedOrdersAreOrders
<1>3. CASE orders[id] # NoOrder
  BY <1>1, <1>3, PlacedOrderType
<1> QED
  BY <1>1, <1>2, <1>3

OrdersAdvanced ==
    \A id \in Ids :
        /\ orders[id].filled <= orders'[id].filled
        /\ orders[id].status \in EndedStatus => orders'[id] = orders[id]

LEMMA MoveAdvances ==
    ASSUME TypeOK, OrdersOK, NEW id \in Ids, IsActive(id), orders[id].filled < Volume,
           NEW status \in {"New", "PendingCancel", "Rejected", "Cancelled"},
           status \in {"New", "Rejected"} => orders[id].status = "Created",
           OrderMoves(id, status)
    PROVE  OrdersAdvanced /\ OrdersOK'
<1>1. orders[id] \in PlacedOrder
  BY ActiveOrderType
<1>2. orders'[id].filled = orders[id].filled /\ orders'[id].status = status
  BY <1>1 DEF OrderMoves, TypeOK, PlacedOrder
<1>3. \A i \in Ids \ {id} : orders'[i] = orders[i]
  BY DEF OrderMoves, TypeOK
<1>4. orders[id].status \notin EndedStatus
  BY DEF EndedStatus, IsActive, ActiveBybitStatus
<1>5. OrderValid(orders'[id])
  BY <1>2 DEF OrdersOK, OrderValid
<1>6. \A i \in Ids : orders[i].filled \in 0 .. Volume
  BY OrderFields
<1> QED
  BY <1>2, <1>3, <1>4, <1>5, <1>6, VolumeAssumption DEF OrdersAdvanced, OrdersOK

LEMMA FillAdvances ==
    ASSUME TypeOK, OrdersOK, NEW id \in Ids, orders[id].filled < Volume, Fill(id)
    PROVE  OrdersAdvanced /\ OrdersOK'
<1>1. orders[id] \in PlacedOrder /\ IsActive(id)
  BY ActiveOrderType DEF Fill
<1>2. /\ orders'[id].filled = orders[id].filled + 1
      /\ orders'[id].status = IF orders[id].filled + 1 = Volume THEN "Filled"
                             ELSE IF orders[id].status = "PendingCancel" THEN "PendingCancel"
                             ELSE "PartiallyFilled"
  BY <1>1 DEF Fill, TypeOK, PlacedOrder
<1>3. \A i \in Ids \ {id} : orders'[i] = orders[i]
  BY DEF Fill, TypeOK
<1>4. orders[id].status \notin EndedStatus
  BY <1>1 DEF EndedStatus, IsActive, ActiveBybitStatus
<1>5. \A i \in Ids : orders[i].filled \in 0 .. Volume
  BY OrderFields
<1>6. OrderValid(orders'[id])
  BY <1>2, <1>5, VolumeAssumption DEF OrderValid
<1> QED
  BY <1>2, <1>3, <1>4, <1>5, <1>6, VolumeAssumption DEF OrdersAdvanced, OrdersOK

LEMMA OrdersInv ==
    ASSUME IInv, OrdersOK, [Next]_vars
    PROVE  OrdersAdvanced /\ OrdersOK'
<1>1. TypeOK /\ \A i \in Ids : orders[i].filled \in 0 .. Volume
  BY OrderFields DEF IInv
<1>2. CASE UNCHANGED orders
  BY <1>1, <1>2 DEF OrdersAdvanced, OrdersOK
<1>3. CASE SubmitPlace
  <2>1. CASE CanPlace /\ orders' = Placed
    <3>1. arg.id \in Ids /\ orders[arg.id] = NoOrder /\ orders'[arg.id] = NewOrder
      BY <1>1, <1>3, <2>1 DEF SubmitPlace, IInv, ControlOK, CanPlace, Placed, TypeOK
    <3>2. \A i \in Ids \ {arg.id} : orders'[i] = orders[i]
      BY <1>1, <2>1 DEF Placed, TypeOK
    <3>3. orders[arg.id].status \notin EndedStatus
      BY <3>1, PlacedOrdersAreOrders DEF EndedStatus
    <3> QED
      BY <1>1, <3>1, <3>2, <3>3, PlacedOrdersAreOrders, VolumeAssumption
         DEF OrdersAdvanced, OrdersOK, OrderValid, NewOrder
  <2> QED
    BY <1>2, <1>3, <2>1 DEF SubmitPlace
<1>4. CASE CancelSend
  <2>1. CASE IsActive(slot.id) /\ orders' = CancelRequested
    <3>1. slot.id \in Ids
      BY <1>1, <1>4 DEF CancelSend, IInv, ControlOK, TypeOK, Entry
    <3>2. orders[slot.id] \in PlacedOrder
      BY <1>1, <2>1, <3>1, ActiveOrderType
    <3>3. /\ orders'[slot.id].status = orders[slot.id].status
          /\ orders'[slot.id].filled = orders[slot.id].filled
          /\ \A i \in Ids \ {slot.id} : orders'[i] = orders[i]
      BY <1>1, <2>1, <3>1, <3>2 DEF CancelRequested, TypeOK, PlacedOrder
    <3>4. orders[slot.id].status \notin EndedStatus
      BY <2>1 DEF EndedStatus, IsActive, ActiveBybitStatus
    <3> QED
      BY <1>1, <3>3, <3>4 DEF OrdersAdvanced, OrdersOK, OrderValid
  <2> QED
    BY <1>2, <1>4, <2>1 DEF CancelSend
<1>5. CASE Exchange
  <2>1. CASE NewCandle \/ PositionMoves \/ ForeignTrade
    BY <1>2, <2>1 DEF NewCandle, PositionMoves, ForeignTrade, ForeignOrder, ForeignPosition
  <2>2. ASSUME NEW id \in Ids,
               \/ Accept(id) \/ Reject(id) \/ BeginCancel(id) \/ FinishCancel(id)
               \/ CancelElsewhere(id)
        PROVE  OrdersAdvanced /\ OrdersOK'
    <3>1. IsActive(id)
      BY <2>2 DEF Accept, Reject, BeginCancel, FinishCancel, CancelElsewhere, IsActive,
         ActiveBybitStatus
    <3>2. orders[id].filled < Volume
      BY <3>1 DEF IInv, ControlOK, ActiveIds
    <3> QED
      BY <1>1, <2>2, <3>1, <3>2, MoveAdvances
         DEF Accept, Reject, BeginCancel, FinishCancel, CancelElsewhere
  <2>3. ASSUME NEW id \in Ids, Fill(id) PROVE OrdersAdvanced /\ OrdersOK'
    <3>1. orders[id].filled < Volume
      BY <2>3 DEF Fill, IInv, ControlOK, ActiveIds
    <3> QED
      BY <1>1, <2>3, <3>1, FillAdvances
  <2> QED
    BY <1>5, <2>1, <2>2, <2>3 DEF Exchange
<1> QED
  BY <1>2, <1>3, <1>4, <1>5, OrdersFrame

----------------------------------------------------------------------------
(* What was true of an order stays true while it moves on.                  *)

LEMMA StatusFacts ==
    /\ EndedStatus \subseteq BybitStatus
    /\ EndedStatus \cap (ActiveBybitStatus \cup {"Absent"}) = {}
    /\ \A b \in BybitStatus :
         /\ StatusMapping[b] \in PendingEntryStatus
         /\ StatusMapping[b] \in TerminalStatuses <=> b \in EndedStatus
         /\ StatusMapping[b] = "FILLED" <=> b = "Filled"
         /\ StatusMapping[b] = "CANCELLED" <=> b = "Cancelled"
         /\ StatusMapping[b] # "EXPIRED"
BY DEF EndedStatus, BybitStatus, ActiveBybitStatus, StatusMapping, PendingEntryStatus,
   PersistableStatuses, TerminalStatuses

(* One state of an order follows another.                                   *)
Later(o, p) ==
    /\ o.filled \in 0 .. Volume /\ p.filled \in 0 .. Volume
    /\ o.filled <= p.filled
    /\ o.status \in EndedStatus => p = o

LEMMA SnapshotFitsLater ==
    ASSUME NEW s \in Snapshot, NEW o, NEW p, Later(o, p), SnapshotFits(s, o)
    PROVE  SnapshotFits(s, p)
BY DEF Later, SnapshotFits, Snapshot

LEMMA EntryFitsLater ==
    ASSUME NEW e \in Entry, NEW o, NEW p, Later(o, p), NEW last \in Nat,
           NEW now \in Nat, NEW later \in Nat, now <= later, EntryFits(e, last, o, now)
    PROVE  EntryFits(e, last, p, later)
BY DEF Later, EntryFits, Entry

LEMMA EventFitsLater ==
    ASSUME NEW event, NEW o, NEW p, Later(o, p), EventFits(event, o)
    PROVE  EventFits(event, p)
BY DEF Later, EventFits

(* A query shows a true snapshot, also when it lags behind.                 *)
LEMMA ViewFits ==
    ASSUME TypeOK, OrdersOK, NEW id \in Ids, orders[id] # NoOrder, NEW view \in Views(id)
    PROVE  SnapshotFits(SnapshotOf(view), orders[id])
<1>1. orders[id] \in PlacedOrder /\ OrderValid(orders[id])
  BY PlacedOrderType DEF TypeOK, OrdersOK
<1>2. view = orders[id] \/ view \in OlderViews(orders[id])
  BY DEF Views
<1>3. CASE view = orders[id]
  BY <1>1, <1>3, StatusFacts, VolumeAssumption
     DEF SnapshotFits, SnapshotOf, FillFieldsValid, OrderValid, PlacedOrder, BybitStatus,
         StatusMapping, EndedStatus, TerminalStatuses
<1>4. CASE view \in OlderViews(orders[id])
  <2>1. view.filled = 0 /\ view.status \in {"Created", "New"}
    BY <1>1, <1>4 DEF OlderViews, PlacedOrder, OrderValid
  <2> QED
    BY <1>1, <2>1 DEF SnapshotFits, SnapshotOf, FillFieldsValid, PlacedOrder, StatusMapping,
       TerminalStatuses
<1> QED
  BY <1>2, <1>3, <1>4

(* A reconciliation that is not refused: the entry fits its order again, it *)
(* is not set back, and an entry that ended stays ended.                    *)
LEMMA UpdatedFits ==
    ASSUME NEW e \in Entry, NEW s \in Snapshot, NEW o, o.filled \in 0 .. Volume,
           NEW last \in Nat, NEW now \in Nat,
           EntryFits(e, last, o, now), SnapshotFits(s, o), ~Contradicts(e, s),
           ~IsStaleSnapshot(e.status, EffectiveStatus(e, s))
    PROVE  LET u == Updated(e, s) IN
           /\ EntryFits(u, last, o, now)
           /\ u.id = e.id /\ u.age = e.age /\ u.expiry = e.expiry /\ u.signal = e.signal
           /\ u.filled >= e.filled /\ u.filled = s.filled
           /\ e.status = "CANCEL_REQUESTED"
                => u.status \in TerminalStatuses \cup {"CANCEL_REQUESTED"}
           /\ u.status \in TerminalStatuses
                => u.status = EffectiveStatus(e, s) /\ s.status \in TerminalStatuses
           /\ u.status \notin TerminalStatuses => e.status \notin TerminalStatuses
<1> DEFINE u == Updated(e, s)
<1>1. /\ u.id = e.id /\ u.age = e.age /\ u.expiry = e.expiry /\ u.signal = e.signal
      /\ u.filled = s.filled /\ u.filled >= e.filled
      /\ u.status = IF KeepsStatus(e, s) THEN e.status ELSE EffectiveStatus(e, s)
  BY DEF Updated, Entry, Contradicts, Snapshot
<1>2. EffectiveStatus(e, s) \in PendingEntryStatus /\ e.status \in PendingEntryStatus
      /\ s.status \in PendingEntryStatus
  BY DEF EffectiveStatus, Entry, Snapshot, PendingEntryStatus, TerminalStatuses
<1>3. u.status = EffectiveStatus(e, s)
      \/ (u.status = "CANCEL_REQUESTED" /\ e.status = "CANCEL_REQUESTED"
          /\ s.status = "PARTIALLY_FILLED")
  BY <1>1 DEF KeepsStatus
<1>4. /\ EffectiveStatus(e, s) \in TerminalStatuses <=> s.status \in TerminalStatuses
      /\ EffectiveStatus(e, s) \in {s.status, "EXPIRED"}
      /\ EffectiveStatus(e, s) # s.status => s.status = "CANCELLED" /\ s.filled = 0
  BY DEF EffectiveStatus, TerminalStatuses
<1>5. FillFieldsValid(u)
  BY <1>1, <1>3, <1>4, VolumeAssumption DEF FillFieldsValid, SnapshotFits, Snapshot
<1>6. ASSUME u.status \in TerminalStatuses
      PROVE  /\ o.status \in EndedStatus /\ u.filled = o.filled
             /\ u.status = EffectiveStatus(u, SnapshotOf(o))
  <2>1. u.status = EffectiveStatus(e, s) /\ s.status \in TerminalStatuses
    BY <1>3, <1>4, <1>6 DEF TerminalStatuses
  <2>2. o.status \in EndedStatus /\ s = SnapshotOf(o) /\ u.filled = o.filled
    BY <1>1, <2>1 DEF SnapshotFits, SnapshotOf
  <2>3. s.filled = 0 => e.filled = 0
    BY <1>1 DEF Entry, Snapshot
  <2> QED
    BY <1>1, <2>1, <2>2, <2>3 DEF EffectiveStatus
<1>7. e.status = "CANCEL_REQUESTED" => u.status \in TerminalStatuses \cup {"CANCEL_REQUESTED"}
  <2> SUFFICES ASSUME e.status = "CANCEL_REQUESTED", ~KeepsStatus(e, s)
               PROVE  u.status \in TerminalStatuses
    BY <1>1
  <2>1. EffectiveStatus(e, s) \in AllowedTransitions["CANCEL_REQUESTED"]
    BY DEF Contradicts, TransitionBase
  <2>2. EffectiveStatus(e, s) \in {"PARTIALLY_FILLED"} \cup TerminalStatuses
    BY <2>1 DEF AllowedTransitions, PendingEntryStatus, PersistableStatuses
  <2>3. s.status # "PARTIALLY_FILLED"
    BY DEF KeepsStatus
  <2> QED
    BY <1>1, <1>4, <2>2, <2>3
<1>8. e.status \in TerminalStatuses => u.status \in TerminalStatuses
  BY <1>1, <1>2, <1>4 DEF Contradicts, KeepsStatus, IsStaleSnapshot, TransitionBase, AllowedTransitions,
     InconsistentExpiry, PendingEntryStatus, PersistableStatuses, TerminalStatuses
<1>9. EntryFits(u, last, o, now)
  <2>1. u.filled <= o.filled
    BY <1>1 DEF SnapshotFits
  <2> HIDE DEF u
  <2> QED
    BY <1>1, <1>5, <1>6, <2>1 DEF EntryFits
<1> QED
  BY <1>1, <1>3, <1>4, <1>7, <1>8, <1>9 DEF TerminalStatuses

----------------------------------------------------------------------------
(* The ways in which a step changes the slot, the file and what goes with   *)
(* them.                                                                    *)

Saves(e) ==
    SetSlot(e) /\ store' \in {store, RecordOf(e)} /\ UNCHANGED lastAged

Resaves ==
    /\ slot # NoEntry /\ slot.status \notin TerminalStatuses
    /\ store' = RecordOf(slot)
    /\ UNCHANGED <<slot, known, lastAged>>

Registers == pc \in SubmitLabels /\ Saves(NewEntry(arg.id, arg.candle))

Reads ==
    /\ pc \in {"reconcile", "cancel_reconcile"}
    /\ ~Contradicts(slot, snap)
    /\ ~IsStaleSnapshot(slot.status, EffectiveStatus(slot, snap))

Reconciles ==
    /\ Reads
    /\ Updated(slot, snap).status \notin TerminalStatuses
    /\ Saves(Updated(slot, snap))

Ends ==
    /\ Reads
    /\ Updated(slot, snap).status \in TerminalStatuses
    /\ known' = [known EXCEPT ![slot.id] = Updated(slot, snap).status]
    /\ UNCHANGED lastAged
    /\ \/ slot' = NoEntry /\ store' = NoRecord
       \/ slot' = Updated(slot, snap) /\ store' = store

Acknowledges == pc = "cancel_ack" /\ Saves(Acknowledged(slot))

AgedEntry ==
    [slot EXCEPT !.age = @ + Cardinality(Eligible(slot, arg.candle)),
                 !.expiry = (slot.age + Cardinality(Eligible(slot, arg.candle)) >= TTL)]

Ages ==
    /\ pc = "age_count"
    /\ StillAges
    /\ arg.candle >= lastAged
    /\ SetSlot(AgedEntry)
    /\ lastAged' = arg.candle
    /\ store' = [entry |-> AgedEntry, lastAged |-> arg.candle]

Restores ==
    /\ pc \in {"recover_decide", "recover_position"}
    /\ store # NoRecord /\ Restore /\ UNCHANGED store

Empties ==
    /\ pc = "recover_decide"
    /\ store = NoRecord /\ slot' = NoEntry
    /\ UNCHANGED <<store, known, lastAged>>

LEMMA DataSteps ==
    ASSUME IInv, [Next]_vars
    PROVE  \/ UNCHANGED <<slot, store, known, lastAged>>
           \/ Resaves \/ Registers \/ Reconciles \/ Ends \/ Acknowledges
           \/ Ages \/ Restores \/ Empties \/ ProcessEnds
<1> USE DEF slotVars
<1>1. ASSUME NEW saved \in BOOLEAN, Register(saved), pc \in {"submit_ack", "submit_query"}
      PROVE  Registers
  BY <1>1 DEF Register, Registers, Saves, SubmitLabels
<1>2. ASSUME NEW id \in Ids, NEW signal \in 0 .. clock, SubmitRepeated(id, signal)
      PROVE  UNCHANGED <<slot, store, known, lastAged>> \/ Resaves
  BY <1>2 DEF SubmitRepeated, Resaves
<1>3. ASSUME pc \in {"reconcile", "cancel_reconcile"}, NEW ACTION after,
             \/ ReconcileRefused \/ ReconcileStale(after)
             \/ ReconcileActive(after) \/ ReconcileTerminal(after)
      PROVE  UNCHANGED <<slot, store, known, lastAged>> \/ Resaves \/ Reconciles \/ Ends
  <2>1. CASE ReconcileRefused
    BY <2>1 DEF ReconcileRefused, Fails, ControlOnly
  <2>2. CASE ReconcileStale(after)
    <3>1. slot # NoEntry /\ slot.status \notin TerminalStatuses
      BY <1>3, <2>2 DEF IInv, ControlOK, ReconcileStale, IsStaleSnapshot, TerminalStatuses
    <3> QED
      BY <2>2, <3>1 DEF ReconcileStale, Resaves
  <2>3. CASE ReconcileActive(after)
    BY <1>3, <2>3 DEF ReconcileActive, Reconciles, Reads, Saves
  <2>4. CASE ReconcileTerminal(after)
    BY <1>3, <2>4 DEF ReconcileTerminal, Ends, Reads
  <2> QED
    BY <1>3, <2>1, <2>2, <2>3, <2>4
<1>4. CASE Reconcile \/ CancelReconcile
  BY <1>3, <1>4 DEF Reconcile, CancelReconcile
<1>5. CASE CancelNotSent \/ CancelAck
  BY <1>5 DEF CancelNotSent, CancelAck, IInv, ControlOK, Resaves, Acknowledges, Saves
<1>6. CASE AgeCount
  BY <1>6 DEF AgeCount, AgeRolledBack, Ages, AgedEntry
<1>7. CASE RecoverDecide \/ RecoverPosition
  BY <1>7 DEF RecoverDecide, RecoverPosition, Restores, Empties, Fails, FailedRecoveryRead,
     ControlOnly, IInv, ControlOK
<1> QED
  BY <1>1, <1>2, <1>4, <1>5, <1>6, <1>7, SlotFrame

----------------------------------------------------------------------------
(* Control: which operation is in progress.                                *)

LEMMA ExchangeFrame ==
    ASSUME Exchange \/ UNCHANGED vars
    PROVE  UNCHANGED <<store, phase, slotVars, eventVars, callVars, unconfirmed>>
BY DEF vars, Exchange, ExchangeOnly, NewCandle, PositionMoves, ForeignTrade, ForeignOrder, ForeignPosition, OrderMoves,
   Accept, Reject, BeginCancel, FinishCancel, CancelElsewhere, Fill

(* A step inside an operation stays in it or ends it.                       *)
LEMMA OperationGoesOn ==
    ASSUME IInv, OperationOK, BrokerStep
    PROVE  OperationOK' /\ phase' = phase /\ (arg' = arg \/ arg' = NoArg)
<1> USE DEF Goto, Return, Raise, Fails, FailedRead, ControlOnly, BrokerOnly, exchangeVars,
        OperationOK, SubmitLabels, RecoverLabels, IInv, TypeOK, Ops
<1>1. CASE SubmitPosition \/ SubmitListing \/ SubmitPlace \/ SubmitAck \/ SubmitQuery
  BY <1>1 DEF SubmitPosition, SubmitListing, SubmitPlace, SubmitAck, SubmitQuery
<1>2. CASE Query \/ CancelSend \/ CancelQuery
  BY <1>2 DEF Query, CancelSend, CancelQuery
<1>3. CASE Reconcile \/ CancelReconcile
  BY <1>3 DEF Reconcile, CancelReconcile, ReconcileRefused, ReconcileStale, ReconcileActive,
     ReconcileTerminal, Continue
<1>4. CASE CancelNotSent \/ CancelAck
  BY <1>4 DEF CancelNotSent, CancelAck, Continue
<1>5. CASE AgeSkipped \/ AgeCount
  BY <1>5 DEF AgeSkipped, AgeCount, CancelFor
<1>6. CASE RecoverListing \/ RecoverClassify \/ RecoverDecide \/ RecoverPosition
           \/ RecoverResume \/ RecoverFinish
  BY <1>6 DEF RecoverListing, RecoverClassify, RecoverDecide, RecoverPosition, RecoverResume,
     RecoverFinish, FailedRecoveryRead, CancelFor
<1> QED
  BY <1>1, <1>2, <1>3, <1>4, <1>5, <1>6 DEF BrokerStep

LEMMA OperationInv ==
    ASSUME IInv, OperationOK, [Next]_vars
    PROVE  OperationOK'
<1> USE DEF OperationOK, SubmitLabels, RecoverLabels
<1>1. CASE Exchange \/ UNCHANGED vars
  BY <1>1, ExchangeFrame DEF callVars
<1>2. CASE Call
  BY <1>2 DEF Call, SubmitRefusedLocally, SubmitRepeated, Submit, Refresh, CancelEntry, Recover,
     Age, Begin, Fails, Raise, Return, ControlOnly, BrokerOnly
<1>3. CASE Process
  BY <1>3 DEF Process, Start, StartupDone, StartupFailed, Crash, DrainEvents, PhaseOnly,
     ProcessEnds, Return, callVars, BrokerOnly
<1> QED
  BY <1>1, <1>2, <1>3, OperationGoesOn DEF Next

LEMMA SubmitKept ==
    ASSUME IInv, OperationOK, SubmitOK, [Next]_vars
    PROVE  SubmitOK'
<1> USE DEF SubmitOK, SubmitLabels
<1>1. CASE Exchange \/ UNCHANGED vars
  BY <1>1, ExchangeFrame DEF callVars, slotVars
<1>2. CASE Call
  BY <1>2 DEF Call, SubmitRefusedLocally, SubmitRepeated, Submit, Refresh, CancelEntry, Recover,
     Age, Begin, Fails, Raise, Return, ControlOnly, BrokerOnly, slotVars
<1>3. CASE Process
  BY <1>3 DEF Process, Start, StartupDone, StartupFailed, Crash, DrainEvents, PhaseOnly,
     ProcessEnds, Return, callVars, slotVars, BrokerOnly
<1>4. CASE SubmitPosition \/ SubmitListing \/ SubmitPlace \/ SubmitAck \/ SubmitQuery
  BY <1>4 DEF SubmitPosition, SubmitListing, SubmitPlace, SubmitAck, SubmitQuery, Goto, Return,
     Raise, Fails, FailedRead, ControlOnly, slotVars
<1>5. CASE BrokerStep /\ pc \notin SubmitLabels
  <2>1. pc' \notin SubmitLabels
    BY <1>5 DEF BrokerStep, SubmitPosition, SubmitListing, SubmitPlace, SubmitAck, SubmitQuery,
       Query, Reconcile, CancelReconcile, ReconcileRefused, ReconcileStale, ReconcileActive,
       ReconcileTerminal, CancelNotSent, CancelSend, CancelAck, CancelQuery, AgeSkipped, AgeCount,
       RecoverListing, RecoverClassify, RecoverDecide, RecoverPosition, RecoverResume,
       RecoverFinish, FailedRecoveryRead, Continue, CancelFor, Goto, Return, Raise, Fails, FailedRead
  <2> QED
    BY <2>1
<1>6. BrokerStep /\ pc \in SubmitLabels
        => SubmitPosition \/ SubmitListing \/ SubmitPlace \/ SubmitAck \/ SubmitQuery
  BY DEF BrokerStep, Query, Reconcile, CancelReconcile, CancelNotSent, CancelSend, CancelAck,
     CancelQuery, AgeSkipped, AgeCount, RecoverListing, RecoverClassify, RecoverDecide,
     RecoverPosition, RecoverResume, RecoverFinish
<1> QED
  BY <1>1, <1>2, <1>3, <1>4, <1>5, <1>6 DEF Next

LEMMA UnendedKept ==
    ASSUME IInv, OperationOK, UnendedOK, [Next]_vars
    PROVE  UnendedOK'
<1> USE DEF UnendedOK, slotVars, ControlOnly
<1>1. CASE Exchange \/ UNCHANGED vars
  BY <1>1, ExchangeFrame DEF callVars
<1>2. CASE Call
  BY <1>2 DEF Call, SubmitRefusedLocally, SubmitRepeated, Submit, Refresh, CancelEntry, Recover,
     Age, Begin, Fails, Raise, Return
<1>3. CASE Process
  BY <1>3 DEF Process, Start, StartupDone, StartupFailed, Crash, DrainEvents, PhaseOnly,
     ProcessEnds, Return, callVars
<1>4. CASE SubmitPosition \/ SubmitListing \/ SubmitPlace \/ SubmitAck \/ SubmitQuery
  BY <1>4 DEF SubmitPosition, SubmitListing, SubmitPlace, SubmitAck, SubmitQuery, Goto, Return,
     Raise, Fails, FailedRead
<1>5. CASE Query \/ CancelSend \/ CancelQuery
  BY <1>5 DEF Query, CancelSend, CancelQuery, Goto, Return, Raise, Fails, FailedRead
<1>6. CASE ReconcileRefused
  BY <1>6 DEF ReconcileRefused, Fails, Raise, Return
<1>7. ASSUME pc \in {"reconcile", "cancel_reconcile"}, NEW ACTION after,
             after => Goto("cancel") \/ Continue \/ Raise("unknown"),
             ReconcileStale(after) \/ ReconcileActive(after) \/ ReconcileTerminal(after)
      PROVE  UnendedOK'
  <2>1. CASE ReconcileStale(after)
    BY <1>7, <2>1 DEF ReconcileStale, IsStaleSnapshot, TerminalStatuses, Goto, Continue, Raise, Return
  <2>2. CASE ReconcileActive(after)
    BY <1>7, <2>2 DEF ReconcileActive, SetSlot, TerminalStatuses, Goto, Continue, Raise, Return
  <2>3. CASE ReconcileTerminal(after)
    <3>1. (slot' = NoEntry /\ after) \/ Raise("persistence")
      BY <2>3 DEF ReconcileTerminal
    <3> QED
      BY <1>7, <3>1 DEF Goto, Continue, Raise, Return, NoEntry, TerminalStatuses
  <2> QED
    BY <1>7, <2>1, <2>2, <2>3
<1>8. CASE Reconcile \/ CancelReconcile
  BY <1>6, <1>7, <1>8 DEF Reconcile, CancelReconcile
<1>9. CASE CancelNotSent \/ CancelAck
  <2>1. slot' # NoEntry => slot'.status = slot.status \/ slot'.status = "CANCEL_REQUESTED"
    BY <1>9 DEF CancelNotSent, CancelAck, SetSlot, Acknowledged, IInv, TypeOK, ControlOK, Entry
  <2>2. pc' \in {"idle", "age_count", "recover_resume", "recover_finish"}
        /\ (pc' = "age_count" => op = "age")
    BY <1>9 DEF CancelNotSent, CancelAck, Continue, Goto, Raise, Return
  <2>3. pc \in {"cancel", "cancel_ack"} /\ op' \in {op, "none"}
    BY <1>9 DEF CancelNotSent, CancelAck, Continue, Goto, Raise, Return
  <2> QED
    BY <2>1, <2>2, <2>3 DEF TerminalStatuses
<1>10. CASE AgeSkipped \/ AgeCount
  BY <1>10 DEF AgeSkipped, AgeCount, ResumeExpiry, StillAges, CancelFor, Fails, Raise, Return, SetSlot,
     AgeRolledBack, IInv, TypeOK, Entry
<1>11. CASE RecoverListing \/ RecoverClassify \/ RecoverDecide \/ RecoverPosition
            \/ RecoverResume \/ RecoverFinish
  BY <1>11 DEF RecoverListing, RecoverClassify, RecoverDecide, RecoverPosition, RecoverResume,
     RecoverFinish, FailedRecoveryRead, ResumeExpiry, CancelFor, Goto, Fails, Raise, Return
<1> QED
  BY <1>1, <1>2, <1>3, <1>4, <1>5, <1>8, <1>9, <1>10, <1>11 DEF Next, BrokerStep

LEMMA StoppedKept ==
    ASSUME IInv, OperationOK, StoppedOK, [Next]_vars
    PROVE  StoppedOK'
<1> USE DEF StoppedOK, eventVars, slotVars, callVars
<1>1. CASE Exchange \/ UNCHANGED vars
  BY <1>1, ExchangeFrame
<1>2. CASE Call
  <2>1. phase # "stopped" /\ phase' = phase
    BY <1>2 DEF Call, SubmitRefusedLocally, SubmitRepeated, Submit, Refresh, CancelEntry, Recover,
       Age, Fails, ControlOnly, BrokerOnly
  <2> QED
    BY <2>1
<1>3. CASE Process
  BY <1>3 DEF Process, Start, StartupDone, StartupFailed, Crash, DrainEvents, PhaseOnly,
     ProcessEnds, Return, BrokerOnly
<1>4. CASE BrokerStep
  <2>1. pc # "idle"
    BY <1>4 DEF BrokerStep, SubmitPosition, SubmitListing, SubmitPlace, SubmitAck, SubmitQuery,
       Query, Reconcile, CancelReconcile, CancelNotSent, CancelSend, CancelAck, CancelQuery,
       AgeSkipped, AgeCount, RecoverListing, RecoverClassify, RecoverDecide, RecoverPosition,
       RecoverResume, RecoverFinish
  <2> QED
    BY <1>4, <2>1, OperationGoesOn DEF OperationOK
<1> QED
  BY <1>1, <1>2, <1>3, <1>4 DEF Next

----------------------------------------------------------------------------
(* The clock.                                                              *)

(* Only the exchange moves the clock, and only forwards.                    *)
LEMMA ClockAdvances ==
    ASSUME [Next]_vars
    PROVE  clock' = clock \/ (clock < MaxCandle /\ clock' = clock + 1)
<1> USE DEF exchangeVars, BrokerOnly, ControlOnly, Fails, FailedRead
<1>1. CASE Exchange
  BY <1>1 DEF Exchange, NewCandle, PositionMoves, ForeignTrade, ForeignOrder, ForeignPosition, Accept, Reject,
     BeginCancel, FinishCancel, CancelElsewhere, OrderMoves, Fill
<1>2. CASE Call
  BY <1>2 DEF Call, SubmitRefusedLocally, SubmitRepeated, Submit, Refresh, CancelEntry,
     Recover, Age
<1>3. CASE SubmitPosition \/ SubmitListing \/ SubmitPlace \/ SubmitAck \/ SubmitQuery
  BY <1>3 DEF SubmitPosition, SubmitListing, SubmitPlace, SubmitAck, SubmitQuery
<1>4. CASE Query \/ Reconcile \/ CancelReconcile
  BY <1>4 DEF Query, Reconcile, CancelReconcile, ReconcileRefused, ReconcileStale,
     ReconcileActive, ReconcileTerminal
<1>5. CASE CancelNotSent \/ CancelSend \/ CancelAck \/ CancelQuery
  BY <1>5 DEF CancelNotSent, CancelSend, CancelAck, CancelQuery
<1>6. CASE AgeSkipped \/ AgeCount
  BY <1>6 DEF AgeSkipped, AgeCount
<1>7. CASE RecoverListing \/ RecoverClassify \/ RecoverDecide \/ RecoverPosition
             \/ RecoverResume \/ RecoverFinish
  BY <1>7 DEF RecoverListing, RecoverClassify, RecoverDecide, RecoverPosition,
     RecoverResume, RecoverFinish, FailedRecoveryRead
<1>8. CASE Process
  BY <1>8 DEF Process, Start, StartupDone, StartupFailed, Crash, DrainEvents,
     PhaseOnly, ProcessEnds
<1>9. CASE UNCHANGED vars
  BY <1>9 DEF vars
<1> QED
  BY <1>1, <1>2, <1>3, <1>4, <1>5, <1>6, <1>7, <1>8, <1>9 DEF Next, BrokerStep

(* An operation's argument is a candle that has completed.                  *)
LEMMA ArgSteps ==
    ASSUME IInv, OperationOK, [Next]_vars
    PROVE  arg' = arg \/ arg' = NoArg \/ arg'.candle \in 0 .. clock
<1>1. CASE Exchange \/ UNCHANGED vars
  BY <1>1, ExchangeFrame DEF callVars
<1>2. CASE Call
  BY <1>2 DEF Call, SubmitRefusedLocally, SubmitRepeated, Submit, Refresh, CancelEntry, Recover,
     Age, Begin, Fails, Raise, Return
<1>3. CASE Process
  BY <1>3 DEF Process, Start, StartupDone, StartupFailed, Crash, DrainEvents, PhaseOnly,
     ProcessEnds, Return, callVars
<1> QED
  BY <1>1, <1>2, <1>3, OperationGoesOn DEF Next

LEMMA ClockKept ==
    ASSUME IInv, OperationOK, ClockOK, [Next]_vars
    PROVE  ClockOK' /\ clock <= clock'
<1>1. clock' \in Nat /\ clock <= clock' /\ clock' <= MaxCandle
  BY ClockAdvances, BoundsAssumption DEF ClockOK, IInv, TypeOK
<1>2. arg'.candle <= clock'
  BY <1>1, ArgSteps DEF ClockOK, NoArg, IInv, TypeOK
<1>3. lastAged' \in {lastAged, arg.candle, store.lastAged, 0}
      /\ store'.lastAged \in {lastAged, arg.candle, store.lastAged, 0}
  BY DataSteps DEF Resaves, Registers, Reconciles, Ends, Acknowledges, Ages, Restores, Empties,
     ProcessEnds, Saves, Restore, RecordOf, NoRecord
<1>4. {lastAged, arg.candle, store.lastAged, 0} \subseteq 0 .. clock /\ clock \in Nat
  BY DEF ClockOK, IInv, TypeOK, Record, NoRecord
<1> QED
  BY <1>1, <1>2, <1>3, <1>4 DEF ClockOK

----------------------------------------------------------------------------
(* The slot and the file.                                                  *)

LEMMA OrdersLater ==
    ASSUME IInv, OrdersOK, [Next]_vars
    PROVE  \A id \in Ids : Later(orders[id], orders'[id])
<1>1. TypeOK' /\ TypeOK
  BY NextInv DEF IInv
<1>3. \A o \in Order : o.filled \in 0 .. Volume
  BY PlacedOrdersAreOrders, PlacedOrderType
<1>2. \A id \in Ids : orders[id].filled \in 0 .. Volume /\ orders'[id].filled \in 0 .. Volume
  BY <1>1, <1>3 DEF TypeOK
<1> QED
  BY <1>2, OrdersInv DEF OrdersAdvanced, Later

(* Counting the candles that are newer than the signal and than the last   *)
(* one counted never counts more of them than there are.                   *)
LEMMA EligibleBound ==
    ASSUME NEW e \in Entry, NEW latest \in Nat, lastAged \in Nat, lastAged <= latest,
           e.age <= IF lastAged > e.signal THEN lastAged - e.signal ELSE 0
    PROVE  e.age + Cardinality(Eligible(e, latest))
             <= IF latest > e.signal THEN latest - e.signal ELSE 0
<1> DEFINE from == IF lastAged > e.signal THEN lastAged ELSE e.signal
<1>1. e.signal \in Nat /\ e.age \in Nat /\ from \in Nat
  BY DEF Entry
<1>2. IsFiniteSet((from + 1) .. latest)
      /\ Cardinality((from + 1) .. latest) = IF from + 1 > latest THEN 0 ELSE latest - (from + 1) + 1
  <2>1. from + 1 \in Int /\ latest \in Int
    BY <1>1
  <2> HIDE DEF from
  <2> QED
    BY <2>1, FS_Interval
<1>3. Eligible(e, latest) \subseteq (from + 1) .. latest
  BY <1>1 DEF Eligible
<1>4. /\ Cardinality(Eligible(e, latest)) <= Cardinality((from + 1) .. latest)
      /\ Cardinality(Eligible(e, latest)) \in Nat
  BY <1>2, <1>3, FS_Subset, EligibleType
<1> QED
  BY <1>1, <1>2, <1>4

(* The entry that a step writes fits its order at that moment.              *)
LEMMA WrittenFits ==
    ASSUME IInv, OperationOK, SubmitOK, ClockOK, SnapOK, SlotOK, StoreOK, UnendedOK, [Next]_vars,
           slot' # NoEntry
    PROVE  \/ slot' = slot /\ lastAged' = lastAged
           \/ /\ slot' \in Entry
              /\ EntryFits(slot', lastAged', orders[slot'.id], clock)
<1>1. CASE Registers
  <2>1. slot' = NewEntry(arg.id, arg.candle) /\ lastAged' = lastAged
    BY <1>1 DEF Registers, Saves, SetSlot
  <2>2. arg.id \in Ids /\ arg.candle \in Nat /\ lastAged \in Nat
    BY <1>1 DEF Registers, SubmitLabels, IInv, ControlOK, TypeOK
  <2>3. NewEntry(arg.id, arg.candle) \in Entry
    BY <2>2, PlacedOrdersAreOrders DEF NewEntry, Entry, PendingEntryStatus, PersistableStatuses
  <2>4. orders[arg.id].filled \in 0 .. Volume
    BY <2>2, OrderFields DEF IInv
  <2> QED
    BY <2>1, <2>2, <2>3, <2>4 DEF EntryFits, FillFieldsValid, NewEntry, TerminalStatuses, ClockOK
<1>2. CASE Reconciles \/ Ends
  <2>1. slot' = Updated(slot, snap) /\ lastAged' = lastAged /\ Reads
    BY <1>2 DEF Reconciles, Ends, Saves, SetSlot
  <2>2. slot \in Entry /\ slot # NoEntry /\ snap \in Snapshot /\ slot.id \in Ids
    BY <2>1 DEF Reads, IInv, TypeOK, ControlOK, Entry
  <2>3. orders[slot.id].filled \in 0 .. Volume /\ lastAged \in Nat /\ clock \in Nat
    BY <2>2, OrderFields DEF IInv, TypeOK
  <2>4. EntryFits(slot, lastAged, orders[slot.id], clock) /\ SnapshotFits(snap, orders[slot.id])
    BY <2>1, <2>2 DEF Reads, SlotOK, SnapOK
  <2>5. Updated(slot, snap) \in Entry /\ Updated(slot, snap).id = slot.id
    BY <2>2, UpdatedType
  <2> QED
    BY <2>1, <2>2, <2>3, <2>4, <2>5, UpdatedFits DEF Reads
<1>3. CASE Acknowledges
  <2>1. slot' = Acknowledged(slot) /\ lastAged' = lastAged /\ slot # NoEntry /\ slot \in Entry
        /\ slot.status \notin TerminalStatuses
    BY <1>3 DEF Acknowledges, Saves, SetSlot, IInv, TypeOK, ControlOK, UnendedOK
  <2>2. EntryFits(slot, lastAged, orders[slot.id], clock)
    BY <2>1 DEF SlotOK
  <2>3. slot' = [slot EXCEPT !.status = "CANCEL_REQUESTED"]
    BY <2>1 DEF Acknowledged
  <2>4. slot.filled < Volume
    BY <2>1, <2>2, VolumeAssumption DEF EntryFits, FillFieldsValid, Entry, TerminalStatuses,
       PendingEntryStatus
  <2> QED
    BY <2>1, <2>2, <2>3, <2>4 DEF EntryFits, FillFieldsValid, Entry, TerminalStatuses,
       PendingEntryStatus, PersistableStatuses
<1>4. CASE Ages
  <2> DEFINE age == slot.age + Cardinality(Eligible(slot, arg.candle))
  <2>1. slot \in Entry /\ slot # NoEntry /\ arg.candle \in Nat /\ lastAged \in Nat
        /\ lastAged <= arg.candle /\ slot.status \notin TerminalStatuses
    BY <1>4 DEF Ages, StillAges, IInv, TypeOK, UnendedOK
  <2>2. EntryFits(slot, lastAged, orders[slot.id], clock)
    BY <2>1 DEF SlotOK
  <2>3. age <= (IF arg.candle > slot.signal THEN arg.candle - slot.signal ELSE 0) /\ age \in Nat
    BY <2>1, <2>2, EligibleBound, EligibleType DEF EntryFits, Entry
  <2>4. slot' = [slot EXCEPT !.age = age, !.expiry = (age >= TTL)] /\ lastAged' = arg.candle
    BY <1>4, <2>1 DEF Ages, SetSlot, AgedEntry, Entry
  <2>5. (age >= TTL) \in BOOLEAN
    OBVIOUS
  <2> HIDE DEF age
  <2> QED
    BY <2>1, <2>2, <2>3, <2>4, <2>5 DEF EntryFits, FillFieldsValid, Entry
<1>5. CASE Restores
  BY <1>5 DEF Restores, Restore, SetSlot, StoreOK, IInv, TypeOK, Record
<1> QED
  BY <1>1, <1>2, <1>3, <1>4, <1>5, DataSteps
     DEF Resaves, Empties, ProcessEnds

LEMMA SlotKept ==
    ASSUME IInv, OperationOK, SubmitOK, ClockOK, OrdersOK, SnapOK, SlotOK, StoreOK, UnendedOK,
           [Next]_vars
    PROVE  SlotOK'
<1> SUFFICES ASSUME slot' # NoEntry
             PROVE  EntryFits(slot', lastAged', orders'[slot'.id], clock')
  BY DEF SlotOK
<1>1. slot' \in Entry /\ slot'.id \in Ids /\ lastAged' \in Nat /\ clock \in Nat /\ clock' \in Nat
  BY NextInv DEF IInv, TypeOK, Entry
<1>2. EntryFits(slot', lastAged', orders[slot'.id], clock)
  BY WrittenFits DEF SlotOK
<1> QED
  BY <1>1, <1>2, OrdersLater, ClockKept, EntryFitsLater

(* The file is left alone, removed, or holds the entry that is now in the   *)
(* slot.                                                                    *)
LEMMA StoreSteps ==
    ASSUME IInv, UnendedOK, [Next]_vars
    PROVE  \/ store' = store
           \/ store' = NoRecord
           \/ /\ store' = [entry |-> slot', lastAged |-> lastAged']
              /\ slot' # NoEntry /\ slot'.status \notin TerminalStatuses
<1>1. CASE Resaves \/ Restores \/ Empties \/ ProcessEnds \/ Ends
  BY <1>1 DEF Resaves, RecordOf, Restores, Empties, ProcessEnds, Ends
<1>2. CASE Registers
  BY <1>2 DEF Registers, Saves, SetSlot, RecordOf, NewEntry, NoEntry, TerminalStatuses
<1>3. CASE Reconciles
  <2>1. Updated(slot, snap) \in Entry
    BY <1>3, UpdatedType DEF Reconciles, Reads, IInv, TypeOK, ControlOK
  <2> QED
    BY <1>3, <2>1, EntryNotNone DEF Reconciles, Saves, SetSlot, RecordOf
<1>4. CASE Acknowledges
  <2>1. Acknowledged(slot) \in Entry /\ Acknowledged(slot).status = "CANCEL_REQUESTED"
    BY <1>4 DEF Acknowledges, Acknowledged, IInv, TypeOK, ControlOK, Entry, PendingEntryStatus,
       PersistableStatuses
  <2> QED
    BY <1>4, <2>1, EntryNotNone DEF Acknowledges, Saves, SetSlot, RecordOf, TerminalStatuses
<1>5. CASE Ages
  <2>1. slot' # NoEntry
    BY <1>5 DEF Ages, SetSlot, AgedEntry, StillAges, IInv, TypeOK, Entry, NoEntry,
       PendingEntryStatus, PersistableStatuses, TerminalStatuses
  <2>2. slot'.status = slot.status
    BY <1>5 DEF Ages, SetSlot, AgedEntry, StillAges, IInv, TypeOK, Entry
  <2> QED
    BY <1>5, <2>1, <2>2 DEF Ages, SetSlot, UnendedOK, StillAges
<1> QED
  BY <1>1, <1>2, <1>3, <1>4, <1>5, DataSteps

LEMMA StoreKept ==
    ASSUME IInv, OperationOK, SubmitOK, ClockOK, OrdersOK, SnapOK, SlotOK, StoreOK, UnendedOK,
           [Next]_vars
    PROVE  StoreOK'
<1>1. CASE store' = NoRecord
  BY <1>1 DEF StoreOK
<1>2. CASE store' = store /\ store # NoRecord
  <2>1. store.entry \in Entry /\ store.entry.id \in Ids /\ store.lastAged \in Nat
        /\ clock \in Nat /\ clock' \in Nat
    BY <1>2, NextInv DEF IInv, TypeOK, Record, Entry
  <2> QED
    BY <1>2, <2>1, OrdersLater, ClockKept, EntryFitsLater DEF StoreOK
<1>3. CASE /\ store' = [entry |-> slot', lastAged |-> lastAged']
           /\ slot' # NoEntry /\ slot'.status \notin TerminalStatuses
  <2>1. slot' \in Entry
    BY <1>3, NextInv DEF IInv, TypeOK
  <2> QED
    BY <1>3, <2>1, SlotKept DEF SlotOK, StoreOK, Encodable, Entry, PendingEntryStatus
<1> QED
  BY <1>1, <1>2, <1>3, StoreSteps

LEMMA MatchKept ==
    ASSUME IInv, OperationOK, SubmitOK, SnapOK, SlotOK, UnendedOK, MatchOK, HeldOK, [Next]_vars
    PROVE  MatchOK'
<1>1. CASE /\ store' = [entry |-> slot', lastAged |-> lastAged']
           /\ slot' # NoEntry
  <2>1. slot' \in Entry
    BY <1>1, NextInv DEF IInv, TypeOK
  <2> QED
    BY <1>1, <2>1 DEF MatchOK, Entry
<1>2. CASE store' = NoRecord \/ slot' = NoEntry
  BY <1>2 DEF MatchOK
<1>3. CASE store' = store /\ store # NoRecord /\ slot' # NoEntry
  <2>1. store.entry \in Entry
    BY <1>3 DEF IInv, TypeOK, Record
  <2>2. CASE UNCHANGED <<slot, store, known, lastAged>> \/ Resaves
    BY <1>3, <2>2 DEF MatchOK, Resaves
  <2>3. CASE Registers
    BY <1>3, <2>3 DEF Registers, SubmitOK, HeldOK, OperationOK, BeforeRestore, SubmitLabels
  <2>4. CASE Reconciles \/ Ends
    <3>1. slot' = Updated(slot, snap) /\ lastAged' = lastAged /\ Reads
      BY <1>3, <2>4 DEF Reconciles, Ends, Saves, SetSlot
    <3>2. slot \in Entry /\ slot # NoEntry /\ snap \in Snapshot /\ slot.id \in Ids
      BY <3>1 DEF Reads, IInv, TypeOK, ControlOK, Entry
    <3>3. orders[slot.id].filled \in 0 .. Volume /\ lastAged \in Nat /\ clock \in Nat
      BY <3>2, OrderFields DEF IInv, TypeOK
    <3>4. EntryFits(slot, lastAged, orders[slot.id], clock) /\ SnapshotFits(snap, orders[slot.id])
      BY <3>1, <3>2 DEF Reads, SlotOK, SnapOK
    <3>5. /\ slot'.id = slot.id /\ slot'.age = slot.age /\ slot'.expiry = slot.expiry
          /\ slot'.filled >= slot.filled
          /\ slot.status \in {"CANCEL_REQUESTED"} \cup TerminalStatuses
               => slot'.status \in TerminalStatuses \cup {"CANCEL_REQUESTED"}
      BY <3>1, <3>2, <3>3, <3>4, UpdatedFits DEF Reads
    <3>6. slot' \in Entry
      BY <3>1, <3>2, UpdatedType
    <3> QED
      BY <1>3, <2>1, <3>1, <3>2, <3>5, <3>6 DEF MatchOK, Entry
  <2>5. CASE Acknowledges
    <3>1. slot' = [slot EXCEPT !.status = "CANCEL_REQUESTED"] /\ lastAged' = lastAged
          /\ slot # NoEntry /\ slot \in Entry
      BY <2>5 DEF Acknowledges, Saves, SetSlot, Acknowledged, IInv, TypeOK, ControlOK
    <3> QED
      BY <1>3, <3>1 DEF MatchOK, Entry
  <2>6. CASE Ages
    <3>1. store' = [entry |-> slot', lastAged |-> lastAged']
      BY <2>6 DEF Ages, SetSlot
    <3> QED
      BY <1>1, <1>3, <3>1
  <2>7. CASE Restores
    BY <2>1, <2>7 DEF Restores, Restore, SetSlot, MatchOK, Entry
  <2> QED
    BY <1>3, <2>2, <2>3, <2>4, <2>5, <2>6, <2>7, DataSteps DEF Empties, ProcessEnds
<1> QED
  BY <1>1, <1>2, <1>3, StoreSteps

(* A restart passes the point of decision in one of two steps only.        *)
LEMMA LeavesRestore ==
    ASSUME IInv, OperationOK, StoppedOK, [Next]_vars, phase' = "starting", ~BeforeRestore'
    PROVE  /\ phase = "starting"
           /\ \/ ~BeforeRestore
              \/ /\ pc = "recover_decide" /\ ~RecoveryBlocked
                 /\ Empties \/ (Owned = {} /\ Restores)
                 /\ UNCHANGED <<orders, position>>
              \/ /\ pc = "recover_position" /\ position = "none" /\ Restores
                 /\ UNCHANGED <<orders, position>>
<1> USE DEF BeforeRestore
<1>1. CASE Exchange \/ UNCHANGED vars
  BY <1>1, ExchangeFrame DEF callVars
<1>2. CASE Call
  BY <1>2 DEF Call, SubmitRefusedLocally, SubmitRepeated, Submit, Refresh, CancelEntry, Recover,
     Age, Begin, ControlOnly, BrokerOnly, Fails
<1>3. CASE Process
  BY <1>3 DEF Process, Start, StartupDone, StartupFailed, Crash, DrainEvents, PhaseOnly,
     ProcessEnds, Return, callVars, BrokerOnly, OperationOK, StoppedOK
<1>4. CASE RecoverListing \/ RecoverClassify
  BY <1>4 DEF RecoverListing, RecoverClassify, FailedRecoveryRead, Fails, Raise, Return
<1>5. CASE RecoverDecide
  <2>1. CASE RecoveryBlocked
    BY <1>5, <2>1 DEF RecoverDecide, Fails, Raise, Return
  <2>2. CASE ~RecoveryBlocked
    BY <1>5, <2>2 DEF RecoverDecide, Goto, Empties, Restores, BrokerOnly, exchangeVars
  <2> QED
    BY <2>1, <2>2
<1>6. CASE RecoverPosition
  BY <1>6 DEF RecoverPosition, FailedRecoveryRead, Fails, Raise, Return, Goto, Restores,
     BrokerOnly, exchangeVars, IInv, ControlOK
<1>7. CASE BrokerStep /\ ~(RecoverListing \/ RecoverClassify \/ RecoverDecide \/ RecoverPosition)
  <2>1. ~BeforeRestore
    BY <1>7 DEF BrokerStep, SubmitPosition, SubmitListing, SubmitPlace, SubmitAck, SubmitQuery,
       Query, Reconcile, CancelReconcile, CancelNotSent, CancelSend, CancelAck, CancelQuery,
       AgeSkipped, AgeCount, RecoverResume, RecoverFinish
  <2> QED
    BY <1>7, <2>1, OperationGoesOn
<1> QED
  BY <1>1, <1>2, <1>3, <1>4, <1>5, <1>6, <1>7 DEF Next

(* The phases of a process.                                                *)
LEMMA PhaseSteps ==
    ASSUME IInv, [Next]_vars
    PROVE  \/ phase' = phase
           \/ /\ phase = "stopped" /\ phase' = "starting"
              /\ UNCHANGED <<exchangeVars, store, slotVars, eventVars, callVars, unconfirmed>>
           \/ /\ phase = "starting" /\ phase' = "running" /\ pc = "idle" /\ outcome = "ok"
              /\ UNCHANGED <<exchangeVars, store, slotVars, eventVars, callVars, unconfirmed>>
           \/ ProcessEnds
<1>1. CASE Exchange \/ UNCHANGED vars
  BY <1>1, ExchangeFrame
<1>2. CASE Call
  BY <1>2 DEF Call, SubmitRefusedLocally, SubmitRepeated, Submit, Refresh, CancelEntry, Recover,
     Age, ControlOnly, BrokerOnly, Fails
<1>3. CASE Process
  BY <1>3 DEF Process, Start, StartupDone, StartupFailed, Crash, DrainEvents, PhaseOnly, BrokerOnly
<1>4. CASE BrokerStep
  BY <1>4 DEF BrokerStep, SubmitPosition, SubmitListing, SubmitPlace, SubmitAck, SubmitQuery,
     Query, Reconcile, CancelReconcile, ReconcileRefused, ReconcileStale, ReconcileActive,
     ReconcileTerminal, CancelNotSent, CancelSend, CancelAck, CancelQuery, AgeSkipped, AgeCount,
     RecoverListing, RecoverClassify, RecoverDecide, RecoverPosition, RecoverResume,
     RecoverFinish, FailedRecoveryRead, Fails, FailedRead, ControlOnly, BrokerOnly
<1> QED
  BY <1>1, <1>2, <1>3, <1>4 DEF Next

(* The steps that leave an entry in the slot.                               *)
LEMMA WritesEntry ==
    ASSUME IInv, [Next]_vars,
           Resaves \/ Registers \/ Reconciles \/ Acknowledges \/ Ages \/ Restores
    PROVE  slot' # NoEntry
<1>1. CASE Resaves
  BY <1>1 DEF Resaves
<1>2. CASE Registers
  BY <1>2 DEF Registers, Saves, SetSlot, NewEntry, NoEntry
<1>3. CASE Reconciles
  BY <1>3, UpdatedType, EntryNotNone DEF Reconciles, Reads, Saves, SetSlot, IInv, TypeOK, ControlOK
<1>4. CASE Acknowledges
  BY <1>4 DEF Acknowledges, Saves, SetSlot, Acknowledged, IInv, TypeOK, ControlOK, Entry, NoEntry
<1>5. CASE Ages
  BY <1>5 DEF Ages, SetSlot, AgedEntry, StillAges, IInv, TypeOK, Entry, NoEntry,
     PendingEntryStatus, PersistableStatuses, TerminalStatuses
<1>6. CASE Restores
  BY <1>6, EntryNotNone DEF Restores, Restore, SetSlot, IInv, TypeOK, Record
<1> QED
  BY <1>1, <1>2, <1>3, <1>4, <1>5, <1>6

(* Only the end of the process empties the slot and leaves the file, and a  *)
(* process that is starting has nothing in its slot but what the file held. *)
LEMMA HeldKept ==
    ASSUME IInv, OperationOK, StoppedOK, HeldOK, [Next]_vars
    PROVE  HeldOK'
<1>1. ASSUME store' # NoRecord, slot' = NoEntry
      PROVE  phase' = "stopped" \/ (phase' = "starting" /\ BeforeRestore')
  <2>1. CASE ProcessEnds
    BY <2>1 DEF ProcessEnds
  <2>2. CASE ~ProcessEnds
    <3>1. UNCHANGED <<slot, store>>
      <4>1. ~Ends
        BY <1>1, UpdatedType, EntryNotNone DEF Ends, Reads, IInv, TypeOK, ControlOK
      <4> QED
        BY <1>1, <2>2, <4>1, WritesEntry, DataSteps DEF Empties
    <3>2. phase = "stopped" \/ (phase = "starting" /\ BeforeRestore)
      BY <1>1, <3>1 DEF HeldOK
    <3>3. phase' \in {"stopped", "starting"}
      BY <2>2, <3>2, PhaseSteps DEF BeforeRestore
    <3>4. ~Restores /\ ~Empties
      BY <1>1, <3>1, WritesEntry DEF Empties
    <3> QED
      BY <1>1, <3>2, <3>3, <3>4, LeavesRestore DEF StoppedOK, OperationOK
  <2> QED
    BY <2>1, <2>2
<1>2. ASSUME phase' = "starting", slot' # NoEntry
      PROVE  store' # NoRecord
  <2>1. phase \in {"stopped", "starting"} /\ ~ProcessEnds
    BY <1>2, PhaseSteps DEF ProcessEnds
  <2>2. CASE UNCHANGED <<slot, store, known, lastAged>>
    BY <1>2, <2>1, <2>2 DEF HeldOK, StoppedOK
  <2>3. CASE Resaves \/ Reconciles \/ Acknowledges \/ Ages
    <3>1. phase = "starting"
      BY <2>1, <2>3 DEF Resaves, Reconciles, Reads, Acknowledges, Ages, StoppedOK, OperationOK
    <3>2. slot # NoEntry
      BY <2>3 DEF Resaves, Reconciles, Reads, Acknowledges, Ages, StillAges, IInv, ControlOK
    <3>3. store' = store \/ store'.entry = slot'
      BY <2>3 DEF Resaves, RecordOf, Reconciles, Acknowledges, Ages, Saves, SetSlot
    <3> QED
      BY <1>2, <3>1, <3>2, <3>3 DEF HeldOK, NoRecord
  <2>4. CASE Ends
    BY <1>2, <2>1, <2>4 DEF Ends, Reads, IInv, ControlOK, HeldOK, StoppedOK, OperationOK
  <2> QED
    BY <1>2, <2>1, <2>2, <2>3, <2>4, DataSteps
       DEF Registers, SubmitLabels, OperationOK, Restores, Empties
<1> QED
  BY <1>1, <1>2 DEF HeldOK

----------------------------------------------------------------------------
(* What has been read.                                                     *)

ReadLabels == {"reconcile", "cancel_reconcile", "recover_classify", "recover_decide",
               "recover_position"}

(* The steps that go on to a label where a snapshot is used.                *)
LEMMA ReadSteps ==
    ASSUME IInv, OperationOK, [Next]_vars, pc' \in ReadLabels
    PROVE  \/ Exchange \/ UNCHANGED vars
           \/ Query \/ SubmitQuery \/ CancelQuery
           \/ RecoverListing \/ RecoverClassify \/ RecoverDecide \/ RecoverPosition
<1> USE DEF ReadLabels
<1>1. CASE Call
  BY <1>1 DEF Call, SubmitRefusedLocally, SubmitRepeated, Submit, Refresh, CancelEntry, Recover,
     Age, Begin, Fails, Raise, Return
<1>2. CASE Process
  BY <1>2 DEF Process, Start, StartupDone, StartupFailed, Crash, DrainEvents, PhaseOnly,
     ProcessEnds, Return, callVars, OperationOK
<1>3. CASE SubmitPosition \/ SubmitListing \/ SubmitPlace \/ SubmitAck \/ CancelSend
  BY <1>3 DEF SubmitPosition, SubmitListing, SubmitPlace, SubmitAck, CancelSend, Goto, Return,
     Raise, Fails, FailedRead
<1>4. CASE Reconcile \/ CancelReconcile
  BY <1>4 DEF Reconcile, CancelReconcile, ReconcileRefused, ReconcileStale, ReconcileActive,
     ReconcileTerminal, Continue, Goto, Return, Raise, Fails
<1>5. CASE CancelNotSent \/ CancelAck \/ AgeSkipped \/ AgeCount \/ RecoverResume \/ RecoverFinish
  BY <1>5 DEF CancelNotSent, CancelAck, AgeSkipped, AgeCount, RecoverResume, RecoverFinish,
     Continue, CancelFor, Goto, Return, Raise, Fails
<1> QED
  BY <1>1, <1>2, <1>3, <1>4, <1>5 DEF Next, BrokerStep

LEMMA SnapKept ==
    ASSUME IInv, OperationOK, OrdersOK, SnapOK, [Next]_vars
    PROVE  SnapOK'
<1> USE DEF Fails, FailedRead, Raise, Return, Goto
<1> DEFINE classified == pc \in {"recover_classify", "recover_decide"}
<1>1. CASE pc' \notin ReadLabels
  BY <1>1 DEF SnapOK, ReadLabels
<1>2. CASE (Exchange \/ UNCHANGED vars) /\ pc' \in ReadLabels
  <2>1. UNCHANGED <<pc, snap, listed, slot, store>>
    BY <1>2, ExchangeFrame DEF callVars, slotVars
  <2>2. pc \in {"reconcile", "cancel_reconcile"} => slot.id \in Ids /\ snap \in Snapshot
    BY DEF IInv, TypeOK, ControlOK, Entry
  <2>3. classified /\ Owned # {} => snap \in Snapshot
    BY DEF IInv, TypeOK, ControlOK
  <2>4. pc = "recover_position" => store.entry.id \in Ids /\ snap \in Snapshot
    BY DEF IInv, TypeOK, ControlOK, Entry, Record
  <2>5. ASSUME NEW id \in Ids, SnapshotFits(snap, orders[id]), snap \in Snapshot
        PROVE  SnapshotFits(snap, orders'[id])
    BY <2>5, OrdersLater, SnapshotFitsLater
  <2> QED
    BY <2>1, <2>2, <2>3, <2>4, <2>5 DEF SnapOK, Owned
<1>3. CASE (Query \/ CancelQuery) /\ pc' \in ReadLabels
  <2>1. PICK view \in Views(slot.id) : snap' = SnapshotOf(view)
    BY <1>3 DEF Query, CancelQuery, ReadLabels
  <2>2. orders[slot.id] # NoOrder /\ UNCHANGED <<slot, orders>>
        /\ pc' \in {"reconcile", "cancel_reconcile"}
    BY <1>3 DEF Query, CancelQuery, ReadLabels, ControlOnly, BrokerOnly, slotVars, exchangeVars
  <2>3. slot.id \in Ids
    BY <1>3 DEF Query, CancelQuery, IInv, TypeOK, ControlOK, Entry
  <2> QED
    BY <2>1, <2>2, <2>3, ViewFits DEF SnapOK, IInv
<1>4. CASE SubmitQuery /\ pc' \in ReadLabels
  <2>1. PICK view \in Views(arg.id) : snap' = SnapshotOf(view)
    BY <1>4 DEF SubmitQuery, ReadLabels
  <2>2. orders[arg.id] # NoOrder /\ UNCHANGED orders /\ pc' = "reconcile" /\ arg.id \in Ids
        /\ slot' = NewEntry(arg.id, arg.candle)
    BY <1>4 DEF SubmitQuery, ReadLabels, BrokerOnly, exchangeVars, Register, SetSlot, IInv, ControlOK
  <2> QED
    BY <2>1, <2>2, ViewFits DEF SnapOK, IInv, NewEntry
<1>5. CASE RecoverListing /\ pc' \in ReadLabels
  <2>1. /\ Owned' = ActiveIds /\ UNCHANGED orders
        /\ pc' \in {"recover_classify", "recover_decide"}
        /\ ActiveIds # {} => snap' \in {SnapshotOf(orders[id]) : id \in ActiveIds}
    BY <1>5, IdsAssumption DEF RecoverListing, ReadLabels, FailedRecoveryRead, ControlOnly,
       BrokerOnly, exchangeVars, Owned, ActiveIds
  <2>2. ASSUME NEW id \in Ids, Owned' = {id}
        PROVE  SnapshotFits(snap', orders'[id])
    <3>1. snap' = SnapshotOf(orders[id]) /\ IsActive(id)
      BY <2>1, <2>2 DEF ActiveIds
    <3>2. orders[id] # NoOrder /\ orders[id] \in Views(id)
      BY <3>1, PlacedOrdersAreOrders DEF Views, IsActive, ActiveBybitStatus
    <3> QED
      BY <2>1, <3>1, <3>2, ViewFits DEF IInv
  <2> QED
    BY <2>1, <2>2 DEF SnapOK
<1>6. CASE RecoverClassify /\ pc' \in ReadLabels
  <2>1. Owned' = Owned /\ UNCHANGED <<orders, snap>> /\ pc' = "recover_decide"
        /\ pc = "recover_classify"
    BY <1>6, IdsAssumption DEF RecoverClassify, ReadLabels, FailedRecoveryRead, ControlOnly,
       BrokerOnly, exchangeVars, Owned
  <2> QED
    BY <2>1 DEF SnapOK
<1>7. CASE RecoverDecide /\ pc' \in ReadLabels
  <2>1. /\ pc' = "recover_position" /\ UNCHANGED <<orders, snap, store>> /\ pc = "recover_decide"
        /\ ~RecoveryBlocked /\ Owned # {} /\ store # NoRecord
    BY <1>7 DEF RecoverDecide, ReadLabels, ControlOnly, BrokerOnly, exchangeVars
  <2>2. Owned = {store.entry.id} /\ store.entry.id \in Ids
    BY <2>1 DEF RecoveryBlocked, IInv, TypeOK, Record, Entry
  <2> QED
    BY <2>1, <2>2 DEF SnapOK
<1>8. CASE RecoverPosition /\ pc' \in ReadLabels
  BY <1>8 DEF RecoverPosition, ReadLabels, FailedRecoveryRead, Restore, SetSlot, BrokerOnly,
     exchangeVars, SnapOK
<1> QED
  BY <1>1, <1>2, <1>3, <1>4, <1>5, <1>6, <1>7, <1>8, ReadSteps

----------------------------------------------------------------------------
(* Which orders may be active.                                             *)

LEMMA ActiveSteps ==
    ASSUME IInv, OrdersOK, [Next]_vars, NEW id \in Ids, IsActive(id)'
    PROVE  IsActive(id) \/ (SubmitPlace /\ id = arg.id)
<1>1. CASE SubmitPlace /\ id # arg.id
  <2>1. orders'[id] = orders[id]
    BY <1>1 DEF SubmitPlace, Placed, IInv, TypeOK, ControlOK
  <2> QED
    BY <2>1 DEF IsActive
<1>2. CASE UNCHANGED orders
  BY <1>2 DEF IsActive
<1>3. CASE CancelSend
  BY <1>3 DEF CancelSend, CancelRequested, IsActive, IInv, TypeOK
<1>4. CASE Exchange
  BY <1>4 DEF Exchange, NewCandle, PositionMoves, ForeignTrade, ForeignOrder, ForeignPosition, OrderMoves, Accept, Reject,
     BeginCancel, FinishCancel, CancelElsewhere, Fill, IsActive, ActiveBybitStatus, IInv, TypeOK
<1> QED
  BY <1>1, <1>2, <1>3, <1>4, OrdersFrame

(* The end that a reconciliation finds is the order's end.                  *)
LEMMA EndsAreEnds ==
    ASSUME IInv, SnapOK, SlotOK, [Next]_vars, Ends
    PROVE  /\ slot # NoEntry /\ slot.id \in Ids /\ orders[slot.id].status \in EndedStatus
           /\ EntryFits(Updated(slot, snap), lastAged, orders[slot.id], clock)
<1>1. Reads /\ Updated(slot, snap).status \in TerminalStatuses
  BY DEF Ends
<1>2. slot \in Entry /\ slot # NoEntry /\ snap \in Snapshot /\ slot.id \in Ids
  BY <1>1 DEF Reads, IInv, TypeOK, ControlOK, Entry
<1>3. orders[slot.id].filled \in 0 .. Volume /\ lastAged \in Nat /\ clock \in Nat
  BY <1>2, OrderFields DEF IInv, TypeOK
<1>4. EntryFits(slot, lastAged, orders[slot.id], clock) /\ SnapshotFits(snap, orders[slot.id])
  BY <1>1, <1>2 DEF Reads, SlotOK, SnapOK
<1>5. EntryFits(Updated(slot, snap), lastAged, orders[slot.id], clock)
  BY <1>1, <1>2, <1>3, <1>4, UpdatedFits DEF Reads
<1> QED
  BY <1>1, <1>2, <1>5 DEF EntryFits

(* An entry leaves the slot when its end is found, or with the process.     *)
LEMMA SlotKeepsId ==
    ASSUME IInv, OperationOK, SubmitOK, MatchOK, HeldOK, [Next]_vars, slot # NoEntry
    PROVE  \/ slot' # NoEntry /\ slot'.id = slot.id
           \/ Ends /\ slot' = NoEntry /\ store' = NoRecord
           \/ ProcessEnds
<1>1. slot \in Entry
  BY DEF IInv, TypeOK
<1>2. CASE Reconciles \/ Ends
  BY <1>1, <1>2, UpdatedType, EntryNotNone DEF Reconciles, Ends, Reads, Saves, SetSlot, IInv, TypeOK,
     ControlOK
<1>3. CASE Acknowledges
  BY <1>1, <1>3, WritesEntry DEF Acknowledges, Saves, SetSlot, Acknowledged, Entry
<1>4. CASE Ages
  BY <1>1, <1>4, WritesEntry DEF Ages, SetSlot, AgedEntry, Entry
<1>5. CASE Restores
  BY <1>5, WritesEntry DEF Restores, Restore, SetSlot, MatchOK
<1>6. ~Empties
  BY DEF Empties, OperationOK, RecoverLabels, HeldOK, IInv, TypeOK
<1> QED
  BY <1>2, <1>3, <1>4, <1>5, <1>6, DataSteps DEF Resaves, Registers, SubmitOK

LEMMA UnconfirmedGrows ==
    ASSUME [Next]_vars
    PROVE  unconfirmed \subseteq unconfirmed' \/ ProcessEnds
<1>1. CASE Exchange \/ UNCHANGED vars
  BY <1>1, ExchangeFrame
<1>2. CASE Call
  BY <1>2 DEF Call, SubmitRefusedLocally, SubmitRepeated, Submit, Refresh, CancelEntry, Recover,
     Age, ControlOnly, BrokerOnly, Fails
<1>3. CASE Process
  BY <1>3 DEF Process, Start, StartupDone, StartupFailed, Crash, DrainEvents, PhaseOnly, BrokerOnly
<1>4. CASE BrokerStep
  BY <1>4 DEF BrokerStep, SubmitPosition, SubmitListing, SubmitPlace, SubmitAck, SubmitQuery,
     Query, Reconcile, CancelReconcile, ReconcileRefused, ReconcileStale, ReconcileActive,
     ReconcileTerminal, CancelNotSent, CancelSend, CancelAck, CancelQuery, AgeSkipped, AgeCount,
     RecoverListing, RecoverClassify, RecoverDecide, RecoverPosition, RecoverResume,
     RecoverFinish, FailedRecoveryRead, Fails, FailedRead, ControlOnly, BrokerOnly
<1> QED
  BY <1>1, <1>2, <1>3, <1>4 DEF Next

(* While an order waits for its acknowledgement, the next step of the       *)
(* process registers it.                                                    *)
LEMMA AckFollows ==
    ASSUME IInv, OperationOK, [Next]_vars, pc = "submit_ack"
    PROVE  \/ pc' = "submit_ack" /\ arg' = arg
           \/ slot' # NoEntry /\ slot'.id = arg.id
           \/ ProcessEnds
<1>1. CASE Exchange \/ UNCHANGED vars
  BY <1>1, ExchangeFrame DEF callVars
<1>2. CASE Call
  BY <1>2 DEF Call, SubmitRefusedLocally, SubmitRepeated, Submit, Refresh, CancelEntry, Recover,
     Age, Begin
<1>3. CASE Process
  BY <1>3 DEF Process, Start, StartupDone, StartupFailed, Crash, DrainEvents, PhaseOnly, callVars
<1>4. CASE BrokerStep
  <2>1. SubmitAck
    BY <1>4 DEF BrokerStep, SubmitPosition, SubmitListing, SubmitPlace, SubmitQuery,
       Query, Reconcile, CancelReconcile, CancelNotSent, CancelSend, CancelAck, CancelQuery,
       AgeSkipped, AgeCount, RecoverListing, RecoverClassify, RecoverDecide, RecoverPosition,
       RecoverResume, RecoverFinish
  <2> QED
    BY <2>1 DEF SubmitAck, Register, SetSlot, NewEntry, NoEntry
<1> QED
  BY <1>1, <1>2, <1>3, <1>4 DEF Next

LEMMA AccountedKept ==
    ASSUME IInv, OperationOK, StoppedOK, SubmitOK, OrdersOK, SnapOK, SlotOK, MatchOK, HeldOK,
           AccountedOK, [Next]_vars
    PROVE  AccountedOK'
<1>1. ASSUME NEW id \in Ids, IsActive(id), IsActive(id)', slot # NoEntry, slot.id = id, ~ProcessEnds
      PROVE  slot' # NoEntry /\ slot'.id = id
  BY <1>1, SlotKeepsId, EndsAreEnds DEF IsActive, ActiveBybitStatus, EndedStatus
<1>2. ASSUME phase' = "running", NEW id \in ActiveIds'
      PROVE  \/ id \in unconfirmed'
             \/ slot' # NoEntry /\ slot'.id = id
             \/ pc' = "submit_ack" /\ arg'.id = id
  <2>1. id \in Ids /\ IsActive(id)' /\ ~ProcessEnds
    BY <1>2 DEF ActiveIds, ProcessEnds
  <2>2. CASE SubmitPlace /\ id = arg.id /\ ~IsActive(id)
    BY <2>1, <2>2 DEF SubmitPlace, Goto, IsActive
  <2>3. CASE IsActive(id) /\ phase = "running"
    <3>1. id \in unconfirmed \/ (slot # NoEntry /\ slot.id = id) \/ (pc = "submit_ack" /\ arg.id = id)
      BY <2>1, <2>3 DEF AccountedOK, ActiveIds
    <3> QED
      BY <1>1, <2>1, <2>3, <3>1, UnconfirmedGrows, AckFollows
  <2>4. CASE IsActive(id) /\ phase # "running"
    <3>1. phase = "starting" /\ pc = "idle" /\ outcome = "ok" /\ slot' = slot
      BY <1>2, <2>1, <2>4, PhaseSteps DEF slotVars
    <3> QED
      BY <2>1, <2>4, <3>1 DEF AccountedOK, BeforeRestore, ActiveIds
  <2> QED
    BY <2>1, <2>2, <2>3, <2>4, ActiveSteps
<1>3. ASSUME pc' \in {"recover_classify", "recover_decide", "recover_position"}
      PROVE  ActiveIds' \subseteq ActiveIds
  <2>1. ~SubmitPlace
    BY <1>3 DEF SubmitPlace, Goto, Return
  <2> QED
    BY <2>1, ActiveSteps DEF ActiveIds
<1>4. ASSUME pc' \in {"recover_classify", "recover_decide"}
      PROVE  ActiveIds' \subseteq listed'
  <2>1. CASE Exchange \/ UNCHANGED vars
    BY <1>3, <1>4, <2>1, ExchangeFrame DEF callVars, AccountedOK
  <2>2. CASE RecoverListing
    BY <1>3, <1>4, <2>2 DEF RecoverListing, FailedRecoveryRead, Fails, Raise, Return
  <2>3. CASE RecoverClassify
    BY <1>3, <1>4, <2>3, IdsAssumption DEF RecoverClassify, FailedRecoveryRead, Return, AccountedOK,
       ActiveIds
  <2>4. ~Query /\ ~SubmitQuery /\ ~CancelQuery /\ ~RecoverDecide /\ ~RecoverPosition
    BY <1>4 DEF Query, SubmitQuery, CancelQuery, RecoverDecide, RecoverPosition, FailedRead,
       FailedRecoveryRead, Fails, Raise, Return, Goto
  <2> QED
    BY <1>4, <2>1, <2>2, <2>3, <2>4, ReadSteps DEF ReadLabels
<1>5. ASSUME pc' = "recover_position"
      PROVE  ActiveIds' \subseteq {store'.entry.id}
  <2>1. CASE Exchange \/ UNCHANGED vars
    BY <1>3, <1>5, <2>1, ExchangeFrame DEF callVars, AccountedOK
  <2>2. CASE RecoverDecide
    <3>1. pc = "recover_decide" /\ ~RecoveryBlocked /\ Owned # {} /\ store # NoRecord /\ store' = store
      BY <1>5, <2>2 DEF RecoverDecide, Goto, Fails, Raise, Return, ControlOnly
    <3>2. ActiveIds \subseteq Owned
      BY <3>1 DEF AccountedOK, Owned, ActiveIds
    <3> QED
      BY <1>3, <1>5, <3>1, <3>2 DEF RecoveryBlocked
  <2>3. /\ ~Query /\ ~SubmitQuery /\ ~CancelQuery /\ ~RecoverListing /\ ~RecoverClassify
        /\ ~RecoverPosition
    BY <1>5 DEF Query, SubmitQuery, CancelQuery, RecoverListing, RecoverClassify, RecoverPosition,
       FailedRead, FailedRecoveryRead, Fails, Raise, Return, Goto
  <2> QED
    BY <1>5, <2>1, <2>2, <2>3, ReadSteps DEF ReadLabels
<1>6. ASSUME phase' = "starting", ~BeforeRestore', NEW id \in ActiveIds'
      PROVE  slot' # NoEntry /\ slot'.id = id
  <2>1. phase = "starting" /\ id \in Ids /\ IsActive(id)' /\ ~ProcessEnds
    BY <1>6, LeavesRestore DEF ProcessEnds, ActiveIds
  <2>2. IsActive(id)
    BY <2>1, ActiveSteps DEF SubmitPlace, OperationOK, SubmitLabels
  <2>3. CASE ~BeforeRestore
    BY <1>1, <2>1, <2>2, <2>3 DEF AccountedOK, ActiveIds
  <2>4. CASE pc = "recover_decide" /\ ~RecoveryBlocked
             /\ (Empties \/ (Owned = {} /\ Restores))
    <3>1. ActiveIds \subseteq Owned
      BY <2>4 DEF AccountedOK, Owned, ActiveIds
    <3>2. Owned = {}
      BY <2>4 DEF RecoveryBlocked, Empties
    <3> QED
      BY <2>1, <2>2, <3>1, <3>2 DEF ActiveIds
  <2>5. CASE pc = "recover_position" /\ Restores
    BY <2>1, <2>2, <2>5, WritesEntry DEF AccountedOK, ActiveIds, Restores, Restore, SetSlot
  <2> QED
    BY <1>6, <2>3, <2>4, <2>5, LeavesRestore
<1> QED
  BY <1>2, <1>4, <1>5, <1>6 DEF AccountedOK

(* A position is opened by a fill or by somebody else, and only the world    *)
(* closes it; it stays unseen until then, or until the process ends.        *)
LEMMA PositionSteps ==
    ASSUME IInv, [Next]_vars
    PROVE  \/ UNCHANGED <<position, opening>>
           \/ position' = "none"
           \/ position = "bare" /\ position' = "protected" /\ UNCHANGED opening
           \/ ProcessEnds
           \/ position = "none" /\ Opens(InTheGap) /\ \E id \in Ids : Fill(id)
           \/ ForeignPosition /\ ForeignTrade
<1>1. CASE Exchange
  BY <1>1 DEF Exchange, NewCandle, PositionMoves, ForeignTrade, ForeignOrder, OrderMoves,
     Accept, Reject, BeginCancel, FinishCancel, CancelElsewhere, Fill
<1>2. CASE Call
  BY <1>2 DEF Call, SubmitRefusedLocally, SubmitRepeated, Submit, Refresh, CancelEntry, Recover,
     Age, ControlOnly, BrokerOnly, Fails, exchangeVars
<1>3. CASE Process
  BY <1>3 DEF Process, Start, StartupDone, StartupFailed, Crash, DrainEvents, PhaseOnly, BrokerOnly,
     exchangeVars
<1>4. CASE BrokerStep
  BY <1>4 DEF BrokerStep, SubmitPosition, SubmitListing, SubmitPlace, SubmitAck, SubmitQuery,
     Query, Reconcile, CancelReconcile, ReconcileRefused, ReconcileStale, ReconcileActive,
     ReconcileTerminal, CancelNotSent, CancelSend, CancelAck, CancelQuery, AgeSkipped, AgeCount,
     RecoverListing, RecoverClassify, RecoverDecide, RecoverPosition, RecoverResume,
     RecoverFinish, FailedRecoveryRead, Fails, FailedRead, ControlOnly, BrokerOnly, exchangeVars
<1> QED
  BY <1>1, <1>2, <1>3, <1>4 DEF Next, vars, exchangeVars

(* From the reading of the position to the placing.                         *)
LEMMA PlacingSteps ==
    ASSUME IInv, OperationOK, [Next]_vars, InTheGap'
    PROVE  InTheGap \/ position' = "none"
<1> USE DEF InTheGap
<1>1. CASE Exchange \/ UNCHANGED vars
  BY <1>1, ExchangeFrame DEF callVars
<1>2. CASE Call
  BY <1>2 DEF Call, SubmitRefusedLocally, SubmitRepeated, Submit, Refresh, CancelEntry, Recover,
     Age, Begin, Fails, Raise, Return
<1>3. CASE Process
  BY <1>3 DEF Process, Start, StartupDone, StartupFailed, Crash, DrainEvents, PhaseOnly,
     ProcessEnds, Return, callVars, OperationOK
<1>4. CASE SubmitPosition \/ SubmitListing
  BY <1>4 DEF SubmitPosition, SubmitListing, PositionBlocks, Goto, Fails, FailedRead, Raise, Return,
     ControlOnly, BrokerOnly, exchangeVars
<1>5. CASE BrokerStep /\ ~SubmitPosition /\ ~SubmitListing
  BY <1>5 DEF BrokerStep, SubmitPlace, SubmitAck, SubmitQuery,
     Query, Reconcile, CancelReconcile, ReconcileRefused, ReconcileStale, ReconcileActive,
     ReconcileTerminal, CancelNotSent, CancelSend, CancelAck, CancelQuery, AgeSkipped, AgeCount,
     RecoverListing, RecoverClassify, RecoverDecide, RecoverPosition, RecoverResume,
     RecoverFinish, FailedRecoveryRead, Continue, CancelFor, Goto, Return, Raise, Fails, FailedRead
<1> QED
  BY <1>1, <1>2, <1>3, <1>4, <1>5 DEF Next

LEMMA BesideKept ==
    ASSUME IInv, AtMostOneActiveOrder, AtMostOneActiveOrder', OperationOK, StoppedOK, SubmitOK,
           OrdersOK, SnapOK, SlotOK, MatchOK, HeldOK, AccountedOK, BesideOK, [Next]_vars
    PROVE  BesideOK'
<1>1. ASSUME InTheGap' PROVE position' = "none" \/ opening' = "unseen"
  <2>1. CASE InTheGap
    <3>1. ~ProcessEnds
      BY <1>1 DEF ProcessEnds, Return, InTheGap
    <3> QED
      BY <2>1, <3>1, PositionSteps DEF BesideOK, Opens, ForeignPosition
  <2> QED
    BY <1>1, <2>1, PlacingSteps
<1>2. ASSUME \/ phase' = "running"
             \/ phase' = "starting" /\ ~BeforeRestore',
             position' # "none", opening' = "ordinary", NEW id \in ActiveIds'
      PROVE  orders'[id].filled > 0
  <2>1. id \in Ids /\ IsActive(id)' /\ ~ProcessEnds
    BY <1>2, LeavesRestore DEF ActiveIds, ProcessEnds, OperationOK, StoppedOK
  <2>2. /\ orders[id].filled \in 0 .. Volume /\ orders'[id].filled \in 0 .. Volume
        /\ orders[id].filled <= orders'[id].filled
    BY <2>1, OrdersLater DEF Later
  <2>3. CASE \E filled \in Ids : Fill(filled)
    <3>1. PICK filled \in Ids : Fill(filled)
      BY <2>3
    <3>2. IsActive(filled)
      BY <3>1 DEF Fill
    <3>3. IsActive(id)
      BY <2>1, <3>1, ActiveSteps DEF Fill, SubmitPlace, ExchangeOnly, callVars, Goto, Return
    <3>4. id = filled
      BY <2>1, <3>2, <3>3 DEF AtMostOneActiveOrder
    <3>5. orders'[id].filled = orders[id].filled + 1
      BY <2>1, <3>1, <3>2, <3>4, ActiveOrderType DEF Fill, IInv, TypeOK, PlacedOrder
    <3> QED
      BY <2>2, <3>5
  <2>5. CASE ForeignPosition /\ ForeignTrade
    <3>1. /\ ~BesideAnEntry
          /\ UNCHANGED <<orders, phase, slot, pc, op, outcome>>
      BY <1>2, <2>5 DEF ForeignPosition, ForeignTrade, Opens, ExchangeOnly, slotVars, callVars
    <3>2. id \in ActiveIds
      BY <2>1, <3>1 DEF ActiveIds, IsActive
    <3>3. phase = "starting" /\ ~BeforeRestore /\ slot = NoEntry
      BY <1>2, <3>1, <3>2 DEF BesideAnEntry, BeforeRestore
    <3> QED
      BY <3>2, <3>3 DEF AccountedOK
  <2>4. CASE ~(\E filled \in Ids : Fill(filled)) /\ ~(ForeignPosition /\ ForeignTrade)
    <3>1. position # "none" /\ opening = "ordinary"
      BY <1>2, <2>1, <2>4, PositionSteps
    <3>2. CASE phase' = "running" /\ phase = "running"
      <4>2. ~SubmitPlace
        BY <3>1, <3>2 DEF BesideOK, SubmitPlace, InTheGap
      <4>3. IsActive(id)
        BY <2>1, <4>2, ActiveSteps
      <4> QED
        BY <2>1, <2>2, <3>1, <3>2, <4>3 DEF BesideOK, ActiveIds
    <3>3. CASE phase' = "running" /\ phase # "running"
      <4>1. phase = "starting" /\ ~BeforeRestore /\ UNCHANGED orders
        BY <2>1, <3>3, PhaseSteps DEF BeforeRestore, exchangeVars
      <4> QED
        BY <2>1, <3>1, <4>1 DEF BesideOK, ActiveIds, IsActive
    <3>4. CASE phase' = "starting" /\ ~BeforeRestore'
      <4>1. phase = "starting" /\ IsActive(id)
        BY <2>1, <3>4, LeavesRestore, ActiveSteps DEF SubmitPlace, OperationOK, SubmitLabels
      <4>2. CASE ~BeforeRestore
        BY <2>1, <2>2, <3>1, <4>1, <4>2 DEF BesideOK, ActiveIds
      <4>3. CASE pc = "recover_decide" /\ ~RecoveryBlocked
                 /\ (Empties \/ (Owned = {} /\ Restores))
        <5>1. ActiveIds \subseteq Owned
          BY <4>3 DEF AccountedOK, Owned, ActiveIds
        <5>2. Owned = {}
          BY <4>3 DEF RecoveryBlocked, Empties
        <5> QED
          BY <2>1, <4>1, <5>1, <5>2 DEF ActiveIds
      <4> QED
        BY <3>1, <3>4, <4>2, <4>3, LeavesRestore
    <3> QED
      BY <1>2, <3>2, <3>3, <3>4
  <2> QED
    BY <2>3, <2>4, <2>5
<1> QED
  BY <1>1, <1>2 DEF BesideOK

----------------------------------------------------------------------------
(* The events.                                                             *)

Quiet == UNCHANGED <<events, reported, lastTerminal, recNotified>>

Announces ==
    /\ \E event \in Event :
         /\ event.kind \in {"SUBMITTED", "STATUS_CHANGED"}
         /\ slot' # NoEntry /\ event.id = slot'.id
         /\ events' \in {events, Append(events, event)}
    /\ UNCHANGED <<reported, lastTerminal, recNotified>>

EndEvent == EventOf(Updated(slot, snap), "TERMINAL", TransitionBase(slot, snap))

TellsEnd ==
    /\ Ends /\ slot' = NoEntry /\ store' = NoRecord
    /\ lastTerminal' = EndEvent /\ Queue(EndEvent)
    /\ UNCHANGED recNotified

LEMMA EventSteps ==
    ASSUME IInv, [Next]_vars
    PROVE  \/ Quiet \/ Announces \/ TellsEnd \/ RecoverFinish
           \/ Recover \/ DrainEvents \/ ProcessEnds
<1> USE DEF eventVars
<1>1. CASE Exchange \/ UNCHANGED vars
  BY <1>1, ExchangeFrame DEF Quiet
<1>2. ASSUME NEW saved \in BOOLEAN, Register(saved), pc \in {"submit_ack", "submit_query"}
      PROVE  Announces
  <2> DEFINE e == NewEntry(arg.id, arg.candle)
  <2>1. e \in Entry /\ e # NoEntry /\ slot' = e
    BY <1>2, PlacedOrdersAreOrders, EntryNotNone DEF NewEntry, Entry, IInv, TypeOK, ControlOK,
       Register, SetSlot, PendingEntryStatus, PersistableStatuses
  <2>2. EventOf(e, "SUBMITTED", "NONE") \in Event /\ EventOf(e, "SUBMITTED", "NONE").id = e.id
    BY <2>1, EventType
  <2>3. EventOf(e, "SUBMITTED", "NONE").kind = "SUBMITTED"
    BY DEF EventOf
  <2>4. /\ events' \in {events, Append(events, EventOf(e, "SUBMITTED", "NONE"))}
        /\ UNCHANGED <<reported, lastTerminal, recNotified>>
    BY <1>2, <2>3 DEF Register, Queue
  <2> HIDE DEF e
  <2> QED
    BY <2>1, <2>2, <2>3, <2>4 DEF Announces
<1>3. ASSUME NEW id \in Ids, NEW signal \in 0 .. clock, SubmitRepeated(id, signal)
      PROVE  Quiet \/ Announces
  <2>1. slot \in Entry /\ slot' = slot /\ slot # NoEntry
    BY <1>3 DEF SubmitRepeated, slotVars, IInv, TypeOK
  <2>2. EventOf(slot, "SUBMITTED", "NONE") \in Event /\ EventOf(slot, "SUBMITTED", "NONE").id = slot.id
    BY <2>1, EventType
  <2>3. EventOf(slot, "SUBMITTED", "NONE").kind = "SUBMITTED"
    BY DEF EventOf
  <2>4. /\ events' \in {events, Append(events, EventOf(slot, "SUBMITTED", "NONE"))}
        /\ UNCHANGED <<reported, lastTerminal, recNotified>>
    BY <1>3, <2>3 DEF SubmitRepeated, Queue, QueueNothing
  <2> QED
    BY <2>1, <2>2, <2>3, <2>4 DEF Announces
<1>4. CASE Call
  BY <1>3, <1>4 DEF Call, SubmitRefusedLocally, Submit, Refresh, CancelEntry, Age, ControlOnly,
     Fails, Quiet
<1>5. CASE SubmitAck \/ SubmitQuery
  <2>1. ControlOnly \/ \E saved \in BOOLEAN : Register(saved)
    BY <1>5 DEF SubmitAck, SubmitQuery, SaveResults, FailedRead, Fails
  <2> QED
    BY <1>2, <1>5, <2>1 DEF ControlOnly, Quiet, SubmitAck, SubmitQuery
<1>6. ASSUME pc \in {"reconcile", "cancel_reconcile"}, NEW ACTION after,
             \/ ReconcileRefused \/ ReconcileStale(after)
             \/ ReconcileActive(after) \/ ReconcileTerminal(after)
      PROVE  Quiet \/ Announces \/ TellsEnd
  <2>1. slot \in Entry /\ slot # NoEntry /\ snap \in Snapshot
    BY <1>6 DEF IInv, TypeOK, ControlOK
  <2>2. Updated(slot, snap) \in Entry
    BY <2>1, UpdatedType
  <2>3. CASE ReconcileRefused \/ ReconcileStale(after)
    BY <2>3 DEF ReconcileRefused, ReconcileStale, Fails, ControlOnly, Quiet
  <2>4. CASE ReconcileActive(after)
    <3> DEFINE event == EventOf(Updated(slot, snap), "STATUS_CHANGED", slot.status)
    <3>1. event \in Event /\ event.id = Updated(slot, snap).id
      BY <2>1, <2>2, EventType DEF Entry
    <3>2. event.kind = "STATUS_CHANGED"
      BY DEF EventOf
    <3>3. /\ events' \in {events, Append(events, event)} /\ slot' = Updated(slot, snap)
          /\ UNCHANGED <<reported, lastTerminal, recNotified>>
      BY <2>4, <3>2 DEF ReconcileActive, Queue, QueueNothing, SetSlot
    <3> HIDE DEF event
    <3> QED
      BY <2>2, <3>1, <3>2, <3>3, EntryNotNone DEF Announces
  <2>5. CASE ReconcileTerminal(after)
    BY <1>6, <2>5 DEF ReconcileTerminal, TellsEnd, EndEvent, Ends, Reads, Quiet, QueueNothing
  <2> QED
    BY <1>6, <2>3, <2>4, <2>5
<1>7. CASE Reconcile \/ CancelReconcile
  BY <1>6, <1>7 DEF Reconcile, CancelReconcile
<1>8. CASE CancelAck
  <2> DEFINE e == Acknowledged(slot)
             event == EventOf(e, "STATUS_CHANGED", slot.status)
  <2>1. slot \in Entry /\ e \in Entry /\ e # NoEntry /\ slot' = e
    BY <1>8 DEF CancelAck, SetSlot, Acknowledged, IInv, TypeOK, ControlOK, Entry, NoEntry,
       PendingEntryStatus, PersistableStatuses
  <2>2. event \in Event /\ event.id = e.id
    BY <2>1, EventType DEF Entry
  <2>3. event.kind = "STATUS_CHANGED"
    BY DEF EventOf
  <2>4. /\ events' \in {events, Append(events, event)}
        /\ UNCHANGED <<reported, lastTerminal, recNotified>>
    BY <1>8, <2>3 DEF CancelAck, Queue, QueueNothing
  <2> HIDE DEF event, e
  <2> QED
    BY <2>1, <2>2, <2>3, <2>4 DEF Announces
<1>9. CASE SubmitPosition \/ SubmitListing \/ SubmitPlace \/ Query \/ CancelNotSent \/ CancelSend
           \/ CancelQuery \/ AgeSkipped \/ AgeCount
  BY <1>9 DEF SubmitPosition, SubmitListing, SubmitPlace, Query, CancelNotSent, CancelSend,
     CancelQuery, AgeSkipped, AgeCount, Fails, FailedRead, ControlOnly, Quiet
<1>10. CASE RecoverListing \/ RecoverClassify \/ RecoverDecide \/ RecoverPosition \/ RecoverResume
  BY <1>10 DEF RecoverListing, RecoverClassify, RecoverDecide, RecoverPosition, RecoverResume,
     Fails, FailedRecoveryRead, ControlOnly, Quiet
<1>11. CASE Process
  BY <1>11 DEF Process, Start, StartupDone, StartupFailed, Crash, PhaseOnly, Quiet
<1> QED
  BY <1>1, <1>4, <1>5, <1>7, <1>8, <1>9, <1>10, <1>11 DEF Next, BrokerStep

LEMMA EndEventFits ==
    ASSUME IInv, SnapOK, SlotOK, [Next]_vars, Ends
    PROVE  /\ EndEvent \in Event /\ EndEvent # NoEntry
           /\ EndEvent.id = slot.id /\ EndEvent.kind = "TERMINAL"
           /\ EventFits(EndEvent, orders[slot.id])
<1> DEFINE u == Updated(slot, snap)
           o == orders[slot.id]
<1>1. slot \in Entry /\ snap \in Snapshot /\ slot.id \in Ids
  BY EndsAreEnds DEF Ends, Reads, IInv, TypeOK, ControlOK
<1>2. u \in Entry /\ u.id = slot.id /\ u.status \in TerminalStatuses
  BY <1>1, UpdatedType DEF Ends
<1>3. TransitionBase(slot, snap) \in PendingEntryStatus
  BY <1>1 DEF TransitionBase, Entry, PendingEntryStatus, PersistableStatuses
<1>4. /\ o.status \in EndedStatus /\ u.filled = o.filled
      /\ u.status = EffectiveStatus(u, SnapshotOf(o))
  BY <1>2, EndsAreEnds DEF EntryFits
<1>5. u.status = "FILLED" <=> o.status = "Filled"
  BY <1>4, StatusFacts DEF EffectiveStatus, SnapshotOf
<1>6. u.status = "EXPIRED" => o.filled = 0
  BY <1>4, StatusFacts DEF EffectiveStatus, SnapshotOf
<1>7. /\ EndEvent.id = u.id /\ EndEvent.kind = "TERMINAL" /\ EndEvent.status = u.status
      /\ EndEvent.filled = u.filled
  BY DEF EndEvent, EventOf
<1>8. EndEvent \in Event
  BY <1>2, <1>3, EventType DEF EndEvent
<1>9. EndEvent # NoEntry
  BY <1>2, <1>7 DEF NoEntry, TerminalStatuses
<1> QED
  BY <1>2, <1>4, <1>5, <1>6, <1>7, <1>8, <1>9 DEF EventFits

LEMMA EventsKept ==
    ASSUME IInv, OrdersOK, SnapOK, SlotOK, EventsOK, [Next]_vars
    PROVE  EventsOK'
<1> DEFINE Fits(event) == event.kind = "TERMINAL" => EventFits(event, orders'[event.id])
<1>1. \A event \in Event : event.id \in Ids
  BY DEF Event
<1>2. events \in Seq(Event) /\ lastTerminal \in Event \cup {NoEntry}
  BY DEF IInv, TypeOK
<1>3. ASSUME NEW i \in 1 .. Len(events) PROVE Fits(events[i])
  BY <1>1, <1>2, <1>3, OrdersLater, EventFitsLater DEF EventsOK
<1>4. lastTerminal # NoEntry =>
        lastTerminal.kind = "TERMINAL" /\ EventFits(lastTerminal, orders'[lastTerminal.id])
  BY <1>1, <1>2, OrdersLater, EventFitsLater DEF EventsOK
<1>5. ASSUME NEW event \in Event, Fits(event), events' \in {events, Append(events, event)}
      PROVE  \A i \in 1 .. Len(events') : Fits(events'[i])
  <2>1. CASE events' = events
    BY <1>3, <2>1
  <2>2. CASE events' = Append(events, event)
    <3>1. Len(events') = Len(events) + 1 /\ events'[Len(events) + 1] = event
          /\ \A i \in 1 .. Len(events) : events'[i] = events[i]
      BY <1>2, <2>2
    <3> HIDE DEF Fits
    <3> QED
      BY <1>2, <1>3, <1>5, <3>1
  <2> QED
    BY <1>5, <2>1, <2>2
<1>6. CASE Quiet \/ Recover
  BY <1>3, <1>4, <1>6 DEF Quiet, Recover, EventsOK
<1>7. CASE Announces
  <2>1. \A i \in 1 .. Len(events') : Fits(events'[i])
    BY <1>5, <1>7 DEF Announces
  <2> QED
    BY <1>4, <1>7, <2>1 DEF Announces, EventsOK
<1>8. CASE TellsEnd
  <2>1. /\ EndEvent \in Event /\ EndEvent.kind = "TERMINAL"
        /\ EventFits(EndEvent, orders'[EndEvent.id])
    BY <1>1, <1>8, EndEventFits, OrdersLater, EventFitsLater DEF TellsEnd
  <2>2. events' \in {events, Append(events, EndEvent)} /\ lastTerminal' = EndEvent
    BY <1>8 DEF TellsEnd, Queue
  <2>3. \A i \in 1 .. Len(events') : Fits(events'[i])
    BY <1>5, <2>1, <2>2
  <2> QED
    BY <2>1, <2>2, <2>3 DEF EventsOK
<1>9. CASE RecoverFinish
  <2> DEFINE announced == RecoveryAnnouncement
  <2>1. UNCHANGED <<events, lastTerminal>>
        \/ (announced # NoEntry /\ events' = Append(events, announced) /\ UNCHANGED lastTerminal)
    BY <1>9 DEF RecoverFinish
  <2>2. CASE UNCHANGED <<events, lastTerminal>>
    BY <1>3, <1>4, <2>2 DEF EventsOK
  <2>3. CASE announced # NoEntry /\ events' = Append(events, announced) /\ UNCHANGED lastTerminal
    <3>1. announced \in Event /\ Fits(announced)
      <4>1. CASE slot # NoEntry
        <5>1. slot \in Entry /\ announced = EventOf(slot, "RECOVERED", "NONE")
          BY <4>1 DEF RecoveryAnnouncement, IInv, TypeOK
        <5>2. announced \in Event /\ announced.kind = "RECOVERED"
          BY <5>1, EventType DEF EventOf
        <5> QED
          BY <5>2
      <4>2. CASE slot = NoEntry
        BY <1>2, <1>4, <2>3, <4>2 DEF RecoveryAnnouncement
      <4> QED
        BY <4>1, <4>2
    <3>2. \A i \in 1 .. Len(events') : Fits(events'[i])
      BY <1>5, <2>3, <3>1
    <3> QED
      BY <1>4, <2>3, <3>2 DEF EventsOK
  <2> QED
    BY <2>1, <2>2, <2>3
<1>10. CASE DrainEvents \/ ProcessEnds
  <2>1. events' = <<>> /\ lastTerminal' \in {lastTerminal, NoEntry}
    BY <1>10 DEF DrainEvents, ProcessEnds
  <2> QED
    BY <1>4, <2>1 DEF EventsOK
<1> QED
  BY <1>6, <1>7, <1>8, <1>9, <1>10, EventSteps

(* An entry that has left the slot does not come back.                      *)
LEMMA GoneKept ==
    ASSUME IInv, OperationOK, StoppedOK, SubmitOK, SnapOK, SlotOK, MatchOK, HeldOK, GoneOK, [Next]_vars
    PROVE  GoneOK'
<1> DEFINE Left(id) == /\ known'[id] \in TerminalStatuses
                       /\ slot' # NoEntry => slot'.id # id
                       /\ store' # NoRecord => store'.entry.id # id
<1>1. ASSUME NEW id \in Ids, Gone(id), ~ProcessEnds
      PROVE  Left(id)
  <2>1. /\ known[id] \in TerminalStatuses
        /\ slot # NoEntry => slot.id # id
        /\ store # NoRecord => store.entry.id # id
    BY <1>1 DEF GoneOK
  <2>2. ASSUME NEW e \in Entry, e.id # id, known' = [known EXCEPT ![e.id] = e.status],
               slot' \in {e, NoEntry},
               store' \in {store, NoRecord, RecordOf(e), [entry |-> e, lastAged |-> arg.candle]}
        PROVE  Left(id)
    BY <2>1, <2>2 DEF RecordOf, IInv, TypeOK
  <2>3. CASE UNCHANGED <<slot, store, known, lastAged>> \/ Resaves
    BY <2>1, <2>3 DEF Resaves, RecordOf
  <2>4. CASE Registers
    <3>1. NewEntry(arg.id, arg.candle) \in Entry /\ arg.id # id
          /\ NewEntry(arg.id, arg.candle).id = arg.id
      BY <2>1, <2>4, PlacedOrdersAreOrders DEF Registers, SubmitOK, NewEntry, Entry,
         SubmitLabels, IInv, TypeOK, ControlOK, PendingEntryStatus, PersistableStatuses,
         TerminalStatuses
    <3> QED
      BY <2>2, <2>4, <3>1 DEF Registers, Saves, SetSlot
  <2>5. CASE Reconciles \/ Ends
    <3>1. Updated(slot, snap) \in Entry /\ Updated(slot, snap).id = slot.id /\ slot # NoEntry
      BY <2>5, UpdatedType DEF Reconciles, Ends, Reads, IInv, TypeOK, ControlOK
    <3> QED
      BY <2>1, <2>2, <2>5, <3>1 DEF Reconciles, Ends, Saves, SetSlot
  <2>6. CASE Acknowledges
    <3>1. Acknowledged(slot) \in Entry /\ Acknowledged(slot).id = slot.id /\ slot # NoEntry
      BY <2>6 DEF Acknowledges, Acknowledged, IInv, TypeOK, ControlOK, Entry,
         PendingEntryStatus, PersistableStatuses
    <3> QED
      BY <2>1, <2>2, <2>6, <3>1 DEF Acknowledges, Saves, SetSlot
  <2>7. CASE Ages
    <3>1. slot \in Entry /\ slot' \in Entry /\ slot'.id = slot.id /\ slot # NoEntry /\ slot' = AgedEntry
      BY <2>7, NextInv, WritesEntry DEF Ages, SetSlot, AgedEntry, StillAges, IInv, TypeOK, Entry
    <3> QED
      BY <2>1, <2>2, <2>7, <3>1 DEF Ages, SetSlot
  <2>8. CASE Restores
    <3>1. store.entry \in Entry /\ store' = store
      BY <2>8 DEF Restores, IInv, TypeOK, Record
    <3> QED
      BY <2>1, <2>2, <2>8, <3>1 DEF Restores, Restore, SetSlot
  <2>9. CASE Empties
    BY <2>1, <2>9 DEF Empties
  <2> QED
    BY <1>1, <2>3, <2>4, <2>5, <2>6, <2>7, <2>8, <2>9, DataSteps
<1>2. ASSUME NEW id \in Ids, Gone(id)' PROVE Left(id)
  <2>1. CASE Quiet \/ Announces \/ Recover \/ DrainEvents
    <3>1. Gone(id)
      BY <1>2, <2>1 DEF Gone, Quiet, Announces, Recover, DrainEvents
    <3>2. ~ProcessEnds \/ reported' = {}
      BY DEF ProcessEnds
    <3>3. ProcessEnds => ~Gone(id)'
      BY DEF ProcessEnds, Gone
    <3> QED
      BY <1>1, <1>2, <3>1, <3>3
  <2>2. CASE TellsEnd
    <3>1. /\ slot # NoEntry /\ slot.id \in Ids /\ EndEvent.id = slot.id
          /\ Updated(slot, snap).status \in TerminalStatuses
      BY <2>2, EndsAreEnds, EndEventFits DEF TellsEnd, Ends
    <3>2. known' = [known EXCEPT ![slot.id] = Updated(slot, snap).status]
      BY <2>2 DEF TellsEnd, Ends
    <3>3. CASE id = slot.id
      BY <2>2, <3>1, <3>2, <3>3 DEF TellsEnd, IInv, TypeOK
    <3>4. CASE id # slot.id
      <4>1. Gone(id)
        BY <1>2, <2>2, <3>1, <3>4 DEF Gone, TellsEnd, Queue
      <4>2. Gone(id) /\ ~ProcessEnds
        BY <1>2, <4>1 DEF Gone, ProcessEnds
      <4> QED
        BY <1>1, <4>2
    <3> QED
      BY <3>3, <3>4
  <2>3. CASE RecoverFinish
    <3>1. Gone(id)
      BY <1>2, <2>3 DEF Gone, RecoverFinish, RecoveryAnnouncement
    <3>2. ~ProcessEnds
      BY <1>2 DEF ProcessEnds, Gone
    <3> QED
      BY <1>1, <3>1, <3>2
  <2>4. CASE ProcessEnds
    BY <1>2, <2>4 DEF ProcessEnds, Gone
  <2> QED
    BY <2>1, <2>2, <2>3, <2>4, EventSteps
<1>3. phase' = "starting" => reported' \subseteq recNotified'
  <2> SUFFICES ASSUME phase' = "starting" PROVE reported' \subseteq recNotified'
    OBVIOUS
  <2>1. phase \in {"stopped", "starting"} /\ ~ProcessEnds
    BY PhaseSteps DEF ProcessEnds
  <2>2. reported \subseteq recNotified
    BY <2>1 DEF GoneOK, StoppedOK
  <2>3. CASE TellsEnd
    <3>1. Recovering
      BY <2>1, <2>3 DEF TellsEnd, Ends, Reads, OperationOK, StoppedOK, Recovering
    <3> QED
      BY <2>2, <2>3, <3>1 DEF TellsEnd, Queue
  <2>4. CASE RecoverFinish
    BY <2>2, <2>4 DEF RecoverFinish
  <2> QED
    BY <2>1, <2>2, <2>3, <2>4, EventSteps DEF Quiet, Announces, Recover, DrainEvents
<1> QED
  BY <1>2, <1>3 DEF GoneOK

LEMMA ReportedGrows ==
    ASSUME IInv, [Next]_vars
    PROVE  reported \subseteq reported' \/ ProcessEnds
BY EventSteps DEF Quiet, Announces, TellsEnd, Queue, RecoverFinish, Recover, DrainEvents

(* A slot that is emptied because its entry has ended is told of.           *)
LEMMA EndsAreTold ==
    ASSUME IInv, [Next]_vars, Ends, slot' = NoEntry
    PROVE  TellsEnd /\ (Reconcile \/ CancelReconcile)
<1>1. pc \in {"reconcile", "cancel_reconcile"} /\ slot # NoEntry /\ slot.id \in Ids
      /\ Updated(slot, snap) \in Entry /\ Updated(slot, snap) # NoEntry
  BY UpdatedType, EntryNotNone DEF Ends, Reads, IInv, TypeOK, ControlOK, Entry
<1>2. ~ProcessEnds
  <2>1. known'[slot.id] \in TerminalStatuses
    BY <1>1 DEF Ends, IInv, TypeOK
  <2> QED
    BY <1>1, <2>1 DEF ProcessEnds, TerminalStatuses
<1>3. Reconcile \/ CancelReconcile
  BY <1>1, <1>2, SlotFrame DEF SubmitRepeated, CancelNotSent, CancelAck, AgeCount, RecoverDecide,
     RecoverPosition
<1>4. ASSUME NEW ACTION after,
             \/ ReconcileRefused \/ ReconcileStale(after)
             \/ ReconcileActive(after) \/ ReconcileTerminal(after)
      PROVE  TellsEnd
  <2>1. ~ReconcileRefused /\ ~ReconcileStale(after) /\ ~ReconcileActive(after)
    BY <1>1 DEF ReconcileRefused, ReconcileStale, ReconcileActive, Fails, ControlOnly, slotVars, SetSlot
  <2> QED
    BY <1>1, <1>4, <2>1 DEF ReconcileTerminal, TellsEnd, EndEvent
<1> QED
  BY <1>3, <1>4 DEF Reconcile, CancelReconcile

LEMMA EndFoundSteps ==
    ASSUME IInv, OperationOK, SubmitOK, MatchOK, HeldOK, [Next]_vars, ~ProcessEnds,
           NEW id \in Ids, EndFound(id)'
    PROVE  EndFound(id) \/ (TellsEnd /\ slot # NoEntry /\ id = slot.id)
<1> USE DEF EndFound
<1>1. CASE Registers
  BY <1>1, WritesEntry DEF Registers, SubmitOK, Saves, SetSlot, NewEntry, IInv, TypeOK
<1>2. CASE Reconciles \/ Ends
  <2>1. Updated(slot, snap) \in Entry /\ Updated(slot, snap).id = slot.id /\ slot # NoEntry
    BY <1>2, UpdatedType DEF Reconciles, Ends, Reads, IInv, TypeOK, ControlOK
  <2> QED
    BY <1>2, <2>1, EndsAreTold, EntryNotNone DEF Reconciles, Ends, Saves, SetSlot, IInv, TypeOK
<1>3. CASE Acknowledges
  BY <1>3, WritesEntry DEF Acknowledges, Saves, SetSlot, Acknowledged, IInv, TypeOK, ControlOK, Entry
<1>4. CASE Ages
  BY <1>4, WritesEntry DEF Ages, SetSlot, AgedEntry, StillAges, IInv, TypeOK, Entry
<1>5. CASE Restores
  BY <1>5, WritesEntry DEF Restores, Restore, SetSlot, MatchOK, IInv, TypeOK
<1>6. CASE Empties
  BY <1>6 DEF Empties, OperationOK, RecoverLabels, HeldOK, IInv, TypeOK
<1> QED
  BY <1>1, <1>2, <1>3, <1>4, <1>5, <1>6, DataSteps DEF Resaves

(* Between two recoveries of a starting process nothing happens.            *)
LEMMA IdleSteps ==
    ASSUME IInv, [Next]_vars, pc = "idle", phase = "starting"
    PROVE  \/ UNCHANGED <<pc, outcome, slot, lastTerminal, reported, recNotified, phase>>
           \/ Recover \/ phase' = "running" \/ ProcessEnds
<1> USE DEF callVars, slotVars, eventVars
<1>1. CASE Exchange \/ UNCHANGED vars
  BY <1>1, ExchangeFrame
<1>2. CASE Call
  BY <1>2 DEF Call, SubmitRefusedLocally, SubmitRepeated, Submit, Refresh, CancelEntry, Age
<1>3. CASE Process
  BY <1>3 DEF Process, Start, StartupDone, StartupFailed, Crash, DrainEvents, PhaseOnly, BrokerOnly
<1>4. ~BrokerStep
  BY DEF BrokerStep, SubmitPosition, SubmitListing, SubmitPlace, SubmitAck, SubmitQuery, Query,
     Reconcile, CancelReconcile, CancelNotSent, CancelSend, CancelAck, CancelQuery, AgeSkipped,
     AgeCount, RecoverListing, RecoverClassify, RecoverDecide, RecoverPosition, RecoverResume,
     RecoverFinish
<1> QED
  BY <1>1, <1>2, <1>3, <1>4 DEF Next

(* After the reconciliation recovery only finishes.                         *)
LEMMA FinishSteps ==
    ASSUME IInv, [Next]_vars, pc \in {"recover_resume", "recover_finish"}, slot = NoEntry
    PROVE  \/ /\ pc' \in {"recover_resume", "recover_finish"} \/ (pc' = "idle" /\ outcome' = "error")
              /\ UNCHANGED <<slot, lastTerminal, reported, recNotified>>
           \/ RecoverFinish \/ ProcessEnds
<1> USE DEF callVars, slotVars, eventVars
<1>1. CASE Exchange \/ UNCHANGED vars
  BY <1>1, ExchangeFrame
<1>2. CASE Call
  BY <1>2 DEF Call, SubmitRefusedLocally, SubmitRepeated, Submit, Refresh, CancelEntry, Age, Recover,
     Begin
<1>3. CASE Process
  BY <1>3 DEF Process, Start, StartupDone, StartupFailed, Crash, DrainEvents, PhaseOnly, BrokerOnly
<1>4. CASE RecoverResume
  BY <1>4 DEF RecoverResume, Return, Goto, ControlOnly
<1>5. CASE BrokerStep /\ ~RecoverResume
  BY <1>5 DEF BrokerStep, SubmitPosition, SubmitListing, SubmitPlace, SubmitAck, SubmitQuery, Query,
     Reconcile, CancelReconcile, CancelNotSent, CancelSend, CancelAck, CancelQuery, AgeSkipped,
     AgeCount, RecoverListing, RecoverClassify, RecoverDecide, RecoverPosition
<1> QED
  BY <1>1, <1>2, <1>3, <1>4, <1>5 DEF Next

(* As long as a successful recovery is not repeated, every end is noted.    *)
LEMMA EndsKept ==
    ASSUME "retry" \notin Faults, IInv, OperationOK, StoppedOK, SubmitOK, MatchOK, HeldOK, EndsOK,
           [Next]_vars
    PROVE  EndsOK'
<1> DEFINE Noted(id) == \/ id \in reported'
                        \/ /\ lastTerminal' # NoEntry /\ lastTerminal'.id = id
                           /\ slot' = NoEntry
                           /\ \/ pc' \in {"recover_resume", "recover_finish"}
                              \/ pc' = "idle" /\ outcome' \notin {"none", "ok", "temporary"}
<1>1. ASSUME phase' = "running", NEW id \in Ids, EndFound(id)'
      PROVE  id \in reported'
  <2>1. ~ProcessEnds
    BY <1>1 DEF ProcessEnds
  <2>2. CASE phase = "running"
    <3>1. CASE EndFound(id)
      BY <2>1, <2>2, <3>1, ReportedGrows DEF EndsOK
    <3>2. CASE TellsEnd /\ slot # NoEntry /\ id = slot.id
      <4>1. EndEvent.id = slot.id /\ EndEvent.kind = "TERMINAL"
        BY <3>2, UpdatedType DEF EndEvent, EventOf, TellsEnd, Ends, Reads, IInv, TypeOK, ControlOK
      <4> QED
        BY <2>2, <3>2, <4>1 DEF TellsEnd, Queue, Recovering, OperationOK
    <3> QED
      BY <1>1, <2>1, <3>1, <3>2, EndFoundSteps
  <2>3. CASE phase # "running"
    <3>1. /\ phase = "starting" /\ pc = "idle" /\ outcome = "ok"
          /\ UNCHANGED <<slot, known, reported>>
      BY <1>1, <2>1, <2>3, PhaseSteps DEF slotVars, eventVars
    <3> QED
      BY <1>1, <3>1 DEF EndsOK, EndFound
  <2> QED
    BY <2>2, <2>3
<1>2. ASSUME phase' = "starting"
      PROVE  /\ recNotified' # {} => pc' = "idle" /\ outcome' = "ok"
             /\ \A id \in Ids : EndFound(id)' => Noted(id)
  <2>1. ~ProcessEnds
    BY <1>2 DEF ProcessEnds
  <2>2. CASE phase = "stopped"
    BY <1>2, <2>1, <2>2, PhaseSteps DEF StoppedOK, slotVars, eventVars, EndFound, TerminalStatuses
  <2>3. CASE phase = "starting"
    <3>1. Recover => outcome \in {"none", "temporary"} /\ pc = "idle" /\ UNCHANGED recNotified
      BY DEF Recover, Begin
    <3>2. recNotified' # {} => pc' = "idle" /\ outcome' = "ok"
      <4>1. CASE recNotified # {}
        BY <1>2, <2>1, <2>3, <3>1, <4>1, IdleSteps DEF EndsOK
      <4>2. CASE recNotified = {}
        BY <2>1, <4>2, EventSteps
           DEF Quiet, Announces, TellsEnd, RecoverFinish, Return, Recover, DrainEvents
      <4> QED
        BY <4>1, <4>2
    <3>3. ASSUME NEW id \in Ids, EndFound(id)' PROVE Noted(id)
      <4>1. CASE EndFound(id) /\ id \in reported
        BY <2>1, <4>1, ReportedGrows
      <4>2. CASE /\ lastTerminal # NoEntry /\ lastTerminal.id = id /\ slot = NoEntry
                 /\ pc = "idle" /\ outcome \notin {"none", "ok", "temporary"}
        BY <1>2, <2>1, <2>3, <3>1, <4>2, IdleSteps
      <4>3. CASE /\ lastTerminal # NoEntry /\ lastTerminal.id = id /\ slot = NoEntry
                 /\ pc \in {"recover_resume", "recover_finish"}
        <5>1. CASE RecoverFinish
          <6>1. recNotified = {}
            BY <2>3, <4>3 DEF EndsOK
          <6> QED
            BY <4>3, <5>1, <6>1 DEF RecoverFinish, RecoveryAnnouncement
        <5> QED
          BY <2>1, <4>3, <5>1, FinishSteps
      <4>4. CASE TellsEnd /\ slot # NoEntry /\ id = slot.id
        <5>1. EndEvent.id = slot.id /\ EndEvent # NoEntry
          BY <4>4, UpdatedType DEF EndEvent, EventOf, NoEntry, TellsEnd, Ends, Reads, IInv, TypeOK,
             ControlOK, Entry, PendingEntryStatus, PersistableStatuses, TerminalStatuses
        <5>2. Reconcile \/ CancelReconcile
          BY <4>4, EndsAreTold DEF TellsEnd
        <5>3. op \in {"recover", "resume"}
          BY <2>3, <4>4 DEF TellsEnd, Ends, Reads, OperationOK
        <5>4. ASSUME NEW ACTION after, after => Continue \/ Raise("unknown"),
                     \/ ReconcileRefused \/ ReconcileStale(after)
                     \/ ReconcileActive(after) \/ ReconcileTerminal(after)
              PROVE  Continue \/ Raise("unknown")
          <6>1. ~ReconcileRefused /\ ~ReconcileStale(after) /\ ~ReconcileActive(after)
            BY <4>4, UpdatedType, EntryNotNone DEF ReconcileRefused, ReconcileStale, ReconcileActive, Fails,
               ControlOnly, slotVars, SetSlot, TellsEnd, Ends
          <6>2. Updated(slot, snap) # NoEntry
            BY <4>4, UpdatedType, EntryNotNone DEF TellsEnd, Ends, Reads, IInv, TypeOK, ControlOK
          <6> QED
            BY <4>4, <5>4, <6>1, <6>2 DEF ReconcileTerminal, TellsEnd
        <5>5. Continue \/ Raise("unknown")
          <6>1. pc = "reconcile" /\ Reconcile => Continue \/ Raise("unknown")
            BY <4>4, <5>4, <2>3 DEF Reconcile, TellsEnd, Ends, ReconcileActive
          <6>2. CancelReconcile => Continue \/ Raise("unknown")
            BY <5>4 DEF CancelReconcile
          <6> QED
            BY <5>2, <6>1, <6>2 DEF Reconcile
        <5>6. \/ pc' \in {"recover_resume", "recover_finish"}
              \/ pc' = "idle" /\ outcome' \notin {"none", "ok", "temporary"}
          BY <5>3, <5>5 DEF Continue, Goto, Raise, Return
        <5> QED
          BY <4>4, <5>1, <5>6 DEF TellsEnd
      <4> QED
        BY <2>1, <2>3, <3>3, <4>1, <4>2, <4>3, <4>4, EndFoundSteps DEF EndsOK
    <3> QED
      BY <3>2, <3>3
  <2> QED
    BY <1>2, <2>1, <2>2, <2>3, PhaseSteps
<1> QED
  BY <1>1, <1>2 DEF EndsOK, EndFound

----------------------------------------------------------------------------
(* The invariant, and what it says.                                        *)

LEMMA SafetyInit == Init => SafetyInv /\ EndsOK
<1> SUFFICES ASSUME Init PROVE SafetyInv /\ EndsOK
  OBVIOUS
<1>1. IInv
  BY InitInv
<1>2. \A id \in Ids : orders[id] = NoOrder /\ ~IsActive(id)
  BY DEF Init, IsActive, ActiveBybitStatus, NoOrder
<1>3. AtMostOneActiveOrder /\ ActiveIds = {}
  BY <1>2 DEF AtMostOneActiveOrder, ActiveIds
<1>4. OperationOK /\ StoppedOK /\ SubmitOK /\ SnapOK /\ UnendedOK
  BY DEF Init, OperationOK, SubmitLabels, RecoverLabels, StoppedOK, SubmitOK, SnapOK, UnendedOK
<1>5. OrdersOK
  BY <1>2 DEF OrdersOK, OrderValid, NoOrder
<1>6. ClockOK
  BY BoundsAssumption DEF Init, ClockOK, NoArg, NoRecord
<1>7. SlotOK /\ StoreOK /\ MatchOK /\ HeldOK
  BY DEF Init, SlotOK, StoreOK, MatchOK, HeldOK
<1>8. EventsOK /\ GoneOK /\ EndsOK
  BY DEF Init, EventsOK, GoneOK, Gone, EndsOK
<1>9. AccountedOK /\ BesideOK
  BY <1>3 DEF Init, AccountedOK, BesideOK
<1> QED
  BY <1>1, <1>3, <1>4, <1>5, <1>6, <1>7, <1>8, <1>9 DEF SafetyInv

LEMMA SafetyKept ==
    SafetyInv /\ IInv' /\ AtMostOneActiveOrder' /\ [Next]_vars => SafetyInv'
<1> SUFFICES ASSUME SafetyInv, IInv', AtMostOneActiveOrder', [Next]_vars PROVE SafetyInv'
  OBVIOUS
<1> USE DEF SafetyInv
<1>1. OperationOK' /\ StoppedOK' /\ SubmitOK' /\ ClockOK'
  BY OperationInv, StoppedKept, SubmitKept, ClockKept
<1>2. OrdersOK' /\ SnapOK' /\ SlotOK' /\ StoreOK' /\ UnendedOK'
  BY OrdersInv, SnapKept, SlotKept, StoreKept, UnendedKept
<1>3. MatchOK' /\ HeldOK'
  BY MatchKept, HeldKept
<1>4. EventsOK' /\ GoneOK'
  BY EventsKept, GoneKept
<1>5. AccountedOK' /\ BesideOK'
  BY AccountedKept, BesideKept
<1> QED
  BY <1>1, <1>2, <1>3, <1>4, <1>5

(* What every state of the broker, its file and the exchange keeps, through *)
(* every crash, timeout, lagging query and failing write.                   *)
THEOREM Safety == Spec => []SafetyInv
<1>1. Init => SafetyInv
  BY SafetyInit
<1>2. SafetyInv /\ IInv' /\ AtMostOneActiveOrder' /\ [Next]_vars => SafetyInv'
  BY SafetyKept
<1> QED
  BY <1>1, <1>2, Invariant, OneActiveOrder, PTL DEF Spec

(* While the bot runs, the record in the file belongs to the entry in the   *)
(* slot and is never ahead of it: bybit_broker.py saves each version of the *)
(* entry after it has put it into the slot, an age before.                  *)
THEOREM DurableMatches == Spec => []DurableMatchesSlot
<1>1. SafetyInv => DurableMatchesSlot
  BY DEF SafetyInv, DurableMatchesSlot, MatchOK, HeldOK
<1> QED
  BY <1>1, Safety, PTL

(* Neither the slot nor the file claims a fill or an end that the exchange  *)
(* has not seen, however far the queries lag behind.                        *)
THEOREM NeverAhead == Spec => []NeverAheadOfExchange
<1>1. SafetyInv => NeverAheadOfExchange
  <2> SUFFICES ASSUME SafetyInv, NEW e \in {slot, store.entry}, e # NoEntry
               PROVE  /\ e.filled <= orders[e.id].filled
                      /\ e.status \in TerminalStatuses => e.id \in EndedIds
    BY DEF NeverAheadOfExchange
  <2>1. \E last, now : EntryFits(e, last, orders[e.id], now)
    BY DEF SafetyInv, SlotOK, StoreOK, NoRecord
  <2>2. e.id \in Ids
    BY DEF SafetyInv, IInv, TypeOK, Record, NoRecord, Entry
  <2> QED
    BY <2>1, <2>2 DEF EntryFits, EndedIds, EndedStatus
<1> QED
  BY <1>1, Safety, PTL

(* A TERMINAL event that waits in the queue of the broker tells the order's *)
(* real end: its quantity, and EXPIRED only if nothing was filled.          *)
THEOREM TerminalEventsTrue == Spec => []TerminalEventsAreTrue
<1>1. SafetyInv => TerminalEventsAreTrue
  <2> SUFFICES ASSUME SafetyInv, NEW i \in 1 .. Len(events), events[i].kind = "TERMINAL"
               PROVE  /\ events[i].id \in EndedIds
                      /\ events[i].filled = orders[events[i].id].filled
                      /\ events[i].status = "FILLED" <=> orders[events[i].id].status = "Filled"
                      /\ events[i].status = "EXPIRED" => orders[events[i].id].filled = 0
    BY DEF TerminalEventsAreTrue
  <2>1. events \in Seq(Event) /\ \A event \in Event : event.id \in Ids
    BY DEF SafetyInv, IInv, TypeOK, Event
  <2>2. EventFits(events[i], orders[events[i].id])
    BY DEF SafetyInv, EventsOK
  <2> QED
    BY <2>1, <2>2 DEF EventFits, EndedIds, EndedStatus
<1> QED
  BY <1>1, Safety, PTL

(* The next start is never refused because of the bot's own file: what      *)
(* bybit_pending_entry_store.py writes of an entry, it loads again.         *)
THEOREM RecordsAlwaysLoad == Spec => []RecordsLoad
<1>1. SafetyInv => RecordsLoad
  BY DEF SafetyInv, SlotOK, StoreOK, EntryFits, RecordsLoad, Loadable
<1> QED
  BY <1>1, Safety, PTL

(* An entry whose record could not be removed when it ended is found to     *)
(* have ended in the same way by the restart, from its file and what the    *)
(* exchange then shows.                                                     *)
THEOREM BlockedSlotsRecover == Spec => []BlockedSlotRecovers
<1>1. SafetyInv => BlockedSlotRecovers
  <2> DEFINE o == orders[slot.id]
             shown == SnapshotOf(o)
             e == store.entry
  <2> SUFFICES ASSUME SafetyInv, slot # NoEntry, slot.status \in TerminalStatuses, store # NoRecord
               PROVE  /\ e.id = slot.id
                      /\ ~Contradicts(e, shown)
                      /\ ~IsStaleSnapshot(e.status, EffectiveStatus(e, shown))
                      /\ Updated(e, shown).status = slot.status
                      /\ Updated(e, shown).filled = slot.filled
    BY DEF BlockedSlotRecovers
  <2>1. slot \in Entry /\ e \in Entry /\ slot.id \in Ids
    BY DEF SafetyInv, IInv, TypeOK, Record, Entry
  <2>2. /\ e.id = slot.id /\ slot.filled >= e.filled /\ slot.expiry = e.expiry
        /\ e.status \in PersistableStatuses
    BY DEF SafetyInv, MatchOK, StoreOK, Encodable
  <2>3. /\ o.status \in EndedStatus /\ slot.filled = o.filled
        /\ slot.status = EffectiveStatus(slot, shown)
    BY DEF SafetyInv, SlotOK, EntryFits
  <2>4. shown.filled = slot.filled /\ shown.status \in {"FILLED", "CANCELLED", "REJECTED"}
    BY <2>3 DEF SnapshotOf, EndedStatus, StatusMapping
  <2> HIDE DEF shown, e
  <2>5. EffectiveStatus(e, shown) = slot.status
    BY <2>1, <2>2, <2>3, <2>4 DEF EffectiveStatus, Entry
  <2>6. ~KeepsStatus(e, shown)
    BY <2>2, <2>4, <2>5 DEF KeepsStatus, PersistableStatuses, TerminalStatuses
  <2>7. ~IsStaleSnapshot(e.status, slot.status)
    BY DEF IsStaleSnapshot, TerminalStatuses
  <2>8. slot.status \in AllowedTransitions[TransitionBase(e, shown)]
    BY <2>2, <2>4, <2>5 DEF TransitionBase, EffectiveStatus, AllowedTransitions, PendingEntryStatus,
       PersistableStatuses, TerminalStatuses
  <2>9. ~InconsistentExpiry(e, shown)
    BY <2>2 DEF InconsistentExpiry, AllowedTransitions, PendingEntryStatus, PersistableStatuses
  <2>10. ~Contradicts(e, shown)
    BY <2>1, <2>2, <2>4, <2>5, <2>8, <2>9 DEF Contradicts, Entry
  <2> QED
    BY <2>1, <2>2, <2>4, <2>5, <2>6, <2>7, <2>10 DEF Updated, Entry
<1> QED
  BY <1>1, Safety, PTL

(* No entry is asked to expire before its time: age_pending_entry counts no *)
(* candle twice, whichever list of candles it is given after which.         *)
THEOREM ExpiresInTime == Spec => []NeverExpiresEarly
<1>1. SafetyInv => NeverExpiresEarly
  BY DEF SafetyInv, IInv, TypeOK, SlotOK, EntryFits, ClockOK, NeverExpiresEarly, Entry
<1> QED
  BY <1>1, Safety, PTL

(* Between two operations of a running bot its active order is the one in   *)
(* the slot, unless this process never got the placing acknowledged: an     *)
(* order of an earlier process stops the start or is restored by it.        *)
THEOREM ActiveOrdersAccounted == Spec => []ActiveOrderAccounted
<1>1. SafetyInv => ActiveOrderAccounted
  BY DEF SafetyInv, AccountedOK, ActiveOrderAccounted
<1> QED
  BY <1>1, Safety, PTL

(* No untouched entry order of a running bot waits beside an open position: *)
(* submit_entry reads it before it lists the orders, the recovery after it  *)
(* has, and no order of the bot can fill in between.                       *)
THEOREM EntryNeverBesidePosition == Spec => []NoEntryBesidePosition
<1>1. SafetyInv => NoEntryBesidePosition
  BY DEF SafetyInv, BesideOK, NoEntryBesidePosition
<1> QED
  BY <1>1, Safety, PTL

(* As long as a successful recovery is not repeated, every entry that left  *)
(* the slot because it ended had its TERMINAL event queued.  (Repeated, as  *)
(* recover_runtime_state does when a later part of the start fails, it      *)
(* forgets an end found before: with "retry" the property does not hold.)   *)
THEOREM EndsAreReported ==
    ASSUME "retry" \notin Faults
    PROVE  Spec => []EveryEndIsReported
<1>1. Init => EndsOK
  BY SafetyInit
<1>2. SafetyInv /\ EndsOK /\ [Next]_vars => EndsOK'
  BY EndsKept DEF SafetyInv
<1>3. EndsOK => EveryEndIsReported
  BY DEF EndsOK, EndFound, EveryEndIsReported
<1> QED
  BY <1>1, <1>2, <1>3, Safety, PTL DEF Spec

(* A process tells nothing of an order after it has told its end.           *)
THEOREM EndLastWord == Spec => EndIsTheLastWord
<1>1. SafetyInv /\ SafetyInv' /\ [Next]_vars
        => [Len(events') > Len(events) =>
              events'[Len(events')].id \notin reported]_<<events, reported>>
  <2> SUFFICES ASSUME SafetyInv, SafetyInv', [Next]_vars, Len(events') > Len(events)
               PROVE  events'[Len(events')].id \notin reported
    OBVIOUS
  <2>1. events \in Seq(Event)
    BY DEF SafetyInv, IInv, TypeOK
  <2>2. ASSUME NEW event, events' = Append(events, event)
        PROVE  events'[Len(events')] = event
    BY <2>1, <2>2
  <2>3. CASE Announces
    <3>1. PICK event \in Event : slot' # NoEntry /\ event.id = slot'.id
                                /\ events' \in {events, Append(events, event)}
      BY <2>3 DEF Announces
    <3>2. events'[Len(events')].id = slot'.id /\ slot'.id \in Ids /\ reported' = reported
      BY <2>1, <2>2, <2>3, <3>1 DEF Announces, Event
    <3> QED
      BY <3>1, <3>2 DEF SafetyInv, GoneOK, Gone
  <2>4. CASE TellsEnd
    <3>1. slot # NoEntry /\ slot.id \in Ids /\ EndEvent.id = slot.id
      BY <2>4, EndsAreEnds, EndEventFits DEF SafetyInv, TellsEnd
    <3>2. events'[Len(events')] = EndEvent
      BY <2>1, <2>2, <2>4 DEF TellsEnd, Queue
    <3> QED
      BY <3>1, <3>2 DEF SafetyInv, GoneOK, Gone
  <2>5. CASE RecoverFinish
    <3> DEFINE announced == RecoveryAnnouncement
    <3>1. /\ announced # NoEntry /\ announced.id \notin recNotified
          /\ events' = Append(events, announced)
      BY <2>1, <2>5 DEF RecoverFinish
    <3>2. CASE slot = NoEntry
      <4>1. phase = "starting"
        BY <2>5 DEF RecoverFinish, SafetyInv, OperationOK, RecoverLabels, IInv, TypeOK
      <4> QED
        BY <2>2, <3>1, <4>1 DEF SafetyInv, GoneOK
    <3>3. CASE slot # NoEntry
      <4>1. announced.id = slot.id /\ slot.id \in Ids
        BY <3>3 DEF RecoveryAnnouncement, EventOf, SafetyInv, IInv, TypeOK, Entry
      <4> QED
        BY <2>2, <3>1, <3>3, <4>1 DEF SafetyInv, GoneOK, Gone
    <3> QED
      BY <3>2, <3>3
  <2>6. CASE Quiet \/ Recover \/ DrainEvents \/ ProcessEnds
    BY <2>1, <2>6 DEF Quiet, Recover, DrainEvents, ProcessEnds
  <2> QED
    BY <2>3, <2>4, <2>5, <2>6, EventSteps DEF SafetyInv
<1> QED
  BY <1>1, Safety, PTL DEF Spec, EndIsTheLastWord

----------------------------------------------------------------------------
(* The file and the exchange implement the ledger.                         *)

(* An entry ages only once it has been saved.                              *)
FreshOK ==
    /\ slot # NoEntry /\ store = NoRecord => slot.age = 0 /\ ~slot.expiry
    /\ pc = "age_count" /\ slot # NoEntry => store # NoRecord

LEMMA RecordsDiffer ==
    /\ \A e \in Entry : \A n : RecordOf(e) # NoRecord /\ [entry |-> e, lastAged |-> n] # NoRecord
BY EntryNotNone DEF RecordOf, NoRecord

LEMMA FreshKept ==
    ASSUME SafetyInv, SafetyInv', FreshOK, [Next]_vars
    PROVE  FreshOK'
<1> USE DEF SafetyInv
<1>1. slot \in Entry \cup {NoEntry} /\ slot' \in Entry \cup {NoEntry}
  BY DEF IInv, TypeOK
<1>2. ASSUME slot' # NoEntry, store' = NoRecord PROVE slot'.age = 0 /\ ~slot'.expiry
  <2>1. CASE UNCHANGED <<slot, store, known, lastAged>>
    BY <1>2, <2>1 DEF FreshOK
  <2>2. CASE Resaves \/ Ages
    BY <1>1, <1>2, <2>2, RecordsDiffer DEF Resaves, Ages, SetSlot
  <2>3. CASE Registers
    BY <2>3 DEF Registers, Saves, SetSlot, NewEntry
  <2>4. CASE Reconciles \/ Ends
    <3>1. slot \in Entry /\ slot # NoEntry /\ snap \in Snapshot
      BY <2>4 DEF Reconciles, Ends, Reads, IInv, TypeOK, ControlOK
    <3>2. Updated(slot, snap) \in Entry /\ Updated(slot, snap).age = slot.age
          /\ Updated(slot, snap).expiry = slot.expiry
      BY <3>1, UpdatedType DEF Updated, Entry
    <3> QED
      BY <1>2, <2>4, <3>1, <3>2, RecordsDiffer DEF Reconciles, Ends, Saves, SetSlot, FreshOK
  <2>5. CASE Acknowledges
    <3>1. slot \in Entry /\ slot # NoEntry
      BY <2>5 DEF Acknowledges, IInv, TypeOK, ControlOK
    <3>2. Acknowledged(slot) \in Entry /\ Acknowledged(slot).age = slot.age
          /\ Acknowledged(slot).expiry = slot.expiry
      BY <3>1 DEF Acknowledged, Entry, PendingEntryStatus, PersistableStatuses
    <3> QED
      BY <1>2, <2>5, <3>1, <3>2, RecordsDiffer DEF Acknowledges, Saves, SetSlot, FreshOK
  <2> QED
    BY <1>2, <2>1, <2>2, <2>3, <2>4, <2>5, DataSteps DEF Restores, Empties, ProcessEnds
<1>3. ASSUME pc' = "age_count", slot' # NoEntry PROVE store' # NoRecord
  <2> USE DEF Fails, FailedRead, Raise, Return, Goto
  <2>1. CASE Exchange \/ UNCHANGED vars
    BY <1>3, <2>1, ExchangeFrame DEF callVars, slotVars, FreshOK
  <2>2. ASSUME pc \in {"reconcile", "cancel_reconcile"}, NEW ACTION after,
               \/ ReconcileRefused \/ ReconcileStale(after)
               \/ ReconcileActive(after) \/ ReconcileTerminal(after)
        PROVE  store' # NoRecord
    <3>1. slot \in Entry /\ slot # NoEntry /\ snap \in Snapshot /\ Updated(slot, snap) \in Entry
      BY <2>2, UpdatedType DEF IInv, TypeOK, ControlOK
    <3>2. CASE ReconcileRefused \/ ReconcileStale(after)
      BY <1>3, <3>1, <3>2, RecordsDiffer DEF ReconcileRefused, ReconcileStale
    <3>3. CASE ReconcileActive(after)
      BY <1>3, <3>1, <3>3, RecordsDiffer DEF ReconcileActive
    <3>4. CASE ReconcileTerminal(after)
      BY <1>3, <3>1, <3>4, RecordsDiffer DEF ReconcileTerminal
    <3> QED
      BY <2>2, <3>2, <3>3, <3>4
  <2>3. CASE Reconcile \/ CancelReconcile
    BY <2>2, <2>3 DEF Reconcile, CancelReconcile
  <2>4. CASE CancelNotSent
    <3>1. CASE slot.status \in TerminalStatuses
      BY <1>3, <2>4, <3>1 DEF CancelNotSent, Continue, UnendedOK
    <3>2. CASE slot.status \notin TerminalStatuses
      BY <1>1, <1>3, <2>4, <3>2, RecordsDiffer DEF CancelNotSent, IInv, ControlOK
    <3> QED
      BY <3>1, <3>2
  <2>5. CASE CancelAck
    <3>1. Acknowledged(slot) \in Entry
      BY <1>1, <2>5 DEF CancelAck, IInv, ControlOK, Acknowledged, Entry, PendingEntryStatus,
         PersistableStatuses
    <3> QED
      BY <1>3, <2>5, <3>1, RecordsDiffer DEF CancelAck
  <2>6. CASE Call \/ Process
    BY <1>3, <2>6 DEF Call, SubmitRefusedLocally, SubmitRepeated, Submit, Refresh, CancelEntry,
       Recover, Age, Begin, Process, Start, StartupDone, StartupFailed, Crash, DrainEvents,
       PhaseOnly, ProcessEnds, callVars, slotVars, ControlOnly, FreshOK, OperationOK
  <2>7. CASE SubmitPosition \/ SubmitListing \/ SubmitPlace \/ SubmitAck \/ SubmitQuery \/ Query
             \/ CancelSend \/ CancelQuery \/ AgeSkipped \/ AgeCount
    BY <1>3, <2>7 DEF SubmitPosition, SubmitListing, SubmitPlace, SubmitAck, SubmitQuery, Query,
       CancelSend, CancelQuery, AgeSkipped, AgeCount, CancelFor
  <2>8. CASE RecoverListing \/ RecoverClassify \/ RecoverDecide \/ RecoverPosition
             \/ RecoverResume \/ RecoverFinish
    BY <1>3, <2>8 DEF RecoverListing, RecoverClassify, RecoverDecide, RecoverPosition,
       RecoverResume, RecoverFinish, FailedRecoveryRead, CancelFor
  <2> QED
    BY <2>1, <2>3, <2>4, <2>5, <2>6, <2>7, <2>8 DEF Next, BrokerStep
<1> QED
  BY <1>2, <1>3 DEF FreshOK

LEMMA EndedSteps ==
    ASSUME IInv, OrdersOK, [Next]_vars
    PROVE  \/ EndedIds' = EndedIds
           \/ store' = store /\ \E id \in Ids : EndedIds' = EndedIds \cup {id}
<1>1. CASE UNCHANGED orders
  BY <1>1 DEF EndedIds
<1>2. ASSUME NEW id \in Ids, \A i \in Ids \ {id} : orders'[i] = orders[i]
      PROVE  EndedIds' = EndedIds \/ EndedIds' = EndedIds \cup {id}
  BY <1>2, OrdersInv DEF OrdersAdvanced, EndedIds, EndedStatus
<1>3. CASE SubmitPlace
  <2>1. arg.id \in Ids /\ store' = store /\ orders' \in {orders, Placed}
    BY <1>3 DEF SubmitPlace, Fails, ControlOnly, slotVars, IInv, ControlOK, TypeOK
  <2>2. \A i \in Ids \ {arg.id} : orders'[i] = orders[i]
    BY <2>1 DEF Placed, IInv, TypeOK
  <2> QED
    BY <1>2, <2>1, <2>2
<1>4. CASE CancelSend
  <2>1. slot.id \in Ids /\ store' = store /\ orders' \in {orders, CancelRequested}
    BY <1>4 DEF CancelSend, slotVars, IInv, ControlOK, TypeOK, Entry
  <2>2. \A i \in Ids \ {slot.id} : orders'[i] = orders[i]
    BY <2>1 DEF CancelRequested, IInv, TypeOK
  <2> QED
    BY <1>2, <2>1, <2>2
<1>5. CASE Exchange
  <2>1. UNCHANGED orders \/ \E id \in Ids : \A i \in Ids \ {id} : orders'[i] = orders[i]
    BY <1>5 DEF Exchange, NewCandle, PositionMoves, ForeignTrade, ForeignOrder, ForeignPosition, OrderMoves, Accept, Reject,
       BeginCancel, FinishCancel, CancelElsewhere, Fill, IInv, TypeOK
  <2> QED
    BY <1>1, <1>2, <1>5, <2>1, ExchangeFrame
<1> QED
  BY <1>1, <1>3, <1>4, <1>5, OrdersFrame

(* An entry in the slot only advances: its fills, its age, its expiry and   *)
(* its cancellation.                                                       *)
LEMMA SlotAdvances ==
    ASSUME SafetyInv, [Next]_vars, slot # NoEntry, slot' # NoEntry
    PROVE  \/ Restores
           \/ /\ slot'.id = slot.id
              /\ slot'.filled >= slot.filled
              /\ slot'.age >= slot.age
              /\ slot.expiry => slot'.expiry /\ slot'.age = slot.age
              /\ slot.status = "CANCEL_REQUESTED"
                   => slot'.status \in TerminalStatuses \cup {"CANCEL_REQUESTED"}
              /\ slot.status \in TerminalStatuses => slot'.status \in TerminalStatuses
<1> USE DEF SafetyInv
<1>1. slot \in Entry /\ slot.id \in Ids
  BY DEF IInv, TypeOK, Entry
<1>2. CASE slot' = slot
  BY <1>1, <1>2 DEF Entry
<1>3. CASE Reconciles \/ Ends
  <2>1. slot' = Updated(slot, snap) /\ Reads
    BY <1>3 DEF Reconciles, Ends, Saves, SetSlot
  <2>2. snap \in Snapshot
    BY <2>1 DEF Reads, IInv, TypeOK, ControlOK
  <2>3. orders[slot.id].filled \in 0 .. Volume /\ lastAged \in Nat /\ clock \in Nat
    BY <1>1, OrderFields DEF IInv, TypeOK
  <2>4. EntryFits(slot, lastAged, orders[slot.id], clock) /\ SnapshotFits(snap, orders[slot.id])
    BY <2>1 DEF Reads, SlotOK, SnapOK
  <2>5. /\ slot'.id = slot.id /\ slot'.age = slot.age /\ slot'.expiry = slot.expiry
        /\ slot'.filled >= slot.filled
        /\ slot.status = "CANCEL_REQUESTED"
             => slot'.status \in TerminalStatuses \cup {"CANCEL_REQUESTED"}
        /\ slot.status \in TerminalStatuses => slot'.status \in TerminalStatuses
    BY <1>1, <2>1, <2>2, <2>3, <2>4, UpdatedFits DEF Reads
  <2> QED
    BY <1>1, <2>5 DEF Entry
<1>4. CASE Acknowledges
  <2>1. slot' = [slot EXCEPT !.status = "CANCEL_REQUESTED"]
    BY <1>4 DEF Acknowledges, Saves, SetSlot, Acknowledged
  <2> QED
    BY <1>1, <1>4, <2>1 DEF Acknowledges, UnendedOK, Entry
<1>5. CASE Ages
  <2>1. ~slot.expiry /\ slot' = AgedEntry /\ arg.candle \in Nat /\ lastAged \in Nat
    BY <1>1, <1>5 DEF Ages, SetSlot, StillAges, ResumeExpiry, UnendedOK, IInv, TypeOK, Entry,
       PendingEntryStatus, PersistableStatuses, TerminalStatuses
  <2>2. Cardinality(Eligible(slot, arg.candle)) \in Nat
    BY <1>1, <2>1, EligibleType
  <2> QED
    BY <1>1, <2>1, <2>2 DEF AgedEntry, Entry
<1> QED
  BY <1>2, <1>3, <1>4, <1>5, DataSteps
     DEF Resaves, Registers, SubmitOK, Empties, ProcessEnds

(* Where the ledger's record may be: the file, in the ledger's words.       *)
LedgerRecord == IF store = NoRecord THEN [id |-> "none"] ELSE RecordedEntry(store.entry)

LEMMA RecordedType ==
    ASSUME NEW e \in Entry, e.age <= MaxCandle
    PROVE  RecordedEntry(e) \in Ledger!Recorded
BY BoundsAssumption DEF RecordedEntry, Entry, Ledger!Recorded

(* A write is an opening or an advance of the ledger.                      *)
LEMMA WriteSteps ==
    ASSUME SafetyInv, SafetyInv', FreshOK, [Next]_vars,
           store' # store, store' # NoRecord
    PROVE  /\ store = NoRecord => store'.entry.age = 0 /\ ~store'.entry.expiry
           /\ store # NoRecord =>
                /\ store'.entry.id = store.entry.id
                /\ store'.entry.filled >= store.entry.filled
                /\ store'.entry.age >= store.entry.age
                /\ store.entry.expiry
                     => store'.entry.expiry /\ store'.entry.age = store.entry.age
                /\ store.entry.status = "CANCEL_REQUESTED"
                     => store'.entry.status = "CANCEL_REQUESTED"
<1> USE DEF SafetyInv
<1>1. /\ store' = [entry |-> slot', lastAged |-> lastAged']
      /\ slot' # NoEntry /\ slot'.status \notin TerminalStatuses /\ slot' \in Entry
  BY StoreSteps DEF IInv, TypeOK
<1>2. ~Restores /\ ~Empties /\ ~ProcessEnds
  BY DEF Restores, Empties, ProcessEnds
<1>3. CASE slot = NoEntry
  <2>1. Registers
    BY <1>1, <1>2, <1>3, DataSteps
       DEF Resaves, Reconciles, Ends, Reads, Acknowledges, Ages, StillAges, IInv, ControlOK
  <2>2. store = NoRecord
    BY <1>3, <2>1 DEF Registers, HeldOK, OperationOK, BeforeRestore, SubmitLabels
  <2> QED
    BY <1>1, <2>1, <2>2 DEF Registers, Saves, SetSlot, NewEntry
<1>4. CASE slot # NoEntry
  <2>1. slot \in Entry /\ (store # NoRecord => store.entry \in Entry)
    BY <1>4 DEF IInv, TypeOK, Record
  <2>2. CASE store = NoRecord
    <3>1. FreshOK'
      BY FreshKept
    <3>2. ~Ages /\ slot.age = 0 /\ ~slot.expiry
      BY <1>4, <2>2 DEF Ages, FreshOK
    <3>3. slot'.age = slot.age /\ slot'.expiry = slot.expiry
      <4>1. CASE Reconciles \/ Ends
        <5>1. slot' = Updated(slot, snap)
          BY <1>1, <4>1 DEF Reconciles, Ends, Saves, SetSlot
        <5> QED
          BY <1>4, <2>1, <5>1 DEF Updated, Entry, IInv, TypeOK
      <4>2. CASE Acknowledges
        BY <2>1, <4>2 DEF Acknowledges, Saves, SetSlot, Acknowledged, Entry
      <4> QED
        BY <1>2, <1>4, <3>2, <4>1, <4>2, DataSteps DEF Resaves, Registers, SubmitOK
    <3> QED
      BY <1>1, <2>2, <3>2, <3>3
  <2>3. CASE store # NoRecord
    <3>1. /\ slot'.id = slot.id
          /\ slot'.filled >= slot.filled
          /\ slot'.age >= slot.age
          /\ slot.expiry => slot'.expiry /\ slot'.age = slot.age
          /\ slot.status = "CANCEL_REQUESTED"
               => slot'.status \in TerminalStatuses \cup {"CANCEL_REQUESTED"}
          /\ slot.status \in TerminalStatuses => slot'.status \in TerminalStatuses
      BY <1>1, <1>2, <1>4, SlotAdvances
    <3>2. /\ slot.id = store.entry.id
          /\ slot.filled >= store.entry.filled
          /\ slot.age = store.entry.age /\ slot.expiry = store.entry.expiry
          /\ store.entry.status = "CANCEL_REQUESTED"
               => slot.status \in TerminalStatuses \cup {"CANCEL_REQUESTED"}
      BY <1>4, <2>3 DEF MatchOK
    <3> QED
      BY <1>1, <2>1, <2>3, <3>1, <3>2 DEF Entry
  <2> QED
    BY <2>2, <2>3
<1> QED
  BY <1>3, <1>4

(* The record is removed only when its order has ended.                     *)
LEMMA RemovalSteps ==
    ASSUME SafetyInv, [Next]_vars, store # NoRecord, store' = NoRecord
    PROVE  store.entry.id \in EndedIds
<1> USE DEF SafetyInv
<1>1. CASE Ends
  BY <1>1, EndsAreEnds DEF MatchOK, EndedIds, EndedStatus
<1>2. CASE Resaves \/ Ages \/ Registers \/ Reconciles \/ Acknowledges
  <2>1. \/ store' = store
        \/ \E n : store' = [entry |-> slot', lastAged |-> n]
    BY <1>2 DEF Resaves, Ages, Registers, Reconciles, Acknowledges, Saves, SetSlot, RecordOf
  <2>2. slot' # NoEntry /\ slot' \in Entry
    BY <1>2, WritesEntry, NextInv DEF IInv, TypeOK
  <2> QED
    BY <2>1, <2>2, RecordsDiffer
<1> QED
  BY <1>1, <1>2, DataSteps DEF Restores, Empties, ProcessEnds

LEMMA LedgerInit == Init => Ledger!Init
BY DEF Init, Ledger!Init, Ledger!None, EndedIds, NoOrder

LEMMA LedgerStep ==
    ASSUME SafetyInv, SafetyInv', FreshOK, [Next]_vars
    PROVE  [Ledger!Next]_(Ledger!vars)
<1>1. store' = store => LedgerRecord' = LedgerRecord
  BY DEF LedgerRecord, RecordedEntry
<1>2. CASE store' = store
  <2>1. CASE EndedIds' = EndedIds
    BY <1>1, <1>2, <2>1 DEF LedgerRecord, Ledger!vars
  <2>2. ASSUME NEW id \in Ids, EndedIds' = EndedIds \cup {id} PROVE Ledger!End(id)
    BY <1>1, <1>2, <2>2 DEF LedgerRecord, Ledger!End
  <2> QED
    BY <1>2, <2>1, <2>2, EndedSteps DEF Ledger!Next, SafetyInv
<1>3. store' # store => EndedIds' = EndedIds
  BY EndedSteps DEF SafetyInv
<1>4. CASE store' # store /\ store' = NoRecord
  <2>1. store.entry.id \in EndedIds /\ store # NoRecord
    BY <1>4, RemovalSteps
  <2> QED
    BY <1>3, <1>4, <2>1 DEF Ledger!Next, Ledger!Close, Ledger!None, RecordedEntry
<1>5. CASE store' # store /\ store' # NoRecord
  <2>1. /\ RecordedEntry(store.entry)' \in Ledger!Recorded
        /\ store'.entry \in Entry
        /\ LedgerRecord' = RecordedEntry(store.entry)'
    <3>1. store'.entry \in Entry /\ store'.lastAged \in Nat /\ clock' \in Nat
      BY <1>5 DEF SafetyInv, IInv, TypeOK, Record
    <3>2. store'.entry.age <= MaxCandle
      BY <1>5, <3>1, BoundsAssumption DEF SafetyInv, StoreOK, ClockOK, EntryFits, Entry
    <3>3. RecordedEntry(store'.entry) \in Ledger!Recorded
      BY <3>1, <3>2, RecordedType
    <3> QED
      BY <1>5, <3>1, <3>3 DEF LedgerRecord, RecordedEntry
  <2>2. CASE store = NoRecord
    BY <1>3, <1>5, <2>1, <2>2, WriteSteps
       DEF LedgerRecord, Ledger!Next, Ledger!Open, Ledger!None, RecordedEntry
  <2>3. CASE store # NoRecord
    BY <1>3, <1>5, <2>1, <2>3, WriteSteps
       DEF LedgerRecord, Ledger!Next, Ledger!Advance, Ledger!None, RecordedEntry
  <2> QED
    BY <2>2, <2>3
<1> QED
  BY <1>2, <1>4, <1>5

(* Whatever crashes, timeouts and failing writes happen, the file of the    *)
(* broker and the exchange behave as the ledger does: one entry at a time,  *)
(* which only advances and is removed only when its order has ended.        *)
THEOREM LedgerImplemented == Spec => ImplementsLedger
<1>1. Init => FreshOK
  BY DEF Init, FreshOK
<1>2. SafetyInv /\ SafetyInv' /\ FreshOK /\ [Next]_vars => FreshOK'
  BY FreshKept
<1>3. SafetyInv /\ SafetyInv' /\ FreshOK /\ [Next]_vars => [Ledger!Next]_(Ledger!vars)
  BY LedgerStep
<1> QED
  BY <1>1, <1>2, <1>3, LedgerInit, Safety, PTL DEF Spec, ImplementsLedger, Ledger!Spec

=============================================================================
