----------------------- MODULE BybitPendingEntryProofs -----------------------
(***************************************************************************)
(* Proofs, for every set of order link ids, every volume, TTL and set of   *)
(* faults, of what MCBybitPendingEntry checks on small instances.          *)
(***************************************************************************)
EXTENDS BybitPendingEntryProperties, FiniteSetTheorems, TLAPS

----------------------------------------------------------------------------
(* Lemmas on the data. *)

(* An order the exchange knows is one that was placed.                      *)
LEMMA PlacedOrderType ==
    ASSUME NEW o \in Order, o # NoOrder
    PROVE  /\ o \in PlacedOrder /\ o.status \in BybitStatus /\ o.filled \in 0 .. Volume
           /\ o.cancelling \in BOOLEAN
BY DEF Order, PlacedOrder

LEMMA OrderUpdateType ==
    ASSUME NEW o \in PlacedOrder, NEW s \in BybitStatus, NEW f \in 0 .. Volume
    PROVE  /\ [o EXCEPT !.status = s] \in PlacedOrder
           /\ [o EXCEPT !.cancelling = TRUE] \in PlacedOrder
           /\ [o EXCEPT !.filled = f, !.status = s] \in PlacedOrder
           /\ [o EXCEPT !.status = s, !.filled = f] \in PlacedOrder
BY DEF PlacedOrder

LEMMA PlacedOrdersAreOrders ==
    /\ PlacedOrder \subseteq Order /\ NoOrder \in Order /\ NoOrder \notin PlacedOrder
    /\ NoOrder.status = "Absent" /\ NoOrder.filled = 0
    /\ \A o \in PlacedOrder : o # NoOrder
    /\ NewOrder \in PlacedOrder /\ NewOrder.filled = 0
    /\ 0 \in 0 .. Volume /\ 0 < Volume
<1>1. 0 \in 0 .. Volume /\ 0 < Volume
  BY VolumeAssumption DEF VolumeAssumption
<1>2. NoOrder.status = "Absent" /\ NoOrder.filled = 0
  BY DEF NoOrder
<1>3. NoOrder \notin PlacedOrder
  BY <1>2 DEF PlacedOrder, BybitStatus
<1>4. NewOrder \in PlacedOrder /\ NewOrder.filled = 0
  BY <1>1 DEF NewOrder, PlacedOrder, BybitStatus
<1> QED
  BY <1>1, <1>2, <1>3, <1>4 DEF Order

LEMMA ActiveOrderType ==
    ASSUME TypeOK, NEW id \in Ids, IsActive(id)
    PROVE  orders[id] \in PlacedOrder
BY PlacedOrdersAreOrders DEF TypeOK, Order, IsActive, ActiveBybitStatus

(* The snapshot mapper (bybit_entry_order_snapshot_mapper.py) yields a      *)
(* well-formed snapshot for every order the exchange knows.                 *)
LEMMA SnapshotType ==
    ASSUME NEW o \in Order, o # NoOrder
    PROVE  SnapshotOf(o) \in Snapshot /\ SnapshotOf(o) # NoSnapshot
<1>1. StatusMapping[o.status] \in PendingEntryStatus
  BY PlacedOrderType DEF BybitStatus, StatusMapping, PendingEntryStatus,
         PersistableStatuses, TerminalStatuses
<1>2. o.filled \in 0 .. Volume
  BY PlacedOrderType
<1>3. "NONE" \notin PendingEntryStatus
  BY DEF PendingEntryStatus, PersistableStatuses, TerminalStatuses
<1> QED
  BY <1>1, <1>2, <1>3 DEF SnapshotOf, Snapshot, NoSnapshot

(* A query shows some state the order has been in.                          *)
LEMMA ViewType ==
    ASSUME NEW id \in Ids, orders \in [Ids -> Order], orders[id] # NoOrder,
           NEW view \in Views(id)
    PROVE  view \in Order /\ view # NoOrder
<1>1. ASSUME NEW o \in PlacedOrder, NEW v \in OlderViews(o)
      PROVE  v \in PlacedOrder
  <2>1. "Created" \in BybitStatus /\ "New" \in BybitStatus /\ 0 \in 0 .. Volume
    BY PlacedOrdersAreOrders DEF BybitStatus
  <2>2. /\ [o EXCEPT !.status = "Created"] \in PlacedOrder
        /\ [o EXCEPT !.status = "New", !.filled = 0] \in PlacedOrder
    BY <2>1, OrderUpdateType
  <2> QED
    BY <2>2 DEF OlderViews
<1>2. orders[id] \in PlacedOrder
  BY PlacedOrderType
<1> QED
  BY <1>1, <1>2, PlacedOrdersAreOrders DEF Views

(* The reconciliation (bybit_broker.py, _reconcile_active_entry) of an      *)
(* entry with a snapshot is an entry with the same identity and marker.     *)
LEMMA UpdatedType ==
    ASSUME NEW e \in Entry, NEW s \in Snapshot
    PROVE  /\ Updated(e, s) \in Entry
           /\ Updated(e, s).id = e.id
           /\ Updated(e, s).expiry = e.expiry
BY DEF Updated, Entry, Snapshot, EffectiveStatus, KeepsStatus,
       PendingEntryStatus, TerminalStatuses

LEMMA EntryNotNone ==
    /\ NoEntry \notin Entry
    /\ \A e \in Entry : e # NoEntry
    /\ NoRecord \notin Record
BY DEF Entry, NoEntry, Record, NoRecord, PendingEntryStatus,
       PersistableStatuses, TerminalStatuses

(* The number of candles an entry ages by is a natural number.              *)
LEMMA EligibleType ==
    ASSUME NEW e, NEW latest \in Nat
    PROVE  Cardinality(Eligible(e, latest)) \in Nat
<1>1. IsFiniteSet(1 .. latest)
  BY FS_Interval
<1>2. Eligible(e, latest) \subseteq 1 .. latest
  BY DEF Eligible
<1> QED
  BY <1>1, <1>2, FS_Subset, FS_CardinalityType

----------------------------------------------------------------------------
(* The inductive invariant: types, and what each step relies on when it is *)
(* reached.                                                                *)

IInv == TypeOK /\ ControlOK

LEMMA InitInv == Init => IInv
<1> SUFFICES ASSUME Init PROVE IInv
  OBVIOUS
<1>1. NoOrder \in Order
  BY PlacedOrdersAreOrders
<1>2. /\ orders \in [Ids -> Order] /\ store \in Record \cup {NoRecord}
      /\ slot \in Entry \cup {NoEntry} /\ events \in Seq(Event)
      /\ known \in [Ids -> PendingEntryStatus \cup {"none"}]
      /\ snap \in Snapshot \cup {NoSnapshot}
      /\ lastTerminal \in Event \cup {NoEntry}
  BY <1>1 DEF Init
<1>4. TypeOK
  BY <1>2 DEF Init, TypeOK, NoArg, Labels, Ops, Outcomes
<1>3. ControlOK
  BY DEF Init, ControlOK, ActiveIds, IsActive, ActiveBybitStatus, NoOrder
<1> QED
  BY <1>4, <1>3 DEF IInv

(* The exchange touches nothing but its own state, and what it does to an   *)
(* order never makes an order active again.                                 *)
LEMMA ExchangeInv == IInv /\ Exchange => IInv'
<1> SUFFICES ASSUME IInv, Exchange PROVE IInv'
  OBVIOUS
<1> USE DEF ExchangeOnly, slotVars, eventVars, callVars
<1>1. CASE NewCandle \/ PositionMoves \/ ForeignTrade
  <2>3. foreign' \in BOOLEAN
    <3>1. CASE foreign' = ~foreign
      BY <3>1
    <3>2. CASE foreign' = foreign
      BY <3>2, Zenon DEF IInv, TypeOK
    <3>3. CASE foreign' \in {foreign, FALSE}
      BY <3>2, <3>3, Zenon
    <3> QED
      BY <1>1, <3>1, <3>2, <3>3, Zenon DEF NewCandle, PositionMoves, ForeignTrade, ForeignOrder, ForeignPosition
  <2>4. position' \in {"none", "bare", "protected"} /\ opening' \in {"ordinary", "unseen"}
    BY <1>1 DEF NewCandle, PositionMoves, ForeignTrade, ForeignOrder, ForeignPosition, Opens, IInv, TypeOK
  <2>6. (clock' = clock \/ clock' = clock + 1) /\ UNCHANGED orders
    BY <1>1, Zenon DEF NewCandle, PositionMoves, ForeignTrade, ForeignOrder, ForeignPosition
  <2>5. clock' \in Nat
    BY <2>6 DEF IInv, TypeOK
  <2>1. TypeOK'
    BY <1>1, <2>3, <2>4, <2>5, <2>6
       DEF NewCandle, PositionMoves, ForeignTrade, ForeignOrder, ForeignPosition, IInv, TypeOK
  <2>2. UNCHANGED orders
    BY <1>1 DEF NewCandle, PositionMoves, ForeignTrade, ForeignOrder, ForeignPosition, Opens
  <2> QED
    BY <1>1, <2>1, <2>2 DEF NewCandle, PositionMoves, ForeignTrade, ForeignOrder, ForeignPosition, Opens, IInv,
       ControlOK, ActiveIds, IsActive, Owned
<1>2. ASSUME NEW id \in Ids,
             Accept(id) \/ Reject(id) \/ BeginCancel(id) \/ FinishCancel(id)
             \/ CancelElsewhere(id)
      PROVE  IInv'
  <2>1. PICK status \in BybitStatus : OrderMoves(id, status)
    BY <1>2 DEF Accept, Reject, BeginCancel, FinishCancel, CancelElsewhere, BybitStatus
  <2>2. IsActive(id)
    BY <1>2 DEF Accept, Reject, BeginCancel, FinishCancel, CancelElsewhere,
       IsActive, ActiveBybitStatus
  <2>5. orders[id] \in PlacedOrder
    BY <2>2, ActiveOrderType DEF IInv
  <2>3. TypeOK'
    BY <2>1, <2>5, OrderUpdateType, PlacedOrdersAreOrders DEF OrderMoves, IInv, TypeOK
  <2>4. ActiveIds' \subseteq ActiveIds /\ \A i \in Ids : orders'[i].filled = orders[i].filled
    BY <2>1, <2>2, <2>5 DEF OrderMoves, IInv, TypeOK, PlacedOrder, ActiveIds, IsActive
  <2> QED
    BY <2>1, <2>3, <2>4 DEF OrderMoves, IInv, ControlOK, Owned, ActiveIds
<1>3. ASSUME NEW id \in Ids, Fill(id)
      PROVE  IInv'
  <2>1. orders[id].filled < Volume
    BY <1>3 DEF Fill, IInv, ControlOK, ActiveIds
  <2>2. orders'[id] \in Order /\ (IsActive(id)' => orders'[id].filled < Volume)
    <3>1. orders[id] \in PlacedOrder
      BY <1>3, ActiveOrderType DEF IInv, Fill
    <3>2. PICK status \in BybitStatus :
             /\ orders'[id] = [orders[id] EXCEPT !.filled = @ + 1, !.status = status]
             /\ orders[id].filled + 1 = Volume => status = "Filled"
      BY <1>3, <3>1 DEF Fill, IInv, TypeOK, PlacedOrder, BybitStatus
    <3>3. orders'[id] = [status |-> status, filled |-> orders[id].filled + 1,
                         cancelling |-> orders[id].cancelling]
      BY <3>1, <3>2 DEF PlacedOrder
    <3>4. orders[id].filled + 1 \in 0 .. Volume
      BY <2>1, <3>1, VolumeAssumption DEF VolumeAssumption, PlacedOrder
    <3>5. orders'[id] \in Order
      BY <3>1, <3>3, <3>4, PlacedOrdersAreOrders DEF PlacedOrder
    <3>6. status # "Filled" => orders[id].filled + 1 < Volume
      BY <3>2, <3>4, VolumeAssumption DEF VolumeAssumption
    <3> QED
      BY <3>3, <3>5, <3>6 DEF IsActive, ActiveBybitStatus
  <2>5. position' \in {"none", "bare", "protected"} /\ opening' \in {"ordinary", "unseen"}
    BY <1>3 DEF Fill, Opens, IInv, TypeOK
  <2>3. TypeOK'
    BY <1>3, <2>2, <2>5 DEF Fill, IInv, TypeOK
  <2>4. /\ ActiveIds' \subseteq ActiveIds
        /\ \A i \in Ids \ {id} : orders'[i] = orders[i]
    BY <1>3 DEF Fill, IInv, TypeOK, ActiveIds, IsActive
  <2> QED
    BY <1>3, <2>2, <2>3, <2>4 DEF Fill, IInv, ControlOK, Owned, ActiveIds, IsActive
<1> QED
  BY <1>1, <1>2, <1>3 DEF Exchange

----------------------------------------------------------------------------
(* The broker's steps, operation by operation. *)

LEMMA EventType ==
    ASSUME NEW e \in Entry,
           NEW kind \in {"SUBMITTED", "RECOVERED", "STATUS_CHANGED", "TERMINAL"},
           NEW prev \in PendingEntryStatus \cup {"NONE"}
    PROVE  EventOf(e, kind, prev) \in Event /\ EventOf(e, kind, prev).id = e.id
BY DEF EventOf, Event, Entry

(* A failing step ends the operation and leaves the rest alone.             *)
LEMMA FailsInv ==
    ASSUME IInv, NEW o \in Outcomes, Fails(o) \/ (Return(o) /\ ControlOnly)
    PROVE  IInv'
BY DEF Fails, Raise, Return, ControlOnly, BrokerOnly, exchangeVars, slotVars, eventVars,
   IInv, TypeOK, ControlOK, Labels, Ops, Outcomes, NoArg, ActiveIds, IsActive

LEMMA FailedReadInv ==
    ASSUME IInv, NEW failures \in SUBSET Outcomes, FailedRead(failures)
    PROVE  IInv'
BY FailsInv DEF FailedRead, Fails

(* submit_entry: from the listing to the placing no own order is active,    *)
(* and the entry that is registered is fresh.                               *)
LEMMA SubmitInv ==
    ASSUME IInv, SubmitPosition \/ SubmitListing \/ SubmitPlace \/ SubmitAck \/ SubmitQuery
    PROVE  IInv'
<1> USE DEF exchangeVars, slotVars, eventVars
<1> DEFINE e == NewEntry(arg.id, arg.candle)
<1>1. CASE SubmitPosition
  <2>1. CASE Goto("submit_listing") /\ ControlOnly
    BY <1>1, <2>1 DEF SubmitPosition, Goto, ControlOnly, BrokerOnly, IInv, TypeOK, ControlOK,
       Labels, ActiveIds, IsActive
  <2> QED
    BY <1>1, <2>1, FailsInv, FailedReadInv DEF SubmitPosition, Outcomes
<1>2. CASE SubmitListing
  <2>1. CASE ~SubmissionConflict /\ Goto("submit_place") /\ ControlOnly
    BY <1>2, <2>1 DEF SubmitListing, SubmissionConflict, Goto, ControlOnly, BrokerOnly,
       IInv, TypeOK, ControlOK, Labels, ActiveIds, IsActive
  <2> QED
    BY <1>2, <2>1, FailsInv, FailedReadInv DEF SubmitListing, Outcomes
<1>3. CASE SubmitPlace
  <2>1. arg.id \in Ids /\ ActiveIds = {} /\ pc = "submit_place"
    BY <1>3 DEF SubmitPlace, IInv, ControlOK
  <2>2. orders' = orders \/ (CanPlace /\ orders' = Placed)
    BY <1>3 DEF SubmitPlace
  <2>5. ASSUME orders' = orders
        PROVE  orders' \in [Ids -> Order] /\ \A id \in ActiveIds' : orders'[id].filled < Volume
    BY <2>1, <2>5 DEF IInv, TypeOK, ActiveIds, IsActive
  <2>6. ASSUME CanPlace, orders' = Placed
        PROVE  orders' \in [Ids -> Order] /\ \A id \in ActiveIds' : orders'[id].filled < Volume
    <3>1. orders'[arg.id] \in PlacedOrder /\ orders'[arg.id].filled = 0
      BY <2>1, <2>6, PlacedOrdersAreOrders DEF Placed, CanPlace, IInv, TypeOK
    <3>2. \A id \in Ids \ {arg.id} : orders'[id] = orders[id]
      BY <2>1, <2>6 DEF Placed, IInv, TypeOK
    <3> QED
      BY <2>1, <2>6, <3>1, <3>2, PlacedOrdersAreOrders
         DEF Placed, IInv, TypeOK, ActiveIds, IsActive
  <2>3. orders' \in [Ids -> Order] /\ \A id \in ActiveIds' : orders'[id].filled < Volume
    BY <2>2, <2>5, <2>6
  <2>4. TypeOK'
    BY <1>3, <2>1, <2>3 DEF SubmitPlace, Goto, Return, IInv, TypeOK, Labels, Ops, Outcomes, NoArg
  <2> QED
    BY <1>3, <2>1, <2>3, <2>4 DEF SubmitPlace, Goto, Return, IInv, ControlOK
<1>4. ASSUME arg.id \in Ids, NEW saved \in BOOLEAN, Register(saved)
      PROVE  /\ slot' \in Entry /\ slot' # NoEntry
             /\ store' \in Record \cup {NoRecord}
             /\ known' \in [Ids -> PendingEntryStatus \cup {"none"}]
             /\ events' \in Seq(Event) /\ reported' \subseteq Ids
             /\ subNotified' \subseteq Ids
             /\ UNCHANGED <<cancelSent, lastAged, recNotified, lastTerminal>>
  <2>1. e \in Entry /\ e.id = arg.id /\ e.status = "SUBMITTED"
    BY <1>4, PlacedOrdersAreOrders DEF NewEntry, Entry, IInv, TypeOK,
       PendingEntryStatus, PersistableStatuses
  <2>2. EventOf(e, "SUBMITTED", "NONE") \in Event /\ EventOf(e, "SUBMITTED", "NONE").id \in Ids
    BY <2>1, <1>4, EventType
  <2>3. RecordOf(e) \in Record
    BY <2>1 DEF RecordOf, Record, IInv, TypeOK
  <2>4. slot' = e /\ known' = [known EXCEPT ![arg.id] = "SUBMITTED"]
    BY <1>4, <2>1 DEF Register, SetSlot
  <2>5. /\ events' \in {events, Append(events, EventOf(e, "SUBMITTED", "NONE"))}
        /\ reported' = reported
    BY <1>4 DEF Register, Queue, EventOf
  <2>6. events' \in Seq(Event)
    BY <2>2, <2>5 DEF IInv, TypeOK
  <2>7. store' \in Record \cup {NoRecord} /\ subNotified' \subseteq Ids
    BY <1>4, <2>1, <2>3 DEF Register, IInv, TypeOK
  <2>8. known' \in [Ids -> PendingEntryStatus \cup {"none"}]
    BY <2>4 DEF IInv, TypeOK, PendingEntryStatus, PersistableStatuses
  <2>9. UNCHANGED <<cancelSent, lastAged, recNotified, lastTerminal>>
    BY <1>4 DEF Register
  <2> QED
    BY <2>1, <2>4, <2>5, <2>6, <2>7, <2>8, <2>9, EntryNotNone DEF IInv, TypeOK
<1>5. CASE SubmitAck
  <2>1. arg.id \in Ids /\ pc = "submit_ack"
    BY <1>5 DEF SubmitAck, IInv, ControlOK
  <2>2. PICK saved \in BOOLEAN :
          /\ Register(saved)
          /\ Return(IF saved THEN "ok" ELSE "persistence")
          /\ unconfirmed' = IF saved THEN unconfirmed ELSE unconfirmed \cup {arg.id}
    BY <1>5 DEF SubmitAck, SaveResults
  <2>3. TypeOK'
    BY <1>5, <2>1, <2>2, <1>4 DEF SubmitAck, Return, IInv, TypeOK, Labels, Ops, Outcomes, NoArg
  <2> QED
    BY <1>5, <2>2, <2>3 DEF SubmitAck, Return, IInv, ControlOK, ActiveIds, IsActive
<1>6. CASE SubmitQuery
  <2>1. arg.id \in Ids /\ pc = "submit_query"
    BY <1>6 DEF SubmitQuery, IInv, ControlOK
  <2>2. CASE ~(FailedRead({"unknown"}) \/ Fails("unknown"))
    <3>1. PICK view \in Views(arg.id), saved \in BOOLEAN :
            /\ Register(saved)
            /\ IF saved
               THEN /\ pc' = "reconcile" /\ snap' = SnapshotOf(view)
                    /\ UNCHANGED <<op, arg, listed, outcome>>
               ELSE Return("persistence")
      BY <1>6, <2>2 DEF SubmitQuery, SaveResults
    <3>2. orders[arg.id] # NoOrder /\ BrokerOnly
      BY <1>6, <2>2 DEF SubmitQuery
    <3>3. SnapshotOf(view) \in Snapshot /\ SnapshotOf(view) # NoSnapshot
      BY <2>1, <3>1, <3>2, ViewType, SnapshotType DEF IInv, TypeOK
    <3>4. TypeOK'
      BY <2>1, <3>1, <3>2, <3>3, <1>4 DEF BrokerOnly, Raise, Return, IInv, TypeOK, Labels, Ops,
         Outcomes, NoArg
    <3> QED
      BY <2>1, <3>1, <3>2, <3>3, <3>4, <1>4 DEF BrokerOnly, Return, IInv, ControlOK, ActiveIds, IsActive
  <2> QED
    BY <2>2, FailsInv, FailedReadInv DEF Outcomes
<1> QED
  BY <1>1, <1>2, <1>3, <1>5, <1>6

----------------------------------------------------------------------------
(* The steps of a query, a reconciliation, a cancellation and an aging      *)
(* change the broker's memory and file and leave the orders' life alone:    *)
(* the invariant is split into the two parts they disturb.                  *)

DataOK ==
    /\ store \in Record \cup {NoRecord}
    /\ slot \in Entry \cup {NoEntry}
    /\ known \in [Ids -> PendingEntryStatus \cup {"none"}]
    /\ cancelSent \subseteq Ids
    /\ lastAged \in Nat
    /\ events \in Seq(Event)
    /\ recNotified \subseteq Ids
    /\ subNotified \subseteq Ids
    /\ lastTerminal \in Event \cup {NoEntry}
    /\ reported \subseteq Ids

CallOK ==
    /\ pc \in Labels
    /\ op \in Ops
    /\ arg \in [id : Ids \cup {"none"}, candle : Nat]
    /\ snap \in Snapshot \cup {NoSnapshot}
    /\ listed \subseteq Ids \cup {"foreign", "protective", "position", "history"}
    /\ outcome \in Outcomes

(* Labels that rely on nothing.                                             *)
Calm == {"idle", "age_count", "recover_resume", "recover_finish"}

LEMMA Parts == TypeOK => DataOK /\ CallOK
BY DEF TypeOK, DataOK, CallOK

LEMMA CalmInv ==
    ASSUME IInv, BrokerOnly, DataOK', CallOK',
           \/ pc' \in Calm
           \/ pc' = "cancel" /\ slot' # NoEntry
    PROVE  IInv'
BY DEF IInv, TypeOK, ControlOK, DataOK, CallOK, Calm, BrokerOnly, exchangeVars,
   ActiveIds, IsActive

LEMMA ContinueOK ==
    ASSUME CallOK, Continue \/ (\E o \in Outcomes : Raise(o)) \/ (\E o \in Outcomes : Return(o))
    PROVE  CallOK' /\ pc' \in Calm
BY DEF CallOK, Continue, Goto, Raise, Return, Calm, Labels, Ops, Outcomes, NoArg

LEMMA QueueOK ==
    ASSUME events \in Seq(Event), reported \subseteq Ids,
           NEW event \in Event, Queue(event) \/ QueueNothing
    PROVE  events' \in Seq(Event) /\ reported' \subseteq Ids
<1>1. event.id \in Ids
  BY DEF Event
<1>2. events' = events \/ events' = Append(events, event)
  BY DEF Queue, QueueNothing
<1>3. reported' = reported \/ reported' = reported \cup {event.id}
  BY DEF Queue, QueueNothing
<1> QED
  BY <1>1, <1>2, <1>3

LEMMA SetSlotOK ==
    ASSUME known \in [Ids -> PendingEntryStatus \cup {"none"}],
           NEW e \in Entry, SetSlot(e)
    PROVE  /\ slot' \in Entry /\ slot' # NoEntry
           /\ known' \in [Ids -> PendingEntryStatus \cup {"none"}]
BY EntryNotNone DEF SetSlot, Entry

LEMMA RecordOfType ==
    ASSUME NEW e \in Entry, lastAged \in Nat
    PROVE  RecordOf(e) \in Record
BY DEF RecordOf, Record

LEMMA QueryInv ==
    ASSUME IInv, Query PROVE IInv'
<1>1. slot \in Entry /\ slot.id \in Ids
  BY DEF Query, IInv, TypeOK, ControlOK, Entry
<1>2. CASE ~FailedRead({"temporary", "error"}) /\ ~Fails("error")
  <2>1. PICK view \in Views(slot.id) :
          /\ snap' = SnapshotOf(view)
          /\ listed' \in {{}, {"history"}, listed}
    BY <1>2 DEF Query
  <2>2. orders[slot.id] # NoOrder /\ pc' = "reconcile" /\ ControlOnly
        /\ UNCHANGED <<op, arg, outcome>>
    BY <1>2 DEF Query
  <2>3. snap' \in Snapshot /\ snap' # NoSnapshot
    BY <1>1, <2>1, <2>2, ViewType, SnapshotType DEF IInv, TypeOK
  <2> QED
    BY <1>1, <2>1, <2>2, <2>3, EntryNotNone DEF ControlOnly, BrokerOnly, exchangeVars, slotVars, eventVars,
       IInv, TypeOK, ControlOK, Labels, ActiveIds, IsActive
<1> QED
  BY <1>2, FailsInv, FailedReadInv DEF Outcomes

(* What a reconciliation leaves behind, however the operation goes on.      *)
LEMMA ReconcileOK ==
    ASSUME IInv, pc \in {"reconcile", "cancel_reconcile"}, NEW ACTION after,
           ReconcileStale(after) \/ ReconcileActive(after) \/ ReconcileTerminal(after)
    PROVE  /\ DataOK' /\ BrokerOnly
           /\ \/ after
              \/ Raise("persistence")
           /\ ReconcileActive(after) => slot' # NoEntry
<1>1. slot \in Entry /\ slot # NoEntry /\ snap \in Snapshot /\ DataOK
  BY Parts DEF IInv, TypeOK, ControlOK
<1> DEFINE u == Updated(slot, snap)
<1>2. u \in Entry /\ u.id = slot.id /\ u.id \in Ids /\ u.status \in PendingEntryStatus
  BY <1>1, UpdatedType DEF Entry
<1>3. RecordOf(u) \in Record /\ RecordOf(slot) \in Record
  BY <1>1, <1>2, RecordOfType DEF DataOK
<1>4. TransitionBase(slot, snap) \in PendingEntryStatus
  BY <1>1 DEF TransitionBase, Entry, PendingEntryStatus, PersistableStatuses
<1>5. EventOf(u, "STATUS_CHANGED", slot.status) \in Event
  BY <1>1, <1>2, EventType DEF Entry
<1>6. EventOf(u, "TERMINAL", TransitionBase(slot, snap)) \in Event
  BY <1>2, <1>4, EventType
<1>7. CASE ReconcileStale(after)
  BY <1>1, <1>3, <1>7 DEF ReconcileStale, BrokerOnly, DataOK, slotVars, eventVars, ReconcileActive
<1>8. CASE ReconcileActive(after)
  <2>1. SetSlot(u) /\ (Queue(EventOf(u, "STATUS_CHANGED", slot.status)) \/ QueueNothing)
        /\ store' \in {store, RecordOf(u)}
        /\ UNCHANGED <<cancelSent, lastAged, recNotified, subNotified, lastTerminal>>
    BY <1>8 DEF ReconcileActive
  <2>2. DataOK' /\ slot' # NoEntry
    BY <1>1, <1>2, <1>3, <1>5, <2>1, QueueOK, SetSlotOK DEF DataOK
  <2> QED
    BY <1>8, <2>2 DEF ReconcileActive
<1>9. CASE ReconcileTerminal(after)
  <2>1. /\ known' = [known EXCEPT ![slot.id] = u.status]
        /\ \/ Queue(EventOf(u, "TERMINAL", TransitionBase(slot, snap))) \/ QueueNothing
        /\ store' \in {store, NoRecord}
        /\ slot' \in {u, NoEntry}
        /\ lastTerminal' \in {lastTerminal, EventOf(u, "TERMINAL", TransitionBase(slot, snap))}
        /\ UNCHANGED <<cancelSent, lastAged, recNotified, subNotified>>
    BY <1>9 DEF ReconcileTerminal
  <2>2. DataOK'
    BY <1>1, <1>2, <1>6, <2>1, QueueOK DEF DataOK
  <2>3. ~ReconcileActive(after)
    BY <1>9 DEF ReconcileTerminal, ReconcileActive
  <2> QED
    BY <1>9, <2>2, <2>3 DEF ReconcileTerminal, BrokerOnly
<1> QED
  BY <1>7, <1>8, <1>9

LEMMA ReconcileInv ==
    ASSUME IInv, Reconcile \/ CancelReconcile PROVE IInv'
<1>1. CASE ReconcileRefused
  BY <1>1, FailsInv DEF ReconcileRefused, Outcomes
<1>2. CASE Reconcile /\ ~ReconcileRefused
  <2> DEFINE rest == IF CancelRest(slot, snap) THEN Goto("cancel") ELSE Continue
  <2>1. pc = "reconcile" /\ CallOK
    BY <1>2, Parts DEF Reconcile, IInv
  <2>2. CASE ReconcileStale(Continue)
    BY <2>1, <2>2, ReconcileOK, ContinueOK, CalmInv DEF Outcomes
  <2>3. CASE ReconcileTerminal(Continue)
    BY <2>1, <2>3, ReconcileOK, ContinueOK, CalmInv DEF Outcomes
  <2>4. CASE ReconcileActive(rest)
    <3>1. DataOK' /\ BrokerOnly /\ (rest \/ Raise("persistence")) /\ slot' # NoEntry
      BY <2>1, <2>4, ReconcileOK
    <3>2. CASE Goto("cancel")
      BY <2>1, <3>1, <3>2, CalmInv DEF Goto, CallOK, Labels
    <3> QED
      BY <2>1, <3>1, <3>2, ContinueOK, CalmInv DEF Outcomes
  <2> QED
    BY <1>2, <2>2, <2>3, <2>4 DEF Reconcile
<1>3. CASE CancelReconcile /\ ~ReconcileRefused
  <2> DEFINE after == IF snap.status \in {"FILLED", "CANCELLED", "REJECTED", "CANCEL_REQUESTED"}
                      THEN Continue ELSE Raise("unknown")
  <2>1. pc = "cancel_reconcile" /\ CallOK
    BY <1>3, Parts DEF CancelReconcile, IInv
  <2>2. ReconcileStale(after) \/ ReconcileActive(after) \/ ReconcileTerminal(after)
    BY <1>3 DEF CancelReconcile
  <2>3. DataOK' /\ BrokerOnly /\ (after \/ Raise("persistence"))
    BY <2>1, <2>2, ReconcileOK
  <2> QED
    BY <2>1, <2>3, ContinueOK, CalmInv DEF Outcomes
<1> QED
  BY <1>1, <1>2, <1>3

(* cancel_entry *)
LEMMA CancelInv ==
    ASSUME IInv, CancelNotSent \/ CancelSend \/ CancelAck \/ CancelQuery
    PROVE  IInv'
<1>1. /\ pc \in {"cancel", "cancel_ack", "cancel_query"} /\ CallOK /\ DataOK
      /\ slot \in Entry /\ slot # NoEntry /\ slot.id \in Ids
  BY Parts DEF IInv, TypeOK, ControlOK, CancelNotSent, CancelSend, CancelAck, CancelQuery, Entry
<1>2. CASE CancelNotSent
  <2>1. BrokerOnly /\ (Continue \/ Raise("persistence"))
    BY <1>2 DEF CancelNotSent
  <2>2. store' \in {store, RecordOf(slot)} /\ UNCHANGED <<slotVars, eventVars>>
    BY <1>2 DEF CancelNotSent
  <2>3. DataOK'
    BY <1>1, <2>2, RecordOfType DEF DataOK, slotVars, eventVars
  <2> QED
    BY <1>1, <2>1, <2>3, ContinueOK, CalmInv DEF Outcomes
<1>3. CASE CancelSend
  <2>1. orders' = orders \/ (IsActive(slot.id) /\ orders' = CancelRequested)
    BY <1>3 DEF CancelSend
  <2>2. /\ orders' \in [Ids -> Order]
        /\ \A id \in Ids : /\ orders'[id].status = orders[id].status
                          /\ orders'[id].filled = orders[id].filled
    <3>1. CASE orders' = orders
      BY <3>1 DEF IInv, TypeOK
    <3>2. CASE IsActive(slot.id) /\ orders' = CancelRequested
      <4>1. orders[slot.id] \in PlacedOrder
        BY <1>1, <3>2, ActiveOrderType DEF IInv
      <4>2. [orders[slot.id] EXCEPT !.cancelling = TRUE] \in PlacedOrder
        BY <4>1 DEF PlacedOrder
      <4>3. [orders[slot.id] EXCEPT !.cancelling = TRUE] \in Order
        BY <4>2, PlacedOrdersAreOrders
      <4> QED
        BY <1>1, <3>2, <4>1, <4>3 DEF CancelRequested, IInv, TypeOK, PlacedOrder
    <3> QED
      BY <2>1, <3>1, <3>2
  <2>3. cancelSent' \in {cancelSent, cancelSent \cup {slot.id}}
    BY <1>3 DEF CancelSend
  <2>4. CASE pc' \in {"cancel_ack", "cancel_query"}
    <3>1. pc' \in Labels /\ UNCHANGED <<op, arg, snap, listed, outcome>>
      BY <1>3, <2>4 DEF CancelSend, Goto, Raise, Return, Labels
    <3> QED
      BY <1>1, <1>3, <2>2, <2>3, <2>4, <3>1 DEF CancelSend, eventVars, IInv, TypeOK, ControlOK,
         ActiveIds, IsActive
  <2>5. CASE Raise("error") \/ Raise("unknown")
    <3>1. CallOK' /\ pc' \in Calm
      BY <1>1, <2>5, ContinueOK DEF Outcomes
    <3> QED
      BY <1>1, <1>3, <2>2, <2>3, <3>1 DEF CancelSend, eventVars, IInv, TypeOK, ControlOK, CallOK, Calm,
         ActiveIds, IsActive
  <2> QED
    BY <1>3, <2>4, <2>5 DEF CancelSend, Goto
<1>4. CASE CancelAck
  <2> DEFINE requested == Acknowledged(slot)
  <2>1. requested \in Entry /\ requested.id = slot.id
    BY <1>1 DEF Acknowledged, Entry, PendingEntryStatus, PersistableStatuses
  <2>2. EventOf(requested, "STATUS_CHANGED", slot.status) \in Event
    BY <1>1, <2>1, EventType DEF Entry
  <2>3. /\ SetSlot(requested) /\ store' \in {store, RecordOf(requested)}
        /\ Queue(EventOf(requested, "STATUS_CHANGED", slot.status)) \/ QueueNothing
        /\ cancelSent' = cancelSent \cup {slot.id}
        /\ UNCHANGED <<lastAged, recNotified, subNotified, lastTerminal>>
    BY <1>4 DEF CancelAck
  <2>4. BrokerOnly /\ (Continue \/ Raise("persistence"))
    BY <1>4 DEF CancelAck
  <2>5. DataOK'
    BY <1>1, <2>1, <2>2, <2>3, QueueOK, SetSlotOK, RecordOfType DEF DataOK
  <2> QED
    BY <1>1, <2>4, <2>5, ContinueOK, CalmInv DEF Outcomes
<1>5. CASE CancelQuery
  <2>1. CASE ~FailedRead({"unknown"}) /\ ~Fails("unknown")
    <3>1. PICK view \in Views(slot.id) : snap' = SnapshotOf(view)
      BY <1>5, <2>1 DEF CancelQuery
    <3>2. orders[slot.id] # NoOrder /\ pc' = "cancel_reconcile" /\ ControlOnly
          /\ UNCHANGED <<op, arg, listed, outcome>>
      BY <1>5, <2>1 DEF CancelQuery
    <3>3. snap' \in Snapshot /\ snap' # NoSnapshot
      BY <1>1, <3>1, <3>2, ViewType, SnapshotType DEF IInv, TypeOK
    <3> QED
      BY <1>1, <3>2, <3>3 DEF ControlOnly, BrokerOnly, exchangeVars, slotVars, eventVars,
         IInv, TypeOK, ControlOK, Labels, ActiveIds, IsActive
  <2> QED
    BY <1>5, <2>1, FailsInv, FailedReadInv DEF Outcomes
<1> QED
  BY <1>2, <1>3, <1>4, <1>5

(* age_pending_entry *)
LEMMA CancelForOK ==
    ASSUME CallOK, NEW o \in Ops, CancelFor(o)
    PROVE  CallOK' /\ pc' = "cancel"
BY DEF CancelFor, CallOK, Labels

LEMMA AgeInv ==
    ASSUME IInv, AgeSkipped \/ AgeCount PROVE IInv'
<1>1. CallOK /\ DataOK
  BY Parts DEF IInv
<1>2. CASE AgeSkipped
  <2>1. CASE slot # NoEntry /\ CancelFor("expire") /\ ControlOnly
    <3>1. DataOK' /\ slot' # NoEntry /\ BrokerOnly
      BY <1>1, <2>1 DEF ControlOnly, DataOK, slotVars, eventVars
    <3> QED
      BY <1>1, <2>1, <3>1, CancelForOK, CalmInv DEF Ops
  <2> QED
    BY <1>2, <2>1, FailsInv DEF AgeSkipped, Outcomes
<1>3. CASE AgeCount
  <2> DEFINE eligible == Eligible(slot, arg.candle)
             age == slot.age + Cardinality(eligible)
             aged == [slot EXCEPT !.age = age, !.expiry = (age >= TTL)]
  <2>1. slot \in Entry /\ arg.candle \in Nat
    BY <1>1, <1>3 DEF AgeCount, StillAges, DataOK, CallOK
  <2>2. age \in Nat
    BY <2>1, EligibleType DEF Entry
  <2>3. aged \in Entry
    <3>1. (age >= TTL) \in BOOLEAN
      OBVIOUS
    <3> HIDE DEF age
    <3> QED
      BY <2>1, <2>2, <3>1 DEF Entry
  <2>4. [entry |-> aged, lastAged |-> arg.candle] \in Record
    BY <2>1, <2>3 DEF Record
  <2> HIDE DEF aged
  <2>5. /\ BrokerOnly /\ UNCHANGED <<cancelSent, eventVars>>
        /\ \/ /\ SetSlot(aged) /\ lastAged' = arg.candle
              /\ store' = [entry |-> aged, lastAged |-> arg.candle]
              /\ CancelFor("expire") \/ Return("ok")
           \/ UNCHANGED <<slot, known, lastAged, store>> /\ Return("persistence")
    BY <1>3 DEF AgeCount, AgeRolledBack, aged
  <2>6. CASE SetSlot(aged) /\ lastAged' = arg.candle
             /\ store' = [entry |-> aged, lastAged |-> arg.candle]
             /\ (CancelFor("expire") \/ Return("ok"))
    <3>1. DataOK' /\ slot' # NoEntry
      BY <1>1, <2>1, <2>3, <2>4, <2>5, <2>6, SetSlotOK DEF DataOK, eventVars
    <3> QED
      BY <1>1, <2>5, <2>6, <3>1, CancelForOK, ContinueOK, CalmInv DEF Ops, Outcomes
  <2>7. CASE UNCHANGED <<slot, known, lastAged, store>> /\ Return("persistence")
    <3>1. DataOK'
      BY <1>1, <2>5, <2>7 DEF DataOK, eventVars
    <3> QED
      BY <1>1, <2>5, <2>7, <3>1, ContinueOK, CalmInv DEF Outcomes
  <2> QED
    BY <2>5, <2>6, <2>7
<1> QED
  BY <1>2, <1>3

(* recover_pending_entry *)
LEMMA RestoreOK ==
    ASSUME DataOK, store # NoRecord, Restore
    PROVE  /\ slot' \in Entry /\ slot' # NoEntry
           /\ known' \in [Ids -> PendingEntryStatus \cup {"none"}]
           /\ cancelSent' \subseteq Ids /\ lastAged' \in Nat
<1>1. store \in Record /\ store.entry \in Entry /\ store.entry.id \in Ids /\ store.lastAged \in Nat
  BY DEF DataOK, Record, Entry
<1> QED
  BY <1>1, SetSlotOK DEF Restore, DataOK

LEMMA FailedRecoveryReadInv ==
    ASSUME IInv, FailedRecoveryRead
    PROVE  IInv'
BY FailsInv DEF FailedRecoveryRead, Outcomes

LEMMA RecoverInv ==
    ASSUME IInv,
           RecoverListing \/ RecoverClassify \/ RecoverDecide \/ RecoverPosition
           \/ RecoverResume \/ RecoverFinish
    PROVE  IInv'
<1>1. CallOK /\ DataOK
  BY Parts DEF IInv
<1>2. CASE RecoverListing
  <2>1. CASE ~Fails("error") /\ ~FailedRecoveryRead
    <3>1. /\ listed' \subseteq ActiveIds \cup {"foreign", "protective"}
          /\ snap' \in IF ActiveIds = {} THEN {NoSnapshot}
                       ELSE {SnapshotOf(orders[id]) : id \in ActiveIds}
          /\ listed' \cap Ids = ActiveIds
          /\ pc' \in {"recover_decide", "recover_classify"}
          /\ UNCHANGED <<op, arg, outcome>> /\ ControlOnly
      BY <1>2, <2>1, IdsAssumption DEF IdsAssumption, RecoverListing, ActiveIds
    <3>2. \A id \in ActiveIds : SnapshotOf(orders[id]) \in Snapshot
                               /\ SnapshotOf(orders[id]) # NoSnapshot
      BY ActiveOrderType, PlacedOrdersAreOrders, SnapshotType DEF ActiveIds, IInv
    <3>3. snap' \in Snapshot \cup {NoSnapshot} /\ (ActiveIds # {} => snap' # NoSnapshot)
      BY <3>1, <3>2
    <3>4. TypeOK'
      BY <3>1, <3>3 DEF ControlOnly, BrokerOnly, exchangeVars, slotVars, eventVars, IInv, TypeOK,
         Labels, ActiveIds
    <3> QED
      BY <3>1, <3>3, <3>4 DEF ControlOnly, BrokerOnly, exchangeVars, slotVars, eventVars, IInv,
         ControlOK, Owned, ActiveIds, IsActive
  <2> QED
    BY <1>2, <2>1, FailsInv, FailedRecoveryReadInv DEF Outcomes
<1>3. CASE RecoverClassify
  <2>1. CASE ~FailedRecoveryRead
    <3>1. /\ listed' \subseteq listed \cup {"foreign", "position"}
          /\ listed' \cap Ids = listed \cap Ids
          /\ pc' = "recover_decide" /\ UNCHANGED <<op, arg, snap, outcome>> /\ ControlOnly
      BY <1>3, <2>1, IdsAssumption DEF IdsAssumption, RecoverClassify
    <3>2. Owned # {} => snap # NoSnapshot
      BY <1>3 DEF RecoverClassify, IInv, ControlOK
    <3> QED
      BY <3>1, <3>2 DEF ControlOnly, BrokerOnly, exchangeVars, slotVars, eventVars, IInv, TypeOK,
         Labels, ControlOK, Owned, ActiveIds, IsActive
  <2> QED
    BY <1>3, <2>1, FailedRecoveryReadInv
<1>4. CASE RecoverDecide
  <2>1. CASE /\ ~RecoveryBlocked /\ store = NoRecord
             /\ slot' = NoEntry /\ Goto("recover_finish")
             /\ BrokerOnly /\ UNCHANGED <<store, known, cancelSent, lastAged, eventVars>>
    <3>1. CallOK' /\ pc' \in Calm
      BY <1>1, <2>1 DEF Goto, CallOK, Labels, Calm
    <3>2. DataOK'
      BY <1>1, <2>1 DEF DataOK, eventVars
    <3> QED
      BY <2>1, <3>1, <3>2, CalmInv
  <2>2. CASE /\ store # NoRecord /\ Restore /\ Goto("query")
             /\ BrokerOnly /\ UNCHANGED <<store, eventVars>>
    BY <1>1, <2>2, RestoreOK DEF Goto, BrokerOnly, exchangeVars, eventVars, IInv, TypeOK, ControlOK,
       Labels, ActiveIds, IsActive
  <2>3. CASE /\ store # NoRecord /\ Owned # {} /\ Goto("recover_position") /\ ControlOnly
    <3>1. snap # NoSnapshot
      BY <1>4, <2>3 DEF RecoverDecide, IInv, ControlOK
    <3> QED
      BY <1>1, <2>3, <3>1 DEF Goto, ControlOnly, BrokerOnly, exchangeVars, slotVars, eventVars,
         IInv, TypeOK, ControlOK, Labels, ActiveIds, IsActive
  <2> QED
    BY <1>4, <2>1, <2>2, <2>3, FailsInv DEF RecoverDecide, Outcomes
<1>5. CASE RecoverPosition
  <2>1. store # NoRecord /\ snap # NoSnapshot
    BY <1>5 DEF RecoverPosition, IInv, ControlOK
  <2>2. CASE Restore /\ Goto("reconcile") /\ BrokerOnly /\ UNCHANGED <<store, eventVars>>
    BY <1>1, <2>1, <2>2, RestoreOK DEF Goto, BrokerOnly, exchangeVars, eventVars, IInv, TypeOK, ControlOK,
       Labels, ActiveIds, IsActive
  <2> QED
    BY <1>5, <2>2, FailsInv, FailedRecoveryReadInv DEF RecoverPosition, Outcomes
<1>6. CASE RecoverResume
  <2>1. DataOK' /\ BrokerOnly /\ slot' = slot
    BY <1>1, <1>6 DEF RecoverResume, ControlOnly, DataOK, slotVars, eventVars
  <2>2. CASE Return("error") \/ Goto("recover_finish")
    <3>1. CallOK' /\ pc' \in Calm
      BY <1>1, <2>2 DEF CallOK, Goto, Return, Labels, Ops, Outcomes, Calm, NoArg
    <3> QED
      BY <2>1, <3>1, CalmInv
  <2>3. CASE slot # NoEntry /\ CancelFor("resume")
    BY <1>1, <2>1, <2>3, CancelForOK, CalmInv DEF Ops
  <2> QED
    BY <1>6, <2>2, <2>3 DEF RecoverResume
<1>7. CASE RecoverFinish
  <2> DEFINE announced == RecoveryAnnouncement
  <2>1. announced # NoEntry => announced \in Event /\ announced.id \in Ids
    <3>1. CASE slot # NoEntry
      BY <1>1, <3>1, EventType DEF RecoveryAnnouncement, DataOK, Event
    <3>2. CASE slot = NoEntry
      BY <1>1, <3>2 DEF RecoveryAnnouncement, DataOK, Event
    <3> QED
      BY <3>1, <3>2
  <2>2. \/ UNCHANGED <<events, recNotified, reported>>
        \/ /\ announced \in Event /\ announced.id \in Ids
           /\ events' = Append(events, announced)
           /\ recNotified' = recNotified \cup {announced.id}
           /\ reported' \subseteq reported \cup {announced.id}
    BY <1>7, <2>1 DEF RecoverFinish
  <2>3. DataOK'
    <3> HIDE DEF announced
    <3> QED
      BY <1>1, <1>7, <2>2 DEF RecoverFinish, DataOK, slotVars
  <2>4. Return("ok") /\ BrokerOnly
    BY <1>7 DEF RecoverFinish
  <2> QED
    BY <1>1, <2>3, <2>4, ContinueOK, CalmInv DEF Outcomes
<1> QED
  BY <1>2, <1>3, <1>4, <1>5, <1>6, <1>7

----------------------------------------------------------------------------
(* The calls that start an operation, and the life of the process. *)

LEMMA BeginInv ==
    ASSUME IInv, NEW operation \in Ops, NEW label \in Labels,
           NEW argument \in [id : Ids \cup {"none"}, candle : Nat],
           Begin(operation, label, argument), BrokerOnly, DataOK',
           \/ label = "recover_listing"
           \/ label \in {"query", "cancel"} /\ slot' # NoEntry
           \/ label = "submit_position" /\ argument.id \in Ids
    PROVE  IInv'
BY DEF Begin, BrokerOnly, exchangeVars, IInv, TypeOK, DataOK, ControlOK, Outcomes, ActiveIds, IsActive

LEMMA CallInv ==
    ASSUME IInv, Call PROVE IInv'
<1>1. CallOK /\ DataOK /\ clock \in Nat
  BY Parts DEF IInv, TypeOK
<1>2. ASSUME ControlOnly PROVE DataOK' /\ BrokerOnly /\ slot' = slot
  BY <1>1, <1>2 DEF ControlOnly, DataOK, slotVars, eventVars
<1>3. NoArg \in [id : Ids \cup {"none"}, candle : Nat]
  BY DEF NoArg
<1>4. ASSUME NEW id \in Ids, NEW signal \in 0 .. clock, SubmitRefusedLocally(id, signal) PROVE IInv'
  BY <1>4, FailsInv DEF SubmitRefusedLocally, Outcomes
<1>5. ASSUME NEW id \in Ids, NEW signal \in 0 .. clock, SubmitRepeated(id, signal) PROVE IInv'
  <2>1. slot \in Entry
    BY <1>1, <1>5 DEF SubmitRepeated, DataOK
  <2>2. EventOf(slot, "SUBMITTED", "NONE") \in Event /\ RecordOf(slot) \in Record
    BY <1>1, <2>1, EventType, RecordOfType DEF DataOK
  <2>3. /\ store' \in {store, RecordOf(slot)}
        /\ Queue(EventOf(slot, "SUBMITTED", "NONE")) \/ QueueNothing
        /\ subNotified' \in {subNotified, subNotified \cup {id}}
        /\ Return("ok") \/ Return("persistence")
        /\ BrokerOnly /\ UNCHANGED <<slotVars, recNotified, lastTerminal>>
    BY <1>5 DEF SubmitRepeated, QueueNothing
  <2>4. DataOK'
    BY <1>1, <2>2, <2>3, QueueOK DEF DataOK, slotVars
  <2> QED
    BY <1>1, <2>3, <2>4, ContinueOK, CalmInv DEF Outcomes
<1>6. ASSUME NEW id \in Ids, NEW signal \in 0 .. clock, Submit(id, signal) PROVE IInv'
  BY <1>1, <1>2, <1>6, BeginInv DEF Submit, Ops, Labels
<1>7. CASE Refresh \/ CancelEntry
  BY <1>1, <1>2, <1>3, <1>7, BeginInv DEF Refresh, CancelEntry, Ops, Labels
<1>8. CASE Recover
  <2>1. DataOK' /\ BrokerOnly
    BY <1>1, <1>8 DEF Recover, DataOK, slotVars
  <2> QED
    BY <1>3, <1>8, <2>1, BeginInv DEF Recover, Ops, Labels
<1>9. ASSUME NEW latest \in 0 .. clock, Age(latest) PROVE IInv'
  <2>1. [id |-> "none", candle |-> latest] \in [id : Ids \cup {"none"}, candle : Nat]
    BY <1>1
  <2> QED
    BY <1>1, <1>2, <1>9, <2>1, BeginInv DEF Age, Ops, Labels
<1> QED
  BY <1>4, <1>5, <1>6, <1>7, <1>8, <1>9 DEF Call

LEMMA ProcessInv ==
    ASSUME IInv, Process PROVE IInv'
<1>1. CASE Start \/ StartupDone
  BY <1>1 DEF Start, StartupDone, PhaseOnly, exchangeVars, slotVars, eventVars, callVars,
     IInv, TypeOK, ControlOK, Owned, ActiveIds, IsActive
<1>2. CASE DrainEvents
  <2>1. CallOK' /\ DataOK' /\ pc' \in Calm /\ BrokerOnly
    BY <1>2, Parts DEF DrainEvents, IInv, CallOK, DataOK, Calm, slotVars, callVars
  <2> QED
    BY <2>1, CalmInv
<1>3. CASE ProcessEnds
  BY <1>3 DEF ProcessEnds, Return, exchangeVars, IInv, TypeOK, ControlOK, Labels, Ops, Outcomes, NoArg,
     ActiveIds, IsActive
<1> QED
  BY <1>1, <1>2, <1>3 DEF Process, StartupFailed, Crash

LEMMA StutterInv == IInv /\ UNCHANGED vars => IInv'
BY DEF vars, exchangeVars, slotVars, eventVars, callVars, IInv, TypeOK, ControlOK, Owned,
   ActiveIds, IsActive

LEMMA NextInv == IInv /\ [Next]_vars => IInv'
BY ExchangeInv, CallInv, SubmitInv, QueryInv, ReconcileInv, CancelInv, AgeInv, RecoverInv, ProcessInv, StutterInv
   DEF Next, BrokerStep

THEOREM Invariant == Spec => []IInv
BY InitInv, NextInv, PTL DEF Spec

(* Every variable keeps its type.                                           *)
THEOREM TypeCorrect == Spec => []TypeOK
<1>1. IInv => TypeOK
  BY DEF IInv
<1> QED
  BY <1>1, Invariant, PTL

----------------------------------------------------------------------------
(* Of the broker's steps, only the placing and the sending of a cancellation *)
(* change an order.                                                         *)
LEMMA OrdersFrame ==
    ASSUME [Next]_vars
    PROVE  Exchange \/ SubmitPlace \/ CancelSend \/ UNCHANGED orders
<1> USE DEF exchangeVars, BrokerOnly, ControlOnly, Fails, FailedRead
<1>1. CASE SubmitPosition \/ SubmitListing \/ SubmitAck \/ SubmitQuery \/ Query
  BY <1>1 DEF SubmitPosition, SubmitListing, SubmitAck, SubmitQuery, Query
<1>2. CASE Reconcile \/ CancelReconcile
  BY <1>2 DEF Reconcile, CancelReconcile, ReconcileRefused, ReconcileStale, ReconcileActive,
     ReconcileTerminal
<1>3. CASE CancelNotSent \/ CancelAck \/ CancelQuery \/ AgeSkipped \/ AgeCount
  BY <1>3 DEF CancelNotSent, CancelAck, CancelQuery, AgeSkipped, AgeCount
<1>4. CASE RecoverListing \/ RecoverClassify \/ RecoverDecide \/ RecoverPosition
           \/ RecoverResume \/ RecoverFinish
  BY <1>4 DEF RecoverListing, RecoverClassify, RecoverDecide, RecoverPosition, RecoverResume,
     RecoverFinish, FailedRecoveryRead
<1>5. CASE Call
  BY <1>5 DEF Call, SubmitRefusedLocally, SubmitRepeated, Submit, Refresh, CancelEntry, Recover, Age
<1>6. CASE Process
  BY <1>6 DEF Process, Start, StartupDone, StartupFailed, Crash, DrainEvents, PhaseOnly, ProcessEnds
<1>7. CASE UNCHANGED vars
  BY <1>7 DEF vars
<1> QED
  BY <1>1, <1>2, <1>3, <1>4, <1>5, <1>6, <1>7 DEF Next, BrokerStep

(* At most one entry order of the bot is active on the exchange: the only   *)
(* step that makes an order active is the placing, which is reached from a  *)
(* listing without active orders, and nothing else makes one active between.*)
THEOREM OneActiveOrder == Spec => []AtMostOneActiveOrder
<1>1. Init => AtMostOneActiveOrder
  BY DEF Init, AtMostOneActiveOrder, IsActive, ActiveBybitStatus, NoOrder
<1>2. IInv /\ AtMostOneActiveOrder /\ [Next]_vars => AtMostOneActiveOrder'
  <2> SUFFICES ASSUME IInv, AtMostOneActiveOrder, [Next]_vars
               PROVE  AtMostOneActiveOrder'
    OBVIOUS
  <2>1. CASE SubmitPlace
    <3>1. ActiveIds = {}
      BY <2>1 DEF SubmitPlace, IInv, ControlOK
    <3>2. orders' = orders \/ orders' = Placed
      BY <2>1 DEF SubmitPlace
    <3>3. \A id \in Ids : IsActive(id)' => id = arg.id
      BY <3>1, <3>2 DEF Placed, ActiveIds, IsActive, IInv, TypeOK
    <3> QED
      BY <3>3 DEF AtMostOneActiveOrder
  <2>2. CASE \A id \in Ids : IsActive(id)' => IsActive(id)
    BY <2>2 DEF AtMostOneActiveOrder
  <2>3. CASE UNCHANGED orders
    BY <2>2, <2>3 DEF IsActive
  <2>4. CASE CancelSend
    BY <2>2, <2>4 DEF CancelSend, CancelRequested, IsActive, IInv, TypeOK
  <2>5. CASE Exchange
    <3>1. CASE NewCandle \/ PositionMoves \/ ForeignTrade
      BY <2>3, <3>1 DEF NewCandle, PositionMoves, ForeignTrade, ForeignOrder, ForeignPosition
    <3> QED
      BY <2>2, <2>5, <3>1 DEF Exchange, OrderMoves, Accept, Reject, BeginCancel, FinishCancel,
         CancelElsewhere, Fill, IsActive, ActiveBybitStatus, IInv, TypeOK
  <2> QED
    BY <2>1, <2>3, <2>4, <2>5, OrdersFrame
<1> QED
  BY <1>1, <1>2, Invariant, PTL DEF Spec

(* The steps that change the slot, the file or what goes with them.         *)
LEMMA SlotFrame ==
    ASSUME [Next]_vars
    PROVE  \/ UNCHANGED <<slot, store, known, lastAged>>
           \/ pc \in {"submit_ack", "submit_query"} /\ \E saved \in BOOLEAN : Register(saved)
           \/ \E id \in Ids, signal \in 0 .. clock : SubmitRepeated(id, signal)
           \/ Reconcile \/ CancelReconcile \/ CancelNotSent \/ CancelAck
           \/ AgeCount \/ RecoverDecide \/ RecoverPosition \/ ProcessEnds
<1> USE DEF slotVars, BrokerOnly, ControlOnly, Fails, FailedRead
<1>1. CASE SubmitPosition \/ SubmitListing \/ SubmitPlace \/ Query \/ CancelSend \/ CancelQuery
  BY <1>1 DEF SubmitPosition, SubmitListing, SubmitPlace, Query, CancelSend, CancelQuery
<1>2. CASE SubmitAck \/ SubmitQuery
  BY <1>2 DEF SubmitAck, SubmitQuery, SaveResults
<1>3. CASE AgeSkipped \/ RecoverListing \/ RecoverClassify \/ RecoverResume \/ RecoverFinish
  BY <1>3 DEF AgeSkipped, RecoverListing, RecoverClassify, RecoverResume, RecoverFinish,
     FailedRecoveryRead
<1>4. CASE Call
  BY <1>4 DEF Call, SubmitRefusedLocally, Submit, Refresh, CancelEntry, Recover, Age
<1>5. CASE Process
  BY <1>5 DEF Process, Start, StartupDone, StartupFailed, Crash, DrainEvents, PhaseOnly
<1>6. CASE Exchange
  BY <1>6 DEF Exchange, ExchangeOnly, NewCandle, PositionMoves, ForeignTrade, ForeignOrder, ForeignPosition, OrderMoves,
     Accept, Reject, BeginCancel, FinishCancel, CancelElsewhere, Fill
<1>7. CASE UNCHANGED vars
  BY <1>7 DEF vars
<1> QED
  BY <1>1, <1>2, <1>3, <1>4, <1>5, <1>6, <1>7 DEF Next, BrokerStep

(* The broker never acts on an expiry that a restart would forget: the age  *)
(* and its marker reach the file before the slot, and every later version   *)
(* of the entry keeps the marker until the record goes with the entry.      *)
THEOREM ExpiryDurable == Spec => []ExpiryIsDurable
<1>1. Init => ExpiryIsDurable
  BY DEF Init, ExpiryIsDurable
<1>2. IInv /\ ExpiryIsDurable /\ [Next]_vars => ExpiryIsDurable'
  <2> SUFFICES ASSUME IInv, ExpiryIsDurable, [Next]_vars
               PROVE  ExpiryIsDurable'
    OBVIOUS
  <2> USE DEF exchangeVars, slotVars
  <2>1. CASE UNCHANGED <<slot, store>>
    BY <2>1 DEF ExpiryIsDurable
  <2>2. ASSUME NEW saved, Register(saved) PROVE ExpiryIsDurable'
    BY <2>2 DEF Register, SetSlot, NewEntry, ExpiryIsDurable
  <2>3. ASSUME slot # NoEntry, NEW e \in Entry, e.id = slot.id, e.expiry = slot.expiry,
               slot' = e, store' \in {store, RecordOf(e)}
        PROVE  ExpiryIsDurable'
    BY <2>3, EntryNotNone, RecordOfType DEF ExpiryIsDurable, IInv, TypeOK, RecordOf
  <2>4. CASE Reconcile \/ CancelReconcile
    <3>1. slot \in Entry /\ slot # NoEntry /\ snap \in Snapshot
      BY <2>4 DEF Reconcile, CancelReconcile, IInv, TypeOK, ControlOK
    <3>2. PICK e \in {slot, Updated(slot, snap)} :
            \/ slot' = NoEntry
            \/ slot' = e /\ store' \in {store, RecordOf(e)}
      BY <2>4 DEF Reconcile, CancelReconcile, ReconcileRefused, ReconcileStale, ReconcileActive,
         ReconcileTerminal, SetSlot, Fails, ControlOnly, BrokerOnly
    <3> QED
      BY <2>3, <3>1, <3>2, UpdatedType DEF ExpiryIsDurable
  <2>5. CASE CancelNotSent \/ CancelAck
    <3>1. slot \in Entry /\ slot # NoEntry
      BY <2>5 DEF CancelNotSent, CancelAck, IInv, TypeOK, ControlOK
    <3>2. /\ Acknowledged(slot) \in Entry /\ Acknowledged(slot).id = slot.id
          /\ Acknowledged(slot).expiry = slot.expiry
      BY <3>1 DEF Acknowledged, Entry, PendingEntryStatus, PersistableStatuses
    <3>3. \E e \in {slot, Acknowledged(slot)} : slot' = e /\ store' \in {store, RecordOf(e)}
      BY <2>5 DEF CancelNotSent, CancelAck, SetSlot
    <3> QED
      BY <2>3, <3>1, <3>2, <3>3
  <2>6. CASE AgeCount
    <3> DEFINE age == slot.age + Cardinality(Eligible(slot, arg.candle))
               aged == [slot EXCEPT !.age = age, !.expiry = (age >= TTL)]
    <3>1. \/ UNCHANGED <<slot, store>>
          \/ slot' = aged /\ store' = [entry |-> aged, lastAged |-> arg.candle]
      BY <2>6 DEF AgeCount, AgeRolledBack, SetSlot
    <3>2. slot \in Entry
      BY <2>6 DEF AgeCount, StillAges, IInv, TypeOK
    <3>3. [entry |-> aged, lastAged |-> arg.candle] # NoRecord
      BY <3>2 DEF NoRecord, NoEntry, Entry, PendingEntryStatus, PersistableStatuses, TerminalStatuses
    <3> HIDE DEF aged
    <3> QED
      BY <2>1, <3>1, <3>3 DEF ExpiryIsDurable
  <2>7. CASE RecoverDecide \/ RecoverPosition
    <3>1. \/ UNCHANGED <<slot, store>>
          \/ slot' = NoEntry
          \/ store # NoRecord /\ slot' = store.entry /\ store' = store
      BY <2>7 DEF RecoverDecide, RecoverPosition, Restore, SetSlot, Fails, FailedRecoveryRead,
         ControlOnly, BrokerOnly, IInv, ControlOK
    <3> QED
      BY <2>1, <3>1 DEF ExpiryIsDurable
  <2>8. CASE ProcessEnds
    BY <2>8 DEF ProcessEnds, ExpiryIsDurable
  <2>9. ASSUME NEW id \in Ids, NEW signal \in 0 .. clock, SubmitRepeated(id, signal) PROVE ExpiryIsDurable'
    BY <2>9, <2>3 DEF SubmitRepeated, IInv, TypeOK, BrokerOnly
  <2> QED
    BY <2>1, <2>2, <2>4, <2>5, <2>6, <2>7, <2>8, <2>9, SlotFrame
<1> QED
  BY <1>1, <1>2, Invariant, PTL DEF Spec
============================================================================
