------------------------ MODULE TradingRuntimeProofs ------------------------
(***************************************************************************)
(* The two programs around the broker.  The live loop implements the       *)
(* broker's specification: whatever it does, it uses the broker as         *)
(* BybitPendingEntry allows, so that all that is proved there holds of the *)
(* whole program; on this rest the loop's own invariants.  The preflight,  *)
(* at the end, only reads, and keeps the promise of its verdict.           *)
(***************************************************************************)
EXTENDS TradingRuntime, Preflight, BybitPendingEntrySafety

(* What the loop hands to the broker: candles that have completed, and a    *)
(* setup that the analysis has found.                                      *)
RInv ==
    /\ clock \in Nat
    /\ latest \in 0 .. clock
    /\ at = "submit" => setup \in Ids

LEMMA RuntimeInitRefines == RuntimeInit => Init /\ RInv
BY DEF RuntimeInit, Init, RInv

(* Every step of the runtime is one of the broker, of the exchange or of    *)
(* the process, or leaves them all alone.                                  *)
LEMMA RuntimeStepRefines ==
    ASSUME RInv, [RuntimeNext]_runtimeVars
    PROVE  [Next]_vars
<1>1. CASE UNCHANGED runtimeVars
  BY <1>1 DEF runtimeVars
<1>2. CASE BrokerWorks
  BY <1>2 DEF BrokerWorks, Next
<1>3. CASE WorldMoves
  BY <1>3 DEF WorldMoves, Next
<1>4. CASE RuntimeCrash
  BY <1>4 DEF RuntimeCrash, Next, Process
<1>5. CASE LoopStep
  <2>1. CASE \E step \in {"recover_deliver", "deliver", "aged", "submitted"} : Deliver(step)
    BY <2>1 DEF Deliver, Next, Process
  <2>2. CASE StartRuntime \/ RuntimeStarted \/ RecoveryEndsProcess
    BY <2>2 DEF StartRuntime, RuntimeStarted, RecoveryEndsProcess, Next, Process
  <2>3. CASE RecoverState \/ Poll
    BY <2>3 DEF RecoverState, Poll, Next, Call
  <2>4. CASE AgeEntry
    BY <2>4 DEF AgeEntry, Next, Call, RInv
  <2>5. CASE SubmitEntry
    BY <2>5 DEF SubmitEntry, Next, Call, RInv
  <2>6. CASE IterationFails \/ RecoveryReturns \/ RecoverUpdate \/ PollEmpty
               \/ PollReturns \/ PollUpdate \/ PollDelivered
    BY <2>6 DEF IterationFails, RecoveryReturns, RecoverUpdate, PollEmpty, PollReturns,
       PollUpdate, PollDelivered, LoopOnly
  <2>7. CASE \/ \E candle \in CandlesShown : CollectCompleted(candle)
             \/ AgeNothing \/ AgeReturns \/ AgeDelivered
    BY <2>7 DEF CollectCompleted, AgeNothing, AgeReturns, AgeDelivered, LoopOnly
  <2>8. CASE \/ SkipCandle \/ SuppressDuplicate \/ SubmissionConflicts
             \/ SubmitReturns \/ SubmitDelivered
             \/ \E found \in Ids \cup {"none"} : AnalyseCandle(found)
    BY <2>8 DEF SkipCandle, AnalyseCandle, SuppressDuplicate, SubmissionConflicts,
       SubmitReturns, SubmitDelivered, LoopOnly
  <2> QED
    BY <1>5, <2>1, <2>2, <2>3, <2>4, <2>5, <2>6, <2>7, <2>8 DEF LoopStep
<1> QED
  BY <1>1, <1>2, <1>3, <1>4, <1>5 DEF RuntimeNext

LEMMA RuntimeInv == RInv /\ [RuntimeNext]_runtimeVars => RInv'
<1> SUFFICES ASSUME RInv, [RuntimeNext]_runtimeVars PROVE RInv'
  OBVIOUS
<1>1. clock' \in Nat /\ 0 .. clock \subseteq 0 .. clock'
  <2>1. clock' = clock \/ clock' = clock + 1
    BY RuntimeStepRefines, ClockAdvances
  <2> QED
    BY <2>1 DEF RInv
<1>2. latest' \in 0 .. clock'
  <2>1. ASSUME latest' \in {0, latest} PROVE latest' \in 0 .. clock'
    BY <2>1, <1>1 DEF RInv
  <2>2. CASE \E candle \in CandlesShown : CollectCompleted(candle)
    BY <2>2, <1>1 DEF CollectCompleted, CandlesShown, RInv
  <2>3. CASE UNCHANGED runtimeVars \/ BrokerWorks \/ WorldMoves \/ RuntimeCrash
    BY <2>3, <2>1 DEF runtimeVars, memory, BrokerWorks, WorldMoves, RuntimeCrash,
       ProcessForgets
  <2>4. CASE LoopStep /\ ~(\E candle \in CandlesShown : CollectCompleted(candle))
    <3>1. latest' \in {0, latest}
      BY <2>4 DEF LoopStep, IterationFails, Deliver, StartRuntime, RecoverState,
         RecoveryReturns, RecoverUpdate, RuntimeStarted, RecoveryEndsProcess,
         ProcessForgets, PollEmpty, Poll, PollReturns, PollUpdate, PollDelivered,
         AgeNothing, AgeEntry, AgeReturns, AgeDelivered, CandleDone, SkipCandle,
         AnalyseCandle, SuppressDuplicate, SubmissionConflicts, SubmitEntry,
         SubmitReturns, SubmitDelivered, To, memory
    <3> QED
      BY <3>1, <2>1
  <2> QED
    BY <2>2, <2>3, <2>4 DEF RuntimeNext
<1>3. at' = "submit" => setup' \in Ids
  <2>1. CASE UNCHANGED <<at, setup>>
    BY <2>1 DEF RInv
  <2>2. CASE UNCHANGED runtimeVars \/ BrokerWorks \/ WorldMoves \/ RuntimeCrash
    BY <2>2, <2>1 DEF runtimeVars, BrokerWorks, WorldMoves, RuntimeCrash, ProcessForgets
  <2>3. ASSUME NEW found \in Ids \cup {"none"}, AnalyseCandle(found)
        PROVE  at' = "submit" => setup' \in Ids
    BY <2>3 DEF AnalyseCandle, CandleDone
  <2>4. CASE LoopStep /\ ~(\E found \in Ids \cup {"none"} : AnalyseCandle(found))
    <3>1. at' # "submit" \/ UNCHANGED <<at, setup>>
      BY <2>4 DEF LoopStep, IterationFails, Deliver, StartRuntime, RecoverState,
         RecoveryReturns, RecoverUpdate, RuntimeStarted, RecoveryEndsProcess,
         ProcessForgets, PollEmpty, Poll, PollReturns, PollUpdate, PollDelivered,
         CollectCompleted, AgeNothing, AgeEntry, AgeReturns, AfterAging, AgeDelivered,
         CandleDone, SkipCandle, SuppressDuplicate, SubmissionConflicts, SubmitEntry,
         SubmitReturns, SubmitDelivered, To
    <3> QED
      BY <3>1, <2>1
  <2> QED
    BY <2>2, <2>3, <2>4 DEF RuntimeNext
<1> QED
  BY <1>1, <1>2, <1>3 DEF RInv

(* The whole program implements the broker's specification.                 *)
THEOREM RuntimeImplementsBroker == RuntimeSpec => Spec
<1>1. RuntimeInit => Init /\ RInv
  BY RuntimeInitRefines
<1>2. RInv /\ [RuntimeNext]_runtimeVars => RInv' /\ [Next]_vars
  BY RuntimeStepRefines, RuntimeInv
<1> QED
  BY <1>1, <1>2, PTL DEF RuntimeSpec, Spec

(* In the whole program two entry orders of the bot are never active on the *)
(* exchange at once.                                                       *)
THEOREM RuntimeOneActiveOrder == RuntimeSpec => []AtMostOneActiveOrder
BY RuntimeImplementsBroker, OneActiveOrder, PTL

(* In the whole program no restart forgets an expiry the broker acts on.    *)
THEOREM RuntimeExpiryDurable == RuntimeSpec => []ExpiryIsDurable
BY RuntimeImplementsBroker, ExpiryDurable, PTL

(* What is proved of the broker holds in the whole program.                 *)
THEOREM RuntimeSafety == RuntimeSpec => []SafetyInv
BY RuntimeImplementsBroker, Safety, PTL

(* In the whole program memory, file, events and exchange agree: the broker *)
(* of a running loop keeps what BybitPendingEntrySafety proves of it.       *)
THEOREM RuntimeBrokerAgrees ==
    RuntimeSpec => [](/\ DurableMatchesSlot /\ NeverAheadOfExchange /\ TerminalEventsAreTrue
                      /\ RecordsLoad /\ BlockedSlotRecovers /\ NeverExpiresEarly
                      /\ ActiveOrderAccounted /\ NoEntryBesidePosition)
BY RuntimeImplementsBroker, DurableMatches, NeverAhead, TerminalEventsTrue, RecordsAlwaysLoad,
   BlockedSlotsRecover, ExpiresInTime, ActiveOrdersAccounted, EntryNeverBesidePosition, PTL

(* In the whole program the file and the exchange implement the ledger.     *)
THEOREM RuntimeImplementsLedger == RuntimeSpec => ImplementsLedger
BY RuntimeImplementsBroker, LedgerImplemented, PTL

----------------------------------------------------------------------------
(* Which operation of the broker the loop waits for, and with what.         *)

WaitsOK ==
    /\ at \in {"down", "recover", "recovering", "recover_update", "recover_deliver", "poll",
               "refreshing", "update", "deliver", "collect", "age", "aging", "aged",
               "process", "submit", "submitting", "submitted"}
    /\ op # "cancel"
    /\ op \in {"recover", "resume"} => at = "recovering"
    /\ op = "refresh" => at = "refreshing"
    /\ op \in {"age", "expire"} => at = "aging" /\ arg.candle = latest
    /\ op = "submit" => at = "submitting" /\ arg = [id |-> setup, candle |-> latest]

LEMMA OperationSteps ==
    ASSUME IInv, OperationOK, BrokerStep
    PROVE  \/ op' = "none"
           \/ op' = op
           \/ op = "age" /\ op' = "expire"
           \/ op = "recover" /\ op' = "resume"
<1> USE DEF Goto, Return, Raise, Fails, FailedRead, Continue
<1>1. CASE SubmitPosition \/ SubmitListing \/ SubmitPlace \/ SubmitAck \/ SubmitQuery
  BY <1>1 DEF SubmitPosition, SubmitListing, SubmitPlace, SubmitAck, SubmitQuery
<1>2. CASE Query \/ CancelSend \/ CancelQuery
  BY <1>2 DEF Query, CancelSend, CancelQuery
<1>3. CASE Reconcile \/ CancelReconcile
  BY <1>3 DEF Reconcile, CancelReconcile, ReconcileRefused, ReconcileStale, ReconcileActive,
     ReconcileTerminal
<1>4. CASE CancelNotSent \/ CancelAck
  BY <1>4 DEF CancelNotSent, CancelAck
<1>5. CASE AgeSkipped \/ AgeCount
  BY <1>5 DEF AgeSkipped, AgeCount, CancelFor, OperationOK
<1>6. CASE RecoverListing \/ RecoverClassify \/ RecoverDecide \/ RecoverPosition
           \/ RecoverResume \/ RecoverFinish
  BY <1>6 DEF RecoverListing, RecoverClassify, RecoverDecide, RecoverPosition, RecoverResume,
     RecoverFinish, FailedRecoveryRead, CancelFor, OperationOK, RecoverLabels
<1> QED
  BY <1>1, <1>2, <1>3, <1>4, <1>5, <1>6 DEF BrokerStep

LEMMA ArgStays ==
    ASSUME IInv, OperationOK, BrokerStep, op' # "none"
    PROVE  arg' = arg
<1> USE DEF Goto, Return, Raise, Fails, FailedRead, Continue
<1>1. CASE SubmitPosition \/ SubmitListing \/ SubmitPlace \/ SubmitAck \/ SubmitQuery
  BY <1>1 DEF SubmitPosition, SubmitListing, SubmitPlace, SubmitAck, SubmitQuery
<1>2. CASE Query \/ CancelSend \/ CancelQuery
  BY <1>2 DEF Query, CancelSend, CancelQuery
<1>3. CASE Reconcile \/ CancelReconcile
  BY <1>3 DEF Reconcile, CancelReconcile, ReconcileRefused, ReconcileStale, ReconcileActive,
     ReconcileTerminal
<1>4. CASE CancelNotSent \/ CancelAck
  BY <1>4 DEF CancelNotSent, CancelAck
<1>5. CASE AgeSkipped \/ AgeCount
  BY <1>5 DEF AgeSkipped, AgeCount, CancelFor
<1>6. CASE RecoverListing \/ RecoverClassify \/ RecoverDecide \/ RecoverPosition
           \/ RecoverResume \/ RecoverFinish
  BY <1>6 DEF RecoverListing, RecoverClassify, RecoverDecide, RecoverPosition, RecoverResume,
     RecoverFinish, FailedRecoveryRead, CancelFor
<1> QED
  BY <1>1, <1>2, <1>3, <1>4, <1>5, <1>6 DEF BrokerStep

LEMMA WaitsKept ==
    ASSUME IInv, OperationOK, WaitsOK, RInv, [RuntimeNext]_runtimeVars
    PROVE  WaitsOK'
<1> USE DEF WaitsOK
<1>1. CASE UNCHANGED runtimeVars
  BY <1>1 DEF runtimeVars, vars, callVars, memory
<1>2. CASE BrokerWorks
  BY <1>2, OperationSteps, ArgStays DEF BrokerWorks
<1>3. CASE WorldMoves
  BY <1>3, ExchangeFrame DEF WorldMoves, callVars, memory
<1>4. CASE RuntimeCrash \/ RecoveryEndsProcess
  BY <1>4 DEF RuntimeCrash, RecoveryEndsProcess, ProcessForgets, Crash, StartupFailed, ProcessEnds,
     Return
<1>5. CASE LoopStep /\ ~RecoveryEndsProcess
  <2> USE DEF To, LoopOnly, vars, callVars, memory, BrokerReturned, Delivered, OperationOK
  <2>1. CASE \E step \in {"recover_deliver", "deliver", "aged", "submitted"} : Deliver(step)
    BY <2>1 DEF Deliver, DrainEvents
  <2>2. CASE StartRuntime \/ RuntimeStarted
    BY <2>2 DEF StartRuntime, RuntimeStarted, Start, StartupDone, PhaseOnly
  <2>3. CASE RecoverState \/ Poll \/ AgeEntry
    BY <2>3 DEF RecoverState, Poll, AgeEntry, Recover, Refresh, Age, Begin
  <2>4. CASE SubmitEntry
    BY <2>4 DEF SubmitEntry, SubmitRefusedLocally, Submit, Begin, Fails, Raise, Return, RInv
  <2>5. CASE IterationFails \/ RecoveryReturns \/ RecoverUpdate \/ PollEmpty
               \/ PollReturns \/ PollUpdate \/ PollDelivered
    BY <2>5 DEF IterationFails, RecoveryReturns, RecoverUpdate, PollEmpty, PollReturns,
       PollUpdate, PollDelivered
  <2>6. CASE \/ \E candle \in CandlesShown : CollectCompleted(candle)
             \/ AgeNothing \/ AgeReturns \/ AgeDelivered
    BY <2>6 DEF CollectCompleted, AgeNothing, AgeReturns, AgeDelivered, AfterAging, CandleDone
  <2>7. CASE \/ SkipCandle \/ SuppressDuplicate \/ SubmissionConflicts
             \/ SubmitReturns \/ SubmitDelivered
             \/ \E found \in Ids \cup {"none"} : AnalyseCandle(found)
    BY <2>7 DEF SkipCandle, AnalyseCandle, SuppressDuplicate, SubmissionConflicts,
       SubmitReturns, SubmitDelivered, CandleDone
  <2> QED
    BY <1>5, <2>1, <2>2, <2>3, <2>4, <2>5, <2>6, <2>7 DEF LoopStep
<1> QED
  BY <1>1, <1>2, <1>3, <1>4, <1>5 DEF RuntimeNext

----------------------------------------------------------------------------
(* What a process does with a setup and with a candle.                     *)

PlacedOK ==
    /\ sent \subseteq keys
    /\ op = "submit" => setup \in keys
    /\ pc \in {"submit_position", "submit_listing", "submit_place"}
         => setup \notin sent \cup recovered

LEMMA PlacedKept ==
    ASSUME IInv, OperationOK, WaitsOK, PlacedOK, [RuntimeNext]_runtimeVars
    PROVE  PlacedOK'
<1> USE DEF PlacedOK
<1>1. CASE UNCHANGED runtimeVars
  BY <1>1 DEF runtimeVars, vars, callVars, memory
<1>2. CASE BrokerWorks
  <2>1. op' = "submit" => op = "submit"
    BY <1>2, OperationSteps DEF BrokerWorks
  <2>2. pc' \in {"submit_position", "submit_listing", "submit_place"}
          => pc \in {"submit_position", "submit_listing"}
    BY <1>2 DEF BrokerWorks, BrokerStep, SubmitPosition, SubmitListing, SubmitPlace, SubmitAck,
       SubmitQuery, Query, Reconcile, CancelReconcile, ReconcileRefused, ReconcileStale,
       ReconcileActive, ReconcileTerminal, CancelNotSent, CancelSend, CancelAck, CancelQuery,
       AgeSkipped, AgeCount, RecoverListing, RecoverClassify, RecoverDecide, RecoverPosition,
       RecoverResume, RecoverFinish, FailedRecoveryRead, Continue, CancelFor, Goto, Return, Raise,
       Fails, FailedRead
  <2>3. pc = "submit_place" => arg.id \in keys
    BY DEF WaitsOK, OperationOK, SubmitLabels
  <2> QED
    BY <1>2, <2>1, <2>2, <2>3 DEF BrokerWorks
<1>3. CASE WorldMoves
  BY <1>3, ExchangeFrame DEF WorldMoves, callVars, memory
<1>4. CASE RuntimeCrash \/ RecoveryEndsProcess
  BY <1>4 DEF RuntimeCrash, RecoveryEndsProcess, ProcessForgets, Crash, StartupFailed, ProcessEnds,
     Return
<1>5. CASE LoopStep /\ ~RecoveryEndsProcess
  <2> USE DEF To, LoopOnly, vars, callVars, memory, BrokerReturned, Delivered
  <2>1. CASE \E step \in {"recover_deliver", "deliver", "aged", "submitted"} : Deliver(step)
    BY <2>1 DEF Deliver, DrainEvents
  <2>2. CASE StartRuntime \/ RuntimeStarted
    BY <2>2 DEF StartRuntime, RuntimeStarted, Start, StartupDone, PhaseOnly
  <2>3. CASE RecoverState \/ Poll \/ AgeEntry
    BY <2>3 DEF RecoverState, Poll, AgeEntry, Recover, Refresh, Age, Begin
  <2>4. CASE SubmitEntry
    BY <2>4 DEF SubmitEntry, SubmitRefusedLocally, Submit, Begin, Fails, Raise, Return, Duplicate
  <2>5. CASE IterationFails \/ RecoveryReturns \/ RecoverUpdate \/ PollEmpty
               \/ PollReturns \/ PollUpdate \/ PollDelivered
    BY <2>5 DEF IterationFails, RecoveryReturns, RecoverUpdate, PollEmpty, PollReturns,
       PollUpdate, PollDelivered
  <2>6. CASE \/ \E candle \in CandlesShown : CollectCompleted(candle)
             \/ AgeNothing \/ AgeReturns \/ AgeDelivered
    BY <2>6 DEF CollectCompleted, AgeNothing, AgeReturns, AgeDelivered, CandleDone
  <2>7. CASE \/ SkipCandle \/ SuppressDuplicate \/ SubmissionConflicts
             \/ SubmitReturns \/ SubmitDelivered
             \/ \E found \in Ids \cup {"none"} : AnalyseCandle(found)
    BY <2>7 DEF SkipCandle, AnalyseCandle, SuppressDuplicate, SubmissionConflicts,
       SubmitReturns, SubmitDelivered, CandleDone, WaitsOK, OperationOK, SubmitLabels
  <2> QED
    BY <1>5, <2>1, <2>2, <2>3, <2>4, <2>5, <2>6, <2>7 DEF LoopStep
<1> QED
  BY <1>1, <1>2, <1>3, <1>4, <1>5 DEF RuntimeNext

TradesOK ==
    /\ done \in {NoCandle} \cup Nat /\ began \in {NoCandle} \cup Nat
    /\ began = NoCandle <=> done = NoCandle
    /\ began <= done
    /\ at \in {"age", "aging", "aged", "process", "submit", "submitting", "submitted"}
         => done < latest
    /\ at \in {"process", "submit", "submitting", "submitted"} => done # NoCandle

LEMMA TradesKept ==
    ASSUME IInv, OperationOK, WaitsOK, TradesOK, RInv, RInv', [RuntimeNext]_runtimeVars
    PROVE  TradesOK'
<1> USE DEF TradesOK, NoCandle
<1>1. CASE UNCHANGED runtimeVars
  BY <1>1 DEF runtimeVars, vars, callVars, memory
<1>2. CASE BrokerWorks \/ WorldMoves
  BY <1>2 DEF BrokerWorks, WorldMoves, memory
<1>4. CASE RuntimeCrash \/ RecoveryEndsProcess
  BY <1>4 DEF RuntimeCrash, RecoveryEndsProcess, ProcessForgets
<1>5. CASE LoopStep /\ ~RecoveryEndsProcess
  <2> USE DEF To, LoopOnly, memory
  <2>1. CASE \E step \in {"recover_deliver", "deliver", "aged", "submitted"} : Deliver(step)
    BY <2>1 DEF Deliver
  <2>2. CASE StartRuntime \/ RuntimeStarted
    BY <2>2 DEF StartRuntime, RuntimeStarted
  <2>3. CASE RecoverState \/ Poll \/ AgeEntry
    BY <2>3 DEF RecoverState, Poll, AgeEntry
  <2>4. CASE SubmitEntry
    BY <2>4 DEF SubmitEntry
  <2>5. CASE IterationFails \/ RecoveryReturns \/ RecoverUpdate \/ PollEmpty
               \/ PollReturns \/ PollUpdate \/ PollDelivered
    BY <2>5 DEF IterationFails, RecoveryReturns, RecoverUpdate, PollEmpty, PollReturns,
       PollUpdate, PollDelivered
  <2>6. CASE \/ \E candle \in CandlesShown : CollectCompleted(candle)
             \/ AgeNothing \/ AgeReturns \/ AgeDelivered
    BY <2>6 DEF CollectCompleted, AgeNothing, AgeReturns, AfterAging, AgeDelivered, CandleDone,
       Delivered, FirstOnlyAges, RInv
  <2>7. CASE \/ SkipCandle \/ SuppressDuplicate \/ SubmissionConflicts
             \/ SubmitReturns \/ SubmitDelivered
             \/ \E found \in Ids \cup {"none"} : AnalyseCandle(found)
    BY <2>7 DEF SkipCandle, AnalyseCandle, SuppressDuplicate, SubmissionConflicts,
       SubmitReturns, SubmitDelivered, CandleDone, Delivered, RInv
  <2> QED
    BY <1>5, <2>1, <2>2, <2>3, <2>4, <2>5, <2>6, <2>7 DEF LoopStep
<1> QED
  BY <1>1, <1>2, <1>4, <1>5 DEF RuntimeNext

(* An aging that returns without an error has done what it is asked for.    *)
Aged ==
    slot # NoEntry =>
        \/ slot.status \in TerminalStatuses \cup {"CANCEL_REQUESTED"}
        \/ slot.expiry /\ slot.id \in cancelSent
        \/ lastAged >= latest
        \/ slot.signal >= latest

AgedOK ==
    /\ op = "expire" =>
         /\ slot # NoEntry /\ slot.expiry
         /\ pc \in {"cancel", "cancel_ack", "cancel_query", "cancel_reconcile"}
         /\ pc \in {"cancel_query", "cancel_reconcile"} => slot.id \in cancelSent
    /\ at = "aging" /\ pc = "idle" /\ outcome = "ok" => Aged
    /\ at \in {"aged", "process"} => Aged

LEMMA AgedCalls ==
    ASSUME SafetyInv, WaitsOK, AgedOK, RInv, BrokerWorks
    PROVE  AgedOK'
<1> USE DEF SafetyInv, AgedOK
<1>1. BrokerStep /\ pc # "idle" /\ at' = at /\ latest' = latest
  BY DEF BrokerWorks, BrokerStep, SubmitPosition, SubmitListing, SubmitPlace, SubmitAck,
     SubmitQuery, Query, Reconcile, CancelReconcile, CancelNotSent, CancelSend, CancelAck,
     CancelQuery, AgeSkipped, AgeCount, RecoverListing, RecoverClassify, RecoverDecide,
     RecoverPosition, RecoverResume, RecoverFinish
<1>2. at \notin {"aged", "process"} /\ (op \notin {"age", "expire"} => at # "aging")
  BY <1>1 DEF WaitsOK, OperationOK, IInv, TypeOK, Ops
<1>3. CASE op \notin {"age", "expire"}
  BY <1>1, <1>2, <1>3, OperationSteps
<1>4. CASE op = "age"
  <2>1. arg.candle = latest
    BY <1>4 DEF WaitsOK
  <2>2. CASE AgeSkipped
    <3>1. UNCHANGED <<slot, lastAged, cancelSent>>
      BY <2>2 DEF AgeSkipped, Fails, ControlOnly, slotVars
    <3>2. CASE op' = "expire"
      BY <1>1, <1>2, <1>4, <2>2, <3>1, <3>2
         DEF AgeSkipped, Fails, Raise, Return, CancelFor, ResumeExpiry
    <3>3. ASSUME pc' = "idle", outcome' = "ok" PROVE Aged
      <4>1. /\ slot # NoEntry => slot \in Entry
            /\ lastAged \in Nat /\ latest \in Nat
        BY DEF IInv, TypeOK, RInv
      <4>2. \/ slot = NoEntry \/ slot.status = "CANCEL_REQUESTED"
            \/ Eligible(slot, latest) = {}
        BY <1>4, <2>1, <2>2, <3>3 DEF AgeSkipped, Fails, Raise, Return, CancelFor
      <4>3. ASSUME slot # NoEntry, lastAged < latest, slot.signal < latest
            PROVE  latest \in Eligible(slot, latest)
        BY <4>1, <4>3 DEF Eligible, Entry
      <4> QED
        BY <4>1, <4>2, <4>3 DEF Aged, Entry
    <3> QED
      BY <1>1, <1>2, <1>4, <2>2, <3>1, <3>2, <3>3
         DEF AgeSkipped, Fails, Raise, Return, CancelFor, Aged
  <2>3. CASE AgeCount
    <3>1. CASE lastAged' = latest
      <4>1. latest \in Nat /\ Aged'
        BY <1>1, <3>1 DEF Aged, RInv
      <4>2. ASSUME op' = "expire" PROVE slot' # NoEntry /\ slot'.expiry /\ pc' = "cancel"
        <5>1. slot' = AgedEntry /\ slot'.expiry /\ pc' = "cancel" /\ slot # NoEntry
          BY <1>4, <2>3, <4>2 DEF AgeCount, AgedEntry, SetSlot, CancelFor, Return, AgeRolledBack, StillAges
        <5>2. slot'.status = slot.status /\ slot.status # "NONE"
          BY <5>1 DEF AgedEntry, IInv, TypeOK, Entry, PendingEntryStatus, PersistableStatuses,
             TerminalStatuses
        <5> QED
          BY <5>1, <5>2 DEF NoEntry
      <4> QED
        BY <1>1, <1>2, <4>1, <4>2
    <3>2. CASE UNCHANGED slot /\ op' = "none" /\ outcome' = "persistence"
      BY <1>1, <1>2, <3>2
    <3> QED
      BY <2>1, <2>3, <3>1, <3>2 DEF AgeCount, AgeRolledBack, Return
  <2>4. CASE BrokerStep /\ ~AgeSkipped /\ ~AgeCount
    <3>1. op' # "expire" /\ (pc' = "idle" => outcome' # "ok")
      BY <1>4, <2>4 DEF OperationOK, SubmitLabels, RecoverLabels,
         BrokerStep, SubmitPosition, SubmitListing, SubmitPlace, SubmitAck,
         SubmitQuery, Query, Reconcile, CancelReconcile, ReconcileRefused, ReconcileStale,
         ReconcileActive, ReconcileTerminal, CancelNotSent, CancelSend, CancelAck, CancelQuery,
         RecoverListing, RecoverClassify, RecoverDecide, RecoverPosition,
         RecoverResume, RecoverFinish, Continue, Goto, Return, Raise,
         Fails, FailedRead
    <3> QED
      BY <1>1, <1>2, <3>1
  <2> QED
    BY <1>1, <2>2, <2>3, <2>4
<1>5. CASE op = "expire"
  <2>1. slot \in Entry /\ slot # NoEntry /\ slot.expiry
    BY <1>5 DEF IInv, TypeOK
  <2>2. CASE CancelNotSent
    BY <1>1, <1>2, <1>5, <2>1, <2>2 DEF CancelNotSent, Continue, Goto, Raise, Return, BrokerOnly, slotVars,
       Aged
  <2>3. CASE CancelSend
    BY <1>1, <1>2, <1>5, <2>1, <2>3 DEF CancelSend, Goto, Raise, Return
  <2>4. CASE CancelAck
    BY <1>1, <1>2, <1>5, <2>1, <2>4 DEF CancelAck, Continue, Goto, Raise, Return, SetSlot, Acknowledged,
       Aged, Entry
  <2>5. CASE CancelQuery
    BY <1>1, <1>2, <1>5, <2>1, <2>5 DEF CancelQuery, FailedRead, Fails, Goto, Raise, Return, ControlOnly,
       slotVars
  <2>6. CASE CancelReconcile
    <3>1. cancelSent' = cancelSent /\ op' = "none"
      BY <1>5, <2>6 DEF CancelReconcile, ReconcileRefused, ReconcileStale, ReconcileActive,
         ReconcileTerminal, Continue, Raise, Return, Fails, ControlOnly, slotVars
    <3>2. slot' # NoEntry => slot'.id = slot.id /\ slot'.expiry
      BY <2>1, <2>6 DEF CancelReconcile, ReconcileRefused, ReconcileStale, ReconcileActive,
         ReconcileTerminal, Fails, ControlOnly, slotVars, SetSlot, Updated, Entry
    <3>3. slot.id \in cancelSent
      BY <1>5, <2>6 DEF CancelReconcile
    <3> QED
      BY <1>1, <1>2, <3>1, <3>2, <3>3 DEF Aged
  <2> QED
    BY <1>1, <1>5, <2>2, <2>3, <2>4, <2>5, <2>6 DEF BrokerStep, OperationOK, SubmitLabels, RecoverLabels,
       SubmitPosition, SubmitListing, SubmitPlace, SubmitAck, SubmitQuery, Query, Reconcile,
       AgeSkipped, AgeCount, RecoverListing, RecoverClassify, RecoverDecide, RecoverPosition,
       RecoverResume, RecoverFinish
<1> QED
  BY <1>3, <1>4, <1>5

LEMMA AgedKept ==
    ASSUME SafetyInv, WaitsOK, AgedOK, RInv, [RuntimeNext]_runtimeVars
    PROVE  AgedOK'
<1> USE DEF SafetyInv, AgedOK
<1>1. CASE UNCHANGED runtimeVars
  BY <1>1 DEF runtimeVars, vars, callVars, slotVars, memory, Aged
<1>2. CASE BrokerWorks
  BY <1>2, AgedCalls
<1>3. CASE WorldMoves
  BY <1>3, ExchangeFrame DEF WorldMoves, callVars, slotVars, memory, Aged
<1>4. CASE RuntimeCrash \/ RecoveryEndsProcess
  BY <1>4 DEF RuntimeCrash, RecoveryEndsProcess, ProcessForgets, Crash, StartupFailed, ProcessEnds,
     Return
<1>5. CASE LoopStep /\ ~RecoveryEndsProcess
  <2> USE DEF To, LoopOnly, vars, callVars, slotVars, memory, BrokerReturned, Delivered, Aged,
          OperationOK
  <2>1. CASE \E step \in {"recover_deliver", "deliver", "aged", "submitted"} : Deliver(step)
    BY <2>1 DEF Deliver, DrainEvents
  <2>2. CASE StartRuntime \/ RuntimeStarted
    BY <2>2 DEF StartRuntime, RuntimeStarted, Start, StartupDone, PhaseOnly
  <2>3. CASE RecoverState \/ Poll \/ AgeEntry
    BY <2>3 DEF RecoverState, Poll, AgeEntry, Recover, Refresh, Age, Begin
  <2>4. CASE SubmitEntry
    BY <2>4 DEF SubmitEntry, SubmitRefusedLocally, Submit, Begin, Fails, Raise, Return
  <2>5. CASE IterationFails \/ RecoveryReturns \/ RecoverUpdate \/ PollEmpty
               \/ PollReturns \/ PollUpdate \/ PollDelivered
    BY <2>5 DEF IterationFails, RecoveryReturns, RecoverUpdate, PollEmpty, PollReturns,
       PollUpdate, PollDelivered
  <2>6. CASE \/ \E candle \in CandlesShown : CollectCompleted(candle)
             \/ AgeNothing \/ AgeReturns \/ AgeDelivered
    BY <2>6 DEF CollectCompleted, AgeNothing, AgeReturns, AgeDelivered, AfterAging, CandleDone,
       WaitsOK
  <2>7. CASE \/ SkipCandle \/ SuppressDuplicate \/ SubmissionConflicts
             \/ SubmitReturns \/ SubmitDelivered
             \/ \E found \in Ids \cup {"none"} : AnalyseCandle(found)
    BY <2>7 DEF SkipCandle, AnalyseCandle, SuppressDuplicate, SubmissionConflicts,
       SubmitReturns, SubmitDelivered, CandleDone
  <2> QED
    BY <1>5, <2>1, <2>2, <2>3, <2>4, <2>5, <2>6, <2>7 DEF LoopStep
<1> QED
  BY <1>1, <1>2, <1>3, <1>4, <1>5 DEF RuntimeNext

(* The loop's invariant.                                                   *)
LoopInv == RInv /\ WaitsOK /\ PlacedOK /\ TradesOK /\ AgedOK

LEMMA LoopInit == RuntimeInit => LoopInv
BY DEF RuntimeInit, Init, LoopInv, RInv, WaitsOK, PlacedOK, TradesOK, AgedOK, NoCandle

LEMMA LoopKept == SafetyInv /\ LoopInv /\ [RuntimeNext]_runtimeVars => LoopInv'
BY RuntimeInv, WaitsKept, PlacedKept, TradesKept, AgedKept DEF LoopInv, SafetyInv

THEOREM LoopInvariant == RuntimeSpec => []LoopInv
BY RuntimeSafety, LoopInit, LoopKept, PTL DEF RuntimeSpec

(* A process tries to place the order of a setup once, and never that of an *)
(* order it has recovered: the key is kept before the broker is called, and *)
(* whatever fails afterwards does not take it back.                        *)
THEOREM PlacedOnce == RuntimeSpec => []PlacedOncePerProcess
<1>1. SafetyInv /\ LoopInv => PlacedOncePerProcess
  BY DEF SafetyInv, OperationOK, SubmitLabels, LoopInv, WaitsOK, PlacedOK, PlacedOncePerProcess
<1> QED
  BY <1>1, RuntimeSafety, LoopInvariant, PTL

(* A process trades only on the candle it has collected last, and only if    *)
(* that is newer than the first one it was done with.                       *)
THEOREM TradesFresh == RuntimeSpec => []TradesFreshCandlesOnly
<1>1. SafetyInv /\ LoopInv => TradesFreshCandlesOnly
  BY DEF SafetyInv, OperationOK, SubmitLabels, LoopInv, RInv, WaitsOK, TradesOK,
     TradesFreshCandlesOnly, NoCandle
<1> QED
  BY <1>1, RuntimeSafety, LoopInvariant, PTL

(* No candle is processed before the pending entry has been aged by it, or  *)
(* its cancellation is under way.                                           *)
THEOREM AgedFirst == RuntimeSpec => []AgedBeforeProcessing
<1>1. LoopInv => AgedBeforeProcessing
  BY DEF LoopInv, AgedOK, Aged, AgedBeforeProcessing
<1> QED
  BY <1>1, LoopInvariant, PTL

(* The loop's variables keep their types.                                  *)
THEOREM RuntimeTypeCorrect == RuntimeSpec => []RuntimeTypeOK
<1>1. RuntimeInit => RuntimeTypeOK
  BY DEF RuntimeInit, Init, RuntimeTypeOK, NoCandle
<1>2. SafetyInv /\ LoopInv /\ LoopInv' /\ RuntimeTypeOK /\ [RuntimeNext]_runtimeVars
        => RuntimeTypeOK'
  <2> SUFFICES ASSUME SafetyInv, LoopInv, LoopInv', RuntimeTypeOK, [RuntimeNext]_runtimeVars
               PROVE  RuntimeTypeOK'
    OBVIOUS
  <2> USE DEF LoopInv, SafetyInv
  <2>1. clock' \in Nat /\ clock \in Nat /\ (clock' = clock \/ clock' = clock + 1)
        /\ latest \in 0 .. clock
    BY RuntimeStepRefines, ClockAdvances DEF RInv
  <2>2. latest' \in 0 .. clock' /\ at' \in {"down", "recover", "recovering", "recover_update",
               "recover_deliver", "poll", "refreshing", "update", "deliver",
               "collect", "age", "aging", "aged", "process", "submit",
               "submitting", "submitted"}
    BY DEF RInv, WaitsOK
  <2>3. \/ UNCHANGED <<done, began, keys, recovered, sent, setup>>
        \/ ProcessForgets
        \/ CandleDone /\ setup' \in Ids \cup {"none"}
        \/ recovered' = recovered \cup (IF slot = NoEntry THEN {} ELSE {slot.id})
           /\ UNCHANGED <<done, began, keys, sent, setup>>
        \/ at = "submit" /\ keys' = keys \cup {setup}
           /\ UNCHANGED <<done, began, recovered, sent, setup>>
        \/ pc = "submit_place" /\ sent' = sent \cup {arg.id}
           /\ UNCHANGED <<done, began, keys, recovered, setup>>
        \/ setup' \in Ids \cup {"none"} /\ UNCHANGED <<done, began, keys, recovered, sent>>
    <3> USE DEF To, LoopOnly, memory
    <3>1. CASE BrokerWorks \/ WorldMoves \/ RuntimeCrash \/ UNCHANGED runtimeVars
      BY <3>1 DEF BrokerWorks, WorldMoves, RuntimeCrash, runtimeVars
    <3>2. CASE \/ \E step \in {"recover_deliver", "deliver", "aged", "submitted"} : Deliver(step)
               \/ IterationFails \/ StartRuntime \/ RecoverState \/ RecoveryReturns
               \/ RecoverUpdate \/ RuntimeStarted \/ RecoveryEndsProcess
      BY <3>2 DEF Deliver, IterationFails, StartRuntime, RecoverState, RecoveryReturns,
         RecoverUpdate, RuntimeStarted, RecoveryEndsProcess
    <3>3. CASE \/ PollEmpty \/ Poll \/ PollReturns \/ PollUpdate \/ PollDelivered
               \/ \E candle \in CandlesShown : CollectCompleted(candle)
               \/ AgeNothing \/ AgeEntry \/ AgeReturns
      BY <3>3 DEF PollEmpty, Poll, PollReturns, PollUpdate, PollDelivered, CollectCompleted,
         AgeNothing, AgeEntry, AgeReturns
    <3>4. CASE AgeDelivered \/ SkipCandle \/ SuppressDuplicate \/ SubmissionConflicts
               \/ SubmitReturns \/ SubmitDelivered
      BY <3>4 DEF AgeDelivered, SkipCandle, SuppressDuplicate, SubmissionConflicts,
         SubmitReturns, SubmitDelivered, RuntimeTypeOK
    <3>5. ASSUME NEW found \in Ids \cup {"none"}, AnalyseCandle(found)
          PROVE  \/ CandleDone /\ setup' \in Ids \cup {"none"}
                 \/ setup' \in Ids \cup {"none"} /\ UNCHANGED <<done, began, keys, recovered, sent>>
      BY <3>5 DEF AnalyseCandle
    <3>6. CASE SubmitEntry
      BY <3>6 DEF SubmitEntry
    <3> QED
      BY <3>1, <3>2, <3>3, <3>4, <3>5, <3>6 DEF RuntimeNext, LoopStep
  <2>4. slot # NoEntry => slot.id \in Ids
    BY DEF IInv, TypeOK, Entry
  <2>5. pc = "submit_place" => arg.id \in Ids
    BY DEF IInv, ControlOK
  <2> QED
    BY <2>1, <2>2, <2>3, <2>4, <2>5 DEF RuntimeTypeOK, ProcessForgets, CandleDone, RInv, NoCandle
<1> QED
  BY <1>1, <1>2, RuntimeSafety, LoopInvariant, PTL DEF RuntimeSpec

----------------------------------------------------------------------------
(* Candles are counted exactly when the listing shows each of them in time. *)

Counted(e, last) == e.age = IF last > e.signal THEN last - e.signal ELSE 0

CountedOK ==
    /\ slot # NoEntry => Counted(slot, lastAged)
    /\ store # NoRecord => Counted(store.entry, store.lastAged)
    /\ at \in {"age", "aging", "aged", "process", "submit", "submitting", "submitted"}
         => lastAged <= latest

LEMMA EligibleExact ==
    ASSUME NEW e \in Entry, NEW candle \in Nat, lastAged \in Nat, lastAged <= candle,
           Counted(e, lastAged)
    PROVE  e.age + Cardinality(Eligible(e, candle))
             = IF candle > e.signal THEN candle - e.signal ELSE 0
<1> DEFINE from == IF lastAged > e.signal THEN lastAged ELSE e.signal
<1>1. e.signal \in Nat /\ e.age \in Nat /\ from \in Nat
  BY DEF Entry
<1>2. Eligible(e, candle) = (from + 1) .. candle
  BY <1>1 DEF Eligible
<1>3. Cardinality((from + 1) .. candle) = IF from + 1 > candle THEN 0 ELSE candle - (from + 1) + 1
  <2>1. from + 1 \in Int /\ candle \in Int
    BY <1>1
  <2> HIDE DEF from
  <2> QED
    BY <2>1, FS_Interval
<1> QED
  BY <1>1, <1>2, <1>3 DEF Counted

LEMMA CountsKept ==
    ASSUME SafetyInv, SafetyInv', LoopInv, CountedOK, [Next]_vars
    PROVE  /\ slot' # NoEntry => Counted(slot', lastAged')
           /\ store' # NoRecord => Counted(store'.entry, store'.lastAged)
           /\ \/ lastAged' \in {lastAged, 0}
              \/ at = "recovering"
              \/ at = "aging" /\ lastAged' = latest
<1> USE DEF SafetyInv, LoopInv, CountedOK
<1>1. /\ lastAged \in Nat
      /\ slot # NoEntry => slot \in Entry
      /\ store # NoRecord => store.entry \in Entry
  BY DEF IInv, TypeOK, Record
<1>2. CASE UNCHANGED <<slot, store, known, lastAged>> \/ Empties \/ ProcessEnds
  BY <1>2, RecordsDiffer DEF Empties, ProcessEnds
<1>3. CASE Resaves
  BY <1>3 DEF Resaves, RecordOf
<1>4. CASE Registers
  <2>1. op = "submit" /\ arg.candle = latest /\ at = "submitting" /\ arg.candle \in Nat
    BY <1>4 DEF Registers, OperationOK, WaitsOK, RInv
  <2>2. Counted(NewEntry(arg.id, arg.candle), lastAged)
    BY <1>1, <2>1 DEF Counted, NewEntry
  <2> QED
    BY <1>1, <1>4, <2>2 DEF Registers, Saves, SetSlot, RecordOf
<1>5. CASE Reconciles \/ Ends
  <2>1. slot # NoEntry /\ slot \in Entry
    BY <1>1, <1>5 DEF Reconciles, Ends, Reads, IInv, ControlOK
  <2>2. Counted(Updated(slot, snap), lastAged)
    BY <2>1 DEF Counted, Updated, Entry
  <2> QED
    BY <1>1, <1>5, <2>2 DEF Reconciles, Ends, Saves, SetSlot, RecordOf
<1>6. CASE Acknowledges
  <2>1. slot # NoEntry /\ slot \in Entry
    BY <1>1, <1>6 DEF Acknowledges, IInv, ControlOK
  <2>2. Counted(Acknowledged(slot), lastAged)
    BY <2>1 DEF Counted, Acknowledged, Entry
  <2> QED
    BY <1>1, <1>6, <2>2 DEF Acknowledges, Saves, SetSlot, RecordOf
<1>7. CASE Ages
  <2>1. slot # NoEntry /\ slot \in Entry /\ lastAged <= arg.candle
        /\ op = "age" /\ arg.candle = latest /\ at = "aging" /\ arg.candle \in Nat
    BY <1>1, <1>7 DEF Ages, StillAges, OperationOK, WaitsOK, RInv
  <2>2. Counted(AgedEntry, arg.candle)
    <3>1. AgedEntry.age = slot.age + Cardinality(Eligible(slot, arg.candle))
          /\ AgedEntry.signal = slot.signal
      BY <2>1 DEF AgedEntry, Entry
    <3> QED
      BY <1>1, <2>1, <3>1, EligibleExact DEF Counted
  <2> QED
    BY <1>7, <2>1, <2>2 DEF Ages, SetSlot
<1>8. CASE Restores
  BY <1>1, <1>8 DEF Restores, Restore, SetSlot, OperationOK, RecoverLabels, WaitsOK
<1> QED
  BY <1>2, <1>3, <1>4, <1>5, <1>6, <1>7, <1>8, DataSteps

LEMMA CountedKept ==
    ASSUME ~CandlesLag, SafetyInv, SafetyInv', LoopInv, LoopInv', CountedOK,
           [RuntimeNext]_runtimeVars
    PROVE  CountedOK'
<1> DEFINE working == {"age", "aging", "aged", "process", "submit", "submitting", "submitted"}
<1> USE DEF LoopInv
<1>1. /\ slot' # NoEntry => Counted(slot', lastAged')
      /\ store' # NoRecord => Counted(store'.entry, store'.lastAged)
      /\ \/ lastAged' \in {lastAged, 0}
         \/ at = "recovering"
         \/ at = "aging" /\ lastAged' = latest
  BY RuntimeStepRefines, CountsKept
<1>2. lastAged' <= lastAged \/ at = "recovering" \/ (at = "aging" /\ lastAged' = latest)
  BY <1>1 DEF SafetyInv, IInv, TypeOK
<1>3. lastAged \in Nat /\ lastAged' \in Nat /\ latest \in Nat /\ latest' \in Nat
      /\ clock \in Nat /\ lastAged <= clock
  BY DEF SafetyInv, IInv, TypeOK, RInv, ClockOK
<1>4. ASSUME at' \in working PROVE lastAged' <= latest'
  <2> USE DEF To, LoopOnly, memory
  <2>1. CASE at \in working /\ latest' = latest
    BY <1>2, <1>3, <2>1 DEF CountedOK
  <2>2. ASSUME NEW candle \in CandlesShown, CollectCompleted(candle)
        PROVE  lastAged' <= latest'
    <3>1. latest' = clock /\ lastAged' = lastAged
      BY <2>2 DEF CollectCompleted, CandlesShown, vars, slotVars
    <3> QED
      BY <1>3, <3>1
  <2>3. CASE BrokerWorks \/ WorldMoves \/ RuntimeCrash \/ UNCHANGED runtimeVars
    BY <1>4, <2>1, <2>3 DEF BrokerWorks, WorldMoves, RuntimeCrash, ProcessForgets, runtimeVars
  <2>4. CASE \/ \E step \in {"recover_deliver", "deliver", "aged", "submitted"} : Deliver(step)
             \/ IterationFails \/ StartRuntime \/ RecoverState \/ RecoveryReturns
             \/ RecoverUpdate \/ RuntimeStarted \/ RecoveryEndsProcess
    BY <1>4, <2>1, <2>4 DEF Deliver, IterationFails, StartRuntime, RecoverState, RecoveryReturns,
       RecoverUpdate, RuntimeStarted, RecoveryEndsProcess, ProcessForgets, Delivered
  <2>5. CASE \/ PollEmpty \/ Poll \/ PollReturns \/ PollUpdate \/ PollDelivered
             \/ AgeNothing \/ AgeEntry \/ AgeReturns \/ AgeDelivered
    BY <1>4, <2>1, <2>5 DEF PollEmpty, Poll, PollReturns, PollUpdate, PollDelivered, AgeNothing,
       AgeEntry, AgeReturns, AgeDelivered, CandleDone, Delivered
  <2>6. CASE \/ SkipCandle \/ SuppressDuplicate \/ SubmissionConflicts
             \/ SubmitReturns \/ SubmitDelivered \/ SubmitEntry
             \/ \E found \in Ids \cup {"none"} : AnalyseCandle(found)
    BY <1>4, <2>1, <2>6 DEF SkipCandle, AnalyseCandle, SuppressDuplicate, SubmissionConflicts,
       SubmitReturns, SubmitDelivered, SubmitEntry, CandleDone, Delivered
  <2> QED
    BY <2>2, <2>3, <2>4, <2>5, <2>6 DEF RuntimeNext, LoopStep
<1> QED
  BY <1>1, <1>4 DEF CountedOK

(* An entry's age is the number of candles completed since its signal and   *)
(* up to the last one counted: none is skipped and none counted twice, over *)
(* failures, repetitions and restarts, as long as the listing shows every   *)
(* candle in time.                                                         *)
THEOREM CountedOnce ==
    ASSUME ~CandlesLag
    PROVE  RuntimeSpec => []CandlesCountedOnce
<1>1. RuntimeInit => CountedOK
  BY DEF RuntimeInit, Init, CountedOK
<1>2. SafetyInv /\ SafetyInv' /\ LoopInv /\ LoopInv' /\ CountedOK /\ [RuntimeNext]_runtimeVars
        => CountedOK'
  BY CountedKept
<1>3. CountedOK => CandlesCountedOnce
  BY DEF CountedOK, Counted, CandlesCountedOnce
<1> QED
  BY <1>1, <1>2, <1>3, RuntimeSafety, LoopInvariant, PTL DEF RuntimeSpec

----------------------------------------------------------------------------
(* The preflight *)

(* What the three reads have seen and still holds, and, once the bot has    *)
(* been called ready, how far its recovery has come: with no record, no own *)
(* and no foreign order there is nothing that it could refuse, and a        *)
(* protective order that it lists has a position beside it.                 *)
PreflightOK ==
    /\ check \in {"none", "positions", "orders", "ready"}
    /\ check # "none" => phase \in {"stopped", "starting"}
    /\ check \in {"positions", "orders"} =>
         /\ phase = "stopped"
         /\ durable = (store # NoRecord)
    /\ check = "orders" /\ held => position # "none"
    /\ check = "ready" => store = NoRecord /\ ~foreign /\ ActiveIds = {}
    /\ check = "ready" /\ phase = "starting" =>
         /\ slot = NoEntry
         /\ outcome \in {"none", "ok", "temporary"}
         /\ pc \in {"idle", "recover_listing", "recover_classify", "recover_decide",
                    "recover_finish"}
         /\ pc # "idle" => op = "recover"
         /\ pc = "recover_classify" =>
              listed = {"protective"} /\ position # "none"
         /\ pc = "recover_decide" => listed \subseteq {"protective", "position"}

(* Nobody but a running bot places an order of the bot.                     *)
LEMMA NoneBecomesActive ==
    ASSUME SafetyInv, Next, phase # "running", ActiveIds = {}
    PROVE  ActiveIds' = {}
<1>1. CASE Exchange
  <2>1. \A id \in Ids : orders'[id] = orders[id] \/ ~IsActive(id)'
    BY <1>1 DEF Exchange, NewCandle, PositionMoves, ForeignTrade, ForeignOrder, ForeignPosition, OrderMoves, Accept, Reject,
       BeginCancel, FinishCancel, CancelElsewhere, Fill, IsActive, ActiveIds, ActiveBybitStatus,
       SafetyInv, IInv, TypeOK
  <2> QED
    BY <2>1 DEF ActiveIds, IsActive
<1>2. CASE orders' = orders
  BY <1>2 DEF ActiveIds, IsActive
<1>3. CASE SubmitPlace
  BY <1>3 DEF SubmitPlace, SafetyInv, OperationOK, SubmitLabels, IInv, TypeOK
<1>4. CASE CancelSend
  <2>1. orders' \in {orders, CancelRequested}
    BY <1>4 DEF CancelSend
  <2>2. \A id \in Ids : orders'[id].status = orders[id].status
    BY <2>1, OrderFields DEF CancelRequested, SafetyInv, IInv, TypeOK, Order, PlacedOrder, NoOrder
  <2> QED
    BY <2>2 DEF ActiveIds, IsActive
<1> QED
  BY <1>1, <1>2, <1>3, <1>4, OrdersFrame DEF SafetyInv

LEMMA StoppedSteps ==
    ASSUME SafetyInv, Next, phase = "stopped"
    PROVE  Exchange \/ Start \/ DrainEvents
<1>1. pc = "idle"
  BY DEF SafetyInv, OperationOK
<1>2. ~BrokerStep
  BY <1>1 DEF BrokerStep, SubmitPosition, SubmitListing, SubmitPlace, SubmitAck, SubmitQuery, Query,
     Reconcile, CancelNotSent, CancelSend, CancelAck, CancelQuery, CancelReconcile, AgeSkipped,
     AgeCount, RecoverListing, RecoverClassify, RecoverDecide, RecoverPosition, RecoverResume,
     RecoverFinish
<1>3. ~Call
  BY DEF Call, SubmitRefusedLocally, SubmitRepeated, Submit, Refresh, CancelEntry, Recover, Age
<1> QED
  BY <1>2, <1>3 DEF Next, Process, StartupDone, StartupFailed, Crash

(* The steps of a start that finds nothing.                                 *)
LEMMA StartingSteps ==
    ASSUME SafetyInv, Next, phase = "starting", slot = NoEntry,
           pc \in {"idle", "recover_listing", "recover_classify", "recover_decide",
                  "recover_finish"}
    PROVE  \/ Exchange \/ Recover \/ DrainEvents
           \/ RecoverListing \/ RecoverClassify \/ RecoverDecide \/ RecoverFinish
           \/ phase' # phase
<1>1. BrokerStep => RecoverListing \/ RecoverClassify \/ RecoverDecide \/ RecoverFinish
  BY DEF BrokerStep, SubmitPosition, SubmitListing, SubmitPlace, SubmitAck, SubmitQuery, Query,
     Reconcile, CancelNotSent, CancelSend, CancelAck, CancelQuery, CancelReconcile, AgeSkipped,
     AgeCount, RecoverPosition, RecoverResume
<1>2. Call => Recover
  BY DEF Call, SubmitRefusedLocally, SubmitRepeated, Submit, Refresh, CancelEntry, Age
<1>3. Process => DrainEvents \/ phase' # phase
  BY DEF Process, Start, StartupDone, StartupFailed, Crash, ProcessEnds
<1> QED
  BY <1>1, <1>2, <1>3 DEF Next

(* What the exchange does while nobody overtakes the preflight.             *)
LEMMA ExchangeQuiet ==
    ASSUME SafetyInv, Exchange, ~Overtaken
    PROVE  /\ UNCHANGED <<store, phase, slot, outcome, pc, op, listed>>
           /\ position # "none" => position' # "none"
           /\ ~foreign => ~foreign'
BY ExchangeFrame DEF Overtaken, callVars, slotVars, SafetyInv, IInv, TypeOK

(* The exchange and the bot beside the preflight.                           *)
LEMMA OthersKeep ==
    ASSUME SafetyInv, PreflightOK, OthersStep, {"read", "save"} \cap Faults = {}
    PROVE  PreflightOK'
<1> USE DEF PreflightOK
<1>1. CASE check' = "none"
  BY <1>1
<1>2. CASE check' # "none"
  <2>1. ~Overtaken /\ check' = check /\ durable' = durable /\ held' = held /\ Next
    BY <1>2 DEF OthersStep, Verdict, preflightVars
  <2>2. phase \in {"stopped", "starting"} /\ (phase' # phase => phase = "stopped")
    BY <1>2, <2>1 DEF Overtaken
  <2>3. check = "ready" => ActiveIds' = {}
    BY <2>1, <2>2, NoneBecomesActive
  <2>4. CASE Exchange
    BY <2>1, <2>2, <2>3, <2>4, ExchangeQuiet
  <2>5. CASE DrainEvents
    BY <2>1, <2>2, <2>3, <2>5
       DEF DrainEvents, BrokerOnly, exchangeVars, slotVars, callVars
  <2>6. CASE Start
    <3>1. check = "ready"
      BY <2>1, <2>6 DEF Start, Overtaken
    <3>2. slot = NoEntry /\ outcome = "none" /\ pc = "idle"
      BY <2>6 DEF Start, SafetyInv, StoppedOK, OperationOK
    <3> QED
      BY <2>1, <2>3, <2>6, <3>1, <3>2
         DEF Start, PhaseOnly, exchangeVars, slotVars, callVars
  <2>7. CASE phase = "starting" /\ phase' = phase /\ ~Exchange /\ ~DrainEvents
    <3>1. /\ check = "ready" /\ store = NoRecord /\ ~foreign /\ ActiveIds = {}
          /\ slot = NoEntry /\ pc \in {"idle", "recover_listing", "recover_classify",
                                      "recover_decide", "recover_finish"}
      BY <1>2, <2>1, <2>7
    <3>2. Recover \/ RecoverListing \/ RecoverClassify \/ RecoverDecide \/ RecoverFinish
      BY <2>1, <2>7, <3>1, StartingSteps
    <3>3. CASE Recover
      BY <2>1, <2>3, <2>7, <3>1, <3>3
         DEF Recover, Begin, BrokerOnly, exchangeVars, slotVars
    <3>4. CASE RecoverListing
      BY <2>1, <2>3, <2>7, <3>1, <3>4
         DEF RecoverListing, FailedRecoveryRead, ControlOnly, BrokerOnly, exchangeVars, slotVars
    <3>5. CASE RecoverClassify
      BY <2>1, <2>3, <2>7, <3>1, <3>5
         DEF RecoverClassify, FailedRecoveryRead, ControlOnly, BrokerOnly, exchangeVars, slotVars
    <3>6. CASE RecoverDecide
      <4>1. Owned = {}
        BY <2>7, <3>1, <3>6, IdsAssumption DEF RecoverDecide, Owned
      <4>2. ~RecoveryBlocked
        BY <2>7, <3>1, <3>6, <4>1, FS_EmptySet DEF RecoverDecide, RecoveryBlocked
      <4> QED
        BY <2>1, <2>3, <2>7, <3>1, <3>6, <4>2
           DEF RecoverDecide, Goto, BrokerOnly, exchangeVars
    <3>7. CASE RecoverFinish
      BY <2>1, <2>3, <2>7, <3>1, <3>7
         DEF RecoverFinish, Return, BrokerOnly, exchangeVars, slotVars
    <3> QED
      BY <3>2, <3>3, <3>4, <3>5, <3>6, <3>7
  <2> QED
    BY <2>1, <2>2, <2>4, <2>5, <2>6, <2>7, StoppedSteps
<1> QED
  BY <1>1, <1>2

LEMMA ChecksKeep ==
    ASSUME SafetyInv, PreflightOK, PreflightStep
    PROVE  PreflightOK'
<1> USE DEF PreflightOK, vars, slotVars, callVars, exchangeVars, eventVars
<1>1. CASE CheckFails
  BY <1>1 DEF CheckFails, Verdict
<1>2. CASE CheckStore
  BY <1>2 DEF CheckStore
<1>3. CASE CheckPositions
  BY <1>3 DEF CheckPositions
<1>4. CASE CheckOrders
  <2>1. CASE Blocked
    BY <1>4, <2>1 DEF CheckOrders, Verdict
  <2>2. CASE ~Blocked
    <3>1. store = NoRecord /\ ~foreign /\ ActiveIds = {} /\ phase = "stopped"
      BY <1>4, <2>2 DEF CheckOrders, Blocked, ForeignOrders, OwnedOrders
    <3>2. ActiveIds' = {}
      BY <1>4, <3>1 DEF CheckOrders, ActiveIds, IsActive
    <3> QED
      BY <1>4, <2>2, <3>1, <3>2 DEF CheckOrders, Verdict
  <2> QED
    BY <2>1, <2>2
<1> QED
  BY <1>1, <1>2, <1>3, <1>4 DEF PreflightStep

(* The preflight and what goes on beside it implement the broker's          *)
(* specification: the three reads change nothing (BybitPreflight.run).      *)
THEOREM PreflightImplementsBroker == PreflightSpec => Spec
<1>1. PreflightInit => Init
  BY DEF PreflightInit
<1>2. [PreflightNext]_allVars => [Next]_vars
  BY DEF PreflightNext, PreflightStep, CheckFails, CheckStore, CheckPositions, CheckOrders,
     OthersStep, allVars
<1> QED
  BY <1>1, <1>2, PTL DEF PreflightSpec, Spec

(* READY is kept: a bot that is started after the preflight has called it   *)
(* ready is not refused by its recovery, as long as the recovery's reads    *)
(* answer.                                                                 *)
THEOREM ReadyKept ==
    ASSUME {"read", "save"} \cap Faults = {}
    PROVE  PreflightSpec => []ReadyMeansStartable
<1>1. PreflightInit => PreflightOK
  BY DEF PreflightInit, PreflightOK
<1>2. SafetyInv /\ PreflightOK /\ [PreflightNext]_allVars => PreflightOK'
  <2>1. CASE UNCHANGED allVars
    BY <2>1 DEF allVars, preflightVars, vars, slotVars, callVars, exchangeVars, eventVars,
       PreflightOK, ActiveIds, IsActive
  <2> QED
    BY <2>1, OthersKeep, ChecksKeep DEF PreflightNext
<1>3. PreflightOK => ReadyMeansStartable
  BY DEF PreflightOK, ReadyMeansStartable
<1> QED
  BY <1>1, <1>2, <1>3, PreflightImplementsBroker, Safety, PTL DEF PreflightSpec
=============================================================================
