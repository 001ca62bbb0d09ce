----------------------- MODULE PositionMonitorProofs -----------------------
(***************************************************************************)
(* Proofs, for every instance of PositionMonitor, that the journal's file, *)
(* its memory, the statistics and the announcements agree over failing     *)
(* writes, lagging listings and restarts.                                  *)
(*                                                                         *)
(* A row that reaches the file although writing it reports an error breaks *)
(* this (JournalLoadable in the run `sync`); hence the hypothesis on the   *)
(* fault "sync" wherever the memory is compared with the file.             *)
(***************************************************************************)
EXTENDS PositionMonitor, FiniteSetTheorems, TLAPS

(* A trade is recorded only by a running process, and is a real one.        *)
MonitorInv ==
    /\ MonitorTypeOK
    /\ process # "up" => pc = "idle"
    /\ pc \in {"record", "written"} => trade # 0

LEMMA SeqGrows ==
    ASSUME NEW m \in Nat, NEW n \in Nat, m <= n, NEW s \in Seq(1 .. m)
    PROVE  s \in Seq(1 .. n)
OBVIOUS

LEMMA EmptySeqIn == \A S : <<>> \in Seq(S)
OBVIOUS

LEMMA MonitorInvKept == MonitorInv /\ [Next]_vars => MonitorInv'
<1> SUFFICES ASSUME MonitorInv, [Next]_vars PROVE MonitorInv'
  OBVIOUS
<1> USE MaxTradesAssumption DEF MonitorInv, MonitorTypeOK, exchangeVars, monitorVars, memoryVars,
        ExchangeOnly, ProcessOnly
<1>1. CASE Open \/ UNCHANGED vars
  BY <1>1 DEF Open, vars
<1>2. CASE Close
  <2>1. closed \in Nat /\ closed' = closed + 1 /\ closed' \in 0 .. MaxTrades
    BY <1>2 DEF Close
  <2>2. file \in Seq(1 .. closed') /\ statistics \in Seq(1 .. closed')
        /\ announced \in Seq(1 .. closed')
    BY <2>1, SeqGrows
  <2> QED
    BY <1>2, <2>1, <2>2 DEF Close
<1>3. CASE ReadPosition \/ InspectFails \/ AlreadyJournaled
  BY <1>3 DEF ReadPosition, InspectFails, AlreadyJournaled
<1>4. ASSUME NEW latest \in Listed, InspectClosedTrade(latest) PROVE MonitorInv'
  <2>1. latest \in 0 .. closed
    BY DEF Listed
  <2> QED
    BY <1>4, <2>1 DEF InspectClosedTrade, Examine, TakeBaseline, Seen
<1>5. CASE WriteFails
  BY <1>5 DEF WriteFails, LastTicketAfterFailure
<1>6. CASE WriteRow
  <2>1. closed \in Nat /\ trade \in 1 .. closed
    BY <1>6 DEF WriteRow
  <2>2. Append(file, trade) \in Seq(1 .. closed)
    BY <2>1
  <2> QED
    BY <1>6, <2>1, <2>2 DEF WriteRow, Written
<1>7. CASE Remember
  <2>1. closed \in Nat /\ trade \in 1 .. closed
    BY <1>7 DEF Remember
  <2>2. Append(statistics, trade) \in Seq(1 .. closed)
        /\ Append(announced, trade) \in Seq(1 .. closed)
    BY <2>1
  <2> QED
    BY <1>7, <2>1, <2>2 DEF Remember
<1>8. CASE Start
  <2>1. RowsOf(file) \subseteq 1 .. closed
    BY DEF RowsOf
  <2> QED
    BY <1>8, <2>1 DEF Start, Loaded, Hydrated
<1>9. CASE Crash
  <2>1. closed \in Nat /\ 0 \in 0 .. closed /\ <<>> \in Seq(1 .. closed)
    BY EmptySeqIn
  <2> QED
    BY <1>9, <2>1 DEF Crash
<1> QED
  BY <1>1, <1>2, <1>3, <1>4, <1>5, <1>6, <1>7, <1>8, <1>9 DEF Next, Update

THEOREM MonitorInvariant == Spec => []MonitorInv
<1>1. Init => MonitorInv
  <2> SUFFICES ASSUME Init PROVE MonitorInv
    OBVIOUS
  <2>1. file \in Seq(1 .. closed) /\ statistics \in Seq(1 .. closed)
        /\ announced \in Seq(1 .. closed)
    BY EmptySeqIn DEF Init
  <2>2. closed \in 0 .. MaxTrades /\ {lastTicket, trade, baselineTicket} \subseteq 0 .. closed
    BY MaxTradesAssumption DEF Init
  <2>3. pc = "idle" /\ process = "down" /\ tickets = {}
        /\ open \in BOOLEAN /\ position \in BOOLEAN /\ baseline \in BOOLEAN
    BY DEF Init
  <2> QED
    BY <2>1, <2>2, <2>3 DEF MonitorInv, MonitorTypeOK
<1> QED
  BY <1>1, MonitorInvKept, PTL DEF Spec

(* The monitor's and the journal's variables keep their types.              *)
THEOREM MonitorTypeCorrect == Spec => []MonitorTypeOK
<1>1. MonitorInv => MonitorTypeOK
  BY DEF MonitorInv
<1> QED
  BY <1>1, MonitorInvariant, PTL

----------------------------------------------------------------------------
(* The file, the memory and the announcements.                             *)

LEMMA RowsOfAppend ==
    ASSUME NEW n \in Nat, NEW s \in Seq(1 .. n), NEW x \in 1 .. n
    PROVE  /\ RowsOf(Append(s, x)) = RowsOf(s) \cup {x}
           /\ IsFiniteSet(RowsOf(s))
           /\ NoDuplicates(s) /\ x \notin RowsOf(s) => NoDuplicates(Append(s, x))
<1>1. RowsOf(Append(s, x)) = RowsOf(s) \cup {x}
  <2>1. Len(Append(s, x)) = Len(s) + 1 /\ Len(s) \in Nat
    OBVIOUS
  <2>2. \A i \in 1 .. Len(s) + 1 : Append(s, x)[i] = IF i = Len(s) + 1 THEN x ELSE s[i]
    OBVIOUS
  <2>3. \A y : y \in RowsOf(Append(s, x)) => y \in RowsOf(s) \cup {x}
    BY <2>1, <2>2 DEF RowsOf
  <2>4. \A y \in RowsOf(s) : y \in RowsOf(Append(s, x))
    BY <2>1, <2>2 DEF RowsOf
  <2>5. x \in RowsOf(Append(s, x))
    BY <2>1, <2>2 DEF RowsOf
  <2> QED
    BY <2>3, <2>4, <2>5
<1>2. IsFiniteSet(RowsOf(s))
  <2>1. RowsOf(s) \subseteq 1 .. n
    BY DEF RowsOf
  <2>2. IsFiniteSet(1 .. n)
    BY FS_Interval
  <2> QED
    BY <2>1, <2>2, FS_Subset
<1>3. ASSUME NoDuplicates(s), x \notin RowsOf(s) PROVE NoDuplicates(Append(s, x))
  <2>1. Cardinality(RowsOf(s) \cup {x}) = Cardinality(RowsOf(s)) + 1
    BY <1>2, <1>3, FS_AddElement
  <2> QED
    BY <1>1, <1>3, <2>1 DEF NoDuplicates
<1> QED
  BY <1>1, <1>2, <1>3

JournalInv ==
    /\ MemoryMatchesFile
    /\ RecordedThenAnnouncedOnce
    /\ pc = "written" => trade \notin tickets
    /\ process = "up" => RowsOf(announced) \subseteq tickets
    /\ JournalLoadable

LEMMA JournalInvKept ==
    ASSUME "sync" \notin Faults, MonitorInv, MonitorInv', JournalInv, [Next]_vars
    PROVE  JournalInv'
<1> USE DEF JournalInv, MemoryMatchesFile, RecordedThenAnnouncedOnce, JournalLoadable
<1> USE DEF exchangeVars, monitorVars, memoryVars, ExchangeOnly, ProcessOnly
<1>1. CASE Open \/ Close \/ UNCHANGED vars
  BY <1>1 DEF Open, Close, vars
<1>2. CASE ReadPosition \/ InspectFails \/ AlreadyJournaled
  BY <1>2 DEF ReadPosition, InspectFails, AlreadyJournaled
<1>3. ASSUME NEW latest \in Listed, InspectClosedTrade(latest) PROVE JournalInv'
  BY <1>3 DEF InspectClosedTrade, Examine, TakeBaseline
<1>4. CASE WriteRow
  <2>1. trade \in 1 .. closed /\ closed \in Nat /\ file \in Seq(1 .. closed)
    BY <1>4 DEF WriteRow, MonitorInv, MonitorTypeOK
  <2>2. process = "up" /\ pc = "record" /\ file = statistics /\ trade \notin RowsOf(file)
    BY <1>4 DEF WriteRow, MonitorInv
  <2>3. NoDuplicates(file') /\ RowsOf(file') = RowsOf(file) \cup {trade}
    BY <1>4, <2>1, <2>2, RowsOfAppend DEF WriteRow, Written
  <2> QED
    BY <1>4, <2>2, <2>3 DEF WriteRow, Written
<1>5. CASE WriteFails
  BY <1>5 DEF WriteFails
<1>6. CASE Remember
  <2>1. trade \in 1 .. closed /\ closed \in Nat /\ statistics \in Seq(1 .. closed)
        /\ announced \in Seq(1 .. closed)
    BY <1>6 DEF Remember, MonitorInv, MonitorTypeOK
  <2>2. process = "up" /\ pc = "written" /\ file = Append(statistics, trade)
        /\ trade \notin RowsOf(announced)
    BY <1>6 DEF Remember, MonitorInv
  <2>3. NoDuplicates(announced') /\ RowsOf(announced') = RowsOf(announced) \cup {trade}
        /\ RowsOf(statistics') = RowsOf(statistics) \cup {trade}
    BY <1>6, <2>1, <2>2, RowsOfAppend DEF Remember
  <2> QED
    BY <1>6, <2>2, <2>3 DEF Remember
<1>7. CASE Start
  BY <1>7 DEF Start, Loadable, Loaded, Hydrated, NoDuplicates, MonitorInv
<1>8. CASE Crash
  BY <1>8 DEF Crash
<1> QED
  BY <1>1, <1>2, <1>3, <1>4, <1>5, <1>6, <1>7, <1>8 DEF Next, Update

LEMMA JournalInit == Init => JournalInv
<1> SUFFICES ASSUME Init PROVE JournalInv
  OBVIOUS
<1>1. RowsOf(<<>>) = {} /\ Cardinality({}) = 0
  BY FS_EmptySet DEF RowsOf
<1> QED
  BY <1>1 DEF Init, JournalInv, MemoryMatchesFile, RecordedThenAnnouncedOnce, NoDuplicates,
     JournalLoadable

LEMMA JournalInvariant ==
    ASSUME "sync" \notin Faults
    PROVE  Spec => []JournalInv
<1>1. MonitorInv /\ MonitorInv' /\ JournalInv /\ [Next]_vars => JournalInv'
  BY JournalInvKept
<1> QED
  BY <1>1, JournalInit, MonitorInvariant, PTL DEF Spec

(* The statistics and the journal's memory are what the file would be       *)
(* loaded as, or are behind by the row that is being recorded.              *)
THEOREM MemoryMatches ==
    ASSUME "sync" \notin Faults
    PROVE  Spec => []MemoryMatchesFile
<1>1. JournalInv => MemoryMatchesFile
  BY DEF JournalInv
<1> QED
  BY <1>1, JournalInvariant, PTL

(* A trade is in the file at most once and announced at most once over all  *)
(* restarts, and only after its row is durable.                             *)
THEOREM RecordedOnce ==
    ASSUME "sync" \notin Faults
    PROVE  Spec => []RecordedThenAnnouncedOnce
<1>1. JournalInv => RecordedThenAnnouncedOnce
  BY DEF JournalInv
<1> QED
  BY <1>1, JournalInvariant, PTL

(* As long as no row is written whose writing reports an error, every start *)
(* can load the journal: what the run `sync` refutes for that fault alone.  *)
THEOREM JournalAlwaysLoads ==
    ASSUME "sync" \notin Faults
    PROVE  Spec => []JournalLoadable
<1>1. JournalInv => JournalLoadable
  BY DEF JournalInv
<1> QED
  BY <1>1, JournalInvariant, PTL
=============================================================================
