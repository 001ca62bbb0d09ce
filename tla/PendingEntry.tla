--------------------------- MODULE PendingEntry ---------------------------
(***************************************************************************)
(* The vocabulary of a pending entry order: its statuses, the transitions  *)
(* the domain allows between them, and how Bybit's order statuses map onto *)
(* them.  The operators are pure; the live broker (BybitPendingEntry) and  *)
(* the simulated one (SimulatedBroker) are built from them.                *)
(***************************************************************************)
EXTENDS Integers

TerminalStatuses == {"FILLED", "CANCELLED", "REJECTED", "EXPIRED"}

(* The statuses the durable file accepts.                                  *)
PersistableStatuses ==
    {"SUBMITTED", "WORKING", "PARTIALLY_FILLED", "CANCEL_REQUESTED"}

PendingEntryStatus == PersistableStatuses \cup TerminalStatuses

(* EXPIRED is reached from CANCEL_REQUESTED only, and nothing leaves a     *)
(* terminal status.                                                        *)
AllowedTransitions ==
    [s \in PendingEntryStatus |->
        CASE s = "SUBMITTED" ->
                {"WORKING", "PARTIALLY_FILLED", "CANCEL_REQUESTED",
                 "FILLED", "CANCELLED", "REJECTED"}
          [] s \in {"WORKING", "PARTIALLY_FILLED"} ->
                {"PARTIALLY_FILLED", "CANCEL_REQUESTED",
                 "FILLED", "CANCELLED", "REJECTED"}
          [] s = "CANCEL_REQUESTED" ->
                {"PARTIALLY_FILLED"} \cup TerminalStatuses
          [] OTHER -> {}]

(* A snapshot that is older than what the broker already knows.            *)
IsStaleSnapshot(local, snapshot) ==
    \/ local = "WORKING" /\ snapshot = "SUBMITTED"
    \/ /\ local \in {"PARTIALLY_FILLED", "CANCEL_REQUESTED"}
       /\ snapshot \in {"SUBMITTED", "WORKING"}

(* Bybit's order statuses and their images.                                *)
BybitStatus ==
    {"Created", "New", "PartiallyFilled", "PendingCancel",
     "Filled", "Cancelled", "Rejected"}

StatusMapping ==
    [Created         |-> "SUBMITTED",
     New             |-> "WORKING",
     PartiallyFilled |-> "PARTIALLY_FILLED",
     PendingCancel   |-> "CANCEL_REQUESTED",
     Filled          |-> "FILLED",
     Cancelled       |-> "CANCELLED",
     Rejected        |-> "REJECTED"]
===========================================================================
