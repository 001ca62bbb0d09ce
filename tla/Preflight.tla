----------------------------- MODULE Preflight -----------------------------
(***************************************************************************)
(* The testnet preflight (infrastructure/bybit/bybit_preflight.py) beside  *)
(* the bot and the exchange: a process of its own that only reads, and     *)
(* reads at three different moments: the durable file, then the positions, *)
(* then the active orders.  Its verdict is a promise to whoever starts the *)
(* bot next.                                                               *)
(***************************************************************************)
EXTENDS BybitPendingEntryProperties

VARIABLES
    check,        \* what the preflight does next, or "ready"; "none" when
                  \* none is followed
    durable,      \* whether the file held an entry when it was read
    held          \* whether a position was open when it was read

preflightVars == <<check, durable, held>>
allVars == <<vars, preflightVars>>

PreflightInit == Init /\ check = "none" /\ durable = FALSE /\ held = FALSE

Verdict(v) == check' = v /\ durable' = FALSE /\ held' = FALSE

(* A check that raises is reported as a blocking reason.                   *)
CheckFails ==
    /\ check \in {"positions", "orders"}
    /\ Verdict("none")
    /\ UNCHANGED vars

(* pending_entry_store.load and, which reads nothing that matters here,    *)
(* collector.collect_completed.                                            *)
CheckStore ==
    /\ phase = "stopped"
    /\ check \in {"none", "ready"}
    /\ check' = "positions"
    /\ durable' = (store # NoRecord)
    /\ held' = FALSE
    /\ UNCHANGED vars

CheckPositions ==
    /\ check = "positions"
    /\ check' = "orders"
    /\ held' = (position # "none")
    /\ UNCHANGED <<vars, durable>>

(* inspect_active_order_counts, given the positions read before: an order   *)
(* that protects a position that was not there yet counts as foreign.       *)
OwnedOrders == ActiveIds # {}
ProtectiveOrders == position = "protected" /\ held
ForeignOrders == foreign \/ (position = "protected" /\ ~held)

BlockedUnlessDurable ==
    \/ held /\ (~ProtectiveOrders \/ OwnedOrders \/ ForeignOrders)
    \/ OwnedOrders
    \/ ForeignOrders

Blocked ==
    \/ held /\ (~ProtectiveOrders \/ OwnedOrders \/ ForeignOrders)
    \/ OwnedOrders
    \/ ForeignOrders
    \/ durable

CheckOrders ==
    /\ check = "orders"
    /\ Verdict(IF Blocked THEN "none" ELSE "ready")
    /\ UNCHANGED vars

PreflightStep == CheckFails \/ CheckStore \/ CheckPositions \/ CheckOrders

(* The exchange and the bot go on while the preflight reads.  It promises   *)
(* nothing any more, and is not followed further, when somebody else places *)
(* an order, when a position closes, when the bot is started before the     *)
(* verdict, and when the start it was made for is over.                    *)
Overtaken ==
    \/ foreign' /\ ~foreign
    \/ position' = "none" /\ position # "none"
    \/ phase' = "starting" /\ phase = "stopped" /\ check # "ready"
    \/ phase' # phase /\ phase = "starting"

OthersStep ==
    /\ Next
    /\ IF Overtaken THEN Verdict("none") ELSE UNCHANGED preflightVars

PreflightNext == PreflightStep \/ OthersStep

PreflightSpec == PreflightInit /\ [][PreflightNext]_allVars

----------------------------------------------------------------------------
(* READY is kept: a bot that is started after it is not refused by its      *)
(* recovery, although fills, acknowledgements and protective orders of      *)
(* earlier processes arrive between the three reads and after them.         *)
ReadyMeansStartable ==
    check = "ready" /\ phase = "starting" =>
        outcome \in {"none", "ok", "temporary"}
============================================================================
