---------------------------- MODULE MCPreflight ----------------------------
(* Preflight beside the broker, with interchangeable orders.               *)
EXTENDS Preflight, MCBybitPendingEntry
============================================================================
