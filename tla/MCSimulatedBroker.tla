------------------------- MODULE MCSimulatedBroker -------------------------
(* An instance of SimulatedBroker for TLC: a long and a short request with  *)
(* the levels of risk/reward 2.  Candles can open on either side of every   *)
(* entry and beyond either stop.                                           *)
EXTENDS SimulatedBroker

MCRequests ==
    [long  |-> [decision |-> "BUY", entry |-> 2, stop |-> 1, target |-> 4],
     short |-> [decision |-> "SELL", entry |-> 2, stop |-> 3, target |-> 0]]
============================================================================
