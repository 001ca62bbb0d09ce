----------------------------- MODULE MCBacktest -----------------------------
(* An instance of Backtest for TLC: two long setups with the same levels, a *)
(* short one, and one whose levels are refused.                            *)
EXTENDS Backtest

MCRequests ==
    [long  |-> [decision |-> "BUY", entry |-> 2, stop |-> 1, target |-> 4],
     again |-> [decision |-> "BUY", entry |-> 2, stop |-> 1, target |-> 4],
     short |-> [decision |-> "SELL", entry |-> 3, stop |-> 4, target |-> 1],
     wrong |-> [decision |-> "BUY", entry |-> 2, stop |-> 2, target |-> 2]]
=============================================================================
