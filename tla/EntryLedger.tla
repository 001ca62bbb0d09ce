---------------------------- MODULE EntryLedger ----------------------------
(***************************************************************************)
(* What the broker's durable file promises whoever restarts the bot,       *)
(* whatever crashes, timeouts and failing writes happen in between:        *)
(*                                                                         *)
(*   - it holds at most one entry, and an entry is never replaced by       *)
(*     another one: it is removed first;                                   *)
(*   - while an entry is recorded, its fills, its age, its expiry marker   *)
(*     and its cancellation request only ever advance;                     *)
(*   - the record is removed only when the exchange has really ended the   *)
(*     order, so a restart never forgets an order that can still fill.     *)
(***************************************************************************)
EXTENDS Integers

CONSTANTS Ids, Volume, MaxAge

VARIABLES
    record,  \* the recorded entry, or None
    ended    \* the orders the exchange has ended

vars == <<record, ended>>

None == [id |-> "none"]

Recorded == [id : Ids, filled : 0 .. Volume, age : 0 .. MaxAge,
             expiry : BOOLEAN, cancelling : BOOLEAN]

Init == record = None /\ ended = {}

(* The exchange ends an order by itself or on request. *)
End(id) == ended' = ended \cup {id} /\ UNCHANGED record

Open ==
    /\ record = None
    /\ record' \in Recorded
    /\ record'.age = 0 /\ ~record'.expiry
    /\ UNCHANGED ended

Advance ==
    /\ record # None
    /\ record' \in Recorded
    /\ record'.id = record.id
    /\ record'.filled >= record.filled
    /\ record'.age >= record.age
    /\ record.expiry => record'.expiry /\ record'.age = record.age
    /\ record.cancelling => record'.cancelling
    /\ UNCHANGED ended

Close ==
    /\ record # None
    /\ record.id \in ended
    /\ record' = None
    /\ UNCHANGED ended

Next == Open \/ Advance \/ Close \/ \E id \in Ids : End(id)

Spec == Init /\ [][Next]_vars
============================================================================
