------------------------ MODULE MCBybitPendingEntry ------------------------
(* Instances of BybitPendingEntry for TLC; the cfg files choose the faults. *)
EXTENDS BybitPendingEntryProperties, TLC

(* Orders differ by nothing but their ids.                                 *)
Symmetry == Permutations(Ids)
============================================================================
