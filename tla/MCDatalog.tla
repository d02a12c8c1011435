------------------------------ MODULE MCDatalog ------------------------------
(***************************************************************************)
(* TLC instance of Datalog.  Two accounts, a record of the greatest length *)
(* the pallet takes and one a byte longer, and a window small enough that  *)
(* it wraps around, is erased and wraps around again.  Records of one      *)
(* account are told apart by their moments.                                *)
(***************************************************************************)
EXTENDS Datalog, TLC

CONSTANTS Alice, Bob, Longest, TooLong

MCAccountId == {Alice, Bob}
MCRecord    == {Longest, TooLong}

\* MaximumMessageSize is 512, and a record's size hint is 4 more than its length.
MCRecordLen == (Longest :> 508) @@ (TooLong :> 509)

\* An account the previous version never wrote for, and one it did.
MCOldLogs == {<< >>, <<[moment |-> 0, record |-> Longest]>>}

=============================================================================
