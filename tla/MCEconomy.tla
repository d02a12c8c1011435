------------------------------ MODULE MCEconomy ------------------------------
(***************************************************************************)
(* TLC instance of Economy.  The numbers keep the order of the real ones:  *)
(* a billionth of the fee's denominator exceeds its numerator, an endowment *)
(* exceeds a stake, and the issuance passes the largest vote and twice the *)
(* largest vote, so that the factor grows and votes are cast.              *)
(***************************************************************************)
EXTENDS Economy

MCSeeds == <<"Alice", "Bob">>

\* None, as for the development chain, a list without the stash, and no account
\* but the stash.
MCEndowedLists == {<< >>, << <<AccountId("Alice"), AccountId("Bob")>> >>, << << >> >>}

=============================================================================
