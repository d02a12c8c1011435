------------------------- MODULE MCSignedTransaction -------------------------
(***************************************************************************)
(* TLC instance of SignedTransaction.  With a BlockHashCount of 5 an era   *)
(* lasts 4 blocks, and MaxHeight lets two eras with the same phase follow  *)
(* each other and blocks fall out of the BlockHash window.                 *)
(***************************************************************************)
EXTENDS SignedTransaction

\* The runtime's own constants: eras of 2048 blocks, the greatest power of two
\* for which no hash is pruned before an era born with it has ended.
ASSUME RuntimePeriod == NextPowerOfTwo(2400) \div 2 = 2048 /\ 2 * 2048 > 2400 + 2

=============================================================================
