---------------------------- MODULE CurrencyToVote ----------------------------
(***************************************************************************)
(* CurrencyToVoteHandler, node/runtime/src/impls.rs: balances (u128) as    *)
(* the votes (u64) of the staking election, and votes as balances.  The    *)
(* factor between them follows the total issuance.                         *)
(***************************************************************************)
EXTENDS Integers

CONSTANT MaxVote   \* u64::max_value()

ASSUME MaxVoteAssumption == MaxVote \in Nat \ {0}

\* CurrencyToVoteHandler::factor.
Factor(issuance) ==
  LET quotient == issuance \div MaxVote
  IN  IF quotient > 1 THEN quotient ELSE 1

\* A plausible bug: the balance is cast without the factor.
ToVoteUnscaled(x, issuance) == x % (MaxVote + 1)

\* A plausible bug: the quotient is rounded up.
ToVoteRoundedUp(x, issuance) ==
  ((x + Factor(issuance) - 1) \div Factor(issuance)) % (MaxVote + 1)

\* A plausible bug: the quotient is taken to fit.
ToVoteUncast(x, issuance) == x \div Factor(issuance)

\* Convert<Balance, u64>: `as u64` keeps the low bits of the quotient.
ToVote(x, issuance) == (x \div Factor(issuance)) % (MaxVote + 1)

\* Convert<u128, Balance>.
ToBalance(v, issuance) == v * Factor(issuance)

=============================================================================
