--------------------------------- MODULE Fees ---------------------------------
(***************************************************************************)
(* What a transaction costs: WeightToFee and the parameters of the         *)
(* transaction payment pallet, node/runtime/src/lib.rs.  The pallet        *)
(* evaluates the polynomial and adds the parts up.                         *)
(***************************************************************************)
EXTENDS Integers

CONSTANTS
  U_MITO, MITO,           \* the units of node/runtime/src/constants.rs
  ExtrinsicBaseWeight,    \* the weight of an empty extrinsic
  Billion,                \* the parts of a Perbill
  One                     \* the multiplier that leaves a fee as it is

ASSUME FeesAssumption ==
  /\ U_MITO \in Nat \ {0} /\ MITO \in Nat \ {0}
  /\ ExtrinsicBaseWeight \in Nat \ {0}
  /\ Billion \in Nat \ {0} /\ One \in Nat \ {0}
  /\ U_MITO * Billion < MITO * ExtrinsicBaseWeight   \* 10^15 < 1.25 * 10^20

TransactionByteFee == 1 * U_MITO

\* Perbill::from_rational_approximation: the parts in a billion, rounded down.
FromRational(p, q) == (p * Billion) \div q

\* A plausible bug: one MITO per weight unit instead of one per base weight.
PolynomialPerUnit ==
  [coeffFrac |-> FromRational(U_MITO % MITO, MITO), coeffInteger |-> U_MITO \div MITO]

\* WeightToFee::polynomial, its one coefficient, of degree 1.
Polynomial ==
  LET p == U_MITO
      q == MITO * ExtrinsicBaseWeight
  IN  [coeffFrac |-> FromRational(p % q, q), coeffInteger |-> p \div q]

\* WeightToFeePolynomial::calc.
WeightFee(weight) ==
  weight * Polynomial.coeffInteger + (weight * Polynomial.coeffFrac) \div Billion

\* Module::compute_fee without a tip: the base fee, the length fee and the
\* weight fee; only the last follows the multiplier.
Fee(length, weight, multiplier) ==
  WeightFee(ExtrinsicBaseWeight) + TransactionByteFee * length
    + (multiplier * WeightFee(weight)) \div One

=============================================================================
