------------------------------- MODULE Economy -------------------------------
(***************************************************************************)
(* The currency of the runtime, node/runtime/src/lib.rs: who may create    *)
(* and destroy it, and what the staking election makes of it.  The         *)
(* balances, staking and transaction payment pallets are Substrate's; the  *)
(* runtime decides what becomes of fees, dust, slashes and rewards (all    *)
(* four handlers are `()`: the imbalance is dropped, and with it the       *)
(* issuance is corrected), how balances become votes (CurrencyToVote),     *)
(* what a transaction costs (Fees) and how it all begins (Genesis).        *)
(***************************************************************************)
EXTENDS Genesis, CurrencyToVote, Fees, FiniteSets

CONSTANTS
  ExistentialDeposit,  \* an account below it is reaped
  EndowedLists,        \* the endowed_accounts to start a chain with, each an Option
  Amounts,             \* the amounts transferred, rewarded and slashed
  Lengths, Weights,    \* of the transactions
  Multipliers,         \* the values of the congestion multiplier
  MaxIssuance,         \* bound on the issuance: no reward goes beyond it
  MaxOperations        \* bound on the operations

VARIABLES
  genesis,     \* the GenesisConfig the chain began with
  free,        \* the free balance of every account
  bonded,      \* its staking ledger, locked within the free balance
  issuance,    \* TotalIssuance
  multiplier,  \* NextFeeMultiplier
  era,         \* the last election: stakes, votes, winners, exposures
  charged,     \* the lengths of the transactions so far and their fees
  operations   \* how many operations there were

vars == <<genesis, free, bonded, issuance, multiplier, era, charged, operations>>

Genesises == {DevelopmentGenesis(endowed) : endowed \in EndowedLists}

Accounts == ToSet(DefaultEndowed)

ASSUME EconomyAssumption ==
  /\ ExistentialDeposit \in Nat
  /\ EndowedLists \subseteq Seq(Seq(Accounts)) /\ \A e \in EndowedLists : Len(e) <= 1
  /\ Amounts \subseteq Nat /\ Lengths \subseteq Nat /\ Weights \subseteq Nat
  /\ Multipliers \subseteq Nat /\ One \in Multipliers
  /\ MaxIssuance \in Nat /\ MaxOperations \in Nat

-----------------------------------------------------------------------------
(* Genesis *)

\* What the entries of a list say of an account: the last one stands.
Listed(entries, account) ==
  LET at == {i \in DOMAIN entries : entries[i].who = account}
  IN  IF at = {} THEN 0 ELSE entries[Max(at)].free

\* The genesis storage of the balances pallet: each entry overwrites, but all
\* of them count for the issuance.
GenesisFree(g)     == [a \in Accounts |-> Listed(g.balances, a)]
GenesisIssuance(g) == SumFunction([i \in DOMAIN g.balances |-> g.balances[i].free])

\* The staking pallet bonds every staker.
GenesisBonded(g) ==
  [a \in Accounts |-> IF \E i \in DOMAIN g.stakers : g.stakers[i].stash = a THEN STAKE ELSE 0]

\* The bound on the issuance leaves room for every genesis.
ASSUME IssuanceAssumption == \A g \in Genesises : GenesisIssuance(g) <= MaxIssuance

NoEra == [issuance |-> 0, stake |-> [a \in Accounts |-> 0], votes |-> [a \in Accounts |-> 0],
          winners |-> {}, exposure |-> [a \in Accounts |-> 0]]

Init ==
  /\ genesis \in Genesises
  /\ free = GenesisFree(genesis)
  /\ bonded = GenesisBonded(genesis)
  /\ issuance = GenesisIssuance(genesis)
  /\ multiplier = One
  /\ era = NoEra
  /\ charged = {}
  /\ operations = 0

-----------------------------------------------------------------------------
(* Balances *)

Operation  == operations < MaxOperations /\ operations' = operations + 1
Liquid(a)  == free[a] - bonded[a]

\* The balance an account is left with, and the dust that DustRemoval drops.
Settled(balance) == IF balance < ExistentialDeposit THEN 0 ELSE balance
Dust(balance)    == balance - Settled(balance)

\* A plausible bug: the fee goes to nobody and stays in the issuance.
ChargeLeaky(a, length, weight) ==
  LET fee == Fee(length, weight, multiplier)
  IN  /\ Operation
      /\ fee <= Liquid(a) /\ free[a] - fee >= ExistentialDeposit
      /\ free' = [free EXCEPT ![a] = @ - fee]
      /\ charged' = charged \cup {[length |-> length, fee |-> fee]}
      /\ UNCHANGED <<genesis, bonded, issuance, multiplier, era>>

\* ChargeTransactionPayment: the payer keeps its account and its locked funds;
\* OnTransactionPayment drops the fee.
Charge(a, length, weight) ==
  LET fee == Fee(length, weight, multiplier)
  IN  /\ Operation
      /\ fee <= Liquid(a) /\ free[a] - fee >= ExistentialDeposit
      /\ free' = [free EXCEPT ![a] = @ - fee]
      /\ issuance' = issuance - fee
      /\ charged' = charged \cup {[length |-> length, fee |-> fee]}
      /\ UNCHANGED <<genesis, bonded, multiplier, era>>

\* transfer: neither account may end up below the deposit, except that a sender
\* that has nothing bonded may be reaped.
Transfer(a, b, amount) ==
  LET rest == free[a] - amount
  IN  /\ Operation
      /\ a # b /\ amount <= Liquid(a)
      /\ free[b] + amount >= ExistentialDeposit
      /\ rest >= ExistentialDeposit \/ bonded[a] = 0
      /\ free' = [free EXCEPT ![a] = Settled(rest), ![b] = @ + amount]
      /\ issuance' = issuance - Dust(rest)
      /\ UNCHANGED <<genesis, bonded, multiplier, era, charged>>

\* on_finalize: the multiplier follows the fullness of the block.
AdjustMultiplier(m) ==
  /\ Operation
  /\ multiplier' = m
  /\ UNCHANGED <<genesis, free, bonded, issuance, era, charged>>

-----------------------------------------------------------------------------
(* Staking *)

\* bond, bond_extra, or the end of an unbonding.
Bond(a, amount) ==
  /\ Operation
  /\ amount # bonded[a] /\ amount \in {0} \cup ExistentialDeposit .. free[a]
  /\ bonded' = [bonded EXCEPT ![a] = amount]
  /\ UNCHANGED <<genesis, free, issuance, multiplier, era, charged>>

\* payout_stakers: Reward is `()`, so rewards are minted; the part of the
\* inflation that nobody earns is issued to RewardRemainder and dropped there.
Reward(a, amount) ==
  /\ Operation
  /\ bonded[a] > 0
  /\ issuance + amount <= MaxIssuance
  /\ free' = [free EXCEPT ![a] = @ + amount]
  /\ issuance' = issuance + amount
  /\ UNCHANGED <<genesis, bonded, multiplier, era, charged>>

\* A slash takes at most the exposure of a validator that is not invulnerable;
\* what is left of a ledger below the deposit goes too.  Reporters are paid from
\* it, Slash drops the others' part.
SlashValidator(a, amount, reporter, paid) ==
  LET most  == Min({amount, era.exposure[a], bonded[a]})
      slash == IF bonded[a] - most <= ExistentialDeposit THEN bonded[a] ELSE most
      rest  == free[a] - slash
  IN  /\ Operation
      /\ a \in era.winners \ genesis.invulnerables
      /\ most > 0 /\ reporter # a /\ free[reporter] > 0 /\ paid <= slash
      /\ free' = [free EXCEPT ![a] = Settled(rest), ![reporter] = @ + paid]
      /\ bonded' = [bonded EXCEPT ![a] = @ - slash]
      /\ issuance' = issuance - (slash - paid) - Dust(rest)
      /\ UNCHANGED <<genesis, multiplier, era, charged>>

\* The election: stakes become votes, the validatorCount candidates with the
\* most votes win, unless there are fewer than minimumValidatorCount, and their
\* votes become exposures.  Every conversion reads the issuance anew, but all of
\* them belong to one call of the staking pallet, which mints and burns nothing
\* in between.
Elect(winners) ==
  LET candidates == {a \in Accounts : bonded[a] > 0}
      votes      == [a \in Accounts |-> ToVote(bonded[a], issuance)]
  IN  /\ Operation
      /\ Cardinality(candidates) >= genesis.minimumValidatorCount
      /\ winners \subseteq candidates
      /\ Cardinality(winners) = Min({genesis.validatorCount, Cardinality(candidates)})
      /\ \A w \in winners, l \in candidates \ winners : votes[w] >= votes[l]
      /\ era' = [issuance |-> issuance, stake |-> bonded, votes |-> votes, winners |-> winners,
                 exposure |-> [a \in Accounts |-> IF a \in winners
                                                  THEN ToBalance(votes[a], issuance) ELSE 0]]
      /\ UNCHANGED <<genesis, free, bonded, issuance, multiplier, charged>>

Next ==
  \/ \E a \in Accounts, length \in Lengths, weight \in Weights : Charge(a, length, weight)
  \/ \E a, b \in Accounts, amount \in Amounts : Transfer(a, b, amount)
  \/ \E m \in Multipliers : AdjustMultiplier(m)
  \/ \E a \in Accounts : \E amount \in {0} \cup Amounts \cup {free[a]} : Bond(a, amount)
  \/ \E a \in Accounts, amount \in Amounts : Reward(a, amount)
  \/ \E a, reporter \in Accounts, amount \in Amounts, paid \in {0, 1} :
        SlashValidator(a, amount, reporter, paid)
  \/ \E winners \in SUBSET Accounts : Elect(winners)

Spec == Init /\ [][Next]_vars

-----------------------------------------------------------------------------
(* Properties *)

\* A stake is a majority of the whole issuance.
Majority(stake, total) == 2 * stake > total

\* Every variable has its type.
TypeOK ==
  /\ genesis \in Genesises
  /\ free \in [Accounts -> Nat] /\ bonded \in [Accounts -> Nat]
  /\ issuance \in 0 .. MaxIssuance
  /\ multiplier \in Multipliers
  /\ era.stake \in [Accounts -> Nat] /\ era.votes \in [Accounts -> 0 .. MaxVote]
  /\ era.exposure \in [Accounts -> Nat] /\ era.winners \subseteq Accounts
  /\ charged \subseteq [length : Lengths, fee : Nat]
  /\ operations \in 0 .. MaxOperations

\* Fees, dust and slashes are destroyed and rewards created in the issuance as
\* they are in the accounts: the two never drift apart.  They differ by what
\* the genesis counts without giving it to anybody, the endowment of a stash
\* that is listed a second time with its stake.
IssuanceAccounted ==
  issuance - SumFunction(free) = GenesisIssuance(genesis) - SumFunction(GenesisFree(genesis))

\* No account has more at stake than it owns, from the genesis on and whatever
\* is paid, transferred or slashed: a slash of the stake is always covered.
StakeBacked == \A a \in Accounts : bonded[a] <= free[a]

\* A validator's exposure never exceeds its stake and falls short of it by less
\* than the factor, unless it holds a majority of the issuance: only then can
\* the cast to u64 drop the high bits of its votes.
ExposureFaithful ==
  \A a \in era.winners :
    /\ era.exposure[a] <= era.stake[a]
    /\ ~Majority(era.stake[a], era.issuance) =>
         era.stake[a] - era.exposure[a] < Factor(era.issuance)

\* Nobody is elected in place of a candidate with more at stake, but for the
\* rounding of the votes and for the cast of a majority stake.
ElectedByStake ==
  \A w \in era.winners, l \in Accounts \ era.winners :
    Majority(era.stake[l], era.issuance) \/ era.stake[l] - era.stake[w] < Factor(era.issuance)

\* The coefficient of the weight rounds to zero, so what a transaction costs is
\* a matter of its length alone: neither the weight of its call nor a full chain
\* (the multiplier) ever changes the fee.
FlatFee == \A c, d \in charged : c.length = d.length => c.fee = d.fee

=============================================================================
