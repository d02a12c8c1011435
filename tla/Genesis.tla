------------------------------- MODULE Genesis -------------------------------
(***************************************************************************)
(* testnet_genesis, node/cli/src/chain_spec.rs: the first state of a chain *)
(* that is not read from a file.  An account is named by the seed and the  *)
(* path it is derived from.                                                *)
(***************************************************************************)
EXTENDS Integers, SequencesExt

CONSTANTS
  ENDOWMENT, STAKE,    \* the constants of testnet_genesis
  Seeds                \* the seeds of the accounts endowed by default

ASSUME GenesisAssumption ==
  /\ ENDOWMENT \in Nat /\ STAKE \in Nat
  /\ Seeds \in Seq(STRING) /\ Len(Seeds) > 0

\* get_account_id_from_seed.
AccountId(seed) == <<seed>>
Stash(seed)     == <<seed, "stash">>

\* authority_keys_from_seed; the four session keys share the seed.
AuthorityKeysFromSeed(seed) ==
  [stash |-> Stash(seed), controller |-> AccountId(seed), keys |-> seed]

\* The accounts endowed when none are given: every seed's and its stash.
DefaultEndowed ==
  [i \in DOMAIN Seeds |-> AccountId(Seeds[i])] \o [i \in DOMAIN Seeds |-> Stash(Seeds[i])]

Entries(accounts, amount) == [i \in DOMAIN accounts |-> [who |-> accounts[i], free |-> amount]]
Stashes(authorities)      == [i \in DOMAIN authorities |-> authorities[i].stash]

\* A plausible bug: the stashes are not given their stake.
BalancesEndowedOnly(authorities, endowed) == Entries(endowed, ENDOWMENT)

\* The balances: the endowed accounts, then the stashes, which may be listed
\* already.
Balances(authorities, endowed) ==
  Entries(endowed, ENDOWMENT) \o Entries(Stashes(authorities), STAKE)

\* testnet_genesis.  endowed is an Option: << >> is None, <<list>> is Some(list),
\* also of an empty list.  The pallets that are left empty are left out.
TestnetGenesis(authorities, rootKey, endowed) ==
  [balances              |-> Balances(authorities,
                                      IF endowed = << >> THEN DefaultEndowed ELSE endowed[1]),
   sessionKeys           |-> [i \in DOMAIN authorities |->
                                [who |-> authorities[i].stash, keys |-> authorities[i].keys]],
   validatorCount        |-> Len(authorities) * 2,
   minimumValidatorCount |-> Len(authorities),
   stakers               |-> [i \in DOMAIN authorities |->
                                [stash |-> authorities[i].stash, bonded |-> STAKE]],
   invulnerables         |-> ToSet(Stashes(authorities)),
   sudo                  |-> rootKey]

\* development_config_genesis: one authority, Alice, the first seed.  It endows
\* the default accounts.
DevelopmentGenesis(endowed) ==
  TestnetGenesis(<<AuthorityKeysFromSeed(Seeds[1])>>, AccountId(Seeds[1]), endowed)

=============================================================================
