# A TLA+ model of the IPCI node

This directory holds TLA+ modules that model the parts of this repository whose
behaviour is its own (rather than Substrate's), TLC configurations that check
them on small instances, and TLAPS proofs for every instance. Line numbers
refer to the Rust sources; `PROJECT.json` maps each definition to the lines it
models.

## 1. Inventory

The repository is a Substrate 2.0 node. Most of the system is external (FRAME
pallets, networking, consensus); its own code wires those parts together and
adds one pallet.

| component | source | state | operations | what makes it correct |
|---|---|---|---|---|
| datalog pallet | `pallets/datalog/src/lib.rs` | per account: ring pointers, items by slot, log of the previous version | `record`, `erase`, query `data` | `data` is a bounded log of the newest records in order; storage neither loses nor leaks; old and new format never coexist |
| datalog weights | `pallets/datalog/src/default_weight.rs` | none | `record()`, `erase(win)` | every database access of a call is paid for |
| node service | `node/cli/src/service.rs` | task manager, network, RPC handlers | `new_partial`, `new_full_base`, `new_light_base` | no event is missed, failures stop everything they must and nothing else, the tasks that sign have the keystore on validators and nowhere else |
| command line | `node/cli/src/command.rs`, `cli.rs`, `browser.rs` | configuration | one subcommand per run | builds the right service and ends it |
| RPC extensions | `node/rpc/src/lib.rs` | none | `create_full`, `create_light` | served while the service runs |
| signed transactions | `node/runtime/src/lib.rs` | nonce, block hashes, spec version (external storage) | `create_transaction`, the checks of `SignedExtra` | signable whenever the keystore signs, executed at most once, in time, on one fork, by one runtime |
| runtime configuration | `node/runtime/src/lib.rs`, `constants.rs` | constants; the balances, ledgers and fees they govern (external storage) | what becomes of fees, dust, slashes and rewards; the fee polynomial | the issuance follows the accounts; a fee depends on what it is meant to depend on |
| currency to vote | `node/runtime/src/impls.rs` | total issuance (external) | two conversions, used by every election | no exposure exceeds the stake behind it, votes rank stakes |
| inspect | `node/inspect/src` | none (offline database) | parse an address, look a block or an extrinsic up | finds what was named or says it did not |
| chain specification | `node/cli/src/chain_spec.rs`, `res/ipci.json` | genesis | `testnet_genesis` | balances, stakers and keys agree |
| executor, primitives, build scripts | `node/executor`, `node/primitives`, `build.rs` | none | none | types only |

Interactions. The command line builds a service; building it spawns tasks that
run while later steps are still executed; `spawn_tasks` starts RPC with the
extensions of `node/rpc`; blocks the node builds or imports run the runtime,
whose datalog pallet reads the clock of the timestamp pallet; offchain workers
call `create_transaction`, and the result comes back through gossip to whoever
builds a block, which feeds the datalog. The genesis of `chain_spec.rs` gives
accounts their balances and stakes; fees, transfers, rewards and slashes move
them, and every election turns stakes into votes and back with a factor that
follows the issuance of that moment. `inspect` reads, offline, the database a
node left behind.

Hard behaviour. The ring buffer after several wrap-arounds and erases; weights
that are charged before the work is known; tasks running during start-up and
failures half-way through it; essential tasks that end before anybody watches;
eras against the window of known block hashes, with forks, upgrades and late or
repeated delivery; a ring buffer whose window size changes under it; votes that
do not fit their integer; an issuance corrected by every step that creates or
destroys currency; block numbers and hashes after a reorganisation. The
complete list, with lines, is `hazards` in
`PROJECT.json`.

## 2. Modules

| module | models | state and actions |
|---|---|---|
| `RingBufferIndex` | `RingBufferIndex`, `RingBufferIterator` | pure operators on a record `[start, end]` |
| `Datalog` | the pallet and its weights | `datalog`, `datalogidx`, `datalogitem` are the storage maps, partial functions by slot; `dispatch` is the outcome of the last call with its database accesses; actions `record`, `erase`, `SetTimestamp` |
| `BoundedLog` | what the pallet promises | a log per account, the clock and the outcome of the last call; actions `Write`, `Erase`, `Refuse`, `Tick` |
| `RingBufferIndexProofs` | what the pointers do, for every window | lemmas used by the three proofs below that are about the pallet |
| `DatalogProofs`, `DatalogUpgradeProofs`, `DatalogOnChainProofs` | proofs about the pallet: its calls, upgrades, a chain | |
| `NodeService` | `service.rs`, `command.rs`, `browser.rs`, `rpc` | `pc` walks through the start-up steps; `tasks`, `exit`, `essentialFailed` are the task manager; one action per step, per kind of task event and per reaction of the runner |
| `SignedTransaction` | `create_transaction`, `SignedExtra` | `chain` with forks and upgrades, `pool` of everything signed; actions `Sign`, `NewBlock`, `Reorganise` |
| `DatalogUpgrade` | the pallet across runtime upgrades | the pallet's calls for one account and `Upgrade`, which changes `window` and nothing else; `log` is what a reader expects |
| `DatalogOnChain` | the pallet fed by signed transactions | composes `SignedTransaction` with the pallet's storage, one storage per block; actions `SignCall`, `ExecuteBlock`, `SwitchBranch` |
| `Inspect` | `node/inspect` | `blocks`, `bodies`, `best` are the database; the node's actions `ImportBlock` and `PruneBody` fill it, then `Run` or `RunFails` is the command |
| `CurrencyToVote` | `impls.rs` | pure operators |
| `Fees` | `WeightToFee`, the fee parameters | pure operators |
| `Genesis` | `testnet_genesis` | pure operators |
| `Economy` | the currency under this runtime's configuration, from the genesis on | `free`, `bonded`, `issuance`, `multiplier`, `era`, `charged`; one action per operation that changes them |
| `NodeServiceProofs`, `SignedTransactionProofs`, `InspectProofs`, `EconomyProofs` | proofs about the others; `EconomyProofs` includes those about `CurrencyToVote` and `Fees` | |
| `MCDatalog`, `MCNodeService`, `MCSignedTransaction`, `MCInspect`, `MCEconomy` | constants for TLC; the other runs need a configuration file only | |

Definitions whose comment starts with "A plausible bug" are mutated forms of
the definition after them; they are used by no specification and exist to show
that each property can fail.

Correspondence worth knowing:

* `record` checks the size before the origin and both before the first write,
  as the code does: this version of FRAME does not roll back a failed call.
  A record's size is its `size_hint`, four more than its length, so with a
  `MaximumMessageSize` of 512 the longest record has 508 bytes.
* `IndexIter` is a closed form of the iterator. `DrainAgrees` compares it with
  `IteratorNext` called again and again on its own pointers (`IteratorYields`).
* `NodeService` keeps every `?` of the three constructors as a possible failure
  (`StartupFails`) and every conditional task. External code is modelled by
  what `service.rs` relies on: dropping the task manager raises the exit signal,
  the end of an essential task is queued for the runner, the network worker is
  idle until `start_network`. The two block-import pipelines are one step
  because they neither spawn nor publish anything.
* `keys` is who was handed the keystore. `spawn_tasks` gets it on every node, for
  the author RPC, and so does the BABE RPC handler of a full node; the BABE,
  discovery and GRANDPA tasks get it on an authority only, and the property
  `SignersHoldKeys` is about these three.
* After a failed start-up the exit signal is raised, the tasks stop and the
  process ends (`Exit`) like after an interrupt.
* An essential task's end is watched by `run_node_until_exit` only. For
  `build-sync-spec`, which hands its task manager to `async_run`, no claim is
  made.
* A block's hash in `SignedTransaction` is its height and branch. `SignedExtra`
  is reduced to the extensions whose verdict depends on the chain; genesis
  hash, transaction version, weight and payment are left out.
* `create_transaction` returns `None` on two paths, and `refused` tells them
  apart: the payload cannot be built because the hash of the era's birth is
  unknown, or the keystore does not sign. The second can happen at any time.
* `DatalogOnChain` builds a block from at most one transaction; its storage is
  that of its parent changed by the call, so a reorganisation goes back to the
  storage of the common ancestor. Two transactions of one block are two blocks
  here.
* With pointers that do not fit a window the iterator can step over `end` and
  then does not stop: `IndexEndless` says when. `erase` is a step only if it
  stops. `DrainAgrees` is also about `IndexEndless`, with the pointers that one
  window leaves to another.
* The canonical chain of `Inspect` is the least set of blocks that holds the best
  one and every block's parent, which needs no recursion.
* `DataIsOnChain` says of every item of `data()` which block recorded it and how
  many newer records there are, instead of building the expected sequence.
* A text given to `inspect` is the sequence of its pieces between the separators
  `.` and `:`; a piece is a form and a value, and the form says which of
  the library's parsers accept it. The order of the parsers, and which error
  comes first, are the code's. The code also splits at a blank, but a hex parser
  may skip blanks, so that a text with one can be a single address: such texts are
  left out. The pretty printer is layout and left out. Body and header of a block
  are read in one step, since the command holds the lock of the database.
* In `Economy` the balances, staking and transaction-payment pallets are
  external: the model keeps of them what this runtime's configuration decides.
  All four imbalance handlers (`DustRemoval`, `OnTransactionPayment`, `Slash`,
  `Reward`) are `()`, so what they receive leaves the issuance, or enters it for
  rewards. The genesis of the balances pallet writes each entry over the one
  before but counts all of them for the issuance. An account is a seed and a
  derivation path, and the `Option` of endowed accounts is a sequence of at most one
  list, so that `None` and an empty list differ. An election converts votes and
  exposures with one issuance: the code reads it at every conversion, but all of
  them belong to one call of the staking pallet. `Author`, the fee handler in `impls.rs`, is used by no pallet
  and not part of the model.
* The numbers of `Economy` are scaled down, since the real ones exceed the
  integers of TLC; the assumptions of `Fees` and `CurrencyToVote` name the
  relations between them that matter, and the proofs hold for all numbers that
  satisfy them. The development chain, with an issuance of 1.205 * 10^20, has a
  factor of 6; the IPCI chain, with 1.96 * 10^18, has a factor of 1.

## 3. Runs

| run | instance | shows |
|---|---|---|
| `datalog` | 2 accounts, 3 slots, longest and too long record, 3 moments | the pallet's invariants and that it implements `BoundedLog` |
| `datalog_erase_leftover` | the same | a violation: `erase` leaves the record evicted last (see findings) |
| `node_service` | 4 commands, 4 roles, offchain workers and GRANDPA on and off | start-up, failures, shutdown, who has the keystore; two liveness properties; a light node misses network events only between its network start and the end of its start-up |
| `signed_transaction` | `BlockHashCount` 5 (era of 4 blocks), 9 blocks, 1 reorganisation, 1 upgrade, 2 transactions | signing with and without a key, eras, nonces, forks and upgrades |
| `datalog_upgrade` | windows of 2, 3 and 5 slots, 9 records, 2 upgrades | which upgrades keep `data()` exact, that only a lowered window makes the iterator endless, that no slot joins those that are read unwritten, and that the closed form of the iterator agrees with the iterator |
| `datalog_on_chain` | window of 3, `BlockHashCount` 5, 5 blocks, 3 transactions, 1 reorganisation | `data()` is what the best chain executed, each record once and in nonce order |
| `inspect` | 4 blocks with up to 1 extrinsic, some 180 texts | what is printed is what was named, and "not found" is true |
| `inspect_tail` | the same | a violation: something after the index is accepted (see findings) |
| `economy` | 4 accounts, 3 genesis lists, 5 operations, votes up to 7, issuance up to 22 | issuance, stakes, votes, elections and fees |

Bounds. Three slots are the smallest window in which a wrapped window has more
than one item and starts neither at 0 nor right after the newest slot's
neighbour; the pointers of an account cycle through all their values and an
erase can happen at each. Two accounts are needed for isolation; a third is
handled like the second. Moments 0 to 2 give every item of a window its own
moment. `BlockHashCount = 5` puts the period (4) below the window and its double
(8) above it, as 2400 does with 2048 and 4096, and nine blocks let two eras of
equal phase follow each other and hashes fall out of the window.

The windows 2, 3 and 5 can be raised and lowered, by one slot and by more, and
nine records wrap the largest of them twice. Four blocks are the fewest in which
a branch overtakes the one it left. Five blocks and three transactions fill a
window of three, erase it, and execute a transaction again on the branch that
replaces its own. In `economy` a vote of at most 7 with an issuance of up to 22
gives the factors 1, 2 and 3, and within five operations a stake is cast, an
election ranks by a truncated vote, dust is removed and a validator is slashed;
a genesis with and without the stash among the endowed accounts, and one that
endows nobody, are tried.

Deadlock is checked for the datalog, where `erase` is always possible. The
other systems may stop: a node exits, `inspect` runs once, an endless `erase`
leaves an account without a next step, and the bounded chains and operations
run out.

Fairness (`NodeService`). The start-up thread and the runner are ordinary code
that keeps running, and the executor polls every task whose exit signal was
raised: weak fairness for these. Errors, task ends, network events and signals
are never forced to happen. No other module states fairness.

## 4. Findings

`datalog_erase_leftover`: after a wrap-around the slot that separates the
newest from the oldest record still holds the record evicted last. `erase`
iterates over the window only, so this item survives the call that is
documented as "Clear account's datalog". `StaleAtMostOne` shows the damage is
bounded: one record per account, overwritten when the ring reaches that slot
again, and never returned by `data`.

`inspect_tail`: the help text gives the address of an extrinsic as
"`{block}:{index}`", but `ExtrinsicAddress::from_str` takes the first two pieces
of the split and never looks at the others, so a text with more is accepted.

Noted while reading, without a run: the comment at `node/runtime/src/lib.rs:350`
("10 minutes per session => 100 block") and the one at line 125 ("6 second
average block time") predate the block time of 3 seconds; `pallet_finality_tracker` is configured but not part of `construct_runtime!`.

Shown by passing runs, as facts rather than as disagreements with a text:
`testnet_genesis` lists the stash twice when it is also endowed, so the issuance
of the development chain exceeds its accounts by one endowment for good
(`IssuanceAccounted`), while its stake is covered (`StakeBacked`); the coefficient
of the weight fee rounds to zero (`FlatFee`); an upgrade that lowers the window
size can leave an account that can neither be read nor erased
(`EndlessOnlyIfLowered` says that nothing else can).

## 5. Proofs

All theorems are about the specifications that TLC runs, for every value of the
constants that the named assumptions allow. An assumption that bounds a counter
(`BoundsAssumption`) only says that the bound is a number.

### The pallet

`RingBufferIndexProofs` states once, for every window size, what `add` does to
pointers in the window. `TypeOK` alone allows a window that starts in the middle
of the ring although slots before it were never written; from such a state `add`
would make an unwritten slot live, or leave two evicted records outside the
window. `Shape` excludes it: a window starts at slot 0, or right after its end,
in which case it is full. `add` keeps it (`RingShape`), and `RingStep` says which
slots the window has afterwards. From it follows `RingRead`: reading the window
after `record` equals appending to what was read before and dropping the oldest
item of a full window. The three proofs below use one or the other.

`DatalogProofs` proves, for every window size of at least 1, every set of
accounts and records and every clock bound (assumptions `WindowAssumption`,
`ClockAssumption`, `RecordAssumption`, `OldAssumption` of `Datalog`):

* `TypeCorrect`: `TypeOK`, with `IndexShape`;
* `StorageExact`, `LeftoverBounded`: `LiveSlotsFilled` and `StaleAtMostOne`;
* `OldOrNew`: `OldXorNew`;
* `WeightsSuffice`: `WeightCoversDb`;
* `Refinement`: `Spec => ImplementsBoundedLog`;
* `OrderedLog`: `MomentsOrdered`.

`AddLive` says that `add` either keeps all live slots or leaves a single slot
outside the window, which gives `StorageExact`. The refinement rests on
`StoreRead`, that is on `RingRead`. Ordering then follows from the abstract step,
without looking at slots again.

`DatalogUpgradeProofs` proves, for every set of positive window sizes:

* `TypeCorrect`: `TypeOK`, by which pointers leave the window only after it was
  lowered;
* `FitIsSafe`: `FitKeepsLog`;
* `StuckOnlyIfLowered`: `EndlessOnlyIfLowered`;
* `DrainIsIter`: `DrainAgrees`;
* `HolesOnlyHeal`: the action property `HolesHeal`.

The invariant adds `Fitted` to the types: while every upgrade met pointers that
fit, they have the shape that records alone give them and `data()` is the log. An
upgrade that fits reads the same slots (`FitsReadsSame`), so `RingRead` goes on
with the new window. `HolesHeal` needs no shape: `add` makes at most the slot live
that it writes (`RingLive`).

`DrainIsIter` justifies `IndexIter` and `IndexEndless`, on which all proofs about
`data()` and `erase` rest, by the iterator of the code. What it holds after k
calls, `IteratorAfter`, is a recursive function, which is to the provers some
function that satisfies its equation. `RunsToExists` builds one from the finite
runs and `RunsToUnique` shows that there is no other, so `IteratorSteps` may use
the equation. Counting up the calls then shows that an iterator which can reach
`end` yields the slots of `IndexIter` in turn and then `None` (`IteratorDrains`), and that one which cannot never returns `None`
(`IteratorNeverEnds`). The inductions go over a set of naturals (`CountUp`, from
the library's theorem on minimal elements), which needs no operator parameter.

`DatalogOnChainProofs` proves, for every window size and under the assumptions
of `SignedTransaction`:

* `DataFollowsChain`: `DataIsOnChain`;
* `DataByNonce`: `DataInNonceOrder`;
* `TypeCorrectOnChain`: `TypeOKOnChain`;
* `ImplementsSignedTransaction`: `SpecOnChain => Spec`;
* `SafeOnChain`: `NoReplay`, `AppliedInEraOnFork` and `SameRuntime` of the
  composition.

The invariant must speak of every block, not only of the best one, since a
reorganisation goes back to the storage of any of them: `EachHolds` says that the
storage after block n holds the newest records executed up to n, the k-th of them
with exactly as many newer ones as there are places after it. It depends on the
chain up to n only (`RecordsKept`, `HeldKept`), so branches keep it; a new block
keeps it because a record makes all others one place older (`NewerStep`,
`RecordedHeld`). The order of the nonces then follows from the order of the
blocks and from the invariant of `SignedTransaction`. That the composition takes
steps of `SignedTransaction` only is `ImplementsSignedTransaction`, so what is
proved there holds for record and erase calls.

### Signed transactions

`SignedTransactionProofs` proves, for every `BlockHashCount` from 2 to 65536
(`BlockHashCountAssumption`; with more, the period would not grow any further),
every length of the chain and any number of forks, upgrades and transactions:

* `PayloadIsBuilt`: `PayloadAlwaysBuilt`, so that a `None` of `create_transaction`
  can only come from the keystore;
* `NoReplays`: `NoReplay`;
* `InEraOnFork`: `AppliedInEraOnFork`;
* `OneRuntime`: `SameRuntime`;
* `AliveApplies`: `AliveIsApplicable`;
* `TypeCorrect`: `TypeOK`.

Eras are arithmetic: a phase is a multiple of the quantisation factor, the birth
that `EraBirth` finds from any later block of the era is the block it was signed
for (`BirthWithin`), and it is less than one period back (`BirthRecent`); the
period is at most `BlockHashCount + 2` (`PeriodBounds`), so the hash is known.
The invariant adds `BornInPhase`, that a signed birth lies at its phase, and
`NonceCounts`, that an executed nonce is the number of transactions before it:
from it follows `NoReplay`, and from that in turn that nonces stay within the
number of transactions signed, as `TypeOK` claims. What the invariant says of a
block (`Sound`) depends on the chain up to that block, so a reorganisation keeps
it.

### The node service

`NodeServiceProofs` proves, for every set of configurations (`ConfigsAssumption`:
their fields have the values of the command line):

* `FullNodeMissesNothing`: `NoEventMissed`;
* `MissesOnlyAtStart`: the action property `MissedOnlyWhileStarting`;
* `KeysStayWithAuthorities`: `SignersHoldKeys`;
* `OnlyConsensusTakesDown`: `TakenDownByConsensus`;
* `TypeCorrect`: `TypeOK`.

The invariant says what holds by the position of the start-up: which listeners
have been spawned once it is past their step (`ListenersSpawned`), that no
consensus task exists before its step or without its configuration
(`ConsensusAbsent`), that the network is idle before `start_network`
(`NetworkStarted`), that a queued failure is that of an essential task that ended
(`FailureIsReal`), and what each outcome implies for the exit signal (`Phases`).
The order of the steps in the three constructors is thus what the theorems rest
on.

### Inspect

`InspectProofs` proves, for any number of blocks and extrinsics and every set of
texts (`TextsAssumption`: a text has pieces of the known forms):

* `BlockIsTheNamed`: `PrintsTheNamedBlock`;
* `ExtrinsicIsTheNamed`: `PrintsTheNamedExtrinsic`;
* `NotFoundIsTruth`: `NotFoundIsTrue`;
* `TypeCorrect`: `TypeOK`.

A block number names one block because the canonical chain has one block per
number (`OnePerNumber`). Every canonical block but the best one has a canonical
child (`HasChild`), or the chain without it would be a smaller set with the best
block and all parents; so the blocks that are alone at their number include the
best one and the parent of each of them, and are the whole chain. The database
invariant `Chained` gives every block but the genesis block a parent with the
number before. The rest is a case
analysis of the parsers, in the order in which the code tries them.

### The economy

`EconomyProofs` proves of `CurrencyToVote`, for every issuance, stake and positive
`MaxVote`, that the cast drops nothing of a stake that is not a majority of the
issuance (`MinorityUncast`: the factor is the rounded-down quotient of the
issuance and `MaxVote`, so half of the issuance has at most `MaxVote` votes),
that votes turned back never exceed the stake and lose less than the factor
(`RoundTrip`), and that they rank stakes up to the factor (`RankKept`).

It proves of `Economy`, for every list of seeds and endowed accounts, every
existential deposit and all amounts, lengths, weights and multipliers:

* `StakeIsBacked`: `StakeBacked`;
* `ExposureIsFaithful`: `ExposureFaithful`;
* `ElectionByStake`: `ElectedByStake`;
* `FeeIsFlat`: `FlatFee`;
* `IssuanceIsAccounted`: `IssuanceAccounted`;
* `IssuanceExact`: if the genesis endows no account twice, the issuance is what the
  accounts hold plus one endowment if the stash is endowed too, and nothing else;
* `IssuanceCoversAccounts`: the accounts hold at least zero and at most the issuance;
* `TypeCorrect`: `TypeOK`.

The invariant `IInv` joins the types, these properties, and `FeesByLength`, which
is stronger than `FlatFee`: each fee equals the byte fee times the length.
A free balance is only known to be an integer in `Typed`; that it covers the
stake is the invariant itself, and a step that settles an account below the
deposit keeps it because what is then at stake is zero. At the genesis the entry
of the stash is the last of the list (`BalancesShape`) and therefore the one that
stands (`Greatest`). `FeesAssumption` states the one inequality between the
constants on which the fee theorem rests. `IssuanceAssumption` says that the bound
`MaxIssuance` leaves room for every genesis.

`IssuanceAccounted` is proved step by step: an operation changes the issuance by
what it changes in at most two accounts (`Follows`). That follows from the types,
with `Settled` and its dust accounted in one equation (`NextFollows`).

The sums of the community modules are folds that pick the elements in an order
nobody knows. The section "Sums over finite sets" shows that this does not
matter. A sum is a solution of the equation of that fold; there is one for every
finite set (`SumExists`, by the number of elements) and only one (`SumUnique`);
taking any element first gives the same (`SumSplit`, by induction over subsets).
From it follow that functions which agree have one sum (`SumAgrees`), what
changing one element does (`SumChanges`) and that larger functions have larger
sums (`SumGrows`). Again each induction goes over a set in place of a predicate.

`FollowsSum` then turns such a step into one of the sums, which
gives `IssuanceAccounted`. The genesis counts every entry and an account owns
what one of its entries says (`ListedOnce`), so it issues at least what it gives
(`GenesisCovers`), and exactly the overwritten endowment more (`GenesisGap`).
With `StakeBacked` no balance is negative, so the issuance is not either:
`IssuanceCoversAccounts`, and with the bounds of the other variables (`Ranges`)
`TypeCorrect`.

### Only model-checked

* `EssentialFailureStops` and `FailedStartStopsTasks`: liveness under fairness.
* `EraseClears` and `NothingAfterIndex` are violated (section 4).

Every invariant and every action property of a passing run is a theorem.

## 6. Not modelled

The consensus, networking, storage and pallets of Substrate; what the tasks of
a node compute; key, signature, benchmark, build-spec and purge subcommands;
`load_spec`, which picks one of two constants or a file; `ipci.json`, which is
data; the configuration of the session, BABE, GRANDPA, identity, multisig and
offences pallets, which passes constants and types to external code; the runtime
API, which forwards to external pallets; `node/executor` and `node/primitives`,
which are type definitions; build scripts; wording of messages and log output.
Events are represented by the result of a call. In `Economy`, nominators,
reserved balances, unbonding periods and the sizes of rewards are left out: a
bond ends in one step and any listed amount is paid. Tips and calls that pay no fee
are left out of `Fees`.

## 7. Plan

1. `Datalog`, `NodeService`, `SignedTransaction` and the proofs of `Datalog`:
   done.
2. `CurrencyToVote`, `Fees`, `Genesis` and `Economy`, with proofs; `Inspect`;
   `DatalogUpgrade`; `DatalogOnChain`: done.
3. Proofs of the safety properties of `SignedTransaction`, `NodeService`,
   `Inspect`, `DatalogUpgrade` and `DatalogOnChain`: done.
4. The sum over all accounts, the iterator of the code against its closed form, and
   the composition as a refinement of `SignedTransaction`: done.
