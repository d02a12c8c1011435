-------------------------- MODULE SignedTransaction --------------------------
(***************************************************************************)
(* Transactions the node signs itself: create_transaction and SignedExtra, *)
(* node/runtime/src/lib.rs.  A transaction carries a mortal era; what is   *)
(* signed includes the hash of the block the era was born in, the nonce    *)
(* and the runtime's spec_version.  It is gossiped, may be delivered late, *)
(* twice or to a node on another fork, and is checked against the chain of *)
(* whoever builds the next block.                                          *)
(*                                                                         *)
(* Era, CheckEra, CheckNonce, CheckSpecVersion and the BlockHash window    *)
(* are FRAME's, modelled by what SignedExtra uses of them.                 *)
(***************************************************************************)
EXTENDS Integers, Sequences, FiniteSets

CONSTANTS
  BlockHashCount,   \* T::BlockHashCount, 2400 in the runtime
  MaxHeight,        \* bound on the chain's length
  MaxFork,          \* bound on the number of reorganisations
  MaxSpecVersion,   \* bound on runtime upgrades
  MaxSigned         \* bound on the transactions signed

\* With more hashes the period would be 2^16 all the same.
ASSUME BlockHashCountAssumption == BlockHashCount \in 2 .. 65536

ASSUME BoundsAssumption ==
  MaxHeight \in Nat /\ MaxFork \in Nat /\ MaxSpecVersion \in Nat /\ MaxSigned \in Nat

VARIABLES
  chain,    \* the blocks 1, 2, ... of the best chain
  fork,     \* label of the branch that is being extended
  pool,     \* every transaction signed so far: gossip forgets nothing
  refused   \* the reasons for which create_transaction has returned None

vars == <<chain, fork, pool, refused>>

Height == Len(chain)

\* A block's hash: a height and a branch determine the block.
BlockHash(n) == IF n = 0 THEN <<0, 0>> ELSE <<n, chain[n].fork>>

\* The spec_version that executes block Height + 1: set_code takes effect in
\* the block after it.
SpecVersion == Cardinality({n \in 1 .. Height : chain[n].upgrade})

\* frame_system's account nonce: the number of the account's transactions.
Nonce == Cardinality({n \in 1 .. Height : chain[n].tx # << >>})

-----------------------------------------------------------------------------
(* Eras *)

\* Powers of two up to 2^16, the greatest period of an era.
PowersOfTwo == {1, 2, 4, 8, 16, 32, 64, 128, 256, 512, 1024, 2048, 4096, 8192, 16384,
                32768, 65536}

\* checked_next_power_of_two.
NextPowerOfTwo(n) == CHOOSE p \in PowersOfTwo : p >= n /\ \A q \in PowersOfTwo : q >= n => p <= q

\* A plausible bug: the next power of two is not halved.
PeriodTooLong == NextPowerOfTwo(BlockHashCount)

\* "take the biggest period possible", and Era::mortal's minimum of 4.
Period ==
  LET half == NextPowerOfTwo(BlockHashCount) \div 2
  IN  IF half < 4 THEN 4 ELSE half

\* A plausible bug: the phase is the block number itself.
MortalPhaseUnreduced(current) == current

\* Era::mortal: a phase in the period, quantised for periods beyond 4096.
MortalPhase(current) ==
  LET factor == IF Period > 4096 THEN Period \div 4096 ELSE 1
  IN  ((current % Period) \div factor) * factor

\* Era::birth as seen from block current.
EraBirth(phase, current) ==
  LET seen == IF current > phase THEN current ELSE phase
  IN  ((seen - phase) \div Period) * Period + phase

\* The storage map System::BlockHash while block number is executed: it holds
\* the last BlockHashCount + 1 blocks and the genesis block.
HashKnown(n, number) ==
  n <= number - 1 /\ (n >= number - 1 - BlockHashCount \/ n = 0)

-----------------------------------------------------------------------------
(* Signing *)

\* A plausible bug: the era starts at System::block_number() itself.
CurrentBlockTooLate(number) == number

\* System::block_number() is n + 1 after block n: saturating_sub(1).
CurrentBlock(number) == IF number = 0 THEN 0 ELSE number - 1

\* create_transaction, called by an offchain worker after the best block.  It
\* returns None if the hash of the era's birth is not known (SignedPayload::new)
\* or the keystore cannot sign for the account (signs, from C::sign).
CreateTransaction(nonce, signs) ==
  LET number == Height + 1
      phase  == MortalPhase(CurrentBlock(number))
      birth  == EraBirth(phase, number)
      known  == HashKnown(birth, number)
      signed == [nonce |-> nonce, phase |-> phase, spec |-> SpecVersion,
                 birth |-> BlockHash(birth)]
      reason == IF known THEN "signature" ELSE "payload"
  IN  /\ pool' = IF known /\ signs THEN pool \cup {signed} ELSE pool
      /\ refused' = IF known /\ signs THEN refused ELSE refused \cup {reason}
      /\ UNCHANGED <<chain, fork>>

-----------------------------------------------------------------------------
(* Checking *)

\* Plausible bugs: an extension is left out of the tuple.
SignedExtraNoEra   == {"CheckSpecVersion", "CheckNonce"}
SignedExtraNoNonce == {"CheckSpecVersion", "CheckEra"}
SignedExtraNoSpec  == {"CheckEra", "CheckNonce"}

\* The extensions whose checks depend on the chain.
SignedExtra == {"CheckSpecVersion", "CheckEra", "CheckNonce"}

\* CheckEra in block number: the birth the era has now must be known
\* (AncientBirthBlock) and its hash the one that was signed (BadProof).
CheckEra(t, number) ==
  LET birth == EraBirth(t.phase, number)
  IN  HashKnown(birth, number) /\ t.birth = BlockHash(birth)

\* Executive::apply_extrinsic: the transaction can be part of the next block.
Applicable(t) ==
  /\ "CheckSpecVersion" \in SignedExtra => t.spec = SpecVersion
  /\ "CheckEra" \in SignedExtra => CheckEra(t, Height + 1)
  /\ "CheckNonce" \in SignedExtra => t.nonce = Nonce

-----------------------------------------------------------------------------
(* The chain *)

Init ==
  /\ chain = << >>
  /\ fork = 0
  /\ pool = {}
  /\ refused = {}

\* A block with at most one of the account's transactions; root may upgrade
\* the runtime in it.
NewBlock(tx, upgrade) ==
  /\ Height < MaxHeight
  /\ upgrade => SpecVersion < MaxSpecVersion
  /\ tx # << >> => tx[1] \in pool /\ Applicable(tx[1])
  /\ chain' = Append(chain, [fork |-> fork, tx |-> tx, upgrade |-> upgrade])
  /\ UNCHANGED <<fork, pool, refused>>

\* The best chain is abandoned for a branch that leaves it after block n.
Reorganise(n) ==
  /\ fork < MaxFork
  /\ chain' = SubSeq(chain, 1, n)
  /\ fork' = fork + 1
  /\ UNCHANGED <<pool, refused>>

\* An offchain worker signs with the account's nonce, or with the next one for
\* a second transaction after the same block; its key may be missing.
Sign ==
  /\ Cardinality(pool) < MaxSigned
  /\ \E nonce \in {Nonce, Nonce + 1}, signs \in BOOLEAN : CreateTransaction(nonce, signs)

Next ==
  \/ Sign
  \/ \E upgrade \in BOOLEAN : NewBlock(<< >>, upgrade)
  \/ \E t \in pool : NewBlock(<<t>>, FALSE)
  \/ \E n \in 0 .. Height - 1 : Reorganise(n)

Spec == Init /\ [][Next]_vars

-----------------------------------------------------------------------------
(* Properties *)

Transaction ==
  [nonce : 0 .. MaxSigned, phase : 0 .. Period - 1, spec : 0 .. MaxSpecVersion,
   birth : (0 .. MaxHeight) \X (0 .. MaxFork)]

\* Every variable has its type; a phase lies within the period.
TypeOK ==
  /\ fork \in 0 .. MaxFork
  /\ pool \subseteq Transaction
  /\ refused \subseteq {"payload", "signature"}
  /\ Height <= MaxHeight
  /\ \A n \in 1 .. Height :
       chain[n] \in [fork : 0 .. fork, tx : {<< >>} \cup {<<t>> : t \in pool}, upgrade : BOOLEAN]

\* create_transaction never fails for want of a birth hash, whatever the height
\* and the branch it is called on: the block the era is born in is always known,
\* and None can only mean that the keystore did not sign.
PayloadAlwaysBuilt == "payload" \notin refused

\* For as long as its era lasts a transaction signed on this chain, with the
\* account's nonce and the current runtime, can be executed: it is not refused
\* as an AncientBirthBlock, because the period fits the BlockHash window.
AliveIsApplicable ==
  \A t \in pool :
    LET born == t.birth[1]
    IN  /\ born <= Height /\ t.birth = BlockHash(born)
        /\ Height + 1 < born + Period
        /\ t.nonce = Nonce /\ t.spec = SpecVersion
        => Applicable(t)

\* No transaction is executed twice on a chain, however often it is delivered.
NoReplay ==
  \A m, n \in 1 .. Height : chain[m].tx # << >> /\ chain[m].tx = chain[n].tx => m = n

\* A transaction is executed only within one period of the block it was signed
\* at, and only on a chain that contains that block: after a reorganisation
\* that abandons the block it is void.
AppliedInEraOnFork ==
  \A n \in 1 .. Height : chain[n].tx # << >> =>
    LET born == chain[n].tx[1].birth[1]
    IN  born < n /\ n < born + Period /\ chain[n].tx[1].birth = BlockHash(born)

\* A transaction is executed by the runtime version it was signed for: none
\* slips through an upgrade, before or after a reorganisation.
SameRuntime ==
  \A n \in 1 .. Height : chain[n].tx # << >> =>
    chain[n].tx[1].spec = Cardinality({m \in 1 .. n - 1 : chain[m].upgrade})

=============================================================================
