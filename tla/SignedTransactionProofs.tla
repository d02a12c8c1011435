----------------------- MODULE SignedTransactionProofs -----------------------
(***************************************************************************)
(* Proofs about SignedTransaction, for every BlockHashCount the period of  *)
(* an era can follow, every length of the chain and any number of forks,   *)
(* upgrades and transactions.                                              *)
(***************************************************************************)
EXTENDS SignedTransaction, FiniteSetTheorems, TLAPS

-----------------------------------------------------------------------------
(* Eras *)

\* The power of two that is found is the least one: half of it is too small.
LEMMA NextPower ==
  ASSUME NEW n \in Nat, 2 <= n, n <= 65536
  PROVE  /\ NextPowerOfTwo(n) \in PowersOfTwo \ {1}
         /\ NextPowerOfTwo(n) \div 2 < n
<1> DEFINE Least(p) == p >= n /\ \A q \in PowersOfTwo : q >= n => p <= q
<1>1. \E p \in PowersOfTwo : Least(p)
  <2>5. CASE n <= 4
    <3>1. CASE n = 2
      <4>1. Least(2) /\ 2 \in PowersOfTwo
        BY <3>1 DEF PowersOfTwo
      <4> QED
        BY <4>1
    <3>2. CASE n \in {3, 4}
      <4>1. Least(4) /\ 4 \in PowersOfTwo
        BY <3>2 DEF PowersOfTwo
      <4> QED
        BY <4>1
    <3> QED
      BY <2>5, <3>1, <3>2
  <2>1. CASE n > 4 /\ n <= 16
    BY <2>1 DEF PowersOfTwo
  <2>2. CASE n > 16 /\ n <= 256
    BY <2>2 DEF PowersOfTwo
  <2>3. CASE n > 256 /\ n <= 4096
    BY <2>3 DEF PowersOfTwo
  <2>4. CASE n > 4096
    BY <2>4 DEF PowersOfTwo
  <2> QED
    BY <2>1, <2>2, <2>3, <2>4, <2>5
<1>2. NextPowerOfTwo(n) \in PowersOfTwo /\ Least(NextPowerOfTwo(n))
  BY <1>1 DEF NextPowerOfTwo
<1> DEFINE p == NextPowerOfTwo(n)
<1> HIDE DEF p
<1>3. p \in PowersOfTwo /\ p >= n /\ \A q \in PowersOfTwo : q >= n => p <= q
  BY <1>2 DEF p
<1>4. p \in PowersOfTwo \ {1} /\ p \div 2 < n
  BY <1>3 DEF PowersOfTwo
<1> QED
  BY <1>4 DEF p

\* The period: quantised phases occur only with more than 4096 hashes.
LEMMA PeriodBounds ==
  /\ Period \in {4, 8, 16, 32, 64, 128, 256, 512, 1024, 2048, 4096, 8192, 16384, 32768}
  /\ Period <= BlockHashCount + 2
  /\ Period > 4096 => BlockHashCount > 4096
<1> DEFINE p == NextPowerOfTwo(BlockHashCount)
<1>1. p \in PowersOfTwo \ {1} /\ p \div 2 < BlockHashCount
  <2>1. BlockHashCount \in Nat /\ 2 <= BlockHashCount /\ BlockHashCount <= 65536
    BY BlockHashCountAssumption
  <2> QED
    BY <2>1, NextPower
<1>2. Period = IF p \div 2 < 4 THEN 4 ELSE p \div 2
  BY DEF Period
<1> HIDE DEF p
<1> QED
  BY <1>1, <1>2, BlockHashCountAssumption DEF PowersOfTwo

\* Division has one quotient.
LEMMA Quotient ==
  ASSUME NEW d \in Nat \ {0}, NEW q \in Nat, NEW r \in 0 .. d - 1
  PROVE  (q * d + r) \div d = q /\ (q * d + r) % d = r
<1> DEFINE x == q * d + r
           e == x \div d
           s == x % d
<1>1. x \in Nat
  OBVIOUS
<1>2. e \in Nat /\ s \in 0 .. d - 1 /\ x = d * e + s
  BY <1>1
<1>3. q * d = d * q /\ d * q \in Nat /\ d * e \in Nat
  BY <1>2
<1> HIDE DEF e, s
<1>4. ~(e >= q + 1)
  <2>1. SUFFICES ASSUME e >= q + 1 PROVE FALSE
    OBVIOUS
  <2>2. d * e >= d * (q + 1) /\ d * (q + 1) = d * q + d
    BY <1>2, <2>1
  <2> QED
    BY <1>2, <1>3, <2>2
<1>5. ~(q >= e + 1)
  <2>1. SUFFICES ASSUME q >= e + 1 PROVE FALSE
    OBVIOUS
  <2>2. d * q >= d * (e + 1) /\ d * (e + 1) = d * e + d
    BY <1>2, <2>1
  <2> QED
    BY <1>2, <1>3, <2>2
<1>6. e = q /\ s = r
  BY <1>2, <1>3, <1>4, <1>5
<1> QED
  BY <1>6 DEF e, s

\* The phase of a block is at or shortly before it.
LEMMA PhaseBounds ==
  ASSUME NEW current \in Nat
  PROVE  /\ MortalPhase(current) \in 0 .. Period - 1
         /\ \E q \in Nat : LET born == q * Period + MortalPhase(current)
                           IN  /\ born <= current /\ current + 1 < born + Period
                               /\ born >= current - BlockHashCount
<1> DEFINE P == Period
           f == IF P > 4096 THEN P \div 4096 ELSE 1
           r == current % P
           q == current \div P
           phase == (r \div f) * f
<1>1. /\ P \in Nat /\ P >= 4 /\ f \in Nat \ {0} /\ f <= P \div 2 /\ f <= BlockHashCount
      /\ BlockHashCount \in Nat
  BY PeriodBounds, BlockHashCountAssumption
<1>2. q \in Nat /\ r \in 0 .. P - 1 /\ current = P * q + r
  BY <1>1
<1>3. MortalPhase(current) = phase
  BY DEF MortalPhase
<1> HIDE DEF P, f, r, q
<1>4. r \div f \in Nat /\ r % f \in 0 .. f - 1 /\ r = f * (r \div f) + (r % f)
  BY <1>1, <1>2
<1>5. phase = f * (r \div f) /\ phase \in Nat
  BY <1>1, <1>4
<1> HIDE DEF phase
<1>6. phase <= r /\ r - phase < f
  BY <1>1, <1>2, <1>4, <1>5
<1>7. q * P = P * q /\ q * P \in Nat
  BY <1>1, <1>2
<1> DEFINE born == q * P + phase
<1>8. born <= current /\ current + 1 < born + P /\ born >= current - BlockHashCount
  <2>1. 2 * (P \div 2) <= P
    BY <1>1
  <2> QED
    BY <1>1, <1>2, <1>5, <1>6, <1>7, <2>1
<1>9. phase \in 0 .. P - 1
  BY <1>1, <1>2, <1>5, <1>6
<1> QED
  BY <1>2, <1>3, <1>8, <1>9 DEF P

\* Seen from any block of its era, an era was born where it was born.
LEMMA BirthWithin ==
  ASSUME NEW phase \in 0 .. Period - 1, NEW q \in Nat, NEW number \in Nat,
         q * Period + phase < number, number < q * Period + phase + Period
  PROVE  EraBirth(phase, number) = q * Period + phase
<1> DEFINE P == Period
           r == number - (q * P + phase)
<1>1. P \in Nat \ {0}
  BY PeriodBounds
<1> HIDE DEF P
<1>2. phase \in Nat /\ q * P \in Nat /\ r \in 0 .. P - 1 /\ number > phase
  BY <1>1 DEF P
<1>3. EraBirth(phase, number) = ((number - phase) \div P) * P + phase
  BY <1>2 DEF EraBirth, P
<1>4. number - phase = q * P + r
  BY <1>2
<1> HIDE DEF r
<1>5. (number - phase) \div P = q
  BY <1>1, <1>2, <1>4, Quotient
<1> QED
  BY <1>3, <1>5 DEF P

\* A birth in the past is less than a period ago.
LEMMA BirthRecent ==
  ASSUME NEW phase \in 0 .. Period - 1, NEW number \in Nat, EraBirth(phase, number) < number
  PROVE  /\ EraBirth(phase, number) \in Nat
         /\ number < EraBirth(phase, number) + Period
<1> DEFINE P == Period
           x == number - phase
<1>1. P \in Nat \ {0}
  BY PeriodBounds
<1> HIDE DEF P
<1>2. phase \in Nat
  BY <1>1 DEF P
<1>3. CASE number > phase
  <2>1. x \in Nat /\ EraBirth(phase, number) = (x \div P) * P + phase
    BY <1>2, <1>3 DEF EraBirth, P
  <2> HIDE DEF x
  <2>2. x \div P \in Nat /\ x % P \in 0 .. P - 1 /\ x = P * (x \div P) + (x % P)
    BY <1>1, <2>1
  <2>3. (x \div P) * P = P * (x \div P) /\ P * (x \div P) \in Nat
    BY <1>1, <2>2
  <2> QED
    BY <1>1, <1>2, <2>1, <2>2, <2>3 DEF x, P
<1>4. CASE ~(number > phase)
  <2>1. EraBirth(phase, number) = ((phase - phase) \div P) * P + phase
    BY <1>4 DEF EraBirth, P
  <2>2. ((phase - phase) \div P) * P + phase = phase
    BY <1>1, <1>2
  <2> QED
    BY <1>2, <1>4, <2>1, <2>2
<1> QED
  BY <1>3, <1>4

-----------------------------------------------------------------------------
(* The invariant *)

\* The blocks up to n that carry a transaction, and those that upgrade.
TxsUpTo(c, n)      == {m \in 1 .. n : c[m].tx # << >>}
UpgradesUpTo(c, n) == {m \in 1 .. n : c[m].upgrade}

Tx    == {<< >>} \cup {<<t>> : t \in pool}
Block == [fork : 0 .. fork, tx : Tx, upgrade : BOOLEAN]

Typed ==
  /\ chain \in Seq(Block) /\ Height <= MaxHeight
  /\ fork \in 0 .. MaxFork
  /\ pool \subseteq Transaction /\ IsFiniteSet(pool) /\ Cardinality(pool) <= MaxSigned
  /\ SpecVersion <= MaxSpecVersion
  /\ refused \subseteq {"payload", "signature"}

\* A transaction's era was born at its phase.
BornInPhase == \A t \in pool : \E q \in Nat : t.birth[1] = q * Period + t.phase

\* An executed transaction has the nonce the account had before it.
NonceCounts ==
  \A n \in 1 .. Height : chain[n].tx # << >> =>
    chain[n].tx[1].nonce = Cardinality(TxsUpTo(chain, n - 1))

IInv ==
  /\ Typed
  /\ PayloadAlwaysBuilt
  /\ BornInPhase
  /\ NonceCounts
  /\ AppliedInEraOnFork
  /\ SameRuntime

\* What the type says of a block.
LEMMA Blocks ==
  ASSUME Typed
  PROVE  /\ Height \in Nat
         /\ \A n \in 1 .. Height : /\ chain[n] \in Block /\ chain[n].tx \in Tx
                                   /\ chain[n].fork \in 0 .. fork /\ chain[n].upgrade \in BOOLEAN
<1>1. Height \in Nat /\ \A n \in 1 .. Height : chain[n] \in Block
  BY DEF Typed, Height
<1> QED
  BY <1>1 DEF Block

\* The counts are numbers and grow by one with the block they count.
LEMMA Counts ==
  ASSUME NEW c, NEW n \in Nat
  PROVE  /\ IsFiniteSet(TxsUpTo(c, n)) /\ Cardinality(TxsUpTo(c, n)) \in Nat
         /\ IsFiniteSet(UpgradesUpTo(c, n)) /\ Cardinality(UpgradesUpTo(c, n)) \in Nat
         /\ Cardinality(UpgradesUpTo(c, n + 1)) =
              IF c[n + 1].upgrade THEN Cardinality(UpgradesUpTo(c, n)) + 1
                                  ELSE Cardinality(UpgradesUpTo(c, n))
<1>1. IsFiniteSet(1 .. n)
  BY FS_Interval
<1>2. TxsUpTo(c, n) \in SUBSET (1 .. n) /\ UpgradesUpTo(c, n) \in SUBSET (1 .. n)
  BY DEF TxsUpTo, UpgradesUpTo
<1>3. IsFiniteSet(TxsUpTo(c, n)) /\ IsFiniteSet(UpgradesUpTo(c, n))
  BY <1>1, <1>2, FS_Subset
<1>4. CASE c[n + 1].upgrade
  <2>1. UpgradesUpTo(c, n + 1) = UpgradesUpTo(c, n) \cup {n + 1} /\ n + 1 \notin UpgradesUpTo(c, n)
    BY <1>4 DEF UpgradesUpTo
  <2> QED
    BY <1>3, <1>4, <2>1, FS_AddElement, FS_CardinalityType
<1>5. CASE ~c[n + 1].upgrade
  <2>1. UpgradesUpTo(c, n + 1) = UpgradesUpTo(c, n)
    BY <1>5 DEF UpgradesUpTo
  <2> QED
    BY <1>3, <1>5, <2>1, FS_CardinalityType
<1> QED
  BY <1>3, <1>4, <1>5, FS_CardinalityType

\* A later transaction has more of them before it.
LEMMA CountGrows ==
  ASSUME NEW c, NEW m \in Nat \ {0}, NEW n \in Nat, m < n, c[m].tx # << >>
  PROVE  Cardinality(TxsUpTo(c, m - 1)) < Cardinality(TxsUpTo(c, n - 1))
<1> DEFINE S == TxsUpTo(c, m - 1)
           T == TxsUpTo(c, n - 1)
<1>1. m - 1 \in Nat /\ n - 1 \in Nat
  OBVIOUS
<1>2. IsFiniteSet(S) /\ Cardinality(S) \in Nat /\ IsFiniteSet(T) /\ Cardinality(T) \in Nat
  BY <1>1, Counts
<1>3. S \in SUBSET T /\ m \in T /\ m \notin S
  BY <1>1 DEF TxsUpTo
<1>4. S # T
  BY <1>3
<1> HIDE DEF S, T
<1>5. Cardinality(S) <= Cardinality(T) /\ Cardinality(S) # Cardinality(T)
  BY <1>2, <1>3, <1>4, FS_Subset
<1> QED
  BY <1>2, <1>5 DEF S, T

\* Transactions are told apart by their nonces, so that none is on the chain
\* twice.
LEMMA Distinct ==
  ASSUME Typed, NonceCounts
  PROVE  NoReplay
<1> SUFFICES ASSUME NEW m \in 1 .. Height, NEW n \in 1 .. Height,
                    chain[m].tx # << >>, chain[m].tx = chain[n].tx, m < n
             PROVE  FALSE
  <2>1. Height \in Nat
    BY DEF Typed, Height
  <2> QED
    BY <2>1 DEF NoReplay
<1>1. Height \in Nat
  BY DEF Typed, Height
<1>2. /\ chain[m].tx[1].nonce = Cardinality(TxsUpTo(chain, m - 1))
      /\ chain[n].tx[1].nonce = Cardinality(TxsUpTo(chain, n - 1))
  BY DEF NonceCounts
<1>3. m \in Nat \ {0} /\ n \in Nat /\ m - 1 \in Nat /\ n - 1 \in Nat
  BY <1>1
<1>4. Cardinality(TxsUpTo(chain, m - 1)) < Cardinality(TxsUpTo(chain, n - 1))
  BY <1>3, CountGrows
<1>5. Cardinality(TxsUpTo(chain, m - 1)) \in Nat
  BY <1>3, Counts
<1> QED
  BY <1>2, <1>4, <1>5

\* The account's nonce is at most the number of transactions that were signed.
LEMMA NonceBound ==
  ASSUME Typed, NonceCounts
  PROVE  Nonce \in Nat /\ Nonce <= Cardinality(pool)
<1> DEFINE S == TxsUpTo(chain, Height)
           f == [n \in S |-> chain[n].tx[1]]
<1>1. Height \in Nat /\ Nonce = Cardinality(S) /\ IsFiniteSet(pool)
  BY DEF Typed, Height, Nonce, TxsUpTo
<1>2. Cardinality(S) \in Nat /\ Cardinality(pool) \in Nat
  BY <1>1, Counts, FS_CardinalityType
<1>3. \A n \in S : n \in 1 .. Height /\ chain[n].tx # << >> /\ chain[n].tx \in Tx
  BY Blocks DEF TxsUpTo
<1>4. \A n \in S : chain[n].tx[1] \in pool /\ chain[n].tx = <<chain[n].tx[1]>>
  BY <1>3 DEF Tx
<1>5. \A m, n \in S : f[m] = f[n] => m = n
  <2>1. SUFFICES ASSUME NEW m \in S, NEW n \in S, chain[m].tx[1] = chain[n].tx[1] PROVE m = n
    OBVIOUS
  <2>2. chain[m].tx = chain[n].tx
    BY <1>4, <2>1
  <2> QED
    BY <1>3, <2>2, Distinct DEF NoReplay
<1>6. f \in Injection(S, pool)
  BY <1>4, <1>5 DEF Injection, IsInjective
<1> QED
  BY <1>1, <1>2, <1>6, FS_Injection

-----------------------------------------------------------------------------
(* One lemma per action *)

\* What create_transaction signs, if the keystore does: the era is born at a
\* block of the chain, the best one unless phases are quantised.
LEMMA Signed ==
  ASSUME IInv, NEW nonce, NEW signs \in BOOLEAN, CreateTransaction(nonce, signs)
  PROVE  \E born \in 0 .. Height, q \in Nat, phase \in 0 .. Period - 1 :
            /\ born = q * Period + phase
            /\ pool' \in {pool, pool \cup {[nonce |-> nonce, phase |-> phase,
                                            spec |-> SpecVersion, birth |-> BlockHash(born)]}}
            /\ refused' \in {refused, refused \cup {"signature"}} /\ chain' = chain /\ fork' = fork
<1> DEFINE phase == MortalPhase(Height)
           number == Height + 1
<1>1. Height \in Nat /\ number \in Nat /\ CurrentBlock(number) = Height
  BY Blocks DEF IInv, CurrentBlock
<1>2. PICK q \in Nat : LET born == q * Period + phase
                       IN  /\ born <= Height /\ Height + 1 < born + Period
                           /\ born >= Height - BlockHashCount
  BY <1>1, PhaseBounds
<1>3. phase \in 0 .. Period - 1
  BY <1>1, PhaseBounds
<1> HIDE DEF phase
<1> DEFINE born == q * Period + phase
<1>4. Period \in Nat /\ BlockHashCount \in Nat
  BY PeriodBounds, BlockHashCountAssumption
<1>5. born \in Nat
  BY <1>3, <1>4
<1>6. EraBirth(phase, number) = born
  BY <1>1, <1>2, <1>3, <1>4, <1>5, BirthWithin
<1>7. HashKnown(born, number) /\ born \in 0 .. Height
  BY <1>1, <1>2, <1>4, <1>5 DEF HashKnown
<1> HIDE DEF born
<1>8. /\ pool' \in {pool, pool \cup {[nonce |-> nonce, phase |-> phase,
                                      spec |-> SpecVersion, birth |-> BlockHash(born)]}}
      /\ refused' \in {refused, refused \cup {"signature"}} /\ chain' = chain /\ fork' = fork
  BY <1>1, <1>6, <1>7 DEF CreateTransaction, phase
<1> QED
  BY <1>3, <1>7, <1>8 DEF born

LEMMA SignStep ==
  ASSUME IInv, Sign
  PROVE  IInv'
<1>1. PICK nonce \in {Nonce, Nonce + 1}, signs \in BOOLEAN : CreateTransaction(nonce, signs)
  BY DEF Sign
<1>2. PICK born \in 0 .. Height, q \in Nat, phase \in 0 .. Period - 1 :
            /\ born = q * Period + phase
            /\ pool' \in {pool, pool \cup {[nonce |-> nonce, phase |-> phase,
                                            spec |-> SpecVersion, birth |-> BlockHash(born)]}}
            /\ refused' \in {refused, refused \cup {"signature"}} /\ chain' = chain /\ fork' = fork
  BY <1>1, Signed
<1> DEFINE t == [nonce |-> nonce, phase |-> phase, spec |-> SpecVersion, birth |-> BlockHash(born)]
<1>3. Typed /\ NonceCounts
  BY DEF IInv
<1>4. Height \in Nat /\ Height <= MaxHeight /\ Cardinality(pool) < MaxSigned
  BY <1>3, Blocks DEF Typed, Sign
<1>5. nonce \in 0 .. MaxSigned
  <2>1. Nonce \in Nat /\ Nonce <= Cardinality(pool) /\ Cardinality(pool) \in Nat
    BY <1>3, NonceBound, FS_CardinalityType DEF Typed
  <2> QED
    BY <1>1, <1>4, <2>1, BoundsAssumption
<1>6. SpecVersion \in 0 .. MaxSpecVersion
  <2>1. SpecVersion = Cardinality(UpgradesUpTo(chain, Height))
    BY DEF SpecVersion, UpgradesUpTo
  <2> QED
    BY <1>3, <1>4, <2>1, Counts, BoundsAssumption DEF Typed
<1>7. BlockHash(born) \in (0 .. MaxHeight) \X (0 .. MaxFork) /\ BlockHash(born)[1] = born
  <2>1. CASE born = 0
    BY <1>4, <2>1, BoundsAssumption DEF BlockHash
  <2>2. CASE born # 0
    <3>1. born \in 1 .. Height /\ BlockHash(born) = <<born, chain[born].fork>>
      BY <1>4, <2>2 DEF BlockHash
    <3>2. chain[born].fork \in 0 .. fork /\ fork \in 0 .. MaxFork
      BY <1>3, <3>1, Blocks DEF Typed
    <3> QED
      BY <1>4, <3>1, <3>2, BoundsAssumption
  <2> QED
    BY <2>1, <2>2
<1>8. t \in Transaction /\ t.birth[1] = q * Period + t.phase
  BY <1>2, <1>5, <1>6, <1>7 DEF Transaction
<1>9. /\ pool' \in {pool, pool \cup {t}} /\ chain' = chain /\ fork' = fork
      /\ refused' \in {refused, refused \cup {"signature"}}
  BY <1>2
<1> HIDE DEF t
<1>10. pool' \subseteq Transaction
  BY <1>3, <1>8, <1>9 DEF Typed
<1>11. IsFiniteSet(pool') /\ Cardinality(pool') <= MaxSigned
  <2>1. IsFiniteSet(pool) /\ Cardinality(pool) \in Nat
    BY <1>3, FS_CardinalityType DEF Typed
  <2> QED
    BY <1>4, <1>9, <2>1, FS_AddElement, BoundsAssumption
<1>12. chain' \in Seq(Block')
  <2>1. Block \subseteq Block'
    BY <1>9 DEF Block, Tx
  <2>2. chain \in Seq(Block)
    BY <1>3 DEF Typed
  <2> QED
    BY <1>9, <2>1, <2>2
<1>13. Typed'
  BY <1>3, <1>9, <1>10, <1>11, <1>12 DEF Typed, Height, SpecVersion, Transaction
<1>14. BornInPhase'
  BY <1>8, <1>9 DEF IInv, BornInPhase
<1>15. PayloadAlwaysBuilt' /\ NonceCounts' /\ AppliedInEraOnFork' /\ SameRuntime'
  BY <1>9 DEF IInv, PayloadAlwaysBuilt, NonceCounts, AppliedInEraOnFork, SameRuntime, Height, BlockHash
<1> QED
  BY <1>13, <1>14, <1>15 DEF IInv

\* The three facts about the transaction of block n of a chain, if it has one.
Sound(c, n) ==
  c[n].tx # << >> =>
    LET t    == c[n].tx[1]
        born == t.birth[1]
    IN  /\ t.nonce = Cardinality(TxsUpTo(c, n - 1))
        /\ t.spec = Cardinality(UpgradesUpTo(c, n - 1))
        /\ born < n /\ n < born + Period
        /\ t.birth = IF born = 0 THEN <<0, 0>> ELSE <<born, c[born].fork>>

LEMMA SoundIsInv ==
  (\A n \in 1 .. Height : Sound(chain, n)) <=> NonceCounts /\ AppliedInEraOnFork /\ SameRuntime
  BY DEF Sound, NonceCounts, AppliedInEraOnFork, SameRuntime, BlockHash, UpgradesUpTo

LEMMA SoundIsInvPrimed ==
  (\A n \in 1 .. Height' : Sound(chain', n))
     <=> NonceCounts' /\ AppliedInEraOnFork' /\ SameRuntime'
  BY DEF Sound, NonceCounts, AppliedInEraOnFork, SameRuntime, BlockHash, UpgradesUpTo, Height

\* They depend on the blocks up to n alone.
LEMMA SoundKept ==
  ASSUME NEW c, NEW d, NEW k \in Nat, \A m \in 1 .. k : d[m] = c[m],
         NEW n \in 1 .. k, Sound(c, n), c[n].tx # << >> => c[n].tx[1].birth[1] \in Nat
  PROVE  Sound(d, n)
<1>1. TxsUpTo(d, n - 1) = TxsUpTo(c, n - 1) /\ UpgradesUpTo(d, n - 1) = UpgradesUpTo(c, n - 1)
  BY DEF TxsUpTo, UpgradesUpTo
<1>2. d[n] = c[n]
  OBVIOUS
<1>3. SUFFICES ASSUME c[n].tx # << >>
               PROVE  LET t    == c[n].tx[1]
                          born == t.birth[1]
                      IN  /\ t.nonce = Cardinality(TxsUpTo(d, n - 1))
                          /\ t.spec = Cardinality(UpgradesUpTo(d, n - 1))
                          /\ born < n /\ n < born + Period
                          /\ t.birth = IF born = 0 THEN <<0, 0>> ELSE <<born, d[born].fork>>
  BY <1>2 DEF Sound
<1> DEFINE t    == c[n].tx[1]
           born == t.birth[1]
<1>4. /\ t.nonce = Cardinality(TxsUpTo(c, n - 1))
      /\ t.spec = Cardinality(UpgradesUpTo(c, n - 1))
      /\ born < n /\ n < born + Period
      /\ t.birth = IF born = 0 THEN <<0, 0>> ELSE <<born, c[born].fork>>
  BY <1>3 DEF Sound
<1>5. born \in Nat
  BY <1>3
<1>6. born # 0 => d[born] = c[born]
  BY <1>4, <1>5
<1> QED
  BY <1>1, <1>4, <1>6

\* The transactions of the chain were signed: their births are numbers.
LEMMA Births ==
  ASSUME Typed, NEW n \in 1 .. Height, chain[n].tx # << >>
  PROVE  chain[n].tx[1] \in pool /\ chain[n].tx[1].birth[1] \in Nat
<1>1. chain[n].tx \in Tx /\ pool \subseteq Transaction
  BY Blocks DEF Typed
<1>2. chain[n].tx[1] \in pool
  BY <1>1 DEF Tx
<1> QED
  BY <1>1, <1>2 DEF Transaction

LEMMA BlockStep ==
  ASSUME IInv, NEW tx \in Tx, NEW upgrade \in BOOLEAN, NewBlock(tx, upgrade)
  PROVE  IInv'
<1> DEFINE b == [fork |-> fork, tx |-> tx, upgrade |-> upgrade]
           h == Height + 1
<1>1. /\ Height < MaxHeight /\ (upgrade => SpecVersion < MaxSpecVersion)
      /\ (tx # << >> => Applicable(tx[1]))
      /\ chain' = Append(chain, b)
      /\ fork' = fork /\ pool' = pool /\ refused' = refused
  BY DEF NewBlock
<1>2. Typed /\ Height \in Nat /\ chain \in Seq(Block) /\ fork \in 0 .. MaxFork
  BY Blocks DEF IInv, Typed
<1>3. b \in Block
  BY <1>2 DEF Block
<1>4. /\ chain' \in Seq(Block) /\ Len(chain') = h /\ chain'[h] = b
      /\ \A m \in 1 .. Height : chain'[m] = chain[m]
  BY <1>1, <1>2, <1>3 DEF Height
<1>5. Height' = h /\ Block' = Block
  BY <1>1, <1>4 DEF Height, Block, Tx
<1> HIDE DEF b
<1>6. SpecVersion' <= MaxSpecVersion
  <2>1. SpecVersion' = Cardinality(UpgradesUpTo(chain', h))
    BY <1>5 DEF SpecVersion, UpgradesUpTo
  <2>2. UpgradesUpTo(chain', Height) = UpgradesUpTo(chain, Height)
    BY <1>4 DEF UpgradesUpTo
  <2>3. SpecVersion = Cardinality(UpgradesUpTo(chain, Height)) /\ SpecVersion \in Nat
    BY <1>2, Counts DEF SpecVersion, UpgradesUpTo
  <2>4. SpecVersion' = IF upgrade THEN SpecVersion + 1 ELSE SpecVersion
    <3>1. chain'[Height + 1].upgrade = upgrade
      BY <1>4 DEF b
    <3>2. Cardinality(UpgradesUpTo(chain', Height + 1)) =
            IF chain'[Height + 1].upgrade THEN Cardinality(UpgradesUpTo(chain', Height)) + 1
                                          ELSE Cardinality(UpgradesUpTo(chain', Height))
      BY <1>2, Counts
    <3> QED
      BY <2>1, <2>2, <2>3, <3>1, <3>2
  <2> QED
    BY <1>1, <1>2, <2>3, <2>4, BoundsAssumption DEF Typed
<1>7. Typed'
  BY <1>1, <1>2, <1>4, <1>5, <1>6, BoundsAssumption DEF Typed, Transaction
<1>8. PayloadAlwaysBuilt' /\ BornInPhase'
  BY <1>1 DEF IInv, PayloadAlwaysBuilt, BornInPhase
<1>9. Sound(chain', h)
  <2>1. SUFFICES ASSUME tx # << >> PROVE Sound(chain', h)
    BY <1>4 DEF Sound, b
  <2> DEFINE t == tx[1]
             birth == EraBirth(t.phase, h)
  <2>2. t \in pool /\ chain'[h].tx[1] = t
    BY <1>4, <2>1 DEF Tx, b
  <2>3. t.phase \in 0 .. Period - 1 /\ t.birth[1] \in Nat
    BY <1>2, <2>2 DEF Typed, Transaction
  <2>4. t.spec = SpecVersion /\ CheckEra(t, h) /\ t.nonce = Nonce
    BY <1>1, <2>1 DEF Applicable, SignedExtra
  <2>5. birth <= h - 1 /\ t.birth = BlockHash(birth)
    BY <2>4 DEF CheckEra, HashKnown
  <2>6. birth = t.birth[1]
    BY <2>5 DEF BlockHash
  <2> HIDE DEF t, birth
  <2>7. birth \in Nat /\ birth < h
    BY <1>2, <2>3, <2>5, <2>6
  <2>8. h < birth + Period
    BY <1>2, <2>3, <2>7, BirthRecent DEF birth
  <2>9. t.birth = IF birth = 0 THEN <<0, 0>> ELSE <<birth, chain'[birth].fork>>
    BY <1>2, <1>4, <2>5, <2>7 DEF BlockHash
  <2>10. h - 1 = Height
    BY <1>2
  <2>11. /\ TxsUpTo(chain', h - 1) = TxsUpTo(chain, Height)
         /\ UpgradesUpTo(chain', h - 1) = UpgradesUpTo(chain, Height)
    BY <1>4, <2>10 DEF TxsUpTo, UpgradesUpTo
  <2>12. /\ Nonce = Cardinality(TxsUpTo(chain, Height))
         /\ SpecVersion = Cardinality(UpgradesUpTo(chain, Height))
    BY DEF Nonce, SpecVersion, TxsUpTo, UpgradesUpTo
  <2> QED
    BY <2>2, <2>4, <2>6, <2>7, <2>8, <2>9, <2>11, <2>12 DEF Sound
<1>10. \A n \in 1 .. Height : Sound(chain', n)
  <2>1. TAKE n \in 1 .. Height
  <2>2. Sound(chain, n)
    BY SoundIsInv DEF IInv
  <2> QED
    BY <1>2, <1>4, <2>2, Births, SoundKept
<1>11. NonceCounts' /\ AppliedInEraOnFork' /\ SameRuntime'
  <2>1. \A n \in 1 .. Height' : n \in 1 .. Height \/ n = h
    BY <1>2, <1>5
  <2> QED
    BY <1>9, <1>10, <2>1, SoundIsInvPrimed
<1> QED
  BY <1>7, <1>8, <1>11 DEF IInv

LEMMA ReorganiseStep ==
  ASSUME IInv, NEW k \in 0 .. Height - 1, Reorganise(k)
  PROVE  IInv'
<1>1. /\ fork < MaxFork /\ fork' = fork + 1
      /\ chain' = SubSeq(chain, 1, k) /\ pool' = pool /\ refused' = refused
  BY DEF Reorganise
<1>2. Typed /\ Height \in Nat /\ chain \in Seq(Block) /\ fork \in 0 .. MaxFork /\ k \in Nat
  BY Blocks DEF IInv, Typed
<1>3. /\ chain' \in Seq(Block) /\ Len(chain') = k
      /\ \A m \in 1 .. k : chain'[m] = chain[m]
  BY <1>1, <1>2 DEF Height
<1>4. Height' = k
  BY <1>3 DEF Height
<1>5. Block \subseteq Block'
  BY <1>1, <1>2 DEF Block, Tx
<1>6. SpecVersion' <= MaxSpecVersion
  <2>1. SpecVersion' = Cardinality(UpgradesUpTo(chain', k))
    BY <1>4 DEF SpecVersion, UpgradesUpTo
  <2>2. UpgradesUpTo(chain', k) \in SUBSET UpgradesUpTo(chain, Height)
    BY <1>2, <1>3 DEF UpgradesUpTo
  <2>3. SpecVersion = Cardinality(UpgradesUpTo(chain, Height)) /\ SpecVersion \in Nat
    BY <1>2, Counts DEF SpecVersion, UpgradesUpTo
  <2>4. IsFiniteSet(UpgradesUpTo(chain, Height)) /\ SpecVersion' \in Nat
    BY <1>2, <2>1, Counts
  <2>5. SpecVersion' <= SpecVersion
    BY <2>1, <2>2, <2>3, <2>4, FS_Subset
  <2> QED
    BY <1>2, <2>3, <2>4, <2>5, BoundsAssumption DEF Typed
<1>7. chain' \in Seq(Block')
  BY <1>3, <1>5
<1>8. Typed'
  BY <1>1, <1>2, <1>4, <1>6, <1>7, BoundsAssumption DEF Typed, Transaction
<1>9. PayloadAlwaysBuilt' /\ BornInPhase'
  BY <1>1 DEF IInv, PayloadAlwaysBuilt, BornInPhase
<1>10. \A n \in 1 .. k : Sound(chain', n)
  <2>1. TAKE n \in 1 .. k
  <2>2. n \in 1 .. Height
    BY <1>2
  <2>3. Sound(chain, n)
    BY <2>2, SoundIsInv DEF IInv
  <2> QED
    BY <1>2, <1>3, <2>2, <2>3, Births, SoundKept
<1>11. NonceCounts' /\ AppliedInEraOnFork' /\ SameRuntime'
  BY <1>4, <1>10, SoundIsInvPrimed
<1> QED
  BY <1>8, <1>9, <1>11 DEF IInv

-----------------------------------------------------------------------------
(* The theorems *)

LEMMA InitIInv == Init => IInv
<1> SUFFICES ASSUME Init PROVE IInv
  OBVIOUS
<1>1. chain = << >> /\ fork = 0 /\ pool = {} /\ refused = {} /\ Height = 0
  BY DEF Init, Height
<1>2. SpecVersion = 0 /\ IsFiniteSet(pool) /\ Cardinality(pool) = 0
  <2>1. {n \in 1 .. Height : chain[n].upgrade} = {}
    BY <1>1
  <2> QED
    BY <1>1, <2>1, FS_EmptySet DEF SpecVersion
<1>3. Typed
  <2>1. chain \in Seq(Block)
    BY <1>1
  <2>2. Height <= MaxHeight /\ fork \in 0 .. MaxFork /\ SpecVersion <= MaxSpecVersion
    BY <1>1, <1>2, BoundsAssumption
  <2>3. pool \subseteq Transaction /\ IsFiniteSet(pool) /\ Cardinality(pool) <= MaxSigned
    BY <1>1, <1>2, BoundsAssumption
  <2>4. refused \subseteq {"payload", "signature"}
    BY <1>1
  <2> QED
    BY <2>1, <2>2, <2>3, <2>4 DEF Typed
<1>4. PayloadAlwaysBuilt /\ BornInPhase /\ NonceCounts /\ AppliedInEraOnFork /\ SameRuntime
  BY <1>1 DEF PayloadAlwaysBuilt, BornInPhase, NonceCounts, AppliedInEraOnFork, SameRuntime
<1> QED
  BY <1>3, <1>4 DEF IInv

LEMMA NextIInv == IInv /\ [Next]_vars => IInv'
<1> SUFFICES ASSUME IInv, [Next]_vars PROVE IInv'
  OBVIOUS
<1>1. CASE UNCHANGED vars
  BY <1>1 DEF vars, IInv, Typed, Height, Block, Tx, Transaction, SpecVersion, PayloadAlwaysBuilt,
     BornInPhase, NonceCounts, AppliedInEraOnFork, SameRuntime, BlockHash
<1>2. CASE Sign
  BY <1>2, SignStep
<1>3. CASE \E upgrade \in BOOLEAN : NewBlock(<< >>, upgrade)
  <2>1. << >> \in Tx
    BY DEF Tx
  <2> QED
    BY <1>3, <2>1, BlockStep
<1>4. CASE \E t \in pool : NewBlock(<<t>>, FALSE)
  <2>1. \A t \in pool : <<t>> \in Tx
    BY DEF Tx
  <2> QED
    BY <1>4, <2>1, BlockStep
<1>5. CASE \E n \in 0 .. Height - 1 : Reorganise(n)
  BY <1>5, ReorganiseStep
<1> QED
  BY <1>1, <1>2, <1>3, <1>4, <1>5 DEF Next

LEMMA Invariance == Spec => []IInv
  BY InitIInv, NextIInv, PTL DEF Spec

\* The type, from the invariant.
LEMMA IInvTyped == IInv => TypeOK
<1> SUFFICES ASSUME IInv PROVE TypeOK
  OBVIOUS
<1>1. Typed
  BY DEF IInv
<1>2. \A n \in 1 .. Height :
        chain[n] \in [fork : 0 .. fork, tx : {<< >>} \cup {<<t>> : t \in pool}, upgrade : BOOLEAN]
  BY <1>1, Blocks DEF Block, Tx
<1> QED
  BY <1>1, <1>2 DEF Typed, TypeOK

\* Every variable keeps its type; no nonce that is signed exceeds the number of
\* transactions, because none of them is executed twice.
THEOREM TypeCorrect == Spec => []TypeOK
  BY IInvTyped, Invariance, PTL

\* create_transaction never fails for want of a birth hash: whatever BlockHashCount
\* is, the block its era is born in has not been pruned.  What is left of its
\* None is a keystore that does not sign.
THEOREM PayloadIsBuilt == Spec => []PayloadAlwaysBuilt
<1>1. IInv => PayloadAlwaysBuilt
  BY DEF IInv
<1> QED
  BY <1>1, Invariance, PTL

\* CheckNonce: no transaction is on a chain twice.
THEOREM NoReplays == Spec => []NoReplay
<1>1. IInv => NoReplay
  BY Distinct DEF IInv
<1> QED
  BY <1>1, Invariance, PTL

\* CheckEra: within a period of its birth and on a chain that has the block.
THEOREM InEraOnFork == Spec => []AppliedInEraOnFork
<1>1. IInv => AppliedInEraOnFork
  BY DEF IInv
<1> QED
  BY <1>1, Invariance, PTL

\* CheckSpecVersion: by the runtime it was signed for.
THEOREM OneRuntime == Spec => []SameRuntime
<1>1. IInv => SameRuntime
  BY DEF IInv
<1> QED
  BY <1>1, Invariance, PTL

\* As long as its era lasts, nothing but its nonce, a fork or an upgrade can
\* make a transaction inapplicable: the period never exceeds the window of
\* known hashes.
THEOREM AliveApplies == Spec => []AliveIsApplicable
<1>1. IInv => AliveIsApplicable
  <2> SUFFICES ASSUME IInv, NEW t \in pool, t.birth[1] <= Height,
                      t.birth = BlockHash(t.birth[1]), Height + 1 < t.birth[1] + Period,
                      t.nonce = Nonce, t.spec = SpecVersion
               PROVE  Applicable(t)
    BY DEF AliveIsApplicable
  <2> DEFINE born == t.birth[1]
             number == Height + 1
  <2>1. Height \in Nat /\ t \in Transaction
    BY Blocks DEF IInv, Typed
  <2>2. PICK q \in Nat : born = q * Period + t.phase
    BY DEF IInv, BornInPhase
  <2>3. born \in Nat /\ t.phase \in 0 .. Period - 1
    BY <2>1 DEF Transaction
  <2>4. Period \in Nat /\ Period <= BlockHashCount + 2 /\ BlockHashCount \in Nat
    BY PeriodBounds, BlockHashCountAssumption
  <2> HIDE DEF born
  <2>5. EraBirth(t.phase, number) = born
    BY <2>1, <2>2, <2>3, <2>4, BirthWithin DEF born
  <2>6. HashKnown(born, number)
    BY <2>1, <2>3, <2>4 DEF HashKnown, born
  <2>7. CheckEra(t, number)
    BY <2>5, <2>6 DEF CheckEra, born
  <2> QED
    BY <2>7 DEF Applicable
<1> QED
  BY <1>1, Invariance, PTL

=============================================================================
