------------------------- MODULE DatalogOnChainProofs -------------------------
(***************************************************************************)
(* What data() returns after any blocks, branches and deliveries, proved   *)
(* for every window size, every BlockHashCount and chains of any length.   *)
(* The argument joins the proofs of the two parts: the ring lemmas say     *)
(* where an item is, the nonces of SignedTransaction in which order.       *)
(***************************************************************************)
EXTENDS DatalogOnChain, SignedTransactionProofs, RingBufferIndexProofs, TLAPS

-----------------------------------------------------------------------------
(* The records of a chain *)

\* Executes and Records for any chain c and any calls l.
Runs(c, l, n, call) == c[n].tx # << >> /\ l[c[n].tx[1]] = call
RecordsOf(c, l, n) ==
  {m \in 1 .. n : Runs(c, l, m, "record") /\ \A e \in m + 1 .. n : ~Runs(c, l, e, "erase")}

\* How many of the records in R are newer than that of block n.
Newer(R, n) == Cardinality({m \in R : m > n})

\* The storage s holds the newest of the records R, in their order.
Count(R) == IF Cardinality(R) < WindowSize THEN Cardinality(R) ELSE WindowSize - 1

Holds(s, c, R) ==
  /\ s.index \in RingIndex(WindowSize) /\ Shape(s.index)
  /\ IndexCount(s.index, WindowSize) = Count(R)
  /\ \A k \in 1 .. Count(R) :
       /\ IndexSlot(s.index, WindowSize, k) \in DOMAIN s.items
       /\ \E n \in R : /\ s.items[IndexSlot(s.index, WindowSize, k)] = c[n].tx[1]
                       /\ Newer(R, n) = Count(R) - k

\* Records are blocks of the chain, so they can be counted.
LEMMA RecordsFinite ==
  ASSUME NEW c, NEW l, NEW n \in Nat
  PROVE  /\ RecordsOf(c, l, n) \in SUBSET (1 .. n)
         /\ IsFiniteSet(RecordsOf(c, l, n)) /\ Cardinality(RecordsOf(c, l, n)) \in Nat
<1>1. IsFiniteSet(1 .. n)
  BY FS_Interval
<1>2. RecordsOf(c, l, n) \in SUBSET (1 .. n)
  BY DEF RecordsOf
<1> QED
  BY <1>1, <1>2, FS_Subset, FS_CardinalityType

\* What a window has room for.
LEMMA CountBound ==
  ASSUME NEW R, Cardinality(R) \in Nat
  PROVE  Count(R) \in 0 .. WindowSize - 1
BY WindowAssumption DEF Count

\* Blocks and calls that agree up to n have the same records.
LEMMA RecordsKept ==
  ASSUME NEW c, NEW l, NEW d, NEW k, NEW n \in Nat,
         \A m \in 1 .. n : d[m] = c[m] /\ (c[m].tx # << >> => k[c[m].tx[1]] = l[c[m].tx[1]])
  PROVE  RecordsOf(d, k, n) = RecordsOf(c, l, n)
<1>1. \A m \in 1 .. n : Runs(d, k, m, "record") <=> Runs(c, l, m, "record")
  BY DEF Runs
<1>2. \A m \in 1 .. n : Runs(d, k, m, "erase") <=> Runs(c, l, m, "erase")
  BY DEF Runs
<1>3. \A m \in 1 .. n : \A e \in m + 1 .. n : e \in 1 .. n
  OBVIOUS
<1> QED
  BY <1>1, <1>2, <1>3 DEF RecordsOf

\* One block more: a record joins, an erase removes all, and any other block
\* leaves them alone.
LEMMA RecordsStep ==
  ASSUME NEW c, NEW l, NEW n \in Nat
  PROVE  /\ Runs(c, l, n + 1, "record") => RecordsOf(c, l, n + 1) = RecordsOf(c, l, n) \cup {n + 1}
         /\ Runs(c, l, n + 1, "erase") => RecordsOf(c, l, n + 1) = {}
         /\ (~Runs(c, l, n + 1, "record") /\ ~Runs(c, l, n + 1, "erase"))
              => RecordsOf(c, l, n + 1) = RecordsOf(c, l, n)
<1>1. \A m \in 1 .. n : m + 1 .. n + 1 = (m + 1 .. n) \cup {n + 1}
  OBVIOUS
<1>2. 1 .. n + 1 = (1 .. n) \cup {n + 1} /\ n + 1 \notin 1 .. n /\ (n + 1) + 1 .. n + 1 = {}
  OBVIOUS
<1>3. Runs(c, l, n + 1, "record") => ~Runs(c, l, n + 1, "erase")
  BY DEF Runs
<1>4. ASSUME ~Runs(c, l, n + 1, "erase")
      PROVE  \A m \in 1 .. n : m \in RecordsOf(c, l, n + 1) <=> m \in RecordsOf(c, l, n)
  BY <1>1, <1>2, <1>4 DEF RecordsOf
<1>5. n + 1 \in RecordsOf(c, l, n + 1) <=> Runs(c, l, n + 1, "record")
  BY <1>2 DEF RecordsOf
<1>6. RecordsOf(c, l, n + 1) \subseteq 1 .. n + 1 /\ RecordsOf(c, l, n) \subseteq 1 .. n
  BY DEF RecordsOf
<1>7. ASSUME Runs(c, l, n + 1, "erase") PROVE RecordsOf(c, l, n + 1) = {}
  <2>1. ~Runs(c, l, n + 1, "record")
    BY <1>3, <1>7
  <2>2. \A m \in 1 .. n : m \notin RecordsOf(c, l, n + 1)
    BY <1>1, <1>7 DEF RecordsOf
  <2> QED
    BY <1>2, <1>5, <1>6, <2>1, <2>2
<1> QED
  BY <1>2, <1>3, <1>4, <1>5, <1>6, <1>7

\* A newer record makes all others one place older.
LEMMA NewerStep ==
  ASSUME NEW h \in Nat, NEW R \in SUBSET (1 .. h)
  PROVE  LET S == R \cup {h + 1}
         IN  /\ Cardinality(S) = Cardinality(R) + 1
             /\ Newer(S, h + 1) = 0
             /\ \A n \in R : Newer(S, n) = Newer(R, n) + 1
<1> DEFINE S == R \cup {h + 1}
<1>0. \A m \in R : m \in Nat /\ m <= h
  OBVIOUS
<1>1. IsFiniteSet(R) /\ h + 1 \notin R
  <2>1. IsFiniteSet(1 .. h)
    BY FS_Interval
  <2>2. IsFiniteSet(R)
    BY <2>1, FS_Subset
  <2> QED
    BY <1>0, <2>2
<1>2. Cardinality(S) = Cardinality(R) + 1
  BY <1>1, FS_AddElement
<1>3. Newer(S, h + 1) = 0
  <2>1. \A m \in S : ~(m > h + 1)
    BY <1>0
  <2>2. {m \in S : m > h + 1} = {}
    BY <2>1
  <2> QED
    BY <2>2, FS_EmptySet DEF Newer
<1>4. ASSUME NEW n \in R PROVE Newer(S, n) = Newer(R, n) + 1
  <2> DEFINE T == {m \in R : m > n}
  <2>1. IsFiniteSet(T) /\ h + 1 \notin T
    <3>1. T \in SUBSET R
      OBVIOUS
    <3> QED
      BY <1>1, <3>1, FS_Subset
  <2>2. {m \in S : m > n} = T \cup {h + 1}
    BY <1>0
  <2> HIDE DEF T
  <2>3. Cardinality(T \cup {h + 1}) = Cardinality(T) + 1
    BY <2>1, FS_AddElement
  <2> QED
    BY <2>2, <2>3 DEF Newer, T
<1> QED
  BY <1>2, <1>3, <1>4

-----------------------------------------------------------------------------
(* Execution *)

\* The genesis storage.
LEMMA NoneHeld ==
  ASSUME NEW c
  PROVE  Holds(NoStorage, c, {})
<1>1. Cardinality({}) = 0 /\ Count({}) = 0
  BY FS_EmptySet, WindowAssumption DEF Count
<1>2. IndexCount(DefaultIndex, WindowSize) = 0
  BY DEF IndexCount, DefaultIndex
<1> QED
  BY <1>1, <1>2, WindowAssumption DEF Holds, NoStorage, DefaultIndex, RingIndex, Shape

\* What a storage holds depends on the blocks of its records only.
LEMMA HeldKept ==
  ASSUME NEW s, NEW c, NEW d, NEW R, Holds(s, c, R), \A n \in R : d[n] = c[n]
  PROVE  Holds(s, d, R)
BY DEF Holds

\* erase: nothing is held.
LEMMA ErasedHeld ==
  ASSUME NEW s, NEW c
  PROVE  Holds(Erased(s), c, {})
<1>1. Cardinality({}) = 0 /\ Count({}) = 0
  BY FS_EmptySet, WindowAssumption DEF Count
<1>2. IndexCount(DefaultIndex, WindowSize) = 0
  BY DEF IndexCount, DefaultIndex
<1>3. DefaultIndex \in RingIndex(WindowSize) /\ Shape(DefaultIndex)
  BY WindowAssumption DEF DefaultIndex, RingIndex, Shape
<1>4. Erased(s).index = DefaultIndex
  BY DEF Erased
<1> QED
  BY <1>1, <1>2, <1>3, <1>4 DEF Holds

\* record: the item of the new block is the newest, and the oldest one leaves
\* a full window.
LEMMA RecordedHeld ==
  ASSUME NEW s, NEW c, NEW h \in Nat, NEW R \in SUBSET (1 .. h), Holds(s, c, R),
         NEW d, \A n \in R : d[n] = c[n], NEW t, d[h + 1].tx[1] = t
  PROVE  Holds(Recorded(s, t), d, R \cup {h + 1})
<1> DEFINE S    == R \cup {h + 1}
           W    == WindowSize
           q    == Count(R)
           new  == IndexAdd(s.index, W).index
           slot == s.index.end
           r    == Recorded(s, t)
<1>1. W \in Nat \ {0} /\ s.index \in RingIndex(W) /\ Shape(s.index) /\ IndexCount(s.index, W) = q
  BY WindowAssumption DEF Holds
<1>2. q \in 0 .. W - 1
  BY <1>1, RingCount
<1>3. /\ Cardinality(S) = Cardinality(R) + 1 /\ Newer(S, h + 1) = 0
      /\ \A n \in R : Newer(S, n) = Newer(R, n) + 1
  BY NewerStep
<1>4. Cardinality(R) \in Nat
  <2>1. IsFiniteSet(1 .. h)
    BY FS_Interval
  <2> QED
    BY <2>1, FS_Subset, FS_CardinalityType
<1>5. /\ r.index = new
      /\ slot \in DOMAIN r.items /\ r.items[slot] = t
      /\ \A i \in DOMAIN s.items : i \in DOMAIN r.items /\ (i # slot => r.items[i] = s.items[i])
  BY DEF Recorded, IndexAdd
<1>6. new \in RingIndex(W) /\ Shape(new)
  BY <1>1, RingAdd, RingShape
<1>7. \A k \in 1 .. q : IndexSlot(s.index, W, k) # slot
  BY <1>1, RingStep
\* A slot of the old window in the new storage.
<1>8. \A k \in 1 .. q : LET i == IndexSlot(s.index, W, k)
                        IN  /\ i \in DOMAIN r.items
                            /\ \E n \in S : r.items[i] = d[n].tx[1] /\ Newer(S, n) = q - k + 1
  <2> SUFFICES ASSUME NEW k \in 1 .. q
               PROVE  LET i == IndexSlot(s.index, W, k)
                      IN  /\ i \in DOMAIN r.items
                          /\ \E n \in S : r.items[i] = d[n].tx[1] /\ Newer(S, n) = q - k + 1
    OBVIOUS
  <2> DEFINE i == IndexSlot(s.index, W, k)
  <2>1. i \in DOMAIN s.items
    BY DEF Holds
  <2>2. PICK n \in R : s.items[i] = c[n].tx[1] /\ Newer(R, n) = q - k
    BY DEF Holds
  <2>3. i # slot
    BY <1>7
  <2> HIDE DEF i, r, slot, q
  <2>4. i \in DOMAIN r.items /\ r.items[i] = d[n].tx[1]
    BY <1>5, <2>1, <2>2, <2>3
  <2>5. Newer(S, n) = q - k + 1
    BY <1>3, <2>2
  <2> QED
    BY <2>4, <2>5 DEF i
<1>9. r.items[slot] = d[h + 1].tx[1] /\ h + 1 \in S
  BY <1>5
<1>10. CASE q < W - 1
  <2>1. /\ IndexCount(new, W) = q + 1
        /\ \A k \in 1 .. q + 1 : IndexSlot(new, W, k) = IndexSlot(s.index, W, k)
        /\ IndexSlot(s.index, W, q + 1) = slot
    BY <1>1, <1>10, RingStep
  <2>2. Count(S) = q + 1
    BY <1>1, <1>3, <1>4, <1>10 DEF Count
  <2> HIDE DEF r, slot, q, new, S
  <2>3. ASSUME NEW k \in 1 .. Count(S)
        PROVE  /\ IndexSlot(new, W, k) \in DOMAIN r.items
               /\ \E n \in S : r.items[IndexSlot(new, W, k)] = d[n].tx[1] /\ Newer(S, n) = Count(S) - k
    <3>1. CASE k = q + 1
      <4>1. IndexSlot(new, W, k) = slot /\ Count(S) - k = 0
        BY <1>2, <2>1, <2>2, <3>1
      <4> QED
        BY <1>3, <1>5, <1>9, <4>1
    <3>2. CASE k # q + 1
      <4>1. k \in 1 .. q /\ IndexSlot(new, W, k) = IndexSlot(s.index, W, k) /\ q - k + 1 = Count(S) - k
        BY <1>2, <2>1, <2>2, <3>2
      <4> QED
        BY <1>8, <4>1
    <3> QED
      BY <3>1, <3>2
  <2>4. Holds(r, d, S)
    BY <1>5, <1>6, <2>1, <2>2, <2>3 DEF Holds
  <2> QED
    BY <2>4 DEF r, S
<1>11. CASE q = W - 1
  <2>1. /\ IndexCount(new, W) = q
        /\ \A k \in 1 .. q : k # q => IndexSlot(new, W, k) = IndexSlot(s.index, W, k + 1)
        /\ q # 0 => IndexSlot(new, W, q) = slot
    BY <1>1, <1>11, RingStep
  <2>2. Count(S) = q
    BY <1>1, <1>3, <1>4, <1>11 DEF Count
  <2> HIDE DEF r, slot, q, new, S
  <2>3. ASSUME NEW k \in 1 .. q
        PROVE  /\ IndexSlot(new, W, k) \in DOMAIN r.items
               /\ \E n \in S : r.items[IndexSlot(new, W, k)] = d[n].tx[1] /\ Newer(S, n) = q - k
    <3>1. CASE k = q
      <4>1. IndexSlot(new, W, k) = slot /\ q - k = 0
        BY <1>2, <2>1, <3>1
      <4> QED
        BY <1>3, <1>5, <1>9, <4>1
    <3>2. CASE k # q
      <4> DEFINE j == k + 1
      <4>1. j \in 1 .. q /\ IndexSlot(new, W, k) = IndexSlot(s.index, W, j) /\ q - j + 1 = q - k
        BY <1>2, <2>1, <3>2
      <4> HIDE DEF j
      <4> QED
        BY <1>8, <4>1
    <3> QED
      BY <3>1, <3>2
  <2>4. Holds(r, d, S)
    BY <1>5, <1>6, <2>1, <2>2, <2>3 DEF Holds
  <2> QED
    BY <2>4 DEF r, S
<1>12. q < W - 1 \/ q = W - 1
  BY <1>1, <1>2
<1> QED
  BY <1>10, <1>11, <1>12

-----------------------------------------------------------------------------
(* The invariant *)

\* Every block's storage, also one that a new branch may go back to, holds the
\* newest of the records executed up to that block.
EachHolds == \A n \in 1 .. Height : Holds(storage[n], chain, RecordsOf(chain, calls, n))

ItemsSigned ==
  \A n \in 1 .. Height : \A i \in DOMAIN storage[n].items : storage[n].items[i] \in pool

CallsTyped == DOMAIN calls = pool /\ \A t \in pool : calls[t] \in Calls

OnePerBlock == storage = [n \in 1 .. Height |-> storage[n]]

IInvOnChain ==
  /\ IInv
  /\ CallsTyped
  /\ OnePerBlock
  /\ ItemsSigned
  /\ EachHolds

\* What a block executes was signed.
LEMMA ExecutedSigned ==
  ASSUME IInv
  PROVE  /\ Height \in Nat /\ chain \in Seq(Block)
         /\ \A n \in 1 .. Height : chain[n].tx # << >> => chain[n].tx[1] \in pool
<1>1. Typed
  BY DEF IInv
<1>2. Height \in Nat /\ \A n \in 1 .. Height : chain[n].tx \in Tx
  BY <1>1, Blocks
<1> QED
  BY <1>1, <1>2 DEF Tx, Typed

\* The storage the next block is executed on.
LEMMA ParentHeld ==
  ASSUME IInvOnChain
  PROVE  /\ Holds(StorageAt(Height), chain, RecordsOf(chain, calls, Height))
         /\ \A i \in DOMAIN StorageAt(Height).items : StorageAt(Height).items[i] \in pool
<1>1. Height \in Nat
  BY ExecutedSigned DEF IInvOnChain
<1>2. CASE Height = 0
  <2>1. RecordsOf(chain, calls, Height) = {} /\ StorageAt(Height) = NoStorage
    BY <1>2 DEF RecordsOf, StorageAt
  <2>2. DOMAIN NoStorage.items = {}
    BY DEF NoStorage
  <2> QED
    BY <2>1, <2>2, NoneHeld
<1>3. CASE Height # 0
  <2>1. Height \in 1 .. Height /\ StorageAt(Height) = storage[Height]
    BY <1>1, <1>3 DEF StorageAt
  <2> QED
    BY <2>1 DEF IInvOnChain, EachHolds, ItemsSigned
<1> QED
  BY <1>2, <1>3

LEMMA InitOnChainIInv == InitOnChain => IInvOnChain
<1> SUFFICES ASSUME InitOnChain PROVE IInvOnChain
  OBVIOUS
<1>1. IInv
  BY InitIInv DEF InitOnChain
<1>2. Height = 0 /\ pool = {} /\ calls = << >> /\ storage = << >>
  BY DEF InitOnChain, Init, Height
<1>3. CallsTyped /\ OnePerBlock
  BY <1>2 DEF CallsTyped, OnePerBlock
<1>4. EachHolds /\ ItemsSigned
  BY <1>2 DEF EachHolds, ItemsSigned
<1> QED
  BY <1>1, <1>3, <1>4 DEF IInvOnChain

\* Signing gives the new transaction its call and no block another one.
LEMMA SignCallStep ==
  ASSUME IInvOnChain, NEW call \in Calls, SignCall(call)
  PROVE  IInvOnChain'
<1>1. /\ Sign /\ storage' = storage
      /\ calls' = [t \in pool' |-> IF t \in pool THEN calls[t] ELSE call]
  BY DEF SignCall
<1>2. chain' = chain /\ pool \subseteq pool' /\ Height' = Height
  BY <1>1 DEF Sign, CreateTransaction, Height
<1>3. IInv'
  BY <1>1, SignStep DEF IInvOnChain
<1>4. CallsTyped'
  BY <1>1, <1>2 DEF IInvOnChain, CallsTyped
<1>5. OnePerBlock' /\ ItemsSigned'
  BY <1>1, <1>2 DEF IInvOnChain, OnePerBlock, ItemsSigned
<1>6. EachHolds'
  <2> SUFFICES ASSUME NEW n \in 1 .. Height
               PROVE  Holds(storage[n], chain, RecordsOf(chain, calls', n))
    BY <1>1, <1>2 DEF EachHolds
  <2>1. n \in Nat /\ \A m \in 1 .. n : chain[m].tx # << >> => chain[m].tx[1] \in pool
    BY ExecutedSigned DEF IInvOnChain
  <2>2. \A m \in 1 .. n : chain[m].tx # << >> => calls'[chain[m].tx[1]] = calls[chain[m].tx[1]]
    BY <1>1, <1>2, <2>1
  <2>3. RecordsOf(chain, calls', n) = RecordsOf(chain, calls, n)
    BY <2>1, <2>2, RecordsKept
  <2> QED
    BY <2>3 DEF IInvOnChain, EachHolds
<1> QED
  BY <1>3, <1>4, <1>5, <1>6 DEF IInvOnChain

\* The part of a chain and of its storages up to block k, when the calls stay.
LEMMA PrefixHeld ==
  ASSUME IInvOnChain, NEW d, NEW k \in Nat, k <= Height, \A m \in 1 .. k : d[m] = chain[m],
         NEW n \in 1 .. k
  PROVE  Holds(storage[n], d, RecordsOf(d, calls, n))
<1>1. Height \in Nat /\ n \in Nat /\ n \in 1 .. Height
  BY ExecutedSigned DEF IInvOnChain
<1>2. \A m \in 1 .. n : d[m] = chain[m]
  OBVIOUS
<1>3. RecordsOf(d, calls, n) = RecordsOf(chain, calls, n)
  BY <1>1, <1>2, RecordsKept
<1>4. Holds(storage[n], chain, RecordsOf(chain, calls, n))
  BY <1>1 DEF IInvOnChain, EachHolds
<1>5. \A m \in RecordsOf(chain, calls, n) : d[m] = chain[m]
  BY <1>2 DEF RecordsOf
<1> QED
  BY <1>3, <1>4, <1>5, HeldKept

\* A reorganisation goes back to the storage of the block where it leaves.
LEMMA SwitchBranchStep ==
  ASSUME IInvOnChain, NEW k \in 0 .. Height - 1, SwitchBranch(k)
  PROVE  IInvOnChain'
<1>1. /\ Reorganise(k) /\ storage' = SubSeq(storage, 1, k) /\ calls' = calls
      /\ chain' = SubSeq(chain, 1, k) /\ pool' = pool
  BY DEF SwitchBranch, Reorganise
<1>2. Height \in Nat /\ chain \in Seq(Block) /\ k \in Nat /\ k <= Height
  BY ExecutedSigned DEF IInvOnChain
<1>3. IInv'
  BY <1>1, ReorganiseStep DEF IInvOnChain
<1>4. Height' = k /\ \A m \in 1 .. k : chain'[m] = chain[m]
  <2>1. Len(chain) = Height
    BY DEF Height
  <2>2. Len(SubSeq(chain, 1, k)) = k /\ \A m \in 1 .. k : SubSeq(chain, 1, k)[m] = chain[m]
    BY <1>2, <2>1
  <2> QED
    BY <1>1, <2>2 DEF Height
<1>5. storage' = [n \in 1 .. k |-> storage[n]]
  <2> DEFINE X == {storage[n] : n \in 1 .. Height}
  <2>1. storage \in [1 .. Height -> X]
    BY DEF IInvOnChain, OnePerBlock
  <2> HIDE DEF X
  <2>2. storage \in Seq(X) /\ Len(storage) = Height
    BY <1>2, <2>1
  <2> QED
    BY <1>1, <1>2, <2>2
<1>6. CallsTyped' /\ OnePerBlock'
  BY <1>1, <1>4, <1>5 DEF IInvOnChain, CallsTyped, OnePerBlock
<1>7. ItemsSigned'
  BY <1>1, <1>2, <1>4, <1>5 DEF IInvOnChain, ItemsSigned
<1>8. EachHolds'
  <2> SUFFICES ASSUME NEW n \in 1 .. k
               PROVE  Holds(storage'[n], chain', RecordsOf(chain', calls', n))
    BY <1>4 DEF EachHolds
  <2>1. Holds(storage[n], chain', RecordsOf(chain', calls, n))
    BY <1>2, <1>4, PrefixHeld
  <2>2. storage'[n] = storage[n]
    BY <1>5
  <2> QED
    BY <1>1, <2>1, <2>2
<1> QED
  BY <1>3, <1>6, <1>7, <1>8 DEF IInvOnChain

\* The call of one transaction, executed on the storage of the parent.
LEMMA DispatchHeld ==
  ASSUME NEW s, NEW c, NEW d, NEW h \in Nat, NEW t, calls[t] \in Calls, d[h + 1].tx = <<t>>,
         \A m \in 1 .. h : d[m] = c[m], Holds(s, c, RecordsOf(c, calls, h))
  PROVE  Holds(Dispatch(s, t), d, RecordsOf(d, calls, h + 1))
<1> DEFINE R == RecordsOf(d, calls, h)
<1>1. R = RecordsOf(c, calls, h) /\ R \in SUBSET (1 .. h)
  BY RecordsKept, RecordsFinite
<1>2. Holds(s, c, R) /\ \A n \in R : d[n] = c[n]
  BY <1>1
<1>3. d[h + 1].tx # << >> /\ d[h + 1].tx[1] = t
  OBVIOUS
<1>4. \A call : Runs(d, calls, h + 1, call) <=> calls[t] = call
  BY <1>3 DEF Runs
<1> HIDE DEF R
<1>5. CASE calls[t] = "record"
  <2>1. RecordsOf(d, calls, h + 1) = R \cup {h + 1}
    BY <1>4, <1>5, RecordsStep DEF R
  <2>2. Dispatch(s, t) = Recorded(s, t)
    BY <1>5 DEF Dispatch
  <2> QED
    <3>1. Holds(Recorded(s, t), d, R \cup {h + 1})
      BY <1>1, <1>2, <1>3, RecordedHeld
    <3> QED
      BY <2>1, <2>2, <3>1
<1>6. CASE calls[t] = "erase"
  <2>1. RecordsOf(d, calls, h + 1) = {}
    BY <1>4, <1>6, RecordsStep
  <2>2. Dispatch(s, t) = Erased(s)
    BY <1>6 DEF Dispatch
  <2> QED
    BY <2>1, <2>2, ErasedHeld
<1>7. CASE calls[t] = "record too big"
  <2>1. RecordsOf(d, calls, h + 1) = R
    <3>1. ~Runs(d, calls, h + 1, "record") /\ ~Runs(d, calls, h + 1, "erase")
      BY <1>3, <1>7 DEF Runs
    <3> QED
      BY <3>1, RecordsStep DEF R
  <2>2. Dispatch(s, t) = s
    BY <1>7 DEF Dispatch
  <2> QED
    BY <1>2, <2>1, <2>2, HeldKept
<1> QED
  BY <1>5, <1>6, <1>7 DEF Calls

\* Its items are those of the parent and its own.
LEMMA DispatchItems ==
  ASSUME NEW s, NEW t \in pool, calls[t] \in Calls, \A i \in DOMAIN s.items : s.items[i] \in pool
  PROVE  \A i \in DOMAIN Dispatch(s, t).items : Dispatch(s, t).items[i] \in pool
<1>1. \A i \in DOMAIN Recorded(s, t).items : Recorded(s, t).items[i] \in pool
  BY DEF Recorded
<1>2. \A i \in DOMAIN Erased(s).items : Erased(s).items[i] \in pool
  BY DEF Erased
<1>3. Dispatch(s, t) \in {Recorded(s, t), Erased(s), s}
  BY DEF Dispatch, Calls
<1> QED
  BY <1>1, <1>2, <1>3

\* execute_block adds a storage that holds what its parent's did and the call.
LEMMA ExecuteBlockStep ==
  ASSUME IInvOnChain, NEW tx \in Tx, ExecuteBlock(tx)
  PROVE  IInvOnChain'
<1> DEFINE h      == Height
           parent == StorageAt(h)
           post   == IF tx = << >> THEN parent ELSE Dispatch(parent, tx[1])
           b      == [fork |-> fork, tx |-> tx, upgrade |-> FALSE]
<1>1. /\ NewBlock(tx, FALSE) /\ storage' = Append(storage, post) /\ calls' = calls
      /\ chain' = Append(chain, b) /\ pool' = pool
  BY DEF ExecuteBlock, NewBlock
<1>2. h \in Nat /\ chain \in Seq(Block) /\ Len(chain) = h
  BY ExecutedSigned DEF IInvOnChain, Height
<1>3. IInv'
  BY <1>1, BlockStep DEF IInvOnChain
<1>4. /\ Height' = h + 1 /\ \A m \in 1 .. h : chain'[m] = chain[m]
      /\ chain'[h + 1] = b
  <2> HIDE DEF h, b
  <2>1. /\ Len(Append(chain, b)) = h + 1 /\ Append(chain, b)[h + 1] = b
        /\ \A m \in 1 .. h : Append(chain, b)[m] = chain[m]
    BY <1>2
  <2> QED
    BY <1>1, <2>1 DEF Height
<1>5. storage' = [n \in 1 .. h + 1 |-> IF n = h + 1 THEN post ELSE storage[n]]
  <2>1. storage = [n \in 1 .. h |-> storage[n]]
    BY DEF IInvOnChain, OnePerBlock
  <2> HIDE DEF h, post
  <2> QED
    BY <1>1, <1>2, <2>1, AppendOfFunction
<1>6. /\ Holds(parent, chain, RecordsOf(chain, calls, h))
      /\ \A i \in DOMAIN parent.items : parent.items[i] \in pool
  BY ParentHeld
<1>7. ASSUME tx # << >> PROVE tx[1] \in pool /\ tx = <<tx[1]>> /\ calls[tx[1]] \in Calls
  BY <1>7 DEF Tx, IInvOnChain, CallsTyped
<1>8. Holds(post, chain', RecordsOf(chain', calls, h + 1))
  <2>1. CASE tx = << >>
    <3>1. ~Runs(chain', calls, h + 1, "record") /\ ~Runs(chain', calls, h + 1, "erase")
      BY <1>4, <2>1 DEF Runs
    <3>2. RecordsOf(chain', calls, h + 1) = RecordsOf(chain', calls, h)
      BY <1>2, <3>1, RecordsStep
    <3>3. RecordsOf(chain', calls, h) = RecordsOf(chain, calls, h)
      BY <1>2, <1>4, RecordsKept
    <3>4. \A m \in RecordsOf(chain, calls, h) : chain'[m] = chain[m]
      BY <1>4 DEF RecordsOf
    <3>5. Holds(parent, chain', RecordsOf(chain, calls, h))
      BY <1>6, <3>4, HeldKept
    <3> QED
      BY <2>1, <3>2, <3>3, <3>5
  <2>2. CASE tx # << >>
    <3> DEFINE t == tx[1]
    <3>1. calls[t] \in Calls /\ chain'[h + 1].tx = <<t>>
      BY <1>4, <1>7, <2>2
    <3> HIDE DEF t, h, parent
    <3>2. Holds(Dispatch(parent, t), chain', RecordsOf(chain', calls, h + 1))
      BY <1>2, <1>4, <1>6, <3>1, DispatchHeld
    <3> QED
      BY <2>2, <3>2 DEF t
  <2> QED
    BY <2>1, <2>2
<1>9. \A i \in DOMAIN post.items : post.items[i] \in pool
  <2>1. CASE tx = << >>
    BY <1>6, <2>1
  <2>2. CASE tx # << >>
    <3> HIDE DEF parent
    <3> QED
      BY <1>6, <1>7, <2>2, DispatchItems
  <2> QED
    BY <2>1, <2>2
<1> HIDE DEF h, parent, post, b
<1>10. CallsTyped' /\ OnePerBlock'
  BY <1>1, <1>4, <1>5 DEF IInvOnChain, CallsTyped, OnePerBlock
<1>11. ItemsSigned'
  <2>1. \A n \in 1 .. h + 1 : n = h + 1 \/ n \in 1 .. h
    BY <1>2
  <2>2. \A n \in 1 .. h : \A i \in DOMAIN storage[n].items : storage[n].items[i] \in pool
    BY DEF IInvOnChain, ItemsSigned, h
  <2> QED
    BY <1>1, <1>4, <1>5, <1>9, <2>1, <2>2 DEF ItemsSigned
<1>12. EachHolds'
  <2> SUFFICES ASSUME NEW n \in 1 .. h + 1
               PROVE  Holds(storage'[n], chain', RecordsOf(chain', calls', n))
    BY <1>4 DEF EachHolds
  <2>1. CASE n = h + 1
    BY <1>1, <1>5, <1>8, <2>1
  <2>2. CASE n # h + 1
    <3>1. n \in 1 .. h /\ storage'[n] = storage[n] /\ h <= Height
      BY <1>2, <1>5, <2>2 DEF h
    <3>2. Holds(storage[n], chain', RecordsOf(chain', calls, n))
      BY <1>2, <1>4, <3>1, PrefixHeld
    <3> QED
      BY <1>1, <3>1, <3>2
  <2> QED
    BY <2>1, <2>2
<1> QED
  BY <1>3, <1>10, <1>11, <1>12 DEF IInvOnChain

LEMMA NextOnChainIInv == IInvOnChain /\ [NextOnChain]_allVars => IInvOnChain'
<1> SUFFICES ASSUME IInvOnChain, [NextOnChain]_allVars PROVE IInvOnChain'
  OBVIOUS
<1>1. CASE UNCHANGED allVars
  <2>1. UNCHANGED <<chain, fork, pool, refused, calls, storage>>
    BY <1>1 DEF allVars
  <2>2. IInv'
    BY <2>1, NextIInv DEF IInvOnChain, vars
  <2>3. CallsTyped' /\ OnePerBlock' /\ ItemsSigned' /\ EachHolds'
    BY <2>1 DEF IInvOnChain, CallsTyped, OnePerBlock, ItemsSigned, EachHolds, Height
  <2> QED
    BY <2>2, <2>3 DEF IInvOnChain
<1>2. CASE \E call \in Calls : SignCall(call)
  BY <1>2, SignCallStep
<1>3. CASE ExecuteBlock(<< >>)
  <2>1. << >> \in Tx
    BY DEF Tx
  <2> QED
    BY <1>3, <2>1, ExecuteBlockStep
<1>4. CASE \E t \in pool : ExecuteBlock(<<t>>)
  <2>1. \A t \in pool : <<t>> \in Tx
    BY DEF Tx
  <2> QED
    BY <1>4, <2>1, ExecuteBlockStep
<1>5. CASE \E n \in 0 .. Height - 1 : SwitchBranch(n)
  BY <1>5, SwitchBranchStep
<1> QED
  BY <1>1, <1>2, <1>3, <1>4, <1>5 DEF NextOnChain

LEMMA InvarianceOnChain == SpecOnChain => []IInvOnChain
  BY InitOnChainIInv, NextOnChainIInv, PTL DEF SpecOnChain

-----------------------------------------------------------------------------
(* The theorems *)

\* The type of SignedTransaction carries over to the composition; every block
\* has one storage, with items of transactions that were signed.
THEOREM TypeCorrectOnChain == SpecOnChain => []TypeOKOnChain
<1>1. IInvOnChain => TypeOKOnChain
  <2> SUFFICES ASSUME IInvOnChain PROVE TypeOKOnChain
    OBVIOUS
  <2>1. TypeOK
    BY IInvTyped DEF IInvOnChain
  <2>2. Height \in Nat
    BY ExecutedSigned DEF IInvOnChain
  <2>3. Len(storage) = Height
    BY <2>2, LenOfFunction DEF IInvOnChain, OnePerBlock
  <2> QED
    BY <2>1, <2>3 DEF IInvOnChain, CallsTyped, ItemsSigned, TypeOKOnChain
<1> QED
  BY <1>1, InvarianceOnChain, PTL

\* The items data() reads, and how many there are.
LEMMA DataHeld ==
  ASSUME IInvOnChain
  PROVE  LET R == Records(Height)
         IN  /\ R \in SUBSET (1 .. Height) /\ IsFiniteSet(R) /\ Cardinality(R) \in Nat
             /\ Count(R) \in Nat /\ Len(data) = Count(R) /\ DOMAIN data = 1 .. Count(R)
             /\ \A k \in 1 .. Count(R) : \E n \in R : data[k] = chain[n].tx[1] /\ Newer(R, n) = Count(R) - k
<1> DEFINE R == Records(Height)
           s == StorageAt(Height)
<1>1. R = RecordsOf(chain, calls, Height)
  BY DEF Records, RecordsOf, Executes, Runs
<1>2. Height \in Nat
  BY ExecutedSigned DEF IInvOnChain
<1>3. R \in SUBSET (1 .. Height) /\ IsFiniteSet(R) /\ Cardinality(R) \in Nat
  BY <1>1, <1>2, RecordsFinite
<1>4. Holds(s, chain, R)
  BY <1>1, ParentHeld
<1>5. Count(R) \in 0 .. WindowSize - 1
  BY <1>3, CountBound
<1>6. data = [k \in 1 .. IndexCount(s.index, WindowSize) |-> s.items[IndexSlot(s.index, WindowSize, k)]]
  BY DEF data, IndexIter
<1> HIDE DEF R, s
<1>7. data = [k \in 1 .. Count(R) |-> s.items[IndexSlot(s.index, WindowSize, k)]]
  BY <1>4, <1>6 DEF Holds
<1>8. Count(R) \in Nat
  BY <1>5, WindowAssumption
<1>9. Len(data) = Count(R)
  BY <1>7, <1>8, LenOfFunction
<1>10. \A k \in 1 .. Count(R) : \E n \in R : data[k] = chain[n].tx[1] /\ Newer(R, n) = Count(R) - k
  BY <1>4, <1>7 DEF Holds
<1>11. DOMAIN data = 1 .. Count(R)
  BY <1>7
<1> QED
  BY <1>3, <1>8, <1>9, <1>10, <1>11 DEF R

\* Whatever was delivered late, twice or on another branch, data() is the
\* newest records of the best chain since its last erase, in their order.
THEOREM DataFollowsChain == SpecOnChain => []DataIsOnChain
<1>1. IInvOnChain => DataIsOnChain
  <2> SUFFICES ASSUME IInvOnChain PROVE DataIsOnChain
    OBVIOUS
  <2> DEFINE R == Records(Height)
  <2>1. /\ Len(data) = Count(R)
        /\ \A k \in 1 .. Count(R) : \E n \in R : data[k] = chain[n].tx[1] /\ Newer(R, n) = Count(R) - k
    BY DataHeld
  <2> HIDE DEF R
  <2>2. \A k \in 1 .. Len(data) : \E n \in R :
          data[k] = chain[n].tx[1] /\ Cardinality({m \in R : m > n}) = Len(data) - k
    BY <2>1 DEF Newer
  <2>3. Len(data) = IF Cardinality(R) < WindowSize THEN Cardinality(R) ELSE WindowSize - 1
    BY <2>1 DEF Count
  <2> QED
    BY <2>2, <2>3 DEF DataIsOnChain, R
<1> QED
  BY <1>1, InvarianceOnChain, PTL

\* The nonces of what data() lists increase: CheckNonce orders the blocks'
\* transactions, and the ring keeps the order of the blocks.
THEOREM DataByNonce == SpecOnChain => []DataInNonceOrder
<1>1. IInvOnChain => DataInNonceOrder
  <2> SUFFICES ASSUME IInvOnChain, NEW i \in DOMAIN data, NEW j \in DOMAIN data, i < j
               PROVE  data[i].nonce < data[j].nonce
    BY DEF DataInNonceOrder
  <2> DEFINE R == Records(Height)
  <2>1. /\ R \in SUBSET (1 .. Height) /\ IsFiniteSet(R)
        /\ Count(R) \in Nat /\ DOMAIN data = 1 .. Count(R)
        /\ \A k \in 1 .. Count(R) : \E n \in R : data[k] = chain[n].tx[1] /\ Newer(R, n) = Count(R) - k
    BY DataHeld
  <2>2. \A n \in R : chain[n].tx # << >>
    BY DEF Records, Executes
  <2>3. Height \in Nat /\ NonceCounts
    BY ExecutedSigned DEF IInvOnChain, IInv
  <2> HIDE DEF R
  <2>4. PICK m \in R : data[i] = chain[m].tx[1] /\ Newer(R, m) = Count(R) - i
    BY <2>1
  <2>5. PICK n \in R : data[j] = chain[n].tx[1] /\ Newer(R, n) = Count(R) - j
    BY <2>1
  <2>6. m \in 1 .. Height /\ n \in 1 .. Height
    BY <2>1
  <2>7. m < n
    <3> SUFFICES ASSUME n <= m PROVE FALSE
      BY <2>3, <2>6
    <3> DEFINE S == {x \in R : x > m}
               T == {x \in R : x > n}
    <3>1. \A x \in R : x > m => x > n
      <4>1. \A x \in R : x \in 1 .. Height
        BY <2>1
      <4> QED
        BY <2>3, <2>6, <4>1
    <3>2. S \in SUBSET T /\ T \in SUBSET R
      BY <3>1
    <3> HIDE DEF S, T
    <3>3. IsFiniteSet(T)
      BY <2>1, <3>2, FS_Subset
    <3>4. Cardinality(S) <= Cardinality(T)
      BY <3>2, <3>3, FS_Subset
    <3>5. Cardinality(S) = Count(R) - i /\ Cardinality(T) = Count(R) - j
      BY <2>4, <2>5 DEF Newer, S, T
    <3>6. i \in 1 .. Count(R) /\ j \in 1 .. Count(R)
      BY <2>1
    <3> QED
      BY <2>1, <3>4, <3>5, <3>6
  <2>8. /\ chain[m].tx[1].nonce = Cardinality(TxsUpTo(chain, m - 1))
        /\ chain[n].tx[1].nonce = Cardinality(TxsUpTo(chain, n - 1))
    BY <2>2, <2>3, <2>6 DEF NonceCounts
  <2>9. Cardinality(TxsUpTo(chain, m - 1)) < Cardinality(TxsUpTo(chain, n - 1))
    BY <2>2, <2>3, <2>6, <2>7, CountGrows
  <2> QED
    BY <2>4, <2>5, <2>8, <2>9
<1> QED
  BY <1>1, InvarianceOnChain, PTL

\* The composition keeps to the rules of the signed transactions: signing a
\* call, executing it and switching branches are steps of SignedTransaction, the
\* pallet's storage never holds one up or adds another.
THEOREM ImplementsSignedTransaction == SpecOnChain => Spec
<1>1. InitOnChain => Init
  BY DEF InitOnChain
<1>2. [NextOnChain]_allVars => [Next]_vars
  <2> SUFFICES ASSUME [NextOnChain]_allVars PROVE [Next]_vars
    OBVIOUS
  <2>1. CASE UNCHANGED allVars
    BY <2>1 DEF allVars, vars
  <2>2. ASSUME NEW call, SignCall(call) PROVE Next
    BY <2>2 DEF SignCall, Next
  <2>3. CASE ExecuteBlock(<< >>)
    <3>1. NewBlock(<< >>, FALSE) /\ FALSE \in BOOLEAN
      BY <2>3 DEF ExecuteBlock
    <3> QED
      BY <3>1 DEF Next
  <2>4. ASSUME NEW t \in pool, ExecuteBlock(<<t>>) PROVE Next
    BY <2>4 DEF ExecuteBlock, Next
  <2>5. ASSUME NEW n \in 0 .. Height - 1, SwitchBranch(n) PROVE Next
    BY <2>5 DEF SwitchBranch, Next
  <2> QED
    BY <2>1, <2>2, <2>3, <2>4, <2>5 DEF NextOnChain
<1> QED
  BY <1>1, <1>2, PTL DEF SpecOnChain, Spec

\* So no record or erase is executed twice or outside its era and branch, or by
\* a runtime it was not signed for.
THEOREM SafeOnChain == SpecOnChain => [](NoReplay /\ AppliedInEraOnFork /\ SameRuntime)
  BY ImplementsSignedTransaction, NoReplays, InEraOnFork, OneRuntime, PTL

=============================================================================
