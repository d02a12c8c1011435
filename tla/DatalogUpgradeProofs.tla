------------------------- MODULE DatalogUpgradeProofs -------------------------
(***************************************************************************)
(* What upgrades of the window size do to a ring buffer, proved for every  *)
(* set of window sizes and any number of records and upgrades.             *)
(***************************************************************************)
EXTENDS DatalogUpgrade, RingBufferIndexProofs, TLAPS

\* While every upgrade met pointers that fit its window, the ring has the shape
\* that records alone give it and data() is the log.
Fitted == ~unfit => idx \in RingIndex(window) /\ Shape(idx) /\ data = log

IInv == TypeOK /\ Fitted

-----------------------------------------------------------------------------
(* The pointers and the log *)

\* A window size is positive.
LEMMA Positive ==
  ASSUME NEW size \in WindowSizes
  PROVE  size \in Nat \ {0} /\ DefaultIndex \in RingIndex(size) /\ Shape(DefaultIndex)
BY WindowSizesAssumption DEF DefaultIndex, RingIndex, Shape

\* An empty log.
LEMMA NoRecords == << >> \in Seq(1 .. MaxRecords)
OBVIOUS

\* The pointers are in the window until it is lowered.
LEMMA InWindow ==
  ASSUME TypeOK, ~lowered
  PROVE  idx \in RingIndex(window)
<1>1. idx \in [start : Nat, end : Nat] /\ idx.start < window /\ idx.end < window /\ window \in Nat
  BY Positive DEF TypeOK
<1> QED
  BY <1>1 DEF RingIndex

\* Whatever the window, record leaves numbers in the pointers.
LEMMA AddNat ==
  ASSUME NEW p \in [start : Nat, end : Nat], NEW max \in Nat
  PROVE  /\ IndexAdd(p, max).index \in [start : Nat, end : Nat]
         /\ IndexAdd(p, max).slot = p.end
BY DEF IndexAdd, IndexNext

\* The slots of the account as a function.
Stored == [i \in 0 .. window - 1 |-> IF i \in DOMAIN items THEN items[i] ELSE DefaultItem]

\* Pointers of the window's shape, and data() as the items of the ring.
InShape  == window \in WindowSizes /\ idx \in RingIndex(window) /\ Shape(idx)
DataRead == data = RingItems(Stored, idx, window)

LEMMA DataIsRead == InShape => DataRead
<1> SUFFICES ASSUME window \in WindowSizes, idx \in RingIndex(window), Shape(idx)
             PROVE  data = RingItems(Stored, idx, window)
  BY DEF InShape, DataRead
<1>1. window \in Nat \ {0}
  BY Positive
<1>2. \A k \in 1 .. IndexCount(idx, window) : IndexSlot(idx, window, k) \in 0 .. window - 1
  BY <1>1, RingStep
<1>3. /\ DOMAIN Iterated = 1 .. IndexCount(idx, window)
      /\ \A k \in 1 .. IndexCount(idx, window) : Iterated[k] = IndexSlot(idx, window, k)
  BY DEF Iterated, IndexIter
<1>4. \A k \in 1 .. IndexCount(idx, window) :
        Stored[IndexSlot(idx, window, k)] =
          IF Iterated[k] \in DOMAIN items THEN items[Iterated[k]] ELSE DefaultItem
  BY <1>2, <1>3 DEF Stored
<1>5. data = [k \in 1 .. IndexCount(idx, window) |->
                IF Iterated[k] \in DOMAIN items THEN items[Iterated[k]] ELSE DefaultItem]
  BY <1>3 DEF data
<1> QED
  BY <1>4, <1>5 DEF RingItems

\* The same one step later.
LEMMA DataIsReadNext == InShape' => DataRead'
  BY DataIsRead, PTL

-----------------------------------------------------------------------------
(* The steps *)

LEMMA InitIInv == Init => IInv
<1> SUFFICES ASSUME Init PROVE IInv
  OBVIOUS
<1>1. window \in WindowSizes /\ idx = DefaultIndex
  BY DEF Init
<1>2. window \in Nat \ {0} /\ DefaultIndex \in RingIndex(window) /\ Shape(DefaultIndex)
  BY <1>1, Positive
<1>3. idx.start < window /\ idx.end < window /\ idx \in [start : Nat, end : Nat]
  BY <1>1, <1>2 DEF DefaultIndex
<1>4. TypeOK
  <2>1. submitted = 0 /\ upgrades = 0 /\ items = << >> /\ log = << >> /\ unfit = FALSE /\ lowered = FALSE
    BY DEF Init
  <2>2. submitted \in 0 .. MaxRecords /\ upgrades \in 0 .. MaxUpgrades
    BY <2>1, BoundsAssumption
  <2>3. \A i \in DOMAIN items : i \in Nat /\ items[i] \in 1 .. submitted
    BY <2>1
  <2>4. log \in Seq(1 .. MaxRecords)
    BY <2>1, NoRecords
  <2>5. unfit \in BOOLEAN /\ lowered \in BOOLEAN
    BY <2>1
  <2> QED
    BY <1>1, <1>3, <2>2, <2>3, <2>4, <2>5 DEF TypeOK
<1>5. data = << >>
  BY <1>1, RingEmpty DEF data, Iterated
<1> QED
  BY <1>1, <1>2, <1>4, <1>5 DEF Init, IInv, Fitted

\* record keeps the types, appends to the log and to data() alike.
LEMMA RecordStep ==
  ASSUME IInv, record
  PROVE  IInv'
<1> DEFINE added == IndexAdd(idx, window)
           r     == submitted + 1
           app   == Append(log, r)
<1>1. /\ submitted < MaxRecords /\ submitted' = r /\ idx' = added.index
      /\ items' = [i \in DOMAIN items \cup {added.slot} |-> IF i = added.slot THEN r ELSE items[i]]
      /\ log' = Trim(app)
      /\ UNCHANGED <<window, upgrades, unfit, lowered>>
  BY DEF record
<1>2. /\ window \in WindowSizes /\ window \in Nat \ {0} /\ idx \in [start : Nat, end : Nat]
      /\ submitted \in 0 .. MaxRecords /\ log \in Seq(1 .. MaxRecords)
      /\ \A i \in DOMAIN items : i \in Nat /\ items[i] \in 1 .. submitted
  BY Positive DEF IInv, TypeOK
<1>3. added.index \in [start : Nat, end : Nat] /\ added.slot = idx.end /\ added.slot \in Nat
  BY <1>2, AddNat
<1>4. r \in 1 .. MaxRecords /\ r \in 0 .. MaxRecords
  BY <1>1, <1>2, BoundsAssumption
<1>5. app \in Seq(1 .. MaxRecords) /\ app # << >>
  <2> HIDE DEF r
  <2> QED
    BY <1>2, <1>4
<1>6. log' \in Seq(1 .. MaxRecords)
  <2>1. Tail(app) \in Seq(1 .. MaxRecords)
    <3> HIDE DEF app
    <3> QED
      BY <1>5
  <2> HIDE DEF app
  <2> QED
    BY <1>1, <1>5, <2>1 DEF Trim
<1>7. \A i \in DOMAIN items' : i \in Nat /\ items'[i] \in 1 .. submitted'
  BY <1>1, <1>2, <1>3
<1>8. ~lowered' => idx'.start < window' /\ idx'.end < window'
  <2>1. ASSUME ~lowered PROVE added.index \in RingIndex(window)
    BY <1>2, <2>1, InWindow, RingAdd DEF IInv
  <2> HIDE DEF added
  <2> QED
    BY <1>1, <1>2, <2>1 DEF RingIndex
<1>9. TypeOK'
  <2>1. upgrades \in 0 .. MaxUpgrades /\ unfit \in BOOLEAN /\ lowered \in BOOLEAN
    BY DEF IInv, TypeOK
  <2> HIDE DEF added, r, app
  <2> QED
    BY <1>1, <1>2, <1>3, <1>4, <1>6, <1>7, <1>8, <2>1 DEF TypeOK
<1>10. Fitted'
  <2> SUFFICES ASSUME ~unfit PROVE idx' \in RingIndex(window') /\ Shape(idx)' /\ data' = log'
    BY <1>1 DEF Fitted
  <2>1. idx \in RingIndex(window) /\ Shape(idx) /\ data = log
    BY DEF IInv, Fitted
  <2>2. added.index \in RingIndex(window) /\ Shape(added.index)
    BY <1>2, <2>1, RingAdd, RingShape
  <2>3. idx' \in RingIndex(window') /\ Shape(idx)'
    BY <1>1, <2>2 DEF Shape
  <2>4. data' = RingItems(Stored', added.index, window)
    <3>1. InShape'
      BY <1>1, <1>2, <2>3 DEF InShape
    <3>2. data' = RingItems(Stored', idx', window')
      BY <3>1, DataIsReadNext DEF DataRead, RingItems
    <3> QED
      BY <1>1, <3>2
  <2>5. log = RingItems(Stored, idx, window)
    BY <1>2, <2>1, DataIsRead DEF InShape, DataRead
  <2>6. Stored'[idx.end] = r /\ \A i \in 0 .. window - 1 : i # idx.end => Stored'[i] = Stored[i]
    <3>1. idx.end \in 0 .. window - 1
      BY <2>1 DEF RingIndex
    <3> QED
      BY <1>1, <1>3, <3>1 DEF Stored
  <2>7. RingItems(Stored', added.index, window) = RingTrim(Append(RingItems(Stored, idx, window), r), window)
    <3> DEFINE before == Stored
               after  == Stored'
    <3>1. after[idx.end] = r /\ \A i \in 0 .. window - 1 : i # idx.end => after[i] = before[i]
      BY <2>6
    <3> HIDE DEF before, after, r
    <3>2. RingItems(after, added.index, window) = RingTrim(Append(RingItems(before, idx, window), r), window)
      BY <1>2, <2>1, <3>1, RingRead
    <3> QED
      BY <3>2 DEF before, after
  <2>8. data' = log'
    BY <1>1, <2>4, <2>5, <2>7 DEF Trim, RingTrim
  <2> QED
    BY <2>3, <2>8
<1> QED
  BY <1>9, <1>10 DEF IInv

\* erase, when it returns, starts anew.
LEMMA EraseStep ==
  ASSUME IInv, erase
  PROVE  IInv'
<1>1. /\ idx' = DefaultIndex /\ log' = << >> /\ unfit' = FALSE /\ lowered' = FALSE
      /\ items' = [i \in DOMAIN items \ {Iterated[k] : k \in DOMAIN Iterated} |-> items[i]]
      /\ UNCHANGED <<window, submitted, upgrades>>
  BY DEF erase
<1>2. /\ window \in WindowSizes /\ submitted \in 0 .. MaxRecords /\ upgrades \in 0 .. MaxUpgrades
      /\ \A i \in DOMAIN items : i \in Nat /\ items[i] \in 1 .. submitted
  BY DEF IInv, TypeOK
<1>3. window \in Nat \ {0} /\ DefaultIndex \in RingIndex(window) /\ Shape(DefaultIndex)
  BY <1>2, Positive
<1>4. idx'.start < window' /\ idx'.end < window' /\ idx' \in [start : Nat, end : Nat]
  BY <1>1, <1>3 DEF DefaultIndex
<1>5. TypeOK'
  <2>1. window' \in WindowSizes /\ submitted' \in 0 .. MaxRecords /\ upgrades' \in 0 .. MaxUpgrades
    BY <1>1, <1>2
  <2>2. \A i \in DOMAIN items' : i \in Nat /\ items'[i] \in 1 .. submitted'
    BY <1>1, <1>2
  <2>3. log' \in Seq(1 .. MaxRecords)
    BY <1>1, NoRecords
  <2>4. unfit' \in BOOLEAN /\ lowered' \in BOOLEAN
    BY <1>1
  <2> QED
    BY <1>4, <2>1, <2>2, <2>3, <2>4 DEF TypeOK
<1>6. data' = << >>
  BY <1>1, RingEmpty DEF data, Iterated
<1>7. Fitted'
  BY <1>1, <1>3, <1>6 DEF Fitted, Shape
<1> QED
  BY <1>5, <1>7 DEF IInv

\* A window of another size reads pointers that fit it as the old one did.
LEMMA FitsReadsSame ==
  ASSUME NEW max \in Nat \ {0}, NEW size \in Nat \ {0}, NEW p \in RingIndex(max),
         p.start = 0, p.end < size
  PROVE  IndexIter(p, size) = IndexIter(p, max) /\ p \in RingIndex(size) /\ Shape(p)
<1>1. IndexCount(p, size) = p.end /\ IndexCount(p, max) = p.end /\ p.end \in Nat
  BY DEF IndexCount, RingIndex
<1>2. \A k \in 1 .. p.end : IndexSlot(p, size, k) = IndexSlot(p, max, k)
  BY DEF IndexSlot, RingIndex
<1> QED
  BY <1>1, <1>2 DEF IndexIter, RingIndex, Shape

LEMMA UpgradeStep ==
  ASSUME IInv, NEW size \in WindowSizes, Upgrade(size)
  PROVE  IInv'
<1>1. /\ upgrades < MaxUpgrades /\ window' = size /\ upgrades' = upgrades + 1
      /\ unfit' = (unfit \/ ~Fits(size)) /\ lowered' = (lowered \/ size < window)
      /\ UNCHANGED <<idx, items, submitted, log>>
  BY DEF Upgrade
<1>2. TypeOK /\ Fitted /\ window \in Nat \ {0} /\ size \in Nat \ {0}
  BY Positive DEF IInv, TypeOK
<1>3. TypeOK'
  <2>1. upgrades' \in 0 .. MaxUpgrades
    BY <1>1, <1>2, BoundsAssumption DEF TypeOK
  <2>2. unfit' \in BOOLEAN /\ lowered' \in BOOLEAN
    BY <1>1
  <2>3. ASSUME ~lowered' PROVE idx'.start < window' /\ idx'.end < window'
    <3>1. ~lowered /\ ~(size < window)
      BY <1>1, <2>3
    <3>2. idx.start < window /\ idx.end < window /\ idx.start \in Nat /\ idx.end \in Nat
      BY <1>2, <3>1 DEF TypeOK
    <3> QED
      BY <1>1, <1>2, <3>1, <3>2
  <2> QED
    BY <1>1, <1>2, <2>1, <2>2, <2>3 DEF TypeOK
<1>4. Fitted'
  <2> SUFFICES ASSUME ~unfit' PROVE idx' \in RingIndex(window') /\ Shape(idx)' /\ data' = log'
    BY DEF Fitted
  <2>1. idx \in RingIndex(window) /\ data = log /\ idx.start = 0 /\ idx.end < size
    BY <1>1, <1>2 DEF Fitted, Fits
  <2>2. IndexIter(idx, size) = IndexIter(idx, window) /\ idx \in RingIndex(size) /\ Shape(idx)
    BY <1>2, <2>1, FitsReadsSame
  <2>3. data' = data
    BY <1>1, <2>2 DEF data, Iterated
  <2> QED
    BY <1>1, <2>1, <2>2, <2>3 DEF Shape
<1> QED
  BY <1>3, <1>4 DEF IInv

LEMMA NextIInv == IInv /\ [Next]_vars => IInv'
<1> SUFFICES ASSUME IInv, [Next]_vars PROVE IInv'
  OBVIOUS
<1>1. CASE UNCHANGED vars
  <2>1. UNCHANGED <<window, idx, items, submitted, upgrades, log, unfit, lowered>>
    BY <1>1 DEF vars
  <2>2. data' = data
    BY <2>1 DEF data, Iterated
  <2>3. TypeOK'
    BY <2>1 DEF IInv, TypeOK
  <2>4. Fitted'
    BY <2>1, <2>2 DEF IInv, Fitted, Shape
  <2> QED
    BY <2>3, <2>4 DEF IInv
<1> QED
  BY <1>1, RecordStep, EraseStep, UpgradeStep DEF Next

LEMMA Invariance == Spec => []IInv
  BY InitIInv, NextIInv, PTL DEF Spec

-----------------------------------------------------------------------------
(* The theorems *)

\* Every variable has its type, and the pointers leave the window only after an
\* upgrade lowered it.
THEOREM TypeCorrect == Spec => []TypeOK
<1>1. IInv => TypeOK
  BY DEF IInv
<1> QED
  BY <1>1, Invariance, PTL

\* Upgrades that meet pointers of their own window's shape are safe: data() is
\* the log of the newest records however many of them follow each other.
THEOREM FitIsSafe == Spec => []FitKeepsLog
<1>1. IInv => FitKeepsLog
  <2> SUFFICES ASSUME IInv, ~unfit PROVE data = log /\ Len(data) < window
    BY DEF FitKeepsLog
  <2>1. window \in Nat \ {0} /\ idx \in RingIndex(window) /\ data = log
    BY Positive DEF IInv, TypeOK, Fitted
  <2>2. IndexCount(idx, window) \in 0 .. window - 1
    BY <2>1, RingCount
  <2>3. data = [k \in 1 .. IndexCount(idx, window) |-> data[k]]
    BY DEF data, Iterated, IndexIter
  <2>4. Len(data) = IndexCount(idx, window)
    BY <2>2, <2>3, LenOfFunction
  <2> QED
    BY <2>1, <2>2, <2>4
<1> QED
  BY <1>1, Invariance, PTL

\* No upgrade to a higher window size makes erase or data() endless.
THEOREM StuckOnlyIfLowered == Spec => []EndlessOnlyIfLowered
<1>1. IInv => EndlessOnlyIfLowered
  <2> SUFFICES ASSUME IInv, ~lowered PROVE ~Endless
    BY DEF EndlessOnlyIfLowered
  <2>1. idx \in RingIndex(window) /\ window \in Nat \ {0}
    BY InWindow, Positive DEF IInv, TypeOK
  <2> QED
    BY <2>1 DEF Endless, IndexEndless, RingIndex
<1> QED
  BY <1>1, Invariance, PTL

\* RingBufferIterator called one time after the other, on whatever pointers the
\* upgrades left: the condition IndexEndless is exact, for any number of calls,
\* and an iterator that ends has yielded IndexIter's slots in their order.
THEOREM DrainIsIter == Spec => []DrainAgrees
<1>1. IInv => DrainAgrees
  <2> SUFFICES ASSUME IInv PROVE DrainAgrees
    OBVIOUS
  <2>1. window \in Nat \ {0} /\ idx \in [start : Nat, end : Nat]
    BY Positive DEF IInv, TypeOK
  <2>2. CASE Endless
    <3>1. \A k \in 1 .. Patience : k \in Nat \ {0}
      BY BoundsAssumption DEF Patience
    <3>2. \A k \in 1 .. Patience : IteratorYields(idx, window, k) # << >>
      BY <2>1, <2>2, <3>1, IteratorNeverEnds DEF Endless
    <3> QED
      BY <2>2, <3>2 DEF DrainAgrees
  <2>3. CASE ~Endless
    <3> DEFINE c == IndexCount(idx, window)
    <3>1. /\ c \in Nat
          /\ \A k \in 1 .. c : IteratorYields(idx, window, k) = <<IndexSlot(idx, window, k)>>
          /\ IteratorYields(idx, window, c + 1) = << >>
      BY <2>1, <2>3, IteratorDrains DEF Endless
    <3>2. DOMAIN Iterated = 1 .. c /\ \A k \in 1 .. c : Iterated[k] = IndexSlot(idx, window, k)
      BY DEF Iterated, IndexIter
    <3>3. Iterated = [k \in 1 .. c |-> Iterated[k]]
      BY DEF Iterated, IndexIter
    <3> HIDE DEF c
    <3>4. Len(Iterated) = c
      BY <3>1, <3>3, LenOfFunction
    <3> QED
      BY <2>3, <3>1, <3>2, <3>4 DEF DrainAgrees
  <2> QED
    BY <2>2, <2>3
<1> QED
  BY <1>1, Invariance, PTL

\* Between upgrades, record and erase only take slots out of those that data()
\* reads unwritten, also when the window has outgrown the pointers.
THEOREM HolesOnlyHeal == Spec => HolesHeal
<1>1. IInv /\ [Next]_vars
        => [window' = window /\ ~lowered /\ ~lowered' => Holes' \subseteq Holes]_vars
  <2> SUFFICES ASSUME IInv, Next, window' = window, ~lowered, ~lowered'
               PROVE  Holes' \subseteq Holes
    OBVIOUS
  <2>1. idx \in RingIndex(window) /\ window \in Nat \ {0}
    BY InWindow, Positive DEF IInv, TypeOK
  <2>2. Holes = LiveSlots(idx, window) \ DOMAIN items
    BY <2>1, RingSlots DEF Holes, Iterated
  <2>3. CASE record
    <3> DEFINE added == IndexAdd(idx, window)
    <3>1. idx' = added.index /\ DOMAIN items' = DOMAIN items \cup {added.slot}
      BY <2>3 DEF record
    <3>2. /\ added.index \in RingIndex(window) /\ added.slot = idx.end
          /\ LiveSlots(added.index, window) \subseteq LiveSlots(idx, window) \cup {idx.end}
      BY <2>1, RingAdd, RingLive
    <3>3. {IndexIter(added.index, window)[k] : k \in DOMAIN IndexIter(added.index, window)}
            = LiveSlots(added.index, window)
      BY <2>1, <3>2, RingSlots
    <3> HIDE DEF added
    <3>4. Holes' = LiveSlots(added.index, window) \ (DOMAIN items \cup {added.slot})
      BY <3>1, <3>3 DEF Holes, Iterated
    <3> QED
      BY <2>2, <3>2, <3>4
  <2>4. CASE erase
    <3>1. IndexIter(idx', window') = << >>
      BY <2>4, RingEmpty DEF erase
    <3> QED
      BY <3>1 DEF Holes, Iterated
  <2>5. ASSUME NEW size \in WindowSizes, Upgrade(size) PROVE FALSE
    BY <2>5 DEF Upgrade
  <2> QED
    BY <2>3, <2>4, <2>5 DEF Next
<1> QED
  BY <1>1, Invariance, PTL DEF Spec, HolesHeal

=============================================================================
