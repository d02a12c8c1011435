---------------------------- MODULE DatalogProofs ----------------------------
(***************************************************************************)
(* Proofs about Datalog for every window size, every set of accounts and   *)
(* records and every clock bound.  The argument rests on the shape of the  *)
(* ring pointers (Shape): a pair of slots alone does not rule out a window *)
(* that starts in the middle while slots before it were never written.     *)
(***************************************************************************)
EXTENDS Datalog, RingBufferIndexProofs, TLAPS

W == WindowSize
Index == [start : Slots, end : Slots]

\* The pointers of an account are those of a ring of WindowSize slots.
LEMMA IndexIsRing == Index = RingIndex(W) /\ W \in Nat \ {0}
BY WindowAssumption DEF Index, RingIndex, Slots, W

\* RingBufferIndex::add keeps both pointers in the window and their shape, and
\* returns the old end.
LEMMA AddIndex ==
  ASSUME NEW idx \in Index, Shape(idx)
  PROVE  /\ IndexAdd(idx, W).index \in Index
         /\ Shape(IndexAdd(idx, W).index)
         /\ IndexAdd(idx, W).slot = idx.end
BY IndexIsRing, RingAdd, RingShape

\* A window holds at most WindowSize - 1 items.
LEMMA CountBound ==
  ASSUME NEW idx \in Index
  PROVE  IndexCount(idx, W) \in 0 .. W - 1
BY IndexIsRing, RingCount

\* What the iterator yields is exactly the set of live slots.
LEMMA SlotLive ==
  ASSUME NEW idx \in Index
  PROVE  {IndexIter(idx, W)[k] : k \in DOMAIN IndexIter(idx, W)} = LiveSlots(idx, W)
BY IndexIsRing, RingSlots

-----------------------------------------------------------------------------
(* Reading the window *)

\* data() of one account, slot by slot.
LEMMA ReadIsFunction ==
  ASSUME NEW idx \in Index, NEW items
  PROVE  LET d == ReadWindow(idx, items)
         IN  /\ d = [k \in 1 .. IndexCount(idx, W) |-> GetItem(items, IndexSlot(idx, W, k))]
             /\ d = [k \in 1 .. IndexCount(idx, W) |-> d[k]]
             /\ Len(d) = IndexCount(idx, W)
<1> DEFINE d == ReadWindow(idx, items)
<1>1. d = [k \in 1 .. IndexCount(idx, W) |-> GetItem(items, IndexSlot(idx, W, k))]
  BY DEF ReadWindow, IndexIter, W
<1>2. d = [k \in 1 .. IndexCount(idx, W) |-> d[k]]
  BY <1>1
<1>3. IndexCount(idx, W) \in Nat
  BY CountBound, WindowAssumption DEF W
<1>4. Len(d) = IndexCount(idx, W)
  BY <1>2, <1>3, LenOfFunction
<1> QED BY <1>1, <1>2, <1>4

\* How many keys erase removes.
LEMMA IterLen ==
  ASSUME NEW idx \in Index
  PROVE  Len(IndexIter(idx, W)) = IndexCount(idx, W)
BY IndexIsRing, RingLen

\* A fresh index reads as the empty log.
LEMMA EmptyRead ==
  ASSUME NEW items
  PROVE  ReadWindow(DefaultIndex, items) = << >>
<1>1. IndexIter(DefaultIndex, W) = << >>
  BY RingEmpty
<1> QED BY <1>1 DEF ReadWindow, W

\* Reading after record: the item is appended, and the oldest one dropped if
\* the window was full.
LEMMA StoreRead ==
  ASSUME NEW idx \in Index, Shape(idx), NEW items, NEW item
  PROVE  LET added == IndexAdd(idx, W)
         IN  ReadWindow(added.index, Insert(items, added.slot, item))
               = BL!Trim(Append(ReadWindow(idx, items), item))
<1> DEFINE added  == IndexAdd(idx, W)
           new    == added.index
           stored == Insert(items, added.slot, item)
           before == [i \in Slots |-> GetItem(items, i)]
           after  == [i \in Slots |-> GetItem(stored, i)]
<1>1. new \in Index /\ Shape(new) /\ added.slot = idx.end /\ idx.end \in Slots
  BY AddIndex DEF Index
<1>2. Slots = 0 .. W - 1
  BY DEF Slots, W
<1>3. after[idx.end] = item
  BY <1>1 DEF Insert, GetItem
<1>4. \A i \in 0 .. W - 1 : i # idx.end => after[i] = before[i]
  BY <1>1, <1>2 DEF Insert, GetItem
<1>5. ASSUME NEW x \in Index, Shape(x), NEW k \in 1 .. IndexCount(x, W)
      PROVE  IndexSlot(x, W, k) \in Slots
  BY <1>2, <1>5, IndexIsRing, RingStep
<1>6. ReadWindow(idx, items) = RingItems(before, idx, W)
  BY <1>5, ReadIsFunction DEF RingItems
<1>7. ReadWindow(new, stored) = RingItems(after, new, W)
  <2>1. ReadWindow(new, stored) = [k \in 1 .. IndexCount(new, W) |-> GetItem(stored, IndexSlot(new, W, k))]
    BY <1>1, ReadIsFunction
  <2>2. \A k \in 1 .. IndexCount(new, W) : after[IndexSlot(new, W, k)] = GetItem(stored, IndexSlot(new, W, k))
    BY <1>1, <1>5
  <2> QED
    BY <2>1, <2>2 DEF RingItems
<1>8. RingItems(after, new, W) = RingTrim(Append(RingItems(before, idx, W), item), W)
  <2>1. idx \in RingIndex(W) /\ W \in Nat \ {0}
    BY IndexIsRing
  <2> HIDE DEF before, after
  <2> QED
    BY <1>3, <1>4, <2>1, RingRead
<1> QED
  BY <1>6, <1>7, <1>8 DEF BL!Trim, RingTrim, W

-----------------------------------------------------------------------------
(* The steps of the pallet *)

\* The shape of every account's index: the strengthening TypeOK needs.
IndexShape == \A a \in AccountId : Shape(datalogidx[a])

\* A step is a clock move, a rejected call, a stored record, an erase or
\* nothing: what every proof below splits on.
LEMMA NextSplit ==
  ASSUME [Next]_vars
  PROVE  \/ \E t \in Moment : SetTimestamp(t)
         \/ \E o \in Origin, x \in {"RecordTooBig", "BadOrigin"} :
              (x = "BadOrigin" => o = NoOrigin) /\ Reject(x, o)
         \/ \E a \in AccountId, r \in Record : Store(a, r)
         \/ \E a \in AccountId : Clear(a)
         \/ UNCHANGED vars
<1>1. ASSUME NEW o \in Origin, NEW r \in Record, record(o, r)
      PROVE  \/ \E x \in {"RecordTooBig", "BadOrigin"} :
                  (x = "BadOrigin" => o = NoOrigin) /\ Reject(x, o)
             \/ \E a \in AccountId, s \in Record : Store(a, s)
  BY <1>1 DEF record
<1>2. ASSUME NEW o \in Origin, erase(o)
      PROVE  \/ \E x \in {"RecordTooBig", "BadOrigin"} :
                  (x = "BadOrigin" => o = NoOrigin) /\ Reject(x, o)
             \/ \E a \in AccountId : Clear(a)
  BY <1>2 DEF erase
<1> QED BY <1>1, <1>2 DEF Next

-----------------------------------------------------------------------------
(* Types *)

\* Every storage value keeps its type: the ring pointers stay inside the
\* window, however many records and erases there were.
THEOREM TypeCorrect == Spec => [](TypeOK /\ IndexShape)
<1> USE DEF IndexShape
<1>1. Init => TypeOK /\ IndexShape
  <2> SUFFICES ASSUME Init PROVE TypeOK /\ IndexShape
    OBVIOUS
  <2>1. << >> \in [{} -> Item]
    OBVIOUS
  <2>2. datalogitem \in [AccountId -> UNION {[S -> Item] : S \in SUBSET Slots}]
    BY <2>1 DEF Init
  <2>3. datalog \in [AccountId -> Seq(Item)]
    BY OldAssumption DEF Init
  <2>4. DefaultIndex \in Index /\ Shape(DefaultIndex)
    BY WindowAssumption DEF DefaultIndex, Index, Slots, Shape
  <2>5. IndexShape /\ datalogidx \in [AccountId -> Index]
    BY <2>4 DEF Init
  <2>6. now \in Moment
    BY ClockAssumption DEF Init, Moment
  <2>7. dispatch \in [result : Results, who : Origin, reads : Nat, writes : Nat]
    BY DEF Init, Outcome, Results, Origin
  <2> QED
    BY <2>2, <2>3, <2>5, <2>6, <2>7 DEF TypeOK, Index
<1>2. TypeOK /\ IndexShape /\ [Next]_vars => (TypeOK /\ IndexShape)'
  <2> SUFFICES ASSUME TypeOK, IndexShape, [Next]_vars PROVE TypeOK' /\ IndexShape'
    OBVIOUS
  <2>1. ASSUME NEW t \in Moment, SetTimestamp(t) PROVE TypeOK' /\ IndexShape'
    BY <2>1 DEF TypeOK, SetTimestamp
  <2>2. ASSUME NEW o \in Origin, NEW x \in {"RecordTooBig", "BadOrigin"}, Reject(x, o)
        PROVE  TypeOK' /\ IndexShape'
    BY <2>2 DEF TypeOK, Reject, Outcome, Results
  <2>3. ASSUME NEW a \in AccountId, NEW r \in Record, Store(a, r)
        PROVE  TypeOK' /\ IndexShape'
    <3> DEFINE added == IndexAdd(datalogidx[a], W)
               item  == [moment |-> now, record |-> r]
    <3>1. datalogidx[a] \in Index /\ Shape(datalogidx[a])
      BY DEF TypeOK, Index
    <3>2. added.index \in Index /\ Shape(added.index) /\ added.slot \in Slots
      BY <3>1, AddIndex DEF Index
    <3>3. item \in Item
      BY DEF TypeOK, Item
    <3>4. PICK S \in SUBSET Slots : datalogitem[a] \in [S -> Item]
      BY DEF TypeOK
    <3>5. Insert(datalogitem[a], added.slot, item) \in [S \cup {added.slot} -> Item]
      BY <3>3, <3>4 DEF Insert
    <3>6. S \cup {added.slot} \in SUBSET Slots
      BY <3>2
    <3>7. Insert(datalogitem[a], added.slot, item)
            \in UNION {[T -> Item] : T \in SUBSET Slots}
      BY <3>5, <3>6
    <3>8. /\ datalogidx' = [datalogidx EXCEPT ![a] = added.index]
          /\ datalogitem' = [datalogitem EXCEPT ![a] =
                               Insert(datalogitem[a], added.slot, item)]
          /\ datalog' = [datalog EXCEPT ![a] = << >>]
          /\ now' = now
          /\ dispatch' = Outcome("NewRecord", a, 2, 3)
      BY <2>3 DEF Store, W
    <3>9. IndexShape'
      BY <3>2, <3>8 DEF TypeOK
    <3>10. datalogidx' \in [AccountId -> Index]
      BY <3>2, <3>8 DEF TypeOK, Index
    <3>11. datalogitem' \in [AccountId -> UNION {[T -> Item] : T \in SUBSET Slots}]
      BY <3>7, <3>8 DEF TypeOK
    <3>12. datalog' \in [AccountId -> Seq(Item)]
      BY <3>8 DEF TypeOK
    <3>13. dispatch' \in [result : Results, who : Origin, reads : Nat, writes : Nat]
      BY <3>8 DEF Outcome, Results, Origin
    <3> QED BY <3>8, <3>9, <3>10, <3>11, <3>12, <3>13 DEF TypeOK, Index
  <2>4. ASSUME NEW a \in AccountId, Clear(a) PROVE TypeOK' /\ IndexShape'
    <3> DEFINE slots == IndexIter(datalogidx[a], W)
               gone  == {slots[k] : k \in DOMAIN slots}
    <3>1. datalogidx[a] \in Index
      BY DEF TypeOK, Index
    <3>2. Len(slots) \in Nat
      BY <3>1, IterLen, CountBound
    <3>3. PICK S \in SUBSET Slots : datalogitem[a] \in [S -> Item]
      BY DEF TypeOK
    <3>4. RemoveAll(datalogitem[a], gone) \in [S \ gone -> Item]
      BY <3>3 DEF RemoveAll
    <3>5. RemoveAll(datalogitem[a], gone) \in UNION {[T -> Item] : T \in SUBSET Slots}
      BY <3>4
    <3>6. /\ datalogidx' = [datalogidx EXCEPT ![a] = DefaultIndex]
          /\ datalogitem' = [datalogitem EXCEPT ![a] = RemoveAll(datalogitem[a], gone)]
          /\ datalog' = [datalog EXCEPT ![a] = << >>]
          /\ now' = now
          /\ dispatch' = Outcome("Erased", a, 1, 2 + Len(slots))
      BY <2>4 DEF Clear, W
    <3>7. DefaultIndex \in Index /\ Shape(DefaultIndex)
      BY WindowAssumption DEF DefaultIndex, Index, Slots, Shape
    <3>8. IndexShape'
      BY <3>6, <3>7 DEF TypeOK
    <3>9. datalogidx' \in [AccountId -> Index]
      BY <3>6, <3>7 DEF TypeOK, Index
    <3>10. datalogitem' \in [AccountId -> UNION {[T -> Item] : T \in SUBSET Slots}]
      BY <3>5, <3>6 DEF TypeOK
    <3>11. datalog' \in [AccountId -> Seq(Item)]
      BY <3>6 DEF TypeOK
    <3>12. dispatch' \in [result : Results, who : Origin, reads : Nat, writes : Nat]
      BY <3>2, <3>6 DEF Outcome, Results, Origin
    <3> QED BY <3>6, <3>8, <3>9, <3>10, <3>11, <3>12 DEF TypeOK, Index
  <2>5. CASE UNCHANGED vars
    BY <2>5 DEF TypeOK, vars
  <2> QED
    BY <2>1, <2>2, <2>3, <2>4, <2>5, NextSplit
<1> QED BY <1>1, <1>2, PTL DEF Spec

-----------------------------------------------------------------------------
(* The slots in use *)

\* add makes at most the old end live; either no live slot is given up, or the
\* window is full and a single slot is outside it.
LEMMA AddLive ==
  ASSUME NEW idx \in Index, Shape(idx)
  PROVE  LET new == IndexAdd(idx, W).index
         IN  /\ LiveSlots(new, W) \subseteq LiveSlots(idx, W) \cup {idx.end}
             /\ \/ LiveSlots(idx, W) \cup {idx.end} \subseteq LiveSlots(new, W)
                \/ \A i, j \in Slots \ LiveSlots(new, W) : i = j
BY WindowAssumption DEF LiveSlots, IndexAdd, IndexNext, Index, Slots, W, Shape

\* Inductive together with TypeOK and IndexShape.
FillInv == LiveSlotsFilled /\ StaleAtMostOne

\* data() never returns an item that was not written, and an account leaves at
\* most one evicted record behind in the storage.
THEOREM StorageExact == Spec => [](LiveSlotsFilled /\ StaleAtMostOne)
<1> DEFINE Live(a) == LiveSlots(datalogidx[a], W)
<1>1. Init => FillInv
  BY DEF Init, FillInv, LiveSlotsFilled, StaleAtMostOne, Stale, DefaultIndex, LiveSlots
<1>2. TypeOK /\ IndexShape /\ FillInv /\ [Next]_vars => FillInv'
  <2> SUFFICES ASSUME TypeOK, IndexShape, FillInv, [Next]_vars PROVE FillInv'
    OBVIOUS
  <2>1. ASSUME datalogidx' = datalogidx, datalogitem' = datalogitem PROVE FillInv'
    BY <2>1 DEF FillInv, LiveSlotsFilled, StaleAtMostOne, Stale
  <2>2. ASSUME NEW a \in AccountId, datalogidx' = [datalogidx EXCEPT ![a] = datalogidx'[a]],
               datalogitem' = [datalogitem EXCEPT ![a] = datalogitem'[a]],
               Live(a)' \subseteq DOMAIN datalogitem'[a],
               \A i, j \in DOMAIN datalogitem'[a] \ Live(a)' : i = j
        PROVE  FillInv'
    BY <2>2 DEF TypeOK, FillInv, LiveSlotsFilled, StaleAtMostOne, Stale, W
  <2>3. ASSUME NEW a \in AccountId, NEW r \in Record, Store(a, r) PROVE FillInv'
    <3> DEFINE added == IndexAdd(datalogidx[a], W)
    <3>1. datalogidx[a] \in Index /\ Shape(datalogidx[a])
      BY DEF TypeOK, Index, IndexShape
    <3>2. added.slot = datalogidx[a].end
      BY <3>1, AddIndex
    <3>3. /\ LiveSlots(added.index, W) \subseteq Live(a) \cup {datalogidx[a].end}
          /\ \/ Live(a) \cup {datalogidx[a].end} \subseteq LiveSlots(added.index, W)
             \/ \A i, j \in Slots \ LiveSlots(added.index, W) : i = j
      BY <3>1, AddLive
    <3>4. datalogidx' = [datalogidx EXCEPT ![a] = added.index] /\ datalogidx'[a] = added.index
      BY <2>3 DEF Store, TypeOK, W
    <3>5. /\ datalogitem' = [datalogitem EXCEPT ![a] = datalogitem'[a]]
          /\ DOMAIN datalogitem'[a] = DOMAIN datalogitem[a] \cup {datalogidx[a].end}
      BY <2>3, <3>2 DEF Store, TypeOK, Insert, W
    <3>6. /\ Live(a) \subseteq DOMAIN datalogitem[a]
          /\ \A i, j \in DOMAIN datalogitem[a] \ Live(a) : i = j
      BY DEF FillInv, LiveSlotsFilled, StaleAtMostOne, Stale, W
    <3>7. DOMAIN datalogitem[a] \subseteq Slots /\ datalogidx[a].end \in Slots
      BY <3>1 DEF TypeOK, Index
    <3>8. Live(a)' = LiveSlots(added.index, W)
      BY <3>4 DEF W
    <3>9. Live(a)' \subseteq DOMAIN datalogitem'[a]
      BY <3>3, <3>5, <3>6, <3>8
    <3>10. \A i, j \in DOMAIN datalogitem'[a] \ Live(a)' : i = j
      BY <3>3, <3>5, <3>6, <3>7, <3>8
    <3> QED BY <2>2, <3>4, <3>5, <3>9, <3>10
  <2>4. ASSUME NEW a \in AccountId, Clear(a) PROVE FillInv'
    <3> DEFINE slots == IndexIter(datalogidx[a], W)
               gone  == {slots[k] : k \in DOMAIN slots}
    <3>1. datalogidx[a] \in Index
      BY DEF TypeOK, Index
    <3>2. gone = Live(a)
      BY <3>1, SlotLive
    <3>3. /\ datalogidx' = [datalogidx EXCEPT ![a] = DefaultIndex]
          /\ datalogidx'[a] = DefaultIndex
          /\ datalogitem' = [datalogitem EXCEPT ![a] = datalogitem'[a]]
          /\ datalogitem'[a] = RemoveAll(datalogitem[a], gone)
      BY <2>4 DEF Clear, TypeOK, W
    <3>4. Live(a)' = {}
      BY <3>3 DEF LiveSlots, DefaultIndex
    <3>5. DOMAIN datalogitem'[a] = DOMAIN datalogitem[a] \ Live(a)
      BY <3>2, <3>3 DEF RemoveAll
    <3>6. \A i, j \in DOMAIN datalogitem[a] \ Live(a) : i = j
      BY DEF FillInv, StaleAtMostOne, Stale, W
    <3> QED BY <2>2, <3>3, <3>4, <3>5, <3>6
  <2> QED
    BY <2>1, <2>3, <2>4, NextSplit DEF SetTimestamp, Reject, vars
<1> QED BY <1>1, <1>2, TypeCorrect, PTL DEF Spec, FillInv

\* What erase and the wrap-around leave behind (findings, README) is bounded:
\* one evicted record per account.
THEOREM LeftoverBounded == Spec => []StaleAtMostOne
<1>1. LiveSlotsFilled /\ StaleAtMostOne => StaleAtMostOne
  OBVIOUS
<1> QED BY <1>1, StorageExact, PTL

-----------------------------------------------------------------------------
(* Migration and weights *)

\* An account has its old log or a ring buffer, never both.
THEOREM OldOrNew == Spec => []OldXorNew
<1>1. Init => OldXorNew
  BY DEF Init, OldXorNew
<1>2. TypeOK /\ OldXorNew /\ [Next]_vars => OldXorNew'
  <2> SUFFICES ASSUME TypeOK, OldXorNew, [Next]_vars PROVE OldXorNew'
    OBVIOUS
  <2>1. ASSUME UNCHANGED <<datalog, datalogidx, datalogitem>> PROVE OldXorNew'
    BY <2>1 DEF OldXorNew
  <2>2. ASSUME NEW a \in AccountId, NEW r \in Record, Store(a, r) PROVE OldXorNew'
    BY <2>2 DEF OldXorNew, Store, TypeOK
  <2>3. ASSUME NEW a \in AccountId, Clear(a) PROVE OldXorNew'
    BY <2>3 DEF OldXorNew, Clear, TypeOK
  <2> QED
    BY <2>1, <2>2, <2>3, NextSplit DEF SetTimestamp, Reject, vars
<1> QED BY <1>1, <1>2, TypeCorrect, PTL DEF Spec

\* No call does more database operations than its weight pays for.
THEOREM WeightsSuffice == Spec => []WeightCoversDb
<1> USE DEF Outcome, RecordWeight, EraseWeight
<1>1. Init => WeightCoversDb
  BY DEF Init, WeightCoversDb
<1>2. TypeOK /\ WeightCoversDb /\ [Next]_vars => WeightCoversDb'
  <2> SUFFICES ASSUME TypeOK, WeightCoversDb, [Next]_vars PROVE WeightCoversDb'
    OBVIOUS
  <2>1. ASSUME dispatch' = dispatch PROVE WeightCoversDb'
    BY <2>1 DEF WeightCoversDb
  <2>2. ASSUME NEW o \in Origin, NEW x \in {"RecordTooBig", "BadOrigin"}, Reject(x, o)
        PROVE  WeightCoversDb'
    BY <2>2 DEF WeightCoversDb, Reject
  <2>3. ASSUME NEW a \in AccountId, NEW r \in Record, Store(a, r) PROVE WeightCoversDb'
    BY <2>3 DEF WeightCoversDb, Store
  <2>4. ASSUME NEW a \in AccountId, Clear(a) PROVE WeightCoversDb'
    <3>1. datalogidx[a] \in Index
      BY DEF TypeOK, Index
    <3>2. Len(IndexIter(datalogidx[a], W)) \in 0 .. W - 1
      BY <3>1, IterLen, CountBound
    <3>3. dispatch' = Outcome("Erased", a, 1, 2 + Len(IndexIter(datalogidx[a], W)))
      BY <2>4 DEF Clear, W
    <3> QED BY <3>2, <3>3, WindowAssumption DEF WeightCoversDb, W
  <2> QED
    BY <2>1, <2>2, <2>3, <2>4, NextSplit DEF SetTimestamp, vars
<1> QED BY <1>1, <1>2, TypeCorrect, PTL DEF Spec

-----------------------------------------------------------------------------
(* The log a client reads *)

\* The effect of each step on what data() returns.
LEMMA DataStep ==
  ASSUME TypeOK, IndexShape, TypeOK', [Next]_vars
  PROVE  \/ /\ \A b \in AccountId : data(b)' = data(b)
            /\ now' \in Moment /\ now' >= now
            /\ dispatch' = dispatch
         \/ /\ \A b \in AccountId : data(b)' = data(b)
            /\ now' = now
            /\ \E o \in Origin, x \in {"RecordTooBig", "BadOrigin"} :
                 /\ x = "BadOrigin" => o = NoOrigin
                 /\ dispatch' = Outcome(x, o, 0, 0)
         \/ /\ now' = now
            /\ \E a \in AccountId, r \in Record :
                 /\ dispatch' = Outcome("NewRecord", a, 2, 3)
                 /\ data(a)' = BL!Trim(Append(data(a), [moment |-> now, record |-> r]))
                 /\ \A b \in AccountId \ {a} : data(b)' = data(b)
         \/ /\ now' = now
            /\ \E a \in AccountId, w \in Nat :
                 /\ dispatch' = Outcome("Erased", a, 1, w)
                 /\ data(a)' = << >>
                 /\ \A b \in AccountId \ {a} : data(b)' = data(b)
<1>1. ASSUME UNCHANGED <<datalogidx, datalogitem>> PROVE \A b \in AccountId : data(b)' = data(b)
  BY <1>1 DEF data
<1>2. ASSUME NEW t \in Moment, SetTimestamp(t) PROVE now' \in Moment /\ now' >= now
  BY <1>2 DEF SetTimestamp
<1>3. now \in Moment /\ now <= now
  BY ClockAssumption DEF TypeOK, Moment
<1>4. ASSUME NEW a \in AccountId, NEW r \in Record, Store(a, r)
      PROVE  /\ now' = now
             /\ dispatch' = Outcome("NewRecord", a, 2, 3)
             /\ data(a)' = BL!Trim(Append(data(a), [moment |-> now, record |-> r]))
             /\ \A b \in AccountId \ {a} : data(b)' = data(b)
  <2> DEFINE added == IndexAdd(datalogidx[a], W)
             item  == [moment |-> now, record |-> r]
  <2>1. datalogidx[a] \in Index /\ Shape(datalogidx[a])
    BY DEF TypeOK, Index, IndexShape
  <2>2. /\ datalogidx'[a] = added.index
        /\ datalogitem'[a] = Insert(datalogitem[a], added.slot, item)
        /\ now' = now
        /\ dispatch' = Outcome("NewRecord", a, 2, 3)
        /\ \A b \in AccountId \ {a} : /\ datalogidx'[b] = datalogidx[b]
                                      /\ datalogitem'[b] = datalogitem[b]
    BY <1>4 DEF Store, TypeOK, W
  <2>3. data(a)' = ReadWindow(added.index, Insert(datalogitem[a], added.slot, item))
    BY <2>2 DEF data
  <2>4. data(a)' = BL!Trim(Append(data(a), item))
    BY <2>1, <2>3, StoreRead DEF data
  <2> QED BY <2>2, <2>4 DEF data
<1>5. ASSUME NEW a \in AccountId, Clear(a)
      PROVE  /\ now' = now
             /\ \E w \in Nat : dispatch' = Outcome("Erased", a, 1, w)
             /\ data(a)' = << >>
             /\ \A b \in AccountId \ {a} : data(b)' = data(b)
  <2>1. /\ datalogidx'[a] = DefaultIndex
        /\ now' = now
        /\ \A b \in AccountId \ {a} : /\ datalogidx'[b] = datalogidx[b]
                                      /\ datalogitem'[b] = datalogitem[b]
    BY <1>5 DEF Clear, TypeOK, W
  <2>2. data(a)' = << >>
    BY <2>1, EmptyRead DEF data
  <2>3. 2 + Len(IndexIter(datalogidx[a], W)) \in Nat
    BY IterLen, CountBound DEF TypeOK, Index
  <2>4. dispatch' = Outcome("Erased", a, 1, 2 + Len(IndexIter(datalogidx[a], W)))
    BY <1>5 DEF Clear, W
  <2> QED BY <2>1, <2>2, <2>3, <2>4 DEF data
<1> QED
  BY <1>1, <1>2, <1>3, <1>4, <1>5, NextSplit DEF SetTimestamp, Reject, vars

\* The pallet implements the bounded log: what data() returns for the accounts
\* behaves as BoundedLog with a capacity of WindowSize - 1 records.
THEOREM Refinement == Spec => ImplementsBoundedLog
<1> DEFINE log  == [a \in AccountId |-> data(a)]
           last == [result |-> dispatch.result, who |-> dispatch.who]
<1>1. Init => BL!Init
  <2> SUFFICES ASSUME Init PROVE BL!Init
    OBVIOUS
  <2>1. \A a \in AccountId : data(a) = << >>
    BY EmptyRead DEF Init, data
  <2>2. last = [result |-> "none", who |-> NoOrigin]
    BY DEF Init, Outcome
  <2> QED BY <2>1, <2>2, ClockAssumption DEF Init, BL!Init, Moment
<1>2. TypeOK /\ IndexShape /\ TypeOK' /\ [Next]_vars => [BL!Next]_(BL!logVars)
  <2> SUFFICES ASSUME TypeOK, IndexShape, TypeOK', [Next]_vars
               PROVE  [BL!Next]_(BL!logVars)
    OBVIOUS
  <2>1. ASSUME NEW x, NEW o, NEW i, NEW j, dispatch' = Outcome(x, o, i, j)
        PROVE  last' = [result |-> x, who |-> o]
    BY <2>1 DEF Outcome
  <2>2. CASE /\ \A b \in AccountId : data(b)' = data(b)
             /\ now' \in Moment /\ now' >= now
             /\ dispatch' = dispatch
    <3>1. log' = log /\ last' = last
      BY <2>2
    <3> QED BY <2>2, <3>1 DEF BL!Next, BL!Tick
  <2>3. ASSUME NEW o \in Origin, NEW x \in {"RecordTooBig", "BadOrigin"},
               x = "BadOrigin" => o = NoOrigin, now' = now,
               \A b \in AccountId : data(b)' = data(b), dispatch' = Outcome(x, o, 0, 0)
        PROVE  BL!Refuse(x, o)
    <3>1. log' = log
      BY <2>3
    <3> QED BY <2>1, <2>3, <3>1 DEF BL!Refuse
  <2>4. ASSUME NEW a \in AccountId, NEW r \in Record, now' = now,
               dispatch' = Outcome("NewRecord", a, 2, 3),
               data(a)' = BL!Trim(Append(data(a), [moment |-> now, record |-> r])),
               \A b \in AccountId \ {a} : data(b)' = data(b)
        PROVE  BL!Write(a, r)
    <3>1. log' = [log EXCEPT ![a] = BL!Trim(Append(log[a], [moment |-> now, record |-> r]))]
      BY <2>4
    <3> QED BY <2>1, <2>4, <3>1 DEF BL!Write
  <2>5. ASSUME NEW a \in AccountId, NEW w \in Nat, now' = now, data(a)' = << >>,
               dispatch' = Outcome("Erased", a, 1, w),
               \A b \in AccountId \ {a} : data(b)' = data(b)
        PROVE  BL!Erase(a)
    <3>1. log' = [log EXCEPT ![a] = << >>]
      BY <2>5
    <3> QED BY <2>1, <2>5, <3>1 DEF BL!Erase
  <2> QED BY <2>2, <2>3, <2>4, <2>5, DataStep DEF BL!Next, Origin
<1> QED BY <1>1, <1>2, TypeCorrect, PTL DEF Spec, BL!Spec, ImplementsBoundedLog

\* data() lists the records in the order of their moments, none in the future.
THEOREM OrderedLog == Spec => []MomentsOrdered
<1> DEFINE Sorted(d, c, n) == \A i, j \in 1 .. c :
                                /\ d[i].moment \in Nat /\ d[i].moment <= n
                                /\ i <= j => d[i].moment <= d[j].moment
           IsSeq(d, c) == d = [k \in 1 .. c |-> d[k]]
           Good(d, n)  == \E c \in Nat : IsSeq(d, c) /\ Sorted(d, c, n)
           Inv == \A a \in AccountId : Good(data(a), now)
<1>1. Init => Inv
  <2> SUFFICES ASSUME Init, NEW a \in AccountId PROVE Good(data(a), now)
    OBVIOUS
  <2>1. data(a) = << >>
    BY EmptyRead DEF Init, data
  <2>2. IsSeq(data(a), 0) /\ Sorted(data(a), 0, now)
    BY <2>1
  <2> QED BY <2>2
<1>2. TypeOK /\ IndexShape /\ TypeOK' /\ Inv /\ [Next]_vars => Inv'
  <2> SUFFICES ASSUME TypeOK, IndexShape, TypeOK', Inv, [Next]_vars, NEW a \in AccountId
               PROVE  Good(data(a), now)'
    OBVIOUS
  <2>1. now \in Nat /\ now' \in Nat
    BY ClockAssumption DEF TypeOK, Moment
  <2>2. PICK c \in Nat : IsSeq(data(a), c) /\ Sorted(data(a), c, now)
    OBVIOUS
  <2>3. CASE data(a)' = data(a) /\ now' >= now
    <3>1. ASSUME NEW d, Sorted(d, c, now) PROVE Sorted(d, c, now')
      BY <2>1, <2>3, <3>1
    <3>2. Sorted(data(a), c, now')
      BY <2>2, <3>1
    <3> QED BY <2>2, <2>3, <3>2
  <2>4. ASSUME NEW r \in Record, now' = now,
               data(a)' = BL!Trim(Append(data(a), [moment |-> now, record |-> r]))
        PROVE  Good(data(a), now)'
    <3> DEFINE item == [moment |-> now, record |-> r]
    <3>1. ASSUME NEW d, IsSeq(d, c), Sorted(d, c, now)
          PROVE  Good(BL!Trim(Append(d, item)), now)
      <4> DEFINE app == Append(d, item)
      <4>1. app = [k \in 1 .. c + 1 |-> IF k = c + 1 THEN item ELSE d[k]]
        BY <3>1, AppendOfFunction
      <4>2. IsSeq(app, c + 1)
        BY <4>1
      <4>3. Sorted(app, c + 1, now)
        BY <2>1, <3>1, <4>1
      <4>4. Tail(app) = [k \in 1 .. c |-> app[k + 1]]
        BY <4>2, TailOfFunction
      <4>5. IsSeq(Tail(app), c)
        BY <4>4
      <4> HIDE DEF app
      <4>6. Sorted(Tail(app), c, now)
        BY <4>3, <4>4
      <4>7. Good(app, now) /\ Good(Tail(app), now)
        <5>1. c + 1 \in Nat
          OBVIOUS
        <5> HIDE DEF IsSeq, Sorted
        <5>2. Good(app, now)
          BY <4>2, <4>3, <5>1
        <5>3. Good(Tail(app), now)
          BY <4>5, <4>6
        <5> QED BY <5>2, <5>3
      <4>8. BL!Trim(app) = app \/ BL!Trim(app) = Tail(app)
        BY DEF BL!Trim
      <4>9. Good(BL!Trim(app), now)
        BY <4>7, <4>8
      <4> QED BY <4>9 DEF app
    <3> QED BY <2>2, <2>4, <3>1
  <2>5. CASE data(a)' = << >>
    <3>1. IsSeq(<< >>, 0) /\ Sorted(<< >>, 0, now')
      OBVIOUS
    <3> QED BY <2>5, <3>1
  <2>6. \/ data(a)' = data(a) /\ now' >= now
        \/ /\ now' = now
           /\ \E r \in Record :
                data(a)' = BL!Trim(Append(data(a), [moment |-> now, record |-> r]))
        \/ data(a)' = << >>
    <3>1. now >= now
      BY <2>1
    <3> QED BY <3>1, DataStep
  <2> QED BY <2>3, <2>4, <2>5, <2>6
<1>3. Inv => MomentsOrdered
  <2> SUFFICES ASSUME Inv, NEW a \in AccountId,
                      NEW i \in 1 .. Len(data(a)), NEW j \in 1 .. Len(data(a))
               PROVE  /\ data(a)[i].moment <= now
                      /\ i <= j => data(a)[i].moment <= data(a)[j].moment
    BY DEF MomentsOrdered
  <2>1. PICK c \in Nat : IsSeq(data(a), c) /\ Sorted(data(a), c, now)
    OBVIOUS
  <2>2. Len(data(a)) = c
    BY <2>1, LenOfFunction
  <2> QED BY <2>1, <2>2
<1> QED BY <1>1, <1>2, <1>3, TypeCorrect, PTL DEF Spec

=============================================================================
