------------------------ MODULE RingBufferIndexProofs ------------------------
(***************************************************************************)
(* What the ring pointers do, for every window size max.  The lemmas are   *)
(* used by the proofs about the pallet, about its upgrades and about its   *)
(* calls on a chain.                                                       *)
(***************************************************************************)
EXTENDS RingBufferIndex, WellFoundedInduction, TLAPS

\* Pointers within the window.
RingIndex(max) == [start : 0 .. max - 1, end : 0 .. max - 1]

\* A ring that has not wrapped starts at slot 0; once it has, it is full and
\* exactly one slot, the one at end, separates its newest from its oldest item.
Shape(idx) == idx.start # 0 => idx.start = idx.end + 1

-----------------------------------------------------------------------------
(* Functions on 1 .. n as sequences *)

LEMMA LenOfFunction ==
  ASSUME NEW n \in Nat, NEW f, f = [k \in 1 .. n |-> f[k]]
  PROVE  Len(f) = n
OBVIOUS

LEMMA TailOfFunction ==
  ASSUME NEW n \in Nat, n > 0, NEW f, f = [k \in 1 .. n |-> f[k]]
  PROVE  Tail(f) = [k \in 1 .. n - 1 |-> f[k+1]]
BY LenOfFunction

LEMMA AppendOfFunction ==
  ASSUME NEW n \in Nat, NEW f, f = [k \in 1 .. n |-> f[k]], NEW e
  PROVE  Append(f, e) = [k \in 1 .. n + 1 |-> IF k = n + 1 THEN e ELSE f[k]]
BY LenOfFunction

-----------------------------------------------------------------------------
(* The pointers *)

\* RingBufferIndex::add keeps both pointers in the window and returns the old
\* end.
LEMMA RingAdd ==
  ASSUME NEW max \in Nat \ {0}, NEW idx \in RingIndex(max)
  PROVE  /\ IndexAdd(idx, max).index \in RingIndex(max)
         /\ IndexAdd(idx, max).slot = idx.end
BY DEF IndexAdd, IndexNext, RingIndex

\* It keeps their shape.
LEMMA RingShape ==
  ASSUME NEW max \in Nat \ {0}, NEW idx \in RingIndex(max), Shape(idx)
  PROVE  Shape(IndexAdd(idx, max).index)
BY DEF IndexAdd, IndexNext, RingIndex, Shape

\* A window holds at most max - 1 items.
LEMMA RingCount ==
  ASSUME NEW max \in Nat \ {0}, NEW idx \in RingIndex(max)
  PROVE  IndexCount(idx, max) \in 0 .. max - 1
BY DEF IndexCount, RingIndex

\* A fresh index has no slots.
LEMMA RingEmpty ==
  ASSUME NEW max
  PROVE  IndexIter(DefaultIndex, max) = << >>
<1>1. IndexCount(DefaultIndex, max) = 0
  BY DEF IndexCount, DefaultIndex
<1> QED
  BY <1>1 DEF IndexIter

\* How many slots erase removes and data() reads.
LEMMA RingLen ==
  ASSUME NEW max \in Nat \ {0}, NEW idx \in RingIndex(max)
  PROVE  Len(IndexIter(idx, max)) = IndexCount(idx, max)
<1>1. IndexIter(idx, max) = [k \in 1 .. IndexCount(idx, max) |-> IndexIter(idx, max)[k]]
  BY DEF IndexIter
<1>2. IndexCount(idx, max) \in Nat
  BY RingCount
<1> QED
  BY <1>1, <1>2, LenOfFunction

\* What the iterator yields is exactly the set of live slots.
LEMMA RingSlots ==
  ASSUME NEW max \in Nat \ {0}, NEW idx \in RingIndex(max)
  PROVE  {IndexIter(idx, max)[k] : k \in DOMAIN IndexIter(idx, max)} = LiveSlots(idx, max)
<1>1. ASSUME NEW k \in 1 .. IndexCount(idx, max)
      PROVE  IndexSlot(idx, max, k) \in LiveSlots(idx, max)
  BY DEF IndexCount, IndexSlot, LiveSlots, RingIndex
<1>2. ASSUME NEW s \in LiveSlots(idx, max)
      PROVE  \E k \in 1 .. IndexCount(idx, max) : s = IndexSlot(idx, max, k)
  <2>1. CASE idx.start <= s
    <3>1. /\ s - idx.start + 1 \in 1 .. IndexCount(idx, max)
          /\ s = IndexSlot(idx, max, s - idx.start + 1)
      BY <2>1 DEF IndexCount, IndexSlot, LiveSlots, RingIndex
    <3> QED
      BY <3>1
  <2>2. CASE ~(idx.start <= s)
    <3>1. /\ s - idx.start + 1 + max \in 1 .. IndexCount(idx, max)
          /\ s = IndexSlot(idx, max, s - idx.start + 1 + max)
      BY <2>2 DEF IndexCount, IndexSlot, LiveSlots, RingIndex
    <3> QED
      BY <3>1
  <2> QED
    BY <2>1, <2>2
<1> QED
  BY <1>1, <1>2 DEF IndexIter

\* add makes at most the old end live, whatever the shape.
LEMMA RingLive ==
  ASSUME NEW max \in Nat \ {0}, NEW idx \in RingIndex(max)
  PROVE  LiveSlots(IndexAdd(idx, max).index, max) \subseteq LiveSlots(idx, max) \cup {idx.end}
BY DEF LiveSlots, IndexAdd, IndexNext, RingIndex

\* The slots of the window after add: while it is not full they are the same
\* and the old end; after that they are the same but the oldest, and the old end.
LEMMA RingStep ==
  ASSUME NEW max \in Nat \ {0}, NEW idx \in RingIndex(max), Shape(idx)
  PROVE  LET c   == IndexCount(idx, max)
             new == IndexAdd(idx, max).index
         IN  /\ \A k \in 1 .. c : IndexSlot(idx, max, k) \in 0 .. max - 1 /\ IndexSlot(idx, max, k) # idx.end
             /\ c < max - 1 =>
                  /\ IndexCount(new, max) = c + 1
                  /\ \A k \in 1 .. c + 1 : IndexSlot(new, max, k) = IndexSlot(idx, max, k)
                  /\ IndexSlot(idx, max, c + 1) = idx.end
             /\ c = max - 1 =>
                  /\ IndexCount(new, max) = c
                  /\ \A k \in 1 .. c : k # c => IndexSlot(new, max, k) = IndexSlot(idx, max, k + 1)
                  /\ c # 0 => IndexSlot(new, max, c) = idx.end
<1> DEFINE c   == IndexCount(idx, max)
           new == IndexAdd(idx, max).index
<1>1. c \in 0 .. max - 1
  BY RingCount
<1>2. \A k \in 1 .. c : IndexSlot(idx, max, k) \in 0 .. max - 1 /\ IndexSlot(idx, max, k) # idx.end
  BY <1>1 DEF IndexSlot, IndexCount, RingIndex
<1>3. ASSUME c < max - 1
      PROVE  /\ IndexCount(new, max) = c + 1
             /\ \A k \in 1 .. c + 1 : IndexSlot(new, max, k) = IndexSlot(idx, max, k)
             /\ IndexSlot(idx, max, c + 1) = idx.end
  BY <1>1, <1>3 DEF IndexSlot, IndexCount, IndexAdd, IndexNext, RingIndex, Shape
<1>4. ASSUME c = max - 1
      PROVE  /\ IndexCount(new, max) = c
             /\ \A k \in 1 .. c : k # c => IndexSlot(new, max, k) = IndexSlot(idx, max, k + 1)
             /\ c # 0 => IndexSlot(new, max, c) = idx.end
  <2>1. idx.start \in 0 .. max - 1 /\ idx.end \in 0 .. max - 1
    BY DEF RingIndex
  <2>2. idx.start = (IF idx.end + 1 = max THEN 0 ELSE idx.end + 1)
    BY <1>1, <1>4, <2>1 DEF IndexCount, Shape
  <2>3. /\ new.end = idx.start
        /\ new.start = IF idx.start + 1 = max THEN 0 ELSE idx.start + 1
    BY <2>2 DEF IndexAdd, IndexNext
  <2>4. IndexCount(new, max) = c
    BY <1>1, <1>4, <2>1, <2>3 DEF IndexCount
  <2>5. ASSUME NEW k \in 1 .. c, k # c
        PROVE  IndexSlot(new, max, k) = IndexSlot(idx, max, k + 1)
    BY <1>1, <1>4, <2>1, <2>3, <2>5 DEF IndexSlot
  <2>6. ASSUME c # 0
        PROVE  IndexSlot(new, max, c) = idx.end
    BY <1>1, <1>4, <2>1, <2>2, <2>3, <2>6 DEF IndexSlot
  <2> QED
    BY <2>4, <2>5, <2>6
<1> QED
  BY <1>2, <1>3, <1>4

\* The items of the window, when f holds those of the slots.
RingItems(f, idx, max) == [k \in 1 .. IndexCount(idx, max) |-> f[IndexSlot(idx, max, k)]]

\* Keep the newest max - 1 items of a log that has at most one too many.
RingTrim(s, max) == IF Len(s) > max - 1 THEN Tail(s) ELSE s

\* Reading the window after record, when before holds the items of the slots
\* and after those with item at the old end: item is appended, and the oldest
\* one dropped if the window was full.
LEMMA RingRead ==
  ASSUME NEW max \in Nat \ {0}, NEW idx \in RingIndex(max), Shape(idx),
         NEW before, NEW after, NEW item, after[idx.end] = item,
         \A i \in 0 .. max - 1 : i # idx.end => after[i] = before[i]
  PROVE  RingItems(after, IndexAdd(idx, max).index, max)
           = RingTrim(Append(RingItems(before, idx, max), item), max)
<1> DEFINE new == IndexAdd(idx, max).index
           c   == IndexCount(idx, max)
           d   == [k \in 1 .. c |-> before[IndexSlot(idx, max, k)]]
           e   == [k \in 1 .. IndexCount(new, max) |-> after[IndexSlot(new, max, k)]]
           app == Append(d, item)
<1>1. c \in 0 .. max - 1 /\ c \in Nat
  BY RingCount
<1>2. d = [k \in 1 .. c |-> d[k]]
  OBVIOUS
<1>3. app = [k \in 1 .. c + 1 |-> IF k = c + 1 THEN item ELSE d[k]]
  BY <1>1, <1>2, AppendOfFunction
<1>4. app = [k \in 1 .. c + 1 |-> app[k]]
  BY <1>3
<1>5. Len(app) = c + 1
  BY <1>1, <1>4, LenOfFunction
<1>6. \A k \in 1 .. c : /\ IndexSlot(idx, max, k) \in 0 .. max - 1
                        /\ IndexSlot(idx, max, k) # idx.end
  BY RingStep
<1>7. \A k \in 1 .. c : after[IndexSlot(idx, max, k)] = d[k]
  BY <1>6
<1>8. CASE c < max - 1
  <2>1. /\ IndexCount(new, max) = c + 1
        /\ \A k \in 1 .. c + 1 : IndexSlot(new, max, k) = IndexSlot(idx, max, k)
        /\ IndexSlot(idx, max, c + 1) = idx.end
    BY <1>8, RingStep
  <2>2. \A k \in 1 .. c + 1 : after[IndexSlot(new, max, k)] = IF k = c + 1 THEN item ELSE d[k]
    <3> HIDE DEF d
    <3> QED
      BY <1>1, <1>7, <2>1
  <2>3. e = app
    BY <1>3, <2>1, <2>2
  <2>4. ~(Len(app) > max - 1)
    BY <1>1, <1>5, <1>8
  <2> QED
    BY <2>3, <2>4 DEF RingItems, RingTrim
<1>9. CASE c = max - 1
  <2>1. /\ IndexCount(new, max) = c
        /\ \A k \in 1 .. c : k # c => IndexSlot(new, max, k) = IndexSlot(idx, max, k + 1)
        /\ c # 0 => IndexSlot(new, max, c) = idx.end
    BY <1>9, RingStep
  <2>2. \A k \in 1 .. c : after[IndexSlot(new, max, k)] = app[k + 1]
    <3> HIDE DEF d
    <3> QED
      BY <1>1, <1>3, <1>7, <2>1
  <2>3. Tail(app) = [k \in 1 .. c |-> app[k + 1]]
    <3> HIDE DEF app
    <3> QED
      BY <1>1, <1>4, TailOfFunction
  <2>4. e = Tail(app)
    BY <2>1, <2>2, <2>3
  <2>5. Len(app) > max - 1
    BY <1>1, <1>5, <1>9
  <2> QED
    BY <2>4, <2>5 DEF RingItems, RingTrim
<1> QED
  BY <1>1, <1>8, <1>9

-----------------------------------------------------------------------------
(* The iterator, call by call *)

\* Induction over the naturals, for the members of a set.
LEMMA CountUp ==
  ASSUME NEW X, 0 \in X, \A n \in Nat : n \in X => n + 1 \in X
  PROVE  \A n \in Nat : n \in X
<1> DEFINE bad == {n \in Nat : n \notin X}
<1>1. SUFFICES ASSUME bad # {} PROVE FALSE
  OBVIOUS
<1>2. bad \subseteq Nat
  OBVIOUS
<1> HIDE DEF bad
<1>3. PICK n \in bad : \A m \in bad : ~(<<m, n>> \in OpToRel(<, Nat))
  BY <1>1, <1>2, WFMin, NatLessThanWellFounded
<1>4. n \in Nat /\ n # 0
  BY <1>2 DEF bad
<1>5. n - 1 \in Nat /\ n - 1 < n /\ (n - 1) + 1 = n
  BY <1>4
<1>6. <<n - 1, n>> \in OpToRel(<, Nat)
  BY <1>4, <1>5, Zenon DEF OpToRel
<1>7. n - 1 \in X
  BY <1>3, <1>5, <1>6 DEF bad
<1> QED
  BY <1>5, <1>7 DEF bad

\* The pointers an iterator leaves behind, as a function of the calls.
IteratorLeft(q, max) == IteratorNext(q, max).index
IteratorRuns(p, max, after) ==
  after = [n \in Nat |-> IF n = 0 THEN p ELSE IteratorLeft(after[n - 1], max)]

\* The same up to n calls.
IteratorRunsTo(p, max, n, g) ==
  g[0] = p /\ \A m \in 1 .. n : g[m] = IteratorLeft(g[m - 1], max)

LEMMA RunsToExists ==
  ASSUME NEW p, NEW max
  PROVE  \A n \in Nat : \E g : IteratorRunsTo(p, max, n, g)
<1> DEFINE X == {n \in Nat : \E g : IteratorRunsTo(p, max, n, g)}
<1>1. 0 \in X
  <2> DEFINE g == [m \in Nat |-> p]
  <2>1. IteratorRunsTo(p, max, 0, g)
    BY DEF IteratorRunsTo
  <2> HIDE DEF g
  <2> QED
    BY <2>1
<1>2. ASSUME NEW n \in Nat, n \in X PROVE n + 1 \in X
  <2>1. PICK g : IteratorRunsTo(p, max, n, g)
    BY <1>2
  <2> DEFINE h == [m \in Nat |-> IF m = n + 1 THEN IteratorLeft(g[n], max) ELSE g[m]]
  <2>2. h[0] = p
    BY <2>1 DEF IteratorRunsTo
  <2>3. ASSUME NEW m \in 1 .. n + 1 PROVE h[m] = IteratorLeft(h[m - 1], max)
    <3>1. m \in Nat /\ m - 1 \in Nat /\ m - 1 # n + 1
      OBVIOUS
    <3>2. h[m - 1] = g[m - 1]
      BY <3>1
    <3>3. CASE m = n + 1
      BY <3>1, <3>2, <3>3
    <3>4. CASE m # n + 1
      <4>1. m \in 1 .. n /\ h[m] = g[m]
        BY <3>1, <3>4
      <4> QED
        BY <2>1, <3>2, <4>1 DEF IteratorRunsTo
    <3> QED
      BY <3>3, <3>4
  <2> HIDE DEF h
  <2>4. IteratorRunsTo(p, max, n + 1, h)
    BY <2>2, <2>3 DEF IteratorRunsTo
  <2> QED
    BY <2>4
<1>3. \A n \in Nat : n \in X
  <2> HIDE DEF X
  <2> QED
    BY <1>1, <1>2, CountUp
<1> QED
  BY <1>3

LEMMA RunsToUnique ==
  ASSUME NEW p, NEW max, NEW n \in Nat, NEW g, NEW h,
         IteratorRunsTo(p, max, n, g), IteratorRunsTo(p, max, n, h)
  PROVE  \A m \in 0 .. n : g[m] = h[m]
<1> DEFINE X == {m \in Nat : m <= n => g[m] = h[m]}
<1>1. 0 \in X
  BY DEF IteratorRunsTo
<1>2. ASSUME NEW m \in Nat, m \in X PROVE m + 1 \in X
  <2>1. SUFFICES ASSUME m + 1 <= n PROVE g[m + 1] = h[m + 1]
    OBVIOUS
  <2>2. m + 1 \in 1 .. n /\ (m + 1) - 1 = m /\ g[m] = h[m]
    BY <1>2, <2>1
  <2>3. g[m + 1] = IteratorLeft(g[m], max) /\ h[m + 1] = IteratorLeft(h[m], max)
    BY <2>2 DEF IteratorRunsTo
  <2> QED
    BY <2>2, <2>3
<1>3. \A m \in Nat : m \in X
  <2> HIDE DEF X
  <2> QED
    BY <1>1, <1>2, CountUp
<1> QED
  BY <1>3

\* An iterator can be called any number of times, and each call goes on from
\* where the one before left the pointers.
LEMMA IteratorSteps ==
  ASSUME NEW p, NEW max
  PROVE  /\ IteratorAfter(p, max, 0) = p
         /\ \A n \in Nat :
              IteratorAfter(p, max, n + 1) = IteratorLeft(IteratorAfter(p, max, n), max)
<1> DEFINE To(n) == CHOOSE g : IteratorRunsTo(p, max, n, g)
           run   == [n \in Nat |-> To(n)[n]]
           after == CHOOSE g : IteratorRuns(p, max, g)
<1>1. \A n \in Nat : IteratorRunsTo(p, max, n, To(n))
  BY RunsToExists
<1>2. \A n \in Nat : run[n] = To(n)[n]
  OBVIOUS
<1> HIDE DEF To
<1>3. run[0] = p
  BY <1>1, <1>2 DEF IteratorRunsTo
<1>4. ASSUME NEW n \in Nat, n # 0 PROVE run[n] = IteratorLeft(run[n - 1], max)
  <2>1. n - 1 \in Nat /\ n \in 1 .. n /\ n - 1 \in 0 .. n - 1 /\ 1 .. n - 1 \subseteq 1 .. n
    BY <1>4
  <2>2. IteratorRunsTo(p, max, n - 1, To(n)) /\ IteratorRunsTo(p, max, n - 1, To(n - 1))
    BY <1>1, <2>1 DEF IteratorRunsTo
  <2>3. To(n)[n - 1] = To(n - 1)[n - 1]
    BY <2>1, <2>2, RunsToUnique
  <2>4. To(n)[n] = IteratorLeft(To(n)[n - 1], max)
    BY <1>1, <2>1 DEF IteratorRunsTo
  <2> QED
    BY <1>2, <2>1, <2>3, <2>4
<1>5. IteratorRuns(p, max, run)
  <2>1. run = [n \in Nat |-> run[n]]
    OBVIOUS
  <2>2. \A n \in Nat : run[n] = IF n = 0 THEN p ELSE IteratorLeft(run[n - 1], max)
    BY <1>3, <1>4
  <2> HIDE DEF run
  <2> QED
    BY <2>1, <2>2 DEF IteratorRuns
<1>6. IteratorRuns(p, max, after)
  <2> HIDE DEF run
  <2> QED
    BY <1>5
<1>7. \A k : IteratorAfter(p, max, k) = after[k]
  BY DEF IteratorAfter, IteratorRuns, IteratorLeft
<1> HIDE DEF after
<1>8. \A n \in Nat : after[n] = IF n = 0 THEN p ELSE IteratorLeft(after[n - 1], max)
  BY <1>6 DEF IteratorRuns
<1>9. \A n \in Nat : n + 1 \in Nat /\ n + 1 # 0 /\ (n + 1) - 1 = n
  OBVIOUS
<1> QED
  BY <1>7, <1>8, <1>9

\* Pointers that step over end do so for ever: every call yields something.
LEMMA IteratorNeverEnds ==
  ASSUME NEW max \in Nat \ {0}, NEW p \in [start : Nat, end : Nat], IndexEndless(p, max)
  PROVE  \A k \in Nat \ {0} : IteratorYields(p, max, k) # << >>
<1> DEFINE After(k) == IteratorAfter(p, max, k)
           Going(q) == q \in [start : Nat, end : Nat] /\ IndexEndless(q, max)
           X == {k \in Nat : Going(After(k))}
<1>1. After(0) = p /\ \A k \in Nat : After(k + 1) = IteratorLeft(After(k), max)
  BY IteratorSteps
<1> HIDE DEF After
<1>2. 0 \in X
  BY <1>1
<1>3. ASSUME NEW q, Going(q) PROVE Going(IteratorLeft(q, max)) /\ IteratorNext(q, max).yields # << >>
  BY <1>3 DEF IteratorLeft, IteratorNext, IndexNext, IndexEndless
<1>4. ASSUME NEW k \in Nat, k \in X PROVE k + 1 \in X
  <2>1. Going(After(k)) /\ After(k + 1) = IteratorLeft(After(k), max)
    BY <1>1, <1>4
  <2>2. Going(After(k + 1))
    <3> HIDE DEF Going
    <3> QED
      BY <1>3, <2>1
  <2> QED
    BY <2>2
<1>5. \A k \in Nat : k \in X
  <2> HIDE DEF X
  <2> QED
    BY <1>2, <1>4, CountUp
<1>6. SUFFICES ASSUME NEW k \in Nat \ {0} PROVE IteratorNext(After(k - 1), max).yields # << >>
  BY DEF IteratorYields, After
<1>7. k - 1 \in Nat
  OBVIOUS
<1>8. Going(After(k - 1))
  BY <1>5, <1>7
<1> HIDE DEF Going
<1> QED
  BY <1>3, <1>8

\* All others come to an end: the slots are those of the closed form, in its
\* order, and None follows.
LEMMA IteratorDrains ==
  ASSUME NEW max \in Nat \ {0}, NEW p \in [start : Nat, end : Nat], ~IndexEndless(p, max)
  PROVE  LET c == IndexCount(p, max)
         IN  /\ c \in Nat
             /\ \A k \in 1 .. c : IteratorYields(p, max, k) = <<IndexSlot(p, max, k)>>
             /\ IteratorYields(p, max, c + 1) = << >>
<1> DEFINE c == IndexCount(p, max)
           After(k) == IteratorAfter(p, max, k)
           Start(k) == IF k < c THEN IndexSlot(p, max, k + 1) ELSE p.end
           At(k)    == [start |-> Start(k), end |-> p.end]
           X == {k \in Nat : k <= c => After(k) = At(k)}
<1>1. After(0) = p /\ \A k \in Nat : After(k + 1) = IteratorLeft(After(k), max)
  BY IteratorSteps
<1>2. p.start \in Nat /\ p.end \in Nat /\ p = [start |-> p.start, end |-> p.end]
  OBVIOUS
<1>3. c \in Nat
  BY <1>2 DEF IndexCount, IndexEndless
<1>4. Start(0) = p.start
  BY <1>2 DEF IndexCount, IndexEndless, IndexSlot
<1>5. ASSUME NEW k \in Nat, k < c
      PROVE  Start(k) # p.end /\ IndexNext(Start(k), max) = Start(k + 1)
  BY <1>2, <1>5 DEF IndexCount, IndexEndless, IndexSlot, IndexNext
<1>6. ASSUME NEW k \in Nat, k < c
      PROVE  Start(k) = IndexSlot(p, max, k + 1)
  BY <1>6
<1>7. Start(c) = p.end
  BY <1>3
<1> HIDE DEF c, After, Start
<1>8. 0 \in X
  BY <1>1, <1>2, <1>4
<1>9. ASSUME NEW k \in Nat, k \in X PROVE k + 1 \in X
  <2>1. SUFFICES ASSUME k + 1 <= c PROVE After(k + 1) = At(k + 1)
    OBVIOUS
  <2>2. k < c /\ After(k) = At(k)
    BY <1>3, <1>9, <2>1
  <2>3. /\ After(k + 1) = IteratorLeft(At(k), max)
        /\ Start(k) # p.end /\ IndexNext(Start(k), max) = Start(k + 1)
    BY <1>1, <1>5, <2>2
  <2> QED
    BY <2>3 DEF IteratorLeft, IteratorNext
<1>10. \A k \in Nat : k \in X
  <2> HIDE DEF X
  <2> QED
    BY <1>8, <1>9, CountUp
<1>11. ASSUME NEW k \in 1 .. c PROVE IteratorYields(p, max, k) = <<IndexSlot(p, max, k)>>
  <2>1. k - 1 \in Nat /\ k - 1 < c /\ k - 1 <= c /\ (k - 1) + 1 = k
    BY <1>3
  <2>2. After(k - 1) = At(k - 1) /\ Start(k - 1) # p.end /\ Start(k - 1) = IndexSlot(p, max, k)
    BY <1>5, <1>6, <1>10, <2>1
  <2>3. IteratorYields(p, max, k) = IteratorNext(At(k - 1), max).yields
    BY <2>2 DEF IteratorYields, After
  <2> QED
    BY <2>2, <2>3 DEF IteratorNext
<1>12. IteratorYields(p, max, c + 1) = << >>
  <2>1. (c + 1) - 1 = c /\ c <= c
    BY <1>3
  <2>2. After(c) = At(c) /\ Start(c) = p.end
    BY <1>3, <1>7, <1>10, <2>1
  <2>3. IteratorYields(p, max, c + 1) = IteratorNext(At(c), max).yields
    BY <2>1, <2>2 DEF IteratorYields, After
  <2> QED
    BY <2>2, <2>3 DEF IteratorNext
<1> QED
  BY <1>3, <1>11, <1>12 DEF c

=============================================================================
