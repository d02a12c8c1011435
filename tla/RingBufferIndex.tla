--------------------------- MODULE RingBufferIndex ---------------------------
(***************************************************************************)
(* The start/end pointers of a datalog ring buffer: struct RingBufferIndex *)
(* and its iterator, pallets/datalog/src/lib.rs.  An index is a record     *)
(* [start, end]; max is the window size the pallet is configured with.     *)
(* The buffer is empty when start = end, so one of the max slots is never  *)
(* part of the window: it separates the newest item from the oldest.       *)
(***************************************************************************)
EXTENDS Integers, Sequences

\* RingBufferIndex::default(), what an account without a stored index has.
DefaultIndex == [start |-> 0, end |-> 0]

\* A plausible bug: wrap one slot too late.
IndexNextLateWrap(val, max) == IF val = max THEN 0 ELSE val + 1

\* RingBufferIndex::next: step one slot forward, wrapping at max.
IndexNext(val, max) == IF val + 1 = max THEN 0 ELSE val + 1

\* A plausible bug: the full buffer does not drop its oldest slot.
IndexAddNoEvict(idx, max) ==
  [slot |-> idx.end, index |-> [idx EXCEPT !.end = IndexNext(idx.end, max)]]

\* A plausible bug: the slot is taken after end was moved.
IndexAddAtNewEnd(idx, max) ==
  LET newEnd == IndexNext(idx.end, max)
  IN  [slot  |-> newEnd,
       index |-> [start |-> IF idx.start = newEnd THEN IndexNext(idx.start, max)
                                                  ELSE idx.start,
                  end   |-> newEnd]]

\* A plausible bug: end wraps one slot later than start.
IndexAddLateEnd(idx, max) ==
  LET newEnd == IndexNextLateWrap(idx.end, max)
  IN  [slot  |-> idx.end,
       index |-> [start |-> IF idx.start = newEnd THEN IndexNext(idx.start, max)
                                                  ELSE idx.start,
                  end   |-> newEnd]]

\* RingBufferIndex::add: the slot to write, and the index with end moved past
\* it; an end that catches up with start pushes start on by one.
IndexAdd(idx, max) ==
  LET newEnd == IndexNext(idx.end, max)
  IN  [slot  |-> idx.end,
       index |-> [start |-> IF idx.start = newEnd THEN IndexNext(idx.start, max)
                                                  ELSE idx.start,
                  end   |-> newEnd]]

\* A plausible bug: the iterator counts start up without wrapping it.
IteratorNextNoWrap(idx, max) ==
  IF idx.end = idx.start
  THEN [yields |-> << >>, index |-> idx]
  ELSE [yields |-> <<idx.start>>, index |-> [idx EXCEPT !.start = @ + 1]]

\* RingBufferIterator::next: the slot it yields (the empty sequence for None)
\* and the index it leaves behind.
IteratorNext(idx, max) ==
  IF idx.end = idx.start
  THEN [yields |-> << >>, index |-> idx]
  ELSE [yields |-> <<idx.start>>,
        index  |-> [idx EXCEPT !.start = IndexNext(idx.start, max)]]

\* The pointers a RingBufferIterator holds after it was called k times, and what
\* its k-th call yields.
IteratorAfter(idx, max, k) ==
  LET after[n \in Nat] == IF n = 0 THEN idx ELSE IteratorNext(after[n - 1], max).index
  IN  after[k]
IteratorYields(idx, max, k) == IteratorNext(IteratorAfter(idx, max, k - 1), max).yields

\* With pointers that a window of another size left behind, start may step over
\* end: it wraps around below end, or it is beyond the wrap-around and above end.
IndexEndless(idx, max) ==
  \/ idx.start < max /\ max <= idx.end
  \/ idx.end < idx.start /\ max <= idx.start

\* How many slots the iterator yields before it returns None.
IndexCount(idx, max) ==
  IF idx.start <= idx.end THEN idx.end - idx.start
                          ELSE max - idx.start + idx.end

\* A plausible bug: the window is read in the order of the slot numbers.
IndexSlotUnrotated(idx, max, k) ==
  IF idx.start > idx.end /\ k <= idx.end THEN k - 1
  ELSE IF idx.start > idx.end THEN idx.start + k - 1 - idx.end
  ELSE idx.start + k - 1

\* The k-th slot it yields, k = 1 first.  A start beyond the window never wraps.
IndexSlot(idx, max, k) ==
  IF idx.start + k - 1 < max \/ max <= idx.start THEN idx.start + k - 1
                                                 ELSE idx.start + k - 1 - max

\* RingBufferIndex::iter run to its end: the slots of the window, oldest first.
\* DatalogUpgrade compares this closed form with IteratorNext called until it
\* returns None, also with pointers of another window.
IndexIter(idx, max) ==
  [k \in 1 .. IndexCount(idx, max) |-> IndexSlot(idx, max, k)]

\* The slots of the window as a set.
LiveSlots(idx, max) ==
  IF idx.start <= idx.end THEN idx.start .. idx.end - 1
                          ELSE (idx.start .. max - 1) \cup (0 .. idx.end - 1)

=============================================================================
