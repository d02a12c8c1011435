---------------------------- MODULE DatalogUpgrade ----------------------------
(***************************************************************************)
(* The datalog pallet across runtime upgrades that change its window size. *)
(* WindowSize is a constant of the runtime (DatalogWindowSize), read anew  *)
(* by every call, while the ring pointers in the storage were left by the  *)
(* runtime before: nothing migrates them.  One account is enough, since no *)
(* call reads another account's storage (see Datalog).                     *)
(*                                                                         *)
(* With pointers that do not fit the window, the iterator of erase and     *)
(* data may step over end and go on for ever, or for some 2^64 steps until *)
(* the u64 wraps around; both are called endless here.                     *)
(***************************************************************************)
EXTENDS Integers, Sequences, RingBufferIndex

CONSTANTS
  WindowSizes,   \* the window sizes of successive runtimes
  MaxRecords,    \* bound on the records submitted
  MaxUpgrades    \* bound on the upgrades

ASSUME WindowSizesAssumption == WindowSizes \subseteq Nat \ {0}
ASSUME BoundsAssumption == MaxRecords \in Nat /\ MaxUpgrades \in Nat

VARIABLES
  window,     \* T::WindowSize of the current runtime
  idx,        \* DatalogIndex of the account
  items,      \* DatalogItem of the account, by slot: records are numbered
  submitted,  \* how many records were submitted
  upgrades,   \* how many upgrades there were
  log,        \* the log a reader expects: see BoundedLog
  unfit,      \* an upgrade since the last erase met pointers it does not fit
  lowered     \* an upgrade since the last erase lowered the window size

vars == <<window, idx, items, submitted, upgrades, log, unfit, lowered>>

-----------------------------------------------------------------------------
(* The iterator with any pointers *)

\* What the iterator yields, and whether it never comes to an end.
Iterated == IndexIter(idx, window)
Endless  == IndexEndless(idx, window)

\* What DatalogItem::get returns for a slot that was never written.
DefaultItem == 0

\* Module::data, which returns unless the iterator is endless.
data == [k \in DOMAIN Iterated |->
           IF Iterated[k] \in DOMAIN items THEN items[Iterated[k]] ELSE DefaultItem]

-----------------------------------------------------------------------------
(* Calls and upgrades *)

Init ==
  /\ window \in WindowSizes
  /\ idx = DefaultIndex
  /\ items = << >>
  /\ submitted = 0 /\ upgrades = 0
  /\ log = << >>
  /\ unfit = FALSE /\ lowered = FALSE

\* Keep the newest window - 1 items.
Trim(s) == IF Len(s) > window - 1 THEN Tail(s) ELSE s

\* Call record.
record ==
  LET added == IndexAdd(idx, window)
      r     == submitted + 1
  IN  /\ submitted < MaxRecords
      /\ submitted' = r
      /\ idx' = added.index
      /\ items' = [i \in DOMAIN items \cup {added.slot} |-> IF i = added.slot THEN r ELSE items[i]]
      /\ log' = Trim(Append(log, r))
      /\ UNCHANGED <<window, upgrades, unfit, lowered>>

\* Call erase: it returns only if its iterator does.
erase ==
  /\ ~Endless
  /\ idx' = DefaultIndex
  /\ items' = [i \in DOMAIN items \ {Iterated[k] : k \in DOMAIN Iterated} |-> items[i]]
  /\ log' = << >>
  /\ unfit' = FALSE /\ lowered' = FALSE
  /\ UNCHANGED <<window, submitted, upgrades>>

\* A window of the new size holds the pointers as they are: no slot from the
\* first to the last one they span is beyond it, and none has to wrap around.
Fits(size) == idx.start = 0 /\ idx.end < size

\* set_code: the next block runs a runtime with another DatalogWindowSize.
Upgrade(size) ==
  /\ upgrades < MaxUpgrades /\ size # window
  /\ window' = size
  /\ upgrades' = upgrades + 1
  /\ unfit' = (unfit \/ ~Fits(size))
  /\ lowered' = (lowered \/ size < window)
  /\ UNCHANGED <<idx, items, submitted, log>>

Next ==
  \/ record
  \/ erase
  \/ \E size \in WindowSizes : Upgrade(size)

Spec == Init /\ [][Next]_vars

-----------------------------------------------------------------------------
(* Properties *)

\* Every variable has its type; pointers leave the window only after it was
\* lowered.
TypeOK ==
  /\ window \in WindowSizes
  /\ idx \in [start : Nat, end : Nat]
  /\ ~lowered => idx.start < window /\ idx.end < window
  /\ \A i \in DOMAIN items : i \in Nat /\ items[i] \in 1 .. submitted
  /\ submitted \in 0 .. MaxRecords /\ upgrades \in 0 .. MaxUpgrades
  /\ log \in Seq(1 .. MaxRecords)
  /\ unfit \in BOOLEAN /\ lowered \in BOOLEAN

\* An upgrade is safe for an account whose pointers fit the new window: data()
\* keeps returning the newest records in order, up to the new capacity, and
\* erase stays within the writes its weight pays for, however many upgrades,
\* records and erases follow.
FitKeepsLog == ~unfit => data = log /\ Len(data) < window

\* Whatever the pointers, a higher window never makes the iterator endless: an
\* account is stuck, unable to erase or to be read, only after the window was
\* lowered.
EndlessOnlyIfLowered == Endless => lowered

\* More calls than an iterator that comes to an end takes: end is moved by one
\* per record and the windows are smaller than that.
Patience == MaxRecords + 1

\* RingBufferIterator on the pointers of its window and of any other, whatever
\* upgrades came between: it never returns None exactly where IndexEndless says
\* so, and otherwise it yields IndexIter's slots in turn before it does.
DrainAgrees ==
  LET Call(k) == IteratorYields(idx, window, k)
  IN  IF Endless
      THEN \A k \in 1 .. Patience : Call(k) # << >>
      ELSE /\ \A k \in DOMAIN Iterated : Call(k) = <<Iterated[k]>>
           /\ Call(Len(Iterated) + 1) = << >>

\* The slots that data() reads and nobody wrote.
Holes == {Iterated[k] : k \in DOMAIN Iterated} \ DOMAIN items

\* A higher window can make data() return items nobody wrote, but between
\* upgrades no slot joins those it reads unwritten, and the records that follow
\* fill them, as long as no upgrade since the last erase lowered the window.
HolesHeal == [][window' = window /\ ~lowered /\ ~lowered' => Holes' \subseteq Holes]_vars

=============================================================================
