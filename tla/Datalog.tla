------------------------------- MODULE Datalog -------------------------------
(***************************************************************************)
(* The datalog pallet, pallets/datalog/src/lib.rs: its three storage maps, *)
(* its calls record and erase, and the query data().  A call executes      *)
(* atomically inside a block; a call that returns an error before its      *)
(* first write leaves the storage alone (FRAME 2.0 does not roll back).    *)
(* The clock is the Timestamp pallet, which the runtime configures as Time.*)
(***************************************************************************)
EXTENDS Integers, Sequences, RingBufferIndex

CONSTANTS
  AccountId,            \* the accounts that sign calls
  NoOrigin,             \* Origin::none()
  Record,               \* the records clients submit
  RecordLen,            \* their length in bytes
  DefaultRecord,        \* T::Record::default(), the empty record
  WindowSize,           \* T::WindowSize, 128 in the runtime
  MaximumMessageSize,   \* T::MaximumMessageSize, 512 in the runtime
  OldLogs,              \* logs the previous pallet version may have left
  MinimumPeriod,        \* pallet_timestamp's least distance between blocks
  MaxMoment             \* bound on the clock

Moment == 0 .. MaxMoment
Item   == [moment : Moment, record : Record]

ASSUME WindowAssumption == WindowSize \in Nat \ {0}
ASSUME ClockAssumption  == MinimumPeriod \in Nat /\ MaxMoment \in Nat
ASSUME RecordAssumption == /\ RecordLen \in [Record -> Nat]
                           /\ NoOrigin \notin AccountId
ASSUME OldAssumption    == OldLogs \subseteq Seq(Item)

VARIABLES
  now,          \* Timestamp::now()
  datalog,      \* Datalog: the logs of the previous version, by account
  datalogidx,   \* DatalogIndex: the ring pointers, by account
  datalogitem,  \* DatalogItem: the stored items, by account and slot
  dispatch      \* result, sender and database operations of the last call

vars == <<now, datalog, datalogidx, datalogitem, dispatch>>

Slots   == 0 .. WindowSize - 1
Results == {"none", "RecordTooBig", "BadOrigin", "NewRecord", "Erased"}

-----------------------------------------------------------------------------
(* Storage maps *)

\* StorageMap::insert and StorageMap::remove on a partial function.
Insert(m, k, v)    == [i \in DOMAIN m \cup {k} |-> IF i = k THEN v ELSE m[i]]
RemoveAll(m, keys) == [i \in DOMAIN m \ keys |-> m[i]]

\* RingBufferItem::default(), what a read of an absent slot returns.
DefaultItem == [moment |-> 0, record |-> DefaultRecord]

\* StorageMap::get: absent slots read as the default item.
GetItem(items, i) == IF i \in DOMAIN items THEN items[i] ELSE DefaultItem

\* The items of a window, oldest first.
ReadWindow(idx, items) ==
  LET slots == IndexIter(idx, WindowSize)
  IN  [k \in DOMAIN slots |-> GetItem(items, slots[k])]

\* Module::data: the account's log.
data(a) == ReadWindow(datalogidx[a], datalogitem[a])

-----------------------------------------------------------------------------
(* Weights *)

\* A plausible bug: the write of the index is not counted.
EraseWeightShort(win) == [reads |-> 1, writes |-> win]

\* WeightInfo::record and WeightInfo::erase: the database operations the
\* weights pay for.
RecordWeight     == [reads |-> 2, writes |-> 3]
EraseWeight(win) == [reads |-> 1, writes |-> 1 + win]

\* A call's error or event, its sender and its database operations.
Outcome(result, who, reads, writes) ==
  [result |-> result, who |-> who, reads |-> reads, writes |-> writes]

-----------------------------------------------------------------------------
(* Calls *)

\* parity-scale-codec's size_hint of a Vec<u8>: the bytes and a u32 of length.
SizeHint(r) == 4 + RecordLen[r]

Init ==
  /\ now = 0
  /\ datalog \in [AccountId -> OldLogs]
  /\ datalogidx  = [a \in AccountId |-> DefaultIndex]
  /\ datalogitem = [a \in AccountId |-> << >>]
  /\ dispatch = Outcome("none", NoOrigin, 0, 0)

\* pallet_timestamp: the inherent of every block moves the clock.
SetTimestamp(t) ==
  /\ now = 0 \/ t >= now + MinimumPeriod
  /\ t >= now
  /\ now' = t
  /\ UNCHANGED <<datalog, datalogidx, datalogitem, dispatch>>

\* A call that fails before it touches the storage.
Reject(result, who) ==
  /\ dispatch' = Outcome(result, who, 0, 0)
  /\ UNCHANGED <<now, datalog, datalogidx, datalogitem>>

\* A plausible bug: the log of the previous version is kept.
StoreKeepOld(sender, r) ==
  LET added == IndexAdd(datalogidx[sender], WindowSize)
  IN  /\ datalogidx'  = [datalogidx EXCEPT ![sender] = added.index]
      /\ datalogitem' = [datalogitem EXCEPT ![sender] =
                           Insert(@, added.slot, [moment |-> now, record |-> r])]
      /\ dispatch' = Outcome("NewRecord", sender, 2, 3)
      /\ UNCHANGED <<now, datalog>>

\* A plausible bug: the item goes to the slot after the one add returned.
StoreNextSlot(sender, r) ==
  LET added == IndexAdd(datalogidx[sender], WindowSize)
  IN  /\ datalog'     = [datalog EXCEPT ![sender] = << >>]
      /\ datalogidx'  = [datalogidx EXCEPT ![sender] = added.index]
      /\ datalogitem' = [datalogitem EXCEPT ![sender] =
                           Insert(@, added.index.end, [moment |-> now, record |-> r])]
      /\ dispatch' = Outcome("NewRecord", sender, 2, 3)
      /\ UNCHANGED now

\* record past its checks: the old log is removed, the index advanced and the
\* item written to the slot the index gave.  Two reads (clock, index) and
\* three writes (old log, index, item).
Store(sender, r) ==
  LET added == IndexAdd(datalogidx[sender], WindowSize)
  IN  /\ datalog'     = [datalog EXCEPT ![sender] = << >>]
      /\ datalogidx'  = [datalogidx EXCEPT ![sender] = added.index]
      /\ datalogitem' = [datalogitem EXCEPT ![sender] =
                           Insert(@, added.slot, [moment |-> now, record |-> r])]
      /\ dispatch' = Outcome("NewRecord", sender, 2, 3)
      /\ UNCHANGED now

\* Call record: the size is checked before the origin.
record(origin, r) ==
  \/ /\ SizeHint(r) > MaximumMessageSize
     /\ Reject("RecordTooBig", origin)
  \/ /\ SizeHint(r) <= MaximumMessageSize
     /\ origin = NoOrigin
     /\ Reject("BadOrigin", origin)
  \/ /\ SizeHint(r) <= MaximumMessageSize
     /\ origin \in AccountId
     /\ Store(origin, r)

\* A plausible bug: the index is taken, its items are left in the storage.
ClearKeepItems(sender) ==
  /\ datalog'    = [datalog EXCEPT ![sender] = << >>]
  /\ datalogidx' = [datalogidx EXCEPT ![sender] = DefaultIndex]
  /\ dispatch'   = Outcome("Erased", sender, 1, 2)
  /\ UNCHANGED <<now, datalogitem>>

\* erase past its check: the old log and the index are removed, then every
\* item the taken index iterates over.
Clear(sender) ==
  LET slots == IndexIter(datalogidx[sender], WindowSize)
  IN  /\ datalog'     = [datalog EXCEPT ![sender] = << >>]
      /\ datalogidx'  = [datalogidx EXCEPT ![sender] = DefaultIndex]
      /\ datalogitem' = [datalogitem EXCEPT ![sender] =
                           RemoveAll(@, {slots[k] : k \in DOMAIN slots})]
      /\ dispatch' = Outcome("Erased", sender, 1, 2 + Len(slots))
      /\ UNCHANGED now

\* Call erase.
erase(origin) ==
  \/ /\ origin = NoOrigin
     /\ Reject("BadOrigin", origin)
  \/ /\ origin \in AccountId
     /\ Clear(origin)

Origin == AccountId \cup {NoOrigin}

Next ==
  \/ \E t \in Moment : SetTimestamp(t)
  \/ \E o \in Origin, r \in Record : record(o, r)
  \/ \E o \in Origin : erase(o)

Spec == Init /\ [][Next]_vars

-----------------------------------------------------------------------------
(* Properties *)

\* Every storage value has its type; in particular the ring pointers stay
\* below the window size, which RingBufferIndex::next only tests by equality.
TypeOK ==
  /\ now \in Moment
  /\ datalog \in [AccountId -> Seq(Item)]
  /\ datalogidx \in [AccountId -> [start : Slots, end : Slots]]
  /\ datalogitem \in [AccountId -> UNION {[S -> Item] : S \in SUBSET Slots}]
  /\ dispatch \in [result : Results, who : Origin, reads : Nat, writes : Nat]

\* The slots of an account's storage that are no part of its window.
Stale(a) == DOMAIN datalogitem[a] \ LiveSlots(datalogidx[a], WindowSize)

\* data() never returns a default item the account did not write: each slot
\* the index iterates over was inserted and not removed since, whatever mix
\* of wrap-arounds and erases came before.
LiveSlotsFilled ==
  \A a \in AccountId : LiveSlots(datalogidx[a], WindowSize) \subseteq DOMAIN datalogitem[a]

\* Storage does not leak: records evicted by a wrap-around and not reachable
\* through the index never number more than one per account, however often
\* the account fills its window and erases it.
StaleAtMostOne == \A a \in AccountId : \A i, j \in Stale(a) : i = j

\* Migration from the previous pallet version: an account has either its old
\* log or a ring buffer, never both, so no reader has to merge the two.
OldXorNew ==
  \A a \in AccountId : datalog[a] # << >> =>
    datalogidx[a] = DefaultIndex /\ datalogitem[a] = << >>

\* data() lists the records in the order they were written: their moments do
\* not decrease from the oldest to the newest and none lies in the future.
MomentsOrdered ==
  \A a \in AccountId : \A i, j \in 1 .. Len(data(a)) :
    /\ data(a)[i].moment <= now
    /\ i <= j => data(a)[i].moment <= data(a)[j].moment

\* No call does more database reads or writes than the weight its sender paid
\* for.  erase is the tight one: a full window makes it write exactly
\* 1 + WindowSize keys.
WeightCoversDb ==
  LET paid == IF dispatch.result = "Erased" THEN EraseWeight(WindowSize) ELSE RecordWeight
  IN  dispatch.reads <= paid.reads /\ dispatch.writes <= paid.writes

\* "Clear account`s datalog": after an erase none of the account's records is
\* left in the storage.  The code does not satisfy this: the slot that
\* separates the newest from the oldest item holds the record evicted last,
\* and the taken index does not iterate over it.
EraseClears ==
  dispatch.result = "Erased" => datalogitem[dispatch.who] = << >>

\* The pallet implements a log that keeps the newest WindowSize - 1 records.
BL == INSTANCE BoundedLog
        WITH log <- [a \in AccountId |-> data(a)],
             last <- [result |-> dispatch.result, who |-> dispatch.who],
             Capacity <- WindowSize - 1

\* Through data(), a record that is reported as stored was appended, at the
\* price of the oldest one at most, an erase empties the log, a call that fails
\* changes nothing, and no call touches the log of another account.
ImplementsBoundedLog == BL!Spec

=============================================================================
