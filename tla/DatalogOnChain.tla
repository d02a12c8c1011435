---------------------------- MODULE DatalogOnChain ----------------------------
(***************************************************************************)
(* An account's datalog, fed by the transactions of SignedTransaction: the *)
(* calls are signed after some block, delivered late or repeatedly and     *)
(* executed by whoever builds the next block.  Every block has a storage   *)
(* of its own, so a reorganisation goes back to the storage of the block   *)
(* where the new branch leaves the old one.                                *)
(***************************************************************************)
EXTENDS SignedTransaction, RingBufferIndex

CONSTANT WindowSize   \* T::WindowSize

ASSUME WindowAssumption == WindowSize \in Nat \ {0}

VARIABLES
  calls,    \* the call each transaction of the pool carries
  storage   \* the account's pointers and items after the blocks 1, 2, ...

allVars == <<chain, fork, pool, refused, calls, storage>>

Calls == {"record", "record too big", "erase"}

\* The genesis storage, and the storage after block n.
NoStorage    == [index |-> DefaultIndex, items |-> << >>]
StorageAt(n) == IF n = 0 THEN NoStorage ELSE storage[n]

-----------------------------------------------------------------------------
(* Execution *)

\* record: what is recorded is told apart by the transaction that carries it.
Recorded(s, t) ==
  LET added == IndexAdd(s.index, WindowSize)
  IN  [index |-> added.index,
       items |-> [i \in DOMAIN s.items \cup {added.slot} |->
                    IF i = added.slot THEN t ELSE s.items[i]]]

\* erase.
Erased(s) ==
  LET slots == IndexIter(s.index, WindowSize)
  IN  [index |-> DefaultIndex,
       items |-> [i \in DOMAIN s.items \ {slots[k] : k \in DOMAIN slots} |-> s.items[i]]]

\* A plausible bug: an item beyond the size limit is stored all the same.
DispatchUnchecked(s, t) == IF calls[t] = "erase" THEN Erased(s) ELSE Recorded(s, t)

\* The call of a transaction that was found applicable; one that fails leaves
\* the storage alone, but its nonce is used.
Dispatch(s, t) ==
  CASE calls[t] = "record"         -> Recorded(s, t)
    [] calls[t] = "erase"          -> Erased(s)
    [] calls[t] = "record too big" -> s

\* Module::data after the best block.
data ==
  LET s     == StorageAt(Height)
      slots == IndexIter(s.index, WindowSize)
  IN  [k \in DOMAIN slots |-> s.items[slots[k]]]

-----------------------------------------------------------------------------
(* Composition *)

InitOnChain ==
  /\ Init
  /\ calls = << >>
  /\ storage = << >>

SignCall(call) ==
  /\ Sign
  /\ calls' = [t \in pool' |-> IF t \in pool THEN calls[t] ELSE call]
  /\ UNCHANGED storage

\* Executive::execute_block on the storage of the parent.
ExecuteBlock(tx) ==
  /\ NewBlock(tx, FALSE)
  /\ storage' = Append(storage, IF tx = << >> THEN StorageAt(Height)
                                              ELSE Dispatch(StorageAt(Height), tx[1]))
  /\ UNCHANGED calls

\* The node switches to another branch.
SwitchBranch(n) ==
  /\ Reorganise(n)
  /\ storage' = SubSeq(storage, 1, n)
  /\ UNCHANGED calls

NextOnChain ==
  \/ \E call \in Calls : SignCall(call)
  \/ ExecuteBlock(<< >>)
  \/ \E t \in pool : ExecuteBlock(<<t>>)
  \/ \E n \in 0 .. Height - 1 : SwitchBranch(n)

SpecOnChain == InitOnChain /\ [][NextOnChain]_allVars

-----------------------------------------------------------------------------
(* Properties *)

\* Block n of the best chain executed a call of the account.
Executes(n, call) == chain[n].tx # << >> /\ calls[chain[n].tx[1]] = call

\* The blocks up to n whose records no erase up to n has removed.
Records(n) ==
  {m \in 1 .. n : Executes(m, "record") /\ \A e \in m + 1 .. n : ~Executes(e, "erase")}

\* Every variable has its type; there is one storage for every block.
TypeOKOnChain ==
  /\ TypeOK
  /\ DOMAIN calls = pool /\ \A t \in pool : calls[t] \in Calls
  /\ Len(storage) = Height
  /\ \A n \in 1 .. Height : \A i \in DOMAIN storage[n].items : storage[n].items[i] \in pool

\* data() is what the best chain says: the records its blocks executed since
\* their last erase, the newest WindowSize - 1 of them, each as far from the end
\* as there are newer ones; what was executed on an abandoned branch only is gone.
DataIsOnChain ==
  LET records == Records(Height)
      count   == Cardinality(records)
  IN  /\ Len(data) = IF count < WindowSize THEN count ELSE WindowSize - 1
      /\ \A k \in 1 .. Len(data) : \E n \in records :
           /\ data[k] = chain[n].tx[1]
           /\ Cardinality({m \in records : m > n}) = Len(data) - k

\* However late, often or on how many branches a record was delivered, data()
\* lists it once and in the order of the account's nonces.
DataInNonceOrder ==
  \A i, j \in DOMAIN data : i < j => data[i].nonce < data[j].nonce

=============================================================================
