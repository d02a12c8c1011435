------------------------------ MODULE BoundedLog ------------------------------
(***************************************************************************)
(* What the datalog pallet promises its users, without ring buffers: every *)
(* account has a log of time-tagged records, oldest first, that keeps the  *)
(* newest Capacity of them.  Only a write of the account or its erase      *)
(* changes its log, a call that reports success has had its effect, one    *)
(* that reports an error has had none, and the clock never runs backwards. *)
(***************************************************************************)
EXTENDS Integers, Sequences

CONSTANTS AccountId, NoOrigin, Record, Moment, Capacity

VARIABLES
  now,   \* the clock
  log,   \* the log of each account
  last   \* the event or the error of the last call, and who made it

logVars == <<now, log, last>>

Item == [moment : Moment, record : Record]

\* Keep the newest Capacity items of a log that has at most one too many.
Trim(s) == IF Len(s) > Capacity THEN Tail(s) ELSE s

Init ==
  /\ now \in Moment
  /\ log = [a \in AccountId |-> << >>]
  /\ last = [result |-> "none", who |-> NoOrigin]

Write(a, r) ==
  /\ log' = [log EXCEPT ![a] = Trim(Append(@, [moment |-> now, record |-> r]))]
  /\ last' = [result |-> "NewRecord", who |-> a]
  /\ UNCHANGED now

Erase(a) ==
  /\ log' = [log EXCEPT ![a] = << >>]
  /\ last' = [result |-> "Erased", who |-> a]
  /\ UNCHANGED now

Refuse(result, who) ==
  /\ result = "BadOrigin" => who = NoOrigin
  /\ last' = [result |-> result, who |-> who]
  /\ UNCHANGED <<now, log>>

Tick ==
  /\ now' \in Moment
  /\ now' >= now
  /\ UNCHANGED <<log, last>>

Next ==
  \/ \E a \in AccountId, r \in Record : Write(a, r)
  \/ \E a \in AccountId : Erase(a)
  \/ \E result \in {"RecordTooBig", "BadOrigin"}, who \in AccountId \cup {NoOrigin} :
       Refuse(result, who)
  \/ Tick

Spec == Init /\ [][Next]_logVars

=============================================================================
