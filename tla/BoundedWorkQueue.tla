-------------------------- MODULE BoundedWorkQueue --------------------------
(***************************************************************************)
(* What the information-need graph promises its caller: items are worked   *)
(* off in order and one at a time, within an attempt budget of each item   *)
(* and of the whole queue, and the work ends.                              *)
(***************************************************************************)
EXTENDS Naturals, Functions

CONSTANTS NumItems, MaxTotal, MaxAttempts

VARIABLES
    status,     \* of each item
    attempts,   \* made for each item
    outcome     \* of the whole queue

vars == <<status, attempts, outcome>>

Items == 1..NumItems
Resolved == {"supported", "exhausted"}
AttemptsMade == SumFunction(attempts)

Init ==
    /\ status = [i \in Items |-> "pending"]
    /\ attempts = [i \in Items |-> 0]
    /\ outcome = "running"

\* The next item in order, once all before it are resolved.
Activate(i) ==
    /\ status[i] = "pending"
    /\ \A j \in 1..(i - 1) : status[j] \in Resolved
    /\ status' = [status EXCEPT ![i] = "active"]
    /\ UNCHANGED <<attempts, outcome>>

Attempt(i) ==
    /\ status[i] = "active"
    /\ attempts[i] < MaxAttempts
    /\ AttemptsMade < MaxTotal
    /\ attempts' = [attempts EXCEPT ![i] = @ + 1]
    /\ UNCHANGED <<status, outcome>>

\* An item is resolved as supported only by an attempt, but may be given up
\* without one.
Resolve(i, as) ==
    /\ status[i] = "active"
    /\ as = "supported" => attempts[i] > 0
    /\ status' = [status EXCEPT ![i] = as]
    /\ UNCHANGED <<attempts, outcome>>

Finish ==
    /\ \A i \in Items : status[i] \in Resolved
    /\ outcome' = IF \A i \in Items : status[i] = "supported"
                  THEN "complete" ELSE "partial"
    /\ UNCHANGED <<status, attempts>>

Abort ==
    /\ outcome' = "aborted"
    /\ UNCHANGED <<status, attempts>>

Next ==
    /\ outcome = "running"
    /\ \/ \E i \in Items :
             \/ Activate(i)
             \/ Attempt(i)
             \/ \E as \in Resolved : Resolve(i, as)
       \/ Finish
       \/ Abort

Spec == Init /\ [][Next]_vars
FairSpec == Spec /\ WF_vars(Next)
=============================================================================
