------------------------------- MODULE Metering -------------------------------
(***************************************************************************)
(* What the server promises of a key's rate: every server process meters   *)
(* every key by a level that a clock refills, evenly over the minute and   *)
(* never above a minute's worth.  A request is admitted exactly when there *)
(* is a whole request's worth left.  Levels are counted in parts of a      *)
(* request, Minute of them to one.                                         *)
(***************************************************************************)
EXTENDS Integers

CONSTANTS
    Server, Key, Request,
    Limit,      \* requests a minute of each key
    Minute      \* ticks of the clock in a minute

VARIABLES
    now,
    level,      \* what each server has left for each key
    outcome     \* what became of each request

mvars == <<now, level, outcome>>

Full(k) == Limit[k] * Minute

Least(a, b) == IF a <= b THEN a ELSE b

MeterInit ==
    /\ now = 0
    /\ level = [s \in Server |-> [k \in Key |-> Full(k)]]
    /\ outcome = [r \in Request |-> "none"]

Tick ==
    /\ now' = now + 1
    /\ level' = [s \in Server |->
                    [k \in Key |-> Least(Full(k), level[s][k] + Limit[k])]]
    /\ UNCHANGED outcome

Spend(r, s, k) ==
    /\ outcome[r] = "none"
    /\ level[s][k] >= Minute
    /\ level' = [level EXCEPT ![s][k] = level[s][k] - Minute]
    /\ outcome' = [outcome EXCEPT ![r] = "spent"]
    /\ UNCHANGED now

Refuse(r, s, k) ==
    /\ outcome[r] = "none"
    /\ level[s][k] < Minute
    /\ outcome' = [outcome EXCEPT ![r] = "refused"]
    /\ UNCHANGED <<now, level>>

\* A request's place is taken by the next.
Forget(r) ==
    /\ outcome' = [outcome EXCEPT ![r] = "none"]
    /\ UNCHANGED <<now, level>>

\* A process that ends forgets what it metered, and the requests it had.
Restart(s) ==
    /\ level' = [level EXCEPT ![s] = [k \in Key |-> Full(k)]]
    /\ \E lost \in SUBSET Request :
        outcome' = [r \in Request |-> IF r \in lost THEN "none" ELSE outcome[r]]
    /\ UNCHANGED now

MeterNext ==
    \/ Tick
    \/ \E r \in Request, s \in Server, k \in Key : Spend(r, s, k) \/ Refuse(r, s, k)
    \/ \E r \in Request : Forget(r)
    \/ \E s \in Server : Restart(s)

MeterSpec == MeterInit /\ [][MeterNext]_mvars

=============================================================================
