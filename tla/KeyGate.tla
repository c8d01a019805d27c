------------------------------- MODULE KeyGate -------------------------------
(***************************************************************************)
(* The HTTP server's door: the table of API keys, which survives and which *)
(* several server processes may share, the bucket of tokens each process   *)
(* keeps per key in memory, and the middleware every request passes.  A    *)
(* request is validated under the lock of the table and metered under the  *)
(* lock of the buckets, with anything in between.  A bucket is made on the *)
(* first use of a key and filled up only when it is next looked at.        *)
(***************************************************************************)
EXTENDS Integers, FiniteSets

CONSTANTS
    Key,        \* keys that are in the table or may still be generated
    Limit,      \* the rate_limit column of each: requests a minute
    Server,     \* processes over one table
    Request,    \* requests in flight at a time
    Tables,     \* what the table may hold at first
    NoKey,      \* no header, or a key nobody generated
    Minute,     \* ticks of the clock in a minute
    MaxTime,    \* bound: ticks
    MaxStarts,  \* bound: starts of a server
    MaxCalls    \* bound: requests with a key

ASSUME GateAssumption ==
    /\ Minute \in Nat \ {0}
    /\ Limit \in [Key -> Nat]
    /\ NoKey \notin Key \cup Server
    /\ Tables \subseteq [Key -> {"absent", "active", "revoked"}]
    /\ MaxTime \in Nat /\ MaxStarts \in Nat /\ MaxCalls \in Nat

VARIABLES
    rows,       \* api_keys: of each key, whether it is there and active
    shown,      \* history: keys somebody was shown
    stage,      \* how far each server is with its start
    made,       \* the bootstrap key a server has yet to print
    buckets,    \* RateLimiter.buckets of each server: its keys and their tokens
    now,        \* Instant::now(), in ticks
    calls,      \* the requests
    spent,      \* history: requests of each key a server's run let through
    before,     \* history: as many before each tick
    orphaned,   \* history: a key was made that nobody will see, or could not be listed
    starts, arrivals

gatevars == <<rows, shown, stage, made, buckets, now, calls, spent, before,
              orphaned, starts, arrivals>>
table == <<rows, shown, orphaned>>
servers == <<stage, made, starts>>
metered == <<buckets, spent, before>>

Least(a, b) == IF a <= b THEN a ELSE b

NoCall == [at |-> NoKey, key |-> NoKey, free |-> FALSE, valid |-> FALSE, stage |-> "none"]

Active == {k \in Key : rows[k] = "active"}

\* A table with keys made earlier, which their makers were shown.
GateInit ==
    /\ rows \in Tables
    /\ shown = {k \in Key : rows[k] # "absent"}
    /\ stage = [s \in Server |-> "down"]
    /\ made = [s \in Server |-> NoKey]
    /\ buckets = [s \in Server |-> [k \in {} |-> 0]]
    /\ now = 0
    /\ calls = [r \in Request |-> NoCall]
    /\ spent = [s \in Server |-> [k \in Key |-> 0]]
    /\ before = [s \in Server |-> [k \in Key |-> [t \in {0} |-> 0]]]
    /\ orphaned = FALSE
    /\ starts = 0 /\ arrivals = 0

-----------------------------------------------------------------------------
(* Starting and stopping.                                                  *)

\* Slip: revoked keys are listed as well.
SlipOpen(s) ==
    /\ stage[s] = "down" /\ starts < MaxStarts
    /\ starts' = starts + 1
    /\ stage' = [stage EXCEPT ![s] =
                    IF \A k \in Key : rows[k] = "absent" THEN "listed" ELSE "up"]
    /\ UNCHANGED <<table, made, metered, now, calls, arrivals>>

\* The server opens the table and lists its active keys.
Open(s) ==
    /\ stage[s] = "down" /\ starts < MaxStarts
    /\ starts' = starts + 1
    /\ stage' = [stage EXCEPT ![s] = IF Active = {} THEN "listed" ELSE "up"]
    /\ UNCHANGED <<table, made, metered, now, calls, arrivals>>

\* A listing that fails is taken for a table with keys.
OpenUnlisted(s) ==
    /\ stage[s] = "down" /\ starts < MaxStarts
    /\ starts' = starts + 1
    /\ stage' = [stage EXCEPT ![s] = "up"]
    /\ orphaned' = TRUE
    /\ UNCHANGED <<rows, shown, made, metered, now, calls, arrivals>>

\* create_key("bootstrap", ..): a key nobody has had, stored as its hash.
CreateKey(s, k) ==
    /\ stage[s] = "listed" /\ rows[k] = "absent"
    /\ rows' = [rows EXCEPT ![k] = "active"]
    /\ made' = [made EXCEPT ![s] = k]
    /\ stage' = [stage EXCEPT ![s] = "inserted"]
    /\ calls' = [r \in Request |->
                    IF calls[r].key = k THEN [calls[r] EXCEPT !.valid = TRUE] ELSE calls[r]]
    /\ UNCHANGED <<shown, orphaned, starts, metered, now, arrivals>>

\* The key is printed, this once, and the server listens.
ShowKey(s) ==
    /\ stage[s] = "inserted"
    /\ shown' = shown \cup {made[s]}
    /\ made' = [made EXCEPT ![s] = NoKey]
    /\ stage' = [stage EXCEPT ![s] = "up"]
    /\ UNCHANGED <<rows, orphaned, starts, metered, now, calls, arrivals>>

\* A process ends, or panics where it expected the table to take a key: its
\* buckets and its requests are gone, and so is a key it had not printed.
Stop(s) ==
    /\ stage[s] # "down"
    /\ stage' = [stage EXCEPT ![s] = "down"]
    /\ made' = [made EXCEPT ![s] = NoKey]
    /\ orphaned' = (orphaned \/ stage[s] = "inserted")
    /\ buckets' = [buckets EXCEPT ![s] = [k \in {} |-> 0]]
    /\ spent' = [spent EXCEPT ![s] = [k \in Key |-> 0]]
    /\ before' = [before EXCEPT ![s] = [k \in Key |-> [t \in 0..now |-> 0]]]
    /\ calls' = [r \in Request |-> IF calls[r].at = s THEN NoCall ELSE calls[r]]
    /\ UNCHANGED <<rows, shown, now, starts, arrivals>>

-----------------------------------------------------------------------------
(* The middleware.                                                         *)

\* A request that is answered is nobody's any more.
Answered(answer, call) ==
    [NoCall EXCEPT !.stage = answer, !.free = call.free, !.valid = call.valid]

Answer(r, answer) == calls' = [calls EXCEPT ![r] = Answered(answer, calls[r])]

\* Two paths are free; without a header there is nothing to validate.
Arrive(r, s, key, free) ==
    LET call == [at |-> s, key |-> key, free |-> free, valid |-> key \in Active,
                 stage |-> "arrived"]
    IN  /\ stage[s] = "up"
        /\ calls[r].stage \notin {"arrived", "validated"}
        /\ calls' = [calls EXCEPT ![r] =
                        IF free THEN Answered("served", call)
                        ELSE IF key = NoKey THEN Answered("unknown", call) ELSE call]
        /\ IF key = NoKey THEN UNCHANGED arrivals
           ELSE arrivals < MaxCalls /\ arrivals' = arrivals + 1
        /\ UNCHANGED <<table, servers, metered, now>>

\* Slip: a row is found whether it is active or not.
SlipValidate(r) ==
    /\ calls[r].stage = "arrived"
    /\ IF rows[calls[r].key] # "absent" THEN calls' = [calls EXCEPT ![r].stage = "validated"]
       ELSE Answer(r, "unknown")
    /\ UNCHANGED <<table, servers, metered, now, arrivals>>

\* validate_key, under the lock of the table.
Validate(r) ==
    /\ calls[r].stage = "arrived"
    /\ IF calls[r].key \in Active THEN calls' = [calls EXCEPT ![r].stage = "validated"]
       ELSE Answer(r, "unknown")
    /\ UNCHANGED <<table, servers, metered, now, arrivals>>

\* A query that fails is an unknown key.
ValidateFails(r) ==
    /\ calls[r].stage = "arrived"
    /\ Answer(r, "unknown")
    /\ UNCHANGED <<table, servers, metered, now, arrivals>>

\* Slip: the time that passed is credited without the ceiling.
SlipRefilled(s, k) ==
    LET b == buckets[s][k] IN b.tokens + (now - b.last) * Limit[k]

\* A bucket that is looked at is filled up for the time since it was last.
Refilled(s, k) ==
    LET b == buckets[s][k]
    IN  Least(Limit[k] * Minute, b.tokens + (now - b.last) * Limit[k])

\* Slip: every look makes a bucket anew.
SlipAnew(s, k) == Limit[k] * Minute

\* What a server has for a key: a full bucket, if it never looked.
Tokens(s, k) ==
    IF k \in DOMAIN buckets[s] THEN Refilled(s, k) ELSE Limit[k] * Minute

\* RateLimiter::check, under the lock of the buckets.
Check(r) ==
    LET s == calls[r].at
        k == calls[r].key
        tokens == Tokens(s, k)
        pass == tokens >= Minute
        left == IF pass THEN tokens - Minute ELSE tokens
    IN  /\ calls[r].stage = "validated"
        /\ buckets' = [buckets EXCEPT ![s] =
                        [q \in DOMAIN buckets[s] \cup {k} |->
                            IF q = k THEN [tokens |-> left, last |-> now]
                            ELSE buckets[s][q]]]
        /\ spent' = [spent EXCEPT ![s][k] = IF pass THEN spent[s][k] + 1 ELSE spent[s][k]]
        /\ Answer(r, IF pass THEN "served" ELSE "limited")
        /\ UNCHANGED <<table, servers, before, now, arrivals>>

-----------------------------------------------------------------------------
(* The surroundings.                                                       *)

Tick ==
    /\ now < MaxTime
    /\ now' = now + 1
    /\ before' = [s \in Server |-> [k \in Key |->
                    [t \in 0..(now + 1) |->
                        IF t = now + 1 THEN spent[s][k] ELSE before[s][k][t]]]]
    /\ UNCHANGED <<table, servers, buckets, spent, calls, arrivals>>

\* A row is deactivated, as revoke_key does; no route calls it yet.
Revoke(k) ==
    /\ rows[k] = "active"
    /\ rows' = [rows EXCEPT ![k] = "revoked"]
    /\ UNCHANGED <<shown, orphaned, servers, metered, calls, now, arrivals>>

GateNext ==
    \/ \E s \in Server :
        \/ Open(s) \/ OpenUnlisted(s) \/ ShowKey(s) \/ Stop(s)
        \/ \E k \in Key : CreateKey(s, k)
        \/ \E r \in Request :
            Arrive(r, s, NoKey, TRUE) \/ \E key \in Key \cup {NoKey} : Arrive(r, s, key, FALSE)
    \/ \E r \in Request : Validate(r) \/ ValidateFails(r) \/ Check(r)
    \/ Tick
    \/ \E k \in Key : Revoke(k)

GateSpec == GateInit /\ [][GateNext]_gatevars

-----------------------------------------------------------------------------
(* Properties.                                                             *)

Stages == {"none", "arrived", "validated", "served", "limited", "unknown"}

Calls ==
    [at : Server \cup {NoKey}, key : Key \cup {NoKey}, free : BOOLEAN,
     valid : BOOLEAN, stage : Stages]

GateTypeOK ==
    /\ rows \in [Key -> {"absent", "active", "revoked"}]
    /\ shown \subseteq Key
    /\ stage \in [Server -> {"down", "listed", "inserted", "up"}]
    /\ made \in [Server -> Key \cup {NoKey}]
    /\ \A s \in Server : stage[s] = "inserted" => made[s] \in Key
    /\ now \in 0..MaxTime
    /\ DOMAIN buckets = Server
    /\ \A s \in Server : DOMAIN buckets[s] \subseteq Key
    /\ \A s \in Server : \A k \in DOMAIN buckets[s] :
        /\ buckets[s][k].tokens \in 0..(Limit[k] * Minute)
        /\ buckets[s][k].last \in 0..now
    /\ spent \in [Server -> [Key -> Nat]]
    /\ before \in [Server -> [Key -> [0..now -> Nat]]]
    /\ calls \in [Request -> Calls]
    /\ \A r \in Request : calls[r].stage \in {"arrived", "validated"} =>
        calls[r].at \in Server /\ calls[r].key \in Key
    /\ orphaned \in BOOLEAN /\ starts \in 0..MaxStarts /\ arrivals \in 0..MaxCalls

\* Requests of a key a server's run let through since a tick.
Since(s, k, t) == spent[s][k] - before[s][k][t]

\* "rate_limit = per minute": from any moment on, a run of a server lets a key
\* through at most as often as a full bucket and the refill of the time since
\* allow, so at most twice the limit in any minute, however the requests race.
WindowBound ==
    \A s \in Server, k \in Key : \A t \in 0..now :
        Since(s, k, t) * Minute <= Limit[k] * (Minute + (now - t))

\* Nobody is refused early: a key is told 429 only when that run let it through
\* as often as its limit within the minute just past.  Whoever then waits the
\* sixty seconds of "retry-after" is not refused again on account of the past.
RefusedOnlyAtLimit ==
    \A r \in Request :
        calls[r].stage = "validated" /\ calls'[r].stage = "limited" =>
            LET from == IF now < Minute THEN 0 ELSE now - Minute
            IN  Since(calls[r].at, calls[r].key, from) >= Limit[calls[r].key]

\* A limit is kept from both sides, however requests race: nobody gets more than
\* it allows, and nobody is refused who has not used it (RateLimiter::check
\* behind auth_middleware).
RateKept == [][WindowBound' /\ RefusedOnlyAtLimit]_gatevars

\* Only keys that were valid at some moment since the request came get through
\* or cost a server memory: a bucket is made for a key of the table alone.
OnlyKeysPass ==
    /\ \A r \in Request :
        calls[r].stage \in {"validated", "limited"}
            \/ (calls[r].stage = "served" /\ ~calls[r].free) => calls[r].valid
    /\ \A s \in Server : \A k \in DOMAIN buckets[s] : rows[k] # "absent"

\* A server that listens had, when it began to, a key to let somebody in by: one
\* somebody saw, or one another server is about to show, unless a key was lost
\* with the process that made it or the table could not be listed.
StartsWithAKey ==
    [][\A s \in Server :
        stage[s] # "up" /\ stage'[s] = "up" /\ ~orphaned' =>
            \E k \in Key :
                /\ k \in Active \cup {made[s]}
                /\ k \in shown' \/ \E p \in Server : made[p] = k]_gatevars

\* The eager reading of a bucket that is filled up late.
Outcome(r) ==
    CASE calls[r].stage = "served" /\ ~calls[r].free -> "spent"
      [] calls[r].stage = "limited" -> "refused"
      [] OTHER -> "none"

Meter == INSTANCE Metering WITH
    level <- [s \in Server |-> [k \in Key |-> Tokens(s, k)]],
    outcome <- [r \in Request |-> Outcome(r)]

\* A bucket that is filled up when it is next looked at admits and refuses
\* exactly as one a clock refills.
Metered == Meter!MeterSpec

=============================================================================
