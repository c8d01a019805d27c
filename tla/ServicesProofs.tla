--------------------------- MODULE ServicesProofs ---------------------------
(***************************************************************************)
(* Proofs about the two parts of MCServices.                               *)
(*                                                                         *)
(* KeyGate, for every table, any number of server processes, of keys and   *)
(* of requests, and every limit: what a bucket holds decides how often a   *)
(* key gets through, from above and from below, and filling it up late is  *)
(* the same as filling it up by the clock.                                 *)
(*                                                                         *)
(* ClientSetup, for any number of windows, of clicks and of writes by the  *)
(* client: what was in a client's file is in it still or in the copy       *)
(* beside it, under the conditions NothingLost names.                      *)
(***************************************************************************)
EXTENDS KeyGate, ClientSetup, TLAPS

USE GateAssumption

-----------------------------------------------------------------------------
(* Arithmetic of a bucket.                                                 *)

\* A product of naturals is one, and grows with a factor.
LEMMA Product ==
    ASSUME NEW a \in Nat, NEW b \in Nat
    PROVE  a * b \in Nat
OBVIOUS

\* What is left of a bucket that had so much, after a gap without requests.
Filled(full, have, gap, l) == Least(full, have + gap * l)

\* Filling up for one more tick is filling up a tick later.
LEMMA TickLater ==
    ASSUME NEW full \in Nat, NEW have \in Nat, NEW l \in Nat, NEW gap \in Nat,
           NEW longer, longer = gap + 1
    PROVE  Filled(full, have, longer, l) = Least(full, Filled(full, have, gap, l) + l)
<1>1. (gap + 1) * l = gap * l + l /\ gap * l \in Nat
  OBVIOUS
<1>2. PICK x \in Nat : gap * l = x /\ longer * l = x + l
  BY <1>1
<1>3. Least(full, have + (x + l)) = Least(full, Least(full, have + x) + l)
  BY DEF Least
<1> QED
  BY <1>2, <1>3 DEF Filled

-----------------------------------------------------------------------------
(* Types.                                                                  *)

\* What a server has for a key is never more than a full bucket.
LEMMA TokensType ==
    ASSUME GateTypeOK, NEW s \in Server, NEW k \in Key
    PROVE  /\ Tokens(s, k) \in Nat
           /\ Limit[k] * Minute \in Nat
           /\ Tokens(s, k) <= Limit[k] * Minute
<1>1. Limit[k] * Minute \in Nat
  BY Product
<1>2. CASE k \in DOMAIN buckets[s]
  <2>1. /\ buckets[s][k].tokens \in 0..(Limit[k] * Minute)
        /\ now - buckets[s][k].last \in Nat
    BY <1>2 DEF GateTypeOK
  <2>2. (now - buckets[s][k].last) * Limit[k] \in Nat
    BY <2>1, Product
  <2> QED
    BY <1>1, <1>2, <2>1, <2>2 DEF Tokens, Refilled, Least
<1>3. CASE k \notin DOMAIN buckets[s]
  BY <1>1, <1>3 DEF Tokens
<1> QED
  BY <1>2, <1>3

\* An answered request is well formed.
LEMMA AnsweredType ==
    ASSUME NEW c \in Calls, NEW a \in {"served", "limited", "unknown"}
    PROVE  Answered(a, c) \in Calls /\ Answered(a, c).stage = a
BY DEF Answered, NoCall, Calls, Stages

\* Answers and changes of a request's stage keep the calls well formed.
LEMMA AnswerKeeps ==
    ASSUME GateTypeOK, NEW r \in Request, NEW a \in {"served", "limited", "unknown"},
           Answer(r, a)
    PROVE  /\ calls' \in [Request -> Calls]
           /\ \A q \in Request : calls'[q].stage \in {"arrived", "validated"} =>
                calls'[q].at \in Server /\ calls'[q].key \in Key
<1> DEFINE c == Answered(a, calls[r])
<1>1. c \in Calls /\ c.stage = a
  BY DEF GateTypeOK, Answered, NoCall, Calls, Stages
<1>2. calls' = [calls EXCEPT ![r] = c]
  BY DEF Answer
<1> HIDE DEF c
<1> QED
  BY <1>1, <1>2 DEF GateTypeOK

\* What check does to one bucket, and to nothing else.
LEMMA CheckTokens ==
    ASSUME GateTypeOK, NEW r \in Request, Check(r)
    PROVE  LET s == calls[r].at
               k == calls[r].key
               left == IF Tokens(s, k) >= Minute THEN Tokens(s, k) - Minute ELSE Tokens(s, k)
           IN  /\ s \in Server /\ k \in Key
               /\ left \in 0..(Limit[k] * Minute)
               /\ DOMAIN buckets' = Server
               /\ DOMAIN buckets'[s] = DOMAIN buckets[s] \cup {k}
               /\ buckets'[s][k] = [tokens |-> left, last |-> now]
               /\ \A q \in DOMAIN buckets[s] : q # k => buckets'[s][q] = buckets[s][q]
               /\ \A p \in Server : p # s => buckets'[p] = buckets[p]
<1> DEFINE s == calls[r].at
           k == calls[r].key
           left == IF Tokens(s, k) >= Minute THEN Tokens(s, k) - Minute ELSE Tokens(s, k)
<1>1. s \in Server /\ k \in Key
  BY DEF GateTypeOK, Check
<1>2. left \in 0..(Limit[k] * Minute)
  BY <1>1, TokensType
<1>3. buckets' = [buckets EXCEPT ![s] =
                    [q \in DOMAIN buckets[s] \cup {k} |->
                        IF q = k THEN [tokens |-> left, last |-> now] ELSE buckets[s][q]]]
  BY DEF Check
<1>4. DOMAIN buckets = Server
  BY DEF GateTypeOK
<1> HIDE DEF s, k, left
<1>5. /\ DOMAIN buckets' = Server
      /\ DOMAIN buckets'[s] = DOMAIN buckets[s] \cup {k}
      /\ buckets'[s][k] = [tokens |-> left, last |-> now]
      /\ \A q \in DOMAIN buckets[s] : q # k => buckets'[s][q] = buckets[s][q]
      /\ \A p \in Server : p # s => buckets'[p] = buckets[p]
  BY <1>1, <1>3, <1>4
<1> QED
  BY <1>1, <1>2, <1>5 DEF s, k, left

\* A step that looks at no bucket and does not move the clock.
Quiet == UNCHANGED <<buckets, spent, before, now>>

\* What the type invariant says of the table, the starts and the counters.
TableOK ==
    /\ rows \in [Key -> {"absent", "active", "revoked"}]
    /\ shown \subseteq Key
    /\ stage \in [Server -> {"down", "listed", "inserted", "up"}]
    /\ made \in [Server -> Key \cup {NoKey}]
    /\ \A s \in Server : stage[s] = "inserted" => made[s] \in Key
    /\ orphaned \in BOOLEAN /\ starts \in 0..MaxStarts /\ arrivals \in 0..MaxCalls

CallsOK ==
    /\ calls \in [Request -> Calls]
    /\ \A r \in Request : calls[r].stage \in {"arrived", "validated"} =>
        calls[r].at \in Server /\ calls[r].key \in Key

MetersOK ==
    /\ now \in 0..MaxTime
    /\ DOMAIN buckets = Server
    /\ \A s \in Server : DOMAIN buckets[s] \subseteq Key
    /\ \A s \in Server : \A k \in DOMAIN buckets[s] :
        /\ buckets[s][k].tokens \in 0..(Limit[k] * Minute)
        /\ buckets[s][k].last \in 0..now
    /\ spent \in [Server -> [Key -> Nat]]
    /\ before \in [Server -> [Key -> [0..now -> Nat]]]

\* The invariant is its three parts, before a step and after it.
LEMMA TypeParts ==
    /\ GateTypeOK <=> TableOK /\ CallsOK /\ MetersOK
    /\ (GateTypeOK <=> TableOK /\ CallsOK /\ MetersOK)'
BY DEF GateTypeOK, TableOK, CallsOK, MetersOK

\* The invariant holds at first.
LEMMA TypeInit == GateInit => GateTypeOK
<1> SUFFICES ASSUME GateInit PROVE GateTypeOK
  OBVIOUS
<1>1. NoCall \in Calls /\ NoCall.stage = "none"
  BY DEF NoCall, Calls, Stages
<1>2. CallsOK
  BY <1>1 DEF GateInit, CallsOK
<1>3. before \in [Server -> [Key -> [0..now -> Nat]]]
  <2>1. now = 0 /\ {0} = 0..0
    BY DEF GateInit
  <2>2. [t \in {0} |-> 0] \in [0..now -> Nat]
    BY <2>1
  <2> QED
    BY <2>2 DEF GateInit
<1>4. spent \in [Server -> [Key -> Nat]]
  BY DEF GateInit
<1>5. DOMAIN buckets = Server /\ \A s \in Server : DOMAIN buckets[s] = {}
  BY DEF GateInit
<1>6. MetersOK
  BY <1>3, <1>4, <1>5 DEF GateInit, MetersOK
<1>7. rows \in [Key -> {"absent", "active", "revoked"}]
  BY DEF GateInit
<1>8. orphaned \in BOOLEAN
  BY Zenon DEF GateInit
<1>9. starts \in 0..MaxStarts /\ arrivals \in 0..MaxCalls
  BY DEF GateInit
<1>10. TableOK
  BY <1>7, <1>8, <1>9 DEF GateInit, TableOK
<1> QED
  BY <1>2, <1>6, <1>10, TypeParts

\* The steps of a start and of the table leave the types in order.
LEMMA TableStep ==
    ASSUME GateTypeOK, NEW s \in Server,
           Open(s) \/ OpenUnlisted(s) \/ ShowKey(s)
           \/ (\E k \in Key : CreateKey(s, k)) \/ (\E k \in Key : Revoke(k))
    PROVE  GateTypeOK' /\ Quiet
<1>0. TableOK /\ CallsOK /\ MetersOK
  BY TypeParts
<1>1. CASE Open(s)
  BY <1>0, <1>1, TypeParts DEF Open, TableOK, CallsOK, MetersOK, Quiet, table, metered
<1>2. CASE OpenUnlisted(s)
  BY <1>0, <1>2, TypeParts DEF OpenUnlisted, TableOK, CallsOK, MetersOK, Quiet, metered
<1>3. CASE ShowKey(s)
  BY <1>0, <1>3, TypeParts DEF ShowKey, TableOK, CallsOK, MetersOK, Quiet, metered
<1>4. ASSUME NEW k \in Key, CreateKey(s, k)
      PROVE  GateTypeOK' /\ Quiet
  <2>1. MetersOK' /\ Quiet
    BY <1>0, <1>4 DEF CreateKey, MetersOK, Quiet, metered
  <2>2. TableOK'
    BY <1>0, <1>4 DEF CreateKey, TableOK
  <2>3. CallsOK'
    <3>1. ASSUME NEW r \in Request
          PROVE  /\ calls'[r] \in Calls
                 /\ calls'[r].stage = calls[r].stage
                 /\ calls'[r].at = calls[r].at /\ calls'[r].key = calls[r].key
      BY <1>0, <1>4, ZenonT(60) DEF CreateKey, CallsOK, Calls
    <3>2. calls' = [r \in Request |-> calls'[r]]
      BY <1>4 DEF CreateKey
    <3> QED
      BY <1>0, <3>1, <3>2 DEF CallsOK
  <2> QED
    BY <2>1, <2>2, <2>3, TypeParts
<1>5. ASSUME NEW k \in Key, Revoke(k)
      PROVE  GateTypeOK' /\ Quiet
  BY <1>0, <1>5, TypeParts DEF Revoke, TableOK, CallsOK, MetersOK, Quiet, servers, metered
<1> QED
  BY <1>1, <1>2, <1>3, <1>4, <1>5

\* So do the steps of a request up to the buckets.
LEMMA CallStep ==
    ASSUME GateTypeOK, NEW r \in Request,
           \/ Validate(r) \/ ValidateFails(r)
           \/ \E s \in Server, key \in Key \cup {NoKey}, free \in BOOLEAN :
                Arrive(r, s, key, free) /\ (free => key = NoKey)
    PROVE  GateTypeOK' /\ Quiet
<1>0. TableOK /\ CallsOK /\ MetersOK
  BY TypeParts
<1>1. Quiet /\ UNCHANGED <<rows, shown, orphaned, stage, made, starts>>
  <2>1. UNCHANGED <<table, servers, metered, now>>
    BY DEF Validate, ValidateFails, Arrive
  <2> QED
    BY <2>1 DEF Quiet, table, servers, metered
<1>2. MetersOK'
  BY <1>0, <1>1 DEF Quiet, MetersOK
<1>3. arrivals' \in 0..MaxCalls
  <2>1. arrivals' = arrivals \/ (arrivals < MaxCalls /\ arrivals' = arrivals + 1)
    BY DEF Validate, ValidateFails, Arrive
  <2> QED
    BY <1>0, <2>1 DEF TableOK
<1>4. TableOK'
  BY <1>0, <1>1, <1>3 DEF TableOK
<1>5. CallsOK'
  <2>1. CASE Validate(r)
    <3>1. CASE calls[r].key \in Active
      BY <1>0, <2>1, <3>1 DEF Validate, CallsOK, Calls, Stages
    <3>2. CASE calls[r].key \notin Active
      BY <2>1, <3>2, AnswerKeeps DEF Validate, CallsOK
    <3> QED
      BY <3>1, <3>2
  <2>2. CASE ValidateFails(r)
    BY <2>2, AnswerKeeps DEF ValidateFails, CallsOK
  <2>3. ASSUME NEW s \in Server, NEW key \in Key \cup {NoKey}, NEW free \in BOOLEAN,
               Arrive(r, s, key, free)
        PROVE  CallsOK'
    <3> DEFINE call == [at |-> s, key |-> key, free |-> free, valid |-> key \in Active,
                        stage |-> "arrived"]
               next == IF free THEN Answered("served", call)
                       ELSE IF key = NoKey THEN Answered("unknown", call) ELSE call
    <3>1. call \in Calls
      BY DEF Calls, Stages
    <3>2. \A a \in {"served", "unknown"} :
            Answered(a, call) \in Calls /\ Answered(a, call).stage = a
      <4> HIDE DEF call
      <4> QED
        BY <3>1, AnsweredType
    <3>3. calls' = [calls EXCEPT ![r] = next]
      BY <2>3 DEF Arrive
    <3>4. next \in Calls
      BY <3>1, <3>2
    <3>5. next.stage \in {"arrived", "validated"} => next.at \in Server /\ next.key \in Key
      BY <3>2
    <3> HIDE DEF next
    <3> QED
      BY <1>0, <3>3, <3>4, <3>5 DEF CallsOK
  <2> QED
    BY <2>1, <2>2, <2>3
<1> QED
  BY <1>1, <1>2, <1>4, <1>5, TypeParts

\* The check of a request, and what it makes of every bucket.
Left(s, k) == IF Tokens(s, k) >= Minute THEN Tokens(s, k) - Minute ELSE Tokens(s, k)

LEMMA CheckStep ==
    ASSUME GateTypeOK, NEW r \in Request, Check(r)
    PROVE  /\ GateTypeOK'
           /\ UNCHANGED <<before, now>>
           /\ calls[r].at \in Server /\ calls[r].key \in Key
           /\ \A s \in Server, k \in Key :
                IF s = calls[r].at /\ k = calls[r].key
                THEN /\ Tokens(s, k)' = Left(s, k)
                     /\ spent'[s][k] = IF Tokens(s, k) >= Minute
                                       THEN spent[s][k] + 1 ELSE spent[s][k]
                ELSE Tokens(s, k)' = Tokens(s, k) /\ spent'[s][k] = spent[s][k]
<1>0. TableOK /\ CallsOK /\ MetersOK
  BY TypeParts
<1>1. PICK s \in Server, k \in Key : s = calls[r].at /\ k = calls[r].key
  BY CheckTokens
<1>2. /\ Left(s, k) \in 0..(Limit[k] * Minute)
      /\ DOMAIN buckets' = Server
      /\ DOMAIN buckets'[s] = DOMAIN buckets[s] \cup {k}
      /\ buckets'[s][k] = [tokens |-> Left(s, k), last |-> now]
      /\ \A q \in DOMAIN buckets[s] : q # k => buckets'[s][q] = buckets[s][q]
      /\ \A p \in Server : p # s => buckets'[p] = buckets[p]
  BY <1>1, CheckTokens DEF Left
<1>3. /\ UNCHANGED <<table, servers, before, now, arrivals>>
      /\ spent' = [spent EXCEPT ![s][k] = IF Tokens(s, k) >= Minute
                                           THEN spent[s][k] + 1 ELSE spent[s][k]]
      /\ Answer(r, "served") \/ Answer(r, "limited")
  BY <1>1 DEF Check
<1>4. spent' \in [Server -> [Key -> Nat]]
  BY <1>0, <1>3 DEF MetersOK
<1>5. MetersOK'
  <2>1. now' = now /\ before' = before /\ now \in 0..MaxTime
    BY <1>0, <1>3 DEF MetersOK
  <2>2. ASSUME NEW p \in Server PROVE DOMAIN buckets'[p] \subseteq Key
    <3>1. DOMAIN buckets[p] \subseteq Key
      BY <1>0 DEF MetersOK
    <3> QED
      BY <1>2, <3>1
  <2>3. ASSUME NEW p \in Server, NEW q \in DOMAIN buckets'[p]
        PROVE  /\ buckets'[p][q].tokens \in 0..(Limit[q] * Minute)
               /\ buckets'[p][q].last \in 0..now
    <3>1. CASE p = s /\ q = k
      BY <1>2, <2>1, <3>1
    <3>2. CASE ~(p = s /\ q = k)
      BY <1>0, <1>2, <3>2 DEF MetersOK
    <3> QED
      BY <3>1, <3>2
  <2> QED
    BY <1>0, <1>2, <1>4, <2>1, <2>2, <2>3 DEF MetersOK
<1>6. TableOK'
  BY <1>0, <1>3 DEF TableOK, table, servers
<1>7. CallsOK'
  BY <1>3, AnswerKeeps DEF CallsOK
<1>8. ASSUME NEW p \in Server, NEW q \in Key
      PROVE  IF p = s /\ q = k
             THEN /\ Tokens(p, q)' = Left(p, q)
                  /\ spent'[p][q] = IF Tokens(p, q) >= Minute
                                    THEN spent[p][q] + 1 ELSE spent[p][q]
             ELSE Tokens(p, q)' = Tokens(p, q) /\ spent'[p][q] = spent[p][q]
  <2>1. CASE p = s /\ q = k
    <3>1. (now - now) * Limit[k] = 0
      BY <1>0 DEF MetersOK
    <3>2. Limit[k] * Minute \in Nat
      BY Product
    <3>3. Tokens(s, k)' = Least(Limit[k] * Minute, Left(s, k) + (now - now) * Limit[k])
      BY <1>2, <1>3 DEF Tokens, Refilled
    <3>4. Tokens(s, k)' = Left(s, k)
      BY <1>2, <3>1, <3>2, <3>3 DEF Least
    <3>5. spent'[s][k] = IF Tokens(s, k) >= Minute THEN spent[s][k] + 1 ELSE spent[s][k]
      BY <1>0, <1>3 DEF MetersOK
    <3> QED
      BY <2>1, <3>4, <3>5
  <2>2. CASE ~(p = s /\ q = k)
    <3>1. spent'[p][q] = spent[p][q]
      BY <1>0, <1>3, <2>2 DEF MetersOK
    <3>2. /\ q \in DOMAIN buckets'[p] <=> q \in DOMAIN buckets[p]
          /\ q \in DOMAIN buckets[p] => buckets'[p][q] = buckets[p][q]
      BY <1>2, <2>2
    <3>3. Tokens(p, q)' = Tokens(p, q)
      BY <1>3, <3>2 DEF Tokens, Refilled
    <3> QED
      BY <2>2, <3>1, <3>3
  <2> QED
    BY <2>1, <2>2
<1> QED
  BY <1>1, <1>3, <1>5, <1>6, <1>7, <1>8, TypeParts

\* A process that ends leaves full buckets and an account of nothing.
LEMMA StopStep ==
    ASSUME GateTypeOK, NEW s \in Server, Stop(s)
    PROVE  /\ GateTypeOK'
           /\ now' = now
           /\ \A k \in Key :
                /\ Tokens(s, k)' = Limit[k] * Minute
                /\ spent'[s][k] = 0
                /\ \A t \in 0..now : before'[s][k][t] = 0
           /\ \A p \in Server, k \in Key : p # s =>
                /\ Tokens(p, k)' = Tokens(p, k)
                /\ spent'[p][k] = spent[p][k] /\ before'[p][k] = before[p][k]
<1>0. TableOK /\ CallsOK /\ MetersOK
  BY TypeParts
<1>1. /\ DOMAIN buckets' = Server
      /\ DOMAIN buckets'[s] = {}
      /\ \A p \in Server : p # s => buckets'[p] = buckets[p]
      /\ now' = now
  BY <1>0 DEF Stop, MetersOK
<1>2. /\ spent' \in [Server -> [Key -> Nat]]
      /\ \A k \in Key : spent'[s][k] = 0
      /\ \A p \in Server : p # s => spent'[p] = spent[p]
  BY <1>0 DEF Stop, MetersOK
<1>3. /\ before' \in [Server -> [Key -> [0..now -> Nat]]]
      /\ \A k \in Key : \A t \in 0..now : before'[s][k][t] = 0
      /\ \A p \in Server : p # s => before'[p] = before[p]
  BY <1>0 DEF Stop, MetersOK
<1>4. MetersOK'
  BY <1>0, <1>1, <1>2, <1>3 DEF MetersOK
<1>5. orphaned' \in BOOLEAN
  BY Zenon DEF Stop
<1>6. TableOK'
  BY <1>0, <1>5 DEF Stop, TableOK
<1>7. CallsOK'
  <2>1. NoCall \in Calls /\ NoCall.stage = "none"
    BY DEF NoCall, Calls, Stages
  <2> QED
    BY <1>0, <2>1 DEF Stop, CallsOK
<1>8. \A k \in Key : Tokens(s, k)' = Limit[k] * Minute
  BY <1>1 DEF Tokens
<1>9. \A p \in Server, k \in Key : p # s => Tokens(p, k)' = Tokens(p, k)
  BY <1>1 DEF Tokens, Refilled
<1> QED
  BY <1>1, <1>2, <1>3, <1>4, <1>6, <1>7, <1>8, <1>9, TypeParts

\* The clock fills every bucket a little and closes the account of the tick.
LEMMA TickStep ==
    ASSUME GateTypeOK, Tick
    PROVE  /\ GateTypeOK'
           /\ now' = now + 1
           /\ \A s \in Server, k \in Key :
                /\ Tokens(s, k)' = Least(Limit[k] * Minute, Tokens(s, k) + Limit[k])
                /\ spent'[s][k] = spent[s][k]
                /\ \A t \in 0..now : before'[s][k][t] = before[s][k][t]
                /\ before'[s][k][now + 1] = spent[s][k]
<1>0. TableOK /\ CallsOK /\ MetersOK
  BY TypeParts
<1>1. /\ now' = now + 1 /\ now < MaxTime /\ now \in Nat
      /\ buckets' = buckets /\ spent' = spent
      /\ UNCHANGED <<table, servers, buckets, spent, calls, arrivals>>
  BY <1>0 DEF Tick, MetersOK
<1>2. ASSUME NEW s \in Server, NEW k \in Key
      PROVE  /\ before'[s][k] \in [0..(now + 1) -> Nat]
             /\ \A t \in 0..now : before'[s][k][t] = before[s][k][t]
             /\ before'[s][k][now + 1] = spent[s][k]
  <2>1. before'[s][k] = [t \in 0..(now + 1) |->
                            IF t = now + 1 THEN spent[s][k] ELSE before[s][k][t]]
    BY DEF Tick
  <2>2. spent[s][k] \in Nat /\ before[s][k] \in [0..now -> Nat]
    BY <1>0 DEF MetersOK
  <2> QED
    BY <1>1, <2>1, <2>2
<1>3. before' \in [Server -> [Key -> [0..now' -> Nat]]]
  <2>1. before' = [s \in Server |-> [k \in Key |-> before'[s][k]]]
    BY DEF Tick
  <2> QED
    BY <1>1, <1>2, <2>1
<1>4. MetersOK'
  BY <1>0, <1>1, <1>3 DEF MetersOK
<1>5. TableOK' /\ CallsOK'
  BY <1>0, <1>1 DEF TableOK, CallsOK, table, servers
<1>6. ASSUME NEW s \in Server, NEW k \in Key
      PROVE  Tokens(s, k)' = Least(Limit[k] * Minute, Tokens(s, k) + Limit[k])
  <2>1. Limit[k] * Minute \in Nat
    BY Product
  <2>2. CASE k \in DOMAIN buckets[s]
    <3> DEFINE have == buckets[s][k].tokens
               last == buckets[s][k].last
    <3>1. have \in Nat /\ last \in 0..now
      <4>1. have \in 0..(Limit[k] * Minute) /\ last \in 0..now
        BY <1>0, <2>2, Zenon DEF MetersOK
      <4> HIDE DEF have, last
      <4> QED
        BY <2>1, <4>1
    <3>2. Tokens(s, k) = Filled(Limit[k] * Minute, have, now - last, Limit[k])
      BY <2>2, Zenon DEF Tokens, Refilled, Filled
    <3>3. buckets' = buckets /\ now' = now + 1 /\ now \in Nat
      BY <1>1
    <3>4. Tokens(s, k)' = Filled(Limit[k] * Minute, have, (now + 1) - last, Limit[k])
      <4>1. k \in DOMAIN buckets'[s]
        BY <2>2, <3>3
      <4>2. Tokens(s, k)' =
                Filled(Limit[k] * Minute, buckets'[s][k].tokens,
                       now' - buckets'[s][k].last, Limit[k])
        BY <4>1, Zenon DEF Tokens, Refilled, Filled
      <4>3. buckets'[s][k].tokens = have /\ buckets'[s][k].last = last
        BY <3>3
      <4>4. now' - last = (now + 1) - last
        BY <3>3
      <4> HIDE DEF have, last
      <4> QED
        BY <4>2, <4>3, <4>4, Zenon
    <3> HIDE DEF have, last
    <3>6. Filled(Limit[k] * Minute, have, (now + 1) - last, Limit[k])
            = Least(Limit[k] * Minute,
                    Filled(Limit[k] * Minute, have, now - last, Limit[k]) + Limit[k])
      <4> DEFINE full == Limit[k] * Minute
                 l == Limit[k]
      <4>1. full \in Nat /\ l \in Nat
        BY <2>1
      <4> HIDE DEF full, l
      <4>2. Filled(full, have, (now + 1) - last, l)
              = Least(full, Filled(full, have, now - last, l) + l)
        <5> DEFINE gap == now - last
                   longer == (now + 1) - last
        <5>1. gap \in Nat /\ longer = gap + 1
          BY <3>1, <3>3
        <5> HIDE DEF gap, longer
        <5>2. Filled(full, have, longer, l) = Least(full, Filled(full, have, gap, l) + l)
          BY <3>1, <4>1, <5>1, TickLater
        <5> QED
          BY <5>2 DEF gap, longer
      <4> QED
        BY <4>2 DEF full, l
    <3> QED
      BY <3>2, <3>4, <3>6, Zenon
  <2>3. CASE k \notin DOMAIN buckets[s]
    BY <1>1, <2>1, <2>3 DEF Tokens, Least
  <2> QED
    BY <2>2, <2>3
<1> QED
  BY <1>1, <1>2, <1>4, <1>5, <1>6, TypeParts

\* Every step keeps the types, and only three kinds of step touch a bucket's
\* account: the check of a request, the end of a process and the clock.
LEMMA Effects ==
    ASSUME GateTypeOK, [GateNext]_gatevars
    PROVE  /\ GateTypeOK'
           /\ Quiet \/ (\E r \in Request : Check(r)) \/ (\E s \in Server : Stop(s)) \/ Tick
<1>1. ASSUME NEW s \in Server,
             Open(s) \/ OpenUnlisted(s) \/ ShowKey(s) \/ \E k \in Key : CreateKey(s, k)
      PROVE  GateTypeOK' /\ Quiet
  BY <1>1, TableStep
<1>2. ASSUME NEW k \in Key, Revoke(k)
      PROVE  GateTypeOK' /\ Quiet
  <2>1. TableOK /\ CallsOK /\ MetersOK
    BY TypeParts
  <2> QED
    BY <1>2, <2>1, TypeParts DEF Revoke, TableOK, CallsOK, MetersOK, Quiet, servers, metered
<1>3. ASSUME NEW s \in Server, NEW r \in Request, NEW key \in Key \cup {NoKey},
             Arrive(r, s, key, FALSE) \/ Arrive(r, s, NoKey, TRUE)
      PROVE  GateTypeOK' /\ Quiet
  <2>1. \E key2 \in Key \cup {NoKey}, free \in BOOLEAN :
            Arrive(r, s, key2, free) /\ (free => key2 = NoKey)
    BY <1>3
  <2> QED
    BY <2>1, CallStep
<1>4. ASSUME NEW r \in Request, Validate(r) \/ ValidateFails(r)
      PROVE  GateTypeOK' /\ Quiet
  BY <1>4, CallStep
<1>5. ASSUME NEW r \in Request, Check(r) PROVE GateTypeOK'
  BY <1>5, CheckStep
<1>6. ASSUME NEW s \in Server, Stop(s) PROVE GateTypeOK'
  BY <1>6, StopStep
<1>7. CASE Tick
  BY <1>7, TickStep
<1>8. CASE UNCHANGED gatevars
  <2>1. TableOK /\ CallsOK /\ MetersOK
    BY TypeParts
  <2> QED
    BY <1>8, <2>1, TypeParts DEF gatevars, TableOK, CallsOK, MetersOK, Quiet
<1> QED
  BY <1>1, <1>2, <1>3, <1>4, <1>5, <1>6, <1>7, <1>8 DEF GateNext

\* The state stays well typed: buckets are made for keys alone and never hold
\* more than a minute's worth, however long nobody looked.
THEOREM GateTypes == GateSpec => []GateTypeOK
<1>1. GateTypeOK /\ [GateNext]_gatevars => GateTypeOK'
  BY Effects
<1> QED
  BY TypeInit, <1>1, PTL DEF GateSpec

-----------------------------------------------------------------------------
(* What a bucket holds and what it let through.                            *)

\* What a server has left and what it let through since a tick make up what the
\* key was given: no more than a full bucket and the refill of the time since,
\* and no less than either.
Account(s, k) ==
    /\ before[s][k][0] = 0
    /\ Limit[k] * Minute <= Tokens(s, k) + Minute * spent[s][k]
    /\ \A t \in 0..now :
        /\ before[s][k][t] <= spent[s][k]
        /\ Tokens(s, k) + Minute * Since(s, k, t) <= Limit[k] * Minute + Limit[k] * (now - t)
        /\ Least(Limit[k] * Minute, Limit[k] * (now - t))
              <= Tokens(s, k) + Minute * Since(s, k, t)

Accounts == \A s \in Server, k \in Key : Account(s, k)

\* What the arithmetic below needs of every account.
LEMMA AccountTypes ==
    ASSUME GateTypeOK, NEW s \in Server, NEW k \in Key
    PROVE  /\ now \in Nat /\ Limit[k] \in Nat /\ Minute \in Nat
           /\ spent[s][k] \in Nat
           /\ \A t \in 0..now : before[s][k][t] \in Nat
<1>1. now \in Nat /\ spent \in [Server -> [Key -> Nat]]
      /\ before \in [Server -> [Key -> [0..now -> Nat]]]
  BY DEF GateTypeOK
<1>2. before[s][k] \in [0..now -> Nat]
  BY <1>1
<1> QED
  BY <1>1, <1>2

\* A request more costs a request's worth.
LEMMA OneMoreRequest ==
    ASSUME NEW m \in Nat, NEW a \in Int
    PROVE  m * (a + 1) = m * a + m
OBVIOUS

\* A new account is settled.
LEMMA NewAccount ==
    ASSUME NEW full \in Nat, NEW l \in Nat, NEW m \in Nat, NEW d \in Nat
    PROVE  /\ full <= full + m * 0
           /\ full + m * (0 - 0) <= full + l * d
           /\ Least(full, l * d) <= full + m * (0 - 0)
<1>1. l * d \in Nat
  BY Product
<1>2. m * 0 = 0 /\ m * (0 - 0) = 0
  OBVIOUS
<1> QED
  BY <1>1, <1>2 DEF Least

\* The accounts are settled at first.
LEMMA AccountsInit == GateInit => Accounts
<1> SUFFICES ASSUME GateInit, NEW s \in Server, NEW k \in Key PROVE Account(s, k)
  BY DEF Accounts
<1>1. /\ now = 0 /\ spent[s][k] = 0 /\ before[s][k][0] = 0
      /\ Tokens(s, k) = Limit[k] * Minute
  BY DEF GateInit, Tokens
<1>2. Limit[k] \in Nat /\ Minute \in Nat /\ Limit[k] * Minute \in Nat
  BY Product
<1>3. \A t \in 0..now : t = 0 /\ now - t = 0
  <2>1. now = 0
    BY <1>1
  <2>2. 0..0 = {0} /\ 0 - 0 = 0
    OBVIOUS
  <2> QED
    BY <2>1, <2>2, Zenon
<1>4. Since(s, k, 0) = 0 - 0
  BY <1>1 DEF Since
<1> QED
  BY <1>1, <1>2, <1>3, <1>4, NewAccount DEF Account

\* A check that lets a request through takes from the bucket what it adds to the
\* account, and one that refuses changes neither.
LEMMA AccountsCheck ==
    ASSUME GateTypeOK, Accounts, NEW r \in Request, Check(r)
    PROVE  Accounts'
<1> SUFFICES ASSUME NEW s \in Server, NEW k \in Key PROVE Account(s, k)'
  BY DEF Accounts
<1>1. Account(s, k) /\ before' = before /\ now' = now
  BY CheckStep DEF Accounts
<1>2. CASE s = calls[r].at /\ k = calls[r].key /\ Tokens(s, k) >= Minute
  <2>1. Tokens(s, k)' = Tokens(s, k) - Minute /\ spent'[s][k] = spent[s][k] + 1
    BY <1>2, CheckStep DEF Left
  <2>2. \A t \in 0..now : Since(s, k, t)' = Since(s, k, t) + 1 /\ Since(s, k, t) \in Int
    BY <1>1, <2>1, AccountTypes DEF Since
  <2>3. Minute * (spent[s][k] + 1) = Minute * spent[s][k] + Minute
    BY AccountTypes, OneMoreRequest
  <2>4. \A t \in 0..now : Minute * (Since(s, k, t) + 1) = Minute * Since(s, k, t) + Minute
    BY <2>2, OneMoreRequest
  <2>5. Tokens(s, k) \in Int /\ Minute \in Int
    BY TokensType
  <2>6. Minute * spent[s][k] \in Int /\ \A t \in 0..now : Minute * Since(s, k, t) \in Int
    BY <2>2, AccountTypes
  <2>7. /\ Tokens(s, k)' + Minute * spent'[s][k] = Tokens(s, k) + Minute * spent[s][k]
        /\ \A t \in 0..now : Tokens(s, k)' + Minute * Since(s, k, t)'
                                = Tokens(s, k) + Minute * Since(s, k, t)
    <3> DEFINE T == Tokens(s, k)
               X == Minute * spent[s][k]
    <3>1. Tokens(s, k)' + Minute * spent'[s][k] = (T - Minute) + (X + Minute)
      BY <2>1, <2>3
    <3>2. \A t \in 0..now : Tokens(s, k)' + Minute * Since(s, k, t)'
                              = (T - Minute) + (Minute * Since(s, k, t) + Minute)
      BY <2>1, <2>2, <2>4
    <3>3. ASSUME NEW x \in Int PROVE (T - Minute) + (x + Minute) = T + x
      BY <2>5
    <3>4. (T - Minute) + (X + Minute) = T + X
      BY <2>6, <3>3
    <3>5. \A t \in 0..now : (T - Minute) + (Minute * Since(s, k, t) + Minute)
                              = T + Minute * Since(s, k, t)
      BY <2>6, <3>3
    <3> QED
      BY <3>1, <3>2, <3>4, <3>5
  <2>8. \A t \in 0..now : before'[s][k][t] <= spent'[s][k]
    BY <1>1, <2>1, AccountTypes DEF Account
  <2> QED
    BY <1>1, <2>7, <2>8 DEF Account
<1>3. CASE ~(s = calls[r].at /\ k = calls[r].key /\ Tokens(s, k) >= Minute)
  <2>1. Tokens(s, k)' = Tokens(s, k) /\ spent'[s][k] = spent[s][k]
    BY <1>3, CheckStep DEF Left
  <2> QED
    BY <1>1, <2>1 DEF Account, Since
<1> QED
  BY <1>2, <1>3

\* A process that ends opens new accounts.
LEMMA AccountsStop ==
    ASSUME GateTypeOK, Accounts, NEW p \in Server, Stop(p)
    PROVE  Accounts'
<1> SUFFICES ASSUME NEW s \in Server, NEW k \in Key PROVE Account(s, k)'
  BY DEF Accounts
<1>0. now \in Nat
  BY AccountTypes
<1>1. CASE s = p
  <2>1. /\ now' = now /\ spent'[s][k] = 0 /\ \A t \in 0..now : before'[s][k][t] = 0
        /\ Tokens(s, k)' = Limit[k] * Minute
    BY <1>1, StopStep
  <2>2. Limit[k] \in Nat /\ Minute \in Nat /\ Limit[k] * Minute \in Nat
    BY Product
  <2>3. \A t \in 0..now : Since(s, k, t)' = 0 - 0 /\ now - t \in Nat
    BY <1>0, <2>1 DEF Since
  <2>4. 0 \in 0..now /\ 0 <= 0
    BY <1>0
  <2> QED
    BY <2>1, <2>2, <2>3, <2>4, NewAccount DEF Account
<1>2. CASE s # p
  <2>1. now' = now /\ Tokens(s, k)' = Tokens(s, k)
        /\ spent'[s][k] = spent[s][k] /\ before'[s][k] = before[s][k]
    BY <1>2, StopStep
  <2> QED
    BY <2>1 DEF Accounts, Account, Since
<1> QED
  BY <1>1, <1>2

\* What a tick does to the two bounds of an account: the refill of one tick is
\* what both allow for one tick more, unless the bucket is full.
LEMMA TickBounds ==
    ASSUME NEW full \in Nat, NEW have \in Nat, NEW l \in Nat, NEW gap \in Nat,
           NEW used \in Nat, have <= full,
           have + used <= full + l * gap,
           Least(full, l * gap) <= have + used
    PROVE  /\ Least(full, have + l) + used <= full + l * (gap + 1)
           /\ Least(full, l * (gap + 1)) <= Least(full, have + l) + used
<1>1. PICK x \in Nat : l * gap = x /\ l * (gap + 1) = x + l
  <2>1. l * gap \in Nat /\ l * (gap + 1) = l * gap + l
    OBVIOUS
  <2> QED
    BY <2>1
<1> QED
  BY <1>1 DEF Least

\* The clock keeps every account settled, and opens one from its tick on.
LEMMA AccountsTick ==
    ASSUME GateTypeOK, Accounts, Tick
    PROVE  Accounts'
<1> SUFFICES ASSUME NEW s \in Server, NEW k \in Key PROVE Account(s, k)'
  BY DEF Accounts
<1> DEFINE full == Limit[k] * Minute
           l == Limit[k]
           have == Tokens(s, k)
           have2 == Tokens(s, k)'
<1>1. /\ full \in Nat /\ l \in Nat /\ have \in Nat /\ have <= full
      /\ now \in Nat /\ now' = now + 1 /\ spent[s][k] \in Nat /\ spent'[s][k] = spent[s][k]
      /\ \A t \in 0..now : before[s][k][t] \in Nat /\ before'[s][k][t] = before[s][k][t]
      /\ before'[s][k][now + 1] = spent[s][k]
  BY TokensType, AccountTypes, TickStep
<1>2. have2 = Least(full, have + l)
  BY TickStep
<1>3. /\ before[s][k][0] = 0 /\ full <= have + Minute * spent[s][k]
      /\ \A t \in 0..now :
            /\ before[s][k][t] <= spent[s][k]
            /\ have + Minute * Since(s, k, t) <= full + l * (now - t)
            /\ Least(full, l * (now - t)) <= have + Minute * Since(s, k, t)
  BY DEF Accounts, Account
<1> HIDE DEF full, l, have, have2
<1>4. have2 \in Nat /\ have <= have2 /\ have2 <= full
  BY <1>1, <1>2 DEF Least
<1>5. ASSUME NEW t \in 0..now
      PROVE  /\ Since(s, k, t)' = Since(s, k, t)
             /\ have2 + Minute * Since(s, k, t) <= full + l * (now' - t)
             /\ Least(full, l * (now' - t)) <= have2 + Minute * Since(s, k, t)
  <2>1. Since(s, k, t)' = Since(s, k, t) /\ Since(s, k, t) \in Nat
    BY <1>1, <1>3 DEF Since
  <2> DEFINE gap == now - t
             used == Minute * Since(s, k, t)
  <2>2. gap \in Nat /\ now' - t = gap + 1
    BY <1>1
  <2>3. used \in Nat
    BY <2>1, Product
  <2>4. have + used <= full + l * gap /\ Least(full, l * gap) <= have + used
    BY <1>3
  <2> HIDE DEF gap, used
  <2>5. /\ Least(full, have + l) + used <= full + l * (gap + 1)
        /\ Least(full, l * (gap + 1)) <= Least(full, have + l) + used
    BY <1>1, <2>2, <2>3, <2>4, TickBounds
  <2>6. /\ have2 + used <= full + l * (now' - t)
        /\ Least(full, l * (now' - t)) <= have2 + used
    BY <1>2, <2>2, <2>5
  <2> QED
    BY <2>1, <2>6 DEF used
<1>6. have2 + Minute * 0 <= full + l * 0 /\ Least(full, l * 0) <= have2 + Minute * 0
  <2>1. Minute * 0 = 0 /\ l * 0 = 0
    BY <1>1
  <2>2. have2 + 0 <= full + 0 /\ Least(full, 0) <= have2 + 0
    BY <1>1, <1>4 DEF Least
  <2> QED
    BY <2>1, <2>2
<1>7. \A t \in 0..now' : t \in 0..now \/ t = now + 1
  BY <1>1
<1>8. full <= have2 + Minute * spent'[s][k] /\ before'[s][k][0] = 0
  <2>1. Minute * spent[s][k] \in Nat
    BY <1>1, Product
  <2>2. 0 \in 0..now
    BY <1>1
  <2> QED
    BY <1>1, <1>3, <1>4, <2>1, <2>2
<1>9. ASSUME NEW t \in 0..now'
      PROVE  /\ before'[s][k][t] <= spent'[s][k]
             /\ have2 + Minute * Since(s, k, t)' <= full + l * (now' - t)
             /\ Least(full, l * (now' - t)) <= have2 + Minute * Since(s, k, t)'
  <2>1. CASE t \in 0..now
    <3>1. before'[s][k][t] <= spent'[s][k]
      BY <1>1, <1>3, <2>1
    <3> QED
      BY <1>5, <2>1, <3>1
  <2>2. CASE t = now + 1
    <3>1. before'[s][k][t] <= spent'[s][k]
      BY <1>1, <2>2
    <3>2. Since(s, k, t)' = 0 /\ now' - t = 0
      BY <1>1, <2>2 DEF Since
    <3> QED
      BY <1>6, <3>1, <3>2
  <2> QED
    BY <1>7, <2>1, <2>2
<1> QED
  BY <1>8, <1>9 DEF Account, full, l, have2

\* Every step keeps the accounts settled.
LEMMA AccountsKept ==
    ASSUME GateTypeOK, Accounts, [GateNext]_gatevars
    PROVE  Accounts'
<1>1. CASE Quiet
  BY <1>1 DEF Quiet, Accounts, Account, Since, Tokens, Refilled
<1>2. ASSUME NEW r \in Request, Check(r) PROVE Accounts'
  BY <1>2, AccountsCheck
<1>3. ASSUME NEW s \in Server, Stop(s) PROVE Accounts'
  BY <1>3, AccountsStop
<1>4. CASE Tick
  BY <1>4, AccountsTick
<1> QED
  BY <1>1, <1>2, <1>3, <1>4, Effects

\* Settled accounts bound what a key got through in any window.
LEMMA AccountsBound ==
    ASSUME GateTypeOK, Accounts
    PROVE  WindowBound
<1> SUFFICES ASSUME NEW s \in Server, NEW k \in Key, NEW t \in 0..now
             PROVE  Since(s, k, t) * Minute <= Limit[k] * (Minute + (now - t))
  BY DEF WindowBound
<1>1. /\ Tokens(s, k) \in Nat /\ Limit[k] \in Nat /\ Minute \in Nat
      /\ now - t \in Nat /\ Since(s, k, t) \in Int
  BY TokensType, AccountTypes DEF Since
<1>2. Tokens(s, k) + Minute * Since(s, k, t) <= Limit[k] * Minute + Limit[k] * (now - t)
  BY DEF Accounts, Account
<1> DEFINE have == Tokens(s, k)
           n == Since(s, k, t)
           gap == now - t
           l == Limit[k]
<1> HIDE DEF have, n, gap, l
<1>3. have \in Nat /\ n \in Int /\ gap \in Nat /\ l \in Nat /\ Minute \in Nat
      /\ have + Minute * n <= l * Minute + l * gap
  BY <1>1, <1>2 DEF have, n, gap, l
<1>4. n * Minute = Minute * n /\ Minute * n \in Int /\ l * Minute \in Nat /\ l * gap \in Nat
      /\ l * (Minute + gap) = l * Minute + l * gap
  BY <1>3
<1>5. n * Minute <= l * (Minute + gap)
  BY <1>3, <1>4
<1> QED
  BY <1>5 DEF n, gap, l

\* A run of a server never lets a key through more often than its limit and the
\* time since allow, from whatever moment one counts.
THEOREM KeysAreMetered == GateSpec => []WindowBound
<1>1. GateInit => GateTypeOK /\ Accounts
  BY TypeInit, AccountsInit
<1>2. GateTypeOK /\ Accounts /\ [GateNext]_gatevars => (GateTypeOK /\ Accounts)'
  BY Effects, AccountsKept
<1>3. GateTypeOK /\ Accounts => WindowBound
  BY AccountsBound
<1> QED
  BY <1>1, <1>2, <1>3, PTL DEF GateSpec

\* A request is refused by a check that found less than a request's worth.
LEMMA RefusedByCheck ==
    ASSUME GateTypeOK, [GateNext]_gatevars, NEW r \in Request,
           calls[r].stage = "validated", calls'[r].stage = "limited"
    PROVE  /\ calls[r].at \in Server /\ calls[r].key \in Key
           /\ Tokens(calls[r].at, calls[r].key) < Minute
<1>0. /\ calls \in [Request -> Calls]
      /\ calls[r].at \in Server /\ calls[r].key \in Key
  BY DEF GateTypeOK
<1>1. ASSUME NEW q \in Request, NEW a, Answer(q, a), a # "limited"
      PROVE  FALSE
  BY <1>0, <1>1 DEF Answer, Answered, NoCall, Calls
<1>2. ASSUME NEW q \in Request, Check(q)
      PROVE  Tokens(calls[r].at, calls[r].key) < Minute
  <2>1. q = r /\ ~(Tokens(calls[q].at, calls[q].key) >= Minute)
    BY <1>0, <1>1, <1>2 DEF Check, Answer
  <2>2. Tokens(calls[r].at, calls[r].key) \in Nat /\ Minute \in Nat
    BY <1>0, TokensType
  <2> QED
    BY <2>1, <2>2
<1>3. ASSUME NEW s \in Server, NEW q \in Request, NEW key \in Key \cup {NoKey},
             NEW free \in BOOLEAN, Arrive(q, s, key, free)
      PROVE  FALSE
  <2>1. q # r
    BY <1>3 DEF Arrive
  <2> QED
    BY <1>0, <1>3, <2>1 DEF Arrive
<1>4. ASSUME NEW q \in Request, Validate(q) \/ ValidateFails(q)
      PROVE  FALSE
  <2>1. q # r \/ ValidateFails(q)
    BY <1>4 DEF Validate
  <2> QED
    BY <1>0, <1>1, <1>4, <2>1 DEF Validate, ValidateFails
<1>5. ASSUME NEW s \in Server, NEW k \in Key, CreateKey(s, k)
      PROVE  FALSE
  BY <1>0, <1>5 DEF CreateKey, Calls
<1>6. ASSUME NEW s \in Server, Stop(s) PROVE FALSE
  BY <1>0, <1>6 DEF Stop, NoCall
<1>7. ASSUME UNCHANGED calls PROVE FALSE
  BY <1>7
<1>8. ASSUME NEW s \in Server, Open(s) \/ OpenUnlisted(s) \/ ShowKey(s) PROVE FALSE
  BY <1>7, <1>8 DEF Open, OpenUnlisted, ShowKey
<1>9. ASSUME NEW k \in Key, Tick \/ Revoke(k) PROVE FALSE
  BY <1>7, <1>9 DEF Tick, Revoke
<1>10. CASE UNCHANGED gatevars
  BY <1>7, <1>10 DEF gatevars
<1>11. CASE Tick
  BY <1>7, <1>11 DEF Tick
<1> QED
  BY <1>0, <1>2, <1>3, <1>4, <1>5, <1>6, <1>8, <1>9, <1>10, <1>11 DEF GateNext

\* Who is refused has had the limit within the last minute.
LEMMA RefusedStep ==
    ASSUME GateTypeOK, Accounts, [GateNext]_gatevars
    PROVE  \A r \in Request :
              calls[r].stage = "validated" /\ calls'[r].stage = "limited" =>
                LET from == IF now < Minute THEN 0 ELSE now - Minute
                IN  Since(calls[r].at, calls[r].key, from) >= Limit[calls[r].key]
<1> SUFFICES ASSUME NEW r \in Request,
                    calls[r].stage = "validated", calls'[r].stage = "limited"
             PROVE  LET from == IF now < Minute THEN 0 ELSE now - Minute
                    IN  Since(calls[r].at, calls[r].key, from) >= Limit[calls[r].key]
  OBVIOUS
<1>1. PICK s \in Server, k \in Key :
            s = calls[r].at /\ k = calls[r].key /\ Tokens(s, k) < Minute
  BY RefusedByCheck
<1> DEFINE from == IF now < Minute THEN 0 ELSE now - Minute
           n == Since(s, k, from)
           l == Limit[k]
           have == Tokens(s, k)
<1>2. from \in 0..now /\ Minute \in Nat \ {0} /\ l \in Nat /\ have \in Nat
  BY <1>1, AccountTypes, TokensType
<1>3. n \in Int
  BY <1>2, AccountTypes DEF Since
<1>4. l * Minute <= have + Minute * n
  <2>1. CASE now < Minute
    <3>1. n = spent[s][k]
      <4>1. from = 0 /\ before[s][k][0] = 0
        BY <2>1 DEF Accounts, Account
      <4> QED
        BY <4>1, AccountTypes DEF Since
    <3>2. Limit[k] * Minute <= Tokens(s, k) + Minute * spent[s][k]
      BY DEF Accounts, Account
    <3> QED
      BY <3>1, <3>2
  <2>2. CASE ~(now < Minute)
    <3>1. now - from = Minute
      BY <2>2, AccountTypes
    <3>2. Least(Limit[k] * Minute, Limit[k] * (now - from))
            <= Tokens(s, k) + Minute * Since(s, k, from)
      BY <1>2 DEF Accounts, Account
    <3>3. Least(Limit[k] * Minute, Limit[k] * Minute) = Limit[k] * Minute
      BY DEF Least
    <3> QED
      BY <3>1, <3>2, <3>3
  <2> QED
    BY <2>1, <2>2
<1>5. have < Minute
  BY <1>1
<1> HIDE DEF n, l, have, from
<1>6. n >= l
  <2>1. SUFFICES ASSUME n < l PROVE FALSE
    BY <1>2, <1>3
  <2>2. PICK e \in Nat : l = n + 1 + e
    BY <1>2, <1>3, <2>1
  <2>3. l * Minute = Minute * n + Minute + e * Minute /\ e * Minute \in Nat
    BY <1>2, <1>3, <2>2
  <2>4. Minute * n \in Int
    BY <1>2, <1>3
  <2> QED
    BY <1>2, <1>4, <1>5, <2>3, <2>4
<1> QED
  BY <1>1, <1>6 DEF n, l, from

\* Nobody is refused who had not used up the limit within the last minute.
THEOREM RefusedAtTheLimit == GateSpec => [][RefusedOnlyAtLimit]_gatevars
<1>1. GateInit => GateTypeOK /\ Accounts
  BY TypeInit, AccountsInit
<1>2. GateTypeOK /\ Accounts /\ [GateNext]_gatevars => (GateTypeOK /\ Accounts)'
  BY Effects, AccountsKept
<1>3. GateTypeOK /\ Accounts /\ [GateNext]_gatevars =>
        RefusedOnlyAtLimit
  BY RefusedStep DEF RefusedOnlyAtLimit
<1> QED
  BY <1>1, <1>2, <1>3, PTL DEF GateSpec

\* Both sides of a limit hold, for every limit, table and number of servers.
THEOREM RateIsKept == GateSpec => RateKept
  BY KeysAreMetered, RefusedAtTheLimit, PTL DEF RateKept

-----------------------------------------------------------------------------
(* Who gets through.                                                       *)

\* What is known of one request: one that is still to be answered is not free,
\* and its key, if it was active at any moment since, counted as valid.
CallKnown(c) ==
    /\ c.stage \in {"arrived", "validated"} => ~c.free /\ (c.key \in Active => c.valid)
    /\ c.stage = "validated" => rows[c.key] # "absent"
    /\ c.stage \in {"validated", "limited"} => c.valid
    /\ c.stage = "served" => c.free \/ c.valid

CallsKnown ==
    /\ \A r \in Request : CallKnown(calls[r])
    /\ \A s \in Server : \A k \in DOMAIN buckets[s] : rows[k] # "absent"

\* A request keeps what is known of it while the keys only lapse.
LEMMA CallKept ==
    ASSUME GateTypeOK, NEW r \in Request, CallKnown(calls[r]),
           calls'[r] = calls[r],
           \A k \in Key : /\ rows[k] # "absent" => rows'[k] # "absent"
                          /\ rows'[k] = "active" => rows[k] = "active"
    PROVE  CallKnown(calls[r])'
BY DEF GateTypeOK, CallKnown, Active, Calls, Stages

\* The steps that change no row keep what is known, if the requests do.
LEMMA KnownKept ==
    ASSUME GateTypeOK, CallsKnown, rows' = rows, buckets' = buckets,
           \A r \in Request : CallKnown(calls[r])'
    PROVE  CallsKnown'
BY DEF CallsKnown

\* An answer tells no more than was known.
LEMMA AnswerKnown ==
    ASSUME NEW c \in Calls, NEW a \in {"served", "limited", "unknown"},
           a # "unknown" => c.valid \/ (a = "served" /\ c.free)
    PROVE  CallKnown(Answered(a, c))
BY DEF Calls, CallKnown, Answered, NoCall

\* Every step keeps what is known of the requests.
LEMMA CallsKnownKept ==
    ASSUME GateTypeOK, CallsKnown, [GateNext]_gatevars
    PROVE  CallsKnown'
<1>0. /\ calls \in [Request -> Calls] /\ rows \in [Key -> {"absent", "active", "revoked"}]
      /\ \A r \in Request : CallKnown(calls[r])
      /\ \A s \in Server : \A k \in DOMAIN buckets[s] : rows[k] # "absent" /\ k \in Key
  BY DEF GateTypeOK, CallsKnown
<1>1. ASSUME UNCHANGED <<rows, buckets, calls>> PROVE CallsKnown'
  BY <1>1 DEF CallsKnown, CallKnown, Active
<1>2. ASSUME NEW s \in Server, Open(s) \/ OpenUnlisted(s) \/ ShowKey(s) PROVE CallsKnown'
  BY <1>1, <1>2 DEF Open, OpenUnlisted, ShowKey, table, metered
<1>3. CASE Tick
  BY <1>1, <1>3 DEF Tick, table
<1>4. CASE UNCHANGED gatevars
  BY <1>1, <1>4 DEF gatevars
<1>5. ASSUME NEW k \in Key, Revoke(k) PROVE CallsKnown'
  <2>1. buckets' = buckets /\ calls' = calls /\ rows' = [rows EXCEPT ![k] = "revoked"]
    BY <1>5 DEF Revoke, metered
  <2>2. \A q \in Key : /\ rows[q] # "absent" => rows'[q] # "absent"
                       /\ rows'[q] = "active" => rows[q] = "active"
    BY <1>0, <2>1
  <2>3. \A r \in Request : CallKnown(calls[r])'
    BY <1>0, <2>1, <2>2, CallKept
  <2> QED
    BY <1>0, <2>1, <2>2, <2>3 DEF CallsKnown
<1>6. ASSUME NEW s \in Server, NEW k \in Key, CreateKey(s, k) PROVE CallsKnown'
  <2>1. /\ buckets' = buckets /\ rows' = [rows EXCEPT ![k] = "active"]
        /\ \A r \in Request :
              calls'[r] = IF calls[r].key = k THEN [calls[r] EXCEPT !.valid = TRUE]
                          ELSE calls[r]
    BY <1>6 DEF CreateKey, metered
  <2>2. ASSUME NEW r \in Request PROVE CallKnown(calls[r])'
    <3>1. /\ calls[r] \in Calls /\ CallKnown(calls[r])
          /\ calls[r].stage \in {"arrived", "validated"} => calls[r].key \in Key
      BY <1>0 DEF GateTypeOK
    <3>2. CASE calls[r].key = k
      <4>1. calls'[r] = [calls[r] EXCEPT !.valid = TRUE]
        BY <2>1, <3>2
      <4>2. /\ calls'[r].stage = calls[r].stage /\ calls'[r].free = calls[r].free
            /\ calls'[r].key = k /\ calls'[r].valid
        BY <3>1, <3>2, <4>1 DEF Calls
      <4>3. rows'[k] = "active"
        BY <1>0, <2>1
      <4> QED
        BY <3>1, <4>2, <4>3 DEF CallKnown
    <3>3. CASE calls[r].key # k
      <4>1. calls'[r] = calls[r]
        BY <2>1, <3>3
      <4>2. \A q \in Key : q # k => rows'[q] = rows[q]
        BY <1>0, <2>1
      <4>3. calls[r].key \in Active' => calls[r].key \in Active
        BY <3>3, <4>2 DEF Active
      <4> QED
        BY <3>1, <3>3, <4>1, <4>2, <4>3 DEF CallKnown
    <3> QED
      BY <3>2, <3>3
  <2> QED
    BY <1>0, <2>1, <2>2 DEF CallsKnown
<1>7. ASSUME NEW s \in Server, Stop(s) PROVE CallsKnown'
  <2>1. /\ rows' = rows
        /\ \A r \in Request : calls'[r] = calls[r] \/ calls'[r] = NoCall
        /\ \A p \in Server : \A k \in DOMAIN buckets'[p] : k \in DOMAIN buckets[p]
    BY <1>7 DEF Stop, GateTypeOK
  <2>2. \A r \in Request : CallKnown(calls[r])'
    BY <1>0, <2>1 DEF CallKnown, Active, NoCall
  <2> QED
    BY <1>0, <2>1, <2>2 DEF CallsKnown
<1>8. ASSUME NEW s \in Server, NEW r \in Request, NEW key \in Key \cup {NoKey},
             NEW free \in BOOLEAN, Arrive(r, s, key, free)
      PROVE  CallsKnown'
  <2> DEFINE call == [at |-> s, key |-> key, free |-> free, valid |-> key \in Active,
                      stage |-> "arrived"]
             next == IF free THEN Answered("served", call)
                     ELSE IF key = NoKey THEN Answered("unknown", call) ELSE call
  <2>1. rows' = rows /\ buckets' = buckets /\ calls' = [calls EXCEPT ![r] = next]
    BY <1>8 DEF Arrive, table, metered
  <2>2. CallKnown(next)
    <3>0. call \in Calls
      BY DEF Calls, Stages
    <3>1. /\ call \in Calls /\ call.free = free /\ call.key = key
          /\ call.valid = (key \in Active) /\ call.stage = "arrived"
      BY <3>0
    <3> HIDE DEF call
    <3>2. ~free => CallKnown(call)
      BY <3>1 DEF CallKnown
    <3>3. free => CallKnown(Answered("served", call))
      BY <3>1, AnswerKnown
    <3>4. CallKnown(Answered("unknown", call))
      BY <3>1, AnswerKnown
    <3> QED
      BY <3>2, <3>3, <3>4
  <2> HIDE DEF next
  <2>3. \A q \in Request : CallKnown(calls[q])'
    BY <1>0, <2>1, <2>2 DEF CallKnown, Active
  <2> QED
    BY <2>1, <2>3, KnownKept
<1>9. ASSUME NEW r \in Request, Validate(r) \/ ValidateFails(r)
      PROVE  CallsKnown'
  <2>1. rows' = rows /\ buckets' = buckets
    BY <1>9 DEF Validate, ValidateFails, table, metered
  <2>2. \/ calls' = [calls EXCEPT ![r].stage = "validated"]
            /\ calls[r].stage = "arrived" /\ calls[r].key \in Active
        \/ Answer(r, "unknown")
    BY <1>9 DEF Validate, ValidateFails
  <2>3. \A q \in Request : q # r => calls'[q] = calls[q]
    BY <1>0, <2>2 DEF Answer
  <2>4. CallKnown(calls[r])'
    <3>1. CASE Answer(r, "unknown")
      <4>1. calls'[r] = Answered("unknown", calls[r]) /\ calls[r] \in Calls
        BY <1>0, <3>1 DEF Answer
      <4>2. CallKnown(Answered("unknown", calls[r]))
        BY <4>1, AnswerKnown
      <4> QED
        BY <2>1, <4>1, <4>2 DEF CallKnown, Active
    <3>2. CASE calls' = [calls EXCEPT ![r].stage = "validated"]
               /\ calls[r].stage = "arrived" /\ calls[r].key \in Active
      BY <1>0, <2>1, <3>2 DEF CallKnown, Active, Calls
    <3> QED
      BY <2>2, <3>1, <3>2
  <2>5. \A q \in Request : CallKnown(calls[q])'
    BY <1>0, <2>1, <2>3, <2>4 DEF CallKnown, Active
  <2> QED
    BY <2>1, <2>5, KnownKept
<1>10. ASSUME NEW r \in Request, Check(r) PROVE CallsKnown'
  <2>1. rows' = rows /\ calls[r].stage = "validated"
        /\ (Answer(r, "served") \/ Answer(r, "limited"))
    BY <1>10 DEF Check, table
  <2>2. calls[r] \in Calls /\ calls[r].valid /\ rows[calls[r].key] # "absent"
    BY <1>0, <2>1 DEF CallKnown
  <2>3. PICK a \in {"served", "limited"} : calls' = [calls EXCEPT ![r] = Answered(a, calls[r])]
    BY <2>1 DEF Answer
  <2>4. CallKnown(Answered(a, calls[r]))
    BY <2>2, AnswerKnown
  <2>5. \A q \in Request : CallKnown(calls[q])'
    BY <1>0, <2>1, <2>3, <2>4 DEF CallKnown, Active
  <2>6. \A s \in Server : \A k \in DOMAIN buckets'[s] :
            k \in DOMAIN buckets[s] \/ k = calls[r].key
    BY <1>10, CheckTokens, ZenonT(60)
  <2> QED
    BY <1>0, <2>1, <2>2, <2>5, <2>6 DEF CallsKnown
<1> QED
  BY <1>2, <1>3, <1>4, <1>5, <1>6, <1>7, <1>8, <1>9, <1>10 DEF GateNext

\* Nothing is known of no request.
LEMMA CallsKnownInit == GateInit => CallsKnown
BY DEF GateInit, CallsKnown, CallKnown, NoCall

\* Only keys that were active while the request was under way get through, and
\* only keys of the table cost a server a bucket.
THEOREM KeysAlonePass == GateSpec => []OnlyKeysPass
<1>1. GateInit => GateTypeOK /\ CallsKnown
  BY TypeInit, CallsKnownInit
<1>2. GateTypeOK /\ CallsKnown /\ [GateNext]_gatevars => (GateTypeOK /\ CallsKnown)'
  BY Effects, CallsKnownKept
<1>3. CallsKnown => OnlyKeysPass
  BY DEF CallsKnown, CallKnown, OnlyKeysPass
<1> QED
  BY <1>1, <1>2, <1>3, PTL DEF GateSpec

-----------------------------------------------------------------------------
(* A key to begin with.                                                    *)

\* Who has a key or is about to: somebody was shown every active key, or a
\* server has it in its hands, unless one was lost; and only a server between
\* making a key and printing it has one in its hands.
KeysKnown ==
    /\ ~orphaned => \A k \in Active : k \in shown \/ \E p \in Server : made[p] = k
    /\ \A s \in Server : made[s] # NoKey => stage[s] = "inserted"

\* The keys of the first table were shown to who made them.
LEMMA KeysKnownInit == GateInit => KeysKnown
BY DEF GateInit, KeysKnown, Active

\* Every step keeps every active key in somebody's hands, or counts it as lost.
LEMMA KeysKnownKept ==
    ASSUME GateTypeOK, KeysKnown, [GateNext]_gatevars
    PROVE  KeysKnown'
<1>0. /\ made \in [Server -> Key \cup {NoKey}]
      /\ stage \in [Server -> {"down", "listed", "inserted", "up"}]
      /\ rows \in [Key -> {"absent", "active", "revoked"}] /\ shown \subseteq Key
  BY DEF GateTypeOK
<1>1. ASSUME UNCHANGED <<rows, shown, orphaned, stage, made>> PROVE KeysKnown'
  BY <1>1 DEF KeysKnown, Active
<1>2. CASE Tick
  BY <1>1, <1>2 DEF Tick, table, servers
<1>3. CASE UNCHANGED gatevars
  BY <1>1, <1>3 DEF gatevars
<1>4. ASSUME NEW r \in Request, Validate(r) \/ ValidateFails(r) \/ Check(r)
      PROVE  KeysKnown'
  BY <1>1, <1>4 DEF Validate, ValidateFails, Check, table, servers
<1>5. ASSUME NEW s \in Server, NEW r \in Request, NEW key, NEW free, Arrive(r, s, key, free)
      PROVE  KeysKnown'
  BY <1>1, <1>5 DEF Arrive, table, servers
<1>6. ASSUME NEW k \in Key, Revoke(k) PROVE KeysKnown'
  BY <1>0, <1>6 DEF Revoke, servers, KeysKnown, Active
<1>7. ASSUME NEW s \in Server, Open(s) PROVE KeysKnown'
  BY <1>0, <1>7 DEF Open, table, KeysKnown, Active
<1>8. ASSUME NEW s \in Server, OpenUnlisted(s) PROVE KeysKnown'
  BY <1>0, <1>8 DEF OpenUnlisted, KeysKnown
<1>9. ASSUME NEW s \in Server, NEW k \in Key, CreateKey(s, k) PROVE KeysKnown'
  <2>1. /\ stage[s] = "listed" /\ made[s] = NoKey
        /\ rows' = [rows EXCEPT ![k] = "active"] /\ made' = [made EXCEPT ![s] = k]
        /\ stage' = [stage EXCEPT ![s] = "inserted"]
        /\ shown' = shown /\ orphaned' = orphaned
    BY <1>9 DEF CreateKey, KeysKnown
  <2>2. \A q \in Active' : q = k \/ q \in Active
    BY <1>0, <2>1 DEF Active
  <2>3. \A p \in Server : made[p] # NoKey => p # s /\ made'[p] = made[p]
    BY <1>0, <2>1
  <2>4. made'[s] = k
    BY <1>0, <2>1
  <2>5. \A q \in Key : (\E p \in Server : made[p] = q) => \E p \in Server : made'[p] = q
    BY <2>3
  <2>6. Active \subseteq Key
    BY DEF Active
  <2>7. ~orphaned' => \A q \in Active' : q \in shown' \/ \E p \in Server : made'[p] = q
    BY <2>1, <2>2, <2>4, <2>5, <2>6 DEF KeysKnown
  <2>8. \A p \in Server : made'[p] # NoKey => stage'[p] = "inserted"
    BY <1>0, <2>1 DEF KeysKnown
  <2> QED
    BY <2>7, <2>8 DEF KeysKnown
<1>10. ASSUME NEW s \in Server, ShowKey(s) PROVE KeysKnown'
  <2>1. /\ rows' = rows /\ orphaned' = orphaned /\ shown' = shown \cup {made[s]}
        /\ made' = [made EXCEPT ![s] = NoKey] /\ stage' = [stage EXCEPT ![s] = "up"]
    BY <1>10 DEF ShowKey
  <2>2. \A q : \A p \in Server : made[p] = q => q \in shown' \/ made'[p] = q
    BY <1>0, <2>1
  <2>3. Active' = Active
    BY <2>1 DEF Active
  <2>4. \A p \in Server : made'[p] # NoKey => stage'[p] = "inserted"
    BY <1>0, <2>1 DEF KeysKnown
  <2>5. shown \subseteq shown'
    BY <2>1
  <2>6. ~orphaned' => \A q \in Active' : q \in shown' \/ \E p \in Server : made'[p] = q
    BY <2>1, <2>2, <2>3, <2>5 DEF KeysKnown
  <2> QED
    BY <2>4, <2>6 DEF KeysKnown
<1>11. ASSUME NEW s \in Server, Stop(s) PROVE KeysKnown'
  <2>1. /\ rows' = rows /\ shown' = shown /\ made' = [made EXCEPT ![s] = NoKey]
        /\ stage' = [stage EXCEPT ![s] = "down"]
        /\ orphaned' = (orphaned \/ stage[s] = "inserted")
    BY <1>11 DEF Stop
  <2>2. ~orphaned' => made[s] = NoKey /\ ~orphaned
    BY <2>1 DEF KeysKnown
  <2>3. ~orphaned' => made' = made
    BY <1>0, <2>1, <2>2
  <2>4. \A p \in Server : made'[p] # NoKey => stage'[p] = "inserted"
    BY <1>0, <2>1 DEF KeysKnown
  <2>5. Active' = Active
    BY <2>1 DEF Active
  <2>6. ~orphaned' => \A q \in Active' : q \in shown' \/ \E p \in Server : made'[p] = q
    BY <2>1, <2>2, <2>3, <2>5 DEF KeysKnown
  <2> QED
    BY <2>4, <2>6 DEF KeysKnown
<1> QED
  BY <1>2, <1>3, <1>4, <1>5, <1>6, <1>7, <1>8, <1>9, <1>10, <1>11 DEF GateNext

\* A server that begins to listen found an active key, or has just made one.
LEMMA StartStep ==
    ASSUME GateTypeOK, KeysKnown, [GateNext]_gatevars
    PROVE  \A s \in Server :
              stage[s] # "up" /\ stage'[s] = "up" /\ ~orphaned' =>
                  \E k \in Key :
                      /\ k \in Active \cup {made[s]}
                      /\ k \in shown' \/ \E p \in Server : made[p] = k
<1> SUFFICES ASSUME NEW s \in Server, stage[s] # "up", stage'[s] = "up", ~orphaned'
             PROVE  \E k \in Key :
                      /\ k \in Active \cup {made[s]}
                      /\ k \in shown' \/ \E p \in Server : made[p] = k
  OBVIOUS
<1>0. /\ stage \in [Server -> {"down", "listed", "inserted", "up"}]
      /\ \A p \in Server : stage[p] = "inserted" => made[p] \in Key
  BY DEF GateTypeOK
<1>1. ASSUME NEW p \in Server, Open(p)
      PROVE  Active # {} /\ shown' = shown /\ ~orphaned
  <2>1. p = s
    BY <1>0, <1>1 DEF Open
  <2>2. stage' = [stage EXCEPT ![s] = IF Active = {} THEN "listed" ELSE "up"]
    BY <1>1, <2>1 DEF Open
  <2> QED
    BY <1>0, <1>1, <2>2 DEF Open, table
<1>2. ASSUME NEW p \in Server, ShowKey(p)
      PROVE  p = s /\ made[s] \in Key /\ made[s] \in shown'
  BY <1>0, <1>2 DEF ShowKey
<1>3. CASE Active # {} /\ shown' = shown /\ ~orphaned
  BY <1>3 DEF KeysKnown, Active
<1>4. CASE made[s] \in Key /\ made[s] \in shown'
  BY <1>4
<1>5. ASSUME UNCHANGED stage PROVE FALSE
  BY <1>5
<1>6. ASSUME NEW p \in Server, OpenUnlisted(p) PROVE FALSE
  BY <1>6 DEF OpenUnlisted
<1>7. ASSUME NEW p \in Server, Stop(p) \/ \E k \in Key : CreateKey(p, k) PROVE FALSE
  BY <1>0, <1>7 DEF Stop, CreateKey
<1>8. ASSUME NEW r \in Request, Validate(r) \/ ValidateFails(r) \/ Check(r) PROVE FALSE
  BY <1>5, <1>8 DEF Validate, ValidateFails, Check, servers
<1>9. ASSUME NEW p \in Server, NEW r \in Request, NEW key, NEW free, Arrive(r, p, key, free)
      PROVE  FALSE
  BY <1>5, <1>9 DEF Arrive, servers
<1>10. ~Tick /\ ~UNCHANGED gatevars
  BY <1>5 DEF Tick, servers, gatevars
<1>11. ASSUME NEW k \in Key, Revoke(k) PROVE FALSE
  BY <1>5, <1>11 DEF Revoke, servers
<1> QED
  BY <1>1, <1>2, <1>3, <1>4, <1>6, <1>7, <1>8, <1>9, <1>10, <1>11 DEF GateNext

\* A server that begins to listen has a key somebody has or is about to have,
\* unless a key was lost with the process that made it.
THEOREM ServersStartWithAKey == GateSpec => StartsWithAKey
<1>1. GateInit => GateTypeOK /\ KeysKnown
  BY TypeInit, KeysKnownInit
<1>2. GateTypeOK /\ KeysKnown /\ [GateNext]_gatevars => (GateTypeOK /\ KeysKnown)'
  BY Effects, KeysKnownKept
<1>3. GateTypeOK /\ KeysKnown /\ [GateNext]_gatevars =>
        \A s \in Server :
            stage[s] # "up" /\ stage'[s] = "up" /\ ~orphaned' =>
                \E k \in Key :
                    /\ k \in Active \cup {made[s]}
                    /\ k \in shown' \/ \E p \in Server : made[p] = k
  BY StartStep
<1> QED
  BY <1>1, <1>2, <1>3, PTL DEF GateSpec, StartsWithAKey

-----------------------------------------------------------------------------
(* Filling up late implements filling up by the clock.                     *)

Levels == [s \in Server |-> [k \in Key |-> Tokens(s, k)]]
Outcomes == [r \in Request |-> Outcome(r)]

\* The abstract state changes as the buckets and the answers do.
LEMMA MeterState ==
    /\ Meter!mvars = <<now, Levels, Outcomes>>
    /\ (Meter!mvars)' = <<now', Levels', Outcomes'>>
BY DEF Meter!mvars, Levels, Outcomes

\* A bucket nobody looked at is full, and nobody was answered.
LEMMA MeterInitially == GateInit => Meter!MeterInit
BY DEF GateInit, Meter!MeterInit, Meter!Full, Tokens, Outcome, NoCall

\* Where no bucket and not the clock changes, no level does.
LEMMA QuietLevels ==
    ASSUME Quiet
    PROVE  now' = now /\ Levels' = Levels
BY DEF Quiet, Levels, Tokens, Refilled

\* A request that is new, or whose key is judged, is nobody's answer any more.
LEMMA MeterCall ==
    ASSUME GateTypeOK, CallsKnown, NEW r \in Request,
           \/ Validate(r) \/ ValidateFails(r)
           \/ \E s \in Server, key \in Key \cup {NoKey}, free \in BOOLEAN :
                Arrive(r, s, key, free) /\ (free => key = NoKey)
    PROVE  Meter!Forget(r)
<1>1. now' = now /\ Levels' = Levels
  BY CallStep, QuietLevels
<1>2. calls \in [Request -> Calls]
  BY DEF GateTypeOK
<1>3. \A q \in Request : q # r => calls'[q] = calls[q]
  BY <1>2 DEF Validate, ValidateFails, Arrive, Answer
<1>4. Outcome(r)' = "none"
  <2>0. ASSUME Answer(r, "unknown") PROVE Outcome(r)' = "none"
    <3>1. calls'[r].stage = "unknown"
      BY <1>2, <2>0 DEF Answer, Answered, NoCall
    <3> QED
      BY <3>1 DEF Outcome
  <2>1. CASE Validate(r)
    <3>1. CASE calls' = [calls EXCEPT ![r].stage = "validated"]
      <4>1. calls'[r].stage = "validated"
        BY <1>2, <3>1 DEF Calls
      <4> QED
        BY <4>1 DEF Outcome
    <3> QED
      BY <2>0, <2>1, <3>1 DEF Validate
  <2>2. CASE ValidateFails(r)
    BY <2>0, <2>2 DEF ValidateFails
  <2>3. ASSUME NEW s \in Server, NEW key \in Key \cup {NoKey}, NEW free \in BOOLEAN,
               Arrive(r, s, key, free)
        PROVE  Outcome(r)' = "none"
    <3>1. \/ calls'[r].stage = "served" /\ calls'[r].free
          \/ calls'[r].stage \in {"unknown", "arrived"}
      BY <1>2, <2>3 DEF Arrive, Answered, NoCall
    <3> QED
      BY <3>1 DEF Outcome
  <2> QED
    BY <2>1, <2>2, <2>3
<1>5. \A q \in Request : q # r => Outcome(q)' = Outcome(q)
  BY <1>3 DEF Outcome
<1>6. Outcomes' = [Outcomes EXCEPT ![r] = "none"]
  BY <1>4, <1>5 DEF Outcomes
<1> QED
  BY <1>1, <1>6 DEF Meter!Forget, Levels, Outcomes

\* A check is a request spent or refused, by the level as it is.
LEMMA MeterCheck ==
    ASSUME GateTypeOK, CallsKnown, NEW r \in Request, Check(r)
    PROVE  \E s \in Server, k \in Key : Meter!Spend(r, s, k) \/ Meter!Refuse(r, s, k)
<1>1. PICK s \in Server, k \in Key : s = calls[r].at /\ k = calls[r].key
  BY CheckStep
<1>2. /\ now' = now
      /\ Tokens(s, k)' = Left(s, k)
      /\ \A p \in Server, q \in Key : ~(p = s /\ q = k) => Tokens(p, q)' = Tokens(p, q)
  BY <1>1, CheckStep
<1>3. Levels' = [Levels EXCEPT ![s][k] = Left(s, k)]
  BY <1>2 DEF Levels
<1>4. calls \in [Request -> Calls] /\ calls[r].stage = "validated" /\ ~calls[r].free
  BY DEF GateTypeOK, Check, CallsKnown, CallKnown
<1>5. Outcome(r) = "none"
  BY <1>4 DEF Outcome
<1>6. Levels[s][k] = Tokens(s, k) /\ Tokens(s, k) \in Nat /\ Minute \in Nat
      /\ Outcomes[r] = Outcome(r)
  BY TokensType DEF Levels, Outcomes
<1>7. ASSUME NEW a \in {"served", "limited"}, Answer(r, a)
      PROVE  /\ \A q \in Request : q # r => Outcome(q)' = Outcome(q)
             /\ calls'[r].stage = a /\ ~calls'[r].free
  BY <1>4, <1>7 DEF Answer, Answered, NoCall, Outcome
<1>8. CASE Tokens(s, k) >= Minute
  <2>1. Answer(r, "served")
    BY <1>1, <1>8 DEF Check
  <2>2. Outcome(r)' = "spent"
    BY <1>7, <2>1 DEF Outcome
  <2>3. Outcomes' = [Outcomes EXCEPT ![r] = "spent"]
    BY <1>7, <2>1, <2>2 DEF Outcomes
  <2>4. Levels' = [Levels EXCEPT ![s][k] = Levels[s][k] - Minute]
    BY <1>3, <1>6, <1>8 DEF Left
  <2>5. Meter!Spend(r, s, k)
    BY <1>2, <1>5, <1>6, <1>8, <2>3, <2>4 DEF Meter!Spend, Levels, Outcomes
  <2> QED
    BY <2>5
<1>9. CASE ~(Tokens(s, k) >= Minute)
  <2>1. Answer(r, "limited")
    BY <1>1, <1>9 DEF Check
  <2>2. Outcome(r)' = "refused"
    BY <1>7, <2>1 DEF Outcome
  <2>3. Outcomes' = [Outcomes EXCEPT ![r] = "refused"]
    BY <1>7, <2>1, <2>2 DEF Outcomes
  <2>4. Levels' = Levels
    BY <1>3, <1>9 DEF Left, Levels
  <2>5. Levels[s][k] < Minute
    BY <1>6, <1>9
  <2>6. Meter!Refuse(r, s, k)
    BY <1>2, <1>5, <1>6, <2>3, <2>4, <2>5 DEF Meter!Refuse, Levels, Outcomes
  <2> QED
    BY <2>6
<1> QED
  BY <1>8, <1>9

\* A process that ends is one whose levels are full again.
LEMMA MeterStop ==
    ASSUME GateTypeOK, NEW s \in Server, Stop(s)
    PROVE  Meter!Restart(s)
<1>1. /\ now' = now
      /\ \A k \in Key : Tokens(s, k)' = Limit[k] * Minute
      /\ \A p \in Server, k \in Key : p # s => Tokens(p, k)' = Tokens(p, k)
  BY StopStep
<1>2. Levels' = [Levels EXCEPT ![s] = [k \in Key |-> Meter!Full(k)]]
  BY <1>1 DEF Levels, Meter!Full
<1>3. calls' = [r \in Request |-> IF calls[r].at = s THEN NoCall ELSE calls[r]]
  BY DEF Stop
<1> DEFINE lost == {r \in Request : calls[r].at = s}
<1>4. ASSUME NEW r \in Request
      PROVE  Outcome(r)' = IF r \in lost THEN "none" ELSE Outcome(r)
  BY <1>3 DEF Outcome, NoCall
<1>5. Outcomes' = [r \in Request |-> IF r \in lost THEN "none" ELSE Outcomes[r]]
  BY <1>4 DEF Outcomes
<1>6. lost \in SUBSET Request
  OBVIOUS
<1> QED
  BY <1>1, <1>2, <1>5, <1>6 DEF Meter!Restart, Levels, Outcomes

\* A tick raises every level, whether its bucket is looked at or not.
LEMMA MeterTick ==
    ASSUME GateTypeOK, Tick
    PROVE  Meter!Tick
<1>1. \A s \in Server, k \in Key :
        Tokens(s, k)' = Meter!Least(Meter!Full(k), Tokens(s, k) + Limit[k])
  BY TickStep DEF Meter!Least, Meter!Full, Least
<1>2. Levels' = [s \in Server |->
                    [k \in Key |-> Meter!Least(Meter!Full(k), Levels[s][k] + Limit[k])]]
  BY <1>1 DEF Levels
<1>3. Outcomes' = Outcomes /\ now' = now + 1
  BY DEF Tick, Outcomes, Outcome
<1> QED
  BY <1>2, <1>3 DEF Meter!Tick, Levels, Outcomes

\* Every step of the server is a step of the meter, or none.
LEMMA MeterStep ==
    ASSUME GateTypeOK, CallsKnown, [GateNext]_gatevars
    PROVE  [Meter!MeterNext]_(Meter!mvars)
<1>1. ASSUME Quiet, Outcomes' = Outcomes
      PROVE  UNCHANGED Meter!mvars
  BY <1>1, QuietLevels, MeterState
<1>2. ASSUME UNCHANGED calls PROVE Outcomes' = Outcomes
  BY <1>2 DEF Outcomes, Outcome
<1>3. ASSUME NEW s \in Server, Open(s) \/ OpenUnlisted(s) \/ ShowKey(s)
      PROVE  UNCHANGED Meter!mvars
  <2>1. UNCHANGED calls
    BY <1>3 DEF Open, OpenUnlisted, ShowKey
  <2> QED
    BY <1>1, <1>2, <1>3, <2>1, TableStep
<1>4. ASSUME NEW s \in Server, NEW k \in Key, CreateKey(s, k)
      PROVE  UNCHANGED Meter!mvars
  <2>1. \A r \in Request : calls[r] \in Calls
    BY DEF GateTypeOK
  <2>2. ASSUME NEW r \in Request PROVE Outcome(r)' = Outcome(r)
    BY <1>4, <2>1 DEF CreateKey, Outcome, Calls
  <2>3. Outcomes' = Outcomes
    BY <2>2 DEF Outcomes
  <2> QED
    BY <1>1, <1>4, <2>3, TableStep
<1>5. ASSUME NEW k \in Key, Revoke(k) PROVE UNCHANGED Meter!mvars
  <2>1. Quiet /\ UNCHANGED calls
    BY <1>5 DEF Revoke, Quiet, metered
  <2> QED
    BY <1>1, <1>2, <2>1
<1>6. ASSUME NEW s \in Server, NEW r \in Request, NEW key \in Key \cup {NoKey},
             Arrive(r, s, key, FALSE) \/ Arrive(r, s, NoKey, TRUE)
      PROVE  Meter!Forget(r)
  <2>1. \E key2 \in Key \cup {NoKey}, free \in BOOLEAN :
            Arrive(r, s, key2, free) /\ (free => key2 = NoKey)
    BY <1>6
  <2> QED
    BY <2>1, MeterCall
<1>7. ASSUME NEW r \in Request, Validate(r) \/ ValidateFails(r) PROVE Meter!Forget(r)
  BY <1>7, MeterCall
<1>8. CASE UNCHANGED gatevars
  <2>1. Quiet /\ UNCHANGED calls
    BY <1>8 DEF gatevars, Quiet
  <2> QED
    BY <1>1, <1>2, <2>1
<1> QED
  BY <1>3, <1>4, <1>5, <1>6, <1>7, <1>8, MeterCheck, MeterStop, MeterTick
     DEF GateNext, Meter!MeterNext

\* Filling a bucket up when it is next looked at admits and refuses exactly as
\* refilling it by the clock does: the server implements the meter.
THEOREM ImplementsMeter == GateSpec => Metered
<1>1. GateInit => GateTypeOK /\ CallsKnown
  BY TypeInit, CallsKnownInit
<1>2. GateTypeOK /\ CallsKnown /\ [GateNext]_gatevars => (GateTypeOK /\ CallsKnown)'
  BY Effects, CallsKnownKept
<1>3. GateTypeOK /\ CallsKnown /\ [GateNext]_gatevars => [Meter!MeterNext]_(Meter!mvars)
  BY MeterStep
<1> QED
  BY <1>1, <1>2, <1>3, MeterInitially, PTL DEF GateSpec, Metered, Meter!MeterSpec

-----------------------------------------------------------------------------
(* The set-up of a client.                                                 *)

USE SetupAssumption

\* A text that can be merged into, and what it becomes, are settled; what the
\* client had in it stays.
LEMMA MergedType ==
    ASSUME NEW f \in Contents, NEW command \in Command, TextOf(f) # Broken
    PROVE  /\ Merged(TextOf(f), command) \in Settled
           /\ f \in Settled => Merged(TextOf(f), command).own = f.own
<1>1. CASE f \in Settled
  <2>1. PICK own \in Own, entry \in Command \cup {None} : f = With(own, entry)
    BY <1>1 DEF Settled
  <2>2. f # Missing /\ f # Garbled /\ f # Blank /\ f.own = own
    BY <2>1 DEF With, Missing, Garbled, Blank, Bare
  <2>3. Merged(TextOf(f), command) = With(own, command)
    BY <2>2 DEF TextOf, Merged
  <2> QED
    BY <2>2, <2>3 DEF Settled, With
<1>2. CASE f \in Odd
  <2>1. TextOf(f) = Blank
    BY <1>2 DEF Odd, TextOf
  <2>2. f \notin Settled
    BY <1>2 DEF Odd, Settled, With, Missing, Garbled, Broken, Blank, Bare
  <2>3. Merged(TextOf(f), command) = With(Nothing, command)
    BY <2>1 DEF Merged
  <2> QED
    BY <2>2, <2>3 DEF Settled
<1> QED
  BY <1>1, <1>2 DEF Contents

\* What is settled, blank or broken is a content.
LEMMA ContentTypes ==
    /\ Blank \in Contents /\ Broken \in Contents /\ Missing \in Contents
    /\ Settled \subseteq Contents /\ Blank \notin Settled
    /\ Blank # Missing /\ Broken # Missing /\ Missing \notin Settled
<1>1. \A f \in Settled : f.shape = "settled"
  BY DEF Settled, With
<1>2. Blank.shape = "blank" /\ Missing.shape = "missing" /\ Broken.shape = "broken"
  BY DEF Blank, Missing, Broken, Bare
<1>3. Settled \subseteq Contents /\ {Blank, Broken, Missing} \subseteq Contents
  BY DEF Contents, Odd
<1> QED
  BY <1>1, <1>2, <1>3

\* A first state is well typed.
LEMMA SetupTypeInit == SetupInit => SetupTypeOK
<1>1. /\ Idle \in [stage : {"idle", "merged", "saved", "open"}, text : Contents]
      /\ Idle.stage = "idle"
  BY ContentTypes DEF Idle
<1>2. SetupInit => exposed \in BOOLEAN /\ calm \in BOOLEAN
  BY Zenon DEF SetupInit
<1> QED
  BY <1>1, <1>2, ContentTypes DEF SetupInit, SetupTypeOK

\* Every step keeps the types: what a window is about to write is settled.
LEMMA SetupTypeKept == SetupTypeOK /\ [SetupNext]_setupvars => SetupTypeOK'
<1> SUFFICES ASSUME SetupTypeOK, [SetupNext]_setupvars PROVE SetupTypeOK'
  OBVIOUS
<1> USE DEF SetupTypeOK
<1>1. ASSUME NEW w \in Window, NEW command \in Command, Click(w, command)
      PROVE  SetupTypeOK'
  <2> DEFINE text == TextOf(file)
             next == IF text = Broken THEN Idle
                     ELSE IF Merged(text, command) = text THEN Idle
                     ELSE [stage |-> "merged", text |-> Merged(text, command)]
  <2>1. /\ work' = [work EXCEPT ![w] = next] /\ clicks < MaxClicks /\ clicks' = clicks + 1
        /\ calm' = (calm /\ \A v \in Window : work[v].stage # "open")
        /\ UNCHANGED <<file, backup, latest, copies, exposed, saves>>
    BY <1>1 DEF Click
  <2>2. \/ next = Idle
        \/ \E t \in Settled : next = [stage |-> "merged", text |-> t]
    BY MergedType
  <2>3. next \in [stage : {"idle", "merged", "saved", "open"}, text : Contents]
        /\ (next.stage # "idle" => next.text \in Settled)
    <3>1. Idle \in [stage : {"idle", "merged", "saved", "open"}, text : Contents]
          /\ Idle.stage = "idle"
      BY ContentTypes DEF Idle
    <3> HIDE DEF next
    <3> QED
      BY <2>2, <3>1, ContentTypes
  <2> HIDE DEF next
  <2>4. calm' \in BOOLEAN
    BY <2>1, Zenon
  <2> QED
    BY <2>1, <2>3, <2>4
<1>2. ASSUME NEW w \in Window, BackUp(w) PROVE SetupTypeOK'
  BY <1>2 DEF BackUp, CopyOf
<1>3. ASSUME NEW w \in Window, Truncate(w) PROVE SetupTypeOK'
  BY <1>3, ContentTypes DEF Truncate
<1>4. ASSUME NEW w \in Window, Write(w) PROVE SetupTypeOK'
  BY <1>4, ContentTypes DEF Write, Idle
<1>5. ASSUME NEW w \in Window, GiveUp(w) PROVE SetupTypeOK'
  <2>1. file' \in Contents
    BY <1>5, ContentTypes DEF GiveUp
  <2>2. calm' \in BOOLEAN
    BY <1>5, Zenon DEF GiveUp
  <2> QED
    BY <1>5, <2>1, <2>2, ContentTypes DEF GiveUp, Idle
<1>6. ASSUME NEW f \in Contents \ {Missing}, Save(f) PROVE SetupTypeOK'
  <2>1. exposed' \in BOOLEAN /\ calm' \in BOOLEAN
    BY <1>6, Zenon DEF Save
  <2> QED
    BY <1>6, <2>1 DEF Save
<1>7. CASE UNCHANGED setupvars
  BY <1>7 DEF setupvars
<1> QED
  BY <1>1, <1>2, <1>3, <1>4, <1>5, <1>6, <1>7 DEF SetupNext

\* The state stays well typed: no window is ever about to write a text that is
\* not an object with the entry in it.
THEOREM SetupTypes == SetupSpec => []SetupTypeOK
<1> QED
  BY SetupTypeInit, SetupTypeKept, PTL DEF SetupSpec

-----------------------------------------------------------------------------
(* Where what the client wrote is.                                         *)

\* A file that was written does not go missing.
WrittenStays == file = Missing => latest = Missing

\* Before the first copy the file is untouched and nobody may touch it; after
\* the first the copy has it.
CopyHasIt ==
    ~exposed /\ latest \notin {Missing, Blank} =>
        /\ copies = 0 => /\ file = latest
                         /\ \A w \in Window : work[w].stage \in {"idle", "merged"}
        /\ copies = 1 => backup = latest

\* In calm weather the file has the client's settings, or is being written; and
\* so does every text that is yet to be written.
SettledStays ==
    calm /\ latest \in Settled =>
        /\ \A w \in Window : work[w].stage # "idle" => work[w].text.own = latest.own
        /\ \/ file \in Settled /\ file.own = latest.own
           \/ \E w \in Window : work[w].stage = "open"

WhereItIs == WrittenStays /\ CopyHasIt /\ SettledStays

\* At first the file is what was written last.
LEMMA WhereItIsInit == SetupInit => WhereItIs
BY DEF SetupInit, WhereItIs, WrittenStays, CopyHasIt, SettledStays, Idle

\* A click only reads, and reads the client's settings if nobody is writing.
LEMMA ClickKeeps ==
    ASSUME SetupTypeOK, WhereItIs, NEW w \in Window, NEW command \in Command,
           Click(w, command)
    PROVE  WhereItIs'
<1> DEFINE text == TextOf(file)
           next == IF text = Broken THEN Idle
                   ELSE IF Merged(text, command) = text THEN Idle
                   ELSE [stage |-> "merged", text |-> Merged(text, command)]
<1>1. /\ work' = [work EXCEPT ![w] = next] /\ work[w].stage = "idle"
      /\ calm' = (calm /\ \A v \in Window : work[v].stage # "open")
      /\ UNCHANGED <<file, backup, latest, copies, exposed>>
  BY DEF Click
<1>2. next.stage \in {"idle", "merged"}
  BY DEF Idle
<1>3. file \in Settled /\ next.stage # "idle" => next.text.own = file.own
  <2>1. CASE text # Broken
    BY <2>1, MergedType DEF SetupTypeOK, Idle
  <2>2. CASE text = Broken
    BY <2>2 DEF Idle
  <2> QED
    BY <2>1, <2>2
<1> HIDE DEF next
<1>4. \A v \in Window : work'[v] = IF v = w THEN next ELSE work[v]
  BY <1>1 DEF SetupTypeOK
<1>5. WrittenStays' /\ CopyHasIt'
  BY <1>1, <1>2, <1>4 DEF WhereItIs, WrittenStays, CopyHasIt
<1>6. SettledStays'
  BY <1>1, <1>3, <1>4 DEF WhereItIs, SettledStays
<1> QED
  BY <1>5, <1>6 DEF WhereItIs

\* A copy is of the file: the first one since a write is of what was written.
LEMMA BackUpKeeps ==
    ASSUME SetupTypeOK, WhereItIs, NEW w \in Window, BackUp(w)
    PROVE  WhereItIs'
<1>1. /\ work' = [work EXCEPT ![w].stage = "saved"] /\ work[w].stage = "merged"
      /\ \/ file = Missing /\ UNCHANGED <<backup, copies>>
         \/ backup' = file /\ copies' = copies + 1
      /\ UNCHANGED <<file, latest, exposed, calm>>
  BY DEF BackUp, CopyOf
<1>2. \A v \in Window : /\ work'[v].text = work[v].text
                        /\ work'[v].stage = IF v = w THEN "saved" ELSE work[v].stage
  BY <1>1 DEF SetupTypeOK
<1>3. WrittenStays' /\ SettledStays'
  BY <1>1, <1>2 DEF WhereItIs, WrittenStays, SettledStays
<1>4. CopyHasIt'
  <2>1. CASE file = Missing
    BY <1>1, <2>1 DEF WhereItIs, WrittenStays, CopyHasIt
  <2>2. CASE file # Missing
    BY <1>1, <2>2, SMTT(40) DEF WhereItIs, CopyHasIt, SetupTypeOK
  <2> QED
    BY <2>1, <2>2
<1> QED
  BY <1>3, <1>4 DEF WhereItIs

\* A file is emptied only after a copy was taken.
LEMMA TruncateKeeps ==
    ASSUME SetupTypeOK, WhereItIs, NEW w \in Window, Truncate(w)
    PROVE  WhereItIs'
<1>1. /\ file' = Blank /\ work' = [work EXCEPT ![w].stage = "open"]
      /\ work[w].stage = "saved"
      /\ UNCHANGED <<backup, latest, copies, exposed, calm>>
  BY DEF Truncate
<1>2. \A v \in Window : /\ work'[v].text = work[v].text
                        /\ work'[v].stage = IF v = w THEN "open" ELSE work[v].stage
  BY <1>1 DEF SetupTypeOK
<1>3. WrittenStays'
  BY <1>1, ContentTypes DEF WrittenStays
<1>4. CopyHasIt'
  BY <1>1, <1>2 DEF WhereItIs, CopyHasIt
<1>5. SettledStays'
  BY <1>1, <1>2 DEF WhereItIs, SettledStays
<1> QED
  BY <1>3, <1>4, <1>5 DEF WhereItIs

\* A window writes a text it read the client's settings into.
LEMMA WriteKeeps ==
    ASSUME SetupTypeOK, WhereItIs, NEW w \in Window, Write(w)
    PROVE  WhereItIs'
<1>1. /\ file' = work[w].text /\ work' = [work EXCEPT ![w] = Idle]
      /\ work[w].stage = "open" /\ file' \in Settled
      /\ UNCHANGED <<backup, latest, copies, exposed, calm>>
  BY DEF Write, SetupTypeOK
<1>2. \A v \in Window : work'[v] = IF v = w THEN Idle ELSE work[v]
  BY <1>1 DEF SetupTypeOK
<1>3. WrittenStays'
  BY <1>1, ContentTypes DEF WrittenStays
<1>4. CopyHasIt'
  BY <1>1, <1>2 DEF WhereItIs, CopyHasIt, Idle
<1>5. SettledStays'
  BY <1>1, <1>2 DEF WhereItIs, SettledStays, Idle
<1> QED
  BY <1>3, <1>4, <1>5 DEF WhereItIs

\* A window that gives up leaves the file, or is noticed.
LEMMA GiveUpKeeps ==
    ASSUME SetupTypeOK, WhereItIs, NEW w \in Window, GiveUp(w)
    PROVE  WhereItIs'
<1>1. /\ work' = [work EXCEPT ![w] = Idle]
      /\ file' = file \/ (file' = Broken /\ work[w].stage = "open")
      /\ calm' => calm /\ work[w].stage # "open"
      /\ UNCHANGED <<backup, latest, copies, exposed>>
  BY DEF GiveUp
<1>2. \A v \in Window : work'[v] = IF v = w THEN Idle ELSE work[v]
  BY <1>1 DEF SetupTypeOK
<1>3. WrittenStays'
  BY <1>1, ContentTypes DEF WhereItIs, WrittenStays
<1>4. CopyHasIt'
  BY <1>1, <1>2 DEF WhereItIs, CopyHasIt, Idle
<1>5. SettledStays'
  BY <1>1, <1>2 DEF WhereItIs, SettledStays, Idle
<1> QED
  BY <1>3, <1>4, <1>5 DEF WhereItIs

\* What the client writes is what there is to lose from then on.
LEMMA SaveKeeps ==
    ASSUME SetupTypeOK, WhereItIs, NEW f \in Contents \ {Missing}, Save(f)
    PROVE  WhereItIs'
<1>1. /\ file' = f /\ latest' = f /\ copies' = 0 /\ work' = work
      /\ exposed' = (\E w \in Window : work[w].stage \in {"saved", "open"})
      /\ calm' = (\A w \in Window : work[w].stage = "idle")
  BY DEF Save
<1>2. ~exposed' => \A w \in Window : work[w].stage \in {"idle", "merged"}
  BY <1>1 DEF SetupTypeOK
<1>3. WrittenStays'
  BY <1>1 DEF WrittenStays
<1>4. CopyHasIt'
  BY <1>1, <1>2 DEF CopyHasIt
<1>5. SettledStays'
  BY <1>1 DEF SettledStays
<1> QED
  BY <1>3, <1>4, <1>5 DEF WhereItIs

\* Every step keeps track of where the client's settings are.
LEMMA WhereItIsKept ==
    SetupTypeOK /\ WhereItIs /\ [SetupNext]_setupvars => WhereItIs'
<1>1. SetupTypeOK /\ WhereItIs /\ UNCHANGED setupvars => WhereItIs'
  BY DEF setupvars, WhereItIs, WrittenStays, CopyHasIt, SettledStays
<1> QED
  BY <1>1, ClickKeeps, BackUpKeeps, TruncateKeeps, WriteKeeps, GiveUpKeeps, SaveKeeps
     DEF SetupNext

\* Where they are, they are kept.
LEMMA WhereItIsPreserves == SetupTypeOK /\ WhereItIs => NothingLost
<1> SUFFICES ASSUME SetupTypeOK, WhereItIs PROVE NothingLost
  OBVIOUS
<1>1. ASSUME copies <= 1, ~exposed
      PROVE  Preserves(file, latest) \/ Preserves(backup, latest)
  <2>1. copies = 0 \/ copies = 1
    BY <1>1 DEF SetupTypeOK
  <2>2. CASE latest \in {Missing, Blank}
    BY <2>2 DEF Preserves
  <2>3. CASE latest \notin {Missing, Blank}
    BY <1>1, <2>1, <2>3 DEF WhereItIs, CopyHasIt, Preserves
  <2> QED
    BY <2>2, <2>3
<1>2. ASSUME calm, latest \in Settled
      PROVE  \/ Preserves(file, latest)
             \/ \E w \in Window : work[w].stage = "open" /\ Preserves(work[w].text, latest)
  BY <1>2 DEF WhereItIs, SettledStays, Preserves, SetupTypeOK
<1> QED
  BY <1>1, <1>2 DEF NothingLost

\* A client's own settings are in its file or in the copy beside it, through
\* crashes, half writes and merges side by side, under the conditions named.
THEOREM SettingsAreKept == SetupSpec => []NothingLost
<1>1. SetupInit => SetupTypeOK /\ WhereItIs
  BY SetupTypeInit, WhereItIsInit
<1>2. SetupTypeOK /\ WhereItIs /\ [SetupNext]_setupvars => (SetupTypeOK /\ WhereItIs)'
  BY SetupTypeKept, WhereItIsKept
<1>3. SetupTypeOK /\ WhereItIs => NothingLost
  BY WhereItIsPreserves
<1> QED
  BY <1>1, <1>2, <1>3, PTL DEF SetupSpec

=============================================================================
