---------------------------- MODULE LicencesProofs ----------------------------
(***************************************************************************)
(* What Licences guarantees for every set of paragraphs, machines, names,  *)
(* terms and dates, however long it goes on: verification succeeds for     *)
(* those who hold a licence and for nobody else.                           *)
(*                                                                         *)
(* The inductive invariant, LicenceInv, says that a licence was signed     *)
(* over what the code signs, and that untouched it is the paragraph as it  *)
(* was written, with white space after it or none.  The lemmas say that    *)
(* the loops of the calendar find the day whose number the Gregorian rule  *)
(* gives, that dates compare as texts as they do as times, and what is     *)
(* seen of, trimmed from, stripped off and read out of such a paragraph.   *)
(***************************************************************************)
EXTENDS MarkedDocumentProofs, Licences

-----------------------------------------------------------------------------
(* The calendar.                                                           *)

\* The first day of a month, the thirteenth being the next year's first.
FirstDay(y, m) == IF m = 13 THEN DayNumber(y + 1, 1, 1) ELSE DayNumber(y, m, 1)

\* Day numbers are whole, and count on within a month.
LEMMA DayNumbers ==
    ASSUME NEW y \in Nat, NEW m \in 1..12, NEW d \in Int
    PROVE  /\ DayNumber(y, m, d) \in Int
           /\ DayNumber(y, m, d) = DayNumber(y, m, 1) + d - 1
PROOF
  <1>1. CASE m <= 2
    BY <1>1 DEF DayNumber
  <1>2. CASE ~(m <= 2)
    BY <1>2 DEF DayNumber
  <1> QED
    BY <1>1, <1>2

\* A month has the days the table gives it.
LEMMA MonthsCount ==
    ASSUME NEW y \in Nat, NEW m \in 1..12
    PROVE  /\ MonthDays(y)[m] \in 28..31
           /\ FirstDay(y, m) \in Int /\ FirstDay(y, m + 1) \in Int
           /\ FirstDay(y, m + 1) = FirstDay(y, m) + MonthDays(y)[m]
PROOF
  <1>1. FirstDay(y, m) \in Int /\ FirstDay(y, m + 1) \in Int
    <2>0. 1 \in Int
      OBVIOUS
    <2>1. DayNumber(y, m, 1) \in Int
      BY <2>0, DayNumbers, Zenon
    <2>2. CASE m = 12
      <3>1. y + 1 \in Nat /\ 1 \in 1..12
        OBVIOUS
      <3>2. DayNumber(y + 1, 1, 1) \in Int
        BY <3>1, DayNumbers
      <3> QED
        BY <2>1, <2>2, <3>2 DEF FirstDay
    <2>3. CASE m # 12
      <3>1. m + 1 \in 1..12 /\ m + 1 # 13 /\ m # 13
        BY <2>3
      <3>2. DayNumber(y, m + 1, 1) \in Int
        BY <2>0, <3>1, DayNumbers, Zenon
      <3> QED
        BY <2>1, <3>1, <3>2 DEF FirstDay
    <2> QED
      BY <2>2, <2>3
  <1>2. m \in {1, 2, 3, 4, 5, 6, 7, 8, 9, 10, 11, 12}
    OBVIOUS
  <1> QED
    BY <1>1, <1>2 DEF FirstDay, DayNumber, MonthDays, Leap

\* A year has the days of its twelve months.
LEMMA YearsCount ==
    ASSUME NEW y \in Nat
    PROVE  /\ YearDays(y) \in 365..366
           /\ DayNumber(y, 1, 1) \in Int
           /\ DayNumber(y + 1, 1, 1) = DayNumber(y, 1, 1) + YearDays(y)
PROOF
  <1>1. DayNumber(y, 1, 1) \in Int
    BY DayNumbers
  <1> QED
    BY <1>1 DEF DayNumber, YearDays, Leap

\* Taking lengths off one after the other, as long as the next is there in full,
\* and not beyond where it stops.
Carried(f, L, stop, at) ==
    IF at[1] \in stop \/ at[2] < L[at[1]] THEN at ELSE f[<<at[1] + 1, at[2] - L[at[1]]>>]

Solves(f, K, L, stop) == f = [at \in K \X Nat |-> Carried(f, L, stop, at)]

\* Where the length that holds s lies, of those from k, which begin where F says.
Halts(K, L, F, stop, k, s) ==
    {j \in K : /\ j >= k
               /\ j \in stop \/ s < F[j] + L[j]
               /\ \A i \in K : k <= i /\ i < j => i \notin stop /\ F[i] + L[i] <= s}
Halt(K, L, F, stop, k, s) == CHOOSE j : j \in Halts(K, L, F, stop, k, s)
Left0(K, L, F, stop, k, s) ==
    <<Halt(K, L, F, stop, k, s), s - F[Halt(K, L, F, stop, k, s)]>>
Table(K, L, F, stop) ==
    [at \in K \X Nat |-> Left0(K, L, F, stop, at[1], F[at[1]] + at[2])]

\* Lengths of at least one, each beginning where the one before it ends.
Chained(K, L, F, stop) ==
    /\ K \in SUBSET Nat
    /\ \A k \in K : F[k] \in Int /\ L[k] \in Nat /\ L[k] >= 1
    /\ \A k \in K \ stop : k + 1 \in K /\ F[k + 1] = F[k] + L[k]

\* From a length that is there in full the next is looked at.
LEMMA HaltsNext ==
    ASSUME NEW K, NEW L, NEW F, NEW stop, Chained(K, L, F, stop),
           NEW k \in K, NEW s \in Int, k \notin stop, F[k] + L[k] <= s
    PROVE  Halts(K, L, F, stop, k + 1, s) = Halts(K, L, F, stop, k, s)
PROOF
  <1>1. /\ K \in SUBSET Nat /\ k \in Nat /\ k + 1 \in K
        /\ \A i \in K : i \in Nat /\ F[i] \in Int /\ L[i] \in Nat
    BY DEF Chained
  <1>2. ASSUME NEW j \in Halts(K, L, F, stop, k, s)
        PROVE  j \in Halts(K, L, F, stop, k + 1, s)
    <2>1. j \in K /\ j >= k /\ (j \in stop \/ s < F[j] + L[j])
          /\ \A i \in K : k <= i /\ i < j => i \notin stop /\ F[i] + L[i] <= s
      BY DEF Halts
    <2>2. j # k
      BY <1>1, <2>1
    <2>3. j >= k + 1 /\ \A i \in K : k + 1 <= i => k <= i
      BY <1>1, <2>1, <2>2
    <2> QED
      BY <2>1, <2>3 DEF Halts
  <1>3. ASSUME NEW j \in Halts(K, L, F, stop, k + 1, s)
        PROVE  j \in Halts(K, L, F, stop, k, s)
    <2>1. j \in K /\ j >= k + 1 /\ (j \in stop \/ s < F[j] + L[j])
          /\ \A i \in K : k + 1 <= i /\ i < j => i \notin stop /\ F[i] + L[i] <= s
      BY DEF Halts
    <2>2. j >= k /\ \A i \in K : k <= i => i = k \/ k + 1 <= i
      BY <1>1, <2>1
    <2>3. \A i \in K : k <= i /\ i < j => i \notin stop /\ F[i] + L[i] <= s
      BY <2>1, <2>2
    <2> QED
      BY <2>1, <2>2, <2>3 DEF Halts
  <1> QED
    BY <1>2, <1>3

\* The table is a solution of the recursion.
LEMMA TableCarries ==
    ASSUME NEW K, NEW L, NEW F, NEW stop, Chained(K, L, F, stop)
    PROVE  Solves(Table(K, L, F, stop), K, L, stop)
PROOF
  <1> DEFINE g == Table(K, L, F, stop)
  <1>1. ASSUME NEW k \in K, NEW n \in Nat
        PROVE  g[<<k, n>>] = Left0(K, L, F, stop, k, F[k] + n)
    BY DEF Table
  <1>2. ASSUME NEW k \in K, NEW n \in Nat
        PROVE  g[<<k, n>>] = Carried(g, L, stop, <<k, n>>)
    <2> HIDE DEF g
    <2>1. /\ k \in Nat /\ F[k] \in Int /\ L[k] \in Nat /\ L[k] >= 1 /\ K \in SUBSET Nat
          /\ F[k] + n \in Int
      BY DEF Chained
    <2>2. CASE k \in stop \/ n < L[k]
      <3> DEFINE H == Halts(K, L, F, stop, k, F[k] + n)
      <3>1. H = {k}
        <4>1. k \in H
          BY <2>1, <2>2 DEF Halts
        <4>2. ASSUME NEW j \in H PROVE j = k
          <5>1. j \in Nat /\ j >= k /\ (k < j => k \notin stop /\ F[k] + L[k] <= F[k] + n)
            BY <2>1 DEF Halts
          <5> QED
            BY <2>1, <2>2, <5>1
        <4> HIDE DEF H
        <4> QED
          BY <4>1, <4>2
      <3>2. Halt(K, L, F, stop, k, F[k] + n) = k
        BY <3>1 DEF Halt
      <3>3. (F[k] + n) - F[k] = n
        BY <2>1
      <3>4. g[<<k, n>>] = <<k, n>>
        <4>1. Left0(K, L, F, stop, k, F[k] + n) = <<k, (F[k] + n) - F[k]>>
          BY <3>2, Zenon DEF Left0
        <4> QED
          BY <1>1, <3>3, <4>1
      <3> QED
        BY <2>2, <3>4 DEF Carried
    <2>3. CASE ~(k \in stop \/ n < L[k])
      <3>1. k + 1 \in K /\ F[k + 1] = F[k] + L[k] /\ n - L[k] \in Nat
        BY <2>1, <2>3 DEF Chained
      <3>2. F[k + 1] + (n - L[k]) = F[k] + n /\ F[k] + L[k] <= F[k] + n
        BY <2>1, <2>3, <3>1
      <3>3. Halts(K, L, F, stop, k + 1, F[k] + n) = Halts(K, L, F, stop, k, F[k] + n)
        BY <2>1, <2>3, <3>2, HaltsNext
      <3>4. Left0(K, L, F, stop, k + 1, F[k] + n) = Left0(K, L, F, stop, k, F[k] + n)
        BY <3>3 DEF Left0, Halt
      <3>5. g[<<k + 1, n - L[k]>>] = Left0(K, L, F, stop, k + 1, F[k + 1] + (n - L[k]))
        BY <1>1, <3>1
      <3>6. g[<<k + 1, n - L[k]>>] = g[<<k, n>>]
        BY <1>1, <3>2, <3>4, <3>5
      <3> QED
        BY <2>3, <3>6 DEF Carried
    <2> QED
      BY <2>2, <2>3
  <1>3. g = [at \in K \X Nat |-> g[at]]
    BY DEF Table
  <1>4. \A at \in K \X Nat : g[at] = Carried(g, L, stop, at)
    <2> HIDE DEF g
    <2> SUFFICES ASSUME NEW at \in K \X Nat PROVE g[at] = Carried(g, L, stop, at)
      OBVIOUS
    <2>1. PICK k \in K, n \in Nat : at = <<k, n>>
      OBVIOUS
    <2> QED
      BY <1>2, <2>1
  <1> HIDE DEF g
  <1>5. g = [at \in K \X Nat |-> Carried(g, L, stop, at)]
    BY <1>3, <1>4
  <1> QED
    BY <1>5 DEF g, Solves

\* Whatever solves the recursion finds the length that holds what is carried.
Found(f, K, L, F, stop, k, n) ==
    \E j \in K : /\ f[<<k, n>>] = <<j, (F[k] + n) - F[j]>>
                 /\ j >= k /\ F[j] <= F[k] + n
                 /\ j \in stop \/ F[k] + n < F[j] + L[j]

LEMMA CarryingFinds ==
    ASSUME NEW K, NEW L, NEW F, NEW stop, Chained(K, L, F, stop),
           NEW f, Solves(f, K, L, stop), NEW k \in K, NEW n \in Nat
    PROVE  Found(f, K, L, F, stop, k, n)
PROOF
  <1> DEFINE bad == {m \in Nat : \E h \in K : ~Found(f, K, L, F, stop, h, m)}
  <1>1. ASSUME NEW at \in K \X Nat PROVE f[at] = Carried(f, L, stop, at)
    <2> DEFINE c(x) == Carried(f, L, stop, x)
    <2> HIDE DEF c
    <2>1. f = [x \in K \X Nat |-> c(x)]
      BY DEF c, Solves
    <2>2. f[at] = c(at)
      BY <2>1
    <2> QED
      BY <2>2 DEF c
  <1>2. bad = {}
    <2> SUFFICES ASSUME bad # {} PROVE FALSE
      OBVIOUS
    <2>1. PICK m \in bad : \A x \in bad : m <= x
      <3>1. bad \in SUBSET Nat
        OBVIOUS
      <3> HIDE DEF bad
      <3> QED
        BY <3>1, Least
    <2>2. PICK h \in K : m \in Nat /\ ~Found(f, K, L, F, stop, h, m)
      BY <2>1
    <2>3. /\ h \in Nat /\ F[h] \in Int /\ L[h] \in Nat /\ L[h] >= 1
          /\ \A j \in K : j \in Nat /\ F[j] \in Int /\ L[j] \in Nat
      BY DEF Chained
    <2>4. f[<<h, m>>] = Carried(f, L, stop, <<h, m>>)
      BY <1>1, <2>2
    <2>5. CASE h \in stop \/ m < L[h]
      <3>1. f[<<h, m>>] = <<h, m>>
        BY <2>4, <2>5 DEF Carried
      <3>2. (F[h] + m) - F[h] = m /\ h >= h /\ F[h] <= F[h] + m
        BY <2>2, <2>3
      <3>3. h \in stop \/ F[h] + m < F[h] + L[h]
        BY <2>2, <2>3, <2>5
      <3> QED
        BY <2>2, <3>1, <3>2, <3>3 DEF Found
    <2>6. CASE ~(h \in stop \/ m < L[h])
      <3> DEFINE r == m - L[h]
      <3>1. h + 1 \in K /\ F[h + 1] = F[h] + L[h] /\ r \in Nat /\ r < m
        BY <2>2, <2>3, <2>6 DEF Chained
      <3>2. f[<<h, m>>] = f[<<h + 1, r>>]
        BY <2>4, <2>6 DEF Carried
      <3>3. F[h + 1] + r = F[h] + m
        BY <2>2, <2>3, <3>1
      <3> HIDE DEF r
      <3>4. r \notin bad
        <4> HIDE DEF bad
        <4> QED
          BY <2>1, <2>2, <3>1
      <3>5. Found(f, K, L, F, stop, h + 1, r)
        BY <3>1, <3>4
      <3>6. PICK j \in K : /\ f[<<h + 1, r>>] = <<j, (F[h] + m) - F[j]>>
                           /\ j >= h + 1 /\ F[j] <= F[h] + m
                           /\ j \in stop \/ F[h] + m < F[j] + L[j]
        <4> DEFINE x == F[h + 1] + r
                   z == F[h] + m
        <4>1. PICK j \in K : /\ f[<<h + 1, r>>] = <<j, x - F[j]>>
                             /\ j >= h + 1 /\ F[j] <= x /\ (j \in stop \/ x < F[j] + L[j])
          BY <3>5 DEF Found
        <4>2. x = z
          BY <3>3
        <4> HIDE DEF x, z
        <4>3. /\ f[<<h + 1, r>>] = <<j, z - F[j]>>
              /\ j >= h + 1 /\ F[j] <= z /\ (j \in stop \/ z < F[j] + L[j])
          BY <4>1, <4>2
        <4> QED
          BY <4>3 DEF z
      <3>7. j >= h
        BY <2>3, <3>6
      <3>8. f[<<h, m>>] = <<j, (F[h] + m) - F[j]>>
        BY <3>2, <3>6
      <3> QED
        BY <2>2, <3>6, <3>7, <3>8 DEF Found
    <2> QED
      BY <2>5, <2>6
  <1>3. n \notin bad
    <2> HIDE DEF bad
    <2> QED
      BY <1>2
  <1> QED
    BY <1>3

\* The recursions of days_to_ymd.
CivilYears ==
    CHOOSE f : f = [at \in Nat \X Nat |->
        IF at[2] < YearDays(at[1]) THEN at ELSE f[<<at[1] + 1, at[2] - YearDays(at[1])>>]]
CivilMonths(y) ==
    CHOOSE f : f = [at \in (1..13) \X Nat |->
        IF at[1] = 13 \/ at[2] < MonthDays(y)[at[1]] THEN at
        ELSE f[<<at[1] + 1, at[2] - MonthDays(y)[at[1]]>>]]

LEMMA CivilParts ==
    ASSUME NEW n
    PROVE  LET year == CivilYears[<<1970, n>>]
               month == CivilMonths(year[1])[<<1, year[2]>>]
           IN  Civil(n) = <<year[1], month[1], month[2] + 1>>
PROOF
  BY DEF Civil, CivilYears, CivilMonths

\* The years' recursion.
LEMMA YearsFind ==
    ASSUME NEW n \in Nat
    PROVE  \E y \in Nat : /\ CivilYears[<<1970, n>>] = <<y, n - DayNumber(y, 1, 1)>>
                          /\ DayNumber(y, 1, 1) <= n
                          /\ n < DayNumber(y + 1, 1, 1)
PROOF
  <1> DEFINE L == [y \in Nat |-> YearDays(y)]
             F == [y \in Nat |-> DayNumber(y, 1, 1)]
             none == {}
  <1>1. \A y \in Nat : /\ L[y] = YearDays(y) /\ F[y] = DayNumber(y, 1, 1)
                       /\ F[y] \in Int /\ L[y] \in Nat /\ L[y] >= 1 /\ F[y + 1] = F[y] + L[y]
                       /\ y + 1 \in Nat
    BY YearsCount
  <1>a. \A x : x \notin none
    OBVIOUS
  <1> HIDE DEF L, F, none
  <1>2. Chained(Nat, L, F, none)
    BY <1>1 DEF Chained
  <1>3. \A f : Solves(f, Nat, L, none) <=>
            f = [at \in Nat \X Nat |->
                    IF at[2] < YearDays(at[1]) THEN at ELSE f[<<at[1] + 1, at[2] - YearDays(at[1])>>]]
    <2> SUFFICES ASSUME NEW f
                 PROVE  [at \in Nat \X Nat |-> Carried(f, L, none, at)] =
                        [at \in Nat \X Nat |->
                            IF at[2] < YearDays(at[1]) THEN at
                            ELSE f[<<at[1] + 1, at[2] - YearDays(at[1])>>]]
      BY DEF Solves
    <2> SUFFICES ASSUME NEW at \in Nat \X Nat
                 PROVE  Carried(f, L, none, at) =
            IF at[2] < YearDays(at[1]) THEN at ELSE f[<<at[1] + 1, at[2] - YearDays(at[1])>>]
      OBVIOUS
    <2>1. L[at[1]] = YearDays(at[1]) /\ at[1] \notin none
      BY <1>1, <1>a
    <2> QED
      BY <2>1 DEF Carried
  <1>5. Solves(CivilYears, Nat, L, none)
    <2>1. Solves(Table(Nat, L, F, none), Nat, L, none)
      BY <1>2, TableCarries
    <2>2. \E f : f = [at \in Nat \X Nat |->
                  IF at[2] < YearDays(at[1]) THEN at ELSE f[<<at[1] + 1, at[2] - YearDays(at[1])>>]]
      BY <1>3, <2>1
    <2>3. CivilYears = [at \in Nat \X Nat |->
                  IF at[2] < YearDays(at[1]) THEN at
                  ELSE CivilYears[<<at[1] + 1, at[2] - YearDays(at[1])>>]]
      BY <2>2 DEF CivilYears
    <2> HIDE DEF CivilYears
    <2> QED
      BY <1>3, <2>3
  <1>6. 1970 \in Nat
    OBVIOUS
  <1>7. Found(CivilYears, Nat, L, F, none, 1970, n)
    BY <1>2, <1>5, <1>6, CarryingFinds
  <1>8. F[1970] = 0
    BY <1>1 DEF DayNumber
  <1>9. F[1970] + n = n
    BY <1>8
  <1>10. PICK y \in Nat : /\ CivilYears[<<1970, n>>] = <<y, n - F[y]>>
                          /\ F[y] <= n /\ n < F[y] + L[y]
    <2> DEFINE x == F[1970] + n
    <2>1. \E y \in Nat : /\ CivilYears[<<1970, n>>] = <<y, x - F[y]>>
                         /\ F[y] <= x /\ x < F[y] + L[y]
      BY <1>7, <1>a DEF Found
    <2>2. x = n
      BY <1>9
    <2> HIDE DEF x
    <2> QED
      BY <2>1, <2>2
  <1> QED
    BY <1>1, <1>10

\* The months' recursion, in a year.
LEMMA MonthsFind ==
    ASSUME NEW y \in Nat, NEW n \in Nat, n < YearDays(y)
    PROVE  \E m \in 1..12 : \E d \in Nat :
                /\ CivilMonths(y)[<<1, n>>] = <<m, d>>
                /\ d < MonthDays(y)[m]
                /\ DayNumber(y, m, 1) + d = DayNumber(y, 1, 1) + n
PROOF
  <1> DEFINE K == 1..13
             L == [m \in K |-> IF m = 13 THEN 1 ELSE MonthDays(y)[m]]
             F == [m \in K |-> FirstDay(y, m)]
  <1>1. \A m \in K : /\ F[m] = FirstDay(y, m) /\ F[m] \in Int /\ L[m] \in Nat /\ L[m] >= 1
                     /\ m # 13 => L[m] = MonthDays(y)[m]
    <2> SUFFICES ASSUME NEW m \in K
                 PROVE  /\ F[m] = FirstDay(y, m) /\ F[m] \in Int /\ L[m] \in Nat /\ L[m] >= 1
                        /\ m # 13 => L[m] = MonthDays(y)[m]
      OBVIOUS
    <2>1. CASE m = 13
      <3>1. y + 1 \in Nat
        OBVIOUS
      <3>2. DayNumber(y + 1, 1, 1) \in Int
        BY <3>1, YearsCount
      <3> QED
        BY <2>1, <3>2 DEF FirstDay
    <2>2. CASE m # 13
      <3>1. m \in 1..12
        BY <2>2
      <3>2. /\ MonthDays(y)[m] \in Nat /\ MonthDays(y)[m] >= 1 /\ FirstDay(y, m) \in Int
        <4>1. MonthDays(y)[m] \in 28..31 /\ FirstDay(y, m) \in Int
          BY <3>1, MonthsCount
        <4> QED
          BY <4>1
      <3> QED
        BY <2>2, <3>2
    <2> QED
      BY <2>1, <2>2
  <1>2. \A m \in K \ {13} : m + 1 \in K /\ F[m + 1] = F[m] + L[m]
    <2> SUFFICES ASSUME NEW m \in K \ {13} PROVE m + 1 \in K /\ F[m + 1] = F[m] + L[m]
      OBVIOUS
    <2>1. m \in 1..12 /\ m + 1 \in K
      OBVIOUS
    <2> HIDE DEF L, F, K
    <2> QED
      BY <1>1, <2>1, MonthsCount
  <1> HIDE DEF L, F
  <1>3. Chained(K, L, F, {13})
    BY <1>1, <1>2 DEF Chained
  <1>4. \A f : Solves(f, K, L, {13}) <=>
            f = [at \in K \X Nat |->
                    IF at[1] = 13 \/ at[2] < MonthDays(y)[at[1]] THEN at
                    ELSE f[<<at[1] + 1, at[2] - MonthDays(y)[at[1]]>>]]
    <2> SUFFICES ASSUME NEW f
                 PROVE  [at \in K \X Nat |-> Carried(f, L, {13}, at)] =
                        [at \in K \X Nat |->
                            IF at[1] = 13 \/ at[2] < MonthDays(y)[at[1]] THEN at
                            ELSE f[<<at[1] + 1, at[2] - MonthDays(y)[at[1]]>>]]
      BY DEF Solves
    <2> SUFFICES ASSUME NEW at \in K \X Nat
                 PROVE  Carried(f, L, {13}, at) =
            IF at[1] = 13 \/ at[2] < MonthDays(y)[at[1]] THEN at
            ELSE f[<<at[1] + 1, at[2] - MonthDays(y)[at[1]]>>]
      OBVIOUS
    <2>1. at[1] # 13 => L[at[1]] = MonthDays(y)[at[1]]
      BY <1>1
    <2> QED
      BY <2>1 DEF Carried
  <1> DEFINE M == CivilMonths(y)
  <1>6. Solves(M, K, L, {13})
    <2>1. Solves(Table(K, L, F, {13}), K, L, {13})
      BY <1>3, TableCarries
    <2>2. \E f : f = [at \in K \X Nat |->
                  IF at[1] = 13 \/ at[2] < MonthDays(y)[at[1]] THEN at
                  ELSE f[<<at[1] + 1, at[2] - MonthDays(y)[at[1]]>>]]
      BY <1>4, <2>1
    <2>3. M = [at \in K \X Nat |->
                  IF at[1] = 13 \/ at[2] < MonthDays(y)[at[1]] THEN at
                  ELSE M[<<at[1] + 1, at[2] - MonthDays(y)[at[1]]>>]]
      BY <2>2 DEF CivilMonths
    <2> HIDE DEF M
    <2> QED
      BY <1>4, <2>3
  <1>7. 1 \in K
    OBVIOUS
  <1>8. Found(M, K, L, F, {13}, 1, n)
    <2> HIDE DEF K, M
    <2> QED
      BY <1>3, <1>6, <1>7, CarryingFinds
  <1>9. PICK m \in K : /\ M[<<1, n>>] = <<m, (F[1] + n) - F[m]>>
                       /\ F[m] <= F[1] + n
                       /\ m \in {13} \/ F[1] + n < F[m] + L[m]
    BY <1>8 DEF Found
  <1>10. F[1] = DayNumber(y, 1, 1) /\ F[13] = DayNumber(y + 1, 1, 1)
         /\ DayNumber(y + 1, 1, 1) = DayNumber(y, 1, 1) + YearDays(y)
         /\ DayNumber(y, 1, 1) \in Int /\ YearDays(y) \in Int
    BY <1>1, YearsCount DEF FirstDay
  <1>11. m # 13
    BY <1>9, <1>10
  <1>12. m \in 1..12 /\ F[m] = DayNumber(y, m, 1) /\ F[m] \in Int /\ L[m] = MonthDays(y)[m]
    BY <1>1, <1>11 DEF FirstDay
  <1> DEFINE d == (F[1] + n) - F[m]
  <1>13. d \in Nat /\ d < MonthDays(y)[m] /\ DayNumber(y, m, 1) + d = DayNumber(y, 1, 1) + n
    BY <1>1, <1>9, <1>10, <1>11, <1>12
  <1> QED
    BY <1>9, <1>12, <1>13

\* The date days_to_ymd makes of a day is a date of the calendar, and that day's.
LEMMA CivilDate ==
    ASSUME NEW n \in Nat
    PROVE  \E y \in Nat, m \in 1..12 : \E d \in 1..MonthDays(y)[m] :
                Civil(n) = <<y, m, d>> /\ DayNumber(y, m, d) = n
PROOF
  <1>1. PICK y \in Nat : /\ CivilYears[<<1970, n>>] = <<y, n - DayNumber(y, 1, 1)>>
                         /\ DayNumber(y, 1, 1) <= n
                         /\ n < DayNumber(y + 1, 1, 1)
    BY YearsFind
  <1> DEFINE r == n - DayNumber(y, 1, 1)
  <1>2. r \in Nat /\ r < YearDays(y) /\ DayNumber(y, 1, 1) + r = n
    BY <1>1, YearsCount
  <1>3. CivilYears[<<1970, n>>] = <<y, r>>
    BY <1>1
  <1> HIDE DEF r
  <1>4. PICK m \in 1..12 : \E d \in Nat :
                /\ CivilMonths(y)[<<1, r>>] = <<m, d>>
                /\ d < MonthDays(y)[m]
                /\ DayNumber(y, m, 1) + d = DayNumber(y, 1, 1) + r
    BY <1>2, MonthsFind
  <1>5. PICK d \in Nat :
                /\ CivilMonths(y)[<<1, r>>] = <<m, d>>
                /\ d < MonthDays(y)[m]
                /\ DayNumber(y, m, 1) + d = n
    BY <1>2, <1>4
  <1>6. Civil(n) = <<y, m, d + 1>>
    BY <1>3, <1>5, CivilParts
  <1>7. d + 1 \in 1..MonthDays(y)[m] /\ d + 1 \in Int
    <2>1. MonthDays(y)[m] \in Int
      BY MonthsCount
    <2> QED
      BY <1>5, <2>1
  <1>8. DayNumber(y, m, d + 1) = n
    <2>1. DayNumber(y, m, d + 1) = DayNumber(y, m, 1) + (d + 1) - 1
      BY <1>7, DayNumbers
    <2>2. DayNumber(y, m, 1) \in Int
      <3>1. 1 \in Int
        OBVIOUS
      <3> QED
        BY <3>1, DayNumbers, Zenon
    <2> QED
      BY <1>5, <2>1, <2>2
  <1> QED
    BY <1>6, <1>7, <1>8

\* Years and months in their order begin one after the other.
LEMMA YearsInOrder ==
    ASSUME NEW x \in Nat, NEW y \in Nat, x < y
    PROVE  DayNumber(x + 1, 1, 1) <= DayNumber(y, 1, 1)
PROOF
  <1> DEFINE e == y - 1 - x
  <1>1. x \in Int /\ e \in Nat /\ y - 1 = x + e
    OBVIOUS
  <1> HIDE DEF e
  <1>2. /\ (x \div 4) <= ((x + e) \div 4) /\ (x \div 400) <= ((x + e) \div 400)
        /\ ((x + e) \div 100) <= (x \div 100) + e
    BY <1>1
  <1>3. DayNumber(x + 1, 1, 1) = 365 * x + (x \div 4) - (x \div 100) + (x \div 400) + 306 + 1 - 719469
    BY <1>1 DEF DayNumber
  <1>4. DayNumber(y, 1, 1) = 365 * (x + e) + ((x + e) \div 4) - ((x + e) \div 100)
                             + ((x + e) \div 400) + 306 + 1 - 719469
    BY <1>1 DEF DayNumber
  <1> QED
    BY <1>1, <1>2, <1>3, <1>4

LEMMA MonthsInOrder ==
    ASSUME NEW y \in Nat, NEW m \in 1..12, NEW k \in 1..12, m < k
    PROVE  DayNumber(y, m, 1) + MonthDays(y)[m] <= DayNumber(y, k, 1)
PROOF
  <1>1. m \in {1, 2, 3, 4, 5, 6, 7, 8, 9, 10, 11} /\ k \in {2, 3, 4, 5, 6, 7, 8, 9, 10, 11, 12}
    OBVIOUS
  <1> QED
    BY <1>1 DEF DayNumber, MonthDays, Leap

\* One before another, and the number of one.
Earlier(s, t) ==
    \/ s[1] < t[1]
    \/ s[1] = t[1] /\ (s[2] < t[2] \/ (s[2] = t[2] /\ s[3] < t[3]))
NumberOf(t) == DayNumber(t[1], t[2], t[3])

\* A day is in its month, and its month in its year.
LEMMA InItsMonth ==
    ASSUME NEW t, IsDay(t)
    PROVE  /\ NumberOf(t) \in Int /\ DayNumber(t[1], t[2], 1) \in Int
           /\ NumberOf(t) = DayNumber(t[1], t[2], 1) + t[3] - 1
           /\ MonthDays(t[1])[t[2]] \in 28..31
           /\ DayNumber(t[1], t[2], 1) <= NumberOf(t)
           /\ NumberOf(t) < DayNumber(t[1], t[2], 1) + MonthDays(t[1])[t[2]]
           /\ DayNumber(t[1], 1, 1) <= DayNumber(t[1], t[2], 1)
           /\ DayNumber(t[1], t[2], 1) + MonthDays(t[1])[t[2]] <= DayNumber(t[1] + 1, 1, 1)
PROOF
  <1> DEFINE y == t[1]
             m == t[2]
             d == t[3]
  <1>1. y \in Nat /\ m \in 1..12 /\ d \in 1..MonthDays(y)[m] /\ 1 \in Int /\ 1 \in 1..12
        /\ 12 \in 1..12
    BY DEF IsDay
  <1> HIDE DEF y, m, d
  <1>2. MonthDays(y)[m] \in 28..31
    BY <1>1, MonthsCount
  <1>3. d \in Int /\ 1 <= d /\ d <= MonthDays(y)[m]
    BY <1>1, <1>2
  <1>4. DayNumber(y, m, d) \in Int /\ DayNumber(y, m, d) = DayNumber(y, m, 1) + d - 1
    BY <1>1, <1>3, DayNumbers
  <1>5. DayNumber(y, m, 1) \in Int /\ DayNumber(y, 1, 1) \in Int
    BY <1>1, DayNumbers, Zenon
  <1>6. DayNumber(y, 1, 1) <= DayNumber(y, m, 1)
    <2>1. CASE m = 1
      BY <1>5, <2>1
    <2>2. CASE m # 1
      <3>1. 1 < m
        BY <1>1, <2>2
      <3>2. DayNumber(y, 1, 1) + MonthDays(y)[1] <= DayNumber(y, m, 1)
        BY <1>1, <3>1, MonthsInOrder
      <3>3. MonthDays(y)[1] \in 28..31
        BY <1>1, MonthsCount
      <3> QED
        BY <1>5, <3>2, <3>3
    <2> QED
      BY <2>1, <2>2
  <1>7. DayNumber(y, m, 1) + MonthDays(y)[m] <= DayNumber(y + 1, 1, 1)
    <2>1. DayNumber(y, 12, 1) + MonthDays(y)[12] = DayNumber(y + 1, 1, 1)
          /\ DayNumber(y, 12, 1) \in Int /\ MonthDays(y)[12] \in 28..31
      <3>1. /\ MonthDays(y)[12] \in 28..31
            /\ FirstDay(y, 12) \in Int
            /\ FirstDay(y, 12 + 1) = FirstDay(y, 12) + MonthDays(y)[12]
        BY <1>1, MonthsCount
      <3>2. 12 + 1 = 13 /\ 12 # 13
        OBVIOUS
      <3> QED
        BY <3>1, <3>2 DEF FirstDay
    <2>2. CASE m = 12
      BY <2>1, <2>2
    <2>3. CASE m # 12
      <3>1. m < 12
        BY <1>1, <2>3
      <3>2. DayNumber(y, m, 1) + MonthDays(y)[m] <= DayNumber(y, 12, 1)
        BY <1>1, <3>1, MonthsInOrder
      <3> QED
        BY <1>2, <1>5, <2>1, <3>2
    <2> QED
      BY <2>2, <2>3
  <1> QED
    BY <1>2, <1>3, <1>4, <1>5, <1>6, <1>7 DEF NumberOf, y, m, d

\* Of two dates the one that is earlier by the calendar has the smaller number.
LEMMA DaysInOrder ==
    ASSUME NEW s, NEW t, IsDay(s), IsDay(t), Earlier(s, t)
    PROVE  NumberOf(s) < NumberOf(t)
PROOF
  <1>1. /\ NumberOf(s) \in Int /\ NumberOf(t) \in Int
        /\ DayNumber(s[1], s[2], 1) \in Int /\ DayNumber(t[1], t[2], 1) \in Int
        /\ MonthDays(s[1])[s[2]] \in 28..31
        /\ NumberOf(s) < DayNumber(s[1], s[2], 1) + MonthDays(s[1])[s[2]]
        /\ DayNumber(t[1], t[2], 1) <= NumberOf(t)
    BY InItsMonth
  <1>2. s[1] \in Nat /\ t[1] \in Nat /\ s[2] \in 1..12 /\ t[2] \in 1..12
    BY DEF IsDay
  <1>3. CASE s[1] < t[1]
    <2>1. DayNumber(s[1] + 1, 1, 1) <= DayNumber(t[1], 1, 1)
      BY <1>2, <1>3, YearsInOrder
    <2>2. /\ DayNumber(s[1], s[2], 1) + MonthDays(s[1])[s[2]] <= DayNumber(s[1] + 1, 1, 1)
          /\ DayNumber(t[1], 1, 1) <= DayNumber(t[1], t[2], 1)
      BY InItsMonth
    <2>3. DayNumber(s[1] + 1, 1, 1) \in Int /\ DayNumber(t[1], 1, 1) \in Int
      <3>1. s[1] + 1 \in Nat
        BY <1>2
      <3> QED
        BY <1>2, <3>1, YearsCount
    <2> QED
      BY <1>1, <2>1, <2>2, <2>3
  <1>4. CASE s[1] = t[1] /\ s[2] < t[2]
    <2>1. DayNumber(s[1], s[2], 1) + MonthDays(s[1])[s[2]] <= DayNumber(t[1], t[2], 1)
      BY <1>2, <1>4, MonthsInOrder
    <2> QED
      BY <1>1, <2>1
  <1>5. CASE s[1] = t[1] /\ s[2] = t[2] /\ s[3] < t[3]
    <2>1. /\ NumberOf(s) = DayNumber(s[1], s[2], 1) + s[3] - 1
          /\ NumberOf(t) = DayNumber(s[1], s[2], 1) + t[3] - 1
      BY <1>5, InItsMonth
    <2>2. s[3] \in Int /\ t[3] \in Int
      BY <1>1, InItsMonth DEF IsDay
    <2> QED
      BY <1>1, <1>5, <2>1, <2>2
  <1> QED
    BY <1>3, <1>4, <1>5 DEF Earlier

\* And the other way round.
LEMMA EarlierIsLess ==
    ASSUME NEW s, NEW t, IsDay(s), IsDay(t)
    PROVE  /\ Earlier(s, t) <=> NumberOf(s) < NumberOf(t)
           /\ (s[1] = t[1] /\ s[2] = t[2] /\ s[3] = t[3]) <=> NumberOf(s) = NumberOf(t)
PROOF
  <1>1. s[1] \in Nat /\ t[1] \in Nat /\ s[2] \in 1..12 /\ t[2] \in 1..12
        /\ s[3] \in Int /\ t[3] \in Int
    <2>1. MonthDays(s[1])[s[2]] \in 28..31 /\ MonthDays(t[1])[t[2]] \in 28..31
      BY InItsMonth
    <2> QED
      BY <2>1 DEF IsDay
  <1>2. \/ Earlier(s, t) \/ Earlier(t, s)
        \/ (s[1] = t[1] /\ s[2] = t[2] /\ s[3] = t[3])
    BY <1>1 DEF Earlier
  <1>3. NumberOf(s) \in Int /\ NumberOf(t) \in Int
    BY InItsMonth
  <1>4. Earlier(s, t) => NumberOf(s) < NumberOf(t)
    BY DaysInOrder
  <1>5. Earlier(t, s) => NumberOf(t) < NumberOf(s)
    BY DaysInOrder
  <1>6. (s[1] = t[1] /\ s[2] = t[2] /\ s[3] = t[3]) => NumberOf(s) = NumberOf(t)
    BY DEF NumberOf
  <1> QED
    BY <1>2, <1>3, <1>4, <1>5, <1>6

\* Times as texts are in the order of the times.
LEMMA TextsInOrder ==
    ASSUME date \in Nat, half \in {0, 1}, NEW t, IsExpiry(t)
    PROVE  AtMost(Timestamp, t) <=> ~Lapsed(t)
PROOF
  <1>1. PICK y \in Nat, m \in 1..12 : \E d \in 1..MonthDays(y)[m] :
            Civil(date) = <<y, m, d>> /\ DayNumber(y, m, d) = date
    BY CivilDate
  <1>2. PICK d \in 1..MonthDays(y)[m] :
            Civil(date) = <<y, m, d>> /\ DayNumber(y, m, d) = date
    BY <1>1
  <1> DEFINE s == <<y, m, d, half>>
  <1>3. Timestamp = s
    <2>1. Timestamp = Append(<<y, m, d>>, half)
      BY <1>2 DEF Timestamp
    <2>2. Append(<<y, m, d>>, half) = <<y, m, d, half>>
      <3> DEFINE a == <<y, m, d>>
                 b == Append(a, half)
                 c == <<y, m, d, half>>
      <3>0. MonthDays(y)[m] \in 28..31
        BY MonthsCount
      <3>1. y \in Nat /\ m \in Nat /\ d \in Nat /\ half \in Nat
        BY <3>0
      <3>2. a \in Seq(Nat) /\ Len(a) = 3 /\ a[1] = y /\ a[2] = m /\ a[3] = d
        BY <3>1
      <3>3. c \in Seq(Nat) /\ Len(c) = 4 /\ c[1] = y /\ c[2] = m /\ c[3] = d /\ c[4] = half
        BY <3>1
      <3> HIDE DEF a, c
      <3>4. b \in Seq(Nat) /\ Len(b) = 4 /\ b[4] = half /\ b[1] = a[1] /\ b[2] = a[2] /\ b[3] = a[3]
        <4>1. /\ b \in Seq(Nat) /\ Len(b) = Len(a) + 1
              /\ \A i \in 1..Len(a) : b[i] = a[i]
              /\ b[Len(a) + 1] = half
          <5> DEFINE S == Nat
                     h == half
          <5>1. a \in Seq(S) /\ h \in S
            BY <3>1, <3>2
          <5>2. b = Append(a, h)
            OBVIOUS
          <5> HIDE DEF S, b, h
          <5>3. /\ Append(a, h) \in Seq(S)
                /\ Len(Append(a, h)) = Len(a) + 1
                /\ \A i \in 1..Len(a) : Append(a, h)[i] = a[i]
                /\ Append(a, h)[Len(a) + 1] = h
            BY <5>1, AppendProperties
          <5> QED
            BY <5>2, <5>3 DEF S, h
        <4>2. 1 \in 1..Len(a) /\ 2 \in 1..Len(a) /\ 3 \in 1..Len(a) /\ Len(a) + 1 = 4
          BY <3>2
        <4> HIDE DEF b
        <4> QED
          BY <4>1, <4>2
      <3> HIDE DEF b
      <3>5. \A i \in 1..4 : b[i] = c[i]
        BY <3>2, <3>3, <3>4
      <3>6. b = c
        BY <3>3, <3>4, <3>5, SeqEqual
      <3> QED
        BY <3>6 DEF a, b, c
    <2> QED
      BY <2>1, <2>2
  <1>4. IsDay(s) /\ NumberOf(s) = date
    BY <1>2 DEF IsDay, NumberOf
  <1>5. MonthDays(y)[m] \in 28..31 /\ d \in Nat
    <2>1. MonthDays(y)[m] \in 28..31
      BY MonthsCount
    <2> QED
      BY <2>1
  <1>6. s \in Seq(Nat) /\ Len(s) = 4 /\ DOMAIN s = 1..4 /\ s[4] = half
    BY <1>5
  <1> HIDE DEF s
  <1>7. /\ Earlier(s, t) <=> NumberOf(s) < NumberOf(t)
        /\ (s[1] = t[1] /\ s[2] = t[2] /\ s[3] = t[3]) <=> NumberOf(s) = NumberOf(t)
    BY <1>4, EarlierIsLess DEF IsExpiry
  <1>8. t \in Seq(Nat) /\ DOMAIN t = 1..Len(t) /\ Len(t) \in {3, 4} /\ IsDay(t)
    BY LenProperties DEF IsExpiry
  <1>9. NumberOf(t) \in Int /\ NumberOf(s) \in Int
    BY <1>4, <1>8, InItsMonth
  <1>10. /\ s[1] \in Nat /\ s[2] \in Nat /\ s[3] \in Nat /\ s[4] \in Nat
         /\ t[1] \in Nat /\ t[2] \in Nat /\ t[3] \in Nat
    <2>1. 1 \in 1..Len(t) /\ 2 \in 1..Len(t) /\ 3 \in 1..Len(t)
          /\ 1 \in 1..Len(s) /\ 2 \in 1..Len(s) /\ 3 \in 1..Len(s) /\ 4 \in 1..Len(s)
      BY <1>6, <1>8
    <2>2. \A i \in 1..Len(t) : t[i] \in Nat
      BY <1>8, ElementOfSeq
    <2>3. \A i \in 1..Len(s) : s[i] \in Nat
      BY <1>6, ElementOfSeq
    <2> QED
      BY <2>1, <2>2, <2>3
  <1> DEFINE before(i) == s[i] < t[i] /\ \A j \in 1..(i - 1) : s[j] = t[j]
  <1>12. CASE Len(t) = 3
    <2>1. DOMAIN s \cap DOMAIN t = {1, 2, 3}
      BY <1>6, <1>8, <1>12
    <2>2. ~IsPrefix(s, t)
      BY <1>6, <1>12 DEF IsPrefix
    <2>3. (\E i \in {1, 2, 3} : before(i)) <=> Earlier(s, t)
      BY <1>10 DEF Earlier
    <2>4. AtMost(s, t) <=> Earlier(s, t)
      BY <2>1, <2>2, <2>3 DEF AtMost
    <2>5. Lapsed(t) <=> date >= NumberOf(t)
      BY <1>12 DEF Lapsed, NumberOf
    <2> QED
      BY <1>3, <1>4, <1>7, <1>9, <2>4, <2>5
  <1>13. CASE Len(t) = 4
    <2>1. DOMAIN s \cap DOMAIN t = {1, 2, 3, 4} /\ t[4] \in {0, 1} /\ half \in {0, 1}
      BY <1>6, <1>8, <1>13 DEF IsExpiry
    <2>2. IsPrefix(s, t) <=> s[1] = t[1] /\ s[2] = t[2] /\ s[3] = t[3] /\ s[4] = t[4]
      <3>1. SubSeq(s, 1, 4) = s /\ SubSeq(t, 1, 4) = t
        BY <1>6, <1>8, <1>13
      <3>2. IsPrefix(s, t) <=> s = t
        <4>1. Len(s) = 4 /\ Len(t) = 4
          BY <1>6, <1>13
        <4>2. IsPrefix(s, t) <=> 4 <= 4 /\ SubSeq(s, 1, 4) = SubSeq(t, 1, 4)
          BY <4>1, Zenon DEF IsPrefix
        <4> HIDE DEF s
        <4> QED
          BY <3>1, <4>2
      <3>3. s = t <=> \A i \in 1..4 : s[i] = t[i]
        BY <1>6, <1>8, <1>13, SeqEqual
      <3> QED
        BY <3>2, <3>3
    <2>3. (\E i \in {1, 2, 3, 4} : before(i)) <=>
            \/ Earlier(s, t)
            \/ s[1] = t[1] /\ s[2] = t[2] /\ s[3] = t[3] /\ s[4] < t[4]
      BY <1>10, <2>1 DEF Earlier
    <2>4. AtMost(s, t) <=>
            \/ Earlier(s, t)
            \/ s[1] = t[1] /\ s[2] = t[2] /\ s[3] = t[3] /\ s[4] <= t[4]
      BY <1>10, <2>1, <2>2, <2>3 DEF AtMost
    <2>5. Lapsed(t) <=> 2 * date + half > 2 * NumberOf(t) + t[4]
      BY <1>13 DEF Lapsed, NumberOf
    <2> QED
      BY <1>3, <1>4, <1>6, <1>7, <1>9, <2>1, <2>4, <2>5
  <1> QED
    BY <1>8, <1>12, <1>13

-----------------------------------------------------------------------------
(* White space at the end.                                                 *)

\* A text that does not end in white space.
Trim(a) == a = <<>> \/ a[Len(a)] \notin White

\* White space is what trim_end takes.
LEMMA TrimsTo ==
    ASSUME NEW a \in Seq(Symbols), Trim(a), NEW w \in Seq(White)
    PROVE  TrimEnd(a \o w) = a
PROOF
  <1> DEFINE d == a \o w
             n == Len(a)
             kept == {i \in DOMAIN d : d[i] \notin White}
  <1>1. White \subseteq Symbols
    BY DEF White, Symbols, Visible
  <1>2. w \in Seq(Symbols)
    BY <1>1, SeqMonotonic
  <1>3. /\ d \in Seq(Symbols) /\ DOMAIN d = 1..(n + Len(w)) /\ Len(d) = n + Len(w)
        /\ n \in Nat /\ Len(w) \in Nat
        /\ \A i \in 1..n : d[i] = a[i]
        /\ \A i \in 1..Len(w) : d[n + i] = w[i]
    BY <1>2, JoinedAt
  <1>4. \A i \in 1..Len(w) : w[i] \in White
    BY ElementOfSeq
  <1> HIDE DEF d
  <1>5. \A i \in kept : i \in 1..n
    <2> SUFFICES ASSUME NEW i \in kept, ~(i <= n) PROVE FALSE
      BY <1>3
    <2>1. i - n \in 1..Len(w) /\ n + (i - n) = i
      BY <1>3
    <2> QED
      BY <1>3, <1>4, <2>1
  <1>6. SubSeq(d, 1, n) = a
    <2>1. SubSeq(d, 1, n) \in Seq(Symbols) /\ Len(SubSeq(d, 1, n)) = n
          /\ \A i \in 1..n : SubSeq(d, 1, n)[i] = d[i]
      BY <1>3
    <2> QED
      BY <1>3, <2>1, SeqEqual
  <1>7. CASE n = 0
    <2>1. kept = {}
      BY <1>5, <1>7
    <2> QED
      BY <1>6, <1>7, <2>1 DEF TrimEnd, d
  <1>8. CASE n # 0
    <2>1. n \in 1..n /\ a # <<>>
      BY <1>3, <1>8
    <2>2. a[n] \notin White
      BY <2>1 DEF Trim
    <2>3. n \in kept
      BY <1>3, <2>1, <2>2
    <2>4. \A i \in kept : n >= i /\ i \in Int
      BY <1>3, <1>5
    <2> HIDE DEF kept, n
    <2>5. Max(kept) = n
      <3>1. \E x \in kept : \A y \in kept : x >= y
        BY <2>3, <2>4
      <3>2. Max(kept) \in kept /\ \A y \in kept : Max(kept) >= y
        BY <3>1 DEF Max
      <3>3. Max(kept) >= n /\ n >= Max(kept) /\ Max(kept) \in Int
        BY <2>3, <2>4, <3>2
      <3> QED
        BY <1>3, <3>3
    <2> QED
      BY <1>6, <2>3, <2>5 DEF TrimEnd, d, kept
  <1> QED
    BY <1>7, <1>8

\* What is left of a text, and what was taken.
LEMMA TrimmedOff ==
    ASSUME NEW d \in Seq(Symbols)
    PROVE  /\ TrimEnd(d) \in Seq(Symbols) /\ Trim(TrimEnd(d))
           /\ \E w \in Seq(White) : d = TrimEnd(d) \o w
PROOF
  <1> DEFINE G == {d0 \in Seq(Symbols) : \E a \in Seq(Symbols), w \in Seq(White) :
                        Trim(a) /\ d0 = a \o w}
  <1>1. White \subseteq Symbols
    BY DEF White, Symbols, Visible
  <1>2. <<>> \in Seq(Symbols) /\ <<>> \in Seq(White) /\ Trim(<<>>)
    BY DEF Trim
  <1>3. <<>> \in G
    <2>1. <<>> \o <<>> = <<>>
      BY <1>2, ConcatEmptySeq
    <2> QED
      BY <1>2, <2>1
  <1>4. ASSUME NEW d0 \in Seq(Symbols) \cap G, NEW x \in Symbols PROVE Append(d0, x) \in G
    <2>1. PICK a \in Seq(Symbols), w \in Seq(White) : Trim(a) /\ d0 = a \o w
      OBVIOUS
    <2>2. Append(d0, x) \in Seq(Symbols) /\ w \in Seq(Symbols)
      BY <1>1, SeqMonotonic
    <2>3. CASE x \in White
      <3>1. a \o Append(w, x) = Append(d0, x)
        BY <2>1, <2>2, Joined
      <3>2. Append(w, x) \in Seq(White)
        BY <2>3
      <3> QED
        BY <2>1, <2>2, <3>1, <3>2
    <2>4. CASE x \notin White
      <3> DEFINE b == Append(d0, x)
      <3>1. b \in Seq(Symbols) /\ Len(b) = Len(d0) + 1 /\ b[Len(d0) + 1] = x
        BY AppendProperties
      <3>2. Trim(b)
        BY <2>4, <3>1 DEF Trim
      <3>3. b \o <<>> = b
        BY <1>2, <3>1, Joined
      <3> HIDE DEF b
      <3>4. b \in G
        BY <1>2, <3>1, <3>2, <3>3
      <3> QED
        BY <3>4 DEF b
    <2> QED
      BY <2>3, <2>4
  <1> HIDE DEF G
  <1>5. d \in G
    BY <1>3, <1>4, EverySequence
  <1>6. PICK a \in Seq(Symbols), w \in Seq(White) : Trim(a) /\ d = a \o w
    BY <1>5 DEF G
  <1>7. TrimEnd(d) = a
    BY <1>6, TrimsTo
  <1> QED
    BY <1>6, <1>7

\* More white space makes no difference.
LEMMA TrimMore ==
    ASSUME NEW d \in Seq(Symbols), NEW w \in Seq(White)
    PROVE  TrimEnd(d \o w) = TrimEnd(d)
PROOF
  <1>1. TrimEnd(d) \in Seq(Symbols) /\ Trim(TrimEnd(d))
    BY TrimmedOff
  <1>2. PICK v \in Seq(White) : d = TrimEnd(d) \o v
    BY TrimmedOff
  <1> DEFINE a == TrimEnd(d)
  <1>3. d \o w = a \o (v \o w) /\ v \o w \in Seq(White)
    <2>1. White \subseteq Symbols
      BY DEF White, Symbols, Visible
    <2>2. v \in Seq(Symbols) /\ w \in Seq(Symbols)
      BY <2>1, SeqMonotonic
    <2>3. v \o w \in Seq(White)
      BY JoinedAt
    <2> HIDE DEF a
    <2>4. (a \o v) \o w = a \o (v \o w)
      <3>1. a \in Seq(Symbols)
        BY <1>1 DEF a
      <3> QED
        BY <2>2, <3>1, ConcatAssociative
    <2>5. d = a \o v
      BY <1>2 DEF a
    <2> QED
      BY <2>3, <2>4, <2>5
  <1> HIDE DEF a
  <1>4. TrimEnd(a \o (v \o w)) = a
    BY <1>1, <1>3, TrimsTo DEF a
  <1> QED
    BY <1>3, <1>4 DEF a

-----------------------------------------------------------------------------
(* What a reader sees.                                                     *)

AsSeen(x) == IF x = "alike" THEN "twin" ELSE x

\* What is seen of a text, character by character.
LEMMA SeenAt ==
    ASSUME NEW d \in Seq(Symbols)
    PROVE  /\ Seen(d) \in Seq(Symbols) /\ Len(Seen(d)) = Len(Bare(d))
           /\ \A i \in 1..Len(Bare(d)) : Seen(d)[i] = AsSeen(Bare(d)[i])
PROOF
  <1> DEFINE b == Bare(d)
             n == Len(b)
  <1>1. b \in Seq(Symbols)
    BY BareType
  <1>2. DOMAIN b = 1..n /\ n \in Nat /\ \A i \in 1..n : b[i] \in Symbols
    BY <1>1, LenProperties, ElementOfSeq
  <1>3. Free(d, Marks) = b
    BY FreeIsOnly DEF Bare
  <1> HIDE DEF b
  <1>4. Seen(d) = [i \in 1..n |-> AsSeen(b[i])]
    BY <1>2, <1>3 DEF Seen, AsSeen
  <1>5. [i \in 1..n |-> AsSeen(b[i])] \in [1..n -> Symbols]
    BY <1>2, Alphabet DEF AsSeen
  <1>6. Seen(d) \in Seq(Symbols) /\ Len(Seen(d)) = n
    BY <1>2, <1>4, <1>5, IsASeq
  <1> QED
    BY <1>4, <1>6 DEF b

\* Marks and lookalikes are not seen.
LEMMA SeenAlike ==
    ASSUME NEW d, NEW e \in Seq(Symbols), Reads(d, Bare(e))
    PROVE  Seen(d) = Seen(e)
PROOF
  <1>1. d \in Seq(Symbols) /\ Pairwise(Bare(d), Bare(e), Twins)
    BY DEF Reads
  <1>2. Len(Bare(d)) = Len(Bare(e))
        /\ \A i \in 1..Len(Bare(e)) : <<Bare(d)[i], Bare(e)[i]>> \in Twins
    BY <1>1 DEF Pairwise
  <1>3. \A x, y : <<x, y>> \in Twins => AsSeen(x) = AsSeen(y)
    <2> SUFFICES ASSUME NEW x, NEW y, <<x, y>> \in Twins PROVE AsSeen(x) = AsSeen(y)
      OBVIOUS
    <2>1. x = y \/ {x, y} = {"alike", "twin"}
      BY DEF Twins
    <2>2. x = y \/ (x \in {"alike", "twin"} /\ y \in {"alike", "twin"})
      BY <2>1
    <2> QED
      BY <2>2 DEF AsSeen
  <1>4. /\ Seen(d) \in Seq(Symbols) /\ Len(Seen(d)) = Len(Bare(d))
        /\ \A i \in 1..Len(Bare(d)) : Seen(d)[i] = AsSeen(Bare(d)[i])
    BY <1>1, SeenAt
  <1>5. /\ Seen(e) \in Seq(Symbols) /\ Len(Seen(e)) = Len(Bare(e))
        /\ \A i \in 1..Len(Bare(e)) : Seen(e)[i] = AsSeen(Bare(e)[i])
    BY SeenAt
  <1>6. \A i \in 1..Len(Seen(d)) : Seen(d)[i] = Seen(e)[i]
    BY <1>2, <1>3, <1>4, <1>5
  <1>7. Len(Seen(d)) = Len(Seen(e))
    BY <1>2, <1>4, <1>5
  <1> QED
    BY <1>4, <1>5, <1>6, <1>7, SeqEqual

\* What was signed is what is seen.
LEMMA SeenStays ==
    ASSUME NEW d \in Seq(Symbols)
    PROVE  Seen(StripAll(d)) = Seen(d)
PROOF
  <1>1. Reads(StripAll(d), Bare(d))
    BY ReadsBare, StripEachReads DEF StripAll
  <1> QED
    BY <1>1, SeenAlike

\* White space at the end is seen as it is.
LEMMA SeenTail ==
    ASSUME NEW d \in Seq(Symbols), NEW w \in Seq(White)
    PROVE  Seen(d \o w) = Seen(d) \o w
PROOF
  <1>1. White \subseteq Symbols \ Marks /\ "alike" \notin White
    <2>1. White \subseteq Visible
      BY DEF White, Visible
    <2> QED
      BY <2>1, Alphabet DEF White
  <1>2. w \in Seq(Symbols)
    BY <1>1, SeqMonotonic
  <1>3. Bare(d \o w) = Bare(d) \o w
    <2> DEFINE V == Symbols \ Marks
    <2>1. Only(w, V) = w
      BY <1>1, OnlyAll
    <2> HIDE DEF V
    <2>2. Only(d \o w, V) = Only(d, V) \o Only(w, V)
      BY <1>2, OnlyJoined
    <2> QED
      BY <2>1, <2>2 DEF Bare, V
  <1>4. d \o w \in Seq(Symbols) /\ Bare(d) \in Seq(Symbols)
    BY <1>2, JoinedAt, BareType
  <1> DEFINE b == Bare(d)
             s == Seen(d)
             l == Seen(d \o w)
             r == s \o w
  <1>5. /\ Len(b \o w) = Len(b) + Len(w) /\ Len(b) \in Nat /\ Len(w) \in Nat
        /\ \A i \in 1..Len(b) : (b \o w)[i] = b[i]
        /\ \A i \in 1..Len(w) : (b \o w)[Len(b) + i] = w[i]
    BY <1>2, <1>4, JoinedAt
  <1>6. /\ l \in Seq(Symbols) /\ Len(l) = Len(b \o w)
        /\ \A i \in 1..Len(b \o w) : l[i] = AsSeen((b \o w)[i])
    BY <1>3, <1>4, SeenAt
  <1>7. /\ s \in Seq(Symbols) /\ Len(s) = Len(b)
        /\ \A i \in 1..Len(b) : s[i] = AsSeen(b[i])
    BY SeenAt
  <1>8. /\ r \in Seq(Symbols) /\ Len(r) = Len(s) + Len(w)
        /\ \A i \in 1..Len(s) : r[i] = s[i]
        /\ \A i \in 1..Len(w) : r[Len(s) + i] = w[i]
    <2>1. s \in Seq(Symbols)
      BY <1>7
    <2> HIDE DEF s
    <2>2. /\ s \o w \in Seq(Symbols) /\ Len(s \o w) = Len(s) + Len(w)
          /\ \A i \in 1..Len(s) : (s \o w)[i] = s[i]
          /\ \A i \in 1..Len(w) : (s \o w)[Len(s) + i] = w[i]
      BY <1>2, <2>1, JoinedAt
    <2> QED
      BY <2>2
  <1>9. \A i \in 1..Len(w) : AsSeen(w[i]) = w[i]
    BY <1>1, ElementOfSeq DEF AsSeen
  <1> DEFINE x == b \o w
  <1> HIDE DEF l, r, s, b, x
  <1>10. ASSUME NEW i \in 1..Len(l) PROVE l[i] = r[i]
    <2>1. CASE i <= Len(b)
      <3>1. i \in 1..Len(b)
        BY <2>1
      <3> QED
        BY <1>5, <1>6, <1>7, <1>8, <3>1 DEF x
    <2>2. CASE ~(i <= Len(b))
      <3>1. i - Len(b) \in 1..Len(w) /\ Len(b) + (i - Len(b)) = i
        BY <1>5, <1>6, <2>2
      <3> QED
        BY <1>5, <1>6, <1>7, <1>8, <1>9, <3>1 DEF x
    <2> QED
      BY <2>1, <2>2
  <1>11. Len(l) = Len(r)
    BY <1>5, <1>6, <1>7, <1>8
  <1>12. l = r
    BY <1>6, <1>8, <1>10, <1>11, SeqEqual
  <1> QED
    BY <1>12 DEF l, r, s

\* A text trimmed and stripped to another one is seen to end as that one.
LEMMA SeenToTheEnd ==
    ASSUME NEW d \in Seq(Symbols), NEW e \in Seq(Symbols),
           StripAll(TrimEnd(d)) = StripAll(e)
    PROVE  SeenToEnd(d) = SeenToEnd(e)
PROOF
  <1>1. TrimEnd(d) \in Seq(Symbols)
    BY TrimmedOff
  <1>2. PICK w \in Seq(White) : d = TrimEnd(d) \o w
    BY TrimmedOff
  <1>3. Seen(TrimEnd(d)) = Seen(e)
    BY <1>1, SeenStays
  <1>4. Seen(d) = Seen(TrimEnd(d)) \o w
    BY <1>1, <1>2, SeenTail
  <1>5. Seen(e) \in Seq(Symbols)
    BY SeenAt
  <1>6. TrimEnd(Seen(e) \o w) = TrimEnd(Seen(e))
    BY <1>5, TrimMore
  <1> QED
    BY <1>3, <1>4, <1>6 DEF SeenToEnd

-----------------------------------------------------------------------------
(* Names.                                                                  *)

\* A name from its end, character by character.
LEMMA FromTheEnd ==
    ASSUME NEW T, NEW u \in Seq(T)
    PROVE  /\ Reverse(u) \in Seq(T) /\ Len(Reverse(u)) = Len(u)
           /\ \A i \in 1..Len(u) : Reverse(u)[i] = u[Len(u) - i + 1]
PROOF
  <1>1. Len(u) \in Nat /\ \A i \in 1..Len(u) : u[i] \in T
    BY LenProperties, ElementOfSeq
  <1>2. Reverse(u) = [i \in 1..Len(u) |-> u[Len(u) - i + 1]]
    BY DEF Reverse
  <1>3. \A i \in 1..Len(u) : Len(u) - i + 1 \in 1..Len(u)
    BY <1>1
  <1>4. Reverse(u) \in [1..Len(u) -> T]
    BY <1>1, <1>2, <1>3
  <1>5. Reverse(u) \in Seq(T) /\ Len(Reverse(u)) = Len(u)
    BY <1>1, <1>4, IsASeq
  <1> QED
    BY <1>2, <1>5

\* A name that ends in a dot and another name ends in that name.
LEMMA AfterTheDot ==
    ASSUME NEW T, NEW s \in Seq(T), NEW t \in Seq(T), NEW x \in T,
           IsSuffix(<<x>> \o s, t)
    PROVE  IsSuffix(s, t)
PROOF
  <1> DEFINE z == <<x>> \o s
             rz == Reverse(z)
             rs == Reverse(s)
             rt == Reverse(t)
             k == Len(s)
  <1>1. z \in Seq(T) /\ Len(z) = 1 + k /\ k \in Nat /\ \A i \in 1..k : z[1 + i] = s[i]
    <2>1. <<x>> \in Seq(T) /\ Len(<<x>>) = 1
      OBVIOUS
    <2> QED
      BY <2>1, JoinedAt
  <1>2. IsSuffix(z, t)
    OBVIOUS
  <1> HIDE DEF z
  <1>3. Len(t) \in Nat
    BY LenProperties
  <1>4. rz \in Seq(T) /\ Len(rz) = Len(z) /\ \A i \in 1..Len(z) : rz[i] = z[Len(z) - i + 1]
    BY <1>1, FromTheEnd
  <1>5. rs \in Seq(T) /\ Len(rs) = k /\ \A i \in 1..k : rs[i] = s[k - i + 1]
    BY FromTheEnd
  <1>6. rt \in Seq(T) /\ Len(rt) = Len(t)
    BY FromTheEnd
  <1>7. Len(rz) <= Len(rt) /\ SubSeq(rz, 1, Len(rz)) = SubSeq(rt, 1, Len(rz))
    BY <1>2 DEF IsSuffix, IsPrefix
  <1> HIDE DEF rz, rs, rt, k
  <1>8. ASSUME NEW i \in 1..k PROVE rs[i] = rt[i]
    <2>1. i \in 1..Len(z) /\ i \in 1..Len(t) /\ k - i + 1 \in 1..k
          /\ Len(z) - i + 1 = 1 + (k - i + 1)
      BY <1>1, <1>3, <1>4, <1>6, <1>7
    <2>2. rz[i] = rt[i]
      <3>1. SubSeq(rz, 1, Len(rz))[i] = rz[i]
        BY <1>1, <1>4, <2>1, SMTT(40)
      <3>2. SubSeq(rt, 1, Len(rz))[i] = rt[i]
        BY <1>1, <1>3, <1>4, <1>6, <1>7, <2>1
      <3> QED
        BY <1>7, <3>1, <3>2
    <2>3. rz[i] = z[1 + (k - i + 1)]
      BY <1>4, <2>1
    <2> QED
      BY <1>1, <1>5, <2>1, <2>2, <2>3
  <1>9. k <= Len(rt)
    BY <1>1, <1>3, <1>4, <1>6, <1>7
  <1>10. SubSeq(rs, 1, k) = SubSeq(rt, 1, k)
    <2>1. /\ SubSeq(rs, 1, k) \in Seq(T) /\ SubSeq(rt, 1, k) \in Seq(T)
          /\ Len(SubSeq(rs, 1, k)) = k /\ Len(SubSeq(rt, 1, k)) = k
          /\ \A i \in 1..k : SubSeq(rs, 1, k)[i] = rs[i] /\ SubSeq(rt, 1, k)[i] = rt[i]
      BY <1>1, <1>3, <1>5, <1>6, <1>9
    <2> QED
      BY <1>8, <2>1, SeqEqual
  <1>11. Len(rs) <= Len(rt) /\ SubSeq(rs, 1, Len(rs)) = SubSeq(rt, 1, Len(rs))
    BY <1>5, <1>9, <1>10
  <1>12. IsPrefix(rs, rt)
    BY <1>11 DEF IsPrefix
  <1> QED
    BY <1>12 DEF IsSuffix, rs, rt

\* A name ends in itself.
LEMMA OwnSuffix ==
    ASSUME NEW T, NEW s \in Seq(T)
    PROVE  IsSuffix(s, s)
PROOF
  <1>1. Reverse(s) \in Seq(T) /\ Len(Reverse(s)) \in Nat
    BY FromTheEnd, LenProperties
  <1> QED
    BY <1>1 DEF IsSuffix, IsPrefix

-----------------------------------------------------------------------------
(* A licence as it was signed.                                             *)

\* A paragraph one carrier has written on has nothing of another.
LEMMA WrittenHas ==
    ASSUME NEW d \in Seq(Symbols \ Marks), NEW c \in Carrier, NEW bits \in BitStrings
    PROVE  /\ Reads(d, d) /\ Reads(Written(c, d, bits), d)
           /\ Written(c, d, bits) \in Seq(Symbols)
           /\ \A o \in Inserting \ {c} : ~Has(Written(c, d, bits), Removable(o))
           /\ c \in Inserting => \A S \in SUBSET (Symbols \ Marks) :
                Has(Written(c, d, bits), S) <=> Has(d, S)
PROOF
  <1> DEFINE V == Symbols \ Marks
             e == Written(c, d, bits)
  <1>1. d \in Seq(Symbols) /\ V \subseteq Symbols
    BY SeqMonotonic
  <1>2. Bare(d) = d
    BY OnlyAll DEF Bare
  <1>3. Reads(d, d)
    BY <1>1, <1>2, ReadsBare
  <1>4. Reads(e, d) /\ (c \in Inserting => Bare(e) = Bare(d))
    BY <1>3, WrittenHolds
  <1>5. e \in Seq(Symbols)
    BY <1>4 DEF Reads
  <1>6. \A i \in 1..Len(d) : d[i] \in V
    BY ElementOfSeq
  <1>7. DOMAIN d = 1..Len(d)
    BY <1>1, LenProperties
  <1>8. ASSUME NEW o \in Inserting \ {c} PROVE ~Has(e, Removable(o))
    <2>1. Removable(o) \subseteq Marks
      BY Alphabet
    <2>2. ~Has(d, Removable(o))
      BY <1>6, <1>7, <2>1 DEF Has
    <2>3. CASE c = "homoglyph"
      <3>1. e = Substituted(d, bits)
        BY <2>3 DEF Written
      <3>2. Pairwise(e, d, Twins)
        BY <1>3, <3>1, SubstitutedReads
      <3>3. Len(e) = Len(d) /\ \A i \in 1..Len(e) : <<e[i], d[i]>> \in Twins
        BY <3>2 DEF Pairwise
      <3>4. DOMAIN e = 1..Len(e) /\ \A i \in 1..Len(e) : e[i] \in Symbols
        BY <1>5, LenProperties, ElementOfSeq
      <3> HIDE DEF e
      <3>5. \A i \in 1..Len(e) : e[i] \in V
        BY <1>1, <1>6, <3>3, <3>4, TwinsAgree
      <3> QED
        BY <2>1, <3>4, <3>5 DEF Has
    <2>4. CASE c \in Inserting
      <3> DEFINE O == Occupying(c)
                 seq == Sequenced(c, bits)
      <3>1. O \in SUBSET Symbols /\ seq \in Seq(O)
        BY <2>4, SequencedType, Alphabet
      <3>2. Removable(o) \cap O = {}
        BY <2>4, CarriersApart
      <3>3. e = PlacedAtBoundaries(d, seq)
        BY <2>4, Alphabet DEF Written
      <3> HIDE DEF O, seq, e
      <3>4. Only(e, Removable(o)) = Only(d, Removable(o))
        BY <1>1, <3>1, <3>2, <3>3, PlacedReads
      <3> QED
        BY <1>1, <1>5, <2>2, <3>4, SameHas
    <2> QED
      BY <2>3, <2>4 DEF Carrier
  <1>9. ASSUME c \in Inserting, NEW S \in SUBSET V PROVE Has(e, S) <=> Has(d, S)
    <2>1. Bare(e) = Bare(d)
      BY <1>4, <1>9
    <2>2. Has(Bare(e), S) <=> Has(e, S)
      BY <1>5, BareType
    <2>3. Has(Bare(d), S) <=> Has(d, S)
      BY <1>1, BareType
    <2> QED
      BY <2>1, <2>2, <2>3
  <1> QED
    BY <1>3, <1>4, <1>5, <1>8, <1>9

\* Cleaning it of another carrier leaves it as it is, in a script beyond doubt.
LEMMA OthersLeaveIt ==
    ASSUME NEW d \in Seq(Symbols \ Marks), NEW c \in Carrier, NEW bits \in BitStrings,
           Decided(d), NEW w \in Seq(White), NEW o \in Carrier \ {c}
    PROVE  Strip(o, Written(c, d, bits) \o w) = Written(c, d, bits) \o w
PROOF
  <1> DEFINE W == Written(c, d, bits)
             e == W \o w
  <1>1. White \subseteq Symbols \ Marks /\ White \cap Letters = {}
    <2>1. White \subseteq Visible /\ White \cap Letters = {}
      BY DEF White, Visible, Letters, LatinLetters, HighLatin
    <2> QED
      BY <2>1, Alphabet
  <1>2. W \in Seq(Symbols) /\ w \in Seq(Symbols) /\ e \in Seq(Symbols)
    <2>1. W \in Seq(Symbols)
      BY WrittenHas
    <2>2. w \in Seq(Symbols)
      BY <1>1, SeqMonotonic
    <2> HIDE DEF W
    <2> QED
      BY <2>1, <2>2, JoinedAt
  <1>3. DOMAIN w = 1..Len(w) /\ \A i \in 1..Len(w) : w[i] \in White
    BY <1>2, LenProperties, ElementOfSeq
  <1>4. DOMAIN e = 1..Len(e) /\ Len(e) \in Nat /\ e = [i \in DOMAIN e |-> e[i]]
    BY <1>2, LenProperties
  <1>5. CASE o \in Inserting
    <2> DEFINE R == Removable(o)
    <2>1. ~Has(W, R)
      BY <1>5, WrittenHas
    <2>2. R \subseteq Marks /\ o # "homoglyph"
      BY <1>5, Alphabet
    <2>3. ~Has(w, R)
      BY <1>1, <1>3, <2>2 DEF Has
    <2>4. Strip(o, e) = Free(e, R)
      BY <2>2 DEF Strip
    <2> HIDE DEF R, W
    <2>5. ~Has(e, R)
      BY <1>2, <2>1, <2>3, HasJoined
    <2> HIDE DEF e
    <2>6. e \in Seq(Symbols \ R)
      BY <1>2, <2>5, Without
    <2>7. Only(e, Symbols \ R) = e
      BY <2>6, OnlyAll
    <2>8. Free(e, R) = Only(e, Symbols \ R)
      BY <1>2, FreeIsOnly
    <2> QED
      BY <2>4, <2>7, <2>8 DEF e, W
  <1>6. CASE o = "homoglyph"
    <2>1. c \in Inserting
      BY <1>6 DEF Carrier
    <2>2. \A S \in SUBSET Letters : Has(W, S) <=> Has(d, S)
      BY <2>1, WrittenHas, Alphabet
    <2>3. \A S \in SUBSET Letters : ~Has(w, S)
      BY <1>1, <1>3 DEF Has
    <2> HIDE DEF W
    <2>4. \A S \in SUBSET Letters : Has(e, S) <=> Has(d, S)
      BY <1>2, <2>2, <2>3, HasJoined
    <2>5. {"alike"} \in SUBSET Letters /\ LatinLetters \in SUBSET Letters
          /\ {"cyrillic"} \in SUBSET Letters
      BY DEF Letters
    <2>6. ~Has(e, {"alike"}) \/ ~Has(e, LatinLetters)
      <3>1. CASE ~Has(d, {"cyrillic", "alike"})
        <4>1. ~Has(d, {"alike"})
          BY <3>1 DEF Has
        <4> QED
          BY <2>4, <2>5, <4>1
      <3>2. CASE ~Has(d, LatinLetters)
        BY <2>4, <2>5, <3>2
      <3> QED
        BY <3>1, <3>2 DEF Decided
    <2> HIDE DEF e
    <2>7. Attributed(e) = {}
      <3>1. CASE ~Has(e, {"alike"})
        BY <3>1 DEF Attributed, Has
      <3>2. CASE ~Has(e, LatinLetters)
        BY <1>2, <3>2, AttributedAll
      <3> QED
        BY <2>6, <3>1, <3>2
    <2>8. Strip(o, e) = [i \in DOMAIN e |-> e[i]]
      BY <1>6, <2>7 DEF Strip
    <2> QED
      BY <1>4, <2>8 DEF e, W
  <1> QED
    BY <1>5, <1>6 DEF Carrier

\* It ends in white space only where the paragraph does.
LEMMA EndStays ==
    ASSUME NEW d, NEW t, Reads(d, t), t # <<>>, Trim(t)
    PROVE  d # <<>> /\ Trim(d)
PROOF
  <1>1. d \in Seq(Symbols) /\ t \in Seq(Symbols \ Marks) /\ Pairwise(Bare(d), t, Twins)
    BY DEF Reads
  <1>2. Bare(d) \in Seq(Symbols)
    BY <1>1, BareType
  <1>3. /\ Len(Bare(d)) = Len(t) /\ Len(t) \in Nat /\ Len(t) # 0
        /\ \A i \in 1..Len(t) : <<Bare(d)[i], t[i]>> \in Twins
    BY <1>1, EmptySeq, LenProperties DEF Pairwise
  <1>4. d # <<>>
    <2>1. Only(<<>>, Symbols \ Marks) = <<>> /\ Len(<<>>) = 0
      BY OnlyAppend
    <2> QED
      BY <1>3, <2>1 DEF Bare
  <1>5. ASSUME d[Len(d)] \in White PROVE FALSE
    <2> DEFINE n == Len(d)
               x == d[n]
               u == SubSeq(d, 1, n - 1)
               V == Symbols \ Marks
    <2>1. n \in Nat /\ n # 0
      BY <1>1, <1>4, EmptySeq, LenProperties
    <2>2. x \in V /\ x \in Symbols /\ x \notin {"alike", "twin"}
      <3>1. White \subseteq Visible /\ White \cap {"alike", "twin"} = {}
        BY DEF White, Visible
      <3> QED
        BY <1>5, <3>1, Alphabet
    <2>3. u \in Seq(Symbols) /\ Append(u, x) = d
      <3>1. n - 1 \in 0..(Len(d) - 1) /\ (n - 1) + 1 = n /\ n - 1 + 1 = n
        BY <2>1
      <3>2. u \in Seq(Symbols) /\ SubSeq(d, 1, (n - 1) + 1) = Append(u, d[(n - 1) + 1])
        BY <1>1, <3>1, SubSeqNext
      <3>3. SubSeq(d, 1, n) = d
        BY <1>1, SubSeqFull
      <3> QED
        BY <3>1, <3>2, <3>3
    <2> HIDE DEF u, x, V
    <2>4. Only(Append(u, x), V) = Append(Only(u, V), x)
      BY <2>2, <2>3, OnlyAppend, ZenonT(60)
    <2>5. Bare(d) = Append(Only(u, V), x)
      BY <2>3, <2>4 DEF Bare, V
    <2> DEFINE b == Only(u, V)
    <2>6. b \in Seq(Symbols)
      <3>1. b \in Seq(Symbols \cap V)
        BY <2>3, OnlyType
      <3>2. Symbols \cap V \subseteq Symbols
        OBVIOUS
      <3> QED
        BY <3>1, <3>2, SeqMonotonic
    <2> HIDE DEF b
    <2>7. Len(Append(b, x)) = Len(b) + 1 /\ Append(b, x)[Len(b) + 1] = x /\ Len(b) \in Nat
      BY <2>2, <2>6, HasAppend
    <2>8. Bare(d) = Append(b, x)
      BY <2>5 DEF b
    <2>9. Len(t) = Len(b) + 1 /\ <<x, t[Len(t)]>> \in Twins
      BY <1>3, <2>7, <2>8
    <2>10. t[Len(t)] = x
      BY <2>2, <2>9 DEF Twins
    <2> QED
      BY <1>3, <1>5, <2>10 DEF Trim, x
  <1> QED
    BY <1>4, <1>5 DEF Trim

-----------------------------------------------------------------------------
(* What is read back of a paragraph just signed.                           *)

\* Positions in their order.
LEMMA AscendingAt ==
    ASSUME NEW T, NEW d \in Seq(T), NEW P \in SUBSET (1..Len(d))
    PROVE  /\ Ascending(d, P) \in Seq(P) /\ Len(Ascending(d, P)) = Cardinality(P)
           /\ \A j \in 1..Len(Ascending(d, P)) :
                Ascending(d, P)[j] \in P /\ Rank(P, Ascending(d, P)[j]) = j
PROOF
  <1> DEFINE n == Len(d)
             N == 1..n
             id == [i \in N |-> i]
             a == Only(id, P)
  <1>1. n \in Nat /\ DOMAIN d = 1..n
    BY LenProperties
  <1>2. id \in Seq(N) /\ Len(id) = n /\ \A i \in 1..n : id[i] = i
    <2>1. id \in [1..n -> N]
      OBVIOUS
    <2> QED
      BY <1>1, <2>1, IsASeq
  <1>3. Ascending(d, P) = a
    BY <1>1 DEF Ascending
  <1>4. N \cap P = P
    OBVIOUS
  <1> HIDE DEF N, id
  <1>5. a \in Seq(P)
    BY <1>2, <1>4, OnlyType
  <1>6. Len(a) = Cardinality({i \in 1..Len(id) : id[i] \in P})
    BY <1>2, OnlyCount
  <1>7. {i \in 1..Len(id) : id[i] \in P} = P
    BY <1>2, <1>4 DEF N
  <1> HIDE DEF a
  <1>8. ASSUME NEW j \in 1..Len(a) PROVE a[j] \in P /\ Rank(P, a[j]) = j
    <2>1. PICK i \in 1..Len(id) : id[i] \in P /\ Nth(id, P, i) = j /\ a[j] = id[i]
      BY <1>2, OnlyNth DEF a
    <2>2. a[j] = i /\ i \in P /\ i \in 1..n
      BY <1>2, <2>1
    <2>3. \A k \in 1..i : k \in 1..n /\ id[k] = k
      BY <1>1, <1>2, <2>2
    <2>4. \A y \in P : y \in 1..n
      OBVIOUS
    <2>5. {k \in 1..i : id[k] \in P} = {y \in P : y <= i}
      <3>1. ASSUME NEW k \in 1..i, id[k] \in P PROVE k \in P /\ k <= i
        BY <2>3, <3>1
      <3>2. ASSUME NEW y \in P, y <= i PROVE y \in 1..i /\ id[y] \in P
        <4>1. y \in 1..i
          BY <1>1, <2>2, <2>4, <3>2
        <4> QED
          BY <2>3, <4>1
      <3> QED
        BY <3>1, <3>2
    <2>6. Rank(P, i) = j
      BY <2>1, <2>5 DEF Nth, Rank
    <2> QED
      BY <2>2, <2>6
  <1>9. Len(a) = Cardinality(P)
    BY <1>6, <1>7
  <1>10. \A j \in 1..Len(a) : a[j] \in P /\ Rank(P, a[j]) = j
    BY <1>8
  <1> QED
    BY <1>3, <1>5, <1>9, <1>10

\* Letters that carry carry on, swapped or not.
LEMMA PlacesOfTwins ==
    ASSUME NEW d \in Seq(Symbols), NEW e \in Seq(Symbols), Pairwise(d, e, Twins)
    PROVE  Places(d) = Places(e)
PROOF
  <1> DEFINE n == Len(d)
  <1>1. /\ n \in Nat /\ Len(e) = n /\ DOMAIN d = 1..n /\ DOMAIN e = 1..n
        /\ \A i \in 1..n : d[i] = e[i] \/ {d[i], e[i]} = {"alike", "twin"}
    BY LenProperties DEF Pairwise, Twins
  <1> HIDE DEF n
  <1>2. \A i \in 1..n : d[i] = e[i] \/ (d[i] \in {"alike", "twin"} /\ e[i] \in {"alike", "twin"})
    BY <1>1
  <1>3. Outline(d) = Outline(e)
    BY <1>1, <1>2 DEF Outline
  <1>4. Regions(d) = Regions(e)
    BY <1>3 DEF Regions
  <1>5. Inside(d) = Inside(e)
    BY <1>1, <1>4 DEF Inside
  <1>6. {i \in DOMAIN d : d[i] \in {"twin", "alike"}} = {i \in DOMAIN e : e[i] \in {"twin", "alike"}}
    BY <1>1, <1>2
  <1> QED
    BY <1>5, <1>6 DEF Places

\* What is written into the letters of a paragraph, whatever code it has in it, is
\* what is read first.
LEMMA LettersReadFirst ==
    ASSUME NEW d \in Seq(Symbols), ~Has(d, {"alike"}),
           NEW bits \in BitStrings, Len(bits) <= Cardinality(Places(d)),
           NEW e \in Seq(Symbols), e = Substituted(d, bits), Pairwise(e, d, Twins)
    PROVE  /\ ReadPositions("homoglyph", e) \in BitStrings
           /\ Len(ReadPositions("homoglyph", e)) = Cardinality(Places(d))
           /\ SubSeq(ReadPositions("homoglyph", e), 1, Len(bits)) = bits
PROOF
  <1> DEFINE n == Len(d)
             P == Places(d)
             at == Ascending(e, P)
             read == ReadPositions("homoglyph", e)
  <1>1. /\ n \in Nat /\ Len(e) = n /\ DOMAIN d = 1..n /\ DOMAIN e = 1..n
    BY LenProperties DEF Pairwise
  <1>2. P \in SUBSET (1..n) /\ \A i \in P : d[i] = "twin"
    BY <1>1 DEF Places, Has
  <1>3. Places(e) = P
    BY PlacesOfTwins
  <1>4. at \in Seq(P) /\ Len(at) = Cardinality(P)
        /\ \A j \in 1..Len(at) : at[j] \in P /\ Rank(P, at[j]) = j
    BY <1>1, <1>2, AscendingAt
  <1>5. DOMAIN at = 1..Len(at) /\ Len(at) \in Nat
    BY <1>4, LenProperties
  <1>6. read = [j \in 1..Len(at) |-> IF e[at[j]] = "alike" THEN 1 ELSE 0]
    BY <1>3, <1>5 DEF ReadPositions
  <1>7. {i \in P : d[i] = "twin"} = P
    BY <1>2
  <1>8. e = [i \in 1..n |->
            IF i \in P /\ Rank(P, i) <= Len(bits) /\ bits[Rank(P, i)] = 1
            THEN "alike" ELSE d[i]]
    BY <1>1, <1>7 DEF Substituted
  <1>9. Len(bits) \in Nat /\ \A j \in 1..Len(bits) : bits[j] \in {0, 1}
    BY LenProperties, ElementOfSeq DEF BitStrings
  <1>10. read \in Seq({0, 1}) /\ Len(read) = Len(at)
    <2>1. read \in [1..Len(at) -> {0, 1}]
      BY <1>6
    <2> QED
      BY <1>5, <2>1, IsASeq
  <1> HIDE DEF P, at, n
  <1>11. ASSUME NEW j \in 1..Len(bits) PROVE read[j] = bits[j]
    <2>1. j \in 1..Len(at)
      BY <1>4, <1>5, <1>9 DEF P
    <2>2. at[j] \in P /\ Rank(P, at[j]) = j /\ at[j] \in 1..n
      BY <1>2, <1>4, <2>1
    <2>3. e[at[j]] = IF bits[j] = 1 THEN "alike" ELSE "twin"
      BY <1>2, <1>8, <1>9, <2>2
    <2> QED
      BY <1>6, <1>9, <2>1, <2>3
  <1> HIDE DEF read
  <1>12. Len(bits) <= Len(read)
    BY <1>4, <1>10 DEF P
  <1>13. SubSeq(read, 1, Len(bits)) = bits
    <2>1. SubSeq(read, 1, Len(bits)) = [j \in 1..Len(bits) |-> read[j]]
      BY <1>9, <1>10, <1>12 DEF SubSeq
    <2>2. bits = [j \in 1..Len(bits) |-> bits[j]]
      BY LenProperties DEF BitStrings
    <2> QED
      BY <1>11, <2>1, <2>2
  <1> QED
    BY <1>4, <1>10, <1>13 DEF read, BitStrings, P

\* What a carrier takes is what it gives back: of the letters all of it only where
\* they offer no whole byte more.
LEMMA DecodedBack ==
    ASSUME NEW d \in Seq(Symbols \ Marks), Decided(d), NEW c \in Carrier,
           NEW bits \in BitStrings, Accepts(c, d, bits),
           Len(bits) > 0, Len(bits) % ByteBits = 0,
           c = "homoglyph" => Cardinality(Places(d)) \div ByteBits = Len(bits) \div ByteBits
    PROVE  Decoded(c, Written(c, d, bits)) = bits
PROOF
  <1> DEFINE e == Written(c, d, bits)
             b == Len(bits)
  <1>1. d \in Seq(Symbols) /\ Reads(d, d) /\ e \in Seq(Symbols)
    <2>1. Symbols \ Marks \subseteq Symbols
      OBVIOUS
    <2>2. d \in Seq(Symbols)
      BY <2>1, SeqMonotonic
    <2> QED
      BY <2>2, WrittenHas
  <1>2. ByteBits \in Nat \ {0} /\ b \in Nat /\ b % ByteBits = 0
    BY ByteBitsAssumption, LenProperties DEF BitStrings
  <1>3. (b \div ByteBits) * ByteBits = b
    <2> HIDE DEF b
    <2>1. b = ByteBits * (b \div ByteBits) + (b % ByteBits)
      BY <1>2
    <2>2. b \div ByteBits \in Int
      BY <1>2
    <2> QED
      BY <1>2, <2>1, <2>2
  <1>4. CASE c = "homoglyph"
    <2>1. e = Substituted(d, bits)
      BY <1>4 DEF Written
    <2>2. Pairwise(e, d, Twins)
      BY <1>1, <2>1, SubstitutedReads
    <2>3. ~Has(d, {"alike"}) /\ Len(bits) <= Cardinality(Places(d))
      BY <1>4 DEF Accepts, Writable, Occupying, Positions
    <2>4. /\ Len(ReadPositions("homoglyph", e)) = Cardinality(Places(d))
          /\ SubSeq(ReadPositions("homoglyph", e), 1, Len(bits)) = bits
      BY <1>1, <2>1, <2>2, <2>3, LettersReadFirst
    <2>5. /\ Len(e) = Len(d) /\ DOMAIN e = 1..Len(d) /\ DOMAIN d = 1..Len(d)
          /\ \A i \in 1..Len(d) : e[i] = d[i] \/ {e[i], d[i]} = {"alike", "twin"}
      BY <1>1, <2>2, LenProperties DEF Pairwise, Twins
    <2> HIDE DEF e
    <2>6. \A i \in 1..Len(d) : e[i] = d[i] \/ (e[i] \in {"alike", "twin"} /\ d[i] \in {"alike", "twin"})
      BY <2>5
    <2>7. Readable(e)
      <3>1. CASE Has(d, LatinLetters \ {"twin"}) /\ ~Has(d, {"cyrillic", "alike"})
        <4>1. Has(e, LatinLetters)
          <5>1. "alike" \notin LatinLetters
            BY Alphabet
          <5> QED
            BY <2>5, <2>6, <3>1, <5>1 DEF Has
        <4>2. ~Has(e, {"cyrillic"})
          BY <2>5, <2>6, <3>1 DEF Has
        <4>3. Attributed(e) = {i \in DOMAIN e : e[i] = "alike"}
          BY <1>1, <4>1, <4>2, AttributedAll
        <4> QED
          BY <4>3 DEF Readable, Has
      <3>2. CASE ~Has(d, LatinLetters)
        <4>1. "twin" \in LatinLetters
          BY Alphabet
        <4>2. Places(d) = {}
          BY <2>3, <3>2, <4>1 DEF Places, Has
        <4>3. Cardinality(Places(d)) = 0
          BY <4>2, FS_EmptySet
        <4> QED
          BY <1>2, <2>3, <4>3
      <3> QED
        BY <3>1, <3>2 DEF Decided
    <2>8. (Len(ReadPositions("homoglyph", e)) \div ByteBits) * ByteBits = b
      BY <1>3, <1>4, <2>4
    <2>9. Decoded("homoglyph", e) = SubSeq(ReadPositions("homoglyph", e), 1, b)
      BY <2>7, <2>8 DEF Decoded
    <2> QED
      BY <1>4, <2>4, <2>9 DEF e
  <1>5. CASE c \in Inserting
    <2>1. c # "homoglyph" /\ Writable(c, d)
      BY <1>5, Alphabet DEF Accepts
    <2>2. Only(e, BitMarks(c)) = Written01(c, bits)
      BY <1>1, <1>5, <2>1, WrittenHolds
    <2> HIDE DEF e
    <2>3. ReadPositions(c, e) = bits
      BY <1>5, <2>2, ReadsWritten DEF BitMarks
    <2> QED
      BY <1>3, <2>1, <2>3 DEF Decoded, e
  <1> QED
    BY <1>4, <1>5 DEF Carrier

-----------------------------------------------------------------------------
(* The invariant.                                                          *)

\* What a licence was signed for is what the code signs.
Issued(made) ==
    /\ made.over \in LicenceCovers /\ made.through \in Carrier
    /\ Accepts(made.through, made.over, PackageBits)
    /\ made.hash # Unbound => made.hash = StripAll(made.over)
    /\ made.terms.expires # NoTerm => IsExpiry(made.terms.expires)
    /\ made.terms.org # NoTerm => made.terms.org \in [below : BOOLEAN, name : Seq(STRING)]
    /\ made.terms.hardware # NoTerm =>
        /\ made.on[1] \in Machine
        /\ made.terms.hardware = <<made.on[2], MachineId[made.on[1]]>>

\* Its text is the one that was written, and white space after it.
Whole(text0, made) ==
    \E w \in Seq(White) :
        text0 = Written(made.through, made.over, PackageBits) \o w

LicenceInv ==
    /\ licence \in Seq(Symbols)
    /\ date \in Nat /\ half \in {0, 1} /\ hostname \in [Machine -> HostNames]
    /\ ~torn => keyfile = pubfile
    /\ deed # NoDeed => Issued(deed)
    /\ deed # NoDeed /\ ~touched /\ Decided(deed.over) /\ TrimEnd(deed.over) = deed.over
        => Whole(licence, deed)

\* What is known of a paragraph and a package.
LEMMA Paragraphs ==
    ASSUME NEW d \in LicenceCovers
    PROVE  /\ d \in Seq(Symbols \ Marks) /\ d \in Seq(Symbols)
           /\ PackageBits \in BitStrings
PROOF
  <1>1. d \in Seq(Symbols \ Marks) /\ PackageBits \in BitStrings
    BY LicenceAssumption DEF LicenceAssumption, BitStrings
  <1>2. Symbols \ Marks \subseteq Symbols
    OBVIOUS
  <1> QED
    BY <1>1, <1>2, SeqMonotonic

\* White space is of the characters a text is made of.
LEMMA WhiteIsText == White \subseteq Symbols /\ \A s \in White : s \notin Marks
PROOF
  <1>1. White \subseteq Visible
    BY DEF White, Visible
  <1> QED
    BY <1>1, Alphabet

\* A paragraph just written on is whole, with white space after it or none.
LEMMA WholeAtFirst ==
    ASSUME NEW made, made.over \in LicenceCovers, made.through \in Carrier,
           NEW w \in Seq(White)
    PROVE  /\ Written(made.through, made.over, PackageBits) \o w \in Seq(Symbols)
           /\ Whole(Written(made.through, made.over, PackageBits) \o w, made)
PROOF
  <1> DEFINE W == Written(made.through, made.over, PackageBits)
  <1>1. made.over \in Seq(Symbols \ Marks) /\ PackageBits \in BitStrings
    BY Paragraphs
  <1>2. W \in Seq(Symbols)
    BY <1>1, WrittenHas
  <1>3. w \in Seq(Symbols)
    BY WhiteIsText, SeqMonotonic
  <1>4. Whole(W \o w, made)
    BY DEF Whole
  <1> HIDE DEF W
  <1>5. W \o w \in Seq(Symbols)
    BY <1>2, <1>3, JoinedAt
  <1> QED
    BY <1>4, <1>5 DEF W

LEMMA LicenceFirst == LicenceInit => LicenceInv
PROOF
  <1> SUFFICES ASSUME LicenceInit PROVE LicenceInv
    OBVIOUS
  <1>1. /\ date \in Nat /\ half \in {0, 1} /\ hostname \in [Machine -> HostNames]
        /\ keyfile = pubfile
    BY LicenceAssumption DEF LicenceInit, LicenceAssumption
  <1>2. CASE licence = <<>> /\ deed = NoDeed
    BY <1>1, <1>2 DEF LicenceInv
  <1>3. ASSUME NEW c \in Carrier, NEW cover \in OldLicences,
               Accepts(c, cover, PackageBits),
               licence = Written(c, cover, PackageBits),
               deed = [Bound(c, cover, NoTerms) EXCEPT !.hash = Unbound]
        PROVE  LicenceInv
    <2>1. cover \in LicenceCovers
      BY LicenceAssumption DEF LicenceAssumption
    <2>2. /\ deed.over = cover /\ deed.through = c /\ deed.hash = Unbound
          /\ deed.terms.expires = NoTerm /\ deed.terms.org = NoTerm
          /\ deed.terms.hardware = NoTerm
      BY <1>3 DEF Bound, NoTerms
    <2>3. Issued(deed)
      BY <1>3, <2>1, <2>2 DEF Issued
    <2>4. <<>> \in Seq(White)
      OBVIOUS
    <2> DEFINE W == Written(c, cover, PackageBits)
    <2>5. W \o <<>> \in Seq(Symbols) /\ Whole(W \o <<>>, deed)
      BY <2>1, <2>2, <2>4, WholeAtFirst
    <2>6. W \in Seq(Symbols)
      BY <2>1, Paragraphs, WrittenHas
    <2>7. licence = W
      BY <1>3
    <2> HIDE DEF W
    <2>8. W \o <<>> = W
      BY <2>6, Joined
    <2>9. licence \in Seq(Symbols) /\ Whole(licence, deed)
      BY <2>5, <2>7, <2>8
    <2> QED
      BY <1>1, <2>3, <2>9 DEF LicenceInv
  <1> QED
    BY <1>2, <1>3 DEF LicenceInit

\* Signing.
LEMMA SignedKeeps ==
    ASSUME LicenceInv, NEW c, NEW cover, NEW made, NEW written,
           NEW w \in Seq(White), written = Written(c, cover, PackageBits) \o w,
           SignedAndEmbedded(c, cover, made, written),
           Issued(made), made.through = c, made.over = cover
    PROVE  LicenceInv'
PROOF
  <1>1. /\ licence' = written /\ deed' = made
        /\ torn' = torn /\ keyfile' = keyfile /\ pubfile' = pubfile
        /\ date' = date /\ half' = half /\ hostname' = hostname
    BY DEF SignedAndEmbedded
  <1>2. written \in Seq(Symbols) /\ Whole(written, made)
    BY WholeAtFirst DEF Issued
  <1>3. licence' \in Seq(Symbols) /\ Issued(deed') /\ Whole(licence', deed')
    BY <1>1, <1>2
  <1>4. Issued(deed)' /\ Whole(licence, deed)'
    BY <1>3 DEF Issued, Whole
  <1> QED
    BY <1>1, <1>3, <1>4 DEF LicenceInv

\* What happens to a licence otherwise.
LEMMA HandledKeeps ==
    ASSUME LicenceInv, Elsewhere, licence' \in Seq(Symbols),
           deed # NoDeed /\ ~touched' /\ Decided(deed.over) /\ TrimEnd(deed.over) = deed.over
                => ~touched /\ (Whole(licence, deed) => Whole(licence', deed))
    PROVE  LicenceInv'
PROOF
  <1>1. /\ deed' = deed /\ torn' = torn /\ keyfile' = keyfile /\ pubfile' = pubfile
        /\ date' = date /\ half' = half /\ hostname' = hostname
    BY DEF Elsewhere
  <1>2. deed # NoDeed => Issued(deed)'
    BY <1>1 DEF LicenceInv, Issued
  <1>3. deed # NoDeed /\ ~touched' /\ Decided(deed.over) /\ TrimEnd(deed.over) = deed.over
            => Whole(licence, deed)'
    <2> SUFFICES ASSUME deed # NoDeed, ~touched', Decided(deed.over),
                        TrimEnd(deed.over) = deed.over
                 PROVE  Whole(licence, deed)'
      OBVIOUS
    <2>1. Whole(licence', deed)
      BY DEF LicenceInv
    <2> QED
      BY <1>1, <2>1 DEF Whole
  <1> QED
    BY <1>1, <1>2, <1>3 DEF LicenceInv

\* A paragraph signed by the agents, or by the command line.
LEMMA SigningKeeps ==
    ASSUME LicenceInv, NEW c \in Carrier, NEW cover \in LicenceCovers, NEW asked \in Terms,
           (\E m \in Machine : Generate(m, c, cover, asked)) \/ AuthorshipSign(c, cover, asked)
    PROVE  LicenceInv'
PROOF
  <1>1. /\ asked \in [hardware : BOOLEAN,
                      org : {NoTerm} \cup [below : BOOLEAN, name : Seq(STRING)],
                      expires : {NoTerm} \cup Seq(Nat)]
        /\ asked.expires # NoTerm => IsExpiry(asked.expires)
    BY LicenceAssumption DEF LicenceAssumption
  <1> DEFINE W == Written(c, cover, PackageBits)
  <1>2. W \in Seq(Symbols)
    BY Paragraphs, WrittenHas
  <1>3. ASSUME NEW m \in Machine, Generate(m, c, cover, asked) PROVE LicenceInv'
    <2> DEFINE terms == [asked EXCEPT !.hardware = IF @ THEN MachineFingerprint(m) ELSE NoTerm]
               made == [Bound(c, cover, terms) EXCEPT
                            !.on = IF asked.hardware THEN <<m, hostname[m]>> ELSE NoTerm]
               w == <<"newline">>
    <2>1. /\ terms.expires = asked.expires /\ terms.org = asked.org
          /\ terms.hardware = IF asked.hardware THEN <<hostname[m], MachineId[m]>> ELSE NoTerm
      BY <1>1 DEF MachineFingerprint
    <2> HIDE DEF terms
    <2>2. /\ made.over = cover /\ made.through = c /\ made.hash = StripAll(cover)
          /\ made.terms = terms
          /\ made.on = IF asked.hardware THEN <<m, hostname[m]>> ELSE NoTerm
      BY DEF Bound
    <2>3. SignedAndEmbedded(c, cover, made, Append(W, "newline"))
      BY <1>3 DEF Generate, terms
    <2> HIDE DEF made
    <2>4. Accepts(c, cover, PackageBits)
      BY <2>3 DEF SignedAndEmbedded
    <2>5. Issued(made)
      <3>1. made.terms.hardware # NoTerm =>
                /\ made.on[1] \in Machine
                /\ made.terms.hardware = <<made.on[2], MachineId[made.on[1]]>>
        BY <2>1, <2>2
      <3>2. made.terms.org # NoTerm => made.terms.org \in [below : BOOLEAN, name : Seq(STRING)]
        BY <1>1, <2>1, <2>2
      <3>3. made.terms.expires # NoTerm => IsExpiry(made.terms.expires)
        BY <1>1, <2>1, <2>2
      <3> QED
        BY <2>2, <2>4, <3>1, <3>2, <3>3 DEF Issued
    <2>6. w \in Seq(White) /\ "newline" \in Symbols
      BY DEF White, Symbols, Visible
    <2> HIDE DEF W
    <2>7. Append(W, "newline") = W \o w
      BY <1>2, <2>6, Joined
    <2> DEFINE written == Append(W, "newline")
    <2> HIDE DEF w, written
    <2>8. written = Written(c, cover, PackageBits) \o w
      BY <2>7 DEF written, W
    <2>9. SignedAndEmbedded(c, cover, made, written)
      BY <2>3 DEF written
    <2> QED
      BY <2>2, <2>5, <2>6, <2>8, <2>9, SignedKeeps
  <1>4. ASSUME AuthorshipSign(c, cover, asked) PROVE LicenceInv'
    <2> DEFINE terms == [asked EXCEPT !.hardware = NoTerm]
               made == Bound(c, cover, terms)
               w == <<>>
    <2>1. /\ terms.expires = asked.expires /\ terms.org = asked.org
          /\ terms.hardware = NoTerm
      BY <1>1
    <2> HIDE DEF terms
    <2>2. /\ made.over = cover /\ made.through = c /\ made.hash = StripAll(cover)
          /\ made.terms = terms
      BY DEF Bound
    <2>3. SignedAndEmbedded(c, cover, made, W)
      BY <1>4 DEF AuthorshipSign, terms
    <2> HIDE DEF made
    <2>4. Accepts(c, cover, PackageBits)
      BY <2>3 DEF SignedAndEmbedded
    <2>5. Issued(made)
      <3>1. made.terms.org # NoTerm => made.terms.org \in [below : BOOLEAN, name : Seq(STRING)]
        BY <1>1, <2>1, <2>2
      <3>2. made.terms.expires # NoTerm => IsExpiry(made.terms.expires)
        BY <1>1, <2>1, <2>2
      <3> QED
        BY <2>1, <2>2, <2>4, <3>1, <3>2 DEF Issued
    <2>6. w \in Seq(White)
      OBVIOUS
    <2> HIDE DEF W
    <2>7. W = W \o w
      BY <1>2, Joined
    <2> HIDE DEF w
    <2>8. W = Written(c, cover, PackageBits) \o w
      BY <2>7 DEF W
    <2> QED
      BY <2>2, <2>3, <2>5, <2>6, <2>8, SignedKeeps
  <1> QED
    BY <1>3, <1>4

\* White space added to the end of a whole licence, or taken from it.
LEMMA FramedKeeps ==
    ASSUME LicenceInv,
           (\E s \in White : Framed(s)) \/ Unframed
    PROVE  LicenceInv'
PROOF
  <1>1. licence \in Seq(Symbols)
    BY DEF LicenceInv
  <1>2. ASSUME NEW s \in White, Framed(s) PROVE LicenceInv'
    <2>1. s \in Symbols
      BY WhiteIsText
    <2>2. licence' = Append(licence, s) /\ touched' = touched /\ Elsewhere
      BY <1>2 DEF Framed
    <2>3. licence' \in Seq(Symbols)
      BY <1>1, <2>1, <2>2
    <2>4. ASSUME deed # NoDeed, Whole(licence, deed) PROVE Whole(licence', deed)
      <3> DEFINE W == Written(deed.through, deed.over, PackageBits)
      <3>1. PICK w \in Seq(White) : licence = W \o w
        BY <2>4 DEF Whole
      <3>2. W \in Seq(Symbols)
        <4>1. deed.over \in LicenceCovers /\ deed.through \in Carrier
          BY <2>4 DEF LicenceInv, Issued
        <4> QED
          BY <4>1, Paragraphs, WrittenHas
      <3>3. w \in Seq(Symbols) /\ Append(w, s) \in Seq(White)
        BY WhiteIsText, SeqMonotonic
      <3> HIDE DEF W
      <3>4. W \o Append(w, s) = Append(W \o w, s)
        BY <2>1, <3>2, <3>3, Joined
      <3>5. licence' = W \o Append(w, s)
        BY <2>2, <3>1, <3>4
      <3> QED
        BY <3>3, <3>5 DEF Whole, W
    <2> QED
      BY <2>2, <2>3, <2>4, HandledKeeps
  <1>3. ASSUME Unframed PROVE LicenceInv'
    <2> DEFINE n == Len(licence)
    <2>1. /\ licence # <<>> /\ licence[n] = "newline" /\ licence' = SubSeq(licence, 1, n - 1)
          /\ touched' = touched /\ Elsewhere
      BY <1>3 DEF Unframed, Last, Front
    <2>2. n \in Nat /\ n # 0
      BY <1>1, <2>1, LenProperties, EmptySeq
    <2>3. licence' \in Seq(Symbols) /\ Append(licence', "newline") = licence
      <3>1. n - 1 \in 0..(Len(licence) - 1) /\ (n - 1) + 1 = n
        BY <2>2
      <3>2. SubSeq(licence, 1, n - 1) \in Seq(Symbols)
            /\ SubSeq(licence, 1, (n - 1) + 1)
                = Append(SubSeq(licence, 1, n - 1), licence[(n - 1) + 1])
        BY <1>1, <3>1, SubSeqNext
      <3>3. SubSeq(licence, 1, n) = licence
        BY <1>1, SubSeqFull
      <3> QED
        BY <2>1, <3>1, <3>2, <3>3
    <2>4. ASSUME deed # NoDeed, Whole(licence, deed), TrimEnd(deed.over) = deed.over,
                 Decided(deed.over)
          PROVE  Whole(licence', deed)
      <3> DEFINE W == Written(deed.through, deed.over, PackageBits)
                 v == licence'
      <3>1. PICK w \in Seq(White) : licence = W \o w
        BY <2>4 DEF Whole
      <3>2. W \in Seq(Symbols) /\ Trim(W) /\ W # <<>>
        <4>1. deed.over \in LicenceCovers /\ deed.through \in Carrier
          BY <2>4 DEF LicenceInv, Issued
        <4>2. deed.over \in Seq(Symbols) /\ Reads(W, deed.over) /\ W \in Seq(Symbols)
          BY <4>1, Paragraphs, WrittenHas
        <4>3. Trim(deed.over)
          BY <2>4, <4>2, TrimmedOff
        <4>4. deed.over # <<>>
          BY <2>4 DEF Decided, Has
        <4> HIDE DEF W
        <4> QED
          BY <4>2, <4>3, <4>4, EndStays
      <3>3. w \in Seq(Symbols)
        BY WhiteIsText, SeqMonotonic
      <3> HIDE DEF W
      <3>4. w # <<>>
        <4>1. ASSUME w = <<>> PROVE FALSE
          <5>1. W \o <<>> = W
            BY <3>2, Joined
          <5>2. licence = W
            BY <3>1, <4>1, <5>1, SMTT(40)
          <5> QED
            BY <2>1, <3>2, <5>2 DEF Trim, White
        <4> QED
          BY <4>1
      <3>5. PICK u \in Seq(White), x \in White : w = Append(u, x)
        <4> DEFINE m == Len(w)
        <4>1. m \in Nat /\ m # 0
          BY <3>4, LenProperties, EmptySeq
        <4>2. m - 1 \in 0..(Len(w) - 1) /\ (m - 1) + 1 = m
          BY <4>1
        <4>3. /\ SubSeq(w, 1, m - 1) \in Seq(White) /\ w[(m - 1) + 1] \in White
              /\ SubSeq(w, 1, (m - 1) + 1) = Append(SubSeq(w, 1, m - 1), w[(m - 1) + 1])
          BY <4>2, SubSeqNext
        <4>4. SubSeq(w, 1, m) = w
          BY SubSeqFull
        <4> QED
          BY <4>2, <4>3, <4>4
      <3>6. u \in Seq(Symbols) /\ x \in Symbols
        BY WhiteIsText, SeqMonotonic
      <3>7. Append(v, "newline") = Append(W \o u, x) /\ W \o u \in Seq(Symbols)
        BY <2>3, <3>1, <3>2, <3>5, <3>6, Joined
      <3>8. v = W \o u
        <4> DEFINE z == W \o u
        <4>1. z \in Seq(Symbols) /\ v \in Seq(Symbols) /\ Append(v, "newline") = Append(z, x)
          BY <2>3, <3>7
        <4>2. "newline" \in Symbols
          BY DEF Symbols, Visible
        <4> HIDE DEF z, v
        <4>3. /\ Len(Append(v, "newline")) = Len(v) + 1 /\ Len(v) \in Nat
              /\ \A i \in 1..Len(v) : Append(v, "newline")[i] = v[i]
          BY <4>1, <4>2, HasAppend
        <4>4. /\ Len(Append(z, x)) = Len(z) + 1 /\ Len(z) \in Nat
              /\ \A i \in 1..Len(z) : Append(z, x)[i] = z[i]
          BY <3>6, <4>1, HasAppend
        <4>5. Len(v) = Len(z) /\ \A i \in 1..Len(v) : v[i] = z[i]
          BY <4>1, <4>3, <4>4
        <4>6. v = z
          BY <4>1, <4>5, SeqEqual
        <4> QED
          BY <4>6 DEF z
      <3> QED
        BY <3>8 DEF Whole, W
    <2> QED
      BY <2>1, <2>3, <2>4, HandledKeeps
  <1> QED
    BY <1>2, <1>3

\* Letters typed over, and a carrier cleaned away.
LEMMA TouchedKeeps ==
    ASSUME LicenceInv, deed # NoDeed,
           (\E i \in DOMAIN licence, letter \in Retypes : Retyped(i, letter))
           \/ (\E c \in Carrier : CarrierRemoved(c))
    PROVE  LicenceInv'
PROOF
  <1>1. licence \in Seq(Symbols)
    BY DEF LicenceInv
  <1>2. ASSUME NEW i \in DOMAIN licence, NEW letter \in Retypes, Retyped(i, letter)
        PROVE  LicenceInv'
    <2>1. letter \in Symbols
      BY LicenceAssumption, Alphabet DEF LicenceAssumption
    <2>2. licence' = [licence EXCEPT ![i] = letter] /\ touched' /\ Elsewhere
      BY <1>2 DEF Retyped
    <2>3. licence' \in Seq(Symbols)
      <3>1. i \in 1..Len(licence)
        BY <1>1, LenProperties
      <3>2. [licence EXCEPT ![i] = letter] \in Seq(Symbols)
        BY <1>1, <2>1, <3>1, ExceptAppend
      <3> QED
        BY <2>2, <3>2
    <2> QED
      BY <2>2, <2>3, HandledKeeps
  <1>3. ASSUME NEW c \in Carrier, CarrierRemoved(c) PROVE LicenceInv'
    <2>1. /\ licence' = Strip(c, licence) /\ Elsewhere
          /\ touched' = (touched \/ (deed # NoDeed /\ deed.through = c))
      BY <1>3 DEF CarrierRemoved
    <2>2. licence' \in Seq(Symbols)
      <3>1. Reads(licence, Bare(licence))
        BY <1>1, ReadsBare
      <3>2. Strip("homoglyph", licence) \in Seq(Symbols)
            /\ \A o \in Inserting : Strip(o, licence) \in Seq(Symbols)
        BY <3>1, StripReads DEF Reads
      <3> QED
        BY <2>1, <3>2 DEF Carrier
    <2>3. ASSUME ~touched', Decided(deed.over), Whole(licence, deed)
          PROVE  ~touched /\ Whole(licence', deed)
      <3>1. ~touched /\ c # deed.through
        BY <2>1, <2>3
      <3>2. deed.over \in LicenceCovers /\ deed.through \in Carrier
        BY DEF LicenceInv, Issued
      <3>3. deed.over \in Seq(Symbols \ Marks) /\ PackageBits \in BitStrings
        BY <3>2, Paragraphs
      <3>4. PICK w \in Seq(White) :
                licence = Written(deed.through, deed.over, PackageBits) \o w
        BY <2>3 DEF Whole
      <3>5. Strip(c, Written(deed.through, deed.over, PackageBits) \o w)
                = Written(deed.through, deed.over, PackageBits) \o w
        BY <2>3, <3>1, <3>2, <3>3, OthersLeaveIt, ZenonT(60)
      <3>6. licence' = licence
        BY <2>1, <3>4, <3>5
      <3> QED
        BY <2>3, <3>1, <3>6
    <2>4. ~touched' => ~touched
      BY <2>1
    <2> QED
      BY <2>1, <2>2, <2>3, <2>4, HandledKeeps
  <1> QED
    BY <1>2, <1>3

LEMMA LicenceStep == LicenceInv /\ [LicenceNext]_licencevars => LicenceInv'
PROOF
  <1> SUFFICES ASSUME LicenceInv, [LicenceNext]_licencevars PROVE LicenceInv'
    OBVIOUS
  <1>1. ASSUME UNCHANGED licencevars PROVE LicenceInv'
    BY <1>1 DEF licencevars, LicenceInv, Issued, Whole
  <1>2. ASSUME NEW c \in Carrier, NEW cover \in LicenceCovers, NEW asked \in Terms,
               (\E m \in Machine : Generate(m, c, cover, asked))
               \/ AuthorshipSign(c, cover, asked)
        PROVE  LicenceInv'
    BY <1>2, SigningKeeps
  <1>3. ASSUME Keygen PROVE LicenceInv'
    <2>1. /\ keyfile' = pubfile' /\ licence' = licence /\ deed' = deed /\ touched' = touched
          /\ date' = date /\ half' = half /\ hostname' = hostname
      BY <1>3 DEF Keygen
    <2> QED
      BY <2>1 DEF LicenceInv, Issued, Whole
  <1>4. ASSUME KeygenTorn PROVE LicenceInv'
    <2>1. /\ torn' /\ licence' = licence /\ deed' = deed /\ touched' = touched
          /\ date' = date /\ half' = half /\ hostname' = hostname
      BY <1>4 DEF KeygenTorn
    <2> QED
      BY <2>1 DEF LicenceInv, Issued, Whole
  <1>5. ASSUME deed # NoDeed,
               \/ \E s \in White : Framed(s)
               \/ Unframed
               \/ \E i \in DOMAIN licence, letter \in Retypes : Retyped(i, letter)
               \/ \E c \in Carrier : CarrierRemoved(c)
        PROVE  LicenceInv'
    BY <1>5, FramedKeeps, TouchedKeeps
  <1>6. ASSUME HalfDay PROVE LicenceInv'
    <2>1. /\ half' = 1 - half /\ date' = date + half
          /\ torn' = torn /\ keyfile' = keyfile /\ pubfile' = pubfile
          /\ licence' = licence /\ deed' = deed /\ touched' = touched /\ hostname' = hostname
      BY <1>6 DEF HalfDay
    <2>2. date' \in Nat /\ half' \in {0, 1}
      BY <2>1 DEF LicenceInv
    <2> QED
      BY <2>1, <2>2 DEF LicenceInv, Issued, Whole
  <1>7. ASSUME NEW m \in Machine, NEW name \in HostNames, Renamed(m, name) PROVE LicenceInv'
    <2>1. /\ hostname' = [hostname EXCEPT ![m] = name]
          /\ torn' = torn /\ keyfile' = keyfile /\ pubfile' = pubfile /\ date' = date
          /\ half' = half /\ licence' = licence /\ deed' = deed /\ touched' = touched
      BY <1>7 DEF Renamed
    <2>2. hostname' \in [Machine -> HostNames]
      BY <2>1 DEF LicenceInv
    <2> QED
      BY <2>1, <2>2 DEF LicenceInv, Issued, Whole
  <1> QED
    BY <1>1, <1>2, <1>3, <1>4, <1>5, <1>6, <1>7 DEF LicenceNext

-----------------------------------------------------------------------------
(* The verdict.                                                            *)

\* A name that a licence names is one a machine goes by.
LEMMA NamesFit ==
    ASSUME LicenceInv, deed # NoDeed, deed.terms.org # NoTerm, NEW m \in Machine
    PROVE  /\ MatchesDomain(hostname[m], deed.terms.org)
                => IsSuffix(deed.terms.org.name, hostname[m])
           /\ (\/ hostname[m] = deed.terms.org.name
               \/ /\ deed.terms.org.below
                  /\ IsSuffix(<<".">> \o deed.terms.org.name, hostname[m]))
                => MatchesDomain(hostname[m], deed.terms.org)
PROOF
  <1> DEFINE h == hostname[m]
             s == deed.terms.org.name
  <1>1. s \in Seq(STRING) /\ deed.terms.org.below \in BOOLEAN
    BY DEF LicenceInv, Issued
  <1>2. h \in Seq(STRING)
    BY LicenceAssumption DEF LicenceAssumption, LicenceInv
  <1> HIDE DEF h, s
  <1>3. IsSuffix(s, s)
    BY <1>1, OwnSuffix
  <1>4. IsSuffix(<<".">> \o s, h) => IsSuffix(s, h)
    <2> DEFINE T == STRING \cup {"."}
               x == "."
    <2>1. x \in T /\ s \in Seq(T) /\ h \in Seq(T)
      <3>1. STRING \subseteq T /\ x \in T
        OBVIOUS
      <3>2. s \in Seq(STRING) /\ h \in Seq(STRING)
        BY <1>1, <1>2
      <3> HIDE DEF T
      <3> QED
        BY <3>1, <3>2, SeqMonotonic
    <2> HIDE DEF T, x
    <2>2. IsSuffix(<<x>> \o s, h) => IsSuffix(s, h)
      BY <2>1, AfterTheDot
    <2> QED
      BY <2>2 DEF x
  <1>5. MatchesDomain(h, deed.terms.org) =>
            IsSuffix(s, h)
    BY <1>3 DEF MatchesDomain, s
  <1>6. h = s \/ (deed.terms.org.below /\ IsSuffix(<<".">> \o s, h))
            => MatchesDomain(h, deed.terms.org)
    <2>1. CASE deed.terms.org.below
      BY <1>3, <1>4, <2>1 DEF MatchesDomain, s
    <2>2. CASE ~deed.terms.org.below
      BY <2>2 DEF MatchesDomain, s
    <2> QED
      BY <2>1, <2>2
  <1> QED
    BY <1>5, <1>6 DEF h, s

\* What the licence was made for is the case.
MadeFor(m, hardware, org) ==
    /\ deed.terms.expires # NoTerm => ~Lapsed(deed.terms.expires)
    /\ hardware /\ deed.terms.hardware # NoTerm => SameMachine(m)
    /\ org /\ deed.terms.org # NoTerm => IsSuffix(deed.terms.org.name, hostname[m])

\* Who is granted a licence has one.
LEMMA Granted == LicenceInv => GrantIsTrue
PROOF
  <1> SUFFICES ASSUME LicenceInv, NEW c \in Carrier, Valid(c)
               PROVE  /\ deed.by = pubfile
                      /\ SeenToEnd(licence) = SeenToEnd(deed.over)
                      /\ \A m \in Machine, hardware, org \in BOOLEAN :
                            TermsHold(m, hardware, org) => MadeFor(m, hardware, org)
    BY DEF GrantIsTrue, MadeFor
  <1>1. /\ deed # NoDeed /\ deed.by = pubfile /\ deed.hash # Unbound
        /\ StripAll(TrimEnd(licence)) = deed.hash
    BY DEF Valid, ClaimVerified
  <1>2. /\ licence \in Seq(Symbols) /\ date \in Nat /\ half \in {0, 1}
        /\ Issued(deed)
    BY <1>1 DEF LicenceInv
  <1>3. SeenToEnd(licence) = SeenToEnd(deed.over)
    <2>1. deed.over \in Seq(Symbols) /\ deed.hash = StripAll(deed.over)
      BY <1>1, <1>2, Paragraphs DEF Issued
    <2> QED
      BY <1>1, <1>2, <2>1, SeenToTheEnd
  <1>4. ASSUME NEW m \in Machine, NEW hardware \in BOOLEAN, NEW org \in BOOLEAN,
               TermsHold(m, hardware, org)
        PROVE  MadeFor(m, hardware, org)
    <2>1. ASSUME deed.terms.expires # NoTerm PROVE ~Lapsed(deed.terms.expires)
      <3>1. AtMost(Timestamp, deed.terms.expires)
        BY <1>4, <2>1 DEF TermsHold, CheckExpiry
      <3>2. IsExpiry(deed.terms.expires)
        BY <1>2, <2>1 DEF Issued
      <3> QED
        BY <1>2, <3>1, <3>2, TextsInOrder
    <2>2. ASSUME hardware, deed.terms.hardware # NoTerm PROVE SameMachine(m)
      <3>1. <<hostname[m], MachineId[m]>> = deed.terms.hardware
        BY <1>4, <2>2 DEF TermsHold, CheckHardware, MachineFingerprint
      <3>2. deed.on[1] \in Machine
            /\ deed.terms.hardware = <<deed.on[2], MachineId[deed.on[1]]>>
        BY <1>2, <2>2 DEF Issued
      <3>3. hostname[m] = deed.on[2] /\ MachineId[m] = MachineId[deed.on[1]]
        BY <3>1, <3>2
      <3>4. m = deed.on[1] \/ MachineId[m] = NoMachineId
        BY <3>2, <3>3, LicenceAssumption DEF LicenceAssumption
      <3> QED
        BY <3>3, <3>4 DEF SameMachine
    <2>3. ASSUME org, deed.terms.org # NoTerm
          PROVE  IsSuffix(deed.terms.org.name, hostname[m])
      <3>1. MatchesDomain(hostname[m], deed.terms.org)
        BY <1>4, <2>3 DEF TermsHold, CheckOrg
      <3> QED
        BY <1>1, <2>3, <3>1, NamesFit
    <2> QED
      BY <2>1, <2>2, <2>3 DEF MadeFor
  <1> QED
    BY <1>1, <1>3, <1>4

\* It is used where it was made for, under the very name or one below it.
UsedAs(m, hardware, org) ==
    /\ hardware /\ deed.terms.hardware # NoTerm => SameMachine(m)
    /\ org /\ deed.terms.org # NoTerm =>
        \/ hostname[m] = deed.terms.org.name
        \/ /\ deed.terms.org.below
           /\ IsSuffix(<<".">> \o deed.terms.org.name, hostname[m])

\* Who has a licence is granted it.
LEMMA Upheld == LicenceInv => LicenceHolds
PROOF
  <1> SUFFICES ASSUME
            LicenceInv, deed # NoDeed, deed.hash # Unbound, ~touched, Decided(deed.over),
            TrimEnd(deed.over) = deed.over,
            deed.through = "homoglyph" =>
                Cardinality(Places(deed.over)) \div ByteBits = Len(PackageBits) \div ByteBits,
            deed.by = keyfile, ~torn,
            deed.terms.expires # NoTerm => ~Lapsed(deed.terms.expires)
        PROVE  Valid(deed.through) /\ \A m \in Machine, hardware, org \in BOOLEAN :
                    UsedAs(m, hardware, org) => TermsHold(m, hardware, org)
    BY DEF LicenceHolds, UsedAs
  <1> DEFINE c == deed.through
             d == deed.over
             W == Written(c, d, PackageBits)
  <1>1. /\ Issued(deed) /\ Whole(licence, deed) /\ date \in Nat /\ half \in {0, 1}
        /\ keyfile = pubfile
    BY DEF LicenceInv
  <1>2. /\ d \in Seq(Symbols \ Marks) /\ d \in Seq(Symbols) /\ PackageBits \in BitStrings
        /\ c \in Carrier /\ Accepts(c, d, PackageBits)
    BY <1>1, Paragraphs DEF Issued
  <1>3. Reads(W, d) /\ Reads(d, d) /\ W \in Seq(Symbols)
    BY <1>2, WrittenHas
  <1>4. TrimEnd(licence) = W
    <2>1. PICK w \in Seq(White) : licence = W \o w
      BY <1>1 DEF Whole
    <2>2. Trim(d) /\ d # <<>>
      <3>1. Trim(d)
        BY <1>2, TrimmedOff
      <3> QED
        BY <3>1 DEF Decided, Has
    <2> HIDE DEF W
    <2>3. Trim(W)
      BY <1>3, <2>2, EndStays
    <2> QED
      BY <1>3, <2>1, <2>3, TrimsTo
  <1>5. StripAll(W) = deed.hash
    <2>1. StripAll(W) = d /\ StripAll(d) = d
      BY <1>3, StripAllRestores
    <2> QED
      BY <1>1, <2>1 DEF Issued
  <1>6. Decoded(c, W) = PackageBits
    <2>1. Len(PackageBits) > 0 /\ Len(PackageBits) % ByteBits = 0
      BY LicenceAssumption DEF LicenceAssumption
    <2> QED
      BY <1>2, <2>1, DecodedBack
  <1>7. Valid(c)
    BY <1>1, <1>4, <1>5, <1>6 DEF Valid, ClaimVerified
  <1>8. ASSUME NEW m \in Machine, NEW hardware \in BOOLEAN, NEW org \in BOOLEAN,
               UsedAs(m, hardware, org)
        PROVE  TermsHold(m, hardware, org)
    <2>1. ASSUME hardware PROVE CheckHardware(deed.terms, m)
      <3> SUFFICES ASSUME deed.terms.hardware # NoTerm
                   PROVE  MachineFingerprint(m) = deed.terms.hardware
        BY DEF CheckHardware
      <3>1. hostname[m] = deed.on[2]
            /\ (m = deed.on[1] \/ {MachineId[m], MachineId[deed.on[1]]} = {NoMachineId})
        BY <1>8, <2>1 DEF SameMachine, UsedAs
      <3>2. MachineId[m] = MachineId[deed.on[1]]
        BY <3>1
      <3>3. deed.terms.hardware = <<deed.on[2], MachineId[deed.on[1]]>>
        BY <1>1 DEF Issued
      <3> QED
        BY <3>1, <3>2, <3>3 DEF MachineFingerprint
    <2>2. ASSUME org PROVE CheckOrg(deed.terms, m)
      BY <1>8, <2>2, NamesFit DEF CheckOrg, UsedAs
    <2>3. CheckExpiry(deed.terms)
      <3> SUFFICES ASSUME deed.terms.expires # NoTerm
                   PROVE  AtMost(Timestamp, deed.terms.expires)
        BY DEF CheckExpiry
      <3>1. IsExpiry(deed.terms.expires)
        BY <1>1 DEF Issued
      <3> QED
        BY <1>1, <3>1, TextsInOrder
    <2> QED
      BY <2>1, <2>2, <2>3 DEF TermsHold
  <1> QED
    BY <1>7, <1>8

\* Verification says what happened, whatever is signed, printed, piped, retyped and
\* cleaned, whenever and under whatever name it is verified: it exits with success
\* for those who hold a licence, and for nobody else (LicenceVerdict).
THEOREM LicencesStand == LicenceSpec => []LicenceVerdict
PROOF
  <1>1. LicenceInv => LicenceVerdict
    BY Granted, Upheld DEF LicenceVerdict
  <1> QED
    BY <1>1, LicenceFirst, LicenceStep, PTL DEF LicenceSpec
===============================================================================
