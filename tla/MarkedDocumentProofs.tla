------------------------ MODULE MarkedDocumentProofs ------------------------
(***************************************************************************)
(* Proofs about MarkedDocument, for every alphabet, every set of signers   *)
(* and recipients, documents of any length and edits without a bound.      *)
(*                                                                         *)
(* Two inductive invariants carry the theorems.  MarkedInv: the document   *)
(* reads as the text, symbol by symbol once its inserted marks are left    *)
(* out, and the marks of every inserting carrier are, in order, those of   *)
(* what it is known to hold.  LettersInv: of prose, the letters that can   *)
(* carry begin with what homoglyph is known to hold.  The lemmas that take *)
(* most of the module say what Carriers' filters and placements do to a    *)
(* document, element by element.                                           *)
(***************************************************************************)
EXTENDS MarkedDocument, SequenceTheorems, FiniteSetTheorems, WellFoundedInduction, TLAPS

-----------------------------------------------------------------------------
(* Sequences, element by element.                                          *)

\* A set of natural numbers that has an element has a least one.
LEMMA Least ==
    ASSUME NEW S \in SUBSET Nat, NEW x \in S
    PROVE  \E m \in S : \A k \in S : m <= k
PROOF
  <1>1. IsWellFoundedOn(OpToRel(<, Nat), Nat)
    BY NatLessThanWellFounded
  <1>2. PICK m \in S : \A k \in S : ~(<<k, m>> \in OpToRel(<, Nat))
    BY <1>1, WFMin, Zenon
  <1>3. ASSUME NEW k \in S PROVE m <= k
    <2>1. k \in Nat /\ m \in Nat
      OBVIOUS
    <2>2. ~(<<k, m>> \in OpToRel(<, Nat))
      BY <1>2
    <2>3. OpToRel(<, Nat) = {ss \in Nat \X Nat : ss[1] < ss[2]}
      BY DEF OpToRel
    <2>4. ~(k < m)
      BY <2>1, <2>2, <2>3
    <2> QED
      BY <2>1, <2>4
  <1> QED
    BY <1>3

\* A set that has the empty sequence, and of every sequence the longer ones, has all.
LEMMA EverySequence ==
    ASSUME NEW T, NEW G, <<>> \in G,
           \A d \in Seq(T) \cap G, x \in T : Append(d, x) \in G
    PROVE  Seq(T) \subseteq G
PROOF
  <1> DEFINE lengths == {n \in Nat : \E d \in Seq(T) : Len(d) = n /\ d \notin G}
  <1>1. SUFFICES ASSUME NEW d \in Seq(T), d \notin G PROVE FALSE
    OBVIOUS
  <1>2. Len(d) \in lengths
    BY <1>1
  <1>3. PICK n \in lengths : \A k \in lengths : n <= k
    BY <1>2, Least
  <1>4. PICK e \in Seq(T) : Len(e) = n /\ e \notin G
    BY <1>3
  <1>5. e # <<>>
    BY <1>4
  <1>6. PICK s \in Seq(T), x \in T : e = Append(s, x)
    BY <1>5, SequenceEmptyOrAppend
  <1>7. Len(s) \in Nat /\ Len(s) < n
    BY <1>4, <1>6, AppendProperties
  <1>8. s \in G
    BY <1>3, <1>7
  <1> QED
    BY <1>4, <1>6, <1>8

Accrues(g, F, s) ==
    \A i \in 0..Len(s) : g[i] = IF i = 0 THEN <<>> ELSE F[<<g[i - 1], s[i]>>]

\* What each element of a sequence adds to is a function of how far one is.
LEMMA Accrued ==
    ASSUME NEW A, <<>> \in A, NEW T, NEW F \in [A \X T -> A], NEW s \in Seq(T)
    PROVE  \E g \in [0..Len(s) -> A] : Accrues(g, F, s)
PROOF
  <1> DEFINE G == {d \in Seq(T) : \E g \in [0..Len(d) -> A] : Accrues(g, F, d)}
  <1>1. <<>> \in G
    <2> DEFINE g == [i \in 0..0 |-> <<>>]
    <2>1. g \in [0..Len(<<>>) -> A] /\ Accrues(g, F, <<>>)
      BY DEF Accrues
    <2> QED
      BY <2>1
  <1>2. ASSUME NEW d \in Seq(T) \cap G, NEW x \in T PROVE Append(d, x) \in G
    <2>1. PICK g \in [0..Len(d) -> A] : Accrues(g, F, d)
      BY <1>2
    <2> DEFINE e == Append(d, x)
               n == Len(d)
               h == [i \in 0..Len(e) |-> IF i = n + 1 THEN F[<<g[n], x>>] ELSE g[i]]
    <2>2. /\ e \in Seq(T) /\ Len(e) = n + 1 /\ n \in Nat /\ e[n + 1] = x
          /\ \A i \in 1..n : e[i] = d[i]
      BY AppendProperties
    <2> HIDE DEF e
    <2>3. g[n] \in A /\ F[<<g[n], x>>] \in A
      <3>1. g[n] \in A
        BY <2>2, SMTT(40)
      <3> HIDE DEF n
      <3>2. <<g[n], x>> \in A \X T
        BY <3>1
      <3> QED
        BY <3>1, <3>2
    <2>4. \A i \in 0..Len(e) : i # n + 1 => i \in 0..n /\ g[i] \in A
      BY <2>2
    <2>5. h \in [0..Len(e) -> A]
      BY <2>3, <2>4
    <2>6. \A i \in 0..Len(e) : h[i] = IF i = 0 THEN <<>> ELSE F[<<h[i - 1], e[i]>>]
      <3>1. SUFFICES ASSUME NEW i \in 0..Len(e)
                     PROVE  h[i] = IF i = 0 THEN <<>> ELSE F[<<h[i - 1], e[i]>>]
        OBVIOUS
      <3>2. CASE i = n + 1
        <4>1. h[i] = F[<<g[n], x>>] /\ h[i - 1] = g[n] /\ e[i] = x /\ i # 0
          BY <2>2, <3>2
        <4> HIDE DEF h
        <4> QED
          BY <4>1
      <3>3. CASE i # n + 1
        <4>1. i \in 0..n /\ h[i] = g[i]
          BY <2>2, <3>3
        <4>2. i # 0 => h[i - 1] = g[i - 1] /\ e[i] = d[i]
          BY <2>2, <4>1
        <4>3. g[i] = IF i = 0 THEN <<>> ELSE F[<<g[i - 1], d[i]>>]
          BY <2>1, <4>1 DEF Accrues
        <4> HIDE DEF h
        <4> QED
          BY <4>1, <4>2, <4>3
      <3> QED
        BY <3>2, <3>3
    <2> HIDE DEF h
    <2>7. Accrues(h, F, e)
      BY <2>6 DEF Accrues
    <2> QED
      BY <2>2, <2>5, <2>7 DEF e
  <1> HIDE DEF G
  <1>3. Seq(T) \subseteq G
    BY <1>1, <1>2, EverySequence
  <1> QED
    BY <1>3 DEF G

Kept(k, d, S) ==
    k = [i \in 0..Len(d) |->
            IF i = 0 THEN <<>>
            ELSE IF d[i] \in S THEN Append(k[i - 1], d[i]) ELSE k[i - 1]]

\* What a filter leaves is reached symbol by symbol.
LEMMA OnlyIsKept ==
    ASSUME NEW T, NEW d \in Seq(T), NEW S
    PROVE  \E k : Kept(k, d, S) /\ Only(d, S) = k[Len(d)]
PROOF
  <1> DEFINE F == [p \in Seq(T) \X T |-> IF p[2] \in S THEN Append(p[1], p[2]) ELSE p[1]]
  <1>1. F \in [Seq(T) \X T -> Seq(T)]
    OBVIOUS
  <1>2. PICK g \in [0..Len(d) -> Seq(T)] : Accrues(g, F, d)
    <2> HIDE DEF F
    <2>1. <<>> \in Seq(T)
      OBVIOUS
    <2> QED
      BY <1>1, <2>1, Accrued
  <1>3. \A i \in 0..Len(d) : i # 0 => <<g[i - 1], d[i]>> \in Seq(T) \X T
    <2>1. SUFFICES ASSUME NEW i \in 0..Len(d), i # 0 PROVE g[i - 1] \in Seq(T) /\ d[i] \in T
      OBVIOUS
    <2>2. i - 1 \in 0..Len(d) /\ i \in 1..Len(d)
      BY <2>1
    <2> QED
      BY <2>2
  <1>4. Kept(g, d, S)
    <2>1. g = [i \in 0..Len(d) |-> g[i]]
      OBVIOUS
    <2>2. \A i \in 0..Len(d) :
             g[i] = IF i = 0 THEN <<>>
                    ELSE IF d[i] \in S THEN Append(g[i - 1], d[i]) ELSE g[i - 1]
      BY <1>2, <1>3 DEF Accrues
    <2> QED
      BY <2>1, <2>2 DEF Kept
  <1>5. Only(d, S) = (CHOOSE k : Kept(k, d, S))[Len(d)]
    BY DEF Only, Kept
  <1> QED
    BY <1>4, <1>5

\* An element more.
LEMMA HasAppend ==
    ASSUME NEW T, NEW d \in Seq(T), NEW x \in T
    PROVE  /\ Append(d, x) \in Seq(T)
           /\ Len(Append(d, x)) = Len(d) + 1 /\ Len(d) \in Nat
           /\ Append(d, x)[Len(d) + 1] = x
           /\ \A i \in 1..Len(d) : Append(d, x)[i] = d[i]
           /\ \A R : Has(Append(d, x), R) <=> Has(d, R) \/ x \in R
PROOF
  <1> DEFINE u == Append(d, x)
             n == Len(d)
  <1>1. /\ u \in Seq(T) /\ Len(u) = n + 1 /\ n \in Nat /\ u[n + 1] = x
        /\ \A i \in 1..n : u[i] = d[i]
        /\ DOMAIN u = 1..(n + 1) /\ DOMAIN d = 1..n
    BY AppendProperties
  <1> HIDE DEF u
  <1>2. \A R : Has(u, R) <=> Has(d, R) \/ x \in R
    BY <1>1 DEF Has
  <1> QED
    BY <1>1, <1>2 DEF u

\* Element after element, what is kept is appended.
LEMMA OnlyAppend ==
    /\ \A S : Only(<<>>, S) = <<>>
    /\ \A T : \A d \in Seq(T) : \A x \in T : \A S :
          Only(Append(d, x), S) = IF x \in S THEN Append(Only(d, S), x) ELSE Only(d, S)
PROOF
  <1>1. ASSUME NEW S PROVE Only(<<>>, S) = <<>>
    <2>1. <<>> \in Seq({})
      OBVIOUS
    <2>2. PICK k : Kept(k, <<>>, S) /\ Only(<<>>, S) = k[Len(<<>>)]
      BY <2>1, OnlyIsKept
    <2> QED
      BY <2>2 DEF Kept
  <1>2. ASSUME NEW T, NEW d \in Seq(T), NEW x \in T, NEW S
        PROVE  Only(Append(d, x), S) = IF x \in S THEN Append(Only(d, S), x) ELSE Only(d, S)
    <2> DEFINE e == Append(d, x)
               n == Len(d)
    <2>1. /\ e \in Seq(T) /\ Len(e) = n + 1 /\ n \in Nat /\ e[n + 1] = x
          /\ \A i \in 1..n : e[i] = d[i]
      BY AppendProperties
    <2> HIDE DEF e
    <2>2. PICK k : Kept(k, d, S) /\ Only(d, S) = k[n]
      BY OnlyIsKept
    <2>3. PICK h : Kept(h, e, S) /\ Only(e, S) = h[n + 1]
      BY <2>1, OnlyIsKept
    <2> DEFINE fails == {i \in 0..n : h[i] # k[i]}
    <2>4. fails = {}
      <3>1. SUFFICES ASSUME fails # {} PROVE FALSE
        OBVIOUS
      <3>2. PICK i \in fails : \A j \in fails : i <= j
        <4>1. fails \in SUBSET Nat
          OBVIOUS
        <4> QED
          BY <3>1, <4>1, Least
      <3>3. i \in 0..n /\ i \in 0..(n + 1) /\ h[i] # k[i]
        BY <2>1, <3>2
      <3>4. k[i] = IF i = 0 THEN <<>> ELSE IF d[i] \in S THEN Append(k[i - 1], d[i]) ELSE k[i - 1]
        BY <2>2, <3>3 DEF Kept
      <3>5. h[i] = IF i = 0 THEN <<>> ELSE IF e[i] \in S THEN Append(h[i - 1], e[i]) ELSE h[i - 1]
        BY <2>1, <2>3, <3>3 DEF Kept
      <3>6. i # 0 => h[i - 1] = k[i - 1] /\ e[i] = d[i]
        BY <2>1, <3>2, <3>3
      <3> QED
        BY <3>3, <3>4, <3>5, <3>6
    <2>5. h[n] = k[n]
      BY <2>1, <2>4
    <2>6. h[n + 1] = IF e[n + 1] \in S THEN Append(h[n], e[n + 1]) ELSE h[n]
      <3>1. n + 1 \in 0..Len(e) /\ n + 1 # 0 /\ (n + 1) - 1 = n
        BY <2>1
      <3> QED
        BY <2>3, <3>1 DEF Kept
    <2> QED
      BY <2>1, <2>2, <2>3, <2>5, <2>6 DEF e
  <1> QED
    BY <1>1, <1>2

\* A sequence of one.
LEMMA OnlyOne ==
    ASSUME NEW T, NEW x \in T, NEW S
    PROVE  Only(<<x>>, S) = IF x \in S THEN <<x>> ELSE <<>>
PROOF
  <1>1. <<>> \in Seq(T) /\ Append(<<>>, x) = <<x>>
    OBVIOUS
  <1>2. Only(Append(<<>>, x), S) = IF x \in S THEN Append(Only(<<>>, S), x) ELSE Only(<<>>, S)
    BY <1>1, OnlyAppend
  <1>3. Only(<<>>, S) = <<>>
    BY OnlyAppend
  <1> QED
    BY <1>1, <1>2, <1>3

\* What is kept is of the sequence and in the set, and all of that is kept.
LEMMA OnlyType ==
    ASSUME NEW T, NEW d \in Seq(T), NEW S
    PROVE  /\ Only(d, S) \in Seq(T \cap S)
           /\ \A R : Has(Only(d, S), R) <=> Has(d, S \cap R)
PROOF
  <1> DEFINE G == {e \in Seq(T) : /\ Only(e, S) \in Seq(T \cap S)
                                  /\ \A R : Has(Only(e, S), R) <=> Has(e, S \cap R)}
  <1>1. <<>> \in G
    <2>1. Only(<<>>, S) = <<>>
      BY OnlyAppend
    <2>2. \A R : ~Has(<<>>, R)
      BY DEF Has
    <2>3. <<>> \in Seq(T \cap S) /\ <<>> \in Seq(T)
      OBVIOUS
    <2>4. \A R : Has(Only(<<>>, S), R) <=> Has(<<>>, S \cap R)
      BY <2>1, <2>2, Zenon
    <2>5. Only(<<>>, S) \in Seq(T \cap S)
      BY <2>1, <2>3, Zenon
    <2> QED
      BY <2>3, <2>4, <2>5
  <1>2. ASSUME NEW e \in Seq(T) \cap G, NEW x \in T PROVE Append(e, x) \in G
    <2>1. Append(e, x) \in Seq(T) /\ \A R : Has(Append(e, x), R) <=> Has(e, R) \/ x \in R
      BY HasAppend
    <2>2. Only(e, S) \in Seq(T \cap S) /\ \A R : Has(Only(e, S), R) <=> Has(e, S \cap R)
      OBVIOUS
    <2>3. Only(Append(e, x), S) = IF x \in S THEN Append(Only(e, S), x) ELSE Only(e, S)
      BY OnlyAppend
    <2> DEFINE u == Append(e, x)
               o == Only(e, S)
    <2>4. CASE x \in S
      <3>1. /\ Append(o, x) \in Seq(T \cap S)
            /\ \A R : Has(Append(o, x), R) <=> Has(o, R) \/ x \in R
        BY <2>2, <2>4, HasAppend
      <3> HIDE DEF u, o
      <3>2. /\ Only(u, S) \in Seq(T \cap S)
            /\ \A R : Has(Only(u, S), R) <=> Has(u, S \cap R)
        BY <2>1, <2>2, <2>3, <2>4, <3>1 DEF u, o
      <3> QED
        BY <2>1, <3>2 DEF u
    <2>5. CASE x \notin S
      <3> HIDE DEF u, o
      <3>1. /\ Only(u, S) \in Seq(T \cap S)
            /\ \A R : Has(Only(u, S), R) <=> Has(u, S \cap R)
        BY <2>1, <2>2, <2>3, <2>5 DEF u, o
      <3> QED
        BY <2>1, <3>1 DEF u
    <2> QED
      BY <2>4, <2>5
  <1> HIDE DEF G
  <1>3. d \in G
    BY <1>1, <1>2, EverySequence
  <1> QED
    BY <1>3 DEF G

\* Two sets that agree on what a sequence may hold keep the same of it.
LEMMA OnlySame ==
    ASSUME NEW T, NEW d \in Seq(T), NEW S, NEW Q, \A x \in T : x \in S <=> x \in Q
    PROVE  Only(d, S) = Only(d, Q)
PROOF
  <1> DEFINE G == {e \in Seq(T) : Only(e, S) = Only(e, Q)}
  <1>1. <<>> \in G
    <2>1. Only(<<>>, S) = <<>> /\ Only(<<>>, Q) = <<>>
      BY OnlyAppend
    <2>2. <<>> \in Seq(T)
      OBVIOUS
    <2> QED
      BY <2>1, <2>2
  <1>2. ASSUME NEW e \in Seq(T) \cap G, NEW x \in T PROVE Append(e, x) \in G
    <2>1. Append(e, x) \in Seq(T)
      BY HasAppend
    <2>2. Only(Append(e, x), S) = IF x \in S THEN Append(Only(e, S), x) ELSE Only(e, S)
      BY OnlyAppend
    <2>3. Only(Append(e, x), Q) = IF x \in Q THEN Append(Only(e, Q), x) ELSE Only(e, Q)
      BY OnlyAppend
    <2>4. Only(e, S) = Only(e, Q) /\ (x \in S <=> x \in Q)
      BY <1>2
    <2>5. Only(Append(e, x), S) = Only(Append(e, x), Q)
      BY <2>2, <2>3, <2>4
    <2> QED
      BY <2>1, <2>5
  <1> HIDE DEF G
  <1>3. d \in G
    BY <1>1, <1>2, EverySequence
  <1> QED
    BY <1>3 DEF G

\* What is not in a set is what is in the rest of the alphabet.
LEMMA FreeIsOnly ==
    ASSUME NEW T, NEW d \in Seq(T), NEW S
    PROVE  Free(d, S) = Only(d, T \ S)
PROOF
  <1>1. Range(d) \subseteq T /\ d \in Seq(Range(d))
    BY DEF Range
  <1> DEFINE r == Range(d)
  <1> HIDE DEF r
  <1>2. \A x \in r : x \in r \ S <=> x \in T \ S
    BY <1>1 DEF r
  <1>3. Only(d, r \ S) = Only(d, T \ S)
    BY <1>1, <1>2, OnlySame DEF r
  <1> QED
    BY <1>3 DEF Free, r

\* Of what a set keeps, another keeps what is in both.
LEMMA OnlyOnly ==
    ASSUME NEW T, NEW d \in Seq(T), NEW S, NEW Q
    PROVE  Only(Only(d, S), Q) = Only(d, S \cap Q)
PROOF
  <1> DEFINE G == {e \in Seq(T) : Only(Only(e, S), Q) = Only(e, S \cap Q)}
  <1>1. <<>> \in G
    <2>1. Only(<<>>, S) = <<>> /\ Only(<<>>, Q) = <<>> /\ Only(<<>>, S \cap Q) = <<>>
      BY OnlyAppend
    <2>2. <<>> \in Seq(T)
      OBVIOUS
    <2> QED
      BY <2>1, <2>2
  <1>2. ASSUME NEW e \in Seq(T) \cap G, NEW x \in T PROVE Append(e, x) \in G
    <2>1. Append(e, x) \in Seq(T)
      BY HasAppend
    <2>2. Only(Append(e, x), S) = IF x \in S THEN Append(Only(e, S), x) ELSE Only(e, S)
      BY OnlyAppend
    <2>3. Only(Append(e, x), S \cap Q)
            = IF x \in S \cap Q THEN Append(Only(e, S \cap Q), x) ELSE Only(e, S \cap Q)
      BY OnlyAppend
    <2>4. Only(e, S) \in Seq(T)
      <3>1. Only(e, S) \in Seq(T \cap S)
        BY OnlyType
      <3> QED
        BY <3>1
    <2>5. Only(Append(Only(e, S), x), Q)
            = IF x \in Q THEN Append(Only(Only(e, S), Q), x) ELSE Only(Only(e, S), Q)
      BY <2>4, OnlyAppend, ZenonT(60)
    <2>6. Only(Only(e, S), Q) = Only(e, S \cap Q)
      OBVIOUS
    <2>7. Only(Only(Append(e, x), S), Q) = Only(Append(e, x), S \cap Q)
      <3> HIDE DEF G
      <3>1. CASE x \in S
        <4>1. Only(Append(e, x), S) = Append(Only(e, S), x)
          BY <2>2, <3>1
        <4>2. x \in S \cap Q <=> x \in Q
          BY <3>1
        <4> QED
          BY <2>3, <2>5, <2>6, <4>1, <4>2, Zenon
      <3>2. CASE x \notin S
        BY <2>2, <2>3, <2>6, <3>2
      <3> QED
        BY <3>1, <3>2
    <2> QED
      BY <2>1, <2>7
  <1> HIDE DEF G
  <1>3. d \in G
    BY <1>1, <1>2, EverySequence
  <1> QED
    BY <1>3 DEF G

\* A set that holds all of a sequence keeps all of it, one that holds none nothing.
LEMMA OnlyAll ==
    ASSUME NEW T, NEW d \in Seq(T), NEW S
    PROVE  /\ T \subseteq S => Only(d, S) = d
           /\ T \cap S = {} => Only(d, S) = <<>>
PROOF
  <1> DEFINE G == {e \in Seq(T) : /\ T \subseteq S => Only(e, S) = e
                                  /\ T \cap S = {} => Only(e, S) = <<>>}
  <1>1. <<>> \in G
    <2>1. Only(<<>>, S) = <<>>
      BY OnlyAppend
    <2>2. <<>> \in Seq(T)
      OBVIOUS
    <2> QED
      BY <2>1, <2>2
  <1>2. ASSUME NEW e \in Seq(T) \cap G, NEW x \in T PROVE Append(e, x) \in G
    <2>1. Append(e, x) \in Seq(T)
      BY HasAppend
    <2>2. Only(Append(e, x), S) = IF x \in S THEN Append(Only(e, S), x) ELSE Only(e, S)
      BY OnlyAppend
    <2> QED
      BY <2>1, <2>2
  <1> HIDE DEF G
  <1>3. d \in G
    BY <1>1, <1>2, EverySequence
  <1> QED
    BY <1>3 DEF G

\* One sequence after another.
LEMMA Joined ==
    ASSUME NEW T, NEW d \in Seq(T), NEW e \in Seq(T), NEW x \in T
    PROVE  /\ d \o <<>> = d /\ <<>> \o d = d /\ d \o e \in Seq(T)
           /\ d \o Append(e, x) = Append(d \o e, x)
           /\ d \o <<x>> = Append(d, x)
PROOF
  <1>1. d \o <<>> = d /\ <<>> \o d = d
    BY ConcatEmptySeq
  <1>2. d \o e \in Seq(T)
    OBVIOUS
  <1>3. d \o Append(e, x) = Append(d \o e, x)
    OBVIOUS
  <1>4. d \o <<x>> = Append(d, x)
    OBVIOUS
  <1> QED
    BY <1>1, <1>2, <1>3, <1>4

\* A filter takes two texts one after the other.
LEMMA OnlyJoined ==
    ASSUME NEW T, NEW d \in Seq(T), NEW e \in Seq(T), NEW S
    PROVE  Only(d \o e, S) = Only(d, S) \o Only(e, S)
PROOF
  <1> DEFINE G == {u \in Seq(T) : Only(d \o u, S) = Only(d, S) \o Only(u, S)}
  <1>1. Only(d, S) \in Seq(T)
    <2>1. Only(d, S) \in Seq(T \cap S)
      BY OnlyType
    <2> QED
      BY <2>1
  <1>2. <<>> \in G
    <2>1. Only(<<>>, S) = <<>>
      BY OnlyAppend
    <2>2. <<>> \in Seq(T)
      OBVIOUS
    <2>3. d \o <<>> = d /\ Only(d, S) \o <<>> = Only(d, S)
      BY <1>1, ConcatEmptySeq
    <2> QED
      BY <2>1, <2>2, <2>3
  <1>3. ASSUME NEW u \in Seq(T) \cap G, NEW x \in T PROVE Append(u, x) \in G
    <2>1. Append(u, x) \in Seq(T)
      BY HasAppend
    <2>2. Only(Append(u, x), S) = IF x \in S THEN Append(Only(u, S), x) ELSE Only(u, S)
      BY OnlyAppend
    <2>3. d \o u \in Seq(T) /\ d \o Append(u, x) = Append(d \o u, x)
      BY Joined
    <2>4. Only(Append(d \o u, x), S)
            = IF x \in S THEN Append(Only(d \o u, S), x) ELSE Only(d \o u, S)
      BY <2>3, OnlyAppend, ZenonT(60)
    <2>5. Only(u, S) \in Seq(T)
      <3>1. Only(u, S) \in Seq(T \cap S)
        BY OnlyType
      <3> QED
        BY <3>1
    <2>6. Only(d, S) \o Append(Only(u, S), x) = Append(Only(d, S) \o Only(u, S), x)
      BY <1>1, <2>5, Joined
    <2>7. Only(d \o u, S) = Only(d, S) \o Only(u, S)
      OBVIOUS
    <2>8. Only(d \o Append(u, x), S) = Only(d, S) \o Only(Append(u, x), S)
      <3> HIDE DEF G
      <3> QED
        BY <2>2, <2>3, <2>4, <2>6, <2>7
    <2> QED
      BY <2>1, <2>8
  <1> HIDE DEF G
  <1>4. e \in G
    BY <1>2, <1>3, EverySequence
  <1> QED
    BY <1>4 DEF G

\* What is joined, character by character.
LEMMA JoinedAt ==
    ASSUME NEW T, NEW a \in Seq(T), NEW w \in Seq(T)
    PROVE  /\ a \o w \in Seq(T) /\ Len(a \o w) = Len(a) + Len(w)
           /\ DOMAIN (a \o w) = 1..(Len(a) + Len(w))
           /\ Len(a) \in Nat /\ Len(w) \in Nat
           /\ \A i \in 1..Len(a) : (a \o w)[i] = a[i]
           /\ \A i \in 1..Len(w) : (a \o w)[Len(a) + i] = w[i]
PROOF
  <1>1. Len(a) \in Nat /\ Len(w) \in Nat
    BY LenProperties
  <1>2. a \o w \in Seq(T) /\ Len(a \o w) = Len(a) + Len(w)
        /\ \A i \in 1..(Len(a) + Len(w)) :
                (a \o w)[i] = IF i <= Len(a) THEN a[i] ELSE w[i - Len(a)]
    BY ConcatProperties
  <1>3. DOMAIN (a \o w) = 1..(Len(a) + Len(w))
    BY <1>2, LenProperties
  <1>4. \A i \in 1..Len(a) : (a \o w)[i] = a[i]
    <2> DEFINE x == a \o w
    <2> HIDE DEF x
    <2> SUFFICES ASSUME NEW i \in 1..Len(a) PROVE x[i] = a[i]
      BY DEF x
    <2>1. i \in 1..(Len(a) + Len(w)) /\ i <= Len(a)
      BY <1>1
    <2> QED
      BY <1>2, <2>1 DEF x
  <1>5. \A i \in 1..Len(w) : (a \o w)[Len(a) + i] = w[i]
    <2> DEFINE x == a \o w
    <2> HIDE DEF x
    <2> SUFFICES ASSUME NEW i \in 1..Len(w) PROVE x[Len(a) + i] = w[i]
      BY DEF x
    <2>1. Len(a) + i \in 1..(Len(a) + Len(w)) /\ ~(Len(a) + i <= Len(a)) /\ Len(a) + i - Len(a) = i
      BY <1>1
    <2> QED
      BY <1>2, <2>1 DEF x
  <1> QED
    BY <1>1, <1>2, <1>3, <1>4, <1>5

\* A text has what its two parts have.
LEMMA HasJoined ==
    ASSUME NEW T, NEW a \in Seq(T), NEW w \in Seq(T), NEW S
    PROVE  Has(a \o w, S) <=> Has(a, S) \/ Has(w, S)
PROOF
  <1> DEFINE x == a \o w
  <1>1. /\ DOMAIN x = 1..(Len(a) + Len(w)) /\ Len(a) \in Nat /\ Len(w) \in Nat
        /\ \A i \in 1..Len(a) : x[i] = a[i]
        /\ \A i \in 1..Len(w) : x[Len(a) + i] = w[i]
    BY JoinedAt
  <1>2. DOMAIN a = 1..Len(a) /\ DOMAIN w = 1..Len(w)
    BY LenProperties
  <1> HIDE DEF x
  <1>3. ASSUME NEW i \in DOMAIN x, x[i] \in S PROVE Has(a, S) \/ Has(w, S)
    <2>1. CASE i <= Len(a)
      BY <1>1, <1>2, <1>3, <2>1 DEF Has
    <2>2. CASE ~(i <= Len(a))
      <3>1. i - Len(a) \in 1..Len(w) /\ Len(a) + (i - Len(a)) = i
        BY <1>1, <2>2
      <3>2. x[i] = w[i - Len(a)]
        BY <1>1, <3>1
      <3> QED
        BY <1>2, <1>3, <3>1, <3>2 DEF Has
    <2> QED
      BY <2>1, <2>2
  <1>4. ASSUME NEW i \in DOMAIN a, a[i] \in S PROVE Has(x, S)
    <2>1. i \in DOMAIN x /\ x[i] = a[i]
      BY <1>1, <1>2
    <2> QED
      BY <1>4, <2>1 DEF Has
  <1>5. ASSUME NEW i \in DOMAIN w, w[i] \in S PROVE Has(x, S)
    <2>1. Len(a) + i \in DOMAIN x /\ x[Len(a) + i] = w[i]
      BY <1>1, <1>2
    <2> QED
      BY <1>5, <2>1 DEF Has
  <1>6. Has(x, S) <=> Has(a, S) \/ Has(w, S)
    BY <1>3, <1>4, <1>5 DEF Has
  <1> QED
    BY <1>6 DEF x

\* A text without some characters is one of the others.
LEMMA Without ==
    ASSUME NEW T, NEW d \in Seq(T), NEW S, ~Has(d, S)
    PROVE  d \in Seq(T \ S)
PROOF
  <1>1. Len(d) \in Nat /\ DOMAIN d = 1..Len(d) /\ d = [i \in 1..Len(d) |-> d[i]]
    BY LenProperties
  <1>2. \A i \in 1..Len(d) : d[i] \in T \ S
    BY <1>1, ElementOfSeq DEF Has
  <1>3. d \in [1..Len(d) -> T \ S]
    BY <1>1, <1>2
  <1> QED
    BY <1>1, <1>3, IsASeq

\* What two texts have alike they have or have not.
LEMMA SameHas ==
    ASSUME NEW T, NEW d \in Seq(T), NEW e \in Seq(T), NEW S, Only(d, S) = Only(e, S)
    PROVE  Has(d, S) <=> Has(e, S)
PROOF
  <1>1. Has(Only(d, S), S) <=> Has(d, S \cap S)
    BY OnlyType
  <1>2. Has(Only(e, S), S) <=> Has(e, S \cap S)
    BY OnlyType
  <1>3. S \cap S = S
    OBVIOUS
  <1> QED
    BY <1>1, <1>2, <1>3

\* Two sequences of one length, pair by pair in a relation.
Pairwise(d, e, R) == Len(d) = Len(e) /\ \A i \in 1..Len(d) : <<d[i], e[i]>> \in R

\* Two texts related symbol by symbol stay so when each grows by one.
LEMMA PairwiseAppend ==
    ASSUME NEW T, NEW R, NEW d \in Seq(T), NEW x \in T, NEW e \in Seq(T), NEW y \in T
    PROVE  Pairwise(Append(d, x), Append(e, y), R) <=> Pairwise(d, e, R) /\ <<x, y>> \in R
PROOF
  <1> DEFINE u == Append(d, x)
             v == Append(e, y)
  <1>1. /\ Len(u) = Len(d) + 1 /\ Len(d) \in Nat /\ u[Len(d) + 1] = x
        /\ \A i \in 1..Len(d) : u[i] = d[i]
        /\ Len(v) = Len(e) + 1 /\ Len(e) \in Nat /\ v[Len(e) + 1] = y
        /\ \A i \in 1..Len(e) : v[i] = e[i]
    BY HasAppend
  <1> HIDE DEF u, v
  <1>2. Pairwise(u, v, R) <=> Pairwise(d, e, R) /\ <<x, y>> \in R
    BY <1>1 DEF Pairwise
  <1> QED
    BY <1>2 DEF u, v

\* Sets that agree on the pairs keep pairs of two sequences.
LEMMA OnlyPairwise ==
    ASSUME NEW T, NEW R, NEW S, NEW Q, NEW d \in Seq(T), NEW e \in Seq(T),
           \A x \in T, y \in T : <<x, y>> \in R => (x \in S <=> y \in Q),
           Pairwise(d, e, R)
    PROVE  Pairwise(Only(d, S), Only(e, Q), R)
PROOF
  <1> DEFINE G == {u \in Seq(T) :
                    \A v \in Seq(T) : Pairwise(u, v, R) => Pairwise(Only(u, S), Only(v, Q), R)}
  <1>1. <<>> \in G
    <2>1. ASSUME NEW v \in Seq(T), Pairwise(<<>>, v, R)
          PROVE  Pairwise(Only(<<>>, S), Only(v, Q), R)
      <3>1. v = <<>>
        BY <2>1 DEF Pairwise
      <3>2. Only(<<>>, S) = <<>> /\ Only(v, Q) = <<>>
        BY <3>1, OnlyAppend
      <3> QED
        BY <3>2 DEF Pairwise
    <2>2. <<>> \in Seq(T)
      OBVIOUS
    <2> QED
      BY <2>1, <2>2
  <1>2. ASSUME NEW u \in Seq(T) \cap G, NEW x \in T PROVE Append(u, x) \in G
    <2>1. ASSUME NEW v \in Seq(T), Pairwise(Append(u, x), v, R)
          PROVE  Pairwise(Only(Append(u, x), S), Only(v, Q), R)
      <3>1. PICK w \in Seq(T), y \in T : v = Append(w, y)
        <4>1. u \in Seq(T)
          OBVIOUS
        <4> HIDE DEF G
        <4>2. Len(Append(u, x)) = Len(u) + 1 /\ Len(u) \in Nat
          BY <4>1, HasAppend
        <4>3. Len(v) # 0
          BY <2>1, <4>2 DEF Pairwise
        <4> QED
          BY <4>3, SequenceEmptyOrAppend
      <3>2. Pairwise(u, w, R) /\ <<x, y>> \in R
        BY <2>1, <3>1, PairwiseAppend
      <3>3. Pairwise(Only(u, S), Only(w, Q), R)
        BY <3>2
      <3>4. x \in S <=> y \in Q
        BY <3>2
      <3>5. Only(Append(u, x), S) = IF x \in S THEN Append(Only(u, S), x) ELSE Only(u, S)
        BY OnlyAppend
      <3>6. Only(v, Q) = IF y \in Q THEN Append(Only(w, Q), y) ELSE Only(w, Q)
        BY <3>1, OnlyAppend
      <3>7. Only(u, S) \in Seq(T) /\ Only(w, Q) \in Seq(T)
        <4>1. Only(u, S) \in Seq(T \cap S) /\ Only(w, Q) \in Seq(T \cap Q)
          BY OnlyType
        <4> QED
          BY <4>1
      <3>8. Pairwise(Append(Only(u, S), x), Append(Only(w, Q), y), R)
        BY <3>2, <3>3, <3>7, PairwiseAppend
      <3> HIDE DEF G
      <3> QED
        BY <3>3, <3>4, <3>5, <3>6, <3>8
    <2>2. Append(u, x) \in Seq(T)
      BY HasAppend
    <2> QED
      BY <2>1, <2>2
  <1> HIDE DEF G
  <1>3. d \in G
    BY <1>1, <1>2, EverySequence
  <1> QED
    BY <1>3 DEF G

\* As much is kept as there is to keep.
LEMMA OnlyCount ==
    ASSUME NEW T, NEW d \in Seq(T), NEW S
    PROVE  /\ IsFiniteSet({i \in 1..Len(d) : d[i] \in S})
           /\ Len(Only(d, S)) = Cardinality({i \in 1..Len(d) : d[i] \in S})
PROOF
  <1> DEFINE at(e) == {i \in 1..Len(e) : e[i] \in S}
             G == {e \in Seq(T) : IsFiniteSet(at(e)) /\ Len(Only(e, S)) = Cardinality(at(e))}
  <1>1. <<>> \in G
    <2>1. at(<<>>) = {} /\ IsFiniteSet({}) /\ Cardinality({}) = 0
      BY FS_EmptySet
    <2>2. Len(Only(<<>>, S)) = 0
      BY OnlyAppend
    <2>3. <<>> \in Seq(T)
      OBVIOUS
    <2> HIDE DEF at
    <2> QED
      BY <2>1, <2>2, <2>3
  <1>2. ASSUME NEW e \in Seq(T) \cap G, NEW x \in T PROVE Append(e, x) \in G
    <2> DEFINE u == Append(e, x)
               n == Len(e)
    <2>1. /\ u \in Seq(T) /\ Len(u) = n + 1 /\ n \in Nat /\ u[n + 1] = x
          /\ \A i \in 1..n : u[i] = e[i]
      BY HasAppend
    <2>2. Only(u, S) = IF x \in S THEN Append(Only(e, S), x) ELSE Only(e, S)
      BY OnlyAppend
    <2>3. IsFiniteSet(at(e)) /\ Len(Only(e, S)) = Cardinality(at(e))
      OBVIOUS
    <2> HIDE DEF u
    <2>4. at(u) = IF x \in S THEN at(e) \cup {n + 1} ELSE at(e)
      BY <2>1
    <2>5. n + 1 \notin at(e)
      BY <2>1
    <2>6. x \in S => Len(Append(Only(e, S), x)) = Len(Only(e, S)) + 1
      <3>1. SUFFICES ASSUME x \in S PROVE Len(Append(Only(e, S), x)) = Len(Only(e, S)) + 1
        OBVIOUS
      <3>2. Only(e, S) \in Seq(T \cap S)
        BY OnlyType
      <3> QED
        BY <3>1, <3>2, HasAppend
    <2> HIDE DEF at
    <2>7. IsFiniteSet(at(u))
          /\ Cardinality(at(u)) = IF x \in S THEN Cardinality(at(e)) + 1 ELSE Cardinality(at(e))
      <3>1. CASE x \in S
        BY <2>3, <2>4, <2>5, <3>1, FS_AddElement
      <3>2. CASE x \notin S
        BY <2>3, <2>4, <3>2
      <3> QED
        BY <3>1, <3>2
    <2>8. u \in G
      BY <2>1, <2>2, <2>3, <2>6, <2>7
    <2> QED
      BY <2>8 DEF u
  <1> HIDE DEF G
  <1>3. d \in G
    BY <1>1, <1>2, EverySequence
  <1> QED
    BY <1>3 DEF G

\* An element written over, of a sequence with one more.
LEMMA ExceptAppend ==
    ASSUME NEW T, NEW d \in Seq(T), NEW y \in T, NEW x \in T
    PROVE  /\ \A i \in 1..Len(d) :
                /\ [d EXCEPT ![i] = x] \in Seq(T)
                /\ Len([d EXCEPT ![i] = x]) = Len(d)
                /\ [Append(d, y) EXCEPT ![i] = x] = Append([d EXCEPT ![i] = x], y)
           /\ [Append(d, y) EXCEPT ![Len(d) + 1] = x] = Append(d, x)
PROOF
  <1> DEFINE n == Len(d)
             u == Append(d, y)
  <1>1. /\ u \in Seq(T) /\ Len(u) = n + 1 /\ n \in Nat /\ u[n + 1] = y
        /\ \A i \in 1..n : u[i] = d[i]
    BY HasAppend
  <1> HIDE DEF u
  <1>2. u = [i \in 1..(n + 1) |-> u[i]]
    <2>1. u \in [1..(n + 1) -> T]
      BY <1>1, LenProperties
    <2> QED
      BY <2>1
  <1>3. ASSUME NEW i \in 1..n
        PROVE  /\ [d EXCEPT ![i] = x] \in Seq(T) /\ Len([d EXCEPT ![i] = x]) = n
               /\ [u EXCEPT ![i] = x] = Append([d EXCEPT ![i] = x], y)
    <2> DEFINE e == [d EXCEPT ![i] = x]
               v == Append(e, y)
    <2>1. e \in Seq(T) /\ Len(e) = n
      BY <1>1, ExceptSeq
    <2>2. \A j \in 1..n : e[j] = IF j = i THEN x ELSE d[j]
      BY <1>1
    <2> HIDE DEF e
    <2>3. /\ v \in Seq(T) /\ Len(v) = n + 1 /\ v[n + 1] = y
          /\ \A j \in 1..n : v[j] = e[j]
      BY <2>1, HasAppend
    <2> HIDE DEF v
    <2>4. v = [j \in 1..(n + 1) |-> v[j]]
      <3>1. v \in [1..(n + 1) -> T]
        BY <2>3, LenProperties
      <3> QED
        BY <3>1
    <2>5. [u EXCEPT ![i] = x] = [j \in 1..(n + 1) |-> IF j = i THEN x ELSE u[j]]
      BY <1>2
    <2>6. \A j \in 1..(n + 1) : v[j] = IF j = i THEN x ELSE u[j]
      BY <1>1, <2>2, <2>3
    <2>7. [u EXCEPT ![i] = x] = v
      BY <2>4, <2>5, <2>6
    <2> QED
      BY <2>1, <2>7 DEF v, e
  <1>4. [u EXCEPT ![n + 1] = x] = Append(d, x)
    <2> DEFINE v == Append(d, x)
    <2>1. /\ v \in Seq(T) /\ Len(v) = n + 1 /\ v[n + 1] = x
          /\ \A j \in 1..n : v[j] = d[j]
      BY HasAppend
    <2> HIDE DEF v
    <2>2. v = [j \in 1..(n + 1) |-> v[j]]
      <3>1. v \in [1..(n + 1) -> T]
        BY <2>1, LenProperties
      <3> QED
        BY <3>1
    <2>3. [u EXCEPT ![n + 1] = x] = [j \in 1..(n + 1) |-> IF j = n + 1 THEN x ELSE u[j]]
      BY <1>2
    <2>4. \A j \in 1..(n + 1) : v[j] = IF j = n + 1 THEN x ELSE u[j]
      BY <1>1, <2>1
    <2>5. [u EXCEPT ![n + 1] = x] = v
      BY <2>2, <2>3, <2>4
    <2> QED
      BY <2>5 DEF v
  <1> QED
    BY <1>3, <1>4 DEF u

\* Which of those that are kept an element is.
Nth(d, S, i) == Cardinality({k \in 1..i : d[k] \in S})

\* What is kept and written over, is written over where it is kept.
LEMMA OnlyExcept ==
    ASSUME NEW T, NEW d \in Seq(T), NEW S, NEW x \in T \cap S,
           NEW i \in 1..Len(d), d[i] \in S
    PROVE  /\ Nth(d, S, i) \in 1..Len(Only(d, S))
           /\ Only([d EXCEPT ![i] = x], S) = [Only(d, S) EXCEPT ![Nth(d, S, i)] = x]
PROOF
  <1> DEFINE count(e, h) == Cardinality({k \in 1..h : e[k] \in S})
             Good(e, h) == /\ count(e, h) \in 1..Len(Only(e, S))
                           /\ Only([e EXCEPT ![h] = x], S)
                                = [Only(e, S) EXCEPT ![count(e, h)] = x]
             G == {e \in Seq(T) : \A h \in 1..Len(e) : e[h] \in S => Good(e, h)}
  <1>1. <<>> \in G
    <2>1. 1..Len(<<>>) = {} /\ <<>> \in Seq(T)
      OBVIOUS
    <2> HIDE DEF Good
    <2> QED
      BY <2>1
  <1>2. ASSUME NEW e \in Seq(T) \cap G, NEW y \in T PROVE Append(e, y) \in G
    <2> DEFINE u == Append(e, y)
               n == Len(e)
               o == Only(e, S)
    <2>1. /\ u \in Seq(T) /\ Len(u) = n + 1 /\ n \in Nat /\ u[n + 1] = y
          /\ \A k \in 1..n : u[k] = e[k]
      BY HasAppend
    <2>2. Only(u, S) = IF y \in S THEN Append(o, y) ELSE o
      BY OnlyAppend
    <2>3. o \in Seq(T \cap S) /\ Len(o) \in Nat
      BY OnlyType
    <2>4. \A h \in 1..n : e[h] \in S => Good(e, h)
      OBVIOUS
    <2>5. ASSUME NEW h \in 1..(n + 1), u[h] \in S PROVE Good(u, h)
      <3>1. CASE h \in 1..n
        <4>1. {k \in 1..h : u[k] \in S} = {k \in 1..h : e[k] \in S}
          <5> HIDE DEF u
          <5> QED
            BY <2>1, <3>1
        <4> DEFINE j == count(e, h)
        <4>2. count(u, h) = j
          BY <4>1
        <4>3. e[h] \in S
          BY <2>1, <2>5, <3>1
        <4>4. j \in 1..Len(o) /\ Only([e EXCEPT ![h] = x], S) = [o EXCEPT ![j] = x]
          BY <2>4, <3>1, <4>3
        <4>5. [e EXCEPT ![h] = x] \in Seq(T) /\ [u EXCEPT ![h] = x] = Append([e EXCEPT ![h] = x], y)
          BY <3>1, ExceptAppend
        <4>6. Only(Append([e EXCEPT ![h] = x], y), S)
                = IF y \in S THEN Append(Only([e EXCEPT ![h] = x], S), y)
                  ELSE Only([e EXCEPT ![h] = x], S)
          BY <4>5, OnlyAppend, ZenonT(60)
        <4>7. y \in S => /\ [Append(o, y) EXCEPT ![j] = x] = Append([o EXCEPT ![j] = x], y)
                         /\ Len(Append(o, y)) = Len(o) + 1
          <5>1. SUFFICES ASSUME y \in S
                         PROVE  /\ [Append(o, y) EXCEPT ![j] = x] = Append([o EXCEPT ![j] = x], y)
                                /\ Len(Append(o, y)) = Len(o) + 1
            OBVIOUS
          <5> HIDE DEF j, o
          <5>2. y \in T \cap S /\ x \in T \cap S
            BY <5>1
          <5> QED
            BY <2>3, <4>4, <5>2, ExceptAppend, HasAppend
        <4>8. Len(Only(u, S)) \in Nat /\ Len(Only(u, S)) >= Len(o)
          <5> HIDE DEF o, u
          <5> QED
            BY <2>2, <2>3, <4>7
        <4>9. count(u, h) \in 1..Len(Only(u, S))
          <5> HIDE DEF o, u, j
          <5> QED
            BY <2>3, <4>2, <4>4, <4>8
        <4>10. Only([u EXCEPT ![h] = x], S) = [Only(u, S) EXCEPT ![count(u, h)] = x]
          <5> HIDE DEF o, u, j, count
          <5> QED
            BY <2>2, <4>2, <4>4, <4>5, <4>6, <4>7
        <4> QED
          BY <4>9, <4>10
      <3>2. CASE h = n + 1
        <4>1. y \in S /\ Only(u, S) = Append(o, y)
          BY <2>1, <2>2, <2>5, <3>2
        <4>2. Len(Append(o, y)) = Len(o) + 1
          BY <2>3, <4>1, HasAppend
        <4>3. count(u, h) = Len(Only(u, S))
          <5>1. Len(Only(u, S)) = Cardinality({k \in 1..Len(u) : u[k] \in S})
            <6>1. u \in Seq(T)
              BY <2>1
            <6> HIDE DEF u, G
            <6> QED
              BY <6>1, OnlyCount, Zenon
          <5> HIDE DEF u
          <5> QED
            BY <2>1, <3>2, <5>1
        <4>4. count(u, h) = Len(o) + 1
          <5> HIDE DEF o, u, count
          <5> QED
            BY <4>1, <4>2, <4>3
        <4>5. [u EXCEPT ![n + 1] = x] = Append(e, x)
          BY ExceptAppend
        <4>6. Only(Append(e, x), S) = Append(o, x)
          BY OnlyAppend
        <4>7. [Append(o, y) EXCEPT ![Len(o) + 1] = x] = Append(o, x)
          <5> DEFINE V == T \cap S
          <5>1. y \in V /\ x \in V /\ o \in Seq(V)
            BY <2>3, <4>1
          <5> HIDE DEF o, G, V
          <5> QED
            BY <5>1, ExceptAppend
        <4>8. count(u, h) \in 1..Len(Only(u, S))
          <5> HIDE DEF o, u, count
          <5> QED
            BY <2>3, <4>3, <4>4
        <4>9. Only([u EXCEPT ![h] = x], S) = [Only(u, S) EXCEPT ![count(u, h)] = x]
          <5> HIDE DEF o, u, count
          <5> QED
            BY <3>2, <4>1, <4>4, <4>5, <4>6, <4>7
        <4> QED
          BY <4>8, <4>9
      <3>3. h \in 1..n \/ h = n + 1
        BY <2>1
      <3> HIDE DEF Good
      <3> QED
        BY <3>1, <3>2, <3>3
    <2>6. u \in G
      <3> HIDE DEF Good
      <3> QED
        BY <2>1, <2>5
    <2> QED
      BY <2>6
  <1> HIDE DEF G
  <1>3. d \in G
    BY <1>1, <1>2, EverySequence
  <1> QED
    BY <1>3 DEF G, Nth

Flattens(h, f) ==
    h = [i \in 1..Len(f) |-> IF i = 1 THEN f[i] ELSE h[i - 1] \o f[i]]

\* Sequences one after the other: how far one is, and what there is by then.
LEMMA FlattenSteps ==
    ASSUME NEW T, NEW f \in Seq(Seq(T))
    PROVE  \E g \in [0..Len(f) -> Seq(T)] :
            /\ g[0] = <<>>
            /\ \A i \in 1..Len(f) : g[i] = g[i - 1] \o f[i]
            /\ FlattenSeq(f) = g[Len(f)]
PROOF
  <1> DEFINE n == Len(f)
             A == Seq(T)
             F == [p \in A \X A |-> p[1] \o p[2]]
  <1>1. n \in Nat /\ \A i \in 1..n : f[i] \in A
    BY ElementOfSeq, LenProperties
  <1>2. PICK g \in [0..n -> A] : Accrues(g, F, f)
    <2>1. <<>> \in A /\ F \in [A \X A -> A]
      OBVIOUS
    <2> HIDE DEF F, A
    <2> QED
      BY <2>1, Accrued DEF A
  <1>3. g[0] = <<>>
    <2>1. 0 \in 0..n
      BY <1>1
    <2> HIDE DEF F, A, n
    <2> QED
      BY <1>2, <2>1 DEF Accrues, n
  <1>4. \A i \in 1..n : g[i] = g[i - 1] \o f[i]
    <2>1. SUFFICES ASSUME NEW i \in 1..n PROVE g[i] = g[i - 1] \o f[i]
      OBVIOUS
    <2>2. i \in 0..n /\ i # 0 /\ i - 1 \in 0..n
      BY <1>1
    <2>3. g[i] = F[<<g[i - 1], f[i]>>]
      BY <1>2, <2>2 DEF Accrues
    <2>4. <<g[i - 1], f[i]>> \in A \X A
      BY <1>1, <2>2
    <2> QED
      BY <2>3, <2>4
  <1>5. FlattenSeq(f) = g[n]
    <2>1. CASE n = 0
      <3>1. f = <<>>
        BY <2>1
      <3> QED
        BY <1>3, <2>1, <3>1 DEF FlattenSeq
    <2>2. CASE n # 0
      <3> DEFINE h == [i \in 1..n |-> g[i]]
      <3>1. Flattens(h, f)
        <4>1. \A i \in 1..n : h[i] = IF i = 1 THEN f[i] ELSE h[i - 1] \o f[i]
          <5>1. SUFFICES ASSUME NEW i \in 1..n
                         PROVE  h[i] = IF i = 1 THEN f[i] ELSE h[i - 1] \o f[i]
            OBVIOUS
          <5>2. g[i] = g[i - 1] \o f[i]
            BY <1>4
          <5>3. CASE i = 1
            <6>1. <<>> \o f[i] = f[i]
              BY <1>1, ConcatEmptySeq
            <6>2. g[i - 1] = <<>>
              BY <1>3, <5>3
            <6> QED
              BY <5>2, <5>3, <6>1, <6>2
          <5>4. CASE i # 1
            <6>1. i - 1 \in 1..n
              BY <1>1, <5>4
            <6>2. h[i - 1] = g[i - 1] /\ h[i] = g[i]
              BY <6>1
            <6> QED
              BY <5>2, <5>4, <6>2
          <5> QED
            BY <5>3, <5>4
        <4>2. h = [i \in 1..n |-> h[i]]
          OBVIOUS
        <4> HIDE DEF h
        <4> QED
          BY <4>1, <4>2 DEF Flattens
      <3> HIDE DEF h
      <3>2. PICK k : Flattens(k, f) /\ FlattenSeq(f) = k[n]
        <4>1. FlattenSeq(f) = (CHOOSE k : Flattens(k, f))[n]
          BY <2>2 DEF FlattenSeq, Flattens
        <4> QED
          BY <3>1, <4>1
      <3> DEFINE fails == {i \in 1..n : k[i] # g[i]}
      <3>3. fails = {}
        <4>1. SUFFICES ASSUME fails # {} PROVE FALSE
          OBVIOUS
        <4>2. PICK i \in fails : \A j \in fails : i <= j
          <5>1. fails \in SUBSET Nat
            OBVIOUS
          <5> QED
            BY <4>1, <5>1, Least
        <4>3. i \in 1..n /\ k[i] # g[i]
          BY <4>2
        <4>4. k[i] = IF i = 1 THEN f[i] ELSE k[i - 1] \o f[i]
          BY <3>2, <4>3 DEF Flattens
        <4>5. i # 1 => k[i - 1] = g[i - 1]
          BY <1>1, <4>2, <4>3
        <4>6. i = 1 => g[i] = f[i]
          <5>1. SUFFICES ASSUME i = 1 PROVE g[i] = f[i]
            OBVIOUS
          <5>2. <<>> \o f[i] = f[i]
            BY <1>1, <4>3, ConcatEmptySeq
          <5>3. g[i - 1] = <<>>
            BY <1>3, <5>1
          <5> QED
            BY <1>4, <4>3, <5>2, <5>3
        <4> QED
          BY <1>4, <4>3, <4>4, <4>5, <4>6
      <3>4. n \in 1..n
        BY <1>1, <2>2
      <3>5. k[n] = g[n]
        BY <3>3, <3>4
      <3> QED
        BY <3>2, <3>5
    <2> QED
      BY <2>1, <2>2
  <1> QED
    BY <1>3, <1>4, <1>5

\* Of pieces that each hold of a set what an element does, all hold what all do.
LEMMA FlattenOnly ==
    ASSUME NEW T, NEW d \in Seq(T), NEW S, NEW f \in Seq(Seq(T)), Len(f) = Len(d),
           \A i \in 1..Len(d) : Only(f[i], S) = IF d[i] \in S THEN <<d[i]>> ELSE <<>>
    PROVE  FlattenSeq(f) \in Seq(T) /\ Only(FlattenSeq(f), S) = Only(d, S)
PROOF
  <1> DEFINE n == Len(d)
  <1>1. n \in Nat /\ \A i \in 1..n : f[i] \in Seq(T) /\ d[i] \in T
    BY ElementOfSeq, LenProperties
  <1>2. PICK g \in [0..n -> Seq(T)] :
            /\ g[0] = <<>>
            /\ \A i \in 1..n : g[i] = g[i - 1] \o f[i]
            /\ FlattenSeq(f) = g[n]
    <2>1. Len(f) = n
      OBVIOUS
    <2> HIDE DEF n
    <2> QED
      BY <2>1, FlattenSteps
  <1>3. PICK k : Kept(k, d, S) /\ Only(d, S) = k[n]
    BY OnlyIsKept
  <1> DEFINE fails == {i \in 0..n : Only(g[i], S) # k[i]}
  <1>4. fails = {}
    <2>1. SUFFICES ASSUME fails # {} PROVE FALSE
      OBVIOUS
    <2>2. PICK i \in fails : \A j \in fails : i <= j
      <3>1. fails \in SUBSET Nat
        OBVIOUS
      <3> QED
        BY <2>1, <3>1, Least
    <2>3. i \in 0..n /\ Only(g[i], S) # k[i]
      BY <2>2
    <2>4. k[i] = IF i = 0 THEN <<>> ELSE IF d[i] \in S THEN Append(k[i - 1], d[i]) ELSE k[i - 1]
      BY <1>3, <2>3 DEF Kept
    <2>5. i # 0
      BY <1>2, <2>3, <2>4, OnlyAppend
    <2>6. i \in 1..n /\ i - 1 \in 0..n
      BY <1>1, <2>3, <2>5
    <2>7. Only(g[i - 1], S) = k[i - 1]
      BY <1>1, <2>2, <2>6
    <2>8. g[i - 1] \in Seq(T)
      BY <2>6
    <2>9. k[i - 1] \in Seq(T)
      <3>1. Only(g[i - 1], S) \in Seq(T \cap S)
        BY <2>8, OnlyType
      <3> QED
        BY <2>7, <3>1
    <2>10. Only(g[i], S) = k[i - 1] \o Only(f[i], S)
      <3>1. Only(g[i - 1] \o f[i], S) = Only(g[i - 1], S) \o Only(f[i], S)
        <4>1. f[i] \in Seq(T)
          BY <1>1, <2>6
        <4> DEFINE a == g[i - 1]
                   b == f[i]
        <4>2. a \in Seq(T) /\ b \in Seq(T)
          BY <2>8, <4>1
        <4> HIDE DEF fails, n, a, b
        <4>3. Only(a \o b, S) = Only(a, S) \o Only(b, S)
          BY <4>2, OnlyJoined
        <4> QED
          BY <4>3 DEF a, b
      <3> QED
        BY <1>2, <2>6, <2>7, <3>1
    <2>11. d[i] \in T
      BY <1>1, <2>6
    <2>12. k[i - 1] \o <<>> = k[i - 1] /\ k[i - 1] \o <<d[i]>> = Append(k[i - 1], d[i])
      BY <2>9, <2>11, Joined
    <2> QED
      BY <2>3, <2>4, <2>5, <2>6, <2>10, <2>12
  <1>5. n \in 0..n
    BY <1>1
  <1> QED
    BY <1>2, <1>3, <1>4, <1>5

-----------------------------------------------------------------------------
(* A document, and what its author wrote of it.                            *)

\* The letters a substitution confuses are the only ones it does.
Twins == {p \in Symbols \X Symbols : p[1] = p[2] \/ {p[1], p[2]} = {"alike", "twin"}}

\* The document without its marks.
Bare(d) == Only(d, Symbols \ Marks)

\* It reads like the author's text, but for letters and their lookalikes; where
\* the author wrote nothing a carrier writes over, it is that text.
Reads(d, t) ==
    /\ d \in Seq(Symbols) /\ t \in Seq(Symbols \ Marks)
    /\ Pairwise(Bare(d), t, Twins)
    /\ ~Has(t, LatinLetters) => Bare(d) = t

\* Marks are no letters.
LEMMA Alphabet ==
    /\ Marks \subseteq Symbols
    /\ Visible \subseteq Symbols \ Marks
    /\ Letters \subseteq Symbols \ Marks /\ LatinLetters \subseteq Letters
    /\ "alike" \in Symbols \ Marks /\ "twin" \in Symbols \ Marks
    /\ "alike" \notin LatinLetters /\ "twin" \in LatinLetters
    /\ Delimiting \subseteq Inserting /\ "homoglyph" \notin Inserting
    /\ \A c \in Inserting :
        /\ Removable(c) \subseteq Marks /\ Occupying(c) \subseteq Removable(c)
        /\ Bit0[c] \in Occupying(c) /\ Bit1[c] \in Occupying(c)
        /\ c \in Delimiting => Delim[c] \in Occupying(c)
PROOF
  <1>1. Inserting = {"zero_width", "whitespace_var", "bidi"}
        /\ Delimiting = {"whitespace_var", "bidi"}
    BY DEF Inserting, Delimiting, Bit0, Delim
  <1>2. \A c \in Inserting : Removable(c) \subseteq Marks
    BY DEF Marks
  <1>3. \A c \in Inserting :
        /\ Occupying(c) \subseteq Removable(c)
        /\ Bit0[c] \in Occupying(c) /\ Bit1[c] \in Occupying(c)
        /\ c \in Delimiting => Delim[c] \in Occupying(c)
    BY <1>1 DEF Removable, Occupying
  <1>4. Marks \subseteq {"zw0", "zw1", "ws0", "ws1", "ws,", "ws+", "bd0", "bd1", "bd,", "bd+"}
    <2>1. /\ Removable("zero_width") = {"zw0", "zw1"}
          /\ Removable("whitespace_var") = {"ws0", "ws1", "ws,", "ws+"}
          /\ Removable("bidi") = {"bd0", "bd1", "bd,", "bd+"}
      BY <1>1 DEF Removable, Occupying, Bit0, Bit1, Delim, Spare
    <2>2. \A x \in Marks : \E c \in Inserting : x \in Removable(c)
      BY DEF Marks
    <2> QED
      BY <1>1, <2>1, <2>2
  <1>5. Visible \cap Marks = {} /\ Letters \subseteq Visible /\ Visible \subseteq Symbols
    <2>1. Visible \cap {"zw0", "zw1", "ws0", "ws1", "ws,", "ws+", "bd0", "bd1", "bd,", "bd+"} = {}
      BY DEF Visible, Letters, LatinLetters, HighLatin, HighSymbols
    <2> QED
      BY <1>4, <2>1 DEF Visible, Symbols
  <1>6. "alike" \in Letters /\ "twin" \in Letters /\ Letters \subseteq Symbols
        /\ LatinLetters \subseteq Letters /\ "alike" \notin LatinLetters
        /\ "twin" \in LatinLetters /\ Marks \subseteq Symbols
    BY DEF Letters, LatinLetters, HighLatin, Symbols, Visible, FormatControl
  <1> QED
    BY <1>1, <1>2, <1>3, <1>5, <1>6

\* A relation of elements, of what is between.
LEMMA TwinsAgree ==
    /\ \A x \in Symbols : <<x, x>> \in Twins
    /\ \A x, y, z \in Symbols : <<x, y>> \in Twins /\ <<y, z>> \in Twins => <<x, z>> \in Twins
    /\ \A x, y \in Symbols : <<x, y>> \in Twins =>
        /\ x \in Symbols \ Marks <=> y \in Symbols \ Marks
        /\ x \in Marks => x = y
PROOF
  <1>1. \A x, y : <<x, y>> \in Twins <=>
            x \in Symbols /\ y \in Symbols /\ (x = y \/ {x, y} = {"alike", "twin"})
    BY DEF Twins
  <1>2. \A x, y : {x, y} = {"alike", "twin"} <=>
            (x = "alike" /\ y = "twin") \/ (x = "twin" /\ y = "alike")
    OBVIOUS
  <1>3. "alike" \notin Marks /\ "twin" \notin Marks
    BY Alphabet
  <1> QED
    BY <1>1, <1>2, <1>3

\* A bare document holds no mark, and whatever else the document holds.
LEMMA BareType ==
    ASSUME NEW d \in Seq(Symbols)
    PROVE  /\ Bare(d) \in Seq(Symbols \ Marks)
           /\ Bare(d) \in Seq(Symbols)
           /\ \A R : R \subseteq Symbols \ Marks => (Has(Bare(d), R) <=> Has(d, R))
PROOF
  <1>1. Only(d, Symbols \ Marks) \in Seq(Symbols \cap (Symbols \ Marks))
        /\ \A R : Has(Only(d, Symbols \ Marks), R) <=> Has(d, (Symbols \ Marks) \cap R)
    BY OnlyType
  <1>2. Symbols \cap (Symbols \ Marks) = Symbols \ Marks
    OBVIOUS
  <1>3. Bare(d) \in Seq(Symbols \ Marks)
    BY <1>1, <1>2 DEF Bare
  <1>4. ASSUME NEW R, R \subseteq Symbols \ Marks PROVE Has(Bare(d), R) <=> Has(d, R)
    <2>1. (Symbols \ Marks) \cap R = R
      BY <1>4
    <2> QED
      BY <1>1, <2>1 DEF Bare
  <1> QED
    BY <1>3, <1>4

\* Letters swapped for their lookalikes and back, where there are letters to swap.
LEMMA Reworked ==
    ASSUME NEW d, NEW t, Reads(d, t), NEW e \in Seq(Symbols), Pairwise(e, d, Twins),
           ~Has(d, LatinLetters) => e = d
    PROVE  Reads(e, t)
PROOF
  <1>1. d \in Seq(Symbols) /\ t \in Seq(Symbols \ Marks) /\ Pairwise(Bare(d), t, Twins)
        /\ (~Has(t, LatinLetters) => Bare(d) = t)
    BY DEF Reads
  <1>2. Pairwise(Bare(e), Bare(d), Twins)
    <2>1. \A x \in Symbols, y \in Symbols :
            <<x, y>> \in Twins => (x \in Symbols \ Marks <=> y \in Symbols \ Marks)
      BY TwinsAgree
    <2> QED
      BY <1>1, <2>1, OnlyPairwise DEF Bare
  <1>3. Bare(e) \in Seq(Symbols) /\ Bare(d) \in Seq(Symbols) /\ t \in Seq(Symbols)
    BY <1>1, BareType
  <1>4. Pairwise(Bare(e), t, Twins)
    <2>1. Len(Bare(e)) = Len(Bare(d)) /\ Len(Bare(d)) = Len(t)
      BY <1>1, <1>2 DEF Pairwise
    <2>2. ASSUME NEW i \in 1..Len(Bare(e)) PROVE <<Bare(e)[i], t[i]>> \in Twins
      <3>1. <<Bare(e)[i], Bare(d)[i]>> \in Twins /\ <<Bare(d)[i], t[i]>> \in Twins
        BY <1>1, <1>2, <2>1 DEF Pairwise
      <3>2. Bare(e)[i] \in Symbols /\ Bare(d)[i] \in Symbols /\ t[i] \in Symbols
        BY <1>3, <2>1, ElementOfSeq
      <3> QED
        BY <3>1, <3>2, TwinsAgree
    <2> QED
      BY <2>1, <2>2 DEF Pairwise
  <1>5. ASSUME ~Has(t, LatinLetters) PROVE Bare(e) = t
    <2>1. Bare(d) = t
      BY <1>1, <1>5
    <2>2. LatinLetters \subseteq Symbols \ Marks
      BY Alphabet
    <2>3. ~Has(d, LatinLetters)
      BY <1>1, <1>5, <2>1, <2>2, BareType
    <2> QED
      BY <2>1, <2>3
  <1> QED
    BY <1>1, <1>4, <1>5 DEF Reads

\* A text reads like what is left of it without its marks.
LEMMA ReadsBare ==
    ASSUME NEW d \in Seq(Symbols)
    PROVE  Reads(d, Bare(d))
PROOF
  <1>1. Bare(d) \in Seq(Symbols \ Marks) /\ Bare(d) \in Seq(Symbols)
    BY BareType
  <1>2. Pairwise(Bare(d), Bare(d), Twins)
    BY <1>1, TwinsAgree, ElementOfSeq DEF Pairwise
  <1> QED
    BY <1>1, <1>2 DEF Reads

\* Marks come and go.
LEMMA Remarked ==
    ASSUME NEW d, NEW t, Reads(d, t), NEW e \in Seq(Symbols), Bare(e) = Bare(d)
    PROVE  Reads(e, t)
PROOF
  BY DEF Reads

\* One sequence, pair by pair another.
LEMMA Mapped ==
    ASSUME NEW d \in Seq(Symbols), NEW own,
           NEW x \in Symbols, NEW y \in Symbols, <<y, x>> \in Twins,
           \A i \in own : d[i] = x
    PROVE  LET e == [i \in DOMAIN d |-> IF i \in own THEN y ELSE d[i]]
           IN  e \in Seq(Symbols) /\ Len(e) = Len(d) /\ Pairwise(e, d, Twins)
PROOF
  <1> DEFINE e == [i \in DOMAIN d |-> IF i \in own THEN y ELSE d[i]]
             n == Len(d)
  <1>1. n \in Nat /\ DOMAIN d = 1..n /\ \A i \in 1..n : d[i] \in Symbols
    BY LenProperties, ElementOfSeq
  <1>2. e \in [1..n -> Symbols]
    BY <1>1
  <1>3. e \in Seq(Symbols) /\ Len(e) = n
    BY <1>1, <1>2, IsASeq
  <1>4. \A i \in 1..n : <<e[i], d[i]>> \in Twins
    <2>1. SUFFICES ASSUME NEW i \in 1..n PROVE <<e[i], d[i]>> \in Twins
      OBVIOUS
    <2>2. CASE i \in own
      BY <1>1, <2>2
    <2>3. CASE i \notin own
      BY <1>1, <2>3, TwinsAgree
    <2> QED
      BY <2>2, <2>3
  <1> QED
    BY <1>3, <1>4 DEF Pairwise

-----------------------------------------------------------------------------
(* What the carriers do to a document.                                     *)

\* Only a lookalike is put down to the marks, and a gap lies in the document.
LEMMA RegionsType ==
    ASSUME NEW d \in Seq(Symbols)
    PROVE  /\ Attributed(d) \subseteq {i \in DOMAIN d : d[i] = "alike"}
           /\ WritableGaps(d) \subseteq 0..Len(d)
PROOF
  BY DEF Attributed, WritableGaps

\* Letters are written over by their lookalikes.
LEMMA SubstitutedReads ==
    ASSUME NEW d, NEW t, Reads(d, t), NEW bits
    PROVE  Reads(Substituted(d, bits), t) /\ Pairwise(Substituted(d, bits), d, Twins)
PROOF
  <1> DEFINE places == {i \in Places(d) : d[i] = "twin"}
             own == {i \in DOMAIN d : i \in places /\ Rank(places, i) <= Len(bits)
                                        /\ bits[Rank(places, i)] = 1}
             e == [i \in DOMAIN d |-> IF i \in own THEN "alike" ELSE d[i]]
  <1>1. d \in Seq(Symbols)
    BY DEF Reads
  <1>2. Substituted(d, bits) = e
    BY DEF Substituted
  <1>3. \A i \in own : d[i] = "twin"
    OBVIOUS
  <1>4. <<"alike", "twin">> \in Twins /\ "alike" \in Symbols /\ "twin" \in Symbols
    <2>1. "alike" \in Symbols /\ "twin" \in Symbols
      BY Alphabet
    <2> QED
      BY <2>1 DEF Twins
  <1>5. ~Has(d, LatinLetters) => own = {}
    <2>1. "twin" \in LatinLetters
      BY Alphabet
    <2>2. own \subseteq DOMAIN d
      OBVIOUS
    <2> HIDE DEF own
    <2> QED
      BY <1>3, <2>1, <2>2 DEF Has
  <1> HIDE DEF own
  <1>6. e \in Seq(Symbols) /\ Len(e) = Len(d) /\ Pairwise(e, d, Twins)
    BY <1>1, <1>3, <1>4, Mapped
  <1>7. own = {} => e = d
    <2>1. d = [i \in DOMAIN d |-> d[i]]
      BY <1>1
    <2> QED
      BY <2>1
  <1> HIDE DEF e
  <1> QED
    BY <1>2, <1>5, <1>6, <1>7, Reworked

\* A mark between two characters.
LEMMA FlattenType ==
    ASSUME NEW T, NEW f \in Seq(Seq(T))
    PROVE  FlattenSeq(f) \in Seq(T)
PROOF
  <1>1. PICK g \in [0..Len(f) -> Seq(T)] :
            /\ g[0] = <<>>
            /\ \A i \in 1..Len(f) : g[i] = g[i - 1] \o f[i]
            /\ FlattenSeq(f) = g[Len(f)]
    BY FlattenSteps
  <1>2. Len(f) \in 0..Len(f)
    BY LenProperties
  <1> QED
    BY <1>1, <1>2

\* What a carrier writes is of its own characters.
LEMMA SequencedType ==
    ASSUME NEW c \in Inserting, NEW bits \in BitStrings
    PROVE  Sequenced(c, bits) \in Seq(Occupying(c))
PROOF
  <1> DEFINE V == Occupying(c)
             f == [i \in DOMAIN bits |->
                    (IF c \in Delimiting /\ i > 1 /\ (i - 1) % ByteBits = 0
                     THEN <<Delim[c]>> ELSE <<>>) \o <<BitChar(c, bits[i])>>]
  <1>1. Len(bits) \in Nat /\ DOMAIN bits = 1..Len(bits)
    BY LenProperties DEF BitStrings
  <1>2. (c \in Delimiting => Delim[c] \in V) /\ Bit0[c] \in V /\ Bit1[c] \in V
    BY Alphabet
  <1> HIDE DEF V
  <1>3. \A i \in 1..Len(bits) : f[i] \in Seq(V)
    <2>1. SUFFICES ASSUME NEW i \in 1..Len(bits)
                   PROVE  (IF c \in Delimiting /\ i > 1 /\ (i - 1) % ByteBits = 0
                           THEN <<Delim[c]>> ELSE <<>>) \o <<BitChar(c, bits[i])>> \in Seq(V)
      BY <1>1
    <2> DEFINE a == IF c \in Delimiting /\ i > 1 /\ (i - 1) % ByteBits = 0
                    THEN <<Delim[c]>> ELSE <<>>
               b == <<BitChar(c, bits[i])>>
    <2>2. a \in Seq(V)
      BY <1>2
    <2>3. BitChar(c, bits[i]) \in V
      BY <1>2 DEF BitChar
    <2>4. b \in Seq(V)
      BY <2>3
    <2> HIDE DEF a, b
    <2>5. a \o b \in Seq(V)
      BY <2>2, <2>4
    <2> QED
      BY <2>5 DEF a, b
  <1>4. f \in Seq(Seq(V))
    <2>1. f \in [1..Len(bits) -> Seq(V)]
      BY <1>1, <1>3
    <2> HIDE DEF f
    <2> QED
      BY <1>1, <2>1, IsASeq
  <1> HIDE DEF f
  <1>5. FlattenSeq(f) \in Seq(V)
    BY <1>4, FlattenType
  <1> QED
    BY <1>5 DEF Sequenced, f, V

\* Ranks count from one to as many as there are.
LEMMA Ranks ==
    ASSUME NEW n \in Nat, NEW S \in SUBSET (0..n)
    PROVE  /\ IsFiniteSet(S) /\ Cardinality(S) \in Nat
           /\ \A k \in Int : Rank(S, k) \in Nat
           /\ \A k \in S : Rank(S, k) \in 1..Cardinality(S)
PROOF
  <1>1. IsFiniteSet(S)
    <2>1. IsFiniteSet(0..n)
      BY FS_Interval
    <2> QED
      BY <2>1, FS_Subset
  <1>2. Cardinality(S) \in Nat
    BY <1>1, FS_CardinalityType
  <1>3. \A k \in Int : Rank(S, k) \in Nat /\ Rank(S, k) <= Cardinality(S)
    <2>1. SUFFICES ASSUME NEW k \in Int
                   PROVE  Rank(S, k) \in Nat /\ Rank(S, k) <= Cardinality(S)
      OBVIOUS
    <2>2. {y \in S : y <= k} \subseteq S
      OBVIOUS
    <2>3. IsFiniteSet({y \in S : y <= k})
          /\ Cardinality({y \in S : y <= k}) <= Cardinality(S)
      BY <1>1, <2>2, FS_Subset
    <2> QED
      BY <2>3, FS_CardinalityType DEF Rank
  <1>4. \A k \in S : Rank(S, k) # 0
    <2>1. SUFFICES ASSUME NEW k \in S PROVE Cardinality({y \in S : y <= k}) # 0
      BY DEF Rank
    <2>2. k \in {y \in S : y <= k}
      OBVIOUS
    <2>3. IsFiniteSet({y \in S : y <= k})
      BY <1>1, FS_Subset
    <2> QED
      BY <2>2, <2>3, FS_EmptySet
  <1>5. \A k \in S : k \in Int
    OBVIOUS
  <1> QED
    BY <1>1, <1>2, <1>3, <1>4, <1>5

\* Pieces of a mark and a character each, and what is left after the last.
GapsIn(d) == WritableGaps(d) \ {Len(d)}
PutAt(d, seq, k) ==
    IF k \in GapsIn(d) /\ Rank(GapsIn(d), k) <= Len(seq)
    THEN <<seq[Rank(GapsIn(d), k)]>> ELSE <<>>
Pieces(d, seq) == [i \in DOMAIN d |-> PutAt(d, seq, i - 1) \o <<d[i]>>]
Left(d, seq) == SubSeq(seq, Cardinality(GapsIn(d)) + 1, Len(seq))

\* A placement is the document's symbols, each with what was put before it, and
\* the rest of the sequence after the last.
LEMMA PlacedPieces ==
    ASSUME NEW d \in Seq(Symbols), NEW V \in SUBSET Symbols, NEW seq \in Seq(V)
    PROVE  /\ PlacedAtBoundaries(d, seq) = FlattenSeq(Pieces(d, seq)) \o Left(d, seq)
           /\ Pieces(d, seq) \in Seq(Seq(Symbols)) /\ Len(Pieces(d, seq)) = Len(d)
           /\ Left(d, seq) \in Seq(V)
           /\ \A i \in 1..Len(d) :
                /\ PutAt(d, seq, i - 1) \in Seq(V) /\ <<d[i]>> \in Seq(Symbols)
                /\ Pieces(d, seq)[i] = PutAt(d, seq, i - 1) \o <<d[i]>>
           /\ GapsIn(d) \in SUBSET (0..(Len(d) - 1)) /\ IsFiniteSet(GapsIn(d))
PROOF
  <1> DEFINE n == Len(d)
             gaps == GapsIn(d)
             f == Pieces(d, seq)
             left == Left(d, seq)
  <1>1. n \in Nat /\ DOMAIN d = 1..n /\ \A i \in 1..n : d[i] \in Symbols
    BY LenProperties, ElementOfSeq
  <1>2. gaps \in SUBSET (0..n) /\ gaps \in SUBSET (0..(n - 1))
    BY <1>1, RegionsType DEF GapsIn
  <1>3. PlacedAtBoundaries(d, seq) = FlattenSeq(f) \o left
    BY DEF PlacedAtBoundaries, Pieces, Left, PutAt, GapsIn
  <1> HIDE DEF gaps
  <1>4. Cardinality(gaps) \in Nat /\ IsFiniteSet(gaps)
        /\ \A k \in gaps : Rank(gaps, k) \in 1..Cardinality(gaps)
    BY <1>1, <1>2, Ranks
  <1>5. \A k \in 0..n : PutAt(d, seq, k) \in Seq(V)
    <2>1. SUFFICES ASSUME NEW k \in 0..n, k \in gaps, Rank(gaps, k) <= Len(seq)
                   PROVE  <<seq[Rank(gaps, k)]>> \in Seq(V)
      BY DEF PutAt, gaps
    <2>2. Rank(gaps, k) \in 1..Len(seq)
      BY <1>4, <2>1
    <2>3. seq[Rank(gaps, k)] \in V
      BY <2>2, ElementOfSeq
    <2> QED
      BY <2>3
  <1>6. \A i \in 1..n : PutAt(d, seq, i - 1) \in Seq(V) /\ <<d[i]>> \in Seq(Symbols)
    <2>1. SUFFICES ASSUME NEW i \in 1..n
                   PROVE  PutAt(d, seq, i - 1) \in Seq(V) /\ <<d[i]>> \in Seq(Symbols)
      OBVIOUS
    <2>2. i - 1 \in 0..n /\ d[i] \in Symbols
      BY <1>1
    <2> QED
      BY <1>5, <2>2
  <1>7. left \in Seq(V)
    <2>1. Len(seq) \in Nat /\ \A i \in 1..Len(seq) : seq[i] \in V
      BY LenProperties, ElementOfSeq
    <2> DEFINE m == Cardinality(gaps) + 1
    <2>2. m \in Nat /\ m >= 1
      BY <1>4
    <2> HIDE DEF m
    <2>3. SubSeq(seq, m, Len(seq)) \in Seq(V)
      BY <2>1, <2>2, SubSeqProperties
    <2> QED
      BY <2>3 DEF m, Left, gaps
  <1>8. \A i \in 1..n : PutAt(d, seq, i - 1) \o <<d[i]>> \in Seq(Symbols)
    <2>1. SUFFICES ASSUME NEW i \in 1..n
                   PROVE  PutAt(d, seq, i - 1) \o <<d[i]>> \in Seq(Symbols)
      OBVIOUS
    <2> DEFINE a == PutAt(d, seq, i - 1)
               b == <<d[i]>>
    <2>2. a \in Seq(V) /\ b \in Seq(Symbols)
      BY <1>6
    <2>3. a \in Seq(Symbols)
      BY <2>2, SeqMonotonic
    <2> HIDE DEF a, b
    <2>4. a \o b \in Seq(Symbols)
      BY <2>2, <2>3
    <2> QED
      BY <2>4 DEF a, b
  <1>9. f \in Seq(Seq(Symbols)) /\ Len(f) = n
    <2>1. f \in [1..n -> Seq(Symbols)]
      BY <1>1, <1>8 DEF Pieces
    <2> HIDE DEF f
    <2> QED
      BY <1>1, <2>1, IsASeq
  <1>10. \A i \in 1..n : f[i] = PutAt(d, seq, i - 1) \o <<d[i]>>
    BY <1>1 DEF Pieces
  <1> HIDE DEF f, left
  <1> QED
    BY <1>2, <1>3, <1>4, <1>6, <1>7, <1>9, <1>10 DEF gaps, f, left

\* What a carrier places disturbs nothing of what it does not write.
LEMMA PlacedReads ==
    ASSUME NEW d \in Seq(Symbols), NEW V \in SUBSET Symbols, NEW seq \in Seq(V)
    PROVE  /\ PlacedAtBoundaries(d, seq) \in Seq(Symbols)
           /\ \A S : S \cap V = {} => Only(PlacedAtBoundaries(d, seq), S) = Only(d, S)
PROOF
  <1> DEFINE n == Len(d)
             f == Pieces(d, seq)
             left == Left(d, seq)
             flat == FlattenSeq(f)
  <1>1. /\ PlacedAtBoundaries(d, seq) = flat \o left
        /\ f \in Seq(Seq(Symbols)) /\ Len(f) = n
        /\ left \in Seq(V)
        /\ \A i \in 1..n : /\ PutAt(d, seq, i - 1) \in Seq(V) /\ <<d[i]>> \in Seq(Symbols)
                           /\ f[i] = PutAt(d, seq, i - 1) \o <<d[i]>>
    BY PlacedPieces
  <1> HIDE DEF f, left
  <1>2. flat \in Seq(Symbols) /\ left \in Seq(Symbols)
    BY <1>1, FlattenType, SeqMonotonic
  <1>3. ASSUME NEW S, S \cap V = {} PROVE Only(flat \o left, S) = Only(d, S)
    <2>1. \A i \in 1..n : Only(f[i], S) = IF d[i] \in S THEN <<d[i]>> ELSE <<>>
      <3> SUFFICES ASSUME NEW i \in 1..n
                   PROVE  Only(f[i], S) = IF d[i] \in S THEN <<d[i]>> ELSE <<>>
        OBVIOUS
      <3> DEFINE a == PutAt(d, seq, i - 1)
                 b == <<d[i]>>
      <3>1. a \in Seq(V) /\ b \in Seq(Symbols) /\ f[i] = a \o b
        BY <1>1
      <3>2. d[i] \in Symbols
        BY ElementOfSeq
      <3>3. Only(b, S) = IF d[i] \in S THEN <<d[i]>> ELSE <<>>
        BY <3>2, OnlyOne
      <3> HIDE DEF a, b
      <3>4. a \in Seq(Symbols)
        BY <3>1, SeqMonotonic
      <3>5. Only(a, S) = <<>>
        BY <1>3, <3>1, OnlyAll
      <3>6. Only(a \o b, S) = Only(a, S) \o Only(b, S)
        BY <3>1, <3>4, OnlyJoined, SMTT(40)
      <3>7. <<>> \o Only(b, S) = Only(b, S)
        <4>1. Only(b, S) \in Seq(Symbols \cap S)
          BY <3>1, OnlyType
        <4> QED
          BY <4>1, ConcatEmptySeq
      <3> QED
        BY <3>1, <3>3, <3>5, <3>6, <3>7
    <2>2. Only(flat, S) = Only(d, S)
      <3>1. f \in Seq(Seq(Symbols)) /\ Len(f) = Len(d)
        BY <1>1
      <3> QED
        BY <2>1, <3>1, FlattenOnly, ZenonT(60)
    <2>3. Only(left, S) = <<>>
      BY <1>1, <1>3, OnlyAll
    <2> HIDE DEF flat
    <2>4. Only(flat \o left, S) = Only(flat, S) \o Only(left, S)
      BY <1>2, OnlyJoined
    <2>5. Only(flat, S) \o <<>> = Only(flat, S)
      <3>1. Only(flat, S) \in Seq(Symbols \cap S)
        BY <1>2, OnlyType
      <3> QED
        BY <3>1, ConcatEmptySeq
    <2> QED
      BY <2>2, <2>3, <2>4, <2>5
  <1> HIDE DEF flat
  <1>4. flat \o left \in Seq(Symbols)
    BY <1>2
  <1> QED
    BY <1>1, <1>3, <1>4 DEF flat

\* What the homoglyph carrier takes for its own, in a script beyond doubt.
LEMMA AttributedAll ==
    ASSUME NEW d \in Seq(Symbols)
    PROVE  /\ ~Has(d, LatinLetters) => Attributed(d) = {}
           /\ Has(d, LatinLetters) /\ ~Has(d, {"cyrillic"}) =>
                Attributed(d) = {i \in DOMAIN d : d[i] = "alike"}
PROOF
  <1>1. \A i : Run(d, i) \subseteq DOMAIN d
    BY DEF Run
  <1>2. ASSUME ~Has(d, LatinLetters) PROVE Attributed(d) = {}
    BY <1>1, <1>2 DEF Has, Attributed, MarkedRun, LatinDocument
  <1>3. ASSUME Has(d, LatinLetters), ~Has(d, {"cyrillic"})
        PROVE  Attributed(d) = {i \in DOMAIN d : d[i] = "alike"}
    BY <1>1, <1>3 DEF Has, Attributed, MarkedRun, LatinDocument
  <1> QED
    BY <1>2, <1>3

\* A carrier removed: its marks go, and nothing else but lookalikes.
LEMMA StripOut ==
    ASSUME NEW V \in SUBSET Symbols, "twin" \in V, NEW d \in Seq(V)
    PROVE  /\ Strip("homoglyph", d) \in Seq(V)
           /\ \A c \in Inserting : /\ Strip(c, d) = Only(d, V \ Removable(c))
                                   /\ Strip(c, d) \in Seq(V \ Removable(c))
PROOF
  <1>1. Strip("homoglyph", d) \in Seq(V)
    <2> DEFINE own == Attributed(d)
               e == [i \in DOMAIN d |-> IF i \in own THEN "twin" ELSE d[i]]
    <2>1. Len(d) \in Nat /\ DOMAIN d = 1..Len(d) /\ \A i \in 1..Len(d) : d[i] \in V
      BY LenProperties, ElementOfSeq
    <2>2. e \in [1..Len(d) -> V]
      BY <2>1
    <2>3. e \in Seq(V)
      BY <2>1, <2>2, IsASeq
    <2> QED
      BY <2>3 DEF Strip
  <1>2. ASSUME NEW c \in Inserting
        PROVE  /\ Strip(c, d) = Only(d, V \ Removable(c))
               /\ Strip(c, d) \in Seq(V \ Removable(c))
    <2>1. c # "homoglyph"
      BY Alphabet
    <2>2. Strip(c, d) = Free(d, Removable(c))
      BY <2>1 DEF Strip
    <2>3. Free(d, Removable(c)) = Only(d, V \ Removable(c))
      BY FreeIsOnly
    <2>4. Only(d, V \ Removable(c)) \in Seq(V \cap (V \ Removable(c)))
      BY OnlyType
    <2>5. V \cap (V \ Removable(c)) = V \ Removable(c)
      OBVIOUS
    <2> QED
      BY <2>2, <2>3, <2>4, <2>5
  <1> QED
    BY <1>1, <1>2

\* Stripping one carrier leaves a document that reads as the text.
LEMMA StripReads ==
    ASSUME NEW d, NEW t, Reads(d, t)
    PROVE  /\ Reads(Strip("homoglyph", d), t)
           /\ Pairwise(Strip("homoglyph", d), d, Twins)
           /\ \A c \in Inserting : /\ Strip(c, d) \in Seq(Symbols)
                                   /\ Bare(Strip(c, d)) = Bare(d) /\ Reads(Strip(c, d), t)
PROOF
  <1>1. d \in Seq(Symbols) /\ "twin" \in Symbols /\ "alike" \in Symbols
    BY Alphabet DEF Reads
  <1>2. Reads(Strip("homoglyph", d), t) /\ Pairwise(Strip("homoglyph", d), d, Twins)
    <2> DEFINE own == Attributed(d)
               e == [i \in DOMAIN d |-> IF i \in own THEN "twin" ELSE d[i]]
    <2>1. \A i \in own : d[i] = "alike"
      BY <1>1, RegionsType
    <2>2. <<"twin", "alike">> \in Twins
      BY <1>1 DEF Twins
    <2>3. ~Has(d, LatinLetters) => own = {}
      BY <1>1, AttributedAll
    <2>4. Strip("homoglyph", d) = e
      BY DEF Strip
    <2> HIDE DEF own
    <2>5. e \in Seq(Symbols) /\ Pairwise(e, d, Twins)
      BY <1>1, <2>1, <2>2, Mapped
    <2>6. own = {} => e = d
      <3>1. d = [i \in DOMAIN d |-> d[i]]
        BY <1>1
      <3> QED
        BY <3>1
    <2> HIDE DEF e
    <2>7. Reads(e, t)
      BY <2>3, <2>5, <2>6, Reworked
    <2> QED
      BY <2>4, <2>5, <2>7
  <1>3. ASSUME NEW c \in Inserting
        PROVE  /\ Strip(c, d) \in Seq(Symbols)
               /\ Bare(Strip(c, d)) = Bare(d) /\ Reads(Strip(c, d), t)
    <2>1. Strip(c, d) = Only(d, Symbols \ Removable(c))
          /\ Strip(c, d) \in Seq(Symbols \ Removable(c))
      BY <1>1, StripOut
    <2>2. Strip(c, d) \in Seq(Symbols)
      BY <2>1, SeqMonotonic
    <2>3. Only(Only(d, Symbols \ Removable(c)), Symbols \ Marks)
            = Only(d, (Symbols \ Removable(c)) \cap (Symbols \ Marks))
      BY <1>1, OnlyOnly
    <2>4. (Symbols \ Removable(c)) \cap (Symbols \ Marks) = Symbols \ Marks
      BY Alphabet
    <2>5. Bare(Strip(c, d)) = Bare(d)
      BY <2>1, <2>3, <2>4 DEF Bare
    <2> QED
      BY <2>2, <2>5, Remarked
  <1> QED
    BY <1>2, <1>3

\* Stripping several, in the order of a cleaning or of a sealing, does too.
LEMMA StripEachReads ==
    ASSUME NEW d, NEW t, Reads(d, t), NEW chosen
    PROVE  Reads(StripEach(CleanOrder, chosen, d), t) /\ Reads(StripEach(CarrierOrder, chosen, d), t)
PROOF
  <1>1. ASSUME NEW e, Reads(e, t), NEW c \in Carrier
        PROVE  Reads(IF c \in chosen THEN Strip(c, e) ELSE e, t)
    BY <1>1, StripReads DEF Carrier
  <1>2. \A i \in 1..4 : CleanOrder[i] \in Carrier /\ CarrierOrder[i] \in Carrier
    BY DEF CleanOrder, CarrierOrder, Carrier, Inserting, Bit0
  <1>3. ASSUME NEW order, \A i \in 1..4 : order[i] \in Carrier
        PROVE  Reads(StripEach(order, chosen, d), t)
    <2> DEFINE step(i, u) == IF order[i] \in chosen THEN Strip(order[i], u) ELSE u
    <2>1. \A i \in 1..4 : \A e : Reads(e, t) => Reads(step(i, e), t)
      BY <1>1, <1>3
    <2>2. StripEach(order, chosen, d) = step(4, step(3, step(2, step(1, d))))
      BY DEF StripEach
    <2> HIDE DEF step
    <2> QED
      BY <2>1, <2>2
  <1> QED
    BY <1>2, <1>3

\* The letters, taken back where the script is beyond doubt.
LEMMA LettersReturn ==
    ASSUME NEW d, NEW t, Reads(d, t), Decided(t)
    PROVE  Bare(Strip("homoglyph", d)) = t
PROOF
  <1> DEFINE e == Strip("homoglyph", d)
             own == Attributed(d)
  <1>1. d \in Seq(Symbols) /\ t \in Seq(Symbols \ Marks) /\ t \in Seq(Symbols)
    BY SeqMonotonic DEF Reads
  <1>2. e = [i \in DOMAIN d |-> IF i \in own THEN "twin" ELSE d[i]]
    BY DEF Strip
  <1>3. Reads(e, t)
    BY StripReads
  <1>4. CASE Has(t, {"cyrillic"}) /\ ~Has(t, LatinLetters)
    BY <1>3, <1>4 DEF Reads
  <1>5. CASE Has(t, LatinLetters \ {"twin"}) /\ ~Has(t, {"cyrillic", "alike"})
    <2> DEFINE b == Bare(d)
    <2>1. b \in Seq(Symbols) /\ Pairwise(b, t, Twins)
      BY <1>1, BareType DEF Reads
    <2>2. /\ Len(b) = Len(t) /\ DOMAIN b = 1..Len(t) /\ DOMAIN t = 1..Len(t)
          /\ \A i \in 1..Len(t) : b[i] = t[i] \/ {b[i], t[i]} = {"alike", "twin"}
      BY <1>1, <2>1, LenProperties DEF Pairwise, Twins
    <2>3. \A i \in 1..Len(t) : t[i] # "alike" /\ t[i] # "cyrillic"
      BY <1>5, <2>2 DEF Has
    <2>4. Has(b, LatinLetters)
      <3>1. PICK i \in 1..Len(t) : t[i] \in LatinLetters \ {"twin"}
        BY <1>5, <2>2 DEF Has
      <3>2. b[i] = t[i]
        BY <2>2, <2>3, <3>1
      <3> QED
        BY <2>2, <3>1, <3>2 DEF Has
    <2>5. ~Has(b, {"cyrillic"})
      BY <2>2, <2>3 DEF Has
    <2>6. "cyrillic" \in Symbols \ Marks /\ LatinLetters \subseteq Symbols \ Marks
          /\ "alike" \in Symbols \ Marks
      <3>1. "cyrillic" \in Letters
        BY DEF Letters
      <3> QED
        BY <3>1, Alphabet
    <2>7. Has(d, LatinLetters) /\ ~Has(d, {"cyrillic"})
      BY <1>1, <2>4, <2>5, <2>6, BareType
    <2>8. own = {i \in DOMAIN d : d[i] = "alike"}
      BY <1>1, <2>7, AttributedAll
    <2>9. ~Has(e, {"alike"})
      BY <1>2, <2>8 DEF Has
    <2> HIDE DEF e
    <2>10. e \in Seq(Symbols) /\ Pairwise(Bare(e), t, Twins)
      BY <1>3 DEF Reads
    <2>11. ~Has(Bare(e), {"alike"}) /\ Bare(e) \in Seq(Symbols)
      BY <2>6, <2>9, <2>10, BareType
    <2> DEFINE w == Bare(e)
    <2> HIDE DEF w
    <2>12. /\ Len(w) = Len(t) /\ DOMAIN w = 1..Len(t)
           /\ \A i \in 1..Len(t) : w[i] = t[i] \/ {w[i], t[i]} = {"alike", "twin"}
      BY <2>10, <2>11, LenProperties DEF Pairwise, Twins, w
    <2>13. \A i \in 1..Len(t) : w[i] # "alike"
      BY <2>11, <2>12 DEF Has, w
    <2>14. \A i \in 1..Len(t) : w[i] = t[i]
      BY <2>3, <2>12, <2>13
    <2>15. w = t
      BY <1>1, <2>11, <2>12, <2>14, SeqEqual DEF w
    <2> QED
      BY <2>15 DEF w, e
  <1> QED
    BY <1>4, <1>5 DEF Decided

\* A clean of every class, in both orders.
LEMMA StripAllRestores ==
    ASSUME NEW d, NEW t, Reads(d, t), Decided(t)
    PROVE  StripAll(d) = t /\ StripEach(CarrierOrder, Carrier, d) = t
PROOF
  <1>1. Carrier = {"zero_width", "whitespace_var", "bidi", "homoglyph"}
        /\ Inserting = {"zero_width", "whitespace_var", "bidi"}
    BY DEF Carrier, Inserting, Bit0
  <1>2. \A c \in Inserting : "twin" \notin Removable(c)
    BY Alphabet
  <1>3. "twin" \in Symbols /\ d \in Seq(Symbols)
    BY Alphabet DEF Reads
  <1> DEFINE Z == Removable("zero_width")
             W == Removable("whitespace_var")
             B == Removable("bidi")
             h(u) == Strip("homoglyph", u)
             z(u) == Strip("zero_width", u)
             w(u) == Strip("whitespace_var", u)
             b(u) == Strip("bidi", u)
  <1>4. StripAll(d) = z(w(h(b(d)))) /\ StripEach(CarrierOrder, Carrier, d) = h(b(w(z(d))))
    BY <1>1 DEF StripAll, StripEach, CleanOrder, CarrierOrder
  <1>5. \A u : u \in Seq(Symbols \ Marks) => Bare(u) = u
    BY OnlyAll DEF Bare
  <1>6. ((Symbols \ Z) \ W) \ B = Symbols \ Marks /\ ((Symbols \ B) \ W) \ Z = Symbols \ Marks
    <2>1. \A x : x \in Marks <=> \E c \in Inserting : x \in Removable(c)
      BY DEF Marks
    <2> QED
      BY <1>1, <2>1
  <1>7. "zero_width" \in Inserting /\ "whitespace_var" \in Inserting /\ "bidi" \in Inserting
    BY <1>1
  <1> DEFINE Good(u, V) == u \in Seq(V) /\ Reads(u, t)
  <1>8. ASSUME NEW V \in SUBSET Symbols, "twin" \in V, NEW u, Good(u, V)
        PROVE  /\ Good(h(u), V) /\ Bare(h(u)) = t
               /\ Good(z(u), V \ Z) /\ Good(w(u), V \ W) /\ Good(b(u), V \ B)
               /\ Bare(z(u)) = Bare(u) /\ Bare(w(u)) = Bare(u) /\ Bare(b(u)) = Bare(u)
    <2>1. u \in Seq(V) /\ Reads(u, t)
      BY <1>8
    <2> QED
      BY <1>7, <1>8, <2>1, StripOut, StripReads, LettersReturn
  <1> DEFINE P == Symbols \ B
             Q == Symbols \ Z
  <1>9. "twin" \in P /\ "twin" \in P \ W /\ "twin" \in Q /\ "twin" \in Q \ W
        /\ "twin" \in (Q \ W) \ B
    BY <1>2, <1>3, <1>7
  <1> HIDE DEF Good, z, w, b, h, Z, W, B
  <1>10. Good(d, Symbols)
    BY <1>3 DEF Good
  <1>11. z(w(h(b(d)))) = t
    <2>1. Good(b(d), P)
      BY <1>3, <1>8, <1>10
    <2> HIDE DEF P
    <2>2. P \in SUBSET Symbols /\ P \ W \in SUBSET Symbols
      BY DEF P
    <2>3. Good(h(b(d)), P) /\ Bare(h(b(d))) = t
      BY <1>8, <1>9, <2>1, <2>2
    <2>4. Good(w(h(b(d))), P \ W) /\ Bare(w(h(b(d)))) = t
      BY <1>8, <1>9, <2>2, <2>3
    <2>5. Good(z(w(h(b(d)))), (P \ W) \ Z) /\ Bare(z(w(h(b(d))))) = t
      BY <1>8, <1>9, <2>2, <2>4
    <2>6. z(w(h(b(d)))) \in Seq(Symbols \ Marks)
      BY <1>6, <2>5 DEF Good, P
    <2> QED
      BY <1>5, <2>5, <2>6
  <1>12. h(b(w(z(d)))) = t
    <2>1. Good(z(d), Q)
      BY <1>3, <1>8, <1>10
    <2> HIDE DEF Q
    <2>2. Q \in SUBSET Symbols /\ Q \ W \in SUBSET Symbols /\ (Q \ W) \ B \in SUBSET Symbols
      BY DEF Q
    <2>3. Good(w(z(d)), Q \ W)
      BY <1>8, <1>9, <2>1, <2>2
    <2>4. Good(b(w(z(d))), (Q \ W) \ B)
      BY <1>8, <1>9, <2>2, <2>3
    <2>5. Good(h(b(w(z(d)))), (Q \ W) \ B) /\ Bare(h(b(w(z(d))))) = t
      BY <1>8, <1>9, <2>2, <2>4
    <2>6. h(b(w(z(d)))) \in Seq(Symbols \ Marks)
      BY <1>6, <2>5 DEF Good, Q
    <2> QED
      BY <1>5, <2>5, <2>6
  <1> QED
    BY <1>4, <1>11, <1>12 DEF h, z, w, b

\* A part of a sequence, and its next element.
LEMMA SubSeqNext ==
    ASSUME NEW T, NEW s \in Seq(T), NEW m \in 0..(Len(s) - 1)
    PROVE  /\ SubSeq(s, 1, m) \in Seq(T) /\ s[m + 1] \in T
           /\ SubSeq(s, 1, m + 1) = Append(SubSeq(s, 1, m), s[m + 1])
PROOF
  <1>1. Len(s) \in Nat /\ m \in Nat /\ m + 1 \in 1..Len(s)
    BY LenProperties
  <1>2. s[m + 1] \in T
    BY <1>1, ElementOfSeq
  <1>3. SubSeq(s, 1, m) \in Seq(T) /\ Len(SubSeq(s, 1, m)) = m
        /\ \A i \in 1..m : SubSeq(s, 1, m)[i] = s[i]
    BY <1>1
  <1>4. SubSeq(s, 1, m + 1) \in Seq(T) /\ Len(SubSeq(s, 1, m + 1)) = m + 1
        /\ \A i \in 1..(m + 1) : SubSeq(s, 1, m + 1)[i] = s[i]
    BY <1>1
  <1> DEFINE a == SubSeq(s, 1, m)
             b == SubSeq(s, 1, m + 1)
             c == Append(a, s[m + 1])
  <1>5. /\ c \in Seq(T) /\ Len(c) = m + 1 /\ c[m + 1] = s[m + 1]
        /\ \A i \in 1..m : c[i] = s[i]
    <2> HIDE DEF a
    <2> QED
      BY <1>2, <1>3, HasAppend DEF a
  <1> HIDE DEF a, b, c
  <1>6. b = c
    <2>1. b \in Seq(T) /\ Len(b) = m + 1 /\ \A i \in 1..(m + 1) : b[i] = s[i]
      BY <1>4 DEF b
    <2>2. \A i \in 1..Len(b) : b[i] = c[i]
      <3> SUFFICES ASSUME NEW i \in 1..(m + 1) PROVE b[i] = c[i]
        BY <2>1
      <3>1. CASE i = m + 1
        BY <1>1, <1>5, <2>1, <3>1
      <3>2. CASE i \in 1..m
        BY <1>5, <2>1, <3>2
      <3> QED
        BY <1>1, <3>1, <3>2
    <2> QED
      BY <1>5, <2>1, <2>2, SeqEqual
  <1> QED
    BY <1>2, <1>3, <1>6 DEF a, b, c

\* What a carrier places is what is there of it, where there was nothing.
LEMMA PlacedHolds ==
    ASSUME NEW d \in Seq(Symbols), NEW V \in SUBSET Symbols, NEW seq \in Seq(V),
           NEW S, ~Has(d, S)
    PROVE  Only(PlacedAtBoundaries(d, seq), S) = Only(seq, S)
PROOF
  <1> DEFINE n == Len(d)
             f == Pieces(d, seq)
             left == Left(d, seq)
             gaps == GapsIn(d)
             card == Cardinality(gaps)
  <1>1. /\ PlacedAtBoundaries(d, seq) = FlattenSeq(f) \o left
        /\ f \in Seq(Seq(Symbols)) /\ Len(f) = n
        /\ left \in Seq(V)
        /\ \A i \in 1..n : /\ PutAt(d, seq, i - 1) \in Seq(V) /\ <<d[i]>> \in Seq(Symbols)
                           /\ f[i] = PutAt(d, seq, i - 1) \o <<d[i]>>
        /\ gaps \in SUBSET (0..(n - 1))
    BY PlacedPieces
  <1>2. n \in Nat /\ Len(seq) \in Nat /\ \A i \in 1..n : d[i] \in Symbols \ S
    <2>1. n \in Nat /\ Len(seq) \in Nat /\ DOMAIN d = 1..n /\ \A i \in 1..n : d[i] \in Symbols
      BY LenProperties, ElementOfSeq
    <2> QED
      BY <2>1 DEF Has
  <1> HIDE DEF f, left, gaps
  <1>3. PICK g \in [0..n -> Seq(Symbols)] :
            /\ g[0] = <<>>
            /\ \A i \in 1..n : g[i] = g[i - 1] \o f[i]
            /\ FlattenSeq(f) = g[n]
    <2>1. Len(f) = n /\ f \in Seq(Seq(Symbols))
      BY <1>1
    <2> HIDE DEF n
    <2> QED
      BY <2>1, FlattenSteps
  <1>15. \A y \in gaps : y \in Nat /\ y <= n - 1
    <2>1. gaps \in SUBSET (0..(n - 1))
      BY <1>1
    <2> QED
      BY <1>2, <2>1
  <1>4. /\ IsFiniteSet(gaps) /\ card \in Nat
        /\ \A k \in Int : Rank(gaps, k) \in Nat
        /\ \A k \in gaps : Rank(gaps, k) \in 1..card
    <2>1. gaps \in SUBSET (0..n)
      BY <1>1, <1>2
    <2> QED
      BY <1>2, <2>1, Ranks
  <1> DEFINE m(i) == IF Rank(gaps, i - 1) <= Len(seq) THEN Rank(gaps, i - 1) ELSE Len(seq)
  <1>5. Rank(gaps, 0 - 1) = 0
    <2>1. {y \in gaps : y <= 0 - 1} = {}
      BY <1>15
    <2> QED
      BY <2>1, FS_EmptySet DEF Rank
  <1>6. \A i \in 1..n : Rank(gaps, i - 1)
            = IF i - 1 \in gaps THEN Rank(gaps, (i - 1) - 1) + 1 ELSE Rank(gaps, (i - 1) - 1)
    <2>1. SUFFICES ASSUME NEW i \in 1..n
                   PROVE  Rank(gaps, i - 1)
                            = IF i - 1 \in gaps THEN Rank(gaps, (i - 1) - 1) + 1
                              ELSE Rank(gaps, (i - 1) - 1)
      OBVIOUS
    <2> DEFINE A == {y \in gaps : y <= i - 1}
               B == {y \in gaps : y <= (i - 1) - 1}
    <2>2. A = IF i - 1 \in gaps THEN B \cup {i - 1} ELSE B
      <3>1. \A y \in Nat : y <= i - 1 <=> y <= (i - 1) - 1 \/ y = i - 1
        BY <1>2
      <3> QED
        BY <1>15, <3>1
    <2>3. i - 1 \notin B /\ B \subseteq gaps
      BY <1>2
    <2>4. IsFiniteSet(B)
      BY <1>4, <2>3, FS_Subset
    <2>5. Rank(gaps, i - 1) = Cardinality(A) /\ Rank(gaps, (i - 1) - 1) = Cardinality(B)
      BY DEF Rank
    <2> HIDE DEF A, B
    <2>6. CASE i - 1 \in gaps
      BY <2>2, <2>3, <2>4, <2>5, <2>6, FS_AddElement
    <2>7. CASE i - 1 \notin gaps
      BY <2>2, <2>5, <2>7
    <2> QED
      BY <2>6, <2>7
  <1>7. \A i \in 0..n : m(i) \in 0..Len(seq)
    BY <1>2, <1>4
  <1> DEFINE fails == {i \in 0..n : Only(g[i], S) # Only(SubSeq(seq, 1, m(i)), S)}
  <1>8. fails = {}
    <2>1. SUFFICES ASSUME fails # {} PROVE FALSE
      OBVIOUS
    <2>2. PICK i \in fails : \A j \in fails : i <= j
      <3>1. fails \in SUBSET Nat
        OBVIOUS
      <3> HIDE DEF fails
      <3> QED
        BY <2>1, <3>1, Least
    <2>3. i \in 0..n /\ Only(g[i], S) # Only(SubSeq(seq, 1, m(i)), S)
      BY <2>2
    <2>4. i # 0
      <3>1. SubSeq(seq, 1, 0) = <<>>
        OBVIOUS
      <3>2. i = 0 => m(i) = 0
        BY <1>2, <1>5
      <3> HIDE DEF m, fails
      <3> QED
        BY <1>3, <2>3, <3>1, <3>2
    <2>5. i \in 1..n /\ i - 1 \in 0..n
      BY <1>2, <2>3, <2>4
    <2> DEFINE p == i - 1
    <2>6. Only(g[p], S) = Only(SubSeq(seq, 1, m(p)), S)
      <3>1. p \notin fails
        BY <2>2, <2>5
      <3> HIDE DEF m
      <3> QED
        BY <2>5, <3>1
    <2> DEFINE a == PutAt(d, seq, p)
               b == <<d[i]>>
    <2>7. a \in Seq(V) /\ b \in Seq(Symbols) /\ f[i] = a \o b /\ g[p] \in Seq(Symbols)
          /\ g[i] = g[p] \o f[i] /\ d[i] \in Symbols /\ d[i] \notin S
      BY <1>1, <1>2, <1>3, <2>5
    <2>8. Only(b, S) = <<>>
      BY <2>7, OnlyOne
    <2>9. Only(g[i], S) = Only(g[p], S) \o Only(a, S)
      <3> DEFINE q == g[p]
      <3>1. a \in Seq(Symbols) /\ q \in Seq(Symbols)
        BY <2>7, SeqMonotonic
      <3> HIDE DEF a, b, q, m, fails
      <3>5. b \in Seq(Symbols)
        BY <2>7
      <3>6. Only(a \o b, S) = Only(a, S) \o Only(b, S)
        BY <3>1, <3>5, OnlyJoined, SMTT(40)
      <3>7. a \o b \in Seq(Symbols)
        BY <3>1, <3>5
      <3> DEFINE c == a \o b
      <3>2. c \in Seq(Symbols) /\ Only(c, S) = Only(a, S) \o Only(b, S)
        BY <3>6, <3>7
      <3> HIDE DEF c
      <3>3. Only(a, S) \o <<>> = Only(a, S)
        <4>1. Only(a, S) \in Seq(Symbols \cap S)
          BY <3>1, OnlyType
        <4> QED
          BY <4>1, ConcatEmptySeq
      <3>4. Only(q \o c, S) = Only(q, S) \o Only(c, S)
        <4>1. q \in Seq(Symbols)
          BY <3>1
        <4>2. c \in Seq(Symbols)
          BY <3>2
        <4> QED
          BY <4>1, <4>2, OnlyJoined
      <3>8. g[i] = q \o c
        BY <2>7 DEF q, c
      <3> QED
        BY <2>8, <3>2, <3>3, <3>4, <3>8 DEF q
    <2>10. CASE p \in gaps /\ Rank(gaps, p) <= Len(seq)
      <3> DEFINE r == Rank(gaps, p - 1)
      <3>1. Rank(gaps, p) = r + 1 /\ r \in Nat
        BY <1>4, <1>6, <2>5, <2>10
      <3>2. m(i) = r + 1 /\ m(p) = r /\ r \in 0..(Len(seq) - 1)
        BY <1>2, <2>10, <3>1
      <3>3. a = <<seq[r + 1]>>
        BY <2>10, <3>1 DEF PutAt, gaps
      <3> HIDE DEF r, m, a
      <3> DEFINE q == SubSeq(seq, 1, r)
                 x == seq[r + 1]
      <3>4. q \in Seq(V) /\ x \in V /\ SubSeq(seq, 1, r + 1) = Append(q, x)
        BY <3>2, SubSeqNext
      <3> HIDE DEF q, x
      <3>5. Only(Append(q, x), S) = IF x \in S THEN Append(Only(q, S), x) ELSE Only(q, S)
        BY <3>4, OnlyAppend
      <3>6. Only(<<x>>, S) = IF x \in S THEN <<x>> ELSE <<>>
        BY <3>4, OnlyOne
      <3>7. Only(q, S) \in Seq(V)
        <4>1. Only(q, S) \in Seq(V \cap S)
          BY <3>4, OnlyType
        <4> QED
          BY <4>1
      <3>8. Only(q, S) \o <<x>> = Append(Only(q, S), x) /\ Only(q, S) \o <<>> = Only(q, S)
        BY <3>4, <3>7, Joined
      <3>9. Only(g[i], S) = Only(Append(q, x), S)
        BY <2>6, <2>9, <3>2, <3>3, <3>5, <3>6, <3>8 DEF q, x
      <3> QED
        BY <2>3, <3>2, <3>4, <3>9
    <2>11. CASE ~(p \in gaps /\ Rank(gaps, p) <= Len(seq))
      <3>1. a = <<>>
        BY <2>11 DEF PutAt, gaps
      <3>2. m(i) = m(p)
        <4>1. CASE p \notin gaps
          <5>1. Rank(gaps, p) = Rank(gaps, p - 1)
            BY <1>6, <2>5, <4>1
          <5> QED
            BY <5>1
        <4>2. CASE p \in gaps
          <5>1. Rank(gaps, p) = Rank(gaps, p - 1) + 1 /\ Rank(gaps, p - 1) \in Nat
            BY <1>4, <1>6, <2>5, <4>2
          <5> QED
            BY <1>2, <2>11, <4>2, <5>1
        <4> QED
          BY <4>1, <4>2
      <3>3. Only(a, S) = <<>>
        BY <3>1, OnlyAppend
      <3>4. Only(g[p], S) \o <<>> = Only(g[p], S)
        <4>1. Only(g[p], S) \in Seq(Symbols \cap S)
          BY <2>7, OnlyType
        <4> QED
          BY <4>1, ConcatEmptySeq
      <3> HIDE DEF m, a, fails
      <3> QED
        BY <2>3, <2>6, <2>9, <3>2, <3>3, <3>4
    <2> QED
      BY <2>10, <2>11
  <1>9. Rank(gaps, n - 1) = card
    <2>1. {y \in gaps : y <= n - 1} = gaps
      BY <1>15
    <2> QED
      BY <2>1 DEF Rank
  <1> DEFINE q == SubSeq(seq, 1, m(n))
  <1>10. q \in Seq(V) /\ q \o left = seq
    <2>1. CASE card <= Len(seq)
      <3>1. m(n) = card
        BY <1>9, <2>1
      <3>2. left = SubSeq(seq, card + 1, Len(seq))
        BY DEF Left, left, gaps
      <3>3. card \in 0..Len(seq)
        BY <1>2, <1>4, <2>1
      <3> HIDE DEF m, card
      <3>4. SubSeq(seq, 1, card) \in Seq(V)
        BY <1>2, <3>3
      <3>5. SubSeq(seq, 1, card) \o SubSeq(seq, card + 1, Len(seq)) = SubSeq(seq, 1, Len(seq))
        <4> DEFINE k == Len(seq)
        <4>1. 1 \in 1..(k + 1) /\ card \in (1 - 1)..k /\ k \in card..k
          BY <1>2, <3>3
        <4> QED
          BY <4>1, ConcatAdjacentSubSeq
      <3>6. SubSeq(seq, 1, Len(seq)) = seq
        BY SubSeqFull
      <3> QED
        BY <3>1, <3>2, <3>4, <3>5, <3>6
    <2>2. CASE ~(card <= Len(seq))
      <3>1. m(n) = Len(seq)
        BY <1>9, <2>2
      <3>2. left = SubSeq(seq, card + 1, Len(seq))
        BY DEF Left, left, gaps
      <3>3. card + 1 > Len(seq) /\ card + 1 \in Int
        <4>1. card \in Nat
          BY <1>4
        <4> HIDE DEF card, m
        <4> QED
          BY <1>2, <2>2, <4>1
      <3> HIDE DEF m, card
      <3>4. left = <<>>
        BY <1>2, <3>2, <3>3, SubSeqEmpty
      <3>5. SubSeq(seq, 1, Len(seq)) = seq
        BY SubSeqFull
      <3>6. seq \o <<>> = seq
        BY ConcatEmptySeq
      <3> QED
        BY <3>1, <3>4, <3>5, <3>6
    <2> QED
      BY <2>1, <2>2
  <1>11. Only(g[n], S) = Only(q, S) /\ g[n] \in Seq(Symbols)
    <2>1. n \in 0..n
      BY <1>2
    <2> HIDE DEF m
    <2> QED
      BY <1>3, <1>8, <2>1
  <1> HIDE DEF q, m, fails
  <1>12. Only(q \o left, S) = Only(q, S) \o Only(left, S)
    <2>1. q \in Seq(V) /\ left \in Seq(V)
      BY <1>1, <1>10
    <2> QED
      BY <2>1, OnlyJoined
  <1> DEFINE u == g[n]
  <1>13. u \in Seq(Symbols) /\ left \in Seq(Symbols)
    BY <1>1, <1>11, SeqMonotonic
  <1> HIDE DEF u
  <1>14. Only(u \o left, S) = Only(u, S) \o Only(left, S)
    BY <1>13, OnlyJoined
  <1> QED
    BY <1>1, <1>3, <1>10, <1>11, <1>12, <1>14 DEF u

\* Something put into a document, and what is there of everything else.
LEMMA PutIn ==
    ASSUME NEW T, NEW d \in Seq(T), NEW k \in 0..Len(d), NEW x \in T
    PROVE  /\ InsertAt(d, k + 1, x) \in Seq(T)
           /\ \A S : x \notin S => Only(InsertAt(d, k + 1, x), S) = Only(d, S)
PROOF
  <1> DEFINE n == Len(d)
             a == SubSeq(d, 1, k)
             c == SubSeq(d, k + 1, n)
             b == <<x>>
  <1>1. n \in Nat /\ \A i \in 1..n : d[i] \in T
    BY LenProperties, ElementOfSeq
  <1>2. InsertAt(d, k + 1, x) = a \o b \o c
    <2>1. (k + 1) - 1 = k
      OBVIOUS
    <2> QED
      BY <2>1 DEF InsertAt
  <1>3. a \in Seq(T) /\ c \in Seq(T)
    <2>1. k \in Int /\ k + 1 \in Int /\ n \in Int /\ 1 \in Int
      BY <1>1
    <2>2. \A i \in 1..k : d[i] \in T
      BY <1>1
    <2>3. \A i \in (k + 1)..n : d[i] \in T
      BY <1>1
    <2> HIDE DEF n
    <2>4. SubSeq(d, 1, k) \in Seq(T)
      BY <2>1, <2>2, SubSeqProperties
    <2>5. SubSeq(d, k + 1, n) \in Seq(T)
      BY <2>1, <2>3, SubSeqProperties
    <2> QED
      BY <2>4, <2>5
  <1>4. a \o c = d
    <2>1. 1 \in 1..(n + 1) /\ k \in (1 - 1)..n /\ n \in k..n
      BY <1>1
    <2>2. SubSeq(d, 1, k) \o SubSeq(d, k + 1, n) = SubSeq(d, 1, n)
      BY <2>1, ConcatAdjacentSubSeq
    <2> QED
      BY <2>2, SubSeqFull
  <1>5. b \in Seq(T)
    OBVIOUS
  <1> HIDE DEF a, b, c
  <1> DEFINE u == a \o b
  <1>6. u \in Seq(T)
    BY <1>3, <1>5
  <1> HIDE DEF u
  <1>7. u \o c \in Seq(T)
    BY <1>3, <1>6
  <1>8. ASSUME NEW S, x \notin S PROVE Only(u \o c, S) = Only(d, S)
    <2>1. Only(u \o c, S) = Only(u, S) \o Only(c, S)
      BY <1>3, <1>6, OnlyJoined, SMTT(40)
    <2>2. Only(a \o b, S) = Only(a, S) \o Only(b, S)
      BY <1>3, <1>5, OnlyJoined, SMTT(40)
    <2>3. Only(b, S) = <<>>
      BY <1>8, OnlyOne DEF b
    <2>4. Only(a, S) \o <<>> = Only(a, S)
      <3>1. Only(a, S) \in Seq(T \cap S)
        BY <1>3, OnlyType
      <3> QED
        BY <3>1, ConcatEmptySeq
    <2>5. Only(a \o c, S) = Only(a, S) \o Only(c, S)
      BY <1>3, OnlyJoined
    <2> QED
      BY <1>4, <2>1, <2>2, <2>3, <2>4, <2>5 DEF u
  <1> QED
    BY <1>2, <1>7, <1>8 DEF u

\* A letter written over, in the document and in the text.
LEMMA Rewritten ==
    ASSUME NEW d, NEW t, Reads(d, t), NEW i \in DOMAIN d, d[i] \in Letters,
           NEW x \in LatinLetters
    PROVE  LET j == Cardinality({k \in 1..i : d[k] \notin Marks})
           IN  Reads([d EXCEPT ![i] = x], [t EXCEPT ![j] = x])
PROOF
  <1> DEFINE V == Symbols \ Marks
             b == Bare(d)
             e == [d EXCEPT ![i] = x]
             j == Cardinality({k \in 1..i : d[k] \notin Marks})
             w == [t EXCEPT ![j] = x]
  <1>1. /\ d \in Seq(Symbols) /\ t \in Seq(V) /\ Pairwise(b, t, Twins)
        /\ b \in Seq(V) /\ b \in Seq(Symbols)
    BY BareType DEF Reads
  <1>2. /\ Len(d) \in Nat /\ i \in 1..Len(d) /\ x \in V /\ x \in Symbols
        /\ \A k \in 1..Len(d) : d[k] \in Symbols /\ d[i] \in V
    BY <1>1, Alphabet, LenProperties, ElementOfSeq
  <1>3. e \in Seq(Symbols)
    BY <1>1, <1>2, ExceptSeq
  <1>4. {k \in 1..i : d[k] \notin Marks} = {k \in 1..i : d[k] \in V}
    BY <1>2
  <1>5. j \in 1..Len(b) /\ Bare(e) = [b EXCEPT ![j] = x]
    <2>1. x \in Symbols \cap V
      BY <1>2
    <2>2. d[i] \in V /\ i \in 1..Len(d)
      BY <1>2
    <2> DEFINE r == Cardinality({k \in 1..i : d[k] \in V})
    <2>3. r \in 1..Len(Only(d, V)) /\ Only([d EXCEPT ![i] = x], V) = [Only(d, V) EXCEPT ![r] = x]
      <3>1. d \in Seq(Symbols)
        BY <1>1
      <3> HIDE DEF V, e, b, j, w
      <3> HIDE DEF r
      <3>2. r = Nth(d, V, i)
        BY DEF Nth, r
      <3> QED
        BY <2>1, <2>2, <3>1, <3>2, OnlyExcept
    <2>4. r = j
      BY <1>4
    <2> HIDE DEF r, j
    <2> QED
      BY <2>3, <2>4 DEF Bare
  <1> HIDE DEF j, V, b, e
  <1>6. Len(b) = Len(t) /\ \A k \in 1..Len(t) : <<b[k], t[k]>> \in Twins
    BY <1>1 DEF Pairwise
  <1>7. w \in Seq(V) /\ Len(w) = Len(t) /\ \A k \in 1..Len(t) : w[k] = IF k = j THEN x ELSE t[k]
    BY <1>1, <1>2, <1>5, <1>6, ExceptSeq
  <1> DEFINE v == [b EXCEPT ![j] = x]
  <1>8. v \in Seq(V) /\ Len(v) = Len(b) /\ \A k \in 1..Len(b) : v[k] = IF k = j THEN x ELSE b[k]
    BY <1>1, <1>2, <1>5, ExceptSeq
  <1> HIDE DEF v, w
  <1>9. Pairwise(v, w, Twins)
    <2>1. <<x, x>> \in Twins
      BY <1>2, TwinsAgree
    <2> QED
      BY <1>6, <1>7, <1>8, <2>1 DEF Pairwise
  <1>10. Has(w, LatinLetters)
    <2>1. j \in 1..Len(w) /\ DOMAIN w = 1..Len(w)
      BY <1>5, <1>6, <1>7, LenProperties
    <2>2. w[j] = x
      BY <1>6, <1>7, <1>5
    <2> QED
      BY <2>1, <2>2 DEF Has
  <1>11. Reads(e, w)
    BY <1>3, <1>5, <1>7, <1>9, <1>10 DEF Reads, v, V
  <1> QED
    BY <1>11 DEF e, w, j

\* What a carrier puts in a sequence of marks for its bits.
Written01(c, bits) == [i \in 1..Len(bits) |-> BitChar(c, bits[i])]

\* A written sequence without its delimiters is its bits' characters.
LEMMA SequencedHolds ==
    ASSUME NEW c \in Inserting, NEW bits \in BitStrings
    PROVE  Only(Sequenced(c, bits), {Bit0[c], Bit1[c]}) = Written01(c, bits)
PROOF
  <1> DEFINE V == Occupying(c)
             S == {Bit0[c], Bit1[c]}
             d == Written01(c, bits)
             pre(i) == IF c \in Delimiting /\ i > 1 /\ (i - 1) % ByteBits = 0
                       THEN <<Delim[c]>> ELSE <<>>
             f == [i \in DOMAIN bits |-> pre(i) \o <<BitChar(c, bits[i])>>]
  <1>1. Len(bits) \in Nat /\ DOMAIN bits = 1..Len(bits)
    BY LenProperties DEF BitStrings
  <1>2. (c \in Delimiting => Delim[c] \in V /\ Delim[c] \notin S) /\ S \subseteq V
    <2>1. c \in Delimiting => Delim[c] \notin S
      <3>1. c \in Delimiting => c \in {"whitespace_var", "bidi"}
        BY DEF Delimiting, Delim
      <3>2. /\ Delim["whitespace_var"] = "ws," /\ Delim["bidi"] = "bd,"
            /\ Bit0["whitespace_var"] = "ws0" /\ Bit0["bidi"] = "bd0"
            /\ Bit1["whitespace_var"] = "ws1" /\ Bit1["bidi"] = "bd1"
        BY DEF Delim, Bit0, Bit1
      <3> QED
        BY <3>1, <3>2
    <2> QED
      BY <2>1, Alphabet
  <1>3. \A b : BitChar(c, b) \in S
    BY DEF BitChar
  <1> HIDE DEF V, S
  <1>4. d \in Seq(S) /\ Len(d) = Len(bits) /\ \A i \in 1..Len(bits) : d[i] = BitChar(c, bits[i])
    <2>1. d \in [1..Len(bits) -> S]
      BY <1>1, <1>3 DEF Written01
    <2>2. d \in Seq(S) /\ Len(d) = Len(bits)
      <3> HIDE DEF d
      <3> QED
        BY <1>1, <2>1, IsASeq
    <2> QED
      BY <2>2 DEF Written01
  <1>5. \A i \in 1..Len(bits) : pre(i) \in Seq(V) /\ Only(pre(i), S) = <<>>
    <2>1. SUFFICES ASSUME NEW i \in 1..Len(bits) PROVE pre(i) \in Seq(V) /\ Only(pre(i), S) = <<>>
      OBVIOUS
    <2>2. CASE c \in Delimiting /\ i > 1 /\ (i - 1) % ByteBits = 0
      <3>1. Delim[c] \in V /\ Delim[c] \notin S
        BY <1>2, <2>2
      <3> DEFINE y == Delim[c]
      <3> HIDE DEF y
      <3>2. pre(i) = <<y>>
        BY <2>2 DEF y
      <3>3. Only(<<y>>, S) = <<>>
        BY <3>1, OnlyOne DEF y
      <3>4. <<y>> \in Seq(V)
        BY <3>1 DEF y
      <3> HIDE DEF pre
      <3> QED
        BY <3>2, <3>3, <3>4
    <2>3. CASE ~(c \in Delimiting /\ i > 1 /\ (i - 1) % ByteBits = 0)
      <3>1. pre(i) = <<>>
        BY <2>3
      <3>2. Only(<<>>, S) = <<>> /\ <<>> \in Seq(V)
        BY OnlyAppend
      <3> HIDE DEF pre
      <3> QED
        BY <3>1, <3>2
    <2> QED
      BY <2>2, <2>3
  <1>6. \A i \in 1..Len(bits) : f[i] = pre(i) \o <<d[i]>>
    BY <1>1, <1>4
  <1> HIDE DEF pre, d
  <1>7. \A i \in 1..Len(bits) : f[i] \in Seq(V) /\ Only(f[i], S) = IF d[i] \in S THEN <<d[i]>> ELSE <<>>
    <2>1. SUFFICES ASSUME NEW i \in 1..Len(bits)
                   PROVE  /\ f[i] \in Seq(V)
                          /\ Only(f[i], S) = IF d[i] \in S THEN <<d[i]>> ELSE <<>>
      OBVIOUS
    <2> DEFINE a == pre(i)
               b == <<d[i]>>
    <2>2. d[i] \in S /\ d[i] \in V
      BY <1>2, <1>4, ElementOfSeq
    <2>3. a \in Seq(V) /\ Only(a, S) = <<>> /\ f[i] = a \o b
      BY <1>5, <1>6
    <2>4. b \in Seq(V) /\ Only(b, S) = <<d[i]>>
      BY <2>2, OnlyOne
    <2> HIDE DEF a, b
    <2>5. a \o b \in Seq(V) /\ Only(a \o b, S) = Only(a, S) \o Only(b, S)
      <3>1. Only(a \o b, S) = Only(a, S) \o Only(b, S)
        <4>1. a \in Seq(V)
          BY <2>3
        <4>2. b \in Seq(V)
          BY <2>4
        <4> HIDE DEF f
        <4> QED
          BY <4>1, <4>2, OnlyJoined
      <3> QED
        BY <2>3, <2>4, <3>1
    <2>6. <<>> \o <<d[i]>> = <<d[i]>>
      OBVIOUS
    <2> HIDE DEF f
    <2> QED
      BY <2>2, <2>3, <2>4, <2>5, <2>6
  <1>8. f \in Seq(Seq(V)) /\ Len(f) = Len(d)
    <2>1. f \in [1..Len(bits) -> Seq(V)]
      <3>1. f = [i \in 1..Len(bits) |-> f[i]]
        BY <1>1
      <3> HIDE DEF f
      <3> QED
        BY <1>7, <3>1
    <2> HIDE DEF f
    <2> QED
      BY <1>1, <1>4, <2>1, IsASeq
  <1>9. d \in Seq(V)
    BY <1>2, <1>4, SeqMonotonic
  <1> HIDE DEF f
  <1>10. Only(FlattenSeq(f), S) = Only(d, S)
    BY <1>4, <1>7, <1>8, <1>9, FlattenOnly
  <1>11. Only(d, S) = d
    BY <1>4, OnlyAll
  <1>12. Sequenced(c, bits) = FlattenSeq(f)
    BY DEF Sequenced, f, pre
  <1> QED
    BY <1>10, <1>11, <1>12 DEF d, S

\* And what it reads of them.
LEMMA ReadsWritten ==
    ASSUME NEW c \in Inserting, NEW bits \in BitStrings, NEW d,
           Only(d, {Bit0[c], Bit1[c]}) = Written01(c, bits)
    PROVE  ReadPositions(c, d) = bits
PROOF
  <1>1. c # "homoglyph" /\ Bit0[c] # Bit1[c]
    BY Alphabet DEF Inserting, Bit0, Bit1
  <1>2. Len(bits) \in Nat /\ bits \in [1..Len(bits) -> {0, 1}]
    BY LenProperties DEF BitStrings
  <1> DEFINE read == Written01(c, bits)
  <1>3. ReadPositions(c, d) = [j \in DOMAIN read |-> IF read[j] = Bit1[c] THEN 1 ELSE 0]
    BY <1>1 DEF ReadPositions
  <1>4. DOMAIN read = 1..Len(bits)
        /\ \A j \in 1..Len(bits) : (IF read[j] = Bit1[c] THEN 1 ELSE 0) = bits[j]
    BY <1>1, <1>2 DEF Written01, BitChar
  <1> HIDE DEF read
  <1> QED
    BY <1>2, <1>3, <1>4

\* Where two documents differ in no mark, the same marks are in both.
LEMMA SameMarks ==
    ASSUME NEW d \in Seq(Symbols), NEW e \in Seq(Symbols), Len(d) = Len(e),
           \A i \in 1..Len(d) : d[i] = e[i] \/ (d[i] \notin Marks /\ e[i] \notin Marks),
           NEW S \in SUBSET Marks
    PROVE  Only(d, S) = Only(e, S)
PROOF
  <1> DEFINE R == {p \in Symbols \X Symbols : p[1] = p[2] \/ (p[1] \notin Marks /\ p[2] \notin Marks)}
  <1>1. \A x, y : <<x, y>> \in R <=>
            x \in Symbols /\ y \in Symbols /\ (x = y \/ (x \notin Marks /\ y \notin Marks))
    OBVIOUS
  <1> HIDE DEF R
  <1>2. \A i \in 1..Len(d) : d[i] \in Symbols /\ e[i] \in Symbols
    BY ElementOfSeq
  <1>3. Pairwise(d, e, R)
    BY <1>1, <1>2 DEF Pairwise
  <1>4. \A x \in Symbols, y \in Symbols : <<x, y>> \in R => (x \in S <=> y \in S)
    BY <1>1
  <1> DEFINE a == Only(d, S)
             b == Only(e, S)
  <1>5. Pairwise(a, b, R)
    BY <1>3, <1>4, OnlyPairwise
  <1>6. a \in Seq(Symbols \cap S) /\ b \in Seq(Symbols \cap S)
    BY OnlyType
  <1> HIDE DEF a, b
  <1>7. Len(a) = Len(b) /\ \A i \in 1..Len(a) : a[i] = b[i]
    <2>1. \A i \in 1..Len(a) : a[i] \in S
      BY <1>6, ElementOfSeq
    <2> QED
      BY <1>1, <1>5, <2>1 DEF Pairwise
  <1>8. a = b
    BY <1>6, <1>7, SeqEqual
  <1> QED
    BY <1>8 DEF a, b

BitMarks(c) == {Bit0[c], Bit1[c]}

\* No two carriers write the same marks.
LEMMA Apart ==
    \A c \in Inserting :
        /\ BitMarks(c) \in SUBSET Marks /\ BitMarks(c) \subseteq Removable(c)
        /\ BitMarks(c) \subseteq Occupying(c)
        /\ Occupying(c) \in SUBSET Symbols
        /\ \A o \in Inserting \ {c} : Removable(o) \cap BitMarks(c) = {}
                                      /\ Occupying(o) \cap BitMarks(c) = {}
PROOF
  <1>1. Inserting = {"zero_width", "whitespace_var", "bidi"}
        /\ Delimiting = {"whitespace_var", "bidi"}
    BY DEF Inserting, Delimiting, Bit0, Delim
  <1>2. /\ Removable("zero_width") = {"zw0", "zw1"}
        /\ Removable("whitespace_var") = {"ws0", "ws1", "ws,", "ws+"}
        /\ Removable("bidi") = {"bd0", "bd1", "bd,", "bd+"}
    BY <1>1 DEF Removable, Occupying, Bit0, Bit1, Delim, Spare
  <1>3. /\ BitMarks("zero_width") = {"zw0", "zw1"} /\ BitMarks("whitespace_var") = {"ws0", "ws1"}
        /\ BitMarks("bidi") = {"bd0", "bd1"}
    BY DEF BitMarks, Bit0, Bit1
  <1>4. \A c \in Inserting : Removable(c) \subseteq Marks /\ Occupying(c) \subseteq Removable(c)
                             /\ BitMarks(c) \subseteq Occupying(c) /\ Marks \subseteq Symbols
    BY Alphabet DEF BitMarks
  <1>5. \A c \in Inserting, o \in Inserting : o # c => Removable(o) \cap BitMarks(c) = {}
    BY <1>1, <1>2, <1>3, ZenonT(60)
  <1> QED
    BY <1>4, <1>5

\* Carriers have no character in common.
LEMMA CarriersApart ==
    \A c \in Inserting, o \in Inserting : c # o => Removable(o) \cap Occupying(c) = {}
PROOF
  <1>1. Inserting = {"zero_width", "whitespace_var", "bidi"}
        /\ Delimiting = {"whitespace_var", "bidi"}
    BY DEF Inserting, Delimiting, Bit0, Delim
  <1>2. /\ Removable("zero_width") = {"zw0", "zw1"}
        /\ Removable("whitespace_var") = {"ws0", "ws1", "ws,", "ws+"}
        /\ Removable("bidi") = {"bd0", "bd1", "bd,", "bd+"}
    BY <1>1 DEF Removable, Occupying, Bit0, Bit1, Delim, Spare
  <1>3. \A c \in Inserting : Occupying(c) \subseteq Removable(c)
    BY Alphabet
  <1>4. \A c \in Inserting, o \in Inserting : c # o => Removable(o) \cap Removable(c) = {}
    BY <1>1, <1>2
  <1> QED
    BY <1>3, <1>4

\* Removing one carrier leaves what another one wrote.
LEMMA StripKeepsBits ==
    ASSUME NEW d \in Seq(Symbols), NEW c \in Inserting, NEW o \in Carrier, o # c
    PROVE  Strip(o, d) \in Seq(Symbols) /\ Only(Strip(o, d), BitMarks(c)) = Only(d, BitMarks(c))
PROOF
  <1>1. "twin" \in Symbols /\ "twin" \notin Marks /\ "alike" \notin Marks
        /\ BitMarks(c) \in SUBSET Marks /\ Marks \subseteq Symbols
    BY Alphabet, Apart
  <1>2. CASE o = "homoglyph"
    <2> DEFINE e == Strip("homoglyph", d)
    <2>1. e \in Seq(Symbols)
      BY <1>1, StripOut
    <2>2. Len(d) \in Nat /\ DOMAIN d = 1..Len(d)
      BY LenProperties
    <2>3. e = [i \in 1..Len(d) |-> IF i \in Attributed(d) THEN "twin" ELSE d[i]]
      BY <2>2 DEF Strip
    <2>4. \A i \in Attributed(d) : d[i] = "alike"
      BY RegionsType
    <2> HIDE DEF e
    <2>5. Len(e) = Len(d)
      BY <2>1, <2>2, <2>3, LenProperties
    <2>6. \A i \in 1..Len(e) : e[i] = d[i] \/ (e[i] \notin Marks /\ d[i] \notin Marks)
      BY <1>1, <2>3, <2>4, <2>5
    <2>7. Only(e, BitMarks(c)) = Only(d, BitMarks(c))
      BY <1>1, <2>1, <2>5, <2>6, SameMarks
    <2> QED
      BY <1>2, <2>1, <2>7 DEF e
  <1>3. CASE o \in Inserting
    <2>1. Strip(o, d) = Only(d, Symbols \ Removable(o)) /\ Strip(o, d) \in Seq(Symbols \ Removable(o))
      BY <1>1, <1>3, StripOut
    <2>2. Strip(o, d) \in Seq(Symbols)
      BY <2>1, SeqMonotonic
    <2>3. Only(Only(d, Symbols \ Removable(o)), BitMarks(c))
            = Only(d, (Symbols \ Removable(o)) \cap BitMarks(c))
      BY OnlyOnly
    <2>4. (Symbols \ Removable(o)) \cap BitMarks(c) = BitMarks(c)
      BY <1>1, <1>3, Apart
    <2> QED
      BY <2>1, <2>2, <2>3, <2>4
  <1> QED
    BY <1>2, <1>3 DEF Carrier

\* A carrier nobody chose to strip keeps its bits.
LEMMA StripEachKeepsBits ==
    ASSUME NEW d \in Seq(Symbols), NEW c \in Inserting, NEW chosen, c \notin chosen
    PROVE  /\ Only(StripEach(CleanOrder, chosen, d), BitMarks(c)) = Only(d, BitMarks(c))
           /\ Only(StripEach(CarrierOrder, chosen, d), BitMarks(c)) = Only(d, BitMarks(c))
PROOF
  <1> DEFINE Same(e) == e \in Seq(Symbols) /\ Only(e, BitMarks(c)) = Only(d, BitMarks(c))
  <1>1. ASSUME NEW e, Same(e), NEW o \in Carrier
        PROVE  Same(IF o \in chosen THEN Strip(o, e) ELSE e)
    <2>1. CASE o \in chosen
      <3>1. o # c
        BY <2>1
      <3> QED
        BY <1>1, <2>1, <3>1, StripKeepsBits
    <2>2. CASE o \notin chosen
      BY <1>1, <2>2
    <2> QED
      BY <2>1, <2>2
  <1>2. \A i \in 1..4 : CleanOrder[i] \in Carrier /\ CarrierOrder[i] \in Carrier
    BY DEF CleanOrder, CarrierOrder, Carrier, Inserting, Bit0
  <1>3. ASSUME NEW order, \A i \in 1..4 : order[i] \in Carrier
        PROVE  Same(StripEach(order, chosen, d))
    <2> DEFINE step(i, u) == IF order[i] \in chosen THEN Strip(order[i], u) ELSE u
    <2> HIDE DEF Same
    <2>1. \A i \in 1..4 : \A e : Same(e) => Same(step(i, e))
      BY <1>1, <1>3
    <2>2. StripEach(order, chosen, d) = step(4, step(3, step(2, step(1, d))))
      BY DEF StripEach
    <2>3. Same(d)
      BY DEF Same
    <2> HIDE DEF step
    <2> QED
      BY <2>1, <2>2, <2>3
  <1> QED
    BY <1>2, <1>3

\* What placing does to the marks of every carrier, and to the text.
LEMMA WrittenHolds ==
    ASSUME NEW d, NEW t, Reads(d, t), NEW c \in Carrier,
           NEW bits, c \in Inserting => bits \in BitStrings
    PROVE  /\ Reads(Written(c, d, bits), t)
           /\ c \in Inserting => Bare(Written(c, d, bits)) = Bare(d)
           /\ \A o \in Inserting \ {c} :
                Only(Written(c, d, bits), BitMarks(o)) = Only(d, BitMarks(o))
           /\ c \in Inserting /\ Writable(c, d) =>
                Only(Written(c, d, bits), BitMarks(c)) = Written01(c, bits)
PROOF
  <1>1. d \in Seq(Symbols)
    BY DEF Reads
  <1>2. CASE c = "homoglyph"
    <2> DEFINE e == Substituted(d, bits)
    <2>1. Reads(e, t) /\ Pairwise(e, d, Twins)
      BY SubstitutedReads
    <2>2. e \in Seq(Symbols) /\ Len(e) = Len(d)
      BY <2>1 DEF Reads, Pairwise
    <2> HIDE DEF e
    <2>3. \A i \in 1..Len(e) : e[i] \in Symbols /\ d[i] \in Symbols
      BY <1>1, <2>2, ElementOfSeq
    <2>4. \A i \in 1..Len(e) : e[i] = d[i] \/ (e[i] \notin Marks /\ d[i] \notin Marks)
      BY <2>1, <2>3, TwinsAgree DEF Pairwise
    <2>5. \A o \in Inserting : Only(e, BitMarks(o)) = Only(d, BitMarks(o))
      BY <1>1, <2>2, <2>4, SameMarks, Apart
    <2>6. Written(c, d, bits) = e
      BY <1>2 DEF Written, e
    <2>7. c \notin Inserting
      BY <1>2, Alphabet
    <2> QED
      BY <2>1, <2>5, <2>6, <2>7
  <1>3. CASE c \in Inserting
    <2> DEFINE V == Occupying(c)
               seq == Sequenced(c, bits)
               e == PlacedAtBoundaries(d, seq)
    <2>1. bits \in BitStrings
      BY <1>3
    <2>2. seq \in Seq(V)
      BY <1>3, <2>1, SequencedType
    <2>3. V \in SUBSET Symbols /\ V \subseteq Marks
      BY <1>3, Alphabet
    <2>4. Written(c, d, bits) = e
      <3>1. c # "homoglyph"
        BY <1>3, Alphabet
      <3> QED
        BY <3>1 DEF Written
    <2> HIDE DEF V, seq
    <2>5. e \in Seq(Symbols) /\ \A S : S \cap V = {} => Only(e, S) = Only(d, S)
      BY <1>1, <2>2, <2>3, PlacedReads
    <2>6. Bare(e) = Bare(d)
      <3>1. (Symbols \ Marks) \cap V = {}
        BY <2>3
      <3> QED
        BY <2>5, <3>1 DEF Bare
    <2>7. Reads(e, t)
      BY <2>5, <2>6, Remarked
    <2>8. \A o \in Inserting \ {c} : Only(e, BitMarks(o)) = Only(d, BitMarks(o))
      <3> SUFFICES ASSUME NEW o \in Inserting \ {c}
                   PROVE  Only(e, BitMarks(o)) = Only(d, BitMarks(o))
        OBVIOUS
      <3>1. BitMarks(o) \cap V = {}
        BY <1>3, Apart DEF V
      <3> QED
        BY <2>5, <3>1
    <2>9. ASSUME Writable(c, d) PROVE Only(e, BitMarks(c)) = Written01(c, bits)
      <3>1. ~Has(d, BitMarks(c))
        BY <1>3, <2>9, Apart DEF Writable, Has
      <3>2. Only(e, BitMarks(c)) = Only(seq, BitMarks(c))
        BY <1>1, <2>2, <2>3, <3>1, PlacedHolds
      <3>3. Only(seq, BitMarks(c)) = Written01(c, bits)
        BY <1>3, <2>1, SequencedHolds DEF BitMarks, seq
      <3> QED
        BY <3>2, <3>3
    <2> QED
      BY <2>4, <2>6, <2>7, <2>8, <2>9
  <1> QED
    BY <1>2, <1>3 DEF Carrier

-----------------------------------------------------------------------------
(* The invariant.                                                          *)

\* A claim over a text whose script is beyond doubt hashes that very text.
Made(k) == k \in Claims /\ (Decided(k.over) => k.hash = k.over)

\* The document reads like its text; of every inserting carrier it holds what is
\* remembered of it; the claims are what the history says they were made over.
MarkedInv ==
    /\ Reads(doc, text)
    /\ held = [c \in Carrier |-> held[c]]
    /\ inband = [c \in Carrier |-> inband[c]]
    /\ \A c \in Inserting : held[c] # NoBits =>
        /\ held[c] \in BitStrings
        /\ Only(doc, BitMarks(c)) = Written01(c, held[c])
    /\ \A c \in Carrier : inband[c] # NoClaim =>
        /\ Made(inband[c])
        /\ held[c] = ClaimBits[inband[c].signer]
    /\ sidecar # NoClaim => Made(sidecar)

\* A document nobody has marked yet satisfies the invariant.
LEMMA MarkedInit == Init => MarkedInv
PROOF
  <1> SUFFICES ASSUME Init PROVE MarkedInv
    OBVIOUS
  <1> USE DEF Init
  <1>1. doc \in Seq(Symbols \ Marks) /\ text = doc
    BY DocumentAssumption DEF DocumentAssumption
  <1>2. doc \in Seq(Symbols)
    BY <1>1, SeqMonotonic
  <1>3. Bare(doc) = doc
    BY <1>1, OnlyAll DEF Bare
  <1>4. Pairwise(doc, doc, Twins)
    BY <1>2, TwinsAgree, ElementOfSeq DEF Pairwise
  <1>5. Reads(doc, text)
    BY <1>1, <1>2, <1>3, <1>4 DEF Reads
  <1>6. Inserting \subseteq Carrier
    BY DEF Carrier
  <1> QED
    BY <1>5, <1>6 DEF MarkedInv

\* What is signed now is made over the text as it stands.
LEMMA ClaimIsMade ==
    ASSUME MarkedInv, NEW s \in Signers
    PROVE  Made(Claim(s)) /\ Claim(s).signer = s
PROOF
  <1>1. Reads(doc, text)
    BY DEF MarkedInv
  <1>2. Reads(StripAll(doc), text)
    BY <1>1, StripEachReads DEF StripAll
  <1>3. StripAll(doc) \in Seq(Symbols) /\ text \in Seq(Symbols)
    BY <1>2, SeqMonotonic DEF Reads
  <1>4. Decided(text) => StripAll(doc) = text
    BY <1>1, StripAllRestores
  <1> QED
    BY <1>3, <1>4 DEF Claim, Made, Claims

\* A placement on any carrier keeps it.
LEMMA PlaceKeeps ==
    ASSUME MarkedInv, NEW c \in Carrier, NEW bits \in BitStrings, NEW claim,
           claim # NoClaim => Made(claim) /\ bits = ClaimBits[claim.signer],
           Place(c, bits, claim)
    PROVE  MarkedInv'
PROOF
  <1> USE DEF Place
  <1>1. Reads(doc, text) /\ doc' = Written(c, doc, bits) /\ text' = text /\ Writable(c, doc)
    BY DEF MarkedInv, Accepts
  <1>2. /\ Reads(doc', text)
        /\ \A o \in Inserting \ {c} : Only(doc', BitMarks(o)) = Only(doc, BitMarks(o))
        /\ c \in Inserting => Only(doc', BitMarks(c)) = Written01(c, bits)
    BY <1>1, WrittenHolds
  <1>3. /\ \A o \in Carrier : held'[o] = IF o = c THEN bits ELSE held[o]
        /\ \A o \in Carrier : inband'[o] = IF o = c THEN claim ELSE inband[o]
        /\ held' = [o \in Carrier |-> held'[o]]
        /\ inband' = [o \in Carrier |-> inband'[o]]
    BY DEF MarkedInv
  <1>4. ASSUME NEW o \in Inserting, held'[o] # NoBits
        PROVE  held'[o] \in BitStrings /\ Only(doc', BitMarks(o)) = Written01(o, held'[o])
    <2>1. o \in Carrier
      BY DEF Carrier
    <2>2. CASE o = c
      BY <1>2, <1>3, <2>1, <2>2
    <2>3. CASE o # c
      <3>1. held'[o] = held[o] /\ Only(doc', BitMarks(o)) = Only(doc, BitMarks(o))
        BY <1>2, <1>3, <2>1, <2>3
      <3> QED
        BY <1>4, <3>1 DEF MarkedInv
    <2> QED
      BY <2>2, <2>3
  <1>5. ASSUME NEW o \in Carrier, inband'[o] # NoClaim
        PROVE  Made(inband'[o]) /\ held'[o] = ClaimBits[inband'[o].signer]
    <2>1. CASE o = c
      BY <1>3, <1>5, <2>1
    <2>2. CASE o # c
      <3>1. inband'[o] = inband[o] /\ held'[o] = held[o]
        BY <1>3, <2>2
      <3> QED
        BY <1>5, <3>1 DEF MarkedInv
    <2> QED
      BY <2>1, <2>2
  <1>6. sidecar' # NoClaim => Made(sidecar')
    BY DEF MarkedInv
  <1> QED
    BY <1>1, <1>2, <1>3, <1>4, <1>5, <1>6 DEF MarkedInv

\* A carrier forgotten or kept, with the marks it has.
LEMMA ForgetKeeps ==
    ASSUME MarkedInv, NEW gone, Reads(doc', text'), sidecar' = sidecar,
           held' = [c \in Carrier |-> IF c \in gone THEN NoBits ELSE held[c]],
           inband' = [c \in Carrier |-> IF c \in gone THEN NoClaim ELSE inband[c]],
           \A c \in Inserting \ gone : Only(doc', BitMarks(c)) = Only(doc, BitMarks(c))
    PROVE  MarkedInv'
PROOF
  <1>1. \A c \in Carrier : /\ held'[c] = IF c \in gone THEN NoBits ELSE held[c]
                           /\ inband'[c] = IF c \in gone THEN NoClaim ELSE inband[c]
    OBVIOUS
  <1>2. held' = [c \in Carrier |-> held'[c]] /\ inband' = [c \in Carrier |-> inband'[c]]
    OBVIOUS
  <1>3. ASSUME NEW c \in Inserting, held'[c] # NoBits
        PROVE  held'[c] \in BitStrings /\ Only(doc', BitMarks(c)) = Written01(c, held'[c])
    <2>1. c \in Carrier
      BY DEF Carrier
    <2>2. c \notin gone /\ held'[c] = held[c]
      BY <1>1, <1>3, <2>1
    <2>3. Only(doc', BitMarks(c)) = Only(doc, BitMarks(c))
      BY <2>2
    <2> QED
      BY <1>3, <2>2, <2>3 DEF MarkedInv
  <1>4. ASSUME NEW c \in Carrier, inband'[c] # NoClaim
        PROVE  Made(inband'[c]) /\ held'[c] = ClaimBits[inband'[c].signer]
    <2>1. inband'[c] = inband[c] /\ held'[c] = held[c]
      BY <1>1, <1>4
    <2> QED
      BY <1>4, <2>1 DEF MarkedInv
  <1>5. sidecar' # NoClaim => Made(sidecar')
    BY DEF MarkedInv
  <1> QED
    BY <1>2, <1>3, <1>4, <1>5 DEF MarkedInv

\* Every step does.
LEMMA MarkedStep == MarkedInv /\ [Next]_vars => MarkedInv'
PROOF
  <1> SUFFICES ASSUME MarkedInv, [Next]_vars PROVE MarkedInv'
    OBVIOUS
  <1>1. Reads(doc, text) /\ doc \in Seq(Symbols)
    BY DEF MarkedInv, Reads
  <1>2. /\ \A c \in Carrier : \A o \in DOMAIN held : TRUE
        /\ DOMAIN held = Carrier /\ DOMAIN inband = Carrier
    BY DEF MarkedInv
  <1>3. ASSUME NEW c \in Carrier, NEW bits \in Payloads, Conceal(c, bits) PROVE MarkedInv'
    <2>1. bits \in BitStrings
      BY DocumentAssumption DEF DocumentAssumption
    <2>2. Place(c, bits, NoClaim)
      BY <1>3 DEF Conceal
    <2> QED
      BY <2>1, <2>2, PlaceKeeps
  <1>4. ASSUME NEW c \in Carrier, NEW s \in Signers, AgentSigns(s, c) \/ SignsUnread(s, c)
        PROVE  MarkedInv'
    <2>1. ClaimBits[s] \in BitStrings
      BY DocumentAssumption DEF DocumentAssumption
    <2>2. Place(c, ClaimBits[s], Claim(s))
      BY <1>4 DEF AgentSigns, SignsUnread
    <2>3. Made(Claim(s)) /\ Claim(s).signer = s
      BY ClaimIsMade
    <2> QED
      BY <2>1, <2>2, <2>3, PlaceKeeps
  <1>5. ASSUME NEW s \in Signers, SignsBeside(s) PROVE MarkedInv'
    <2>1. Made(Claim(s))
      BY ClaimIsMade
    <2> QED
      BY <1>5, <2>1 DEF SignsBeside, MarkedInv, Made, Reads
  <1>6. ASSUME NEW chosen \in CleanSelections, Clean(chosen) \/ Sanitize(chosen) PROVE MarkedInv'
    <2>1. PICK order \in {CleanOrder, CarrierOrder} :
            Cleaned(StripEach(order, chosen, doc), chosen)
      BY <1>6 DEF Clean, Sanitize
    <2>2. Reads(StripEach(order, chosen, doc), text)
      BY <1>1, <2>1, StripEachReads
    <2>3. \A c \in Inserting \ chosen :
            Only(StripEach(order, chosen, doc), BitMarks(c)) = Only(doc, BitMarks(c))
      BY <1>1, <2>1, StripEachKeepsBits
    <2>4. doc' = StripEach(order, chosen, doc) /\ text' = text /\ sidecar' = sidecar
          /\ held' = [c \in Carrier |-> IF c \in chosen THEN NoBits ELSE held[c]]
          /\ inband' = [c \in Carrier |-> IF c \in chosen THEN NoClaim ELSE inband[c]]
      BY <2>1 DEF Cleaned
    <2> QED
      BY <2>2, <2>3, <2>4, ForgetKeeps
  <1>7. ASSUME NEW r \in Recipients, Issue(r) PROVE MarkedInv'
    <2> DEFINE bits == Fingerprint(doc, r)
    <2>1. /\ doc' = Written("homoglyph", doc, bits) /\ text' = text /\ sidecar' = sidecar
          /\ held' = [held EXCEPT !["homoglyph"] = bits]
          /\ inband' = [inband EXCEPT !["homoglyph"] = NoClaim]
      BY <1>7 DEF Issue, Written
    <2>2. "homoglyph" \in Carrier /\ "homoglyph" \notin Inserting
      BY Alphabet DEF Carrier
    <2> HIDE DEF bits
    <2>3. Reads(doc', text')
          /\ \A o \in Inserting : Only(doc', BitMarks(o)) = Only(doc, BitMarks(o))
      BY <1>1, <2>1, <2>2, WrittenHolds
    <2>4. /\ held' = [c \in Carrier |-> held'[c]] /\ inband' = [c \in Carrier |-> inband'[c]]
          /\ \A c \in Carrier : c # "homoglyph" => held'[c] = held[c] /\ inband'[c] = inband[c]
          /\ inband'["homoglyph"] = NoClaim
      BY <2>1, <2>2 DEF MarkedInv
    <2>5. \A c \in Inserting : held'[c] = held[c]
      BY <2>2, <2>4 DEF Carrier
    <2>6. \A c \in Inserting : held'[c] # NoBits =>
            held'[c] \in BitStrings /\ Only(doc', BitMarks(c)) = Written01(c, held'[c])
      BY <2>3, <2>5 DEF MarkedInv
    <2>7. \A c \in Carrier : inband'[c] # NoClaim =>
            Made(inband'[c]) /\ held'[c] = ClaimBits[inband'[c].signer]
      BY <2>4 DEF MarkedInv
    <2>8. sidecar' # NoClaim => Made(sidecar')
      BY <2>1 DEF MarkedInv
    <2> QED
      BY <2>3, <2>4, <2>6, <2>7, <2>8 DEF MarkedInv
  <1>8. ASSUME NEW i \in DOMAIN doc, NEW letter \in {"twin", "latin"}, Edit(i, letter)
        PROVE  MarkedInv'
    <2>1. letter \in LatinLetters /\ letter \in Letters /\ letter \in Symbols
          /\ doc[i] \in Letters /\ Letters \cap Marks = {}
      BY <1>8, Alphabet DEF Edit, LatinLetters, Letters
    <2>2. Reads(doc', text') /\ sidecar' = sidecar
      BY <1>1, <1>8, <2>1, Rewritten DEF Edit
    <2>3. doc' = [doc EXCEPT ![i] = letter] /\ doc' \in Seq(Symbols)
      BY <1>8, <2>2 DEF Edit, Reads
    <2>4. i \in 1..Len(doc)
      BY <1>1, LenProperties
    <2>5. Len(doc') = Len(doc) /\ \A k \in 1..Len(doc) : doc'[k] = IF k = i THEN letter ELSE doc[k]
      BY <1>1, <2>1, <2>3, <2>4, ExceptSeq
    <2>6. \A k \in 1..Len(doc') : doc'[k] = doc[k] \/ (doc'[k] \notin Marks /\ doc[k] \notin Marks)
      BY <2>1, <2>5
    <2>7. \A c \in Inserting : Only(doc', BitMarks(c)) = Only(doc, BitMarks(c))
      BY <1>1, <2>3, <2>5, <2>6, SameMarks, Apart
    <2>8. /\ held' = [c \in Carrier |-> IF c \in {"homoglyph"} THEN NoBits ELSE held[c]]
          /\ inband' = [c \in Carrier |-> IF c \in {"homoglyph"} THEN NoClaim ELSE inband[c]]
      BY <1>8 DEF Edit, MarkedInv
    <2> QED
      BY <2>2, <2>7, <2>8, ForgetKeeps
  <1>9. ASSUME NEW k \in 0..Len(doc), NEW s \in Strays, Stray(k, s) PROVE MarkedInv'
    <2> DEFINE gone == {c \in Carrier : s \in Removable(c)}
    <2>1. s \in Marks /\ s \in Symbols
      BY DocumentAssumption, Alphabet DEF DocumentAssumption
    <2>2. doc' = InsertAt(doc, k + 1, s) /\ text' = text /\ sidecar' = sidecar
      BY <1>9 DEF Stray
    <2>3. doc' \in Seq(Symbols) /\ \A S : s \notin S => Only(doc', S) = Only(doc, S)
      BY <1>1, <2>1, <2>2, PutIn
    <2>4. Reads(doc', text')
      <3>1. Bare(doc') = Bare(doc)
        BY <2>1, <2>3 DEF Bare
      <3> QED
        BY <1>1, <2>2, <2>3, <3>1, Remarked
    <2>5. \A c \in Inserting \ gone : Only(doc', BitMarks(c)) = Only(doc, BitMarks(c))
      <3> SUFFICES ASSUME NEW c \in Inserting \ gone
                   PROVE  Only(doc', BitMarks(c)) = Only(doc, BitMarks(c))
        OBVIOUS
      <3>1. s \notin BitMarks(c)
        BY Apart DEF Carrier
      <3> QED
        BY <2>3, <3>1
    <2>6. /\ held' = [c \in Carrier |-> IF c \in gone THEN NoBits ELSE held[c]]
          /\ inband' = [c \in Carrier |-> IF c \in gone THEN NoClaim ELSE inband[c]]
      BY <1>9 DEF Stray
    <2> HIDE DEF gone
    <2> QED
      BY <2>2, <2>4, <2>5, <2>6, ForgetKeeps
  <1>10. CASE UNCHANGED vars
    BY <1>10 DEF vars, MarkedInv, Made, Reads
  <1> QED
    BY <1>3, <1>4, <1>5, <1>6, <1>7, <1>8, <1>9, <1>10 DEF Next

\* The invariant holds in every reachable state.
LEMMA MarkedAlways == Spec => []MarkedInv
PROOF
  BY MarkedInit, MarkedStep, PTL DEF Spec

-----------------------------------------------------------------------------
(* The theorems.                                                           *)

\* Whatever was placed, edited and stripped, in whatever order and on whatever
\* text, stripping every carrier gives the author's text back, the lookalikes
\* told apart by the words they stand in (RestoresTheText).
THEOREM CleaningRestores == Spec => []RestoresTheText
PROOF
  <1>1. MarkedInv => RestoresTheText
    BY StripAllRestores DEF MarkedInv, RestoresTheText
  <1> QED
    BY <1>1, MarkedAlways, PTL

\* What the gaps hold is what the carrier is known to hold, so it is read.
LEMMA InsertedReads == MarkedInv => InsertedReadBack
PROOF
  BY ReadsWritten, ZenonT(60) DEF MarkedInv, InsertedReadBack, BitMarks

\* What a carrier inserted, and nobody stripped or cleaned away since, reads back,
\* whatever the author typed, other carriers wrote and the text contains
\* (InsertedReadBack).
THEOREM InsertedBitsReturn == Spec => []InsertedReadBack
PROOF
  BY InsertedReads, MarkedAlways, PTL

-----------------------------------------------------------------------------
(* The letters of a text without code and without equations.               *)

\* Neither code nor equations.
Prose(t) == ~Has(t, {"tick", "dollar"})

Swapped == {"twin", "alike"}

\* The bits in the letters of a document, from the first.
LetterBits(d) ==
    LET letters == Only(d, Swapped)
    IN  [j \in DOMAIN letters |-> IF letters[j] = "alike" THEN 1 ELSE 0]

\* What is kept, and where it was.
LEMMA OnlyNth ==
    ASSUME NEW T, NEW d \in Seq(T), NEW S
    PROVE  \A j \in 1..Len(Only(d, S)) :
             \E i \in 1..Len(d) : d[i] \in S /\ Nth(d, S, i) = j /\ Only(d, S)[j] = d[i]
PROOF
  <1> DEFINE count(e, h) == Cardinality({k \in 1..h : e[k] \in S})
             At(e, j) == \E i \in 1..Len(e) :
                            e[i] \in S /\ count(e, i) = j /\ Only(e, S)[j] = e[i]
             G == {e \in Seq(T) : \A j \in 1..Len(Only(e, S)) : At(e, j)}
  <1>1. <<>> \in G
    <2>1. Only(<<>>, S) = <<>> /\ Len(<<>>) = 0 /\ <<>> \in Seq(T)
      BY OnlyAppend
    <2> HIDE DEF At
    <2>2. 1..Len(Only(<<>>, S)) = {}
      BY <2>1
    <2> QED
      BY <2>1, <2>2
  <1>2. ASSUME NEW e \in Seq(T) \cap G, NEW x \in T PROVE Append(e, x) \in G
    <2> DEFINE u == Append(e, x)
               n == Len(e)
    <2>1. /\ u \in Seq(T) /\ Len(u) = n + 1 /\ n \in Nat /\ u[n + 1] = x
          /\ \A i \in 1..n : u[i] = e[i]
      BY HasAppend
    <2>2. Only(u, S) = IF x \in S THEN Append(Only(e, S), x) ELSE Only(e, S)
      BY OnlyAppend
    <2>3. Only(e, S) \in Seq(T)
      <3>1. Only(e, S) \in Seq(T \cap S)
        BY OnlyType
      <3> QED
        BY <3>1
    <2> HIDE DEF u, n
    <2>4. Len(Only(u, S)) = count(u, n + 1)
      <3>1. Len(Only(u, S)) = Cardinality({i \in 1..Len(u) : u[i] \in S})
        <4>1. u \in Seq(T)
          BY <2>1
        <4> HIDE DEF G
        <4> QED
          BY <4>1, OnlyCount, Zenon
      <3>2. Len(u) = n + 1
        BY <2>1
      <3> QED
        BY <3>1, <3>2
    <2>5. \A i \in 1..n : count(u, i) = count(e, i)
      <3> SUFFICES ASSUME NEW i \in 1..n PROVE count(u, i) = count(e, i)
        OBVIOUS
      <3>1. \A k \in 1..i : u[k] = e[k]
        BY <2>1
      <3>2. {k \in 1..i : u[k] \in S} = {k \in 1..i : e[k] \in S}
        BY <3>1
      <3> QED
        BY <3>2
    <2>6. \A j \in 1..Len(Only(e, S)) : At(e, j)
      BY <1>2
    <2> HIDE DEF count
    <2>7. \A j \in 1..Len(Only(e, S)) : Only(u, S)[j] = Only(e, S)[j]
      <3>1. \A j \in 1..Len(Only(e, S)) : Append(Only(e, S), x)[j] = Only(e, S)[j]
        BY <2>3
      <3> QED
        BY <2>2, <3>1
    <2>8. ASSUME NEW j \in 1..Len(Only(e, S)) PROVE At(u, j)
      <3>1. PICK i \in 1..Len(e) : e[i] \in S /\ count(e, i) = j /\ Only(e, S)[j] = e[i]
        BY <2>6
      <3>2. i \in 1..n /\ i \in 1..Len(u)
        BY <2>1, <3>1 DEF n
      <3>3. u[i] = e[i] /\ count(u, i) = j /\ Only(u, S)[j] = u[i]
        BY <2>1, <2>5, <2>7, <3>1, <3>2
      <3> QED
        BY <3>1, <3>2, <3>3
    <2>9. CASE x \in S
      <3>1. Only(u, S) = Append(Only(e, S), x)
        BY <2>2, <2>9
      <3> DEFINE m == Len(Only(e, S))
      <3>2. Len(Only(u, S)) = m + 1 /\ m \in Nat /\ Only(u, S)[m + 1] = x
        BY <2>3, <3>1
      <3>3. At(u, m + 1)
        <4>1. n + 1 \in 1..Len(u) /\ u[n + 1] \in S
          BY <2>1, <2>9
        <4> QED
          BY <2>1, <2>4, <3>2, <4>1
      <3> HIDE DEF At
      <3>4. \A j \in 1..(m + 1) : At(u, j)
        BY <2>8, <3>2, <3>3
      <3> QED
        BY <2>1, <3>2, <3>4 DEF u
    <2>10. CASE x \notin S
      <3>1. Only(u, S) = Only(e, S)
        BY <2>2, <2>10
      <3> HIDE DEF At
      <3> QED
        BY <2>1, <2>8, <3>1 DEF u
    <2> QED
      BY <2>9, <2>10
  <1> HIDE DEF G
  <1>3. Seq(T) \subseteq G
    BY <1>1, <1>2, EverySequence
  <1> QED
    BY <1>3 DEF G, Nth

\* The positions of what is kept, and what is kept.
LEMMA OnlyPositions ==
    ASSUME NEW T, NEW d \in Seq(T), NEW S
    PROVE  LET at == Ascending(d, {i \in DOMAIN d : d[i] \in S})
               kept == Only(d, S)
           IN  at \in Seq(1..Len(d)) /\ Len(at) = Len(kept)
               /\ \A j \in 1..Len(kept) : d[at[j]] = kept[j]
PROOF
  <1> DEFINE n == Len(d)
             U == (1..n) \cup T
             id == [i \in 1..n |-> i]
             P == {i \in 1..n : d[i] \in S}
             Z == {i \in 1..n : d[i] \in S}
  <1>1. n \in Nat /\ DOMAIN d = 1..n /\ \A i \in 1..n : d[i] \in T
    BY LenProperties, ElementOfSeq
  <1>2. id \in Seq(1..n) /\ Len(id) = n
    <2>1. id \in [1..n -> 1..n]
      OBVIOUS
    <2> QED
      BY <1>1, <2>1, IsASeq
  <1>3. Ascending(d, {i \in DOMAIN d : d[i] \in S}) = Only(id, P)
    BY <1>1 DEF Ascending
  <1> DEFINE R == {p \in (1..n) \X T : d[p[1]] = p[2]}
             a == Only(id, P)
             b == Only(d, S)
  <1>4. a \in Seq((1..n) \cap P) /\ b \in Seq(T \cap S)
    BY <1>2, OnlyType
  <1>5. a \in Seq(1..n)
    BY <1>4, SeqMonotonic
  <1>6. Pairwise(a, b, R)
    <2> HIDE DEF R
    <2>1. \A x, y : <<x, y>> \in R <=> x \in 1..n /\ y \in T /\ d[x] = y
      BY DEF R
    <2>2. id \in Seq(U) /\ d \in Seq(U)
      BY <1>2, SeqMonotonic
    <2>3. Pairwise(id, d, R)
      BY <1>1, <1>2, <2>1 DEF Pairwise
    <2>4. \A x \in U, y \in U : <<x, y>> \in R => (x \in P <=> y \in S)
      BY <2>1
    <2> HIDE DEF id, P, U
    <2> QED
      BY <2>2, <2>3, <2>4, OnlyPairwise
  <1> HIDE DEF a, b, n, id, P
  <1>7. Len(a) = Len(b) /\ \A j \in 1..Len(b) : d[a[j]] = b[j]
    BY <1>6 DEF Pairwise
  <1> QED
    BY <1>3, <1>5, <1>7 DEF a, b, n

\* Where there is no code, every letter that has a lookalike carries.
LEMMA ProsePlaces ==
    ASSUME NEW d \in Seq(Symbols), Prose(d)
    PROVE  Regions(d) = {} /\ Inside(d) = {} /\ Places(d) = {i \in DOMAIN d : d[i] \in Swapped}
PROOF
  <1>1. Regions(d) = {}
    <2>1. ~Has(Outline(d), {"tick", "dollar"})
      BY DEF Prose, Has, Outline
    <2> QED
      BY <2>1 DEF Regions
  <1>2. Inside(d) = {}
    BY <1>1 DEF Inside
  <1> QED
    BY <1>1, <1>2 DEF Places, Swapped

\* Of prose the letters read are all the letters that can carry, one bit each.
LEMMA LettersRead ==
    ASSUME NEW d \in Seq(Symbols), Prose(d)
    PROVE  /\ ReadPositions("homoglyph", d) = LetterBits(d)
           /\ LetterBits(d) \in BitStrings /\ Len(LetterBits(d)) = Cardinality(Places(d))
           /\ Len(LetterBits(d)) = Len(Only(d, Swapped))
PROOF
  <1> DEFINE at == Ascending(d, Places(d))
             kept == Only(d, Swapped)
             m == Len(kept)
  <1>1. Places(d) = {i \in DOMAIN d : d[i] \in Swapped}
    BY ProsePlaces
  <1>2. at \in Seq(1..Len(d)) /\ Len(at) = m /\ \A j \in 1..m : d[at[j]] = kept[j]
    BY <1>1, OnlyPositions
  <1>3. kept \in Seq(Symbols \cap Swapped)
    BY OnlyType
  <1>4. DOMAIN at = 1..m /\ DOMAIN kept = 1..m /\ m \in Nat
    BY <1>2, <1>3, LenProperties
  <1>5. ReadPositions("homoglyph", d) = [j \in DOMAIN at |-> IF d[at[j]] = "alike" THEN 1 ELSE 0]
    BY DEF ReadPositions
  <1>6. LetterBits(d) = [j \in 1..m |-> IF kept[j] = "alike" THEN 1 ELSE 0]
    BY <1>4 DEF LetterBits
  <1>7. DOMAIN d = 1..Len(d)
    BY LenProperties
  <1>8. m = Cardinality({i \in 1..Len(d) : d[i] \in Swapped})
    BY OnlyCount
  <1>9. m = Cardinality(Places(d))
    BY <1>1, <1>7, <1>8
  <1> HIDE DEF at, kept
  <1>10. ReadPositions("homoglyph", d) = LetterBits(d)
    BY <1>2, <1>4, <1>5, <1>6
  <1>11. LetterBits(d) \in [1..m -> {0, 1}]
    BY <1>6
  <1>12. LetterBits(d) \in Seq({0, 1}) /\ Len(LetterBits(d)) = m
    BY <1>4, <1>11, IsASeq
  <1> QED
    BY <1>9, <1>10, <1>12 DEF BitStrings, kept

\* What is written into letters is in them.
LEMMA LettersWritten ==
    ASSUME NEW d \in Seq(Symbols), Prose(d), ~Has(d, {"alike"}),
           NEW bits \in BitStrings, Len(bits) <= Cardinality(Places(d)),
           NEW e \in Seq(Symbols), e = Substituted(d, bits), Pairwise(e, d, Twins)
    PROVE  IsPrefix(bits, LetterBits(e))
PROOF
  <1> DEFINE places == {i \in Places(d) : d[i] = "twin"}
             n == Len(d)
             kept == Only(e, Swapped)
  <1>1. /\ n \in Nat /\ Len(e) = n /\ DOMAIN d = 1..n /\ DOMAIN e = 1..n
        /\ \A i \in 1..n : d[i] \in Symbols /\ e[i] \in Symbols
    BY LenProperties, ElementOfSeq DEF Pairwise
  <1>2. \A i \in 1..n : d[i] # "alike"
    BY <1>1 DEF Has
  <1>3. \A i \in 1..n : e[i] \in Swapped <=> d[i] = "twin"
    <2> SUFFICES ASSUME NEW i \in 1..n PROVE e[i] \in Swapped <=> d[i] = "twin"
      OBVIOUS
    <2>1. e[i] = d[i] \/ {e[i], d[i]} = {"alike", "twin"}
      BY <1>1 DEF Pairwise, Twins
    <2> QED
      BY <1>2, <2>1 DEF Swapped
  <1>4. places = {i \in 1..n : d[i] = "twin"}
    BY <1>1, ProsePlaces DEF Swapped
  <1>5. Places(d) = {i \in 1..n : d[i] = "twin"}
    BY <1>1, <1>2, ProsePlaces DEF Swapped
  <1>6. Len(kept) = Cardinality(Places(d))
    <2>1. Len(kept) = Cardinality({i \in 1..n : e[i] \in Swapped})
      BY <1>1, OnlyCount, ZenonT(60)
    <2>2. {i \in 1..n : e[i] \in Swapped} = {i \in 1..n : d[i] = "twin"}
      BY <1>3
    <2> QED
      BY <1>5, <2>1, <2>2
  <1>7. kept \in Seq(Symbols \cap Swapped)
    BY OnlyType
  <1>8. Len(bits) \in Nat /\ Len(kept) \in Nat /\ DOMAIN kept = 1..Len(kept)
        /\ \A j \in 1..Len(bits) : bits[j] \in {0, 1}
    BY <1>7, LenProperties, ElementOfSeq DEF BitStrings
  <1>9. e = [i \in 1..n |->
            IF i \in places /\ Rank(places, i) <= Len(bits) /\ bits[Rank(places, i)] = 1
            THEN "alike" ELSE d[i]]
    BY <1>1 DEF Substituted
  <1>10. ASSUME NEW j \in 1..Len(bits)
         PROVE  (IF kept[j] = "alike" THEN 1 ELSE 0) = bits[j]
    <2>1. j \in 1..Len(kept)
      BY <1>6, <1>8
    <2>2. PICK i \in 1..Len(e) : e[i] \in Swapped /\ Nth(e, Swapped, i) = j /\ kept[j] = e[i]
      BY <2>1, OnlyNth
    <2>3. i \in 1..n /\ i \in places /\ d[i] = "twin"
      BY <1>1, <1>3, <1>4, <2>2
    <2>4. Rank(places, i) = j
      <3>1. {y \in places : y <= i} = {k \in 1..i : e[k] \in Swapped}
        BY <1>1, <1>3, <1>4, <2>3
      <3> QED
        BY <2>2, <3>1 DEF Rank, Nth
    <2> HIDE DEF places, kept
    <2>5. e[i] = IF bits[j] = 1 THEN "alike" ELSE "twin"
      BY <1>8, <1>9, <2>3, <2>4
    <2> QED
      BY <1>8, <2>2, <2>5
  <1> DEFINE read == LetterBits(e)
  <1>11. read = [j \in 1..Len(kept) |-> IF kept[j] = "alike" THEN 1 ELSE 0]
    BY <1>8 DEF LetterBits
  <1>12. read \in Seq({0, 1}) /\ Len(read) = Len(kept)
    <2>1. read \in [1..Len(kept) -> {0, 1}]
      BY <1>11
    <2> QED
      BY <1>8, <2>1, IsASeq
  <1>13. \A j \in 1..Len(bits) : read[j] = bits[j]
    BY <1>6, <1>8, <1>10, <1>11
  <1> HIDE DEF read, kept
  <1>14. Len(bits) <= Len(read)
    BY <1>6, <1>12
  <1>15. SubSeq(bits, 1, Len(bits)) = SubSeq(read, 1, Len(bits))
    BY <1>8, <1>13 DEF SubSeq
  <1> QED
    BY <1>14, <1>15 DEF IsPrefix, read

\* The letters that carry are the author's.
LEMMA LettersInBare ==
    ASSUME NEW d \in Seq(Symbols)
    PROVE  Only(d, Swapped) = Only(Bare(d), Swapped)
PROOF
  <1>1. Only(Only(d, Symbols \ Marks), Swapped) = Only(d, (Symbols \ Marks) \cap Swapped)
    BY OnlyOnly
  <1>2. (Symbols \ Marks) \cap Swapped = Swapped
    BY Alphabet DEF Swapped
  <1> QED
    BY <1>1, <1>2 DEF Bare

\* Documents that are the same but for inserted marks hold the same letters.
LEMMA SameLetters ==
    ASSUME NEW d \in Seq(Symbols), NEW e \in Seq(Symbols), Bare(e) = Bare(d)
    PROVE  LetterBits(e) = LetterBits(d)
PROOF
  <1>1. Only(d, Swapped) = Only(Bare(d), Swapped) /\ Only(e, Swapped) = Only(Bare(e), Swapped)
    BY LettersInBare
  <1> QED
    BY <1>1 DEF LetterBits

\* A document reads as prose where its text does, and has as many letters that carry.
LEMMA ReadsProse ==
    ASSUME NEW d, NEW t, Reads(d, t), Prose(t)
    PROVE  /\ d \in Seq(Symbols) /\ Prose(d)
           /\ Cardinality(Places(t)) = Len(LetterBits(d))
PROOF
  <1>1. d \in Seq(Symbols) /\ t \in Seq(Symbols) /\ Pairwise(Bare(d), t, Twins)
        /\ Bare(d) \in Seq(Symbols)
    BY SeqMonotonic, BareType DEF Reads
  <1>2. Prose(d)
    <2>1. "tick" \in Visible /\ "dollar" \in Visible
      BY DEF Visible
    <2>2. {"tick", "dollar"} \subseteq Symbols \ Marks
      BY <2>1, Alphabet
    <2>3. Has(Bare(d), {"tick", "dollar"}) <=> Has(d, {"tick", "dollar"})
      BY <1>1, <2>2, BareType
    <2>4. Len(Bare(d)) = Len(t) /\ DOMAIN Bare(d) = 1..Len(t) /\ DOMAIN t = 1..Len(t)
      BY <1>1, LenProperties DEF Pairwise
    <2>5. \A i \in 1..Len(t) : Bare(d)[i] = t[i] \/ {Bare(d)[i], t[i]} = {"alike", "twin"}
      BY <1>1, <2>4 DEF Pairwise, Twins
    <2>6. ~Has(Bare(d), {"tick", "dollar"})
      BY <2>4, <2>5 DEF Prose, Has
    <2> QED
      BY <2>3, <2>6 DEF Prose
  <1>3. Len(Only(Bare(d), Swapped)) = Len(Only(t, Swapped))
    <2>1. \A x, y : {x, y} = {"alike", "twin"} => x \in Swapped /\ y \in Swapped
      BY DEF Swapped
    <2>2. \A x \in Symbols, y \in Symbols : <<x, y>> \in Twins => (x \in Swapped <=> y \in Swapped)
      BY <2>1 DEF Twins
    <2>3. Pairwise(Only(Bare(d), Swapped), Only(t, Swapped), Twins)
      BY <1>1, <2>2, OnlyPairwise
    <2> QED
      BY <2>3 DEF Pairwise
  <1>4. Len(LetterBits(d)) = Len(Only(d, Swapped))
    BY <1>1, <1>2, LettersRead
  <1>5. Cardinality(Places(t)) = Len(Only(t, Swapped))
    BY <1>1, LettersRead
  <1> QED
    BY <1>1, <1>2, <1>3, <1>4, <1>5, LettersInBare

\* A clean that leaves the letters leaves everything but marks.
LEMMA StripEachBare ==
    ASSUME NEW d, NEW t, Reads(d, t), NEW chosen, "homoglyph" \notin chosen
    PROVE  /\ Bare(StripEach(CleanOrder, chosen, d)) = Bare(d)
           /\ Bare(StripEach(CarrierOrder, chosen, d)) = Bare(d)
PROOF
  <1> DEFINE Same(e) == Reads(e, t) /\ Bare(e) = Bare(d)
  <1>1. ASSUME NEW e, Same(e), NEW o \in Carrier
        PROVE  Same(IF o \in chosen THEN Strip(o, e) ELSE e)
    <2>1. CASE o \in chosen
      <3>1. o \in Inserting
        BY <2>1 DEF Carrier
      <3> QED
        BY <1>1, <2>1, <3>1, StripReads
    <2>2. CASE o \notin chosen
      BY <1>1, <2>2
    <2> QED
      BY <2>1, <2>2
  <1>2. \A i \in 1..4 : CleanOrder[i] \in Carrier /\ CarrierOrder[i] \in Carrier
    BY DEF CleanOrder, CarrierOrder, Carrier, Inserting, Bit0
  <1>3. ASSUME NEW order, \A i \in 1..4 : order[i] \in Carrier
        PROVE  Same(StripEach(order, chosen, d))
    <2> DEFINE step(i, u) == IF order[i] \in chosen THEN Strip(order[i], u) ELSE u
    <2> HIDE DEF Same
    <2>1. \A i \in 1..4 : \A e : Same(e) => Same(step(i, e))
      BY <1>1, <1>3
    <2>2. StripEach(order, chosen, d) = step(4, step(3, step(2, step(1, d))))
      BY DEF StripEach
    <2>3. Same(d)
      BY DEF Same
    <2> HIDE DEF step
    <2> QED
      BY <2>1, <2>2, <2>3
  <1> QED
    BY <1>2, <1>3

\* Bits put into letters.
LEMMA LettersPut ==
    ASSUME NEW d, NEW t, Reads(d, t), Writable("homoglyph", d), NEW bits \in BitStrings,
           Len(bits) <= Cardinality(Places(d))
    PROVE  /\ Prose(t) => IsPrefix(bits, LetterBits(Substituted(d, bits)))
           /\ ~Has(t, LatinLetters) => ~Has(t, {"alike"})
PROOF
  <1> DEFINE e == Substituted(d, bits)
  <1>1. d \in Seq(Symbols) /\ ~Has(d, {"alike"})
    BY DEF Reads, Writable, Occupying
  <1>2. Reads(e, t) /\ Pairwise(e, d, Twins)
    BY SubstitutedReads
  <1>3. e \in Seq(Symbols)
    BY <1>2 DEF Reads
  <1>4. ASSUME Prose(t) PROVE IsPrefix(bits, LetterBits(e))
    <2>1. Prose(d)
      BY <1>4, ReadsProse
    <2> QED
      BY <1>1, <1>2, <1>3, <2>1, LettersWritten
  <1>5. ASSUME ~Has(t, LatinLetters) PROVE ~Has(t, {"alike"})
    <2>1. Bare(d) = t /\ {"alike"} \subseteq Symbols \ Marks
      BY <1>5, Alphabet DEF Reads
    <2> QED
      BY <1>1, <2>1, BareType
  <1> QED
    BY <1>4, <1>5

\* A fingerprint fits the letters of the document, and its digest reaches so far.
LEMMA FingerprintFits ==
    ASSUME NEW d, NEW t, Reads(d, t), NEW r \in Recipients, NEW c \in Covers, Len(t) = Len(c)
    PROVE  /\ Fingerprint(d, r) \in BitStrings
           /\ Len(Fingerprint(d, r)) <= Cardinality(Places(d))
           /\ Len(Fingerprint(d, r)) = (Offered(d) \div ByteBits) * ByteBits
           /\ Offered(d) \div ByteBits \in Nat
PROOF
  <1> DEFINE offered == {i \in Places(d) : d[i] = "twin"}
             width == (Offered(d) \div ByteBits) * ByteBits
             kept == {i \in 1..Len(d) : d[i] \in Symbols \ Marks}
             h == Digest[r]
  <1>1. /\ d \in Seq(Symbols) /\ Bare(d) \in Seq(Symbols) /\ t \in Seq(Symbols \ Marks)
        /\ Len(Bare(d)) = Len(t)
    BY BareType DEF Reads, Pairwise
  <1>2. Len(d) \in Nat /\ DOMAIN d = 1..Len(d) /\ Len(t) \in Nat
    BY <1>1, LenProperties
  <1>3. IsFiniteSet(kept) /\ Cardinality(kept) = Len(t)
    <2>1. IsFiniteSet(kept) /\ Len(Only(d, Symbols \ Marks)) = Cardinality(kept)
      BY <1>1, OnlyCount
    <2> QED
      BY <1>1, <2>1 DEF Bare
  <1>4. Places(d) \subseteq kept /\ offered \subseteq Places(d)
    BY <1>2, Alphabet DEF Places
  <1> HIDE DEF kept, offered
  <1>5. /\ IsFiniteSet(Places(d)) /\ Cardinality(Places(d)) <= Len(t)
        /\ Cardinality(offered) <= Cardinality(Places(d))
        /\ Cardinality(offered) \in Nat /\ Cardinality(Places(d)) \in Nat
    BY <1>3, <1>4, FS_Subset, FS_CardinalityType
  <1>6. Offered(d) = Cardinality(offered)
    BY DEF Offered, offered
  <1>7. width \in Nat /\ width <= Offered(d) /\ Offered(d) \div ByteBits \in Nat
    <2>1. ByteBits \in Nat \ {0} /\ Offered(d) \in Nat
      BY <1>5, <1>6, ByteBitsAssumption
    <2> DEFINE x == Offered(d)
               q == x \div ByteBits
    <2> HIDE DEF x
    <2>2. q \in Nat /\ q * ByteBits <= x
      BY <2>1 DEF x
    <2> HIDE DEF q
    <2>3. q * ByteBits \in Nat
      BY <2>1, <2>2
    <2> QED
      BY <2>2, <2>3 DEF q, x
  <1>8. h \in Seq({0, 1}) /\ Len(t) <= Len(h)
    BY DocumentAssumption DEF DocumentAssumption, BitStrings
  <1> HIDE DEF width, h
  <1>9. Len(h) \in Nat /\ width <= Len(h)
    BY <1>2, <1>5, <1>6, <1>7, <1>8, LenProperties
  <1>10. Fingerprint(d, r) = SubSeq(h, 1, width)
    BY DEF Fingerprint, width, h
  <1>11. \A i \in 1..width : h[i] \in {0, 1}
    BY <1>7, <1>8, <1>9, ElementOfSeq
  <1>12. SubSeq(h, 1, width) \in Seq({0, 1}) /\ Len(SubSeq(h, 1, width)) = width
    BY <1>7, <1>8, <1>9, <1>11, SubSeqProperties
  <1> QED
    BY <1>5, <1>6, <1>7, <1>10, <1>12 DEF BitStrings, width

-----------------------------------------------------------------------------
(* The invariant of the letters.                                           *)

LettersInv ==
    /\ held["homoglyph"] # NoBits =>
        /\ held["homoglyph"] \in BitStrings
        /\ ~Has(text, LatinLetters) => ~Has(text, {"alike"})
        /\ Prose(text) => IsPrefix(held["homoglyph"], LetterBits(doc))
    /\ \E d \in Covers : Len(text) = Len(d)
    /\ DOMAIN prints \in {{}, Recipients}
    /\ \A r \in DOMAIN prints : prints[r] \in BitStrings

\* Nothing is in the letters of a document nobody has marked.
LEMMA LettersInit == Init => LettersInv
PROOF
  BY DEF Init, LettersInv, NoPrints, Carrier

\* What the letters held they hold, of a text that is the same.
LEMMA LettersKept ==
    ASSUME MarkedInv, LettersInv, doc' \in Seq(Symbols), text' = text, prints' = prints,
           held'["homoglyph"] # NoBits =>
                held'["homoglyph"] = held["homoglyph"] /\ Bare(doc') = Bare(doc)
    PROVE  LettersInv'
PROOF
  <1>1. doc \in Seq(Symbols)
    BY DEF MarkedInv, Reads
  <1>2. held'["homoglyph"] # NoBits => LetterBits(doc') = LetterBits(doc)
    BY <1>1, SameLetters
  <1> QED
    BY <1>2 DEF LettersInv, Prose

\* A placement keeps what the letters are known to hold.
LEMMA LettersPlaced ==
    ASSUME MarkedInv, LettersInv, NEW c \in Carrier, NEW bits \in BitStrings, NEW claim,
           Place(c, bits, claim)
    PROVE  LettersInv'
PROOF
  <1>1. /\ Reads(doc, text) /\ doc' = Written(c, doc, bits) /\ text' = text /\ prints' = prints
        /\ Writable(c, doc)
        /\ c = "zero_width" \/ Len(bits) <= Positions(c, doc)
    BY DEF MarkedInv, Place, Accepts
  <1>2. Reads(doc', text) /\ (c \in Inserting => Bare(doc') = Bare(doc))
    BY <1>1, WrittenHolds
  <1>3. DOMAIN held = Carrier /\ "homoglyph" \in Carrier
    BY DEF MarkedInv, Carrier
  <1>4. held'["homoglyph"] = IF c = "homoglyph" THEN bits ELSE held["homoglyph"]
    BY <1>3 DEF Place
  <1>5. CASE c = "homoglyph"
    <2>1. doc' = Substituted(doc, bits) /\ Len(bits) <= Cardinality(Places(doc))
      BY <1>1, <1>5 DEF Written, Positions
    <2>2. Writable("homoglyph", doc) /\ Reads(doc, text)
      BY <1>1, <1>5
    <2>3. /\ Prose(text) => IsPrefix(bits, LetterBits(Substituted(doc, bits)))
          /\ ~Has(text, LatinLetters) => ~Has(text, {"alike"})
      BY <2>1, <2>2, LettersPut
    <2> QED
      BY <1>1, <1>4, <1>5, <2>1, <2>3 DEF LettersInv, Prose
  <1>6. CASE c # "homoglyph"
    <2>1. c \in Inserting
      BY <1>6 DEF Carrier
    <2>2. doc' \in Seq(Symbols)
      BY <1>2 DEF Reads
    <2> QED
      BY <1>1, <1>2, <1>4, <1>6, <2>1, <2>2, LettersKept
  <1> QED
    BY <1>5, <1>6

\* Every step does.
LEMMA LettersStep == MarkedInv /\ LettersInv /\ [Next]_vars => LettersInv'
PROOF
  <1> SUFFICES ASSUME MarkedInv, LettersInv, [Next]_vars PROVE LettersInv'
    OBVIOUS
  <1>1. /\ Reads(doc, text) /\ doc \in Seq(Symbols)
        /\ DOMAIN held = Carrier /\ "homoglyph" \in Carrier
    BY DEF MarkedInv, Reads, Carrier
  <1>2. MarkedInv'
    BY MarkedStep
  <1>3. Reads(doc', text') /\ doc' \in Seq(Symbols)
    BY <1>2 DEF MarkedInv, Reads
  <1>4. ASSUME NEW c \in Carrier, NEW bits \in Payloads, Conceal(c, bits) PROVE LettersInv'
    <2>1. bits \in BitStrings
      BY DocumentAssumption DEF DocumentAssumption
    <2>2. Place(c, bits, NoClaim)
      BY <1>4 DEF Conceal
    <2> QED
      BY <2>1, <2>2, LettersPlaced
  <1>5. ASSUME NEW c \in Carrier, NEW s \in Signers, AgentSigns(s, c) \/ SignsUnread(s, c)
        PROVE  LettersInv'
    <2>1. ClaimBits[s] \in BitStrings
      BY DocumentAssumption DEF DocumentAssumption
    <2>2. Place(c, ClaimBits[s], Claim(s))
      BY <1>5 DEF AgentSigns, SignsUnread
    <2> QED
      BY <2>1, <2>2, LettersPlaced
  <1>6. ASSUME NEW s \in Signers, SignsBeside(s) PROVE LettersInv'
    BY <1>3, <1>6, LettersKept DEF SignsBeside
  <1>7. ASSUME NEW chosen \in CleanSelections, Clean(chosen) \/ Sanitize(chosen) PROVE LettersInv'
    <2>1. PICK order \in {CleanOrder, CarrierOrder} :
            Cleaned(StripEach(order, chosen, doc), chosen)
      BY <1>7 DEF Clean, Sanitize
    <2>2. doc' = StripEach(order, chosen, doc) /\ text' = text /\ prints' = prints
          /\ held'["homoglyph"] = IF "homoglyph" \in chosen THEN NoBits ELSE held["homoglyph"]
      BY <1>1, <2>1 DEF Cleaned
    <2>3. "homoglyph" \notin chosen => Bare(doc') = Bare(doc)
      BY <1>1, <2>1, <2>2, StripEachBare
    <2> QED
      BY <1>3, <2>2, <2>3, LettersKept
  <1>8. ASSUME NEW r \in Recipients, Issue(r) PROVE LettersInv'
    <2> DEFINE bits == Fingerprint(doc, r)
    <2>1. /\ doc' = Substituted(doc, bits) /\ text' = text /\ Writable("homoglyph", doc)
          /\ prints' = [q \in Recipients |-> Fingerprint(doc, q)]
          /\ held'["homoglyph"] = bits
      BY <1>1, <1>8 DEF Issue
    <2>2. PICK c \in Covers : Len(text) = Len(c)
      BY DEF LettersInv
    <2>3. \A q \in Recipients : /\ Fingerprint(doc, q) \in BitStrings
                                /\ Len(Fingerprint(doc, q)) <= Cardinality(Places(doc))
      BY <1>1, <2>2, FingerprintFits
    <2>4. bits \in BitStrings /\ Len(bits) <= Cardinality(Places(doc))
      BY <2>3
    <2> HIDE DEF bits
    <2>5. /\ Prose(text) => IsPrefix(bits, LetterBits(doc'))
          /\ ~Has(text, LatinLetters) => ~Has(text, {"alike"})
      BY <1>1, <2>1, <2>4, LettersPut
    <2>6. DOMAIN prints' = Recipients /\ \A q \in DOMAIN prints' : prints'[q] \in BitStrings
      BY <2>1, <2>3
    <2> QED
      BY <2>1, <2>2, <2>4, <2>5, <2>6 DEF LettersInv, Prose
  <1>9. ASSUME NEW i \in DOMAIN doc, NEW letter \in {"twin", "latin"}, Edit(i, letter)
        PROVE  LettersInv'
    <2>1. held'["homoglyph"] = NoBits /\ prints' = prints
      BY <1>1, <1>9 DEF Edit
    <2>2. PICK j : text' = [text EXCEPT ![j] = letter]
      BY <1>9 DEF Edit
    <2>3. Len(text') = Len(text)
      <3>1. text \in Seq(Symbols \ Marks) /\ text' \in Seq(Symbols \ Marks)
        BY <1>1, <1>3 DEF Reads
      <3>2. DOMAIN text = 1..Len(text) /\ Len(text) \in Nat
        BY <3>1, LenProperties
      <3>3. DOMAIN text' = 1..Len(text)
        BY <2>2, <3>2
      <3> QED
        BY <3>1, <3>2, <3>3, LenProperties
    <2> QED
      BY <2>1, <2>3 DEF LettersInv
  <1>10. ASSUME NEW k \in 0..Len(doc), NEW s \in Strays, Stray(k, s) PROVE LettersInv'
    <2>1. s \in Marks /\ s \in Symbols
      BY DocumentAssumption, Alphabet DEF DocumentAssumption
    <2>2. doc' = InsertAt(doc, k + 1, s) /\ text' = text /\ prints' = prints
          /\ held'["homoglyph"] \in {NoBits, held["homoglyph"]}
      BY <1>1, <1>10 DEF Stray
    <2>3. Bare(doc') = Bare(doc)
      BY <1>1, <2>1, <2>2, PutIn DEF Bare
    <2> QED
      BY <1>3, <2>2, <2>3, LettersKept
  <1>11. CASE UNCHANGED vars
    BY <1>11 DEF vars, LettersInv, Prose
  <1> QED
    BY <1>4, <1>5, <1>6, <1>7, <1>8, <1>9, <1>10, <1>11 DEF Next

\* Both invariants hold in every reachable state.
LEMMA LettersAlways == Spec => [](MarkedInv /\ LettersInv)
PROOF
  BY MarkedInit, MarkedStep, LettersInit, LettersStep, PTL DEF Spec

\* In prose the letters' invariant is what reading them gives.
LEMMA ProseReadsBack == MarkedInv /\ LettersInv => (Prose(text) => LettersReadBack)
PROOF
  <1> SUFFICES ASSUME MarkedInv, LettersInv, Prose(text), held["homoglyph"] # NoBits
               PROVE  ReadsBack("homoglyph", doc, held["homoglyph"])
    BY DEF LettersReadBack
  <1>1. Reads(doc, text) /\ IsPrefix(held["homoglyph"], LetterBits(doc))
    BY DEF MarkedInv, LettersInv
  <1>2. doc \in Seq(Symbols) /\ Prose(doc)
    BY <1>1, ReadsProse
  <1> QED
    BY <1>1, <1>2, LettersRead DEF ReadsBack

\* In a document without code and equations, what was placed in the letters, and
\* nobody typed over or took back since, reads back.
THEOREM LettersComeBack == Spec => [](Prose(text) => LettersReadBack)
PROOF
  BY LettersAlways, ProseReadsBack, PTL

\* What reads back stands or falls with the text it was signed over.
LEMMA VerdictHolds == MarkedInv /\ InsertedReadBack /\ LettersReadBack => VerdictIsHistory
PROOF
  <1> SUFFICES ASSUME MarkedInv, InsertedReadBack, LettersReadBack, Decided(text),
                      NEW offered \in SUBSET {c \in Carrier : held[c] # NoBits},
                      NEW kept \in {FALSE, sidecar # NoClaim},
                      NEW trusted \in SUBSET Signers, NEW required \in Signers \cup {Nobody},
                      LET play == {inband[c] : c \in offered} \cup (IF kept THEN {sidecar} ELSE {})
                      IN  \A claim \in play \ {NoClaim} : Decided(claim.over)
               PROVE  LET play == {inband[c] : c \in offered} \cup (IF kept THEN {sidecar} ELSE {})
                          signed == {claim \in play \ {NoClaim} : claim.over = text}
                      IN  Holds(Standing, Legible, offered, kept, trusted, required) <=>
                            /\ \A c \in offered : inband[c] # NoClaim
                            /\ \E claim \in signed : claim.signer \in trusted
                            /\ required # Nobody =>
                                \E claim \in signed : claim.signer = required
    BY DEF VerdictIsHistory
  <1> DEFINE aside == IF kept THEN {sidecar} \ {NoClaim} ELSE {}
             play == {inband[c] : c \in offered} \cup (IF kept THEN {sidecar} ELSE {})
             signed == {claim \in play \ {NoClaim} : claim.over = text}
             found == {inband[c] : c \in offered \cap Legible} \cup aside
  <1>1. \A claim \in play \ {NoClaim} : Decided(claim.over)
    OBVIOUS
  <1>2. \A c \in offered : c \in Carrier /\ held[c] # NoBits
    OBVIOUS
  <1>3. ASSUME NEW c \in offered, inband[c] # NoClaim PROVE c \in Legible
    <2>1. /\ c \in Carrier /\ held[c] # NoBits
          /\ held[c] = ClaimBits[inband[c].signer] /\ Made(inband[c])
      BY <1>2, <1>3 DEF MarkedInv
    <2>2. inband[c].signer \in Signers
      BY <2>1 DEF Made, Claims
    <2>3. held[c] \in BitStrings
      BY <2>1, <2>2, DocumentAssumption DEF DocumentAssumption
    <2>4. ReadsBack(c, doc, held[c])
      <3>1. CASE c \in Inserting
        <4>1. ReadPositions(c, doc) = held[c]
          BY <2>1, <3>1 DEF InsertedReadBack
        <4>2. Len(held[c]) \in Nat
          BY <2>3, LenProperties DEF BitStrings
        <4> QED
          BY <4>1, <4>2 DEF ReadsBack, IsPrefix
      <3>2. CASE c = "homoglyph"
        BY <2>1, <3>2 DEF LettersReadBack
      <3> QED
        BY <2>1, <3>1, <3>2 DEF Carrier
    <2> QED
      BY <1>3, <2>1, <2>4 DEF Legible
  <1>4. Legible \subseteq Carrier /\ \A c \in Legible : inband[c] # NoClaim
    BY DEF Legible
  <1>5. aside = {} \/ (aside = {sidecar} /\ kept /\ sidecar # NoClaim)
    OBVIOUS
  <1>6. found = play \ {NoClaim}
    <2>1. \A x \in found : x \in play \ {NoClaim}
      BY <1>4
    <2>2. \A x \in play \ {NoClaim} : x \in found
      BY <1>3
    <2> HIDE DEF found, play
    <2> QED
      BY <2>1, <2>2
  <1>7. ASSUME NEW claim \in play \ {NoClaim}
        PROVE  claim \in Standing <=> claim.over = text
    <2>1. Made(claim)
      BY <1>2, <1>7 DEF MarkedInv
    <2>2. claim.hash = claim.over
      BY <1>1, <1>7, <2>1 DEF Made
    <2>3. StripAll(doc) = text
      BY StripAllRestores DEF MarkedInv
    <2>4. Unaltered(claim, doc) <=> claim.over = text
      BY <2>2, <2>3 DEF Unaltered
    <2>5. claim \in {inband[c] : c \in Legible} \cup ({sidecar} \ {NoClaim})
      <3>1. claim \in found
        BY <1>6, <1>7
      <3> QED
        BY <1>5, <3>1
    <2> QED
      BY <2>4, <2>5 DEF Standing
  <1>8. found \cap Standing = signed
    <2> HIDE DEF play, found
    <2> QED
      BY <1>6, <1>7
  <1>9. Holds(Standing, Legible, offered, kept, trusted, required) <=>
            /\ \A c \in offered : held[c] # NoBits => inband[c] # NoClaim
            /\ \E claim \in found \cap Standing : claim.signer \in trusted
            /\ Satisfied(Standing, found, required)
    BY DEF Holds
  <1>10. Satisfied(Standing, found, required) <=>
            (required # Nobody => \E claim \in found \cap Standing : claim.signer = required)
    <2> HIDE DEF found
    <2> QED
      BY DEF Satisfied
  <1> HIDE DEF found, play, signed
  <1>11. Holds(Standing, Legible, offered, kept, trusted, required) <=>
            /\ \A c \in offered : inband[c] # NoClaim
            /\ \E claim \in signed : claim.signer \in trusted
            /\ required # Nobody => \E claim \in signed : claim.signer = required
    BY <1>2, <1>8, <1>9, <1>10
  <1> QED
    BY <1>11 DEF signed, play

\* Whenever the letters read back, in prose or around code, what a verification
\* says is what happened to the document since it was signed: authentic exactly
\* when the text is the one signed over (VerdictIsHistory).
THEOREM VerdictFollows == Spec => [](LettersReadBack => VerdictIsHistory)
PROOF
  BY MarkedAlways, InsertedReads, VerdictHolds, PTL

\* In a document without code and equations it always is.
THEOREM VerdictTellsHistory == Spec => [](Prose(text) => VerdictIsHistory)
PROOF
  BY LettersAlways, ProseReadsBack, InsertedReads, VerdictHolds, PTL

\* More letters that are shown leave a suspicion standing.
LEMMA MoreShown == \A s, m, n, k \in Nat : s * m >= k /\ m <= n => s * n >= k
PROOF
  <1> SUFFICES ASSUME NEW s \in Nat, NEW m \in Nat, NEW n \in Nat, NEW k \in Nat,
                      s * m >= k, m <= n
               PROVE  s * n >= k
    OBVIOUS
  <1>1. PICK e \in Nat : n = m + e
    <2>1. n - m \in Nat /\ n = m + (n - m)
      OBVIOUS
    <2> QED
      BY <2>1
  <1>2. s * n = s * m + s * e
    BY <1>1
  <1>3. s * e \in Nat /\ s * m \in Nat
    OBVIOUS
  <1> QED
    BY <1>2, <1>3

\* A copy in prose names nobody but whom it was sent to, and them if the letters
\* replaced are enough to be suspected.
LEMMA ProseTraced == MarkedInv /\ LettersInv => (Prose(text) => TracedWhileWhole)
PROOF
  <1> SUFFICES ASSUME MarkedInv, LettersInv, Prose(text), NEW r \in DOMAIN prints,
                      held["homoglyph"] = prints[r],
                      Len(prints[r]) = (Cardinality(Places(text)) \div ByteBits) * ByteBits,
                      Decided(text)
               PROVE  LET replaced == {i \in DOMAIN prints[r] : prints[r][i] = 1}
                          copies == {q \in Recipients : prints[q] = prints[r]}
                      IN  /\ Named(doc) \subseteq copies
                          /\ replaced # {}
                             /\ Sparseness * Cardinality(replaced)
                                    >= Cardinality({i \in DOMAIN text : text[i] = "twin"})
                             => Named(doc) = copies
    BY DEF TracedWhileWhole
  <1> DEFINE bits == LetterBits(doc)
             print == prints[r]
             replaced == {i \in DOMAIN print : print[i] = 1}
             copies == {q \in Recipients : prints[q] = print}
  <1>1. print \in BitStrings /\ print # NoBits /\ DOMAIN prints = Recipients
    BY DocumentAssumption DEF DocumentAssumption, LettersInv
  <1>2. /\ Reads(doc, text) /\ IsPrefix(print, bits)
        /\ ~Has(text, LatinLetters) => ~Has(text, {"alike"})
    BY <1>1 DEF MarkedInv, LettersInv
  <1>3. doc \in Seq(Symbols) /\ Prose(doc) /\ Cardinality(Places(text)) = Len(bits)
    BY <1>2, ReadsProse
  <1>4. ReadPositions("homoglyph", doc) = bits /\ bits \in BitStrings
        /\ Len(bits) = Len(Only(doc, Swapped))
    BY <1>3, LettersRead
  <1>5. Len(print) = (Len(bits) \div ByteBits) * ByteBits
    BY <1>3
  <1>6. /\ Len(print) \in Nat /\ DOMAIN print = 1..Len(print)
        /\ Len(bits) \in Nat /\ DOMAIN bits = 1..Len(bits)
        /\ print = [j \in 1..Len(print) |-> print[j]]
    BY <1>1, <1>4, LenProperties DEF BitStrings
  <1>7. Len(print) <= Len(bits) /\ \A j \in 1..Len(print) : bits[j] = print[j]
    <2> HIDE DEF bits, print
    <2>1. Len(print) <= Len(bits) /\ SubSeq(print, 1, Len(print)) = SubSeq(bits, 1, Len(print))
      BY <1>2 DEF IsPrefix
    <2>2. \A j \in 1..Len(print) : SubSeq(print, 1, Len(print))[j] = print[j]
                                   /\ SubSeq(bits, 1, Len(print))[j] = bits[j]
      BY <1>6, <2>1
    <2> QED
      BY <2>1, <2>2
  <1>8. SubSeq(bits, 1, Len(print)) = print
    BY <1>2, <1>1, <1>6 DEF IsPrefix, BitStrings
  <1> DEFINE letters == Only(doc, Swapped)
             alike == {j \in 1..Len(letters) : letters[j] \in {"alike"}}
  <1>9. letters \in Seq(Symbols) /\ DOMAIN letters = 1..Len(letters) /\ Len(bits) = Len(letters)
    <2>1. letters \in Seq(Symbols \cap Swapped)
      BY <1>3, OnlyType
    <2> QED
      BY <1>4, <2>1, SeqMonotonic, LenProperties
  <1>10. replaced \subseteq alike
    <2> SUFFICES ASSUME NEW i \in DOMAIN print, print[i] = 1 PROVE i \in alike
      OBVIOUS
    <2>1. bits[i] = 1 /\ i \in 1..Len(letters)
      BY <1>6, <1>7, <1>9
    <2>2. letters[i] = "alike"
      BY <1>9, <2>1 DEF LetterBits
    <2> QED
      BY <2>1, <2>2
  <1> DEFINE shown == {j \in 1..Len(doc) : doc[j] \in {"alike"}}
  <1>11. /\ IsFiniteSet(shown) /\ IsFiniteSet(alike) /\ Cardinality(shown) = Cardinality(alike)
        /\ IsFiniteSet({j \in 1..Len(doc) : doc[j] \in Swapped})
        /\ Cardinality({j \in 1..Len(doc) : doc[j] \in Swapped}) = Len(bits)
    <2>1. Swapped \cap {"alike"} = {"alike"}
      BY DEF Swapped
    <2>2. Only(letters, {"alike"}) = Only(doc, {"alike"})
      BY <1>3, <2>1, OnlyOnly
    <2>3. /\ IsFiniteSet(shown) /\ Len(Only(doc, {"alike"})) = Cardinality(shown)
          /\ IsFiniteSet({j \in 1..Len(doc) : doc[j] \in Swapped})
          /\ Len(letters) = Cardinality({j \in 1..Len(doc) : doc[j] \in Swapped})
      BY <1>3, OnlyCount
    <2>4. IsFiniteSet(alike) /\ Len(Only(letters, {"alike"})) = Cardinality(alike)
      BY <1>9, OnlyCount
    <2> QED
      BY <1>9, <2>2, <2>3, <2>4
  <1>12. Cardinality(replaced) \in Nat /\ Cardinality(shown) \in Nat
         /\ Cardinality(replaced) <= Cardinality(shown)
         /\ (replaced # {} => shown # {})
    <2> HIDE DEF replaced, alike, shown
    <2>1. IsFiniteSet(replaced) /\ Cardinality(replaced) <= Cardinality(alike)
      BY <1>10, <1>11, FS_Subset
    <2>2. shown = {} => alike = {}
      BY <1>11, FS_EmptySet
    <2> QED
      BY <1>10, <1>11, <2>1, <2>2, FS_CardinalityType
  <1>13. Attributed(doc) # {} => Decoded("homoglyph", doc) = print
    <2>1. Attributed(doc) # {} =>
            Decoded("homoglyph", doc) = SubSeq(bits, 1, (Len(bits) \div ByteBits) * ByteBits)
      BY <1>4 DEF Decoded, Readable
    <2> QED
      BY <1>5, <1>8, <2>1
  <1>14. Named(doc) \subseteq copies
    BY <1>1, <1>13 DEF Named, Suspected
  <1>15. ASSUME shown # {}
         PROVE  /\ Attributed(doc) = shown
                /\ Cardinality({i \in DOMAIN text : text[i] = "twin"}) = Len(bits)
    <2>1. DOMAIN doc = 1..Len(doc)
      BY <1>3, LenProperties
    <2>2. Has(doc, {"alike"})
      BY <1>15, <2>1 DEF Has
    <2>3. "alike" \in Symbols \ Marks /\ "cyrillic" \in Symbols \ Marks
          /\ LatinLetters \subseteq Symbols \ Marks
      BY Alphabet DEF Letters
    <2>4. Has(Bare(doc), {"alike"})
      BY <1>3, <2>2, <2>3, BareType
    <2>5. Has(text, LatinLetters)
      BY <1>2, <2>4 DEF Reads
    <2>6. Has(text, LatinLetters \ {"twin"}) /\ ~Has(text, {"cyrillic", "alike"})
      BY <2>5 DEF Decided
    <2> DEFINE b == Bare(doc)
    <2>7. /\ Len(b) = Len(text) /\ DOMAIN b = 1..Len(text) /\ DOMAIN text = 1..Len(text)
          /\ \A j \in 1..Len(text) : b[j] = text[j] \/ {b[j], text[j]} = {"alike", "twin"}
      <3>1. b \in Seq(Symbols) /\ text \in Seq(Symbols \ Marks) /\ Pairwise(b, text, Twins)
        BY <1>2, <1>3, BareType DEF Reads
      <3> QED
        BY <3>1, LenProperties DEF Pairwise, Twins
    <2> HIDE DEF b
    <2>8. \A j \in 1..Len(text) : text[j] # "alike" /\ text[j] # "cyrillic"
      BY <2>6, <2>7 DEF Has
    <2>9. Has(b, LatinLetters) /\ ~Has(b, {"cyrillic"})
      <3>1. PICK j \in 1..Len(text) : text[j] \in LatinLetters \ {"twin"}
        BY <2>6, <2>7 DEF Has
      <3>2. b[j] = text[j]
        BY <2>7, <2>8, <3>1
      <3>3. Has(b, LatinLetters)
        BY <2>7, <3>1, <3>2 DEF Has
      <3>4. ~Has(b, {"cyrillic"})
        BY <2>7, <2>8 DEF Has
      <3> QED
        BY <3>3, <3>4
    <2>10. Has(doc, LatinLetters) /\ ~Has(doc, {"cyrillic"})
      BY <1>3, <2>3, <2>9, BareType DEF b
    <2>11. Attributed(doc) = {j \in DOMAIN doc : doc[j] = "alike"}
      BY <1>3, <2>10, AttributedAll
    <2>12. {i \in DOMAIN text : text[i] = "twin"} = Places(text)
      <3>1. text \in Seq(Symbols)
        BY <1>2, SeqMonotonic DEF Reads
      <3>2. Places(text) = {i \in DOMAIN text : text[i] \in Swapped}
        BY <3>1, ProsePlaces
      <3> QED
        BY <2>7, <2>8, <3>2 DEF Swapped
    <2> QED
      BY <1>3, <2>1, <2>11, <2>12
  <1>16. ASSUME replaced # {},
                Sparseness * Cardinality(replaced)
                    >= Cardinality({i \in DOMAIN text : text[i] = "twin"})
         PROVE  Suspected(doc)
    <2>1. shown # {} /\ DOMAIN doc = 1..Len(doc)
      BY <1>3, <1>12, <1>16, LenProperties
    <2>2. {i \in DOMAIN doc : doc[i] \in {"twin", "alike"}} = {j \in 1..Len(doc) : doc[j] \in Swapped}
      BY <2>1 DEF Swapped
    <2>3. Attributed(doc) = shown
          /\ Cardinality({i \in DOMAIN text : text[i] = "twin"}) = Len(bits)
      BY <1>15, <2>1
    <2>4. Cardinality({i \in DOMAIN doc : doc[i] \in {"twin", "alike"}}) = Len(bits)
      BY <1>11, <2>2
    <2>5. Sparseness * Cardinality(replaced) >= Len(bits)
      BY <1>16, <2>3
    <2> HIDE DEF shown, replaced, bits
    <2>6. \A s, m, n, k \in Nat : s * m >= k /\ m <= n => s * n >= k
      BY MoreShown
    <2>7. Sparseness * Cardinality(shown) >= Len(bits)
      BY <1>6, <1>12, <2>5, <2>6, DocumentAssumption DEF DocumentAssumption
    <2> QED
      BY <2>1, <2>3, <2>4, <2>7 DEF Suspected
  <1>17. ASSUME Suspected(doc) PROVE copies \subseteq Named(doc)
    BY <1>1, <1>13, <1>17 DEF Named, Suspected
  <1> HIDE DEF replaced, copies
  <1>18. replaced # {}
         /\ Sparseness * Cardinality(replaced)
                >= Cardinality({i \in DOMAIN text : text[i] = "twin"})
         => Named(doc) = copies
    BY <1>14, <1>16, <1>17
  <1> QED
    BY <1>14, <1>18 DEF replaced, copies

\* In a document without code and equations, a copy whose letters nobody touched is
\* traced to nobody but the recipients of that very copy, and to them if its
\* fingerprint replaced enough letters.
THEOREM CopiesAreTraced == Spec => [](Prose(text) => TracedWhileWhole)
PROOF
  BY LettersAlways, ProseTraced, PTL

-----------------------------------------------------------------------------
(* Room.                                                                   *)

\* Regions and gaps are the same where letters are swapped for lookalikes.
LEMMA GapsOfTwins ==
    ASSUME NEW d \in Seq(Symbols), NEW e \in Seq(Symbols), Pairwise(d, e, Twins)
    PROVE  WritableGaps(d) = WritableGaps(e)
PROOF
  <1> DEFINE n == Len(d)
  <1>1. /\ n \in Nat /\ Len(e) = n /\ DOMAIN d = 1..n /\ DOMAIN e = 1..n
        /\ \A i \in 1..n : d[i] = e[i] \/ {d[i], e[i]} = {"alike", "twin"}
    BY LenProperties DEF Pairwise, Twins
  <1> HIDE DEF n
  <1>2. \A i \in 1..n : d[i] = e[i] \/ (d[i] \in {"alike", "twin"} /\ e[i] \in {"alike", "twin"})
    BY <1>1
  <1>3. Outline(d) = Outline(e)
    BY <1>1, <1>2 DEF Outline
  <1>4. Regions(d) = Regions(e)
    BY <1>3 DEF Regions
  <1>5. "alike" \in Letters /\ "twin" \in Letters
    BY DEF Letters, LatinLetters
  <1>6. \A i \in 1..n : d[i] \in Letters <=> e[i] \in Letters
    BY <1>2, <1>5
  <1> DEFINE inside(u, k) == {u[k], u[k + 1]} \subseteq Letters
  <1>7. \A k \in 0..n : k \notin {0, n} => (inside(d, k) <=> inside(e, k))
    <2> SUFFICES ASSUME NEW k \in 0..n, k \notin {0, n} PROVE inside(d, k) <=> inside(e, k)
      OBVIOUS
    <2>1. k \in 1..n /\ k + 1 \in 1..n
      BY <1>1
    <2> QED
      BY <1>6, <2>1
  <1> DEFINE clear(k) == \A r \in Regions(d) : ~(r[1] <= k /\ k <= r[2])
  <1>8. WritableGaps(d) = {k \in 0..n : (k \in {0, n} \/ ~inside(d, k)) /\ clear(k)}
    BY DEF WritableGaps, n
  <1>9. WritableGaps(e) = {k \in 0..n : (k \in {0, n} \/ ~inside(e, k)) /\ clear(k)}
    BY <1>1, <1>4 DEF WritableGaps, n
  <1> HIDE DEF inside, clear
  <1> QED
    BY <1>7, <1>8, <1>9

\* A document without marks and joiners, from itself or without its marks.
LEMMA SkeletonOf ==
    ASSUME NEW d \in Seq(Symbols)
    PROVE  /\ Skeleton(d) = Only(d, Symbols \ FormatControl)
           /\ Skeleton(d) = Only(Bare(d), Symbols \ FormatControl)
           /\ Skeleton(d) \in Seq(Symbols)
PROOF
  <1>1. Skeleton(d) = Only(d, Symbols \ FormatControl)
    BY FreeIsOnly DEF Skeleton
  <1>2. Only(Only(d, Symbols \ Marks), Symbols \ FormatControl)
            = Only(d, (Symbols \ Marks) \cap (Symbols \ FormatControl))
    BY OnlyOnly
  <1>3. (Symbols \ Marks) \cap (Symbols \ FormatControl) = Symbols \ FormatControl
    BY DEF FormatControl
  <1>4. Only(d, Symbols \ FormatControl) \in Seq(Symbols \cap (Symbols \ FormatControl))
    BY OnlyType
  <1> QED
    BY <1>1, <1>2, <1>3, <1>4, SeqMonotonic DEF Bare

\* What an inserting carrier offers is a matter of the author's text.
LEMMA RoomOfText ==
    ASSUME NEW d, NEW t, Reads(d, t), NEW c \in Inserting
    PROVE  Positions(c, d) = Positions(c, t)
PROOF
  <1>1. d \in Seq(Symbols) /\ t \in Seq(Symbols) /\ Bare(d) \in Seq(Symbols)
        /\ Pairwise(Bare(d), t, Twins)
    BY SeqMonotonic, BareType DEF Reads
  <1> DEFINE V == Symbols \ FormatControl
  <1>2. Skeleton(d) = Only(Bare(d), V) /\ Skeleton(t) = Only(t, V)
        /\ Skeleton(d) \in Seq(Symbols) /\ Skeleton(t) \in Seq(Symbols)
    BY <1>1, SkeletonOf
  <1>3. "alike" \in V /\ "twin" \in V
    BY Alphabet DEF FormatControl
  <1>4. \A x \in Symbols, y \in Symbols : <<x, y>> \in Twins => (x \in V <=> y \in V)
    <2> HIDE DEF V
    <2>1. \A x, y : {x, y} = {"alike", "twin"} => x \in V /\ y \in V
      BY <1>3
    <2> QED
      BY <2>1 DEF Twins
  <1> HIDE DEF V
  <1>5. Pairwise(Skeleton(d), Skeleton(t), Twins)
    BY <1>1, <1>2, <1>4, OnlyPairwise
  <1>6. BoundarySlots(d) = BoundarySlots(t)
    BY <1>2, <1>5, GapsOfTwins DEF BoundarySlots
  <1>7. c # "homoglyph"
    BY Alphabet
  <1> QED
    BY <1>6, <1>7 DEF Positions

\* The gaps at word boundaries, of a document whatever its code.
Boundaries(d) == {k \in 0..Len(d) : k \in {0, Len(d)} \/ ~({d[k], d[k + 1]} \subseteq Letters)}

\* In prose every boundary of two words is a gap, and nothing else.
LEMMA ProseGaps ==
    ASSUME NEW d \in Seq(Symbols), Prose(d)
    PROVE  WritableGaps(d) = Boundaries(d)
PROOF
  <1>1. Regions(d) = {}
    BY ProsePlaces
  <1> QED
    BY <1>1 DEF WritableGaps, Boundaries

\* Whether a letter follows a letter.
Joins(d, x) == Len(d) > 0 /\ d[Len(d)] \in Letters /\ x \in Letters

\* One more symbol is one more boundary, unless it joins the last word.
LEMMA BoundariesAppend ==
    ASSUME NEW T, NEW d \in Seq(T), NEW x \in T, IsFiniteSet(Boundaries(d))
    PROVE  /\ IsFiniteSet(Boundaries(Append(d, x)))
           /\ Cardinality(Boundaries(d)) \in Nat
           /\ Cardinality(Boundaries(Append(d, x)))
                = Cardinality(Boundaries(d)) + (IF Joins(d, x) THEN 0 ELSE 1)
PROOF
  <1> DEFINE n == Len(d)
             u == Append(d, x)
             B == Boundaries(d)
             left == IF Joins(d, x) THEN B \ {n} ELSE B
  <1>1. /\ u \in Seq(T) /\ Len(u) = n + 1 /\ n \in Nat /\ u[n + 1] = x
        /\ \A i \in 1..n : u[i] = d[i]
    BY HasAppend
  <1> HIDE DEF u
  <1>2. n \in B /\ B \subseteq 0..n
    BY <1>1 DEF Boundaries
  <1>3. Boundaries(u) = left \cup {n + 1}
    <2> DEFINE in(v, k) == {v[k], v[k + 1]} \subseteq Letters
    <2>1. \A k \in 1..(n - 1) : in(u, k) <=> in(d, k)
      <3> SUFFICES ASSUME NEW k \in 1..(n - 1) PROVE in(u, k) <=> in(d, k)
        OBVIOUS
      <3>1. k \in 1..n /\ k + 1 \in 1..n
        BY <1>1
      <3> QED
        BY <1>1, <3>1
    <2>2. n > 0 => (in(u, n) <=> Joins(d, x))
      BY <1>1 DEF Joins
    <2>3. Boundaries(u) = {k \in 0..(n + 1) : k \in {0, n + 1} \/ ~in(u, k)}
      BY <1>1 DEF Boundaries
    <2>4. B = {k \in 0..n : k \in {0, n} \/ ~in(d, k)}
      BY DEF Boundaries
    <2>5. Joins(d, x) => n > 0
      BY DEF Joins
    <2> HIDE DEF B, in, n
    <2>6. ASSUME NEW k \in 0..(n + 1)
          PROVE  (k \in {0, n + 1} \/ ~in(u, k)) <=> k \in left \cup {n + 1}
      <3>1. CASE k = n + 1
        BY <3>1
      <3>2. CASE k = n /\ n > 0
        BY <1>1, <1>2, <2>2, <3>2
      <3>3. CASE k = n /\ n = 0
        BY <1>1, <1>2, <2>5, <3>3
      <3>4. CASE k \in 1..(n - 1)
        BY <1>1, <2>1, <2>4, <3>4
      <3>5. CASE k = 0 /\ n > 0
        BY <1>1, <2>4, <3>5
      <3> QED
        BY <1>1, <3>1, <3>2, <3>3, <3>4, <3>5
    <2>7. left \cup {n + 1} \subseteq 0..(n + 1)
      BY <1>1, <1>2
    <2> HIDE DEF left
    <2> QED
      BY <2>3, <2>6, <2>7
  <1>4. n + 1 \notin left /\ IsFiniteSet(left)
    <2>1. IsFiniteSet(B \ {n})
      BY FS_RemoveElement
    <2>2. n + 1 \notin B
      BY <1>1, <1>2
    <2> QED
      BY <2>1, <2>2
  <1>5. Cardinality(B) \in Nat /\ Cardinality(B \ {n}) = Cardinality(B) - 1
    BY <1>2, FS_RemoveElement, FS_CardinalityType
  <1>6. IsFiniteSet(left \cup {n + 1}) /\ Cardinality(left \cup {n + 1}) = Cardinality(left) + 1
    <2> HIDE DEF left
    <2> QED
      BY <1>4, FS_AddElement
  <1>7. Cardinality(left) = IF Joins(d, x) THEN Cardinality(B) - 1 ELSE Cardinality(B)
    BY <1>5
  <1> HIDE DEF left, B
  <1> QED
    BY <1>3, <1>5, <1>6, <1>7 DEF u, B

\* A document with something in it has no fewer gaps at word boundaries.
LEMMA BoundariesLeft ==
    ASSUME NEW T, NEW d \in Seq(T), NEW S, Letters \subseteq S
    PROVE  /\ Cardinality(Boundaries(d)) \in Nat /\ Cardinality(Boundaries(Only(d, S))) \in Nat
           /\ Cardinality(Boundaries(Only(d, S))) <= Cardinality(Boundaries(d))
PROOF
  <1> DEFINE Good(e) ==
                /\ IsFiniteSet(Boundaries(e)) /\ IsFiniteSet(Boundaries(Only(e, S)))
                /\ Cardinality(Boundaries(Only(e, S))) <= Cardinality(Boundaries(e))
                /\ \A x : Joins(e, x) => Joins(Only(e, S), x)
             G == {e \in Seq(T) : Good(e)}
  <1>1. <<>> \in G
    <2>1. Only(<<>>, S) = <<>> /\ <<>> \in Seq(T) /\ Len(<<>>) = 0
      BY OnlyAppend
    <2>2. Boundaries(<<>>) = {0}
      BY <2>1 DEF Boundaries
    <2>3. IsFiniteSet({0}) /\ Cardinality({0}) = 1
      BY FS_Singleton
    <2>4. \A x : ~Joins(<<>>, x)
      BY <2>1 DEF Joins
    <2>5. Good(<<>>)
      <3> DEFINE o == <<>>
                 z == Only(o, S)
      <3>1. z = o /\ Boundaries(o) = {0} /\ \A x : ~Joins(o, x)
        BY <2>1, <2>2, <2>4
      <3> HIDE DEF o
      <3>2. IsFiniteSet(Boundaries(o)) /\ Cardinality(Boundaries(o)) = 1
        BY <2>3, <3>1
      <3> HIDE DEF z
      <3>3. Good(o)
        BY <3>1, <3>2 DEF z
      <3> QED
        BY <3>3 DEF o
    <2> HIDE DEF Good
    <2> QED
      BY <2>1, <2>5
  <1>2. ASSUME NEW e \in Seq(T) \cap G, NEW x \in T PROVE Append(e, x) \in G
    <2> DEFINE s == Only(e, S)
               u == Append(e, x)
               w == Only(u, S)
    <2>1. Good(e) /\ e \in Seq(T)
      BY <1>2
    <2>2. s \in Seq(T)
      <3>1. s \in Seq(T \cap S)
        BY OnlyType
      <3> QED
        BY <3>1
    <2>3. w = IF x \in S THEN Append(s, x) ELSE s
      BY OnlyAppend
    <2>4. /\ u \in Seq(T) /\ Len(u) = Len(e) + 1 /\ Len(e) \in Nat /\ u[Len(e) + 1] = x
      BY HasAppend
    <2> HIDE DEF s, G
    <2>5. /\ IsFiniteSet(Boundaries(u)) /\ Cardinality(Boundaries(e)) \in Nat
          /\ Cardinality(Boundaries(u))
                = Cardinality(Boundaries(e)) + (IF Joins(e, x) THEN 0 ELSE 1)
      BY <2>1, BoundariesAppend
    <2>6. /\ IsFiniteSet(Boundaries(Append(s, x))) /\ Cardinality(Boundaries(s)) \in Nat
          /\ Cardinality(Boundaries(Append(s, x)))
                = Cardinality(Boundaries(s)) + (IF Joins(s, x) THEN 0 ELSE 1)
      <3>1. IsFiniteSet(Boundaries(s))
        BY <2>1 DEF s
      <3> QED
        BY <2>2, <3>1, BoundariesAppend
    <2> HIDE DEF u, w
    <2>7. \A y : Joins(u, y) => x \in Letters /\ y \in Letters
      BY <2>4 DEF Joins
    <2>8. Joins(e, x) => Joins(s, x)
      BY <2>1 DEF s
    <2>9. Cardinality(Boundaries(s)) <= Cardinality(Boundaries(e))
      BY <2>1 DEF s
    <2>10. ASSUME x \in S PROVE u \in G
      <3>1. w = Append(s, x)
        BY <2>3, <2>10
      <3>2. \A y : x \in Letters /\ y \in Letters => Joins(Append(s, x), y)
        <4>1. Len(Append(s, x)) = Len(s) + 1 /\ Len(s) \in Nat /\ Append(s, x)[Len(s) + 1] = x
          BY <2>2, HasAppend
        <4> QED
          BY <4>1 DEF Joins
      <3>3. Cardinality(Boundaries(w)) <= Cardinality(Boundaries(u))
        BY <2>5, <2>6, <2>8, <2>9, <3>1
      <3>4. IsFiniteSet(Boundaries(w)) /\ \A y : Joins(u, y) => Joins(w, y)
        BY <2>6, <2>7, <3>1, <3>2
      <3>5. Good(u)
        BY <2>5, <3>3, <3>4 DEF w
      <3> HIDE DEF Good
      <3> QED
        BY <2>4, <3>5 DEF G
    <2>11. ASSUME x \notin S PROVE u \in G
      <3>1. w = s /\ x \notin Letters
        BY <2>3, <2>11
      <3>2. Cardinality(Boundaries(w)) <= Cardinality(Boundaries(u))
        BY <2>5, <2>6, <2>9, <3>1
      <3>3. IsFiniteSet(Boundaries(w)) /\ \A y : Joins(u, y) => Joins(w, y)
        BY <2>1, <2>7, <3>1 DEF s
      <3>4. Good(u)
        BY <2>5, <3>2, <3>3 DEF w
      <3> HIDE DEF Good
      <3> QED
        BY <2>4, <3>4 DEF G
    <2> QED
      BY <2>10, <2>11 DEF u
  <1> HIDE DEF G
  <1>3. Seq(T) \subseteq G
    BY <1>1, <1>2, EverySequence
  <1>4. Good(d)
    BY <1>3 DEF G
  <1> QED
    BY <1>4, FS_CardinalityType

\* A division by what was multiplied by.
LEMMA Quotient ==
    ASSUME NEW q \in Nat, NEW r \in Nat, NEW b \in Nat \ {0}, r < b
    PROVE  (q * b + r) \div b = q /\ (q * b + r) % b = r
PROOF
  BY SMT

\* A quotient grows by one where the remainder starts over.
LEMMA QuotientNext ==
    ASSUME NEW m \in Nat, NEW b \in Nat \ {0}
    PROVE  /\ m \div b \in Nat /\ (m + 1) \div b \in Nat
           /\ (m + 1) \div b >= m \div b
           /\ (m + 1) % b = 0 => (m + 1) \div b = m \div b + 1
PROOF
  <1> DEFINE q == m \div b
             r == m % b
  <1>1. q \in Nat /\ r \in Nat /\ r < b /\ m = q * b + r
    BY SMT
  <1> HIDE DEF q, r
  <1>2. q * b \in Nat
    BY <1>1
  <1>3. CASE r + 1 < b
    <2>1. m + 1 = q * b + (r + 1) /\ r + 1 \in Nat
      BY <1>1, <1>2
    <2>2. (m + 1) \div b = q /\ (m + 1) % b = r + 1
      BY <1>1, <1>3, <2>1, Quotient
    <2> QED
      BY <1>1, <2>2 DEF q
  <1>4. CASE r + 1 = b
    <2>1. m + 1 = (q + 1) * b + 0
      BY <1>1, <1>2, <1>4
    <2>2. (m + 1) \div b = q + 1
      BY <1>1, <2>1, Quotient
    <2> QED
      BY <1>1, <2>2 DEF q
  <1> QED
    BY <1>1, <1>3, <1>4

\* A bounded carrier's bytes, with a delimiter between two, fit the gaps.
LEMMA SpannedFits ==
    ASSUME NEW slots \in Nat
    PROVE  \E q \in Nat : /\ Spanned(slots) = q * ByteBits
                          /\ q * ByteBits + (IF q = 0 THEN 0 ELSE q - 1) <= slots
PROOF
  <1>1. ByteBits \in Nat \ {0}
    BY ByteBitsAssumption
  <1>2. CASE slots < ByteBits
    <2>1. Spanned(slots) = 0 /\ 0 * ByteBits = 0
      BY <1>1, <1>2 DEF Spanned
    <2> QED
      BY <2>1
  <1>3. CASE slots >= ByteBits
    <2> DEFINE b == ByteBits + 1
               q == (slots + 1) \div b
    <2>1. b \in Nat \ {0} /\ slots + 1 \in Nat
      BY <1>1
    <2>2. q \in Nat /\ q * b <= slots + 1
      <3> HIDE DEF b
      <3> QED
        BY <2>1, SMT
    <2>3. Spanned(slots) = q * ByteBits
      BY <1>1, <1>3 DEF Spanned
    <2> HIDE DEF q
    <2>4. q * b = q * ByteBits + q /\ q * ByteBits \in Nat
      BY <1>1, <2>2
    <2> DEFINE p == q * ByteBits
               w == q * b
    <2>5. w <= slots + 1 /\ w = p + q /\ p \in Nat /\ Spanned(slots) = p
      BY <2>2, <2>3, <2>4
    <2>6. q = 0 => p = 0
      BY <1>1
    <2> HIDE DEF p, w
    <2>7. p + (IF q = 0 THEN 0 ELSE q - 1) <= slots
      BY <2>2, <2>5, <2>6
    <2> QED
      BY <2>2, <2>5, <2>7 DEF p
  <1> QED
    BY <1>1, <1>2, <1>3

\* As many characters as bits, and a delimiter for every byte begun but the first.
LEMMA SequencedLength ==
    ASSUME NEW c \in Inserting, NEW bits \in BitStrings, NEW q \in Nat, Len(bits) = q * ByteBits
    PROVE  /\ Len(Sequenced(c, bits)) \in Nat
           /\ Len(Sequenced(c, bits)) <= q * ByteBits + (IF q = 0 THEN 0 ELSE q - 1)
PROOF
  <1> DEFINE V == Occupying(c)
             n == Len(bits)
             pre(i) == IF c \in Delimiting /\ i > 1 /\ (i - 1) % ByteBits = 0
                       THEN <<Delim[c]>> ELSE <<>>
             f == [i \in DOMAIN bits |-> pre(i) \o <<BitChar(c, bits[i])>>]
             more(i) == IF i = 0 THEN 0 ELSE (i - 1) \div ByteBits
  <1>1. n \in Nat /\ DOMAIN bits = 1..n /\ ByteBits \in Nat \ {0}
    BY LenProperties, ByteBitsAssumption DEF BitStrings
  <1>2. (c \in Delimiting => Delim[c] \in V) /\ \A b : BitChar(c, b) \in V
    BY Alphabet DEF BitChar
  <1> HIDE DEF V
  <1>3. \A i \in 1..n : /\ pre(i) \in Seq(V) /\ Len(pre(i)) \in {0, 1}
                        /\ Len(pre(i)) = 1 => i > 1 /\ (i - 1) % ByteBits = 0
    <2> SUFFICES ASSUME NEW i \in 1..n
                 PROVE  /\ pre(i) \in Seq(V) /\ Len(pre(i)) \in {0, 1}
                        /\ Len(pre(i)) = 1 => i > 1 /\ (i - 1) % ByteBits = 0
      OBVIOUS
    <2>1. CASE c \in Delimiting /\ i > 1 /\ (i - 1) % ByteBits = 0
      <3> DEFINE y == Delim[c]
      <3>1. y \in V /\ pre(i) = <<y>>
        BY <1>2, <2>1
      <3> HIDE DEF y, pre
      <3> QED
        BY <2>1, <3>1
    <2>2. CASE ~(c \in Delimiting /\ i > 1 /\ (i - 1) % ByteBits = 0)
      <3>1. pre(i) = <<>>
        BY <2>2
      <3> HIDE DEF pre
      <3> QED
        BY <3>1
    <2> QED
      BY <2>1, <2>2
  <1>4. \A i \in 1..n : f[i] = pre(i) \o <<BitChar(c, bits[i])>>
    BY <1>1
  <1>5. f = [i \in 1..n |-> f[i]]
    BY <1>1
  <1>6. Sequenced(c, bits) = FlattenSeq(f)
    BY DEF Sequenced
  <1> HIDE DEF f, pre, n
  <1>7. \A i \in 1..n : f[i] \in Seq(V) /\ Len(f[i]) = Len(pre(i)) + 1
    <2> SUFFICES ASSUME NEW i \in 1..n
                 PROVE  f[i] \in Seq(V) /\ Len(f[i]) = Len(pre(i)) + 1
      OBVIOUS
    <2> DEFINE a == pre(i)
               y == BitChar(c, bits[i])
    <2>1. a \in Seq(V) /\ y \in V /\ f[i] = a \o <<y>>
      BY <1>2, <1>3, <1>4
    <2> HIDE DEF a, y
    <2>2. f[i] = Append(a, y)
      BY <2>1, Joined
    <2> QED
      BY <2>1, <2>2, HasAppend DEF a
  <1>8. f \in Seq(Seq(V)) /\ Len(f) = n
    <2>1. f \in [1..n -> Seq(V)]
      BY <1>5, <1>7
    <2> QED
      BY <1>1, <2>1, IsASeq
  <1>9. PICK g \in [0..n -> Seq(V)] : /\ g[0] = <<>>
                                      /\ \A i \in 1..n : g[i] = g[i - 1] \o f[i]
                                      /\ FlattenSeq(f) = g[n]
    BY <1>8, FlattenSteps
  <1>10. \A i \in 1..n : Len(g[i]) = Len(g[i - 1]) + Len(f[i]) /\ g[i - 1] \in Seq(V)
    <2> SUFFICES ASSUME NEW i \in 1..n
                 PROVE  Len(g[i]) = Len(g[i - 1]) + Len(f[i]) /\ g[i - 1] \in Seq(V)
      OBVIOUS
    <2>1. i - 1 \in 0..n
      BY <1>1
    <2>2. g[i - 1] \in Seq(V) /\ f[i] \in Seq(V) /\ g[i] = g[i - 1] \o f[i]
      BY <1>7, <1>9, <2>1
    <2> DEFINE a == g[i - 1]
               b == f[i]
    <2>3. a \in Seq(V) /\ b \in Seq(V)
      BY <2>2
    <2> HIDE DEF a, b
    <2>4. Len(a \o b) = Len(a) + Len(b)
      BY <2>3
    <2> QED
      BY <2>2, <2>4 DEF a, b
  <1>11. \A i \in 0..n : Len(g[i]) \in Nat
    <2>1. \A i \in 0..n : g[i] \in Seq(V)
      BY <1>9
    <2> QED
      BY <2>1, LenProperties
  <1> DEFINE fails == {i \in 0..n : ~(Len(g[i]) <= i + more(i))}
  <1>12. fails = {}
    <2> SUFFICES ASSUME fails # {} PROVE FALSE
      OBVIOUS
    <2>1. PICK i \in fails : \A j \in fails : i <= j
      <3>1. fails \in SUBSET Nat
        OBVIOUS
      <3> QED
        BY <3>1, Least
    <2>2. i \in 0..n /\ ~(Len(g[i]) <= i + more(i))
      OBVIOUS
    <2>3. \A j \in 0..n : j < i => Len(g[j]) <= j + more(j)
      BY <1>1, <2>1, <2>2
    <2> HIDE DEF fails
    <2>4. i # 0
      BY <1>9, <2>2
    <2>5. i \in 1..n /\ i - 1 \in 0..n /\ i - 1 < i
      BY <1>1, <2>2, <2>4
    <2>6. Len(g[i - 1]) <= (i - 1) + more(i - 1)
      BY <2>3, <2>5
    <2> DEFINE new == Len(g[i])
               old == Len(g[i - 1])
               k   == Len(pre(i))
               l   == Len(f[i])
    <2>a. k \in {0, 1} /\ l = k + 1
      BY <1>3, <1>7, <2>5
    <2>b. new = old + l
      BY <1>10, <2>5
    <2>c. old \in Nat /\ new \in Nat
      BY <1>11, <2>5
    <2>d. new \in Nat /\ ~(new <= i + more(i)) /\ old <= (i - 1) + more(i - 1)
      BY <2>2, <2>6, <2>c
    <2>e. k = 1 => i > 1 /\ (i - 1) % ByteBits = 0
      BY <1>3, <2>5
    <2> HIDE DEF new, old, k, l
    <2>7. new = old + k + 1
      BY <2>a, <2>b, <2>c
    <2>8. CASE i = 1
      <3>1. k = 0
        BY <2>a, <2>e, <2>8
      <3>2. more(i - 1) = 0 /\ more(i) = 0 \div ByteBits
        BY <2>8
      <3>3. 0 \div ByteBits = 0
        BY <1>1, SMT
      <3> HIDE DEF more
      <3> QED
        BY <2>c, <2>d, <2>7, <2>8, <3>1, <3>2, <3>3
    <2>9. CASE i > 1
      <3> DEFINE m == i - 2
      <3>1. m \in Nat /\ m + 1 = i - 1 /\ m = (i - 1) - 1 /\ i \in Nat
        BY <1>1, <2>5, <2>9
      <3>2. more(i - 1) = m \div ByteBits /\ more(i) = (m + 1) \div ByteBits
        BY <3>1, <2>9
      <3> HIDE DEF m, more
      <3>3. /\ m \div ByteBits \in Nat /\ (m + 1) \div ByteBits \in Nat
            /\ (m + 1) \div ByteBits >= m \div ByteBits
            /\ (m + 1) % ByteBits = 0 => (m + 1) \div ByteBits = m \div ByteBits + 1
        BY <1>1, <3>1, QuotientNext
      <3> DEFINE x == more(i)
                 z == more(i - 1)
      <3>4. x >= z /\ x \in Nat /\ z \in Nat
        BY <3>2, <3>3
      <3>5. k = 1 => x = z + 1
        BY <2>e, <3>1, <3>2, <3>3
      <3>6. ~(new <= i + x) /\ old <= (i - 1) + z
        BY <2>d
      <3> HIDE DEF x, z
      <3> QED
        BY <2>a, <2>c, <2>7, <3>1, <3>4, <3>5, <3>6
    <2> QED
      BY <1>1, <2>5, <2>8, <2>9
  <1>13. Len(g[n]) <= n + more(n) /\ Len(g[n]) \in Nat
    <2>1. n \in 0..n
      BY <1>1
    <2> QED
      BY <1>11, <1>12, <2>1
  <1>14. n = q * ByteBits
    BY DEF n
  <1>15. n = 0 => q = 0
    BY <1>1, <1>14
  <1>16. q # 0 => n # 0 /\ more(n) = q - 1
    <2> SUFFICES ASSUME q # 0 PROVE n # 0 /\ more(n) = q - 1
      OBVIOUS
    <2>1. q - 1 \in Nat /\ ByteBits - 1 \in Nat /\ ByteBits - 1 < ByteBits
      BY <1>1
    <2>2. n - 1 = (q - 1) * ByteBits + (ByteBits - 1)
      BY <1>1, <1>14
    <2>3. (n - 1) \div ByteBits = q - 1
      <3> DEFINE p == q - 1
                 r == ByteBits - 1
                 w == n - 1
      <3>1. p \in Nat /\ r \in Nat /\ r < ByteBits /\ w = p * ByteBits + r
        BY <2>1, <2>2
      <3> HIDE DEF p, r, w
      <3>2. (p * ByteBits + r) \div ByteBits = p
        BY <1>1, <3>1, Quotient
      <3>3. w \div ByteBits = p
        BY <3>1, <3>2
      <3> QED
        BY <3>3 DEF w, p
    <2>4. n # 0
      BY <1>15
    <2> QED
      BY <2>3, <2>4
  <1>17. q = 0 => n = 0 /\ more(n) = 0
    <2>1. 0 * ByteBits = 0
      BY <1>1
    <2> QED
      BY <1>14, <2>1
  <1> HIDE DEF more
  <1> QED
    BY <1>1, <1>6, <1>9, <1>13, <1>14, <1>16, <1>17

\* In prose as much as is offered finds a gap for every character.
LEMMA RoomInProse ==
    ASSUME NEW d, NEW t, Reads(d, t), Prose(t), NEW c \in Delimiting
    PROVE  LET most == [i \in 1..Positions(c, d) |-> 1]
           IN  Len(Sequenced(c, most)) <= Cardinality(WritableGaps(d))
PROOF
  <1>1. d \in Seq(Symbols) /\ Prose(d)
    BY ReadsProse
  <1>2. c \in Inserting /\ c # "homoglyph"
    BY Alphabet
  <1> DEFINE s == Skeleton(d)
             V == Symbols \ FormatControl
             slots == BoundarySlots(d)
             most == [i \in 1..Positions(c, d) |-> 1]
  <1>3. s = Only(d, V) /\ s \in Seq(Symbols)
    BY <1>1, SkeletonOf
  <1>4. Prose(s)
    <2>1. Has(Only(d, V), {"tick", "dollar"}) <=> Has(d, V \cap {"tick", "dollar"})
      BY <1>1, OnlyType
    <2> QED
      BY <1>1, <1>3, <2>1 DEF Prose, Has
  <1>5. Letters \subseteq V
    BY Alphabet DEF FormatControl, Letters, LatinLetters, HighLatin
  <1>6. WritableGaps(d) = Boundaries(d) /\ WritableGaps(s) = Boundaries(s)
    BY <1>1, <1>3, <1>4, ProseGaps
  <1>7. /\ Cardinality(Boundaries(d)) \in Nat /\ Cardinality(Boundaries(Only(d, V))) \in Nat
        /\ Cardinality(Boundaries(Only(d, V))) <= Cardinality(Boundaries(d))
    BY <1>1, <1>5, BoundariesLeft
  <1>8. slots \in Nat /\ slots <= Cardinality(WritableGaps(d)) /\ Cardinality(WritableGaps(d)) \in Nat
    <2>1. slots = Cardinality(Boundaries(Only(d, V)))
      BY <1>3, <1>6 DEF BoundarySlots
    <2> QED
      BY <1>6, <1>7, <2>1
  <1> HIDE DEF slots
  <1>9. PICK q \in Nat : /\ Spanned(slots) = q * ByteBits
                         /\ q * ByteBits + (IF q = 0 THEN 0 ELSE q - 1) <= slots
    BY <1>8, SpannedFits
  <1>10. Positions(c, d) = q * ByteBits
    BY <1>2, <1>9 DEF Positions, slots
  <1>11. q * ByteBits \in Nat
    BY <1>9, ByteBitsAssumption
  <1>12. most \in BitStrings /\ Len(most) = q * ByteBits
    <2>1. most \in [1..(q * ByteBits) -> {0, 1}]
      BY <1>10
    <2> HIDE DEF most
    <2> QED
      BY <1>11, <2>1, IsASeq DEF BitStrings
  <1> HIDE DEF most
  <1>13. /\ Len(Sequenced(c, most)) \in Nat
         /\ Len(Sequenced(c, most)) <= q * ByteBits + (IF q = 0 THEN 0 ELSE q - 1)
    BY <1>2, <1>12, SequencedLength
  <1> QED
    BY <1>8, <1>9, <1>11, <1>13 DEF most

\* No mark moves the room an inserting carrier reports, whatever the document.
THEOREM RoomIsTheTexts ==
    Spec => [](\A c \in Inserting : Positions(c, doc) = Positions(c, text))
PROOF
  <1>1. MarkedInv => \A c \in Inserting : Positions(c, doc) = Positions(c, text)
    BY RoomOfText DEF MarkedInv
  <1> QED
    BY <1>1, MarkedAlways, PTL

\* In prose the room is the text's, and enough.
LEMMA ProseRoom == MarkedInv => (Prose(text) => RoomIsKept)
PROOF
  <1> SUFFICES ASSUME MarkedInv, Prose(text) PROVE RoomIsKept
    OBVIOUS
  <1>1. Reads(doc, text)
    BY DEF MarkedInv
  <1>2. ASSUME NEW c \in Carrier PROVE Positions(c, doc) = Positions(c, text)
    <2>1. CASE c \in Inserting
      BY <1>1, <2>1, RoomOfText
    <2>2. CASE c = "homoglyph"
      <3>1. Cardinality(Places(text)) = Len(LetterBits(doc)) /\ doc \in Seq(Symbols) /\ Prose(doc)
        BY <1>1, ReadsProse
      <3>2. Cardinality(Places(doc)) = Len(LetterBits(doc))
        BY <3>1, LettersRead
      <3> QED
        BY <2>2, <3>1, <3>2 DEF Positions
    <2> QED
      BY <1>2, <2>1, <2>2 DEF Carrier
  <1>3. \A c \in Delimiting :
            LET most == [i \in 1..Positions(c, doc) |-> 1]
            IN  Len(Sequenced(c, most)) <= Cardinality(WritableGaps(doc))
    BY <1>1, RoomInProse
  <1> QED
    BY <1>2, <1>3 DEF RoomIsKept

\* In a document without code and equations no mark moves any carrier's room, and
\* as much as a delimiting one reports finds a gap for every character.
THEOREM ProseKeepsRoom == Spec => [](Prose(text) => RoomIsKept)
PROOF
  BY MarkedAlways, ProseRoom, PTL

-----------------------------------------------------------------------------
(* Types.                                                                  *)

\* A fingerprint is whole bytes.
LEMMA FingerprintWhole ==
    ASSUME NEW d, NEW t, Reads(d, t), NEW r \in Recipients, NEW c \in Covers, Len(t) = Len(c)
    PROVE  Len(Fingerprint(d, r)) % ByteBits = 0
PROOF
  <1> DEFINE q == Offered(d) \div ByteBits
  <1>1. ByteBits \in Nat \ {0}
    BY ByteBitsAssumption
  <1>2. Len(Fingerprint(d, r)) = q * ByteBits /\ q \in Nat
    BY FingerprintFits
  <1> HIDE DEF q
  <1>3. (q * ByteBits + 0) % ByteBits = 0
    <2>1. q \in Nat /\ 0 \in Nat /\ 0 < ByteBits
      BY <1>1, <1>2
    <2> QED
      BY <1>1, <2>1, Quotient, Zenon
  <1>4. q * ByteBits + 0 = q * ByteBits
    BY <1>1, <1>2
  <1> QED
    BY <1>2, <1>3, <1>4

\* The bits remembered are whole bytes, and the bounds are kept.
TypesInv ==
    /\ \A c \in Carrier : held[c] # NoBits => Len(held[c]) % ByteBits = 0
    /\ marks \in 0..MaxMarks /\ steps \in marks..MaxSteps

LEMMA TypesInit == Init => TypesInv
PROOF
  BY DocumentAssumption DEF Init, TypesInv, DocumentAssumption

\* What is remembered afterwards is remembered already, or whole bytes.
LEMMA TypesKept ==
    ASSUME TypesInv, Step, marks' = marks \/ (marks < MaxMarks /\ marks' = marks + 1),
           \A c \in Carrier : \/ held'[c] \in {NoBits, held[c]}
                              \/ Len(held'[c]) % ByteBits = 0
    PROVE  TypesInv'
PROOF
  <1>1. MaxMarks \in Nat /\ MaxSteps \in Nat
    BY DocumentAssumption DEF DocumentAssumption
  <1>2. marks' \in 0..MaxMarks /\ steps' \in marks'..MaxSteps
    BY <1>1 DEF TypesInv, Step
  <1>3. \A c \in Carrier : held'[c] # NoBits => Len(held'[c]) % ByteBits = 0
    BY DEF TypesInv
  <1> QED
    BY <1>2, <1>3 DEF TypesInv

\* Every step keeps them.
LEMMA TypesStep == MarkedInv /\ LettersInv /\ TypesInv /\ [Next]_vars => TypesInv'
PROOF
  <1> SUFFICES ASSUME MarkedInv, LettersInv, TypesInv, [Next]_vars PROVE TypesInv'
    OBVIOUS
  <1>1. held = [c \in Carrier |-> held[c]] /\ Reads(doc, text) /\ "homoglyph" \in Carrier
    BY DEF MarkedInv, Carrier
  <1>2. ASSUME NEW c \in Carrier, NEW bits, NEW claim, Mark, Place(c, bits, claim),
               Len(bits) % ByteBits = 0
        PROVE  TypesInv'
    <2>1. \A o \in Carrier : held'[o] = IF o = c THEN bits ELSE held[o]
      BY <1>1, <1>2 DEF Place
    <2> QED
      BY <1>2, <2>1, TypesKept DEF Mark
  <1>3. ASSUME NEW c \in Carrier, NEW bits \in Payloads, Conceal(c, bits) PROVE TypesInv'
    BY <1>2, <1>3, DocumentAssumption DEF Conceal, DocumentAssumption
  <1>4. ASSUME NEW c \in Carrier, NEW s \in Signers, AgentSigns(s, c) \/ SignsUnread(s, c)
        PROVE  TypesInv'
    <2>1. Len(ClaimBits[s]) % ByteBits = 0 /\ Mark /\ Place(c, ClaimBits[s], Claim(s))
      BY <1>4, DocumentAssumption DEF AgentSigns, SignsUnread, DocumentAssumption
    <2> QED
      BY <1>2, <2>1
  <1>5. ASSUME NEW s \in Signers, SignsBeside(s) PROVE TypesInv'
    BY <1>5, TypesKept DEF SignsBeside, Mark
  <1>6. ASSUME NEW chosen, Clean(chosen) \/ Sanitize(chosen) PROVE TypesInv'
    BY <1>6, TypesKept DEF Clean, Sanitize, Cleaned
  <1>7. ASSUME NEW r \in Recipients, Issue(r) PROVE TypesInv'
    <2>1. PICK c \in Covers : Len(text) = Len(c)
      BY DEF LettersInv
    <2>2. Len(Fingerprint(doc, r)) % ByteBits = 0
      BY <1>1, <2>1, FingerprintWhole
    <2>3. \A o \in Carrier :
            held'[o] = IF o = "homoglyph" THEN Fingerprint(doc, r) ELSE held[o]
      BY <1>1, <1>7 DEF Issue
    <2> QED
      BY <1>7, <2>2, <2>3, TypesKept DEF Issue, Mark
  <1>8. ASSUME NEW i, NEW letter, Edit(i, letter) PROVE TypesInv'
    <2>1. \A o \in Carrier : held'[o] = IF o = "homoglyph" THEN NoBits ELSE held[o]
      BY <1>1, <1>8 DEF Edit
    <2> QED
      BY <1>8, <2>1, TypesKept DEF Edit
  <1>9. ASSUME NEW k, NEW s, Stray(k, s) PROVE TypesInv'
    BY <1>9, TypesKept DEF Stray
  <1>10. CASE UNCHANGED vars
    BY <1>10 DEF vars, TypesInv
  <1> QED
    BY <1>3, <1>4, <1>5, <1>6, <1>7, <1>8, <1>9, <1>10 DEF Next

\* The three invariants make the types.
LEMMA TypesFollow == MarkedInv /\ LettersInv /\ TypesInv => TypeOK
PROOF
  <1> SUFFICES ASSUME MarkedInv, LettersInv, TypesInv PROVE TypeOK
    OBVIOUS
  <1>1. doc \in Seq(Symbols) /\ text \in Seq(Symbols \ Marks)
    BY DEF MarkedInv, Reads
  <1>2. \A i \in DOMAIN doc : doc[i] \in Symbols
    BY <1>1, LenProperties, ElementOfSeq
  <1>3. \A i \in DOMAIN text : text[i] \in Symbols \ Marks
    BY <1>1, LenProperties, ElementOfSeq
  <1>4. sidecar # NoClaim => sidecar.signer \in Signers
    BY DEF MarkedInv, Made, Claims
  <1> QED
    BY <1>2, <1>3, <1>4 DEF TypeOK, MarkedInv, LettersInv, TypesInv

\* The types of a document and of what is known of it: what carriers hold is whole
\* bytes, fingerprints too, and nothing goes past the bounds (TypeOK).
THEOREM MarkedTypes == Spec => []TypeOK
PROOF
  <1>1. Spec => [](MarkedInv /\ LettersInv /\ TypesInv)
    BY MarkedInit, MarkedStep, LettersInit, LettersStep, TypesInit, TypesStep, PTL DEF Spec
  <1> QED
    BY <1>1, TypesFollow, PTL
=============================================================================
