-------------------------- MODULE DocumentFileProofs --------------------------
(***************************************************************************)
(* Proofs about DocumentFile, for every text and office file, of any       *)
(* length, in any encoding and of any number of paragraphs and runs, every *)
(* set of secrets, authors, marks pasted and classes cleaned, and commands *)
(* and edits without a bound.                                              *)
(*                                                                         *)
(* Two inductive invariants carry the theorems.  FileInv: a text reads as  *)
(* its author's, holds its carriers' bits and none of the marks cleaned    *)
(* off; a rendering holds none of the marks cleaned off its archive; and a *)
(* claim is there exactly while a signature stands.  ClaimInv: the paper   *)
(* is of the shape of the one signed, and what was signed is how that one  *)
(* is rendered.  The lemmas say what rendering a paragraph, repairing      *)
(* mojibake and leaving out marks do to a text, each of the other.         *)
(***************************************************************************)
EXTENDS MarkedDocumentProofs, DocumentFile

-----------------------------------------------------------------------------
(* Sequences joined, one after the other.                                  *)

\* What is joined out of sequences is joined one after the other.
LEMMA FlattenAppend ==
    ASSUME NEW T, NEW f \in Seq(Seq(T)), NEW x \in Seq(T)
    PROVE  /\ FlattenSeq(<<>>) = <<>>
           /\ FlattenSeq(Append(f, x)) = FlattenSeq(f) \o x
           /\ FlattenSeq(f) \in Seq(T)
PROOF
  <1> DEFINE e == Append(f, x)
             n == Len(f)
  <1>1. /\ e \in Seq(Seq(T)) /\ Len(e) = n + 1 /\ n \in Nat /\ e[n + 1] = x
        /\ \A i \in 1..n : e[i] = f[i]
    BY AppendProperties
  <1> HIDE DEF e
  <1>2. PICK g \in [0..n -> Seq(T)] :
            /\ g[0] = <<>>
            /\ \A i \in 1..n : g[i] = g[i - 1] \o f[i]
            /\ FlattenSeq(f) = g[n]
    BY FlattenSteps
  <1>3. PICK h \in [0..(n + 1) -> Seq(T)] :
            /\ h[0] = <<>>
            /\ \A i \in 1..(n + 1) : h[i] = h[i - 1] \o e[i]
            /\ FlattenSeq(e) = h[n + 1]
    <2>1. \E k \in [0..Len(e) -> Seq(T)] :
            /\ k[0] = <<>>
            /\ \A i \in 1..Len(e) : k[i] = k[i - 1] \o e[i]
            /\ FlattenSeq(e) = k[Len(e)]
      BY <1>1, FlattenSteps
    <2> QED
      BY <1>1, <2>1
  <1> DEFINE fails == {i \in 0..n : h[i] # g[i]}
  <1>4. fails = {}
    <2>1. SUFFICES ASSUME fails # {} PROVE FALSE
      OBVIOUS
    <2>2. PICK i \in fails : \A j \in fails : i <= j
      <3>1. fails \in SUBSET Nat
        BY <1>1
      <3> QED
        BY <2>1, <3>1, Least
    <2>3. i \in 0..n /\ h[i] # g[i]
      BY <2>2
    <2>4. i # 0
      BY <1>2, <1>3, <2>3
    <2>5. i \in 1..n /\ i \in 1..(n + 1) /\ i - 1 \in 0..n /\ ~(i <= i - 1)
      BY <1>1, <2>3, <2>4
    <2>6. h[i - 1] = g[i - 1]
      BY <2>2, <2>5
    <2>7. h[i] = h[i - 1] \o e[i] /\ g[i] = g[i - 1] \o f[i] /\ e[i] = f[i]
      BY <1>1, <1>2, <1>3, <2>5
    <2> QED
      BY <2>3, <2>6, <2>7
  <1>5. h[n] = g[n]
    <2>1. n \in 0..n
      BY <1>1
    <2> QED
      BY <1>4, <2>1
  <1>6. h[n + 1] = h[n] \o e[n + 1]
    <2>1. n + 1 \in 1..(n + 1) /\ (n + 1) - 1 = n
      BY <1>1
    <2> QED
      BY <1>3, <2>1
  <1>7. FlattenSeq(e) = FlattenSeq(f) \o x
    BY <1>1, <1>2, <1>3, <1>5, <1>6
  <1>8. FlattenSeq(f) \in Seq(T)
    BY FlattenType
  <1>9. FlattenSeq(<<>>) = <<>>
    <2>1. <<>> \in Seq(Seq(T)) /\ Len(<<>>) = 0
      OBVIOUS
    <2>2. \E k \in [0..Len(<<>>) -> Seq(T)] :
            /\ k[0] = <<>>
            /\ \A i \in 1..Len(<<>>) : k[i] = k[i - 1] \o <<>>[i]
            /\ FlattenSeq(<<>>) = k[Len(<<>>)]
      BY <2>1, FlattenSteps
    <2> QED
      BY <2>1, <2>2
  <1> QED
    BY <1>7, <1>8, <1>9 DEF e

\* Two sequences of one length that are not empty are others and one more each.
LEMMA BothAppended ==
    ASSUME NEW T, NEW f \in Seq(T), NEW x \in T, NEW g \in Seq(T), Len(g) = Len(Append(f, x))
    PROVE  \E h \in Seq(T), y \in T :
            /\ g = Append(h, y) /\ Len(h) = Len(f) /\ Len(f) \in Nat
            /\ Len(g) = Len(f) + 1
            /\ Append(f, x)[Len(f) + 1] = x /\ g[Len(f) + 1] = y
            /\ \A i \in 1..Len(f) : Append(f, x)[i] = f[i] /\ g[i] = h[i]
            /\ \A i \in 1..Len(f) : i \in 1..Len(g)
            /\ Len(f) + 1 \in 1..Len(g)
PROOF
  <1>1. /\ Len(Append(f, x)) = Len(f) + 1 /\ Len(f) \in Nat /\ Append(f, x)[Len(f) + 1] = x
        /\ \A i \in 1..Len(f) : Append(f, x)[i] = f[i]
    BY HasAppend
  <1>2. g # <<>>
    BY <1>1
  <1>3. PICK h \in Seq(T), y \in T : g = Append(h, y)
    BY <1>2, SequenceEmptyOrAppend
  <1>4. /\ Len(g) = Len(h) + 1 /\ Len(h) \in Nat /\ g[Len(h) + 1] = y
        /\ \A i \in 1..Len(h) : g[i] = h[i]
    BY <1>3, HasAppend
  <1>5. Len(h) = Len(f)
    BY <1>1, <1>4
  <1>6. /\ \A i \in 1..Len(f) : i \in 1..Len(g)
        /\ Len(f) + 1 \in 1..Len(g)
    BY <1>1, <1>4, <1>5
  <1> QED
    BY <1>1, <1>3, <1>4, <1>5, <1>6

\* The same of sequences of sequences.
LEMMA BothListed ==
    ASSUME NEW T, NEW f \in Seq(Seq(T)), NEW x \in Seq(T), NEW g \in Seq(Seq(T)),
           Len(Append(f, x)) = Len(g)
    PROVE  \E h \in Seq(Seq(T)), y \in Seq(T) :
            /\ g = Append(h, y) /\ Len(h) = Len(f) /\ Len(f) \in Nat
            /\ Append(f, x)[Len(f) + 1] = x /\ g[Len(f) + 1] = y
            /\ \A i \in 1..Len(f) : Append(f, x)[i] = f[i] /\ g[i] = h[i]
            /\ \A i \in 1..Len(f) : i \in 1..Len(g)
            /\ Len(f) + 1 \in 1..Len(g)
PROOF
  <1> DEFINE U == Seq(T)
  <1>1. f \in Seq(U) /\ x \in U /\ g \in Seq(U) /\ Len(g) = Len(Append(f, x))
    OBVIOUS
  <1> HIDE DEF U
  <1>2. \E h \in Seq(U), y \in U :
            /\ g = Append(h, y) /\ Len(h) = Len(f) /\ Len(f) \in Nat
            /\ Len(g) = Len(f) + 1
            /\ Append(f, x)[Len(f) + 1] = x /\ g[Len(f) + 1] = y
            /\ \A i \in 1..Len(f) : Append(f, x)[i] = f[i] /\ g[i] = h[i]
            /\ \A i \in 1..Len(f) : i \in 1..Len(g)
            /\ Len(f) + 1 \in 1..Len(g)
    BY <1>1, BothAppended, Zenon
  <1> QED
    BY <1>2 DEF U

\* One sequence more, and what is kept of it.
LEMMA FlattenKeeps ==
    ASSUME NEW T, NEW f \in Seq(Seq(T)), NEW x \in Seq(T), NEW S
    PROVE  Only(FlattenSeq(Append(f, x)), S) = Only(FlattenSeq(f), S) \o Only(x, S)
PROOF
  <1>1. FlattenSeq(Append(f, x)) = FlattenSeq(f) \o x /\ FlattenSeq(f) \in Seq(T)
    BY FlattenAppend
  <1> QED
    BY <1>1, OnlyJoined

Alike(f, g, Q, R) == Len(f) = Len(g) /\ \A i \in 1..Len(f) : Only(f[i], Q) = Only(g[i], R)

\* Sequence by sequence, what is kept of one is kept of the other.
LEMMA FlattenAlike ==
    ASSUME NEW T, NEW Q, NEW R, NEW f \in Seq(Seq(T)), NEW g \in Seq(Seq(T)), Alike(f, g, Q, R)
    PROVE  Only(FlattenSeq(f), Q) = Only(FlattenSeq(g), R)
PROOF
  <1> DEFINE G == {u \in Seq(Seq(T)) : \A v \in Seq(Seq(T)) :
                    Len(u) = Len(v) /\ (\A i \in 1..Len(u) : Only(u[i], Q) = Only(v[i], R))
                    => Only(FlattenSeq(u), Q) = Only(FlattenSeq(v), R)}
  <1>1. <<>> \in G
    <2>1. ASSUME NEW v \in Seq(Seq(T)), Len(<<>>) = Len(v)
          PROVE  Only(FlattenSeq(<<>>), Q) = Only(FlattenSeq(v), R)
      <3>1. v = <<>>
        BY <2>1
      <3>2. <<>> \in Seq(T)
        OBVIOUS
      <3>3. FlattenSeq(<<>>) = <<>>
        BY <3>2, FlattenAppend
      <3> QED
        BY <3>1, <3>3, OnlyAppend
    <2>2. <<>> \in Seq(Seq(T))
      OBVIOUS
    <2> QED
      BY <2>1, <2>2
  <1>2. ASSUME NEW u \in Seq(Seq(T)) \cap G, NEW x \in Seq(T) PROVE Append(u, x) \in G
    <2>0. u \in Seq(Seq(T))
      OBVIOUS
    <2>1. ASSUME NEW v \in Seq(Seq(T)), Len(Append(u, x)) = Len(v),
                 \A i \in 1..Len(Append(u, x)) : Only(Append(u, x)[i], Q) = Only(v[i], R)
          PROVE  Only(FlattenSeq(Append(u, x)), Q) = Only(FlattenSeq(v), R)
      <3> HIDE DEF G
      <3>1. PICK h \in Seq(Seq(T)), y \in Seq(T) :
              /\ v = Append(h, y) /\ Len(h) = Len(u) /\ Len(u) \in Nat
              /\ Append(u, x)[Len(u) + 1] = x /\ v[Len(u) + 1] = y
              /\ \A i \in 1..Len(u) : Append(u, x)[i] = u[i] /\ v[i] = h[i]
              /\ \A i \in 1..Len(u) : i \in 1..Len(v)
              /\ Len(u) + 1 \in 1..Len(v)
        BY <2>0, <2>1, BothListed
      <3>2. Only(x, Q) = Only(y, R)
        BY <2>1, <3>1
      <3>3. \A i \in 1..Len(u) : Only(u[i], Q) = Only(h[i], R)
        BY <2>1, <3>1
      <3>4. Only(FlattenSeq(u), Q) = Only(FlattenSeq(h), R)
        BY <3>1, <3>3 DEF G
      <3>6. Only(FlattenSeq(Append(u, x)), Q) = Only(FlattenSeq(u), Q) \o Only(x, Q)
        BY <2>0, FlattenKeeps
      <3>7. Only(FlattenSeq(v), R) = Only(FlattenSeq(h), R) \o Only(y, R)
        <4>1. Only(FlattenSeq(Append(h, y)), R) = Only(FlattenSeq(h), R) \o Only(y, R)
          BY FlattenKeeps
        <4> QED
          BY <3>1, <4>1
      <3> QED
        BY <3>2, <3>4, <3>6, <3>7
    <2>2. Append(u, x) \in Seq(Seq(T))
      BY HasAppend
    <2> QED
      BY <2>1, <2>2
  <1> HIDE DEF G
  <1>3. f \in G
    BY <1>1, <1>2, EverySequence
  <1> QED
    BY <1>3 DEF G, Alike

\* What is joined out of sequences of a kind is of that kind, if joining two is.
LEMMA FlattenWhole ==
    ASSUME NEW T, NEW G, <<>> \in G,
           \A a \in Seq(T) \cap G, b \in Seq(T) \cap G : a \o b \in G,
           NEW f \in Seq(Seq(T)), \A i \in 1..Len(f) : f[i] \in G
    PROVE  FlattenSeq(f) \in G
PROOF
  <1> DEFINE H == {u \in Seq(Seq(T)) : (\A i \in 1..Len(u) : u[i] \in G) => FlattenSeq(u) \in G}
  <1>1. <<>> \in H
    <2>1. <<>> \in Seq(T) /\ <<>> \in Seq(Seq(T))
      OBVIOUS
    <2>2. FlattenSeq(<<>>) = <<>>
      BY <2>1, FlattenAppend
    <2> QED
      BY <2>1, <2>2
  <1>2. ASSUME NEW u \in Seq(Seq(T)) \cap H, NEW x \in Seq(T) PROVE Append(u, x) \in H
    <2>0. u \in Seq(Seq(T))
      OBVIOUS
    <2>1. ASSUME \A i \in 1..Len(Append(u, x)) : Append(u, x)[i] \in G
          PROVE  FlattenSeq(Append(u, x)) \in G
      <3> HIDE DEF H
      <3>1. /\ Len(Append(u, x)) = Len(u) + 1 /\ Len(u) \in Nat /\ Append(u, x)[Len(u) + 1] = x
            /\ \A i \in 1..Len(u) : Append(u, x)[i] = u[i]
        BY <2>0, HasAppend
      <3>2. Len(u) + 1 \in 1..(Len(u) + 1) /\ \A i \in 1..Len(u) : i \in 1..(Len(u) + 1)
        BY <3>1
      <3>3. x \in G /\ \A i \in 1..Len(u) : u[i] \in G
        BY <2>1, <3>1, <3>2
      <3>4. FlattenSeq(u) \in G
        BY <3>3 DEF H
      <3>5. FlattenSeq(Append(u, x)) = FlattenSeq(u) \o x /\ FlattenSeq(u) \in Seq(T)
        BY <2>0, FlattenAppend
      <3> QED
        BY <3>3, <3>4, <3>5
    <2>2. Append(u, x) \in Seq(Seq(T))
      BY HasAppend
    <2> QED
      BY <2>1, <2>2
  <1> HIDE DEF H
  <1>3. f \in H
    BY <1>1, <1>2, EverySequence
  <1> QED
    BY <1>3 DEF H

\* What is joined out of sequences has what one of them has.
LEMMA FlattenHas ==
    ASSUME NEW T, NEW f \in Seq(Seq(T)), NEW S
    PROVE  Has(FlattenSeq(f), S) <=> \E i \in 1..Len(f) : Has(f[i], S)
PROOF
  <1> DEFINE H == {u \in Seq(Seq(T)) :
                    Has(FlattenSeq(u), S) <=> \E i \in 1..Len(u) : Has(u[i], S)}
  <1>1. <<>> \in H
    <2>1. <<>> \in Seq(T) /\ <<>> \in Seq(Seq(T)) /\ ~Has(<<>>, S)
      BY DEF Has
    <2>2. FlattenSeq(<<>>) = <<>>
      BY <2>1, FlattenAppend
    <2> QED
      BY <2>1, <2>2
  <1>2. ASSUME NEW u \in Seq(Seq(T)) \cap H, NEW x \in Seq(T) PROVE Append(u, x) \in H
    <2>0. u \in Seq(Seq(T))
      OBVIOUS
    <2> DEFINE e == Append(u, x)
               n == Len(u)
    <2>1. /\ Len(e) = n + 1 /\ n \in Nat /\ e[n + 1] = x
          /\ \A i \in 1..n : e[i] = u[i]
          /\ e \in Seq(Seq(T))
      BY HasAppend
    <2>2. Has(FlattenSeq(u), S) <=> \E i \in 1..n : Has(u[i], S)
      OBVIOUS
    <2>3. FlattenSeq(e) = FlattenSeq(u) \o x /\ FlattenSeq(u) \in Seq(T)
      BY <2>0, FlattenAppend
    <2> HIDE DEF e, n, H
    <2>4. Has(FlattenSeq(u) \o x, S) <=> Has(FlattenSeq(u), S) \/ Has(x, S)
      BY <2>3, HasJoined
    <2>5. (\E i \in 1..Len(e) : Has(e[i], S)) <=> (\E i \in 1..n : Has(u[i], S)) \/ Has(x, S)
      <3>1. 1..Len(e) = (1..n) \cup {n + 1}
        BY <2>1
      <3> QED
        BY <2>1, <3>1
    <2> QED
      BY <2>1, <2>2, <2>3, <2>4, <2>5 DEF H, e
  <1> HIDE DEF H
  <1>3. f \in H
    BY <1>1, <1>2, EverySequence
  <1> QED
    BY <1>3 DEF H

\* What is joined pair by pair is related pair by pair.
LEMMA JoinedPairwise ==
    ASSUME NEW T, NEW R, NEW a \in Seq(T), NEW b \in Seq(T), Pairwise(a, b, R),
           NEW x \in Seq(T), NEW y \in Seq(T), Pairwise(x, y, R)
    PROVE  Pairwise(a \o x, b \o y, R)
PROOF
  <1> DEFINE d == a \o x
             e == b \o y
  <1>1. /\ Len(d) = Len(a) + Len(x) /\ Len(a) \in Nat /\ Len(x) \in Nat
        /\ \A i \in 1..Len(a) : d[i] = a[i]
        /\ \A i \in 1..Len(x) : d[Len(a) + i] = x[i]
    BY JoinedAt
  <1>2. /\ Len(e) = Len(b) + Len(y)
        /\ \A i \in 1..Len(b) : e[i] = b[i]
        /\ \A i \in 1..Len(y) : e[Len(b) + i] = y[i]
    BY JoinedAt
  <1> HIDE DEF d, e
  <1>3. /\ Len(a) = Len(b) /\ Len(x) = Len(y)
        /\ \A i \in 1..Len(a) : <<a[i], b[i]>> \in R
        /\ \A i \in 1..Len(x) : <<x[i], y[i]>> \in R
    BY DEF Pairwise
  <1>4. ASSUME NEW i \in 1..Len(d) PROVE <<d[i], e[i]>> \in R
    <2>1. CASE i <= Len(a)
      <3>1. i \in 1..Len(a) /\ i \in 1..Len(b)
        BY <1>1, <1>3, <2>1
      <3> QED
        BY <1>1, <1>2, <1>3, <3>1
    <2>2. CASE ~(i <= Len(a))
      <3> DEFINE j == i - Len(a)
      <3>1. j \in 1..Len(x) /\ j \in 1..Len(y) /\ i = Len(a) + j /\ i = Len(b) + j
        BY <1>1, <1>3, <2>2
      <3> HIDE DEF j
      <3>2. d[i] = x[j] /\ e[i] = y[j] /\ <<x[j], y[j]>> \in R
        BY <1>1, <1>2, <1>3, <3>1
      <3> QED
        BY <3>2
    <2> QED
      BY <2>1, <2>2
  <1>5. Len(d) = Len(e)
    BY <1>1, <1>2, <1>3
  <1>6. Pairwise(d, e, R)
    BY <1>4, <1>5 DEF Pairwise
  <1> QED
    BY <1>6 DEF d, e

\* What is joined alike is alike, if it parts at the same place.
LEMMA JoinedTells ==
    ASSUME NEW T, NEW a \in Seq(T), NEW b \in Seq(T),
           NEW x \in Seq(T), NEW y \in Seq(T)
    PROVE  Len(a) = Len(b) /\ a \o x = b \o y => a = b /\ x = y
PROOF
  <1> DEFINE d == a \o x
             e == b \o y
  <1>1. /\ Len(d) = Len(a) + Len(x) /\ Len(a) \in Nat /\ Len(x) \in Nat
        /\ \A i \in 1..Len(a) : d[i] = a[i]
        /\ \A i \in 1..Len(x) : d[Len(a) + i] = x[i]
    BY JoinedAt
  <1>2. /\ Len(e) = Len(b) + Len(y) /\ Len(y) \in Nat
        /\ \A i \in 1..Len(b) : e[i] = b[i]
        /\ \A i \in 1..Len(y) : e[Len(b) + i] = y[i]
    BY JoinedAt
  <1> HIDE DEF d, e
  <1>3. ASSUME Len(a) = Len(b), d = e PROVE a = b /\ x = y
    <2>1. Len(x) = Len(y)
      BY <1>1, <1>2, <1>3
    <2>2. \A i \in 1..Len(a) : a[i] = b[i]
      BY <1>1, <1>2, <1>3
    <2>3. \A i \in 1..Len(x) : x[i] = y[i]
      BY <1>1, <1>2, <1>3, <2>1
    <2>4. a = [i \in 1..Len(a) |-> a[i]] /\ b = [i \in 1..Len(b) |-> b[i]]
          /\ x = [i \in 1..Len(x) |-> x[i]] /\ y = [i \in 1..Len(y) |-> y[i]]
      BY LenProperties
    <2>5. a = b
      BY <1>3, <2>2, <2>4
    <2> QED
      BY <2>1, <2>3, <2>4, <2>5
  <1> QED
    BY <1>3 DEF d, e

Paired(f, g, R) == Len(f) = Len(g) /\ \A i \in 1..Len(f) : Pairwise(f[i], g[i], R)

\* Sequence by sequence, pair by pair: so is what is joined of them, which
\* tells what the parts are.
LEMMA FlattenPairs ==
    ASSUME NEW T, NEW R, NEW f \in Seq(Seq(T)), NEW g \in Seq(Seq(T)), Paired(f, g, R)
    PROVE  /\ Pairwise(FlattenSeq(f), FlattenSeq(g), R)
           /\ FlattenSeq(f) = FlattenSeq(g) => \A i \in 1..Len(f) : f[i] = g[i]
PROOF
  <1> DEFINE G == {u \in Seq(Seq(T)) : \A v \in Seq(Seq(T)) : Paired(u, v, R)
                    => /\ Pairwise(FlattenSeq(u), FlattenSeq(v), R)
                       /\ FlattenSeq(u) = FlattenSeq(v) => \A i \in 1..Len(u) : u[i] = v[i]}
  <1>1. <<>> \in G
    <2>1. ASSUME NEW v \in Seq(Seq(T)), Paired(<<>>, v, R)
          PROVE  /\ Pairwise(FlattenSeq(<<>>), FlattenSeq(v), R)
                 /\ FlattenSeq(<<>>) = FlattenSeq(v) => \A i \in 1..Len(<<>>) : <<>>[i] = v[i]
      <3>1. v = <<>>
        BY <2>1 DEF Paired
      <3>2. <<>> \in Seq(T)
        OBVIOUS
      <3>3. FlattenSeq(<<>>) = <<>>
        BY <3>2, FlattenAppend
      <3> QED
        BY <3>1, <3>3 DEF Pairwise
    <2>2. <<>> \in Seq(Seq(T))
      OBVIOUS
    <2> QED
      BY <2>1, <2>2
  <1>2. ASSUME NEW u \in Seq(Seq(T)) \cap G, NEW x \in Seq(T) PROVE Append(u, x) \in G
    <2>0. u \in Seq(Seq(T))
      OBVIOUS
    <2> DEFINE w == Append(u, x)
    <2>1. ASSUME NEW v \in Seq(Seq(T)), Paired(w, v, R)
          PROVE  /\ Pairwise(FlattenSeq(w), FlattenSeq(v), R)
                 /\ FlattenSeq(w) = FlattenSeq(v) => \A i \in 1..Len(w) : w[i] = v[i]
      <3> HIDE DEF G
      <3>0. Len(w) = Len(v) /\ \A i \in 1..Len(v) : Pairwise(w[i], v[i], R)
        BY <2>1 DEF Paired
      <3>1. PICK h \in Seq(Seq(T)), y \in Seq(T) :
              /\ v = Append(h, y) /\ Len(h) = Len(u) /\ Len(u) \in Nat
              /\ w[Len(u) + 1] = x /\ v[Len(u) + 1] = y
              /\ \A i \in 1..Len(u) : w[i] = u[i] /\ v[i] = h[i]
              /\ \A i \in 1..Len(u) : i \in 1..Len(v)
              /\ Len(u) + 1 \in 1..Len(v)
        BY <2>0, <3>0, BothListed
      <3>2. Pairwise(x, y, R) /\ \A i \in 1..Len(u) : Pairwise(u[i], h[i], R)
        BY <3>0, <3>1
      <3>3. Paired(u, h, R)
        BY <3>1, <3>2 DEF Paired
      <3>4. /\ Pairwise(FlattenSeq(u), FlattenSeq(h), R)
            /\ FlattenSeq(u) = FlattenSeq(h) => \A i \in 1..Len(u) : u[i] = h[i]
        BY <3>3 DEF G
      <3>5. FlattenSeq(w) = FlattenSeq(u) \o x /\ FlattenSeq(u) \in Seq(T)
        BY <2>0, FlattenAppend
      <3>6. FlattenSeq(v) = FlattenSeq(h) \o y /\ FlattenSeq(h) \in Seq(T)
        BY <3>1, FlattenAppend
      <3>7. Pairwise(FlattenSeq(w), FlattenSeq(v), R)
        BY <3>2, <3>4, <3>5, <3>6, JoinedPairwise
      <3>8. ASSUME FlattenSeq(w) = FlattenSeq(v), NEW i \in 1..Len(w) PROVE w[i] = v[i]
        <4>1. Len(FlattenSeq(u)) = Len(FlattenSeq(h))
          BY <3>4 DEF Pairwise
        <4>2. FlattenSeq(u) \o x = FlattenSeq(h) \o y
          BY <3>5, <3>6, <3>8
        <4>3. FlattenSeq(u) = FlattenSeq(h) /\ x = y
          <5> DEFINE a == FlattenSeq(u)
                     b == FlattenSeq(h)
          <5>1. a \in Seq(T) /\ b \in Seq(T) /\ Len(a) = Len(b) /\ a \o x = b \o y
                /\ x \in Seq(T) /\ y \in Seq(T)
            BY <3>5, <3>6, <4>1, <4>2
          <5> HIDE DEF a, b
          <5>2. a = b /\ x = y
            BY <5>1, JoinedTells
          <5> QED
            BY <5>2 DEF a, b
        <4>4. i \in 1..Len(u) \/ i = Len(u) + 1
          <5>1. Len(w) = Len(u) + 1 /\ Len(u) \in Nat
            BY <2>0, HasAppend
          <5> HIDE DEF w
          <5> QED
            BY <5>1, <3>8
        <4> QED
          BY <3>1, <3>4, <4>3, <4>4
      <3> QED
        BY <3>7, <3>8
    <2>2. w \in Seq(Seq(T))
      BY HasAppend
    <2> QED
      BY <2>1, <2>2
  <1> HIDE DEF G
  <1>3. f \in G
    BY <1>1, <1>2, EverySequence
  <1> QED
    BY <1>3 DEF G

-----------------------------------------------------------------------------
(* What a margin is made of, and what trimming and emphasis do to a line.  *)

Blanks == {"space", "newline"}

\* The first and the last of some positions.
LEMMA EndsAre ==
    ASSUME NEW n \in Nat, NEW S \in SUBSET (1..n), S # {}
    PROVE  /\ Min(S) \in S /\ \A y \in S : Min(S) <= y
           /\ Max(S) \in S /\ \A y \in S : y <= Max(S)
PROOF
  <1>1. PICK x \in S : \A y \in S : x <= y
    <2>1. S \in SUBSET Nat
      OBVIOUS
    <2>2. PICK z \in S : TRUE
      OBVIOUS
    <2> QED
      BY <2>1, <2>2, Least
  <1>2. Min(S) \in S /\ \A y \in S : Min(S) <= y
    BY <1>1 DEF Min
  <1> DEFINE below == {n - y : y \in S}
  <1>3. below \in SUBSET Nat /\ \E b : b \in below
    <2>1. \A y \in S : n - y \in Nat
      OBVIOUS
    <2> QED
      BY <2>1
  <1>4. PICK m \in below : \A k \in below : m <= k
    <2> HIDE DEF below
    <2> QED
      BY <1>3, Least
  <1>5. PICK w \in S : m = n - w
    OBVIOUS
  <1>6. ASSUME NEW y \in S PROVE w >= y
    <2>1. n - y \in below
      OBVIOUS
    <2>2. m <= n - y /\ w \in Nat /\ y \in Nat
      BY <1>4, <2>1
    <2> QED
      BY <1>5, <2>2
  <1>7. \E z \in S : \A y \in S : z >= y
    BY <1>6
  <1>8. Max(S) \in S /\ \A y \in S : Max(S) >= y
    BY <1>7 DEF Max
  <1>9. \A y \in S : y <= Max(S)
    BY <1>8
  <1> QED
    BY <1>2, <1>8, <1>9

\* Blanks, a middle that neither begins nor ends with one, and blanks.
Framed(d, a, m, z) ==
    /\ a \in Seq(Blanks) /\ z \in Seq(Blanks)
    /\ d = (a \o m) \o z
    /\ m = <<>> => z = <<>>
    /\ m # <<>> => m[1] \notin Blanks /\ m[Len(m)] \notin Blanks

Inked(d) == {i \in DOMAIN d : d[i] \notin Blanks}

\* Every text is framed so.
LEMMA FramedSomehow ==
    ASSUME NEW T, NEW d \in Seq(T)
    PROVE  \E a \in Seq(T), m \in Seq(T), z \in Seq(T) : Framed(d, a, m, z)
PROOF
  <1> DEFINE n == Len(d)
             ink == Inked(d)
  <1>1. n \in Nat /\ DOMAIN d = 1..n /\ \A i \in 1..n : d[i] \in T
    BY LenProperties, ElementOfSeq
  <1>2. CASE ink = {}
    <2>1. \A i \in 1..n : d[i] \in Blanks
      BY <1>1, <1>2 DEF Inked
    <2>2. d \in Seq(Blanks)
      <3>1. d = [i \in 1..n |-> d[i]]
        BY LenProperties
      <3>2. d \in [1..n -> Blanks]
        BY <2>1, <3>1
      <3> HIDE DEF n
      <3> QED
        BY <1>1, <3>1, <3>2, <2>1, IsASeq
    <2>3. <<>> \in Seq(T) /\ <<>> \in Seq(Blanks) /\ (d \o <<>>) \o <<>> = d
      BY ConcatEmptySeq
    <2>4. Framed(d, d, <<>>, <<>>)
      BY <2>2, <2>3 DEF Framed
    <2> QED
      BY <2>3, <2>4
  <1>3. CASE ink # {}
    <2> DEFINE lo == Min(ink)
               hi == Max(ink)
    <2>1. /\ lo \in ink /\ \A y \in ink : lo <= y
          /\ hi \in ink /\ \A y \in ink : y <= hi
      <3>1. ink \in SUBSET (1..n)
        BY <1>1 DEF Inked
      <3> HIDE DEF ink, n
      <3> QED
        BY <1>1, <1>3, <3>1, EndsAre
    <2>2. lo \in 1..n /\ hi \in 1..n /\ lo <= hi /\ d[lo] \notin Blanks /\ d[hi] \notin Blanks
      BY <1>1, <2>1 DEF Inked
    <2>3. \A i \in 1..n : i < lo \/ i > hi => d[i] \in Blanks
      <3>1. ASSUME NEW i \in 1..n, i < lo \/ i > hi, d[i] \notin Blanks PROVE FALSE
        <4>1. i \in ink
          BY <1>1, <3>1 DEF Inked
        <4>2. lo <= i /\ i <= hi
          BY <2>1, <4>1
        <4> HIDE DEF lo, hi
        <4> QED
          BY <2>2, <3>1, <4>2
      <3> QED
        BY <3>1
    <2> DEFINE a == SubSeq(d, 1, lo - 1)
               m == SubSeq(d, lo, hi)
               z == SubSeq(d, hi + 1, n)
    <2> HIDE DEF ink, n, lo, hi
    <2>4. a \in Seq(T) /\ a \in Seq(Blanks)
      <3>1. 1 \in Int /\ lo - 1 \in Int /\ \A i \in 1..(lo - 1) : d[i] \in T /\ d[i] \in Blanks
        BY <1>1, <2>2, <2>3
      <3> QED
        BY <3>1, SubSeqProperties
    <2>5. z \in Seq(T) /\ z \in Seq(Blanks)
      <3>1. hi + 1 \in Int /\ n \in Int /\ \A i \in (hi + 1)..n : d[i] \in T /\ d[i] \in Blanks
        BY <1>1, <2>2, <2>3
      <3> QED
        BY <3>1, SubSeqProperties
    <2>6. m \in Seq(T) /\ Len(m) = hi - lo + 1 /\ \A i \in 1..(hi - lo + 1) : m[i] = d[lo + i - 1]
      <3>1. lo \in Int /\ hi \in Int /\ \A i \in lo..hi : d[i] \in T
        BY <1>1, <2>2
      <3> QED
        BY <2>2, <3>1, SubSeqProperties
    <2>7. m # <<>> /\ m[1] = d[lo] /\ m[Len(m)] = d[hi]
      <3>1. 1 \in 1..(hi - lo + 1) /\ hi - lo + 1 \in 1..(hi - lo + 1)
            /\ lo + 1 - 1 = lo /\ lo + (hi - lo + 1) - 1 = hi
        BY <1>1, <2>2
      <3> HIDE DEF m
      <3>2. m[1] = d[lo + 1 - 1] /\ m[hi - lo + 1] = d[lo + (hi - lo + 1) - 1]
        BY <2>6, <3>1
      <3>3. Len(m) # 0
        BY <2>6, <3>1
      <3> QED
        BY <2>6, <3>1, <3>2, <3>3
    <2>8. a \o m = SubSeq(d, 1, hi)
      <3>1. 1 \in 1..(Len(d) + 1) /\ lo - 1 \in (1 - 1)..Len(d) /\ hi \in (lo - 1)..Len(d)
            /\ (lo - 1) + 1 = lo
        BY <1>1, <2>2 DEF n
      <3>2. SubSeq(d, 1, lo - 1) \o SubSeq(d, (lo - 1) + 1, hi) = SubSeq(d, 1, hi)
        BY <3>1, ConcatAdjacentSubSeq
      <3> QED
        BY <3>1, <3>2
    <2>9. SubSeq(d, 1, hi) \o z = d
      <3>1. 1 \in 1..(Len(d) + 1) /\ hi \in (1 - 1)..Len(d) /\ Len(d) \in hi..Len(d)
        BY <1>1, <2>2 DEF n
      <3>2. SubSeq(d, 1, hi) \o SubSeq(d, hi + 1, Len(d)) = SubSeq(d, 1, Len(d))
        BY <3>1, ConcatAdjacentSubSeq
      <3>3. SubSeq(d, 1, Len(d)) = d
        BY SubSeqFull
      <3> QED
        BY <3>2, <3>3 DEF n
    <2> HIDE DEF a, m, z
    <2>10. Framed(d, a, m, z)
      BY <2>2, <2>4, <2>5, <2>7, <2>8, <2>9 DEF Framed
    <2> QED
      BY <2>4, <2>5, <2>6, <2>10
  <1> QED
    BY <1>2, <1>3

\* The middle is what trimming leaves, and what emphasis goes around.
LEMMA FramedIs ==
    ASSUME NEW T, NEW d \in Seq(T), NEW a \in Seq(T), NEW m \in Seq(T), NEW z \in Seq(T),
           Framed(d, a, m, z)
    PROVE  /\ Trimmed(d) = m
           /\ \A r : r.chars = d => Emphasised(r) =
                IF m = <<>> \/ ~r.bold THEN d
                ELSE (((a \o <<"star">>) \o m) \o <<"star">>) \o z
PROOF
  <1> DEFINE am == a \o m
             ink == Inked(d)
             lo == Min(ink)
             hi == Max(ink)
  <1>1. /\ am \in Seq(T) /\ Len(am) = Len(a) + Len(m) /\ Len(a) \in Nat /\ Len(m) \in Nat
        /\ \A i \in 1..Len(a) : am[i] = a[i]
        /\ \A i \in 1..Len(m) : am[Len(a) + i] = m[i]
    BY JoinedAt
  <1> HIDE DEF am
  <1>2. /\ DOMAIN d = 1..(Len(am) + Len(z)) /\ Len(z) \in Nat
        /\ \A i \in 1..Len(am) : d[i] = am[i]
        /\ \A i \in 1..Len(z) : d[Len(am) + i] = z[i]
        /\ Len(d) = Len(am) + Len(z)
    <2> DEFINE e == am \o z
    <2>1. /\ DOMAIN e = 1..(Len(am) + Len(z)) /\ Len(z) \in Nat
          /\ \A i \in 1..Len(am) : e[i] = am[i]
          /\ \A i \in 1..Len(z) : e[Len(am) + i] = z[i]
          /\ Len(e) = Len(am) + Len(z)
      <3>1. am \in Seq(T) /\ z \in Seq(T)
        BY <1>1
      <3> HIDE DEF Framed
      <3> QED
        BY <3>1, JoinedAt
    <2>2. e = d
      BY DEF am, Framed
    <2> HIDE DEF e
    <2> QED
      BY <2>1, <2>2
  <1>3. /\ \A i \in 1..Len(a) : a[i] \in Blanks
        /\ \A i \in 1..Len(z) : z[i] \in Blanks
    BY ElementOfSeq DEF Framed
  <1>4. \A i \in 1..Len(a) : d[i] \in Blanks
    <2>1. ASSUME NEW i \in 1..Len(a) PROVE d[i] = a[i]
      <3>1. i \in 1..Len(am)
        BY <1>1
      <3> QED
        BY <1>1, <1>2, <3>1
    <2> QED
      BY <1>3, <2>1
  <1>5. \A i \in (Len(am) + 1)..Len(d) : d[i] \in Blanks
    <2>1. ASSUME NEW i \in (Len(am) + 1)..Len(d) PROVE d[i] \in Blanks
      <3> DEFINE j == i - Len(am)
      <3>1. j \in 1..Len(z) /\ i = Len(am) + j
        BY <1>1, <1>2
      <3> HIDE DEF j
      <3> QED
        BY <1>2, <1>3, <3>1
    <2> QED
      BY <2>1
  <1>6. \A i \in 1..Len(m) : d[Len(a) + i] = m[i]
    <2>1. ASSUME NEW i \in 1..Len(m) PROVE d[Len(a) + i] = m[i]
      <3>1. Len(a) + i \in 1..Len(am)
        BY <1>1
      <3> QED
        BY <1>1, <1>2, <3>1
    <2> QED
      BY <2>1
  <1>7. Trimmed(d) = IF ink = {} THEN <<>> ELSE SubSeq(d, lo, hi)
    BY DEF Trimmed, Inked, Blanks
  <1>8. \A r : r.chars = d => Emphasised(r) =
            IF ink = {} \/ ~r.bold THEN d
            ELSE (((SubSeq(d, 1, lo - 1) \o <<"star">>) \o Trimmed(d)) \o <<"star">>)
                 \o SubSeq(d, hi + 1, Len(d))
    BY DEF Emphasised, Inked, Blanks
  <1>9. CASE m = <<>>
    <2>1. z = <<>> /\ Len(z) = 0 /\ Len(m) = 0
      BY <1>9 DEF Framed
    <2>2. \A i \in DOMAIN d : d[i] \in Blanks
      BY <1>1, <1>2, <1>4, <2>1
    <2>3. ink = {}
      BY <2>2 DEF Inked
    <2> HIDE DEF ink
    <2> QED
      BY <1>7, <1>8, <1>9, <2>3
  <1>10. CASE m # <<>>
    <2>1. Len(m) # 0
      BY <1>10, EmptySeq
    <2>2. /\ Len(a) + 1 \in DOMAIN d /\ Len(am) \in DOMAIN d
          /\ d[Len(a) + 1] = m[1] /\ d[Len(am)] = m[Len(m)]
      <3>1. 1 \in 1..Len(m) /\ Len(m) \in 1..Len(m) /\ Len(a) + Len(m) = Len(am)
        BY <1>1, <2>1
      <3>2. d[Len(a) + 1] = m[1] /\ d[Len(a) + Len(m)] = m[Len(m)]
        BY <1>6, <3>1
      <3>3. Len(a) + 1 \in 1..(Len(am) + Len(z)) /\ Len(am) \in 1..(Len(am) + Len(z))
        BY <1>1, <1>2, <3>1
      <3> QED
        BY <1>2, <3>1, <3>2, <3>3
    <2>3. Len(a) + 1 \in ink /\ Len(am) \in ink
      BY <1>10, <2>2 DEF Inked, Framed
    <2>4. \A i \in ink : Len(a) + 1 <= i /\ i <= Len(am)
      <3>1. ASSUME NEW i \in ink PROVE Len(a) + 1 <= i /\ i <= Len(am)
        <4>1. i \in DOMAIN d /\ d[i] \notin Blanks
          BY DEF Inked
        <4>2. i \in 1..Len(d) /\ i \notin 1..Len(a) /\ i \notin (Len(am) + 1)..Len(d)
          BY <1>2, <1>4, <1>5, <4>1
        <4> HIDE DEF ink
        <4> QED
          BY <1>1, <1>2, <4>2
      <3> QED
        BY <3>1
    <2>5. ink \in SUBSET (1..Len(d)) /\ Len(d) \in Nat
      BY <1>1, <1>2 DEF Inked
    <2> HIDE DEF ink
    <2>6. /\ lo \in ink /\ \A y \in ink : lo <= y
          /\ hi \in ink /\ \A y \in ink : y <= hi
      BY <2>3, <2>5, EndsAre
    <2>7. lo = Len(a) + 1 /\ hi = Len(am)
      <3> HIDE DEF lo, hi
      <3>1. lo \in Int /\ hi \in Int
        BY <2>5, <2>6
      <3>2. lo <= Len(a) + 1 /\ Len(a) + 1 <= lo
        BY <2>3, <2>4, <2>6
      <3>3. hi <= Len(am) /\ Len(am) <= hi
        BY <2>3, <2>4, <2>6
      <3>4. Len(a) + 1 \in Int /\ Len(am) \in Int
        BY <1>1
      <3> QED
        BY <3>1, <3>2, <3>3, <3>4
    <2> HIDE DEF lo, hi
    <2>8. SubSeq(d, 1, Len(a)) = a
      <3>1. \A i \in 1..Len(a) : d[i] \in T
        <4>1. \A i \in 1..Len(a) : i \in 1..Len(d)
          BY <1>1, <1>2
        <4> QED
          BY <4>1, ElementOfSeq
      <3>2. /\ SubSeq(d, 1, Len(a)) \in Seq(T)
            /\ Len(SubSeq(d, 1, Len(a))) = IF 1 <= Len(a) THEN Len(a) - 1 + 1 ELSE 0
            /\ \A i \in 1..(Len(a) - 1 + 1) : SubSeq(d, 1, Len(a))[i] = d[1 + i - 1]
        BY <1>1, <3>1, SubSeqProperties
      <3> DEFINE s == SubSeq(d, 1, Len(a))
      <3>3. s \in Seq(T) /\ Len(s) = Len(a) /\ \A i \in 1..Len(a) : s[i] = d[i]
        BY <1>1, <3>2
      <3>4. \A i \in 1..Len(a) : d[i] = a[i]
        BY <1>1, <1>2
      <3> HIDE DEF s
      <3>5. \A i \in 1..Len(s) : s[i] = a[i]
        BY <3>3, <3>4
      <3>6. s = a
        BY <3>3, <3>5, SeqEqual
      <3> QED
        BY <3>6 DEF s
    <2>9. SubSeq(d, Len(a) + 1, Len(am)) = m
      <3> DEFINE s == SubSeq(d, Len(a) + 1, Len(am))
      <3>1. \A i \in (Len(a) + 1)..Len(am) : d[i] \in T
        <4>1. \A i \in (Len(a) + 1)..Len(am) : i \in 1..Len(d)
          BY <1>1, <1>2
        <4> QED
          BY <4>1, ElementOfSeq
      <3>2. /\ s \in Seq(T)
            /\ Len(s) = IF Len(a) + 1 <= Len(am) THEN Len(am) - (Len(a) + 1) + 1 ELSE 0
            /\ \A i \in 1..(Len(am) - (Len(a) + 1) + 1) : s[i] = d[(Len(a) + 1) + i - 1]
        BY <1>1, <3>1, SubSeqProperties
      <3> HIDE DEF s
      <3>3. Len(s) = Len(m) /\ Len(am) - (Len(a) + 1) + 1 = Len(m)
            /\ \A i \in 1..Len(m) : (Len(a) + 1) + i - 1 = Len(a) + i
        BY <1>1, <2>1, <3>2
      <3>4. \A i \in 1..Len(s) : s[i] = m[i]
        BY <1>6, <3>2, <3>3
      <3>5. s = m
        BY <3>2, <3>3, <3>4, SeqEqual
      <3> QED
        BY <3>5 DEF s
    <2>10. SubSeq(d, Len(am) + 1, Len(d)) = z
      <3> DEFINE s == SubSeq(d, Len(am) + 1, Len(d))
      <3>1. \A i \in (Len(am) + 1)..Len(d) : d[i] \in T
        <4>1. \A i \in (Len(am) + 1)..Len(d) : i \in 1..Len(d)
          BY <1>1, <1>2
        <4> QED
          BY <4>1, ElementOfSeq
      <3>2. /\ s \in Seq(T)
            /\ Len(s) = IF Len(am) + 1 <= Len(d) THEN Len(d) - (Len(am) + 1) + 1 ELSE 0
            /\ \A i \in 1..(Len(d) - (Len(am) + 1) + 1) : s[i] = d[(Len(am) + 1) + i - 1]
        BY <1>1, <1>2, <3>1, SubSeqProperties
      <3> HIDE DEF s
      <3>3. Len(s) = Len(z) /\ Len(d) - (Len(am) + 1) + 1 = Len(z)
            /\ \A i \in 1..Len(z) : (Len(am) + 1) + i - 1 = Len(am) + i
        BY <1>1, <1>2, <3>2
      <3>4. \A i \in 1..Len(s) : s[i] = z[i]
        BY <1>2, <3>2, <3>3
      <3>5. s = z
        BY <3>2, <3>3, <3>4, SeqEqual
      <3> QED
        BY <3>5 DEF s
    <2>11. lo - 1 = Len(a)
      BY <1>1, <2>7
    <2>12. Trimmed(d) = m
      BY <1>7, <2>3, <2>7, <2>9
    <2> QED
      BY <1>8, <1>10, <2>3, <2>7, <2>8, <2>10, <2>11, <2>12
  <1> QED
    BY <1>9, <1>10

Segments == [bold : BOOLEAN, chars : Seq(Symbols)]

\* Where the parts of a framed text are.
LEMMA FramedAt ==
    ASSUME NEW T, NEW d \in Seq(T), NEW a \in Seq(T), NEW m \in Seq(T), NEW z \in Seq(T),
           Framed(d, a, m, z)
    PROVE  /\ Len(a) \in Nat /\ Len(m) \in Nat /\ Len(z) \in Nat
           /\ Len(d) = Len(a) + Len(m) + Len(z)
           /\ \A i \in 1..Len(d) : i <= Len(a) \/ i > Len(a) + Len(m) => d[i] \in Blanks
           /\ \A i \in 1..Len(m) : d[Len(a) + i] = m[i]
PROOF
  <1> DEFINE am == a \o m
             e == am \o z
  <1>1. /\ am \in Seq(T) /\ Len(am) = Len(a) + Len(m) /\ Len(a) \in Nat /\ Len(m) \in Nat
        /\ \A i \in 1..Len(a) : am[i] = a[i]
        /\ \A i \in 1..Len(m) : am[Len(a) + i] = m[i]
    BY JoinedAt
  <1>2. e = d
    BY DEF Framed
  <1> HIDE DEF am, Framed
  <1>3. /\ Len(e) = Len(am) + Len(z) /\ Len(z) \in Nat
        /\ \A i \in 1..Len(am) : e[i] = am[i]
        /\ \A i \in 1..Len(z) : e[Len(am) + i] = z[i]
    <2>1. am \in Seq(T) /\ z \in Seq(T)
      BY <1>1
    <2> QED
      BY <2>1, JoinedAt
  <1> HIDE DEF e
  <1>4. /\ \A i \in 1..Len(a) : a[i] \in Blanks
        /\ \A i \in 1..Len(z) : z[i] \in Blanks
    BY ElementOfSeq DEF Framed
  <1>5. ASSUME NEW i \in 1..Len(d), i <= Len(a) PROVE d[i] \in Blanks
    <2>1. i \in 1..Len(a) /\ i \in 1..Len(am)
      BY <1>1, <1>5
    <2>2. d[i] = a[i]
      BY <1>1, <1>2, <1>3, <2>1
    <2> QED
      BY <1>4, <2>1, <2>2
  <1>6. ASSUME NEW i \in 1..Len(d), i > Len(a) + Len(m) PROVE d[i] \in Blanks
    <2> DEFINE j == i - Len(am)
    <2>1. j \in 1..Len(z) /\ i = Len(am) + j
      BY <1>1, <1>2, <1>3, <1>6
    <2> HIDE DEF j
    <2> QED
      BY <1>2, <1>3, <1>4, <2>1
  <1>7. ASSUME NEW i \in 1..Len(m) PROVE d[Len(a) + i] = m[i]
    <2>1. Len(a) + i \in 1..Len(am)
      BY <1>1
    <2> QED
      BY <1>1, <1>2, <1>3, <2>1
  <1> QED
    BY <1>1, <1>2, <1>3, <1>5, <1>6, <1>7

Three(a, m, z) == (a \o m) \o z

\* Three parts joined, and what is kept of them.
LEMMA ThreeOnly ==
    ASSUME NEW T, NEW a \in Seq(T), NEW m \in Seq(T), NEW z \in Seq(T), NEW S
    PROVE  /\ Three(a, m, z) \in Seq(T)
           /\ Only(Three(a, m, z), S) = Three(Only(a, S), Only(m, S), Only(z, S))
PROOF
  <1> DEFINE am == a \o m
  <1>1. am \in Seq(T)
    BY ConcatProperties
  <1>2. Only(am, S) = Only(a, S) \o Only(m, S)
    BY OnlyJoined
  <1> HIDE DEF am
  <1>3. am \in Seq(T) /\ z \in Seq(T)
    BY <1>1
  <1>4. am \o z \in Seq(T)
    BY <1>3, ConcatProperties
  <1>5. Only(am \o z, S) = Only(am, S) \o Only(z, S)
    BY <1>3, OnlyJoined, SMTT(60)
  <1> QED
    BY <1>2, <1>4, <1>5 DEF Three, am

\* Nothing in between.
LEMMA ThreeEmpty ==
    ASSUME NEW T, NEW a \in Seq(T), NEW m \in Seq(T), NEW z \in Seq(T)
    PROVE  /\ Three(Three(a, <<>>, m), <<>>, z) = Three(a, m, z)
           /\ Three(<<>>, m, <<>>) = m
PROOF
  <1>1. a \o <<>> = a /\ <<>> \o m = m /\ m \o <<>> = m
    BY ConcatEmptySeq
  <1> DEFINE am == a \o m
  <1>2. am \in Seq(T)
    BY ConcatProperties
  <1>3. am \o <<>> = am
    <2> HIDE DEF am
    <2> QED
      BY <1>2, ConcatEmptySeq
  <1> QED
    BY <1>1, <1>3 DEF Three

\* A framed text is its frame and what is in it, and the frame is blank.
LEMMA FramedThree ==
    ASSUME NEW d, NEW a, NEW m, NEW z, Framed(d, a, m, z)
    PROVE  d = Three(a, m, z) /\ a \in Seq(Blanks) /\ z \in Seq(Blanks)
PROOF
  BY DEF Framed, Three

\* Trimming takes away blanks.
LEMMA TrimmedOnly ==
    ASSUME NEW T, NEW d \in Seq(T)
    PROVE  /\ Trimmed(d) \in Seq(T)
           /\ \A S : S \cap Blanks = {} => Only(Trimmed(d), S) = Only(d, S)
PROOF
  <1>1. PICK a \in Seq(T), m \in Seq(T), z \in Seq(T) : Framed(d, a, m, z)
    BY FramedSomehow
  <1>2. Trimmed(d) = m
    BY <1>1, FramedIs
  <1>3. d = Three(a, m, z) /\ a \in Seq(Blanks) /\ z \in Seq(Blanks)
    BY <1>1, FramedThree
  <1>4. ASSUME NEW S, S \cap Blanks = {} PROVE Only(m, S) = Only(d, S)
    <2>1. Only(a, S) = <<>> /\ Only(z, S) = <<>>
      <3>1. Blanks \cap S = {}
        BY <1>4
      <3> QED
        BY <1>3, <3>1, OnlyAll
    <2>2. Only(d, S) = Three(<<>>, Only(m, S), <<>>)
      BY <1>3, <2>1, ThreeOnly
    <2>3. Only(m, S) \in Seq(T \cap S)
      BY OnlyType
    <2>4. Three(<<>>, Only(m, S), <<>>) = Only(m, S)
      BY <2>3, ThreeEmpty
    <2> QED
      BY <2>2, <2>4
  <1> QED
    BY <1>2, <1>4

\* Emphasis goes around the middle.
LEMMA EmphasisedIs ==
    ASSUME NEW r \in Segments
    PROVE  \E a \in Seq(Symbols), m \in Seq(Symbols), z \in Seq(Symbols) :
            /\ Framed(r.chars, a, m, z) /\ r.chars = Three(a, m, z)
            /\ Emphasised(r) = IF m = <<>> \/ ~r.bold THEN r.chars
                               ELSE Three(Three(a, <<"star">>, m), <<"star">>, z)
PROOF
  <1>1. r.chars \in Seq(Symbols)
    BY DEF Segments
  <1>2. PICK a \in Seq(Symbols), m \in Seq(Symbols), z \in Seq(Symbols) : Framed(r.chars, a, m, z)
    BY <1>1, FramedSomehow
  <1>3. Emphasised(r) = IF m = <<>> \/ ~r.bold THEN r.chars
                        ELSE (((a \o <<"star">>) \o m) \o <<"star">>) \o z
    BY <1>1, <1>2, FramedIs
  <1>4. Three(Three(a, <<"star">>, m), <<"star">>, z)
            = (((a \o <<"star">>) \o m) \o <<"star">>) \o z
    BY DEF Three
  <1>5. r.chars = Three(a, m, z)
    BY <1>2, FramedThree
  <1> QED
    BY <1>2, <1>3, <1>4, <1>5

\* It adds stars.
LEMMA EmphasisedOnly ==
    ASSUME NEW r \in Segments
    PROVE  /\ Emphasised(r) \in Seq(Symbols)
           /\ \A S : "star" \notin S => Only(Emphasised(r), S) = Only(r.chars, S)
PROOF
  <1> DEFINE s == <<"star">>
  <1>1. PICK a \in Seq(Symbols), m \in Seq(Symbols), z \in Seq(Symbols) :
            /\ Framed(r.chars, a, m, z) /\ r.chars = Three(a, m, z)
            /\ Emphasised(r) = IF m = <<>> \/ ~r.bold THEN r.chars
                               ELSE Three(Three(a, s, m), s, z)
    BY EmphasisedIs
  <1>2. s \in Seq(Symbols) /\ \A S : "star" \notin S => Only(s, S) = <<>>
    <2>1. "star" \in Symbols
      BY DEF Symbols, Visible
    <2>2. ASSUME NEW S, "star" \notin S PROVE Only(s, S) = <<>>
      BY <2>1, <2>2, OnlyOne
    <2> QED
      BY <2>1, <2>2
  <1> HIDE DEF s
  <1> DEFINE e == Three(Three(a, s, m), s, z)
  <1>3. Three(a, s, m) \in Seq(Symbols) /\ e \in Seq(Symbols)
    BY <1>2, ThreeOnly
  <1>4. \A S : /\ Only(Three(a, s, m), S) = Three(Only(a, S), Only(s, S), Only(m, S))
               /\ Only(e, S) = Three(Only(Three(a, s, m), S), Only(s, S), Only(z, S))
               /\ Only(r.chars, S) = Three(Only(a, S), Only(m, S), Only(z, S))
    <2>1. \A S : Only(Three(a, s, m), S) = Three(Only(a, S), Only(s, S), Only(m, S))
      BY <1>2, ThreeOnly
    <2>2. \A S : Only(e, S) = Three(Only(Three(a, s, m), S), Only(s, S), Only(z, S))
      BY <1>2, <1>3, ThreeOnly
    <2>3. \A S : Only(r.chars, S) = Three(Only(a, S), Only(m, S), Only(z, S))
      BY <1>1, ThreeOnly
    <2> QED
      BY <2>1, <2>2, <2>3
  <1> HIDE DEF e
  <1>5. ASSUME NEW S, "star" \notin S PROVE Only(e, S) = Only(r.chars, S)
    <2>1. Only(a, S) \in Seq(Symbols) /\ Only(m, S) \in Seq(Symbols) /\ Only(z, S) \in Seq(Symbols)
      <3>1. Only(a, S) \in Seq(Symbols \cap S) /\ Only(m, S) \in Seq(Symbols \cap S)
            /\ Only(z, S) \in Seq(Symbols \cap S)
        BY OnlyType
      <3> QED
        BY <3>1
    <2>2. Three(Three(Only(a, S), <<>>, Only(m, S)), <<>>, Only(z, S))
            = Three(Only(a, S), Only(m, S), Only(z, S))
      BY <2>1, ThreeEmpty
    <2>3. Only(s, S) = <<>>
      BY <1>2, <1>5
    <2> QED
      BY <1>4, <2>2, <2>3
  <1>6. Emphasised(r) \in Seq(Symbols)
    <2>1. r.chars \in Seq(Symbols)
      BY DEF Segments
    <2> QED
      BY <1>1, <1>3, <2>1 DEF e
  <1>7. ASSUME NEW S, "star" \notin S PROVE Only(Emphasised(r), S) = Only(r.chars, S)
    BY <1>1, <1>5, <1>7 DEF e
  <1> QED
    BY <1>6, <1>7

-----------------------------------------------------------------------------
(* Runs of one format joined.                                              *)

With(last, run) == [bold |-> run.bold, chars |-> last.chars \o run.chars]

\* A run and the one before it.
LEMMA WithIs ==
    ASSUME NEW a \in Segments, NEW b \in Segments
    PROVE  /\ With(a, b) \in Segments
           /\ With(a, b).bold = b.bold /\ With(a, b).chars = a.chars \o b.chars
           /\ a.chars \in Seq(Symbols) /\ b.chars \in Seq(Symbols)
PROOF
  <1>1. a.chars \in Seq(Symbols) /\ b.chars \in Seq(Symbols) /\ b.bold \in BOOLEAN
    BY DEF Segments
  <1>2. a.chars \o b.chars \in Seq(Symbols)
    BY <1>1, ConcatProperties
  <1> QED
    BY <1>1, <1>2 DEF With, Segments

\* What a run makes of those before it.
LEMMA JoiningIs ==
    ASSUME NEW run \in Segments
    PROVE  /\ Joining(<<>>, run) = Append(<<>>, run)
           /\ \A done \in Seq(Segments) : \A last \in Segments :
                Joining(Append(done, last), run)
                    = IF last.bold = run.bold THEN Append(done, With(last, run))
                      ELSE Append(Append(done, last), run)
PROOF
  <1>1. Joining(<<>>, run) = Append(<<>>, run)
    BY DEF Joining
  <1>2. ASSUME NEW done \in Seq(Segments), NEW last \in Segments
        PROVE  Joining(Append(done, last), run)
                = IF last.bold = run.bold THEN Append(done, With(last, run))
                  ELSE Append(Append(done, last), run)
    <2> DEFINE e == Append(done, last)
               n == Len(done)
    <2>1. /\ e \in Seq(Segments) /\ Len(e) = n + 1 /\ n \in Nat /\ e[n + 1] = last
      BY AppendProperties
    <2>2. With(last, run) \in Segments
      BY WithIs
    <2>3. [e EXCEPT ![n + 1] = With(last, run)] = Append(done, With(last, run))
      BY <2>2, ExceptAppend
    <2> HIDE DEF e
    <2>4. Joining(e, run) = IF last.bold = run.bold
                            THEN [e EXCEPT ![n + 1] = [bold |-> run.bold, chars |-> @.chars \o run.chars]]
                            ELSE Append(e, run)
      BY <2>1 DEF Joining
    <2>5. [e EXCEPT ![n + 1] = [bold |-> run.bold, chars |-> @.chars \o run.chars]]
            = [e EXCEPT ![n + 1] = With(last, run)]
      BY <2>1 DEF With
    <2> QED
      BY <2>3, <2>4, <2>5 DEF e
  <1> QED
    BY <1>1, <1>2

\* It makes runs of them.
LEMMA JoiningType ==
    ASSUME NEW run \in Segments, NEW done \in Seq(Segments)
    PROVE  Joining(done, run) \in Seq(Segments)
PROOF
  <1>1. CASE done = <<>>
    <2>1. Append(<<>>, run) \in Seq(Segments)
      OBVIOUS
    <2> QED
      BY <1>1, <2>1, JoiningIs
  <1>2. CASE done # <<>>
    <2>1. PICK f \in Seq(Segments), last \in Segments : done = Append(f, last)
      BY <1>2, SequenceEmptyOrAppend
    <2>2. Append(f, With(last, run)) \in Seq(Segments) /\ Append(Append(f, last), run) \in Seq(Segments)
      <3>1. With(last, run) \in Segments /\ Append(f, last) \in Seq(Segments)
        BY WithIs, AppendProperties
      <3> QED
        BY <3>1, AppendProperties
    <2> QED
      BY <2>1, <2>2, JoiningIs, ZenonT(60)
  <1> QED
    BY <1>1, <1>2

Mergedly(g, S) == g = [k \in 0..Len(S) |-> IF k = 0 THEN <<>> ELSE Joining(g[k - 1], S[k])]

\* What runs are merged into is reached run by run.
LEMMA MergedSteps ==
    ASSUME NEW S \in Seq(Segments)
    PROVE  \E g \in [0..Len(S) -> Seq(Segments)] : Mergedly(g, S) /\ Merged(S) = g[Len(S)]
PROOF
  <1> DEFINE F == [p \in Seq(Segments) \X Segments |-> Joining(p[1], p[2])]
  <1>1. F \in [Seq(Segments) \X Segments -> Seq(Segments)]
    BY JoiningType
  <1>2. PICK g \in [0..Len(S) -> Seq(Segments)] : Accrues(g, F, S)
    <2> HIDE DEF F
    <2>1. <<>> \in Seq(Segments)
      OBVIOUS
    <2> QED
      BY <1>1, <2>1, Accrued
  <1>3. \A i \in 0..Len(S) : i # 0 => <<g[i - 1], S[i]>> \in Seq(Segments) \X Segments
    <2>1. SUFFICES ASSUME NEW i \in 0..Len(S), i # 0 PROVE g[i - 1] \in Seq(Segments) /\ S[i] \in Segments
      OBVIOUS
    <2>2. i - 1 \in 0..Len(S) /\ i \in 1..Len(S)
      BY <2>1
    <2> QED
      BY <2>2
  <1>4. Mergedly(g, S)
    <2>1. g = [i \in 0..Len(S) |-> g[i]]
      OBVIOUS
    <2>2. \A i \in 0..Len(S) : g[i] = IF i = 0 THEN <<>> ELSE Joining(g[i - 1], S[i])
      BY <1>2, <1>3 DEF Accrues
    <2> QED
      BY <2>1, <2>2 DEF Mergedly
  <1>5. Merged(S) = (CHOOSE k : Mergedly(k, S))[Len(S)]
    BY DEF Merged, Mergedly
  <1>6. \A h : Mergedly(h, S) => h = g
    <2>1. SUFFICES ASSUME NEW h, Mergedly(h, S) PROVE h = g
      OBVIOUS
    <2> DEFINE fails == {i \in 0..Len(S) : h[i] # g[i]}
    <2>2. fails = {}
      <3>1. SUFFICES ASSUME fails # {} PROVE FALSE
        OBVIOUS
      <3>2. PICK i \in fails : \A j \in fails : i <= j
        <4>1. fails \in SUBSET Nat
          OBVIOUS
        <4> QED
          BY <3>1, <4>1, Least
      <3>3. i \in 0..Len(S) /\ h[i] # g[i]
        BY <3>2
      <3>4. g[i] = IF i = 0 THEN <<>> ELSE Joining(g[i - 1], S[i])
        BY <1>4, <3>3 DEF Mergedly
      <3>5. h[i] = IF i = 0 THEN <<>> ELSE Joining(h[i - 1], S[i])
        BY <2>1, <3>3 DEF Mergedly
      <3>6. i # 0 => h[i - 1] = g[i - 1]
        BY <3>2, <3>3
      <3> QED
        BY <3>3, <3>4, <3>5, <3>6
    <2>3. h = [i \in 0..Len(S) |-> h[i]] /\ g = [i \in 0..Len(S) |-> g[i]]
      BY <2>1 DEF Mergedly
    <2>4. \A i \in 0..Len(S) : h[i] = g[i]
      BY <2>2
    <2> HIDE DEF fails
    <2> QED
      BY <2>3, <2>4
  <1>7. (CHOOSE k : Mergedly(k, S)) = g
    BY <1>4, <1>6
  <1> QED
    BY <1>4, <1>5, <1>7

\* A run more.
LEMMA MergedAppend ==
    /\ Merged(<<>>) = <<>>
    /\ \A S \in Seq(Segments) : Merged(S) \in Seq(Segments)
    /\ \A S \in Seq(Segments) : \A run \in Segments :
          Merged(Append(S, run)) = Joining(Merged(S), run)
PROOF
  <1>1. Merged(<<>>) = <<>>
    <2>1. <<>> \in Seq(Segments)
      OBVIOUS
    <2>2. PICK g : Mergedly(g, <<>>) /\ Merged(<<>>) = g[Len(<<>>)]
      BY <2>1, MergedSteps
    <2> QED
      BY <2>2 DEF Mergedly
  <1>2. ASSUME NEW S \in Seq(Segments) PROVE Merged(S) \in Seq(Segments)
    BY MergedSteps
  <1>3. ASSUME NEW S \in Seq(Segments), NEW run \in Segments
        PROVE  Merged(Append(S, run)) = Joining(Merged(S), run)
    <2> DEFINE e == Append(S, run)
               n == Len(S)
    <2>1. /\ e \in Seq(Segments) /\ Len(e) = n + 1 /\ n \in Nat /\ e[n + 1] = run
          /\ \A i \in 1..n : e[i] = S[i]
      BY AppendProperties
    <2> HIDE DEF e
    <2>2. PICK g : Mergedly(g, S) /\ Merged(S) = g[n]
      BY MergedSteps
    <2>3. PICK h : Mergedly(h, e) /\ Merged(e) = h[n + 1]
      BY <2>1, MergedSteps
    <2> DEFINE fails == {i \in 0..n : h[i] # g[i]}
    <2>4. fails = {}
      <3>1. SUFFICES ASSUME fails # {} PROVE FALSE
        OBVIOUS
      <3>2. PICK i \in fails : \A j \in fails : i <= j
        <4>1. fails \in SUBSET Nat
          OBVIOUS
        <4> QED
          BY <3>1, <4>1, Least
      <3>3. i \in 0..n /\ i \in 0..(n + 1) /\ h[i] # g[i]
        BY <2>1, <3>2
      <3>4. g[i] = IF i = 0 THEN <<>> ELSE Joining(g[i - 1], S[i])
        BY <2>2, <3>3 DEF Mergedly
      <3>5. h[i] = IF i = 0 THEN <<>> ELSE Joining(h[i - 1], e[i])
        BY <2>1, <2>3, <3>3 DEF Mergedly
      <3>6. i # 0 => h[i - 1] = g[i - 1] /\ e[i] = S[i]
        BY <2>1, <3>2, <3>3
      <3> QED
        BY <3>3, <3>4, <3>5, <3>6
    <2>5. h[n] = g[n]
      BY <2>1, <2>4
    <2>6. h[n + 1] = Joining(h[n], e[n + 1])
      <3>1. n + 1 \in 0..Len(e) /\ n + 1 # 0 /\ (n + 1) - 1 = n
        BY <2>1
      <3> QED
        BY <2>3, <3>1 DEF Mergedly
    <2> QED
      BY <2>1, <2>2, <2>3, <2>5, <2>6 DEF e
  <1> QED
    BY <1>1, <1>2, <1>3

Columns(S) == [k \in DOMAIN S |-> S[k].chars]
CharsOf(S) == FlattenSeq(Columns(S))

\* The characters of runs, run after run.
LEMMA ColumnsAppend ==
    /\ Columns(<<>>) = <<>>
    /\ \A S \in Seq(Segments) : /\ Columns(S) \in Seq(Seq(Symbols)) /\ Len(Columns(S)) = Len(S)
                                /\ \A k \in 1..Len(S) : Columns(S)[k] = S[k].chars
    /\ \A S \in Seq(Segments) : \A run \in Segments :
          Columns(Append(S, run)) = Append(Columns(S), run.chars)
PROOF
  <1>1. Columns(<<>>) = <<>>
    BY DEF Columns
  <1>2. \A r \in Segments : r.chars \in Seq(Symbols)
    BY DEF Segments
  <1>3. ASSUME NEW S \in Seq(Segments)
        PROVE  /\ Columns(S) \in Seq(Seq(Symbols)) /\ Len(Columns(S)) = Len(S)
               /\ \A k \in 1..Len(S) : Columns(S)[k] = S[k].chars
    BY <1>2 DEF Columns
  <1>4. ASSUME NEW S \in Seq(Segments), NEW run \in Segments
        PROVE  Columns(Append(S, run)) = Append(Columns(S), run.chars)
    <2> DEFINE e == Append(S, run)
               n == Len(S)
               f == Columns(S)
               h == Append(f, run.chars)
    <2>1. /\ e \in Seq(Segments) /\ Len(e) = n + 1 /\ n \in Nat /\ e[n + 1] = run
          /\ \A i \in 1..n : e[i] = S[i]
      BY AppendProperties
    <2>2. f \in Seq(Seq(Symbols)) /\ Len(f) = n /\ \A i \in 1..n : f[i] = S[i].chars
      BY <1>3
    <2> HIDE DEF e, f
    <2>3. /\ h \in Seq(Seq(Symbols)) /\ Len(h) = n + 1 /\ h[n + 1] = run.chars
          /\ \A i \in 1..n : h[i] = f[i]
      BY <1>2, <2>2, AppendProperties
    <2> HIDE DEF h
    <2>4. Columns(e) = [k \in 1..(n + 1) |-> e[k].chars]
      BY <2>1 DEF Columns
    <2>5. h = [k \in 1..(n + 1) |-> h[k]]
      BY <2>3
    <2>6. \A k \in 1..(n + 1) : e[k].chars = h[k]
      BY <2>1, <2>2, <2>3
    <2> QED
      BY <2>4, <2>5, <2>6 DEF e, h, f
  <1> QED
    BY <1>1, <1>3, <1>4

\* The characters of the runs of a line, run after run.
LEMMA CharsAppend ==
    /\ CharsOf(<<>>) = <<>>
    /\ \A S \in Seq(Segments) : CharsOf(S) \in Seq(Symbols)
    /\ \A S \in Seq(Segments) : \A run \in Segments :
          CharsOf(Append(S, run)) = CharsOf(S) \o run.chars
PROOF
  <1>1. <<>> \in Seq(Symbols)
    OBVIOUS
  <1>2. CharsOf(<<>>) = <<>>
    <2>1. FlattenSeq(<<>>) = <<>>
      <3>1. <<>> \in Seq(Seq(Symbols))
        OBVIOUS
      <3> QED
        BY <1>1, <3>1, FlattenAppend
    <2> QED
      BY <2>1, ColumnsAppend DEF CharsOf
  <1>3. ASSUME NEW S \in Seq(Segments) PROVE CharsOf(S) \in Seq(Symbols)
    BY ColumnsAppend, FlattenType DEF CharsOf
  <1>4. ASSUME NEW S \in Seq(Segments), NEW run \in Segments
        PROVE  CharsOf(Append(S, run)) = CharsOf(S) \o run.chars
    <2>1. Columns(S) \in Seq(Seq(Symbols)) /\ run.chars \in Seq(Symbols)
      BY ColumnsAppend DEF Segments
    <2>2. FlattenSeq(Append(Columns(S), run.chars)) = FlattenSeq(Columns(S)) \o run.chars
      BY <2>1, FlattenAppend
    <2> QED
      BY <2>2, ColumnsAppend DEF CharsOf
  <1> QED
    BY <1>2, <1>3, <1>4

\* Joining a run leaves the characters of both.
LEMMA JoiningChars ==
    ASSUME NEW done \in Seq(Segments), NEW run \in Segments
    PROVE  CharsOf(Joining(done, run)) = CharsOf(done) \o run.chars
PROOF
  <1>1. CASE done = <<>>
    <2>1. <<>> \in Seq(Segments)
      OBVIOUS
    <2> QED
      BY <1>1, <2>1, JoiningIs, CharsAppend
  <1>2. CASE done # <<>>
    <2>1. PICK f \in Seq(Segments), last \in Segments : done = Append(f, last)
      BY <1>2, SequenceEmptyOrAppend
    <2>2. /\ With(last, run) \in Segments /\ With(last, run).chars = last.chars \o run.chars
          /\ last.chars \in Seq(Symbols) /\ run.chars \in Seq(Symbols)
      BY WithIs
    <2>3. CharsOf(done) = CharsOf(f) \o last.chars /\ CharsOf(f) \in Seq(Symbols)
      BY <2>1, CharsAppend
    <2>4. CASE last.bold = run.bold
      <3> DEFINE cf == CharsOf(f)
                 cl == last.chars
                 cr == run.chars
      <3>1. Joining(done, run) = Append(f, With(last, run))
        BY <2>1, <2>4, JoiningIs
      <3>2. CharsOf(Joining(done, run)) = CharsOf(f) \o With(last, run).chars
        BY <2>2, <3>1, CharsAppend
      <3>3. cf \in Seq(Symbols) /\ cl \in Seq(Symbols) /\ cr \in Seq(Symbols)
        BY <2>2, <2>3
      <3> HIDE DEF cf, cl, cr
      <3>4. cf \o (cl \o cr) = (cf \o cl) \o cr
        BY <3>3, ConcatAssociative, SMTT(60)
      <3> QED
        BY <2>2, <2>3, <3>2, <3>4 DEF cf, cl, cr
    <2>5. CASE last.bold # run.bold
      <3>1. Joining(done, run) = Append(done, run)
        BY <2>1, <2>5, JoiningIs
      <3> QED
        BY <3>1, CharsAppend
    <2> QED
      BY <2>4, <2>5
  <1> QED
    BY <1>1, <1>2

\* So does merging.
LEMMA MergedChars ==
    ASSUME NEW S \in Seq(Segments)
    PROVE  Merged(S) \in Seq(Segments) /\ CharsOf(Merged(S)) = CharsOf(S)
PROOF
  <1> DEFINE G == {u \in Seq(Segments) : CharsOf(Merged(u)) = CharsOf(u)}
  <1>1. <<>> \in G
    <2>1. <<>> \in Seq(Segments)
      OBVIOUS
    <2> QED
      BY <2>1, MergedAppend
  <1>2. ASSUME NEW u \in Seq(Segments) \cap G, NEW x \in Segments PROVE Append(u, x) \in G
    <2>1. CharsOf(Merged(u)) = CharsOf(u) /\ Merged(u) \in Seq(Segments) /\ u \in Seq(Segments)
      BY MergedAppend
    <2>2. Merged(Append(u, x)) = Joining(Merged(u), x)
      BY <2>1, MergedAppend
    <2>3. CharsOf(Joining(Merged(u), x)) = CharsOf(Merged(u)) \o x.chars
      BY <2>1, JoiningChars
    <2>4. CharsOf(Append(u, x)) = CharsOf(u) \o x.chars
      BY <2>1, CharsAppend
    <2>5. Append(u, x) \in Seq(Segments)
      BY <2>1, HasAppend
    <2> QED
      BY <2>1, <2>2, <2>3, <2>4, <2>5
  <1> HIDE DEF G
  <1>3. S \in G
    BY <1>1, <1>2, EverySequence
  <1> QED
    BY <1>3, MergedAppend DEF G

-----------------------------------------------------------------------------
(* What a reader gets of an archive.                                       *)

\* What is in a rendering but is not the author's.
Layout == {"space", "newline", "star"}

Emphases(S) == [k \in DOMAIN Merged(S) |-> Emphasised(Merged(S)[k])]
Line(S) ==
    LET shown == Trimmed(FlattenSeq(Emphases(S)))
    IN  IF shown = <<>> THEN <<>> ELSE shown \o <<"newline">>
LinesOf(A) == [p \in DOMAIN A |-> Line(A[p])]
LoweredOf(A) == FlattenSeq(LinesOf(A))
SegsOf(paras) == [p \in DOMAIN paras |-> Shown(paras[p])]
InkOf(A) == FlattenSeq([p \in DOMAIN A |-> CharsOf(A[p])])

\* The runs a reader is shown.
ShownRuns(para) == Only(para, {run \in FileRuns : run.shown})
Spelled(d) == [i \in DOMAIN d |-> Unescaped(d[i])]
Segment(run) == [bold |-> run.bold, chars |-> Spelled(run.chars)]

\* A run with its references resolved is as long, and of symbols.
LEMMA SpelledIs ==
    ASSUME NEW d \in Seq(FileSymbols)
    PROVE  /\ Spelled(d) \in Seq(Symbols) /\ Len(Spelled(d)) = Len(d) /\ Len(d) \in Nat
           /\ \A i \in 1..Len(d) : Spelled(d)[i] = Unescaped(d[i]) /\ d[i] \in FileSymbols
PROOF
  <1>1. \A s \in FileSymbols : Unescaped(s) \in Symbols
    <2>1. {"zw0", "ws1"} \subseteq Symbols
      <3>1. /\ "zero_width" \in Inserting /\ "whitespace_var" \in Inserting
            /\ Bit0["zero_width"] = "zw0" /\ Bit1["whitespace_var"] = "ws1"
        BY DEF Inserting, Bit0, Bit1
      <3> QED
        BY <3>1, Alphabet
    <2> QED
      BY <2>1 DEF Unescaped, FileSymbols, References
  <1>2. \A i \in 1..Len(d) : d[i] \in FileSymbols
    OBVIOUS
  <1>3. Spelled(d) = [i \in 1..Len(d) |-> Unescaped(d[i])]
    BY DEF Spelled
  <1> QED
    BY <1>1, <1>2, <1>3

\* A run shown has its own format.
LEMMA SegmentIs ==
    ASSUME NEW run \in FileRuns
    PROVE  Segment(run) \in Segments /\ Segment(run).bold = run.bold
           /\ Segment(run).chars = Spelled(run.chars) /\ run.chars \in Seq(FileSymbols)
PROOF
  <1>1. run.chars \in Seq(FileSymbols) /\ run.bold \in BOOLEAN
    BY DEF FileRuns
  <1>2. Spelled(run.chars) \in Seq(Symbols)
    BY <1>1, SpelledIs
  <1> QED
    BY <1>1, <1>2 DEF Segment, Segments

\* What a reader is shown of a paragraph.
LEMMA ShownIs ==
    ASSUME NEW para \in Seq(FileRuns)
    PROVE  /\ ShownRuns(para) \in Seq(FileRuns)
           /\ Shown(para) = [k \in DOMAIN ShownRuns(para) |-> Segment(ShownRuns(para)[k])]
           /\ Shown(para) \in Seq(Segments) /\ Len(Shown(para)) = Len(ShownRuns(para))
           /\ \A k \in 1..Len(Shown(para)) : Shown(para)[k] = Segment(ShownRuns(para)[k])
PROOF
  <1> DEFINE R == Range(para)
             q == {run \in R : run.shown}
             w == {run \in FileRuns : run.shown}
             r == Only(para, q)
  <1>1. para \in Seq(R) /\ R \subseteq FileRuns
    BY DEF Range
  <1>2. Only(para, q) = Only(para, w)
    <2>1. \A x \in R : x \in q <=> x \in w
      BY <1>1
    <2> HIDE DEF q, w, R
    <2> QED
      BY <1>1, <2>1, OnlySame
  <1>3. r = ShownRuns(para)
    BY <1>2 DEF ShownRuns
  <1>4. ShownRuns(para) \in Seq(FileRuns)
    <2>1. Only(para, w) \in Seq(FileRuns \cap w)
      <3> HIDE DEF w
      <3> QED
        BY OnlyType
    <2> QED
      BY <2>1 DEF ShownRuns
  <1>5. Shown(para) = [k \in DOMAIN r |->
            [bold |-> r[k].bold, chars |-> [i \in DOMAIN r[k].chars |-> Unescaped(r[k].chars[i])]]]
    BY DEF Shown
  <1> HIDE DEF r, q, w, R
  <1>6. Shown(para) = [k \in DOMAIN ShownRuns(para) |-> Segment(ShownRuns(para)[k])]
    BY <1>3, <1>5 DEF Segment, Spelled
  <1>7. \A k \in 1..Len(ShownRuns(para)) : Segment(ShownRuns(para)[k]) \in Segments
    BY <1>4, SegmentIs
  <1> HIDE DEF ShownRuns
  <1> QED
    BY <1>4, <1>6, <1>7, SMTT(60)

\* The emphasised runs of a paragraph.
LEMMA EmphasesAre ==
    ASSUME NEW S \in Seq(Segments)
    PROVE  /\ Emphases(S) \in Seq(Seq(Symbols)) /\ Len(Emphases(S)) = Len(Merged(S))
           /\ \A k \in 1..Len(Merged(S)) :
                Emphases(S)[k] = Emphasised(Merged(S)[k]) /\ Merged(S)[k] \in Segments
           /\ FlattenSeq(Emphases(S)) \in Seq(Symbols)
PROOF
  <1> DEFINE M == Merged(S)
  <1>1. M \in Seq(Segments)
    BY MergedAppend
  <1>2. Emphases(S) = [k \in DOMAIN M |-> Emphasised(M[k])]
    BY DEF Emphases
  <1> HIDE DEF M
  <1>3. \A k \in 1..Len(M) : M[k] \in Segments /\ Emphasised(M[k]) \in Seq(Symbols)
    <2>1. \A k \in 1..Len(M) : M[k] \in Segments
      BY <1>1
    <2> QED
      BY <2>1, EmphasisedOnly
  <1>4. /\ Emphases(S) \in Seq(Seq(Symbols)) /\ Len(Emphases(S)) = Len(M)
        /\ \A k \in 1..Len(M) : Emphases(S)[k] = Emphasised(M[k])
    <2>1. Emphases(S) = [k \in 1..Len(M) |-> Emphasised(M[k])] /\ Len(M) \in Nat
      BY <1>1, <1>2
    <2> QED
      BY <1>3, <2>1
  <1>5. FlattenSeq(Emphases(S)) \in Seq(Symbols)
    BY <1>4, FlattenType
  <1> QED
    BY <1>3, <1>4, <1>5 DEF M

\* A line shows the characters of its runs.
LEMMA LineOnly ==
    ASSUME NEW S \in Seq(Segments)
    PROVE  /\ Line(S) \in Seq(Symbols)
           /\ \A Q : Q \cap Layout = {} => Only(Line(S), Q) = Only(CharsOf(S), Q)
PROOF
  <1> DEFINE f == FlattenSeq(Emphases(S))
             u == Trimmed(f)
             nl == <<"newline">>
  <1>1. f \in Seq(Symbols) /\ u \in Seq(Symbols)
    <2>1. f \in Seq(Symbols)
      BY EmphasesAre
    <2> HIDE DEF f
    <2> QED
      BY <2>1, TrimmedOnly
  <1>2. nl \in Seq(Symbols) /\ \A Q : "newline" \notin Q => Only(nl, Q) = <<>>
    <2>1. "newline" \in Symbols
      BY DEF Symbols, Visible
    <2>2. ASSUME NEW Q, "newline" \notin Q PROVE Only(nl, Q) = <<>>
      BY <2>1, <2>2, OnlyOne
    <2> QED
      BY <2>1, <2>2
  <1>3. Line(S) = IF u = <<>> THEN <<>> ELSE u \o nl
    BY DEF Line
  <1> HIDE DEF nl
  <1>4. Line(S) \in Seq(Symbols)
    <2> HIDE DEF u
    <2>1. u \o nl \in Seq(Symbols)
      BY <1>1, <1>2, ConcatProperties
    <2> QED
      BY <1>3, <2>1
  <1>5. ASSUME NEW Q, Q \cap Layout = {} PROVE Only(Line(S), Q) = Only(u, Q)
    <2> HIDE DEF u
    <2>1. "newline" \notin Q
      BY <1>5 DEF Layout
    <2>2. Only(u \o nl, Q) = Only(u, Q) \o Only(nl, Q)
      BY <1>1, <1>2, OnlyJoined
    <2>3. Only(nl, Q) = <<>> /\ Only(u, Q) \in Seq(Symbols \cap Q)
      BY <1>1, <1>2, <2>1, OnlyType
    <2>4. Only(u, Q) \o <<>> = Only(u, Q)
      BY <2>3, ConcatEmptySeq
    <2> QED
      BY <1>3, <2>2, <2>3, <2>4
  <1>6. ASSUME NEW Q, Q \cap Layout = {} PROVE Only(u, Q) = Only(f, Q)
    <2>1. Q \cap Blanks = {}
      BY <1>6 DEF Layout, Blanks
    <2> HIDE DEF f
    <2> QED
      BY <1>1, <2>1, TrimmedOnly
  <1>7. ASSUME NEW Q, Q \cap Layout = {} PROVE Only(f, Q) = Only(CharsOf(S), Q)
    <2> DEFINE M == Merged(S)
               e == Emphases(S)
               c == Columns(M)
    <2>1. M \in Seq(Segments) /\ CharsOf(M) = CharsOf(S)
      BY MergedChars
    <2>2. /\ e \in Seq(Seq(Symbols)) /\ Len(e) = Len(M)
          /\ \A k \in 1..Len(M) : e[k] = Emphasised(M[k]) /\ M[k] \in Segments
      BY EmphasesAre
    <2> HIDE DEF M, e
    <2>3. /\ c \in Seq(Seq(Symbols)) /\ Len(c) = Len(M)
          /\ \A k \in 1..Len(M) : c[k] = M[k].chars
      BY <2>1, ColumnsAppend
    <2>4. "star" \notin Q
      BY <1>7 DEF Layout
    <2>5. ASSUME NEW k \in 1..Len(e) PROVE Only(e[k], Q) = Only(c[k], Q)
      <3>1. e[k] = Emphasised(M[k]) /\ M[k] \in Segments /\ c[k] = M[k].chars
        BY <2>2, <2>3
      <3>2. Only(Emphasised(M[k]), Q) = Only(M[k].chars, Q)
        BY <2>4, <3>1, EmphasisedOnly
      <3> QED
        BY <3>1, <3>2
    <2> HIDE DEF c
    <2>7. Alike(e, c, Q, Q)
      BY <2>2, <2>3, <2>5 DEF Alike
    <2>6. Only(FlattenSeq(e), Q) = Only(FlattenSeq(c), Q)
      BY <2>2, <2>3, <2>7, FlattenAlike
    <2> QED
      BY <2>1, <2>6 DEF e, c, CharsOf
  <1> HIDE DEF u, f
  <1>8. ASSUME NEW Q, Q \cap Layout = {} PROVE Only(Line(S), Q) = Only(CharsOf(S), Q)
    BY <1>5, <1>6, <1>7, <1>8
  <1> QED
    BY <1>4, <1>8

\* The lines of a rendering, and what the author wrote in them.
LEMMA LinesAre ==
    ASSUME NEW A \in Outlines
    PROVE  /\ Len(A) \in Nat /\ \A p \in 1..Len(A) : A[p] \in Seq(Segments)
           /\ LinesOf(A) \in Seq(Seq(Symbols)) /\ Len(LinesOf(A)) = Len(A)
           /\ \A p \in 1..Len(A) : LinesOf(A)[p] = Line(A[p])
           /\ LoweredOf(A) \in Seq(Symbols)
PROOF
  <1>1. A \in Seq(Seq(Segments))
    BY DEF Outlines, Segments
  <1>2. Len(A) \in Nat /\ DOMAIN A = 1..Len(A) /\ \A p \in 1..Len(A) : A[p] \in Seq(Segments)
    BY <1>1
  <1>3. \A p \in 1..Len(A) : Line(A[p]) \in Seq(Symbols)
    BY <1>2, LineOnly
  <1>4. LinesOf(A) = [p \in 1..Len(A) |-> Line(A[p])]
    BY <1>2 DEF LinesOf
  <1>5. LinesOf(A) \in Seq(Seq(Symbols))
    BY <1>2, <1>3, <1>4
  <1>6. LoweredOf(A) \in Seq(Symbols)
    BY <1>5, FlattenType DEF LoweredOf
  <1> QED
    BY <1>2, <1>4, <1>5, <1>6

Inks(A) == [p \in DOMAIN A |-> CharsOf(A[p])]

\* The characters of a paper, line after line.
LEMMA InksAre ==
    ASSUME NEW A \in Outlines
    PROVE  /\ Inks(A) \in Seq(Seq(Symbols)) /\ Len(Inks(A)) = Len(A)
           /\ \A p \in 1..Len(A) : Inks(A)[p] = CharsOf(A[p])
           /\ InkOf(A) = FlattenSeq(Inks(A)) /\ InkOf(A) \in Seq(Symbols)
PROOF
  <1>1. Len(A) \in Nat /\ \A p \in 1..Len(A) : A[p] \in Seq(Segments)
    BY LinesAre
  <1>2. DOMAIN A = 1..Len(A)
    BY DEF Outlines
  <1>3. \A p \in 1..Len(A) : CharsOf(A[p]) \in Seq(Symbols)
    BY <1>1, CharsAppend
  <1>4. Inks(A) = [p \in 1..Len(A) |-> CharsOf(A[p])]
    BY <1>2 DEF Inks
  <1>5. Inks(A) \in Seq(Seq(Symbols))
    BY <1>1, <1>3, <1>4
  <1>6. InkOf(A) = FlattenSeq(Inks(A))
    BY DEF InkOf, Inks
  <1>7. InkOf(A) \in Seq(Symbols)
    BY <1>5, <1>6, FlattenType
  <1> QED
    BY <1>1, <1>4, <1>5, <1>6, <1>7

\* A rendering shows the characters of its runs.
LEMMA LoweredOnly ==
    ASSUME NEW A \in Outlines
    PROVE  \A Q : Q \cap Layout = {} => Only(LoweredOf(A), Q) = Only(InkOf(A), Q)
PROOF
  <1> DEFINE f == LinesOf(A)
             g == Inks(A)
  <1>1. f \in Seq(Seq(Symbols)) /\ g \in Seq(Seq(Symbols)) /\ Len(f) = Len(g)
    BY LinesAre, InksAre
  <1>2. ASSUME NEW Q, Q \cap Layout = {}, NEW p \in 1..Len(f) PROVE Only(f[p], Q) = Only(g[p], Q)
    <2>1. f[p] = Line(A[p]) /\ g[p] = CharsOf(A[p]) /\ A[p] \in Seq(Segments)
      BY LinesAre, InksAre
    <2> HIDE DEF f, g
    <2>2. Only(Line(A[p]), Q) = Only(CharsOf(A[p]), Q)
      BY <1>2, <2>1, LineOnly
    <2> QED
      BY <2>1, <2>2
  <1>3. ASSUME NEW Q, Q \cap Layout = {} PROVE Only(LoweredOf(A), Q) = Only(InkOf(A), Q)
    <2> HIDE DEF f, g
    <2>1. ASSUME NEW i \in 1..Len(f) PROVE Only(f[i], Q) = Only(g[i], Q)
      BY <1>2, <1>3
    <2>3. Alike(f, g, Q, Q)
      BY <1>1, <2>1 DEF Alike
    <2>2. Only(FlattenSeq(f), Q) = Only(FlattenSeq(g), Q)
      BY <1>1, <2>3, FlattenAlike
    <2> QED
      BY <2>2, InksAre DEF f, g, LoweredOf
  <1> QED
    BY <1>3

\* What a rendering has that is not layout, some run has.
LEMMA LoweredHas ==
    ASSUME NEW A \in Outlines, NEW Q, Q \cap Layout = {}
    PROVE  Has(LoweredOf(A), Q) <=>
            \E p \in 1..Len(A) : \E k \in 1..Len(A[p]) : Has(A[p][k].chars, Q)
PROOF
  <1>1. Only(LoweredOf(A), Q) = Only(InkOf(A), Q)
    BY LoweredOnly
  <1>2. LoweredOf(A) \in Seq(Symbols) /\ InkOf(A) \in Seq(Symbols)
    BY LinesAre, InksAre
  <1>3. Has(LoweredOf(A), Q) <=> Has(InkOf(A), Q)
    BY <1>1, <1>2, SameHas
  <1>4. Has(InkOf(A), Q) <=> \E p \in 1..Len(A) : Has(CharsOf(A[p]), Q)
    <2>1. Has(FlattenSeq(Inks(A)), Q) <=> \E p \in 1..Len(Inks(A)) : Has(Inks(A)[p], Q)
      BY InksAre, FlattenHas
    <2> QED
      BY <2>1, InksAre
  <1>5. ASSUME NEW p \in 1..Len(A)
        PROVE  Has(CharsOf(A[p]), Q) <=> \E k \in 1..Len(A[p]) : Has(A[p][k].chars, Q)
    <2> DEFINE c == Columns(A[p])
    <2>1. A[p] \in Seq(Segments)
      BY LinesAre
    <2>2. c \in Seq(Seq(Symbols)) /\ Len(c) = Len(A[p]) /\ \A k \in 1..Len(A[p]) : c[k] = A[p][k].chars
      BY <2>1, ColumnsAppend
    <2> HIDE DEF c
    <2>3. Has(FlattenSeq(c), Q) <=> \E k \in 1..Len(c) : Has(c[k], Q)
      BY <2>2, FlattenHas
    <2> QED
      BY <2>2, <2>3 DEF c, CharsOf
  <1> QED
    BY <1>3, <1>4, <1>5

\* What a reader gets of an archive.
LEMMA LoweredIs ==
    ASSUME NEW paras \in Seq(Seq(FileRuns))
    PROVE  /\ SegsOf(paras) \in Outlines /\ Len(SegsOf(paras)) = Len(paras) /\ Len(paras) \in Nat
           /\ \A p \in 1..Len(paras) : /\ SegsOf(paras)[p] = Shown(paras[p])
                                       /\ paras[p] \in Seq(FileRuns)
           /\ Lowered(paras) = LoweredOf(SegsOf(paras))
           /\ Lowered(paras) \in Seq(Symbols)
PROOF
  <1>1. Len(paras) \in Nat /\ DOMAIN paras = 1..Len(paras)
        /\ \A p \in 1..Len(paras) : paras[p] \in Seq(FileRuns)
    OBVIOUS
  <1>2. \A p \in 1..Len(paras) : Shown(paras[p]) \in Seq(Segments)
    BY <1>1, ShownIs
  <1>3. SegsOf(paras) = [p \in 1..Len(paras) |-> Shown(paras[p])]
    BY <1>1 DEF SegsOf
  <1>4. SegsOf(paras) \in Outlines /\ Len(SegsOf(paras)) = Len(paras)
        /\ \A p \in 1..Len(paras) : SegsOf(paras)[p] = Shown(paras[p])
    <2>1. SegsOf(paras) \in Seq(Seq(Segments))
      BY <1>1, <1>2, <1>3
    <2>2. Seq(Seq(Segments)) = Outlines
      BY DEF Outlines, Segments
    <2> QED
      BY <1>1, <1>3, <2>1, <2>2
  <1>5. ASSUME NEW p \in 1..Len(paras)
        PROVE  (LET got == ParagraphText(paras[p])
                IN  IF got = <<>> THEN <<>> ELSE got \o <<"newline">>) = Line(Shown(paras[p]))
    BY DEF ParagraphText, Rendered, Line, Emphases
  <1> DEFINE f == [p \in DOMAIN paras |->
                    LET got == ParagraphText(paras[p])
                    IN  IF got = <<>> THEN <<>> ELSE got \o <<"newline">>]
  <1>6. f = LinesOf(SegsOf(paras))
    <2>1. LinesOf(SegsOf(paras)) = [p \in 1..Len(paras) |-> Line(SegsOf(paras)[p])]
      BY <1>1, <1>3 DEF LinesOf
    <2>2. \A p \in 1..Len(paras) : Line(SegsOf(paras)[p]) = Line(Shown(paras[p]))
      BY <1>4
    <2>3. \A p \in 1..Len(paras) : f[p] = Line(SegsOf(paras)[p])
      BY <1>1, <1>5, <2>2
    <2>4. f = [p \in 1..Len(paras) |-> f[p]]
      BY <1>1
    <2> HIDE DEF f
    <2> QED
      BY <2>1, <2>3, <2>4
  <1>7. Lowered(paras) = LoweredOf(SegsOf(paras))
    <2>1. Lowered(paras) = FlattenSeq(f)
      BY DEF Lowered
    <2> QED
      BY <1>6, <2>1 DEF LoweredOf
  <1> QED
    BY <1>1, <1>4, <1>7, LinesAre

\* Stripping a class: its marks are gone, and none of another comes.
LEMMA StripClears ==
    ASSUME NEW d \in Seq(Symbols), NEW o \in Carrier
    PROVE  /\ Strip(o, d) \in Seq(Symbols)
           /\ o \in Inserting => ~Has(Strip(o, d), Removable(o))
           /\ \A S \in SUBSET Marks : ~Has(d, S) => ~Has(Strip(o, d), S)
PROOF
  <1>1. "twin" \in Symbols /\ "twin" \notin Marks /\ Symbols \in SUBSET Symbols
    BY Alphabet
  <1>2. CASE o = "homoglyph"
    <2> DEFINE own == Attributed(d)
               e == [i \in DOMAIN d |-> IF i \in own THEN "twin" ELSE d[i]]
    <2>1. Strip(o, d) = e /\ o \notin Inserting
      BY <1>2, Alphabet DEF Strip
    <2>2. Strip(o, d) \in Seq(Symbols)
      BY <1>1, <1>2, StripOut
    <2> HIDE DEF own
    <2>3. ASSUME NEW S \in SUBSET Marks, ~Has(d, S) PROVE ~Has(e, S)
      BY <1>1, <2>3 DEF Has
    <2> QED
      BY <2>1, <2>2, <2>3
  <1>3. CASE o \in Inserting
    <2> DEFINE W == Symbols \ Removable(o)
    <2>1. Strip(o, d) = Only(d, W) /\ Strip(o, d) \in Seq(W)
      BY <1>1, <1>3, StripOut
    <2>2. Strip(o, d) \in Seq(Symbols)
      BY <2>1, SeqMonotonic
    <2>3. \A S : Has(Strip(o, d), S) <=> Has(d, W \cap S)
      <3> HIDE DEF W
      <3>1. \A S : Has(Only(d, W), S) <=> Has(d, W \cap S)
        BY OnlyType
      <3> QED
        BY <2>1, <3>1
    <2>4. ~Has(d, W \cap Removable(o))
      BY DEF Has
    <2>5. ASSUME NEW S, ~Has(d, S) PROVE ~Has(d, W \cap S)
      BY <2>5 DEF Has
    <2> QED
      BY <2>2, <2>3, <2>4, <2>5
  <1> QED
    BY <1>2, <1>3 DEF Carrier

\* A clean of several classes leaves none of their marks.
LEMMA StripEachClears ==
    ASSUME NEW d \in Seq(Symbols), NEW chosen
    PROVE  /\ StripEach(CleanOrder, chosen, d) \in Seq(Symbols)
           /\ \A c \in chosen \cap Inserting : ~Has(StripEach(CleanOrder, chosen, d), Removable(c))
           /\ \A S \in SUBSET Marks : ~Has(d, S) => ~Has(StripEach(CleanOrder, chosen, d), S)
PROOF
  <1> DEFINE step(i, u) == IF CleanOrder[i] \in chosen THEN Strip(CleanOrder[i], u) ELSE u
             e1 == step(1, d)
             e2 == step(2, e1)
             e3 == step(3, e2)
             e4 == step(4, e3)
  <1>1. StripEach(CleanOrder, chosen, d) = e4
    BY DEF StripEach
  <1>2. /\ \A i \in 1..4 : CleanOrder[i] \in Carrier
        /\ \A c \in Inserting : c \in {CleanOrder[1], CleanOrder[3], CleanOrder[4]}
    BY DEF CleanOrder, Carrier, Inserting, Bit0
  <1>3. ASSUME NEW i \in 1..4, NEW u \in Seq(Symbols)
        PROVE  /\ step(i, u) \in Seq(Symbols)
               /\ CleanOrder[i] \in chosen \cap Inserting => ~Has(step(i, u), Removable(CleanOrder[i]))
               /\ \A S \in SUBSET Marks : ~Has(u, S) => ~Has(step(i, u), S)
    BY <1>2, StripClears
  <1> HIDE DEF step
  <1>4. e1 \in Seq(Symbols) /\ e2 \in Seq(Symbols) /\ e3 \in Seq(Symbols) /\ e4 \in Seq(Symbols)
    BY <1>3
  <1>5. \A S \in SUBSET Marks :
            /\ ~Has(d, S) => ~Has(e1, S)
            /\ ~Has(e1, S) => ~Has(e2, S)
            /\ ~Has(e2, S) => ~Has(e3, S)
            /\ ~Has(e3, S) => ~Has(e4, S)
    <2>1. \A S \in SUBSET Marks : ~Has(d, S) => ~Has(e1, S)
      BY <1>3
    <2>2. \A S \in SUBSET Marks : ~Has(e1, S) => ~Has(e2, S)
      BY <1>3, <1>4
    <2>3. \A S \in SUBSET Marks : ~Has(e2, S) => ~Has(e3, S)
      BY <1>3, <1>4
    <2>4. \A S \in SUBSET Marks : ~Has(e3, S) => ~Has(e4, S)
      BY <1>3, <1>4
    <2> QED
      BY <2>1, <2>2, <2>3, <2>4
  <1>6. ASSUME NEW c \in chosen \cap Inserting PROVE ~Has(e4, Removable(c))
    <2>1. Removable(c) \in SUBSET Marks
      BY Alphabet
    <2>2. \/ ~Has(e1, Removable(c)) \/ ~Has(e3, Removable(c)) \/ ~Has(e4, Removable(c))
      <3>1. CASE c = CleanOrder[1]
        BY <1>3, <3>1
      <3>2. CASE c = CleanOrder[3]
        BY <1>3, <1>4, <3>2
      <3>3. CASE c = CleanOrder[4]
        BY <1>3, <1>4, <3>3
      <3> QED
        BY <1>2, <3>1, <3>2, <3>3
    <2> QED
      BY <1>5, <2>1, <2>2
  <1> HIDE DEF e1, e2, e3, e4
  <1> QED
    BY <1>1, <1>4, <1>5, <1>6

\* A text without marks of a class is what stripping it leaves.
LEMMA StripNothing ==
    ASSUME NEW d \in Seq(Symbols), NEW c \in Inserting, ~Has(d, Removable(c))
    PROVE  Strip(c, d) = d
PROOF
  <1>1. "twin" \in Symbols /\ Symbols \in SUBSET Symbols
    BY Alphabet
  <1> DEFINE W == Symbols \ Removable(c)
  <1>2. Strip(c, d) = Only(d, W)
    BY <1>1, StripOut
  <1>3. d \in Seq(W)
    BY Without
  <1> HIDE DEF W
  <1>4. Only(d, W) = d
    BY <1>3, OnlyAll
  <1> QED
    BY <1>2, <1>4

\* Two sequences that differ outside a set keep the same of it.
LEMMA SameKept ==
    ASSUME NEW T, NEW d \in Seq(T), NEW e \in Seq(T), NEW Q, Len(d) = Len(e),
           \A i \in 1..Len(d) : d[i] = e[i] \/ (d[i] \notin Q /\ e[i] \notin Q)
    PROVE  Only(d, Q) = Only(e, Q)
PROOF
  <1> DEFINE R == {p \in T \X T : p[1] = p[2] \/ (p[1] \notin Q /\ p[2] \notin Q)}
             u == Only(d, Q)
             w == Only(e, Q)
  <1>1. \A x \in T, y \in T : <<x, y>> \in R => (x \in Q <=> y \in Q)
    OBVIOUS
  <1>2. Pairwise(d, e, R)
    BY DEF Pairwise
  <1> HIDE DEF R
  <1>3. Pairwise(u, w, R)
    BY <1>1, <1>2, OnlyPairwise
  <1>4. u \in Seq(T \cap Q) /\ w \in Seq(T \cap Q)
    BY OnlyType
  <1> HIDE DEF u, w
  <1>6. Len(u) = Len(w)
    BY <1>3 DEF Pairwise
  <1>5. ASSUME NEW i \in 1..Len(u) PROVE u[i] = w[i]
    <2>1. u[i] \in Q /\ w[i] \in Q
      BY <1>4, <1>6
    <2>2. <<u[i], w[i]>> \in R
      BY <1>3 DEF Pairwise
    <2> QED
      BY <2>1, <2>2 DEF R
  <1>7. u = w
    <2>1. u = [i \in 1..Len(u) |-> u[i]] /\ w = [i \in 1..Len(w) |-> w[i]]
      BY <1>4
    <2> QED
      BY <1>5, <1>6, <2>1
  <1> QED
    BY <1>7 DEF u, w

\* What a symbol of a file stands for is a mark, or itself.
LEMMA UnescapedIs ==
    /\ \A s \in FileSymbols : Unescaped(s) \in Symbols
    /\ \A s \in FileSymbols : /\ Unescaped(s) = s \/ (s \notin Symbols /\ Unescaped(s) \in Marks)
                              /\ s \in Symbols => Unescaped(s) = s
    /\ References \cap Symbols = {} /\ Symbols \subseteq FileSymbols
PROOF
  <1>1. /\ "zero_width" \in Inserting /\ "whitespace_var" \in Inserting
        /\ Bit0["zero_width"] = "zw0" /\ Bit1["whitespace_var"] = "ws1"
    BY DEF Inserting, Bit0, Bit1
  <1>2. "zw0" \in Marks /\ "ws1" \in Marks /\ Marks \subseteq Symbols
    BY <1>1, Alphabet
  <1>3. References \cap Symbols = {}
    <2>1. Marks \subseteq {"zw0", "zw1", "ws0", "ws1", "ws,", "ws+", "bd0", "bd1", "bd,", "bd+"}
      <3> DEFINE all == {"zw0", "zw1", "ws0", "ws1", "ws,", "ws+", "bd0", "bd1", "bd,", "bd+"}
      <3>1. Inserting = {"zero_width", "whitespace_var", "bidi"} /\ Delimiting = {"whitespace_var", "bidi"}
        BY DEF Inserting, Delimiting, Bit0, Delim
      <3>2. /\ Removable("zero_width") = {"zw0", "zw1"}
            /\ Removable("whitespace_var") = {"ws0", "ws1", "ws,", "ws+"}
            /\ Removable("bidi") = {"bd0", "bd1", "bd,", "bd+"}
        BY <3>1 DEF Removable, Occupying, Bit0, Bit1, Delim, Spare
      <3>3. \A c \in Inserting : Removable(c) \subseteq all
        BY <3>1, <3>2
      <3> HIDE DEF all
      <3>4. Marks \subseteq all
        BY <3>3 DEF Marks
      <3> QED
        BY <3>4 DEF all
    <2>2. References \cap Visible = {}
      BY DEF References, Visible, Letters, LatinLetters, HighLatin, HighSymbols
    <2> QED
      BY <2>1, <2>2 DEF References, Symbols, FormatControl
  <1> QED
    BY <1>2, <1>3 DEF Unescaped, References, FileSymbols

\* A text node stripped of marks loses marks and nothing else.
LEMMA StripNode ==
    ASSUME NEW d \in Seq(FileSymbols), NEW chosen, "homoglyph" \notin chosen
    PROVE  \E W : /\ FileSymbols \ Marks \subseteq W
                  /\ StripEach(CleanOrder, chosen, d) = Only(d, W)
PROOF
  <1> DEFINE Cut(u) == \E W : FileSymbols \ Marks \subseteq W /\ u = Only(d, W)
             step(i, u) == IF CleanOrder[i] \in chosen THEN Strip(CleanOrder[i], u) ELSE u
  <1>1. Cut(d)
    <2>1. Only(d, FileSymbols) = d
      BY OnlyAll
    <2> QED
      BY <2>1
  <1>2. ASSUME NEW u, Cut(u), NEW c \in Inserting PROVE Cut(Strip(c, u))
    <2>1. PICK W : FileSymbols \ Marks \subseteq W /\ u = Only(d, W)
      BY <1>2
    <2>2. u \in Seq(FileSymbols)
      <3>1. Only(d, W) \in Seq(FileSymbols \cap W)
        BY OnlyType
      <3> QED
        BY <2>1, <3>1
    <2> DEFINE V == FileSymbols \ Removable(c)
    <2>3. Strip(c, u) = Only(u, V)
      <3>1. c # "homoglyph"
        BY Alphabet
      <3>2. Free(u, Removable(c)) = Only(u, V)
        BY <2>2, FreeIsOnly
      <3> QED
        BY <3>1, <3>2 DEF Strip
    <2>4. FileSymbols \ Marks \subseteq W \cap V
      BY <2>1, Alphabet
    <2> HIDE DEF V
    <2>5. Only(Only(d, W), V) = Only(d, W \cap V)
      BY OnlyOnly
    <2> QED
      BY <2>1, <2>3, <2>4, <2>5
  <1>3. ASSUME NEW i \in 1..4, NEW u, Cut(u) PROVE Cut(step(i, u))
    <2>1. CASE CleanOrder[i] \in chosen
      <3>1. CleanOrder[i] \in Inserting
        BY <2>1 DEF CleanOrder, Inserting, Bit0
      <3> HIDE DEF Cut
      <3>2. Cut(Strip(CleanOrder[i], u))
        BY <1>2, <1>3, <3>1
      <3> QED
        BY <2>1, <3>2
    <2>2. CASE CleanOrder[i] \notin chosen
      BY <1>3, <2>2
    <2> QED
      BY <2>1, <2>2
  <1>4. StripEach(CleanOrder, chosen, d) = step(4, step(3, step(2, step(1, d))))
    BY DEF StripEach
  <1> HIDE DEF step, Cut
  <1>5. Cut(StripEach(CleanOrder, chosen, d))
    BY <1>1, <1>3, <1>4
  <1> QED
    BY <1>5 DEF Cut

\* What is left of a text node reads, but for marks, as it did; and shows no mark
\* it did not show.
LEMMA SpelledOnly ==
    ASSUME NEW d \in Seq(FileSymbols)
    PROVE  /\ \A Q : Q \cap Marks = {} /\ Q \subseteq Symbols => Only(Spelled(d), Q) = Only(d, Q)
           /\ \A Q : Has(Spelled(d), Q) <=> Has(d, {s \in FileSymbols : Unescaped(s) \in Q})
PROOF
  <1> DEFINE e == Spelled(d)
  <1>1. e \in Seq(Symbols) /\ Len(e) = Len(d) /\ Len(d) \in Nat
        /\ \A i \in 1..Len(d) : e[i] = Unescaped(d[i]) /\ d[i] \in FileSymbols
    BY SpelledIs
  <1> HIDE DEF e
  <1>2. ASSUME NEW Q, Q \cap Marks = {}, Q \subseteq Symbols PROVE Only(e, Q) = Only(d, Q)
    <2>1. e \in Seq(FileSymbols)
      BY <1>1, UnescapedIs, SeqMonotonic
    <2>2. ASSUME NEW i \in 1..Len(e) PROVE e[i] = d[i] \/ (e[i] \notin Q /\ d[i] \notin Q)
      BY <1>1, <1>2, UnescapedIs
    <2>3. Len(e) = Len(d)
      BY <1>1
    <2> QED
      BY <2>1, <2>2, <2>3, SameKept
  <1>3. ASSUME NEW Q PROVE Has(e, Q) <=> Has(d, {s \in FileSymbols : Unescaped(s) \in Q})
    <2>1. DOMAIN e = 1..Len(d) /\ DOMAIN d = 1..Len(d)
      BY <1>1
    <2> QED
      BY <1>1, <2>1 DEF Has
  <1> QED
    BY <1>2, <1>3 DEF e

\* Cleaning a text node takes marks alone out of it, and adds none.
LEMMA NodeCleaned ==
    ASSUME NEW d \in Seq(FileSymbols), NEW chosen, "homoglyph" \notin chosen
    PROVE  /\ StripEach(CleanOrder, chosen, d) \in Seq(FileSymbols)
           /\ Bare(Spelled(StripEach(CleanOrder, chosen, d))) = Bare(Spelled(d))
           /\ \A Q : Has(Spelled(StripEach(CleanOrder, chosen, d)), Q) => Has(Spelled(d), Q)
PROOF
  <1> DEFINE P == Symbols \ Marks
             e == StripEach(CleanOrder, chosen, d)
  <1>1. PICK W : FileSymbols \ Marks \subseteq W /\ e = Only(d, W)
    BY StripNode
  <1> HIDE DEF e
  <1>2. Only(d, W) \in Seq(FileSymbols \cap W) /\ \A R : Has(Only(d, W), R) <=> Has(d, W \cap R)
    BY OnlyType
  <1>3. e \in Seq(FileSymbols)
    BY <1>1, <1>2
  <1>4. Only(e, P) = Only(d, P)
    <2>1. W \cap P = P
      BY <1>1, UnescapedIs
    <2>2. Only(Only(d, W), P) = Only(d, W \cap P)
      BY OnlyOnly
    <2> QED
      BY <1>1, <2>1, <2>2
  <1>5. Only(Spelled(e), P) = Only(e, P) /\ Only(Spelled(d), P) = Only(d, P)
    <2>1. P \cap Marks = {} /\ P \subseteq Symbols
      OBVIOUS
    <2> HIDE DEF P
    <2> QED
      BY <1>3, <2>1, SpelledOnly
  <1>6. ASSUME NEW Q, Has(Spelled(e), Q) PROVE Has(Spelled(d), Q)
    <2> DEFINE V == {s \in FileSymbols : Unescaped(s) \in Q}
    <2>1. Has(e, V)
      BY <1>3, <1>6, SpelledOnly
    <2>2. Has(d, W \cap V)
      BY <1>1, <1>2, <2>1
    <2>3. Has(d, V)
      BY <2>2 DEF Has
    <2> QED
      BY <2>3, SpelledOnly
  <1> QED
    BY <1>3, <1>4, <1>5, <1>6 DEF e, Bare

-----------------------------------------------------------------------------
(* Archives edited: what is new in them, and what shape they keep.         *)

Retypings == {p \in Symbols \X Symbols : p[1] = p[2] \/ {p[1], p[2]} \subseteq {"twin", "latin"}}

\* A run shows nothing of a kind that another did not; and reads, but for marks and
\* letters retyped, as another did.
Showing(Q) ==
    {p \in FileRuns \X FileRuns :
        /\ p[1].shown = p[2].shown
        /\ Has(Spelled(p[1].chars), Q) => Has(Spelled(p[2].chars), Q)}
Shaping ==
    {p \in FileRuns \X FileRuns :
        /\ p[1].shown = p[2].shown /\ p[1].bold = p[2].bold
        /\ Pairwise(Bare(Spelled(p[1].chars)), Bare(Spelled(p[2].chars)), Retypings)}

\* A run shows no more than itself, and reads as any run with the same text but for marks.
LEMMA RelatesItself ==
    /\ \A y \in FileRuns : \A Q : <<y, y>> \in Showing(Q)
    /\ \A y \in FileRuns : <<y, y>> \in Shaping
    /\ \A x \in FileRuns : \A y \in FileRuns : x.shown = y.shown /\ x.bold = y.bold
            /\ Bare(Spelled(x.chars)) = Bare(Spelled(y.chars)) => <<x, y>> \in Shaping
PROOF
  <1>1. ASSUME NEW d \in Seq(Symbols) PROVE Pairwise(d, d, Retypings)
    BY <1>1, ElementOfSeq DEF Pairwise, Retypings
  <1>2. ASSUME NEW y \in FileRuns PROVE Pairwise(Bare(Spelled(y.chars)), Bare(Spelled(y.chars)), Retypings)
    <2>1. y.chars \in Seq(FileSymbols)
      BY DEF FileRuns
    <2>2. Spelled(y.chars) \in Seq(Symbols)
      BY <2>1, SpelledIs
    <2>3. Bare(Spelled(y.chars)) \in Seq(Symbols)
      BY <2>2, BareType
    <2> QED
      BY <1>1, <2>3
  <1>3. \A y \in FileRuns : \A Q : <<y, y>> \in Showing(Q)
    BY DEF Showing
  <1>4. ASSUME NEW x \in FileRuns, NEW y \in FileRuns, x.shown = y.shown, x.bold = y.bold,
               Bare(Spelled(x.chars)) = Bare(Spelled(y.chars))
        PROVE  <<x, y>> \in Shaping
    <2>1. Pairwise(Bare(Spelled(x.chars)), Bare(Spelled(y.chars)), Retypings)
      BY <1>2, <1>4
    <2> QED
      BY <1>4, <2>1 DEF Shaping
  <1> QED
    BY <1>3, <1>4

\* A letter of a run retyped.
LEMMA RetypedRun ==
    ASSUME NEW y \in FileRuns, NEW i \in DOMAIN y.chars, y.chars[i] \in {"twin", "latin"},
           NEW letter \in {"twin", "latin"}
    PROVE  LET x == [y EXCEPT !.chars = [@ EXCEPT ![i] = letter]]
           IN  /\ x \in FileRuns /\ <<x, y>> \in Shaping
               /\ \A Q \in SUBSET Marks : <<x, y>> \in Showing(Q)
PROOF
  <1> DEFINE d == y.chars
             e == [d EXCEPT ![i] = letter]
             x == [y EXCEPT !.chars = e]
             u == Spelled(e)
             v == Spelled(d)
  <1>1. d \in Seq(FileSymbols) /\ DOMAIN d = 1..Len(d) /\ Len(d) \in Nat
    BY DEF FileRuns
  <1>2. {"twin", "latin"} \subseteq Symbols \ Marks
    BY Alphabet DEF Visible, Letters, LatinLetters
  <1>3. e \in Seq(FileSymbols) /\ Len(e) = Len(d) /\ \A j \in 1..Len(d) : e[j] = IF j = i THEN letter ELSE d[j]
    <2>1. letter \in FileSymbols
      BY <1>2, UnescapedIs
    <2> QED
      BY <1>1, <2>1
  <1>4. x \in FileRuns /\ x.shown = y.shown /\ x.bold = y.bold /\ x.chars = e
    BY <1>3 DEF FileRuns
  <1>5. /\ u \in Seq(Symbols) /\ Len(u) = Len(d) /\ v \in Seq(Symbols) /\ Len(v) = Len(d)
        /\ \A j \in 1..Len(d) : u[j] = Unescaped(e[j]) /\ v[j] = Unescaped(d[j])
    BY <1>1, <1>3, SpelledIs
  <1> HIDE DEF e, u, v
  <1>6. ASSUME NEW j \in 1..Len(d) PROVE u[j] = v[j] \/ (u[j] \in {"twin", "latin"} /\ v[j] \in {"twin", "latin"})
    <2>1. CASE j = i
      BY <1>2, <1>3, <1>5, <2>1, UnescapedIs
    <2>2. CASE j # i
      BY <1>3, <1>5, <2>2
    <2> QED
      BY <2>1, <2>2
  <1>7. ASSUME NEW Q \in SUBSET Marks, Has(u, Q) PROVE Has(v, Q)
    <2>1. PICK j \in 1..Len(d) : u[j] \in Q
      BY <1>5, <1>7 DEF Has
    <2>2. v[j] \in Q
      BY <1>2, <1>6, <2>1
    <2> QED
      BY <1>5, <2>2 DEF Has
  <1>8. Pairwise(Bare(u), Bare(v), Retypings)
    <2>1. Pairwise(u, v, Retypings)
      <3>1. \A j \in 1..Len(d) : u[j] \in Symbols /\ v[j] \in Symbols
        BY <1>5
      <3> QED
        BY <1>5, <1>6, <3>1 DEF Pairwise, Retypings
    <2> DEFINE P == Symbols \ Marks
    <2>2. \A a \in Symbols, b \in Symbols : <<a, b>> \in Retypings => (a \in P <=> b \in P)
      BY <1>2 DEF Retypings
    <2> HIDE DEF P
    <2>3. Pairwise(Only(u, P), Only(v, P), Retypings)
      BY <1>5, <2>1, <2>2, OnlyPairwise
    <2> QED
      BY <2>3 DEF P, Bare
  <1> HIDE DEF x
  <1>9. <<x, y>> \in Shaping
    BY <1>4, <1>8 DEF Shaping, u, v
  <1>10. \A Q \in SUBSET Marks : <<x, y>> \in Showing(Q)
    BY <1>4, <1>7 DEF Showing, u, v
  <1> QED
    BY <1>4, <1>9, <1>10 DEF x, e

\* A mark or a reference to one pasted into a run.
LEMMA PastedRun ==
    ASSUME NEW y \in FileRuns, NEW i \in 0..Len(y.chars), NEW s \in Marks \cup References
    PROVE  LET x == [y EXCEPT !.chars = InsertAt(@, i + 1, s)]
           IN  /\ x \in FileRuns /\ <<x, y>> \in Shaping
               /\ \A Q : Unescaped(s) \notin Q => <<x, y>> \in Showing(Q)
PROOF
  <1> DEFINE d == y.chars
             e == InsertAt(d, i + 1, s)
             x == [y EXCEPT !.chars = e]
  <1>1. d \in Seq(FileSymbols) /\ s \in FileSymbols
    BY Alphabet, UnescapedIs DEF FileRuns, FileSymbols
  <1>2. e \in Seq(FileSymbols) /\ \A S : s \notin S => Only(e, S) = Only(d, S)
    BY <1>1, PutIn
  <1> HIDE DEF e
  <1>3. x \in FileRuns /\ x.shown = y.shown /\ x.bold = y.bold /\ x.chars = e
    BY <1>2 DEF FileRuns
  <1>4. Bare(Spelled(e)) = Bare(Spelled(d))
    <2> DEFINE P == Symbols \ Marks
    <2>1. s \notin P /\ P \cap Marks = {} /\ P \subseteq Symbols
      BY UnescapedIs
    <2> HIDE DEF P
    <2>2. Only(Spelled(e), P) = Only(e, P) /\ Only(Spelled(d), P) = Only(d, P)
      BY <1>1, <1>2, <2>1, SpelledOnly
    <2> QED
      BY <1>2, <2>1, <2>2 DEF Bare, P
  <1>5. ASSUME NEW Q, Unescaped(s) \notin Q, Has(Spelled(e), Q) PROVE Has(Spelled(d), Q)
    <2> DEFINE V == {z \in FileSymbols : Unescaped(z) \in Q}
    <2>1. Has(e, V)
      BY <1>2, <1>5, SpelledOnly
    <2>2. s \notin V
      BY <1>5
    <2>3. Only(e, V) = Only(d, V)
      BY <1>2, <2>2
    <2> HIDE DEF V
    <2>4. Has(d, V)
      BY <1>1, <1>2, <2>1, <2>3, SameHas
    <2> QED
      BY <1>1, <2>4, SpelledOnly DEF V
  <1> HIDE DEF x
  <1>6. <<x, y>> \in Shaping
    BY <1>3, <1>4, RelatesItself
  <1>7. \A Q : Unescaped(s) \notin Q => <<x, y>> \in Showing(Q)
    BY <1>3, <1>5 DEF Showing
  <1> QED
    BY <1>3, <1>6, <1>7 DEF x, e

\* A text node cleaned.
LEMMA CleanedRun ==
    ASSUME NEW y \in FileRuns, NEW chosen, "homoglyph" \notin chosen
    PROVE  LET x == [y EXCEPT !.chars = StripEach(CleanOrder, chosen, @)]
           IN  x \in FileRuns /\ <<x, y>> \in Shaping /\ \A Q : <<x, y>> \in Showing(Q)
PROOF
  <1> DEFINE d == y.chars
             e == StripEach(CleanOrder, chosen, d)
             x == [y EXCEPT !.chars = e]
  <1>1. d \in Seq(FileSymbols)
    BY DEF FileRuns
  <1>2. /\ e \in Seq(FileSymbols) /\ Bare(Spelled(e)) = Bare(Spelled(d))
        /\ \A Q : Has(Spelled(e), Q) => Has(Spelled(d), Q)
    BY <1>1, NodeCleaned
  <1> HIDE DEF e
  <1>3. x \in FileRuns /\ x.shown = y.shown /\ x.bold = y.bold /\ x.chars = e
    BY <1>2 DEF FileRuns
  <1> HIDE DEF x
  <1>4. <<x, y>> \in Shaping
    BY <1>2, <1>3, RelatesItself
  <1>5. \A Q : <<x, y>> \in Showing(Q)
    BY <1>2, <1>3 DEF Showing
  <1> QED
    BY <1>3, <1>4, <1>5 DEF x, e

Archives == Seq(Seq(FileRuns))

ShowAlike(R) == \A x \in FileRuns, y \in FileRuns : <<x, y>> \in R => x.shown = y.shown

ShownSo(a, b, R) ==
    /\ Len(Shown(a)) = Len(Shown(b))
    /\ \A k \in 1..Len(Shown(a)) :
        \E x \in FileRuns, y \in FileRuns :
            <<x, y>> \in R /\ Shown(a)[k] = Segment(x) /\ Shown(b)[k] = Segment(y)

\* Where runs are shown alike, those shown are related as all are.
LEMMA ShownPairwise ==
    ASSUME NEW R, NEW a \in Seq(FileRuns), NEW b \in Seq(FileRuns),
           ShowAlike(R), Pairwise(a, b, R)
    PROVE  ShownSo(a, b, R)
PROOF
  <1> DEFINE S == {run \in FileRuns : run.shown}
             u == ShownRuns(a)
             v == ShownRuns(b)
  <1>1. \A x \in FileRuns, y \in FileRuns : <<x, y>> \in R => (x \in S <=> y \in S)
    BY DEF ShowAlike
  <1>2. u = Only(a, S) /\ v = Only(b, S)
    BY DEF ShownRuns
  <1> HIDE DEF S
  <1>3. Pairwise(Only(a, S), Only(b, S), R)
    BY <1>1, OnlyPairwise
  <1> HIDE DEF u, v
  <1>4. Pairwise(u, v, R)
    BY <1>2, <1>3
  <1>5. /\ u \in Seq(FileRuns) /\ v \in Seq(FileRuns)
        /\ Len(Shown(a)) = Len(u) /\ Len(Shown(b)) = Len(v)
        /\ \A k \in 1..Len(Shown(a)) : Shown(a)[k] = Segment(u[k])
        /\ \A k \in 1..Len(Shown(b)) : Shown(b)[k] = Segment(v[k])
    BY ShownIs DEF u, v
  <1>6. Len(u) = Len(v) /\ \A k \in 1..Len(u) : <<u[k], v[k]>> \in R
    BY <1>4 DEF Pairwise
  <1>7. \A k \in 1..Len(u) : u[k] \in FileRuns /\ v[k] \in FileRuns
    BY <1>5, <1>6
  <1>8. ASSUME NEW k \in 1..Len(Shown(a))
        PROVE  \E x \in FileRuns, y \in FileRuns :
                    <<x, y>> \in R /\ Shown(a)[k] = Segment(x) /\ Shown(b)[k] = Segment(y)
    <2>1. k \in 1..Len(u) /\ k \in 1..Len(Shown(b))
      BY <1>5, <1>6
    <2>2. <<u[k], v[k]>> \in R /\ Shown(a)[k] = Segment(u[k]) /\ Shown(b)[k] = Segment(v[k])
      BY <1>5, <1>6, <2>1
    <2> QED
      BY <1>7, <2>1, <2>2
  <1> QED
    BY <1>5, <1>6, <1>8 DEF ShownSo

\* A reader is shown no mark of a kind that was not shown before.
LEMMA LoweredShows ==
    ASSUME NEW P \in Archives, NEW O \in Archives
    PROVE  \A Q : Q \cap Layout = {} /\ Paired(P, O, Showing(Q)) /\ Has(Lowered(P), Q)
                    => Has(Lowered(O), Q)
PROOF
  <1> DEFINE A == SegsOf(P)
             B == SegsOf(O)
  <1>0. P \in Seq(Seq(FileRuns)) /\ O \in Seq(Seq(FileRuns))
    BY DEF Archives
  <1>1. /\ A \in Outlines /\ Len(A) = Len(P) /\ Lowered(P) = LoweredOf(A) /\ Len(P) \in Nat
        /\ \A p \in 1..Len(P) : A[p] = Shown(P[p]) /\ P[p] \in Seq(FileRuns)
    BY <1>0, LoweredIs
  <1>2. /\ B \in Outlines /\ Len(B) = Len(O) /\ Lowered(O) = LoweredOf(B) /\ Len(O) \in Nat
        /\ \A p \in 1..Len(O) : B[p] = Shown(O[p]) /\ O[p] \in Seq(FileRuns)
    BY <1>0, LoweredIs
  <1> HIDE DEF A, B
  <1>3. ASSUME NEW Q, Q \cap Layout = {}, Paired(P, O, Showing(Q)), Has(Lowered(P), Q)
        PROVE  Has(Lowered(O), Q)
    <2>1. PICK p \in 1..Len(A) : \E k \in 1..Len(A[p]) : Has(A[p][k].chars, Q)
      BY <1>1, <1>3, LoweredHas
    <2>2. PICK k \in 1..Len(A[p]) : Has(A[p][k].chars, Q)
      BY <2>1
    <2>3. Len(O) = Len(P) /\ Pairwise(P[p], O[p], Showing(Q))
      BY <1>1, <1>3 DEF Paired
    <2>4. P[p] \in Seq(FileRuns) /\ O[p] \in Seq(FileRuns) /\ A[p] = Shown(P[p]) /\ B[p] = Shown(O[p])
      BY <1>1, <1>2, <2>3
    <2>5. ShowAlike(Showing(Q))
      BY DEF Showing, ShowAlike
    <2>6. /\ Len(A[p]) = Len(B[p])
          /\ \A j \in 1..Len(A[p]) : \E x \in FileRuns, y \in FileRuns :
                <<x, y>> \in Showing(Q) /\ A[p][j] = Segment(x) /\ B[p][j] = Segment(y)
      <3>1. ShownSo(P[p], O[p], Showing(Q))
        BY <2>3, <2>4, <2>5, ShownPairwise
      <3> QED
        BY <2>4, <3>1 DEF ShownSo
    <2>7. PICK x \in FileRuns, y \in FileRuns :
            <<x, y>> \in Showing(Q) /\ A[p][k] = Segment(x) /\ B[p][k] = Segment(y)
      BY <2>6
    <2>8. Has(Spelled(x.chars), Q) => Has(Spelled(y.chars), Q)
      BY <2>7 DEF Showing
    <2>9. Has(B[p][k].chars, Q)
      BY <2>2, <2>7, <2>8, SegmentIs
    <2>10. p \in 1..Len(B) /\ k \in 1..Len(B[p])
      BY <1>1, <1>2, <2>3, <2>6
    <2>11. Has(LoweredOf(B), Q)
      BY <1>2, <1>3, <2>9, <2>10, LoweredHas
    <2> QED
      BY <1>2, <2>11
  <1> QED
    BY <1>3

\* One run replaced by another.
LEMMA RunReplaced ==
    ASSUME NEW P \in Archives, NEW p \in 1..Len(P), NEW k \in 1..Len(P[p]), NEW x \in FileRuns
    PROVE  LET N == [P EXCEPT ![p] = [@ EXCEPT ![k] = x]]
           IN  /\ N \in Archives /\ P[p][k] \in FileRuns
               /\ \A R : (\A y \in FileRuns : <<y, y>> \in R) /\ <<x, P[p][k]>> \in R => Paired(N, P, R)
PROOF
  <1> DEFINE o == P[p]
             n == [o EXCEPT ![k] = x]
             N == [P EXCEPT ![p] = n]
  <1>1. /\ Len(P) \in Nat /\ DOMAIN P = 1..Len(P) /\ o \in Seq(FileRuns)
        /\ \A q \in 1..Len(P) : P[q] \in Seq(FileRuns)
    BY DEF Archives
  <1>2. Len(o) \in Nat /\ DOMAIN o = 1..Len(o) /\ \A j \in 1..Len(o) : o[j] \in FileRuns
    BY <1>1
  <1>3. n \in Seq(FileRuns) /\ Len(n) = Len(o) /\ \A j \in 1..Len(o) : n[j] = IF j = k THEN x ELSE o[j]
    <2> HIDE DEF o
    <2>1. n = [j \in 1..Len(o) |-> IF j = k THEN x ELSE o[j]]
      BY <1>2
    <2> HIDE DEF n
    <2> QED
      BY <1>2, <2>1
  <1>4. N \in Archives /\ Len(N) = Len(P) /\ \A q \in 1..Len(P) : N[q] = IF q = p THEN n ELSE P[q]
    <2> HIDE DEF n
    <2>1. P \in Seq(Seq(FileRuns))
      BY DEF Archives
    <2>2. N \in Seq(Seq(FileRuns))
      BY <1>3, <2>1
    <2> QED
      BY <1>1, <2>1, <2>2 DEF Archives
  <1> HIDE DEF N, n
  <1>5. ASSUME NEW R, \A y \in FileRuns : <<y, y>> \in R, <<x, o[k]>> \in R PROVE Paired(N, P, R)
    <2>1. Pairwise(n, o, R)
      BY <1>2, <1>3, <1>5 DEF Pairwise
    <2>2. ASSUME NEW q \in 1..Len(P) PROVE Pairwise(P[q], P[q], R)
      <3>1. \A j \in 1..Len(P[q]) : P[q][j] \in FileRuns
        BY <1>1
      <3> QED
        BY <1>5, <3>1 DEF Pairwise
    <2> QED
      BY <1>4, <2>1, <2>2 DEF Paired
  <1> QED
    BY <1>2, <1>4, <1>5 DEF N, n

\* Every text node cleaned.
LEMMA NodesRelate ==
    ASSUME NEW P \in Archives, NEW chosen, "homoglyph" \notin chosen
    PROVE  /\ NodesCleaned(P, chosen) \in Archives
           /\ Paired(NodesCleaned(P, chosen), P, Shaping)
           /\ \A Q : Paired(NodesCleaned(P, chosen), P, Showing(Q))
PROOF
  <1> DEFINE C(y) == [y EXCEPT !.chars = StripEach(CleanOrder, chosen, @)]
             N == NodesCleaned(P, chosen)
  <1>1. /\ Len(P) \in Nat /\ DOMAIN P = 1..Len(P)
        /\ \A q \in 1..Len(P) : P[q] \in Seq(FileRuns)
    BY DEF Archives
  <1>2. \A y \in FileRuns : C(y) \in FileRuns /\ <<C(y), y>> \in Shaping /\ \A Q : <<C(y), y>> \in Showing(Q)
    BY CleanedRun
  <1>3. N = [q \in DOMAIN P |-> [k \in DOMAIN P[q] |-> C(P[q][k])]]
    BY DEF NodesCleaned
  <1> HIDE DEF C, N
  <1>4. ASSUME NEW q \in 1..Len(P)
        PROVE  /\ N[q] \in Seq(FileRuns) /\ Len(N[q]) = Len(P[q])
               /\ \A k \in 1..Len(P[q]) : N[q][k] = C(P[q][k]) /\ P[q][k] \in FileRuns
    <2> DEFINE o == P[q]
               n == [k \in DOMAIN o |-> C(o[k])]
    <2>1. o \in Seq(FileRuns) /\ N[q] = n
      BY <1>1, <1>3
    <2> HIDE DEF o
    <2>2. Len(o) \in Nat /\ DOMAIN o = 1..Len(o) /\ \A k \in 1..Len(o) : o[k] \in FileRuns
      BY <2>1
    <2>4. \A k \in 1..Len(o) : C(o[k]) \in FileRuns
      BY <1>2, <2>2
    <2>5. n = [k \in 1..Len(o) |-> C(o[k])]
      BY <2>2
    <2>3. n \in Seq(FileRuns) /\ Len(n) = Len(o) /\ \A k \in 1..Len(o) : n[k] = C(o[k])
      BY <2>2, <2>4, <2>5
    <2> QED
      BY <2>1, <2>2, <2>3 DEF o
  <1>5. N \in Archives /\ Len(N) = Len(P)
    <2>1. N \in Seq(Seq(FileRuns)) /\ Len(N) = Len(P)
      BY <1>1, <1>3, <1>4
    <2> QED
      BY <2>1 DEF Archives
  <1>6. ASSUME NEW q \in 1..Len(P), NEW R, \A y \in FileRuns : <<C(y), y>> \in R
        PROVE  Pairwise(N[q], P[q], R)
    BY <1>4, <1>6 DEF Pairwise
  <1>7. Paired(N, P, Shaping)
    BY <1>2, <1>5, <1>6 DEF Paired
  <1>8. ASSUME NEW Q PROVE Paired(N, P, Showing(Q))
    <2>1. \A y \in FileRuns : <<C(y), y>> \in Showing(Q)
      BY <1>2
    <2> QED
      BY <1>5, <1>6, <2>1 DEF Paired
  <1> QED
    BY <1>5, <1>7, <1>8 DEF N

\* What is joined out of two lists is joined out of each.
LEMMA FlattenJoined ==
    ASSUME NEW T, NEW f \in Seq(Seq(T)), NEW g \in Seq(Seq(T))
    PROVE  FlattenSeq(f \o g) = FlattenSeq(f) \o FlattenSeq(g)
PROOF
  <1> DEFINE G == {v \in Seq(Seq(T)) : FlattenSeq(f \o v) = FlattenSeq(f) \o FlattenSeq(v)}
  <1>0. FlattenSeq(f) \in Seq(T) /\ <<>> \in Seq(T) /\ <<>> \in Seq(Seq(T))
    BY FlattenAppend
  <1>1. <<>> \in G
    <2>1. FlattenSeq(<<>>) = <<>>
      BY <1>0, FlattenAppend
    <2>2. f \o <<>> = f
      BY ConcatEmptySeq
    <2>3. FlattenSeq(f) \o <<>> = FlattenSeq(f)
      BY <1>0, ConcatEmptySeq
    <2> QED
      BY <1>0, <2>1, <2>2, <2>3
  <1>2. ASSUME NEW v \in Seq(Seq(T)) \cap G, NEW x \in Seq(T) PROVE Append(v, x) \in G
    <2> DEFINE fv == f \o v
               a == FlattenSeq(f)
               b == FlattenSeq(v)
    <2>1. v \in Seq(Seq(T)) /\ FlattenSeq(fv) = a \o b /\ Append(v, x) \in Seq(Seq(T))
      BY HasAppend
    <2>2. fv \in Seq(Seq(T)) /\ f \o Append(v, x) = Append(fv, x)
      <3>1. v \in Seq(Seq(T)) /\ x \in Seq(T)
        BY <2>1
      <3> QED
        BY <3>1, Joined, SMTT(60)
    <2> HIDE DEF fv
    <2>3. FlattenSeq(Append(fv, x)) = FlattenSeq(fv) \o x
      BY <2>2, FlattenAppend
    <2>4. FlattenSeq(Append(v, x)) = b \o x /\ b \in Seq(T)
      BY <2>1, FlattenAppend
    <2>5. a \in Seq(T)
      BY <1>0
    <2> HIDE DEF a, b
    <2>6. (a \o b) \o x = a \o (b \o x)
      BY <2>4, <2>5, ConcatAssociative, SMTT(60)
    <2>7. FlattenSeq(f \o Append(v, x)) = a \o FlattenSeq(Append(v, x))
      BY <2>1, <2>2, <2>3, <2>4, <2>6
    <2> QED
      BY <2>1, <2>7 DEF a
  <1> HIDE DEF G
  <1>3. g \in G
    BY <1>1, <1>2, EverySequence
  <1> QED
    BY <1>3 DEF G

\* A list of which only the first is not empty.
LEMMA FlattenFirst ==
    ASSUME NEW T, NEW f \in Seq(Seq(T)), f # <<>>, \A i \in 2..Len(f) : f[i] = <<>>
    PROVE  FlattenSeq(f) = f[1]
PROOF
  <1> DEFINE G == {v \in Seq(Seq(T)) : v # <<>> /\ (\A i \in 2..Len(v) : v[i] = <<>>)
                        => FlattenSeq(v) = v[1]}
  <1>1. <<>> \in G
    OBVIOUS
  <1>2. ASSUME NEW v \in Seq(Seq(T)) \cap G, NEW x \in Seq(T) PROVE Append(v, x) \in G
    <2> DEFINE w == Append(v, x)
    <2>0. v \in Seq(Seq(T))
      OBVIOUS
    <2>1. /\ w \in Seq(Seq(T)) /\ Len(w) = Len(v) + 1 /\ Len(v) \in Nat /\ w[Len(v) + 1] = x
          /\ \A i \in 1..Len(v) : w[i] = v[i]
      BY <2>0, HasAppend
    <2>2. FlattenSeq(w) = FlattenSeq(v) \o x
      BY <2>0, FlattenAppend
    <2> HIDE DEF w
    <2>3. ASSUME \A i \in 2..Len(w) : w[i] = <<>> PROVE FlattenSeq(w) = w[1]
      <3>1. CASE v = <<>>
        <4>1. FlattenSeq(v) = <<>>
          <5>1. <<>> \in Seq(T)
            OBVIOUS
          <5> QED
            BY <3>1, <5>1, FlattenAppend
        <4>2. <<>> \o x = x
          BY ConcatEmptySeq
        <4> QED
          BY <2>1, <2>2, <3>1, <4>1, <4>2
      <3>2. CASE v # <<>>
        <4>1. Len(v) >= 1
          BY <2>0, <2>1, <3>2
        <4>2. x = <<>> /\ w[1] = v[1] /\ \A i \in 2..Len(v) : v[i] = <<>>
          <5>1. \A i \in 2..Len(v) : i \in 2..Len(w) /\ i \in 1..Len(v)
            BY <2>1
          <5>2. Len(v) + 1 \in 2..Len(w) /\ 1 \in 1..Len(v)
            BY <2>1, <4>1
          <5>3. x = <<>>
            BY <2>1, <2>3, <5>2
          <5>4. w[1] = v[1]
            BY <2>1, <5>2
          <5>5. \A i \in 2..Len(v) : v[i] = <<>>
            BY <2>1, <2>3, <5>1
          <5> QED
            BY <5>3, <5>4, <5>5
        <4>3. FlattenSeq(v) = v[1]
          BY <3>2, <4>2
        <4>4. FlattenSeq(v) \in Seq(T)
          BY <2>0, FlattenAppend
        <4>5. FlattenSeq(v) \o <<>> = FlattenSeq(v)
          BY <4>4, ConcatEmptySeq
        <4> QED
          BY <2>2, <4>2, <4>3, <4>5
      <3> QED
        BY <3>1, <3>2
    <2> QED
      BY <2>1, <2>3 DEF w
  <1> HIDE DEF G
  <1>3. f \in G
    BY <1>1, <1>2, EverySequence
  <1> QED
    BY <1>3 DEF G

-----------------------------------------------------------------------------
(* Mojibake repaired, run by run.                                          *)

\* Where a run of what mojibake can be part of ends.
RunEnd(d, i) == Max({j \in i..Len(d) : \A k \in i..j : d[k] \in High})

\* It is where what follows, if anything, cannot be part of it.
LEMMA EndIs ==
    ASSUME NEW T, NEW d \in Seq(T), NEW i \in 1..Len(d)
    PROVE  /\ d[i] \in High => /\ RunEnd(d, i) \in i..Len(d)
                               /\ \A k \in i..RunEnd(d, i) : d[k] \in High
                               /\ RunEnd(d, i) = Len(d) \/ d[RunEnd(d, i) + 1] \notin High
           /\ \A e \in i..Len(d) : (\A k \in i..e : d[k] \in High) /\ (e = Len(d) \/ d[e + 1] \notin High)
                => RunEnd(d, i) = e
PROOF
  <1> DEFINE S == {j \in i..Len(d) : \A k \in i..j : d[k] \in High}
             m == RunEnd(d, i)
  <1>0. Len(d) \in Nat /\ S \in SUBSET (1..Len(d)) /\ m = Max(S)
    BY DEF RunEnd
  <1>1. ASSUME S # {} PROVE m \in S /\ \A y \in S : y <= m
    <2> DEFINE n == Len(d)
    <2>1. n \in Nat /\ S \in SUBSET (1..n)
      BY <1>0
    <2> HIDE DEF S, n, m
    <2>2. Max(S) \in S /\ \A y \in S : y <= Max(S)
      BY <1>1, <2>1, EndsAre
    <2> QED
      BY <1>0, <2>2
  <1> HIDE DEF m
  <1>2. ASSUME d[i] \in High
        PROVE  m \in i..Len(d) /\ (\A k \in i..m : d[k] \in High) /\ (m = Len(d) \/ d[m + 1] \notin High)
    <2>1. i \in S
      BY <1>0, <1>2
    <2>2. m \in S /\ \A y \in S : y <= m
      BY <1>1, <2>1
    <2>3. ASSUME m # Len(d), d[m + 1] \in High PROVE FALSE
      <3>1. m + 1 \in i..Len(d) /\ \A k \in i..(m + 1) : k \in i..m \/ k = m + 1
        BY <1>0, <2>2, <2>3
      <3>2. m + 1 \in S
        BY <2>2, <2>3, <3>1
      <3> QED
        BY <1>0, <2>2, <3>2, SMTT(60)
    <2> QED
      BY <2>2, <2>3
  <1>3. ASSUME NEW e \in i..Len(d), \A k \in i..e : d[k] \in High, e = Len(d) \/ d[e + 1] \notin High
        PROVE  m = e
    <2>1. e \in S
      BY <1>3
    <2>2. m \in S /\ \A y \in S : y <= m
      BY <1>1, <2>1
    <2>3. ASSUME m > e PROVE FALSE
      <3>1. e + 1 \in i..m /\ e # Len(d)
        BY <1>0, <2>2, <2>3
      <3> QED
        BY <1>3, <2>2, <3>1
    <2> QED
      BY <1>0, <2>1, <2>2, <2>3
  <1> QED
    BY <1>2, <1>3 DEF m

\* A run read again is shorter, or is as it was; as it is if it holds anything
\* that garbling does not make.
LEMMA RereadIs ==
    ASSUME NEW run \in Seq(Symbols)
    PROVE  /\ Reread(run) \in Seq(Symbols)
           /\ Reread(run) = run \/ Len(Reread(run)) < Len(run)
           /\ \A S : S \cap Mojibake = {} /\ Has(run, S) => Reread(run) = run
PROOF
  <1> DEFINE D == DOMAIN Garbled
             n == Len(run) \div 2
             read == {d \in BoundedSeq(D, n) : Garble(d) = run}
             w == CHOOSE d \in read : TRUE
  <1>1. Reread(run) = IF Range(run) \subseteq Mojibake /\ read # {} THEN w ELSE run
    BY DEF Reread
  <1>2. D \subseteq Symbols
    <2>1. "zero_width" \in Inserting /\ Bit0["zero_width"] = "zw0"
      BY DEF Inserting, Bit0
    <2>2. "zw0" \in Symbols
      BY <2>1, Alphabet
    <2>3. D = {"accent", "lead", "cont", "zw0"}
      BY DEF Garbled
    <2>4. {"accent", "lead", "cont"} \subseteq Symbols
      BY DEF Symbols, Visible, Letters, LatinLetters, HighLatin, HighSymbols
    <2> QED
      BY <2>2, <2>3, <2>4
  <1>3. Len(run) \in Nat /\ n \in Nat /\ 2 * n <= Len(run)
    OBVIOUS
  <1> HIDE DEF D
  <1>4. ASSUME read # {}
        PROVE  w \in Seq(Symbols) /\ (w = run \/ Len(w) < Len(run))
    <2>1. w \in BoundedSeq(D, n) /\ Garble(w) = run
      BY <1>4
    <2> HIDE DEF w
    <2>2. PICK m \in 0..n : w \in [1..m -> D]
      BY <2>1 DEF BoundedSeq, SeqOf
    <2>3. w \in Seq(Symbols) /\ Len(w) = m
      <3>1. w \in Seq(D) /\ Len(w) = m
        BY <1>3, <2>2
      <3> QED
        BY <1>2, <3>1, SeqMonotonic
    <2>4. CASE m < Len(run)
      BY <2>3, <2>4
    <2>5. CASE m >= Len(run)
      <3>1. m = 0 /\ Len(run) = 0
        <4> HIDE DEF n
        <4> QED
          BY <1>3, <2>5
      <3> QED
        BY <2>3, <3>1
    <2> QED
      BY <1>3, <2>3, <2>4, <2>5
  <1>5. ASSUME NEW S, S \cap Mojibake = {}, Has(run, S) PROVE ~(Range(run) \subseteq Mojibake)
    BY <1>5 DEF Has, Range
  <1> HIDE DEF w, read
  <1> QED
    BY <1>1, <1>4, <1>5

\* What becomes of each symbol of a text: of a run, where it begins.
PieceAt(d, i) ==
    IF d[i] \notin High THEN <<d[i]>>
    ELSE IF i > 1 /\ d[i - 1] \in High THEN <<>>
    ELSE Reread(SubSeq(d, i, RunEnd(d, i)))
PiecesOf(d) == [i \in DOMAIN d |-> PieceAt(d, i)]

\* A text repaired is its pieces, one after the other.
LEMMA PiecesAre ==
    ASSUME NEW d \in Seq(Symbols)
    PROVE  /\ Repaired(d) = FlattenSeq(PiecesOf(d)) /\ Repaired(d) \in Seq(Symbols)
           /\ PiecesOf(d) \in Seq(Seq(Symbols)) /\ Len(PiecesOf(d)) = Len(d)
           /\ \A i \in 1..Len(d) : PiecesOf(d)[i] = PieceAt(d, i)
PROOF
  <1>1. Repaired(d) = FlattenSeq(PiecesOf(d))
    BY DEF Repaired, PiecesOf, PieceAt, RunEnd
  <1>2. Len(d) \in Nat /\ DOMAIN d = 1..Len(d) /\ \A i \in 1..Len(d) : d[i] \in Symbols
    OBVIOUS
  <1>3. ASSUME NEW i \in 1..Len(d) PROVE PieceAt(d, i) \in Seq(Symbols)
    <2> DEFINE e == RunEnd(d, i)
    <2>1. <<d[i]>> \in Seq(Symbols)
      BY <1>2
    <2>2. ASSUME d[i] \in High PROVE SubSeq(d, i, e) \in Seq(Symbols)
      <3>1. e \in i..Len(d)
        BY <2>2, EndIs
      <3> HIDE DEF e
      <3>2. i \in Int /\ e \in Int /\ \A j \in i..e : d[j] \in Symbols
        BY <1>2, <3>1
      <3> QED
        BY <3>2, SubSeqProperties
    <2>3. ASSUME d[i] \in High PROVE Reread(SubSeq(d, i, e)) \in Seq(Symbols)
      BY <2>2, <2>3, RereadIs
    <2> HIDE DEF e
    <2> QED
      BY <2>1, <2>3 DEF PieceAt, e
  <1>4. PiecesOf(d) = [i \in 1..Len(d) |-> PieceAt(d, i)]
    BY <1>2 DEF PiecesOf
  <1>5. PiecesOf(d) \in Seq(Seq(Symbols)) /\ Len(PiecesOf(d)) = Len(d)
    BY <1>2, <1>3, <1>4
  <1>6. FlattenSeq(PiecesOf(d)) \in Seq(Symbols)
    BY <1>5, FlattenType
  <1> QED
    BY <1>1, <1>4, <1>5, <1>6

\* No run goes across where two texts meet.
Split(u, v) == u = <<>> \/ v = <<>> \/ u[Len(u)] \notin High \/ v[1] \notin High

\* Then the pieces of the whole are those of one and of the other.
LEMMA PiecesSplit ==
    ASSUME NEW u \in Seq(Symbols), NEW v \in Seq(Symbols), Split(u, v)
    PROVE  PiecesOf(u \o v) = PiecesOf(u) \o PiecesOf(v)
PROOF
  <1> DEFINE d == u \o v
             n == Len(u)
             m == Len(v)
             f == PiecesOf(u)
             g == PiecesOf(v)
             h == PiecesOf(d)
             fg == f \o g
  <1>1. /\ d \in Seq(Symbols) /\ Len(d) = n + m /\ n \in Nat /\ m \in Nat
        /\ \A i \in 1..n : d[i] = u[i]
        /\ \A i \in 1..m : d[n + i] = v[i]
    BY JoinedAt
  <1>2. /\ f \in Seq(Seq(Symbols)) /\ Len(f) = n /\ \A i \in 1..n : f[i] = PieceAt(u, i)
        /\ g \in Seq(Seq(Symbols)) /\ Len(g) = m /\ \A i \in 1..m : g[i] = PieceAt(v, i)
    BY PiecesAre
  <1>3. \A i \in 1..n : SubSeq(u, 1, i) \in Seq(Symbols)
    OBVIOUS
  <1>4. \A i \in 1..n : \A j \in i..n : SubSeq(d, i, j) = SubSeq(u, i, j)
    <2>1. ASSUME NEW i \in 1..n, NEW j \in i..n PROVE SubSeq(u \o v, i, j) = SubSeq(u, i, j)
      <3>1. i \in 1..Len(u) /\ j \in 1..Len(u)
        BY <1>1
      <3> QED
        BY <3>1, SubSeqOfConcat1
    <2> QED
      BY <2>1
  <1>5. \A i \in 1..m : \A j \in i..m : SubSeq(d, n + i, n + j) = SubSeq(v, i, j)
    <2>1. ASSUME NEW i \in 1..m, NEW j \in i..m PROVE SubSeq(u \o v, n + i, n + j) = SubSeq(v, i, j)
      <3>1. n + i \in Len(u) + 1..Len(u) + Len(v) /\ n + j \in Len(u) + 1..Len(u) + Len(v)
            /\ (n + i) - n = i /\ (n + j) - n = j
        BY <1>1
      <3>2. SubSeq(u \o v, n + i, n + j) = SubSeq(v, (n + i) - n, (n + j) - n)
        BY <3>1, SubSeqOfConcat2
      <3> QED
        BY <3>1, <3>2
    <2> QED
      BY <2>1
  <1>6. n > 0 /\ m > 0 => u[n] \notin High \/ v[1] \notin High
    BY <1>1 DEF Split
  <1> HIDE DEF d
  <1>7. ASSUME NEW i \in 1..n PROVE PieceAt(d, i) = PieceAt(u, i)
    <2>1. d[i] = u[i] /\ (i > 1 => d[i - 1] = u[i - 1])
      BY <1>1
    <2>2. ASSUME u[i] \in High PROVE SubSeq(d, i, RunEnd(d, i)) = SubSeq(u, i, RunEnd(u, i))
      <3> DEFINE e == RunEnd(u, i)
      <3>1. e \in i..n /\ (\A k \in i..e : u[k] \in High) /\ (e = n \/ u[e + 1] \notin High)
        BY <2>2, EndIs
      <3> HIDE DEF e
      <3>2. e \in i..Len(d) /\ i \in 1..Len(d) /\ \A k \in i..e : d[k] \in High
        BY <1>1, <3>1
      <3>3. e = Len(d) \/ d[e + 1] \notin High
        <4>1. CASE e < n
          <5>1. e + 1 \in 1..n /\ e # n
            BY <1>1, <3>1, <4>1
          <5> QED
            BY <1>1, <3>1, <5>1
        <4>2. CASE e = n /\ m = 0
          BY <1>1, <4>2
        <4>3. CASE e = n /\ m > 0
          <5>1. d[n + 1] = v[1] /\ u[n] \in High /\ n > 0
            BY <1>1, <3>1, <4>3
          <5> QED
            BY <1>6, <4>3, <5>1
        <4> QED
          BY <1>1, <3>1, <4>1, <4>2, <4>3
      <3>4. RunEnd(d, i) = e
        BY <1>1, <3>2, <3>3, EndIs
      <3> QED
        BY <1>4, <3>1, <3>4 DEF e
    <2> QED
      BY <2>1, <2>2 DEF PieceAt
  <1>8. ASSUME NEW i \in 1..m PROVE PieceAt(d, n + i) = PieceAt(v, i)
    <2>1. d[n + i] = v[i] /\ (i > 1 => d[(n + i) - 1] = v[i - 1])
      <3>1. i > 1 => (n + i) - 1 = n + (i - 1) /\ i - 1 \in 1..m
        BY <1>1
      <3> QED
        BY <1>1, <3>1
    <2>2. ASSUME v[i] \in High PROVE SubSeq(d, n + i, RunEnd(d, n + i)) = SubSeq(v, i, RunEnd(v, i))
      <3> DEFINE e == RunEnd(v, i)
      <3>1. e \in i..m /\ (\A k \in i..e : v[k] \in High) /\ (e = m \/ v[e + 1] \notin High)
        BY <2>2, EndIs
      <3> HIDE DEF e
      <3>2. n + e \in (n + i)..Len(d) /\ n + i \in 1..Len(d)
        BY <1>1, <3>1
      <3>3. ASSUME NEW k \in (n + i)..(n + e) PROVE d[k] \in High
        <4> DEFINE j == k - n
        <4>1. j \in 1..m /\ j \in i..e /\ k = n + j
          BY <1>1, <3>1
        <4> HIDE DEF j
        <4> QED
          BY <1>1, <3>1, <4>1
      <3>4. n + e = Len(d) \/ d[(n + e) + 1] \notin High
        <4>1. e # m => e + 1 \in 1..m /\ (n + e) + 1 = n + (e + 1)
          BY <1>1, <3>1
        <4> QED
          BY <1>1, <3>1, <4>1
      <3>5. RunEnd(d, n + i) = n + e
        BY <1>1, <3>2, <3>3, <3>4, EndIs
      <3> QED
        BY <1>5, <3>1, <3>5 DEF e
    <2>3. ASSUME v[i] \in High PROVE (n + i > 1 /\ d[(n + i) - 1] \in High) <=> (i > 1 /\ v[i - 1] \in High)
      <3>1. CASE i > 1
        BY <1>1, <2>1, <3>1
      <3>2. CASE i = 1 /\ n = 0
        BY <3>2
      <3>3. CASE i = 1 /\ n > 0
        <4>1. (n + i) - 1 = n /\ d[n] = u[n] /\ m > 0
          BY <1>1, <3>3
        <4> QED
          BY <1>1, <1>6, <2>3, <3>3, <4>1
      <3> QED
        BY <1>1, <3>1, <3>2, <3>3
    <2> QED
      BY <2>1, <2>2, <2>3 DEF PieceAt
  <1>9. h \in Seq(Seq(Symbols)) /\ Len(h) = n + m /\ \A i \in 1..(n + m) : h[i] = PieceAt(d, i)
    BY <1>1, PiecesAre
  <1>10. /\ fg \in Seq(Seq(Symbols)) /\ Len(fg) = n + m
         /\ \A i \in 1..n : fg[i] = f[i]
         /\ \A i \in 1..m : fg[n + i] = g[i]
    <2> HIDE DEF f, g
    <2>1. f \in Seq(Seq(Symbols)) /\ g \in Seq(Seq(Symbols))
      BY <1>2
    <2>2. /\ f \o g \in Seq(Seq(Symbols)) /\ Len(f \o g) = Len(f) + Len(g)
          /\ \A i \in 1..Len(f) : (f \o g)[i] = f[i]
          /\ \A i \in 1..Len(g) : (f \o g)[Len(f) + i] = g[i]
      BY <2>1, JoinedAt
    <2>3. Len(f) = n /\ Len(g) = m
      BY <1>2
    <2> QED
      BY <2>2, <2>3
  <1> HIDE DEF fg, f, g, h
  <1>11. ASSUME NEW i \in 1..(n + m) PROVE h[i] = fg[i]
    <2>1. CASE i \in 1..n
      BY <1>2, <1>7, <1>9, <1>10, <2>1
    <2>2. CASE i \notin 1..n
      <3> DEFINE j == i - n
      <3>1. j \in 1..m /\ i = n + j
        BY <1>1, <2>2
      <3> HIDE DEF j
      <3> QED
        BY <1>2, <1>8, <1>9, <1>10, <3>1
    <2> QED
      BY <2>1, <2>2
  <1>12. h = fg
    <2>1. h = [i \in 1..(n + m) |-> h[i]] /\ fg = [i \in 1..(n + m) |-> fg[i]]
      BY <1>9, <1>10
    <2> QED
      BY <1>11, <2>1
  <1> QED
    BY <1>12 DEF h, fg, f, g, d

\* So they are repaired each for itself.
LEMMA RepairedSplit ==
    ASSUME NEW u \in Seq(Symbols), NEW v \in Seq(Symbols), Split(u, v)
    PROVE  Repaired(u \o v) = Repaired(u) \o Repaired(v)
PROOF
  <1> DEFINE uv == u \o v
             f == PiecesOf(u)
             g == PiecesOf(v)
  <1>1. uv \in Seq(Symbols)
    BY ConcatProperties
  <1>2. PiecesOf(uv) = f \o g
    BY PiecesSplit
  <1> HIDE DEF uv
  <1>3. /\ f \in Seq(Seq(Symbols)) /\ g \in Seq(Seq(Symbols))
        /\ Repaired(u) = FlattenSeq(f) /\ Repaired(v) = FlattenSeq(g)
        /\ Repaired(uv) = FlattenSeq(PiecesOf(uv))
    BY <1>1, PiecesAre
  <1> HIDE DEF f, g
  <1>4. FlattenSeq(f \o g) = FlattenSeq(f) \o FlattenSeq(g)
    BY <1>3, FlattenJoined
  <1> QED
    BY <1>2, <1>3, <1>4 DEF uv

\* A text that is nothing, that is one character of ASCII, that is one run.
LEMMA RepairedRun ==
    /\ Repaired(<<>>) = <<>>
    /\ \A x \in Symbols \ High : Repaired(<<x>>) = <<x>>
    /\ \A h \in Seq(Symbols) : h \in Seq(High) /\ h # <<>> => Repaired(h) = Reread(h)
PROOF
  <1>1. Repaired(<<>>) = <<>>
    <2>1. <<>> \in Seq(Symbols) /\ Len(<<>>) = 0
      OBVIOUS
    <2>2. PiecesOf(<<>>) \in Seq(Seq(Symbols)) /\ Len(PiecesOf(<<>>)) = 0
          /\ Repaired(<<>>) = FlattenSeq(PiecesOf(<<>>))
      BY <2>1, PiecesAre
    <2>3. PiecesOf(<<>>) = <<>>
      BY <2>2
    <2>4. FlattenSeq(<<>>) = <<>>
      <3>1. <<>> \in Seq(Seq(Symbols))
        OBVIOUS
      <3> QED
        BY <2>1, <3>1, FlattenAppend
    <2> QED
      BY <2>2, <2>3, <2>4
  <1>2. ASSUME NEW d \in Seq(Symbols), d # <<>>, \A i \in 2..Len(d) : PieceAt(d, i) = <<>>
        PROVE  Repaired(d) = PieceAt(d, 1)
    <2> DEFINE f == PiecesOf(d)
    <2>1. /\ f \in Seq(Seq(Symbols)) /\ Repaired(d) = FlattenSeq(f) /\ Len(f) = Len(d)
          /\ \A i \in 1..Len(d) : f[i] = PieceAt(d, i)
      BY PiecesAre
    <2> HIDE DEF f
    <2>2. Len(d) \in Nat /\ Len(d) >= 1
      BY <1>2
    <2>3. f # <<>> /\ f[1] = PieceAt(d, 1)
      BY <2>1, <2>2
    <2>4. ASSUME NEW i \in 2..Len(f) PROVE f[i] = <<>>
      BY <1>2, <2>1, <2>2
    <2>5. FlattenSeq(f) = f[1]
      BY <2>1, <2>3, <2>4, FlattenFirst
    <2> QED
      BY <2>1, <2>3, <2>5
  <1>3. ASSUME NEW x \in Symbols \ High PROVE Repaired(<<x>>) = <<x>>
    <2>1. <<x>> \in Seq(Symbols) /\ <<x>> # <<>> /\ Len(<<x>>) = 1 /\ <<x>>[1] = x
      OBVIOUS
    <2>2. PieceAt(<<x>>, 1) = <<x>>
      BY <2>1 DEF PieceAt
    <2>3. \A i \in 2..Len(<<x>>) : PieceAt(<<x>>, i) = <<>>
      BY <2>1
    <2> QED
      BY <1>2, <2>1, <2>2, <2>3
  <1>4. ASSUME NEW h \in Seq(Symbols), h \in Seq(High), h # <<>> PROVE Repaired(h) = Reread(h)
    <2>1. Len(h) \in Nat /\ Len(h) >= 1 /\ \A i \in 1..Len(h) : h[i] \in High
      BY <1>4
    <2>2. \A i \in 2..Len(h) : PieceAt(h, i) = <<>>
      <3>1. ASSUME NEW i \in 2..Len(h) PROVE PieceAt(h, i) = <<>>
        <4>1. i \in 1..Len(h) /\ i - 1 \in 1..Len(h) /\ i > 1
          BY <2>1
        <4> QED
          BY <2>1, <4>1 DEF PieceAt
      <3> QED
        BY <3>1
    <2>3. RunEnd(h, 1) = Len(h)
      BY <2>1, EndIs
    <2>4. SubSeq(h, 1, Len(h)) = h
      BY SubSeqFull
    <2>5. PieceAt(h, 1) = Reread(h)
      <3>1. h[1] \in High /\ ~(1 > 1)
        BY <2>1
      <3>2. PieceAt(h, 1) = Reread(SubSeq(h, 1, RunEnd(h, 1)))
        BY <3>1 DEF PieceAt
      <3> QED
        BY <2>3, <2>4, <3>2
    <2> QED
      BY <1>2, <1>4, <2>2, <2>5
  <1> QED
    BY <1>1, <1>3, <1>4

\* A run repaired: as RereadIs says.
LEMMA RunRepaired ==
    ASSUME NEW h \in Seq(Symbols), h \in Seq(High)
    PROVE  /\ Len(Repaired(h)) <= Len(h)
           /\ Len(Repaired(h)) = Len(h) => Repaired(h) = h
           /\ \A S : S \cap Mojibake = {} /\ Has(h, S) => Repaired(h) = h
PROOF
  <1>1. CASE h = <<>>
    BY <1>1, RepairedRun
  <1>2. CASE h # <<>>
    <2>1. Repaired(h) = Reread(h)
      BY <1>2, RepairedRun
    <2>2. /\ Reread(h) \in Seq(Symbols) /\ (Reread(h) = h \/ Len(Reread(h)) < Len(h))
          /\ \A S : S \cap Mojibake = {} /\ Has(h, S) => Reread(h) = h
      BY RereadIs
    <2>3. Len(h) \in Nat /\ Len(Reread(h)) \in Nat
      BY <2>2
    <2> QED
      BY <2>1, <2>2, <2>3
  <1> QED
    BY <1>1, <1>2

\* A text is one, and then a run that is its end.
Tailed(u, a, x) == a \in Seq(Symbols) /\ x \in Seq(Symbols) /\ x \in Seq(High) /\ u = a \o x
                   /\ (a = <<>> \/ a[Len(a)] \notin High)

\* Such a run is repaired for itself.
LEMMA TailedSplit ==
    ASSUME NEW u, NEW a, NEW x, Tailed(u, a, x)
    PROVE  Split(a, x) /\ Repaired(u) = Repaired(a) \o Repaired(x)
PROOF
  <1>1. Split(a, x) /\ a \in Seq(Symbols) /\ x \in Seq(Symbols) /\ u = a \o x
    BY DEF Tailed, Split
  <1> QED
    BY <1>1, RepairedSplit

\* A text repaired gets no longer.
LEMMA RepairedSize ==
    ASSUME NEW d \in Seq(Symbols)
    PROVE  /\ Len(Repaired(d)) <= Len(d) /\ Len(Repaired(d)) \in Nat /\ Len(d) \in Nat
           /\ \E a, x : Tailed(d, a, x)
PROOF
  <1> DEFINE G == {u \in Seq(Symbols) : \E a, x : Tailed(u, a, x) /\ Len(Repaired(a)) <= Len(a)}
  <1>0. ASSUME NEW u \in Seq(Symbols) \cap G PROVE Len(Repaired(u)) <= Len(u)
    <2>1. PICK a, x : Tailed(u, a, x) /\ Len(Repaired(a)) <= Len(a)
      BY <1>0
    <2> HIDE DEF G
    <2>2. Repaired(u) = Repaired(a) \o Repaired(x)
      BY <2>1, TailedSplit
    <2>3. a \in Seq(Symbols) /\ x \in Seq(Symbols) /\ x \in Seq(High) /\ u = a \o x
      BY <2>1 DEF Tailed
    <2>4. Repaired(a) \in Seq(Symbols) /\ Repaired(x) \in Seq(Symbols)
      BY <2>3, PiecesAre
    <2>5. Len(Repaired(x)) <= Len(x)
      BY <2>3, RunRepaired
    <2>6. Len(a \o x) = Len(a) + Len(x) /\ Len(a) \in Nat /\ Len(x) \in Nat
      BY <2>3, JoinedAt
    <2> DEFINE ra == Repaired(a)
               rx == Repaired(x)
    <2>7. ra \in Seq(Symbols) /\ rx \in Seq(Symbols)
      BY <2>4
    <2> HIDE DEF ra, rx
    <2>8. Len(ra \o rx) = Len(ra) + Len(rx) /\ Len(ra) \in Nat /\ Len(rx) \in Nat
      BY <2>7, JoinedAt
    <2> QED
      BY <2>1, <2>2, <2>3, <2>5, <2>6, <2>8 DEF ra, rx
  <1>1. <<>> \in G
    <2>1. Tailed(<<>>, <<>>, <<>>)
      BY DEF Tailed
    <2> QED
      BY <2>1, RepairedRun
  <1>2. ASSUME NEW u \in Seq(Symbols) \cap G, NEW c \in Symbols PROVE Append(u, c) \in G
    <2> DEFINE w == Append(u, c)
    <2>1. PICK a, x : Tailed(u, a, x) /\ Len(Repaired(a)) <= Len(a)
      OBVIOUS
    <2>2. Len(Repaired(u)) <= Len(u)
      BY <1>0
    <2>3. u \in Seq(Symbols)
      OBVIOUS
    <2> HIDE DEF G
    <2>4. /\ w \in Seq(Symbols) /\ Len(w) = Len(u) + 1 /\ Len(u) \in Nat /\ w[Len(u) + 1] = c
      BY <2>3, HasAppend
    <2>5. u \o <<c>> = w /\ <<c>> \in Seq(Symbols)
      BY <2>3, Joined
    <2> HIDE DEF w
    <2>6. CASE c \in High
      <3>1. a \in Seq(Symbols) /\ x \in Seq(Symbols) /\ x \in Seq(High) /\ u = a \o x
            /\ (a = <<>> \/ a[Len(a)] \notin High)
        BY <2>1 DEF Tailed
      <3>2. a \o Append(x, c) = Append(a \o x, c)
        BY <3>1, Joined
      <3>3. Append(x, c) \in Seq(Symbols) /\ Append(x, c) \in Seq(High)
        BY <2>6, <3>1
      <3>4. Tailed(w, a, Append(x, c))
        BY <3>1, <3>2, <3>3 DEF Tailed, w
      <3> QED
        BY <2>1, <2>4, <3>4 DEF G, w
    <2>7. CASE c \notin High
      <3>1. Split(u, <<c>>)
        BY <2>7 DEF Split
      <3>2. Repaired(w) = Repaired(u) \o <<c>>
        BY <2>3, <2>5, <2>7, <3>1, RepairedSplit, RepairedRun
      <3>3. Repaired(u) \in Seq(Symbols)
        BY <2>3, PiecesAre
      <3>4. Repaired(u) \o <<c>> = Append(Repaired(u), c)
        BY <3>3, Joined
      <3>5. Len(Repaired(w)) <= Len(w)
        BY <2>2, <2>4, <3>2, <3>3, <3>4
      <3>6. Tailed(w, w, <<>>)
        <4>1. w \o <<>> = w
          BY <2>4, ConcatEmptySeq
        <4> QED
          BY <2>4, <2>7, <4>1 DEF Tailed
      <3> QED
        BY <2>4, <3>5, <3>6 DEF G, w
    <2> QED
      BY <2>6, <2>7
  <1>3. d \in G
    <2> HIDE DEF G
    <2> QED
      BY <1>1, <1>2, EverySequence
  <1>4. Len(Repaired(d)) <= Len(d)
    BY <1>0, <1>3
  <1>5. \E a, x : Tailed(d, a, x)
    BY <1>3
  <1> QED
    BY <1>4, <1>5, PiecesAre

\* A text is one run that is its beginning, and then one.
Headed(v, y, b) == y \in Seq(Symbols) /\ y \in Seq(High) /\ b \in Seq(Symbols) /\ v = y \o b
                   /\ (b = <<>> \/ b[1] \notin High)

\* Every text begins with a run, if an empty one.
LEMMA HeadedSomehow ==
    ASSUME NEW d \in Seq(Symbols)
    PROVE  \E y, b : Headed(d, y, b)
PROOF
  <1> DEFINE G == {v \in Seq(Symbols) : \E y, b : Headed(v, y, b)}
  <1>1. <<>> \in G
    <2>1. Headed(<<>>, <<>>, <<>>)
      BY DEF Headed
    <2> QED
      BY <2>1
  <1>2. ASSUME NEW v \in Seq(Symbols) \cap G, NEW c \in Symbols PROVE Append(v, c) \in G
    <2> DEFINE w == Append(v, c)
    <2>1. PICK y, b : Headed(v, y, b)
      OBVIOUS
    <2>2. v \in Seq(Symbols)
      OBVIOUS
    <2> HIDE DEF G
    <2>3. y \in Seq(Symbols) /\ y \in Seq(High) /\ b \in Seq(Symbols) /\ v = y \o b
          /\ (b = <<>> \/ b[1] \notin High)
      BY <2>1 DEF Headed
    <2>4. w \in Seq(Symbols)
      BY <2>2, HasAppend
    <2>5. \E p, q : Headed(w, p, q)
      <3>1. CASE b # <<>> \/ c \notin High
        <4>1. w = y \o Append(b, c)
          <5>1. y \in Seq(Symbols) /\ b \in Seq(Symbols)
            BY <2>3
          <5>2. y \o Append(b, c) = Append(y \o b, c)
            BY <5>1, Joined
          <5> QED
            BY <2>3, <5>2 DEF w
        <4>2. Append(b, c) \in Seq(Symbols) /\ Len(b) \in Nat /\ Append(b, c)[Len(b) + 1] = c
              /\ \A i \in 1..Len(b) : Append(b, c)[i] = b[i]
          BY <2>3, HasAppend
        <4>3. Append(b, c)[1] \notin High
          <5>1. CASE b # <<>>
            <6>1. 1 \in 1..Len(b)
              BY <2>3, <4>2, <5>1
            <6> QED
              BY <2>3, <4>2, <5>1, <6>1
          <5>2. CASE b = <<>>
            <6>1. Len(b) + 1 = 1
              BY <5>2
            <6> QED
              BY <3>1, <4>2, <5>2, <6>1
          <5> QED
            BY <5>1, <5>2
        <4>4. Headed(w, y, Append(b, c))
          BY <2>3, <4>1, <4>2, <4>3 DEF Headed
        <4> QED
          BY <4>4
      <3>2. CASE b = <<>> /\ c \in High
        <4>1. v = y
          BY <2>3, <3>2, ConcatEmptySeq
        <4>2. w \o <<>> = w
          BY <2>4, ConcatEmptySeq
        <4>3. w \in Seq(High)
          BY <2>3, <3>2, <4>1
        <4>4. Headed(w, w, <<>>)
          BY <2>4, <4>2, <4>3 DEF Headed
        <4> QED
          BY <4>4
      <3> QED
        BY <3>1, <3>2
    <2> QED
      BY <2>4, <2>5 DEF G
  <1>3. d \in G
    <2> HIDE DEF G
    <2> QED
      BY <1>1, <1>2, EverySequence
  <1> QED
    BY <1>3

\* Where something is put into a sequence.
PutBetween(d, k, u, v) == d = u \o v /\ Len(u) = k /\ \A x : InsertAt(d, k + 1, x) = Three(u, <<x>>, v)

\* What is put into a sequence comes between its first and its last.
LEMMA PutBetweenSomehow ==
    ASSUME NEW T, NEW d \in Seq(T), NEW k \in 0..Len(d)
    PROVE  \E u \in Seq(T), v \in Seq(T) : PutBetween(d, k, u, v)
PROOF
  <1> DEFINE n == Len(d)
             u == SubSeq(d, 1, k)
             v == SubSeq(d, k + 1, n)
  <1>1. n \in Nat /\ \A i \in 1..n : d[i] \in T
    BY LenProperties, ElementOfSeq
  <1>2. \A x : InsertAt(d, k + 1, x) = Three(u, <<x>>, v)
    <2>1. (k + 1) - 1 = k
      OBVIOUS
    <2> QED
      BY <2>1 DEF InsertAt, Three
  <1>3. u \in Seq(T) /\ v \in Seq(T) /\ Len(u) = k
    <2>1. k \in Int /\ k + 1 \in Int /\ n \in Int /\ 1 \in Int
      BY <1>1
    <2>2. \A i \in 1..k : d[i] \in T
      BY <1>1
    <2>3. \A i \in (k + 1)..n : d[i] \in T
      BY <1>1
    <2> HIDE DEF n
    <2>4. SubSeq(d, 1, k) \in Seq(T) /\ Len(SubSeq(d, 1, k)) = k
      BY <2>1, <2>2, SubSeqProperties
    <2>5. SubSeq(d, k + 1, n) \in Seq(T)
      BY <2>1, <2>3, SubSeqProperties
    <2> QED
      BY <2>4, <2>5
  <1>4. u \o v = d
    <2>1. 1 \in 1..(n + 1) /\ k \in (1 - 1)..n /\ n \in k..n
      BY <1>1
    <2>2. SubSeq(d, 1, k) \o SubSeq(d, k + 1, n) = SubSeq(d, 1, n)
      BY <2>1, ConcatAdjacentSubSeq
    <2> QED
      BY <2>2, SubSeqFull
  <1> HIDE DEF u, v
  <1>5. PutBetween(d, k, u, v)
    BY <1>2, <1>3, <1>4 DEF PutBetween
  <1> QED
    BY <1>3, <1>5

\* Where something of a sequence is replaced.
SetBetween(d, i, u, v) == Len(u) = i - 1 /\ \A x : [d EXCEPT ![i] = x] = Three(u, <<x>>, v)

\* What of a sequence is replaced stands between its first and its last.
LEMMA SetBetweenSomehow ==
    ASSUME NEW T, NEW d \in Seq(T), NEW i \in 1..Len(d)
    PROVE  \E u \in Seq(T), v \in Seq(T) : SetBetween(d, i, u, v) /\ d = Three(u, <<d[i]>>, v)
PROOF
  <1> DEFINE n == Len(d)
             u == SubSeq(d, 1, i - 1)
             v == SubSeq(d, i + 1, n)
  <1>1. n \in Nat /\ \A j \in 1..n : d[j] \in T
    BY LenProperties, ElementOfSeq
  <1>2. /\ u \in Seq(T) /\ v \in Seq(T) /\ Len(u) = i - 1 /\ Len(v) = n - i
        /\ \A j \in 1..(i - 1) : u[j] = d[j]
        /\ \A j \in 1..(n - i) : v[j] = d[i + j]
    <2>1. i - 1 \in Int /\ i + 1 \in Int /\ n \in Int /\ 1 \in Int
      BY <1>1
    <2>2. \A j \in 1..(i - 1) : d[j] \in T
      BY <1>1
    <2>3. \A j \in (i + 1)..n : d[j] \in T
      BY <1>1
    <2>4. SubSeq(d, 1, i - 1) \in Seq(T) /\ Len(SubSeq(d, 1, i - 1)) = i - 1
          /\ \A j \in 1..(i - 1) : SubSeq(d, 1, i - 1)[j] = d[j]
      <3>1. u = [j \in 1..(i - 1) |-> d[1 + j - 1]]
        BY <2>1 DEF SubSeq
      <3> HIDE DEF n
      <3>2. \A j \in 1..(i - 1) : 1 + j - 1 = j
        OBVIOUS
      <3>3. u = [j \in 1..(i - 1) |-> d[j]]
        BY <3>1, <3>2
      <3>4. i - 1 \in Nat
        OBVIOUS
      <3> HIDE DEF u
      <3>5. u \in Seq(T) /\ Len(u) = i - 1 /\ \A j \in 1..(i - 1) : u[j] = d[j]
        BY <2>2, <3>3, <3>4
      <3> QED
        BY <3>5 DEF u
    <2>5. v \in Seq(T) /\ Len(v) = n - i /\ \A j \in 1..(n - i) : v[j] = d[i + j]
      <3>1. v = [j \in 1..(n - (i + 1) + 1) |-> d[(i + 1) + j - 1]]
        BY <2>1 DEF SubSeq
      <3>2. n - (i + 1) + 1 = n - i /\ \A j \in 1..(n - i) : (i + 1) + j - 1 = i + j
        BY <1>1
      <3>3. v = [j \in 1..(n - i) |-> d[i + j]]
        BY <3>1, <3>2
      <3>4. n - i \in Nat /\ \A j \in 1..(n - i) : d[i + j] \in T
        BY <1>1
      <3> HIDE DEF v, n
      <3> QED
        BY <3>3, <3>4
    <2> QED
      BY <2>4, <2>5
  <1> HIDE DEF u, v
  <1>3. ASSUME NEW x PROVE [d EXCEPT ![i] = x] = Three(u, <<x>>, v)
    <2> DEFINE A == T \cup {x}
               b == <<x>>
               ub == u \o b
               t == Three(u, <<x>>, v)
               e == [d EXCEPT ![i] = x]
    <2>1. u \in Seq(A) /\ v \in Seq(A) /\ b \in Seq(A) /\ Len(b) = 1 /\ b[1] = x
      <3>1. T \subseteq A /\ x \in A
        OBVIOUS
      <3> QED
        BY <1>2, <3>1, SeqMonotonic
    <2> HIDE DEF A, b
    <2>2. /\ ub \in Seq(A) /\ Len(ub) = Len(u) + Len(b)
          /\ \A j \in 1..Len(u) : ub[j] = u[j]
          /\ \A j \in 1..Len(b) : ub[Len(u) + j] = b[j]
      <3>1. u \in Seq(A) /\ b \in Seq(A)
        BY <2>1
      <3>2. /\ u \o b \in Seq(A) /\ Len(u \o b) = Len(u) + Len(b)
            /\ \A j \in 1..Len(u) : (u \o b)[j] = u[j]
            /\ \A j \in 1..Len(b) : (u \o b)[Len(u) + j] = b[j]
        BY <3>1, JoinedAt
      <3> QED
        BY <3>2
    <2> HIDE DEF ub
    <2>3. /\ ub \o v \in Seq(A) /\ Len(ub \o v) = Len(ub) + Len(v)
          /\ \A j \in 1..Len(ub) : (ub \o v)[j] = ub[j]
          /\ \A j \in 1..Len(v) : (ub \o v)[Len(ub) + j] = v[j]
      <3>1. ub \in Seq(A) /\ v \in Seq(A)
        BY <2>1, <2>2
      <3> QED
        BY <3>1, JoinedAt
    <2>4. t = ub \o v
      BY DEF Three, ub, b
    <2> HIDE DEF t
    <2>5. Len(t) = n /\ t \in Seq(A) /\ Len(ub) = i
      <3>1. Len(ub) = i
        BY <1>2, <2>1, <2>2
      <3>2. Len(ub \o v) = n
        BY <1>1, <1>2, <2>3, <3>1
      <3> QED
        BY <2>3, <2>4, <3>1, <3>2
    <2>6. ASSUME NEW j \in 1..n PROVE t[j] = IF j = i THEN x ELSE d[j]
      <3>1. CASE j < i
        <4>1. j \in 1..Len(u) /\ j \in 1..Len(ub) /\ j \in 1..(i - 1)
          BY <1>2, <2>5, <3>1
        <4> QED
          BY <1>2, <2>2, <2>3, <2>4, <3>1, <4>1
      <3>2. CASE j = i
        <4>1. 1 \in 1..Len(b) /\ Len(u) + 1 = i /\ j \in 1..Len(ub)
          BY <1>2, <2>1, <2>5, <3>2
        <4> QED
          BY <2>1, <2>2, <2>3, <2>4, <3>2, <4>1
      <3>3. CASE j > i
        <4> DEFINE m == j - i
        <4>1. m \in 1..(n - i) /\ j = i + m
          BY <1>1, <3>3
        <4> HIDE DEF m
        <4>2. t[i + m] = v[m]
          BY <1>2, <2>3, <2>4, <2>5, <4>1
        <4>3. v[m] = d[i + m]
          BY <1>2, <4>1
        <4> QED
          BY <3>3, <4>1, <4>2, <4>3
      <3> QED
        BY <3>1, <3>2, <3>3
    <2>7. e = [j \in 1..n |-> IF j = i THEN x ELSE d[j]]
      <3>1. d = [j \in 1..n |-> d[j]]
        BY <1>1
      <3> QED
        BY <3>1
    <2>8. t = [j \in 1..n |-> t[j]]
      BY <2>5
    <2>9. t = [j \in 1..n |-> IF j = i THEN x ELSE d[j]]
      BY <2>6, <2>8
    <2> QED
      BY <2>7, <2>9 DEF t
  <1>4. SetBetween(d, i, u, v)
    BY <1>2, <1>3 DEF SetBetween
  <1>5. d = Three(u, <<d[i]>>, v)
    <2>1. [d EXCEPT ![i] = d[i]] = d
      <3>1. d = [j \in 1..n |-> d[j]]
        BY <1>1
      <3> QED
        BY <3>1
    <2> QED
      BY <1>3, <2>1
  <1> QED
    BY <1>2, <1>4, <1>5

\* A run in a text, as far as it goes.
Around(a, h, b) == a \in Seq(Symbols) /\ h \in Seq(Symbols) /\ b \in Seq(Symbols) /\ h \in Seq(High)
                   /\ (a = <<>> \/ a[Len(a)] \notin High) /\ (b = <<>> \/ b[1] \notin High)

\* However four parts are put together.
Grouped(a, x, y, b) == (a \o x) \o (y \o b) = Three(a, x \o y, b)

Regrouped(a, x, y) == (a \o x) \o y = a \o (x \o y)

\* The same of three.
LEMMA JoinedInOrder ==
    ASSUME NEW T, NEW a \in Seq(T), NEW x \in Seq(T), NEW y \in Seq(T)
    PROVE  Regrouped(a, x, y)
PROOF
  BY ConcatAssociative, SMTT(60) DEF Regrouped

\* What is put together first is of no matter.
LEMMA JoinedAround ==
    ASSUME NEW T, NEW a \in Seq(T), NEW x \in Seq(T), NEW y \in Seq(T), NEW b \in Seq(T)
    PROVE  Grouped(a, x, y, b)
PROOF
  <1>1. \A w \in Seq(T) : (w \o y) \o b = w \o (y \o b)
    BY ConcatAssociative, SMTT(60)
  <1>2. a \o x \in Seq(T) /\ (a \o x) \o y = a \o (x \o y)
    BY ConcatProperties, ConcatAssociative
  <1>3. ((a \o x) \o y) \o b = (a \o x) \o (y \o b)
    BY <1>1, <1>2
  <1> QED
    BY <1>2, <1>3 DEF Three, Grouped

\* A run in a text is repaired on its own.
LEMMA RepairedAround ==
    ASSUME NEW a, NEW h, NEW b, Around(a, h, b)
    PROVE  /\ Repaired(Three(a, h, b)) = Three(Repaired(a), Repaired(h), Repaired(b))
           /\ Repaired(a) \in Seq(Symbols) /\ Repaired(h) \in Seq(Symbols) /\ Repaired(b) \in Seq(Symbols)
PROOF
  <1> DEFINE ah == a \o h
  <1>1. /\ a \in Seq(Symbols) /\ h \in Seq(Symbols) /\ b \in Seq(Symbols)
        /\ Split(a, h) /\ Split(ah, b)
    BY DEF Around, Split
  <1>2. ah \in Seq(Symbols)
    BY <1>1, ConcatProperties
  <1>3. Repaired(a \o h) = Repaired(a) \o Repaired(h)
    BY <1>1, RepairedSplit
  <1> HIDE DEF ah
  <1>4. Repaired(ah \o b) = Repaired(ah) \o Repaired(b)
    BY <1>1, <1>2, RepairedSplit
  <1>5. Repaired(a) \in Seq(Symbols) /\ Repaired(h) \in Seq(Symbols) /\ Repaired(b) \in Seq(Symbols)
    BY <1>1, PiecesAre
  <1> QED
    BY <1>3, <1>4, <1>5 DEF Three, ah

\* Three parts that are no longer than what they make are that.
LEMMA ThreeTells ==
    ASSUME NEW T, NEW a \in Seq(T), NEW m \in Seq(T), NEW z \in Seq(T),
           NEW b \in Seq(T), NEW n \in Seq(T), NEW y \in Seq(T),
           Len(b) <= Len(a), Len(n) <= Len(m), Len(y) <= Len(z),
           Three(b, n, y) = Three(a, m, z)
    PROVE  b = a /\ n = m /\ y = z
PROOF
  <1> DEFINE am == a \o m
             bn == b \o n
  <1>1. /\ am \in Seq(T) /\ Len(am) = Len(a) + Len(m)
        /\ bn \in Seq(T) /\ Len(bn) = Len(b) + Len(n)
        /\ Len(a) \in Nat /\ Len(m) \in Nat /\ Len(b) \in Nat /\ Len(n) \in Nat
        /\ Len(z) \in Nat /\ Len(y) \in Nat
    BY JoinedAt
  <1>2. bn \o y = am \o z
    BY DEF Three
  <1> HIDE DEF am, bn
  <1>3. Len(bn \o y) = Len(bn) + Len(y) /\ Len(am \o z) = Len(am) + Len(z)
    BY <1>1, JoinedAt
  <1>4. Len(b) = Len(a) /\ Len(bn) = Len(am)
    BY <1>1, <1>2, <1>3
  <1>5. bn = am /\ y = z
    BY <1>1, <1>2, <1>4, JoinedTells, ZenonT(60)
  <1>6. b = a /\ n = m
    BY <1>4, <1>5, JoinedTells DEF am, bn
  <1> QED
    BY <1>5, <1>6

\* What three parts have.
LEMMA ThreeHas ==
    ASSUME NEW T, NEW a \in Seq(T), NEW m \in Seq(T), NEW z \in Seq(T), NEW S
    PROVE  Has(Three(a, m, z), S) <=> Has(a, S) \/ Has(m, S) \/ Has(z, S)
PROOF
  <1> DEFINE am == a \o m
  <1>1. am \in Seq(T)
    BY ConcatProperties
  <1>2. Has(am, S) <=> Has(a, S) \/ Has(m, S)
    BY HasJoined
  <1> HIDE DEF am
  <1>3. Has(am \o z, S) <=> Has(am, S) \/ Has(z, S)
    BY <1>1, HasJoined
  <1> QED
    BY <1>2, <1>3 DEF Three, am

\* A mark put into a text: the run it gets into, before and after.
PutInRun(d, k, s, a, h, m, b) ==
    /\ Around(a, h, b) /\ Around(a, m, b)
    /\ d = Three(a, h, b) /\ InsertAt(d, k + 1, s) = Three(a, m, b)
    /\ Repaired(m) = m
    /\ \A S : s \notin S /\ Has(m, S) => Has(h, S)

\* Marks are beyond ASCII, and no mojibake is made of them.
LEMMA MarksAreHigh ==
    /\ Marks \subseteq High /\ Marks \cap Mojibake = {} /\ "alike" \notin Mojibake
    /\ High \subseteq Symbols /\ {"twin", "latin", "cyrillic", "alike"} \subseteq Symbols
    /\ "twin" \notin High /\ "latin" \notin High
PROOF
  <1>1. Mojibake \subseteq HighLatin \cup HighSymbols
    <2>1. ASSUME NEW x \in Mojibake PROVE x \in HighLatin \cup HighSymbols
      <3>1. DOMAIN Garbled = {"accent", "lead", "cont", "zw0"}
        BY DEF Garbled
      <3>2. PICK s \in DOMAIN Garbled : x \in Range(Garbled[s])
        BY DEF Mojibake
      <3>3. \/ x \in Range(<<"lead", "cont">>) \/ x \in Range(<<"lead", "curl">>)
            \/ x \in Range(<<"sign", "cont">>) \/ x \in Range(<<"hat", "euro", "angle">>)
        BY <3>1, <3>2 DEF Garbled
      <3>4. x \in {"lead", "cont", "curl", "sign", "hat", "euro", "angle"}
        BY <3>3 DEF Range
      <3> QED
        BY <3>4 DEF HighLatin, HighSymbols
    <2> QED
      BY <2>1
  <1>2. Marks \subseteq High /\ Marks \subseteq Symbols /\ Visible \subseteq Symbols \ Marks
    BY Alphabet DEF High, FormatControl
  <1>3. HighLatin \cup HighSymbols \subseteq Visible
    BY DEF Visible, Letters, LatinLetters
  <1>4. "alike" \notin HighLatin \cup HighSymbols
    BY DEF HighLatin, HighSymbols
  <1>5. {"twin", "latin", "cyrillic", "alike"} \subseteq Visible
    BY DEF Visible, Letters, LatinLetters
  <1>6. "twin" \notin High /\ "latin" \notin High
    BY <1>2, <1>5, Apart, CarriersApart DEF High, HighLatin, HighSymbols, FormatControl
  <1>7. High \subseteq Symbols
    BY <1>3, <1>5 DEF High, Symbols
  <1> QED
    BY <1>1, <1>2, <1>3, <1>4, <1>5, <1>6, <1>7

\* Wherever a mark is put, it is in a run that nothing is made of any more.
LEMMA PutInRunSomehow ==
    ASSUME NEW d \in Seq(Symbols), NEW k \in 0..Len(d), NEW s \in Marks
    PROVE  \E a, h, m, b : PutInRun(d, k, s, a, h, m, b)
PROOF
  <1>1. PICK u \in Seq(Symbols), v \in Seq(Symbols) : PutBetween(d, k, u, v)
    BY PutBetweenSomehow
  <1>2. d = u \o v /\ InsertAt(d, k + 1, s) = Three(u, <<s>>, v)
    BY <1>1 DEF PutBetween
  <1>3. PICK a, x : Tailed(u, a, x)
    BY RepairedSize
  <1>4. PICK y, b : Headed(v, y, b)
    BY HeadedSomehow
  <1>5. /\ a \in Seq(Symbols) /\ x \in Seq(Symbols) /\ x \in Seq(High) /\ u = a \o x
        /\ (a = <<>> \/ a[Len(a)] \notin High)
    BY <1>3 DEF Tailed
  <1>6. /\ y \in Seq(Symbols) /\ y \in Seq(High) /\ b \in Seq(Symbols) /\ v = y \o b
        /\ (b = <<>> \/ b[1] \notin High)
    BY <1>4 DEF Headed
  <1>7. s \in Symbols /\ s \in High /\ s \notin Mojibake
    BY MarksAreHigh
  <1> DEFINE h == x \o y
             w == <<s>>
             xs == x \o w
             m == xs \o y
  <1>8. h \in Seq(Symbols) /\ h \in Seq(High) /\ xs \in Seq(Symbols) /\ xs \in Seq(High)
        /\ w \in Seq(Symbols)
    BY <1>5, <1>6, <1>7, ConcatProperties
  <1>9. Has(w, {s}) /\ \A S : s \notin S => ~Has(w, S)
    BY DEF Has
  <1> HIDE DEF w
  <1>10. \A S : Has(xs, S) <=> Has(x, S) \/ Has(w, S)
    BY <1>5, <1>8, HasJoined
  <1>11. \A S : Has(h, S) <=> Has(x, S) \/ Has(y, S)
    BY <1>5, <1>6, HasJoined
  <1>12. d = Three(a, h, b)
    <2>1. a \in Seq(Symbols) /\ x \in Seq(Symbols) /\ y \in Seq(Symbols) /\ b \in Seq(Symbols)
      BY <1>5, <1>6
    <2>2. Grouped(a, x, y, b)
      BY <2>1, JoinedAround
    <2> QED
      BY <1>2, <1>5, <1>6, <2>2 DEF Grouped
  <1>13. Three(u, w, v) = (a \o xs) \o (y \o b)
    <2>1. (a \o x) \o w = a \o xs
      <3>1. a \in Seq(Symbols) /\ x \in Seq(Symbols) /\ w \in Seq(Symbols)
        BY <1>5, <1>8
      <3>2. Regrouped(a, x, w)
        BY <3>1, JoinedInOrder
      <3> QED
        BY <3>2 DEF Regrouped
    <2> QED
      BY <1>5, <1>6, <2>1 DEF Three
  <1> HIDE DEF xs, h
  <1>14. m \in Seq(Symbols) /\ m \in Seq(High)
    BY <1>6, <1>8, ConcatProperties
  <1>15. \A S : Has(m, S) <=> Has(xs, S) \/ Has(y, S)
    BY <1>6, <1>8, HasJoined
  <1>16. InsertAt(d, k + 1, s) = Three(a, m, b)
    <2>1. a \in Seq(Symbols) /\ xs \in Seq(Symbols) /\ y \in Seq(Symbols) /\ b \in Seq(Symbols)
      BY <1>5, <1>6, <1>8
    <2>2. Grouped(a, xs, y, b)
      BY <2>1, JoinedAround
    <2> QED
      BY <1>2, <1>13, <2>2 DEF w, Grouped
  <1> HIDE DEF m
  <1>17. Repaired(m) = m
    <2>1. {s} \cap Mojibake = {} /\ Has(m, {s})
      BY <1>7, <1>9, <1>10, <1>15
    <2> QED
      BY <1>14, <2>1, RunRepaired
  <1>18. \A S : s \notin S /\ Has(m, S) => Has(h, S)
    BY <1>9, <1>10, <1>11, <1>15
  <1>19. PutInRun(d, k, s, a, h, m, b)
    BY <1>5, <1>6, <1>8, <1>12, <1>14, <1>16, <1>17, <1>18 DEF PutInRun, Around
  <1> QED
    BY <1>19

\* A mark put into a text brings out nothing else, and spoils no text that reads
\* as it stands.
LEMMA PutRepaired ==
    ASSUME NEW d \in Seq(Symbols), NEW k \in 0..Len(d), NEW s \in Marks
    PROVE  /\ InsertAt(d, k + 1, s) \in Seq(Symbols)
           /\ \A S : S \cap Mojibake = {} /\ s \notin S /\ Has(Repaired(InsertAt(d, k + 1, s)), S)
                => Has(Repaired(d), S)
           /\ Repaired(d) = d => Repaired(InsertAt(d, k + 1, s)) = InsertAt(d, k + 1, s)
PROOF
  <1> DEFINE e == InsertAt(d, k + 1, s)
  <1>1. PICK a, h, m, b : PutInRun(d, k, s, a, h, m, b)
    BY PutInRunSomehow
  <1>2. /\ Around(a, h, b) /\ Around(a, m, b) /\ d = Three(a, h, b) /\ e = Three(a, m, b)
        /\ Repaired(m) = m /\ \A S : s \notin S /\ Has(m, S) => Has(h, S)
    BY <1>1 DEF PutInRun
  <1> HIDE DEF e
  <1>3. a \in Seq(Symbols) /\ h \in Seq(Symbols) /\ b \in Seq(Symbols) /\ m \in Seq(Symbols) /\ h \in Seq(High)
    BY <1>2 DEF Around
  <1> DEFINE ra == Repaired(a)
             rh == Repaired(h)
             rb == Repaired(b)
  <1>4. /\ Repaired(d) = Three(ra, rh, rb) /\ Repaired(e) = Three(ra, m, rb)
        /\ ra \in Seq(Symbols) /\ rh \in Seq(Symbols) /\ rb \in Seq(Symbols)
    BY <1>2, RepairedAround
  <1>5. Len(ra) <= Len(a) /\ Len(rh) <= Len(h) /\ Len(rb) <= Len(b)
    BY <1>3, RepairedSize
  <1>6. \A S : S \cap Mojibake = {} /\ Has(h, S) => rh = h
    BY <1>3, RunRepaired
  <1> HIDE DEF ra, rh, rb
  <1>7. ASSUME NEW S, S \cap Mojibake = {}, s \notin S, Has(Repaired(e), S) PROVE Has(Repaired(d), S)
    <2>1. Has(Repaired(e), S) <=> Has(ra, S) \/ Has(m, S) \/ Has(rb, S)
      BY <1>3, <1>4, ThreeHas
    <2>2. Has(Repaired(d), S) <=> Has(ra, S) \/ Has(rh, S) \/ Has(rb, S)
      BY <1>4, ThreeHas
    <2>3. Has(m, S) => Has(h, S) /\ rh = h
      BY <1>2, <1>6, <1>7
    <2> QED
      BY <1>7, <2>1, <2>2, <2>3
  <1>8. ASSUME Repaired(d) = d PROVE Repaired(e) = e
    <2>1. Three(ra, rh, rb) = Three(a, h, b)
      BY <1>2, <1>4, <1>8
    <2>2. ra = a /\ rb = b
      <3>1. /\ ra \in Seq(Symbols) /\ rh \in Seq(Symbols) /\ rb \in Seq(Symbols)
            /\ a \in Seq(Symbols) /\ h \in Seq(Symbols) /\ b \in Seq(Symbols)
        BY <1>3, <1>4
      <3> QED
        BY <1>5, <2>1, <3>1, ThreeTells, SMTT(60)
    <2> QED
      BY <1>2, <1>4, <2>2
  <1>9. e \in Seq(Symbols)
    BY <1>2, <1>3, ThreeOnly
  <1> QED
    BY <1>7, <1>8, <1>9 DEF e

\* A letter typed over is typed over in what a reader gets.
LEMMA RetypedRepaired ==
    ASSUME NEW d \in Seq(Symbols), NEW i \in 1..Len(d), d[i] \in {"twin", "latin"},
           NEW x \in {"twin", "latin"}
    PROVE  LET e == [d EXCEPT ![i] = x]
           IN  /\ e \in Seq(Symbols)
               /\ \A S : S \cap {"twin", "latin"} = {} => Only(Repaired(e), S) = Only(Repaired(d), S)
               /\ Repaired(d) = d => Repaired(e) = e
PROOF
  <1> DEFINE e == [d EXCEPT ![i] = x]
  <1>1. PICK u \in Seq(Symbols), v \in Seq(Symbols) : SetBetween(d, i, u, v) /\ d = Three(u, <<d[i]>>, v)
    BY SetBetweenSomehow
  <1>2. e = Three(u, <<x>>, v)
    BY <1>1 DEF SetBetween
  <1> HIDE DEF e
  <1> DEFINE ru == Repaired(u)
             rv == Repaired(v)
  <1>3. ru \in Seq(Symbols) /\ rv \in Seq(Symbols) /\ Len(ru) <= Len(u) /\ Len(rv) <= Len(v)
    BY PiecesAre, RepairedSize
  <1>4. ASSUME NEW y \in {"twin", "latin"}
        PROVE  /\ Repaired(Three(u, <<y>>, v)) = Three(ru, <<y>>, rv)
               /\ <<y>> \in Seq(Symbols)
               /\ \A S : S \cap {"twin", "latin"} = {} => Only(<<y>>, S) = <<>>
    <2> DEFINE w == <<y>>
               uw == u \o w
    <2>1. y \in Symbols /\ y \notin High
      BY MarksAreHigh
    <2>2. w \in Seq(Symbols) /\ Len(w) = 1 /\ w[1] = y /\ Repaired(w) = w
      BY <2>1, RepairedRun
    <2>3. \A S : S \cap {"twin", "latin"} = {} => Only(w, S) = <<>>
      BY <2>1, OnlyOne
    <2> HIDE DEF w
    <2>4. uw \in Seq(Symbols) /\ Len(uw) = Len(u) + 1 /\ Len(u) \in Nat /\ uw[Len(u) + 1] = y
      <3>1. /\ u \o w \in Seq(Symbols) /\ Len(u \o w) = Len(u) + Len(w) /\ Len(u) \in Nat
            /\ \A j \in 1..Len(w) : (u \o w)[Len(u) + j] = w[j]
        <4>1. u \in Seq(Symbols) /\ w \in Seq(Symbols)
          BY <2>2
        <4> QED
          BY <4>1, JoinedAt
      <3>2. 1 \in 1..Len(w)
        BY <2>2
      <3> QED
        BY <2>2, <3>1, <3>2
    <2>5. Split(u, w) /\ Split(uw, v)
      BY <2>1, <2>2, <2>4 DEF Split
    <2>6. Repaired(uw) = ru \o w
      BY <2>2, <2>5, RepairedSplit, SMTT(60)
    <2> HIDE DEF uw
    <2>7. Repaired(uw \o v) = Repaired(uw) \o rv
      BY <2>4, <2>5, RepairedSplit
    <2> QED
      BY <2>2, <2>3, <2>6, <2>7 DEF Three, w, uw
  <1> HIDE DEF ru, rv
  <1>5. Repaired(e) = Three(ru, <<x>>, rv) /\ Repaired(d) = Three(ru, <<d[i]>>, rv)
        /\ <<x>> \in Seq(Symbols) /\ <<d[i]>> \in Seq(Symbols)
    BY <1>1, <1>2, <1>4
  <1>6. ASSUME NEW S, S \cap {"twin", "latin"} = {} PROVE Only(Repaired(e), S) = Only(Repaired(d), S)
    <2>1. Only(<<x>>, S) = <<>> /\ Only(<<d[i]>>, S) = <<>>
      BY <1>4, <1>6
    <2>2. Only(Repaired(e), S) = Three(Only(ru, S), Only(<<x>>, S), Only(rv, S))
      <3> DEFINE w == <<x>>
      <3>1. ru \in Seq(Symbols) /\ rv \in Seq(Symbols) /\ w \in Seq(Symbols)
        BY <1>3, <1>5
      <3> HIDE DEF w
      <3>2. Only(Three(ru, w, rv), S) = Three(Only(ru, S), Only(w, S), Only(rv, S))
        BY <3>1, ThreeOnly
      <3> QED
        BY <1>5, <3>2 DEF w
    <2>3. Only(Repaired(d), S) = Three(Only(ru, S), Only(<<d[i]>>, S), Only(rv, S))
      <3> DEFINE w == <<d[i]>>
      <3>1. ru \in Seq(Symbols) /\ rv \in Seq(Symbols) /\ w \in Seq(Symbols)
        BY <1>3, <1>5
      <3> HIDE DEF w
      <3>2. Only(Three(ru, w, rv), S) = Three(Only(ru, S), Only(w, S), Only(rv, S))
        BY <3>1, ThreeOnly
      <3> QED
        BY <1>5, <3>2 DEF w
    <2> QED
      BY <2>1, <2>2, <2>3
  <1>7. ASSUME Repaired(d) = d PROVE Repaired(e) = e
    <2> DEFINE w == <<d[i]>>
    <2>1. Three(ru, w, rv) = Three(u, w, v) /\ w \in Seq(Symbols) /\ Len(w) <= Len(w)
      BY <1>1, <1>5, <1>7
    <2> HIDE DEF w
    <2>2. ru = u /\ rv = v
      BY <1>3, <2>1, ThreeTells
    <2> QED
      BY <1>2, <1>5, <2>2
  <1>8. e \in Seq(Symbols)
    BY <1>2, <1>5, ThreeOnly
  <1> QED
    BY <1>6, <1>7, <1>8 DEF e

-----------------------------------------------------------------------------
(* Text files.                                                             *)

TextShapes == [form : {"text"}, enc : Encodings, chars : Seq(Symbols)]

\* No mark is taken for that of a byte order.
Unsignalled(f) == ~(f.enc = "utf8" /\ f.chars # <<>> /\ Head(f.chars) = "ws1")

\* What is saved has a mark of its byte order only where it is told.
LEMMA SavedIs ==
    ASSUME NEW enc \in Encodings, NEW d \in Seq(Symbols)
    PROVE  /\ Saved(enc, d) \in TextShapes /\ Unsignalled(Saved(enc, d))
           /\ \/ Saved(enc, d).chars = d
              \/ d # <<>> /\ Head(d) = "ws1" /\ Saved(enc, d).chars = Tail(d)
           /\ Saved(enc, d).enc = "cp1252" => enc = "cp1252"
           /\ d = <<>> \/ Head(d) # "ws1" => Saved(enc, d).chars = d
PROOF
  <1>1. "utf8_bom" \in Encodings /\ "utf8_bom" # "utf8" /\ "utf8_bom" # "cp1252"
    BY DEF Encodings
  <1>2. d # <<>> => Tail(d) \in Seq(Symbols)
    OBVIOUS
  <1>3. CASE enc = "utf8" /\ d # <<>> /\ Head(d) = "ws1"
    <2>1. Saved(enc, d) = [form |-> "text", enc |-> "utf8_bom", chars |-> Tail(d)]
      BY <1>3 DEF Saved
    <2> QED
      BY <1>1, <1>2, <1>3, <2>1 DEF TextShapes, Unsignalled
  <1>4. CASE ~(enc = "utf8" /\ d # <<>> /\ Head(d) = "ws1")
    <2>1. Saved(enc, d) = [form |-> "text", enc |-> enc, chars |-> d]
      BY <1>4 DEF Saved
    <2> QED
      BY <1>4, <2>1 DEF TextShapes, Unsignalled
  <1> QED
    BY <1>3, <1>4

\* What is written back is what a reader gets, and reads as it stands.
LEMMA WrittenBack ==
    ASSUME NEW enc \in Encodings, NEW d \in Seq(Symbols), WritableBack(enc, d)
    PROVE  /\ Saved(enc, d) \in TextShapes /\ Unsignalled(Saved(enc, d))
           /\ Saved(enc, d).chars = d /\ Repaired(d) = d
PROOF
  <1> DEFINE f == Saved(enc, d)
  <1>1. /\ f \in TextShapes /\ Unsignalled(f)
        /\ f.chars = d \/ (d # <<>> /\ f.chars = Tail(d))
    BY SavedIs
  <1>2. Repaired(f.chars) = d
    BY DEF WritableBack, TextOf
  <1>3. f.chars \in Seq(Symbols)
    BY <1>1 DEF TextShapes
  <1> HIDE DEF f
  <1>4. ASSUME d # <<>>, f.chars = Tail(d) PROVE FALSE
    <2>1. Len(d) \in Nat /\ Len(Tail(d)) = Len(d) - 1
      BY <1>4
    <2>2. Len(Repaired(f.chars)) <= Len(f.chars)
      BY <1>3, RepairedSize
    <2> QED
      BY <1>2, <1>4, <2>1, <2>2
  <1>5. f.chars = d
    BY <1>1, <1>4
  <1> QED
    BY <1>1, <1>2, <1>5 DEF f

\* A text and what it reads like have letters alike.
LEMMA ReadsHas ==
    ASSUME NEW d, NEW t, Reads(d, t), NEW S \in SUBSET (Symbols \ Marks), "alike" \in S <=> "twin" \in S
    PROVE  Has(d, S) <=> Has(t, S)
PROOF
  <1>1. d \in Seq(Symbols) /\ t \in Seq(Symbols) /\ Pairwise(Bare(d), t, Twins)
        /\ Bare(d) \in Seq(Symbols)
    BY SeqMonotonic, BareType DEF Reads
  <1>2. Has(Bare(d), S) <=> Has(d, S)
    BY <1>1, BareType
  <1>3. \A x \in Symbols, y \in Symbols : <<x, y>> \in Twins => (x \in S <=> y \in S)
    BY DEF Twins
  <1>4. Len(Bare(d)) = Len(t) /\ \A i \in 1..Len(t) : <<Bare(d)[i], t[i]>> \in Twins
    BY <1>1 DEF Pairwise
  <1>5. /\ DOMAIN Bare(d) = 1..Len(t) /\ DOMAIN t = 1..Len(t)
        /\ \A i \in 1..Len(t) : Bare(d)[i] \in Symbols /\ t[i] \in Symbols
    BY <1>1, <1>4
  <1>6. \A i \in 1..Len(t) : Bare(d)[i] \in S <=> t[i] \in S
    BY <1>3, <1>4, <1>5
  <1> QED
    BY <1>2, <1>5, <1>6 DEF Has

\* A text in which no letter was one to write over is the text but for its marks.
LEMMA ReadsPlain ==
    ASSUME NEW d, NEW t, Reads(d, t), ~Has(t, LatinLetters)
    PROVE  ~Has(d, LatinLetters) /\ Attributed(d) = {}
PROOF
  <1>1. Bare(d) = t /\ d \in Seq(Symbols) /\ LatinLetters \subseteq Symbols \ Marks
    BY Alphabet DEF Reads
  <1>2. ~Has(d, LatinLetters)
    BY <1>1, BareType
  <1> QED
    BY <1>1, <1>2, AttributedAll

\* A text without lookalikes has none taken back.
LEMMA NoneAttributed ==
    ASSUME NEW d \in Seq(Symbols), Attributed(d) = {} \/ ~Has(d, {"alike"})
    PROVE  Strip("homoglyph", d) = d
PROOF
  <1>1. Attributed(d) = {}
    <2>1. ~Has(d, {"alike"}) => \A i \in DOMAIN d : d[i] # "alike"
      BY DEF Has
    <2> QED
      BY <2>1 DEF Attributed
  <1>2. Strip("homoglyph", d) = [i \in DOMAIN d |-> d[i]]
    BY <1>1 DEF Strip
  <1> QED
    BY <1>2

\* Where the script is beyond doubt, a clean of the letters leaves no lookalike.
LEMMA AlikeCleared ==
    ASSUME NEW d, NEW t, Reads(d, t), Decided(t), Has(t, LatinLetters), NEW chosen,
           "homoglyph" \in chosen
    PROVE  ~Has(StripEach(CleanOrder, chosen, d), {"alike"})
PROOF
  <1> DEFINE step(i, u) == IF CleanOrder[i] \in chosen THEN Strip(CleanOrder[i], u) ELSE u
             e1 == step(1, d)
             e2 == step(2, e1)
             e3 == step(3, e2)
             e4 == step(4, e3)
  <1>1. StripEach(CleanOrder, chosen, d) = e4
    BY DEF StripEach
  <1>2. /\ CleanOrder[1] \in Inserting /\ CleanOrder[2] = "homoglyph"
        /\ CleanOrder[3] \in Inserting /\ CleanOrder[4] \in Inserting
    BY DEF CleanOrder, Inserting, Bit0
  <1>3. ASSUME NEW i \in {1, 3, 4}, NEW u, Reads(u, t)
        PROVE  Reads(step(i, u), t) /\ Bare(step(i, u)) = Bare(u)
    BY <1>2, <1>3, StripReads
  <1>4. ASSUME NEW u, Reads(u, t) PROVE Reads(step(2, u), t) /\ Bare(step(2, u)) = t
    BY <1>2, <1>4, StripReads, LettersReturn
  <1> HIDE DEF step
  <1>5. Reads(e1, t)
    BY <1>3
  <1>6. Reads(e2, t) /\ Bare(e2) = t
    BY <1>4, <1>5
  <1>7. Reads(e3, t) /\ Bare(e3) = t
    BY <1>3, <1>6
  <1>8. Reads(e4, t) /\ Bare(e4) = t
    BY <1>3, <1>7
  <1> HIDE DEF e4
  <1>9. e4 \in Seq(Symbols) /\ {"alike"} \subseteq Symbols \ Marks
    BY <1>8, Alphabet DEF Reads
  <1>10. ~Has(t, {"alike"})
    BY DEF Decided, Has
  <1> QED
    BY <1>1, <1>8, <1>9, <1>10, BareType

\* A clean leaves Latin what was Latin.
LEMMA StripEachLatin ==
    ASSUME NEW d \in Seq(Symbols), Has(d, LatinLetters), NEW chosen
    PROVE  Has(StripEach(CleanOrder, chosen, d), LatinLetters)
PROOF
  <1> DEFINE Good(u) == u \in Seq(Symbols) /\ Has(u, LatinLetters)
             step(i, u) == IF CleanOrder[i] \in chosen THEN Strip(CleanOrder[i], u) ELSE u
  <1>1. ASSUME NEW u, Good(u), NEW o \in Carrier PROVE Good(Strip(o, u))
    <2>1. u \in Seq(Symbols) /\ Has(u, LatinLetters)
      BY <1>1
    <2>2. Strip(o, u) \in Seq(Symbols)
      BY <2>1, StripClears
    <2>3. CASE o = "homoglyph"
      <3>1. Strip(o, u) = [i \in DOMAIN u |-> IF i \in Attributed(u) THEN "twin" ELSE u[i]]
        BY <2>3 DEF Strip
      <3>2. "twin" \in LatinLetters
        BY DEF LatinLetters
      <3>3. PICK i \in DOMAIN u : u[i] \in LatinLetters
        BY <2>1 DEF Has
      <3>4. i \in DOMAIN Strip(o, u) /\ Strip(o, u)[i] \in LatinLetters
        BY <3>1, <3>2, <3>3
      <3> QED
        BY <2>2, <3>4 DEF Has
    <2>4. CASE o \in Inserting
      <3>1. Reads(u, Bare(u))
        BY <2>1, ReadsBare
      <3>2. Bare(Strip(o, u)) = Bare(u)
        BY <2>4, <3>1, StripReads
      <3>3. LatinLetters \subseteq Symbols \ Marks
        BY Alphabet
      <3> QED
        BY <2>1, <2>2, <3>2, <3>3, BareType
    <2> QED
      BY <2>3, <2>4 DEF Carrier
  <1>2. \A i \in 1..4 : CleanOrder[i] \in Carrier
    BY DEF CleanOrder, Carrier, Inserting, Bit0
  <1>3. StripEach(CleanOrder, chosen, d) = step(4, step(3, step(2, step(1, d))))
    BY DEF StripEach
  <1>4. Good(d)
    OBVIOUS
  <1> HIDE DEF Good
  <1>5. \A i \in 1..4 : \A u : Good(u) => Good(step(i, u))
    BY <1>1, <1>2
  <1> HIDE DEF step
  <1> QED
    BY <1>3, <1>4, <1>5 DEF Good

\* Whatever a text is, it reads like what is left of it by a clean of every class.
LEMMA ReadsCleaned ==
    ASSUME NEW d \in Seq(Symbols)
    PROVE  Reads(d, StripAll(d))
PROOF
  <1> DEFINE e == StripAll(d)
             t == Bare(d)
  <1>1. Reads(d, t) /\ Reads(e, t)
    BY ReadsBare, StripEachReads DEF StripAll
  <1>2. e \in Seq(Symbols) /\ \A c \in Inserting : ~Has(e, Removable(c))
    <2>1. \A c \in Inserting : c \in Carrier \cap Inserting
      BY DEF Carrier
    <2> QED
      BY <2>1, StripEachClears DEF StripAll
  <1>3. ~Has(d, LatinLetters) \/ Has(e, LatinLetters)
    BY StripEachLatin DEF StripAll
  <1> HIDE DEF e
  <1>4. ~Has(e, Marks)
    BY <1>2 DEF Marks, Has
  <1>5. e \in Seq(Symbols \ Marks)
    BY <1>2, <1>4, Without
  <1>6. Bare(e) = e
    BY <1>5, OnlyAll DEF Bare
  <1>7. /\ t \in Seq(Symbols) /\ t \in Seq(Symbols \ Marks) /\ Pairwise(e, t, Twins)
        /\ (~Has(t, LatinLetters) => e = t) /\ (Has(t, LatinLetters) <=> Has(d, LatinLetters))
    <2>1. LatinLetters \subseteq Symbols \ Marks
      BY Alphabet
    <2> QED
      BY <1>1, <1>6, <2>1, BareType DEF Reads
  <1>8. Pairwise(t, e, Twins)
    <2>1. Len(e) = Len(t) /\ \A i \in 1..Len(e) : <<e[i], t[i]>> \in Twins
      BY <1>7 DEF Pairwise
    <2>2. \A x, y : <<x, y>> \in Twins => <<y, x>> \in Twins
      BY DEF Twins
    <2> QED
      BY <2>1, <2>2 DEF Pairwise
  <1>9. ~Has(e, LatinLetters) => t = e
    BY <1>3, <1>7
  <1> HIDE DEF t
  <1> QED
    BY <1>5, <1>8, <1>9 DEF Reads, e, t

\* The same of both without any format control.
LEMMA SkeletonReads ==
    ASSUME NEW d, NEW t, Reads(d, t)
    PROVE  /\ Reads(Skeleton(d), Skeleton(t))
           /\ Skeleton(d) \in Seq(Symbols) /\ Skeleton(t) \in Seq(Symbols)
           /\ ~Has(Skeleton(d), Marks)
           /\ \A S : S \cap FormatControl = {} /\ S \subseteq Symbols =>
                (Has(Skeleton(t), S) <=> Has(t, S))
PROOF
  <1> DEFINE V == Symbols \ FormatControl
             sd == Skeleton(d)
             st == Skeleton(t)
  <1>1. d \in Seq(Symbols) /\ t \in Seq(Symbols) /\ t \in Seq(Symbols \ Marks)
        /\ Pairwise(Bare(d), t, Twins) /\ Bare(d) \in Seq(Symbols)
        /\ (~Has(t, LatinLetters) => Bare(d) = t)
    BY SeqMonotonic, BareType DEF Reads
  <1>2. sd = Only(Bare(d), V) /\ sd \in Seq(Symbols) /\ st = Only(t, V) /\ st \in Seq(Symbols)
    BY <1>1, SkeletonOf
  <1>3. sd = Only(d, V)
    BY <1>1, SkeletonOf
  <1>4. Marks \cap V = {} /\ Marks \subseteq Symbols
    BY Alphabet DEF FormatControl
  <1>5. \A S : Has(sd, S) <=> Has(d, V \cap S)
    <2> HIDE DEF V, sd
    <2> QED
      BY <1>1, <1>3, OnlyType
  <1>6. \A S : Has(st, S) <=> Has(t, V \cap S)
    <2> HIDE DEF V, st
    <2> QED
      BY <1>1, <1>2, OnlyType
  <1>7. ~Has(sd, Marks) /\ ~Has(st, Marks)
    <2>1. V \cap Marks = {}
      BY <1>4
    <2> QED
      BY <1>5, <1>6, <2>1 DEF Has
  <1>8. \A x \in Symbols, y \in Symbols : <<x, y>> \in Twins => (x \in V <=> y \in V)
    <2>1. "alike" \in V /\ "twin" \in V
      BY Alphabet DEF FormatControl
    <2> QED
      BY <2>1 DEF Twins
  <1> HIDE DEF V
  <1>9. Pairwise(Only(Bare(d), V), Only(t, V), Twins)
    BY <1>1, <1>8, OnlyPairwise
  <1> HIDE DEF sd, st
  <1>10. sd \in Seq(Symbols \ Marks) /\ st \in Seq(Symbols \ Marks)
    BY <1>2, <1>7, Without
  <1>11. Bare(sd) = sd
    BY <1>10, OnlyAll DEF Bare
  <1>12. ASSUME NEW S, S \cap FormatControl = {}, S \subseteq Symbols PROVE Has(st, S) <=> Has(t, S)
    <2>1. V \cap S = S
      BY <1>12 DEF V
    <2> QED
      BY <1>6, <2>1
  <1>13. LatinLetters \cap FormatControl = {} /\ LatinLetters \subseteq Symbols
    <2>1. LatinLetters \subseteq Symbols \ Marks /\ "joiner" \notin LatinLetters
      BY Alphabet DEF LatinLetters, HighLatin
    <2> QED
      BY <2>1 DEF FormatControl
  <1>14. ~Has(st, LatinLetters) => sd = st
    BY <1>1, <1>2, <1>12, <1>13
  <1>15. Reads(sd, st)
    BY <1>2, <1>9, <1>10, <1>11, <1>14 DEF Reads
  <1> QED
    BY <1>2, <1>7, <1>12, <1>15 DEF sd, st

\* What was placed in a text and nothing disturbed is there.
Carries(d, pl) ==
    /\ pl \in [Carrier -> BitStrings]
    /\ \A c \in Inserting : pl[c] # <<>> => Only(d, BitMarks(c)) = Written01(c, pl[c])
    /\ Prose(d) => IsPrefix(pl["homoglyph"], LetterBits(d))

\* What a clean removed of a text and nothing put back is not.
Rid(d, w, cl) ==
    /\ \A c \in cl \cap Inserting : ~Has(d, Removable(c))
    /\ "homoglyph" \in cl /\ Decided(w) /\ Has(w, LatinLetters) => ~Has(d, {"alike"})

Forgotten(pl, gone) == [c \in Carrier |-> IF c \in gone THEN <<>> ELSE pl[c]]

\* Nothing is at the beginning of every sequence of bits.
LEMMA NothingFirst ==
    ASSUME NEW d \in Seq(Symbols)
    PROVE  Prose(d) => IsPrefix(<<>>, LetterBits(d))
PROOF
  <1>1. ASSUME Prose(d) PROVE IsPrefix(<<>>, LetterBits(d))
    <2>1. LetterBits(d) \in Seq({0, 1})
      BY <1>1, LettersRead DEF BitStrings
    <2> DEFINE b == LetterBits(d)
    <2>2. b \in Seq({0, 1})
      BY <2>1
    <2> HIDE DEF b
    <2>3. Len(<<>>) = 0 /\ 0 <= Len(b) /\ SubSeq(<<>>, 1, 0) = SubSeq(b, 1, 0)
      BY <2>2
    <2> QED
      BY <2>3 DEF IsPrefix, b
  <1> QED
    BY <1>1

\* The same marks and letters carry the same; what is forgotten is never missed.
LEMMA CarriesOn ==
    ASSUME NEW d \in Seq(Symbols), NEW e \in Seq(Symbols), NEW pl, Carries(d, pl), NEW gone,
           \A c \in Inserting : c \notin gone /\ pl[c] # <<>> => Only(e, BitMarks(c)) = Only(d, BitMarks(c)),
           "homoglyph" \notin gone => pl["homoglyph"] = <<>> \/ Bare(e) = Bare(d)
    PROVE  Carries(e, Forgotten(pl, gone))
PROOF
  <1> DEFINE np == Forgotten(pl, gone)
  <1>1. pl \in [Carrier -> BitStrings] /\ "homoglyph" \in Carrier /\ Inserting \subseteq Carrier
    BY DEF Carries, Carrier
  <1>2. np \in [Carrier -> BitStrings] /\ \A c \in Carrier : np[c] = IF c \in gone THEN <<>> ELSE pl[c]
    <2>1. <<>> \in BitStrings
      BY DEF BitStrings
    <2> QED
      BY <1>1, <2>1 DEF Forgotten
  <1> HIDE DEF np
  <1>3. ASSUME NEW c \in Inserting, np[c] # <<>> PROVE Only(e, BitMarks(c)) = Written01(c, np[c])
    <2>1. c \notin gone /\ np[c] = pl[c] /\ pl[c] # <<>>
      BY <1>1, <1>2, <1>3
    <2> QED
      BY <2>1 DEF Carries
  <1>4. ASSUME Prose(e) PROVE IsPrefix(np["homoglyph"], LetterBits(e))
    <2>1. CASE np["homoglyph"] = <<>>
      BY <1>4, <2>1, NothingFirst
    <2>2. CASE np["homoglyph"] # <<>>
      <3>1. np["homoglyph"] = pl["homoglyph"] /\ Bare(e) = Bare(d)
        BY <1>1, <1>2, <2>2
      <3>2. LetterBits(e) = LetterBits(d)
        BY <3>1, SameLetters
      <3>3. Prose(d)
        <4>1. {"tick", "dollar"} \subseteq Visible
          BY DEF Visible
        <4>2. {"tick", "dollar"} \subseteq Symbols \ Marks
          BY <4>1, Alphabet
        <4> QED
          BY <1>4, <3>1, <4>2, BareType DEF Prose
      <3> QED
        BY <3>1, <3>2, <3>3 DEF Carries
    <2> QED
      BY <2>1, <2>2
  <1> QED
    BY <1>2, <1>3, <1>4 DEF Carries, np

\* A text that shows no more of what was removed than another is rid of it too.
LEMMA RidStill ==
    ASSUME NEW d, NEW w, NEW cl, Rid(d, w, cl), NEW e, NEW v, NEW gone,
           \A c \in (cl \ gone) \cap Inserting : Has(e, Removable(c)) => Has(d, Removable(c)),
           "homoglyph" \in gone \/ (v = w /\ (Has(e, {"alike"}) => Has(d, {"alike"})))
    PROVE  Rid(e, v, cl \ gone)
PROOF
  BY DEF Rid

\* A clean of some classes.
LEMMA CleanedText ==
    ASSUME NEW d, NEW w, Reads(d, w), NEW pl, Carries(d, pl), NEW cl, Rid(d, w, cl), NEW chosen
    PROVE  LET e == StripEach(CleanOrder, chosen, d)
           IN  /\ e \in Seq(Symbols) /\ Reads(e, w) /\ Carries(e, Forgotten(pl, chosen))
               /\ Rid(e, w, cl \cup chosen)
PROOF
  <1> DEFINE e == StripEach(CleanOrder, chosen, d)
  <1>1. d \in Seq(Symbols)
    BY DEF Reads
  <1>2. /\ e \in Seq(Symbols) /\ Reads(e, w)
        /\ \A c \in chosen \cap Inserting : ~Has(e, Removable(c))
        /\ \A S \in SUBSET Marks : ~Has(d, S) => ~Has(e, S)
    BY <1>1, StripEachReads, StripEachClears
  <1>3. \A c \in Inserting : c \notin chosen => Only(e, BitMarks(c)) = Only(d, BitMarks(c))
    BY <1>1, StripEachKeepsBits
  <1>4. "homoglyph" \notin chosen => Bare(e) = Bare(d)
    BY StripEachBare
  <1>5. Decided(w) /\ Has(w, LatinLetters) /\ "homoglyph" \in chosen => ~Has(e, {"alike"})
    BY AlikeCleared
  <1> HIDE DEF e
  <1>6. Carries(e, Forgotten(pl, chosen))
    BY <1>1, <1>2, <1>3, <1>4, CarriesOn
  <1>7. \A c \in (cl \cup chosen) \cap Inserting : ~Has(e, Removable(c))
    <2> SUFFICES ASSUME NEW c \in (cl \cup chosen) \cap Inserting PROVE ~Has(e, Removable(c))
      OBVIOUS
    <2>1. Removable(c) \in SUBSET Marks
      BY Alphabet
    <2> QED
      BY <1>2, <2>1 DEF Rid
  <1>8. ASSUME "homoglyph" \in cl \cup chosen, Decided(w), Has(w, LatinLetters) PROVE ~Has(e, {"alike"})
    <2>1. CASE "homoglyph" \in chosen
      BY <1>5, <1>8, <2>1
    <2>2. CASE "homoglyph" \notin chosen
      <3>1. ~Has(d, {"alike"})
        BY <1>8, <2>2 DEF Rid
      <3>2. {"alike"} \subseteq Symbols \ Marks
        BY Alphabet
      <3> QED
        BY <1>1, <1>2, <1>4, <2>2, <3>1, <3>2, BareType
    <2> QED
      BY <2>1, <2>2
  <1>9. Rid(e, w, cl \cup chosen)
    BY <1>7, <1>8 DEF Rid
  <1> QED
    BY <1>2, <1>6, <1>9 DEF e

\* Every class and every format control.
LEMMA PristineText ==
    ASSUME NEW d, NEW w, Reads(d, w), NEW pl, Carries(d, pl)
    PROVE  LET e == Skeleton(StripAll(d))
           IN  /\ e \in Seq(Symbols) /\ Reads(e, Skeleton(w)) /\ Rid(e, Skeleton(w), Carrier)
               /\ Carries(e, Forgotten(pl, Carrier))
PROOF
  <1> DEFINE s == StripAll(d)
             e == Skeleton(s)
             v == Skeleton(w)
  <1>1. d \in Seq(Symbols) /\ s \in Seq(Symbols) /\ Reads(s, w)
    BY StripEachReads DEF Reads, StripAll
  <1> HIDE DEF s
  <1>2. /\ Reads(e, v) /\ e \in Seq(Symbols) /\ v \in Seq(Symbols) /\ ~Has(e, Marks)
        /\ \A S : S \cap FormatControl = {} /\ S \subseteq Symbols => (Has(v, S) <=> Has(w, S))
    BY <1>1, SkeletonReads
  <1>3. Carries(e, Forgotten(pl, Carrier))
    <2> HIDE DEF e
    <2>1. \A c \in Inserting : c \in Carrier
      BY DEF Carrier
    <2>2. "homoglyph" \in Carrier
      BY DEF Carrier
    <2> QED
      BY <1>1, <1>2, <2>1, <2>2, CarriesOn
  <1>4. \A c \in Carrier \cap Inserting : ~Has(e, Removable(c))
    <2>1. \A c \in Inserting : Removable(c) \subseteq Marks
      BY Alphabet
    <2> HIDE DEF e
    <2> QED
      BY <1>2, <2>1 DEF Has
  <1>5. ASSUME Decided(v), Has(v, LatinLetters) PROVE ~Has(e, {"alike"})
    <2>1. /\ LatinLetters \subseteq Letters /\ {"cyrillic", "alike"} \subseteq Letters
          /\ Letters \subseteq Symbols \ Marks /\ "joiner" \notin Letters
      BY Alphabet DEF Letters, LatinLetters, HighLatin
    <2>2. \A S : S \subseteq Letters => (Has(v, S) <=> Has(w, S))
      <3>1. \A S : S \subseteq Letters => S \cap FormatControl = {} /\ S \subseteq Symbols
        BY <2>1 DEF FormatControl
      <3> QED
        BY <1>2, <3>1
    <2>3. /\ Has(v, LatinLetters \ {"twin"}) <=> Has(w, LatinLetters \ {"twin"})
          /\ Has(v, {"cyrillic", "alike"}) <=> Has(w, {"cyrillic", "alike"})
          /\ Has(v, {"cyrillic"}) <=> Has(w, {"cyrillic"})
          /\ Has(v, {"alike"}) <=> Has(w, {"alike"})
          /\ Has(v, LatinLetters) <=> Has(w, LatinLetters)
      BY <2>1, <2>2
    <2>4. Decided(w)
      BY <1>5, <2>3 DEF Decided
    <2>5. s = w
      BY <2>4, StripAllRestores DEF s
    <2>6. ~Has(w, {"alike"})
      BY <1>5, <2>3, <2>4 DEF Decided, Has
    <2> QED
      BY <2>3, <2>5, <2>6
  <1>6. Rid(e, v, Carrier)
    BY <1>4, <1>5 DEF Rid
  <1> QED
    BY <1>2, <1>3, <1>6 DEF e, s, v

\* Bits concealed.
LEMMA ConcealedText ==
    ASSUME NEW d, NEW w, Reads(d, w), NEW pl, Carries(d, pl), NEW cl, Rid(d, w, cl),
           NEW c \in Carrier, NEW bits \in BitStrings, Writable(c, d), Len(bits) <= Positions(c, d)
    PROVE  LET e == Written(c, d, bits)
           IN  /\ e \in Seq(Symbols) /\ Reads(e, w) /\ Carries(e, [pl EXCEPT ![c] = bits])
               /\ Rid(e, w, cl \ {c})
PROOF
  <1> DEFINE e == Written(c, d, bits)
             np == [pl EXCEPT ![c] = bits]
  <1>1. d \in Seq(Symbols) /\ pl \in [Carrier -> BitStrings]
    BY DEF Reads, Carries
  <1>2. /\ Reads(e, w)
        /\ c \in Inserting => Bare(e) = Bare(d)
        /\ \A o \in Inserting \ {c} : Only(e, BitMarks(o)) = Only(d, BitMarks(o))
        /\ c \in Inserting => Only(e, BitMarks(c)) = Written01(c, bits)
    BY WrittenHolds
  <1>3. e \in Seq(Symbols)
    BY <1>2 DEF Reads
  <1>4. "homoglyph" \in Carrier /\ Inserting \subseteq Carrier /\ "homoglyph" \notin Inserting
        /\ (c \in Inserting \/ c = "homoglyph")
    BY Alphabet DEF Carrier
  <1>5. np \in [Carrier -> BitStrings] /\ np[c] = bits /\ \A o \in Carrier \ {c} : np[o] = pl[o]
    BY <1>1
  <1>6. c = "homoglyph" => e = Substituted(d, bits)
    BY DEF Written
  <1>7. ASSUME NEW o \in Inserting, o # c PROVE Has(e, Removable(o)) => Has(d, Removable(o))
    <2>1. CASE c \in Inserting
      <3> DEFINE V == Occupying(c)
                 seq == Sequenced(c, bits)
      <3>1. seq \in Seq(V) /\ V \in SUBSET Symbols
        BY <2>1, SequencedType, Apart
      <3>2. Removable(o) \cap V = {}
        BY <1>7, <2>1, CarriersApart
      <3>3. e = PlacedAtBoundaries(d, seq)
        BY <1>4, <2>1 DEF Written
      <3> HIDE DEF e, V, seq
      <3>4. Only(e, Removable(o)) = Only(d, Removable(o))
        BY <1>1, <3>1, <3>2, <3>3, PlacedReads
      <3> QED
        BY <1>1, <1>3, <3>4, SameHas
    <2>2. CASE c = "homoglyph"
      <3>1. e = Substituted(d, bits) /\ Pairwise(e, d, Twins)
        BY <1>6, <2>2, SubstitutedReads
      <3> HIDE DEF e
      <3>2. Len(e) = Len(d) /\ \A i \in 1..Len(e) : e[i] \in Symbols /\ d[i] \in Symbols
        BY <1>1, <1>3, <3>1 DEF Pairwise
      <3>3. \A i \in 1..Len(e) : e[i] = d[i] \/ (e[i] \notin Marks /\ d[i] \notin Marks)
        BY <3>1, <3>2, TwinsAgree DEF Pairwise
      <3>4. Removable(o) \in SUBSET Marks
        BY Alphabet
      <3>5. Only(e, Removable(o)) = Only(d, Removable(o))
        BY <1>1, <1>3, <3>2, <3>3, <3>4, SameMarks
      <3> QED
        BY <1>1, <1>3, <3>5, SameHas
    <2> QED
      BY <1>4, <2>1, <2>2
  <1>8. ASSUME c = "homoglyph", Prose(e) PROVE IsPrefix(bits, LetterBits(e))
    <2>1. e = Substituted(d, bits) /\ Pairwise(e, d, Twins)
      BY <1>6, <1>8, SubstitutedReads
    <2>2. Prose(d)
      <3> HIDE DEF e
      <3>1. Len(e) = Len(d) /\ \A i \in 1..Len(e) : e[i] \in Symbols /\ d[i] \in Symbols
        BY <1>1, <1>3, <2>1 DEF Pairwise
      <3>2. DOMAIN e = 1..Len(e) /\ DOMAIN d = 1..Len(e)
        BY <1>1, <1>3, <3>1
      <3>3. \A i \in 1..Len(e) : d[i] \in {"tick", "dollar"} => e[i] = d[i]
        BY <2>1, <3>1 DEF Pairwise, Twins
      <3> QED
        BY <1>8, <3>2, <3>3 DEF Prose, Has
    <2>3. ~Has(d, {"alike"}) /\ Len(bits) <= Cardinality(Places(d))
      BY <1>8 DEF Writable, Occupying, Positions
    <2> HIDE DEF e
    <2> QED
      BY <1>1, <1>3, <2>1, <2>2, <2>3, LettersWritten
  <1> HIDE DEF e, np
  <1>9. Carries(e, np)
    <2>1. ASSUME NEW o \in Inserting, np[o] # <<>> PROVE Only(e, BitMarks(o)) = Written01(o, np[o])
      <3>1. CASE o = c
        BY <1>2, <1>5, <3>1
      <3>2. CASE o # c
        BY <1>2, <1>4, <1>5, <2>1, <3>2 DEF Carries
      <3> QED
        BY <3>1, <3>2
    <2>2. ASSUME Prose(e) PROVE IsPrefix(np["homoglyph"], LetterBits(e))
      <3>1. CASE c = "homoglyph"
        BY <1>5, <1>8, <2>2, <3>1
      <3>2. CASE c \in Inserting
        <4>1. np["homoglyph"] = pl["homoglyph"] /\ Bare(e) = Bare(d)
          BY <1>2, <1>4, <1>5, <3>2
        <4>2. Carries(e, Forgotten(pl, Inserting))
          <5>1. \A o \in Inserting : o \notin Inserting /\ pl[o] # <<>> => Only(e, BitMarks(o)) = Only(d, BitMarks(o))
            OBVIOUS
          <5> QED
            BY <1>1, <1>3, <4>1, <5>1, CarriesOn
        <4>3. Forgotten(pl, Inserting)["homoglyph"] = pl["homoglyph"]
          BY <1>4 DEF Forgotten
        <4> QED
          BY <2>2, <4>1, <4>2, <4>3 DEF Carries
      <3> QED
        BY <1>4, <3>1, <3>2
    <2> QED
      BY <1>5, <2>1, <2>2 DEF Carries
  <1>10. Rid(e, w, cl \ {c})
    <2>1. \A o \in (cl \ {c}) \cap Inserting : Has(e, Removable(o)) => Has(d, Removable(o))
      BY <1>7
    <2>2. "homoglyph" \in {c} \/ (Has(e, {"alike"}) => Has(d, {"alike"}))
      <3>1. {"alike"} \subseteq Symbols \ Marks
        BY Alphabet
      <3>2. c \in Inserting => (Has(e, {"alike"}) <=> Has(d, {"alike"}))
        BY <1>1, <1>2, <1>3, <3>1, BareType
      <3> QED
        BY <1>4, <3>2
    <2> QED
      BY <2>1, <2>2, RidStill
  <1> QED
    BY <1>2, <1>3, <1>9, <1>10 DEF e, np

\* A text file, and what its history says of it.
TextHolds(f, w, pl, cl) ==
    /\ f \in TextShapes /\ Unsignalled(f)
    /\ Reads(TextOf(f), w) /\ Carries(TextOf(f), pl) /\ Rid(TextOf(f), w, cl)
    /\ (\E c \in Carrier : pl[c] # <<>>) => Repaired(f.chars) = f.chars

\* Of a text file: its characters, and what a reader gets of them.
LEMMA TextIs ==
    ASSUME NEW f \in TextShapes
    PROVE  /\ f.form = "text" /\ f.enc \in Encodings /\ f.chars \in Seq(Symbols)
           /\ TextOf(f) = Repaired(f.chars) /\ TextOf(f) \in Seq(Symbols)
PROOF
  <1>1. f.form = "text" /\ f.enc \in Encodings /\ f.chars \in Seq(Symbols)
    BY DEF TextShapes
  <1>2. TextOf(f) = Repaired(f.chars)
    BY DEF TextOf
  <1> QED
    BY <1>1, <1>2, PiecesAre

\* What is proven to be read back is what the file holds.
LEMMA TextSaved ==
    ASSUME NEW enc \in Encodings, NEW d \in Seq(Symbols), WritableBack(enc, d),
           NEW w, Reads(d, w), NEW pl, Carries(d, pl), NEW cl, Rid(d, w, cl)
    PROVE  TextHolds(Saved(enc, d), w, pl, cl)
PROOF
  <1> DEFINE f == Saved(enc, d)
  <1>1. f \in TextShapes /\ Unsignalled(f) /\ f.chars = d /\ Repaired(d) = d
    BY WrittenBack
  <1> HIDE DEF f
  <1>2. TextOf(f) = d /\ Repaired(f.chars) = f.chars
    BY <1>1 DEF TextOf
  <1> QED
    BY <1>1, <1>2 DEF TextHolds, f

\* A letter typed over.
LEMMA TextRetyped ==
    ASSUME NEW f, NEW w, NEW pl, NEW cl, TextHolds(f, w, pl, cl), NEW i \in DOMAIN f.chars,
           f.chars[i] \in {"twin", "latin"}, NEW letter \in {"twin", "latin"}
    PROVE  LET s == Saved(f.enc, [f.chars EXCEPT ![i] = letter])
           IN  TextHolds(s, StripAll(TextOf(s)), Forgotten(pl, {"homoglyph"}), cl \ {"homoglyph"})
PROOF
  <1> DEFINE u == f.chars
             x == [u EXCEPT ![i] = letter]
             s == Saved(f.enc, x)
             d == Repaired(u)
             e == Repaired(x)
             v == StripAll(e)
  <1>1. /\ f \in TextShapes /\ Unsignalled(f) /\ TextOf(f) = d
        /\ Reads(d, w) /\ Carries(d, pl) /\ Rid(d, w, cl)
        /\ (\E c \in Carrier : pl[c] # <<>>) => d = u
    BY TextIs DEF TextHolds
  <1>2. f.enc \in Encodings /\ u \in Seq(Symbols) /\ d \in Seq(Symbols) /\ DOMAIN u = 1..Len(u)
    BY <1>1, TextIs
  <1>3. x \in Seq(Symbols) /\ (d = u => e = x)
        /\ \A S : S \cap {"twin", "latin"} = {} => Only(e, S) = Only(d, S)
    BY <1>2, RetypedRepaired
  <1>4. s \in TextShapes /\ Unsignalled(s)
        /\ (s.chars = x \/ (f.enc = "utf8" /\ x # <<>> /\ Head(x) = "ws1"))
    <2>1. s \in TextShapes /\ Unsignalled(s)
      BY <1>2, <1>3, SavedIs
    <2>2. s.chars = x \/ (f.enc = "utf8" /\ x # <<>> /\ Head(x) = "ws1")
      BY DEF Saved
    <2> QED
      BY <2>1, <2>2
  <1>5. s.chars = x
    <2>1. ASSUME f.enc = "utf8", x # <<>>, Head(x) = "ws1" PROVE FALSE
      <3>1. x[1] = "ws1" /\ x[1] = IF i = 1 THEN letter ELSE u[1]
        BY <1>2, <2>1
      <3>2. u[1] = "ws1" /\ u # <<>>
        BY <1>2, <3>1
      <3> QED
        BY <1>1, <2>1, <3>2 DEF Unsignalled
    <2> QED
      BY <1>4, <2>1
  <1> HIDE DEF s, x
  <1>6. TextOf(s) = e /\ e \in Seq(Symbols)
    BY <1>4, <1>5, TextIs
  <1> HIDE DEF e, d, u
  <1>7. Reads(e, v)
    BY <1>6, ReadsCleaned
  <1>8. \A c \in Inserting : /\ Only(e, BitMarks(c)) = Only(d, BitMarks(c))
                             /\ Only(e, Removable(c)) = Only(d, Removable(c))
    <2>1. {"twin", "latin"} \cap Marks = {}
      BY Alphabet DEF LatinLetters
    <2>2. \A c \in Inserting : BitMarks(c) \subseteq Marks /\ Removable(c) \subseteq Marks
      BY Alphabet, Apart
    <2> QED
      BY <1>3, <2>1, <2>2
  <1>9. Carries(e, Forgotten(pl, {"homoglyph"}))
    BY <1>1, <1>2, <1>6, <1>8, CarriesOn
  <1>10. Rid(e, v, cl \ {"homoglyph"})
    <2>1. \A c \in (cl \ {"homoglyph"}) \cap Inserting : Has(e, Removable(c)) => Has(d, Removable(c))
      BY <1>2, <1>6, <1>8, SameHas
    <2> QED
      BY <1>1, <2>1, RidStill
  <1>11. (\E c \in Carrier : Forgotten(pl, {"homoglyph"})[c] # <<>>) => e = x
    <2>1. \A c \in Carrier : Forgotten(pl, {"homoglyph"})[c] # <<>> => pl[c] # <<>>
      BY DEF Forgotten
    <2> QED
      BY <1>1, <1>3, <2>1
  <1>12. TextHolds(s, v, Forgotten(pl, {"homoglyph"}), cl \ {"homoglyph"})
    BY <1>4, <1>5, <1>6, <1>7, <1>9, <1>10, <1>11 DEF TextHolds, e
  <1>13. v = StripAll(TextOf(s))
    BY <1>6
  <1> HIDE DEF v
  <1> QED
    BY <1>12, <1>13 DEF s, x, u

\* The carriers a mark that is pasted disturbs, and whose removal it undoes, in a
\* text that was w and is v.
Disturbed(m) == {c \in Carrier : m \in Removable(c)}
Returning(m, v, w) == {c \in Carrier : m \in Removable(c) \/ (c = "homoglyph" /\ v # w)}

\* A mark pasted in.
LEMMA TextPasted ==
    ASSUME NEW f, NEW w, NEW pl, NEW cl, TextHolds(f, w, pl, cl), NEW k \in 0..Len(f.chars),
           NEW m \in Marks
    PROVE  LET s == Saved(f.enc, InsertAt(f.chars, k + 1, m))
               v == StripAll(TextOf(s))
           IN  TextHolds(s, v, Forgotten(pl, Disturbed(m)), cl \ Returning(m, v, w))
PROOF
  <1> DEFINE u == f.chars
             x == InsertAt(u, k + 1, m)
             s == Saved(f.enc, x)
             y == s.chars
             d == Repaired(u)
             e == Repaired(y)
             v == StripAll(e)
             gone == {c \in Carrier : m \in Removable(c)}
             put == {c \in Carrier : m \in Removable(c) \/ (c = "homoglyph" /\ v # w)}
  <1>1. /\ f \in TextShapes /\ Unsignalled(f) /\ TextOf(f) = d
        /\ Reads(d, w) /\ Carries(d, pl) /\ Rid(d, w, cl)
        /\ (\E c \in Carrier : pl[c] # <<>>) => d = u
    BY TextIs DEF TextHolds
  <1>2. f.enc \in Encodings /\ u \in Seq(Symbols) /\ d \in Seq(Symbols) /\ m \in Symbols
    BY <1>1, TextIs, Alphabet
  <1>3. /\ x \in Seq(Symbols) /\ (d = u => Repaired(x) = x)
        /\ \A S : S \cap Mojibake = {} /\ m \notin S /\ Has(Repaired(x), S) => Has(d, S)
    BY <1>2, PutRepaired
  <1>4. \A S : m \notin S => Only(x, S) = Only(u, S)
    BY <1>2, PutIn
  <1>5. s \in TextShapes /\ Unsignalled(s)
        /\ (s.chars = x \/ (f.enc = "utf8" /\ x # <<>> /\ Head(x) = "ws1" /\ s.chars = Tail(x)))
    <2>1. s \in TextShapes /\ Unsignalled(s)
      BY <1>2, <1>3, SavedIs
    <2>2. s.chars = x \/ (f.enc = "utf8" /\ x # <<>> /\ Head(x) = "ws1" /\ s.chars = Tail(x))
      BY DEF Saved
    <2> QED
      BY <2>1, <2>2
  <1>6. y = x \/ y = u
    <2>1. ASSUME f.enc = "utf8", x # <<>>, Head(x) = "ws1" PROVE Tail(x) = u
      <3>1. PICK a \in Seq(Symbols), b \in Seq(Symbols) : PutBetween(u, k, a, b)
        BY <1>2, PutBetweenSomehow
      <3>2. u = a \o b /\ Len(a) = k /\ x = Three(a, <<m>>, b)
        BY <3>1 DEF PutBetween
      <3>3. k = 0
        <4>1. ASSUME k # 0 PROVE FALSE
          <5>1. 1 \in 1..Len(a)
            BY <3>2, <4>1
          <5>2. u[1] = a[1] /\ Len(u) = Len(a) + Len(b) /\ Len(b) \in Nat /\ Len(a) \in Nat
            <6>1. /\ a \o b \in Seq(Symbols) /\ Len(a \o b) = Len(a) + Len(b)
                  /\ Len(b) \in Nat /\ Len(a) \in Nat
                  /\ \A j \in 1..Len(a) : (a \o b)[j] = a[j]
              BY JoinedAt
            <6> QED
              BY <3>2, <5>1, <6>1
          <5> DEFINE am == a \o <<m>>
          <5>3. am \in Seq(Symbols) /\ Len(am) = Len(a) + 1 /\ am[1] = a[1]
            <6>1. <<m>> \in Seq(Symbols) /\ Len(<<m>>) = 1
              BY <1>2
            <6> DEFINE w1 == <<m>>
            <6> HIDE DEF w1
            <6>2. w1 \in Seq(Symbols) /\ Len(w1) = 1
              BY <6>1 DEF w1
            <6>3. a \o w1 \in Seq(Symbols) /\ Len(a \o w1) = Len(a) + Len(w1)
                  /\ \A j \in 1..Len(a) : (a \o w1)[j] = a[j]
              BY <6>2, JoinedAt
            <6> QED
              BY <5>1, <6>2, <6>3 DEF w1
          <5> HIDE DEF am
          <5>4. (am \o b)[1] = am[1]
            <6>1. 1 \in 1..Len(am)
              BY <5>2, <5>3
            <6> QED
              BY <5>3, <6>1, JoinedAt
          <5>5. x[1] = u[1]
            BY <3>2, <5>2, <5>3, <5>4 DEF Three, am
          <5>6. Head(x) = x[1] /\ Head(u) = u[1] /\ u # <<>>
            BY <1>2, <1>3, <2>1, <5>2, <5>1
          <5> QED
            BY <1>1, <2>1, <5>5, <5>6 DEF Unsignalled
        <4> QED
          BY <4>1
      <3>4. a = <<>>
        BY <3>2, <3>3
      <3>5. <<>> \o b = b /\ <<>> \o <<m>> = <<m>>
        BY ConcatEmptySeq
      <3>6. u = b /\ x = <<m>> \o b
        BY <3>2, <3>4, <3>5 DEF Three
      <3>7. Tail(<<m>> \o b) = b
        BY <1>2, <3>6
      <3> QED
        BY <3>6, <3>7
    <2> QED
      BY <1>5, <2>1
  <1> HIDE DEF s, x, y
  <1>7. TextOf(s) = e /\ e \in Seq(Symbols) /\ y \in Seq(Symbols)
    BY <1>5, TextIs DEF y
  <1>8. /\ d = u => e = y
        /\ \A S : S \cap Mojibake = {} /\ m \notin S /\ Has(e, S) => Has(d, S)
        /\ \A S : m \notin S => Only(y, S) = Only(u, S)
    BY <1>3, <1>4, <1>6
  <1> HIDE DEF e, d, u
  <1>9. Reads(e, v)
    BY <1>7, ReadsCleaned
  <1> HIDE DEF v
  <1>10. Carries(e, Forgotten(pl, gone))
    <2>1. ASSUME NEW c \in Inserting, c \notin gone, pl[c] # <<>>
          PROVE  Only(e, BitMarks(c)) = Only(d, BitMarks(c))
      <3>1. c \in Carrier /\ m \notin BitMarks(c)
        BY <2>1, Apart DEF Carrier
      <3> QED
        BY <1>1, <1>8, <2>1, <3>1
    <2>2. ASSUME pl["homoglyph"] # <<>> PROVE Bare(e) = Bare(d)
      <3>1. "homoglyph" \in Carrier /\ m \notin Symbols \ Marks
        BY DEF Carrier
      <3> QED
        BY <1>1, <1>8, <2>2, <3>1 DEF Bare
    <2> HIDE DEF gone
    <2> QED
      BY <1>1, <1>2, <1>7, <2>1, <2>2, CarriesOn
  <1>11. Rid(e, v, cl \ put)
    <2>1. \A c \in (cl \ put) \cap Inserting : Has(e, Removable(c)) => Has(d, Removable(c))
      <3> SUFFICES ASSUME NEW c \in (cl \ put) \cap Inserting PROVE Has(e, Removable(c)) => Has(d, Removable(c))
        OBVIOUS
      <3>1. c \in Carrier /\ m \notin Removable(c) /\ Removable(c) \subseteq Marks
        BY Alphabet DEF Carrier
      <3>2. Removable(c) \cap Mojibake = {}
        BY <3>1, MarksAreHigh
      <3> QED
        BY <1>8, <3>1, <3>2
    <2>2. "homoglyph" \in put \/ (v = w /\ (Has(e, {"alike"}) => Has(d, {"alike"})))
      <3>1. "homoglyph" \in Carrier /\ {"alike"} \cap Mojibake = {} /\ m \notin {"alike"}
        BY MarksAreHigh, Alphabet DEF Carrier
      <3> QED
        BY <1>8, <3>1
    <2> HIDE DEF put
    <2> QED
      BY <1>1, <2>1, <2>2, RidStill
  <1>12. (\E c \in Carrier : Forgotten(pl, gone)[c] # <<>>) => e = y
    <2>1. \A c \in Carrier : Forgotten(pl, gone)[c] # <<>> => pl[c] # <<>>
      BY DEF Forgotten
    <2> QED
      BY <1>1, <1>8, <2>1
  <1>13. v = StripAll(TextOf(s))
    BY <1>7 DEF v
  <1> HIDE DEF gone, put
  <1>14. TextHolds(s, v, Forgotten(pl, gone), cl \ put)
    BY <1>5, <1>7, <1>9, <1>10, <1>11, <1>12 DEF TextHolds, e, y
  <1> QED
    BY <1>13, <1>14 DEF gone, put, s, x, u, v, e, Disturbed, Returning

BaredRun(r) == [bold |-> r.bold, chars |-> Bare(r.chars)]
BaredRuns(S) == [k \in DOMAIN S |-> BaredRun(S[k])]
BaredOutline(A) == [p \in DOMAIN A |-> BaredRuns(A[p])]

\* A paragraph without its marks is a paragraph.
LEMMA BaredIs ==
    /\ \A r \in Segments : /\ BaredRun(r) \in Segments /\ BaredRun(r).bold = r.bold
                           /\ BaredRun(r).chars = Bare(r.chars) /\ r.chars \in Seq(Symbols)
    /\ \A S \in Seq(Segments) : /\ BaredRuns(S) \in Seq(Segments) /\ Len(BaredRuns(S)) = Len(S)
                                /\ \A k \in 1..Len(S) : BaredRuns(S)[k] = BaredRun(S[k]) /\ S[k] \in Segments
    /\ \A A \in Outlines : /\ BaredOutline(A) \in Outlines /\ Len(BaredOutline(A)) = Len(A)
                           /\ \A p \in 1..Len(A) : BaredOutline(A)[p] = BaredRuns(A[p]) /\ A[p] \in Seq(Segments)
PROOF
  <1>1. ASSUME NEW r \in Segments
        PROVE  /\ BaredRun(r) \in Segments /\ BaredRun(r).bold = r.bold
               /\ BaredRun(r).chars = Bare(r.chars) /\ r.chars \in Seq(Symbols)
    <2>1. r.chars \in Seq(Symbols) /\ r.bold \in BOOLEAN
      BY DEF Segments
    <2>2. Bare(r.chars) \in Seq(Symbols)
      BY <2>1, BareType
    <2> QED
      BY <2>1, <2>2 DEF BaredRun, Segments
  <1>2. ASSUME NEW S \in Seq(Segments)
        PROVE  /\ BaredRuns(S) \in Seq(Segments) /\ Len(BaredRuns(S)) = Len(S)
               /\ \A k \in 1..Len(S) : BaredRuns(S)[k] = BaredRun(S[k]) /\ S[k] \in Segments
    <2>1. Len(S) \in Nat /\ DOMAIN S = 1..Len(S) /\ \A k \in 1..Len(S) : S[k] \in Segments
      OBVIOUS
    <2>2. \A k \in 1..Len(S) : BaredRun(S[k]) \in Segments
      BY <1>1, <2>1
    <2>3. BaredRuns(S) = [k \in 1..Len(S) |-> BaredRun(S[k])]
      BY <2>1 DEF BaredRuns
    <2> QED
      BY <2>1, <2>2, <2>3
  <1>3. ASSUME NEW A \in Outlines
        PROVE  /\ BaredOutline(A) \in Outlines /\ Len(BaredOutline(A)) = Len(A)
               /\ \A p \in 1..Len(A) : BaredOutline(A)[p] = BaredRuns(A[p]) /\ A[p] \in Seq(Segments)
    <2>0. Outlines = Seq(Seq(Segments))
      BY DEF Outlines, Segments
    <2>1. Len(A) \in Nat /\ DOMAIN A = 1..Len(A) /\ \A p \in 1..Len(A) : A[p] \in Seq(Segments)
      BY <2>0
    <2>2. \A p \in 1..Len(A) : BaredRuns(A[p]) \in Seq(Segments)
      BY <1>2, <2>1
    <2>3. BaredOutline(A) = [p \in 1..Len(A) |-> BaredRuns(A[p])]
      BY <2>1 DEF BaredOutline
    <2>4. BaredOutline(A) \in Seq(Seq(Segments)) /\ Len(BaredOutline(A)) = Len(A)
      BY <2>1, <2>2, <2>3
    <2> QED
      BY <2>0, <2>1, <2>3, <2>4
  <1> QED
    BY <1>1, <1>2, <1>3

\* What the author put on paper.
LEMMA AuthoredIs ==
    ASSUME NEW P \in Archives
    PROVE  Authored(P) = BaredOutline(SegsOf(P)) /\ Authored(P) \in Outlines /\ SegsOf(P) \in Outlines
PROOF
  <1>1. /\ SegsOf(P) \in Outlines /\ Len(SegsOf(P)) = Len(P) /\ Len(P) \in Nat
        /\ \A p \in 1..Len(P) : SegsOf(P)[p] = Shown(P[p]) /\ P[p] \in Seq(FileRuns)
    BY LoweredIs DEF Archives
  <1>2. ASSUME NEW r \in Segments PROVE [r EXCEPT !.chars = Free(@, Marks)] = BaredRun(r)
    <2>1. r.chars \in Seq(Symbols) /\ r = [bold |-> r.bold, chars |-> r.chars]
      BY DEF Segments
    <2>2. Free(r.chars, Marks) = Bare(r.chars)
      BY <2>1, FreeIsOnly DEF Bare
    <2> QED
      BY <2>1, <2>2 DEF BaredRun
  <1>3. ASSUME NEW p \in 1..Len(P)
        PROVE  [k \in DOMAIN Shown(P[p]) |-> [Shown(P[p])[k] EXCEPT !.chars = Free(@, Marks)]]
                    = BaredRuns(SegsOf(P)[p])
    <2> DEFINE S == Shown(P[p])
    <2>1. S \in Seq(Segments)
      BY <1>1, ShownIs
    <2>2. SegsOf(P)[p] = S
      BY <1>1
    <2> HIDE DEF S
    <2>3. \A k \in DOMAIN S : [S[k] EXCEPT !.chars = Free(@, Marks)] = BaredRun(S[k])
      BY <1>2, <2>1
    <2> QED
      BY <2>2, <2>3 DEF BaredRuns, S
  <1>4. DOMAIN P = 1..Len(P) /\ DOMAIN SegsOf(P) = 1..Len(P)
    BY DEF Archives, SegsOf
  <1>5. Authored(P) = [p \in 1..Len(P) |-> BaredRuns(SegsOf(P)[p])]
    BY <1>3, <1>4 DEF Authored
  <1>6. BaredOutline(SegsOf(P)) = [p \in 1..Len(P) |-> BaredRuns(SegsOf(P)[p])]
    BY <1>4 DEF BaredOutline
  <1> QED
    BY <1>1, <1>5, <1>6, BaredIs

-----------------------------------------------------------------------------
(* Office files.                                                           *)

Claimings == [signer : Authors, hash : Seq(Symbols)]
Signings == [signer : Authors, over : Outlines, firm : BOOLEAN]
OfficeShapes == [form : {"office"}, kind : {"docx", "odt"}, paras : Archives,
                 meta : {Unsigned} \cup Claimings]

\* An office file, and what its history says of it.
OfficeHolds(f, sg, cl) ==
    /\ f \in OfficeShapes /\ sg \in {Unsigned} \cup Signings
    /\ f.kind = "odt" => f.meta = Unsigned
    /\ f.meta = Unsigned <=> sg = Unsigned
    /\ \A c \in cl : c \in Inserting /\ ~Has(Lowered(f.paras), Removable(c))

\* Of an office file: what it holds, and what a reader gets of it.
LEMMA OfficeIs ==
    ASSUME NEW f \in OfficeShapes
    PROVE  /\ f.form = "office" /\ f.kind \in {"docx", "odt"} /\ f.paras \in Archives
           /\ f.meta \in {Unsigned} \cup Claimings
           /\ Lowered(f.paras) \in Seq(Symbols)
           /\ Extracted(f) = Lowered(f.paras)
           /\ \A P \in Archives : \A m \in {Unsigned} \cup Claimings :
                /\ [f EXCEPT !.paras = P, !.meta = m] \in OfficeShapes
                /\ [f EXCEPT !.paras = P, !.meta = m].paras = P
                /\ [f EXCEPT !.paras = P, !.meta = m].meta = m
                /\ [f EXCEPT !.paras = P, !.meta = m].kind = f.kind
PROOF
  <1>1. /\ f.form = "office" /\ f.kind \in {"docx", "odt"} /\ f.paras \in Archives
        /\ f.meta \in {Unsigned} \cup Claimings
    BY DEF OfficeShapes
  <1>2. Lowered(f.paras) \in Seq(Symbols)
    BY <1>1, LoweredIs DEF Archives
  <1>3. Extracted(f) = Lowered(f.paras)
    BY <1>1 DEF Extracted
  <1>5. ASSUME NEW P \in Archives, NEW m \in {Unsigned} \cup Claimings
        PROVE  /\ [f EXCEPT !.paras = P, !.meta = m] \in OfficeShapes
               /\ [f EXCEPT !.paras = P, !.meta = m].paras = P
               /\ [f EXCEPT !.paras = P, !.meta = m].meta = m
               /\ [f EXCEPT !.paras = P, !.meta = m].kind = f.kind
    BY DEF OfficeShapes
  <1> QED
    BY <1>1, <1>2, <1>3, <1>5

\* Paragraphs that show no mark of a class another did not.
LEMMA ShowsNoMore ==
    ASSUME NEW P \in Archives, NEW O \in Archives, NEW c \in Inserting,
           Paired(P, O, Showing(Removable(c))), ~Has(Lowered(O), Removable(c))
    PROVE  ~Has(Lowered(P), Removable(c))
PROOF
  <1>1. Removable(c) \cap Layout = {}
    <2>1. Layout \subseteq Visible
      BY DEF Layout, Visible
    <2> QED
      BY <2>1, Alphabet
  <1> QED
    BY <1>1, LoweredShows

\* Only marks of some classes are new in the paragraphs of a file; its metadata, and
\* what is known of it, are kept or dropped together.
NewIn(P, O, gone) == \A c \in Inserting \ gone : Paired(P, O, Showing(Removable(c)))
KeptOrDropped(m, sh, old, sg) == (m = old /\ sh = sg) \/ (m = Unsigned /\ sh = Unsigned)
Holding(f, P, m) == [f EXCEPT !.paras = P, !.meta = m]

\* The paragraphs of an office file changed, and its metadata kept or dropped.
LEMMA OfficeChanged ==
    ASSUME NEW f, NEW sg, NEW cl, OfficeHolds(f, sg, cl), NEW P \in Archives, NEW gone,
           NewIn(P, f.paras, gone), NEW m, NEW sh, KeptOrDropped(m, sh, f.meta, sg)
    PROVE  OfficeHolds(Holding(f, P, m), sh, cl \ gone)
PROOF
  <1> DEFINE g == [f EXCEPT !.paras = P, !.meta = m]
  <1>1. /\ f \in OfficeShapes /\ sg \in {Unsigned} \cup Signings
        /\ f.kind = "odt" => f.meta = Unsigned
        /\ f.meta = Unsigned <=> sg = Unsigned
        /\ \A c \in cl : c \in Inserting /\ ~Has(Lowered(f.paras), Removable(c))
    BY DEF OfficeHolds
  <1>2. f.paras \in Archives /\ f.meta \in {Unsigned} \cup Claimings /\ Unsigned \in {Unsigned} \cup Claimings
    BY <1>1, OfficeIs
  <1>3. /\ m \in {Unsigned} \cup Claimings
        /\ (m = f.meta /\ sh = sg) \/ (m = Unsigned /\ sh = Unsigned)
    BY <1>2 DEF KeptOrDropped
  <1>4. g \in OfficeShapes /\ g.paras = P /\ g.meta = m /\ g.kind = f.kind
    <2>1. \A Q \in Archives : \A n \in {Unsigned} \cup Claimings :
                /\ [f EXCEPT !.paras = Q, !.meta = n] \in OfficeShapes
                /\ [f EXCEPT !.paras = Q, !.meta = n].paras = Q
                /\ [f EXCEPT !.paras = Q, !.meta = n].meta = n
                /\ [f EXCEPT !.paras = Q, !.meta = n].kind = f.kind
      BY <1>1, OfficeIs
    <2> QED
      BY <1>3, <2>1
  <1>5. \A c \in cl \ gone : c \in Inserting /\ ~Has(Lowered(P), Removable(c))
    BY <1>1, <1>2, ShowsNoMore DEF NewIn
  <1> HIDE DEF g
  <1>6. OfficeHolds(g, sh, cl \ gone)
    BY <1>1, <1>3, <1>4, <1>5 DEF OfficeHolds
  <1> QED
    BY <1>6 DEF g, Holding

\* A clean of an archive.
LEMMA OfficeCleaned ==
    ASSUME NEW f, NEW sg, NEW cl, OfficeHolds(f, sg, cl), NEW chosen \in SUBSET Carrier,
           "homoglyph" \notin chosen, Removed(NodesCleaned(f.paras, chosen), chosen)
    PROVE  OfficeHolds([f EXCEPT !.paras = NodesCleaned(f.paras, chosen)], sg, cl \cup chosen)
PROOF
  <1> DEFINE P == NodesCleaned(f.paras, chosen)
             g == [f EXCEPT !.paras = P, !.meta = f.meta]
  <1>1. f \in OfficeShapes /\ f.paras \in Archives
    BY OfficeIs DEF OfficeHolds
  <1>2. P \in Archives /\ \A Q : Paired(P, f.paras, Showing(Q))
    BY <1>1, NodesRelate
  <1> HIDE DEF P
  <1>3. OfficeHolds(g, sg, cl \ {})
    <2>1. NewIn(P, f.paras, {}) /\ KeptOrDropped(f.meta, sg, f.meta, sg)
      BY <1>2 DEF NewIn, KeptOrDropped
    <2>2. OfficeHolds(Holding(f, P, f.meta), sg, cl \ {})
      BY <1>2, <2>1, OfficeChanged
    <2> QED
      BY <2>2 DEF Holding
  <1>4. g.paras = P /\ g = [f EXCEPT !.paras = P]
    BY <1>1 DEF OfficeShapes
  <1>5. \A c \in chosen : c \in Inserting /\ ~Has(Lowered(P), Removable(c))
    <2>1. \A c \in chosen : c \in Inserting
      BY DEF Carrier
    <2>2. Lowered(P) \in Seq(Symbols)
      BY <1>2, LoweredIs DEF Archives
    <2>3. StripEach(CleanOrder, chosen, Lowered(P)) = Lowered(P)
      BY DEF Removed, P
    <2> QED
      BY <2>1, <2>2, <2>3, StripEachClears
  <1> HIDE DEF g
  <1>6. OfficeHolds(g, sg, cl \cup chosen)
    BY <1>3, <1>4, <1>5 DEF OfficeHolds
  <1> QED
    BY <1>4, <1>6 DEF P

-----------------------------------------------------------------------------
(* The first invariant.                                                    *)

\* What holds of a file through every command and edit.
FileInv ==
    /\ ops \in 0..MaxOps /\ cleared \in SUBSET Carrier
    /\ \/ (TextHolds(file, wrote, placed, cleared) /\ signed = Unsigned)
       \/ OfficeHolds(file, signed, cleared)

\* A file is of one of its forms.
LEMMA FormsApart ==
    ASSUME FileInv
    PROVE  /\ file.form = "text" =>
                /\ TextHolds(file, wrote, placed, cleared) /\ signed = Unsigned
                /\ file \in TextShapes /\ file.enc \in Encodings /\ file.chars \in Seq(Symbols)
                /\ TextOf(file) \in Seq(Symbols) /\ Reads(TextOf(file), wrote)
                /\ Carries(TextOf(file), placed) /\ Rid(TextOf(file), wrote, cleared)
                /\ Extracted(file) = TextOf(file)
           /\ file.form # "text" =>
                /\ OfficeHolds(file, signed, cleared) /\ file \in OfficeShapes
                /\ file.form = "office" /\ file.paras \in Archives
                /\ Extracted(file) = Lowered(file.paras) /\ Lowered(file.paras) \in Seq(Symbols)
           /\ file.form \in {"text", "office"}
PROOF
  <1>1. CASE TextHolds(file, wrote, placed, cleared) /\ signed = Unsigned
    <2>1. /\ file \in TextShapes /\ Reads(TextOf(file), wrote)
          /\ Carries(TextOf(file), placed) /\ Rid(TextOf(file), wrote, cleared)
      BY <1>1 DEF TextHolds
    <2>2. /\ file.form = "text" /\ file.enc \in Encodings /\ file.chars \in Seq(Symbols)
          /\ TextOf(file) \in Seq(Symbols)
      BY <2>1, TextIs
    <2>3. Extracted(file) = TextOf(file)
      BY <2>2 DEF Extracted
    <2> QED
      BY <1>1, <2>1, <2>2, <2>3
  <1>2. CASE OfficeHolds(file, signed, cleared)
    <2>1. file \in OfficeShapes
      BY <1>2 DEF OfficeHolds
    <2>2. /\ file.form = "office" /\ file.paras \in Archives
          /\ Extracted(file) = Lowered(file.paras) /\ Lowered(file.paras) \in Seq(Symbols)
      BY <2>1, OfficeIs
    <2> QED
      BY <1>2, <2>1, <2>2
  <1> QED
    BY <1>1, <1>2 DEF FileInv

\* No command is one too many.
LEMMA StepCounts == FileInv /\ FileStep => ops' \in 0..MaxOps
  BY FileAssumption DEF FileInv, FileStep

\* As their authors leave them, files carry nothing and nothing was cleaned of them.
LEMMA FileInvInit == FileInit => FileInv
PROOF
  <1> SUFFICES ASSUME FileInit PROVE FileInv
    OBVIOUS
  <1>1. ops \in 0..MaxOps /\ cleared \in SUBSET Carrier /\ cleared = {} /\ signed = Unsigned
    BY FileAssumption DEF FileInit
  <1>2. CASE file \in TextFiles
    <2>1. /\ file \in [form : {"text"}, enc : Encodings, chars : Seq(Symbols \ Marks)]
      BY <1>2, FileAssumption
    <2>2. file.chars \in Seq(Symbols \ Marks) /\ file.form = "text" /\ file.enc \in Encodings
      BY <2>1
    <2>3. file \in TextShapes
      BY <2>1 DEF TextShapes
    <2>4. Unsignalled(file)
      <3>1. file.chars # <<>> => Head(file.chars) \in Symbols \ Marks
        BY <2>2
      <3>2. "ws1" \in Marks
        <4>1. "whitespace_var" \in Inserting /\ Bit1["whitespace_var"] = "ws1"
          BY DEF Inserting, Bit0, Bit1
        <4> QED
          BY <4>1, Alphabet
      <3> QED
        BY <3>1, <3>2 DEF Unsignalled
    <2>5. TextOf(file) \in Seq(Symbols) /\ wrote = StripAll(TextOf(file))
      BY <2>2, <2>3, TextIs DEF FileInit
    <2>6. Reads(TextOf(file), wrote)
      BY <2>5, ReadsCleaned
    <2>7. placed = [c \in Carrier |-> <<>>] /\ <<>> \in BitStrings
      BY DEF FileInit, BitStrings
    <2>8. Carries(TextOf(file), placed)
      <3>1. placed \in [Carrier -> BitStrings] /\ \A c \in Carrier : placed[c] = <<>>
        BY <2>7
      <3>2. Inserting \subseteq Carrier /\ "homoglyph" \in Carrier
        BY DEF Carrier
      <3> QED
        BY <2>5, <3>1, <3>2, NothingFirst DEF Carries
    <2>9. Rid(TextOf(file), wrote, cleared)
      BY <1>1 DEF Rid
    <2>10. \A c \in Carrier : placed[c] = <<>>
      BY <2>7
    <2> QED
      BY <1>1, <2>3, <2>4, <2>6, <2>8, <2>9, <2>10 DEF FileInv, TextHolds
  <1>3. CASE file \in OfficeFiles
    <2>1. file \in [form : {"office"}, kind : {"docx", "odt"}, paras : Seq(Seq(FileRuns)), meta : {Unsigned}]
      BY <1>3, FileAssumption
    <2>2. file \in OfficeShapes /\ file.meta = Unsigned
      BY <2>1 DEF OfficeShapes, Archives
    <2> QED
      BY <1>1, <2>2 DEF FileInv, OfficeHolds
  <1> QED
    BY <1>2, <1>3 DEF FileInit

\* A text cleaned and written back.
LEMMA CleanTextKeeps ==
    ASSUME FileInv, NEW chosen \in FileSelections, CleanText(chosen)
    PROVE  FileInv'
PROOF
  <1> DEFINE e == StripEach(CleanOrder, chosen, TextOf(file))
  <1>1. /\ FileStep /\ file.form = "text" /\ WritableBack(file.enc, e)
        /\ file' = Saved(file.enc, e) /\ placed' = Unplaced(chosen)
        /\ cleared' = cleared \cup chosen /\ wrote' = wrote /\ signed' = signed
    BY DEF CleanText
  <1>2. /\ Reads(TextOf(file), wrote) /\ Carries(TextOf(file), placed) /\ Rid(TextOf(file), wrote, cleared)
        /\ file.enc \in Encodings /\ signed = Unsigned
    BY <1>1, FormsApart
  <1>3. e \in Seq(Symbols) /\ Reads(e, wrote) /\ Carries(e, Forgotten(placed, chosen))
        /\ Rid(e, wrote, cleared \cup chosen)
    BY <1>2, CleanedText
  <1> HIDE DEF e
  <1>4. TextHolds(Saved(file.enc, e), wrote, Forgotten(placed, chosen), cleared \cup chosen)
    BY <1>1, <1>2, <1>3, TextSaved
  <1>5. Forgotten(placed, chosen) = Unplaced(chosen)
    BY DEF Forgotten, Unplaced
  <1>6. cleared' \in SUBSET Carrier
    BY <1>1, FileAssumption DEF FileInv
  <1>7. TextHolds(file', wrote', placed', cleared') /\ signed' = Unsigned
    BY <1>1, <1>2, <1>4, <1>5
  <1> QED
    BY <1>1, <1>6, <1>7, StepCounts DEF FileInv

\* A clean that finds nothing to do.
LEMMA CleanFindsNoneKeeps ==
    ASSUME FileInv, NEW chosen \in FileSelections, CleanFindsNone(chosen)
    PROVE  FileInv'
PROOF
  <1>1. /\ FileStep /\ StripEach(CleanOrder, chosen, Extracted(file)) = Extracted(file)
        /\ file.form = "office" => "homoglyph" \notin chosen
        /\ cleared' = cleared \cup chosen /\ chosen \subseteq Carrier
        /\ file' = file /\ wrote' = wrote /\ placed' = placed /\ signed' = signed
    BY FileAssumption DEF CleanFindsNone
  <1>2. cleared' \in SUBSET Carrier
    BY <1>1 DEF FileInv
  <1>3. CASE file.form = "text"
    <2> DEFINE d == TextOf(file)
    <2>1. /\ TextHolds(file, wrote, placed, cleared) /\ signed = Unsigned
          /\ Reads(d, wrote) /\ Carries(d, placed) /\ Rid(d, wrote, cleared)
          /\ StripEach(CleanOrder, chosen, d) = d
      BY <1>1, <1>3, FormsApart
    <2> HIDE DEF d
    <2>2. Rid(StripEach(CleanOrder, chosen, d), wrote, cleared \cup chosen)
      BY <2>1, CleanedText
    <2>3. Rid(d, wrote, cleared \cup chosen)
      BY <2>1, <2>2
    <2>4. TextHolds(file, wrote, placed, cleared \cup chosen)
      BY <2>1, <2>3 DEF TextHolds, d
    <2> QED
      BY <1>1, <1>2, <2>1, <2>4, StepCounts DEF FileInv
  <1>4. CASE file.form # "text"
    <2> DEFINE d == Lowered(file.paras)
    <2>1. /\ OfficeHolds(file, signed, cleared) /\ file.form = "office"
          /\ d \in Seq(Symbols) /\ Extracted(file) = d
      BY <1>4, FormsApart
    <2>2. "homoglyph" \notin chosen /\ StripEach(CleanOrder, chosen, d) = d
      BY <1>1, <2>1
    <2>3. \A c \in chosen : c \in Inserting
      BY <1>1, <2>2 DEF Carrier
    <2> HIDE DEF d
    <2>4. \A c \in chosen : ~Has(d, Removable(c))
      BY <2>1, <2>2, <2>3, StripEachClears
    <2>5. OfficeHolds(file, signed, cleared \cup chosen)
      BY <2>1, <2>3, <2>4 DEF OfficeHolds, d
    <2> QED
      BY <1>1, <1>2, <2>5, StepCounts DEF FileInv
  <1> QED
    BY <1>3, <1>4

\* A text taken back to what it reads.
LEMMA PristineFileKeeps ==
    ASSUME FileInv, PristineFile
    PROVE  FileInv'
PROOF
  <1> DEFINE d == TextOf(file)
             e == Skeleton(StripAll(d))
  <1>1. /\ FileStep /\ file.form = "text"
        /\ wrote' = Skeleton(wrote) /\ cleared' = Carrier /\ signed' = signed
        /\ \/ (e = d /\ file' = file /\ placed' = placed)
           \/ (/\ WritableBack(file.enc, e) /\ file' = Saved(file.enc, e)
               /\ placed' = Unplaced(Carrier))
    BY DEF PristineFile
  <1>2. /\ TextHolds(file, wrote, placed, cleared) /\ signed = Unsigned
        /\ file.enc \in Encodings /\ Reads(d, wrote) /\ Carries(d, placed)
    BY <1>1, FormsApart
  <1> HIDE DEF d
  <1>3. /\ e \in Seq(Symbols) /\ Reads(e, Skeleton(wrote)) /\ Rid(e, Skeleton(wrote), Carrier)
        /\ Carries(e, Forgotten(placed, Carrier))
    BY <1>2, PristineText
  <1> HIDE DEF e
  <1>4. CASE e = d /\ file' = file /\ placed' = placed
    <2>1. TextHolds(file, Skeleton(wrote), placed, Carrier)
      BY <1>2, <1>3, <1>4 DEF TextHolds, d
    <2> QED
      BY <1>1, <1>2, <1>4, <2>1, StepCounts DEF FileInv
  <1>5. CASE /\ WritableBack(file.enc, e) /\ file' = Saved(file.enc, e)
             /\ placed' = Unplaced(Carrier)
    <2>1. TextHolds(Saved(file.enc, e), Skeleton(wrote), Forgotten(placed, Carrier), Carrier)
      BY <1>2, <1>3, <1>5, TextSaved
    <2>2. Forgotten(placed, Carrier) = Unplaced(Carrier)
      BY DEF Forgotten, Unplaced
    <2> QED
      BY <1>1, <1>2, <1>5, <2>1, <2>2, StepCounts DEF FileInv
  <1> QED
    BY <1>1, <1>4, <1>5

\* Bits concealed in a text.
LEMMA ConcealFileKeeps ==
    ASSUME FileInv, NEW c \in Carrier, NEW bits \in Secrets, ConcealFile(c, bits)
    PROVE  FileInv'
PROOF
  <1> DEFINE d == TextOf(file)
             e == Written(c, d, bits)
  <1>1. /\ FileStep /\ file.form = "text" /\ Writable(c, d) /\ Len(bits) <= Positions(c, d)
        /\ WritableBack(file.enc, e) /\ file' = Saved(file.enc, e)
        /\ placed' = [placed EXCEPT ![c] = bits] /\ cleared' = cleared \ {c}
        /\ wrote' = wrote /\ signed' = signed
    BY DEF ConcealFile, Accepts
  <1>2. /\ Reads(d, wrote) /\ Carries(d, placed) /\ Rid(d, wrote, cleared)
        /\ file.enc \in Encodings /\ signed = Unsigned
    BY <1>1, FormsApart
  <1>3. bits \in BitStrings
    BY FileAssumption DEF BitStrings
  <1> HIDE DEF d
  <1>4. /\ e \in Seq(Symbols) /\ Reads(e, wrote) /\ Carries(e, [placed EXCEPT ![c] = bits])
        /\ Rid(e, wrote, cleared \ {c})
    BY <1>1, <1>2, <1>3, ConcealedText
  <1> HIDE DEF e
  <1>5. TextHolds(Saved(file.enc, e), wrote, [placed EXCEPT ![c] = bits], cleared \ {c})
    BY <1>1, <1>2, <1>4, TextSaved
  <1>6. cleared' \in SUBSET Carrier
    BY <1>1 DEF FileInv
  <1> QED
    BY <1>1, <1>2, <1>5, <1>6, StepCounts DEF FileInv

\* A letter typed over in a text, and a mark pasted into one.
LEMMA RewordedKeeps ==
    ASSUME FileInv
    PROVE  /\ \A i \in DOMAIN TextChars, letter \in {"twin", "latin"} :
                RetypeText(i, letter) => FileInv'
           /\ \A k \in 0..Len(TextChars), s \in Pasted : PasteIntoText(k, s) => FileInv'
PROOF
  <1>1. ASSUME NEW i \in DOMAIN TextChars, NEW letter \in {"twin", "latin"}, RetypeText(i, letter)
        PROVE  FileInv'
    <2> DEFINE s == Saved(file.enc, [file.chars EXCEPT ![i] = letter])
               v == StripAll(TextOf(s))
    <2>1. /\ file.form = "text" /\ file.chars[i] \in {"twin", "latin"}
          /\ FileStep /\ file' = s /\ wrote' = v /\ signed' = signed
          /\ placed' = Unplaced({"homoglyph"}) /\ cleared' = cleared \ {"homoglyph"}
      BY <1>1 DEF RetypeText, Reworded
    <2>2. TextHolds(file, wrote, placed, cleared) /\ signed = Unsigned /\ i \in DOMAIN file.chars
      BY <2>1, FormsApart DEF TextChars
    <2>3. TextHolds(s, v, Forgotten(placed, {"homoglyph"}), cleared \ {"homoglyph"})
      BY <2>1, <2>2, TextRetyped
    <2> HIDE DEF v, s
    <2>4. Forgotten(placed, {"homoglyph"}) = Unplaced({"homoglyph"})
      BY DEF Forgotten, Unplaced
    <2>5. cleared' \in SUBSET Carrier
      BY <2>1 DEF FileInv
    <2> QED
      BY <2>1, <2>2, <2>3, <2>4, <2>5, StepCounts DEF FileInv
  <1>2. ASSUME NEW k \in 0..Len(TextChars), NEW m \in Pasted, PasteIntoText(k, m)
        PROVE  FileInv'
    <2> DEFINE s == Saved(file.enc, InsertAt(file.chars, k + 1, m))
               v == StripAll(TextOf(s))
               gone == Disturbed(m)
               put == Returning(m, v, wrote)
    <2>1. /\ file.form = "text"
          /\ FileStep /\ file' = s /\ wrote' = v /\ signed' = signed
          /\ placed' = Unplaced(gone)
          /\ cleared' = cleared \ {c \in Carrier : m \in Removable(c) \/ (c = "homoglyph" /\ wrote' # wrote)}
      BY <1>2 DEF PasteIntoText, Reworded, Disturbed
    <2>2. TextHolds(file, wrote, placed, cleared) /\ signed = Unsigned /\ k \in 0..Len(file.chars)
      BY <2>1, FormsApart DEF TextChars
    <2>3. m \in Marks
      BY FileAssumption
    <2>4. TextHolds(s, v, Forgotten(placed, gone), cleared \ put)
      BY <2>2, <2>3, TextPasted
    <2> HIDE DEF v, s
    <2>5. Forgotten(placed, gone) = Unplaced(gone)
      BY DEF Forgotten, Unplaced
    <2>6. cleared' = cleared \ put
      BY <2>1 DEF Returning
    <2> HIDE DEF put, gone
    <2>7. cleared' \in SUBSET Carrier
      BY <2>6 DEF FileInv
    <2> QED
      BY <2>1, <2>2, <2>4, <2>5, <2>6, <2>7, StepCounts DEF FileInv
  <1> QED
    BY <1>1, <1>2

\* An archive cleaned node by node.
LEMMA CleanOfficeKeeps ==
    ASSUME FileInv, NEW chosen \in FileSelections, CleanOffice(chosen)
    PROVE  FileInv'
PROOF
  <1>1. /\ FileStep /\ file.form = "office" /\ "homoglyph" \notin chosen /\ chosen \in SUBSET Carrier
        /\ Removed(NodesCleaned(file.paras, chosen), chosen)
        /\ file' = [file EXCEPT !.paras = NodesCleaned(file.paras, chosen)]
        /\ cleared' = cleared \cup chosen /\ signed' = signed
    BY FileAssumption DEF CleanOffice, Repackaged
  <1>2. OfficeHolds(file, signed, cleared)
    BY <1>1, FormsApart
  <1>3. OfficeHolds([file EXCEPT !.paras = NodesCleaned(file.paras, chosen)], signed, cleared \cup chosen)
    BY <1>1, <1>2, OfficeCleaned
  <1>4. cleared' \in SUBSET Carrier
    BY <1>1 DEF FileInv
  <1> QED
    BY <1>1, <1>3, <1>4, StepCounts DEF FileInv

\* The metadata of an archive dropped, or a claim put there.
LEMMA MetadataKeeps ==
    ASSUME FileInv
    PROVE  /\ StripFile => FileInv'
           /\ \A s \in Authors : SignIntoMetadata(s) => FileInv'
PROOF
  <1>1. ASSUME StripFile PROVE FileInv'
    <2>1. /\ FileStep /\ file.form = "office" /\ file' = [file EXCEPT !.meta = Unsigned]
          /\ signed' = Unsigned /\ cleared' = cleared
      BY <1>1 DEF StripFile
    <2>2. OfficeHolds(file, signed, cleared) /\ file \in OfficeShapes
      BY <2>1, FormsApart
    <2>3. /\ [file EXCEPT !.meta = Unsigned] \in OfficeShapes
          /\ [file EXCEPT !.meta = Unsigned].meta = Unsigned
          /\ [file EXCEPT !.meta = Unsigned].paras = file.paras
      BY <2>2 DEF OfficeShapes
    <2>4. OfficeHolds(file', signed', cleared')
      BY <2>1, <2>2, <2>3 DEF OfficeHolds
    <2> QED
      BY <2>1, <2>4, StepCounts DEF FileInv
  <1>2. ASSUME NEW s \in Authors, SignIntoMetadata(s) PROVE FileInv'
    <2> DEFINE claim == [signer |-> s, hash |-> StripAll(Lowered(file.paras))]
               history == [signer |-> s, over |-> Authored(file.paras), firm |-> Firm(file.paras)]
    <2>1. /\ FileStep /\ file.form = "office" /\ file.kind = "docx"
          /\ file' = [file EXCEPT !.meta = claim] /\ signed' = history /\ cleared' = cleared
      BY <1>2 DEF SignIntoMetadata, Embedded
    <2>2. OfficeHolds(file, signed, cleared) /\ file \in OfficeShapes
          /\ file.paras \in Archives /\ Lowered(file.paras) \in Seq(Symbols)
      BY <2>1, FormsApart
    <2>3. claim \in Claimings /\ claim # Unsigned
      <3>1. StripAll(Lowered(file.paras)) \in Seq(Symbols)
        BY <2>2, StripEachClears DEF StripAll
      <3>2. claim \in Claimings
        BY <3>1 DEF Claimings
      <3>3. Unsigned \notin Claimings
        BY FileAssumption DEF Claimings
      <3> QED
        BY <3>2, <3>3
    <2>4. history \in Signings /\ history # Unsigned
      <3>1. Authored(file.paras) \in Outlines
        BY <2>2, AuthoredIs
      <3>2. Firm(file.paras) \in BOOLEAN
        BY DEF Firm
      <3>3. history \in Signings
        BY <3>1, <3>2 DEF Signings
      <3>4. Unsigned \notin Signings
        BY FileAssumption DEF Signings
      <3> QED
        BY <3>3, <3>4
    <2> HIDE DEF claim, history
    <2>5. /\ [file EXCEPT !.meta = claim] \in OfficeShapes
          /\ [file EXCEPT !.meta = claim].meta = claim
          /\ [file EXCEPT !.meta = claim].paras = file.paras
          /\ [file EXCEPT !.meta = claim].kind = file.kind
      BY <2>2, <2>3 DEF OfficeShapes
    <2>6. OfficeHolds(file', signed', cleared')
      BY <2>1, <2>2, <2>3, <2>4, <2>5 DEF OfficeHolds
    <2> QED
      BY <2>1, <2>6, StepCounts DEF FileInv
  <1> QED
    BY <1>1, <1>2

\* A run of an archive replaced by one that shows no mark more, but for some classes.
NewOf(x, y, gone) == \A c \in Inserting \ gone : <<x, y>> \in Showing(Removable(c))
WithRun(P, p, k, x) == [P EXCEPT ![p] = [P[p] EXCEPT ![k] = x]]

\* Of such an edit: what is known of the file holds of it.
LEMMA RunChanged ==
    ASSUME FileInv, FileStep, file.form = "office", NEW p \in DOMAIN Paras, NEW k \in DOMAIN Paras[p],
           NEW x \in FileRuns, NEW gone, NewOf(x, file.paras[p][k], gone),
           NEW m, KeptOrDropped(m, signed', file.meta, signed),
           file' = Holding(file, WithRun(file.paras, p, k, x), m),
           cleared' = cleared \ gone
    PROVE  FileInv'
PROOF
  <1> DEFINE P == file.paras
             N == WithRun(P, p, k, x)
  <1>1. /\ OfficeHolds(file, signed, cleared) /\ P \in Archives /\ Paras = P
    BY FormsApart DEF Paras
  <1>2. p \in 1..Len(P) /\ P[p] \in Seq(FileRuns) /\ k \in 1..Len(P[p])
    BY <1>1 DEF Archives
  <1>3. /\ N \in Archives /\ P[p][k] \in FileRuns
        /\ \A R : (\A y \in FileRuns : <<y, y>> \in R) /\ <<x, P[p][k]>> \in R => Paired(N, P, R)
    <2>1. N = [P EXCEPT ![p] = [@ EXCEPT ![k] = x]]
      BY DEF WithRun
    <2> HIDE DEF N, P
    <2> QED
      BY <1>1, <1>2, <2>1, RunReplaced
  <1>4. NewIn(N, P, gone)
    <2> HIDE DEF N, P
    <2>1. \A c \in Inserting \ gone : <<x, P[p][k]>> \in Showing(Removable(c))
      BY DEF NewOf, P
    <2> QED
      BY <1>3, <2>1, RelatesItself DEF NewIn
  <1>6. NewIn(N, file.paras, gone) /\ file' = Holding(file, N, m)
    BY <1>4
  <1> HIDE DEF N, P
  <1>7. OfficeHolds(Holding(file, N, m), signed', cleared \ gone)
    BY <1>1, <1>3, <1>6, OfficeChanged
  <1>8. cleared' \in SUBSET Carrier
    BY DEF FileInv
  <1> QED
    BY <1>6, <1>7, <1>8, StepCounts DEF FileInv

\* A letter typed over in an archive, and a mark pasted into one.
LEMMA OfficeEditsKeep ==
    ASSUME FileInv, NEW p \in DOMAIN Paras, NEW k \in DOMAIN Paras[p]
    PROVE  /\ \A i \in DOMAIN Paras[p][k].chars, letter \in {"twin", "latin"}, keeps \in BOOLEAN :
                RetypeOffice(p, k, i, letter, keeps) => FileInv'
           /\ \A i \in 0..Len(Paras[p][k].chars), s \in Pasted \cup References :
                PasteIntoOffice(p, k, i, s) => FileInv'
PROOF
  <1>0. ASSUME file.form = "office" PROVE file.paras[p][k] \in FileRuns /\ Paras = file.paras
    <2>1. file.paras \in Archives /\ Paras = file.paras
      BY <1>0, FormsApart DEF Paras
    <2>2. p \in 1..Len(file.paras) /\ file.paras[p] \in Seq(FileRuns)
      BY <2>1 DEF Archives
    <2> QED
      BY <2>1, <2>2
  <1>1. ASSUME NEW i \in DOMAIN Paras[p][k].chars, NEW letter \in {"twin", "latin"}, NEW keeps \in BOOLEAN,
               RetypeOffice(p, k, i, letter, keeps)
        PROVE  FileInv'
    <2> DEFINE y == file.paras[p][k]
               x == [y EXCEPT !.chars = [y.chars EXCEPT ![i] = letter]]
               m == IF keeps THEN file.meta ELSE Unsigned
    <2>1. /\ FileStep /\ file.form = "office" /\ y.chars[i] \in {"twin", "latin"}
          /\ file' = [file EXCEPT !.paras[p][k].chars[i] = letter, !.meta = IF keeps THEN @ ELSE Unsigned]
          /\ signed' = (IF keeps THEN signed ELSE Unsigned) /\ cleared' = cleared
      BY <1>1 DEF RetypeOffice
    <2>2. y \in FileRuns /\ i \in DOMAIN y.chars
      BY <1>0, <2>1
    <2>3. x \in FileRuns /\ \A Q \in SUBSET Marks : <<x, y>> \in Showing(Q)
      BY <2>1, <2>2, RetypedRun
    <2>4. NewOf(x, file.paras[p][k], {})
      BY <2>3, Alphabet DEF NewOf
    <2>5. file' = Holding(file, WithRun(file.paras, p, k, x), m)
      BY <2>1 DEF Holding, WithRun
    <2>6. cleared' = cleared \ {}
      BY <2>1
    <2>7. KeptOrDropped(m, signed', file.meta, signed)
      BY <2>1 DEF KeptOrDropped
    <2> HIDE DEF x, m
    <2> QED
      BY <2>1, <2>3, <2>4, <2>5, <2>6, <2>7, RunChanged
  <1>2. ASSUME NEW i \in 0..Len(Paras[p][k].chars), NEW s \in Pasted \cup References,
               PasteIntoOffice(p, k, i, s)
        PROVE  FileInv'
    <2> DEFINE y == file.paras[p][k]
               x == [y EXCEPT !.chars = InsertAt(y.chars, i + 1, s)]
               gone == {c \in Carrier : Unescaped(s) \in Removable(c)}
               m == file.meta
    <2>1. /\ FileStep /\ file.form = "office"
          /\ file' = [file EXCEPT !.paras[p][k].chars = InsertAt(@, i + 1, s)]
          /\ signed' = signed /\ cleared' = cleared \ gone
      BY <1>2 DEF PasteIntoOffice
    <2>2. y \in FileRuns /\ i \in 0..Len(y.chars)
      BY <1>0, <2>1
    <2>3. x \in FileRuns /\ \A Q : Unescaped(s) \notin Q => <<x, y>> \in Showing(Q)
      <3>1. s \in Marks \cup References
        BY FileAssumption
      <3> QED
        BY <2>2, <3>1, PastedRun
    <2>4. NewOf(x, file.paras[p][k], gone)
      BY <2>3 DEF Carrier, NewOf
    <2>5. file' = Holding(file, WithRun(file.paras, p, k, x), m)
      <3>1. file \in OfficeShapes
        BY <2>1, FormsApart
      <3>2. file' = [file EXCEPT !.paras = [file.paras EXCEPT ![p] = [file.paras[p] EXCEPT ![k] = x]]]
        BY <2>1
      <3> HIDE DEF x
      <3> QED
        BY <3>1, <3>2 DEF OfficeShapes, Holding, WithRun
    <2> HIDE DEF x, gone, m
    <2>6. KeptOrDropped(m, signed', file.meta, signed)
      BY <2>1 DEF m, KeptOrDropped
    <2> QED
      BY <2>1, <2>3, <2>4, <2>5, <2>6, RunChanged
  <1> QED
    BY <1>1, <1>2

\* Every command and every edit keeps it.
LEMMA FileInvStep == FileInv /\ [FileNext]_filevars => FileInv'
PROOF
  <1> SUFFICES ASSUME FileInv, [FileNext]_filevars PROVE FileInv'
    OBVIOUS
  <1>1. ASSUME NEW chosen \in FileSelections,
               CleanText(chosen) \/ CleanFindsNone(chosen) \/ CleanOffice(chosen)
        PROVE  FileInv'
    BY <1>1, CleanTextKeeps, CleanFindsNoneKeeps, CleanOfficeKeeps
  <1>2. ASSUME PristineFile PROVE FileInv'
    BY <1>2, PristineFileKeeps
  <1>3. ASSUME NEW c \in Carrier, NEW bits \in Secrets, ConcealFile(c, bits) PROVE FileInv'
    BY <1>3, ConcealFileKeeps
  <1>4. ASSUME StripFile PROVE FileInv'
    BY <1>4, MetadataKeeps
  <1>5. ASSUME NEW s \in Authors, SignIntoMetadata(s) PROVE FileInv'
    BY <1>5, MetadataKeeps
  <1>6. ASSUME NEW i \in DOMAIN TextChars, NEW letter \in {"twin", "latin"}, RetypeText(i, letter)
        PROVE  FileInv'
    BY <1>6, RewordedKeeps
  <1>7. ASSUME NEW k \in 0..Len(TextChars), NEW s \in Pasted, PasteIntoText(k, s) PROVE FileInv'
    BY <1>7, RewordedKeeps
  <1>8. ASSUME NEW p \in DOMAIN Paras, NEW k \in DOMAIN Paras[p],
               NEW i \in DOMAIN Paras[p][k].chars, NEW letter \in {"twin", "latin"}, NEW keeps \in BOOLEAN,
               RetypeOffice(p, k, i, letter, keeps)
        PROVE  FileInv'
    BY <1>8, OfficeEditsKeep
  <1>9. ASSUME NEW p \in DOMAIN Paras, NEW k \in DOMAIN Paras[p],
               NEW i \in 0..Len(Paras[p][k].chars), NEW s \in Pasted \cup References,
               PasteIntoOffice(p, k, i, s)
        PROVE  FileInv'
    BY <1>9, OfficeEditsKeep
  <1>10. ASSUME UNCHANGED filevars PROVE FileInv'
    BY <1>10 DEF filevars, FileInv
  <1> QED
    BY <1>1, <1>2, <1>3, <1>4, <1>5, <1>6, <1>7, <1>8, <1>9, <1>10 DEF FileNext

\* It holds of every file there can be.
LEMMA FileAlways == FileSpec => []FileInv
  BY FileInvInit, FileInvStep, PTL DEF FileSpec

\* What the types of a file ask is part of it.
LEMMA FileInvTypes == FileInv => FileTypeOK
PROOF
  <1> SUFFICES ASSUME FileInv PROVE FileTypeOK
    OBVIOUS
  <1>1. ops \in 0..MaxOps /\ cleared \in SUBSET Carrier
    BY DEF FileInv
  <1>2. ASSUME file.form = "text"
        PROVE  /\ file.enc \in Encodings
               /\ \A i \in DOMAIN file.chars : file.chars[i] \in FileSymbols \ References
               /\ ~(file.enc = "utf8" /\ file.chars # <<>> /\ Head(file.chars) = "ws1")
    <2>1. file.enc \in Encodings /\ file.chars \in Seq(Symbols) /\ TextHolds(file, wrote, placed, cleared)
      BY <1>2, FormsApart
    <2>2. Symbols \subseteq FileSymbols \ References
      BY UnescapedIs
    <2>3. Unsignalled(file)
      BY <2>1 DEF TextHolds
    <2>4. \A i \in DOMAIN file.chars : file.chars[i] \in Symbols
      BY <2>1
    <2> QED
      BY <2>1, <2>2, <2>3, <2>4 DEF Unsignalled
  <1>3. ASSUME file.form = "office"
        PROVE  /\ file.kind = "odt" => file.meta = Unsigned
               /\ file.meta = Unsigned <=> signed = Unsigned
    BY <1>3, FormsApart DEF OfficeHolds
  <1> QED
    BY <1>1, <1>2, <1>3 DEF FileTypeOK

\* Through every command and every edit, a file is in one of the encodings, no mark of
\* byte order is left in its text, an ODT carries no claim, and a DOCX one exactly while
\* somebody's signature stands.
THEOREM FileTypes == FileSpec => []FileTypeOK
PROOF
  BY FileAlways, FileInvTypes, PTL

\* What a clean took out of a file stays out.
LEMMA FileInvHolds == FileInv => CleanHolds
PROOF
  <1> SUFFICES ASSUME FileInv, NEW c \in cleared, c = "homoglyph" => Decided(wrote)
               PROVE  Strip(c, Extracted(file)) = Extracted(file)
    BY DEF CleanHolds
  <1> DEFINE d == Extracted(file)
  <1>1. c \in Carrier
    BY DEF FileInv
  <1>2. CASE file.form = "text"
    <2>1. Reads(d, wrote) /\ Rid(d, wrote, cleared) /\ d \in Seq(Symbols)
      BY <1>2, FormsApart
    <2> HIDE DEF d
    <2>2. CASE c \in Inserting
      <3>1. ~Has(d, Removable(c))
        BY <2>1, <2>2 DEF Rid
      <3> QED
        BY <2>1, <2>2, <3>1, StripNothing DEF d
    <2>3. CASE c = "homoglyph"
      <3>1. Attributed(d) = {} \/ ~Has(d, {"alike"})
        <4>1. CASE Has(wrote, LatinLetters)
          BY <2>1, <2>3, <4>1 DEF Rid
        <4>2. CASE ~Has(wrote, LatinLetters)
          BY <2>1, <4>2, ReadsPlain
        <4> QED
          BY <4>1, <4>2
      <3> QED
        BY <2>1, <2>3, <3>1, NoneAttributed DEF d
    <2> QED
      BY <1>1, <2>2, <2>3 DEF Carrier
  <1>3. CASE file.form # "text"
    <2>1. OfficeHolds(file, signed, cleared) /\ d = Lowered(file.paras) /\ d \in Seq(Symbols)
      BY <1>3, FormsApart
    <2> HIDE DEF d
    <2>2. c \in Inserting /\ ~Has(d, Removable(c))
      BY <2>1 DEF OfficeHolds
    <2> QED
      BY <2>1, <2>2, StripNothing DEF d
  <1> QED
    BY <1>2, <1>3

\* What a clean reported gone of a file is gone from what a reader gets of it, of an
\* archive as of a text, until somebody puts it back.
THEOREM CleansHold == FileSpec => []CleanHolds
PROOF
  BY FileAlways, FileInvHolds, PTL

\* What an inserting carrier reads is bits.
LEMMA ReadsBits ==
    ASSUME NEW d \in Seq(Symbols), NEW c \in Inserting
    PROVE  ReadPositions(c, d) \in Seq({0, 1})
PROOF
  <1> DEFINE read == Only(d, {Bit0[c], Bit1[c]})
             bit(j) == IF read[j] = Bit1[c] THEN 1 ELSE 0
  <1>1. read \in Seq(Symbols \cap {Bit0[c], Bit1[c]})
    BY OnlyType
  <1>2. c # "homoglyph"
    BY Alphabet
  <1>3. ReadPositions(c, d) = [j \in DOMAIN read |-> bit(j)]
    BY <1>2 DEF ReadPositions
  <1>4. Len(read) \in Nat /\ DOMAIN read = 1..Len(read)
    BY <1>1
  <1>5. \A j \in 1..Len(read) : bit(j) \in {0, 1}
    OBVIOUS
  <1> HIDE DEF read, bit
  <1>6. [j \in 1..Len(read) |-> bit(j)] \in Seq({0, 1})
    BY <1>4, <1>5
  <1> QED
    BY <1>3, <1>4, <1>6

\* Sequences begin with nothing, and with themselves.
LEMMA Begins ==
    ASSUME NEW T, NEW b \in Seq(T)
    PROVE  IsPrefix(<<>>, b) /\ IsPrefix(b, b)
PROOF
  <1>1. Len(<<>>) = 0 /\ 0 <= Len(b) /\ SubSeq(<<>>, 1, 0) = SubSeq(b, 1, 0)
    OBVIOUS
  <1> QED
    BY <1>1 DEF IsPrefix

\* Without code and equations in a text, the bits in its letters come back too.
LEMMA TextWritesBack ==
    ASSUME NEW d, NEW w, Reads(d, w), NEW pl, Carries(d, pl)
    PROVE  /\ Decided(w) => StripAll(d) = w
           /\ \A c \in Inserting : ReadsBack(c, d, pl[c])
           /\ Prose(w) => ReadsBack("homoglyph", d, pl["homoglyph"])
PROOF
  <1>0. d \in Seq(Symbols) /\ pl \in [Carrier -> BitStrings]
    BY DEF Reads, Carries
  <1>1. Decided(w) => StripAll(d) = w
    BY StripAllRestores
  <1>2. ASSUME NEW c \in Inserting PROVE ReadsBack(c, d, pl[c])
    <2>1. pl[c] \in BitStrings /\ pl[c] \in Seq({0, 1})
      BY <1>0 DEF Carrier, BitStrings
    <2>2. CASE pl[c] = <<>>
      <3>1. ReadPositions(c, d) \in Seq({0, 1})
        BY <1>0, ReadsBits
      <3>2. IsPrefix(<<>>, ReadPositions(c, d))
        BY <3>1, Begins
      <3> QED
        BY <2>2, <3>2 DEF ReadsBack
    <2>3. CASE pl[c] # <<>>
      <3>1. Only(d, {Bit0[c], Bit1[c]}) = Written01(c, pl[c])
        BY <2>3 DEF Carries, BitMarks
      <3>2. ReadPositions(c, d) = pl[c]
        BY <2>1, <3>1, ReadsWritten
      <3>3. IsPrefix(pl[c], pl[c])
        BY <2>1, Begins
      <3> QED
        BY <3>2, <3>3 DEF ReadsBack
    <2> QED
      BY <2>2, <2>3
  <1>3. ASSUME Prose(w) PROVE ReadsBack("homoglyph", d, pl["homoglyph"])
    <2>1. Prose(d)
      BY <1>3, ReadsProse
    <2>2. ReadPositions("homoglyph", d) = LetterBits(d)
      BY <1>0, <2>1, LettersRead
    <2>3. IsPrefix(pl["homoglyph"], LetterBits(d))
      BY <2>1 DEF Carries
    <2> QED
      BY <2>2, <2>3 DEF ReadsBack
  <1> QED
    BY <1>1, <1>2, <1>3

\* What a reader gets of a text file is the author's text, and of each inserting
\* carrier what it placed.
TextComesBack ==
    file.form = "text" =>
        /\ Decided(wrote) => StripAll(TextOf(file)) = wrote
        /\ \A c \in Inserting : ReadsBack(c, TextOf(file), placed[c])

\* Of text files: they are read as their author left them.
LEMMA FileInvReads == FileInv => TextComesBack /\ (Prose(wrote) => WriteBackKeeps)
PROOF
  <1> SUFFICES ASSUME FileInv PROVE TextComesBack /\ (Prose(wrote) => WriteBackKeeps)
    OBVIOUS
  <1> DEFINE d == TextOf(file)
  <1>1. ASSUME file.form = "text"
        PROVE  /\ Decided(wrote) => StripAll(d) = wrote
               /\ \A c \in Inserting : ReadsBack(c, d, placed[c])
               /\ Prose(wrote) => ReadsBack("homoglyph", d, placed["homoglyph"])
    <2>1. Reads(d, wrote) /\ Carries(d, placed)
      BY <1>1, FormsApart
    <2> HIDE DEF d
    <2> QED
      BY <2>1, TextWritesBack
  <1>2. TextComesBack
    BY <1>1 DEF TextComesBack
  <1>3. ASSUME Prose(wrote) PROVE WriteBackKeeps
    BY <1>1, <1>3 DEF WriteBackKeeps, Carrier
  <1> QED
    BY <1>2, <1>3

\* Whatever was cleaned, concealed and written back, in whatever encoding and through
\* whatever garbled characters, what a reader gets of a text file is the author's
\* text, and of the bits of each inserting carrier those it placed.
THEOREM TextsComeBack == FileSpec => []TextComesBack
PROOF
  BY FileAlways, FileInvReads, PTL

\* And of a text without code and without equations, the bits in its letters too.
THEOREM ProseWritesBack == FileSpec => [](Prose(wrote) => WriteBackKeeps)
PROOF
  BY FileAlways, FileInvReads, PTL

\* A text without marks ends as it does with them, where it ends with none.
LEMMA BareEnds ==
    ASSUME NEW d \in Seq(Symbols), d # <<>>
    PROVE  /\ d[1] \notin Marks => Bare(d) # <<>> /\ Bare(d)[1] = d[1]
           /\ d[Len(d)] \notin Marks => Bare(d) # <<>> /\ Bare(d)[Len(Bare(d))] = d[Len(d)]
PROOF
  <1> DEFINE G == {v \in Seq(Symbols) : v = <<>> \/ (v[1] \notin Marks => Bare(v) # <<>> /\ Bare(v)[1] = v[1])}
  <1>0. ASSUME NEW v \in Seq(Symbols), NEW c \in Symbols
        PROVE  /\ Bare(Append(v, c)) = IF c \in Marks THEN Bare(v) ELSE Append(Bare(v), c)
               /\ Bare(v) \in Seq(Symbols) /\ Bare(v) \in Seq(Symbols \ Marks)
    <2>1. Only(Append(v, c), Symbols \ Marks)
            = IF c \in Symbols \ Marks THEN Append(Only(v, Symbols \ Marks), c) ELSE Only(v, Symbols \ Marks)
      BY OnlyAppend
    <2> QED
      BY <2>1, BareType DEF Bare
  <1>1. <<>> \in G
    OBVIOUS
  <1>2. ASSUME NEW v \in Seq(Symbols) \cap G, NEW c \in Symbols PROVE Append(v, c) \in G
    <2> DEFINE w == Append(v, c)
    <2>1. w \in Seq(Symbols) /\ Len(v) \in Nat /\ w[Len(v) + 1] = c /\ \A i \in 1..Len(v) : w[i] = v[i]
      BY AppendProperties
    <2>2. v = <<>> \/ (v[1] \notin Marks => Bare(v) # <<>> /\ Bare(v)[1] = v[1])
      OBVIOUS
    <2> DEFINE b == Bare(v)
    <2>3. b \in Seq(Symbols) /\ Bare(w) = IF c \in Marks THEN b ELSE Append(b, c)
      BY <1>0
    <2>3a. v = <<>> => b = <<>>
      BY OnlyAppend DEF Bare
    <2> HIDE DEF b, w, G
    <2>4. ASSUME w[1] \notin Marks PROVE Bare(w) # <<>> /\ Bare(w)[1] = w[1]
      <3>1. CASE v = <<>>
        <4>1. w[1] = c /\ b = <<>> /\ Len(v) = 0
          BY <2>1, <2>3a, <3>1
        <4> QED
          BY <2>3, <2>4, <4>1
      <3>2. CASE v # <<>>
        <4>1. 1 \in 1..Len(v) /\ w[1] = v[1]
          BY <2>1, <3>2
        <4>2. b # <<>> /\ b[1] = v[1]
          BY <2>2, <2>4, <3>2, <4>1 DEF b
        <4>3. Append(b, c) # <<>> /\ Append(b, c)[1] = b[1]
          BY <2>3, <4>2
        <4> QED
          BY <2>3, <4>1, <4>2, <4>3
      <3> QED
        BY <3>1, <3>2
    <2> QED
      BY <2>1, <2>4 DEF G, w
  <1>3. Seq(Symbols) \subseteq G
    <2> HIDE DEF G
    <2> QED
      BY <1>1, <1>2, EverySequence
  <1>4. d[1] \notin Marks => Bare(d) # <<>> /\ Bare(d)[1] = d[1]
    BY <1>3
  <1>5. ASSUME d[Len(d)] \notin Marks PROVE Bare(d) # <<>> /\ Bare(d)[Len(Bare(d))] = d[Len(d)]
    <2> DEFINE v == SubSeq(d, 1, Len(d) - 1)
               c == d[Len(d)]
    <2>1. v \in Seq(Symbols) /\ c \in Symbols /\ d = Append(v, c)
      OBVIOUS
    <2> HIDE DEF v, c
    <2>2. Bare(d) = Append(Bare(v), c) /\ Bare(v) \in Seq(Symbols)
      BY <1>0, <1>5, <2>1 DEF c
    <2> DEFINE b == Bare(v)
    <2> HIDE DEF b
    <2>3. Append(b, c) # <<>> /\ Append(b, c)[Len(Append(b, c))] = c
      BY <2>2 DEF b
    <2> QED
      BY <2>2, <2>3 DEF b, c
  <1> QED
    BY <1>4, <1>5

-----------------------------------------------------------------------------
(* Papers whose marks stand firm, rendered with and without them.          *)

\* What is neither a mark nor what a margin is made of.
Inky == Symbols \ (Marks \cup Blanks)

\* Every mark stands between what is visible.
Solid(d) ==
    \A i \in 1..Len(d) : d[i] \in Marks =>
        /\ \E j \in 1..Len(d) : j < i /\ d[j] \in Inky
        /\ \E j \in 1..Len(d) : j > i /\ d[j] \in Inky

\* Joined, texts are solid that are.
LEMMA SolidJoined ==
    ASSUME NEW a \in Seq(Symbols), NEW b \in Seq(Symbols), Solid(a), Solid(b)
    PROVE  Solid(a \o b)
PROOF
  <1> DEFINE w == a \o b
  <1>1. /\ w \in Seq(Symbols) /\ Len(w) = Len(a) + Len(b) /\ Len(a) \in Nat /\ Len(b) \in Nat
        /\ \A i \in 1..Len(a) : w[i] = a[i]
        /\ \A i \in 1..Len(b) : w[Len(a) + i] = b[i]
    BY JoinedAt
  <1> HIDE DEF w
  <1>2. ASSUME NEW i \in 1..Len(w), w[i] \in Marks
        PROVE  /\ \E j \in 1..Len(w) : j < i /\ w[j] \in Inky
               /\ \E j \in 1..Len(w) : j > i /\ w[j] \in Inky
    <2>1. CASE i <= Len(a)
      <3>1. i \in 1..Len(a) /\ a[i] \in Marks
        BY <1>1, <1>2, <2>1
      <3>2. PICK j \in 1..Len(a) : j < i /\ a[j] \in Inky
        BY <3>1 DEF Solid
      <3>3. PICK k \in 1..Len(a) : k > i /\ a[k] \in Inky
        BY <3>1 DEF Solid
      <3>4. j \in 1..Len(w) /\ k \in 1..Len(w) /\ w[j] = a[j] /\ w[k] = a[k]
        BY <1>1
      <3> QED
        BY <3>2, <3>3, <3>4
    <2>2. CASE i > Len(a)
      <3>1. i - Len(a) \in 1..Len(b) /\ Len(a) + (i - Len(a)) = i
        BY <1>1, <2>2
      <3>1a. b[i - Len(a)] \in Marks
        BY <1>1, <1>2, <3>1
      <3>2. PICK j \in 1..Len(b) : j < i - Len(a) /\ b[j] \in Inky
        BY <3>1, <3>1a DEF Solid
      <3>3. PICK k \in 1..Len(b) : k > i - Len(a) /\ b[k] \in Inky
        BY <3>1, <3>1a DEF Solid
      <3>4. Len(a) + j \in 1..Len(w) /\ Len(a) + k \in 1..Len(w)
            /\ w[Len(a) + j] = b[j] /\ w[Len(a) + k] = b[k]
        BY <1>1
      <3>5. Len(a) + j < i /\ Len(a) + k > i
        BY <1>1, <3>2, <3>3
      <3> QED
        BY <3>2, <3>3, <3>4, <3>5
    <2> QED
      BY <1>1, <2>1, <2>2
  <1> QED
    BY <1>2 DEF Solid, w

\* The margins of a solid text are those it has without its marks.
LEMMA SolidFrame ==
    ASSUME NEW d \in Seq(Symbols), Solid(d), NEW a \in Seq(Symbols), NEW m \in Seq(Symbols),
           NEW z \in Seq(Symbols), Framed(d, a, m, z)
    PROVE  /\ Framed(Bare(d), a, Bare(m), z) /\ Bare(m) \in Seq(Symbols) /\ Bare(d) \in Seq(Symbols)
           /\ Bare(m) = <<>> <=> m = <<>>
           /\ Bare(a) = a /\ Bare(z) = z
PROOF
  <1>1. /\ a \in Seq(Blanks) /\ z \in Seq(Blanks) /\ d = Three(a, m, z)
        /\ m = <<>> => z = <<>>
        /\ m # <<>> => m[1] \notin Blanks /\ m[Len(m)] \notin Blanks
    <2>1. d = Three(a, m, z) /\ a \in Seq(Blanks) /\ z \in Seq(Blanks)
      BY FramedThree
    <2> QED
      BY <2>1 DEF Framed
  <1>2. Bare(m) \in Seq(Symbols) /\ Bare(d) \in Seq(Symbols)
    BY BareType
  <1>3. Bare(a) = a /\ Bare(z) = z
    <2>1. Blanks \subseteq Symbols \ Marks
      <3>1. Blanks \subseteq Visible
        BY DEF Blanks, Visible
      <3> QED
        BY <3>1, Alphabet
    <2> QED
      BY <1>1, <2>1, OnlyAll DEF Bare
  <1>4. Bare(d) = Three(a, Bare(m), z)
    BY <1>1, <1>3, ThreeOnly DEF Bare
  <1>5. m = <<>> => Bare(m) = <<>>
    BY OnlyAppend DEF Bare
  <1>6. ASSUME m # <<>>
        PROVE  Bare(m) # <<>> /\ Bare(m)[1] \notin Blanks /\ Bare(m)[Len(Bare(m))] \notin Blanks
    <2>1. /\ Len(a) \in Nat /\ Len(m) \in Nat /\ Len(z) \in Nat
          /\ Len(d) = Len(a) + Len(m) + Len(z)
          /\ \A i \in 1..Len(d) : i <= Len(a) \/ i > Len(a) + Len(m) => d[i] \in Blanks
          /\ \A i \in 1..Len(m) : d[Len(a) + i] = m[i]
      BY FramedAt
    <2>2. 1 \in 1..Len(m) /\ Len(m) \in 1..Len(m)
      BY <1>6, <2>1
    <2>3. Blanks \cap Inky = {}
      BY DEF Inky
    <2>4. m[1] \notin Marks
      <3>1. Len(a) + 1 \in 1..Len(d) /\ d[Len(a) + 1] = m[1]
        BY <2>1, <2>2
      <3>2. ASSUME m[1] \in Marks PROVE FALSE
        <4>1. PICK j \in 1..Len(d) : j < Len(a) + 1 /\ d[j] \in Inky
          BY <3>1, <3>2 DEF Solid
        <4>2. j <= Len(a)
          BY <2>1, <4>1
        <4> QED
          BY <2>1, <2>3, <4>1, <4>2
      <3> QED
        BY <3>2
    <2>5. m[Len(m)] \notin Marks
      <3>1. Len(a) + Len(m) \in 1..Len(d) /\ d[Len(a) + Len(m)] = m[Len(m)]
        BY <2>1, <2>2
      <3>2. ASSUME m[Len(m)] \in Marks PROVE FALSE
        <4>1. PICK j \in 1..Len(d) : j > Len(a) + Len(m) /\ d[j] \in Inky
          BY <3>1, <3>2 DEF Solid
        <4> QED
          BY <2>1, <2>3, <4>1
      <3> QED
        BY <3>2
    <2> QED
      BY <1>1, <1>6, <2>4, <2>5, BareEnds
  <1> QED
    BY <1>1, <1>2, <1>3, <1>4, <1>5, <1>6 DEF Framed, Three

\* Taking the marks out of segments goes along with joining them.
LEMMA BaredAppend ==
    /\ BaredRuns(<<>>) = <<>>
    /\ \A S \in Seq(Segments) : \A r \in Segments :
            BaredRuns(Append(S, r)) = Append(BaredRuns(S), BaredRun(r))
    /\ \A x \in Segments : \A y \in Segments : BaredRun(With(x, y)) = With(BaredRun(x), BaredRun(y))
PROOF
  <1>1. BaredRuns(<<>>) = <<>>
    BY DEF BaredRuns
  <1>2. ASSUME NEW S \in Seq(Segments), NEW r \in Segments
        PROVE  BaredRuns(Append(S, r)) = Append(BaredRuns(S), BaredRun(r))
    <2> DEFINE w == Append(S, r)
               B == BaredRuns(S)
               c == BaredRun(r)
    <2>1. w \in Seq(Segments) /\ Len(w) = Len(S) + 1 /\ Len(S) \in Nat /\ w[Len(S) + 1] = r
          /\ \A k \in 1..Len(S) : w[k] = S[k]
      BY AppendProperties
    <2> HIDE DEF w
    <2>2. /\ B \in Seq(Segments) /\ Len(B) = Len(S) /\ c \in Segments
          /\ \A k \in 1..Len(S) : B[k] = BaredRun(S[k])
      BY BaredIs
    <2>3. /\ BaredRuns(w) \in Seq(Segments) /\ Len(BaredRuns(w)) = Len(w)
          /\ \A k \in 1..Len(w) : BaredRuns(w)[k] = BaredRun(w[k])
      BY <2>1, BaredIs
    <2> DEFINE v == BaredRuns(w)
               u == Append(B, c)
    <2> HIDE DEF B, c
    <2>4. u \in Seq(Segments) /\ Len(u) = Len(B) + 1 /\ u[Len(B) + 1] = c /\ \A k \in 1..Len(B) : u[k] = B[k]
      BY <2>2, AppendProperties
    <2>5. \A k \in 1..Len(w) : v[k] = u[k]
      <3> SUFFICES ASSUME NEW k \in 1..Len(w) PROVE v[k] = u[k]
        OBVIOUS
      <3>1. v[k] = BaredRun(w[k])
        BY <2>3
      <3>2. CASE k = Len(S) + 1
        BY <2>1, <2>2, <2>4, <3>1, <3>2 DEF c
      <3>3. CASE k # Len(S) + 1
        <4>1. k \in 1..Len(S)
          BY <2>1, <3>3
        <4> QED
          BY <2>1, <2>2, <2>4, <3>1, <4>1
      <3> QED
        BY <3>2, <3>3
    <2>6. v \in Seq(Segments) /\ Len(v) = Len(u) /\ Len(w) = Len(v)
      BY <2>1, <2>2, <2>3, <2>4
    <2> HIDE DEF v, u
    <2>7. v = u
      BY <2>4, <2>5, <2>6
    <2> QED
      BY <2>7 DEF u, v, w, B, c
  <1>3. ASSUME NEW x \in Segments, NEW y \in Segments
        PROVE  BaredRun(With(x, y)) = With(BaredRun(x), BaredRun(y))
    <2>1. /\ With(x, y).bold = y.bold /\ With(x, y).chars = x.chars \o y.chars
          /\ x.chars \in Seq(Symbols) /\ y.chars \in Seq(Symbols)
      BY WithIs
    <2>2. Bare(x.chars \o y.chars) = Bare(x.chars) \o Bare(y.chars)
      <3> DEFINE p == x.chars
                 q == y.chars
      <3> HIDE DEF p, q
      <3>1. p \in Seq(Symbols) /\ q \in Seq(Symbols)
        BY <2>1 DEF p, q
      <3>2. Only(p \o q, Symbols \ Marks) = Only(p, Symbols \ Marks) \o Only(q, Symbols \ Marks)
        BY <3>1, OnlyJoined
      <3> QED
        BY <3>2 DEF Bare, p, q
    <2> QED
      BY <2>1, <2>2 DEF With, BaredRun
  <1> QED
    BY <1>1, <1>2, <1>3

\* A run joined without its marks is the run joined, without them.
LEMMA BaredJoining ==
    ASSUME NEW done \in Seq(Segments), NEW r \in Segments
    PROVE  BaredRuns(Joining(done, r)) = Joining(BaredRuns(done), BaredRun(r))
PROOF
  <1>1. CASE done = <<>>
    <2>1. Joining(done, r) = Append(<<>>, r) /\ <<>> \in Seq(Segments)
      BY <1>1, JoiningIs
    <2>2. BaredRuns(Append(<<>>, r)) = Append(<<>>, BaredRun(r))
      BY <2>1, BaredAppend
    <2>3. Joining(<<>>, BaredRun(r)) = Append(<<>>, BaredRun(r))
      BY BaredIs, JoiningIs
    <2> QED
      BY <1>1, <2>1, <2>2, <2>3, BaredAppend
  <1>2. CASE done # <<>>
    <2> DEFINE f == SubSeq(done, 1, Len(done) - 1)
               last == done[Len(done)]
    <2>1. f \in Seq(Segments) /\ last \in Segments /\ done = Append(f, last)
      BY <1>2
    <2> HIDE DEF f, last
    <2>2. Joining(done, r) = IF last.bold = r.bold THEN Append(f, With(last, r)) ELSE Append(done, r)
      BY <2>1, JoiningIs
    <2> DEFINE g == BaredRuns(f)
               l == BaredRun(last)
               b == BaredRun(r)
    <2>3. g \in Seq(Segments) /\ l \in Segments /\ b \in Segments /\ l.bold = last.bold /\ b.bold = r.bold
      BY <2>1, BaredIs
    <2>4. BaredRuns(done) = Append(g, l)
      BY <2>1, BaredAppend
    <2>5. BaredRuns(Append(f, With(last, r))) = Append(g, With(l, b))
      <3>1. With(last, r) \in Segments
        BY <2>1, WithIs
      <3> QED
        BY <2>1, <3>1, BaredAppend
    <2>6. BaredRuns(Append(done, r)) = Append(BaredRuns(done), b)
      BY BaredAppend
    <2> HIDE DEF g, l, b
    <2>7. Joining(Append(g, l), b) = IF l.bold = b.bold THEN Append(g, With(l, b)) ELSE Append(Append(g, l), b)
      BY <2>3, JoiningIs
    <2> QED
      BY <2>2, <2>3, <2>4, <2>5, <2>6, <2>7 DEF b
  <1> QED
    BY <1>1, <1>2

\* And so are all of them.
LEMMA BaredMerged ==
    ASSUME NEW S \in Seq(Segments)
    PROVE  Merged(BaredRuns(S)) = BaredRuns(Merged(S))
PROOF
  <1> DEFINE G == {R \in Seq(Segments) : Merged(BaredRuns(R)) = BaredRuns(Merged(R))}
  <1>1. <<>> \in G
    <2>1. Merged(BaredRuns(<<>>)) = BaredRuns(Merged(<<>>))
      BY BaredAppend, MergedAppend
    <2> QED
      BY <2>1
  <1>2. ASSUME NEW R \in Seq(Segments) \cap G, NEW r \in Segments PROVE Append(R, r) \in G
    <2>1. R \in Seq(Segments) /\ Merged(BaredRuns(R)) = BaredRuns(Merged(R))
      OBVIOUS
    <2>2. Merged(Append(R, r)) = Joining(Merged(R), r) /\ Merged(R) \in Seq(Segments)
      BY <2>1, MergedAppend
    <2>3. BaredRuns(R) \in Seq(Segments) /\ BaredRun(r) \in Segments
      BY <2>1, BaredIs
    <2>4. Merged(Append(BaredRuns(R), BaredRun(r))) = Joining(Merged(BaredRuns(R)), BaredRun(r))
      BY <2>3, MergedAppend
    <2>5. BaredRuns(Append(R, r)) = Append(BaredRuns(R), BaredRun(r))
      BY <2>1, BaredAppend
    <2>6. BaredRuns(Joining(Merged(R), r)) = Joining(BaredRuns(Merged(R)), BaredRun(r))
      BY <2>2, BaredJoining
    <2>7. Append(R, r) \in Seq(Segments)
      BY <2>1
    <2> QED
      BY <2>1, <2>2, <2>4, <2>5, <2>6, <2>7
  <1>3. Seq(Segments) \subseteq G
    <2> HIDE DEF G
    <2> QED
      BY <1>1, <1>2, EverySequence
  <1> QED
    BY <1>3

SolidRuns == {r \in Segments : Solid(r.chars)}

\* Segments that are solid stay so when they are joined.
LEMMA SolidMerged ==
    ASSUME NEW S \in Seq(SolidRuns)
    PROVE  Merged(S) \in Seq(SolidRuns) /\ S \in Seq(Segments)
PROOF
  <1>0. \A R \in Seq(SolidRuns) : R \in Seq(Segments)
    BY DEF SolidRuns
  <1> DEFINE G == {R \in Seq(SolidRuns) : Merged(R) \in Seq(SolidRuns)}
  <1>1. <<>> \in G
    <2>1. Merged(<<>>) = <<>>
      BY MergedAppend
    <2>2. <<>> \in Seq(SolidRuns)
      OBVIOUS
    <2> QED
      BY <2>1, <2>2
  <1>2. ASSUME NEW R \in Seq(SolidRuns) \cap G, NEW r \in SolidRuns PROVE Append(R, r) \in G
    <2>1. R \in Seq(SolidRuns) /\ Merged(R) \in Seq(SolidRuns) /\ R \in Seq(Segments) /\ r \in Segments
          /\ Solid(r.chars)
      BY <1>0 DEF SolidRuns
    <2> DEFINE M == Merged(R)
    <2>2. Merged(Append(R, r)) = Joining(M, r) /\ Append(R, r) \in Seq(SolidRuns)
      BY <2>1, MergedAppend
    <2> HIDE DEF M, G
    <2>3. Joining(M, r) \in Seq(SolidRuns)
      <3>1. CASE M = <<>>
        <4>1. Joining(M, r) = Append(<<>>, r)
          BY <2>1, <3>1, JoiningIs
        <4> QED
          BY <4>1
      <3>2. CASE M # <<>>
        <4> DEFINE f == SubSeq(M, 1, Len(M) - 1)
                   last == M[Len(M)]
        <4>1. M \in Seq(SolidRuns)
          BY <2>1 DEF M
        <4>2. f \in Seq(SolidRuns) /\ last \in SolidRuns /\ M = Append(f, last)
          BY <3>2, <4>1
        <4> HIDE DEF f, last
        <4>3. f \in Seq(Segments) /\ last \in Segments /\ Solid(last.chars)
          BY <1>0, <4>2 DEF SolidRuns
        <4>4. Joining(M, r) = IF last.bold = r.bold THEN Append(f, With(last, r)) ELSE Append(M, r)
          BY <2>1, <4>2, <4>3, JoiningIs
        <4>5. With(last, r) \in SolidRuns
          <5>1. /\ With(last, r) \in Segments /\ With(last, r).chars = last.chars \o r.chars
                /\ last.chars \in Seq(Symbols) /\ r.chars \in Seq(Symbols)
            BY <2>1, <4>3, WithIs
          <5>2. Solid(last.chars \o r.chars)
            BY <2>1, <4>3, <5>1, SolidJoined
          <5> QED
            BY <5>1, <5>2 DEF SolidRuns
        <4> QED
          BY <4>1, <4>2, <4>4, <4>5
      <3> QED
        BY <3>1, <3>2
    <2> QED
      BY <2>1, <2>2, <2>3 DEF G
  <1>3. Seq(SolidRuns) \subseteq G
    <2> HIDE DEF G
    <2> QED
      BY <1>1, <1>2, EverySequence
  <1> QED
    BY <1>0, <1>3

\* A star is ink.
LEMMA StarIs ==
    ASSUME NEW s, s = <<"star">>
    PROVE  s \in Seq(Symbols) /\ Len(s) = 1 /\ s[1] = "star" /\ Bare(s) = s /\ "star" \in Inky /\ "star" \notin Marks
PROOF
  <1>1. "star" \in Symbols /\ "star" \notin Marks
    <2>1. "star" \in Visible
      BY DEF Visible
    <2> QED
      BY <2>1, Alphabet
  <1>2. Only(<<"star">>, Symbols \ Marks) = <<"star">>
    BY <1>1, OnlyOne
  <1> QED
    BY <1>1, <1>2 DEF Bare, Inky, Blanks

\* Between stars everything is solid.
LEMMA StarredSolid ==
    ASSUME NEW a \in Seq(Symbols), NEW m \in Seq(Symbols), NEW z \in Seq(Symbols), NEW s, s = <<"star">>,
           ~Has(a, Marks), ~Has(z, Marks)
    PROVE  Solid(Three(Three(a, s, m), s, z))
PROOF
  <1>0. s \in Seq(Symbols) /\ Len(s) = 1 /\ s[1] = "star" /\ "star" \in Inky /\ "star" \notin Marks
    BY StarIs
  <1> DEFINE p == a \o s
             x == p \o m
             q == x \o s
             w == q \o z
  <1>2. /\ p \in Seq(Symbols) /\ Len(p) = Len(a) + 1 /\ Len(a) \in Nat
        /\ p[Len(a) + 1] = "star" /\ \A i \in 1..Len(a) : p[i] = a[i]
    <2>1. /\ a \o s \in Seq(Symbols) /\ Len(a \o s) = Len(a) + Len(s) /\ Len(a) \in Nat
          /\ \A i \in 1..Len(a) : (a \o s)[i] = a[i]
          /\ \A i \in 1..Len(s) : (a \o s)[Len(a) + i] = s[i]
      BY <1>0, JoinedAt
    <2>2. (a \o s)[Len(a) + 1] = s[1]
      BY <1>0, <2>1
    <2> QED
      BY <1>0, <2>1, <2>2
  <1> HIDE DEF p
  <1>3. /\ x \in Seq(Symbols) /\ Len(x) = Len(p) + Len(m) /\ Len(m) \in Nat
        /\ \A i \in 1..Len(p) : x[i] = p[i]
    BY <1>2, JoinedAt
  <1> HIDE DEF x
  <1>4. /\ q \in Seq(Symbols) /\ Len(q) = Len(x) + 1
        /\ q[Len(x) + 1] = "star" /\ \A i \in 1..Len(x) : q[i] = x[i]
    <2>0. x \in Seq(Symbols) /\ s \in Seq(Symbols)
      BY <1>0, <1>3
    <2>1. /\ x \o s \in Seq(Symbols) /\ Len(x \o s) = Len(x) + Len(s)
          /\ \A i \in 1..Len(x) : (x \o s)[i] = x[i]
          /\ \A i \in 1..Len(s) : (x \o s)[Len(x) + i] = s[i]
      BY <2>0, JoinedAt
    <2>2. (x \o s)[Len(x) + 1] = s[1]
      BY <1>0, <2>1
    <2> QED
      BY <1>0, <2>1, <2>2
  <1> HIDE DEF q
  <1>5. /\ w \in Seq(Symbols) /\ Len(w) = Len(q) + Len(z) /\ Len(z) \in Nat
        /\ \A i \in 1..Len(q) : w[i] = q[i]
        /\ \A i \in 1..Len(z) : w[Len(q) + i] = z[i]
    <2>0. q \in Seq(Symbols) /\ z \in Seq(Symbols)
      BY <1>4
    <2> QED
      BY <2>0, JoinedAt
  <1> HIDE DEF w
  <1>6. w[Len(a) + 1] = "star" /\ w[Len(x) + 1] = "star" /\ Len(a) + 1 \in 1..Len(w) /\ Len(x) + 1 \in 1..Len(w)
    <2>1. Len(a) + 1 \in 1..Len(p) /\ Len(a) + 1 \in 1..Len(x) /\ Len(a) + 1 \in 1..Len(q)
      BY <1>2, <1>3, <1>4
    <2>2. Len(x) + 1 \in 1..Len(q) /\ Len(x) \in Nat
      BY <1>3, <1>4
    <2>3. w[Len(a) + 1] = "star"
      BY <1>2, <1>3, <1>4, <1>5, <2>1
    <2>4. w[Len(x) + 1] = "star"
      BY <1>4, <1>5, <2>2
    <2> QED
      BY <1>4, <1>5, <2>1, <2>2, <2>3, <2>4
  <1>7. ASSUME NEW i \in 1..Len(w), w[i] \in Marks PROVE Len(a) + 1 < i /\ i < Len(x) + 1
    <2>0. \A j \in 1..Len(a) : a[j] \notin Marks
      BY DEF Has
    <2>00. \A j \in 1..Len(z) : z[j] \notin Marks
      BY DEF Has
    <2>1. i # Len(a) + 1 /\ i # Len(x) + 1
      BY <1>0, <1>6, <1>7
    <2>2. ~(i <= Len(a))
      <3>1. ASSUME i <= Len(a) PROVE FALSE
        <4>1. i \in 1..Len(a) /\ i \in 1..Len(p) /\ i \in 1..Len(x) /\ i \in 1..Len(q)
          BY <1>2, <1>3, <1>4, <3>1
        <4>2. w[i] = a[i]
          BY <1>2, <1>3, <1>4, <1>5, <4>1
        <4> QED
          BY <1>7, <2>0, <4>1, <4>2
      <3> QED
        BY <3>1
    <2>3. ~(i > Len(q))
      <3>1. ASSUME i > Len(q) PROVE FALSE
        <4>1. i - Len(q) \in 1..Len(z) /\ Len(q) + (i - Len(q)) = i
          BY <1>4, <1>5, <3>1
        <4>2. w[i] = z[i - Len(q)]
          BY <1>5, <4>1
        <4> QED
          BY <1>7, <2>00, <4>1, <4>2
      <3> QED
        BY <3>1
    <2>4. Len(x) \in Nat /\ Len(q) = Len(x) + 1 /\ Len(a) \in Nat
      BY <1>2, <1>3, <1>4
    <2> HIDE DEF w
    <2> QED
      BY <2>1, <2>2, <2>3, <2>4
  <1>8. Solid(w)
    BY <1>0, <1>6, <1>7 DEF Solid
  <1> QED
    BY <1>8 DEF w, q, x, p, Three

\* Emphasis goes around a solid run as around what it reads.
LEMMA EmphasisedBare ==
    ASSUME NEW r \in SolidRuns
    PROVE  /\ Bare(Emphasised(r)) = Emphasised(BaredRun(r))
           /\ Emphasised(r) \in Seq(Symbols) /\ Solid(Emphasised(r))
PROOF
  <1> DEFINE s == <<"star">>
             d == r.chars
             k == BaredRun(r)
  <1>1. r \in Segments /\ Solid(d) /\ d \in Seq(Symbols) /\ k.chars = Bare(d) /\ k.bold = r.bold
    BY BaredIs DEF SolidRuns
  <1>2. PICK a \in Seq(Symbols), m \in Seq(Symbols), z \in Seq(Symbols) :
            /\ Framed(d, a, m, z) /\ d = Three(a, m, z)
            /\ Emphasised(r) = IF m = <<>> \/ ~r.bold THEN d ELSE Three(Three(a, s, m), s, z)
    BY <1>1, EmphasisedIs
  <1>3. s \in Seq(Symbols) /\ Bare(s) = s
    BY StarIs
  <1> DEFINE b == Bare(d)
             n == Bare(m)
  <1> HIDE DEF d, k
  <1>4. /\ Framed(b, a, n, z) /\ n \in Seq(Symbols) /\ b \in Seq(Symbols)
        /\ n = <<>> <=> m = <<>>
        /\ Bare(a) = a /\ Bare(z) = z
    BY <1>1, <1>2, SolidFrame
  <1>5. Emphasised(r) \in Seq(Symbols)
    BY <1>1, EmphasisedOnly
  <1> HIDE DEF b
  <1>6. Emphasised(k) = IF n = <<>> \/ ~k.bold THEN b ELSE Three(Three(a, s, n), s, z)
    <2> HIDE DEF n
    <2>1. \A q : q.chars = b => Emphasised(q) =
                 IF n = <<>> \/ ~q.bold THEN b
                 ELSE (((a \o <<"star">>) \o n) \o <<"star">>) \o z
      BY <1>4, FramedIs, SMTT(60)
    <2>2. k.chars = b
      BY <1>1 DEF b
    <2> QED
      BY <2>1, <2>2 DEF Three
  <1> HIDE DEF s
  <1>7. Bare(Three(Three(a, s, m), s, z)) = Three(Three(a, s, n), s, z)
    <2>1. Three(a, s, m) \in Seq(Symbols)
      BY <1>3, ThreeOnly
    <2>2. Bare(Three(a, s, m)) = Three(Bare(a), Bare(s), Bare(m))
      BY <1>3, ThreeOnly DEF Bare
    <2> DEFINE x == Three(a, s, m)
    <2> HIDE DEF x
    <2>3. Bare(Three(x, s, z)) = Three(Bare(x), Bare(s), Bare(z))
      BY <1>3, <2>1, ThreeOnly DEF Bare, x
    <2> QED
      BY <1>3, <1>4, <2>2, <2>3 DEF x
  <1>8. Solid(Three(Three(a, s, m), s, z))
    <2>1. a \in Seq(Blanks) /\ z \in Seq(Blanks)
      BY <1>2, FramedThree
    <2>2. Blanks \cap Marks = {}
      <3>1. Blanks \subseteq Visible
        BY DEF Blanks, Visible
      <3> QED
        BY <3>1, Alphabet
    <2>3. ~Has(a, Marks) /\ ~Has(z, Marks)
      BY <2>1, <2>2 DEF Has
    <2> QED
      BY <2>3, StarredSolid DEF s
  <1> QED
    BY <1>1, <1>2, <1>4, <1>5, <1>6, <1>7, <1>8 DEF b, k

\* A line without its marks is the line of the runs without theirs.
LEMMA LineBare ==
    ASSUME NEW S \in Seq(SolidRuns)
    PROVE  Bare(Line(S)) = Line(BaredRuns(S)) /\ S \in Seq(Segments)
PROOF
  <1> DEFINE B == BaredRuns(S)
             f == Emphases(S)
             g == Emphases(B)
             e == FlattenSeq(f)
             h == FlattenSeq(g)
  <1>1. Merged(S) \in Seq(SolidRuns) /\ S \in Seq(Segments)
    BY SolidMerged
  <1>2. B \in Seq(Segments)
    BY <1>1, BaredIs
  <1>3. Merged(B) = BaredRuns(Merged(S)) /\ Merged(S) \in Seq(Segments)
    BY <1>1, BaredMerged, MergedAppend
  <1> HIDE DEF B
  <1>4. /\ f \in Seq(Seq(Symbols)) /\ Len(f) = Len(Merged(S)) /\ e \in Seq(Symbols)
        /\ \A k \in 1..Len(Merged(S)) : f[k] = Emphasised(Merged(S)[k])
    BY <1>1, EmphasesAre
  <1>5. /\ g \in Seq(Seq(Symbols)) /\ Len(g) = Len(Merged(B)) /\ h \in Seq(Symbols)
        /\ \A k \in 1..Len(Merged(B)) : g[k] = Emphasised(Merged(B)[k])
    BY <1>2, EmphasesAre
  <1>6. /\ Len(Merged(B)) = Len(Merged(S))
        /\ \A k \in 1..Len(Merged(S)) : Merged(B)[k] = BaredRun(Merged(S)[k])
    BY <1>3, BaredIs
  <1> HIDE DEF f, g
  <1>7. ASSUME NEW k \in 1..Len(Merged(S))
        PROVE  Bare(f[k]) = g[k] /\ f[k] \in Seq(Symbols) /\ Solid(f[k])
    <2>1. Merged(S)[k] \in SolidRuns
      BY <1>1
    <2> DEFINE r == Merged(S)[k]
    <2> HIDE DEF r
    <2>2. /\ Bare(Emphasised(r)) = Emphasised(BaredRun(r))
          /\ Emphasised(r) \in Seq(Symbols) /\ Solid(Emphasised(r))
      BY <2>1, EmphasisedBare DEF r
    <2> QED
      BY <1>4, <1>5, <1>6, <2>2 DEF r
  <1>8. Solid(e)
    <2> DEFINE G == {v \in Seq(Symbols) : Solid(v)}
    <2>1. <<>> \in G
      BY DEF Solid
    <2>2. \A u \in Seq(Symbols) \cap G, v \in Seq(Symbols) \cap G : u \o v \in G
      <3> SUFFICES ASSUME NEW u \in Seq(Symbols) \cap G, NEW v \in Seq(Symbols) \cap G PROVE u \o v \in G
        OBVIOUS
      <3>1. u \in Seq(Symbols) /\ v \in Seq(Symbols) /\ Solid(u) /\ Solid(v)
        OBVIOUS
      <3>2. u \o v \in Seq(Symbols) /\ Solid(u \o v)
        BY <3>1, SolidJoined
      <3> QED
        BY <3>2
    <2>3. \A k \in 1..Len(f) : f[k] \in G
      BY <1>4, <1>7
    <2> HIDE DEF G
    <2>4. FlattenSeq(f) \in G
      BY <1>4, <2>1, <2>2, <2>3, FlattenWhole
    <2> QED
      BY <2>4 DEF G
  <1>9. Bare(e) = h
    <2>1. Alike(f, g, Symbols \ Marks, Symbols)
      <3>1. \A k \in 1..Len(f) : Only(f[k], Symbols \ Marks) = Only(g[k], Symbols)
        <4> SUFFICES ASSUME NEW k \in 1..Len(f) PROVE Only(f[k], Symbols \ Marks) = Only(g[k], Symbols)
          OBVIOUS
        <4>1. Bare(f[k]) = g[k] /\ g[k] \in Seq(Symbols)
          BY <1>4, <1>5, <1>6, <1>7
        <4>2. Only(g[k], Symbols) = g[k]
          BY <4>1, OnlyAll
        <4> QED
          BY <4>1, <4>2 DEF Bare
      <3> QED
        BY <1>4, <1>5, <1>6, <3>1 DEF Alike
    <2>2. Only(FlattenSeq(f), Symbols \ Marks) = Only(FlattenSeq(g), Symbols)
      BY <1>4, <1>5, <2>1, FlattenAlike
    <2> HIDE DEF h
    <2>3. Only(h, Symbols) = h
      BY <1>5, OnlyAll
    <2> QED
      BY <2>2, <2>3 DEF Bare, h
  <1> HIDE DEF e, h
  <1>10. PICK a \in Seq(Symbols), m \in Seq(Symbols), z \in Seq(Symbols) : Framed(e, a, m, z)
    BY <1>4, FramedSomehow
  <1>11. /\ Framed(h, a, Bare(m), z) /\ Bare(m) \in Seq(Symbols)
         /\ Bare(m) = <<>> <=> m = <<>>
    BY <1>4, <1>8, <1>9, <1>10, SolidFrame
  <1>12. Trimmed(e) = m /\ Trimmed(h) = Bare(m)
    <2>1. Trimmed(e) = m
      BY <1>4, <1>10, FramedIs
    <2>2. Trimmed(h) = Bare(m)
      BY <1>5, <1>11, FramedIs
    <2> QED
      BY <2>1, <2>2
  <1>13. Line(S) = (IF m = <<>> THEN <<>> ELSE m \o <<"newline">>)
         /\ Line(B) = (IF Bare(m) = <<>> THEN <<>> ELSE Bare(m) \o <<"newline">>)
    BY <1>12 DEF Line, e, f, h, g
  <1>14. Bare(m \o <<"newline">>) = Bare(m) \o <<"newline">>
    <2>0. "newline" \in Symbols /\ "newline" \in Symbols \ Marks
      <3>1. "newline" \in Visible
        BY DEF Visible
      <3> QED
        BY <3>1, Alphabet
    <2> DEFINE n == <<"newline">>
    <2>1. n \in Seq(Symbols) /\ Only(n, Symbols \ Marks) = n
      BY <2>0, OnlyOne
    <2> HIDE DEF n
    <2>1a. m \in Seq(Symbols) /\ n \in Seq(Symbols)
      BY <2>1
    <2> DEFINE Q == Symbols \ Marks
    <2> HIDE DEF Q
    <2>2. Only(m \o n, Q) = Only(m, Q) \o Only(n, Q)
      BY <2>1a, OnlyJoined, SMTT(60)
    <2> QED
      BY <2>1, <2>2 DEF Bare, n, Q
  <1>15. Bare(<<>>) = <<>>
    BY OnlyAppend DEF Bare
  <1> QED
    BY <1>1, <1>11, <1>13, <1>14, <1>15 DEF B

\* And so is a whole rendering.
LEMMA LoweredBare ==
    ASSUME NEW A \in Outlines, \A p \in 1..Len(A) : A[p] \in Seq(SolidRuns)
    PROVE  Bare(LoweredOf(A)) = LoweredOf(BaredOutline(A))
PROOF
  <1> DEFINE B == BaredOutline(A)
             f == LinesOf(A)
             g == LinesOf(B)
  <1>1. /\ f \in Seq(Seq(Symbols)) /\ Len(f) = Len(A) /\ Len(A) \in Nat
        /\ \A p \in 1..Len(A) : f[p] = Line(A[p])
    BY LinesAre
  <1>2. B \in Outlines /\ Len(B) = Len(A) /\ \A p \in 1..Len(A) : B[p] = BaredRuns(A[p])
    BY BaredIs
  <1> HIDE DEF B
  <1>3. /\ g \in Seq(Seq(Symbols)) /\ Len(g) = Len(B)
        /\ \A p \in 1..Len(B) : g[p] = Line(B[p])
    BY <1>2, LinesAre
  <1>4. \A p \in 1..Len(f) : Only(f[p], Symbols \ Marks) = Only(g[p], Symbols)
    <2> HIDE DEF f, g
    <2> SUFFICES ASSUME NEW p \in 1..Len(f) PROVE Only(f[p], Symbols \ Marks) = Only(g[p], Symbols)
      OBVIOUS
    <2>1. A[p] \in Seq(SolidRuns) /\ p \in 1..Len(A) /\ p \in 1..Len(B) /\ p \in 1..Len(g)
      BY <1>1, <1>2, <1>3
    <2>2. Bare(Line(A[p])) = Line(BaredRuns(A[p]))
      BY <2>1, LineBare
    <2>3. Bare(f[p]) = g[p] /\ g[p] \in Seq(Symbols)
      BY <1>1, <1>2, <1>3, <2>1, <2>2
    <2>4. Only(g[p], Symbols) = g[p]
      BY <2>3, OnlyAll
    <2> QED
      BY <2>3, <2>4 DEF Bare
  <1> HIDE DEF f, g
  <1>5. Alike(f, g, Symbols \ Marks, Symbols)
    BY <1>1, <1>2, <1>3, <1>4 DEF Alike
  <1>6. Only(FlattenSeq(f), Symbols \ Marks) = Only(FlattenSeq(g), Symbols)
    BY <1>1, <1>3, <1>5, FlattenAlike
  <1>7. FlattenSeq(g) \in Seq(Symbols)
    BY <1>3, FlattenAppend
  <1>8. Only(FlattenSeq(g), Symbols) = FlattenSeq(g)
    BY <1>7, OnlyAll
  <1> QED
    BY <1>6, <1>8 DEF Bare, LoweredOf, f, g, B

\* Firm paragraphs are solid.
LEMMA FirmSolid ==
    ASSUME NEW P \in Archives, Firm(P)
    PROVE  \A p \in 1..Len(SegsOf(P)) : SegsOf(P)[p] \in Seq(SolidRuns)
PROOF
  <1>1. /\ SegsOf(P) \in Outlines /\ Len(SegsOf(P)) = Len(P) /\ Len(P) \in Nat
        /\ \A p \in 1..Len(P) : SegsOf(P)[p] = Shown(P[p]) /\ P[p] \in Seq(FileRuns)
    BY LoweredIs DEF Archives
  <1>2. DOMAIN P = 1..Len(P)
    BY DEF Archives
  <1> SUFFICES ASSUME NEW p \in 1..Len(P) PROVE SegsOf(P)[p] \in Seq(SolidRuns)
    BY <1>1
  <1> DEFINE S == Shown(P[p])
  <1>3. S \in Seq(Segments) /\ SegsOf(P)[p] = S
    BY <1>1, ShownIs
  <1>4. \A k \in DOMAIN S : Has(S[k].chars, Marks) =>
            {S[k].chars[1], S[k].chars[Len(S[k].chars)]} \cap (Marks \cup {"space", "newline"}) = {}
    BY <1>2 DEF Firm
  <1> HIDE DEF S
  <1>5. ASSUME NEW k \in 1..Len(S) PROVE S[k] \in SolidRuns
    <2> DEFINE d == S[k].chars
    <2>1. S[k] \in Segments /\ k \in DOMAIN S /\ d \in Seq(Symbols) /\ Len(d) \in Nat
      <3>1. S[k] \in Segments /\ k \in DOMAIN S
        BY <1>3
      <3>2. S[k].chars \in Seq(Symbols)
        BY <3>1 DEF Segments
      <3> QED
        BY <3>1, <3>2
    <2>2. Has(d, Marks) => {d[1], d[Len(d)]} \cap (Marks \cup {"space", "newline"}) = {}
      BY <1>4, <2>1
    <2> HIDE DEF d
    <2>3. ASSUME NEW i \in 1..Len(d), d[i] \in Marks
          PROVE  /\ \E j \in 1..Len(d) : j < i /\ d[j] \in Inky
                 /\ \E j \in 1..Len(d) : j > i /\ d[j] \in Inky
      <3>1. Has(d, Marks)
        BY <2>1, <2>3 DEF Has
      <3>2. 1 \in 1..Len(d) /\ Len(d) \in 1..Len(d)
        BY <2>1
      <3>3. d[1] \in Symbols /\ d[Len(d)] \in Symbols
        BY <2>1, <3>2
      <3>4. d[1] \in Inky /\ d[Len(d)] \in Inky
        BY <2>2, <3>1, <3>3 DEF Inky, Blanks
      <3>5. i # 1 /\ i # Len(d)
        BY <2>3, <3>4 DEF Inky
      <3> QED
        BY <2>1, <3>2, <3>4, <3>5
    <2>4. Solid(d)
      BY <2>3 DEF Solid
    <2> QED
      BY <2>1, <2>4 DEF SolidRuns, d
  <1> QED
    BY <1>3, <1>5

\* What is kept of a text is kept in order.
LEMMA NthGrows ==
    ASSUME NEW T, NEW d \in Seq(T), NEW S, NEW u \in 1..Len(d), NEW v \in 1..Len(d), u < v, d[v] \in S
    PROVE  Nth(d, S, u) < Nth(d, S, v) /\ Nth(d, S, u) \in Nat /\ Nth(d, S, v) \in Nat
PROOF
  <1> DEFINE U == {k \in 1..u : d[k] \in S}
             V == {k \in 1..v : d[k] \in S}
  <1>1. IsFiniteSet(1..u) /\ IsFiniteSet(1..v)
    BY FS_Interval
  <1>2. IsFiniteSet(U) /\ IsFiniteSet(V)
    BY <1>1, FS_Subset
  <1>3. U \subseteq V /\ v \in V /\ v \notin U
    OBVIOUS
  <1> HIDE DEF U, V
  <1>4. Cardinality(U) \in Nat /\ Cardinality(V) \in Nat
    BY <1>2, FS_CardinalityType
  <1>5. Cardinality(U) <= Cardinality(V) /\ (Cardinality(U) = Cardinality(V) => U = V)
    BY <1>2, <1>3, FS_Subset
  <1>6. Cardinality(U) < Cardinality(V)
    BY <1>3, <1>4, <1>5
  <1> QED
    BY <1>4, <1>6 DEF Nth, U, V

\* Where a character that is kept comes.
LEMMA NthHolds ==
    ASSUME NEW T, NEW d \in Seq(T), NEW S, NEW i \in 1..Len(d), d[i] \in S
    PROVE  Nth(d, S, i) \in 1..Len(Only(d, S)) /\ Only(d, S)[Nth(d, S, i)] = d[i]
PROOF
  <1> DEFINE x == d[i]
             kept == Only(d, S)
             n == Nth(d, S, i)
  <1>1. x \in T \cap S
    OBVIOUS
  <1>2. n \in 1..Len(kept) /\ Only([d EXCEPT ![i] = x], S) = [kept EXCEPT ![n] = x]
    <2> HIDE DEF x
    <2> QED
      BY <1>1, OnlyExcept
  <1>3. [d EXCEPT ![i] = x] = d
    OBVIOUS
  <1>4. kept \in Seq(T \cap S)
    BY OnlyType
  <1> HIDE DEF kept, n, x
  <1>5. kept = [kept EXCEPT ![n] = x]
    BY <1>2, <1>3 DEF kept
  <1>6. n \in DOMAIN kept
    BY <1>2, <1>4
  <1>7. [kept EXCEPT ![n] = x][n] = x
    BY <1>6
  <1> QED
    BY <1>2, <1>5, <1>7 DEF kept, n, x

\* What stands between two characters that are kept was between them before.
LEMMA BetweenKept ==
    ASSUME NEW T, NEW d \in Seq(T), NEW S, NEW L, L \subseteq S,
           NEW u \in 1..Len(d), NEW v \in 1..Len(d), u <= v, \A k \in u..v : d[k] \in L
    PROVE  \A j \in Nth(d, S, u)..Nth(d, S, v) :
                j \in 1..Len(Only(d, S)) => Only(d, S)[j] \in L
PROOF
  <1> SUFFICES ASSUME NEW j \in 1..Len(Only(d, S)), j \in Nth(d, S, u)..Nth(d, S, v)
               PROVE  Only(d, S)[j] \in L
    OBVIOUS
  <1>1. PICK i \in 1..Len(d) : d[i] \in S /\ Nth(d, S, i) = j /\ Only(d, S)[j] = d[i]
    BY OnlyNth
  <1>2. u \in u..v /\ v \in u..v /\ Len(d) \in Nat
    OBVIOUS
  <1>3. d[u] \in S /\ d[v] \in S
    BY <1>2
  <1>4. ~(i < u)
    <2>1. ASSUME i < u PROVE FALSE
      <3>1. Nth(d, S, i) < Nth(d, S, u) /\ Nth(d, S, i) \in Nat /\ Nth(d, S, u) \in Nat
        BY <1>3, <2>1, NthGrows
      <3> QED
        BY <1>1, <3>1
    <2> QED
      BY <2>1
  <1>5. ~(v < i)
    <2>1. ASSUME v < i PROVE FALSE
      <3>1. Nth(d, S, v) < Nth(d, S, i) /\ Nth(d, S, v) \in Nat /\ Nth(d, S, i) \in Nat
        BY <1>1, <2>1, NthGrows
      <3> QED
        BY <1>1, <3>1
    <2> QED
      BY <2>1
  <1>6. i \in u..v
    BY <1>2, <1>4, <1>5
  <1> QED
    BY <1>1, <1>6

\* Where no letter of the text is in doubt, none is taken back.
LEMMA UndoubtedKept ==
    ASSUME NEW d \in Seq(Symbols), Unmistaken(Bare(d))
    PROVE  Attributed(d) = {}
PROOF
  <1> DEFINE t == Bare(d)
             S == Symbols \ Marks
  <1>1. t = Only(d, S) /\ t \in Seq(Symbols)
    BY BareType DEF Bare
  <1>2. \A R : R \subseteq Symbols \ Marks => (Has(t, R) <=> Has(d, R))
    BY BareType
  <1>3. /\ LatinLetters \subseteq S /\ Letters \subseteq S /\ {"cyrillic"} \subseteq S /\ {"alike"} \subseteq S
        /\ LatinLetters \subseteq Letters /\ "alike" \in Letters
    <2>1. "alike" \in Letters /\ "cyrillic" \in Letters
      BY DEF Letters
    <2> QED
      BY <2>1, Alphabet
  <1>4. \A x \in DOMAIN t : t[x] = "alike" =>
            ~LatinDocument(t) /\ \A j \in Run(t, x) : t[j] \notin LatinLetters
    BY DEF Unmistaken
  <1>5. LatinDocument(t) <=> LatinDocument(d)
    <2> HIDE DEF t, S
    <2> QED
      BY <1>2, <1>3 DEF LatinDocument, S
  <1> SUFFICES ASSUME NEW i \in Attributed(d) PROVE FALSE
    OBVIOUS
  <1>6. i \in 1..Len(d) /\ d[i] = "alike" /\ MarkedRun(d, Run(d, i)) /\ DOMAIN d = 1..Len(d) /\ Len(d) \in Nat
    BY DEF Attributed
  <1> HIDE DEF t
  <1>7. Len(t) \in Nat /\ DOMAIN t = 1..Len(t)
    BY <1>1
  <1> DEFINE x == Nth(d, S, i)
  <1>8. x \in 1..Len(t) /\ t[x] = "alike"
    <2>1. d[i] \in S
      BY <1>3, <1>6
    <2> HIDE DEF S
    <2> QED
      BY <1>1, <1>6, <2>1, NthHolds
  <1>9. ~LatinDocument(d) /\ \A j \in Run(t, x) : t[j] \notin LatinLetters
    BY <1>4, <1>5, <1>7, <1>8
  <1>10. PICK k \in Run(d, i) : d[k] \in LatinLetters
    BY <1>6, <1>9 DEF MarkedRun
  <1>11. k \in 1..Len(d) /\ \A n \in (IF i < k THEN i..k ELSE k..i) : d[n] \in Letters
    BY <1>6, <1>10 DEF Run
  <1> DEFINE y == Nth(d, S, k)
  <1>12. y \in 1..Len(t) /\ t[y] = d[k]
    <2>1. d[k] \in S
      BY <1>3, <1>10
    <2> HIDE DEF S
    <2> QED
      BY <1>1, <1>11, <2>1, NthHolds
  <1>13. \A n \in (IF x < y THEN x..y ELSE y..x) : t[n] \in Letters
    <2> HIDE DEF S
    <2>1. CASE i < k
      <3>1. i <= k /\ \A n \in i..k : d[n] \in Letters
        BY <1>6, <1>11, <2>1
      <3>2. \A j \in Nth(d, S, i)..Nth(d, S, k) : j \in 1..Len(Only(d, S)) => Only(d, S)[j] \in Letters
        BY <1>3, <1>6, <1>11, <3>1, BetweenKept
      <3>3. x < y
        <4>1. d[k] \in S
          BY <1>3, <1>10
        <4> QED
          BY <1>6, <1>11, <2>1, <4>1, NthGrows
      <3>4. \A n \in x..y : n \in 1..Len(t)
        BY <1>7, <1>8, <1>12
      <3> QED
        BY <1>1, <3>2, <3>3, <3>4
    <2>2. CASE ~(i < k)
      <3>1. k <= i /\ \A n \in k..i : d[n] \in Letters
        BY <1>6, <1>11, <2>2
      <3>2. \A j \in Nth(d, S, k)..Nth(d, S, i) : j \in 1..Len(Only(d, S)) => Only(d, S)[j] \in Letters
        BY <1>3, <1>6, <1>11, <3>1, BetweenKept
      <3>3. ~(x < y)
        <4>0. d[i] \in S
          BY <1>3, <1>6
        <4>1. CASE k = i
          BY <1>8, <4>1
        <4>2. CASE k # i
          <5>1. k < i
            BY <3>1, <4>2, <1>6, <1>11
          <5>2. y < x /\ x \in Nat /\ y \in Nat
            BY <1>6, <1>11, <4>0, <5>1, NthGrows
          <5> HIDE DEF x, y
          <5> QED
            BY <5>2
        <4> QED
          BY <4>1, <4>2
      <3>4. \A n \in y..x : n \in 1..Len(t)
        BY <1>7, <1>8, <1>12
      <3> QED
        BY <1>1, <3>2, <3>3, <3>4
    <2> QED
      BY <2>1, <2>2
  <1> HIDE DEF x, y
  <1>14. y \in Run(t, x)
    BY <1>7, <1>12, <1>13 DEF Run
  <1> QED
    BY <1>9, <1>10, <1>12, <1>14

\* And the hash is taken of the text without its marks.
LEMMA FirmStrips ==
    ASSUME NEW d \in Seq(Symbols), Unmistaken(Bare(d))
    PROVE  StripAll(d) = Bare(d)
PROOF
  <1> DEFINE u == Strip("bidi", d)
             v == Strip("homoglyph", u)
             w == Strip("whitespace_var", v)
             y == Strip("zero_width", w)
  <1>0. StripAll(d) = y
    <2>1. {"bidi", "homoglyph", "whitespace_var", "zero_width"} \subseteq Carrier
      BY DEF Carrier, Inserting, Bit0
    <2>2. CleanOrder[1] = "bidi" /\ CleanOrder[2] = "homoglyph"
          /\ CleanOrder[3] = "whitespace_var" /\ CleanOrder[4] = "zero_width"
      BY DEF CleanOrder
    <2> QED
      BY <2>1, <2>2 DEF StripAll, StripEach
  <1>1. {"bidi", "whitespace_var", "zero_width"} \subseteq Inserting
    BY DEF Inserting, Bit0
  <1>2. u \in Seq(Symbols) /\ Bare(u) = Bare(d)
    BY <1>1, ReadsBare, StripReads
  <1> HIDE DEF u
  <1>3. v = u
    <2>1. Attributed(u) = {}
      BY <1>2, UndoubtedKept
    <2> QED
      BY <1>2, <2>1, NoneAttributed
  <1> HIDE DEF v
  <1>4. w \in Seq(Symbols) /\ Bare(w) = Bare(v)
    BY <1>1, <1>2, <1>3, ReadsBare, StripReads
  <1> HIDE DEF w
  <1>5. y \in Seq(Symbols) /\ Bare(y) = Bare(w)
    BY <1>1, <1>4, ReadsBare, StripReads
  <1>6. ~Has(y, Marks)
    <2>1. StripAll(d) = StripEach(CleanOrder, Carrier, d)
      BY DEF StripAll
    <2>2. \A c \in Carrier \cap Inserting : ~Has(y, Removable(c))
      BY <1>0, <2>1, StripEachClears
    <2> HIDE DEF y
    <2> QED
      BY <2>2 DEF Has, Marks, Carrier
  <1>7. Bare(y) = y
    <2> HIDE DEF y
    <2>1. y \in Seq(Symbols \ Marks)
      BY <1>5, <1>6, Without
    <2> QED
      BY <2>1, OnlyAll DEF Bare
  <1> QED
    BY <1>0, <1>2, <1>3, <1>4, <1>5, <1>7

-----------------------------------------------------------------------------
(* Papers of one shape.                                                    *)

\* Segments of one format that are alike but for letters retyped.
SegShaping ==
    {p \in Segments \X Segments :
        p[1].bold = p[2].bold /\ Pairwise(p[1].chars, p[2].chars, Retypings)}

Retyped == {"twin", "latin"}

\* Texts that differ in letters retyped alone differ in those letters.
LEMMA RetypedSame ==
    ASSUME NEW a \in Seq(Symbols), NEW b \in Seq(Symbols), Pairwise(a, b, Retypings),
           Only(a, Retyped) = Only(b, Retyped)
    PROVE  a = b
PROOF
  <1>1. Len(a) = Len(b) /\ \A i \in 1..Len(a) : <<a[i], b[i]>> \in Retypings
    BY DEF Pairwise
  <1>2. ASSUME NEW i \in 1..Len(a) PROVE a[i] = b[i] \/ (a[i] \in Retyped /\ b[i] \in Retyped)
    BY <1>1 DEF Retypings, Retyped
  <1>3. ASSUME NEW i \in 1..Len(a) PROVE a[i] \in Retyped <=> b[i] \in Retyped
    BY <1>2
  <1>4. ASSUME NEW i \in 1..Len(a), a[i] # b[i] PROVE FALSE
    <2>1. a[i] \in Retyped /\ b[i] \in Retyped /\ i \in 1..Len(b)
      BY <1>1, <1>2, <1>4
    <2>2. Nth(a, Retyped, i) = Nth(b, Retyped, i)
      <3>1. {k \in 1..i : a[k] \in Retyped} = {k \in 1..i : b[k] \in Retyped}
        BY <1>3
      <3> QED
        BY <3>1 DEF Nth
    <2>3. Only(a, Retyped)[Nth(a, Retyped, i)] = a[i]
      BY <2>1, NthHolds
    <2>4. Only(b, Retyped)[Nth(b, Retyped, i)] = b[i]
      BY <2>1, NthHolds
    <2> QED
      BY <1>4, <2>2, <2>3, <2>4
  <1>5. \A i \in 1..Len(a) : a[i] = b[i]
    BY <1>4
  <1> QED
    BY <1>1, <1>5

\* Lines of segments alike hold what is alike, and the same only if they are.
LEMMA ColumnsTell ==
    ASSUME NEW S \in Seq(Segments), NEW R \in Seq(Segments), Pairwise(S, R, SegShaping)
    PROVE  /\ Pairwise(CharsOf(S), CharsOf(R), Retypings)
           /\ CharsOf(S) = CharsOf(R) => S = R
PROOF
  <1>1. Len(S) = Len(R) /\ \A k \in 1..Len(S) : <<S[k], R[k]>> \in SegShaping
    BY DEF Pairwise
  <1>2. /\ Columns(S) \in Seq(Seq(Symbols)) /\ Len(Columns(S)) = Len(S)
        /\ \A k \in 1..Len(S) : Columns(S)[k] = S[k].chars
        /\ Columns(R) \in Seq(Seq(Symbols)) /\ Len(Columns(R)) = Len(R)
        /\ \A k \in 1..Len(R) : Columns(R)[k] = R[k].chars
    BY ColumnsAppend
  <1>3. Paired(Columns(S), Columns(R), Retypings)
    <2>1. \A k \in 1..Len(Columns(S)) : Pairwise(Columns(S)[k], Columns(R)[k], Retypings)
      BY <1>1, <1>2 DEF SegShaping
    <2> QED
      BY <1>1, <1>2, <2>1 DEF Paired
  <1> DEFINE f == Columns(S)
             g == Columns(R)
  <1>4. f \in Seq(Seq(Symbols)) /\ g \in Seq(Seq(Symbols)) /\ Paired(f, g, Retypings)
    BY <1>2, <1>3
  <1> HIDE DEF f, g
  <1>5. /\ Pairwise(FlattenSeq(f), FlattenSeq(g), Retypings)
        /\ FlattenSeq(f) = FlattenSeq(g) => \A k \in 1..Len(f) : f[k] = g[k]
    BY <1>4, FlattenPairs
  <1>6. ASSUME CharsOf(S) = CharsOf(R) PROVE S = R
    <2>1. \A k \in 1..Len(S) : S[k].chars = R[k].chars
      BY <1>1, <1>2, <1>5, <1>6 DEF CharsOf, f, g
    <2>2. \A k \in 1..Len(S) : S[k].bold = R[k].bold
      BY <1>1 DEF SegShaping
    <2>3. \A k \in 1..Len(S) : S[k] = R[k]
      <3> SUFFICES ASSUME NEW k \in 1..Len(S) PROVE S[k] = R[k]
        OBVIOUS
      <3> DEFINE x == S[k]
                 y == R[k]
      <3>1. x \in Segments /\ y \in Segments /\ x.chars = y.chars /\ x.bold = y.bold
        BY <1>1, <2>1, <2>2
      <3> HIDE DEF x, y
      <3>2. x = [bold |-> x.bold, chars |-> x.chars] /\ y = [bold |-> y.bold, chars |-> y.chars]
        BY <3>1 DEF Segments
      <3>3. x = y
        BY <3>1, <3>2
      <3> QED
        BY <3>3 DEF x, y
    <2> QED
      BY <1>1, <2>3
  <1> QED
    BY <1>5, <1>6 DEF CharsOf, f, g

\* Papers of one shape that read the same are the same.
LEMMA ShapesTell ==
    ASSUME NEW A \in Outlines, NEW B \in Outlines, Paired(A, B, SegShaping),
           LoweredOf(A) = LoweredOf(B)
    PROVE  A = B
PROOF
  <1>1. Len(A) = Len(B) /\ \A p \in 1..Len(A) : Pairwise(A[p], B[p], SegShaping)
    BY DEF Paired
  <1>2. /\ Inks(A) \in Seq(Seq(Symbols)) /\ Len(Inks(A)) = Len(A)
        /\ \A p \in 1..Len(A) : Inks(A)[p] = CharsOf(A[p])
        /\ InkOf(A) = FlattenSeq(Inks(A)) /\ InkOf(A) \in Seq(Symbols)
    BY InksAre
  <1>3. /\ Inks(B) \in Seq(Seq(Symbols)) /\ Len(Inks(B)) = Len(B)
        /\ \A p \in 1..Len(B) : Inks(B)[p] = CharsOf(B[p])
        /\ InkOf(B) = FlattenSeq(Inks(B)) /\ InkOf(B) \in Seq(Symbols)
    BY InksAre
  <1>4. /\ \A p \in 1..Len(A) : A[p] \in Seq(Segments) /\ B[p] \in Seq(Segments)
    BY <1>1, LinesAre
  <1>5. \A p \in 1..Len(A) : /\ Pairwise(CharsOf(A[p]), CharsOf(B[p]), Retypings)
                             /\ CharsOf(A[p]) = CharsOf(B[p]) => A[p] = B[p]
    BY <1>1, <1>4, ColumnsTell
  <1> DEFINE f == Inks(A)
             g == Inks(B)
  <1>6. f \in Seq(Seq(Symbols)) /\ g \in Seq(Seq(Symbols)) /\ Paired(f, g, Retypings)
    BY <1>1, <1>2, <1>3, <1>5 DEF Paired
  <1> HIDE DEF f, g
  <1>7. /\ Pairwise(FlattenSeq(f), FlattenSeq(g), Retypings)
        /\ FlattenSeq(f) = FlattenSeq(g) => \A p \in 1..Len(f) : f[p] = g[p]
    BY <1>6, FlattenPairs
  <1>8. Only(InkOf(A), Retyped) = Only(InkOf(B), Retyped)
    <2>1. Retyped \cap Layout = {}
      BY DEF Retyped, Layout
    <2>2. Only(LoweredOf(A), Retyped) = Only(InkOf(A), Retyped)
      BY <2>1, LoweredOnly
    <2>3. Only(LoweredOf(B), Retyped) = Only(InkOf(B), Retyped)
      BY <2>1, LoweredOnly
    <2> QED
      BY <2>2, <2>3
  <1>9. InkOf(A) = InkOf(B)
    <2>1. Pairwise(InkOf(A), InkOf(B), Retypings)
      BY <1>2, <1>3, <1>7 DEF f, g
    <2> QED
      BY <1>2, <1>3, <1>8, <2>1, RetypedSame
  <1>10. \A p \in 1..Len(A) : CharsOf(A[p]) = CharsOf(B[p])
    BY <1>1, <1>2, <1>3, <1>7, <1>9 DEF f, g
  <1>11. \A p \in 1..Len(A) : A[p] = B[p]
    BY <1>5, <1>10
  <1>12. A \in Seq(Seq(Segments)) /\ B \in Seq(Seq(Segments))
    BY DEF Outlines, Segments
  <1> QED
    BY <1>1, <1>11, <1>12

\* Being of one shape goes from paper to paper.
LEMMA ShapesCarryOver ==
    /\ \A A \in Outlines : Paired(A, A, SegShaping)
    /\ \A A \in Outlines, B \in Outlines, C \in Outlines :
            Paired(A, B, SegShaping) /\ Paired(B, C, SegShaping) => Paired(A, C, SegShaping)
PROOF
  <1>1. \A x \in Symbols : <<x, x>> \in Retypings
    BY DEF Retypings
  <1>2. \A x \in Symbols, y \in Symbols, z \in Symbols :
            <<x, y>> \in Retypings /\ <<y, z>> \in Retypings => <<x, z>> \in Retypings
    BY DEF Retypings
  <1>3. ASSUME NEW r \in Segments PROVE <<r, r>> \in SegShaping
    <2>1. r.chars \in Seq(Symbols)
      BY DEF Segments
    <2>2. Pairwise(r.chars, r.chars, Retypings)
      BY <1>1, <2>1 DEF Pairwise
    <2> QED
      BY <2>2 DEF SegShaping
  <1>4. ASSUME NEW r, NEW s, NEW t, <<r, s>> \in SegShaping, <<s, t>> \in SegShaping
        PROVE  <<r, t>> \in SegShaping
    <2>1. /\ r \in Segments /\ s \in Segments /\ t \in Segments /\ r.bold = s.bold /\ s.bold = t.bold
          /\ Pairwise(r.chars, s.chars, Retypings) /\ Pairwise(s.chars, t.chars, Retypings)
      BY <1>4 DEF SegShaping
    <2>2. r.chars \in Seq(Symbols) /\ s.chars \in Seq(Symbols) /\ t.chars \in Seq(Symbols)
      BY <2>1 DEF Segments
    <2> DEFINE a == r.chars
               b == s.chars
               c == t.chars
    <2>3. /\ a \in Seq(Symbols) /\ b \in Seq(Symbols) /\ c \in Seq(Symbols)
          /\ Len(a) = Len(b) /\ Len(b) = Len(c)
          /\ \A i \in 1..Len(a) : <<a[i], b[i]>> \in Retypings
          /\ \A i \in 1..Len(b) : <<b[i], c[i]>> \in Retypings
      BY <2>1, <2>2 DEF Pairwise
    <2> HIDE DEF a, b, c
    <2>4. \A i \in 1..Len(a) : a[i] \in Symbols /\ b[i] \in Symbols /\ c[i] \in Symbols
      BY <2>3
    <2>5. \A i \in 1..Len(a) : <<a[i], c[i]>> \in Retypings
      BY <1>2, <2>3, <2>4
    <2>6. Pairwise(a, c, Retypings)
      BY <2>3, <2>5 DEF Pairwise
    <2> QED
      BY <2>1, <2>6 DEF SegShaping, a, c
  <1>5. ASSUME NEW A \in Outlines PROVE Paired(A, A, SegShaping)
    <2>1. \A p \in 1..Len(A) : A[p] \in Seq(Segments)
      BY LinesAre
    <2>2. \A p \in 1..Len(A) : Pairwise(A[p], A[p], SegShaping)
      BY <1>3, <2>1 DEF Pairwise
    <2> QED
      BY <2>2 DEF Paired
  <1>6. ASSUME NEW A \in Outlines, NEW B \in Outlines, NEW C \in Outlines,
               Paired(A, B, SegShaping), Paired(B, C, SegShaping)
        PROVE  Paired(A, C, SegShaping)
    <2>1. /\ Len(A) = Len(B) /\ Len(B) = Len(C)
          /\ \A p \in 1..Len(A) : Pairwise(A[p], B[p], SegShaping) /\ Pairwise(B[p], C[p], SegShaping)
      BY <1>6 DEF Paired
    <2>2. ASSUME NEW p \in 1..Len(A) PROVE Pairwise(A[p], C[p], SegShaping)
      <3>1. /\ Len(A[p]) = Len(B[p]) /\ Len(B[p]) = Len(C[p])
            /\ \A k \in 1..Len(A[p]) : <<A[p][k], B[p][k]>> \in SegShaping
            /\ \A k \in 1..Len(B[p]) : <<B[p][k], C[p][k]>> \in SegShaping
        BY <2>1 DEF Pairwise
      <3>2. \A k \in 1..Len(A[p]) : <<A[p][k], C[p][k]>> \in SegShaping
        BY <1>4, <3>1
      <3> QED
        BY <3>1, <3>2 DEF Pairwise
    <2> QED
      BY <2>1, <2>2 DEF Paired
  <1> QED
    BY <1>5, <1>6

\* Archives of which no more is changed than marks and letters show papers of one shape.
LEMMA AuthoredShapes ==
    ASSUME NEW P \in Archives, NEW O \in Archives, Paired(P, O, Shaping)
    PROVE  Paired(Authored(P), Authored(O), SegShaping)
PROOF
  <1>1. Len(P) = Len(O) /\ \A p \in 1..Len(P) : Pairwise(P[p], O[p], Shaping)
    BY DEF Paired
  <1>2. /\ \A p \in 1..Len(P) : P[p] \in Seq(FileRuns) /\ SegsOf(P)[p] = Shown(P[p])
        /\ SegsOf(P) \in Outlines /\ Len(SegsOf(P)) = Len(P) /\ Len(P) \in Nat
        /\ \A p \in 1..Len(O) : O[p] \in Seq(FileRuns) /\ SegsOf(O)[p] = Shown(O[p])
        /\ SegsOf(O) \in Outlines /\ Len(SegsOf(O)) = Len(O)
    BY LoweredIs DEF Archives
  <1>3. Authored(P) = BaredOutline(SegsOf(P)) /\ Authored(O) = BaredOutline(SegsOf(O))
    BY AuthoredIs
  <1>4. /\ Len(Authored(P)) = Len(P) /\ \A p \in 1..Len(P) : Authored(P)[p] = BaredRuns(Shown(P[p]))
        /\ Len(Authored(O)) = Len(O) /\ \A p \in 1..Len(O) : Authored(O)[p] = BaredRuns(Shown(O[p]))
    BY <1>2, <1>3, BaredIs
  <1>5. ShowAlike(Shaping)
    BY DEF ShowAlike, Shaping
  <1>6. ASSUME NEW p \in 1..Len(P)
        PROVE  Pairwise(BaredRuns(Shown(P[p])), BaredRuns(Shown(O[p])), SegShaping)
    <2> DEFINE a == P[p]
               b == O[p]
    <2>1. a \in Seq(FileRuns) /\ b \in Seq(FileRuns) /\ Pairwise(a, b, Shaping)
      BY <1>1, <1>2
    <2> HIDE DEF a, b
    <2>2. ShownSo(a, b, Shaping)
      BY <1>5, <2>1, ShownPairwise
    <2>3. Shown(a) \in Seq(Segments) /\ Shown(b) \in Seq(Segments)
      BY <2>1, ShownIs
    <2>4. /\ Len(Shown(a)) = Len(Shown(b))
          /\ \A k \in 1..Len(Shown(a)) :
                \E x \in FileRuns, y \in FileRuns :
                    <<x, y>> \in Shaping /\ Shown(a)[k] = Segment(x) /\ Shown(b)[k] = Segment(y)
      BY <2>2 DEF ShownSo
    <2>5. /\ Len(BaredRuns(Shown(a))) = Len(Shown(a)) /\ Len(BaredRuns(Shown(b))) = Len(Shown(b))
          /\ \A k \in 1..Len(Shown(a)) : BaredRuns(Shown(a))[k] = BaredRun(Shown(a)[k])
          /\ \A k \in 1..Len(Shown(b)) : BaredRuns(Shown(b))[k] = BaredRun(Shown(b)[k])
      BY <2>3, BaredIs
    <2>6. ASSUME NEW k \in 1..Len(Shown(a))
          PROVE  <<BaredRun(Shown(a)[k]), BaredRun(Shown(b)[k])>> \in SegShaping
      <3>1. PICK x \in FileRuns, y \in FileRuns :
                <<x, y>> \in Shaping /\ Shown(a)[k] = Segment(x) /\ Shown(b)[k] = Segment(y)
        BY <2>4
      <3>2. /\ Segment(x) \in Segments /\ Segment(x).bold = x.bold /\ Segment(x).chars = Spelled(x.chars)
            /\ Segment(y) \in Segments /\ Segment(y).bold = y.bold /\ Segment(y).chars = Spelled(y.chars)
        BY SegmentIs
      <3>3. x.bold = y.bold /\ Pairwise(Bare(Spelled(x.chars)), Bare(Spelled(y.chars)), Retypings)
        BY <3>1 DEF Shaping
      <3> DEFINE u == BaredRun(Segment(x))
                 v == BaredRun(Segment(y))
      <3>4. /\ u \in Segments /\ u.bold = x.bold /\ u.chars = Bare(Spelled(x.chars))
            /\ v \in Segments /\ v.bold = y.bold /\ v.chars = Bare(Spelled(y.chars))
        BY <3>2, BaredIs
      <3> HIDE DEF u, v
      <3>5. <<u, v>> \in SegShaping
        BY <3>3, <3>4 DEF SegShaping
      <3> QED
        BY <3>1, <3>5 DEF u, v
    <2> QED
      BY <2>4, <2>5, <2>6 DEF Pairwise, a, b
  <1> QED
    BY <1>1, <1>4, <1>6 DEF Paired

\* Where marks stand firm, what is signed is the author's paper as it is rendered.
LEMMA FirmReads ==
    ASSUME NEW P \in Archives, Firm(P)
    PROVE  StripAll(Lowered(P)) = LoweredOf(Authored(P))
PROOF
  <1> DEFINE A == SegsOf(P)
             d == Lowered(P)
  <1>1. /\ A \in Outlines /\ d = LoweredOf(A) /\ d \in Seq(Symbols)
    BY LoweredIs DEF Archives
  <1>2. \A p \in 1..Len(A) : A[p] \in Seq(SolidRuns)
    BY FirmSolid
  <1>3. Authored(P) = BaredOutline(A)
    BY AuthoredIs
  <1>4. Unmistaken(Free(d, Marks))
    BY DEF Firm
  <1> HIDE DEF A, d
  <1>5. Bare(d) = LoweredOf(Authored(P))
    BY <1>1, <1>2, <1>3, LoweredBare
  <1>6. Unmistaken(Bare(d))
    <2>1. Free(d, Marks) = Only(d, Symbols \ Marks)
      BY <1>1, FreeIsOnly
    <2> QED
      BY <1>4, <2>1 DEF Bare
  <1>7. StripAll(d) = Bare(d)
    BY <1>1, <1>6, FirmStrips
  <1> QED
    BY <1>5, <1>7 DEF d

\* A rendering with anything in it has the end of a paragraph in it, whatever is
\* stripped of it.
LEMMA SomethingReads ==
    ASSUME NEW P \in Archives, Firm(P), Lowered(P) # <<>>
    PROVE  StripAll(Lowered(P)) # <<>>
PROOF
  <1> DEFINE A == SegsOf(P)
             d == Lowered(P)
  <1>1. A \in Outlines /\ d = LoweredOf(A) /\ d \in Seq(Symbols)
    BY LoweredIs DEF Archives
  <1>2. Unmistaken(Free(d, Marks)) /\ d # <<>>
    BY DEF Firm
  <1> HIDE DEF A, d
  <1>3. StripAll(d) = Bare(d)
    <2>1. Free(d, Marks) = Only(d, Symbols \ Marks)
      BY <1>1, FreeIsOnly
    <2>2. Unmistaken(Bare(d))
      BY <1>2, <2>1 DEF Bare
    <2> QED
      BY <1>1, <2>2, FirmStrips
  <1>4. /\ LinesOf(A) \in Seq(Seq(Symbols)) /\ Len(LinesOf(A)) = Len(A)
        /\ \A p \in 1..Len(A) : LinesOf(A)[p] = Line(A[p])
    BY <1>1, LinesAre
  <1> DEFINE f == LinesOf(A)
  <1>5. /\ f \in Seq(Seq(Symbols)) /\ d = FlattenSeq(f)
        /\ \A p \in 1..Len(f) : p \in 1..Len(A) /\ f[p] = Line(A[p])
    <2>1. f \in Seq(Seq(Symbols)) /\ d = FlattenSeq(f)
      BY <1>1, <1>4 DEF LoweredOf
    <2>2. Len(f) = Len(A) /\ \A p \in 1..Len(A) : f[p] = Line(A[p])
      BY <1>4
    <2> HIDE DEF f
    <2>3. \A p \in 1..Len(f) : p \in 1..Len(A) /\ f[p] = Line(A[p])
      BY <2>2
    <2> QED
      BY <2>1, <2>3
  <1> HIDE DEF f
  <1>6. Has(d, Symbols)
    BY <1>1, <1>2 DEF Has
  <1>7. PICK p \in 1..Len(f) : Has(f[p], Symbols)
    BY <1>5, <1>6, FlattenHas
  <1>8. Has(f[p], {"newline"})
    <2>1. f[p] = Line(A[p]) /\ f[p] # <<>> /\ A[p] \in Seq(Segments)
      <3>1. p \in 1..Len(A) /\ f[p] = Line(A[p])
        BY <1>5, <1>7
      <3>2. f[p] # <<>>
        BY <1>7 DEF Has
      <3> QED
        BY <1>1, <3>1, <3>2, LinesAre
    <2> DEFINE t == Trimmed(FlattenSeq(Emphases(A[p])))
    <2>2. t \in Seq(Symbols)
      <3>1. FlattenSeq(Emphases(A[p])) \in Seq(Symbols)
        BY <2>1, EmphasesAre
      <3> QED
        BY <3>1, TrimmedOnly
    <2>3. f[p] = t \o <<"newline">>
      BY <2>1 DEF Line
    <2> HIDE DEF t
    <2>4. f[p] = Append(t, "newline")
      BY <2>2, <2>3
    <2>5. "newline" \in Symbols
      BY Alphabet DEF Visible
    <2> QED
      BY <2>2, <2>4, <2>5, HasAppend
  <1>9. Has(d, {"newline"})
    BY <1>5, <1>7, <1>8, FlattenHas
  <1>10. {"newline"} \subseteq Symbols \ Marks
    BY Alphabet DEF Visible
  <1>11. Has(Bare(d), {"newline"})
    BY <1>1, <1>9, <1>10, BareType
  <1> QED
    BY <1>3, <1>11 DEF Has, d

-----------------------------------------------------------------------------
(* The second invariant.                                                   *)

\* The claim an archive carries is by who signed last; the paper is of the shape of
\* the one signed; and what was signed firm was signed as it reads, and was something.
ClaimHolds(f, sg) ==
    sg # Unsigned =>
        /\ f.meta.signer = sg.signer
        /\ Paired(Authored(f.paras), sg.over, SegShaping)
        /\ sg.firm => f.meta.hash = LoweredOf(sg.over) /\ f.meta.hash # <<>>

ClaimInv == ClaimHolds(file, signed)

\* A claim just made holds.
LEMMA ClaimMade ==
    ASSUME FileInv, NEW s \in Authors, SignIntoMetadata(s)
    PROVE  ClaimInv'
PROOF
  <1> DEFINE P == file.paras
             claim == [signer |-> s, hash |-> StripAll(Lowered(P))]
             history == [signer |-> s, over |-> Authored(P), firm |-> Firm(P)]
             g == [file EXCEPT !.meta = claim]
  <1>1. /\ file.form = "office" /\ Lowered(P) # <<>> /\ file' = g /\ signed' = history
    BY DEF SignIntoMetadata, Embedded
  <1>2. file \in OfficeShapes /\ P \in Archives
    BY <1>1, FormsApart
  <1>3. g.meta = claim /\ g.paras = P
    BY <1>2 DEF OfficeShapes
  <1>4. Authored(P) \in Outlines
    BY <1>2, AuthoredIs
  <1>5. Paired(Authored(P), Authored(P), SegShaping)
    BY <1>4, ShapesCarryOver
  <1>6. Firm(P) => StripAll(Lowered(P)) = LoweredOf(Authored(P)) /\ StripAll(Lowered(P)) # <<>>
    BY <1>1, <1>2, FirmReads, SomethingReads
  <1>7. claim.signer = s /\ claim.hash = StripAll(Lowered(P)) /\ history.signer = s
        /\ history.over = Authored(P) /\ history.firm = Firm(P)
    OBVIOUS
  <1> HIDE DEF g, claim, history, P
  <1>8. ClaimHolds(g, history)
    BY <1>3, <1>5, <1>6, <1>7 DEF ClaimHolds
  <1> QED
    BY <1>1, <1>8 DEF ClaimInv

\* It holds as long as the paragraphs keep their shape, and goes with the metadata.
LEMMA ClaimShaped ==
    ASSUME NEW f \in OfficeShapes, NEW sg \in {Unsigned} \cup Signings, ClaimHolds(f, sg),
           NEW P \in Archives, Paired(P, f.paras, Shaping),
           NEW m, NEW sh, KeptOrDropped(m, sh, f.meta, sg)
    PROVE  ClaimHolds(Holding(f, P, m), sh)
PROOF
  <1> SUFFICES ASSUME sh # Unsigned PROVE ClaimHolds(Holding(f, P, m), sh)
    BY DEF ClaimHolds
  <1>1. m = f.meta /\ sh = sg /\ sg \in Signings
    BY DEF KeptOrDropped
  <1>2. f.paras \in Archives /\ Holding(f, P, m).paras = P /\ Holding(f, P, m).meta = f.meta
    <2>1. f.paras \in Archives /\ f.meta \in {Unsigned} \cup Claimings
      BY OfficeIs
    <2> QED
      BY <1>1, <2>1 DEF OfficeShapes, Holding
  <1>3. sg.over \in Outlines
    BY <1>1 DEF Signings
  <1>4. /\ f.meta.signer = sg.signer
        /\ Paired(Authored(f.paras), sg.over, SegShaping)
        /\ sg.firm => f.meta.hash = LoweredOf(sg.over) /\ f.meta.hash # <<>>
    BY <1>1 DEF ClaimHolds
  <1>5. Paired(Authored(P), Authored(f.paras), SegShaping)
    BY <1>2, AuthoredShapes
  <1>6. Authored(P) \in Outlines /\ Authored(f.paras) \in Outlines
    BY <1>2, AuthoredIs
  <1>7. Paired(Authored(P), sg.over, SegShaping)
    BY <1>3, <1>4, <1>5, <1>6, ShapesCarryOver
  <1> QED
    BY <1>1, <1>2, <1>4, <1>7 DEF ClaimHolds

\* A clean of an archive leaves the claim and the shape of the paper.
LEMMA ClaimCleaned ==
    ASSUME FileInv, ClaimInv, NEW chosen \in FileSelections, CleanOffice(chosen)
    PROVE  ClaimInv'
PROOF
  <1> DEFINE N == NodesCleaned(file.paras, chosen)
  <1>1. /\ file.form = "office" /\ "homoglyph" \notin chosen
        /\ file' = [file EXCEPT !.paras = N] /\ signed' = signed
    BY DEF CleanOffice, Repackaged
  <1>2. /\ file \in OfficeShapes /\ file.paras \in Archives /\ signed \in {Unsigned} \cup Signings
    BY <1>1, FormsApart DEF OfficeHolds
  <1>3. N \in Archives /\ Paired(N, file.paras, Shaping)
    BY <1>1, <1>2, NodesRelate
  <1> HIDE DEF N
  <1>4. KeptOrDropped(file.meta, signed, file.meta, signed)
    BY DEF KeptOrDropped
  <1>5. ClaimHolds(Holding(file, N, file.meta), signed)
    BY <1>2, <1>3, <1>4, ClaimShaped DEF ClaimInv
  <1>6. [file EXCEPT !.paras = N] = Holding(file, N, file.meta)
    BY <1>2 DEF OfficeShapes, Holding
  <1> QED
    BY <1>1, <1>5, <1>6 DEF ClaimInv

\* Nor does an edit of a run change more of the shape than a letter.
LEMMA ClaimRunChanged ==
    ASSUME FileInv, ClaimInv, file.form = "office", NEW p \in DOMAIN Paras, NEW k \in DOMAIN Paras[p],
           NEW x \in FileRuns, <<x, file.paras[p][k]>> \in Shaping,
           NEW m, KeptOrDropped(m, signed', file.meta, signed),
           file' = Holding(file, WithRun(file.paras, p, k, x), m)
    PROVE  ClaimInv'
PROOF
  <1> DEFINE P == file.paras
             N == WithRun(P, p, k, x)
  <1>1. /\ file \in OfficeShapes /\ signed \in {Unsigned} \cup Signings /\ P \in Archives /\ Paras = P
    BY FormsApart DEF Paras, OfficeHolds
  <1>2. p \in 1..Len(P) /\ k \in 1..Len(P[p])
    BY <1>1 DEF Archives
  <1>3. <<x, P[p][k]>> \in Shaping /\ file' = Holding(file, N, m)
    OBVIOUS
  <1>4. N = [P EXCEPT ![p] = [@ EXCEPT ![k] = x]]
    BY DEF WithRun
  <1>5. \A y \in FileRuns : <<y, y>> \in Shaping
    BY RelatesItself
  <1>6. N \in Archives /\ Paired(N, P, Shaping)
    <2> HIDE DEF N, P
    <2> QED
      BY <1>1, <1>2, <1>3, <1>4, <1>5, RunReplaced
  <1>7. Paired(N, file.paras, Shaping)
    BY <1>6
  <1> HIDE DEF N, P
  <1>8. ClaimHolds(Holding(file, N, m), signed')
    BY <1>1, <1>6, <1>7, ClaimShaped DEF ClaimInv
  <1> QED
    BY <1>3, <1>8 DEF ClaimInv

\* The author's edits of an archive.
LEMMA ClaimEdited ==
    ASSUME FileInv, ClaimInv, NEW p \in DOMAIN Paras, NEW k \in DOMAIN Paras[p]
    PROVE  /\ \A i \in DOMAIN Paras[p][k].chars, letter \in {"twin", "latin"}, keeps \in BOOLEAN :
                RetypeOffice(p, k, i, letter, keeps) => ClaimInv'
           /\ \A i \in 0..Len(Paras[p][k].chars), s \in Pasted \cup References :
                PasteIntoOffice(p, k, i, s) => ClaimInv'
PROOF
  <1>0. ASSUME file.form = "office" PROVE file.paras[p][k] \in FileRuns /\ Paras = file.paras
    <2>1. file.paras \in Archives /\ Paras = file.paras
      BY <1>0, FormsApart DEF Paras
    <2>2. p \in 1..Len(file.paras) /\ file.paras[p] \in Seq(FileRuns)
      BY <2>1 DEF Archives
    <2> QED
      BY <2>1, <2>2
  <1>1. ASSUME NEW i \in DOMAIN Paras[p][k].chars, NEW letter \in {"twin", "latin"}, NEW keeps \in BOOLEAN,
               RetypeOffice(p, k, i, letter, keeps)
        PROVE  ClaimInv'
    <2> DEFINE y == file.paras[p][k]
               x == [y EXCEPT !.chars = [y.chars EXCEPT ![i] = letter]]
               m == IF keeps THEN file.meta ELSE Unsigned
    <2>1. /\ file.form = "office" /\ y.chars[i] \in {"twin", "latin"}
          /\ file' = [file EXCEPT !.paras[p][k].chars[i] = letter, !.meta = IF keeps THEN @ ELSE Unsigned]
          /\ signed' = (IF keeps THEN signed ELSE Unsigned)
      BY <1>1 DEF RetypeOffice
    <2>2. y \in FileRuns /\ i \in DOMAIN y.chars
      BY <1>0, <2>1
    <2>3. x \in FileRuns /\ <<x, y>> \in Shaping
      BY <2>1, <2>2, RetypedRun
    <2>4. file' = Holding(file, WithRun(file.paras, p, k, x), m)
      BY <2>1 DEF Holding, WithRun
    <2>5. KeptOrDropped(m, signed', file.meta, signed)
      BY <2>1 DEF KeptOrDropped
    <2> HIDE DEF x, m
    <2> QED
      BY <2>1, <2>3, <2>4, <2>5, ClaimRunChanged
  <1>2. ASSUME NEW i \in 0..Len(Paras[p][k].chars), NEW s \in Pasted \cup References,
               PasteIntoOffice(p, k, i, s)
        PROVE  ClaimInv'
    <2> DEFINE y == file.paras[p][k]
               x == [y EXCEPT !.chars = InsertAt(y.chars, i + 1, s)]
               m == file.meta
    <2>1. /\ file.form = "office" /\ signed' = signed
          /\ file' = [file EXCEPT !.paras[p][k].chars = InsertAt(@, i + 1, s)]
      BY <1>2 DEF PasteIntoOffice
    <2>2. y \in FileRuns /\ i \in 0..Len(y.chars)
      BY <1>0, <2>1
    <2>3. x \in FileRuns /\ <<x, y>> \in Shaping
      <3>1. s \in Marks \cup References
        BY FileAssumption
      <3> QED
        BY <2>2, <3>1, PastedRun
    <2>4. file' = Holding(file, WithRun(file.paras, p, k, x), m)
      <3>1. file \in OfficeShapes
        BY <2>1, FormsApart
      <3>2. file' = [file EXCEPT !.paras = [file.paras EXCEPT ![p] = [file.paras[p] EXCEPT ![k] = x]]]
        BY <2>1
      <3> HIDE DEF x
      <3> QED
        BY <3>1, <3>2 DEF OfficeShapes, Holding, WithRun
    <2>5. KeptOrDropped(m, signed', file.meta, signed)
      BY <2>1 DEF KeptOrDropped
    <2> HIDE DEF x, m
    <2> QED
      BY <2>1, <2>3, <2>4, <2>5, ClaimRunChanged
  <1> QED
    BY <1>1, <1>2

\* Every command and every edit keeps what is known of the claim.
LEMMA ClaimInvStep == FileInv /\ ClaimInv /\ [FileNext]_filevars => ClaimInv'
PROOF
  <1> SUFFICES ASSUME FileInv, ClaimInv, [FileNext]_filevars PROVE ClaimInv'
    OBVIOUS
  <1>1. ASSUME signed' = Unsigned PROVE ClaimInv'
    BY <1>1 DEF ClaimInv, ClaimHolds
  <1>2. ASSUME file.form = "text", signed' = signed PROVE ClaimInv'
    BY <1>1, <1>2, FormsApart
  <1>3. ASSUME file' = file, signed' = signed PROVE ClaimInv'
    BY <1>3 DEF ClaimInv
  <1>4. ASSUME NEW chosen \in FileSelections,
               CleanText(chosen) \/ CleanFindsNone(chosen) \/ CleanOffice(chosen)
        PROVE  ClaimInv'
    <2>1. CASE CleanText(chosen)
      BY <1>2, <2>1 DEF CleanText
    <2>2. CASE CleanFindsNone(chosen)
      BY <1>3, <2>2 DEF CleanFindsNone
    <2>3. CASE CleanOffice(chosen)
      BY <2>3, ClaimCleaned
    <2> QED
      BY <1>4, <2>1, <2>2, <2>3
  <1>5. ASSUME PristineFile PROVE ClaimInv'
    BY <1>2, <1>5 DEF PristineFile
  <1>6. ASSUME NEW c \in Carrier, NEW bits \in Secrets, ConcealFile(c, bits) PROVE ClaimInv'
    BY <1>2, <1>6 DEF ConcealFile
  <1>7. ASSUME StripFile PROVE ClaimInv'
    BY <1>1, <1>7 DEF StripFile
  <1>8. ASSUME NEW s \in Authors, SignIntoMetadata(s) PROVE ClaimInv'
    BY <1>8, ClaimMade
  <1>9. ASSUME NEW i \in DOMAIN TextChars, NEW letter \in {"twin", "latin"}, RetypeText(i, letter)
        PROVE  ClaimInv'
    BY <1>2, <1>9 DEF RetypeText, Reworded
  <1>10. ASSUME NEW k \in 0..Len(TextChars), NEW s \in Pasted, PasteIntoText(k, s) PROVE ClaimInv'
    BY <1>2, <1>10 DEF PasteIntoText, Reworded
  <1>11. ASSUME NEW p \in DOMAIN Paras, NEW k \in DOMAIN Paras[p],
               NEW i \in DOMAIN Paras[p][k].chars, NEW letter \in {"twin", "latin"}, NEW keeps \in BOOLEAN,
               RetypeOffice(p, k, i, letter, keeps)
        PROVE  ClaimInv'
    BY <1>11, ClaimEdited
  <1>12. ASSUME NEW p \in DOMAIN Paras, NEW k \in DOMAIN Paras[p],
               NEW i \in 0..Len(Paras[p][k].chars), NEW s \in Pasted \cup References,
               PasteIntoOffice(p, k, i, s)
        PROVE  ClaimInv'
    BY <1>12, ClaimEdited
  <1>13. ASSUME UNCHANGED filevars PROVE ClaimInv'
    BY <1>3, <1>13 DEF filevars
  <1> QED
    BY <1>4, <1>5, <1>6, <1>7, <1>8, <1>9, <1>10, <1>11, <1>12, <1>13 DEF FileNext

\* Of nothing, nothing is left.
LEMMA StripAllEmpty == StripAll(<<>>) = <<>>
PROOF
  <1> DEFINE e == <<>>
  <1>1. e \in Seq(Symbols)
    OBVIOUS
  <1>2. Bare(e) = <<>>
    BY OnlyAppend DEF Bare
  <1>3. Unmistaken(<<>>)
    BY DEF Unmistaken
  <1> HIDE DEF e
  <1>4. StripAll(e) = Bare(e)
    BY <1>1, <1>2, <1>3, FirmStrips
  <1> QED
    BY <1>2, <1>4 DEF e

\* Read against what is known of it, a claim tells whether the paper was edited.
LEMMA ClaimInvTells == FileInv /\ ClaimInv => ClaimTellsEdits
PROOF
  <1> SUFFICES ASSUME FileInv, ClaimInv, signed # Unsigned
               PROVE  /\ file.meta # Unsigned /\ file.meta.signer = signed.signer
                      /\ signed.firm /\ Firm(file.paras) =>
                            (Verified(file) <=> Authored(file.paras) = signed.over)
    BY DEF ClaimTellsEdits
  <1> DEFINE P == file.paras
             d == Lowered(P)
             A == Authored(P)
  <1>1. /\ OfficeHolds(file, signed, cleared) /\ P \in Archives /\ d \in Seq(Symbols)
    BY FormsApart
  <1>2. file.meta # Unsigned /\ signed \in Signings
    BY <1>1 DEF OfficeHolds
  <1>3. /\ file.meta.signer = signed.signer
        /\ Paired(A, signed.over, SegShaping)
        /\ signed.firm => file.meta.hash = LoweredOf(signed.over) /\ file.meta.hash # <<>>
    BY DEF ClaimInv, ClaimHolds
  <1>4. A \in Outlines /\ signed.over \in Outlines
    BY <1>1, <1>2, AuthoredIs DEF Signings
  <1>5. Verified(file) <=> d # <<>> /\ StripAll(d) = file.meta.hash
    BY <1>2 DEF Verified
  <1>6. Firm(P) => StripAll(d) = LoweredOf(A)
    BY <1>1, FirmReads
  <1>7. d = <<>> => StripAll(d) = <<>>
    BY StripAllEmpty
  <1> HIDE DEF P, d, A
  <1>8. ASSUME signed.firm, Firm(P) PROVE Verified(file) <=> A = signed.over
    <2>1. ASSUME Verified(file) PROVE A = signed.over
      <3>1. LoweredOf(A) = LoweredOf(signed.over)
        BY <1>3, <1>5, <1>6, <1>8, <2>1
      <3> QED
        BY <1>3, <1>4, <3>1, ShapesTell
    <2>2. ASSUME A = signed.over PROVE Verified(file)
      BY <1>3, <1>5, <1>6, <1>7, <1>8, <2>2
    <2> QED
      BY <2>1, <2>2
  <1> QED
    BY <1>2, <1>3, <1>8 DEF P, A

\* The claim an archive carries is the last one made, and stands exactly when the
\* author's text and its format are what it was made over, whatever was cleaned of
\* the file and pasted into it since, where marks stand firm and no letter is in doubt.
THEOREM ClaimsTellEdits == FileSpec => []ClaimTellsEdits
PROOF
  <1>1. FileInit => ClaimInv
    BY DEF FileInit, ClaimInv, ClaimHolds
  <1>2. FileInv /\ ClaimInv /\ [FileNext]_filevars => ClaimInv'
    BY ClaimInvStep
  <1>3. FileSpec => []ClaimInv
    <2>1. FileSpec => FileInit /\ [][FileNext]_filevars
      BY DEF FileSpec
    <2> QED
      BY <1>1, <1>2, <2>1, FileAlways, PTL
  <1> QED
    BY <1>3, FileAlways, ClaimInvTells, PTL

=============================================================================
