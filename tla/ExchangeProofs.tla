---------------------------- MODULE ExchangeProofs ----------------------------
(***************************************************************************)
(* Proofs about what passes between people.  About Exchange, for every set *)
(* of ciphers, passcodes, recipients, selections, notes and names: who is  *)
(* given what, and what vouches for it, the two keystream ciphers included.*)
(* About WordMarks, for every table of synonyms, pattern, whitening and    *)
(* document: a signature reads back, and stands as long as the words and   *)
(* pieces of words that carry it do.                                       *)
(***************************************************************************)
EXTENDS Exchange, WordMarks, SequenceTheorems, FiniteSetTheorems, FunctionTheorems,
        WellFoundedInduction, TLAPS

-----------------------------------------------------------------------------
(* What the values of the module are made of, by how far they are wrapped. *)

Files == {File(size) : size \in {"empty", "small", "large"}}
Pressed == Files \cup {Compressed(v) : v \in Files}
Packs == Pressed \cup {Compressed(v) : v \in Pressed}

Syntax == {"open", "bar", "close", "word"}
TokensOf(S) == {Token(k) : k \in Syntax} \cup {Data(v) : v \in S}
TextsOf(S) == {Note(s) : s \in Seq(TokensOf(S))}

\* Notes that may still be wrapped, before anything else was.
Texts == TextsOf(Pressed)

Masked(p, v) == [is |-> "streamed", keys |-> KeyOver(p, v), of |-> v]

Boxed == Packs \cup {Note(<<>>)}
    \cup {Ciphered(c, p, v) : c \in Ciphers, p \in Passcode, v \in Pressed \cup Texts}
    \cup {Masked(p, v) : p \in Passcode, v \in {u \in Pressed \cup Texts : ~Void(u)}}
    \cup {Sealed(r, v) : r \in Recipient, v \in Texts}
Notes == TextsOf(Boxed)
Benched == Boxed \cup Notes
Sendable == Benched \cup {Sealed(r, v) : r \in Recipient, v \in Benched}

\* A text wraps what is attached in it.
LEMMA TextsWrap ==
    ASSUME NEW S, NEW v \in TextsOf(S)
    PROVE  Wrapped(v) \subseteq S /\ IsText(v) /\ \E s \in Seq(TokensOf(S)) : v = Note(s)
PROOF
  <1>1. PICK s \in Seq(TokensOf(S)) : v = Note(s)
    BY DEF TextsOf
  <1>2. SUFFICES ASSUME NEW t \in Range(s), t.tok = "data" PROVE t.of \in S
    BY <1>1 DEF Note, Wrapped, IsText
  <1>3. t \in TokensOf(S)
    BY <1>2 DEF Range
  <1> QED
    BY <1>2, <1>3 DEF TokensOf, Syntax, Token, Data

\* Less is fewer texts.
LEMMA FewerTexts ==
    ASSUME NEW S, NEW U, S \subseteq U
    PROVE  TokensOf(S) \subseteq TokensOf(U) /\ TextsOf(S) \subseteq TextsOf(U)
PROOF
  <1>1. TokensOf(S) \subseteq TokensOf(U)
    BY DEF TokensOf
  <1>2. \A s \in Seq(TokensOf(S)) : s \in Seq(TokensOf(U))
    BY <1>1
  <1> QED
    BY <1>1, <1>2 DEF TextsOf

\* The kinds of values lie in one another, and are told apart by what they are.
LEMMA KindsOfValues ==
    /\ Files \subseteq Pressed /\ Pressed \subseteq Packs /\ Packs \subseteq Boxed
    /\ Texts \subseteq Notes /\ Boxed \subseteq Benched /\ Notes \subseteq Benched
    /\ Benched \subseteq Sendable /\ Note(<<>>) \in Texts
    /\ \A v \in Packs : v.is \in {"file", "compressed"}
    /\ \A v \in Sendable :
          v.is \in {"text", "file", "compressed", "protected", "streamed", "sealed"}
    /\ \A v \in Sendable : v.is = "streamed" =>
          /\ v.of \in Pressed \cup Texts /\ v.of.is # "streamed" /\ ~Void(v.of)
          /\ \E p \in Passcode : v = Masked(p, v.of)
PROOF
  <1>1. Files \subseteq Pressed /\ Pressed \subseteq Packs /\ Packs \subseteq Boxed
    BY DEF Pressed, Packs, Boxed
  <1>2. Texts \subseteq Notes /\ Boxed \subseteq Benched /\ Notes \subseteq Benched
        /\ Benched \subseteq Sendable
    BY <1>1, FewerTexts DEF Texts, Notes, Benched, Sendable
  <1>3. Note(<<>>) \in Texts
    <2> <<>> \in Seq(TokensOf(Pressed))
      OBVIOUS
    <2> QED
      BY DEF Texts, TextsOf
  <1>4. \A v \in Packs : v.is \in {"file", "compressed"}
    BY DEF Packs, Pressed, Files, File, Compressed
  <1>5. \A v \in Texts \cup Notes : v.is = "text"
    BY TextsWrap DEF Texts, Notes, IsText
  <1>6. \A v \in Pressed \cup Texts : v.is # "streamed"
    BY <1>1, <1>4, <1>5
  <1>7. ASSUME NEW v \in Benched
        PROVE  /\ v.is \in {"text", "file", "compressed", "protected", "streamed", "sealed"}
               /\ v.is = "streamed" => /\ v.of \in Pressed \cup Texts /\ v.of.is # "streamed"
                                       /\ ~Void(v.of)
                                       /\ \E p \in Passcode : v = Masked(p, v.of)
    <2>1. CASE v \in Packs \cup Notes \cup Texts
      BY <2>1, <1>4, <1>5
    <2>2. CASE \E c \in Ciphers, p \in Passcode, u \in Pressed \cup Texts : v = Ciphered(c, p, u)
      BY <2>2 DEF Ciphered
    <2>3. CASE \E p \in Passcode, u \in Pressed \cup Texts : v = Masked(p, u) /\ ~Void(u)
      BY <2>3, <1>6 DEF Masked
    <2>4. CASE \E r \in Recipient, u \in Texts : v = Sealed(r, u)
      BY <2>4 DEF Sealed
    <2> QED
      BY <2>1, <2>2, <2>3, <2>4, <1>3 DEF Benched, Boxed
  <1>8. ASSUME NEW v \in Sendable, v \notin Benched PROVE v.is = "sealed"
    BY <1>8 DEF Sendable, Sealed
  <1> QED
    BY <1>1, <1>2, <1>3, <1>4, <1>7, <1>8

\* Each wrapping taken off leaves a value of a shallower kind.
LEMMA FewerWrappings ==
    /\ \A v \in Files : Wrapped(v) = {}
    /\ \A v \in Pressed : Wrapped(v) \subseteq Files
    /\ \A v \in Pressed \cup Texts : Wrapped(v) \subseteq Pressed
    /\ \A v \in Boxed \cup Texts : Wrapped(v) \subseteq Pressed \cup Texts
    /\ \A v \in Benched : Wrapped(v) \subseteq Boxed \cup Texts
    /\ \A v \in Sendable : Wrapped(v) \subseteq Benched
PROOF
  <1>1. \A v \in Files : Wrapped(v) = {}
    BY DEF Files, File, Wrapped, IsText
  <1>2. \A v \in Pressed : Wrapped(v) \subseteq Files
    BY <1>1 DEF Pressed, Compressed, Wrapped, IsText
  <1>3. \A v \in Pressed \cup Texts : Wrapped(v) \subseteq Pressed
    BY <1>2, KindsOfValues, TextsWrap DEF Texts
  <1>4. ASSUME NEW v \in Boxed \cup Texts PROVE Wrapped(v) \subseteq Pressed \cup Texts
    <2>1. CASE v \in Pressed \cup Texts
      BY <2>1, <1>3
    <2>2. CASE \E u \in Pressed : v = Compressed(u)
      BY <2>2 DEF Compressed, Wrapped, IsText
    <2>3. CASE \E c \in Ciphers, p \in Passcode, u \in Pressed \cup Texts : v = Ciphered(c, p, u)
      BY <2>3 DEF Ciphered, Wrapped, IsText
    <2>4. CASE \E p \in Passcode, u \in Pressed \cup Texts : v = Masked(p, u) /\ ~Void(u)
      BY <2>4 DEF Masked, Wrapped, IsText
    <2>5. CASE \E r \in Recipient, u \in Texts : v = Sealed(r, u)
      BY <2>5 DEF Sealed, Wrapped, IsText
    <2> QED
      BY <2>1, <2>2, <2>3, <2>4, <2>5, KindsOfValues DEF Boxed, Packs
  <1>5. \A v \in Benched : Wrapped(v) \subseteq Boxed \cup Texts
    BY <1>4, KindsOfValues, TextsWrap DEF Benched, Notes
  <1>6. ASSUME NEW v \in Sendable PROVE Wrapped(v) \subseteq Benched
    <2>1. CASE v \in Benched
      BY <2>1, <1>5, KindsOfValues
    <2>2. CASE \E r \in Recipient, u \in Benched : v = Sealed(r, u)
      BY <2>2 DEF Sealed, Wrapped, IsText
    <2> QED
      BY <2>1, <2>2 DEF Sendable
  <1> QED
    BY <1>1, <1>2, <1>3, <1>4, <1>5, <1>6

\* All that is wrapped in a value that can be sent is among its stages: no
\* writer wraps further than five deep.
LEMMA StagesAreAll ==
    ASSUME NEW v \in Sendable, NEW u \in Stages(v)
    PROVE  u \in Sendable /\ Wrapped(u) \subseteq Stages(v)
PROOF
  <1> DEFINE one == Further({v})
             two == Further(one)
             three == Further(two)
             four == Further(three)
             five == Further(four)
  <1>1. Stages(v) = five
    BY DEF Stages
  <1>2. \A w \in one : w = v \/ w \in Benched
    BY FewerWrappings DEF Further
  <1>3. one \subseteq two /\ \A w \in two : w \in one \/ w \in Boxed \cup Texts
    <2>1. \A w \in two : w \in one \/ \E x \in one : w \in Wrapped(x)
      BY DEF Further
    <2>2. \A x \in one : \A w \in Wrapped(x) : w \in one \/ w \in Boxed \cup Texts
      BY <1>2, FewerWrappings DEF Further
    <2> QED
      BY <2>1, <2>2 DEF Further
  <1>4. two \subseteq three /\ \A w \in three : w \in two \/ w \in Pressed \cup Texts
    <2>1. \A w \in three : w \in two \/ \E x \in two : w \in Wrapped(x)
      BY DEF Further
    <2>2. \A x \in one : Wrapped(x) \subseteq two
      BY DEF Further
    <2>3. \A x \in two : \A w \in Wrapped(x) : w \in two \/ w \in Pressed \cup Texts
      BY <1>3, <2>2, FewerWrappings
    <2> QED
      BY <2>1, <2>3 DEF Further
  <1>5. three \subseteq four /\ \A w \in four : w \in three \/ w \in Pressed
    <2>1. \A w \in four : w \in three \/ \E x \in three : w \in Wrapped(x)
      BY DEF Further
    <2>2. \A x \in two : Wrapped(x) \subseteq three
      BY DEF Further
    <2>3. \A x \in three : \A w \in Wrapped(x) : w \in three \/ w \in Pressed
      BY <1>4, <2>2, FewerWrappings
    <2> QED
      BY <2>1, <2>3 DEF Further
  <1>6. four \subseteq five /\ \A w \in five : w \in four \/ w \in Files
    <2>1. \A w \in five : w \in four \/ \E x \in four : w \in Wrapped(x)
      BY DEF Further
    <2>2. \A x \in three : Wrapped(x) \subseteq four
      BY DEF Further
    <2>3. \A x \in four : \A w \in Wrapped(x) : w \in four \/ w \in Files
      BY <1>5, <2>2, FewerWrappings
    <2> QED
      BY <2>1, <2>3 DEF Further
  <1>7. Wrapped(u) \subseteq five
    <2>1. \A x \in four : Wrapped(x) \subseteq five
      BY DEF Further
    <2> QED
      BY <1>1, <1>6, <2>1, FewerWrappings
  <1>8. u \in Sendable
    <2> HIDE DEF one, two, three, four, five
    <2> QED
      BY <1>1, <1>2, <1>3, <1>4, <1>5, <1>6, KindsOfValues
  <1> QED
    BY <1>1, <1>7, <1>8

-----------------------------------------------------------------------------
(* What the keystreams do.                                                 *)

\* Bytes are under each keystream once, and nothing streamed is below them.
Tidy(v) == v = Streamed(StreamsOf(v), Below(v)) /\ Below(v).is # "streamed"

\* What is put under keystreams is so far under those.
LEMMA StreamedIsTidy ==
    ASSUME NEW b, b.is # "streamed", NEW K
    PROVE  /\ Tidy(Streamed(K, b))
           /\ StreamsOf(Streamed(K, b)) = K /\ Below(Streamed(K, b)) = b
PROOF
  <1>1. CASE K = {}
    BY <1>1 DEF Streamed, StreamsOf, Below, Tidy
  <1>2. CASE K # {}
    <2>1. Streamed(K, b) = [is |-> "streamed", keys |-> K, of |-> b]
      BY <1>2 DEF Streamed
    <2>2. StreamsOf(Streamed(K, b)) = K /\ Below(Streamed(K, b)) = b
      BY <2>1 DEF StreamsOf, Below
    <2> QED
      BY <2>2 DEF Tidy
  <1> QED
    BY <1>1, <1>2

\* A cipher of the kind changes what a value is under and nothing below, and how
\* far a passcode reaches is the same before and after it.
LEMMA MixedIsTidy ==
    ASSUME NEW v, Tidy(v), NEW p
    PROVE  /\ Tidy(Mixed(p, v)) /\ Below(Mixed(p, v)) = Below(v)
           /\ StreamsOf(Mixed(p, v)) = SymDiff(StreamsOf(v), KeyOver(p, v))
           /\ \A q : KeyOver(q, Mixed(p, v)) = KeyOver(q, v)
PROOF
  <1>1. /\ Tidy(Mixed(p, v)) /\ Below(Mixed(p, v)) = Below(v)
        /\ StreamsOf(Mixed(p, v)) = SymDiff(StreamsOf(v), KeyOver(p, v))
    BY StreamedIsTidy DEF Mixed, Tidy
  <1> QED
    BY <1>1 DEF KeyOver

\* The same twice is nothing.
LEMMA MixedTwice ==
    ASSUME NEW v, Tidy(v), NEW p
    PROVE  Mixed(p, Mixed(p, v)) = v
PROOF
  <1>1. StreamsOf(Mixed(p, Mixed(p, v))) = StreamsOf(v)
    BY MixedIsTidy DEF SymDiff
  <1>2. Tidy(Mixed(p, Mixed(p, v))) /\ Below(Mixed(p, Mixed(p, v))) = Below(v)
    BY MixedIsTidy
  <1> QED
    BY <1>1, <1>2 DEF Tidy

\* Over one value every passcode has a keystream of one key, or none has any.
LEMMA OneKey ==
    ASSUME NEW v, NEW p, NEW q
    PROVE  KeyOver(p, v) \subseteq KeyOver(q, v) => KeyOver(p, v) = KeyOver(q, v)
BY DEF KeyOver

\* What can be sent is tidy, and what is below it can be sent as well.
LEMMA SendableIsTidy ==
    ASSUME NEW v \in Sendable
    PROVE  /\ Tidy(v) /\ Below(v) \in Sendable
           /\ Below(v) = v \/ Below(v) \in Wrapped(v)
PROOF
  <1>1. CASE v.is # "streamed"
    BY <1>1 DEF Tidy, Streamed, StreamsOf, Below
  <1>2. CASE v.is = "streamed"
    <2>1. PICK p \in Passcode : v = Masked(p, v.of)
      BY <1>2, KindsOfValues
    <2>2. v.of \in Sendable /\ v.of.is # "streamed" /\ ~Void(v.of) /\ v.of # Noise
      BY <1>2, KindsOfValues DEF Noise
    <2>3. StreamsOf(v) = v.keys /\ Below(v) = v.of
      BY <1>2 DEF StreamsOf, Below
    <2>4. KeyOver(p, v.of) # {}
      BY <2>2 DEF KeyOver, Below
    <2>5. v = Streamed(v.keys, v.of)
      BY <2>1, <2>4 DEF Masked, Streamed
    <2>6. v.of \in Wrapped(v)
      BY <1>2 DEF Wrapped, IsText
    <2> QED
      BY <2>2, <2>3, <2>5, <2>6 DEF Tidy
  <1> QED
    BY <1>1, <1>2

-----------------------------------------------------------------------------
(* Attachments: what comes out of a note was in it.                        *)

\* A set of natural numbers that has an element has a least one.
LEMMA Least ==
    ASSUME NEW S \in SUBSET Nat, NEW x \in S
    PROVE  \E m \in S : \A k \in S : m <= k
PROOF
  <1>1. IsWellFoundedOn(OpToRel(<, Nat), Nat)
    BY NatLessThanWellFounded
  <1>2. PICK m \in S : \A k \in S : ~(<<k, m>> \in OpToRel(<, Nat))
    BY <1>1, WFMin, Zenon
  <1>3. ASSUME NEW k \in S PROVE m <= k
    <2>1. k \in Nat /\ m \in Nat
      OBVIOUS
    <2>2. ~(<<k, m>> \in OpToRel(<, Nat))
      BY <1>2
    <2>3. OpToRel(<, Nat) = {ss \in Nat \X Nat : ss[1] < ss[2]}
      BY DEF OpToRel
    <2>4. ~(k < m)
      BY <2>1, <2>2, <2>3
    <2> QED
      BY <2>1, <2>4
  <1> QED
    BY <1>3

\* What is looked for is found where it is, or nowhere.
LEMMA FirstIsThere ==
    ASSUME NEW T, NEW s \in Seq(T), NEW from \in Nat \ {0}, NEW k
    PROVE  \/ FirstOf(k, s, from) = 0
           \/ /\ FirstOf(k, s, from) \in from..Len(s)
              /\ s[FirstOf(k, s, from)].tok = k
PROOF
  <1> DEFINE found == {i \in from..Len(s) : s[i].tok = k}
  <1>1. CASE found = {}
    BY <1>1 DEF FirstOf
  <1>2. CASE found # {}
    <2>1. found \in SUBSET Nat
      OBVIOUS
    <2>2. \E m \in found : \A j \in found : m <= j
      BY <1>2, <2>1, Least
    <2>3. Min(found) \in found
      BY <2>2 DEF Min
    <2>4. FirstOf(k, s, from) = Min(found)
      BY <1>2 DEF FirstOf
    <2> QED
      BY <2>3, <2>4
  <1> QED
    BY <1>1, <1>2

\* A block opens from the place it is looked for and closes behind its opening.
LEMMA BlockPlaces ==
    ASSUME NEW T, NEW s \in Seq(T), NEW from \in Nat \ {0}, NEW b, b = NextBlock(s, from)
    PROVE  \/ b = <<0, 0>>
           \/ /\ b[1] \in Nat /\ b[2] \in Nat
              /\ from <= b[1] /\ b[1] < b[2] /\ b[2] <= Len(s)
PROOF
  <1> DEFINE o == FirstOf("open", s, from)
             c == FirstOf("close", s, o + 1)
  <1>1. o = 0 \/ o \in from..Len(s)
    BY FirstIsThere
  <1>2. o \in Nat /\ o + 1 \in Nat \ {0}
    BY <1>1
  <1>3. c = 0 \/ c \in (o + 1)..Len(s)
    BY <1>2, FirstIsThere
  <1>4. b = IF o = 0 \/ c = 0 THEN <<0, 0>> ELSE <<o, c>>
    BY DEF NextBlock
  <1> HIDE DEF o, c
  <1> QED
    BY <1>1, <1>2, <1>3, <1>4

Repeats(g, T, F, s, last) ==
    /\ g \in [0..last -> T]
    /\ \A n \in 0..last : g[n] = IF n = 0 THEN s ELSE F[g[n - 1]]

\* A step taken over and over again from a start is a function of how often.
LEMMA Repeated ==
    ASSUME NEW T, NEW F \in [T -> T], NEW s \in T, NEW last \in Nat
    PROVE  \E g : Repeats(g, T, F, s, last)
PROOF
  <1> DEFINE Goes(l) == \E g : Repeats(g, T, F, s, l)
             fails == {l \in Nat : ~Goes(l)}
  <1>1. SUFFICES ASSUME fails # {} PROVE FALSE
    OBVIOUS
  <1>2. PICK l \in fails : \A k \in fails : l <= k
    <2>1. fails \in SUBSET Nat
      OBVIOUS
    <2> QED
      BY <1>1, <2>1, Least
  <1>3. l # 0
    <2>1. [n \in 0..0 |-> s] \in [0..0 -> T]
      OBVIOUS
    <2> DEFINE h == [n \in 0..0 |-> s]
    <2>2. \A n \in 0..0 : h[n] = IF n = 0 THEN s ELSE F[h[n - 1]]
      OBVIOUS
    <2> HIDE DEF h
    <2>3. Goes(0)
      BY <2>1, <2>2 DEF h, Repeats
    <2> QED
      BY <2>3, <1>2
  <1>4. Goes(l - 1)
    BY <1>2, <1>3
  <1>5. PICK g : Repeats(g, T, F, s, l - 1)
    BY <1>4
  <1>6. Goes(l)
    <2> DEFINE h == [n \in 0..l |-> IF n = l THEN F[g[l - 1]] ELSE g[n]]
    <2>1. l \in Nat /\ l - 1 \in 0..(l - 1) /\ g \in [0..(l - 1) -> T]
      BY <1>2, <1>3, <1>5 DEF Repeats
    <2>2. h \in [0..l -> T]
      <3>1. F[g[l - 1]] \in T
        BY <2>1
      <3>2. \A n \in 0..l : n # l => g[n] \in T
        BY <2>1
      <3> QED
        BY <3>1, <3>2, Zenon
    <2>3. ASSUME NEW n \in 0..l
          PROVE  h[n] = IF n = 0 THEN s ELSE F[h[n - 1]]
      <3>1. CASE n = l
        <4>1. h[n] = F[g[l - 1]] /\ h[n - 1] = g[l - 1]
          BY <3>1, <2>1
        <4> QED
          BY <4>1, <3>1, <1>3
      <3>2. CASE n # l
        <4>1. n \in 0..(l - 1) /\ h[n] = g[n]
          BY <3>2, <2>1
        <4>2. n # 0 => n - 1 \in 0..l /\ n - 1 # l /\ h[n - 1] = g[n - 1]
          BY <4>1, <2>1
        <4>3. g[n] = IF n = 0 THEN s ELSE F[g[n - 1]]
          BY <4>1, <1>5 DEF Repeats
        <4> HIDE DEF h
        <4> QED
          BY <4>1, <4>2, <4>3
      <3> QED
        BY <3>1, <3>2
    <2> HIDE DEF h
    <2> QED
      BY <2>2, <2>3 DEF Repeats
  <1> QED
    BY <1>2, <1>6

\* A text without its first block.
Without(t) ==
    LET block == NextBlock(t, 1)
    IN IF block[1] = 0 THEN t
       ELSE SubSeq(t, 1, block[1] - 1) \o SubSeq(t, block[2] + 1, Len(t))

\* It is a text of the same tokens.
LEMMA WithoutKeeps ==
    ASSUME NEW T, NEW t \in Seq(T) PROVE Without(t) \in Seq(T)
PROOF
  <1> DEFINE b == NextBlock(t, 1)
  <1>1. CASE b[1] = 0
    BY <1>1 DEF Without
  <1>2. CASE b[1] # 0
    <2>1. /\ b[1] \in Nat /\ b[2] \in Nat
          /\ 1 <= b[1] /\ b[1] < b[2] /\ b[2] <= Len(t)
      BY <1>2, BlockPlaces
    <2>2. Len(t) \in Nat /\ \A i \in 1..Len(t) : t[i] \in T
      OBVIOUS
    <2> HIDE DEF b
    <2>3. /\ SubSeq(t, 1, b[1] - 1) \in Seq(T) /\ SubSeq(t, b[2] + 1, Len(t)) \in Seq(T)
      BY <2>1, <2>2, SubSeqProperties
    <2>4. SubSeq(t, 1, b[1] - 1) \o SubSeq(t, b[2] + 1, Len(t)) \in Seq(T)
      BY <2>3
    <2> QED
      BY <2>4, <1>2 DEF b, Without
  <1> QED
    BY <1>1, <1>2

Runs(h, s) == h = [n \in 0..Len(s) |-> IF n = 0 THEN s ELSE Without(h[n - 1])]

\* Detaching takes the first block out over and over again.
LEMMA DetachRuns ==
    ASSUME NEW T, NEW s \in Seq(T)
    PROVE  \E h : Runs(h, s) /\ Detach(s) = h[Len(s)]
PROOF
  <1> DEFINE F == [t \in Seq(T) |-> Without(t)]
  <1>1. F \in [Seq(T) -> Seq(T)]
    BY WithoutKeeps
  <1>2. PICK g : Repeats(g, Seq(T), F, s, Len(s))
    <2>1. Len(s) \in Nat
      OBVIOUS
    <2> HIDE DEF F
    <2> QED
      BY <1>1, <2>1, Repeated
  <1>3. \A n \in 0..Len(s) : n # 0 => g[n - 1] \in Seq(T)
    <2> DEFINE last == Len(s)
    <2>1. g \in [0..last -> Seq(T)] /\ last \in Nat
      BY <1>2 DEF Repeats
    <2> HIDE DEF last
    <2>2. \A n \in 0..last : n # 0 => n - 1 \in 0..last
      BY <2>1
    <2>3. \A n \in 0..last : n # 0 => g[n - 1] \in Seq(T)
      BY <2>1, <2>2, Zenon
    <2> QED
      BY <2>3 DEF last
  <1>4. Runs(g, s)
    <2>1. \A n \in 0..Len(s) : g[n] = IF n = 0 THEN s ELSE Without(g[n - 1])
      BY <1>2, <1>3 DEF Repeats
    <2>2. g = [n \in 0..Len(s) |-> g[n]]
      BY <1>2 DEF Repeats
    <2> QED
      BY <2>1, <2>2 DEF Runs
  <1>5. Detach(s) = (CHOOSE h : Runs(h, s))[Len(s)]
    BY DEF Detach, Without, Runs
  <1> QED
    BY <1>4, <1>5

\* Taking the blocks out of a text leaves tokens of the text.
LEMMA DetachKeeps ==
    ASSUME NEW T, NEW s \in Seq(T) PROVE Detach(s) \in Seq(T)
PROOF
  <1>1. PICK h : Runs(h, s) /\ Detach(s) = h[Len(s)]
    BY DetachRuns
  <1> DEFINE fails == {n \in 0..Len(s) : h[n] \notin Seq(T)}
  <1>2. SUFFICES ASSUME fails # {} PROVE FALSE
    BY <1>1
  <1>3. PICK n \in fails : \A k \in fails : n <= k
    <2>1. fails \in SUBSET Nat
      OBVIOUS
    <2> QED
      BY <1>2, <2>1, Least
  <1>4. h[n] = IF n = 0 THEN s ELSE Without(h[n - 1])
    BY <1>1, <1>3 DEF Runs
  <1>5. n # 0 => h[n - 1] \in Seq(T)
    BY <1>3
  <1> QED
    BY <1>3, <1>4, <1>5, WithoutKeeps

\* What a file read out of a note may be.
Slips(s) == [name : Seq(Range(s)), data : Wrapped(Note(s))]

\* What a block holds was data in the text.
LEMMA FileIsWrapped ==
    ASSUME NEW T, NEW s \in Seq(T), NEW b, b[1] \in Nat, b[2] \in Nat, b[1] < b[2], b[2] <= Len(s)
    PROVE  FileIn(s, b) \in Seq(Slips(s))
PROOF
  <1> DEFINE bar == FirstOf("bar", SubSeq(s, 1, b[2]), b[1] + 1)
             name == SubSeq(s, b[1] + 1, bar - 1)
             data == SubSeq(s, bar + 1, b[2] - 1)
  <1>1. FileIn(s, b) = IF bar # 0 /\ Kinds(data) = <<"data">>
                       THEN <<[name |-> name, data |-> data[1].of]>> ELSE <<>>
    BY DEF FileIn
  <1>2. SUFFICES ASSUME bar # 0, Kinds(data) = <<"data">>
                 PROVE  name \in Seq(Range(s)) /\ data[1].of \in Wrapped(Note(s))
    <2> HIDE DEF bar, name, data
    <2>1. CASE bar # 0 /\ Kinds(data) = <<"data">>
      <3>1. [name |-> name, data |-> data[1].of] \in Slips(s)
        BY <2>1, <1>2 DEF Slips
      <3> QED
        BY <2>1, <3>1, <1>1
    <2>2. CASE ~(bar # 0 /\ Kinds(data) = <<"data">>)
      BY <2>2, <1>1
    <2> QED
      BY <2>1, <2>2
  <1>3. Len(s) \in Nat /\ \A i \in 1..Len(s) : s[i] \in Range(s)
    BY DEF Range
  <1>4. bar \in Nat /\ bar > b[1] /\ bar <= b[2]
    <2>1. /\ SubSeq(s, 1, b[2]) \in Seq(Range(s)) /\ Len(SubSeq(s, 1, b[2])) = b[2]
      BY <1>3, SubSeqProperties
    <2>2. b[1] + 1 \in Nat \ {0}
      OBVIOUS
    <2>3. bar = 0 \/ bar \in (b[1] + 1)..b[2]
      BY <2>1, <2>2, FirstIsThere
    <2> QED
      BY <1>2, <2>3
  <1> HIDE DEF bar
  <1>5. name \in Seq(Range(s))
    BY <1>3, <1>4, SubSeqProperties
  <1>6. /\ data \in Seq(Range(s))
        /\ Len(data) = IF bar + 1 <= b[2] - 1 THEN b[2] - 1 - bar ELSE 0
        /\ \A i \in 1..(b[2] - 1 - bar) : data[i] = s[bar + i]
    <2>1. /\ bar + 1 \in Int /\ b[2] - 1 \in Int
          /\ \A i \in (bar + 1)..(b[2] - 1) : s[i] \in Range(s)
      BY <1>3, <1>4
    <2>2. /\ data \in Seq(Range(s))
          /\ Len(data) = IF bar + 1 <= b[2] - 1 THEN (b[2] - 1) - (bar + 1) + 1 ELSE 0
          /\ \A i \in 1..((b[2] - 1) - (bar + 1) + 1) : data[i] = s[(bar + 1) + i - 1]
      BY <2>1, SubSeqProperties, SMTT(40)
    <2> QED
      BY <2>2, <1>4, SMTT(40)
  <1> HIDE DEF data, name
  <1>7. 1 \in DOMAIN data /\ data[1].tok = "data"
    <2>1. Kinds(data)[1] = "data" /\ 1 \in DOMAIN Kinds(data)
      BY <1>2
    <2> QED
      BY <2>1 DEF Kinds
  <1>8. data[1] \in Range(s)
    BY <1>6, <1>7
  <1> QED
    BY <1>5, <1>7, <1>8 DEF Wrapped, Note, IsText

\* What the text from some place on gives is told from the places behind it.
Taken(g, s, from) ==
    /\ g \in [from..(Len(s) + 1) -> Seq(Slips(s))]
    /\ \A p \in from..(Len(s) + 1) :
          g[p] = LET block == NextBlock(s, p) IN
                 IF block[1] = 0 THEN <<>> ELSE FileIn(s, block) \o g[block[2] + 1]

\* Taken from every place to the end, the blocks are well defined.
LEMMA BlocksInTurn ==
    ASSUME NEW T, NEW s \in Seq(T)
    PROVE  \E g : Taken(g, s, 1)
PROOF
  <1> DEFINE last == Len(s) + 1
             fails == {n \in Nat : n <= Len(s) /\ ~ \E g : Taken(g, s, last - n)}
  <1>0. Len(s) \in Nat /\ last \in Nat \ {0} /\ last = Len(s) + 1
    OBVIOUS
  <1>1. ASSUME NEW n \in fails, \A k \in fails : n <= k PROVE FALSE
    <2> DEFINE p == last - n
    <2>1. n \in Nat /\ p \in Nat \ {0} /\ p <= last /\ n <= Len(s)
      BY <1>1, <1>0
    <2>2. \E g : /\ g \in [(p + 1)..last -> Seq(Slips(s))]
                 /\ \A q \in (p + 1)..last :
                       g[q] = LET block == NextBlock(s, q) IN
                              IF block[1] = 0 THEN <<>> ELSE FileIn(s, block) \o g[block[2] + 1]
      <3>1. CASE n = 0
        <4> DEFINE g == [q \in (p + 1)..last |-> <<>>]
        <4>1. (p + 1)..last = {}
          BY <3>1, <2>1
        <4>2. g \in [(p + 1)..last -> Seq(Slips(s))]
          BY <4>1
        <4> HIDE DEF g, p, last
        <4> QED
          BY <4>1, <4>2
      <3>2. CASE n # 0
        <4>1. n - 1 \in Nat /\ n - 1 <= Len(s) /\ n - 1 \notin fails
          BY <3>2, <2>1, <1>1
        <4>2. PICK g : Taken(g, s, last - (n - 1))
          BY <4>1
        <4>3. last - (n - 1) = p + 1
          BY <2>1, <1>0
        <4> HIDE DEF p
        <4> QED
          BY <4>2, <4>3, <1>0 DEF Taken
      <3> QED
        BY <3>1, <3>2
    <2>3. PICK g : /\ g \in [(p + 1)..last -> Seq(Slips(s))]
                   /\ \A q \in (p + 1)..last :
                         g[q] = LET block == NextBlock(s, q) IN
                                IF block[1] = 0 THEN <<>> ELSE FileIn(s, block) \o g[block[2] + 1]
      BY <2>2
    <2> DEFINE blk(q) == NextBlock(s, q)
               here == IF blk(p)[1] = 0 THEN <<>> ELSE FileIn(s, blk(p)) \o g[blk(p)[2] + 1]
               h == [q \in p..last |-> IF q = p THEN here ELSE g[q]]
    <2>4. ASSUME NEW q \in p..last, blk(q)[1] # 0
          PROVE  /\ blk(q)[1] \in Nat /\ blk(q)[2] \in Nat /\ blk(q)[1] < blk(q)[2]
                 /\ blk(q)[2] <= Len(s) /\ blk(q)[2] + 1 \in (q + 1)..last
      <3>1. q \in Nat \ {0} /\ q >= p
        BY <2>1
      <3>2. /\ blk(q)[1] \in Nat /\ blk(q)[2] \in Nat
            /\ q <= blk(q)[1] /\ blk(q)[1] < blk(q)[2] /\ blk(q)[2] <= Len(s)
        BY <3>1, <2>4, BlockPlaces
      <3> HIDE DEF blk
      <3> QED
        BY <3>1, <3>2, <1>0
    <2> HIDE DEF blk, p, last
    <2>5. here \in Seq(Slips(s))
      <3>1. CASE blk(p)[1] = 0
        BY <3>1
      <3>2. CASE blk(p)[1] # 0
        <4>1. p \in p..last
          BY <2>1, <1>0
        <4>2. /\ blk(p)[1] \in Nat /\ blk(p)[2] \in Nat /\ blk(p)[1] < blk(p)[2]
              /\ blk(p)[2] <= Len(s) /\ blk(p)[2] + 1 \in (p + 1)..last
          BY <4>1, <3>2, <2>4
        <4>3. FileIn(s, blk(p)) \in Seq(Slips(s))
          BY <4>2, FileIsWrapped
        <4>4. g[blk(p)[2] + 1] \in Seq(Slips(s))
          BY <4>2, <2>3
        <4> QED
          BY <4>3, <4>4, <3>2
      <3> QED
        BY <3>1, <3>2
    <2> HIDE DEF here
    <2>6. \A q \in p..last : q # p => q \in (p + 1)..last
      BY <2>1, <1>0
    <2>7. h \in [p..last -> Seq(Slips(s))]
      <3>1. \A q \in p..last : q # p => g[q] \in Seq(Slips(s))
        BY <2>6, <2>3, Zenon
      <3> QED
        BY <3>1, <2>5, Zenon
    <2>8. ASSUME NEW q \in p..last
          PROVE  h[q] = IF blk(q)[1] = 0 THEN <<>> ELSE FileIn(s, blk(q)) \o h[blk(q)[2] + 1]
      <3>1. CASE blk(q)[1] = 0
        <4>1. h[q] = IF q = p THEN here ELSE g[q]
          OBVIOUS
        <4>2. q = p => here = <<>>
          BY <3>1 DEF here
        <4>3. q # p => g[q] = <<>>
          BY <2>6, <2>3, <3>1 DEF blk
        <4> QED
          BY <4>1, <4>2, <4>3, <3>1
      <3>2. CASE blk(q)[1] # 0
        <4>1. blk(q)[2] + 1 \in (q + 1)..last
          BY <2>4, <3>2
        <4>2. blk(q)[2] + 1 \in p..last /\ blk(q)[2] + 1 # p
          BY <4>1, <2>1, <1>0
        <4>3. h[blk(q)[2] + 1] = g[blk(q)[2] + 1]
          BY <4>2, Zenon
        <4>4. q = p => here = FileIn(s, blk(q)) \o g[blk(q)[2] + 1]
          BY <3>2 DEF here
        <4>5. q # p => g[q] = FileIn(s, blk(q)) \o g[blk(q)[2] + 1]
          BY <2>6, <2>3, <3>2 DEF blk
        <4>6. h[q] = IF q = p THEN here ELSE g[q]
          OBVIOUS
        <4> HIDE DEF h
        <4> QED
          BY <4>3, <4>4, <4>5, <4>6, <3>2
      <3> QED
        BY <3>1, <3>2
    <2> HIDE DEF h
    <2>9. Taken(h, s, p)
      BY <2>7, <2>8 DEF Taken, blk, last
    <2> QED
      BY <2>9, <1>1 DEF p
  <1>2. \A n \in Nat : n <= Len(s) => \E g : Taken(g, s, last - n)
    <2>1. SUFFICES ASSUME fails # {} PROVE FALSE
      BY Zenon
    <2>2. fails \in SUBSET Nat
      OBVIOUS
    <2>3. \E n \in fails : \A k \in fails : n <= k
      BY <2>1, <2>2, Least
    <2> QED
      BY <2>3, <1>1
  <1>3. Len(s) <= Len(s) /\ last - Len(s) = 1
    BY <1>0
  <1> QED
    BY <1>0, <1>2, <1>3

Turns(g, s) ==
    g = [p \in 1..Len(s) + 1 |->
            LET block == NextBlock(s, p) IN
            IF block[1] = 0 THEN <<>> ELSE FileIn(s, block) \o g[block[2] + 1]]

\* What is extracted is what the text gives from its start.
LEMMA ExtractTurns ==
    ASSUME NEW T, NEW s \in Seq(T)
    PROVE  \E g : Turns(g, s) /\ Extract(s) = g[1]
PROOF
  <1>1. PICK g : Taken(g, s, 1)
    BY BlocksInTurn
  <1>2. g = [p \in 1..Len(s) + 1 |-> g[p]]
    BY <1>1 DEF Taken
  <1>3. Turns(g, s)
    BY <1>1, <1>2 DEF Taken, Turns
  <1>4. Extract(s) = (CHOOSE f : Turns(f, s))[1]
    BY DEF Extract, Turns
  <1> QED
    BY <1>3, <1>4

\* Whatever comes out of a note was attached in it.
LEMMA ExtractGives ==
    ASSUME NEW T, NEW s \in Seq(T), NEW f \in Range(Extract(s))
    PROVE  f.data \in Wrapped(Note(s))
PROOF
  <1>1. PICK g : Turns(g, s) /\ Extract(s) = g[1]
    BY ExtractTurns
  <1>2. g[1] \in Seq(Slips(s))
    <2> DEFINE fails == {n \in Nat : n <= Len(s) /\ g[Len(s) + 1 - n] \notin Seq(Slips(s))}
    <2>0. Len(s) \in Nat
      OBVIOUS
    <2>1. ASSUME NEW n \in fails, \A k \in fails : n <= k PROVE FALSE
      <3> DEFINE p == Len(s) + 1 - n
                 b == NextBlock(s, p)
      <3>1. n \in Nat /\ n <= Len(s) /\ p \in Nat \ {0} /\ p \in 1..Len(s) + 1
        BY <2>0, <2>1
      <3>2. g[p] = IF b[1] = 0 THEN <<>> ELSE FileIn(s, b) \o g[b[2] + 1]
        BY <1>1, <3>1 DEF Turns
      <3>3. g[p] \notin Seq(Slips(s))
        BY <2>1
      <3>4. b[1] # 0
        BY <3>2, <3>3
      <3>5. /\ b[1] \in Nat /\ b[2] \in Nat
            /\ p <= b[1] /\ b[1] < b[2] /\ b[2] <= Len(s)
        BY <3>1, <3>4, BlockPlaces
      <3>6. FileIn(s, b) \in Seq(Slips(s))
        BY <3>5, FileIsWrapped
      <3> DEFINE m == Len(s) - b[2]
      <3>7. m \in Nat /\ m <= Len(s) /\ Len(s) + 1 - m = b[2] + 1 /\ m < n
        <4> HIDE DEF b
        <4> QED
          BY <3>5, <3>1, <2>0
      <3>8. m \notin fails
        <4> HIDE DEF m, fails
        <4> QED
          BY <3>7, <3>1, <2>1
      <3>9. g[b[2] + 1] \in Seq(Slips(s))
        <4>1. g[Len(s) + 1 - m] \in Seq(Slips(s))
          <5> HIDE DEF m
          <5> QED
            BY <3>7, <3>8
        <4> HIDE DEF b, m
        <4> QED
          BY <4>1, <3>7
      <3> HIDE DEF b, p
      <3>10. FileIn(s, b) \o g[b[2] + 1] \in Seq(Slips(s))
        BY <3>6, <3>9
      <3> QED
        BY <3>2, <3>3, <3>4, <3>10
    <2>2. fails = {}
      <3>1. SUFFICES ASSUME fails # {} PROVE FALSE
        OBVIOUS
      <3>2. fails \in SUBSET Nat
        OBVIOUS
      <3>3. \E n \in fails : \A k \in fails : n <= k
        BY <3>1, <3>2, Least
      <3> QED
        BY <3>3, <2>1
    <2>3. Len(s) \notin fails
      BY <2>2
    <2> QED
      BY <2>3, <2>0
  <1>3. f \in Slips(s)
    BY <1>1, <1>2 DEF Range
  <1> QED
    BY <1>3 DEF Slips

-----------------------------------------------------------------------------
(* Who asks for what.                                                      *)

\* What every surface sees to before it hands a request on.
Asked(q) ==
    /\ q.over \in SUBSET Carrier /\ q.over # {}
    /\ q.cipher \in Ciphers \cup {Clear} /\ q.pass \in Passes /\ q.to \in Keys
    /\ q.cipher = Clear => q.pass = Blank
    /\ q.cipher # Clear /\ q.by \notin {"cli", "http"} => q.pass # Blank
    /\ q.by \in {"desktop file", "cli file", "http", "before"} => q.to = NoKey
    /\ q.by = "desktop" /\ q.to # NoKey => q.cipher = Clear
    /\ q.by \in {"cli", "http"} => q.cipher \in {Clear, "chacha20_poly1305"}

\* No surface hands on anything else, and no older document says anything else.
LEMMA RequestsAreAsked == \A q \in Requests \cup OldRequests : Asked(q)
PROOF
  <1>1. /\ \A s \in Chosen : s \in SUBSET Carrier /\ s # {}
        /\ \A c \in UNION Single : {c} \in SUBSET Carrier /\ {c} # {}
        /\ {"zero_width"} \in SUBSET Carrier
    BY ChosenAssumption DEF Single, Carrier, Inserting, Bit0
  <1>2. Clear \notin Ciphers /\ Blank \notin Passcode /\ NoKey \notin Recipient
    BY CiphersAssumption, MeansAssumption DEF Aead, Keystream, Clear
  <1>3. \A k \in CipherFrom : /\ k[1] \in Ciphers \cup {Clear} /\ k[2] \in Passes
                              /\ k[1] = Clear => k[2] = Blank
                              /\ k[1] # Clear => k[2] # Blank
    BY <1>2 DEF CipherFrom, Passes
  <1>4. \A k \in EncryptWith : /\ k[1] \in Ciphers \cup {Clear} /\ k[2] \in Passes
                               /\ k[1] = Clear => k[2] = Blank
                               /\ k[1] \in {Clear, "chacha20_poly1305"}
    BY <1>2 DEF EncryptWith, Passes
  <1>5. NoKey \in Keys /\ Recipient \subseteq Keys /\ Blank \in Passes /\ Passcode \subseteq Passes
    BY DEF Keys, Passes
  <1>6. ASSUME NEW q \in Compose PROVE Asked(q)
    <2>1. PICK s \in Chosen, k \in CipherFrom :
                 q = Request("desktop", s, k[1], k[2], NoKey)
      BY DEF Compose
    <2>2. q.by = "desktop" /\ q.over = s /\ q.cipher = k[1] /\ q.pass = k[2] /\ q.to = NoKey
      BY <2>1 DEF Request
    <2> QED
      BY <1>1, <1>2, <1>3, <1>4, <1>5, <2>1, <2>2 DEF Asked
  <1>7. ASSUME NEW q \in ComposeSealed PROVE Asked(q)
    <2>1. PICK s \in Chosen, r \in Recipient : q = Request("desktop", s, Clear, Blank, r)
      BY DEF ComposeSealed
    <2>2. q.by = "desktop" /\ q.over = s /\ q.cipher = Clear /\ q.pass = Blank /\ q.to = r
      BY <2>1 DEF Request
    <2> QED
      BY <1>1, <1>2, <1>3, <1>4, <1>5, <2>1, <2>2 DEF Asked
  <1>8. ASSUME NEW q \in Encode PROVE Asked(q)
    <2>1. PICK c \in UNION Single, k \in EncryptWith, r \in Keys :
                 q = Request("cli", {c}, k[1], k[2], r)
      BY DEF Encode, Keys, Request
    <2>2. q.by = "cli" /\ q.over = {c} /\ q.cipher = k[1] /\ q.pass = k[2] /\ q.to = r
      BY <2>1 DEF Request
    <2> QED
      BY <1>1, <1>2, <1>3, <1>4, <1>5, <2>1, <2>2 DEF Asked
  <1>9. ASSUME NEW q \in HandleEncode PROVE Asked(q)
    <2>1. PICK c \in UNION Single, k \in EncryptWith :
                 q = Request("http", {c}, k[1], k[2], NoKey)
      BY DEF HandleEncode
    <2>2. q.by = "http" /\ q.over = {c} /\ q.cipher = k[1] /\ q.pass = k[2] /\ q.to = NoKey
      BY <2>1 DEF Request
    <2> QED
      BY <1>1, <1>2, <1>3, <1>4, <1>5, <2>1, <2>2 DEF Asked
  <1>10. ASSUME NEW q \in ConcealWith PROVE Asked(q)
    <2>1. PICK s \in Chosen, k \in CipherFrom, r \in Keys :
                 q = Request("agent", s, k[1], k[2], r)
      BY DEF ConcealWith, Keys
    <2>2. q.by = "agent" /\ q.over = s /\ q.cipher = k[1] /\ q.pass = k[2] /\ q.to = r
      BY <2>1 DEF Request
    <2> QED
      BY <1>1, <1>2, <1>3, <1>4, <1>5, <2>1, <2>2 DEF Asked
  <1>11. ASSUME NEW by, NEW q \in Filed(by),
                by \in {"desktop file", "cli file", "agent file"}
         PROVE  Asked(q)
    <2>1. PICK s \in Chosen, k \in CipherFrom : q = Request(by, s, k[1], k[2], NoKey)
      BY DEF Filed
    <2>2. q.by = by /\ q.over = s /\ q.cipher = k[1] /\ q.pass = k[2] /\ q.to = NoKey
      BY <2>1 DEF Request
    <2> QED
      BY <1>1, <1>2, <1>3, <1>4, <1>5, <1>11, <2>1, <2>2 DEF Asked
  <1>12. ASSUME NEW q \in OldRequests PROVE Asked(q)
    <2>1. PICK c \in Ciphers \cup {Clear}, p \in Passes :
             /\ q = Request("before", {"zero_width"}, c, p, NoKey)
             /\ c = Clear => p = Blank
             /\ c # Clear => p # Blank
      BY <1>2 DEF OldRequests, Passes
    <2>2. /\ q.by = "before" /\ q.over = {"zero_width"} /\ q.cipher = c /\ q.pass = p
          /\ q.to = NoKey
      BY <2>1 DEF Request
    <2> QED
      BY <1>1, <1>2, <1>5, <2>1, <2>2 DEF Asked
  <1> QED
    BY <1>6, <1>7, <1>8, <1>9, <1>10, <1>11, <1>12
    DEF Requests, FileConceal, FileConcealCommand, RunFileConceal

-----------------------------------------------------------------------------
(* What is handed over.                                                    *)

\* A layer has the fields of one.
IsLayer(s) ==
    s = [over |-> s.over, hurt |-> s.hurt, old |-> s.old, sound |-> s.sound,
         cipher |-> s.cipher, body |-> s.body]

\* The document holds what was asked for, under what it was asked under.
Kept ==
    /\ IsLayer(sheet)
    /\ sheet.cipher = IF sent.pass = Blank THEN Clear ELSE sent.cipher
    /\ sheet.body = IF sheet.cipher = Clear THEN Placed
                    ELSE Enciphered(sheet.cipher, sent.pass, Placed)
    /\ ~sheet.old => sheet.sound
    /\ sheet.old => Placed = OldWords

Posted ==
    /\ Kept
    /\ sheet = Unmarked => sent = NotSent /\ got = Nothing
    /\ sheet # Unmarked =>
          /\ Asked(sent) /\ sent.secret \in Benched
          /\ sent.by # "agent" => sent.secret \in Notes

\* While the bytes at hand can still be wrapped, no others were attached.
Prepared ==
    /\ note \in Seq(TokensOf(Boxed)) /\ blob \in Boxed
    /\ Shallow(blob) => note \in Seq(TokensOf(Pressed))

HandedInv == Prepared /\ Posted

\* What is placed is what can be sent, and stays with its secret.
LEMMA PlacedIsSendable ==
    ASSUME Asked(sent), sent.secret \in Benched
    PROVE  /\ Placed \in Sendable
           /\ sent.to # NoKey => Placed = Sealed(sent.to, sent.secret)
           /\ sent.to = NoKey => Placed = sent.secret
PROOF
  <1>1. sent.to \in Recipient \cup {NoKey}
    BY DEF Asked, Keys
  <1>2. sent.to # NoKey => Placed = Sealed(sent.to, sent.secret)
    BY DEF Placed, Addressed
  <1>3. sent.to = NoKey => Placed = sent.secret
    BY DEF Placed, Addressed
  <1> QED
    BY <1>1, <1>2, <1>3 DEF Sendable

\* No cipher makes nothing of a value.
LEMMA EncipheredIsSome ==
    ASSUME NEW v \in Sendable, NEW c, NEW p
    PROVE  v # Refusal /\ Enciphered(c, p, v) # Refusal
PROOF
  <1>1. \A u \in Sendable : u # Refusal
    BY KindsOfValues DEF Refusal
  <1>2. CASE c \notin Keystream
    BY <1>1, <1>2 DEF Enciphered, Ciphered, Refusal
  <1>3. CASE c \in Keystream
    <2>1. Below(Mixed(p, v)) \in Sendable
      BY SendableIsTidy, MixedIsTidy
    <2>2. Below(Refusal) = Refusal
      BY DEF Below, Refusal
    <2>3. Enciphered(c, p, v) = Mixed(p, v)
      BY <1>3 DEF Enciphered
    <2> QED
      BY <1>1, <2>1, <2>2, <2>3
  <1> QED
    BY <1>1, <1>2, <1>3

\* Bytes that can still be wrapped are files, compressed or not.
LEMMA ShallowIsPressed ==
    ASSUME NEW v \in Boxed, Shallow(v)
    PROVE  v \in Pressed
PROOF
  <1>1. v.is \in {"file", "compressed"} /\ (v.is = "compressed" => v.of.is = "file")
    BY DEF Shallow
  <1>2. v \in Packs
    BY <1>1 DEF Boxed, Note, Ciphered, Masked, Sealed
  <1>3. \A u \in Pressed : u.is = "file" => u \in Files
    BY DEF Pressed, Compressed
  <1>4. ASSUME NEW u \in Pressed, v = Compressed(u) PROVE v \in Pressed
    BY <1>1, <1>3, <1>4 DEF Pressed, Compressed
  <1> QED
    BY <1>2, <1>4 DEF Packs

\* The texts among what can be sent are letters.
LEMMA TextsAreNotes ==
    ASSUME NEW v \in Sendable, v.is = "text"
    PROVE  v \in Notes
PROOF
  <1>1. v \in Benched
    BY DEF Sendable, Sealed
  <1>2. v \in Boxed => v = Note(<<>>)
    BY KindsOfValues DEF Boxed, Ciphered, Masked, Sealed
  <1> QED
    BY <1>1, <1>2, KindsOfValues DEF Benched

\* The invariant holds at the start.
LEMMA HandedStarts == HandedInit => HandedInv
PROOF
  <1>1. SUFFICES ASSUME HandedInit PROVE HandedInv
    OBVIOUS
  <1>2. Prepared
    <2>1. {Token(k) : k \in {"open", "bar", "close", "word"}} \subseteq TokensOf(Pressed)
      BY DEF TokensOf, Syntax
    <2>2. TokensOf(Pressed) \subseteq TokensOf(Boxed)
      BY KindsOfValues, FewerTexts
    <2>3. note \in Seq({Token(k) : k \in {"open", "bar", "close", "word"}})
      <3>1. note \in Typed \/ note = <<>>
        BY <1>1 DEF HandedInit
      <3>2. Typed \subseteq Seq({Token(k) : k \in {"open", "bar", "close", "word"}})
        BY TypedAssumption
      <3>3. <<>> \in Seq({Token(k) : k \in {"open", "bar", "close", "word"}})
        OBVIOUS
      <3> QED
        BY <3>1, <3>2, <3>3
    <2>4. note \in Seq(TokensOf(Pressed)) /\ note \in Seq(TokensOf(Boxed))
      BY <2>1, <2>2, <2>3
    <2>5. blob \in Boxed
      <3>1. blob \in Files
        BY <1>1 DEF HandedInit, Files
      <3> QED
        BY <3>1, KindsOfValues
    <2> QED
      BY <2>4, <2>5 DEF Prepared
  <1>3. CASE sheet = Unmarked /\ sent = NotSent
    <2>1. Kept
      BY <1>3 DEF Kept, IsLayer, Unmarked, Layer, NotSent, SentAs, Request, Placed, Addressed
    <2> QED
      BY <1>1, <1>2, <1>3, <2>1 DEF HandedInv, Posted, HandedInit
  <1>4. CASE \E q \in OldRequests, sound \in BOOLEAN :
                sheet = OldLayer(q, sound) /\ sent = SentAs(q, OldWords)
    <2>1. PICK q \in OldRequests, sound \in BOOLEAN :
                sheet = OldLayer(q, sound) /\ sent = SentAs(q, OldWords)
      BY <1>4
    <2>2. Asked(q) /\ q.to = NoKey
      BY RequestsAreAsked DEF OldRequests, Request
    <2>3. OldWords \in Notes /\ OldWords \in Benched
      <3>1. Token("word") \in TokensOf(Boxed)
        BY DEF TokensOf, Syntax
      <3>2. <<Token("word"), Token("word")>> \in Seq(TokensOf(Boxed))
        BY <3>1
      <3> QED
        BY <3>2, KindsOfValues DEF OldWords, Notes, TextsOf
    <2>4. q.cipher = Clear => q.pass = Blank
      BY <2>2 DEF Asked
    <2>5. sheet = [over |-> q.over, hurt |-> FALSE, old |-> TRUE, sound |-> sound,
                   cipher |-> IF q.pass = Blank THEN Clear ELSE q.cipher,
                   body |-> IF q.pass = Blank THEN OldWords
                            ELSE Enciphered(q.cipher, q.pass, OldWords)]
      BY <2>1, <2>4 DEF OldLayer, Layer
    <2>6. /\ sent.over = q.over /\ sent.by = q.by /\ sent.cipher = q.cipher
          /\ sent.pass = q.pass /\ sent.to = q.to /\ sent.secret = OldWords
      BY <2>1 DEF SentAs
    <2>7. Asked(sent)
      BY <2>2, <2>6 DEF Asked
    <2>8. Placed = OldWords
      BY <2>2, <2>6 DEF Placed, Addressed
    <2>9. Kept
      BY <2>4, <2>5, <2>6, <2>8 DEF Kept, IsLayer
    <2>10. sheet # Unmarked
      BY <2>5 DEF Unmarked, Layer
    <2> QED
      BY <1>2, <2>3, <2>6, <2>7, <2>9, <2>10 DEF HandedInv, Posted
  <1> QED
    BY <1>1, <1>3, <1>4 DEF HandedInit

\* Whoever prepares, writes or exports leaves a document that holds what was asked.
LEMMA HandedKeeps == HandedInv /\ [HandedNext]_handed => HandedInv'
PROOF
  <1>1. SUFFICES ASSUME HandedInv, [HandedNext]_handed PROVE HandedInv'
    OBVIOUS
  <1>2. CASE UNCHANGED handed
    BY <1>1, <1>2 DEF handed, HandedInv, Prepared, Posted, Kept, IsLayer, Placed, Asked
  <1>3. ASSUME UNCHANGED <<sheet, sent>>, got' = got \/ sheet # Unmarked PROVE Posted'
    BY <1>1, <1>3 DEF HandedInv, Posted, Kept, IsLayer, Placed, Asked
  <1>4. /\ note \in Seq(TokensOf(Boxed)) /\ blob \in Boxed
        /\ Shallow(blob) => note \in Seq(TokensOf(Pressed)) /\ blob \in Pressed
    BY <1>1, ShallowIsPressed DEF HandedInv, Prepared
  <1>5. /\ Note(note) \in Notes
        /\ Shallow(blob) => Note(note) \in Texts
    BY <1>4 DEF Notes, Texts, TextsOf
  <1>6. ASSUME NEW v \in Boxed, Shallow(blob), Bench(v) PROVE HandedInv'
    <2>1. Prepared'
      BY <1>4, <1>6 DEF Bench, Prepared
    <2>2. Posted'
      BY <1>6, <1>3 DEF Bench
    <2> QED
      BY <2>1, <2>2 DEF HandedInv
  <1>7. CASE Compress
    <2>1. Compressed(blob) \in Boxed
      BY <1>4, <1>7 DEF Compress, Packs, Boxed
    <2> QED
      BY <2>1, <1>6, <1>7 DEF Compress
  <1>8. CASE Protect
    <2>1. PICK c \in Ciphers, p \in Passcode, v \in {blob, Note(note)} :
              Bench(Enciphered(c, p, v))
      BY <1>8 DEF Protect
    <2>2. v \in Pressed \cup Texts /\ Shallow(blob)
      BY <2>1, <1>4, <1>5, <1>8 DEF Protect
    <2>3. Enciphered(c, p, v) \in Boxed
      <3>1. CASE c \notin Keystream
        BY <2>2, <3>1 DEF Enciphered, Boxed
      <3>2. CASE c \in Keystream /\ Void(v)
        <4>1. v.is # "streamed"
          BY <3>2 DEF Void, Note, File
        <4>2. Mixed(p, v) = v
          BY <3>2, <4>1 DEF Mixed, KeyOver, Streamed, StreamsOf, Below, SymDiff
        <4>3. v \in Boxed
          <5>1. v = Note(<<>>) \/ v = File("empty")
            BY <3>2 DEF Void
          <5>2. File("empty") \in Files
            BY DEF Files
          <5> QED
            BY <5>1, <5>2, KindsOfValues DEF Boxed
        <4> QED
          BY <3>2, <4>2, <4>3 DEF Enciphered
      <3>3. CASE c \in Keystream /\ ~Void(v)
        <4>1. v.is # "streamed" /\ v # Noise
          BY <2>2, KindsOfValues, TextsWrap DEF Texts, IsText, Noise
        <4>2. KeyOver(p, v) # {}
          BY <3>3, <4>1 DEF KeyOver, Below
        <4>3. SymDiff(StreamsOf(v), KeyOver(p, v)) = KeyOver(p, v)
          BY <4>1 DEF SymDiff, StreamsOf
        <4>4. Mixed(p, v) = Masked(p, v)
          BY <4>1, <4>2, <4>3 DEF Mixed, Masked, Streamed, Below
        <4> QED
          BY <2>2, <3>3, <4>4 DEF Enciphered, Boxed
      <3> QED
        BY <3>1, <3>2, <3>3
    <2> QED
      BY <2>1, <2>2, <2>3, <1>6
  <1>9. CASE Seal
    <2>1. PICK r \in Recipient : Bench(Sealed(r, Note(note)))
      BY <1>9 DEF Seal
    <2>2. Sealed(r, Note(note)) \in Boxed /\ Shallow(blob)
      BY <1>5, <1>9 DEF Seal, Boxed
    <2> QED
      BY <2>1, <2>2, <1>6
  <1>10. CASE Attach
    <2>1. PICK name \in Names : note' = Embed(note, name, blob) /\ blob' = blob
      BY <1>10 DEF Attach
    <2>2. ASSUME NEW S, blob \in S, note \in Seq(TokensOf(S)) PROVE note' \in Seq(TokensOf(S))
      <3>1. /\ Token("open") \in TokensOf(S) /\ Token("bar") \in TokensOf(S)
            /\ Data(blob) \in TokensOf(S) /\ Token("close") \in TokensOf(S)
        BY <2>2 DEF TokensOf, Syntax
      <3>2. {Token(k) : k \in {"open", "bar", "close", "word"}} \subseteq TokensOf(S)
        BY DEF TokensOf, Syntax
      <3>3. name \in Seq({Token(k) : k \in {"open", "bar", "close", "word"}})
        BY TypedAssumption
      <3>4. name \in Seq(TokensOf(S))
        BY <3>2, <3>3
      <3> QED
        BY <2>1, <2>2, <3>1, <3>4 DEF Embed
    <2>3. Prepared'
      BY <1>4, <2>1, <2>2 DEF Prepared
    <2>4. Posted'
      BY <1>10, <1>3 DEF Attach
    <2> QED
      BY <2>3, <2>4 DEF HandedInv
  <1>11. CASE DetachAll
    <2>1. /\ note' \in Seq(TokensOf(Boxed)) /\ blob' = blob
          /\ Shallow(blob) => note' \in Seq(TokensOf(Pressed))
      BY <1>4, <1>11, DetachKeeps DEF DetachAll
    <2>2. Prepared'
      BY <1>4, <2>1 DEF Prepared
    <2>3. Posted'
      BY <1>11, <1>3 DEF DetachAll
    <2> QED
      BY <2>2, <2>3 DEF HandedInv
  <1>12. CASE Write
    <2>1. PICK q \in Requests : \E v \in Hideable(q) :
              sheet' = LayerOf(q, v) /\ sent' = SentAs(q, v)
      BY <1>12 DEF Write
    <2>2. PICK v \in Hideable(q) : sheet' = LayerOf(q, v) /\ sent' = SentAs(q, v)
      BY <2>1
    <2>3. v \in Benched /\ (q.by # "agent" => v \in Notes)
      BY <1>4, <1>5, KindsOfValues DEF Hideable
    <2>4. Asked(q)
      BY RequestsAreAsked
    <2>5. /\ sent'.by = q.by /\ sent'.over = q.over /\ sent'.cipher = q.cipher
          /\ sent'.pass = q.pass /\ sent'.to = q.to /\ sent'.secret = v
      BY <2>2 DEF SentAs
    <2>6. q.cipher = Clear => q.pass = Blank
      BY <2>4 DEF Asked
    <2>7. Addressed(q, v) = Placed'
      BY <2>5 DEF Placed, Addressed
    <2>8. sheet' = [over |-> q.over, hurt |-> FALSE, old |-> FALSE, sound |-> TRUE,
                    cipher |-> IF q.pass = Blank THEN Clear ELSE q.cipher,
                    body |-> IF q.pass = Blank THEN Addressed(q, v)
                             ELSE Enciphered(q.cipher, q.pass, Addressed(q, v))]
      BY <2>2, <2>6 DEF LayerOf, Layer
    <2>9. Kept'
      BY <2>5, <2>6, <2>7, <2>8 DEF Kept, IsLayer
    <2>10. Asked(sent)'
      BY <2>4, <2>5 DEF Asked
    <2>11. sheet' # Unmarked
      <3>1. Addressed(q, v) \in Sendable
        <4>1. q.to \in Recipient \cup {NoKey}
          BY <2>4 DEF Asked, Keys
        <4>2. CASE q.to = NoKey
          BY <2>3, <4>2, KindsOfValues DEF Addressed
        <4>3. CASE q.to \in Recipient /\ q.to # NoKey
          BY <2>3, <4>3 DEF Addressed, Sendable
        <4> QED
          BY <4>1, <4>2, <4>3
      <3>2. sheet'.body # Refusal
        BY <3>1, <2>8, EncipheredIsSome
      <3> QED
        BY <3>2 DEF Unmarked, Layer
    <2>12. Posted'
      BY <2>3, <2>5, <2>9, <2>10, <2>11 DEF Posted, Unmarked
    <2>13. Prepared'
      <3>1. note' = <<>> /\ blob' = File("small")
        BY <1>12 DEF Write
      <3>2. note' \in Seq(TokensOf(Pressed)) /\ note' \in Seq(TokensOf(Boxed))
        BY <3>1
      <3>3. blob' \in Boxed
        BY <3>1, KindsOfValues DEF Files
      <3> QED
        BY <3>2, <3>3 DEF Prepared
    <2> QED
      BY <2>12, <2>13 DEF HandedInv
  <1>13. CASE Export
    <2>1. PICK over, hurt : sheet' = [sheet EXCEPT !.over = over, !.hurt = hurt]
      BY <1>13 DEF Export
    <2>2. /\ sheet # Unmarked /\ IsLayer(sheet) /\ sent' = sent /\ got' = got
          /\ note' = note /\ blob' = blob
      BY <1>1, <1>13 DEF Export, HandedInv, Posted, Kept
    <2>3. sheet' = [over |-> over, hurt |-> hurt, old |-> sheet.old, sound |-> sheet.sound,
                    cipher |-> sheet.cipher, body |-> sheet.body]
      BY <2>1, <2>2 DEF IsLayer
    <2>4. Kept'
      BY <1>1, <2>2, <2>3 DEF HandedInv, Posted, Kept, IsLayer, Placed
    <2>5. Asked(sent) /\ sent.secret \in Benched /\ (sent.by # "agent" => sent.secret \in Notes)
      BY <1>1, <2>2 DEF HandedInv, Posted
    <2>6. sheet' # Unmarked
      <3>1. Placed \in Sendable
        BY <2>5, PlacedIsSendable
      <3>2. sheet'.body # Refusal
        BY <1>1, <2>3, <3>1, EncipheredIsSome DEF HandedInv, Posted, Kept
      <3> QED
        BY <3>2 DEF Unmarked, Layer
    <2>7. Posted'
      BY <2>2, <2>4, <2>5, <2>6 DEF Posted, Unmarked, Asked
    <2>8. Prepared'
      BY <1>4, <2>2 DEF Prepared
    <2> QED
      BY <2>7, <2>8 DEF HandedInv
  <1>14. CASE Read \/ Unwrap
    <2>1. /\ UNCHANGED <<note, blob, sheet, sent>> /\ sheet # Unmarked
      BY <1>1, <1>14 DEF Read, Unwrap, HandedInv, Posted
    <2>2. Posted'
      BY <2>1, <1>3
    <2>3. Prepared'
      BY <1>4, <2>1 DEF Prepared
    <2> QED
      BY <2>2, <2>3 DEF HandedInv
  <1> QED
    BY <1>1, <1>2, <1>7, <1>8, <1>9, <1>10, <1>11, <1>12, <1>13, <1>14 DEF HandedNext

-----------------------------------------------------------------------------
(* What is read and opened.                                                *)

Size == [is |-> "size"]
Placeholder == [is |-> "placeholder"]

\* Words about what came out, and what altered bytes open to.
Told(v) == v \in {Noise, Size, Placeholder}

\* What was placed, without the keystreams it may be under by itself.
Base == Below(Placed)

\* The keystreams that some passcodes have over what was placed.
Reach(with) == UNION {KeyOver(p, Placed) : p \in with \cap Passcode}

\* What a keystream made of what was placed under another passcode than is there.
Astray(with) ==
    ~sheet.old /\ sheet.cipher \in Keystream /\ ~(KeyOver(sent.pass, Placed) \subseteq Reach(with))

\* A fair answer: what was placed or is wrapped in it, under keystreams perhaps,
\* or words about it; no further than those keys and passcodes go that were
\* brought; and vouched for only if it is no more than that, or gone astray.
Fair(g) ==
    /\ Told(g.value) \/ (Tidy(g.value) /\ Below(g.value) \in Stages(Base))
    /\ \/ Told(g.value) \/ Locks \subseteq Reach(g.with)
       \/ Below(g.value) = Base /\ SymDiff(StreamsOf(g.value), Locks) \subseteq Reach(g.with)
    /\ sent.to \notin g.with \cup {NoKey} => Told(g.value) \/ Below(g.value) = Base
    /\ sent.cipher \in Aead => sent.pass \in g.with \cup {Blank}
    /\ g.vouched => \/ g.value \in Stages(Placed) \cup {Size, Placeholder}
                    \/ Below(g.value) = Base /\ Astray(g.with)

FairInv == got = Nothing \/ Fair(got)

\* Every reading is of what is at hand.
AtHand ==
    /\ HandedInv /\ sheet # Unmarked

\* What was placed is a stage of itself, and its stages are all it is made of.
LEMMA PlacedIsStaged ==
    ASSUME AtHand
    PROVE  /\ Placed \in Sendable /\ Placed \in Stages(Placed) /\ Asked(sent)
           /\ Base \in Stages(Base) /\ Base \in Stages(Placed)
           /\ Tidy(Placed) /\ Base.is # "streamed"
           /\ \A v \in Stages(Placed) : v \in Sendable /\ Wrapped(v) \subseteq Stages(Placed)
           /\ \A v \in Stages(Base) : v \in Sendable /\ Wrapped(v) \subseteq Stages(Base)
           /\ sent.to # NoKey => Placed = Sealed(sent.to, sent.secret) /\ Base = Placed
           /\ sent.to = NoKey => Placed = sent.secret
           /\ sent.secret \in Benched
           /\ \A v \in Sendable : ~Told(v) /\ v # Refusal
PROOF
  <1>1. Asked(sent) /\ sent.secret \in Benched
    BY DEF AtHand, HandedInv, Posted
  <1>2. Placed \in Sendable
    BY <1>1, PlacedIsSendable
  <1>3. \A v : v \in Stages(v)
    <2>1. \A S, v : v \in S => v \in Further(S)
      BY DEF Further
    <2> QED
      BY <2>1 DEF Stages
  <1>4. \A v \in Stages(Placed) : v \in Sendable /\ Wrapped(v) \subseteq Stages(Placed)
    BY <1>2, StagesAreAll
  <1>5. Tidy(Placed) /\ Base \in Sendable /\ (Base = Placed \/ Base \in Wrapped(Placed))
    BY <1>2, SendableIsTidy DEF Base
  <1>6. \A v \in Stages(Base) : v \in Sendable /\ Wrapped(v) \subseteq Stages(Base)
    BY <1>5, StagesAreAll
  <1>7. \A v \in Sendable : ~Told(v) /\ v # Refusal
    BY KindsOfValues DEF Noise, Refusal, Size, Placeholder, Told
  <1>8. sent.to # NoKey => Placed = Sealed(sent.to, sent.secret) /\ Base = Placed
    BY <1>1, PlacedIsSendable DEF Base, Below, Sealed
  <1>9. Base.is # "streamed" /\ Base \in Stages(Base) /\ Base \in Stages(Placed)
    BY <1>3, <1>4, <1>5 DEF Tidy, Base
  <1> QED
    BY <1>1, <1>2, <1>3, <1>4, <1>5, <1>6, <1>7, <1>8, <1>9, PlacedIsSendable

\* More passcodes reach further, and what is no passcode does not count.
LEMMA ReachGrows ==
    ASSUME NEW with, NEW more, with \subseteq more
    PROVE  /\ Reach(with) \subseteq Reach(more)
           /\ Reach(more \ {Blank, NoKey}) = Reach(more)
           /\ \A p \in Passcode : p \in more => KeyOver(p, Placed) \subseteq Reach(more)
PROOF
  <1>1. (more \ {Blank, NoKey}) \cap Passcode = more \cap Passcode
    BY MeansAssumption
  <1> QED
    BY <1>1 DEF Reach

\* What the core answers: noise it does not vouch for, or what was placed under
\* what is left of its keystreams.
LEMMA DecodeGives ==
    ASSUME AtHand, NEW cands, NEW offered, NEW p \in Passes, NEW d,
           d = Decode(cands, offered, p), d.value # Refusal
    PROVE  /\ d.integrity \in BOOLEAN
           /\ sent.cipher \in Aead => sent.pass \in {p, Blank}
           /\ \/ d.value = Noise /\ ~d.integrity
              \/ /\ Tidy(d.value) /\ Below(d.value) = Base
                 /\ SymDiff(StreamsOf(d.value), Locks) \subseteq Reach({p})
                 /\ d.integrity => d.value = Placed \/ Astray({p})
PROOF
  <1> DEFINE u == Reverted(offered, p)
             v == Damaged(u)
  <1>1. /\ sheet.cipher = IF sent.pass = Blank THEN Clear ELSE sent.cipher
        /\ sheet.body = IF sheet.cipher = Clear THEN Placed
                        ELSE Enciphered(sheet.cipher, sent.pass, Placed)
        /\ ~sheet.old => sheet.sound
        /\ sheet.old => Placed = OldWords
        /\ Tidy(Placed) /\ Asked(sent) /\ Placed # Refusal /\ Placed # Noise
    BY PlacedIsStaged DEF AtHand, HandedInv, Posted, Kept, Told
  <1>2. /\ Clear \notin Ciphers /\ Clear \notin Aead \cup Keystream
        /\ Aead \cap Keystream = {} /\ Ciphers \subseteq Aead \cup Keystream
    BY CiphersAssumption DEF Aead, Keystream, Clear
  <1>3. /\ sent.cipher \in Ciphers \cup {Clear}
        /\ sent.cipher = Clear => sent.pass = Blank
        /\ sent.pass \in Passes
    BY <1>1 DEF Asked
  <1>4. /\ d.value = IF sheet.over \cap cands = {} \/ sheet.hurt THEN Refusal ELSE v
        /\ d.integrity = IF sheet.over \cap cands = {} \/ sheet.hurt THEN FALSE
                         ELSE v # Refusal /\ (sheet.old => v = OldWords)
    BY DEF Decode
  <1>5. d.value = v /\ u # Refusal /\ d.integrity = (sheet.old => v = OldWords)
    <2> HIDE DEF u
    <2> QED
      BY <1>4 DEF Damaged
  <1>6. CASE sheet.cipher \notin Keystream
    <2>1. u = Placed /\ (sent.cipher \in Aead => sent.pass \in {p, Blank})
      <3>1. CASE sheet.cipher = Clear
        BY <3>1, <1>1, <1>2, <1>3 DEF Reverted
      <3>2. CASE sheet.cipher # Clear
        <4>1. sheet.body = Ciphered(sheet.cipher, sent.pass, Placed)
          BY <3>2, <1>1, <1>6 DEF Enciphered
        <4>2. u = Unprotected(sheet.cipher, p, sheet.body)
          BY <3>2, <1>5 DEF Reverted
        <4> QED
          BY <4>1, <4>2, <1>5, <1>6 DEF Unprotected, Ciphered
      <3> QED
        BY <3>1, <3>2
    <2>2. Locks = StreamsOf(Placed)
      BY <1>1, <1>2, <1>6 DEF Locks
    <2>3. SymDiff(StreamsOf(Placed), Locks) = {}
      BY <2>2 DEF SymDiff
    <2>4. v = Placed \/ v = Noise
      BY <2>1, <1>1, <1>5 DEF Damaged
    <2>5. v = Noise => ~d.integrity
      BY <2>1, <1>1, <1>5 DEF Damaged
    <2> HIDE DEF v
    <2> QED
      BY <2>1, <2>3, <2>4, <2>5, <1>1, <1>5 DEF Base
  <1>7. CASE sheet.cipher \in Keystream
    <2>1. /\ sent.pass # Blank /\ sheet.cipher = sent.cipher /\ sheet.cipher # Clear
          /\ sheet.body = Mixed(sent.pass, Placed)
      BY <1>1, <1>2, <1>7 DEF Enciphered
    <2>2. p # Blank /\ u = Mixed(p, Mixed(sent.pass, Placed))
      BY <2>1, <1>5, <1>7 DEF Reverted, Unprotected
    <2>3. Locks = StreamsOf(Mixed(sent.pass, Placed))
      BY <2>1, <1>7 DEF Locks
    <2> DEFINE m == Mixed(sent.pass, Placed)
    <2>4. Tidy(m) /\ Below(m) = Base /\ KeyOver(p, m) = KeyOver(p, Placed)
          /\ KeyOver(sent.pass, m) = KeyOver(sent.pass, Placed)
      BY <1>1, MixedIsTidy DEF Base
    <2> HIDE DEF m
    <2>5. Tidy(u) /\ Below(u) = Base /\ StreamsOf(u) = SymDiff(Locks, KeyOver(p, Placed))
      BY <2>2, <2>3, <2>4, MixedIsTidy DEF m
    <2>6. SymDiff(StreamsOf(u), Locks) \subseteq Reach({p})
      <3>1. p \in Passcode
        BY <2>2 DEF Passes
      <3>2. KeyOver(p, Placed) \subseteq Reach({p})
        BY <3>1 DEF Reach
      <3>3. SymDiff(SymDiff(Locks, KeyOver(p, Placed)), Locks) \subseteq KeyOver(p, Placed)
        BY DEF SymDiff
      <3> HIDE DEF u
      <3> QED
        BY <3>2, <3>3, <2>5
    <2>7. u = Placed \/ ~(KeyOver(sent.pass, Placed) \subseteq Reach({p}))
      <3>1. Reach({p}) = KeyOver(p, Placed)
        BY <2>2 DEF Reach, Passes
      <3>2. CASE KeyOver(sent.pass, Placed) = KeyOver(p, Placed)
        <4>1. Mixed(p, m) = Mixed(sent.pass, m)
          BY <3>2, <2>4 DEF Mixed
        <4>2. Mixed(sent.pass, m) = Placed
          BY <1>1, MixedTwice DEF m
        <4> HIDE DEF u
        <4> QED
          BY <4>1, <4>2, <2>2 DEF m
      <3> QED
        BY <3>1, <3>2, OneKey
    <2>8. sent.cipher \notin Aead
      BY <2>1, <1>2, <1>7
    <2>9. v = u \/ (v = Noise /\ ~sheet.sound)
      BY <1>2, <1>7, <1>5 DEF Damaged
    <2>10. sheet.old => Placed = OldWords /\ OldWords # Noise
      BY <1>1
    <2> HIDE DEF u, v
    <2>11. CASE v = Noise /\ ~sheet.sound
      <3>1. sheet.old
        BY <2>11, <1>1
      <3> QED
        BY <3>1, <2>8, <2>10, <2>11, <1>5
    <2>12. CASE v = u
      <3>1. d.integrity => u = Placed \/ Astray({p})
        BY <2>7, <2>10, <2>12, <1>5, <1>7 DEF Astray
      <3> QED
        BY <3>1, <2>5, <2>6, <2>8, <2>12, <1>5
    <2> QED
      BY <2>9, <2>11, <2>12
  <1> QED
    BY <1>6, <1>7

\* Opened with a key or not, and shown as it is or in words, it is a fair answer.
LEMMA OpenedIsFair ==
    ASSUME AtHand, NEW cands, NEW offered, NEW p \in Passes, NEW r \in Keys,
           NEW d, d = Decode(cands, offered, p), Opened(r, d.value) # Refusal,
           NEW w \in {Opened(r, d.value), Size, Placeholder},
           w # Opened(r, d.value) => Opened(r, d.value).is \notin {"noise", "streamed"}
    PROVE  Fair(Given(w, d.integrity, {p, r}))
PROOF
  <1> DEFINE g == Given(w, d.integrity, {p, r})
             v == Opened(r, d.value)
  <1>1. /\ g.value = w /\ g.vouched = d.integrity /\ g.with = {p, r} \ {Blank, NoKey}
    BY DEF Given
  <1>2. d.value # Refusal
    BY DEF Opened
  <1>3. /\ d.integrity \in BOOLEAN
        /\ sent.cipher \in Aead => sent.pass \in {p, Blank}
        /\ \/ d.value = Noise /\ ~d.integrity
           \/ /\ Tidy(d.value) /\ Below(d.value) = Base
              /\ SymDiff(StreamsOf(d.value), Locks) \subseteq Reach({p})
              /\ d.integrity => d.value = Placed \/ Astray({p})
    BY <1>2, DecodeGives
  <1>4. /\ sent.pass \in Passes /\ sent.to \in Keys
        /\ sent.to # NoKey => Placed = Sealed(sent.to, sent.secret) /\ Base = Placed
        /\ Base \in Stages(Base) /\ Base \in Stages(Placed) /\ Placed \in Stages(Placed)
        /\ \A x \in Stages(Placed) : x \in Sendable /\ Wrapped(x) \subseteq Stages(Placed)
        /\ \A x \in Stages(Base) : x \in Sendable /\ Wrapped(x) \subseteq Stages(Base)
        /\ \A x \in Sendable : ~Told(x)
    BY PlacedIsStaged DEF Asked
  <1>5. NoKey \notin Recipient \cup Passcode /\ Blank \notin Recipient \cup Passcode
    BY MeansAssumption
  <1>6. Reach({p}) \subseteq Reach(g.with) /\ Reach(g.with) = Reach({p, r})
    BY <1>1, ReachGrows
  <1>7. sent.cipher \in Aead => sent.pass \in g.with \cup {Blank}
    BY <1>1, <1>3, <1>4, <1>5 DEF Passes
  <1>8. r # NoKey => r \in g.with
    BY <1>1, <1>5 DEF Keys
  <1>9. CASE d.value = Noise
    <2>1. r = NoKey
      BY <1>2, <1>9 DEF Opened, Unsealed, Noise
    <2>2. w = Noise /\ ~g.vouched
      BY <2>1, <1>1, <1>3, <1>9, PlacedIsStaged DEF Opened, Noise, Told, Base, Below
    <2> QED
      BY <2>2, <1>1, <1>7 DEF Fair, Told
  <1>10. CASE d.value # Noise /\ r = NoKey
    <2>1. v = d.value
      BY <1>10 DEF Opened
    <2>2. Reach({p, r}) = Reach({p})
      <3>1. {p, r} \ {Blank, NoKey} = {p} \ {Blank, NoKey}
        BY <1>10
      <3> QED
        BY <3>1, ReachGrows
    <2>3. Astray({p}) => Astray(g.with)
      BY <2>2, <1>6 DEF Astray
    <2>4. CASE w = v
      <3> HIDE DEF g
      <3>1. Tidy(g.value) /\ Below(g.value) = Base
        BY <2>1, <2>4, <1>1, <1>3, <1>10
      <3>2. SymDiff(StreamsOf(g.value), Locks) \subseteq Reach(g.with)
        BY <2>1, <2>4, <1>1, <1>3, <1>6, <1>10
      <3>3. g.vouched => g.value \in Stages(Placed) \/ Astray(g.with)
        BY <2>1, <2>3, <2>4, <1>1, <1>3, <1>4, <1>10
      <3>4. Fair(g)
        BY <3>1, <3>2, <3>3, <1>4, <1>7 DEF Fair
      <3> QED
        BY <3>4 DEF g
    <2>5. CASE w \in {Size, Placeholder}
      <3>1. Told(g.value) /\ g.value \in {Size, Placeholder}
        BY <2>5, <1>1 DEF Told
      <3> HIDE DEF g
      <3>2. Fair(g)
        BY <3>1, <1>7 DEF Fair
      <3> QED
        BY <3>2 DEF g
    <2> QED
      BY <2>4, <2>5
  <1>11. CASE d.value # Noise /\ r # NoKey
    <2>1. d.value.is = "sealed" /\ d.value.to = r /\ v = d.value.of
      BY <1>2, <1>11 DEF Opened, Unsealed
    <2>2. d.value = Base /\ StreamsOf(d.value) = {}
      BY <2>1, <1>3, <1>11 DEF Below, StreamsOf
    <2>3. v \in Wrapped(Base)
      BY <2>1, <2>2 DEF Wrapped, IsText
    <2>4. v \in Stages(Base) /\ v \in Stages(Placed) /\ v \in Sendable
      BY <2>3, <1>4
    <2> HIDE DEF v
    <2>5. Tidy(v) /\ Below(v) \in Stages(Base)
      BY <2>4, <1>4, SendableIsTidy
    <2>6. Locks \subseteq Reach(g.with)
      <3>1. SymDiff({}, Locks) = Locks
        BY DEF SymDiff
      <3> QED
        BY <3>1, <2>2, <1>3, <1>6, <1>11
    <2>7. sent.to \in g.with \cup {NoKey}
      BY <2>1, <2>2, <1>4, <1>8, <1>11 DEF Sealed
    <2>8. g.value \in {v, Size, Placeholder}
      BY <1>1 DEF v
    <2> HIDE DEF g
    <2>9. Fair(g)
      BY <2>4, <2>5, <2>6, <2>7, <2>8, <1>7 DEF Fair, Told
    <2> QED
      BY <2>9 DEF g
  <1> QED
    BY <1>9, <1>10, <1>11

\* Every surface reads fairly.
LEMMA ReadingsAreFair ==
    ASSUME AtHand, NEW g \in Readings, g.value # Refusal
    PROVE  Fair(g)
PROOF
  <1>1. NoKey \in Keys /\ Recipient \subseteq Keys /\ Blank \in Passes
    BY DEF Keys, Passes
  <1>2. Nothing.value = Refusal
    BY DEF Nothing
  <1>3. \A v : AsText(v) \in {v, Size} /\ (AsText(v) # v => v.is \notin {"noise", "streamed"})
    BY DEF AsText, Size
  <1>4. \A v : InWords(v) \in {v, Placeholder} /\ (InWords(v) # v => v.is \notin {"noise", "streamed"})
    BY <1>3 DEF InWords, Placeholder
  <1>5. \A v : AsText(v) = Refusal <=> v = Refusal
    BY DEF AsText, Refusal, IsText
  <1>6. \A v : InWords(v) = Refusal <=> v = Refusal
    BY <1>5 DEF InWords, Refusal
  <1>7. \A w, i, k : Given(w, i, k).value = w
    BY DEF Given
  <1>8. ASSUME NEW cands, NEW p \in Passes, NEW r \in Keys, g = RevealCore(cands, p, r)
        PROVE  Fair(g)
    <2> DEFINE d == Decode(cands, Aead \cup Keystream, p)
               v == Opened(r, d.value)
    <2>1. g = Given(AsText(v), d.integrity, {p, r})
      BY <1>8 DEF RevealCore
    <2>2. AsText(v) # Refusal
      BY <2>1, <1>7
    <2> HIDE DEF d
    <2>3. v # Refusal
      BY <2>2, <1>5
    <2>4. AsText(v) \in {v, Size, Placeholder} /\ (AsText(v) # v => v.is \notin {"noise", "streamed"})
      BY <1>3
    <2>5. Fair(Given(AsText(v), d.integrity, {p, r}))
      BY <2>3, <2>4, OpenedIsFair DEF d
    <2> QED
      BY <2>1, <2>5
  <1>9. ASSUME NEW cands, NEW p \in Passes, g = Reveal(cands, p) PROVE Fair(g)
    BY <1>1, <1>8, <1>9 DEF Reveal
  <1>10. ASSUME NEW cands, NEW offered, NEW p \in Passes, NEW r \in Keys, NEW d,
                d = Decode(cands, offered, p), g = Given(Opened(r, d.value), d.integrity, {p, r})
         PROVE  Fair(g)
    <2>1. Opened(r, d.value) # Refusal
      BY <1>10, <1>7
    <2> QED
      BY <2>1, <1>10, OpenedIsFair
  <1>11. ASSUME NEW p \in Passes, NEW w, g = RevealTraced(p, w) PROVE Fair(g)
    BY <1>2, <1>9, <1>11 DEF RevealTraced
  <1>12. ASSUME NEW c, NEW p \in Passes, NEW r \in Keys, g = DecodeCommand(c, p, r)
         PROVE  Fair(g)
    BY <1>10, <1>12 DEF DecodeCommand
  <1>13. ASSUME NEW c, NEW p \in Passes, g = HandleDecode(c, p) PROVE Fair(g)
    <2> DEFINE d == Decode({c}, {"chacha20_poly1305"}, p)
    <2>1. g = Given(InWords(d.value), d.integrity, {p})
      BY <1>13 DEF HandleDecode
    <2> HIDE DEF d
    <2>2. d.value # Refusal
      BY <2>1, <1>6, <1>7
    <2>3. Opened(NoKey, d.value) = d.value
      BY DEF Opened
    <2>4. InWords(d.value) \in {d.value, Size, Placeholder}
          /\ (InWords(d.value) # d.value => d.value.is \notin {"noise", "streamed"})
      BY <1>4
    <2>5. Fair(Given(InWords(d.value), d.integrity, {p, NoKey}))
      BY <1>1, <2>2, <2>3, <2>4, OpenedIsFair DEF d
    <2>6. g = Given(InWords(d.value), d.integrity, {p, NoKey})
      <3>1. {p, NoKey} \ {Blank, NoKey} = {p} \ {Blank, NoKey}
        OBVIOUS
      <3> QED
        BY <2>1, <3>1 DEF Given
    <2> QED
      BY <2>5, <2>6
  <1>14. ASSUME NEW s, NEW o, NEW p \in Passes, NEW r \in Keys, NEW a, g = RunReveal(s, o, p, r, a)
         PROVE  Fair(g)
    BY <1>2, <1>10, <1>14 DEF RunReveal
  <1>15. \/ \E s : \E p \in Passes : g = Reveal(s, p)
         \/ \E s : \E p \in Passes : g = FileDecode(s, p)
         \/ \E s : \E r \in Recipient : g = RevealSealed(s, r)
         \/ \E w : \E p \in Passes : g = RevealTraced(p, w)
         \/ \E c : \E p \in Passes, r \in Keys : g = DecodeCommand(c, p, r)
         \/ \E c : \E p \in Passes : g = HandleDecode(c, p)
         \/ \E s, o, a : \E p \in Passes, r \in Keys : g = RunReveal(s, o, p, r, a)
    BY DEF Readings
  <1>16. CASE \E s : \E r \in Recipient : g = RevealSealed(s, r)
    BY <1>16, <1>1, <1>8 DEF RevealSealed
  <1>17. CASE \E s : \E p \in Passes : g = FileDecode(s, p)
    BY <1>17, <1>9 DEF FileDecode
  <1> QED
    BY <1>9, <1>11, <1>12, <1>13, <1>14, <1>15, <1>16, <1>17

\* What taking something off a value leaves.
TakenOff(g, u, i, k) ==
    \/ g = Given(Expanded(u), i, k)
    \/ \E r \in Recipient : g = Given(Unsealed(r, u), i, k \cup {r})
    \/ \E c \in Ciphers, p \in Passes :
          g = Given(Unprotected(c, p, u), i /\ c \in Aead, k \cup {p})
    \/ IsText(u) /\ \E f \in Range(Extract(u.says)) : g = Given(f.data, i, k)

\* There is nothing else to take off.
LEMMA WaysToUnwrap ==
    ASSUME NEW u, NEW i, NEW k, NEW g \in Unwrapped(u, i, k)
    PROVE  TakenOff(g, u, i, k)
PROOF
  <1> DEFINE expanded == {Given(Expanded(u), i, k)}
             opened == {Given(Unsealed(r, u), i, k \cup {r}) : r \in Recipient}
             cleared == {Given(Unprotected(c, p, u), i /\ c \in Aead, k \cup {p}) :
                            c \in Ciphers, p \in Passes}
             drawn == IF IsText(u) THEN {Given(f.data, i, k) : f \in Range(Extract(u.says))}
                      ELSE {}
  <1>1. Unwrapped(u, i, k) = expanded \cup opened \cup cleared \cup drawn
    BY DEF Unwrapped
  <1>2. g \in expanded \/ g \in opened \/ g \in cleared \/ g \in drawn
    <2> HIDE DEF expanded, opened, cleared, drawn
    <2> QED
      BY <1>1
  <1>3. CASE g \in cleared
    BY <1>3 DEF TakenOff
  <1>4. CASE g \in drawn
    BY <1>4 DEF TakenOff
  <1>5. CASE g \in expanded \cup opened
    BY <1>5 DEF TakenOff
  <1> QED
    BY <1>2, <1>3, <1>4, <1>5

\* Each wrapping taken off a fair answer leaves one.
LEMMA UnwrappedIsFair ==
    ASSUME AtHand, Fair(got), got.value.is \notin {"size", "placeholder"},
           NEW g \in Unwrapped(got.value, got.vouched, got.with), g.value # Refusal
    PROVE  Fair(g)
PROOF
  <1> DEFINE u == got.value
  <1>1. /\ Asked(sent) /\ sent.to \in Keys /\ sent.pass \in Passes
        /\ sent.to # NoKey => Placed = Sealed(sent.to, sent.secret) /\ Base = Placed
        /\ Base \in Stages(Placed)
        /\ \A x \in Stages(Placed) : x \in Sendable /\ Wrapped(x) \subseteq Stages(Placed)
        /\ \A x \in Stages(Base) : x \in Sendable /\ Wrapped(x) \subseteq Stages(Base)
        /\ \A x \in Sendable : ~Told(x)
    BY PlacedIsStaged DEF Asked
  <1>2. NoKey \notin Recipient \cup Passcode /\ Blank \notin Recipient \cup Passcode
    BY MeansAssumption
  <1>3. \A v, i, k : /\ Given(v, i, k).value = v /\ Given(v, i, k).vouched = i
                     /\ Given(v, i, k).with = k \ {Blank, NoKey}
    BY DEF Given
  <1>4. ASSUME NEW with, got.with \subseteq with, g.with = with \ {Blank, NoKey}
        PROVE  /\ Reach(got.with) \subseteq Reach(g.with) /\ Reach(g.with) = Reach(with)
               /\ sent.cipher \in Aead => sent.pass \in g.with \cup {Blank}
               /\ sent.to \notin g.with \cup {NoKey} => sent.to \notin with \cup {NoKey}
    <2>1. Reach(got.with) \subseteq Reach(g.with) /\ Reach(g.with) = Reach(with)
      BY <1>4, ReachGrows
    <2>2. sent.cipher \in Aead => sent.pass \in g.with \cup {Blank}
      BY <1>1, <1>2, <1>4 DEF Fair, Passes
    <2>3. sent.to \notin g.with \cup {NoKey} => sent.to \notin with \cup {NoKey}
      BY <1>1, <1>2, <1>4 DEF Keys
    <2> QED
      BY <2>1, <2>2, <2>3
  <1>5. u = Noise \/ (~Told(u) /\ Tidy(u) /\ Below(u) \in Stages(Base))
    BY DEF Fair, Told, Size, Placeholder
  <1>6. ASSUME NEW with, got.with \subseteq with, g.with = with \ {Blank, NoKey},
               g.value \in Wrapped(u), u.is \notin {"streamed", "noise"},
               u.is # "sealed" \/ u.to \in with,
               g.vouched => got.vouched
        PROVE  Fair(g)
    <2>1. Below(u) = u /\ StreamsOf(u) = {} /\ ~Told(u) /\ u \in Stages(Base)
      BY <1>5, <1>6 DEF Below, StreamsOf, Noise
    <2>2. g.value \in Stages(Base) /\ g.value \in Sendable
      BY <1>1, <1>6, <2>1
    <2>3. Tidy(g.value) /\ Below(g.value) \in Stages(Base)
      BY <1>1, <2>2, SendableIsTidy
    <2>4. Locks \subseteq Reach(got.with)
      <3>1. SymDiff({}, Locks) = Locks
        BY DEF SymDiff
      <3> QED
        BY <3>1, <2>1 DEF Fair
    <2>5. sent.to \in g.with \cup {NoKey}
      <3>1. SUFFICES ASSUME sent.to \notin g.with \cup {NoKey} PROVE FALSE
        OBVIOUS
      <3>2. sent.to \notin with \cup {NoKey} /\ sent.to \notin got.with \cup {NoKey}
        BY <3>1, <1>4, <1>6
      <3>3. u = Sealed(sent.to, sent.secret)
        BY <3>2, <2>1, <1>1 DEF Fair
      <3> QED
        BY <3>2, <3>3, <1>6 DEF Sealed
    <2>6. got.vouched => u \in Stages(Placed)
      BY <1>1, <2>1 DEF Fair, Told
    <2>7. g.vouched => g.value \in Stages(Placed)
      BY <1>1, <1>6, <2>6
    <2> HIDE DEF u
    <2> QED
      BY <1>4, <1>6, <2>3, <2>4, <2>5, <2>7 DEF Fair
  <1>7. CASE g = Given(Expanded(u), got.vouched, got.with)
    <2>1. g.value = Expanded(u) /\ g.with = got.with \ {Blank, NoKey} /\ g.vouched = got.vouched
      BY <1>7, <1>3
    <2>2. u.is = "compressed" /\ g.value = u.of
      BY <2>1 DEF Expanded
    <2>3. g.value \in Wrapped(u)
      BY <2>2 DEF Wrapped, IsText
    <2> QED
      BY <2>1, <2>2, <2>3, <1>6
  <1>8. ASSUME NEW r \in Recipient, g = Given(Unsealed(r, u), got.vouched, got.with \cup {r})
        PROVE  Fair(g)
    <2>1. /\ g.value = Unsealed(r, u) /\ g.with = (got.with \cup {r}) \ {Blank, NoKey}
          /\ g.vouched = got.vouched
      BY <1>8, <1>3
    <2>2. u.is = "sealed" /\ u.to = r /\ g.value = u.of
      BY <2>1 DEF Unsealed
    <2>3. g.value \in Wrapped(u)
      BY <2>2 DEF Wrapped, IsText
    <2> QED
      BY <2>1, <2>2, <2>3, <1>6
  <1>9. ASSUME NEW c \in Ciphers, NEW p \in Passes,
               g = Given(Unprotected(c, p, u), got.vouched /\ c \in Aead, got.with \cup {p})
        PROVE  Fair(g)
    <2>1. /\ g.value = Unprotected(c, p, u) /\ g.with = (got.with \cup {p}) \ {Blank, NoKey}
          /\ g.vouched = (got.vouched /\ c \in Aead)
      BY <1>9, <1>3
    <2>2. CASE c \notin Keystream
      <3>1. u.is = "protected" /\ g.value = u.of
        BY <2>1, <2>2 DEF Unprotected
      <3>2. g.value \in Wrapped(u)
        BY <3>1 DEF Wrapped, IsText
      <3> QED
        BY <2>1, <3>1, <3>2, <1>6
    <2>3. CASE c \in Keystream
      <3>1. ~g.vouched
        BY <2>1, <2>3 DEF Aead, Keystream
      <3>2. p \in Passcode /\ g.value = Mixed(p, u)
        BY <2>1, <2>3 DEF Unprotected, Passes
      <3>3. CASE u = Noise
        <4>1. g.value = Noise
          BY <3>2, <3>3 DEF Mixed, KeyOver, Noise, Below, StreamsOf, SymDiff, Streamed
        <4> HIDE DEF u
        <4> QED
          BY <4>1, <3>1, <2>1, <1>4 DEF Fair, Told
      <3>4. CASE ~Told(u) /\ Tidy(u) /\ Below(u) \in Stages(Base)
        <4>1. /\ Tidy(g.value) /\ Below(g.value) = Below(u)
              /\ StreamsOf(g.value) = SymDiff(StreamsOf(u), KeyOver(p, u))
          BY <3>2, <3>4, MixedIsTidy
        <4>2. Reach(got.with) \subseteq Reach(g.with) /\ KeyOver(p, Placed) \subseteq Reach(g.with)
          <5>1. Reach(got.with) \subseteq Reach(g.with) /\ Reach(g.with) = Reach(got.with \cup {p})
            BY <2>1, <1>4
          <5>2. KeyOver(p, Placed) \subseteq Reach(got.with \cup {p})
            BY <3>2, ReachGrows
          <5> QED
            BY <5>1, <5>2
        <4>3. ASSUME Below(u) = Base, SymDiff(StreamsOf(u), Locks) \subseteq Reach(got.with)
              PROVE  SymDiff(StreamsOf(g.value), Locks) \subseteq Reach(g.with)
          <5>1. KeyOver(p, u) = KeyOver(p, Placed)
            BY <4>3 DEF KeyOver, Base
          <5>2. \A A, B, C : SymDiff(SymDiff(A, B), C) \subseteq SymDiff(A, C) \cup B
            BY DEF SymDiff
          <5>3. SymDiff(StreamsOf(g.value), Locks)
                    \subseteq SymDiff(StreamsOf(u), Locks) \cup KeyOver(p, Placed)
            BY <4>1, <5>1, <5>2
          <5> QED
            BY <5>3, <4>2, <4>3
        <4>4. \/ Locks \subseteq Reach(g.with)
              \/ Below(g.value) = Base /\ SymDiff(StreamsOf(g.value), Locks) \subseteq Reach(g.with)
          BY <3>4, <4>1, <4>2, <4>3 DEF Fair
        <4>5. sent.to \notin g.with \cup {NoKey} => Below(g.value) = Base
          BY <2>1, <3>4, <4>1, <1>4 DEF Fair
        <4> QED
          BY <2>1, <3>1, <3>4, <4>1, <4>4, <4>5, <1>4 DEF Fair
      <3> QED
        BY <3>3, <3>4, <1>5
    <2> QED
      BY <2>2, <2>3
  <1>10. ASSUME IsText(u), NEW f \in Range(Extract(u.says)),
                g = Given(f.data, got.vouched, got.with)
         PROVE  Fair(g)
    <2>1. g.value = f.data /\ g.with = got.with \ {Blank, NoKey} /\ g.vouched = got.vouched
      BY <1>10, <1>3
    <2>2. u.is = "text"
      BY <1>10 DEF IsText
    <2>3. u \in Sendable
      BY <2>2, <1>1, <1>5 DEF Below, Noise
    <2>4. u \in Notes
      BY <2>2, <2>3, TextsAreNotes
    <2>5. PICK s \in Seq(TokensOf(Boxed)) : u = Note(s) /\ u.says = s
      BY <2>4 DEF Notes, TextsOf, Note
    <2>6. g.value \in Wrapped(u)
      BY <1>10, <2>1, <2>5, ExtractGives
    <2> QED
      BY <2>1, <2>2, <2>6, <1>6
  <1> HIDE DEF u
  <1>11. TakenOff(g, u, got.vouched, got.with)
    BY WaysToUnwrap DEF u
  <1>12. \/ g = Given(Expanded(u), got.vouched, got.with)
         \/ \E r \in Recipient : g = Given(Unsealed(r, u), got.vouched, got.with \cup {r})
         \/ \E c \in Ciphers, p \in Passes :
               g = Given(Unprotected(c, p, u), got.vouched /\ c \in Aead, got.with \cup {p})
         \/ /\ IsText(u)
            /\ \E f \in Range(Extract(u.says)) : g = Given(f.data, got.vouched, got.with)
    BY <1>11, Zenon DEF TakenOff
  <1> QED
    BY <1>7, <1>8, <1>9, <1>10, <1>12

\* Nothing but what is handed over, read and opened changes an answer.
LEMMA FairKeeps == HandedInv /\ FairInv /\ [HandedNext]_handed => FairInv'
PROOF
  <1>1. SUFFICES ASSUME HandedInv, FairInv, [HandedNext]_handed PROVE FairInv'
    OBVIOUS
  <1>2. ASSUME UNCHANGED <<sheet, sent>>, Fair(got') PROVE Fair(got)'
    <2>1. Placed' = Placed
      BY <1>2 DEF Placed, Addressed
    <2>2. Base' = Base /\ Stages(Base') = Stages(Base) /\ Stages(Placed') = Stages(Placed)
      BY <2>1 DEF Base
    <2>3. Locks' = Locks
      BY <1>2, <2>1 DEF Locks
    <2>4. Reach(got'.with) = Reach(got.with)'
      BY <2>1 DEF Reach
    <2>5. Astray(got'.with) = Astray(got.with)'
      BY <1>2, <2>1, <2>4 DEF Astray
    <2> QED
      BY <1>2, <2>2, <2>3, <2>4, <2>5 DEF Fair
  <1>3. ASSUME UNCHANGED <<sheet, sent, got>> PROVE FairInv'
    <2>1. CASE got = Nothing
      BY <1>3, <2>1 DEF FairInv, Nothing
    <2>2. CASE Fair(got)
      BY <1>2, <1>3, <2>2 DEF FairInv
    <2> QED
      BY <1>1, <2>1, <2>2 DEF FairInv
  <1>4. ASSUME got = Nothing, got' = got PROVE FairInv'
    BY <1>4 DEF FairInv, Nothing
  <1>5. CASE Read
    <2>1. AtHand /\ UNCHANGED <<sheet, sent>>
      BY <1>1, <1>5 DEF Read, AtHand
    <2>2. got' \in Readings /\ got'.value # Refusal
      BY <1>5 DEF Read
    <2>3. Fair(got')
      BY <2>1, <2>2, ReadingsAreFair
    <2> QED
      BY <2>1, <2>3, <1>2 DEF FairInv
  <1>6. CASE Unwrap
    <2>1. UNCHANGED <<sheet, sent>> /\ got # Nothing
      BY <1>6 DEF Unwrap
    <2>2. AtHand /\ Fair(got)
      BY <1>1, <2>1 DEF AtHand, HandedInv, Posted, FairInv
    <2>3. /\ got' \in Unwrapped(got.value, got.vouched, got.with) /\ got'.value # Refusal
          /\ got.value.is \notin {"size", "placeholder"}
      BY <1>6 DEF Unwrap
    <2>4. Fair(got')
      BY <2>2, <2>3, UnwrappedIsFair
    <2> QED
      BY <2>1, <2>4, <1>2 DEF FairInv
  <1>7. CASE Write
    <2>1. got = Nothing /\ got' = got
      BY <1>1, <1>7 DEF Write, Preparing, HandedInv, Posted
    <2> QED
      BY <2>1, <1>4
  <1>8. CASE Export
    BY <1>8, <1>4 DEF Export
  <1>9. CASE Compress \/ Protect \/ Seal \/ Attach \/ DetachAll \/ UNCHANGED handed
    BY <1>3, <1>9 DEF Compress, Protect, Seal, Attach, DetachAll, Bench, handed
  <1> QED
    BY <1>1, <1>5, <1>6, <1>7, <1>8, <1>9 DEF HandedNext

\* The invariants hold of every behaviour.
LEMMA HandedInvariant == HandedSpec => [](HandedInv /\ FairInv)
PROOF
  <1>1. HandedInit => HandedInv /\ FairInv
    <2>1. HandedInit => FairInv
      BY DEF HandedInit, FairInv
    <2> QED
      BY <2>1, HandedStarts
  <1>2. HandedInv /\ FairInv /\ [HandedNext]_handed => (HandedInv /\ FairInv)'
    BY HandedKeeps, FairKeeps
  <1> QED
    BY <1>1, <1>2, PTL DEF HandedSpec

-----------------------------------------------------------------------------
(* The promises.                                                           *)

\* Whatever a reader is told to be intact is what the writer hid or is wrapped in
\* it, or what a keystream made of it under other passcodes than the writer's, for
\* every set of ciphers, passcodes, recipients and notes, and every order of
\* preparing, writing, exporting, reading and opening (decode, run_reveal,
\* reveal_core, handle_decode, run_unprotect_payload, pqc::open).
THEOREM AnswersStayTrue == HandedSpec => []AnswersAreTrue
PROOF
  <1>1. HandedInv /\ FairInv => AnswersAreTrue
    <2>1. SUFFICES ASSUME HandedInv, FairInv, got.vouched PROVE AnswersAreTrue
      BY DEF AnswersAreTrue
    <2>2. Fair(got)
      BY <2>1 DEF FairInv, Nothing
    <2>3. Brought = Reach(got.with)
      BY DEF Brought, Reach
    <2> QED
      BY <2>1, <2>2, <2>3 DEF Fair, AnswersAreTrue, Explained, Size, Placeholder, Astray, Base
  <1> QED
    BY <1>1, HandedInvariant, PTL

\* Nobody has the secret who did not bring what it was locked with: the key it
\* was sealed to, the passcode of a cipher with a tag, and every keystream still
\* on it in the document; and the surfaces that refuse a blank passcode have locked
\* what they were asked to (crypto_selection, cipher_from, compose_core,
\* run_conceal, conceal_file, run_protect_payload, Xor::derive_key).
THEOREM OnlyTheAddressedRead == HandedSpec => []OnlyTheAddressed
PROOF
  <1>1. HandedInv /\ FairInv => OnlyTheAddressed
    <2>1. SUFFICES ASSUME HandedInv, FairInv PROVE OnlyTheAddressed
      OBVIOUS
    <2>2. CASE sheet = Unmarked
      <3>1. /\ sent.to = NoKey /\ sent.pass = Blank /\ sent.cipher = Clear
            /\ Placed = Refusal /\ Clear \notin Keystream /\ Clear \notin Aead
        BY <2>1, <2>2 DEF HandedInv, Posted, NotSent, SentAs, Request, Placed, Addressed,
                          Clear, Keystream, Aead
      <3>2. Locks = {}
        BY <3>1 DEF Locks, StreamsOf, Refusal
      <3> QED
        BY <3>1, <3>2 DEF OnlyTheAddressed
    <2>3. CASE sheet # Unmarked
      <3>1. AtHand
        BY <2>1, <2>3 DEF AtHand
      <3>2. /\ Asked(sent) /\ sent.secret \in Sendable
            /\ \A v \in Stages(Placed) \cup Stages(Base) : v \in Sendable
            /\ sent.to # NoKey => Base = Placed
            /\ \A v \in Sendable : ~Told(v) /\ v # Refusal
        BY <3>1, PlacedIsStaged, KindsOfValues
      <3>3. \A v \in Stages(sent.secret) : v \in Sendable
        BY <3>2, StagesAreAll
      <3>4. Brought = Reach(got.with)
        BY DEF Brought, Reach
      <3>5. Below(Refusal) = Refusal /\ \A v : Told(v) => Below(v) = v
        BY DEF Below, Refusal, Told, Noise, Size, Placeholder
      <3>6. ASSUME Below(got.value) \in Sendable PROVE Fair(got) /\ ~Told(got.value)
        BY <2>1, <3>2, <3>5, <3>6 DEF FairInv, Nothing
      <3>7. Below(got.value) \in Stages(sent.secret) \ {Placed} => sent.to \in got.with \cup {NoKey}
        BY <3>2, <3>3, <3>6 DEF Fair
      <3>8. sent.cipher \in Aead /\ Below(got.value) \in Stages(Placed) =>
                sent.pass \in got.with \cup {Blank}
        BY <3>2, <3>6 DEF Fair
      <3>9. ASSUME StreamsOf(got.value) = {}, got.value \in Stages(Base) PROVE Locks \subseteq Brought
        <4>1. Below(got.value) \in Sendable
          BY <3>2, <3>9, SendableIsTidy
        <4>2. SymDiff({}, Locks) = Locks
          BY DEF SymDiff
        <4> QED
          BY <3>4, <3>6, <3>9, <4>1, <4>2 DEF Fair
      <3>10. sent.cipher # Clear /\ sent.by \notin {"cli", "http"} => sent.pass # Blank
        BY <3>2 DEF Asked
      <3> QED
        BY <3>7, <3>8, <3>9, <3>10 DEF OnlyTheAddressed, Base
    <2> QED
      BY <2>2, <2>3
  <1> QED
    BY <1>1, HandedInvariant, PTL

\* What was handed over as it was written reads back on the surface that wrote it
\* and with an agent (compose against reveal, compose_sealed against reveal_sealed,
\* Encode against Decode, handle_encode against handle_decode, file_conceal against
\* file_decode, each against run_reveal).
THEOREM OwnersAlwaysRead == HandedSpec => []OwnersRead
PROOF
  <1>1. HandedInv => OwnersRead
    <2>1. SUFFICES ASSUME HandedInv, sheet # Unmarked, ~sheet.old, ~sheet.hurt,
                          sheet.over = sent.over, NEW g \in OwnReadings
                   PROVE  g.value = sent.secret /\ g.vouched
      BY DEF OwnersRead
    <2>2. AtHand
      BY <2>1 DEF AtHand
    <2>3. /\ Asked(sent) /\ sent.secret \in Benched
          /\ sent.to # NoKey => Placed = Sealed(sent.to, sent.secret)
          /\ sent.to = NoKey => Placed = sent.secret
          /\ Placed # Refusal
      BY <2>2, PlacedIsStaged DEF Told
    <2>4. /\ sheet.sound
          /\ sheet.cipher = IF sent.pass = Blank THEN Clear ELSE sent.cipher
          /\ sheet.body = IF sheet.cipher = Clear THEN Placed
                          ELSE Enciphered(sheet.cipher, sent.pass, Placed)
          /\ sent.by # "agent" => sent.secret \in Notes
          /\ Placed \in Sendable /\ Tidy(Placed)
      BY <2>1, <2>2, PlacedIsStaged DEF HandedInv, Posted, Kept
    <2>5. ASSUME NEW cands, NEW offered, NEW d, d = Decode(cands, offered, sent.pass),
                 sent.over \cap cands # {}, sheet.cipher \in offered \cup {Clear}
          PROVE  d.value = Placed /\ d.integrity
      <3>1. Reverted(offered, sent.pass) = Placed
        <4>1. CASE sheet.cipher = Clear
          BY <4>1, <2>4 DEF Reverted
        <4>2. CASE sheet.cipher # Clear
          <5>1. sent.pass # Blank
            BY <4>2, <2>4
          <5>2. Reverted(offered, sent.pass)
                    = Unprotected(sheet.cipher, sent.pass,
                                  Enciphered(sheet.cipher, sent.pass, Placed))
            BY <4>2, <2>4, <2>5 DEF Reverted
          <5>3. Mixed(sent.pass, Mixed(sent.pass, Placed)) = Placed
            BY <2>4, MixedTwice
          <5> QED
            BY <5>1, <5>2, <5>3 DEF Unprotected, Enciphered, Ciphered
        <4> QED
          BY <4>1, <4>2
      <3>2. Damaged(Placed) = Placed
        BY <2>4 DEF Damaged
      <3> QED
        BY <2>1, <2>3, <2>5, <3>1, <3>2 DEF Decode
    <2>6. Opened(sent.to, Placed) = sent.secret
      BY <2>3 DEF Opened, Unsealed, Sealed
    <2>7. \A v, i, k : Given(v, i, k).value = v /\ Given(v, i, k).vouched = i
      BY DEF Given
    <2>8. /\ sheet.cipher \in Aead \cup Keystream \cup {Clear}
          /\ sent.over \cap Carrier # {} /\ sent.over \cap sent.over # {}
          /\ \A c \in sent.over : sent.over \cap {c} # {}
      BY <2>3, <2>4, CiphersAssumption DEF Asked
    <2>9. sent.by # "agent" =>
              AsText(sent.secret) = sent.secret /\ InWords(sent.secret) = sent.secret
      BY <2>4, TextsWrap DEF AsText, InWords, Notes
    <2>10. ASSUME NEW s, sent.over \cap s # {},
                  g = RunReveal(s, Aead \cup Keystream, sent.pass, sent.to, FALSE)
           PROVE  g.value = sent.secret /\ g.vouched
      BY <2>5, <2>6, <2>7, <2>8, <2>10 DEF RunReveal
    <2>11. ASSUME NEW s, sent.over \cap s # {}, NEW r \in {sent.to}, sent.by # "agent",
                  g = RevealCore(s, sent.pass, r)
           PROVE  g.value = sent.secret /\ g.vouched
      BY <2>5, <2>6, <2>7, <2>8, <2>9, <2>11 DEF RevealCore
    <2>12. ASSUME NEW c \in sent.over, sheet.cipher \in {Clear, "chacha20_poly1305"},
                  g = DecodeCommand(c, sent.pass, sent.to)
           PROVE  g.value = sent.secret /\ g.vouched
      BY <2>5, <2>6, <2>7, <2>8, <2>12 DEF DecodeCommand
    <2>13. ASSUME NEW c \in sent.over, sent.by = "http", g = HandleDecode(c, sent.pass)
           PROVE  g.value = sent.secret /\ g.vouched
      <3>1. sheet.cipher \in {Clear, "chacha20_poly1305"} /\ sent.to = NoKey
        BY <2>3, <2>4, <2>13 DEF Asked
      <3>2. Decode({c}, {"chacha20_poly1305"}, sent.pass).value = sent.secret
            /\ Decode({c}, {"chacha20_poly1305"}, sent.pass).integrity
        BY <3>1, <2>3, <2>5, <2>8
      <3> QED
        BY <3>2, <2>7, <2>9, <2>13 DEF HandleDecode
    <2>14. \/ g \in {RunReveal(s, Aead \cup Keystream, sent.pass, sent.to, FALSE) :
                        s \in {t \in Chosen : t \cap sent.over # {}}}
           \/ /\ sent.by = "desktop" /\ sent.to = NoKey
              /\ g \in {Reveal(s, sent.pass) :
                           s \in {sent.over, Carrier} \cap (Single \cup {Carrier})}
           \/ /\ sent.by = "desktop file"
              /\ g \in {FileDecode(s, sent.pass) :
                           s \in {sent.over, Carrier} \cap (Single \cup {Carrier})}
           \/ /\ sent.by = "desktop" /\ sent.to # NoKey
              /\ g \in {RevealSealed(Carrier, sent.to)}
           \/ /\ \/ sent.by = "cli"
                 \/ sent.by = "cli file" /\ sent.cipher \in {Clear, "chacha20_poly1305"}
              /\ g \in {DecodeCommand(c, sent.pass, sent.to) : c \in sent.over}
           \/ sent.by = "http" /\ g \in {HandleDecode(c, sent.pass) : c \in sent.over}
      <3> DEFINE agent == {RunReveal(s, Aead \cup Keystream, sent.pass, sent.to, FALSE) :
                              s \in {t \in Chosen : t \cap sent.over # {}}}
                 desk == {Reveal(s, sent.pass) :
                             s \in {sent.over, Carrier} \cap (Single \cup {Carrier})}
                 filed == {FileDecode(s, sent.pass) :
                             s \in {sent.over, Carrier} \cap (Single \cup {Carrier})}
                 sealed == {RevealSealed(Carrier, sent.to)}
                 cli == {DecodeCommand(c, sent.pass, sent.to) : c \in sent.over}
                 http == {HandleDecode(c, sent.pass) : c \in sent.over}
                 known == sent.by = "cli file" /\ sent.cipher \in {Clear, "chacha20_poly1305"}
      <3>1. OwnReadings = agent \cup
               (CASE sent.by = "desktop" /\ sent.to = NoKey -> desk
                  [] sent.by = "desktop file" -> filed
                  [] sent.by = "desktop" /\ sent.to # NoKey -> sealed
                  [] sent.by = "cli" \/ known -> cli
                  [] sent.by = "http" -> http
                  [] OTHER -> {})
        BY DEF OwnReadings
      <3> HIDE DEF agent, desk, filed, sealed, cli, http
      <3>2. \/ g \in agent
            \/ sent.by = "desktop" /\ sent.to = NoKey /\ g \in desk
            \/ sent.by = "desktop file" /\ g \in filed
            \/ sent.by = "desktop" /\ sent.to # NoKey /\ g \in sealed
            \/ (sent.by = "cli" \/ known) /\ g \in cli
            \/ sent.by = "http" /\ g \in http
        BY <2>1, <3>1
      <3> QED
        BY <3>2 DEF agent, desk, filed, sealed, cli, http
    <2>15. CASE g \in {RunReveal(s, Aead \cup Keystream, sent.pass, sent.to, FALSE) :
                        s \in {t \in Chosen : t \cap sent.over # {}}}
      <3>1. PICK s \in {t \in Chosen : t \cap sent.over # {}} :
               g = RunReveal(s, Aead \cup Keystream, sent.pass, sent.to, FALSE)
        BY <2>15
      <3> QED
        BY <3>1, <2>10
    <2>16. CASE /\ sent.by \in {"desktop", "desktop file"} /\ sent.to = NoKey
                /\ g \in {Reveal(s, sent.pass) :
                           s \in {sent.over, Carrier} \cap (Single \cup {Carrier})}
      <3>1. PICK s \in {sent.over, Carrier} : g = Reveal(s, sent.pass)
        BY <2>16
      <3>2. g = RevealCore(s, sent.pass, NoKey)
        BY <3>1 DEF Reveal
      <3> QED
        BY <3>1, <3>2, <2>8, <2>11, <2>16
    <2>17. CASE sent.by = "desktop" /\ sent.to # NoKey /\ g \in {RevealSealed(Carrier, sent.to)}
      <3>1. sent.pass = Blank
        BY <2>3, <2>17 DEF Asked
      <3>2. g = RevealCore(Carrier, sent.pass, sent.to)
        BY <2>17, <3>1 DEF RevealSealed
      <3> QED
        BY <3>2, <2>8, <2>11, <2>17
    <2>18. CASE /\ \/ sent.by = "cli"
                   \/ sent.by = "cli file" /\ sent.cipher \in {Clear, "chacha20_poly1305"}
                /\ g \in {DecodeCommand(c, sent.pass, sent.to) : c \in sent.over}
      <3>1. PICK c \in sent.over : g = DecodeCommand(c, sent.pass, sent.to)
        BY <2>18
      <3>2. sheet.cipher \in {Clear, "chacha20_poly1305"}
        BY <2>3, <2>4, <2>18 DEF Asked
      <3> QED
        BY <3>1, <3>2, <2>12
    <2>19. CASE sent.by = "http" /\ g \in {HandleDecode(c, sent.pass) : c \in sent.over}
      BY <2>13, <2>19
    <2>20. \A s, p : FileDecode(s, p) = Reveal(s, p)
      BY DEF FileDecode
    <2> QED
      BY <2>3, <2>14, <2>15, <2>16, <2>17, <2>18, <2>19, <2>20 DEF Asked
  <1> QED
    BY <1>1, HandedInvariant, PTL

-----------------------------------------------------------------------------
(* Attachments: what went into a note comes out of it.                     *)

\* What is looked for is found at its first place.
LEMMA FirstIsFound ==
    ASSUME NEW T, NEW s \in Seq(T), NEW k, NEW from \in Nat, NEW m \in from..Len(s),
           s[m].tok = k, \A i \in from..(m - 1) : s[i].tok # k
    PROVE  FirstOf(k, s, from) = m
PROOF
  <1> DEFINE found == {i \in from..Len(s) : s[i].tok = k}
  <1>1. m \in found /\ \A i \in found : m <= i
    OBVIOUS
  <1>2. \A x \in found : (\A i \in found : x <= i) => x = m
    <2>1. SUFFICES ASSUME NEW x \in found, \A i \in found : x <= i PROVE x = m
      OBVIOUS
    <2>2. x <= m /\ m <= x /\ x \in Int /\ m \in Int
      BY <1>1, <2>1
    <2> QED
      BY <2>2
  <1>3. FirstOf(k, s, from) = Min(found)
    BY <1>1 DEF FirstOf
  <1> HIDE DEF found
  <1>4. Min(found) = m
    BY <1>1, <1>2 DEF Min
  <1> QED
    BY <1>3, <1>4

\* Without an opening there is no block.
LEMMA NoBlock ==
    ASSUME NEW T, NEW s \in Seq(T), NEW from \in Nat,
           \A i \in from..Len(s) : s[i].tok # "open"
    PROVE  NextBlock(s, from) = <<0, 0>>
PROOF
  <1>1. FirstOf("open", s, from) = 0
    BY DEF FirstOf
  <1> QED
    BY <1>1 DEF NextBlock

\* The same places of two texts that begin alike.
LEMMA SubSeqAlike ==
    ASSUME NEW T, NEW s \in Seq(T), NEW t \in Seq(T), NEW n \in Nat, n <= Len(s), n <= Len(t),
           \A i \in 1..n : s[i] = t[i], NEW a \in Nat \ {0}, NEW b \in Nat, b <= n
    PROVE  SubSeq(s, a, b) = SubSeq(t, a, b)
PROOF
  <1>1. \A i \in a..b : s[i] \in T /\ t[i] \in T /\ s[i] = t[i]
    OBVIOUS
  <1>2. /\ SubSeq(s, a, b) \in Seq(T) /\ SubSeq(t, a, b) \in Seq(T)
        /\ Len(SubSeq(s, a, b)) = IF a <= b THEN b - a + 1 ELSE 0
        /\ Len(SubSeq(t, a, b)) = IF a <= b THEN b - a + 1 ELSE 0
        /\ \A i \in 1..(b - a + 1) : /\ SubSeq(s, a, b)[i] = s[a + i - 1]
                                     /\ SubSeq(t, a, b)[i] = t[a + i - 1]
    BY <1>1, SubSeqProperties
  <1>3. \A i \in 1..Len(SubSeq(s, a, b)) :
            i \in 1..(b - a + 1) /\ SubSeq(s, a, b)[i] = SubSeq(t, a, b)[i]
    <2>1. SUFFICES ASSUME NEW i \in 1..Len(SubSeq(s, a, b))
                   PROVE  i \in 1..(b - a + 1) /\ SubSeq(s, a, b)[i] = SubSeq(t, a, b)[i]
      OBVIOUS
    <2>2. i \in 1..(b - a + 1) /\ a + i - 1 \in a..b
      BY <1>2
    <2> QED
      BY <2>2, <1>1, <1>2
  <1> QED
    BY <1>2, <1>3, SeqEqual

\* Where something is found nothing like it stands before, and where it is not
\* found nowhere.
LEMMA FirstIsFirst ==
    ASSUME NEW T, NEW s \in Seq(T), NEW from \in Nat \ {0}, NEW k, NEW m, m = FirstOf(k, s, from)
    PROVE  /\ m = 0 => \A i \in from..Len(s) : s[i].tok # k
           /\ m # 0 => /\ m \in from..Len(s) /\ s[m].tok = k
                       /\ \A i \in from..(m - 1) : s[i].tok # k
PROOF
  <1> DEFINE found == {i \in from..Len(s) : s[i].tok = k}
  <1>1. CASE found = {}
    BY <1>1 DEF FirstOf
  <1>2. CASE found # {}
    <2>1. found \in SUBSET Nat
      OBVIOUS
    <2>2. \E x \in found : \A j \in found : x <= j
      BY <1>2, <2>1, Least
    <2>3. Min(found) \in found /\ \A j \in found : Min(found) <= j
      BY <2>2 DEF Min
    <2>4. m = Min(found)
      BY <1>2 DEF FirstOf
    <2> HIDE DEF found
    <2>5. m \in found /\ \A j \in found : m <= j
      BY <2>3, <2>4
    <2>6. m \in from..Len(s) /\ s[m].tok = k /\ m # 0
      BY <2>5 DEF found
    <2>7. \A i \in from..(m - 1) : i \notin found /\ i \in from..Len(s)
      BY <2>5, <2>6
    <2>8. \A i \in from..(m - 1) : s[i].tok # k
      BY <2>7 DEF found
    <2> QED
      BY <2>6, <2>8
  <1> QED
    BY <1>1, <1>2

\* Behind every opening there is a close.
Closed(t) ==
    \A i \in 1..Len(t) : t[i].tok = "open" => \E j \in (i + 1)..Len(t) : t[j].tok = "close"

\* Where every opening is closed, no block is no opening.
LEMMA BlockOrNone ==
    ASSUME NEW T, NEW t \in Seq(T), Closed(t), NEW from \in Nat \ {0}, NextBlock(t, from)[1] = 0
    PROVE  \A i \in from..Len(t) : t[i].tok # "open"
PROOF
  <1> DEFINE o == FirstOf("open", t, from)
             c == FirstOf("close", t, o + 1)
  <1>1. o # 0 => o \in from..Len(t) /\ t[o].tok = "open"
    BY FirstIsFirst
  <1>2. o # 0 => o + 1 \in Nat \ {0} /\ \E j \in (o + 1)..Len(t) : t[j].tok = "close"
    BY <1>1 DEF Closed
  <1>3. o # 0 => c # 0
    BY <1>2, FirstIsFirst
  <1>4. o = 0
    <2> HIDE DEF o, c
    <2>1. NextBlock(t, from) = IF o = 0 \/ c = 0 THEN <<0, 0>> ELSE <<o, c>>
      BY DEF NextBlock, o, c
    <2> QED
      BY <2>1, <1>3
  <1> QED
    BY <1>4, FirstIsFirst

\* A block of a text is one of every text that begins so, and the same file.
LEMMA BlockStays ==
    ASSUME NEW T, NEW t \in Seq(T), NEW s \in Seq(T), Len(t) <= Len(s),
           \A i \in 1..Len(t) : s[i] = t[i],
           NEW from \in Nat \ {0}, NextBlock(t, from)[1] # 0
    PROVE  /\ NextBlock(s, from) = NextBlock(t, from)
           /\ FileIn(s, NextBlock(t, from)) = FileIn(t, NextBlock(t, from))
PROOF
  <1>0. Len(t) \in Nat /\ Len(s) \in Nat
    OBVIOUS
  <1>1. ASSUME NEW k, NEW p \in Nat \ {0}, FirstOf(k, t, p) # 0
        PROVE  FirstOf(k, s, p) = FirstOf(k, t, p)
    <2> DEFINE m == FirstOf(k, t, p)
    <2>1. m \in p..Len(t) /\ t[m].tok = k /\ \A i \in p..(m - 1) : t[i].tok # k
      BY <1>1, FirstIsFirst
    <2> HIDE DEF m
    <2>2. m \in p..Len(s) /\ s[m].tok = k /\ \A i \in p..(m - 1) : s[i].tok # k
      BY <2>1, <1>0
    <2>3. FirstOf(k, s, p) = m
      BY <2>2, FirstIsFound
    <2> QED
      BY <2>3 DEF m
  <1> DEFINE o == FirstOf("open", t, from)
             c == FirstOf("close", t, o + 1)
  <1>2. o # 0 /\ c # 0 /\ NextBlock(t, from) = <<o, c>>
    BY DEF NextBlock
  <1>3. o \in from..Len(t) /\ o + 1 \in Nat \ {0} /\ c \in (o + 1)..Len(t)
    <2>1. o \in from..Len(t)
      BY <1>2, FirstIsFirst
    <2>2. o + 1 \in Nat \ {0}
      BY <2>1
    <2> QED
      BY <2>1, <2>2, <1>2, FirstIsFirst
  <1>4. NextBlock(s, from) = <<o, c>>
    <2>1. FirstOf("open", s, from) = o
      BY <1>1, <1>2
    <2>2. FirstOf("close", s, o + 1) = c
      BY <1>1, <1>2, <1>3
    <2> HIDE DEF o, c
    <2> QED
      BY <2>1, <2>2, <1>2 DEF NextBlock
  <1> HIDE DEF o, c
  <1>5. \A a \in Nat \ {0}, d \in Nat : d <= Len(t) => SubSeq(s, a, d) = SubSeq(t, a, d)
    BY <1>0, SubSeqAlike
  <1>6. FileIn(s, <<o, c>>) = FileIn(t, <<o, c>>)
    <2> DEFINE u == SubSeq(t, 1, c)
               bar == FirstOf("bar", u, o + 1)
    <2>1. SubSeq(s, 1, c) = u
      BY <1>3, <1>5
    <2>2. u \in Seq(T) /\ Len(u) = c
      <3>1. \A i \in 1..c : t[i] \in T
        BY <1>3
      <3> QED
        BY <3>1, <1>3, SubSeqProperties
    <2> HIDE DEF u
    <2>3. bar = 0 \/ bar \in (o + 1)..c
      <3>1. bar = 0 \/ bar \in (o + 1)..Len(u)
        BY <2>2, <1>3, FirstIsFirst
      <3> QED
        BY <3>1, <2>2
    <2> HIDE DEF bar
    <2>4. CASE bar = 0
      BY <2>1, <2>4 DEF FileIn, u, bar
    <2>5. CASE bar # 0
      <3>1. SubSeq(s, o + 1, bar - 1) = SubSeq(t, o + 1, bar - 1)
        <4>1. o + 1 \in Nat \ {0} /\ bar - 1 \in Nat /\ bar - 1 <= Len(t)
          BY <2>3, <2>5, <1>3
        <4> QED
          BY <4>1, <1>5
      <3>2. SubSeq(s, bar + 1, c - 1) = SubSeq(t, bar + 1, c - 1)
        <4>1. bar + 1 \in Nat \ {0} /\ c - 1 \in Nat /\ c - 1 <= Len(t)
          BY <2>3, <2>5, <1>3
        <4> QED
          BY <4>1, <1>5
      <3>3. FirstOf("bar", SubSeq(s, 1, c), o + 1) = bar
        BY <2>1 DEF bar
      <3> QED
        BY <3>1, <3>2, <3>3 DEF FileIn, u, bar
    <2> QED
      BY <2>4, <2>5
  <1> QED
    BY <1>2, <1>4, <1>6

\* What stands where when one text follows another.
LEMMA Joined ==
    ASSUME NEW T, NEW s \in Seq(T), NEW t \in Seq(T), NEW u, u = s \o t
    PROVE  /\ Len(s) \in Nat /\ Len(t) \in Nat
           /\ u \in Seq(T) /\ Len(u) = Len(s) + Len(t)
           /\ \A i \in 1..Len(s) : u[i] = s[i]
           /\ \A i \in 1..Len(t) : u[Len(s) + i] = t[i]
OBVIOUS

\* A text that something is attached to by a name without a bar or a close.
Lengthened(T, t, name, v, s) ==
    /\ t \in Seq(T) /\ name \in Seq(T) /\ s = Embed(t, name, v)
    /\ {Token("open"), Token("bar"), Token("close"), Data(v)} \subseteq T
    /\ \A i \in 1..Len(name) : name[i].tok \notin {"bar", "close"}

\* Where everything stands in it.
LEMMA LengthenedPlaces ==
    ASSUME NEW T, NEW t, NEW name, NEW v, NEW s, Lengthened(T, t, name, v, s)
    PROVE  /\ Len(t) \in Nat /\ Len(name) \in Nat
           /\ s \in Seq(T) /\ Len(s) = Len(t) + Len(name) + 4
           /\ \A i \in 1..Len(t) : s[i] = t[i]
           /\ s[Len(t) + 1] = Token("open") /\ s[Len(t) + Len(name) + 2] = Token("bar")
           /\ s[Len(t) + Len(name) + 3] = Data(v) /\ s[Len(t) + Len(name) + 4] = Token("close")
           /\ \A i \in 1..Len(name) : s[Len(t) + 1 + i] = name[i]
PROOF
  <1> DEFINE n == Len(t)
             m == Len(name)
  <1> DEFINE y == <<Token("open")>>
             z == <<Token("bar"), Data(v), Token("close")>>
             a == t \o y
             b == a \o name
  <1>1. t \in Seq(T) /\ name \in Seq(T) /\ y \in Seq(T) /\ z \in Seq(T)
    BY DEF Lengthened
  <1>2. /\ Len(y) = 1 /\ y[1] = Token("open")
        /\ Len(z) = 3 /\ z[1] = Token("bar") /\ z[2] = Data(v) /\ z[3] = Token("close")
    OBVIOUS
  <1>3. s = b \o z
    BY DEF Lengthened, Embed
  <1> HIDE DEF y, z
  <1>4. /\ n \in Nat /\ m \in Nat /\ a \in Seq(T) /\ Len(a) = n + 1
        /\ \A i \in 1..n : a[i] = t[i]
        /\ a[n + 1] = Token("open")
    <2>1. /\ Len(t) \in Nat /\ a \in Seq(T) /\ Len(a) = Len(t) + Len(y)
          /\ \A i \in 1..Len(t) : a[i] = t[i]
          /\ \A i \in 1..Len(y) : a[Len(t) + i] = y[i]
      BY <1>1, Joined
    <2> HIDE DEF a
    <2>2. 1 \in 1..Len(y) /\ Len(name) \in Nat
      BY <1>1, <1>2
    <2> QED
      BY <2>1, <2>2, <1>2
  <1> HIDE DEF a
  <1>5. /\ b \in Seq(T) /\ Len(b) = n + 1 + m
        /\ \A i \in 1..(n + 1) : b[i] = a[i]
        /\ \A i \in 1..m : b[n + 1 + i] = name[i]
    <2>1. /\ b \in Seq(T) /\ Len(b) = Len(a) + Len(name)
          /\ \A i \in 1..Len(a) : b[i] = a[i]
          /\ \A i \in 1..Len(name) : b[Len(a) + i] = name[i]
      <3>1. a \in Seq(T) /\ name \in Seq(T)
        BY <1>1, <1>4
      <3> QED
        BY <3>1, Joined
    <2> HIDE DEF b
    <2> QED
      BY <2>1, <1>4
  <1> HIDE DEF b
  <1>6. /\ s \in Seq(T) /\ Len(s) = n + 1 + m + 3
        /\ \A i \in 1..(n + 1 + m) : s[i] = b[i]
        /\ \A i \in 1..3 : s[n + 1 + m + i] = z[i]
    <2>1. /\ s \in Seq(T) /\ Len(s) = Len(b) + Len(z)
          /\ \A i \in 1..Len(b) : s[i] = b[i]
          /\ \A i \in 1..Len(z) : s[Len(b) + i] = z[i]
      <3>1. b \in Seq(T) /\ z \in Seq(T)
        BY <1>1, <1>5
      <3> QED
        BY <3>1, <1>3, Joined
    <2> QED
      BY <2>1, <1>2, <1>5
  <1>7. /\ n + 1 + m + 1 = n + m + 2 /\ n + 1 + m + 2 = n + m + 3 /\ n + 1 + m + 3 = n + m + 4
    BY <1>4
  <1>8. s[n + m + 2] = z[1] /\ s[n + m + 3] = z[2] /\ s[n + m + 4] = z[3]
    <2>1. s[n + 1 + m + 1] = z[1] /\ s[n + 1 + m + 2] = z[2] /\ s[n + 1 + m + 3] = z[3]
      BY <1>6
    <2> QED
      BY <2>1, <1>7
  <1>9. \A i \in 1..n : s[i] = t[i]
    BY <1>4, <1>5, <1>6
  <1>10. s[n + 1] = Token("open")
    BY <1>4, <1>5, <1>6
  <1>11. \A i \in 1..m : s[n + 1 + i] = name[i]
    BY <1>4, <1>5, <1>6
  <1> QED
    BY <1>2, <1>4, <1>6, <1>7, <1>8, <1>9, <1>10, <1>11

\* The opening of what was attached is closed by its own close, and what the two
\* hold is the file.
LEMMA BlockIsLast ==
    ASSUME NEW T, NEW t, NEW name, NEW v, NEW s, Lengthened(T, t, name, v, s),
           NEW from \in Nat \ {0}, from <= Len(t) + 1, \A i \in from..Len(t) : t[i].tok # "open"
    PROVE  /\ NextBlock(s, from) = <<Len(t) + 1, Len(s)>>
           /\ FileIn(s, <<Len(t) + 1, Len(s)>>) = <<[name |-> name, data |-> v]>>
PROOF
  <1> DEFINE n == Len(t)
             m == Len(name)
             o == n + 1
             c == n + m + 4
  <1>1. /\ n \in Nat /\ m \in Nat /\ s \in Seq(T) /\ Len(s) = c
        /\ \A i \in 1..n : s[i] = t[i]
        /\ s[n + 1] = Token("open") /\ s[n + m + 2] = Token("bar")
        /\ s[n + m + 3] = Data(v) /\ s[n + m + 4] = Token("close")
        /\ \A i \in 1..m : s[n + 1 + i] = name[i]
    BY LengthenedPlaces
  <1>2. name \in Seq(T) /\ \A i \in 1..m : name[i].tok \notin {"bar", "close"}
    BY DEF Lengthened
  <1>3. /\ s[o].tok = "open" /\ s[n + m + 2].tok = "bar" /\ s[n + m + 3].tok = "data"
        /\ s[n + m + 3].of = v /\ s[c].tok = "close"
    BY <1>1 DEF Token, Data
  <1>4. \A i \in (o + 1)..(o + m) : s[i] = name[i - o] /\ s[i].tok \notin {"bar", "close"}
    <2>1. SUFFICES ASSUME NEW i \in (o + 1)..(o + m)
                   PROVE  s[i] = name[i - o] /\ s[i].tok \notin {"bar", "close"}
      OBVIOUS
    <2>2. i - o \in 1..m /\ n + 1 + (i - o) = i
      BY <1>1
    <2>3. s[n + 1 + (i - o)] = name[i - o]
      BY <2>2, <1>1
    <2> QED
      BY <2>2, <2>3, <1>2
  <1>5. FirstOf("open", s, from) = o
    <2>1. from \in Nat /\ o \in from..Len(s) /\ \A i \in from..(o - 1) : s[i].tok # "open"
      BY <1>1
    <2> HIDE DEF o
    <2> QED
      BY <2>1, <1>1, <1>3, FirstIsFound
  <1>6. FirstOf("close", s, o + 1) = c
    <2>1. o + 1 \in Nat /\ c \in (o + 1)..Len(s)
      BY <1>1
    <2>2. ASSUME NEW i \in (o + 1)..(c - 1) PROVE s[i].tok # "close"
      <3>1. n \in Nat /\ m \in Nat
        BY <1>1
      <3> HIDE DEF n, m
      <3>2. i \in (o + 1)..(o + m) \/ i = n + m + 2 \/ i = n + m + 3
        BY <3>1
      <3> QED
        BY <3>2, <1>3, <1>4
    <2> HIDE DEF o, c
    <2> QED
      BY <2>1, <2>2, <1>1, <1>3, FirstIsFound
  <1>7. NextBlock(s, from) = <<o, c>>
    <2>1. o # 0 /\ c # 0
      BY <1>1
    <2> HIDE DEF o, c
    <2> QED
      BY <2>1, <1>5, <1>6 DEF NextBlock
  <1> DEFINE u == SubSeq(s, 1, c)
             bar == n + m + 2
             inner == SubSeq(s, o + 1, bar - 1)
             data == SubSeq(s, bar + 1, c - 1)
  <1>8. \A i \in 1..c : s[i] \in T
    BY <1>1
  <1>9. u \in Seq(T) /\ Len(u) = c /\ \A i \in 1..c : u[i] = s[i]
    <2>1. c \in Nat \ {0}
      BY <1>1
    <2> HIDE DEF c
    <2> QED
      BY <2>1, <1>8, SubSeqProperties
  <1>10. FirstOf("bar", u, o + 1) = bar
    <2>1. o + 1 \in Nat /\ bar \in (o + 1)..Len(u) /\ bar \in 1..c
      BY <1>1, <1>9
    <2>2. ASSUME NEW i \in (o + 1)..(bar - 1) PROVE u[i].tok # "bar"
      <3>1. i \in (o + 1)..(o + m) /\ i \in 1..c
        BY <1>1
      <3> QED
        BY <3>1, <1>4, <1>9
    <2>3. u[bar].tok = "bar"
      BY <2>1, <1>3, <1>9
    <2> HIDE DEF o, c, u, bar
    <2> QED
      BY <2>1, <2>2, <2>3, <1>9, FirstIsFound
  <1>11. inner = name
    <2>1. o + 1 \in Int /\ bar - 1 \in Int /\ \A i \in (o + 1)..(bar - 1) : s[i] \in T
      BY <1>1, <1>8
    <2>2. /\ inner \in Seq(T)
          /\ Len(inner) = IF o + 1 <= bar - 1 THEN (bar - 1) - (o + 1) + 1 ELSE 0
          /\ \A i \in 1..((bar - 1) - (o + 1) + 1) : inner[i] = s[(o + 1) + i - 1]
      <3> DEFINE x == o + 1
                 y == bar - 1
      <3> HIDE DEF x, y
      <3>1. /\ SubSeq(s, x, y) \in Seq(T)
            /\ Len(SubSeq(s, x, y)) = IF x <= y THEN y - x + 1 ELSE 0
            /\ \A i \in 1..(y - x + 1) : SubSeq(s, x, y)[i] = s[x + i - 1]
        BY <2>1, SubSeqProperties DEF x, y
      <3> QED
        BY <3>1 DEF x, y
    <2>3. Len(inner) = m /\ \A i \in 1..m : inner[i] = name[i]
      <3>1. (bar - 1) - (o + 1) + 1 = m /\ (o + 1 <= bar - 1 <=> m # 0)
        BY <1>1
      <3> HIDE DEF inner
      <3>2. Len(inner) = m
        BY <2>2, <3>1
      <3>3. ASSUME NEW i \in 1..m PROVE inner[i] = name[i]
        <4>1. inner[i] = s[(o + 1) + i - 1]
          BY <2>2, <3>1
        <4>2. (o + 1) + i - 1 = n + 1 + i
          BY <1>1
        <4> QED
          BY <4>1, <4>2, <1>1
      <3> QED
        BY <3>2, <3>3
    <2> HIDE DEF inner
    <2> QED
      BY <2>2, <2>3, <1>2, SeqEqual
  <1>12. data \in Seq(T) /\ Len(data) = 1 /\ data[1] = s[n + m + 3]
    <2>1. bar + 1 = n + m + 3 /\ c - 1 = n + m + 3 /\ n + m + 3 \in Nat /\ s[n + m + 3] \in T
      BY <1>1, <1>8
    <2> DEFINE x == n + m + 3
    <2> HIDE DEF x
    <2>2. \A i \in x..x : s[i] \in T
      BY <2>1 DEF x
    <2>3. x \in Int
      BY <2>1 DEF x
    <2>4. SubSeq(s, x, x) \in Seq(T) /\ Len(SubSeq(s, x, x)) = 1 /\ SubSeq(s, x, x)[1] = s[x]
      BY <2>2, <2>3, SubSeqProperties
    <2> QED
      BY <2>1, <2>4 DEF x
  <1>13. Kinds(data) = <<"data">>
    <2> HIDE DEF data
    <2>1. DOMAIN data = 1..1 /\ data[1].tok = "data"
      BY <1>3, <1>12
    <2> QED
      BY <2>1 DEF Kinds
  <1>14. FileIn(s, <<o, c>>) = <<[name |-> name, data |-> v]>>
    <2>1. bar # 0 /\ data[1].of = v
      BY <1>1, <1>3, <1>12
    <2> HIDE DEF o, c, u, bar, inner, data
    <2> QED
      BY <2>1, <1>10, <1>11, <1>13 DEF FileIn, u, bar, inner, data
  <1> QED
    BY <1>1, <1>7, <1>14

\* What is attached is closed.
LEMMA LengthenedIsClosed ==
    ASSUME NEW T, NEW t, NEW name, NEW v, NEW s, Lengthened(T, t, name, v, s)
    PROVE  Closed(s)
PROOF
  <1>1. /\ Len(s) \in Nat /\ s[Len(s)].tok = "close"
    BY LengthenedPlaces DEF Token
  <1>2. ASSUME NEW i \in 1..Len(s), s[i].tok = "open"
        PROVE  \E j \in (i + 1)..Len(s) : s[j].tok = "close"
    <2>1. i # Len(s)
      BY <1>1, <1>2
    <2>2. Len(s) \in (i + 1)..Len(s)
      BY <1>1, <2>1
    <2> QED
      BY <1>1, <2>2
  <1> QED
    BY <1>2 DEF Closed

\* What comes out of it is what came out before, and the file.
LEMMA ExtractReturns ==
    ASSUME NEW T, NEW t, NEW name, NEW v, NEW s, Lengthened(T, t, name, v, s), Closed(t)
    PROVE  Extract(s) = Append(Extract(t), [name |-> name, data |-> v])
PROOF
  <1> DEFINE file == [name |-> name, data |-> v]
  <1>1. /\ Len(t) \in Nat /\ Len(name) \in Nat /\ s \in Seq(T) /\ Len(s) = Len(t) + Len(name) + 4
        /\ \A i \in 1..Len(t) : s[i] = t[i]
    BY LengthenedPlaces
  <1>2. t \in Seq(T)
    BY DEF Lengthened
  <1>3. PICK g : Turns(g, t) /\ Extract(t) = g[1]
    BY <1>2, ExtractTurns
  <1>4. PICK h : Turns(h, s) /\ Extract(s) = h[1]
    BY <1>1, ExtractTurns
  <1>5. h[Len(s) + 1] = <<>>
    <2>1. NextBlock(s, Len(s) + 1) = <<0, 0>>
      BY <1>1, NoBlock
    <2>2. Len(s) + 1 \in 1..Len(s) + 1
      BY <1>1
    <2> QED
      BY <2>1, <2>2, <1>4 DEF Turns
  <1> DEFINE S == [name : Seq(T), data : Wrapped(Note(t)) \cup {v}]
             Good(p) == g[p] \in Seq(S) /\ h[p] = Append(g[p], file)
             fails == {k \in Nat : k <= Len(t) /\ ~Good(Len(t) + 1 - k)}
  <1>6. ASSUME NEW k \in fails, \A l \in fails : k <= l PROVE FALSE
    <2> DEFINE p == Len(t) + 1 - k
               b == NextBlock(t, p)
    <2>1. k \in Nat /\ k <= Len(t) /\ p \in Nat \ {0} /\ p \in 1..(Len(t) + 1) /\ ~Good(p)
      BY <1>1, <1>6
    <2>2. p \in 1..Len(s) + 1
      BY <2>1, <1>1
    <2>3. /\ g[p] = IF b[1] = 0 THEN <<>> ELSE FileIn(t, b) \o g[b[2] + 1]
          /\ h[p] = IF NextBlock(s, p)[1] = 0 THEN <<>>
                    ELSE FileIn(s, NextBlock(s, p)) \o h[NextBlock(s, p)[2] + 1]
      BY <2>1, <2>2, <1>3, <1>4 DEF Turns
    <2>4. CASE b[1] = 0
      <3>1. \A i \in p..Len(t) : t[i].tok # "open"
        BY <2>1, <2>4, <1>2, BlockOrNone
      <3>2. NextBlock(s, p) = <<Len(t) + 1, Len(s)>> /\ FileIn(s, <<Len(t) + 1, Len(s)>>) = <<file>>
        <4>1. p \in Nat \ {0} /\ p <= Len(t) + 1 /\ Lengthened(T, t, name, v, s)
          BY <1>1, <2>1
        <4> HIDE DEF p, fails, Good, S
        <4>2. /\ NextBlock(s, p) = <<Len(t) + 1, Len(s)>>
              /\ FileIn(s, <<Len(t) + 1, Len(s)>>) = <<[name |-> name, data |-> v]>>
          BY <3>1, <4>1, BlockIsLast
        <4> QED
          BY <4>2
      <3>3. h[p] = <<file>> \o h[Len(s) + 1]
        <4> HIDE DEF p, b, file
        <4>1. Len(t) + 1 # 0
          BY <1>1
        <4>2. h[p] = IF NextBlock(s, p)[1] = 0 THEN <<>>
                     ELSE FileIn(s, NextBlock(s, p)) \o h[NextBlock(s, p)[2] + 1]
          BY <2>3
        <4>3. NextBlock(s, p)[1] = Len(t) + 1 /\ NextBlock(s, p)[2] = Len(s)
          BY <3>2
        <4>4. FileIn(s, NextBlock(s, p)) = <<file>>
          BY <3>2
        <4> QED
          BY <4>1, <4>2, <4>3, <4>4
      <3>4. h[p] = <<file>> /\ g[p] = <<>>
        BY <3>3, <1>5, <2>3, <2>4
      <3>5. Good(p)
        BY <3>4
      <3> QED
        BY <3>5, <2>1
    <2>5. CASE b[1] # 0
      <3>1. b[1] \in Nat /\ b[2] \in Nat /\ p <= b[1] /\ b[1] < b[2] /\ b[2] <= Len(t)
        BY <2>1, <2>5, <1>2, BlockPlaces
      <3>2. NextBlock(s, p) = b /\ FileIn(s, b) = FileIn(t, b)
        BY <2>1, <2>5, <1>1, <1>2, BlockStays
      <3>3. FileIn(t, b) \in Seq(S)
        <4>1. FileIn(t, b) \in Seq(Slips(t))
          BY <3>1, <1>2, FileIsWrapped
        <4>2. Seq(Range(t)) \subseteq Seq(T)
          <5>1. Range(t) \subseteq T
            BY <1>2 DEF Range
          <5> QED
            BY <5>1
        <4>3. Slips(t) \subseteq S
          BY <4>2 DEF Slips
        <4> HIDE DEF S
        <4> QED
          BY <4>1, <4>3
      <3> DEFINE l == Len(t) - b[2]
      <3>4. l \in Nat /\ l <= Len(t) /\ Len(t) + 1 - l = b[2] + 1 /\ l < k
        <4>1. Len(t) \in Nat
          BY <1>1
        <4>2. p \in Nat /\ k \in Nat /\ k <= Len(t)
          BY <2>1
        <4> HIDE DEF b
        <4> QED
          BY <3>1, <4>1, <4>2
      <3>5. Good(b[2] + 1)
        <4>1. l \notin fails
          <5> HIDE DEF l, fails
          <5> QED
            BY <3>4, <1>6, <2>1
        <4>2. Good(Len(t) + 1 - l)
          <5> HIDE DEF l, Good
          <5> QED
            BY <4>1, <3>4
        <4> HIDE DEF l, Good
        <4> QED
          BY <4>2, <3>4
      <3> DEFINE x == FileIn(t, b)
                 y == g[b[2] + 1]
      <3>6. g[p] = x \o y /\ h[p] = x \o Append(y, file)
        BY <2>3, <2>5, <3>2, <3>5
      <3>7. x \in Seq(S) /\ y \in Seq(S) /\ file \in S
        BY <3>3, <3>5 DEF Lengthened
      <3> HIDE DEF x, y, S, file
      <3>8. x \o y \in Seq(S) /\ x \o Append(y, file) = Append(x \o y, file)
        BY <3>7
      <3>9. g[p] \in Seq(S) /\ h[p] = Append(g[p], file)
        BY <3>6, <3>8
      <3> QED
        BY <3>9, <2>1
    <2> QED
      BY <2>4, <2>5
  <1>7. fails = {}
    <2>1. SUFFICES ASSUME fails # {} PROVE FALSE
      OBVIOUS
    <2>2. fails \in SUBSET Nat
      OBVIOUS
    <2>3. \E k \in fails : \A l \in fails : k <= l
      <3> HIDE DEF fails
      <3> QED
        BY <2>1, <2>2, Least
    <2> QED
      BY <2>3, <1>6
  <1>8. Good(1)
    <2>1. Len(t) \notin fails
      BY <1>7
    <2> QED
      BY <2>1, <1>1
  <1> QED
    BY <1>3, <1>4, <1>8

\* From the start on.
LEMMA BlockFromStart ==
    ASSUME NEW T, NEW t, NEW name, NEW v, NEW s, Lengthened(T, t, name, v, s),
           \A i \in 1..Len(t) : t[i].tok # "open"
    PROVE  NextBlock(s, 1) = <<Len(t) + 1, Len(s)>>
PROOF
  <1>1. 1 \in Nat \ {0} /\ 1 <= Len(t) + 1
    BY LengthenedPlaces
  <1>2. \A from \in Nat \ {0} :
            from <= Len(t) + 1 /\ (\A i \in from..Len(t) : t[i].tok # "open") =>
                NextBlock(s, from) = <<Len(t) + 1, Len(s)>>
    <2>1. SUFFICES ASSUME NEW from \in Nat \ {0}, from <= Len(t) + 1,
                          \A i \in from..Len(t) : t[i].tok # "open"
                   PROVE  NextBlock(s, from) = <<Len(t) + 1, Len(s)>>
      OBVIOUS
    <2>2. Lengthened(T, t, name, v, s)
      OBVIOUS
    <2>3. /\ NextBlock(s, from) = <<Len(t) + 1, Len(s)>>
          /\ FileIn(s, <<Len(t) + 1, Len(s)>>) = <<[name |-> name, data |-> v]>>
      BY <2>1, <2>2, BlockIsLast
    <2> QED
      BY <2>3
  <1> QED
    BY <1>1, <1>2, Zenon

\* What stands where when a text has lost its first block.
LEMMA WithoutPlaces ==
    ASSUME NEW T, NEW t \in Seq(T), NextBlock(t, 1)[1] # 0
    PROVE  LET b == NextBlock(t, 1)
               u == Without(t)
           IN /\ b[1] \in Nat \ {0} /\ b[2] \in Nat /\ b[1] < b[2] /\ b[2] <= Len(t)
              /\ u \in Seq(T) /\ Len(u) = (b[1] - 1) + (Len(t) - b[2])
              /\ \A i \in 1..(b[1] - 1) : u[i] = t[i]
              /\ \A i \in 1..(Len(t) - b[2]) : u[(b[1] - 1) + i] = t[b[2] + i]
PROOF
  <1> DEFINE b == NextBlock(t, 1)
             u == Without(t)
  <1>1. /\ b[1] \in Nat \ {0} /\ b[2] \in Nat /\ b[1] < b[2] /\ b[2] <= Len(t) /\ Len(t) \in Nat
    BY BlockPlaces
  <1> DEFINE o == b[1]
             c == b[2]
             n == Len(t)
             x == SubSeq(t, 1, o - 1)
             y == SubSeq(t, c + 1, n)
  <1>2. u = x \o y
    BY DEF Without
  <1>3. \A i \in 1..n : t[i] \in T
    OBVIOUS
  <1> HIDE DEF o, c, n
  <1>4. o \in Nat \ {0} /\ c \in Nat /\ o < c /\ c <= n /\ n \in Nat
    BY <1>1 DEF o, c, n
  <1>5. x \in Seq(T) /\ Len(x) = o - 1 /\ \A i \in 1..(o - 1) : x[i] = t[i]
    <2>1. o - 1 \in Nat /\ \A i \in 1..(o - 1) : t[i] \in T
      BY <1>3, <1>4
    <2> DEFINE l == o - 1
    <2> HIDE DEF l
    <2>2. l \in Nat /\ \A i \in 1..l : t[i] \in T
      BY <2>1 DEF l
    <2>3. /\ SubSeq(t, 1, l) \in Seq(T) /\ Len(SubSeq(t, 1, l)) = l
          /\ \A i \in 1..l : SubSeq(t, 1, l)[i] = t[i]
      BY <2>2, SubSeqProperties
    <2> QED
      BY <2>3 DEF l
  <1>6. y \in Seq(T) /\ Len(y) = n - c /\ \A i \in 1..(n - c) : y[i] = t[c + i]
    <2>1. \A i \in (c + 1)..n : t[i] \in T
      BY <1>3, <1>4
    <2> DEFINE l == c + 1
    <2> HIDE DEF l
    <2>2. l \in Nat /\ \A i \in l..n : t[i] \in T
      BY <2>1, <1>4 DEF l
    <2>3. /\ SubSeq(t, l, n) \in Seq(T) /\ Len(SubSeq(t, l, n)) = IF l <= n THEN n - l + 1 ELSE 0
          /\ \A i \in 1..(n - l + 1) : SubSeq(t, l, n)[i] = t[l + i - 1]
      BY <2>2, <1>4, SubSeqProperties
    <2>4. n - l + 1 = n - c /\ \A i \in Nat : l + i - 1 = c + i
      BY <1>4 DEF l
    <2>5. Len(SubSeq(t, l, n)) = n - c
      BY <2>3, <1>4 DEF l
    <2>6. ASSUME NEW i \in 1..(n - c) PROVE SubSeq(t, l, n)[i] = t[c + i]
      BY <2>3, <2>4
    <2> QED
      BY <2>3, <2>5, <2>6 DEF l
  <1> HIDE DEF x, y
  <1>7. /\ u \in Seq(T) /\ Len(u) = Len(x) + Len(y)
        /\ \A i \in 1..Len(x) : u[i] = x[i]
        /\ \A i \in 1..Len(y) : u[Len(x) + i] = y[i]
    <2>1. x \in Seq(T) /\ y \in Seq(T)
      BY <1>5, <1>6
    <2> QED
      BY <2>1, <1>2, Joined
  <1>8. /\ Len(u) = (o - 1) + (n - c)
        /\ \A i \in 1..(o - 1) : u[i] = t[i]
        /\ \A i \in 1..(n - c) : u[(o - 1) + i] = t[c + i]
    BY <1>5, <1>6, <1>7
  <1> HIDE DEF u
  <1> QED
    BY <1>1, <1>7, <1>8 DEF o, c, n, u

\* A text whose openings are closed stays so when what lies from its first opening
\* to a later place is cut out.
LEMMA CutIsClosed ==
    ASSUME NEW T, NEW t \in Seq(T), Closed(t),
           NEW o \in Nat \ {0}, NEW c \in Nat, o < c, c <= Len(t),
           NEW u \in Seq(T), Len(u) = (o - 1) + (Len(t) - c),
           \A i \in 1..(o - 1) : u[i] = t[i] /\ t[i].tok # "open",
           \A i \in 1..(Len(t) - c) : u[(o - 1) + i] = t[c + i]
    PROVE  Closed(u)
PROOF
  <1> DEFINE n == Len(t)
  <1>1. n \in Nat /\ Len(u) \in Nat
    OBVIOUS
  <1> HIDE DEF n
  <1>2. ASSUME NEW i \in 1..Len(u), u[i].tok = "open"
        PROVE  \E j \in (i + 1)..Len(u) : u[j].tok = "close"
    <2>1. i \notin 1..(o - 1)
      BY <1>2
    <2>2. PICK k \in 1..(n - c) : i = (o - 1) + k /\ c + k \in 1..n
      <3>1. i - (o - 1) \in 1..(n - c) /\ i = (o - 1) + (i - (o - 1)) /\ c + (i - (o - 1)) \in 1..n
        BY <1>1, <2>1 DEF n
      <3> QED
        BY <3>1
    <2>3. t[c + k].tok = "open"
      BY <1>2, <2>2 DEF n
    <2>4. PICK j \in ((c + k) + 1)..n : t[j].tok = "close"
      BY <2>2, <2>3 DEF Closed, n
    <2>5. PICK l \in 1..(n - c) : c + l = j /\ (o - 1) + l \in (i + 1)..Len(u)
      <3>1. j - c \in 1..(n - c) /\ c + (j - c) = j /\ (o - 1) + (j - c) \in (i + 1)..Len(u)
        BY <1>1, <2>2, <2>4 DEF n
      <3> QED
        BY <3>1
    <2>6. u[(o - 1) + l] = t[c + l]
      BY <2>5 DEF n
    <2> QED
      BY <2>4, <2>5, <2>6
  <1> QED
    BY <1>2 DEF Closed

\* So it does without its first block.
LEMMA WithoutIsClosed ==
    ASSUME NEW T, NEW t \in Seq(T), Closed(t)
    PROVE  Closed(Without(t))
PROOF
  <1>1. CASE NextBlock(t, 1)[1] = 0
    BY <1>1 DEF Without
  <1>2. CASE NextBlock(t, 1)[1] # 0
    <2> DEFINE o == NextBlock(t, 1)[1]
               c == NextBlock(t, 1)[2]
               u == Without(t)
    <2>1. /\ o \in Nat \ {0} /\ c \in Nat /\ o < c /\ c <= Len(t)
          /\ u \in Seq(T) /\ Len(u) = (o - 1) + (Len(t) - c)
          /\ \A i \in 1..(o - 1) : u[i] = t[i]
          /\ \A i \in 1..(Len(t) - c) : u[(o - 1) + i] = t[c + i]
      BY <1>2, WithoutPlaces
    <2>2. o = FirstOf("open", t, 1)
      BY <1>2 DEF NextBlock
    <2> HIDE DEF o, c, u
    <2>3. \A i \in 1..(o - 1) : t[i].tok # "open"
      <3>1. 1 \in Nat \ {0} /\ o # 0
        BY <2>1
      <3>2. o # 0 => \A i \in 1..(o - 1) : t[i].tok # "open"
        BY <2>2, <3>1, FirstIsFirst
      <3> QED
        BY <3>1, <3>2
    <2>4. Closed(u)
      BY <2>1, <2>3, CutIsClosed
    <2> QED
      BY <2>4 DEF u
  <1> QED
    BY <1>1, <1>2

\* What is attached to one text and to another is the same behind each.
LEMMA LengthenedAlike ==
    ASSUME NEW T, NEW t, NEW w, NEW name, NEW v, NEW s, NEW e,
           Lengthened(T, t, name, v, s), Lengthened(T, w, name, v, e),
           NEW k \in 1..(Len(name) + 4)
    PROVE  s[Len(t) + k] = e[Len(w) + k]
PROOF
  <1>1. /\ Len(t) \in Nat /\ Len(name) \in Nat
        /\ s[Len(t) + 1] = Token("open") /\ s[Len(t) + Len(name) + 2] = Token("bar")
        /\ s[Len(t) + Len(name) + 3] = Data(v) /\ s[Len(t) + Len(name) + 4] = Token("close")
        /\ \A i \in 1..Len(name) : s[Len(t) + 1 + i] = name[i]
    BY LengthenedPlaces
  <1>2. /\ Len(w) \in Nat
        /\ e[Len(w) + 1] = Token("open") /\ e[Len(w) + Len(name) + 2] = Token("bar")
        /\ e[Len(w) + Len(name) + 3] = Data(v) /\ e[Len(w) + Len(name) + 4] = Token("close")
        /\ \A i \in 1..Len(name) : e[Len(w) + 1 + i] = name[i]
    BY LengthenedPlaces
  <1> DEFINE m == Len(name)
             n == Len(t)
             l == Len(w)
  <1> HIDE DEF m, n, l
  <1>3. m \in Nat /\ n \in Nat /\ l \in Nat /\ k \in 1..(m + 4)
    BY <1>1, <1>2 DEF m, n, l
  <1>4. CASE k \in 2..(m + 1)
    <2>1. k - 1 \in 1..m /\ n + 1 + (k - 1) = n + k /\ l + 1 + (k - 1) = l + k
      BY <1>3, <1>4
    <2>2. s[n + 1 + (k - 1)] = name[k - 1] /\ e[l + 1 + (k - 1)] = name[k - 1]
      BY <2>1, <1>1, <1>2 DEF m, n, l
    <2> QED
      BY <2>1, <2>2 DEF n, l
  <1>5. k = 1 \/ k \in 2..(m + 1) \/ k = m + 2 \/ k = m + 3 \/ k = m + 4
    BY <1>3
  <1>6. /\ n + (m + 2) = n + m + 2 /\ n + (m + 3) = n + m + 3 /\ n + (m + 4) = n + m + 4
        /\ l + (m + 2) = l + m + 2 /\ l + (m + 3) = l + m + 3 /\ l + (m + 4) = l + m + 4
    BY <1>3
  <1>7. CASE k = 1
    BY <1>7, <1>1, <1>2
  <1>8. CASE k = m + 2 \/ k = m + 3 \/ k = m + 4
    BY <1>8, <1>6, <1>1, <1>2 DEF m, n, l
  <1> QED
    BY <1>4, <1>5, <1>7, <1>8

\* What starts somewhere and goes on by steps gets to every place behind.
LEMMA StepByStep ==
    ASSUME NEW a \in Nat, NEW b \in Nat, NEW S, a \in S,
           \A k \in a..b : k \in S /\ k < b => k + 1 \in S
    PROVE  a..b \subseteq S
PROOF
  <1> DEFINE fails == {k \in a..b : k \notin S}
  <1>1. ASSUME NEW k \in fails, \A l \in fails : k <= l PROVE FALSE
    <2>1. k \in a..b /\ k # a /\ k \notin S
      BY <1>1
    <2>2. k - 1 \in a..b /\ k - 1 < b /\ (k - 1) + 1 = k /\ ~(k <= k - 1)
      BY <2>1
    <2>3. k - 1 \notin fails
      BY <2>2, <1>1
    <2>4. k - 1 \in S
      BY <2>2, <2>3
    <2> QED
      BY <2>1, <2>2, <2>4
  <1>2. fails \in SUBSET Nat
    OBVIOUS
  <1>3. fails = {}
    <2> HIDE DEF fails
    <2>1. SUFFICES ASSUME fails # {} PROVE FALSE
      OBVIOUS
    <2>2. PICK k \in fails : \A l \in fails : k <= l
      BY <2>1, <1>2, Least
    <2> QED
      BY <2>2, <1>1
  <1> QED
    BY <1>3

\* The first block of a text goes in the same way when something is attached behind.
LEMMA WithoutBefore ==
    ASSUME NEW T, NEW t, NEW name, NEW v, NEW s, Lengthened(T, t, name, v, s),
           NextBlock(t, 1)[1] # 0
    PROVE  /\ Without(s) = Embed(Without(t), name, v)
           /\ Lengthened(T, Without(t), name, v, Without(s))
           /\ Len(Without(t)) < Len(t)
PROOF
  <1> DEFINE m == Len(name)
             n == Len(t)
             u == Without(t)
             w == Without(s)
             e == Embed(u, name, v)
             o == NextBlock(t, 1)[1]
             c == NextBlock(t, 1)[2]
  <1>1. /\ n \in Nat /\ m \in Nat /\ s \in Seq(T) /\ Len(s) = n + m + 4
        /\ \A i \in 1..n : s[i] = t[i]
    BY LengthenedPlaces
  <1>2. t \in Seq(T)
    BY DEF Lengthened
  <1>3. NextBlock(s, 1) = NextBlock(t, 1)
    <2>1. Len(t) <= Len(s) /\ 1 \in Nat \ {0}
      BY <1>1
    <2> QED
      BY <2>1, <1>1, <1>2, BlockStays
  <1>4. /\ o \in Nat \ {0} /\ c \in Nat /\ o < c /\ c <= n
        /\ u \in Seq(T) /\ Len(u) = (o - 1) + (n - c)
        /\ \A i \in 1..(o - 1) : u[i] = t[i]
        /\ \A i \in 1..(n - c) : u[(o - 1) + i] = t[c + i]
    BY <1>2, WithoutPlaces
  <1>5. /\ w \in Seq(T) /\ Len(w) = (o - 1) + (Len(s) - c)
        /\ \A i \in 1..(o - 1) : w[i] = s[i]
        /\ \A i \in 1..(Len(s) - c) : w[(o - 1) + i] = s[c + i]
    <2>1. NextBlock(s, 1)[1] # 0 /\ NextBlock(s, 1)[1] = o /\ NextBlock(s, 1)[2] = c
      BY <1>3
    <2>2. LET b == NextBlock(s, 1)
              x == Without(s)
          IN /\ x \in Seq(T) /\ Len(x) = (b[1] - 1) + (Len(s) - b[2])
             /\ \A i \in 1..(b[1] - 1) : x[i] = s[i]
             /\ \A i \in 1..(Len(s) - b[2]) : x[(b[1] - 1) + i] = s[b[2] + i]
      BY <2>1, <1>1, WithoutPlaces
    <2> HIDE DEF u, o, c
    <2> QED
      BY <2>1, <2>2
  <1>6. Lengthened(T, u, name, v, e)
    BY <1>4 DEF Lengthened
  <1> HIDE DEF u, w, e
  <1>7. /\ e \in Seq(T) /\ Len(e) = Len(u) + m + 4 /\ \A i \in 1..Len(u) : e[i] = u[i]
    BY <1>6, LengthenedPlaces
  <1>8. \A k \in 1..(m + 4) : s[n + k] = e[Len(u) + k]
    BY <1>6, LengthenedAlike
  <1> HIDE DEF m, n, o, c
  <1>9. Len(w) = (o - 1) + (n - c) + (m + 4) /\ Len(e) = Len(w)
    BY <1>1, <1>4, <1>5, <1>7
  <1>10. ASSUME NEW i \in 1..Len(w) PROVE w[i] = e[i]
    <2>1. CASE i \in 1..(o - 1)
      <3>1. i \in 1..n /\ i \in 1..Len(u)
        BY <2>1, <1>1, <1>4
      <3> QED
        BY <2>1, <3>1, <1>1, <1>4, <1>5, <1>7
    <2>2. CASE \E k \in 1..(n - c) : i = (o - 1) + k
      <3>1. PICK k \in 1..(n - c) : i = (o - 1) + k
        BY <2>2
      <3>2. k \in 1..(Len(s) - c) /\ c + k \in 1..n /\ i \in 1..Len(u)
        <4>1. o \in Nat \ {0} /\ c \in Nat /\ n \in Nat /\ m \in Nat /\ k \in 1..(n - c)
          BY <3>1, <1>1, <1>4
        <4>2. Len(s) = n + m + 4 /\ Len(u) = (o - 1) + (n - c) /\ i = (o - 1) + k
          BY <3>1, <1>1, <1>4
        <4>3. k \in 1..((n + m + 4) - c) /\ c + k \in 1..n /\ (o - 1) + k \in 1..((o - 1) + (n - c))
          BY <4>1
        <4> QED
          BY <4>2, <4>3
      <3>3. w[i] = s[c + k] /\ e[i] = u[i] /\ u[i] = t[c + k] /\ s[c + k] = t[c + k]
        BY <3>1, <3>2, <1>1, <1>4, <1>5, <1>7
      <3> QED
        BY <3>3
    <2>3. CASE \E k \in 1..(m + 4) : i = (o - 1) + (n - c) + k
      <3>1. PICK k \in 1..(m + 4) : i = (o - 1) + (n - c) + k
        BY <2>3
      <3>2. /\ (n - c) + k \in 1..(Len(s) - c) /\ i = (o - 1) + ((n - c) + k)
            /\ c + ((n - c) + k) = n + k /\ i = Len(u) + k
        BY <3>1, <1>1, <1>4
      <3>3. w[i] = s[n + k]
        BY <3>2, <1>5
      <3> QED
        BY <3>2, <3>3, <1>8
    <2>4. \/ i \in 1..(o - 1)
          \/ i - (o - 1) \in 1..(n - c) /\ i = (o - 1) + (i - (o - 1))
          \/ /\ i - ((o - 1) + (n - c)) \in 1..(m + 4)
             /\ i = (o - 1) + (n - c) + (i - ((o - 1) + (n - c)))
      BY <1>1, <1>4, <1>9
    <2> QED
      BY <2>1, <2>2, <2>3, <2>4
  <1>11. w = e
    BY <1>5, <1>7, <1>9, <1>10, SeqEqual
  <1>12. Len(u) < n
    BY <1>1, <1>4
  <1> QED
    BY <1>6, <1>11, <1>12 DEF u, w, e, n

\* Where no block is left it is what was attached that goes.
LEMMA WithoutLast ==
    ASSUME NEW T, NEW t, NEW name, NEW v, NEW s, Lengthened(T, t, name, v, s),
           Closed(t), NextBlock(t, 1)[1] = 0
    PROVE  Without(s) = t
PROOF
  <1>1. /\ Len(t) \in Nat /\ Len(name) \in Nat /\ s \in Seq(T) /\ Len(s) = Len(t) + Len(name) + 4
        /\ \A i \in 1..Len(t) : s[i] = t[i]
    BY LengthenedPlaces
  <1>2. t \in Seq(T)
    BY DEF Lengthened
  <1>3. \A i \in 1..Len(t) : t[i].tok # "open"
    <2>1. 1 \in Nat \ {0}
      OBVIOUS
    <2> QED
      BY <2>1, <1>2, BlockOrNone
  <1>4. NextBlock(s, 1) = <<Len(t) + 1, Len(s)>>
    BY <1>3, BlockFromStart
  <1>5. /\ Without(s) \in Seq(T) /\ Len(Without(s)) = ((Len(t) + 1) - 1) + (Len(s) - Len(s))
        /\ \A i \in 1..((Len(t) + 1) - 1) : Without(s)[i] = s[i]
    <2>1. NextBlock(s, 1)[1] = Len(t) + 1 /\ NextBlock(s, 1)[2] = Len(s) /\ Len(t) + 1 # 0
      BY <1>1, <1>4
    <2> QED
      BY <2>1, <1>1, WithoutPlaces
  <1> DEFINE w == Without(s)
             n == Len(t)
  <1> HIDE DEF w
  <1>6. w \in Seq(T) /\ Len(w) = n /\ \A i \in 1..n : w[i] = t[i]
    <2>1. (n + 1) - 1 = n /\ n + (Len(s) - Len(s)) = n
      BY <1>1
    <2> QED
      BY <2>1, <1>1, <1>5 DEF w
  <1>7. w = t
    BY <1>2, <1>6, SeqEqual
  <1> QED
    BY <1>7 DEF w

\* Detaching takes what was attached as well, and leaves what it left before.
LEMMA DetachReturns ==
    ASSUME NEW T, NEW t, NEW name, NEW v, NEW s, Lengthened(T, t, name, v, s), Closed(t)
    PROVE  Detach(s) = Detach(t)
PROOF
  <1> DEFINE n == Len(t)
             l == Len(s)
  <1>1. n \in Nat /\ l \in Nat /\ n < l /\ s \in Seq(T) /\ t \in Seq(T)
    <2>1. /\ Len(t) \in Nat /\ Len(name) \in Nat /\ s \in Seq(T)
          /\ Len(s) = Len(t) + Len(name) + 4
      BY LengthenedPlaces
    <2> QED
      BY <2>1 DEF Lengthened
  <1>2. PICK g : Runs(g, t) /\ Detach(t) = g[n]
    BY <1>1, DetachRuns
  <1>3. PICK h : Runs(h, s) /\ Detach(s) = h[l]
    BY <1>1, DetachRuns
  <1> HIDE DEF n, l
  <1>4. /\ g[0] = t /\ h[0] = s
        /\ \A k \in 0..n : k + 1 <= n => g[k + 1] = Without(g[k])
        /\ \A k \in 0..l : k + 1 <= l => h[k + 1] = Without(h[k])
    <2>1. /\ \A k \in 0..n : g[k] = IF k = 0 THEN t ELSE Without(g[k - 1])
          /\ \A k \in 0..l : h[k] = IF k = 0 THEN s ELSE Without(h[k - 1])
      BY <1>2, <1>3 DEF Runs, n, l
    <2>2. ASSUME NEW k \in 0..n, k + 1 <= n PROVE g[k + 1] = Without(g[k])
      <3>1. k + 1 \in 0..n /\ k + 1 # 0 /\ (k + 1) - 1 = k
        BY <1>1, <2>2
      <3> QED
        BY <2>1, <3>1
    <2>3. ASSUME NEW k \in 0..l, k + 1 <= l PROVE h[k + 1] = Without(h[k])
      <3>1. k + 1 \in 0..l /\ k + 1 # 0 /\ (k + 1) - 1 = k
        BY <1>1, <2>3
      <3> QED
        BY <2>1, <3>1
    <2>4. 0 \in 0..n /\ 0 \in 0..l
      BY <1>1
    <2> QED
      BY <2>1, <2>2, <2>3, <2>4
  <1> DEFINE Ended(x) == NextBlock(x, 1)[1] = 0
             Alike(k) ==
                 /\ g[k] \in Seq(T) /\ Closed(g[k])
                 /\ Ended(g[k]) \/ Len(g[k]) + k <= n
                 /\ Lengthened(T, g[k], name, v, h[k]) \/ (Ended(g[k]) /\ h[k] = g[k])
             G == {k \in 0..n : Alike(k)}
  <1>5. 0 \in G
    <2>1. t \in Seq(T) /\ Closed(t) /\ Len(t) + 0 <= n /\ 0 \in 0..n
      BY <1>1 DEF n
    <2>2. Alike(0)
      BY <2>1, <1>4
    <2> HIDE DEF Alike
    <2> QED
      BY <2>1, <2>2
  <1>6. ASSUME NEW k \in 0..n, k \in G, k < n PROVE k + 1 \in G
    <2>1. k + 1 \in 0..n /\ k + 1 <= n /\ k \in 0..l /\ k + 1 <= l
      BY <1>1, <1>6
    <2>2. g[k + 1] = Without(g[k]) /\ h[k + 1] = Without(h[k])
      BY <1>4, <2>1
    <2>3. Alike(k)
      BY <1>6
    <2>4. Without(g[k]) \in Seq(T) /\ Closed(Without(g[k]))
      BY <2>3, WithoutKeeps, WithoutIsClosed
    <2>5. CASE Ended(g[k])
      <3>1. Without(g[k]) = g[k]
        BY <2>5 DEF Without
      <3>2. Without(h[k]) = g[k]
        <4>1. CASE h[k] = g[k]
          BY <3>1, <4>1
        <4>2. CASE Lengthened(T, g[k], name, v, h[k])
          BY <2>3, <2>5, <4>2, WithoutLast
        <4> QED
          BY <2>3, <4>1, <4>2
      <3>3. Alike(k + 1)
        BY <2>2, <2>3, <2>5, <3>1, <3>2
      <3> QED
        BY <2>1, <3>3
    <2>6. CASE ~Ended(g[k])
      <3>1. /\ Lengthened(T, Without(g[k]), name, v, Without(h[k]))
            /\ Len(Without(g[k])) < Len(g[k])
        BY <2>3, <2>6, WithoutBefore
      <3>2. Len(g[k]) \in Nat /\ Len(Without(g[k])) \in Nat /\ Len(g[k]) + k <= n
        BY <2>3, <2>4, <2>6
      <3> DEFINE a == Len(g[k])
                 b == Len(Without(g[k]))
      <3>3. b + (k + 1) <= n
        <4>1. a \in Nat /\ b \in Nat /\ b < a /\ a + k <= n
          BY <3>1, <3>2
        <4> HIDE DEF a, b
        <4> QED
          BY <4>1, <1>1
      <3>4. Alike(k + 1)
        <4> HIDE DEF Ended
        <4>1. /\ g[k + 1] \in Seq(T) /\ Closed(g[k + 1])
              /\ Lengthened(T, g[k + 1], name, v, h[k + 1])
          BY <2>2, <2>4, <3>1
        <4>2. Len(g[k + 1]) + (k + 1) <= n
          BY <2>2, <3>3
        <4> QED
          BY <4>1, <4>2
      <3> HIDE DEF Alike
      <3> QED
        BY <2>1, <3>4
    <2> QED
      BY <2>5, <2>6
  <1>7. n \in G
    <2> HIDE DEF G
    <2>1. 0 \in Nat /\ n \in Nat
      BY <1>1
    <2>2. 0..n \subseteq G
      BY <2>1, <1>5, <1>6, StepByStep
    <2> QED
      BY <2>2, <1>1
  <1> DEFINE d == g[n]
  <1>8. d \in Seq(T) /\ Ended(d) /\ (h[n] = d \/ Lengthened(T, d, name, v, h[n])) /\ Closed(d)
    <2>1. Alike(n)
      BY <1>7
    <2>2. CASE Len(d) + n <= n
      <3>1. Len(d) \in Nat
        BY <2>1
      <3>2. Len(d) = 0
        <4> DEFINE a == Len(d)
        <4>1. a \in Nat /\ a + n <= n
          BY <2>2, <3>1
        <4> HIDE DEF a
        <4>2. a = 0
          BY <4>1, <1>1
        <4> QED
          BY <4>2 DEF a
      <3>3. NextBlock(d, 1) = <<0, 0>>
        <4>1. 1 \in Nat /\ \A i \in 1..Len(d) : d[i].tok # "open"
          BY <3>2
        <4> QED
          BY <4>1, <2>1, NoBlock
      <3> QED
        BY <2>1, <3>3
    <2> QED
      BY <2>1, <2>2
  <1> HIDE DEF d
  <1>9. Without(d) = d
    BY <1>8 DEF Without
  <1> DEFINE H == {k \in (n + 1)..l : h[k] = d}
  <1>10. n + 1 \in H
    <2>1. n \in 0..l /\ n + 1 <= l /\ n + 1 \in (n + 1)..l
      BY <1>1
    <2>2. h[n + 1] = Without(h[n])
      BY <2>1, <1>4
    <2>3. Without(h[n]) = d
      BY <1>8, <1>9, WithoutLast
    <2> QED
      BY <2>1, <2>2, <2>3
  <1>11. ASSUME NEW k \in (n + 1)..l, k \in H, k < l PROVE k + 1 \in H
    <2>1. k \in 0..l /\ k + 1 <= l /\ k + 1 \in (n + 1)..l
      BY <1>1, <1>11
    <2> QED
      BY <2>1, <1>4, <1>9, <1>11
  <1>12. l \in H
    <2> HIDE DEF H
    <2>1. n + 1 \in Nat /\ l \in Nat /\ l \in (n + 1)..l
      BY <1>1
    <2>2. (n + 1)..l \subseteq H
      BY <2>1, <1>10, <1>11, StepByStep
    <2> QED
      BY <2>1, <2>2
  <1> QED
    BY <1>2, <1>3, <1>12 DEF d

\* Nothing is attached to a text without an opening.
LEMMA NothingAttached ==
    ASSUME NEW T, NEW t \in Seq(T), \A i \in 1..Len(t) : t[i].tok # "open"
    PROVE  Extract(t) = <<>> /\ Detach(t) = t /\ Closed(t)
PROOF
  <1>1. Closed(t)
    BY DEF Closed
  <1>2. NextBlock(t, 1) = <<0, 0>>
    <2>1. 1 \in Nat
      OBVIOUS
    <2> QED
      BY <2>1, NoBlock
  <1>3. Extract(t) = <<>>
    <2>1. PICK g : Turns(g, t) /\ Extract(t) = g[1]
      BY ExtractTurns
    <2>2. 1 \in 1..Len(t) + 1
      OBVIOUS
    <2> QED
      BY <1>2, <2>1, <2>2 DEF Turns
  <1>4. Detach(t) = t
    <2>1. PICK h : Runs(h, t) /\ Detach(t) = h[Len(t)]
      BY DetachRuns
    <2> DEFINE n == Len(t)
               H == {k \in 0..n : h[k] = t}
    <2>2. n \in Nat /\ 0 \in 0..n
      OBVIOUS
    <2>3. Without(t) = t
      BY <1>2 DEF Without
    <2>4. \A k \in 0..n : h[k] = IF k = 0 THEN t ELSE Without(h[k - 1])
      BY <2>1 DEF Runs
    <2> HIDE DEF n
    <2>5. 0 \in H
      BY <2>2, <2>4
    <2>6. ASSUME NEW k \in 0..n, k \in H, k < n PROVE k + 1 \in H
      <3>1. k + 1 \in 0..n /\ k + 1 # 0 /\ (k + 1) - 1 = k
        BY <2>2, <2>6
      <3> QED
        BY <2>3, <2>4, <2>6, <3>1
    <2>7. n \in H
      <3> HIDE DEF H
      <3>1. 0 \in Nat
        OBVIOUS
      <3>2. 0..n \subseteq H
        BY <3>1, <2>2, <2>5, <2>6, StepByStep
      <3> QED
        BY <3>2, <2>2
    <2> QED
      BY <2>1, <2>7 DEF n
  <1> QED
    BY <1>1, <1>3, <1>4

\* What was typed has no opening, and no name a close.
Undisturbed ==
    /\ "open" \notin Range(Kinds(typed))
    /\ \A file \in Range(attached) : "close" \notin Range(Kinds(file.name))

AttachInv ==
    /\ attached \in Seq([name : Names, data : Boxed])
    /\ Undisturbed => Extract(note) = attached /\ Detach(note) = typed /\ Closed(note)

\* A kind that is not among a text's is that of none of its tokens.
LEMMA KindsOfTokens ==
    ASSUME NEW T, NEW s \in Seq(T), NEW k
    PROVE  k \notin Range(Kinds(s)) <=> \A i \in 1..Len(s) : s[i].tok # k
BY DEF Range, Kinds

\* A note that is as it was typed has nothing attached.
LEMMA TypedAlone ==
    ASSUME note' = typed', attached' = <<>>, NEW T, note' \in Seq(T)
    PROVE  AttachInv'
PROOF
  <1>1. attached' \in Seq([name : Names, data : Boxed'])
    BY DEF Boxed
  <1>2. Undisturbed' => Extract(note') = <<>> /\ Detach(note') = note' /\ Closed(note')
    <2>1. SUFFICES ASSUME Undisturbed'
                   PROVE  Extract(note') = <<>> /\ Detach(note') = note' /\ Closed(note')
      OBVIOUS
    <2>2. "open" \notin Range(Kinds(note'))
      BY <2>1 DEF Undisturbed
    <2>3. \A i \in 1..Len(note') : note'[i].tok # "open"
      BY <2>2, KindsOfTokens
    <2> QED
      BY <2>3, NothingAttached
  <1> QED
    BY <1>1, <1>2 DEF AttachInv

\* Attaching by a name without a bar keeps the promise.
LEMMA AttachKeeps ==
    ASSUME HandedInv, AttachInv, Attach
    PROVE  AttachInv'
PROOF
  <1> DEFINE T == TokensOf(Boxed)
  <1>1. PICK by \in {"desktop", "agent"}, name \in Names :
            /\ Attachable(by, name, blob) /\ note' = Embed(note, name, blob)
            /\ attached' = Append(attached, [name |-> name, data |-> blob])
    BY DEF Attach
  <1> DEFINE file == [name |-> name, data |-> blob]
  <1>2. typed' = typed /\ note \in Seq(T) /\ blob \in Boxed
    BY DEF Attach, HandedInv, Prepared
  <1>3. attached \in Seq([name : Names, data : Boxed]) /\ file \in [name : Names, data : Boxed]
    BY <1>2 DEF AttachInv
  <1>4. name \in Seq(T)
    <2>1. {Token(k) : k \in {"open", "bar", "close", "word"}} \subseteq T
      BY DEF TokensOf, Syntax
    <2>2. name \in Seq({Token(k) : k \in {"open", "bar", "close", "word"}})
      BY TypedAssumption
    <2> HIDE DEF T
    <2> QED
      BY <2>1, <2>2
  <1>5. {Token("open"), Token("bar"), Token("close"), Data(blob)} \subseteq T
    BY <1>2 DEF TokensOf, Syntax
  <1>6. "bar" \notin Range(Kinds(name))
    BY <1>1 DEF Attachable
  <1> HIDE DEF T, file
  <1>7. attached' \in Seq([name : Names, data : Boxed'])
    BY <1>1, <1>3 DEF file, Boxed
  <1>8. Range(attached') = Range(attached) \cup {file}
    <2> DEFINE S == [name : Names, data : Boxed]
    <2> HIDE DEF S
    <2>1. attached \in Seq(S) /\ file \in S /\ attached' = Append(attached, file)
      BY <1>1, <1>3 DEF S, file
    <2>2. /\ DOMAIN attached = 1..Len(attached) /\ Len(attached) \in Nat
          /\ DOMAIN attached' = 1..(Len(attached) + 1)
          /\ attached'[Len(attached) + 1] = file
          /\ \A i \in 1..Len(attached) : attached'[i] = attached[i]
      BY <2>1
    <2> QED
      BY <2>2 DEF Range
  <1>9. ASSUME Undisturbed'
        PROVE  Extract(note') = attached' /\ Detach(note') = typed' /\ Closed(note')
    <2>1. Undisturbed
      BY <1>2, <1>8, <1>9 DEF Undisturbed
    <2>2. Extract(note) = attached /\ Detach(note) = typed /\ Closed(note)
      BY <2>1 DEF AttachInv
    <2>3. "close" \notin Range(Kinds(name))
      <3>1. file \in Range(attached') /\ file.name = name
        BY <1>8 DEF file
      <3>2. "close" \notin Range(Kinds(file.name))
        BY <1>9, <3>1 DEF Undisturbed
      <3> QED
        BY <3>1, <3>2
    <2>4. \A i \in 1..Len(name) : name[i].tok \notin {"bar", "close"}
      BY <1>4, <1>6, <2>3, KindsOfTokens
    <2>5. Lengthened(T, note, name, blob, note')
      BY <1>1, <1>2, <1>4, <1>5, <2>4 DEF Lengthened
    <2>6. Extract(note') = Append(Extract(note), file)
      BY <2>2, <2>5, ExtractReturns DEF file
    <2>7. Detach(note') = Detach(note)
      BY <2>2, <2>5, DetachReturns
    <2>8. Closed(note')
      BY <2>5, LengthenedIsClosed
    <2> QED
      BY <1>1, <1>2, <2>2, <2>6, <2>7, <2>8 DEF file
  <1> QED
    BY <1>7, <1>9 DEF AttachInv

\* What was attached to a note comes back whole, by its name and in order, and
\* detaching leaves what was typed, for every note, every value and every number of
\* attachments, unless an opening marker was typed or a name holds a closing one
\* (FileEmbed::embed, extract and strip).
THEOREM AttachmentsComeBack == HandedSpec => []AttachmentsReturn
PROOF
  <1>1. HandedInit => AttachInv
    <2>1. SUFFICES ASSUME HandedInit PROVE AttachInv
      OBVIOUS
    <2>2. attached = <<>> /\ note = typed /\ note \in Seq(TokensOf(Boxed))
      BY <2>1, HandedStarts DEF HandedInit, HandedInv, Prepared
    <2>3. attached \in Seq([name : Names, data : Boxed])
      BY <2>2
    <2>4. Undisturbed => \A i \in 1..Len(note) : note[i].tok # "open"
      BY <2>2, KindsOfTokens DEF Undisturbed
    <2> QED
      BY <2>2, <2>3, <2>4, NothingAttached DEF AttachInv
  <1>2. HandedInv /\ HandedInv' /\ AttachInv /\ [HandedNext]_handed => AttachInv'
    <2>1. SUFFICES ASSUME HandedInv, HandedInv', AttachInv, [HandedNext]_handed
                   PROVE  AttachInv'
      OBVIOUS
    <2>2. note' \in Seq(TokensOf(Boxed'))
      BY <2>1 DEF HandedInv, Prepared
    <2>3. CASE UNCHANGED <<note, typed, attached>>
      BY <2>1, <2>3 DEF AttachInv, Undisturbed, Boxed
    <2>4. CASE Attach
      BY <2>1, <2>4, AttachKeeps
    <2>5. CASE DetachAll \/ Write
      <3>1. note' = typed' /\ attached' = <<>>
        BY <2>5 DEF DetachAll, Write
      <3> QED
        BY <2>2, <3>1, TypedAlone
    <2>6. CASE Compress \/ Protect \/ Seal \/ Export \/ Read \/ Unwrap \/ UNCHANGED handed
      BY <2>3, <2>6 DEF Compress, Protect, Seal, Bench, Export, Read, Unwrap, handed
    <2> QED
      BY <2>1, <2>4, <2>5, <2>6 DEF HandedNext
  <1>3. AttachInv => AttachmentsReturn
    BY DEF AttachInv, Undisturbed, AttachmentsReturn
  <1> QED
    BY <1>1, <1>2, <1>3, HandedInvariant, PTL DEF HandedSpec

-----------------------------------------------------------------------------
(* The words of a document.                                                *)

\* Words of the kind in the places of a document are a document.
LEMMA PlaceByPlace ==
    ASSUME NEW S, NEW d \in Seq(S), NEW e \in [DOMAIN d -> S]
    PROVE  e \in Seq(S)
PROOF
  <1>1. DOMAIN d = 1..Len(d) /\ Len(d) \in Nat
    BY SMT
  <1>2. QED
    BY <1>1, SeqDef, Zenon

\* A word whose part that is looked up was chosen anew.
Rewritten(w, bit) ==
    [w EXCEPT !.reads[Part(w)] = [@ EXCEPT !.variant = bit, !.form = Recased(Look(w).form)]]

\* It stays the word it is, and that part of it stays the part that is looked up.
LEMMA RewritesAPart ==
    ASSUME NEW w \in Term, NEW bit \in Bits
    PROVE  LET x == Rewritten(w, bit) IN
           /\ x \in Term /\ x.own = w.own /\ x.veil = w.veil
           /\ Part(w) \in Parts /\ Part(x) = Part(w)
           /\ \A part \in Parts :
                /\ x.reads[part].group = w.reads[part].group
                /\ part # Part(w) => x.reads[part] = w.reads[part]
           /\ x.reads[Part(w)].variant = bit
           /\ x.reads[Part(w)].form = Recased(w.reads[Part(w)].form)
PROOF
  <1> DEFINE p == Part(w)
             r == w.reads[p]
             q == [r EXCEPT !.variant = bit, !.form = Recased(r.form)]
             f == [w.reads EXCEPT ![p] = q]
             x == Rewritten(w, bit)
  <1>1. /\ w.reads \in [Parts -> Reading] /\ w.own \in Bits /\ w.veil \in SUBSET Veils
        /\ w = [reads |-> w.reads, own |-> w.own, veil |-> w.veil]
    BY DEF Term
  <1>2. p \in Parts
    BY DEF Part, Parts
  <1>3. r \in Reading
    BY <1>1, <1>2
  <1>4. q \in Reading /\ q.group = r.group /\ q.variant = bit /\ q.form = Recased(r.form)
    <2>1. Recased(r.form) \in Forms
      BY <1>3 DEF Reading, Recased, Forms
    <2> QED
      BY <1>3, <2>1 DEF Reading
  <1>5. x = [w EXCEPT !.reads = f]
    BY DEF Rewritten, Look
  <1> HIDE DEF q, p
  <1>6. /\ f \in [Parts -> Reading] /\ f[p] = q
        /\ \A part \in Parts : part # p => f[part] = w.reads[part]
    BY <1>1, <1>2, <1>4
  <1> HIDE DEF f
  <1>7. x = [reads |-> f, own |-> w.own, veil |-> w.veil]
    BY <1>1, <1>5
  <1>8. x \in Term /\ x.own = w.own /\ x.veil = w.veil /\ x.reads = f
    BY <1>1, <1>6, <1>7 DEF Term
  <1>9. Part(x) = p
    BY <1>8 DEF Part, p
  <1>10. \A part \in Parts : x.reads[part].group = w.reads[part].group
    BY <1>4, <1>6, <1>8
  <1> QED
    BY <1>2, <1>4, <1>6, <1>8, <1>9, <1>10 DEF p

\* What a bit may be chosen for.
Chooses(d, chosen) ==
    DOMAIN chosen \subseteq Matched(d) /\ \A i \in DOMAIN chosen : chosen[i] \in Bits

\* Rebuilding rewrites the matched words that are chosen for, and no others.
LEMMA RebuiltWords ==
    ASSUME NEW d \in Seq(Term), NEW chosen, Chooses(d, chosen)
    PROVE  /\ Rebuilt(d, chosen) \in Seq(Term)
           /\ DOMAIN Rebuilt(d, chosen) = DOMAIN d
           /\ \A i \in DOMAIN d :
                Rebuilt(d, chosen)[i] =
                    IF i \in DOMAIN chosen THEN Rewritten(d[i], chosen[i]) ELSE d[i]
PROOF
  <1> DEFINE e == Rebuilt(d, chosen)
  <1>1. /\ DOMAIN e = DOMAIN d
        /\ \A i \in DOMAIN d :
            e[i] = IF i \in DOMAIN chosen THEN Rewritten(d[i], chosen[i]) ELSE d[i]
    BY DEF Rebuilt, Rewritten, Look
  <1>2. e = [i \in DOMAIN d |-> e[i]]
    BY DEF Rebuilt
  <1> HIDE DEF e
  <1>3. ASSUME NEW i \in DOMAIN d PROVE e[i] \in Term
    <2>1. d[i] \in Term
      OBVIOUS
    <2>2. i \in DOMAIN chosen => chosen[i] \in Bits
      BY DEF Chooses
    <2> QED
      BY <1>1, <2>1, <2>2, RewritesAPart
  <1>4. e \in [DOMAIN d -> Term]
    BY <1>2, <1>3
  <1>5. e \in Seq(Term)
    BY <1>4, PlaceByPlace
  <1> QED
    BY <1>1, <1>5 DEF e

\* Whether a word is matched is the same before and after.
LEMMA RebuiltMatches ==
    ASSUME NEW d \in Seq(Term), NEW chosen, Chooses(d, chosen)
    PROVE  /\ Matched(Rebuilt(d, chosen)) = Matched(d)
           /\ Veiling(Rebuilt(d, chosen)) = Veiling(d)
           /\ \A i \in DOMAIN d : /\ Rebuilt(d, chosen)[i].own = d[i].own
                                  /\ Part(Rebuilt(d, chosen)[i]) = Part(d[i])
PROOF
  <1> DEFINE e == Rebuilt(d, chosen)
  <1>1. /\ DOMAIN e = DOMAIN d
        /\ \A i \in DOMAIN d :
            e[i] = IF i \in DOMAIN chosen THEN Rewritten(d[i], chosen[i]) ELSE d[i]
    BY RebuiltWords
  <1> HIDE DEF e
  <1>2. ASSUME NEW i \in DOMAIN d
        PROVE  /\ Alone(e[i]) <=> Alone(d[i])
               /\ Look(e[i]).group = Look(d[i]).group
               /\ e[i].veil = d[i].veil /\ e[i].own = d[i].own /\ Part(e[i]) = Part(d[i])
    <2>1. d[i] \in Term
      OBVIOUS
    <2>2. CASE i \in DOMAIN chosen
      <3> DEFINE w == d[i]
                 x == Rewritten(w, chosen[i])
      <3>1. chosen[i] \in Bits
        BY <2>2 DEF Chooses
      <3>2. /\ x.own = w.own /\ x.veil = w.veil /\ Part(w) \in Parts /\ Part(x) = Part(w)
            /\ \A part \in Parts :
                /\ x.reads[part].group = w.reads[part].group
                /\ part # Part(w) => x.reads[part] = w.reads[part]
        BY <2>1, <3>1, RewritesAPart
      <3> HIDE DEF w, x
      <3>3. Look(x).group = Look(w).group
        BY <3>2 DEF Look
      <3>4. Alone(x) <=> Alone(w)
        BY <3>2 DEF Alone, Part, Parts
      <3> QED
        BY <1>1, <2>2, <3>2, <3>3, <3>4 DEF w, x
    <2>3. CASE i \notin DOMAIN chosen
      BY <1>1, <2>3
    <2> QED
      BY <2>2, <2>3
  <1>3. Matched(e) = Matched(d)
    BY <1>1, <1>2 DEF Matched
  <1>4. Veiling(e) = Veiling(d)
    BY <1>1, <1>2 DEF Veiling
  <1> QED
    BY <1>2, <1>3, <1>4 DEF e

\* In a document match_case gives back, rebuilding changes variants only.
LEMMA RebuiltRewords ==
    ASSUME NEW d \in Seq(Term), Ordinary(d), NEW chosen, Chooses(d, chosen)
    PROVE  /\ Rewords(Rebuilt(d, chosen), d)
           /\ SameVeils(Rebuilt(d, chosen), d)
           /\ \A i \in DOMAIN chosen : Look(Rebuilt(d, chosen)[i]).variant = chosen[i]
PROOF
  <1> DEFINE e == Rebuilt(d, chosen)
  <1>1. /\ DOMAIN e = DOMAIN d
        /\ \A i \in DOMAIN d :
            e[i] = IF i \in DOMAIN chosen THEN Rewritten(d[i], chosen[i]) ELSE d[i]
    BY RebuiltWords
  <1>2. /\ Matched(e) = Matched(d) /\ Veiling(e) = Veiling(d)
        /\ \A i \in DOMAIN d : e[i].own = d[i].own /\ Part(e[i]) = Part(d[i])
    BY RebuiltMatches
  <1> HIDE DEF e
  <1>3. ASSUME NEW i \in DOMAIN d, NEW part \in Parts
        PROVE  /\ e[i].reads[part].group = d[i].reads[part].group
               /\ e[i].reads[part].form = d[i].reads[part].form
               /\ \/ e[i].reads[part].variant = d[i].reads[part].variant
                  \/ /\ i \in Matched(d) /\ part = Part(d[i])
                     /\ d[i].reads[part].group # NoGroup
    <2>1. CASE i \in DOMAIN chosen
      <3> DEFINE w == d[i]
                 x == Rewritten(w, chosen[i])
      <3>1. w \in Term /\ chosen[i] \in Bits /\ i \in Matched(d)
        BY <2>1 DEF Chooses
      <3>2. /\ x.reads[part].group = w.reads[part].group
            /\ part # Part(w) => x.reads[part] = w.reads[part]
            /\ x.reads[Part(w)].form = Recased(w.reads[Part(w)].form)
        BY <3>1, RewritesAPart
      <3>3. w.reads[Part(w)].group # NoGroup
        BY <3>1 DEF Matched, Look
      <3>4. part = Part(w) => Recased(w.reads[part].form) = w.reads[part].form
        BY <3>3 DEF Ordinary
      <3>5. e[i] = x
        BY <1>1, <2>1
      <3> HIDE DEF w, x
      <3>6. x.reads[part].form = w.reads[part].form
        BY <3>2, <3>4
      <3> QED
        BY <3>1, <3>2, <3>3, <3>5, <3>6 DEF w
    <2>2. CASE i \notin DOMAIN chosen
      BY <1>1, <2>2
    <2> QED
      BY <2>1, <2>2
  <1>4. Rewords(e, d)
    BY <1>1, <1>2, <1>3 DEF Rewords
  <1>5. SameVeils(e, d)
    BY <1>1, <1>2, <1>3 DEF SameVeils
  <1>6. ASSUME NEW i \in DOMAIN chosen PROVE Look(e[i]).variant = chosen[i]
    <2>1. i \in DOMAIN d /\ d[i] \in Term /\ chosen[i] \in Bits
      BY DEF Chooses, Matched
    <2>2. e[i] = Rewritten(d[i], chosen[i])
      BY <1>1, <2>1
    <2> QED
      BY <2>1, <2>2, RewritesAPart DEF Look
  <1> QED
    BY <1>4, <1>5, <1>6 DEF e

\* Words of a second document that are those of a third are those of the third.
LEMMA RewordsComposes ==
    ASSUME NEW d, NEW e, NEW f, Rewords(d, e), Rewords(e, f)
    PROVE  Rewords(d, f)
PROOF
  BY DEF Rewords

\* Words are told apart by what their parts read as.
LEMMA SameWord ==
    ASSUME NEW w \in Term, NEW x \in Term, w.own = x.own, w.veil = x.veil,
           \A part \in Parts : /\ w.reads[part].group = x.reads[part].group
                               /\ w.reads[part].variant = x.reads[part].variant
                               /\ w.reads[part].form = x.reads[part].form
    PROVE  w = x
PROOF
  <1>1. /\ w.reads \in [Parts -> Reading] /\ x.reads \in [Parts -> Reading]
        /\ w = [reads |-> w.reads, own |-> w.own, veil |-> w.veil]
        /\ x = [reads |-> x.reads, own |-> x.own, veil |-> x.veil]
    BY DEF Term
  <1>2. ASSUME NEW part \in Parts PROVE w.reads[part] = x.reads[part]
    <2>1. w.reads[part] \in Reading /\ x.reads[part] \in Reading
      BY <1>1
    <2> QED
      BY <2>1 DEF Reading
  <1>3. w.reads = x.reads
    BY <1>1, <1>2
  <1> QED
    BY <1>1, <1>3

\* The canonical form has every matched part at its first variant.
LEMMA CanonicalChooses ==
    ASSUME NEW d
    PROVE  LET chosen == [i \in {j \in Matched(d) : Look(d[j]).variant # 0} |-> 0] IN
           Canonical(d) = Rebuilt(d, chosen) /\ Chooses(d, chosen)
PROOF
  BY DEF Canonical, Chooses, Bits

\* Word by word: every other part is as it was.
LEMMA CanonicalWords ==
    ASSUME NEW d \in Seq(Term), Ordinary(d), NEW i \in DOMAIN d, NEW part \in Parts
    PROVE  LET x == Canonical(d)[i] IN
           /\ x \in Term /\ x.own = d[i].own /\ x.veil = d[i].veil
           /\ x.reads[part].group = d[i].reads[part].group
           /\ x.reads[part].form = d[i].reads[part].form
           /\ x.reads[part].variant =
                IF i \in Matched(d) /\ part = Part(d[i]) THEN 0 ELSE d[i].reads[part].variant
PROOF
  <1> DEFINE J == {j \in Matched(d) : Look(d[j]).variant # 0}
             chosen == [j \in J |-> 0]
             e == Canonical(d)
  <1>1. e = Rebuilt(d, chosen) /\ Chooses(d, chosen) /\ DOMAIN chosen = J
    BY CanonicalChooses
  <1> HIDE DEF e, chosen
  <1>2. /\ e \in Seq(Term) /\ DOMAIN e = DOMAIN d
        /\ e[i] = IF i \in J THEN Rewritten(d[i], chosen[i]) ELSE d[i]
    BY <1>1, RebuiltWords
  <1>3. e[i] \in Term /\ d[i] \in Term
    BY <1>2
  <1>4. Rewords(e, d) /\ \A j \in J : Look(e[j]).variant = chosen[j]
    BY <1>1, RebuiltRewords
  <1>5. e[i].own = d[i].own /\ Part(e[i]) = Part(d[i]) /\ e[i].veil = d[i].veil
    <2>1. Veiling(e)[i] = Veiling(d)[i]
      BY <1>1, RebuiltMatches
    <2>2. e[i].veil = d[i].veil
      BY <1>2, <2>1 DEF Veiling
    <2> QED
      BY <1>1, <2>2, RebuiltMatches
  <1>6. /\ e[i].reads[part].group = d[i].reads[part].group
        /\ e[i].reads[part].form = d[i].reads[part].form
    BY <1>2, <1>4 DEF Rewords
  <1>7. CASE i \in J /\ part = Part(d[i])
    <2>1. chosen[i] = 0
      BY <1>7 DEF chosen
    <2>2. e[i].reads[part].variant = 0
      BY <1>4, <1>5, <1>7, <2>1 DEF Look
    <2> QED
      BY <1>3, <1>5, <1>6, <1>7, <2>2 DEF e
  <1>8. CASE i \in J /\ part # Part(d[i])
    <2>1. chosen[i] \in Bits
      BY <1>8 DEF chosen, Bits
    <2>2. e[i].reads[part] = d[i].reads[part]
      BY <1>2, <1>3, <1>8, <2>1, RewritesAPart
    <2> QED
      BY <1>3, <1>5, <1>6, <1>8, <2>2 DEF e
  <1>9. CASE i \notin J
    <2>1. e[i] = d[i]
      BY <1>2, <1>9
    <2>2. i \in Matched(d) /\ part = Part(d[i]) => d[i].reads[part].variant = 0
      BY <1>9 DEF Look
    <2> QED
      BY <1>3, <2>1, <2>2 DEF e
  <1> QED
    BY <1>7, <1>8, <1>9

\* Documents alike but for variants of what is matched have one canonical form,
\* from which the key is derived, and the same words are matched in them.
LEMMA AlikeReads ==
    ASSUME NEW d \in Seq(Term), NEW e \in Seq(Term), Ordinary(d),
           Rewords(d, e), SameVeils(d, e)
    PROVE  /\ Matched(d) = Matched(e)
           /\ \A i : Nth(d, i) = Nth(e, i)
           /\ Canonical(d) = Canonical(e)
           /\ \A k, n : Whitening(k, d, n) = Whitening(k, e, n)
PROOF
  <1>1. DOMAIN d = DOMAIN e /\ Ordinary(e)
    BY DEF Rewords, Ordinary
  <1>2. ASSUME NEW i \in DOMAIN d
        PROVE  /\ d[i] \in Term /\ e[i] \in Term
               /\ d[i].own = e[i].own /\ d[i].veil = e[i].veil /\ Part(d[i]) = Part(e[i])
               /\ \A part \in Parts :
                    /\ d[i].reads[part].group = e[i].reads[part].group
                    /\ d[i].reads[part].form = e[i].reads[part].form
                    /\ \/ i \in Matched(d) /\ part = Part(d[i])
                       \/ d[i].reads[part].variant = e[i].reads[part].variant
    <2>1. d[i] \in Term /\ e[i] \in Term
      BY <1>1
    <2>2. Veiling(d)[i] = d[i].veil /\ Veiling(e)[i] = e[i].veil /\ Veiling(d) = Veiling(e)
      BY <1>1 DEF Veiling, SameVeils
    <2>3. d[i].own = e[i].own
      BY DEF Rewords
    <2>4. Part(d[i]) = Part(e[i])
      BY <2>2 DEF Part
    <2> QED
      BY <2>1, <2>2, <2>3, <2>4 DEF Rewords, SameVeils
  <1>3. ASSUME NEW i \in DOMAIN d
        PROVE  (Alone(d[i]) <=> Alone(e[i])) /\ Look(d[i]).group = Look(e[i]).group
    <2>1. Part(d[i]) \in Parts /\ "whole" \in Parts /\ "piece" \in Parts
      BY DEF Part, Parts
    <2>2. Look(d[i]).group = Look(e[i]).group
      BY <1>2, <2>1 DEF Look
    <2>3. CASE "apart" \in d[i].veil
      <3>1. Part(d[i]) # "whole"
        BY <2>3 DEF Part
      <3>2. d[i].reads["whole"].variant = e[i].reads["whole"].variant
        BY <1>2, <2>1, <3>1
      <3> QED
        BY <1>2, <2>2, <2>3, <3>2 DEF Alone
    <2>4. CASE "apart" \notin d[i].veil
      <3>1. Part(d[i]) # "piece"
        BY <2>4 DEF Part
      <3>2. d[i].reads["piece"].variant = e[i].reads["piece"].variant
        BY <1>2, <2>1, <3>1
      <3> QED
        BY <1>2, <2>2, <2>4, <3>2 DEF Alone
    <2> QED
      BY <2>3, <2>4
  <1>4. Matched(d) = Matched(e)
    BY <1>1, <1>3 DEF Matched
  <1>5. \A i : Nth(d, i) = Nth(e, i)
    BY <1>4 DEF Nth
  <1>6. ASSUME NEW i \in DOMAIN d PROVE Canonical(d)[i] = Canonical(e)[i]
    <2> DEFINE x == Canonical(d)[i]
               y == Canonical(e)[i]
    <2>1. "whole" \in Parts
      BY DEF Parts
    <2>2. ASSUME NEW part \in Parts
          PROVE  /\ x \in Term /\ y \in Term /\ x.own = y.own /\ x.veil = y.veil
                 /\ x.reads[part].group = y.reads[part].group
                 /\ x.reads[part].form = y.reads[part].form
                 /\ x.reads[part].variant = y.reads[part].variant
      <3>1. /\ x \in Term /\ x.own = d[i].own /\ x.veil = d[i].veil
            /\ x.reads[part].group = d[i].reads[part].group
            /\ x.reads[part].form = d[i].reads[part].form
            /\ x.reads[part].variant =
                IF i \in Matched(d) /\ part = Part(d[i]) THEN 0 ELSE d[i].reads[part].variant
        BY CanonicalWords
      <3>2. /\ y \in Term /\ y.own = e[i].own /\ y.veil = e[i].veil
            /\ y.reads[part].group = e[i].reads[part].group
            /\ y.reads[part].form = e[i].reads[part].form
            /\ y.reads[part].variant =
                IF i \in Matched(e) /\ part = Part(e[i]) THEN 0 ELSE e[i].reads[part].variant
        BY <1>1, CanonicalWords
      <3> HIDE DEF x, y
      <3> QED
        BY <1>2, <1>4, <3>1, <3>2
    <2> HIDE DEF x, y
    <2>3. x = y
      BY <2>1, <2>2, SameWord
    <2> QED
      BY <2>3 DEF x, y
  <1>7. Canonical(d) = Canonical(e)
    <2>1. Canonical(d) = [i \in DOMAIN d |-> Canonical(d)[i]]
      BY DEF Canonical, Rebuilt
    <2>2. Canonical(e) = [i \in DOMAIN d |-> Canonical(e)[i]]
      BY <1>1 DEF Canonical, Rebuilt
    <2>3. QED
      BY <1>6, <2>1, <2>2
  <1>8. \A k, n : Whitening(k, d, n) = Whitening(k, e, n)
    BY <1>7 DEF Whitening
  <1> QED
    BY <1>4, <1>5, <1>7, <1>8

\* Matched words are counted from one.
LEMMA NthIsPositive ==
    ASSUME NEW d \in Seq(Term), NEW i \in Matched(d)
    PROVE  Nth(d, i) \in Nat \ {0}
PROOF
  <1> DEFINE R == {j \in Matched(d) : j <= i}
  <1>1. DOMAIN d = 1..Len(d) /\ Len(d) \in Nat
    BY SMT
  <1>2. IsFiniteSet(1..Len(d))
    BY <1>1, FS_Interval
  <1>3. i \in Nat /\ i \in R
    BY <1>1 DEF Matched
  <1>4. R \subseteq 1..Len(d)
    BY <1>1 DEF Matched
  <1>5. IsFiniteSet(R)
    BY <1>2, <1>4, FS_Subset
  <1>6. Cardinality(R) \in Nat /\ Cardinality(R) # 0
    BY <1>3, <1>5, FS_CardinalityType, FS_EmptySet
  <1>7. QED
    BY <1>6 DEF Nth

\* The pattern has a bit for every word that carries one.
LEMMA PatternBits ==
    ASSUME NEW d \in Seq(Term), NEW i \in Carrying(d)
    PROVE  Magic[Nth(d, i)] \in Bits
PROOF
  <1>1. i \in Matched(d) /\ Nth(d, i) <= Len(Magic)
    BY DEF Carrying
  <1>2. Nth(d, i) \in Nat \ {0}
    BY <1>1, NthIsPositive
  <1>3. Magic \in Seq(Bits)
    BY WordsAssumption
  <1>4. Nth(d, i) \in 1..Len(Magic)
    BY <1>1, <1>2, <1>3
  <1>5. QED
    BY <1>3, <1>4

\* Whitening gives bits.
LEMMA WhiteningBits == \A k, d, n : Whitening(k, d, n) \in Bits
PROOF
  BY DEF Whitening, Bits

\* What was flipped by a bit is given back by the same bit.
LEMMA FlipBits ==
    ASSUME NEW a \in Bits, NEW b \in Bits
    PROVE  Flip(a, b) \in Bits /\ Flip(Flip(a, b), b) = a
PROOF
  BY DEF Flip, Bits

\* A signature is chosen in bits, for the words that carry it.
LEMMA SignatureChooses ==
    ASSUME NEW d \in Seq(Term), NEW k
    PROVE  Chooses(d, [i \in Carrying(d) |-> Flip(Magic[Nth(d, i)], Whitening(k, d, Nth(d, i)))])
PROOF
  <1>1. \A i \in Carrying(d) : Flip(Magic[Nth(d, i)], Whitening(k, d, Nth(d, i))) \in Bits
    BY PatternBits, WhiteningBits, FlipBits
  <1>2. Carrying(d) \subseteq Matched(d)
    BY DEF Carrying
  <1> QED
    BY <1>1, <1>2 DEF Chooses

\* A signature reads back under its key in every document of forms match_case
\* gives back, whatever pieces its words are in (embed_signature, has_signature).
THEOREM StampReadsBack ==
    ASSUME NEW d \in Seq(Term), NEW k, Ordinary(d), HasRoom(d)
    PROVE  HasSignature(WithSignature(d, k), k)
PROOF
  <1> DEFINE bits == [i \in Carrying(d) |-> Flip(Magic[Nth(d, i)], Whitening(k, d, Nth(d, i)))]
             e == WithSignature(d, k)
  <1>1. e = Rebuilt(d, bits) /\ DOMAIN bits = Carrying(d)
    BY DEF WithSignature
  <1>2. Chooses(d, bits)
    BY SignatureChooses
  <1>3. \A i \in Carrying(d) : bits[i] = Flip(Magic[Nth(d, i)], Whitening(k, d, Nth(d, i)))
    OBVIOUS
  <1> HIDE DEF bits, e
  <1>4. e \in Seq(Term)
    BY <1>1, <1>2, RebuiltWords
  <1>5. /\ Rewords(e, d) /\ SameVeils(e, d)
        /\ \A i \in DOMAIN bits : Look(e[i]).variant = bits[i]
    BY <1>1, <1>2, RebuiltRewords
  <1>6. Ordinary(e)
    BY <1>5 DEF Ordinary, Rewords
  <1>7. /\ Matched(e) = Matched(d)
        /\ \A i : Nth(e, i) = Nth(d, i)
        /\ \A n : Whitening(k, e, n) = Whitening(k, d, n)
    BY <1>4, <1>5, <1>6, AlikeReads
  <1>8. Carrying(e) = Carrying(d)
    BY <1>7 DEF Carrying
  <1>9. ASSUME NEW i \in Carrying(e)
        PROVE  Flip(Look(e[i]).variant, Whitening(k, e, Nth(e, i))) = Magic[Nth(e, i)]
    <2>1. Look(e[i]).variant = Flip(Magic[Nth(d, i)], Whitening(k, d, Nth(d, i)))
      BY <1>1, <1>3, <1>5, <1>8
    <2>2. Magic[Nth(d, i)] \in Bits /\ Whitening(k, d, Nth(d, i)) \in Bits
      BY <1>8, PatternBits, WhiteningBits
    <2>3. QED
      BY <1>7, <2>1, <2>2, FlipBits
  <1>10. HasRoom(e)
    BY <1>7 DEF HasRoom
  <1> QED
    BY <1>9, <1>10 DEF HasSignature, e

-----------------------------------------------------------------------------
(* Types.                                                                  *)

\* A flip chooses the other variant.
LEMMA FlippedChooses ==
    ASSUME NEW d \in Seq(Term), NEW places \in SUBSET Matched(d)
    PROVE  LET chosen == [i \in places |-> 1 - Look(d[i]).variant] IN
           Flipped(d, places) = Rebuilt(d, chosen) /\ Chooses(d, chosen)
PROOF
  <1>1. ASSUME NEW i \in places PROVE 1 - Look(d[i]).variant \in Bits
    <2>1. d[i] \in Term /\ Part(d[i]) \in Parts
      BY DEF Matched, Part, Parts
    <2>2. Look(d[i]) \in Reading
      BY <2>1 DEF Look, Term
    <2>3. QED
      BY <2>2 DEF Reading, Bits
  <1>2. QED
    BY <1>1 DEF Flipped, Chooses

\* Every way the program rebuilds a document keeps the words of an ordinary one.
LEMMA Rebuilds ==
    ASSUME NEW d \in Seq(Term), NEW e,
           \/ \E k \in Master : e = WithSignature(d, k)
           \/ e = Canonical(d)
           \/ \E places \in SUBSET Matched(d) : e = Flipped(d, places)
    PROVE  /\ e \in Seq(Term) /\ DOMAIN e = DOMAIN d /\ Veiling(e) = Veiling(d)
           /\ Ordinary(d) => Rewords(e, d) /\ SameVeils(e, d)
PROOF
  <1>1. \E chosen : e = Rebuilt(d, chosen) /\ Chooses(d, chosen)
    <2>1. CASE \E k \in Master : e = WithSignature(d, k)
      BY <2>1, SignatureChooses DEF WithSignature
    <2>2. CASE e = Canonical(d)
      BY <2>2, CanonicalChooses, Zenon
    <2>3. CASE \E places \in SUBSET Matched(d) : e = Flipped(d, places)
      BY <2>3, FlippedChooses, Zenon
    <2>4. QED
      BY <2>1, <2>2, <2>3
  <1>2. QED
    BY <1>1, RebuiltWords, RebuiltMatches, RebuiltRewords

\* What the other carriers take out of a document leaves a document.
LEMMA UnveiledIsADocument ==
    ASSUME NEW d \in Seq(Term), NEW classes
    PROVE  /\ Unveiled(d, classes) \in Seq(Term) /\ DOMAIN Unveiled(d, classes) = DOMAIN d
           /\ \A j \in DOMAIN d :
                /\ Unveiled(d, classes)[j].reads = d[j].reads
                /\ Unveiled(d, classes)[j].own = d[j].own
                /\ Unveiled(d, classes)[j].veil = d[j].veil \ classes
PROOF
  <1>1. ASSUME NEW i \in DOMAIN d
        PROVE  LET w == [d[i] EXCEPT !.veil = @ \ classes] IN
               /\ w \in Term /\ w.reads = d[i].reads /\ w.own = d[i].own
               /\ w.veil = d[i].veil \ classes
    <2>1. d[i] \in Term
      OBVIOUS
    <2>2. d[i].veil \ classes \in SUBSET Veils
      BY <2>1 DEF Term
    <2>3. QED
      BY <2>1, <2>2 DEF Term
  <1>2. Unveiled(d, classes) \in [DOMAIN d -> Term]
    BY <1>1 DEF Unveiled
  <1>3. Unveiled(d, classes) \in Seq(Term)
    BY <1>2, PlaceByPlace
  <1>4. QED
    BY <1>1, <1>3 DEF Unveiled

\* The veil of a word after one was put on another or on it.
VeilAt(d, i, veil, j) == IF j = i THEN d[j].veil \cup {veil} ELSE d[j].veil

\* And so does what they put in.
LEMMA VeiledIsADocument ==
    ASSUME NEW d \in Seq(Term), NEW i, NEW veil \in Veils
    PROVE  /\ Veiled(d, i, veil) \in Seq(Term) /\ DOMAIN Veiled(d, i, veil) = DOMAIN d
           /\ \A j \in DOMAIN d :
                /\ Veiled(d, i, veil)[j].reads = d[j].reads
                /\ Veiled(d, i, veil)[j].own = d[j].own
                /\ Veiled(d, i, veil)[j].veil = VeilAt(d, i, veil, j)
PROOF
  <1> DEFINE e == Veiled(d, i, veil)
  <1>1. DOMAIN e = DOMAIN d /\ e = [j \in DOMAIN d |-> e[j]]
    BY DEF Veiled
  <1>2. ASSUME NEW j \in DOMAIN d
        PROVE  /\ e[j] \in Term /\ e[j].reads = d[j].reads /\ e[j].own = d[j].own
               /\ e[j].veil = VeilAt(d, i, veil, j)
    <2>1. d[j] \in Term
      BY SMT
    <2>2. CASE j = i
      <3>1. e[j] = [d[j] EXCEPT !.veil = d[j].veil \cup {veil}]
        BY <2>2, Zenon DEF Veiled
      <3>2. d[j].veil \cup {veil} \in SUBSET Veils
        BY <2>1 DEF Term
      <3> HIDE DEF e
      <3> QED
        BY <2>1, <2>2, <3>1, <3>2 DEF Term, VeilAt
    <2>3. CASE j # i
      <3>1. e[j] = d[j]
        BY <2>3, Zenon DEF Veiled
      <3> QED
        BY <2>1, <2>3, <3>1 DEF VeilAt
    <2> QED
      BY <2>2, <2>3
  <1> HIDE DEF e
  <1>3. e \in [DOMAIN d -> Term]
    BY <1>1, <1>2
  <1>4. e \in Seq(Term)
    BY <1>3, PlaceByPlace
  <1> QED
    BY <1>1, <1>2, <1>4 DEF e

\* What a step is, whoever takes it.
LEMMA Steps ==
    ASSUME WordsNext, words \in Seq(Term)
    PROVE  /\ calls < MaxCalls /\ calls' = calls + 1
           /\ \/ \E k \in Master :
                    /\ HasRoom(words) /\ words' = WithSignature(words, k)
                    /\ stamp' = [key |-> k, at |-> WithSignature(words, k)]
                    /\ source' = source /\ parted' = parted
              \/ /\ \/ words' = Canonical(words)
                    \/ \E places \in SUBSET Matched(words) : words' = Flipped(words, places)
                 /\ stamp' = stamp /\ source' = source /\ parted' = parted
              \/ \E i \in DOMAIN words, veil \in Veils :
                    /\ words' = Veiled(words, i, veil)
                    /\ source' = Veiled(source, i, veil)
                    /\ stamp' = stamp /\ parted' = parted \cup Divided(words')
              \/ \E classes : /\ words' = Unveiled(words, classes)
                              /\ source' = Unveiled(source, classes)
                              /\ stamp' = stamp /\ parted' = parted
              \/ /\ \/ words' \in Typings /\ parted' = Divided(words')
                    \/ /\ \E reply \in Replies : words' = Unveiled(reply, Veils)
                       /\ parted' = {}
                 /\ source' = words' /\ stamp' = NoMark
PROOF
  <1>1. \A stride : Strided(words, stride) \in SUBSET Matched(words)
    BY DEF Strided
  <1>2. CASE \E k \in Master : EmbedSignature(k)
    BY <1>2 DEF EmbedSignature, Call
  <1>3. CASE RemoveSignature
    BY <1>3 DEF RemoveSignature, Call
  <1>4. CASE \E stride \in 1..3 : ScrubSynonyms(stride)
    BY <1>1, <1>4, Zenon DEF ScrubSynonyms, Call
  <1>5. CASE \E budget \in 0..Cardinality(Matched(words)) : ScrubGuided(budget)
    BY <1>5, Zenon DEF ScrubGuided, Call
  <1>6. CASE \E online, acknowledged \in BOOLEAN : RewriteByModel(online, acknowledged)
    BY <1>1, <1>6, Zenon DEF RewriteByModel, Call
  <1>7. CASE \E i \in DOMAIN words, veil \in Veils : Veil(i, veil)
    BY <1>7 DEF Veil, Call
  <1>8. CASE \E classes \in SUBSET Veils \ {{}} : Unveil(classes)
    BY <1>8, Zenon DEF Unveil, Call
  <1>9. CASE RetypeWords
    BY <1>9 DEF RetypeWords, Call
  <1>10. QED
    BY <1>2, <1>3, <1>4, <1>5, <1>6, <1>7, <1>8, <1>9 DEF WordsNext

\* Documents stay words, and a signature has a key and a document, for every
\* table, pattern, typing and answer.
THEOREM WordsTypes == WordsSpec => []WordsTypeOK
PROOF
  <1>1. WordsInit => WordsTypeOK
    BY WordsAssumption DEF WordsInit, WordsTypeOK, Divided
  <1>2. ASSUME WordsTypeOK, [WordsNext]_wordvars PROVE WordsTypeOK'
    <2>1. CASE UNCHANGED wordvars
      BY <1>2, <2>1 DEF wordvars, WordsTypeOK
    <2>2. CASE WordsNext
      <3>1. words \in Seq(Term) /\ source \in Seq(Term) /\ parted \subseteq DOMAIN words
        BY <1>2 DEF WordsTypeOK
      <3>2. calls' \in 0..MaxCalls
        BY <1>2, <2>2, <3>1, Steps, WordsAssumption DEF WordsTypeOK
      <3>3. words' \in Seq(Term) /\ source' \in Seq(Term) /\ parted' \subseteq DOMAIN words'
        <4>0. Divided(words') \subseteq DOMAIN words'
          BY DEF Divided
        <4>1. CASE /\ \E k \in Master : words' = WithSignature(words, k)
                   /\ source' = source /\ parted' = parted
          BY <3>1, <4>1, Rebuilds
        <4>2. CASE /\ \/ words' = Canonical(words)
                      \/ \E places \in SUBSET Matched(words) : words' = Flipped(words, places)
                   /\ source' = source /\ parted' = parted
          BY <3>1, <4>2, Rebuilds
        <4>3. CASE \E i \in DOMAIN words, veil \in Veils :
                    /\ words' = Veiled(words, i, veil)
                    /\ source' = Veiled(source, i, veil)
                    /\ parted' = parted \cup Divided(words')
          <5>1. PICK i \in DOMAIN words, veil \in Veils :
                    /\ words' = Veiled(words, i, veil)
                    /\ source' = Veiled(source, i, veil)
                    /\ parted' = parted \cup Divided(words')
            BY <4>3, Zenon
          <5>2. /\ words' \in Seq(Term) /\ DOMAIN words' = DOMAIN words
                /\ source' \in Seq(Term)
            BY <3>1, <5>1, VeiledIsADocument, Zenon
          <5>3. QED
            BY <3>1, <4>0, <5>1, <5>2
        <4>4. CASE \E classes : /\ words' = Unveiled(words, classes)
                                /\ source' = Unveiled(source, classes)
                                /\ parted' = parted
          BY <3>1, <4>4, UnveiledIsADocument
        <4>5. CASE /\ \/ words' \in Typings /\ parted' = Divided(words')
                      \/ /\ \E reply \in Replies : words' = Unveiled(reply, Veils)
                         /\ parted' = {}
                   /\ source' = words'
          BY <4>0, <4>5, WordsAssumption, UnveiledIsADocument
        <4>6. QED
          BY <2>2, <3>1, <4>1, <4>2, <4>3, <4>4, <4>5, Steps, Zenon
      <3>4. stamp' = NoMark \/ stamp' \in [key : Master, at : Seq(Term)]
        <4>1. \A k \in Master : WithSignature(words, k) \in Seq(Term)
          BY <3>1, Rebuilds
        <4>2. QED
          BY <1>2, <2>2, <3>1, <4>1, Steps DEF WordsTypeOK
      <3>5. QED
        BY <3>2, <3>3, <3>4 DEF WordsTypeOK
    <2>3. QED
      BY <1>2, <2>1, <2>2
  <1>3. QED
    BY <1>1, <1>2, PTL DEF WordsSpec

-----------------------------------------------------------------------------
(* The signature.                                                          *)

\* What stands between steps: the words are the source's but for variants, a word
\* in one piece throughout has its piece, and the last signature read where it
\* was written.
Whole(d, e, parts) ==
    /\ Rewords(d, e) /\ Veiling(d) = Veiling(e) /\ Divided(d) \subseteq parts
    /\ \A i \in DOMAIN d \ parts : d[i].reads["piece"].variant = e[i].reads["piece"].variant

Signed(d) == stamp # NoMark => Rewords(d, stamp.at) /\ HasSignature(stamp.at, stamp.key)

Standing == Ordinary(source) => Whole(words, source, parted) /\ Signed(words)

\* Whether forms are those match_case gives back is the same of both.
LEMMA OrdinaryAlike ==
    ASSUME NEW d, NEW e, Rewords(d, e)
    PROVE  Ordinary(d) <=> Ordinary(e)
PROOF
  BY DEF Rewords, Ordinary

\* Rebuilding leaves alone what is not looked up, so every piece of a whole word.
LEMMA RebuiltIsWhole ==
    ASSUME NEW d \in Seq(Term), NEW e \in Seq(Term), NEW f, NEW parts,
           Whole(d, e, parts), Rewords(f, d), SameVeils(f, d)
    PROVE  Whole(f, e, parts)
PROOF
  <1>1. DOMAIN f = DOMAIN d /\ DOMAIN d = DOMAIN e /\ Veiling(f) = Veiling(d)
    BY DEF Whole, Rewords, SameVeils
  <1>2. \A i \in DOMAIN d : f[i].veil = d[i].veil
    <2>1. \A i \in DOMAIN d : Veiling(f)[i] = f[i].veil /\ Veiling(d)[i] = d[i].veil
      BY <1>1 DEF Veiling
    <2> QED
      BY <1>1, <2>1
  <1>3. Divided(f) = Divided(d)
    BY <1>1, <1>2 DEF Divided
  <1>4. ASSUME NEW i \in DOMAIN f \ parts
        PROVE  f[i].reads["piece"].variant = e[i].reads["piece"].variant
    <2>1. i \in DOMAIN d \ parts /\ i \notin Divided(d)
      BY <1>1, <1>4 DEF Whole
    <2>2. Part(f[i]) # "piece"
      BY <1>2, <2>1 DEF Divided, Part
    <2>3. f[i].reads["piece"].variant = d[i].reads["piece"].variant
      BY <1>1, <2>1, <2>2 DEF SameVeils, Parts
    <2> QED
      BY <2>1, <2>3 DEF Whole
  <1>5. Rewords(f, e)
    BY RewordsComposes DEF Whole
  <1> QED
    BY <1>1, <1>3, <1>4, <1>5 DEF Whole

\* Other carriers' characters come and go in both alike, beside what a word is.
LEMMA CarriedAside ==
    ASSUME Whole(words, source, parted),
           DOMAIN words' = DOMAIN words, DOMAIN source' = DOMAIN source,
           \A i \in DOMAIN words :
                /\ words'[i].reads = words[i].reads /\ words'[i].own = words[i].own
                /\ source'[i].reads = source[i].reads /\ source'[i].own = source[i].own
                /\ words'[i].veil = source'[i].veil,
           Divided(words') \subseteq parted', parted \subseteq parted'
    PROVE  Whole(words', source', parted') /\ Rewords(words', words)
PROOF
  <1>1. DOMAIN words = DOMAIN source /\ Rewords(words, source)
    BY DEF Whole, Rewords
  <1>2. Rewords(words', words)
    BY DEF Rewords
  <1>3. Rewords(source, source')
    BY <1>1 DEF Rewords
  <1>4. Rewords(words', source')
    BY <1>1, <1>2, <1>3, RewordsComposes
  <1>5. Veiling(words') = Veiling(source')
    BY <1>1 DEF Veiling
  <1>6. \A i \in DOMAIN words' \ parted' :
            words'[i].reads["piece"].variant = source'[i].reads["piece"].variant
    BY DEF Whole
  <1> QED
    BY <1>2, <1>4, <1>5, <1>6 DEF Whole

\* Every step keeps what stands.
LEMMA StandingKeeps ==
    ASSUME WordsTypeOK, Standing, [WordsNext]_wordvars
    PROVE  Standing'
PROOF
  <1>1. CASE UNCHANGED wordvars
    BY <1>1 DEF wordvars, Standing, Signed
  <1>2. CASE WordsNext
    <2>1. /\ words \in Seq(Term) /\ source \in Seq(Term)
          /\ stamp # NoMark => stamp.at \in Seq(Term)
      BY DEF WordsTypeOK
    <2>2. Ordinary(source) => Ordinary(words) /\ Whole(words, source, parted) /\ Signed(words)
      BY OrdinaryAlike DEF Standing, Whole
    <2>3. ASSUME \/ \E k \in Master : words' = WithSignature(words, k)
                 \/ words' = Canonical(words)
                 \/ \E places \in SUBSET Matched(words) : words' = Flipped(words, places),
                 source' = source, parted' = parted, Ordinary(source)
          PROVE  Whole(words', source, parted) /\ Rewords(words', words)
      <3>1. Rewords(words', words) /\ SameVeils(words', words)
        BY <2>1, <2>2, <2>3, Rebuilds
      <3> QED
        BY <2>1, <2>2, <2>3, <3>1, RebuiltIsWhole
    <2>4. CASE \E k \in Master :
                  /\ HasRoom(words) /\ words' = WithSignature(words, k)
                  /\ stamp' = [key |-> k, at |-> WithSignature(words, k)]
                  /\ source' = source /\ parted' = parted
      <3>1. PICK k \in Master :
                  /\ HasRoom(words) /\ words' = WithSignature(words, k)
                  /\ stamp' = [key |-> k, at |-> WithSignature(words, k)]
                  /\ source' = source /\ parted' = parted
        BY <2>4
      <3>2. stamp'.at = words' /\ stamp'.key = k
        BY <3>1
      <3>3. ASSUME Ordinary(source) PROVE HasSignature(words', k)
        BY <2>1, <2>2, <3>1, <3>3, StampReadsBack
      <3>4. Ordinary(source) => Whole(words', source, parted)
        BY <2>3, <3>1
      <3>5. Rewords(words', words')
        BY DEF Rewords
      <3> QED
        BY <3>1, <3>2, <3>3, <3>4, <3>5 DEF Standing, Signed
    <2>5. CASE /\ \/ words' = Canonical(words)
                  \/ \E places \in SUBSET Matched(words) : words' = Flipped(words, places)
               /\ stamp' = stamp /\ source' = source /\ parted' = parted
      <3>1. ASSUME Ordinary(source)
            PROVE  Whole(words', source, parted) /\ Rewords(words', words)
        BY <2>3, <2>5, <3>1
      <3>2. ASSUME Ordinary(source), stamp # NoMark PROVE Rewords(words', stamp.at)
        BY <2>2, <3>1, <3>2, RewordsComposes DEF Signed
      <3> QED
        BY <2>2, <2>5, <3>1, <3>2 DEF Standing, Signed
    <2>6. ASSUME Rewords(source, source'), stamp' = stamp,
                 Ordinary(source) => Whole(words', source', parted') /\ Rewords(words', words)
          PROVE  Standing'
      <3>1. Ordinary(source') => Ordinary(source)
        BY <2>6, OrdinaryAlike
      <3>2. ASSUME Ordinary(source), stamp # NoMark PROVE Rewords(words', stamp.at)
        BY <2>2, <2>6, <3>2, RewordsComposes DEF Signed
      <3> QED
        BY <2>2, <2>6, <3>1, <3>2 DEF Standing, Signed
    <2>7. CASE \E i \in DOMAIN words, veil \in Veils :
                  /\ words' = Veiled(words, i, veil)
                  /\ source' = Veiled(source, i, veil)
                  /\ stamp' = stamp /\ parted' = parted \cup Divided(words')
      <3>1. PICK i \in DOMAIN words, veil \in Veils :
                  /\ words' = Veiled(words, i, veil)
                  /\ source' = Veiled(source, i, veil)
                  /\ stamp' = stamp /\ parted' = parted \cup Divided(words')
        BY <2>7, Zenon
      <3>2. /\ DOMAIN words' = DOMAIN words
            /\ \A j \in DOMAIN words : /\ words'[j].reads = words[j].reads
                                       /\ words'[j].own = words[j].own
                                       /\ words'[j].veil = VeilAt(words, i, veil, j)
        BY <2>1, <3>1, VeiledIsADocument, Zenon
      <3>3. /\ DOMAIN source' = DOMAIN source
            /\ \A j \in DOMAIN source : /\ source'[j].reads = source[j].reads
                                        /\ source'[j].own = source[j].own
                                        /\ source'[j].veil = VeilAt(source, i, veil, j)
        BY <2>1, <3>1, VeiledIsADocument, Zenon
      <3>4. Rewords(source, source')
        BY <3>3 DEF Rewords
      <3>5. ASSUME Ordinary(source)
            PROVE  Whole(words', source', parted') /\ Rewords(words', words)
        <4>1. Whole(words, source, parted) /\ DOMAIN words = DOMAIN source
          BY <2>2, <3>5 DEF Whole, Rewords
        <4>2. ASSUME NEW j \in DOMAIN words PROVE words'[j].veil = source'[j].veil
          <5>1. Veiling(words)[j] = words[j].veil /\ Veiling(source)[j] = source[j].veil
            BY <4>1, <4>2 DEF Veiling
          <5>2. words[j].veil = source[j].veil
            BY <4>1, <5>1 DEF Whole
          <5> QED
            BY <3>2, <3>3, <4>1, <4>2, <5>2 DEF VeilAt
        <4>3. Divided(words') \subseteq parted' /\ parted \subseteq parted'
          BY <3>1
        <4>4. \A j \in DOMAIN words :
                /\ words'[j].reads = words[j].reads /\ words'[j].own = words[j].own
                /\ source'[j].reads = source[j].reads /\ source'[j].own = source[j].own
                /\ words'[j].veil = source'[j].veil
          BY <3>2, <3>3, <4>1, <4>2
        <4>5. DOMAIN words' = DOMAIN words /\ DOMAIN source' = DOMAIN source
          BY <3>2, <3>3
        <4>6. Whole(words, source, parted)
          BY <4>1
        <4> QED
          BY <4>3, <4>4, <4>5, <4>6, CarriedAside
      <3> QED
        BY <2>6, <3>1, <3>4, <3>5
    <2>8. CASE \E classes : /\ words' = Unveiled(words, classes)
                            /\ source' = Unveiled(source, classes)
                            /\ stamp' = stamp /\ parted' = parted
      <3>1. PICK classes : /\ words' = Unveiled(words, classes)
                           /\ source' = Unveiled(source, classes)
                           /\ stamp' = stamp /\ parted' = parted
        BY <2>8, Zenon
      <3>2. /\ DOMAIN words' = DOMAIN words
            /\ \A j \in DOMAIN words : /\ words'[j].reads = words[j].reads
                                       /\ words'[j].own = words[j].own
                                       /\ words'[j].veil = words[j].veil \ classes
        BY <2>1, <3>1, UnveiledIsADocument
      <3>3. /\ DOMAIN source' = DOMAIN source
            /\ \A j \in DOMAIN source : /\ source'[j].reads = source[j].reads
                                        /\ source'[j].own = source[j].own
                                        /\ source'[j].veil = source[j].veil \ classes
        BY <2>1, <3>1, UnveiledIsADocument
      <3>4. Rewords(source, source')
        BY <3>3 DEF Rewords
      <3>5. ASSUME Ordinary(source)
            PROVE  Whole(words', source', parted') /\ Rewords(words', words)
        <4>1. Whole(words, source, parted) /\ DOMAIN words = DOMAIN source
          BY <2>2, <3>5 DEF Whole, Rewords
        <4>2. ASSUME NEW j \in DOMAIN words PROVE words'[j].veil = source'[j].veil
          <5>1. Veiling(words)[j] = words[j].veil /\ Veiling(source)[j] = source[j].veil
            BY <4>1, <4>2 DEF Veiling
          <5>2. words[j].veil = source[j].veil
            BY <4>1, <5>1 DEF Whole
          <5> QED
            BY <3>2, <3>3, <4>1, <4>2, <5>2
        <4>3. Divided(words') \subseteq parted'
          BY <3>1, <3>2, <4>1 DEF Whole, Divided
        <4>4. \A j \in DOMAIN words :
                /\ words'[j].reads = words[j].reads /\ words'[j].own = words[j].own
                /\ source'[j].reads = source[j].reads /\ source'[j].own = source[j].own
                /\ words'[j].veil = source'[j].veil
          BY <3>2, <3>3, <4>1, <4>2
        <4>5. DOMAIN words' = DOMAIN words /\ DOMAIN source' = DOMAIN source
          BY <3>2, <3>3
        <4>6. Whole(words, source, parted)
          BY <4>1
        <4> QED
          BY <3>1, <4>3, <4>4, <4>5, <4>6, CarriedAside
      <3> QED
        BY <2>6, <3>1, <3>4, <3>5
    <2>9. CASE /\ \/ words' \in Typings /\ parted' = Divided(words')
                  \/ /\ \E reply \in Replies : words' = Unveiled(reply, Veils)
                     /\ parted' = {}
               /\ source' = words' /\ stamp' = NoMark
      <3>1. Divided(words') \subseteq parted'
        <4>1. CASE parted' = Divided(words')
          BY <4>1
        <4>2. CASE \E reply \in Replies : words' = Unveiled(reply, Veils)
          <5>1. PICK reply \in Replies : words' = Unveiled(reply, Veils)
            BY <4>2
          <5>2. reply \in Seq(Term)
            BY WordsAssumption
          <5>3. \A i \in DOMAIN words' : words'[i].veil = reply[i].veil \ Veils
            BY <5>1, <5>2, UnveiledIsADocument
          <5>4. Divided(words') = {}
            BY <5>3 DEF Divided, Veils
          <5> QED
            BY <5>4
        <4> QED
          BY <2>9, <4>1, <4>2
      <3>2. Whole(words', words', parted')
        BY <3>1 DEF Whole, Rewords
      <3> QED
        BY <2>9, <3>2 DEF Standing, Signed
    <2> QED
      BY <1>2, <2>1, <2>4, <2>5, <2>7, <2>8, <2>9, Steps, Zenon
  <1> QED
    BY <1>1, <1>2

\* Whatever signs, scrubs, removes, conceals and cleans, the words stay the source's
\* but for variants, a word no piece of which ever stood apart keeps that piece,
\* and a signature reads exactly while every word or piece that carries it has the
\* variant it was given: for every table, pattern, whitening and number of calls
\* (embed_signature, has_signature, canonical, scrub_synonyms, word_spans).
THEOREM SignaturesStand == WordsSpec => []SignatureStands
PROOF
  <1>1. WordsInit => Standing
    BY DEF WordsInit, Standing, Signed, Whole, Rewords
  <1>2. WordsTypeOK /\ Standing /\ [WordsNext]_wordvars => Standing'
    BY StandingKeeps
  <1>3. WordsTypeOK /\ Standing => SignatureStands
    <2>1. SUFFICES ASSUME WordsTypeOK, Standing, Ordinary(source)
                   PROVE  SignatureStands
      BY DEF SignatureStands
    <2>2. Whole(words, source, parted) /\ Signed(words) /\ Ordinary(words)
      BY <2>1, OrdinaryAlike DEF Standing, Whole
    <2>3. ASSUME stamp # NoMark, SameVeils(words, stamp.at)
          PROVE  HasSignature(words, stamp.key) <=>
                    \A i \in Carrying(words) : Look(words[i]).variant = Look(stamp.at[i]).variant
      <3> DEFINE e == stamp.at
                 k == stamp.key
      <3>1. words \in Seq(Term) /\ e \in Seq(Term)
        BY <2>1, <2>3 DEF WordsTypeOK
      <3>2. Rewords(words, e) /\ HasSignature(e, k)
        BY <2>2, <2>3 DEF Signed
      <3>3. /\ Matched(words) = Matched(e)
            /\ \A i : Nth(words, i) = Nth(e, i)
            /\ \A n : Whitening(k, words, n) = Whitening(k, e, n)
        BY <2>2, <2>3, <3>1, <3>2, AlikeReads
      <3>4. Carrying(words) = Carrying(e) /\ HasRoom(words)
        BY <3>2, <3>3 DEF Carrying, HasRoom, HasSignature
      <3>5. ASSUME NEW i \in Carrying(words)
            PROVE  Flip(Look(words[i]).variant, Whitening(k, words, Nth(words, i)))
                        = Magic[Nth(words, i)]
                    <=> Look(words[i]).variant = Look(e[i]).variant
        <4>1. i \in DOMAIN words /\ i \in DOMAIN e
          BY <3>3, <3>5 DEF Carrying, Matched
        <4>2. ASSUME NEW w \in Term PROVE Look(w).variant \in Bits
          <5>1. w.reads \in [Parts -> Reading] /\ Part(w) \in Parts
            BY DEF Term, Part, Parts
          <5>2. w.reads[Part(w)] \in Reading
            BY <5>1
          <5>3. QED
            BY <5>2 DEF Reading, Look
        <4>3. Look(words[i]).variant \in Bits /\ Look(e[i]).variant \in Bits
          <5>1. words[i] \in Term /\ e[i] \in Term
            BY <3>1, <4>1, SMT
          <5>2. QED
            BY <4>2, <5>1
        <4>4. Whitening(k, e, Nth(e, i)) \in Bits
          BY WhiteningBits
        <4>5. Flip(Look(e[i]).variant, Whitening(k, e, Nth(e, i))) = Magic[Nth(e, i)]
          BY <3>2, <3>4, <3>5 DEF HasSignature
        <4>6. QED
          BY <3>3, <4>3, <4>4, <4>5 DEF Flip, Bits
      <3>6. QED
        BY <3>4, <3>5 DEF HasSignature
    <2>4. \A k : "certain" \in Verdicts(words, k) <=> HasSignature(words, k)
      BY DEF Verdicts
    <2>5. QED
      BY <2>2, <2>3, <2>4 DEF SignatureStands, Whole
  <1>4. QED
    BY <1>1, <1>2, <1>3, WordsTypes, PTL DEF WordsSpec

===============================================================================
