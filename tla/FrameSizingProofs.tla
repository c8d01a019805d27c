------------------------- MODULE FrameSizingProofs -------------------------
(***************************************************************************)
(* What FrameSizing guarantees for every value of its constants: the       *)
(* regions of a heavy frame never overlap, the types hold, the search of   *)
(* carrier_capacity finds the exact figure, nothing past it is placed      *)
(* where the cover bounds the carrier, what is placed is read back where   *)
(* it was put, and the search of a span ends within its rounds on the      *)
(* smallest that will do, so that what was reported is placed.  And about  *)
(* Advice, for every list of candidates, secret, cipher and frame: that    *)
(* what is recommended is the best there is, and that it can be applied as *)
(* it is.                                                                  *)
(***************************************************************************)
EXTENDS Advice, FiniteSetTheorems, WellFoundedInduction, TLAPS

\* Two different multiples of a spacing lie a whole spacing apart.
LEMMA Multiples ==
    ASSUME NEW s \in Nat, NEW i \in Int, NEW j \in Int, i * s < j * s
    PROVE  i + 1 <= j /\ i * s + s <= j * s
<1>1. i < j
    <2>1. SUFFICES ASSUME j <= i PROVE FALSE
        BY SMT
    <2>2. PICK d \in Nat : i = j + d
        <3>1. i - j \in Nat /\ i = j + (i - j)
            BY <2>1
        <3> QED BY <3>1
    <2>3. i * s = j * s + d * s
        BY <2>2, SMT
    <2>4. d * s \in Nat
        BY SMT
    <2> QED BY <2>3, <2>4, SMT
<1>2. PICK d \in Nat : j = i + 1 + d
    <2>1. j - i - 1 \in Nat /\ j = i + 1 + (j - i - 1)
        BY <1>1
    <2> QED BY <2>1
<1>3. j * s = i * s + s + d * s
    BY <1>2, SMT
<1>4. d * s \in Nat
    BY SMT
<1> QED BY <1>1, <1>3, <1>4, SMT

\* The spacing is at least a marker and never zero.
LEMMA SpacingBounds ==
    ASSUME NEW n \in Nat
    PROVE  /\ Spacing(n) \in Nat \ {0}
           /\ MarkerBits <= Spacing(n)
BY FrameAssumption, SMT DEF Spacing, Clamp

\* A carrier writes whole bytes, and no more than the positions it has.
LEMMA WrittenBounds ==
    ASSUME NEW n \in Nat
    PROVE  Written(n) \in Nat /\ Written(n) <= n /\ Written(n) % 8 = 0
BY SMT DEF Written

\* More positions never write less.
LEMMA WrittenGrows ==
    ASSUME NEW a \in Nat, NEW b \in Nat, a <= b
    PROVE  Written(a) <= Written(b)
<1>1. a \div 8 \in Nat /\ b \div 8 \in Nat /\ a \div 8 <= b \div 8
    BY SMT
<1>2. Written(a) = 8 * (a \div 8) /\ Written(b) = 8 * (b \div 8)
    BY SMT DEF Written
<1> QED BY <1>1, <1>2

\* Markers lie between the replicas and apart from each other.
LEMMA MarkersApart ==
    ASSUME NEW n \in Nat
    PROVE  /\ Markers(n) \subseteq Nat
           /\ \A m \in Markers(n) :
                /\ PreambleBits <= m
                /\ m + MarkerBits <= Written(n) - PreambleBits
                /\ \A k \in Markers(n) : m < k => m + MarkerBits <= k
<1> DEFINE s == Spacing(n)
<1>1. s \in Nat \ {0} /\ MarkerBits <= s
    BY SpacingBounds
<1>2. n \div s \in Nat
    BY <1>1, SMT
<1> HIDE DEF s
<1>3. Markers(n) = {m \in {k * s : k \in 1..(n \div s)} :
            PreambleBits <= m /\ m + MarkerBits <= Written(n) - PreambleBits}
    BY DEF Markers, s
<1>4. ASSUME NEW m \in Markers(n) PROVE \E i \in Nat : m = i * s
    BY <1>2, <1>3, SMT
<1>5. Markers(n) \subseteq Nat
    BY <1>1, <1>4, SMT
<1>6. ASSUME NEW m \in Markers(n), NEW k \in Markers(n), m < k
      PROVE  m + MarkerBits <= k
    <2>1. PICK i \in Nat : m = i * s
        BY <1>4
    <2>2. PICK j \in Nat : k = j * s
        BY <1>4
    <2>3. i * s + s <= j * s
        BY <1>1, <1>6, <2>1, <2>2, Multiples
    <2> QED BY <1>1, <1>5, <2>1, <2>2, <2>3, FrameAssumption, SMT
<1> QED BY <1>3, <1>5, <1>6

\* Dividing by a positive number, and what is left over.
LEMMA Division ==
    ASSUME NEW a \in Nat, NEW d \in Nat \ {0}
    PROVE  /\ a \div d \in Nat
           /\ (a \div d) * d <= a
           /\ a < (a \div d) * d + d
BY SMT

\* A quotient keeps apart what lies a divisor apart.
LEMMA QuotientsApart ==
    ASSUME NEW a \in Nat, NEW b \in Nat, NEW d \in Nat \ {0}, a + d <= b
    PROVE  a \div d < b \div d
<1>1. SUFFICES ASSUME b \div d <= a \div d PROVE FALSE
    BY Division
<1> DEFINE p == a \div d
           q == b \div d
<1>2. p \in Nat /\ q \in Nat /\ p * d <= a /\ b < q * d + d
    BY Division
<1> HIDE DEF p, q
<1>3. p = q \/ q + 1 <= p
    BY <1>1, <1>2 DEF p, q
<1>4. q * d <= p * d
    <2>1. CASE p = q
        BY <2>1, <1>2, SMT
    <2>2. CASE q + 1 <= p
        <3>1. p - q \in Nat /\ p = q + (p - q)
            BY <1>2, <2>2
        <3>2. PICK e \in Nat : p = q + e
            BY <3>1
        <3>3. p * d = q * d + e * d /\ e * d \in Nat
            BY <1>2, <3>2, SMT
        <3> QED BY <1>2, <3>3, SMT
    <2> QED BY <1>3, <2>1, <2>2
<1> QED BY <1>2, <1>4, SMT

\* The markers and the replicas fit into the positions written.
LEMMA MarkersFit ==
    ASSUME NEW n \in Nat, HasLayout(n)
    PROVE  /\ IsFiniteSet(Markers(n))
           /\ Cardinality(Markers(n)) \in Nat
           /\ MarkerBits * Cardinality(Markers(n)) <= Written(n) - 2 * PreambleBits
<1> DEFINE region == Written(n) - 2 * PreambleBits
           room   == region \div MarkerBits
           slot   == [m \in Markers(n) |-> (m - PreambleBits) \div MarkerBits]
<1>1. region \in Nat
    BY WrittenBounds, FrameAssumption, SMT DEF HasLayout
<1>2. room \in Nat /\ room * MarkerBits <= region
    BY <1>1, Division, FrameAssumption
<1>3. ASSUME NEW m \in Markers(n)
      PROVE  slot[m] \in 0..(room - 1)
    <2>1. m - PreambleBits \in Nat /\ (m - PreambleBits) + MarkerBits <= region
        BY <1>1, MarkersApart, WrittenBounds, FrameAssumption, SMT
    <2>2. (m - PreambleBits) \div MarkerBits < room
        BY <1>1, <2>1, QuotientsApart, FrameAssumption
    <2>3. (m - PreambleBits) \div MarkerBits \in Nat
        BY <2>1, Division, FrameAssumption
    <2> QED BY <1>2, <2>2, <2>3
<1>4. ASSUME NEW m \in Markers(n), NEW k \in Markers(n), m < k
      PROVE  slot[m] < slot[k]
    <2>1. /\ m - PreambleBits \in Nat /\ k - PreambleBits \in Nat
          /\ (m - PreambleBits) + MarkerBits <= k - PreambleBits
        BY <1>4, MarkersApart, FrameAssumption, SMT
    <2> QED BY <2>1, QuotientsApart, FrameAssumption
<1>5. slot \in Injection(Markers(n), 0..(room - 1))
    <2>1. slot \in [Markers(n) -> 0..(room - 1)]
        BY <1>3
    <2>2. ASSUME NEW m \in Markers(n), NEW k \in Markers(n), slot[m] = slot[k]
          PROVE  m = k
        <3>1. m \in Nat /\ k \in Nat /\ slot[m] \in Int /\ slot[k] \in Int
            BY <1>3, MarkersApart
        <3>2. CASE m < k
            <4>1. slot[m] < slot[k]
                BY <1>4, <3>2
            <4> QED BY <2>2, <3>1, <4>1
        <3>3. CASE k < m
            <4>1. slot[k] < slot[m]
                BY <1>4, <3>3
            <4> QED BY <2>2, <3>1, <4>1
        <3> QED BY <3>1, <3>2, <3>3
    <2> HIDE DEF slot
    <2> QED BY <2>1, <2>2, Zenon DEF Injection, IsInjective
<1>6. IsFiniteSet(0..(room - 1)) /\ Cardinality(0..(room - 1)) = room
    <2> HIDE DEF room
    <2>1. 0 \in Int /\ room - 1 \in Int
        BY <1>2
    <2>2. IsFiniteSet(0..(room - 1))
          /\ Cardinality(0..(room - 1)) = IF 0 > room - 1 THEN 0 ELSE (room - 1) - 0 + 1
        BY <2>1, FS_Interval, Zenon
    <2> QED BY <1>2, <2>2, SMT
<1>7. IsFiniteSet(Markers(n)) /\ Cardinality(Markers(n)) <= room
    <2> HIDE DEF slot, room
    <2> QED BY <1>5, <1>6, FS_Injection
<1>8. Cardinality(Markers(n)) \in Nat
    BY <1>7, FS_CardinalityType
<1>9. MarkerBits * Cardinality(Markers(n)) <= room * MarkerBits
    <2> DEFINE c == Cardinality(Markers(n))
    <2> HIDE DEF c, room
    <2>1. c \in Nat /\ room \in Nat /\ c <= room /\ MarkerBits \in Nat
        BY <1>2, <1>7, <1>8, FrameAssumption DEF c
    <2>2. room - c \in Nat /\ room = c + (room - c)
        BY <2>1
    <2>3. PICK e \in Nat : room = c + e
        BY <2>2
    <2>4. room * MarkerBits = MarkerBits * c + MarkerBits * e /\ MarkerBits * e \in Nat
        BY <2>1, <2>3, SMT
    <2>5. MarkerBits * c \in Nat
        BY <2>1, SMT
    <2> QED BY <2>4, <2>5, SMT DEF c
<1>10. MarkerBits * Cardinality(Markers(n)) \in Nat /\ room * MarkerBits \in Nat
    <2> HIDE DEF room
    <2> QED BY <1>2, <1>8, FrameAssumption, SMT
<1>11. MarkerBits * Cardinality(Markers(n)) <= region
    <2> HIDE DEF region, room
    <2> QED BY <1>1, <1>2, <1>9, <1>10, SMT
<1> QED BY <1>7, <1>8, <1>11

\* What is left to the payload is whole bytes, and never negative.
LEMMA PayloadIsNat ==
    ASSUME NEW n \in Nat, HasLayout(n)
    PROVE  PayloadBits(n) \in Nat /\ PayloadBits(n) % 8 = 0
<1> DEFINE used == MarkerBits * Cardinality(Markers(n))
           free == Written(n) - 2 * PreambleBits - used
<1>1. used \in Nat
    BY MarkersFit, FrameAssumption, SMT
<1>2. used <= Written(n) - 2 * PreambleBits
    BY MarkersFit
<1>3. free \in Nat
    <2> HIDE DEF used
    <2> QED BY <1>1, <1>2, WrittenBounds, FrameAssumption, SMT
<1>4. PayloadBits(n) = free - (free % 8)
    BY DEF PayloadBits
<1> HIDE DEF free, used
<1> QED BY <1>3, <1>4, SMT

\* The regions of a heavy frame never overlap, over any number of positions:
\* the reader finds each replica, marker and payload bit where the writer put
\* it (frame.rs Layout::for_positions).
THEOREM LayoutDisjoint == \A n \in Nat : LayoutIsDisjoint(n)
<1>1. SUFFICES ASSUME NEW n \in Nat, HasLayout(n) PROVE LayoutIsDisjoint(n)
    BY DEF LayoutIsDisjoint
<1>2. PayloadBits(n) >= 0
    BY <1>1, PayloadIsNat
<1> QED BY <1>2, MarkersApart DEF LayoutIsDisjoint

-----------------------------------------------------------------------------
(* What a seal and a cover come to.                                        *)

\* The room of a cover and the cost of an order are natural numbers.
LEMMA SizesAreNat ==
    ASSUME NEW c \in Covers, NEW o \in Orders
    PROVE  /\ Positions(c) \in Nat
           /\ HeaderLen(o.seal) \in Nat
           /\ o.seal \in [chain : Nat, growth : Nat, keyed : BOOLEAN]
           /\ Room(c, o) \in Nat
<1>1. c.slots \in Nat /\ o.seal \in [chain : Nat, growth : Nat, keyed : BOOLEAN]
    BY CostAssumption DEF Covers, Orders
<1>2. Positions(c) \in Nat
    BY <1>1, SMT DEF Positions
<1>3. HeaderLen(o.seal) \in Nat
    BY FrameAssumption DEF HeaderLen
<1>4. Positions(c) \div 8 \in Nat
    BY <1>2, SMT
<1>5. CASE o.mode = "heavy" /\ HasLayout(Positions(c))
    <2>1. PayloadBits(Positions(c)) \in Nat
        BY <1>2, <1>5, PayloadIsNat
    <2>2. PayloadBits(Positions(c)) \div 8 \in Nat
        BY <2>1, SMT
    <2> QED BY <1>1, <1>2, <1>3, <1>5, <2>2 DEF Room
<1>6. CASE o.mode = "heavy" /\ ~HasLayout(Positions(c))
    BY <1>1, <1>2, <1>3, <1>6 DEF Room
<1>7. CASE o.mode # "heavy"
    BY <1>1, <1>2, <1>3, <1>4, <1>7, SMT DEF Room
<1> QED BY <1>5, <1>6, <1>7

\* An envelope is longer than its secret and grows with it.
LEMMA EnvelopeGrows ==
    ASSUME NEW seal \in [chain : Nat, growth : Nat, keyed : BOOLEAN],
           NEW n \in Nat, NEW k \in Nat, n <= k
    PROVE  /\ EnvelopeLen(seal, n) \in Nat
           /\ n < EnvelopeLen(seal, n)
           /\ EnvelopeLen(seal, n) <= EnvelopeLen(seal, k)
<1>1. seal.chain \in Nat /\ seal.growth \in Nat
    OBVIOUS
<1> QED BY <1>1, SMT DEF EnvelopeLen, VarintLen

-----------------------------------------------------------------------------
(* The invariant.  low and high close in on the largest secret whose       *)
(* envelope fits the room; a compose past the gates holds such a secret,   *)
(* and a saturated one spans one light frame of it.                        *)

SearchInv ==
    /\ low <= high
    /\ \A n \in Nat : n > high => EnvelopeLen(order.seal, n) > Room(cover, order)
    /\ phase # "probing" => low = high

ComposeInv ==
    /\ phase \in {"spanning", "building", "placed"} =>
            secret > 0 /\ PassesGates(Envelope)
    /\ phase \in {"building", "placed"} /\ order.mode = "saturated" =>
            span = LightBits(Envelope)
    /\ phase = "spanning" => SearchesSpan /\ HasLayout(span)
    /\ phase = "placed" => CarrierTakes(BitsToWrite)

SizingInv == TypeOK /\ SearchInv /\ ComposeInv

\* A cover that has just arrived has been searched by nobody.
LEMMA InitSizing == Init => SizingInv
<1>1. SUFFICES ASSUME Init PROVE SizingInv
    OBVIOUS
<1>2. cover \in Covers /\ order \in Orders /\ phase = "probing" /\ low = 0
      /\ high = Room(cover, order) /\ secret = 0 /\ span = 0 /\ rounds = 0 /\ written = 0
    BY <1>1 DEF Init
<1>3. Room(cover, order) \in Nat
      /\ order.seal \in [chain : Nat, growth : Nat, keyed : BOOLEAN]
    BY <1>2, SizesAreNat
<1>4. TypeOK
    BY <1>2, <1>3 DEF TypeOK, Phases
<1>5. ASSUME NEW n \in Nat, n > high PROVE EnvelopeLen(order.seal, n) > Room(cover, order)
    <2>1. EnvelopeLen(order.seal, n) \in Nat /\ n < EnvelopeLen(order.seal, n)
        BY <1>3, EnvelopeGrows
    <2> QED BY <1>2, <1>3, <1>5, <2>1, SMT
<1>6. SearchInv
    BY <1>2, <1>3, <1>5 DEF SearchInv
<1>7. ComposeInv
    BY <1>2 DEF ComposeInv
<1> QED BY <1>4, <1>6, <1>7 DEF SizingInv

\* A probe keeps the largest fitting secret between low and high.
LEMMA ProbeKeeps == SizingInv /\ Probe => SizingInv'
<1>1. SUFFICES ASSUME SizingInv, Probe PROVE SizingInv'
    OBVIOUS
<1>2. /\ low \in Nat /\ high \in Nat /\ low < high /\ phase = "probing"
      /\ cover \in Covers /\ order \in Orders
      /\ UNCHANGED <<cover, order, phase, secret, span, rounds, written>>
    BY <1>1 DEF SizingInv, TypeOK, Probe
<1>3. Middle \in Nat /\ low < Middle /\ Middle <= high
    BY <1>2, SMT DEF Middle
<1>4. order.seal \in [chain : Nat, growth : Nat, keyed : BOOLEAN] /\ Room(cover, order) \in Nat
    BY <1>2, SizesAreNat
<1>5. CASE EnvelopeLen(order.seal, Middle) <= Room(cover, order)
    <2>1. low' = Middle /\ high' = high
        BY <1>1, <1>5 DEF Probe
    <2>2. TypeOK'
        BY <1>1, <1>2, <1>3, <2>1 DEF SizingInv, TypeOK
    <2>3. SearchInv'
        BY <1>1, <1>2, <1>3, <2>1 DEF SizingInv, SearchInv
    <2>4. ComposeInv'
        BY <1>2 DEF ComposeInv
    <2> QED BY <2>2, <2>3, <2>4 DEF SizingInv
<1>6. CASE ~(EnvelopeLen(order.seal, Middle) <= Room(cover, order))
    <2>1. high' = Middle - 1 /\ low' = low
        BY <1>1, <1>6 DEF Probe
    <2>2. TypeOK'
        BY <1>1, <1>2, <1>3, <2>1 DEF SizingInv, TypeOK
    <2>3. ASSUME NEW n \in Nat, n > Middle - 1
          PROVE  EnvelopeLen(order.seal, n) > Room(cover, order)
        <3>1. Middle <= n
            BY <1>3, <2>3
        <3>2. EnvelopeLen(order.seal, Middle) <= EnvelopeLen(order.seal, n)
              /\ EnvelopeLen(order.seal, Middle) \in Nat
            BY <1>3, <1>4, <3>1, EnvelopeGrows
        <3>3. EnvelopeLen(order.seal, n) \in Nat
            BY <1>4, EnvelopeGrows
        <3> QED BY <1>4, <1>6, <3>2, <3>3, SMT
    <2>4. SearchInv'
        BY <1>2, <1>3, <2>1, <2>3 DEF SearchInv
    <2>5. ComposeInv'
        BY <1>2 DEF ComposeInv
    <2> QED BY <2>2, <2>4, <2>5 DEF SizingInv
<1> QED BY <1>5, <1>6

\* The search ends on that secret.
LEMMA TellKeeps == SizingInv /\ Tell => SizingInv'
BY DEF SizingInv, Tell, TypeOK, Phases, SearchInv, ComposeInv, PassesGates, Envelope

\* A compose passes the gates or is refused, and is sized for what it hides.
LEMMA ComposeKeeps ==
    ASSUME SizingInv, NEW n \in Int, Compose(n)
    PROVE  SizingInv'
<1>1. /\ phase = "told" /\ n \in Nat \ {0} /\ secret' = n
      /\ cover \in Covers /\ order \in Orders
      /\ low' = low /\ high' = high /\ cover' = cover /\ order' = order
      /\ rounds' = rounds /\ written' = written
    BY DEF SizingInv, TypeOK, Compose
<1> DEFINE len == EnvelopeLen(order.seal, n)
<1>2. /\ order.seal \in [chain : Nat, growth : Nat, keyed : BOOLEAN]
      /\ Positions(cover) \in Nat /\ HeaderLen(order.seal) \in Nat
    BY <1>1, SizesAreNat
<1>3. len \in Nat
    BY <1>1, <1>2, EnvelopeGrows
<1>4. Envelope' = len
    BY <1>1 DEF Envelope
<1>5. \/ ~PassesGates(len) /\ phase' = "refused" /\ span' = span
      \/ PassesGates(len) /\ SearchesSpan /\ phase' = "spanning" /\ span' = FirstSpan(8 * len)
      \/ /\ PassesGates(len) /\ ~SearchesSpan /\ phase' = "building"
         /\ span' = IF order.mode = "heavy" THEN Positions(cover) ELSE LightBits(len)
    BY DEF Compose
<1>6. LightBits(len) \in Nat /\ FirstSpan(8 * len) \in Nat
    <2> HIDE DEF len
    <2> QED BY <1>2, <1>3, FrameAssumption, SMT DEF LightBits, FirstSpan
<1>8. TypeOK'
    BY <1>1, <1>2, <1>5, <1>6 DEF SizingInv, TypeOK, Phases
<1>9. SearchInv'
    BY <1>1, <1>5 DEF SizingInv, SearchInv
<1>10. phase' # "placed" /\ (phase' = "building" /\ order.mode = "saturated" => span' = LightBits(len))
    BY <1>5
<1>11. phase' \in {"spanning", "building"} => PassesGates(len)
    BY <1>5
<1>12. (PassesGates(Envelope))' = PassesGates(len) /\ (LightBits(Envelope))' = LightBits(len)
    BY <1>1, <1>4 DEF PassesGates, LightBits
<1>13. HasLayout(FirstSpan(8 * len))
    <2>1. len \in Nat \ {0}
        BY <1>1, <1>2, <1>3, EnvelopeGrows, SMT
    <2> HIDE DEF len
    <2> QED BY <2>1, FrameAssumption, SMT DEF HasLayout, FirstSpan, Written
<1>14. phase' = "spanning" => HasLayout(span)'
    BY <1>5, <1>13 DEF HasLayout, Written
<1>15. ComposeInv'
    BY <1>1, <1>5, <1>10, <1>11, <1>12, <1>14 DEF ComposeInv, SearchesSpan
<1> QED BY <1>8, <1>9, <1>15 DEF SizingInv

\* A round of the span search only grows the span.
LEMMA SpanRoundKeeps == SizingInv /\ SpanRound => SizingInv'
<1>1. SUFFICES ASSUME SizingInv, SpanRound PROVE SizingInv'
    OBVIOUS
<1>2. /\ phase = "spanning" /\ span \in Nat /\ rounds \in Nat /\ secret \in Nat
      /\ cover \in Covers /\ order \in Orders /\ HasLayout(span)
      /\ secret > 0 /\ PassesGates(Envelope) /\ low = high
      /\ UNCHANGED <<cover, order, low, high, secret, written>>
    BY <1>1 DEF SizingInv, TypeOK, ComposeInv, SearchInv, SpanRound
<1>3. 8 * Envelope \in Nat
    <2>1. Envelope \in Nat
        BY <1>2, SizesAreNat, EnvelopeGrows DEF Envelope
    <2> QED BY <2>1, SMT
<1>4. PayloadBits(span) \in Nat
    BY <1>2, PayloadIsNat
<1>5. UNCHANGED PassesGates(Envelope)
    BY <1>2 DEF PassesGates, Envelope
<1>6. order.mode = "heavy"
    BY <1>1, <1>2 DEF SizingInv, ComposeInv, SearchesSpan
<1>7. CASE PayloadBits(span) >= 8 * Envelope
    <2>1. phase' = "building" /\ UNCHANGED <<span, rounds>>
        BY <1>1, <1>7 DEF SpanRound
    <2>2. TypeOK' /\ SearchInv'
        BY <1>1, <1>2, <2>1 DEF SizingInv, TypeOK, Phases, SearchInv
    <2>3. ComposeInv'
        BY <1>2, <1>5, <1>6, <2>1 DEF ComposeInv
    <2> QED BY <2>2, <2>3 DEF SizingInv
<1>8. CASE ~(PayloadBits(span) >= 8 * Envelope)
    <2>1. /\ span' = span + (8 * Envelope - PayloadBits(span))
          /\ rounds' = rounds + 1
          /\ phase' \in {"refused", "spanning"}
        BY <1>1, <1>8 DEF SpanRound
    <2>2. span' \in Nat /\ span <= span'
        BY <1>2, <1>3, <1>4, <1>8, <2>1, SMT
    <2>3. HasLayout(span)'
        <3>1. Written(span) <= Written(span')
            BY <1>2, <2>2, WrittenGrows
        <3>2. Written(span)' = Written(span') /\ Written(span) \in Nat /\ Written(span') \in Nat
            BY <1>2, <2>2, WrittenBounds DEF Written
        <3> QED BY <1>2, <3>1, <3>2, FrameAssumption, SMT DEF HasLayout
    <2>4. TypeOK' /\ SearchInv'
        BY <1>1, <1>2, <2>1, <2>2 DEF SizingInv, TypeOK, Phases, SearchInv
    <2>5. ComposeInv'
        BY <1>1, <1>2, <1>5, <2>1, <2>3 DEF SizingInv, ComposeInv, SearchesSpan
    <2> QED BY <2>4, <2>5 DEF SizingInv
<1> QED BY <1>7, <1>8

\* A whole number of bytes is written as it is.
LEMMA WholeBytes == \A b \in Nat : Written(8 * b) = 8 * b
BY SMT DEF Written

\* What is placed was built and taken by the carrier.
LEMMA PlaceKeeps == SizingInv /\ Place => SizingInv'
<1>1. SUFFICES ASSUME SizingInv, Place PROVE SizingInv'
    OBVIOUS
<1>2. /\ phase = "building" /\ phase' = "placed" /\ written' = BitsToWrite
      /\ cover \in Covers /\ order \in Orders /\ secret \in Nat /\ span \in Nat
      /\ CarrierTakes(BitsToWrite)
      /\ UNCHANGED <<cover, order, low, high, secret, span, rounds>>
    BY <1>1 DEF SizingInv, TypeOK, Place
<1>3. Positions(cover) \in Nat /\ Written(span) \in Nat
    BY <1>2, SizesAreNat, WrittenBounds
<1>4. Copies \in Nat
    <2>1. CASE order.mode = "saturated" /\ span <= Positions(cover)
        <3>1. Envelope \in Nat \ {0} /\ HeaderLen(order.seal) \in Nat
            BY <1>2, SizesAreNat, EnvelopeGrows, SMT DEF Envelope
        <3>2. span = LightBits(Envelope)
            BY <1>1, <1>2, <2>1 DEF SizingInv, ComposeInv
        <3>3. span \in Nat \ {0}
            BY <1>2, <3>1, <3>2, SMT DEF LightBits
        <3> QED BY <1>3, <2>1, <3>3, Division DEF Copies
    <2>2. CASE ~(order.mode = "saturated" /\ span <= Positions(cover))
        BY <2>2 DEF Copies
    <2> QED BY <2>1, <2>2
<1>5. BitsToWrite \in Nat
    BY <1>3, <1>4, SMT DEF BitsToWrite
<1>6. TypeOK' /\ SearchInv'
    BY <1>1, <1>2, <1>5 DEF SizingInv, TypeOK, Phases, SearchInv
<1>7. ComposeInv'
    BY <1>1, <1>2 DEF SizingInv, ComposeInv, PassesGates, Envelope, LightBits,
                      CarrierTakes, BitsToWrite, Copies
<1> QED BY <1>6, <1>7 DEF SizingInv

\* A refusal writes nothing.
LEMMA RefusePlaceKeeps == SizingInv /\ RefusePlace => SizingInv'
BY DEF SizingInv, RefusePlace, TypeOK, Phases, SearchInv, ComposeInv

\* The next secret starts from the figure the search told.
LEMMA AgainKeeps == SizingInv /\ Again => SizingInv'
BY DEF SizingInv, Again, TypeOK, Phases, SearchInv, ComposeInv

\* Nothing changes when nothing happens.
LEMMA StutterKeeps == SizingInv /\ UNCHANGED vars => SizingInv'
BY DEF SizingInv, vars, TypeOK, SearchInv, ComposeInv, PassesGates, Envelope, LightBits,
       CarrierTakes, BitsToWrite, Copies, SearchesSpan

\* The invariant holds of every behaviour.
THEOREM SizingInvariant == Spec => []SizingInv
<1>1. SizingInv /\ [Next]_vars => SizingInv'
    <2>1. SUFFICES ASSUME SizingInv, [Next]_vars PROVE SizingInv'
        OBVIOUS
    <2>2. CASE Internal
        BY <2>1, <2>2, ProbeKeeps, TellKeeps, SpanRoundKeeps, PlaceKeeps, RefusePlaceKeeps
           DEF Internal
    <2>3. ASSUME NEW d \in Around, Compose(low + d) PROVE SizingInv'
        <3>1. low + d \in Int
            BY <2>1, CostAssumption DEF SizingInv, TypeOK
        <3> QED BY <2>1, <2>3, <3>1, ComposeKeeps
    <2>4. CASE Again
        BY <2>1, <2>4, AgainKeeps
    <2>5. CASE UNCHANGED vars
        BY <2>1, <2>5, StutterKeeps
    <2> QED BY <2>1, <2>2, <2>3, <2>4, <2>5 DEF Next
<1> QED BY <1>1, InitSizing, PTL DEF Spec

\* The types hold: no figure is ever negative, whatever the cover is short of
\* (pipeline.rs framed_room, minimum_span; the subtractions of frame.rs).
THEOREM TypeCorrect == Spec => []TypeOK
BY SizingInvariant, PTL DEF SizingInv

-----------------------------------------------------------------------------
(* Nothing past the report is placed where the cover bounds the carrier.   *)

\* A saturated channel holds at least one whole light frame.
LEMMA SaturatedFits ==
    ASSUME SizingInv, phase = "placed", order.mode = "saturated", Bounded(cover)
    PROVE  Envelope <= Room(cover, order)
<1> DEFINE h == HeaderLen(order.seal)
           p == Positions(cover)
           e == Envelope
<1>1. /\ cover \in Covers /\ order \in Orders /\ secret \in Nat
      /\ span = LightBits(Envelope) /\ BitsToWrite <= p
    BY DEF SizingInv, TypeOK, ComposeInv, CarrierTakes
<1>2. h \in Nat /\ p \in Nat /\ e \in Nat \ {0}
    BY <1>1, SizesAreNat, EnvelopeGrows, SMT DEF Envelope
<1>3. span = 8 * (h + e)
    BY <1>1 DEF LightBits
<1>4. Written(span) = span /\ span \in Nat \ {0}
    <2> HIDE DEF h, e
    <2>1. h + e \in Nat \ {0}
        BY <1>2
    <2> QED BY <1>3, <2>1, WholeBytes
<1>5. span <= p
    <2>1. SUFFICES ASSUME p < span PROVE FALSE
        <3> HIDE DEF p
        <3> QED BY <1>2, <1>4
    <2>2. Copies = 1
        <3>1. ~(span <= Positions(cover))
            BY <1>2, <1>4, <2>1
        <3> QED BY <3>1 DEF Copies
    <2>3. BitsToWrite = span
        BY <1>4, <2>2 DEF BitsToWrite
    <2> HIDE DEF p
    <2> QED BY <1>1, <1>2, <1>4, <2>1, <2>3
<1>6. h + e <= p \div 8
    <2> HIDE DEF h, p, e
    <2> QED BY <1>2, <1>3, <1>5, SMT
<1>7. Room(cover, order) = IF p \div 8 >= h THEN p \div 8 - h ELSE 0
    BY DEF Room
<1> HIDE DEF h, p, e
<1>8. e <= Room(cover, order)
    BY <1>2, <1>6, <1>7, SMT
<1> QED BY <1>8 DEF e

\* What passes a gate fits the room, and so does what a saturated carrier takes.
LEMMA PastReport == SizingInv => BeyondReportRefused
<1>1. SUFFICES ASSUME SizingInv, Bounded(cover), secret > low, phase = "placed" PROVE FALSE
    BY DEF BeyondReportRefused
<1>2. /\ cover \in Covers /\ order \in Orders /\ secret \in Nat /\ low = high
      /\ EnvelopeLen(order.seal, secret) > Room(cover, order)
    BY <1>1 DEF SizingInv, TypeOK, SearchInv
<1>3. Envelope <= Room(cover, order)
    <2>1. CASE order.mode = "saturated"
        BY <1>1, <2>1, SaturatedFits
    <2>2. CASE order.mode # "saturated"
        BY <1>1, <2>2 DEF SizingInv, ComposeInv, PassesGates
    <2> QED BY <2>1, <2>2
<1>4. Envelope \in Nat /\ Room(cover, order) \in Nat
    BY <1>2, SizesAreNat, EnvelopeGrows DEF Envelope
<1> QED BY <1>2, <1>3, <1>4 DEF Envelope

\* One byte past the reported figure is never placed on a carrier the cover
\* bounds, for any cover, cipher, frame and mission (cover_bounds_writes).
THEOREM BeyondReportIsRefused == Spec => []BeyondReportRefused
BY PastReport, SizingInvariant, PTL

\* The layout of the cover and of the span alike keeps its regions apart.
THEOREM RegionsStayDisjoint == Spec => []RegionsDisjoint
<1>1. TypeOK => RegionsDisjoint
    BY LayoutDisjoint, SizesAreNat DEF TypeOK, RegionsDisjoint
<1> QED BY <1>1, TypeCorrect, PTL

-----------------------------------------------------------------------------
(* Markers never become fewer as a span grows, hence no span that would do   *)
(* is passed over by the search.                                            *)

\* Which multiples of the spacing hold a marker.
Occurrences(n) ==
    {k \in Nat : /\ PreambleBits <= k * Spacing(n)
                 /\ k * Spacing(n) + MarkerBits <= Written(n) - PreambleBits}

\* Factors order their products.
LEMMA ProductsOrdered ==
    ASSUME NEW k \in Nat, NEW s \in Nat, NEW t \in Nat, s <= t
    PROVE  k * s \in Nat /\ k * t \in Nat /\ k * s <= k * t
<1>1. PICK d \in Nat : t = s + d
    <2>1. t - s \in Nat /\ t = s + (t - s)
        OBVIOUS
    <2> QED BY <2>1
<1>2. k * t = k * s + k * d /\ k * s \in Nat /\ k * d \in Nat
    BY <1>1, SMT
<1> QED BY <1>2, SMT

\* A longer span has at least the spacing of a shorter one: the smallest, an
\* eighth of the positions written, or the largest.
LEMMA SpacingShape ==
    ASSUME NEW n \in Nat
    PROVE  /\ Written(n) \in Nat
           /\ \/ Spacing(n) = MinSpacing /\ Written(n) < 8 * MinSpacing
              \/ 8 * Spacing(n) = Written(n) /\ MinSpacing <= Spacing(n) /\ Spacing(n) <= MaxSpacing
              \/ Spacing(n) = MaxSpacing /\ 8 * MaxSpacing < Written(n)
<1> DEFINE q == n \div 8
<1>1. q \in Nat /\ Written(n) = 8 * q
    BY SMT DEF Written
<1>2. Spacing(n) = IF q < MinSpacing THEN MinSpacing ELSE IF q > MaxSpacing THEN MaxSpacing ELSE q
    BY DEF Spacing, Clamp
<1> HIDE DEF q
<1> QED BY <1>1, <1>2, FrameAssumption, SMT

\* A multiple that holds a marker of a span holds one of every longer span: the
\* markers never become fewer, although the spacing between them widens.
LEMMA OccurrencesStay ==
    ASSUME NEW a \in Nat, NEW b \in Nat, a <= b
    PROVE  Occurrences(a) \subseteq Occurrences(b)
<1> DEFINE s == Spacing(a)
           t == Spacing(b)
           v == Written(a)
           w == Written(b)
<1>1. s \in Nat \ {0} /\ t \in Nat \ {0} /\ v \in Nat /\ w \in Nat /\ v <= w
    BY SpacingBounds, WrittenBounds, WrittenGrows
<1>2. \/ s = MinSpacing /\ v < 8 * MinSpacing
      \/ 8 * s = v /\ MinSpacing <= s /\ s <= MaxSpacing
      \/ s = MaxSpacing /\ 8 * MaxSpacing < v
    BY SpacingShape
<1>3. \/ t = MinSpacing /\ w < 8 * MinSpacing
      \/ 8 * t = w /\ MinSpacing <= t /\ t <= MaxSpacing
      \/ t = MaxSpacing /\ 8 * MaxSpacing < w
    BY SpacingShape
<1> HIDE DEF s, t, v, w
<1>4. s <= t /\ (s = t \/ 8 * s >= v) /\ (s = t \/ 8 * t <= w)
    BY <1>1, <1>2, <1>3, FrameAssumption, SMT
<1>5. ASSUME NEW k \in Nat, PreambleBits <= k * s, k * s + MarkerBits <= v - PreambleBits
      PROVE  PreambleBits <= k * t /\ k * t + MarkerBits <= w - PreambleBits
    <2>1. k * s \in Nat /\ k * t \in Nat /\ k * s <= k * t
        BY <1>1, <1>4, ProductsOrdered
    <2>2. CASE s = t
        BY <1>1, <1>5, <2>1, <2>2, FrameAssumption, SMT
    <2>3. CASE s # t
        <3>1. v <= 8 * s /\ 8 * t <= w
            BY <1>1, <1>4, <2>3
        <3>2. k < 8
            <4>1. SUFFICES ASSUME 8 <= k PROVE FALSE
                OBVIOUS
            <4>2. s * 8 <= s * k
                BY <1>1, <4>1, ProductsOrdered
            <4>3. s * k = k * s
                BY <1>1, SMT
            <4> QED BY <1>1, <1>5, <2>1, <3>1, <4>2, <4>3, FrameAssumption, SMT
        <3>3. 8 - k \in Nat
            BY <3>2
        <3>4. (8 - k) * s <= (8 - k) * t
            BY <1>1, <1>4, <3>3, ProductsOrdered
        <3>5. (8 - k) * s = 8 * s - k * s /\ (8 - k) * t = 8 * t - k * t
            BY <1>1, SMT
        <3> QED BY <1>1, <1>5, <2>1, <3>1, <3>4, <3>5, FrameAssumption, SMT
    <2> QED BY <2>2, <2>3
<1>6. ASSUME NEW k \in Occurrences(a) PROVE k \in Occurrences(b)
    <2>1. k \in Nat /\ PreambleBits <= k * s /\ k * s + MarkerBits <= v - PreambleBits
        BY <1>6 DEF Occurrences, s, v
    <2>2. PreambleBits <= k * t /\ k * t + MarkerBits <= w - PreambleBits
        BY <1>5, <2>1
    <2> QED BY <2>1, <2>2 DEF Occurrences, t, w
<1> QED BY <1>6

\* There is one marker for each.
LEMMA MarkerForEach ==
    ASSUME NEW n \in Nat
    PROVE  /\ IsFiniteSet(Occurrences(n))
           /\ IsFiniteSet(Markers(n))
           /\ Cardinality(Markers(n)) = Cardinality(Occurrences(n))
           /\ Cardinality(Markers(n)) \in Nat
<1> DEFINE s == Spacing(n)
           w == Written(n)
           at == [k \in Occurrences(n) |-> k * s]
<1>1. s \in Nat \ {0} /\ w \in Nat /\ w <= n
    BY SpacingBounds, WrittenBounds
<1>2. ASSUME NEW k \in Nat
      PROVE  k * s \in Nat /\ (k * s <= n => k <= n \div s)
    <2> HIDE DEF s
    <2>1. k * s \in Nat
        BY <1>1, SMT
    <2>2. ASSUME k * s <= n, n \div s < k PROVE FALSE
        <3> DEFINE q == n \div s
        <3>1. q \in Nat /\ n < q * s + s
            BY <1>1, Division
        <3>2. q + 1 <= k
            BY <2>2, <3>1
        <3> HIDE DEF q
        <3>3. s * (q + 1) <= s * k
            BY <1>1, <3>1, <3>2, ProductsOrdered
        <3>4. s * (q + 1) = q * s + s /\ s * k = k * s
            BY <1>1, <3>1, SMT
        <3> QED BY <1>1, <2>1, <2>2, <3>1, <3>3, <3>4, SMT
    <2>3. n \div s \in Nat
        BY <1>1, Division
    <2> QED BY <2>1, <2>2, <2>3
<1>3. Occurrences(n) \subseteq 1..(n \div s)
    <2>1. ASSUME NEW k \in Occurrences(n) PROVE k \in 1..(n \div s)
        <3>1. k \in Nat /\ PreambleBits <= k * s /\ k * s + MarkerBits <= w - PreambleBits
            BY <2>1 DEF Occurrences
        <3>2. k # 0
            BY <1>1, <3>1, FrameAssumption, SMT
        <3>3. k * s \in Nat /\ (k * s <= n => k <= n \div s)
            BY <1>2, <3>1
        <3> HIDE DEF s, w
        <3>4. k * s <= n
            BY <1>1, <3>1, <3>3, FrameAssumption, SMT
        <3>5. n \div s \in Nat
            BY <1>1, Division
        <3> QED BY <3>1, <3>2, <3>3, <3>4, <3>5
    <2> QED BY <2>1
<1>4. Markers(n) = {k * s : k \in Occurrences(n)}
    <2>1. Markers(n) = {m \in {k * s : k \in 1..(n \div s)} :
            PreambleBits <= m /\ m + MarkerBits <= w - PreambleBits}
        BY DEF Markers
    <2>2. Occurrences(n) = {k \in Nat : PreambleBits <= k * s /\ k * s + MarkerBits <= w - PreambleBits}
        BY DEF Occurrences
    <2> HIDE DEF s, w
    <2>3. n \div s \in Nat
        BY <1>1, Division
    <2> QED BY <1>3, <2>1, <2>2, <2>3
<1>5. IsFiniteSet(Occurrences(n))
    <2>1. n \div s \in Nat
        BY <1>1, Division
    <2>2. IsFiniteSet(1..(n \div s))
        BY <2>1, FS_Interval
    <2> QED BY <1>3, <2>2, FS_Subset
<1>6. at \in Bijection(Occurrences(n), Markers(n))
    <2>1. at \in [Occurrences(n) -> Markers(n)]
        BY <1>4
    <2>2. \A m \in Markers(n) : \E k \in Occurrences(n) : at[k] = m
        BY <1>4
    <2>3. ASSUME NEW i \in Occurrences(n), NEW j \in Occurrences(n), at[i] = at[j]
          PROVE  i = j
        <3>1. i \in Nat /\ j \in Nat /\ i * s = j * s
            BY <2>3 DEF Occurrences
        <3> HIDE DEF s
        <3>2. ASSUME NEW x \in Nat, NEW y \in Nat, x < y, x * s = y * s PROVE FALSE
            <4>1. s * (x + 1) <= s * y
                BY <1>1, <3>2, ProductsOrdered
            <4>2. s * (x + 1) = x * s + s /\ s * y = y * s /\ x * s \in Nat
                BY <1>1, SMT
            <4> QED BY <1>1, <3>2, <4>1, <4>2, SMT
        <3>3. ~(i < j) /\ ~(j < i)
            BY <3>1, <3>2
        <3> QED BY <3>1, <3>3
    <2> HIDE DEF at
    <2> QED BY <2>1, <2>2, <2>3, Zenon DEF Bijection, Injection, Surjection, IsInjective
<1>7. ExistsBijection(Occurrences(n), Markers(n))
    <2> HIDE DEF at
    <2> QED BY <1>6 DEF ExistsBijection
<1>8. IsFiniteSet(Markers(n)) /\ Cardinality(Markers(n)) = Cardinality(Occurrences(n))
    BY <1>5, <1>7, FS_Bijection
<1>9. Cardinality(Markers(n)) \in Nat
    BY <1>8, FS_CardinalityType
<1> QED BY <1>5, <1>8, <1>9

\* The markers of a span are never fewer than those of a shorter one.
LEMMA MarkersGrow ==
    ASSUME NEW a \in Nat, NEW b \in Nat, a <= b
    PROVE  Cardinality(Markers(a)) <= Cardinality(Markers(b))
BY MarkerForEach, OccurrencesStay, FS_Subset

\* Rounding down to whole bytes.
LEMMA WholeBytesOf ==
    ASSUME NEW x \in Nat
    PROVE  /\ x - (x % 8) \in Nat
           /\ x - (x % 8) <= x /\ x < x - (x % 8) + 8
           /\ (x - (x % 8)) % 8 = 0
BY SMT

\* Positions added to a span add no more than themselves to the payload: this is
\* why the search of minimum_span steps over no span that would do.
LEMMA PayloadGrowth ==
    ASSUME NEW a \in Nat, NEW b \in Nat, a <= b, HasLayout(a)
    PROVE  /\ HasLayout(b)
           /\ PayloadBits(b) <= PayloadBits(a) + (Written(b) - Written(a))
<1> DEFINE ka == Cardinality(Markers(a))
           kb == Cardinality(Markers(b))
           ua == MarkerBits * ka
           ub == MarkerBits * kb
           fa == Written(a) - 2 * PreambleBits - ua
           fb == Written(b) - 2 * PreambleBits - ub
<1>1. /\ Written(a) \in Nat /\ Written(b) \in Nat /\ Written(a) <= Written(b)
      /\ Written(a) % 8 = 0 /\ Written(b) % 8 = 0
    BY WrittenBounds, WrittenGrows
<1>2. HasLayout(b)
    BY <1>1, FrameAssumption, SMT DEF HasLayout
<1>3. ka \in Nat /\ kb \in Nat /\ ka <= kb
    BY MarkerForEach, MarkersGrow
<1>4. ua \in Nat /\ ub \in Nat /\ ua <= ub
    <2> HIDE DEF ka, kb
    <2> QED BY <1>3, FrameAssumption, ProductsOrdered
<1>5. fa \in Nat /\ fb \in Nat
    <2>1. ua <= Written(a) - 2 * PreambleBits /\ ub <= Written(b) - 2 * PreambleBits
        BY <1>2, MarkersFit
    <2> HIDE DEF ua, ub
    <2> QED BY <1>1, <1>4, <2>1, FrameAssumption, SMT
<1>6. PayloadBits(a) = fa - (fa % 8) /\ PayloadBits(b) = fb - (fb % 8)
    BY DEF PayloadBits
<1>7. fb <= fa + (Written(b) - Written(a))
    <2> HIDE DEF ua, ub
    <2> QED BY <1>1, <1>4, FrameAssumption, SMT
<1> HIDE DEF fa, fb
<1>8. fb - (fb % 8) <= fa - (fa % 8) + (Written(b) - Written(a))
    BY <1>1, <1>5, <1>7, SMT
<1> QED BY <1>2, <1>6, <1>8

-----------------------------------------------------------------------------
(* The invariant of what compose sizes and places.  A span that is being   *)
(* searched has been outgrown by no span that would do; one that is built  *)
(* and placed is laid out for what it holds; and a refusal has a cause.    *)

\* No heavy frame over fewer positions holds the payload.
NoneShorter == \A n \in (2 * PreambleBits)..(span - 1) : PayloadBits(n) < 8 * Envelope

SpanShape ==
    /\ secret > 0 /\ PassesGates(Envelope)
    /\ SearchesSpan => HasLayout(span) /\ span % 8 = 0 /\ NoneShorter
    /\ order.mode = "heavy" /\ ~SearchesSpan => span = Positions(cover)
    /\ order.mode # "heavy" => span = LightBits(Envelope)

RefusalCause ==
    \/ secret > 0 /\ ~PassesGates(Envelope) /\ span = 0
    \/ SearchesSpan /\ rounds = SpanRounds /\ span > 0
    \/ /\ span > 0 /\ ~(Builds /\ CarrierTakes(BitsToWrite))
       /\ SearchesSpan => PayloadBits(span) >= 8 * Envelope

FramedInv ==
    /\ low > 0 => EnvelopeLen(order.seal, low) <= Room(cover, order)
    /\ phase \in {"probing", "told"} => secret = 0 /\ span = 0 /\ rounds = 0 /\ written = 0
    /\ span > 0 => SpanShape
    /\ phase \in {"spanning", "building", "placed"} => span > 0
    /\ phase \in {"building", "placed"} /\ SearchesSpan => PayloadBits(span) >= 8 * Envelope
    /\ phase = "refused" => RefusalCause
    /\ written = IF phase = "placed" THEN BitsToWrite ELSE 0
    /\ phase = "placed" => Builds /\ CarrierTakes(BitsToWrite)

\* A load that passes the gates of a carrier the cover bounds has a layout or a
\* light frame in its positions.
LEMMA RoomHolds ==
    ASSUME NEW c \in Covers, NEW o \in Orders, NEW len \in Nat \ {0}, len <= Room(c, o)
    PROVE  /\ o.mode = "heavy" => HasLayout(Positions(c)) /\ 8 * len <= PayloadBits(Positions(c))
           /\ o.mode # "heavy" => 8 * (HeaderLen(o.seal) + len) <= Positions(c)
<1> DEFINE p == Positions(c)
           h == HeaderLen(o.seal)
<1>1. p \in Nat /\ h \in Nat
    BY SizesAreNat
<1>2. CASE o.mode = "heavy"
    <2>1. HasLayout(p)
        BY <1>2 DEF Room
    <2>2. len <= PayloadBits(p) \div 8
        BY <1>2, <2>1 DEF Room
    <2>3. PayloadBits(p) \in Nat
        BY <1>1, <2>1, PayloadIsNat
    <2>4. 8 * len <= PayloadBits(p)
        BY <2>2, <2>3, SMT
    <2> QED BY <1>2, <2>1, <2>4
<1>3. CASE o.mode # "heavy"
    <2>1. len <= IF p \div 8 >= h THEN p \div 8 - h ELSE 0
        BY <1>3 DEF Room
    <2> HIDE DEF p, h
    <2>2. 8 * (h + len) <= p
        BY <1>1, <2>1, SMT
    <2> QED BY <1>3, <2>2 DEF p, h
<1> QED BY <1>2, <1>3

\* The measure has not started: nothing is framed.
LEMMA InitFramed == Init => FramedInv
BY DEF Init, FramedInv

\* A probe that fits raises low to a length that fits.
LEMMA ProbeFrames == SizingInv /\ FramedInv /\ Probe => FramedInv'
<1>1. SUFFICES ASSUME SizingInv, FramedInv, Probe PROVE FramedInv'
    OBVIOUS
<1>2. phase = "probing" /\ UNCHANGED <<cover, order, phase, secret, span, rounds, written>>
    BY <1>1 DEF Probe
<1>3. low' > 0 => EnvelopeLen(order.seal, low') <= Room(cover, order)
    BY <1>1 DEF Probe, FramedInv
<1> QED BY <1>1, <1>2, <1>3 DEF FramedInv

\* The figure told is the one the search ended on.
LEMMA TellFrames == FramedInv /\ Tell => FramedInv'
BY DEF FramedInv, Tell

\* The next secret starts with nothing framed.
LEMMA AgainFrames == FramedInv /\ Again => FramedInv'
BY DEF FramedInv, Again

\* A compose sizes the frame for the envelope it was asked for.
LEMMA ComposeFrames ==
    ASSUME SizingInv, FramedInv, NEW n \in Int, Compose(n)
    PROVE  FramedInv'
<1> DEFINE len == EnvelopeLen(order.seal, n)
<1>1. /\ phase = "told" /\ n \in Nat \ {0} /\ secret' = n
      /\ cover \in Covers /\ order \in Orders
      /\ low' = low /\ high' = high /\ cover' = cover /\ order' = order
      /\ rounds' = rounds /\ written' = written
      /\ span = 0 /\ written = 0
    BY DEF SizingInv, TypeOK, Compose, FramedInv
<1>2. /\ order.seal \in [chain : Nat, growth : Nat, keyed : BOOLEAN]
      /\ Positions(cover) \in Nat /\ HeaderLen(order.seal) \in Nat
    BY <1>1, SizesAreNat
<1>3. len \in Nat \ {0}
    BY <1>1, <1>2, EnvelopeGrows, SMT
<1>4. Envelope' = len /\ PassesGates(Envelope)' = PassesGates(len)
      /\ SearchesSpan' = SearchesSpan /\ LightBits(Envelope)' = LightBits(len)
    BY <1>1 DEF Envelope, PassesGates, SearchesSpan, LightBits
<1>5. \/ ~PassesGates(len) /\ phase' = "refused" /\ span' = span
      \/ PassesGates(len) /\ SearchesSpan /\ phase' = "spanning" /\ span' = FirstSpan(8 * len)
      \/ /\ PassesGates(len) /\ ~SearchesSpan /\ phase' = "building"
         /\ span' = IF order.mode = "heavy" THEN Positions(cover) ELSE LightBits(len)
    BY DEF Compose
<1> HIDE DEF len
<1>6. CASE ~PassesGates(len) /\ phase' = "refused" /\ span' = span
    BY <1>1, <1>4, <1>6 DEF FramedInv, RefusalCause
<1>7. CASE PassesGates(len) /\ SearchesSpan /\ phase' = "spanning" /\ span' = FirstSpan(8 * len)
    <2> DEFINE f == FirstSpan(8 * len)
    <2>1. f = 2 * PreambleBits + 8 * len
        BY DEF FirstSpan
    <2> HIDE DEF f
    <2>2. f \in Nat \ {0} /\ f % 8 = 0 /\ Written(f) = f
        BY <1>3, <2>1, FrameAssumption, SMT DEF Written
    <2>3. HasLayout(f)
        BY <1>3, <2>1, <2>2, FrameAssumption, SMT DEF HasLayout
    <2>4. ASSUME NEW m \in (2 * PreambleBits)..(f - 1)
          PROVE  PayloadBits(m) < 8 * len
        <3> DEFINE u == MarkerBits * Cardinality(Markers(m))
                   r == Written(m) - 2 * PreambleBits - u
        <3>1. m \in Nat /\ Written(m) <= m
            BY <2>2, <2>4, WrittenBounds, FrameAssumption, SMT
        <3>2. u \in Nat
            BY <3>1, MarkerForEach, FrameAssumption, SMT
        <3>3. PayloadBits(m) = r - (r % 8)
            BY DEF PayloadBits
        <3>4. r \in Int /\ r < 8 * len
            <4> HIDE DEF u
            <4> QED BY <1>3, <2>1, <2>2, <2>4, <3>1, <3>2, WrittenBounds, FrameAssumption, SMT
        <3> HIDE DEF r
        <3>5. r % 8 \in Nat
            BY <3>4, SMT
        <3> QED BY <1>3, <3>3, <3>4, <3>5, SMT
    <2>5. NoneShorter'
        BY <1>4, <1>7, <2>4 DEF NoneShorter, f
    <2>6. span' = f
        BY <1>7 DEF f
    <2>7. HasLayout(span)'
        BY <2>3, <2>6 DEF HasLayout, Written
    <2>8. SpanShape'
        BY <1>1, <1>4, <1>7, <2>2, <2>5, <2>6, <2>7 DEF SpanShape, SearchesSpan
    <2> QED BY <1>1, <1>4, <1>7, <2>2, <2>6, <2>8 DEF FramedInv
<1>8. CASE /\ PassesGates(len) /\ ~SearchesSpan /\ phase' = "building"
           /\ span' = IF order.mode = "heavy" THEN Positions(cover) ELSE LightBits(len)
    <2>1. LightBits(len) \in Nat \ {0}
        BY <1>2, <1>3, SMT DEF LightBits
    <2>2. order.mode = "heavy" => Positions(cover) > 0
        <3>1. SUFFICES ASSUME order.mode = "heavy" PROVE Positions(cover) > 0
            OBVIOUS
        <3>2. len <= Room(cover, order)
            BY <1>8, <3>1 DEF PassesGates, SearchesSpan, Bounded
        <3>3. HasLayout(Positions(cover))
            BY <1>1, <1>3, <3>1, <3>2, RoomHolds
        <3> QED BY <1>2, <3>3, WrittenBounds, FrameAssumption, SMT DEF HasLayout
    <2>3. span' \in Nat \ {0}
        BY <1>2, <1>8, <2>1, <2>2
    <2>4. SpanShape'
        BY <1>1, <1>4, <1>8 DEF SpanShape, SearchesSpan
    <2> QED BY <1>1, <1>4, <1>8, <2>3, <2>4 DEF FramedInv, SearchesSpan
<1> QED BY <1>5, <1>6, <1>7, <1>8

\* A round adds what is short, and passes over no span that would do.
LEMMA SpanRoundFrames == SizingInv /\ FramedInv /\ SpanRound => FramedInv'
<1>1. SUFFICES ASSUME SizingInv, FramedInv, SpanRound PROVE FramedInv'
    OBVIOUS
<1> DEFINE b == 8 * Envelope
           p == PayloadBits(span)
<1>2. /\ phase = "spanning" /\ span \in Nat \ {0} /\ rounds \in Nat /\ secret \in Nat
      /\ cover \in Covers /\ order \in Orders
      /\ UNCHANGED <<cover, order, low, high, secret, written>>
      /\ SpanShape /\ SearchesSpan /\ written = 0
    BY <1>1 DEF SizingInv, TypeOK, ComposeInv, SpanRound, FramedInv
<1>3. HasLayout(span) /\ span % 8 = 0 /\ NoneShorter /\ order.mode = "heavy"
    BY <1>2 DEF SpanShape, SearchesSpan
<1>4. b \in Nat /\ b % 8 = 0
    <2>1. Envelope \in Nat
        BY <1>2, SizesAreNat, EnvelopeGrows DEF Envelope
    <2> QED BY <2>1, SMT
<1>5. p \in Nat /\ p % 8 = 0
    BY <1>2, <1>3, PayloadIsNat
<1>6. /\ Envelope' = Envelope /\ PassesGates(Envelope)' = PassesGates(Envelope)
      /\ SearchesSpan' = SearchesSpan
    BY <1>2 DEF Envelope, PassesGates, SearchesSpan
<1>7. Written(span) = span
    BY <1>2, <1>3, SMT DEF Written
<1>8. CASE p >= b
    <2>1. phase' = "building" /\ span' = span /\ rounds' = rounds
        BY <1>1, <1>8 DEF SpanRound
    <2>2. SpanShape' /\ PayloadBits(span)' = p
        BY <1>2, <1>3, <1>6, <2>1 DEF SpanShape, NoneShorter, HasLayout, Written, PayloadBits,
                                      Markers, Spacing, Clamp
    <2> QED BY <1>1, <1>2, <1>6, <1>8, <2>1, <2>2 DEF FramedInv
<1>9. CASE ~(p >= b)
    <2>1. /\ span' = span + (b - p) /\ rounds' = rounds + 1
          /\ phase' = IF rounds + 1 = SpanRounds THEN "refused" ELSE "spanning"
        BY <1>1, <1>9 DEF SpanRound
    <2> DEFINE t == span + (b - p)
    <2>2. t \in Nat /\ t > span /\ t % 8 = 0
        <3> HIDE DEF b, p
        <3> QED BY <1>2, <1>3, <1>4, <1>5, <1>9, SMT
    <2>3. HasLayout(t)
        BY <1>2, <1>3, <2>2, PayloadGrowth
    <2>4. ASSUME NEW n \in (2 * PreambleBits)..(t - 1) PROVE PayloadBits(n) < b
        <3>1. n \in Nat /\ n < t
            BY <2>2, <2>4, FrameAssumption, SMT
        <3>2. CASE n < span
            BY <1>2, <1>3, <2>4, <3>2 DEF NoneShorter
        <3>3. CASE span <= n
            <4>1. HasLayout(n) /\ PayloadBits(n) <= p + (Written(n) - Written(span))
                BY <1>2, <1>3, <3>1, <3>3, PayloadGrowth
            <4>2. Written(n) \in Nat /\ Written(n) <= n
                BY <3>1, WrittenBounds
            <4>3. PayloadBits(n) \in Nat
                BY <3>1, <4>1, PayloadIsNat
            <4> HIDE DEF b, p
            <4> QED BY <1>2, <1>4, <1>5, <1>7, <2>2, <3>1, <4>1, <4>2, <4>3
        <3> QED BY <1>2, <3>1, <3>2, <3>3
    <2>5. span' = t
        BY <2>1
    <2>6. NoneShorter'
        BY <1>6, <2>4, <2>5 DEF NoneShorter
    <2>7. HasLayout(span)'
        BY <2>3, <2>5 DEF HasLayout, Written
    <2> HIDE DEF b, p, t
    <2>8. SpanShape'
        BY <1>2, <1>3, <1>6, <2>2, <2>5, <2>6, <2>7 DEF SpanShape, SearchesSpan
    <2>9. rounds + 1 = SpanRounds => RefusalCause'
        BY <1>2, <1>6, <2>1, <2>2, <2>5 DEF RefusalCause
    <2>10. phase' \in {"refused", "spanning"} /\ (phase' = "refused" => RefusalCause')
        BY <2>1, <2>9
    <2> QED BY <1>1, <1>2, <2>2, <2>5, <2>8, <2>10 DEF FramedInv
<1> QED BY <1>8, <1>9

\* What the carrier takes is written, and the frame stays what it was sized to.
LEMMA PlaceFrames == SizingInv /\ FramedInv /\ Place => FramedInv'
<1>1. SUFFICES ASSUME SizingInv, FramedInv, Place PROVE FramedInv'
    OBVIOUS
<1>2. /\ phase = "building" /\ phase' = "placed" /\ written' = BitsToWrite
      /\ Builds /\ CarrierTakes(BitsToWrite)
      /\ UNCHANGED <<cover, order, low, high, secret, span, rounds>>
    BY <1>1 DEF Place
<1>3. /\ UNCHANGED <<SpanShape, PayloadBits(span), Envelope, SearchesSpan, BitsToWrite, Builds>>
      /\ (CarrierTakes(BitsToWrite))' = CarrierTakes(BitsToWrite)
    BY <1>2 DEF SpanShape, PassesGates, Envelope, SearchesSpan, HasLayout, Written, NoneShorter,
                LightBits, PayloadBits, Markers, Spacing, Clamp, BitsToWrite, Copies, Builds,
                CarrierTakes
<1> QED BY <1>1, <1>2, <1>3 DEF FramedInv

\* A refusal of the builder or of the carrier is recorded with its cause.
LEMMA RefusePlaceFrames == SizingInv /\ FramedInv /\ RefusePlace => FramedInv'
<1>1. SUFFICES ASSUME SizingInv, FramedInv, RefusePlace PROVE FramedInv'
    OBVIOUS
<1>2. /\ phase = "building" /\ phase' = "refused"
      /\ ~(Builds /\ CarrierTakes(BitsToWrite))
      /\ UNCHANGED <<cover, order, low, high, secret, span, rounds, written>>
    BY <1>1 DEF RefusePlace
<1>3. /\ UNCHANGED <<SpanShape, PayloadBits(span), Envelope, SearchesSpan, BitsToWrite, Builds>>
      /\ (CarrierTakes(BitsToWrite))' = CarrierTakes(BitsToWrite)
    BY <1>2 DEF SpanShape, PassesGates, Envelope, SearchesSpan, HasLayout, Written, NoneShorter,
                LightBits, PayloadBits, Markers, Spacing, Clamp, BitsToWrite, Copies, Builds,
                CarrierTakes
<1>4. RefusalCause'
    BY <1>1, <1>2, <1>3 DEF FramedInv, RefusalCause
<1> QED BY <1>1, <1>2, <1>3, <1>4 DEF FramedInv

\* Nothing changes when nothing happens.
LEMMA StutterFrames == FramedInv /\ UNCHANGED vars => FramedInv'
<1>1. SUFFICES ASSUME FramedInv, UNCHANGED vars PROVE FramedInv'
    OBVIOUS
<1>2. UNCHANGED <<cover, order, phase, low, high, secret, span, rounds, written>>
    BY <1>1 DEF vars
<1>3. /\ UNCHANGED <<SpanShape, PayloadBits(span), Envelope, SearchesSpan, BitsToWrite, Builds>>
      /\ (CarrierTakes(BitsToWrite))' = CarrierTakes(BitsToWrite)
      /\ (PassesGates(Envelope))' = PassesGates(Envelope)
    BY <1>2 DEF SpanShape, PassesGates, Envelope, SearchesSpan, HasLayout, Written, NoneShorter,
                LightBits, PayloadBits, Markers, Spacing, Clamp, BitsToWrite, Copies, Builds,
                CarrierTakes
<1>4. RefusalCause' <=> RefusalCause
    BY <1>2, <1>3 DEF RefusalCause
<1> QED BY <1>1, <1>2, <1>3, <1>4 DEF FramedInv

\* Every step keeps it, hence every behaviour.
LEMMA FramedInvariant == Spec => []FramedInv
<1>1. SizingInv /\ FramedInv /\ [Next]_vars => FramedInv'
    <2>1. SUFFICES ASSUME SizingInv, FramedInv, [Next]_vars PROVE FramedInv'
        OBVIOUS
    <2>2. CASE Internal
        BY <2>1, <2>2, ProbeFrames, TellFrames, SpanRoundFrames, PlaceFrames, RefusePlaceFrames
           DEF Internal
    <2>3. ASSUME NEW d \in Around, Compose(low + d) PROVE FramedInv'
        <3>1. low + d \in Int
            BY <2>1, CostAssumption DEF SizingInv, TypeOK
        <3> QED BY <2>1, <2>3, <3>1, ComposeFrames
    <2>4. CASE Again
        BY <2>1, <2>4, AgainFrames
    <2>5. CASE UNCHANGED vars
        BY <2>1, <2>5, StutterFrames
    <2> QED BY <2>1, <2>2, <2>3, <2>4, <2>5 DEF Next
<1> QED BY <1>1, InitFramed, SizingInvariant, PTL DEF Spec

\* A span past the gate of a carrier the cover bounds lies within the cover.
LEMMA SpanWithinCover ==
    ASSUME SizingInv, FramedInv, SearchesSpan, span > 0, Bounded(cover)
    PROVE  span <= Positions(cover)
<1> DEFINE p == Positions(cover)
<1>1. /\ cover \in Covers /\ order \in Orders /\ span \in Nat /\ secret \in Nat
      /\ secret > 0 /\ PassesGates(Envelope) /\ NoneShorter /\ order.mode = "heavy"
    BY DEF SizingInv, TypeOK, FramedInv, SpanShape, SearchesSpan
<1>2. Envelope \in Nat \ {0} /\ p \in Nat
    BY <1>1, SizesAreNat, EnvelopeGrows, SMT DEF Envelope
<1>3. Envelope <= Room(cover, order)
    BY <1>1 DEF PassesGates
<1>4. HasLayout(p) /\ 8 * Envelope <= PayloadBits(p)
    BY <1>1, <1>2, <1>3, RoomHolds
<1>5. 2 * PreambleBits <= p
    BY <1>2, <1>4, WrittenBounds, FrameAssumption, SMT DEF HasLayout
<1>6. PayloadBits(p) \in Nat
    BY <1>2, <1>4, PayloadIsNat
<1> HIDE DEF p
<1>7. SUFFICES ASSUME p < span PROVE FALSE
    BY <1>1, <1>2 DEF p
<1>8. p \in (2 * PreambleBits)..(span - 1)
    BY <1>1, <1>2, <1>5, <1>7, FrameAssumption, SMT
<1>9. PayloadBits(p) < 8 * Envelope
    BY <1>1, <1>8 DEF NoneShorter
<1> QED BY <1>2, <1>4, <1>6, <1>9, SMT

\* The two halves of SpanIsSmallest that say which span the search holds.
SpanIsExact ==
    SearchesSpan /\ span > 0 =>
        /\ \A n \in (2 * PreambleBits)..(span - 1) : PayloadBits(n) < 8 * Envelope
        /\ Bounded(cover) => span <= Positions(cover)

LEMMA SpanExact == SizingInv /\ FramedInv => SpanIsExact
BY SpanWithinCover DEF SpanIsExact, FramedInv, SpanShape, NoneShorter

\* What a carrier takes fits the slots it has, its delimiters included.
LEMMA TakenFits ==
    ASSUME NEW c \in Covers, NEW bits \in Nat \ {0}, bits <= Positions(c)
    PROVE  SlotsUsed(c, bits) <= c.slots
<1>1. c.slots \in Nat
    BY CostAssumption DEF Covers
<1>2. CASE c.kind # "delimited"
    BY <1>1, <1>2 DEF SlotsUsed, Positions
<1>3. CASE c.kind = "delimited"
    <2> DEFINE s == c.slots
               q == (s + 1) \div 9
    <2>1. bits <= IF s < 8 THEN 0 ELSE 8 * q
        BY <1>3 DEF Positions
    <2>2. SlotsUsed(c, bits) = bits + bits \div 8 - 1
        BY <1>3 DEF SlotsUsed
    <2>3. q \in Nat /\ 9 * q <= s + 1
        BY <1>1, SMT
    <2> HIDE DEF s, q
    <2>4. s \in Nat
        BY <1>1 DEF s
    <2>5. bits <= 8 * q
        BY <2>1, <2>3, <2>4, SMT
    <2>6. bits \div 8 <= q
        BY <2>3, <2>5, SMT
    <2>7. bits + bits \div 8 - 1 <= s
        BY <2>3, <2>4, <2>5, <2>6, SMT
    <2> QED BY <2>2, <2>7 DEF s
<1> QED BY <1>2, <1>3

\* What is written fits, and keeps its regions apart.
LEMMA Fits == SizingInv /\ FramedInv => WritesFit
<1>1. SUFFICES ASSUME SizingInv, FramedInv, written > 0
               PROVE  /\ Bounded(cover) => SlotsUsed(cover, written) <= cover.slots
                      /\ order.mode = "heavy" => LayoutIsDisjoint(span)
    BY DEF WritesFit
<1>2. /\ cover \in Covers /\ written \in Nat /\ span \in Nat
      /\ phase = "placed" /\ written = BitsToWrite /\ CarrierTakes(BitsToWrite)
    <2>1. cover \in Covers /\ written \in Nat /\ span \in Nat
        BY <1>1 DEF SizingInv, TypeOK
    <2>2. phase = "placed"
        BY <1>1, <2>1 DEF FramedInv
    <2> QED BY <1>1, <2>1, <2>2 DEF FramedInv
<1>3. Bounded(cover) => SlotsUsed(cover, written) <= cover.slots
    BY <1>1, <1>2, TakenFits DEF CarrierTakes
<1>4. LayoutIsDisjoint(span)
    BY <1>2, LayoutDisjoint
<1> QED BY <1>3, <1>4

\* The positions counted back are those of the span, or whole bytes of them.
LEMMA SeenAsWritten == SizingInv /\ FramedInv => ReaderSeesTheLayout
<1>1. SUFFICES ASSUME SizingInv, FramedInv, order.mode = "heavy", phase = "placed"
               PROVE  LET seen == IF cover.kind = "rewriting" THEN Positions(cover) ELSE written IN
                      /\ HasLayout(seen)
                      /\ Written(seen) = Written(span)
                      /\ Markers(seen) = Markers(span)
    BY DEF ReaderSeesTheLayout
<1>2. /\ span \in Nat \ {0} /\ SpanShape /\ Builds /\ written = BitsToWrite
    BY <1>1 DEF SizingInv, TypeOK, FramedInv
<1>3. HasLayout(span)
    BY <1>1, <1>2 DEF Builds
<1>4. CASE cover.kind = "rewriting"
    <2>1. span = Positions(cover)
        BY <1>1, <1>2, <1>4 DEF SpanShape, SearchesSpan
    <2> QED BY <1>3, <1>4, <2>1
<1>5. CASE cover.kind # "rewriting"
    <2>1. SearchesSpan
        BY <1>1, <1>5 DEF SearchesSpan
    <2>2. Written(span) = span
        BY <1>2, <2>1, SMT DEF SpanShape, Written
    <2>3. Copies = 1
        BY <1>1 DEF Copies
    <2>4. written = span
        BY <1>2, <2>2, <2>3, SMT DEF BitsToWrite
    <2> QED BY <1>3, <1>5, <2>4
<1> QED BY <1>4, <1>5

\* What is placed fits where the cover bounds the carrier, delimiters included,
\* and the reader lays the frame over the positions it counts exactly as the
\* writer did, for every cover and every constant of the format (place_layer,
\* WhitespaceVar::capacity, Layout::for_positions).
THEOREM FramesStand == Spec => []FrameStands
<1>1. SizingInv /\ FramedInv => FrameStands
    BY Fits, SeenAsWritten DEF FrameStands
<1> QED BY <1>1, SizingInvariant, FramedInvariant, PTL

-----------------------------------------------------------------------------
(* The report.                                                             *)

\* A load that fits the room of a cover that bounds its carrier is built and taken.
LEMMA RoomIsEnough ==
    ASSUME SizingInv, FramedInv, span > 0, phase = "refused", rounds < SpanRounds,
           8 * Envelope <= LengthField,
           ~Bounded(cover) \/ Envelope <= Room(cover, order),
           SearchesSpan => PayloadBits(span) >= 8 * Envelope
    PROVE  Builds /\ CarrierTakes(BitsToWrite)
<1> DEFINE p == Positions(cover)
           h == HeaderLen(order.seal)
<1>1. /\ cover \in Covers /\ order \in Orders /\ span \in Nat \ {0} /\ secret \in Nat \ {0}
      /\ SpanShape
    BY DEF SizingInv, TypeOK, FramedInv, SpanShape
<1>2. Envelope \in Nat \ {0} /\ p \in Nat /\ h \in Nat
    BY <1>1, SizesAreNat, EnvelopeGrows, SMT DEF Envelope
<1>3. CASE order.mode = "heavy" /\ SearchesSpan
    <2>1. HasLayout(span) /\ span % 8 = 0
        BY <1>1, <1>3 DEF SpanShape
    <2>2. PayloadBits(span) \in Nat
        BY <1>1, <2>1, PayloadIsNat
    <2>3. Builds
        BY <1>2, <1>3, <2>1, <2>2, SMT DEF Builds
    <2>4. Copies = 1 /\ Written(span) = span
        BY <1>1, <1>3, <2>1, SMT DEF Copies, Written
    <2>5. BitsToWrite = span
        BY <1>1, <2>4, SMT DEF BitsToWrite
    <2>6. CarrierTakes(BitsToWrite)
        BY <1>3, <2>5, SpanWithinCover DEF CarrierTakes
    <2> QED BY <2>3, <2>6
<1>4. CASE order.mode = "heavy" /\ ~SearchesSpan
    <2>1. span = p /\ Bounded(cover)
        BY <1>1, <1>4 DEF SpanShape, SearchesSpan, Bounded
    <2>2. HasLayout(span) /\ 8 * Envelope <= PayloadBits(span)
        BY <1>1, <1>2, <1>4, <2>1, RoomHolds
    <2>3. Builds
        BY <2>2 DEF Builds
    <2>4. Copies = 1
        BY <1>4 DEF Copies
    <2>5. BitsToWrite = Written(p) /\ Written(p) <= p
        BY <1>2, <2>1, <2>4, WrittenBounds, SMT DEF BitsToWrite
    <2>6. CarrierTakes(BitsToWrite)
        BY <2>5 DEF CarrierTakes
    <2> QED BY <2>3, <2>6
<1>5. CASE order.mode # "heavy"
    <2>1. Builds
        BY <1>5 DEF Builds
    <2>2. span = 8 * (h + Envelope)
        BY <1>1, <1>5 DEF SpanShape, LightBits
    <2>3. Written(span) = span
        <3>1. h + Envelope \in Nat
            BY <1>2
        <3> QED BY <2>2, <3>1, WholeBytes
    <2>4. SUFFICES ASSUME Bounded(cover) PROVE BitsToWrite <= p
        BY <2>1 DEF CarrierTakes
    <2>5. span <= p
        BY <1>1, <1>2, <1>5, <2>2, <2>4, RoomHolds
    <2>6. CASE order.mode = "saturated"
        <3>1. Copies = p \div span
            BY <2>5, <2>6 DEF Copies
        <3>2. (p \div span) * span <= p
            BY <1>1, <1>2, Division
        <3> QED BY <2>3, <3>1, <3>2 DEF BitsToWrite
    <2>7. CASE order.mode # "saturated"
        <3>1. Copies = 1
            BY <2>7 DEF Copies
        <3> QED BY <1>1, <2>3, <2>5, <3>1, SMT DEF BitsToWrite
    <2> QED BY <2>6, <2>7
<1> QED BY <1>3, <1>4, <1>5

\* The cause of a refusal, where the search was not cut short, is one the report
\* and the length field name.
LEMMA RefusedForCause ==
    ASSUME SizingInv, FramedInv, phase = "refused", rounds < SpanRounds, ~order.conceal,
           8 * Envelope <= LengthField
    PROVE  Bounded(cover) /\ Envelope > Room(cover, order)
<1>1. cover \in Covers /\ order \in Orders /\ secret \in Nat /\ span \in Nat /\ rounds \in Nat
    BY DEF SizingInv, TypeOK
<1>2. Envelope \in Nat /\ Room(cover, order) \in Nat
    BY <1>1, SizesAreNat, EnvelopeGrows DEF Envelope
<1>3. CASE ~PassesGates(Envelope)
    BY <1>2, <1>3, SMT DEF PassesGates
<1>4. CASE /\ span > 0 /\ ~(Builds /\ CarrierTakes(BitsToWrite))
           /\ SearchesSpan => PayloadBits(span) >= 8 * Envelope
    <2>1. ~(~Bounded(cover) \/ Envelope <= Room(cover, order))
        BY <1>4, RoomIsEnough
    <2> QED BY <1>2, <2>1
<1>5. RefusalCause
    BY DEF FramedInv
<1> QED BY <1>1, <1>3, <1>4, <1>5, FrameAssumption DEF RefusalCause

\* The report and the reason given with a zero are what compose does, as long as
\* the search of the span keeps to its rounds.
LEMMA ReportTrue ==
    SizingInv /\ FramedInv /\ BeyondReportRefused /\ rounds < SpanRounds => ReportIsTrue
<1>1. SUFFICES ASSUME SizingInv, FramedInv, BeyondReportRefused, rounds < SpanRounds
               PROVE  ReportIsTrue
    OBVIOUS
<1>2. /\ cover \in Covers /\ order \in Orders /\ secret \in Nat /\ low \in Nat
    BY <1>1 DEF SizingInv, TypeOK
<1>3. order.seal \in [chain : Nat, growth : Nat, keyed : BOOLEAN] /\ Room(cover, order) \in Nat
    BY <1>2, SizesAreNat
<1>4. Settled => secret > 0
    <2>1. phase = "placed" => secret > 0
        BY <1>1 DEF SizingInv, ComposeInv
    <2>2. phase = "refused" => secret > 0
        BY <1>1 DEF FramedInv, RefusalCause, SpanShape
    <2> QED BY <2>1, <2>2 DEF Settled
<1>5. ReportedIsPlaced
    <2>1. SUFFICES ASSUME Settled, ~order.conceal, Recordable, secret <= low, phase # "placed"
                   PROVE  FALSE
        BY DEF ReportedIsPlaced
    <2>2. phase = "refused" /\ low > 0
        BY <1>2, <1>4, <2>1 DEF Settled
    <2>3. /\ Envelope <= EnvelopeLen(order.seal, low) /\ Envelope \in Nat
          /\ EnvelopeLen(order.seal, low) \in Nat
        BY <1>2, <1>3, <2>1, EnvelopeGrows DEF Envelope
    <2>4. EnvelopeLen(order.seal, low) <= Room(cover, order)
        BY <1>1, <2>2 DEF FramedInv
    <2>5. 8 * Envelope <= LengthField
        BY <2>1, <2>3, FrameAssumption, SMT DEF Recordable
    <2>6. Envelope > Room(cover, order)
        BY <1>1, <2>1, <2>2, <2>5, RefusedForCause
    <2> QED BY <1>3, <2>3, <2>4, <2>6
<1>6. ZeroIsExplained
    <2>1. SUFFICES ASSUME Settled, low = 0, ~order.conceal,
                          8 * EnvelopeLen(order.seal, secret) <= LengthField
                   PROVE  ZeroReason = "extends" <=> phase = "placed"
        BY DEF ZeroIsExplained
    <2>2. ZeroReason = "extends" <=> ~Bounded(cover)
        BY <2>1 DEF ZeroReason
    <2>3. phase = "placed" => ~Bounded(cover)
        BY <1>1, <1>2, <1>4, <2>1 DEF BeyondReportRefused
    <2>4. phase = "refused" => Bounded(cover)
        BY <1>1, <2>1, RefusedForCause DEF Envelope
    <2> QED BY <2>1, <2>2, <2>3, <2>4 DEF Settled
<1> QED BY <1>5, <1>6 DEF ReportIsTrue

\* A set of natural numbers that has an element has a least one.
LEMMA Least ==
    ASSUME NEW S \in SUBSET Nat, NEW x \in S
    PROVE  \E m \in S : \A k \in S : m <= k
<1>1. IsWellFoundedOn(OpToRel(<, Nat), Nat)
    BY NatLessThanWellFounded
<1>2. PICK m \in S : \A k \in S : ~(<<k, m>> \in OpToRel(<, Nat))
    BY <1>1, WFMin, Zenon
<1>3. ASSUME NEW k \in S PROVE m <= k
    <2>1. k \in Nat /\ m \in Nat
        OBVIOUS
    <2>2. ~(<<k, m>> \in OpToRel(<, Nat))
        BY <1>2
    <2>3. OpToRel(<, Nat) = {ss \in Nat \X Nat : ss[1] < ss[2]}
        BY DEF OpToRel
    <2>4. ~(k < m)
        BY <2>1, <2>2, <2>3
    <2> QED BY <2>1, <2>4
<1> QED BY <1>3

\* How many markers a span has.
Marked(n) == Cardinality(Markers(n))

\* On whole bytes the payload is what replicas and markers leave.
LEMMA PayloadOfBytes ==
    ASSUME NEW n \in Nat, n % 8 = 0, HasLayout(n)
    PROVE  /\ Marked(n) \in Nat /\ MarkerBits * Marked(n) \in Nat
           /\ PayloadBits(n) = n - 2 * PreambleBits - MarkerBits * Marked(n)
<1> DEFINE k == Marked(n)
           u == MarkerBits * k
           r == n - 2 * PreambleBits - u
<1>1. k \in Nat /\ Written(n) = n
    BY MarkerForEach, SMT DEF Marked, Written
<1>2. PayloadBits(n) = r - (r % 8)
    BY <1>1 DEF PayloadBits, Marked
<1> HIDE DEF k
<1>3. u \in Nat /\ u % 8 = 0
    <2>1. PICK q \in Nat : MarkerBits = 8 * q
        <3>1. MarkerBits = 8 * (MarkerBits \div 8) /\ MarkerBits \div 8 \in Nat
            BY FrameAssumption, MarkerAssumption, SMT
        <3> QED BY <3>1
    <2>2. u = 8 * (q * k) /\ q * k \in Nat
        BY <1>1, <2>1, SMT
    <2> QED BY <2>2, SMT
<1> HIDE DEF u
<1>4. r % 8 = 0 /\ r \in Int
    BY <1>3, FrameAssumption, SMT
<1> QED BY <1>1, <1>2, <1>3, <1>4 DEF u, k

\* Markers take at most half of the positions.
LEMMA MarkersAreHalf ==
    ASSUME NEW n \in Nat
    PROVE  Marked(n) \in Nat /\ 2 * (MarkerBits * Marked(n)) <= n
<1> DEFINE s == Spacing(n)
           q == n \div s
           k == Marked(n)
<1>1. s \in Nat \ {0} /\ 2 * MarkerBits <= s
    BY SpacingBounds, MarkerAssumption, FrameAssumption, SMT DEF Spacing, Clamp
<1>2. q \in Nat /\ q * s <= n
    BY <1>1, Division
<1>3. Occurrences(n) \subseteq 1..q
    <2>1. ASSUME NEW i \in Occurrences(n) PROVE i \in 1..q
        <3>1. i \in Nat /\ PreambleBits <= i * s /\ i * s + MarkerBits <= Written(n) - PreambleBits
            BY <2>1 DEF Occurrences
        <3>2. Written(n) \in Nat /\ Written(n) <= n
            BY WrittenBounds
        <3> HIDE DEF s
        <3>3. i # 0
            BY <1>1, <3>1, FrameAssumption, SMT
        <3>4. i * s \in Nat
            BY <1>1, <3>1, SMT
        <3>5. i * s <= n
            BY <3>1, <3>2, <3>4, FrameAssumption, SMT
        <3>6. SUFFICES ASSUME q < i PROVE FALSE
            BY <1>2, <3>1, <3>3
        <3>7. n < q * s + s
            BY <1>1, Division
        <3> HIDE DEF q
        <3>8. s * (q + 1) <= s * i
            BY <1>1, <1>2, <3>1, <3>6, ProductsOrdered
        <3>9. s * (q + 1) = q * s + s /\ s * i = i * s /\ q * s \in Nat
            BY <1>1, <1>2, <3>1, SMT
        <3> QED BY <1>1, <3>4, <3>5, <3>7, <3>8, <3>9, SMT
    <2> QED BY <2>1
<1>4. k \in Nat /\ k <= q
    <2> HIDE DEF q
    <2>1. IsFiniteSet(1..q) /\ Cardinality(1..q) = q
        <3>1. IsFiniteSet(1..q) /\ Cardinality(1..q) = IF 1 > q THEN 0 ELSE q - 1 + 1
            BY <1>2, FS_Interval
        <3> QED BY <1>2, <3>1
    <2>2. Cardinality(Occurrences(n)) <= q
        BY <1>3, <2>1, FS_Subset
    <2> QED BY <2>2, MarkerForEach DEF Marked
<1> HIDE DEF s, q, k
<1>5. s * k <= s * q
    BY <1>1, <1>2, <1>4, ProductsOrdered
<1>6. k * (2 * MarkerBits) <= k * s
    BY <1>1, <1>4, FrameAssumption, ProductsOrdered
<1>7. k * (2 * MarkerBits) = 2 * (MarkerBits * k) /\ k * s = s * k /\ s * q = q * s
    BY <1>1, <1>2, <1>4, FrameAssumption, SMT
<1>8. s * k \in Nat /\ s * q \in Nat /\ MarkerBits * k \in Nat
    BY <1>1, <1>2, <1>4, FrameAssumption, SMT
<1> QED BY <1>2, <1>4, <1>5, <1>6, <1>7, <1>8 DEF k

\* Every payload has a span that holds it exactly.
LEMMA ExactSpan ==
    ASSUME NEW b \in Nat \ {0}, b % 8 = 0
    PROVE  \E u \in Nat : u % 8 = 0 /\ HasLayout(u) /\ PayloadBits(u) = b
<1> DEFINE S == {n \in Nat : n % 8 = 0 /\ HasLayout(n) /\ PayloadBits(n) >= b}
           w == 2 * b + 4 * PreambleBits
<1>1. w \in S
    <2>1. w \in Nat /\ w % 8 = 0
        BY FrameAssumption, SMT
    <2>2. Written(w) = w
        BY <2>1, SMT DEF Written
    <2>3. HasLayout(w)
        BY <2>1, <2>2, FrameAssumption, SMT DEF HasLayout
    <2> DEFINE m == MarkerBits * Marked(w)
    <2>4. /\ m \in Nat /\ 2 * m <= w
          /\ PayloadBits(w) = w - 2 * PreambleBits - m
        BY <2>1, <2>3, PayloadOfBytes, MarkersAreHalf
    <2>5. PayloadBits(w) >= b
        <3> HIDE DEF m
        <3> QED BY <2>4, FrameAssumption, SMT
    <2> QED BY <2>1, <2>3, <2>5
<1>2. PICK u \in S : \A k \in S : u <= k
    <2> HIDE DEF S, w
    <2>1. S \subseteq Nat
        BY DEF S
    <2> QED BY <1>1, <2>1, Least
<1>3. u \in Nat /\ u % 8 = 0 /\ HasLayout(u) /\ PayloadBits(u) >= b
    OBVIOUS
<1>4. Written(u) = u /\ PayloadBits(u) \in Nat /\ PayloadBits(u) % 8 = 0
    BY <1>3, PayloadIsNat, SMT DEF Written
<1>5. PayloadBits(u) <= b
    <2> DEFINE v == u - 8
    <2>1. u >= 2 * PreambleBits + 8
        BY <1>3, <1>4 DEF HasLayout
    <2>2. v \in Nat /\ v % 8 = 0 /\ v <= u
        BY <1>3, <2>1, FrameAssumption, SMT
    <2>3. Written(v) = v
        BY <2>2, SMT DEF Written
    <2>4. CASE HasLayout(v)
        <3>1. PayloadBits(u) <= PayloadBits(v) + 8
            BY <1>3, <1>4, <2>2, <2>3, <2>4, PayloadGrowth
        <3>2. PayloadBits(v) \in Nat /\ PayloadBits(v) % 8 = 0
            BY <2>2, <2>4, PayloadIsNat
        <3>3. PayloadBits(v) < b
            <4>1. SUFFICES ASSUME PayloadBits(v) >= b PROVE FALSE
                BY <3>2
            <4>2. v \in S
                BY <2>2, <2>4, <4>1
            <4> QED BY <1>2, <1>3, <4>2
        <3> QED BY <1>4, <3>1, <3>2, <3>3, SMT
    <2>5. CASE ~HasLayout(v)
        <3>1. u < 2 * PreambleBits + 16
            BY <1>3, <2>2, <2>3, <2>5, FrameAssumption, SMT DEF HasLayout
        <3>2. u = 2 * PreambleBits + 8
            BY <1>3, <2>1, <3>1, FrameAssumption, SMT
        <3> DEFINE m == MarkerBits * Marked(u)
        <3>3. m \in Nat /\ PayloadBits(u) = u - 2 * PreambleBits - m
            BY <1>3, PayloadOfBytes
        <3> HIDE DEF m
        <3>4. PayloadBits(u) <= 8 /\ 8 <= b
            BY <1>4, <3>2, <3>3, FrameAssumption, SMT
        <3> QED BY <1>4, <3>4
    <2> QED BY <2>4, <2>5
<1> QED BY <1>3, <1>4, <1>5

\* Below eight of the largest spacings a span has seven markers at most.
LEMMA FewMarkers ==
    ASSUME NEW n \in Nat, n < 8 * MaxSpacing
    PROVE  Marked(n) \in Nat /\ Marked(n) <= 7
<1> DEFINE s == Spacing(n)
           w == Written(n)
<1>1. s \in Nat \ {0} /\ w \in Nat /\ w <= n
    BY SpacingBounds, WrittenBounds
<1>2. w <= 8 * s
    <2>1. \/ s = MinSpacing /\ w < 8 * MinSpacing
          \/ 8 * s = w /\ MinSpacing <= s /\ s <= MaxSpacing
          \/ s = MaxSpacing /\ 8 * MaxSpacing < w
        BY SpacingShape
    <2> HIDE DEF s, w
    <2> QED BY <1>1, <2>1, FrameAssumption, SMT
<1>3. Occurrences(n) \subseteq 1..7
    <2>1. ASSUME NEW i \in Occurrences(n) PROVE i \in 1..7
        <3>1. i \in Nat /\ PreambleBits <= i * s /\ i * s + MarkerBits <= w - PreambleBits
            BY <2>1 DEF Occurrences
        <3> HIDE DEF s, w
        <3>2. i # 0
            BY <1>1, <3>1, FrameAssumption, SMT
        <3>3. SUFFICES ASSUME 8 <= i PROVE FALSE
            BY <3>1, <3>2
        <3>4. s * 8 <= s * i
            BY <1>1, <3>1, <3>3, ProductsOrdered
        <3>5. s * i = i * s /\ i * s \in Nat
            BY <1>1, <3>1, SMT
        <3> QED BY <1>1, <1>2, <3>1, <3>4, <3>5, FrameAssumption, SMT
    <2> QED BY <2>1
<1>4. IsFiniteSet(1..7) /\ Cardinality(1..7) = 7
    <2>1. IsFiniteSet(1..7) /\ Cardinality(1..7) = IF 1 > 7 THEN 0 ELSE 7 - 1 + 1
        <3>1. 1 \in Int /\ 7 \in Int
            OBVIOUS
        <3> QED BY <3>1, FS_Interval, Zenon
    <2> QED BY <2>1
<1>5. Cardinality(Occurrences(n)) <= 7
    BY <1>3, <1>4, FS_Subset
<1> QED BY <1>5, MarkerForEach DEF Marked

\* Past them, positions worth so many markers add at most half as many, and one.
LEMMA MarkersHalve ==
    ASSUME NEW t \in Nat, NEW u \in Nat, NEW j \in Nat,
           8 * MaxSpacing <= t, HasLayout(t), t % 8 = 0, u % 8 = 0,
           u = t + MarkerBits * j
    PROVE  2 * (Marked(u) - Marked(t)) <= j + 1
<1> DEFINE s == MaxSpacing
           x == t - PreambleBits - MarkerBits
           y == u - PreambleBits - MarkerBits
           p == x \div s
           q == y \div s
<1>1. s \in Nat \ {0} /\ 2 * MarkerBits <= s /\ MarkerBits * j \in Nat
    BY FrameAssumption, MarkerAssumption, SMT
<1>2. Written(t) = t /\ Written(u) = u /\ t <= u
    BY <1>1, SMT DEF Written
<1>3. Spacing(t) = s /\ Spacing(u) = s
    <2>1. t \div 8 >= MaxSpacing /\ u \div 8 >= MaxSpacing
        BY <1>1, <1>2, SMT
    <2> QED BY <1>1, <1>2, <2>1, FrameAssumption, SMT DEF Spacing, Clamp
<1>4. x \in Nat /\ y \in Nat /\ y = x + MarkerBits * j
    <2>1. t >= 2 * PreambleBits + 8
        BY <1>2 DEF HasLayout
    <2> DEFINE m == MarkerBits * j
    <2> HIDE DEF m
    <2> QED BY <1>1, <2>1, FrameAssumption, SMT DEF m
<1>5. p \in Nat /\ p * s <= x /\ x < p * s + s /\ q \in Nat /\ q * s <= y /\ y < q * s + s
    BY <1>1, <1>4, Division
<1>6. ASSUME NEW i \in Nat
      PROVE  /\ i * s \in Nat
             /\ i * s <= y => i <= q
             /\ i * s > x => i > p
    <2> HIDE DEF s, x, y, p, q
    <2>1. i * s \in Nat /\ p * s \in Nat /\ q * s \in Nat
        BY <1>1, <1>5, SMT
    <2>2. ASSUME i * s <= y, q < i PROVE FALSE
        <3>1. s * (q + 1) <= s * i
            BY <1>1, <1>5, <2>2, ProductsOrdered
        <3>2. s * (q + 1) = q * s + s /\ s * i = i * s
            BY <1>1, <1>5, SMT
        <3> QED BY <1>1, <1>4, <1>5, <2>1, <2>2, <3>1, <3>2
    <2>3. ASSUME i * s > x, i <= p PROVE FALSE
        <3>1. s * i <= s * p
            BY <1>1, <1>5, <2>3, ProductsOrdered
        <3>2. s * p = p * s /\ s * i = i * s
            BY <1>1, <1>5, SMT
        <3> QED BY <1>1, <1>4, <1>5, <2>1, <2>3, <3>1, <3>2
    <2> QED BY <1>5, <2>1, <2>2, <2>3
<1> DEFINE A == Occurrences(t)
           B == Occurrences(u)
           D == B \ A
<1>7. D \subseteq (p + 1)..q
    <2>1. ASSUME NEW i \in D PROVE i \in (p + 1)..q
        <3>1. i \in Nat /\ PreambleBits <= i * s /\ i * s + MarkerBits <= u - PreambleBits
            BY <1>2, <1>3, <2>1 DEF Occurrences
        <3>2. ~(i * s + MarkerBits <= t - PreambleBits)
            BY <1>2, <1>3, <2>1, <3>1 DEF Occurrences
        <3>3. i * s \in Nat /\ (i * s <= y => i <= q) /\ (i * s > x => i > p)
            BY <1>6, <3>1
        <3> HIDE DEF p, q
        <3>4. i * s <= y /\ i * s > x
            BY <3>1, <3>2, <3>3, FrameAssumption, SMT
        <3> QED BY <1>5, <3>1, <3>3, <3>4
    <2> HIDE DEF D
    <2> QED BY <2>1
<1>8. /\ IsFiniteSet(A) /\ IsFiniteSet(B) /\ A \subseteq B
      /\ Marked(t) = Cardinality(A) /\ Marked(u) = Cardinality(B)
      /\ Cardinality(A) \in Nat /\ Cardinality(B) \in Nat
    BY <1>2, MarkerForEach, OccurrencesStay DEF Marked
<1> HIDE DEF A, B
<1>9. Cardinality(D) = Cardinality(B) - Cardinality(A)
    <2>1. B \cap A = A
        BY <1>8
    <2>2. Cardinality(B \ A) = Cardinality(B) - Cardinality(B \cap A)
        BY <1>8, FS_Difference, Zenon
    <2> QED BY <2>1, <2>2
<1> HIDE DEF D
<1>10. Cardinality(D) <= IF p + 1 > q THEN 0 ELSE q - p
    <2>1. IsFiniteSet((p + 1)..q)
          /\ Cardinality((p + 1)..q) = IF p + 1 > q THEN 0 ELSE q - (p + 1) + 1
        <3>1. p + 1 \in Int /\ q \in Int
            BY <1>5
        <3> HIDE DEF p, q
        <3> QED BY <3>1, FS_Interval, Zenon
    <2>2. Cardinality(D) <= Cardinality((p + 1)..q)
        BY <1>7, <2>1, FS_Subset
    <2> HIDE DEF p, q
    <2> QED BY <1>5, <2>1, <2>2
<1> HIDE DEF x, y, p, q, s
<1>11. CASE p + 1 > q
    BY <1>8, <1>9, <1>10, <1>11
<1>12. CASE ~(p + 1 > q)
    <2> DEFINE e == q - p - 1
    <2>1. e \in Nat /\ q = p + 1 + e
        BY <1>5, <1>12
    <2>2. q * s = p * s + s + e * s /\ e * s \in Nat /\ p * s \in Nat
        <3> HIDE DEF e
        <3> QED BY <1>1, <1>5, <2>1, SMT
    <2>3. e * s < MarkerBits * j
        <3> DEFINE es == e * s
                   ps == p * s
                   qs == q * s
                   mj == MarkerBits * j
        <3>1. es \in Nat /\ ps \in Nat /\ qs = ps + s + es /\ mj \in Nat
              /\ x < ps + s /\ qs <= y /\ y = x + mj
            BY <1>1, <1>4, <1>5, <2>2
        <3> HIDE DEF es, ps, qs, mj
        <3>2. es < mj
            BY <1>1, <1>4, <3>1
        <3> QED BY <3>2 DEF es, mj
    <2> HIDE DEF e
    <2>4. 2 * e < j
        <3>1. SUFFICES ASSUME j <= 2 * e PROVE FALSE
            BY <2>1
        <3>2. e * (2 * MarkerBits) <= e * s
            BY <1>1, <2>1, FrameAssumption, ProductsOrdered
        <3>3. MarkerBits * j <= MarkerBits * (2 * e)
            BY <2>1, <3>1, FrameAssumption, ProductsOrdered
        <3>4. e * (2 * MarkerBits) = MarkerBits * (2 * e)
            BY <2>1, FrameAssumption, SMT
        <3>5. e * (2 * MarkerBits) \in Nat
            BY <2>1, FrameAssumption, SMT
        <3> QED BY <1>1, <2>2, <2>3, <3>2, <3>3, <3>4, <3>5
    <2>5. Cardinality(D) <= e + 1
        BY <1>5, <1>10, <1>12, <2>1
    <2> QED BY <1>8, <1>9, <2>1, <2>4, <2>5
<1> QED BY <1>11, <1>12

-----------------------------------------------------------------------------
(* How many rounds the search of a span takes.  A span u holds the payload *)
(* exactly; every round leaves the search short of u by the markers its    *)
(* last span lacked.  Seven rounds at most pass below eight of the largest *)
(* spacings; past them what lacks is halved by every round.                *)

\* The powers of two.
Powers(f) == f \in [Nat -> Nat] /\ f[0] = 1 /\ \A i \in Nat : f[i + 1] = 2 * f[i]

\* A later power is not a smaller one.
LEMMA PowersGrow ==
    ASSUME NEW f, Powers(f), NEW r \in Nat, NEW i \in Nat, r <= i
    PROVE  f[r] \in Nat /\ f[i] \in Nat /\ f[r] <= f[i]
<1> DEFINE S == {k \in Nat : f[r + k] < f[r]}
<1>1. ASSUME NEW k \in Nat PROVE f[k] \in Nat /\ f[k + 1] = 2 * f[k]
    BY DEF Powers
<1>2. S = {}
    <2>1. SUFFICES ASSUME NEW x \in S PROVE FALSE
        OBVIOUS
    <2>2. PICK m \in S : \A k \in S : m <= k
        <3>1. S \subseteq Nat
            OBVIOUS
        <3> HIDE DEF S
        <3> QED BY <3>1, Least
    <2>3. m \in Nat /\ f[r + m] < f[r]
        OBVIOUS
    <2>4. m # 0
        BY <1>1, <2>3
    <2>5. m - 1 \in Nat /\ ~(f[r + (m - 1)] < f[r])
        <3>1. m - 1 \in Nat
            BY <2>3, <2>4
        <3>2. m - 1 \notin S
            BY <2>2, <2>3, <3>1
        <3> QED BY <3>1, <3>2
    <2>6. f[r + m] = 2 * f[r + (m - 1)]
        <3>1. r + (m - 1) \in Nat /\ (r + (m - 1)) + 1 = r + m
            BY <2>3, <2>5
        <3> QED BY <1>1, <3>1
    <2>7. f[r + (m - 1)] \in Nat /\ f[r] \in Nat
        BY <1>1, <2>5
    <2> QED BY <2>3, <2>5, <2>6, <2>7
<1>3. i - r \in Nat /\ i = r + (i - r)
    OBVIOUS
<1>4. ~(f[r + (i - r)] < f[r])
    <2> DEFINE d == i - r
    <2>1. d \in Nat
        BY <1>3
    <2> HIDE DEF d
    <2>2. ~(f[r + d] < f[r])
        BY <1>2, <2>1
    <2> QED BY <2>2 DEF d
<1>5. f[r] \in Nat /\ f[i] \in Nat
    BY <1>1
<1> QED BY <1>3, <1>4, <1>5

\* What a span of this payload is, when it holds it exactly.
HoldsExactly(u, b) == u \in Nat /\ u % 8 = 0 /\ HasLayout(u) /\ PayloadBits(u) = b

\* A span of whole bytes that is short of a payload.
ShortOf(n, b) == n \in Nat /\ n % 8 = 0 /\ HasLayout(n) /\ PayloadBits(n) < b

\* A round leaves a span short of u by the markers that lacked.
LEMMA OneRound ==
    ASSUME NEW b \in Nat, NEW u, HoldsExactly(u, b), NEW a, ShortOf(a, b), a <= u,
           NEW t, t = a + (b - PayloadBits(a)), ShortOf(t, b)
    PROVE  /\ Marked(a) \in Nat /\ Marked(t) \in Nat /\ Marked(u) \in Nat
           /\ t <= u
           /\ Marked(a) < Marked(t) /\ Marked(t) <= Marked(u)
           /\ 8 * MaxSpacing <= t => 2 * (Marked(u) - Marked(t)) <= (Marked(u) - Marked(a)) + 1
<1> DEFINE j == Marked(u) - Marked(a)
           ma == MarkerBits * Marked(a)
           mu == MarkerBits * Marked(u)
           mt == MarkerBits * Marked(t)
<1>1. /\ u \in Nat /\ u % 8 = 0 /\ HasLayout(u) /\ PayloadBits(u) = b
      /\ a \in Nat /\ a % 8 = 0 /\ HasLayout(a) /\ PayloadBits(a) < b
      /\ t \in Nat /\ t % 8 = 0 /\ HasLayout(t) /\ PayloadBits(t) < b
    BY DEF HoldsExactly, ShortOf
<1>2. /\ Marked(a) \in Nat /\ Marked(t) \in Nat /\ Marked(u) \in Nat
      /\ ma \in Nat /\ mu \in Nat /\ mt \in Nat
      /\ PayloadBits(u) = u - 2 * PreambleBits - mu
      /\ PayloadBits(a) = a - 2 * PreambleBits - ma
      /\ PayloadBits(t) = t - 2 * PreambleBits - mt
    BY <1>1, PayloadOfBytes
<1>3. Marked(a) <= Marked(u)
    BY <1>1, MarkersGrow DEF Marked
<1>4. j \in Nat /\ MarkerBits * j = mu - ma
    <2>1. j \in Nat
        BY <1>2, <1>3
    <2>2. ASSUME NEW m \in Nat, NEW x \in Nat, NEW y \in Nat
          PROVE  m * (x - y) = m * x - m * y
        BY SMT
    <2>3. MarkerBits \in Nat
        BY FrameAssumption
    <2> QED BY <1>2, <2>1, <2>2, <2>3
<1>5. u = t + MarkerBits * j
    <2> DEFINE mj == MarkerBits * j
    <2>1. mj = mu - ma
        BY <1>4
    <2> HIDE DEF mj, ma, mu
    <2>2. u = t + mj
        BY <1>1, <1>2, <2>1, FrameAssumption, SMT
    <2> QED BY <2>2 DEF mj
<1>6. t <= u /\ a < t
    <2>1. MarkerBits * j \in Nat
        BY <1>4, FrameAssumption, SMT
    <2>2. PayloadBits(a) \in Nat
        BY <1>1, PayloadIsNat
    <2> QED BY <1>1, <1>5, <2>1, <2>2
<1>7. Marked(a) <= Marked(t) /\ Marked(t) <= Marked(u)
    BY <1>1, <1>6, MarkersGrow DEF Marked
<1>8. Marked(a) # Marked(t)
    <2>1. SUFFICES ASSUME Marked(a) = Marked(t) PROVE FALSE
        OBVIOUS
    <2>2. mt = ma
        BY <2>1
    <2> HIDE DEF ma, mt, mu
    <2> QED BY <1>1, <1>2, <2>2, FrameAssumption, SMT
<1>9. 8 * MaxSpacing <= t => 2 * (Marked(u) - Marked(t)) <= j + 1
    BY <1>1, <1>4, <1>5, MarkersHalve
<1> QED BY <1>2, <1>6, <1>7, <1>8, <1>9

\* How many rounds have passed when the span is n and the payload needs u, where
\* the markers of u are fewer than the r-th power of two.
Closing(f, r, u, n, passed) ==
    LET lacks == Marked(u) - Marked(n) IN
    IF n < 8 * MaxSpacing THEN passed <= Marked(n)
    ELSE \/ lacks >= 2 /\ \E i \in Nat : passed <= 8 + i /\ f[i] * (lacks - 1) <= Marked(u)
         \/ lacks <= 1 /\ passed + lacks <= 9 + r

\* While a power times what lacks is within the markers of u, the power is early.
LEMMA EarlyPower ==
    ASSUME NEW f, Powers(f), NEW r \in Nat, NEW k \in Nat, k < f[r],
           NEW l \in Nat \ {0}, NEW i \in Nat, f[i] * l <= k
    PROVE  i < r
<1>1. SUFFICES ASSUME r <= i PROVE FALSE
    OBVIOUS
<1>2. f[r] \in Nat /\ f[i] \in Nat /\ f[r] <= f[i]
    BY <1>1, PowersGrow
<1>3. f[i] * 1 <= f[i] * l
    BY <1>2, ProductsOrdered
<1>4. f[i] * 1 = f[i] /\ f[i] * l \in Nat
    BY <1>2, SMT
<1> QED BY <1>2, <1>3, <1>4

\* No more than nine rounds and the power's number pass while the span is short.
LEMMA ClosingBound ==
    ASSUME NEW f, Powers(f), NEW r \in Nat, NEW u \in Nat, Marked(u) < f[r],
           NEW n \in Nat, n <= u, NEW passed \in Nat, Closing(f, r, u, n, passed)
    PROVE  passed <= 9 + r
<1> DEFINE lacks == Marked(u) - Marked(n)
<1>1. lacks \in Nat /\ Marked(u) \in Nat /\ Marked(n) \in Nat
    BY MarkersGrow, MarkerForEach DEF Marked
<1>2. CASE n < 8 * MaxSpacing
    BY <1>1, <1>2, FewMarkers DEF Closing
<1>3. CASE lacks >= 2 /\ \E i \in Nat : passed <= 8 + i /\ f[i] * (lacks - 1) <= Marked(u)
    <2>1. PICK i \in Nat : passed <= 8 + i /\ f[i] * (lacks - 1) <= Marked(u)
        BY <1>3
    <2>2. lacks - 1 \in Nat \ {0}
        BY <1>1, <1>3
    <2> HIDE DEF lacks
    <2>3. i < r
        BY <1>1, <2>1, <2>2, EarlyPower
    <2> QED BY <2>1, <2>3
<1>4. CASE lacks <= 1 /\ passed + lacks <= 9 + r
    BY <1>1, <1>4
<1> QED BY <1>2, <1>3, <1>4 DEF Closing

\* A round that leaves the span short has brought it nearer.
LEMMA ClosingStep ==
    ASSUME NEW f, Powers(f), NEW r \in Nat, NEW b \in Nat, NEW u, HoldsExactly(u, b), Marked(u) < f[r],
           NEW a, ShortOf(a, b), a <= u, NEW passed \in Nat, Closing(f, r, u, a, passed),
           NEW t, t = a + (b - PayloadBits(a)), ShortOf(t, b)
    PROVE  Closing(f, r, u, t, passed + 1)
<1> DEFINE j == Marked(u) - Marked(a)
           k == Marked(u) - Marked(t)
<1>1. /\ Marked(a) \in Nat /\ Marked(t) \in Nat /\ Marked(u) \in Nat
      /\ t <= u
      /\ Marked(a) < Marked(t) /\ Marked(t) <= Marked(u)
      /\ 8 * MaxSpacing <= t => 2 * k <= j + 1
    BY OneRound
<1>2. /\ u \in Nat /\ a \in Nat /\ t \in Nat
      /\ j \in Nat /\ k \in Nat /\ k < j
    BY <1>1 DEF HoldsExactly, ShortOf
<1>3. CASE t < 8 * MaxSpacing
    <2>1. a < 8 * MaxSpacing
        <3>1. PayloadBits(a) \in Nat /\ PayloadBits(a) < b
            BY <1>2, PayloadIsNat DEF ShortOf
        <3> QED BY <1>2, <1>3, <3>1, FrameAssumption, SMT
    <2>2. passed <= Marked(a)
        BY <2>1 DEF Closing
    <2> QED BY <1>1, <1>3, <2>2 DEF Closing
<1>4. CASE 8 * MaxSpacing <= t
    <2>1. 2 * k <= j + 1 /\ ~(t < 8 * MaxSpacing)
        BY <1>1, <1>2, <1>4, FrameAssumption, SMT
    <2>2. SUFFICES \/ k >= 2 /\ \E i \in Nat : passed + 1 <= 8 + i /\ f[i] * (k - 1) <= Marked(u)
                   \/ k <= 1 /\ (passed + 1) + k <= 9 + r
        BY <2>1 DEF Closing
    <2> HIDE DEF j, k
    <2>3. CASE a < 8 * MaxSpacing
        <3>1. passed <= 7
            BY <1>1, <1>2, <2>3, FewMarkers DEF Closing
        <3>2. CASE k <= 1
            BY <1>2, <3>1, <3>2
        <3>3. CASE k >= 2
            <4>1. f[0] = 1
                BY DEF Powers
            <4>2. f[0] * (k - 1) <= Marked(u)
                BY <1>1, <1>2, <4>1 DEF k
            <4> QED BY <3>1, <3>3, <4>2
        <3> QED BY <1>2, <3>2, <3>3
    <2>4. CASE ~(a < 8 * MaxSpacing)
        <3>1. \/ j >= 2 /\ \E i \in Nat : passed <= 8 + i /\ f[i] * (j - 1) <= Marked(u)
              \/ j <= 1 /\ passed + j <= 9 + r
            BY <2>4 DEF Closing, j
        <3>2. CASE j <= 1 /\ passed + j <= 9 + r
            BY <1>2, <3>2
        <3>3. CASE j >= 2 /\ \E i \in Nat : passed <= 8 + i /\ f[i] * (j - 1) <= Marked(u)
            <4>1. PICK i \in Nat : passed <= 8 + i /\ f[i] * (j - 1) <= Marked(u)
                BY <3>3
            <4>2. j - 1 \in Nat \ {0}
                BY <1>2, <3>3
            <4>3. i < r
                BY <1>1, <4>1, <4>2, EarlyPower
            <4>4. CASE k <= 1
                BY <1>2, <4>1, <4>3, <4>4
            <4>5. CASE k >= 2
                <5>1. f[i] \in Nat /\ f[i + 1] = 2 * f[i]
                    BY DEF Powers
                <5>2. 2 * (k - 1) <= j - 1 /\ 2 * (k - 1) \in Nat
                    BY <1>2, <2>1, <4>5
                <5>3. f[i] * (2 * (k - 1)) <= f[i] * (j - 1)
                    BY <4>2, <5>1, <5>2, ProductsOrdered
                <5>4. f[i] * (2 * (k - 1)) = f[i + 1] * (k - 1)
                    BY <1>2, <5>1, SMT
                <5>5. f[i] * (j - 1) \in Nat /\ f[i] * (2 * (k - 1)) \in Nat
                    BY <4>2, <5>1, <5>2, SMT
                <5>6. f[i + 1] * (k - 1) <= Marked(u)
                    BY <1>1, <4>1, <5>3, <5>4, <5>5
                <5> QED BY <4>1, <4>5, <5>6
            <4> QED BY <1>2, <4>4, <4>5
        <3> QED BY <3>1, <3>2, <3>3
    <2> QED BY <2>3, <2>4
<1>5. 8 * MaxSpacing \in Nat
    BY FrameAssumption
<1> QED BY <1>2, <1>3, <1>4, <1>5

\* No secret that can be composed asks for more bits than the r-th power of two.
LongestFits(f, r) ==
    \A c \in Covers, o \in Orders, d \in Around, n \in Nat :
        n <= Room(c, o) + d => FirstSpan(8 * EnvelopeLen(o.seal, n)) < f[r]

\* Where the search of the span is, when short: nearer to any span that holds the
\* payload by every round passed.
RoundsInv(f, r) ==
    /\ secret > 0 => FirstSpan(8 * Envelope) < f[r]
    /\ phase \in {"probing", "told"} => rounds = 0
    /\ rounds <= 10 + r
    /\ phase = "spanning" /\ PayloadBits(span) < 8 * Envelope =>
        \A u \in Nat : HoldsExactly(u, 8 * Envelope) => Closing(f, r, u, span, rounds)

\* A span that holds a payload exactly has fewer markers than bits.
LEMMA MarkersOfExact ==
    ASSUME NEW b \in Nat, NEW u, HoldsExactly(u, b)
    PROVE  Marked(u) \in Nat /\ Marked(u) <= FirstSpan(b)
<1> DEFINE m == MarkerBits * Marked(u)
<1>1. u \in Nat /\ u % 8 = 0 /\ HasLayout(u) /\ PayloadBits(u) = b
    BY DEF HoldsExactly
<1>2. /\ Marked(u) \in Nat /\ m \in Nat /\ 2 * m <= u
      /\ b = u - 2 * PreambleBits - m
    BY <1>1, PayloadOfBytes, MarkersAreHalf
<1>3. Marked(u) <= m
    <2>1. Marked(u) * 1 <= Marked(u) * MarkerBits
        BY <1>2, FrameAssumption, ProductsOrdered
    <2>2. Marked(u) * 1 = Marked(u) /\ Marked(u) * MarkerBits = m
        BY <1>2, FrameAssumption, SMT
    <2> QED BY <2>1, <2>2
<1> HIDE DEF m
<1>4. m <= FirstSpan(b)
    BY <1>1, <1>2, FrameAssumption, SMT DEF FirstSpan
<1> QED BY <1>2, <1>3, <1>4, FrameAssumption, SMT DEF FirstSpan

\* The span being searched is whole bytes, and short of every span that holds
\* the payload exactly.
LEMMA SpanIsShort ==
    ASSUME SizingInv, FramedInv, phase = "spanning", PayloadBits(span) < 8 * Envelope
    PROVE  /\ Envelope \in Nat \ {0} /\ ShortOf(span, 8 * Envelope)
           /\ \A u : HoldsExactly(u, 8 * Envelope) => span <= u
<1>1. /\ cover \in Covers /\ order \in Orders /\ span \in Nat /\ secret \in Nat
      /\ SearchesSpan /\ SpanShape
    BY DEF SizingInv, TypeOK, ComposeInv, FramedInv
<1>2. Envelope \in Nat \ {0}
    BY <1>1, SizesAreNat, EnvelopeGrows, SMT DEF Envelope, SpanShape
<1>3. ShortOf(span, 8 * Envelope)
    BY <1>1 DEF ShortOf, SpanShape
<1>4. ASSUME NEW u, HoldsExactly(u, 8 * Envelope), u < span PROVE FALSE
    <2>1. u \in Nat /\ HasLayout(u) /\ PayloadBits(u) = 8 * Envelope
        BY <1>4 DEF HoldsExactly
    <2>2. 2 * PreambleBits <= u
        BY <2>1, WrittenBounds, FrameAssumption, SMT DEF HasLayout
    <2>3. u \in (2 * PreambleBits)..(span - 1)
        BY <1>1, <1>4, <2>1, <2>2, FrameAssumption, SMT
    <2>4. PayloadBits(u) < 8 * Envelope
        BY <1>1, <2>3 DEF SpanShape, NoneShorter
    <2> QED BY <1>2, <2>1, <2>4
<1>5. ASSUME NEW u, HoldsExactly(u, 8 * Envelope) PROVE span <= u
    <2>1. u \in Nat
        BY <1>5 DEF HoldsExactly
    <2> QED BY <1>1, <1>4, <1>5, <2>1
<1> QED BY <1>2, <1>3, <1>5

\* The same of the next state.
LEMMA SpanIsShortNext ==
    (SizingInv /\ FramedInv /\ phase = "spanning" /\ PayloadBits(span) < 8 * Envelope
        => ShortOf(span, 8 * Envelope))'
<1>1. SizingInv /\ FramedInv /\ phase = "spanning" /\ PayloadBits(span) < 8 * Envelope
        => ShortOf(span, 8 * Envelope)
    BY SpanIsShort
<1> QED BY <1>1, PTL

\* Before any round nothing is claimed.
LEMMA ClosingStart ==
    ASSUME NEW f, Powers(f), NEW r \in Nat, NEW u \in Nat, NEW n \in Nat
    PROVE  Closing(f, r, u, n, 0)
<1> DEFINE lacks == Marked(u) - Marked(n)
<1>1. Marked(u) \in Nat /\ Marked(n) \in Nat /\ lacks \in Int
    BY MarkerForEach DEF Marked
<1>2. CASE lacks >= 2
    <2>1. f[0] * (lacks - 1) <= Marked(u)
        BY <1>1 DEF Powers
    <2> QED BY <1>1, <1>2, <2>1 DEF Closing
<1>3. CASE lacks <= 1
    BY <1>1, <1>3 DEF Closing
<1> QED BY <1>1, <1>2, <1>3

\* A compose starts the search with no round passed.
LEMMA ComposeRounds ==
    ASSUME NEW f, Powers(f), NEW r \in Nat, SizingInv, RoundsInv(f, r), NEW n \in Int, Compose(n),
           FirstSpan(8 * EnvelopeLen(order.seal, n)) < f[r]
    PROVE  RoundsInv(f, r)'
<1>1. /\ phase = "told" /\ secret' = n /\ rounds' = 0
      /\ cover' = cover /\ order' = order
      /\ phase' \in {"refused", "spanning", "building"}
    BY DEF SizingInv, TypeOK, Compose, RoundsInv
<1>2. (FirstSpan(8 * Envelope))' = FirstSpan(8 * EnvelopeLen(order.seal, n))
    BY <1>1 DEF FirstSpan, Envelope
<1>3. ASSUME NEW u \in Nat PROVE Closing(f, r, u, span, rounds)'
    <2>1. span' \in Nat
        BY ComposeKeeps DEF SizingInv, TypeOK
    <2>2. Closing(f, r, u, span', 0)
        BY <2>1, ClosingStart
    <2> QED BY <1>1, <2>2 DEF Closing, Marked, Markers, Spacing, Clamp, Written
<1> QED BY <1>1, <1>2, <1>3 DEF RoundsInv

\* What is composed around the report fits the power the covers allow.
LEMMA AroundFits ==
    ASSUME NEW f, NEW r \in Nat, LongestFits(f, r), SizingInv, FramedInv,
           NEW d \in Around, Compose(low + d)
    PROVE  FirstSpan(8 * EnvelopeLen(order.seal, low + d)) < f[r]
<1> DEFINE n == low + d
<1>1. low \in Nat /\ d \in Int /\ n > 0 /\ cover \in Covers /\ order \in Orders
    BY CostAssumption DEF SizingInv, TypeOK, Compose
<1>2. order.seal \in [chain : Nat, growth : Nat, keyed : BOOLEAN] /\ Room(cover, order) \in Nat
    BY <1>1, SizesAreNat
<1>3. low <= Room(cover, order)
    <2>1. CASE low = 0
        BY <1>2, <2>1
    <2>2. CASE low > 0
        <3>1. EnvelopeLen(order.seal, low) <= Room(cover, order)
            BY <2>2 DEF FramedInv
        <3>2. EnvelopeLen(order.seal, low) \in Nat /\ low < EnvelopeLen(order.seal, low)
            BY <1>1, <1>2, EnvelopeGrows
        <3> QED BY <1>1, <1>2, <3>1, <3>2
    <2> QED BY <1>1, <2>1, <2>2
<1>4. n \in Nat /\ n <= Room(cover, order) + d
    BY <1>1, <1>2, <1>3
<1> QED BY <1>1, <1>4 DEF LongestFits

\* A round of the search is one round nearer, and never the last.
LEMMA SpanRoundRounds ==
    ASSUME NEW f, Powers(f), NEW r \in Nat,
           SizingInv, FramedInv, RoundsInv(f, r), SpanRound
    PROVE  RoundsInv(f, r)'
<1> DEFINE b == 8 * Envelope
<1>1. /\ phase = "spanning" /\ span \in Nat /\ rounds \in Nat /\ secret \in Nat
      /\ UNCHANGED <<cover, order, low, high, secret, written>>
      /\ phase' \in {"building", "refused", "spanning"}
    BY DEF SizingInv, TypeOK, SpanRound
<1>2. b' = b /\ FirstSpan(b)' = FirstSpan(b)
    BY <1>1 DEF Envelope, FirstSpan
<1>3. CASE PayloadBits(span) >= b
    <2>1. phase' = "building" /\ rounds' = rounds
        BY <1>3 DEF SpanRound
    <2> QED BY <1>1, <1>2, <2>1 DEF RoundsInv
<1>4. CASE ~(PayloadBits(span) >= b)
    <2> DEFINE t == span + (b - PayloadBits(span))
    <2>1. span' = t /\ rounds' = rounds + 1
        BY <1>4 DEF SpanRound
    <2>2. SizingInv' /\ FramedInv'
        BY SpanRoundKeeps, SpanRoundFrames
    <2>3. HasLayout(span) /\ SpanShape
        BY <1>1 DEF SizingInv, ComposeInv, FramedInv
    <2>4. PayloadBits(span) \in Nat /\ Envelope \in Nat
        <3>1. cover \in Covers /\ order \in Orders
            BY DEF SizingInv, TypeOK
        <3> QED BY <1>1, <2>3, <3>1, PayloadIsNat, SizesAreNat, EnvelopeGrows DEF Envelope
    <2>5. PayloadBits(span) < b
        BY <1>4, <2>4
    <2>6. b \in Nat \ {0} /\ b % 8 = 0
        <3>1. Envelope \in Nat \ {0}
            BY <1>1, <2>5, SpanIsShort
        <3> QED BY <3>1, SMT
    <2>7. ShortOf(span, b) /\ \A u : HoldsExactly(u, b) => span <= u
        BY <1>1, <2>5, SpanIsShort
    <2>8. secret > 0 /\ FirstSpan(b) < f[r]
        BY <2>3 DEF SpanShape, RoundsInv
    <2>9. \A u \in Nat : HoldsExactly(u, b) => Closing(f, r, u, span, rounds)
        BY <1>1, <2>5 DEF RoundsInv
    <2>10. ASSUME NEW u, HoldsExactly(u, b) PROVE Marked(u) < f[r]
        <3>1. f[r] \in Nat
            BY DEF Powers
        <3>2. Marked(u) \in Nat /\ Marked(u) <= FirstSpan(b)
            BY <2>6, <2>10, MarkersOfExact
        <3>3. FirstSpan(b) \in Nat
            BY <2>6, FrameAssumption, SMT DEF FirstSpan
        <3> QED BY <2>8, <3>1, <3>2, <3>3
    <2>11. rounds <= 9 + r
        <3>1. PICK u \in Nat : HoldsExactly(u, b)
            BY <2>6, ExactSpan DEF HoldsExactly
        <3>2. span <= u /\ Marked(u) < f[r] /\ Closing(f, r, u, span, rounds)
            BY <2>7, <2>9, <2>10, <3>1
        <3> QED BY <1>1, <3>2, ClosingBound
    <2>12. ASSUME phase' = "spanning", (PayloadBits(span) < 8 * Envelope)', NEW u \in Nat, HoldsExactly(u, b)
           PROVE  Closing(f, r, u, t, rounds + 1)
        <3>1. ShortOf(span', 8 * Envelope')
            <4>1. (ShortOf(span, 8 * Envelope))'
                BY <2>2, <2>12, SpanIsShortNext
            <4> QED BY <4>1 DEF ShortOf, HasLayout, Written, PayloadBits, Markers, Spacing, Clamp
        <3>2. ShortOf(t, b)
            BY <1>2, <2>1, <3>1
        <3>3. span <= u /\ Marked(u) < f[r] /\ Closing(f, r, u, span, rounds)
            BY <2>7, <2>9, <2>10, <2>12
        <3> HIDE DEF b, t
        <3> QED BY <1>1, <2>6, <2>7, <2>12, <3>2, <3>3, ClosingStep DEF t
    <2>13. ASSUME phase' = "spanning", (PayloadBits(span) < 8 * Envelope)', NEW u \in Nat,
                  HoldsExactly(u, 8 * Envelope)'
           PROVE  Closing(f, r, u, span, rounds)'
        <3>1. HoldsExactly(u, b)
            BY <1>2, <2>13 DEF HoldsExactly
        <3>2. Closing(f, r, u, t, rounds + 1)
            BY <2>12, <2>13, <3>1
        <3> HIDE DEF t
        <3> QED BY <2>1, <3>2 DEF Closing, Marked, Markers, Spacing, Clamp, Written
    <2>14. rounds' <= 10 + r
        BY <1>1, <2>1, <2>11
    <2> HIDE DEF t
    <2> QED BY <1>1, <1>2, <2>8, <2>13, <2>14 DEF RoundsInv
<1> QED BY <1>3, <1>4

\* Every other step leaves the search as it is, or starts afresh.
LEMMA OthersRounds ==
    ASSUME NEW f, NEW r \in Nat, RoundsInv(f, r),
           Probe \/ Tell \/ Place \/ RefusePlace \/ Again \/ UNCHANGED vars
    PROVE  RoundsInv(f, r)'
<1>1. CASE Probe \/ Tell \/ Place \/ RefusePlace
    <2>1. UNCHANGED <<cover, order, secret, rounds>> /\ phase' # "spanning"
          /\ (phase' \in {"probing", "told"} => phase \in {"probing", "told"})
        BY <1>1 DEF Probe, Tell, Place, RefusePlace
    <2>2. (FirstSpan(8 * Envelope))' = FirstSpan(8 * Envelope)
        BY <2>1 DEF FirstSpan, Envelope
    <2> QED BY <2>1, <2>2 DEF RoundsInv
<1>2. CASE Again
    <2>1. secret' = 0 /\ rounds' = 0 /\ phase' = "told"
        BY <1>2 DEF Again
    <2> QED BY <2>1 DEF RoundsInv
<1>3. CASE UNCHANGED vars
    <2>1. UNCHANGED <<cover, order, phase, secret, span, rounds>>
        BY <1>3 DEF vars
    <2>2. /\ (FirstSpan(8 * Envelope))' = FirstSpan(8 * Envelope) /\ Envelope' = Envelope
          /\ PayloadBits(span)' = PayloadBits(span)
        BY <2>1 DEF FirstSpan, Envelope, PayloadBits, Markers, Spacing, Clamp, Written
    <2>3. ASSUME NEW u \in Nat
          PROVE  /\ (HoldsExactly(u, 8 * Envelope))' <=> HoldsExactly(u, 8 * Envelope)
                 /\ Closing(f, r, u, span, rounds)' <=> Closing(f, r, u, span, rounds)
        BY <2>1, <2>2 DEF HoldsExactly, Closing, Marked, Markers, Spacing, Clamp, Written
    <2> QED BY <2>1, <2>2, <2>3 DEF RoundsInv
<1> QED BY <1>1, <1>2, <1>3

\* Every behaviour keeps the count.
LEMMA RoundsInvariant ==
    ASSUME NEW f, Powers(f), NEW r \in Nat, LongestFits(f, r)
    PROVE  Spec => []RoundsInv(f, r)
<1>1. Init => RoundsInv(f, r)
    BY DEF Init, RoundsInv
<1>2. SizingInv /\ FramedInv /\ RoundsInv(f, r) /\ [Next]_vars => RoundsInv(f, r)'
    <2>1. SUFFICES ASSUME SizingInv, FramedInv, RoundsInv(f, r), [Next]_vars
                   PROVE  RoundsInv(f, r)'
        OBVIOUS
    <2>2. CASE SpanRound
        BY <2>1, <2>2, SpanRoundRounds
    <2>3. CASE Probe \/ Tell \/ Place \/ RefusePlace \/ Again \/ UNCHANGED vars
        BY <2>1, <2>3, OthersRounds
    <2>4. ASSUME NEW d \in Around, Compose(low + d) PROVE RoundsInv(f, r)'
        <3>1. low + d \in Int
            BY <2>1, CostAssumption DEF SizingInv, TypeOK
        <3> QED BY <2>1, <2>4, <3>1, AroundFits, ComposeRounds
    <2> QED BY <2>1, <2>2, <2>3, <2>4 DEF Next, Internal
<1> QED BY <1>1, <1>2, SizingInvariant, FramedInvariant, PTL DEF Spec

\* The search of the span ends on the smallest frame that holds the payload,
\* within its rounds and within the cover its gate let through.  Rounds are enough
\* where eleven are left beside the number of a power of two no span of the covers
\* and lengths in question reaches; the sixty-four of the code leave fifty-three
\* (minimum_span).
THEOREM SpanStaysSmallest ==
    ASSUME NEW f, Powers(f), NEW r \in Nat, LongestFits(f, r), r + 11 <= SpanRounds
    PROVE  Spec => []SpanIsSmallest
<1>1. SizingInv /\ FramedInv /\ RoundsInv(f, r) => SpanIsSmallest
    <2>1. SUFFICES ASSUME SizingInv, FramedInv, RoundsInv(f, r) PROVE SpanIsSmallest
        OBVIOUS
    <2>2. rounds < SpanRounds
        BY <2>1, FrameAssumption DEF SizingInv, TypeOK, RoundsInv
    <2> QED BY <2>1, <2>2, SpanExact DEF SpanIsSmallest, SpanIsExact
<1> QED BY <1>1, SizingInvariant, FramedInvariant, RoundsInvariant, PTL

\* Outside Conceal a secret of the reported length or less is placed, whatever the
\* carrier, the cipher and the frame, and a report of zero carries its true reason
\* (capacity, encode_for_mission_framed, capacity_zero_reason), under the same
\* condition on the rounds.
THEOREM ReportStaysTrue ==
    ASSUME NEW f, Powers(f), NEW r \in Nat, LongestFits(f, r), r + 11 <= SpanRounds
    PROVE  Spec => []ReportIsTrue
<1>1. SizingInv /\ FramedInv /\ RoundsInv(f, r) /\ BeyondReportRefused => ReportIsTrue
    <2>1. SUFFICES ASSUME SizingInv, FramedInv, RoundsInv(f, r), BeyondReportRefused
                   PROVE  ReportIsTrue
        OBVIOUS
    <2>2. rounds < SpanRounds
        BY <2>1, FrameAssumption DEF SizingInv, TypeOK, RoundsInv
    <2> QED BY <2>1, <2>2, ReportTrue
<1> QED BY <1>1, SizingInvariant, FramedInvariant, RoundsInvariant, BeyondReportIsRefused, PTL

-----------------------------------------------------------------------------
(* Least and greatest elements, and the ranking.                           *)

\* A set of natural numbers that has an element has a minimum.
LEMMA MinIs ==
    ASSUME NEW S \in SUBSET Nat, S # {}
    PROVE  Min(S) \in S /\ \A y \in S : Min(S) <= y
<1>1. \E x \in S : \A y \in S : x <= y
    BY Least
<1> QED BY <1>1 DEF Min

\* One with a bound has a maximum.
LEMMA MaxIs ==
    ASSUME NEW b \in Nat, NEW S \in SUBSET (0..b), S # {}
    PROVE  Max(S) \in S /\ \A y \in S : y <= Max(S)
<1> DEFINE below == {b - y : y \in S}
<1>1. below \subseteq Nat /\ below # {}
    <2>1. \A y \in S : b - y \in Nat
        OBVIOUS
    <2> QED BY <2>1
<1>2. PICK m \in below : \A k \in below : m <= k
    BY <1>1, Least
<1>3. PICK x \in S : m = b - x
    OBVIOUS
<1>4. ASSUME NEW y \in S PROVE x >= y
    <2>1. b - y \in below
        OBVIOUS
    <2>2. m <= b - y /\ x \in Nat /\ y \in Nat
        BY <1>2, <2>1
    <2> QED BY <1>3, <2>2
<1>5. \E z \in S : \A y \in S : z >= y
    BY <1>4
<1>6. Max(S) \in S /\ \A y \in S : Max(S) >= y
    BY <1>5 DEF Max
<1> QED BY <1>6

\* The strictest mission a load clears is the first of those it clears.
LEMMA StrictestIs ==
    ASSUME NEW c, NEW len
    PROVE  /\ Strictest(c, len) \in 1..4
           /\ Strictest(c, len) < 4 => Clears(c, Strictest(c, len), len)
           /\ \A m \in 1..3 : Clears(c, m, len) => Strictest(c, len) <= m
<1> DEFINE S == {m \in 1..3 : Clears(c, m, len)} \cup {4}
<1>1. S \subseteq Nat /\ S # {} /\ S \subseteq 1..4
    OBVIOUS
<1>2. Strictest(c, len) = Min(S)
    BY DEF Strictest
<1>3. Min(S) \in S /\ \A y \in S : Min(S) <= y
    <2> HIDE DEF S
    <2> QED BY <1>1, MinIs
<1> QED BY <1>1, <1>2, <1>3

\* Of any list one candidate comes before all others.
LEMMA FirstIs ==
    ASSUME offer \in Seq(Covers) \ {<<>>}, NEW len
    PROVE  /\ First(len) \in DOMAIN offer
           /\ \A j \in DOMAIN offer \ {First(len)} : Before(First(len), j, len)
<1> DEFINE Heads(n, i) == i \in 1..n /\ \A j \in 1..n \ {i} : Before(i, j, len)
           n == Len(offer)
           Headless == {k \in 1..n : ~\E i \in 1..n : Heads(k, i)}
<1>1. n \in Nat \ {0} /\ DOMAIN offer = 1..n
    OBVIOUS
<1>2. ASSUME NEW i \in 1..n
      PROVE  Strictest(offer[i], len) \in Nat /\ Positions(offer[i]) \in Nat
    <2>1. offer[i] \in Covers
        BY <1>1
    <2>2. offer[i].slots \in Nat
        BY <2>1, CostAssumption DEF Covers
    <2> QED BY <2>2, StrictestIs, SMT DEF Positions
<1>3. ASSUME NEW i \in 1..n, NEW j \in 1..n, i # j
      PROVE  Before(i, j, len) \/ Before(j, i, len)
    BY <1>2, <1>3 DEF Before
<1>4. ASSUME NEW i \in 1..n, NEW j \in 1..n, NEW k \in 1..n, Before(i, j, len), Before(j, k, len)
      PROVE  Before(i, k, len)
    BY <1>2, <1>4 DEF Before
<1>5. Headless = {}
    <2>1. SUFFICES ASSUME NEW x \in Headless PROVE FALSE
        OBVIOUS
    <2>2. Headless \subseteq Nat
        BY <1>1
    <2>3. PICK k \in Headless : \A l \in Headless : k <= l
        <3> HIDE DEF Headless
        <3> QED BY <2>1, <2>2, Least
    <2>4. k \in 1..n /\ k \in Nat /\ n \in Nat
        BY <1>1
    <2>5. k # 1
        <3>1. SUFFICES ASSUME k = 1 PROVE FALSE
            OBVIOUS
        <3>2. 1..1 \ {1} = {} /\ 1 \in 1..1 /\ 1 \in 1..n
            BY <2>4, <3>1
        <3>3. Heads(1, 1)
            BY <3>2
        <3> QED BY <3>1, <3>2, <3>3
    <2>6. k - 1 \in 1..n /\ ~(k - 1 \in Headless)
        <3>1. k - 1 \in 1..n /\ ~(k <= k - 1)
            BY <2>4, <2>5
        <3> HIDE DEF Headless
        <3> QED BY <2>3, <3>1
    <2>7. PICK i \in 1..n : Heads(k - 1, i)
        BY <2>6
    <2>8. i \in 1..k /\ i # k /\ \A j \in 1..k \ {i, k} : Before(i, j, len)
        BY <2>4, <2>7
    <2>9. CASE Before(i, k, len)
        <3>1. Heads(k, i)
            BY <2>8, <2>9
        <3> QED BY <2>3, <3>1
    <2>10. CASE Before(k, i, len)
        <3>1. \A j \in 1..k \ {k} : Before(k, j, len)
            <4>1. SUFFICES ASSUME NEW j \in 1..k \ {k}, j # i PROVE Before(k, j, len)
                BY <2>10
            <4>2. Before(i, j, len) /\ j \in 1..n
                BY <2>4, <2>8, <4>1
            <4> QED BY <1>4, <2>4, <2>10, <4>2
        <3>2. Heads(k, k)
            BY <2>4, <3>1
        <3> QED BY <2>3, <2>4, <3>2
    <2> QED BY <1>3, <2>4, <2>8, <2>9, <2>10
<1>6. PICK i \in 1..n : Heads(n, i)
    <2>1. n \in 1..n
        BY <1>1
    <2>2. ~(n \in Headless)
        BY <1>5
    <2> QED BY <2>1, <2>2
<1>7. \E h \in DOMAIN offer : \A j \in DOMAIN offer \ {h} : Before(h, j, len)
    BY <1>1, <1>6
<1> QED BY <1>7 DEF First

-----------------------------------------------------------------------------
(* The invariant: what was recommended, and what became of it.             *)

Load == EnvelopeLen(order.seal, want)

\* The mission recommended is cleared, and no candidate clears a stricter one;
\* or none clears any, and what lacks is named.
Advised ==
    \/ /\ advice.best \in DOMAIN offer /\ advice.mission \in 1..3 /\ advice.short = 0
       /\ Clears(offer[advice.best], advice.mission, Load)
       /\ \A i \in DOMAIN offer : \A m \in 1..3 : Clears(offer[i], m, Load) => advice.mission <= m
    \/ /\ advice.best = 0 /\ advice.mission = 0 /\ advice.short = Load - MostHeld
       /\ \A i \in DOMAIN offer : \A m \in 1..3 : ~Clears(offer[i], m, Load)

Taken ==
    /\ choice = "advised" =>
         /\ advice.best # 0 /\ cover = offer[advice.best]
         /\ order.conceal <=> advice.mission = 1
    /\ choice = "stricter" =>
         /\ advice.mission # 1 /\ order.conceal
         /\ \E i \in DOMAIN offer : cover = offer[i]
    /\ choice = "shorter" =>
         /\ advice.short > 0 /\ Remaining > 0 /\ ~order.conceal
         /\ \E i \in DOMAIN offer : cover = offer[i] /\ Holds(i) = MostHeld

Wanted == IF choice = "shorter" THEN Remaining ELSE want

\* A question is put about a list of candidates, with nothing measured yet.
Question ==
    /\ phase = "asking" =>
         /\ cover \in Covers /\ order \in Orders /\ ~order.conceal
         /\ low = 0 /\ high = 0 /\ secret = 0 /\ span = 0 /\ rounds = 0 /\ written = 0
         /\ choice = "none" /\ offer # <<>>
    /\ offer # <<>> => offer \in Offers /\ want \in Wants /\ order.mode # "saturated"

AdviceInv ==
    /\ Question
    /\ offer # <<>> /\ phase # "asking" => choice # "none"
    /\ advice # NoAdvice => offer # <<>> /\ Advised
    /\ choice \in {"none", "advised", "stricter", "shorter"}
    /\ choice # "none" => advice # NoAdvice /\ secret \in {0, Wanted}
    /\ Taken

\* Once a cover is being measured the invariants of FrameSizing hold.
Sized(f, r) == phase # "asking" => SizingInv /\ FramedInv /\ RoundsInv(f, r)

\* No secret anybody wants asks for more bits than the r-th power of two.
WantsFit(f, r) ==
    \A seal \in Seals, w \in Wants, n \in Nat :
        n <= w => FirstSpan(8 * EnvelopeLen(seal, n)) < f[r]

-----------------------------------------------------------------------------
(* The question and the advice.                                            *)

\* The mission has no say in the room of a frame.
LEMMA SameRoom ==
    ASSUME NEW c, NEW o \in Orders, NEW b
    PROVE  Room(c, [o EXCEPT !.conceal = b]) = Room(c, o)
<1>1. [o EXCEPT !.conceal = b].mode = o.mode /\ [o EXCEPT !.conceal = b].seal = o.seal
    BY DEF Orders
<1> QED BY <1>1 DEF Room

\* Advice given for other missions of the same order stays what it was.
LEMMA AdviceStands ==
    ASSUME order \in Orders, NEW b, order' = [order EXCEPT !.conceal = b],
           offer' = offer, want' = want, advice' = advice
    PROVE  /\ Advised => Advised'
           /\ Load' = Load /\ MostHeld' = MostHeld /\ Remaining' = Remaining
           /\ \A i : Holds(i)' = Holds(i)
<1>1. order'.seal = order.seal /\ \A c : Room(c, order)' = Room(c, order)
    <2>1. order'.seal = order.seal
        BY DEF Orders
    <2>2. ASSUME NEW c PROVE Room(c, order') = Room(c, order)
        BY SameRoom
    <2> QED BY <2>1, <2>2 DEF Room, HasLayout, Written, PayloadBits, Markers, Spacing, Clamp,
                              Positions, HeaderLen
<1>2. Load' = Load
    BY <1>1 DEF Load, EnvelopeLen, VarintLen
<1>3. \A i : Holds(i)' = Holds(i)
    <2>1. SUFFICES ASSUME NEW i PROVE Holds(i)' = Holds(i)
        OBVIOUS
    <2>2. Room(offer[i], order)' = Room(offer[i], order)
        <3>1. Room(offer[i], order') = Room(offer[i], order)
            BY SameRoom
        <3>2. Room(offer[i], order)' = Room(offer'[i], order')
            BY DEF Room, HasLayout, Written, PayloadBits, Markers, Spacing, Clamp, Positions,
                   HeaderLen
        <3> QED BY <3>1, <3>2
    <2>3. Budget(offer[i], 3)' = Budget(offer[i], 3)
        BY DEF Budget, Positions, Ceiling
    <2> QED BY <2>2, <2>3 DEF Holds
<1>4. MostHeld' = MostHeld
    BY <1>3 DEF MostHeld
<1>5. \A c, m, len : Clears(c, m, len)' <=> Clears(c, m, len)
    BY <1>1 DEF Clears, Budget, Positions, Ceiling
<1>6. Remaining' = Remaining
    BY <1>1 DEF Remaining, EnvelopeLen, VarintLen
<1> QED BY <1>2, <1>3, <1>4, <1>5, <1>6 DEF Advised

\* What is recommended is what the ranking puts first.
LEMMA RecommendKeeps ==
    ASSUME AdviceInv, Recommend
    PROVE  AdviceInv'
<1> DEFINE i == First(Load)
<1>1. /\ phase = "asking" /\ advice = NoAdvice /\ offer # <<>> /\ offer \in Offers
      /\ UNCHANGED <<vars, offer, want, choice>> /\ choice = "none"
      /\ advice' = IF Strictest(offer[i], Load) < 4
                   THEN [best |-> i, mission |-> Strictest(offer[i], Load), short |-> 0]
                   ELSE [best |-> 0, mission |-> 0, short |-> Load - MostHeld]
    BY DEF AdviceInv, Question, Recommend, Load
<1>2. /\ i \in DOMAIN offer
      /\ \A j \in DOMAIN offer \ {i} : Before(i, j, Load)
    BY <1>1, AdviceAssumption, FirstIs
<1>3. ASSUME NEW j \in DOMAIN offer, NEW m \in 1..3, Clears(offer[j], m, Load)
      PROVE  Strictest(offer[i], Load) <= m
    <2>1. Strictest(offer[j], Load) <= m
        BY <1>3, StrictestIs
    <2>2. Strictest(offer[i], Load) <= Strictest(offer[j], Load)
        <3>1. CASE j = i
            BY <3>1, StrictestIs
        <3>2. CASE j # i
            <4>1. Before(i, j, Load)
                BY <1>2, <3>2
            <4> QED BY <4>1, StrictestIs DEF Before
        <3> QED BY <3>1, <3>2
    <2>3. Strictest(offer[i], Load) \in 1..4 /\ Strictest(offer[j], Load) \in 1..4
        BY StrictestIs
    <2> QED BY <2>1, <2>2, <2>3
<1>4. /\ Load' = Load /\ MostHeld' = MostHeld /\ offer' = offer
      /\ \A c, m, len : Clears(c, m, len)' <=> Clears(c, m, len)
    <2>1. cover' = cover /\ order' = order /\ offer' = offer /\ want' = want
        BY <1>1 DEF vars
    <2> QED BY <2>1 DEF Load, EnvelopeLen, VarintLen, MostHeld, Holds, Budget, Positions, Ceiling,
                        Clears, Room, HasLayout, Written, PayloadBits, Markers, Spacing, Clamp,
                        HeaderLen
<1>5. Advised'
    <2>1. CASE Strictest(offer[i], Load) < 4
        <3>1. /\ Strictest(offer[i], Load) \in 1..3
              /\ Clears(offer[i], Strictest(offer[i], Load), Load)
            BY <2>1, StrictestIs
        <3>2. advice'.best = i /\ advice'.mission = Strictest(offer[i], Load) /\ advice'.short = 0
            BY <1>1, <2>1
        <3> HIDE DEF i
        <3> QED BY <1>2, <1>3, <1>4, <3>1, <3>2 DEF Advised
    <2>2. CASE ~(Strictest(offer[i], Load) < 4)
        <3>1. advice'.best = 0 /\ advice'.mission = 0 /\ advice'.short = Load - MostHeld
            BY <1>1, <2>2
        <3>2. \A j \in DOMAIN offer : \A m \in 1..3 : ~Clears(offer[j], m, Load)
            BY <1>3, <2>2, StrictestIs
        <3> HIDE DEF i
        <3> QED BY <1>4, <3>1, <3>2 DEF Advised
    <2> QED BY <2>1, <2>2
<1>6. Question'
    BY <1>1 DEF AdviceInv, Question, vars
<1> QED BY <1>1, <1>5, <1>6 DEF AdviceInv, Taken, vars

\* A candidate taken up is a cover that nobody has measured.
LEMMA TakeUpStarts ==
    ASSUME AdviceInv, NEW i \in DOMAIN offer, NEW b \in BOOLEAN, NEW how, TakeUp(i, b, how)
    PROVE  /\ Init' /\ order \in Orders /\ order' = [order EXCEPT !.conceal = b]
           /\ order'.conceal = b /\ order'.mode # "saturated"
           /\ cover' = offer[i] /\ choice' = how /\ phase' = "probing" /\ secret' = 0
           /\ offer' = offer /\ want' = want /\ advice' = advice /\ advice # NoAdvice
<1>1. /\ phase = "asking" /\ advice # NoAdvice
      /\ cover' = offer[i] /\ order' = [order EXCEPT !.conceal = b] /\ phase' = "probing"
      /\ low' = 0 /\ high' = Room(offer[i], order) /\ choice' = how
      /\ UNCHANGED <<secret, span, rounds, written, offer, want, advice>>
    BY DEF TakeUp
<1>2. /\ order \in Orders /\ secret = 0 /\ span = 0 /\ rounds = 0 /\ written = 0
      /\ order.mode # "saturated" /\ offer \in Offers
    BY <1>1 DEF AdviceInv, Question
<1>3. cover' \in Covers
    BY <1>1, <1>2, AdviceAssumption
<1>4. order' \in Orders /\ order'.conceal = b /\ order'.mode # "saturated"
    BY <1>1, <1>2 DEF Orders
<1>5. high' = Room(cover', order')
    BY <1>1, <1>2, SameRoom
<1>6. Room(cover', order') = Room(cover, order)'
    BY DEF Room, HasLayout, Written, PayloadBits, Markers, Spacing, Clamp, Positions, HeaderLen
<1>7. Covers' = Covers /\ Orders' = Orders
    BY DEF Covers, Orders, Kinds, Modes
<1>8. Init'
    BY <1>1, <1>2, <1>3, <1>4, <1>5, <1>6, <1>7 DEF Init
<1> QED BY <1>1, <1>2, <1>4, <1>8

\* Taking it up keeps what was advised, and what was gone with.
LEMMA TakeUpKeeps ==
    ASSUME AdviceInv, NEW i \in DOMAIN offer, NEW b \in BOOLEAN, NEW how, TakeUp(i, b, how),
           \/ /\ how = "advised" /\ advice.best # 0 /\ i = advice.best
              /\ b <=> advice.mission = 1
           \/ how = "stricter" /\ advice.mission # 1 /\ b
           \/ /\ how = "shorter" /\ advice.short > 0 /\ Remaining > 0 /\ ~b
              /\ Holds(i) = MostHeld
    PROVE  AdviceInv'
<1>1. /\ order \in Orders /\ order' = [order EXCEPT !.conceal = b]
      /\ order'.conceal = b /\ order'.mode # "saturated"
      /\ cover' = offer[i] /\ choice' = how /\ phase' = "probing" /\ secret' = 0
      /\ offer' = offer /\ want' = want /\ advice' = advice /\ advice # NoAdvice
    BY TakeUpStarts
<1>2. Advised /\ offer # <<>> /\ offer \in Offers /\ want \in Wants
    BY <1>1 DEF AdviceInv, Question
<1>3. Advised' /\ MostHeld' = MostHeld /\ Remaining' = Remaining /\ Holds(i)' = Holds(i)
    BY <1>1, <1>2, AdviceStands
<1>4. Question'
    BY <1>1, <1>2 DEF Question
<1>5. Taken'
    <2>1. CASE how = "advised"
        BY <1>1, <2>1 DEF Taken
    <2>2. CASE how = "stricter"
        BY <1>1, <2>2 DEF Taken
    <2>3. CASE how = "shorter"
        <3>1. Holds(i)' = MostHeld'
            BY <1>3, <2>3
        <3>2. (\E k \in DOMAIN offer : cover = offer[k] /\ Holds(k) = MostHeld)'
            BY <1>1, <3>1
        <3> QED BY <1>1, <1>3, <2>3, <3>2 DEF Taken
    <2> QED BY <2>1, <2>2, <2>3
<1> QED BY <1>1, <1>2, <1>3, <1>4, <1>5 DEF AdviceInv

\* Where cover, order and question stay, so do the advice and what it means.
LEMMA SameQuestion ==
    ASSUME UNCHANGED <<cover, order, offer, want, advice, choice>>
    PROVE  /\ Advised' <=> Advised
           /\ Taken' <=> Taken
           /\ Wanted' = Wanted
<1>1. /\ Load' = Load /\ MostHeld' = MostHeld /\ Remaining' = Remaining /\ Wanted' = Wanted
      /\ \A c, m, len : Clears(c, m, len)' <=> Clears(c, m, len)
      /\ \A i : Holds(i)' = Holds(i)
    BY DEF Load, EnvelopeLen, VarintLen, MostHeld, Holds, Budget, Positions, Ceiling, Clears,
           Room, HasLayout, Written, PayloadBits, Markers, Spacing, Clamp, HeaderLen, Remaining,
           Wanted
<1>2. Advised' <=> Advised
    BY <1>1 DEF Advised
<1>3. Taken' <=> Taken
    BY <1>1 DEF Taken
<1> QED BY <1>1, <1>2, <1>3

\* While the cover is measured and composed into, question and advice stand.
LEMMA MeasuringKeeps ==
    ASSUME AdviceInv, UNCHANGED <<cover, order>>, UNCHANGED askvars,
           phase # "asking", phase' # "asking",
           choice = "none" \/ secret' \in {0, secret, Wanted}
    PROVE  AdviceInv'
<1>1. UNCHANGED <<cover, order, offer, want, advice, choice>>
    BY DEF askvars
<1>2. Question'
    BY <1>1 DEF AdviceInv, Question
<1> QED BY <1>1, <1>2, SameQuestion DEF AdviceInv

\* The steps that measure leave cover and order alone.
LEMMA Measuring ==
    ASSUME Internal \/ Again \/ (\E n : Compose(n))
    PROVE  UNCHANGED <<cover, order>> /\ phase # "asking" /\ phase' # "asking"
<1>1. CASE Probe \/ Tell
    BY <1>1 DEF Probe, Tell
<1>2. CASE SpanRound
    BY <1>2 DEF SpanRound
<1>3. CASE Place \/ RefusePlace \/ Again
    BY <1>3 DEF Place, RefusePlace, Again
<1>4. ASSUME NEW n, Compose(n)
      PROVE  UNCHANGED <<cover, order>> /\ phase # "asking" /\ phase' # "asking"
    BY <1>4 DEF Compose
<1> QED BY <1>1, <1>2, <1>3, <1>4 DEF Internal

\* Every step keeps what was advised.
LEMMA AdviceKeeps == AdviceInv /\ [AdviceNext]_<<vars, askvars>> => AdviceInv'
<1>1. SUFFICES ASSUME AdviceInv, [AdviceNext]_<<vars, askvars>> PROVE AdviceInv'
    OBVIOUS
<1>2. CASE (Internal \/ Again) /\ UNCHANGED askvars
    <2>1. secret' \in {0, secret}
        BY <1>2 DEF Internal, Again, Probe, Tell, SpanRound, Place, RefusePlace
    <2> QED BY <1>1, <1>2, <2>1, Measuring, MeasuringKeeps
<1>3. ASSUME offer = <<>>, NEW d \in Around, Compose(low + d), UNCHANGED askvars PROVE AdviceInv'
    <2>1. choice = "none"
        BY <1>1, <1>3 DEF AdviceInv
    <2> QED BY <1>1, <1>3, <2>1, Measuring, MeasuringKeeps
<1>4. CASE Recommend
    BY <1>1, <1>4, RecommendKeeps
<1>5. CASE TakeAdvice
    <2>1. /\ advice.best # 0 /\ advice # NoAdvice
          /\ TakeUp(advice.best, advice.mission = 1, "advised")
        BY <1>5 DEF TakeAdvice, TakeUp
    <2>2. advice.best \in DOMAIN offer
        BY <1>1, <2>1 DEF AdviceInv, Advised
    <2> QED BY <1>1, <2>1, <2>2, TakeUpKeeps
<1>6. ASSUME NEW i \in DOMAIN offer, InsistOnConceal(i) PROVE AdviceInv'
    BY <1>1, <1>6, TakeUpKeeps DEF InsistOnConceal
<1>7. ASSUME NEW i \in DOMAIN offer, CutShort(i) PROVE AdviceInv'
    BY <1>1, <1>7, TakeUpKeeps DEF CutShort
<1>8. CASE ComposeWanted
    <2>1. Compose(Wanted) /\ UNCHANGED askvars
        BY <1>8 DEF ComposeWanted, Wanted
    <2>2. secret' = Wanted
        BY <2>1 DEF Compose
    <2> QED BY <1>1, <2>1, <2>2, Measuring, MeasuringKeeps
<1>9. CASE UNCHANGED <<vars, askvars>>
    <2>1. CASE phase = "asking"
        <3>1. UNCHANGED <<cover, order, phase, low, high, secret, span, rounds, written>>
              /\ UNCHANGED <<offer, want, advice, choice>>
            BY <1>9 DEF vars, askvars
        <3>2. choice = "none"
            BY <1>1, <2>1 DEF AdviceInv, Question
        <3>3. Advised' <=> Advised
            BY <3>1, SameQuestion
        <3> QED BY <1>1, <3>1, <3>2, <3>3 DEF AdviceInv, Question, Taken
    <2>2. CASE phase # "asking"
        <3>1. UNCHANGED <<cover, order, phase, secret>> /\ UNCHANGED askvars
            BY <1>9 DEF vars
        <3> QED BY <1>1, <2>2, <3>1, MeasuringKeeps
    <2> QED BY <2>1, <2>2
<1> QED BY <1>1, <1>2, <1>3, <1>4, <1>5, <1>6, <1>7, <1>8, <1>9 DEF AdviceNext

-----------------------------------------------------------------------------
(* The invariants of FrameSizing, for a candidate that was taken up.       *)

\* What is left of a secret cut short is no longer, and its envelope is shorter
\* by what lacked.
LEMMA RemainingIs ==
    ASSUME want \in Nat
    PROVE  /\ Remaining \in 0..want
           /\ Remaining > 0 => EnvelopeLen(order.seal, Remaining) <= Load - advice.short
<1> DEFINE S == {n \in 0..want : EnvelopeLen(order.seal, n) <= Load - advice.short} \cup {0}
<1>1. S \in SUBSET (0..want) /\ S # {}
    BY SMT
<1>2. Remaining = Max(S)
    BY DEF Remaining, Load
<1>3. Max(S) \in S
    <2> HIDE DEF S
    <2> QED BY <1>1, MaxIs
<1> QED BY <1>1, <1>2, <1>3

\* The first measurement starts as that of a caller who asked for no advice.
LEMMA SizedStart ==
    ASSUME NEW f, NEW r \in Nat
    PROVE  Init => SizingInv /\ FramedInv /\ RoundsInv(f, r)
<1>1. Init => RoundsInv(f, r)
    BY DEF Init, RoundsInv
<1> QED BY <1>1, InitSizing, InitFramed

LEMMA SizedStartNext ==
    ASSUME NEW f, NEW r \in Nat
    PROVE  Init' => (SizingInv /\ FramedInv /\ RoundsInv(f, r))'
<1>1. Init => SizingInv /\ FramedInv /\ RoundsInv(f, r)
    BY SizedStart
<1> QED BY <1>1, PTL

\* What is composed fits the power, advised or not.
LEMMA WantedFits ==
    ASSUME NEW f, NEW r \in Nat, WantsFit(f, r), AdviceInv, choice # "none", order \in Orders
    PROVE  Wanted \in Nat /\ FirstSpan(8 * EnvelopeLen(order.seal, Wanted)) < f[r]
<1>1. want \in Wants /\ want \in Nat /\ order.seal \in Seals
    BY AdviceAssumption DEF AdviceInv, Question, Orders
<1>2. Wanted \in Nat /\ Wanted <= want
    BY <1>1, RemainingIs DEF Wanted
<1> QED BY <1>1, <1>2 DEF WantsFit

\* A step of the measurement keeps them.
LEMMA SizedSteps ==
    ASSUME NEW f, Powers(f), NEW r \in Nat, SizingInv, FramedInv, RoundsInv(f, r),
           \/ Internal \/ Again \/ UNCHANGED vars
           \/ \E n \in Int : Compose(n) /\ FirstSpan(8 * EnvelopeLen(order.seal, n)) < f[r]
    PROVE  (SizingInv /\ FramedInv /\ RoundsInv(f, r))'
<1>1. CASE Probe \/ Tell \/ Place \/ RefusePlace \/ Again \/ UNCHANGED vars
    <2>1. SizingInv'
        BY <1>1, ProbeKeeps, TellKeeps, PlaceKeeps, RefusePlaceKeeps, AgainKeeps, StutterKeeps
    <2>2. FramedInv'
        BY <1>1, ProbeFrames, TellFrames, PlaceFrames, RefusePlaceFrames, AgainFrames,
           StutterFrames
    <2> QED BY <1>1, <2>1, <2>2, OthersRounds
<1>2. CASE SpanRound
    BY <1>2, SpanRoundKeeps, SpanRoundFrames, SpanRoundRounds
<1>3. ASSUME NEW n \in Int, Compose(n), FirstSpan(8 * EnvelopeLen(order.seal, n)) < f[r]
      PROVE  (SizingInv /\ FramedInv /\ RoundsInv(f, r))'
    BY <1>3, ComposeKeeps, ComposeFrames, ComposeRounds
<1> QED BY <1>1, <1>2, <1>3 DEF Internal

\* Every step keeps them once a cover is being measured.
LEMMA SizedKeeps ==
    ASSUME NEW f, Powers(f), NEW r \in Nat, LongestFits(f, r), WantsFit(f, r),
           AdviceInv, Sized(f, r), [AdviceNext]_<<vars, askvars>>
    PROVE  Sized(f, r)'
<1>1. CASE (Internal \/ Again) /\ UNCHANGED askvars
    <2>1. phase # "asking"
        BY <1>1, Measuring
    <2> QED BY <1>1, <2>1, SizedSteps DEF Sized
<1>2. ASSUME NEW d \in Around, Compose(low + d) PROVE Sized(f, r)'
    <2>1. phase # "asking"
        BY <1>2, Measuring
    <2>2. SizingInv /\ FramedInv /\ RoundsInv(f, r)
        BY <2>1 DEF Sized
    <2>3. low + d \in Int
        BY <2>2, CostAssumption DEF SizingInv, TypeOK
    <2> QED BY <1>2, <2>2, <2>3, AroundFits, SizedSteps DEF Sized
<1>3. CASE Recommend
    <2>1. phase' = "asking"
        BY <1>3 DEF Recommend, vars
    <2> QED BY <2>1 DEF Sized
<1>4. ASSUME NEW i \in DOMAIN offer, NEW b \in BOOLEAN, NEW how, TakeUp(i, b, how)
      PROVE  Sized(f, r)'
    BY <1>4, TakeUpStarts, SizedStartNext DEF Sized
<1>5. CASE TakeAdvice
    <2>1. advice.best # 0 /\ advice # NoAdvice /\ TakeUp(advice.best, advice.mission = 1, "advised")
        BY <1>5 DEF TakeAdvice, TakeUp
    <2>2. advice.best \in DOMAIN offer
        BY <2>1 DEF AdviceInv, Advised
    <2> QED BY <1>4, <2>1, <2>2
<1>6. ASSUME NEW i \in DOMAIN offer, InsistOnConceal(i) \/ CutShort(i) PROVE Sized(f, r)'
    BY <1>4, <1>6 DEF InsistOnConceal, CutShort
<1>7. CASE ComposeWanted
    <2>1. Compose(Wanted) /\ choice # "none"
        BY <1>7 DEF ComposeWanted, Wanted
    <2>2. phase # "asking"
        BY <2>1, Measuring
    <2>3. SizingInv /\ FramedInv /\ RoundsInv(f, r)
        BY <2>2 DEF Sized
    <2>4. Wanted \in Int /\ FirstSpan(8 * EnvelopeLen(order.seal, Wanted)) < f[r]
        BY <2>1, <2>3, WantedFits DEF SizingInv, TypeOK
    <2> QED BY <2>1, <2>3, <2>4, SizedSteps DEF Sized
<1>8. CASE UNCHANGED <<vars, askvars>>
    <2>1. UNCHANGED vars /\ phase' = phase
        BY <1>8 DEF vars
    <2> QED BY <2>1, SizedSteps DEF Sized
<1> QED BY <1>1, <1>2, <1>3, <1>5, <1>6, <1>7, <1>8 DEF AdviceNext

\* The invariants of the whole: the advice, and the measurement it leads to.
LEMMA AdviceInvariant ==
    ASSUME NEW f, Powers(f), NEW r \in Nat, LongestFits(f, r), WantsFit(f, r)
    PROVE  AdviceSpec => [](AdviceInv /\ Sized(f, r))
<1>1. AdviceInit => AdviceInv /\ Sized(f, r)
    <2>1. SUFFICES ASSUME AdviceInit PROVE AdviceInv /\ Sized(f, r)
        OBVIOUS
    <2>2. CASE Init /\ offer = <<>>
        <3>1. phase = "probing"
            BY <2>2 DEF Init
        <3> QED BY <2>1, <2>2, <3>1, SizedStart DEF AdviceInit, AdviceInv, Question, Taken, Sized
    <2>3. CASE ~(Init /\ offer = <<>>)
        <3>1. /\ advice = NoAdvice /\ choice = "none" /\ offer \in Offers /\ want \in Wants
              /\ cover = offer[1] /\ order \in {o \in Orders : o.mode # "saturated" /\ ~o.conceal}
              /\ phase = "asking" /\ low = 0 /\ high = 0
              /\ secret = 0 /\ span = 0 /\ rounds = 0 /\ written = 0
            BY <2>1, <2>3 DEF AdviceInit
        <3>2. offer # <<>> /\ cover \in Covers
            BY <3>1, AdviceAssumption
        <3> QED BY <3>1, <3>2 DEF AdviceInv, Question, Taken, Sized
    <2> QED BY <2>2, <2>3
<1>2. AdviceInv /\ Sized(f, r) /\ [AdviceNext]_<<vars, askvars>> => (AdviceInv /\ Sized(f, r))'
    BY AdviceKeeps, SizedKeeps
<1> QED BY <1>1, <1>2, PTL DEF AdviceSpec

-----------------------------------------------------------------------------
(* The advice holds.                                                       *)

\* What is composed on advice is what was wanted, or what was left of it.
LEMMA SettledOnWanted ==
    ASSUME AdviceInv, SizingInv, FramedInv, choice # "none", Settled
    PROVE  /\ secret = Wanted /\ secret > 0 /\ order.mode # "saturated"
           /\ cover \in Covers /\ order \in Orders /\ offer \in Offers /\ want \in Nat
           /\ Envelope \in Nat \ {0} /\ Load \in Nat
           /\ choice # "shorter" => Envelope = Load
<1>1. secret > 0
    <2>1. phase = "placed" => secret > 0
        BY DEF SizingInv, ComposeInv
    <2>2. phase = "refused" => secret > 0
        BY DEF FramedInv, RefusalCause, SpanShape
    <2> QED BY <2>1, <2>2 DEF Settled
<1>2. /\ cover \in Covers /\ order \in Orders /\ offer \in Offers /\ want \in Nat
      /\ order.mode # "saturated" /\ secret \in Nat
    BY AdviceAssumption DEF AdviceInv, Question, SizingInv, TypeOK
<1>3. secret = Wanted
    BY <1>1, <1>2 DEF AdviceInv
<1>4. Envelope \in Nat \ {0} /\ Load \in Nat
    BY <1>1, <1>2, SizesAreNat, EnvelopeGrows, SMT DEF Envelope, Load
<1> QED BY <1>1, <1>2, <1>3, <1>4 DEF Wanted, Envelope, Load

\* What passes the gates, fits the room and can be recorded is placed.
LEMMA PlacedWhereItFits ==
    ASSUME SizingInv, FramedInv, rounds < SpanRounds, Settled,
           PassesGates(Envelope), ~Bounded(cover) \/ Envelope <= Room(cover, order),
           8 * Envelope <= LengthField
    PROVE  phase = "placed"
<1>1. SUFFICES ASSUME phase = "refused" PROVE FALSE
    BY DEF Settled
<1>2. RefusalCause /\ rounds \in Nat
    BY <1>1 DEF FramedInv, SizingInv, TypeOK
<1>3. CASE /\ span > 0 /\ ~(Builds /\ CarrierTakes(BitsToWrite))
           /\ SearchesSpan => PayloadBits(span) >= 8 * Envelope
    BY <1>1, <1>3, RoomIsEnough
<1> QED BY <1>2, <1>3, FrameAssumption DEF RefusalCause

\* The budget of Conceal is its gate.
LEMMA ConcealBudget ==
    ASSUME NEW c \in Covers
    PROVE  Budget(c, 1) = Positions(c) \div 32
<1>1. Positions(c) \in Nat
    <2>1. c.slots \in Nat
        BY CostAssumption DEF Covers
    <2> QED BY <2>1, SMT DEF Positions
<1>2. (Positions(c) * 25) \div 800 = Positions(c) \div 32
    BY <1>1, SMT
<1> QED BY <1>2 DEF Budget, Ceiling

\* The carrier and the mission recommended take the secret.
LEMMA AdvisedIsPlaced ==
    ASSUME AdviceInv, SizingInv, FramedInv, rounds < SpanRounds, Settled,
           8 * Envelope <= LengthField, choice = "advised"
    PROVE  phase = "placed"
<1>1. /\ Envelope = Load /\ cover = offer[advice.best] /\ cover \in Covers
      /\ order.conceal <=> advice.mission = 1
    BY SettledOnWanted DEF AdviceInv, Taken
<1>2. advice.best # 0 /\ Advised
    BY DEF AdviceInv, Taken
<1>3. Load <= Room(cover, order) /\ Load <= Budget(cover, advice.mission)
    BY <1>1, <1>2 DEF Advised, Clears
<1>4. order.conceal => Envelope <= Positions(cover) \div 32
    BY <1>1, <1>3, ConcealBudget
<1> QED BY <1>1, <1>3, <1>4, PlacedWhereItFits DEF PassesGates

\* A secret cut short by what lacks is taken by a candidate that holds the most.
LEMMA ShorterIsPlaced ==
    ASSUME AdviceInv, SizingInv, FramedInv, rounds < SpanRounds, Settled,
           8 * Envelope <= LengthField, choice = "shorter"
    PROVE  phase = "placed"
<1>1. /\ advice.short > 0 /\ Remaining > 0 /\ ~order.conceal /\ Advised
      /\ \E i \in DOMAIN offer : cover = offer[i] /\ Holds(i) = MostHeld
    BY DEF AdviceInv, Taken
<1>2. PICK i \in DOMAIN offer : cover = offer[i] /\ Holds(i) = MostHeld
    BY <1>1
<1>3. /\ cover \in Covers /\ order \in Orders /\ want \in Nat /\ secret = Remaining
      /\ Load \in Nat /\ Envelope \in Nat
    BY SettledOnWanted DEF Wanted
<1>4. advice.short = Load - MostHeld
    BY <1>1 DEF Advised
<1>5. Room(cover, order) \in Nat /\ Budget(cover, 3) \in Nat
    <2>1. Positions(cover) \in Nat /\ Room(cover, order) \in Nat
        BY <1>3, SizesAreNat
    <2>2. (Positions(cover) * 85) \div 800 \in Nat
        BY <2>1, SMT
    <2> QED BY <2>1, <2>2 DEF Budget, Ceiling
<1>6. Holds(i) \in Nat /\ Holds(i) <= Room(cover, order)
    <2> DEFINE S == {Room(cover, order), Budget(cover, 3)}
    <2>1. S \in SUBSET Nat /\ S # {} /\ Room(cover, order) \in S
        BY <1>5
    <2>2. Holds(i) = Min(S)
        BY <1>2 DEF Holds
    <2>3. Min(S) \in S /\ Min(S) <= Room(cover, order)
        <3> HIDE DEF S
        <3> QED BY <2>1, MinIs
    <2> QED BY <2>1, <2>2, <2>3
<1>7. EnvelopeLen(order.seal, Remaining) <= Load - advice.short
    BY <1>1, <1>3, RemainingIs
<1>8. Load - (Load - Holds(i)) = Holds(i)
    BY <1>3, <1>6
<1>9. Envelope <= Room(cover, order)
    <2>1. Envelope <= Holds(i)
        BY <1>2, <1>3, <1>4, <1>7, <1>8 DEF Envelope
    <2> QED BY <1>3, <1>5, <1>6, <2>1
<1> QED BY <1>1, <1>9, PlacedWhereItFits DEF PassesGates

\* Where something else than Conceal was recommended no candidate clears it.
LEMMA NoneClearsConceal ==
    ASSUME AdviceInv, choice = "stricter"
    PROVE  order.conceal /\ ~Clears(cover, 1, Load)
<1>1. /\ order.conceal /\ advice.mission # 1 /\ Advised
      /\ \E i \in DOMAIN offer : cover = offer[i]
    BY DEF AdviceInv, Taken
<1>2. PICK i \in DOMAIN offer : cover = offer[i]
    BY <1>1
<1>3. 1 \in 1..3
    OBVIOUS
<1> QED BY <1>1, <1>2, <1>3 DEF Advised

\* Nothing more discreet than the advice is placed where the cover bounds it.
LEMMA NoneIsMoreDiscreet ==
    ASSUME AdviceInv, SizingInv, FramedInv
    PROVE  NoneMoreDiscreet
<1>1. SUFFICES ASSUME choice = "stricter", Bounded(cover), phase = "placed" PROVE FALSE
    BY DEF NoneMoreDiscreet
<1>2. PassesGates(Envelope)
    BY <1>1 DEF SizingInv, ComposeInv
<1>3. Envelope = Load /\ cover \in Covers /\ order.mode # "saturated"
    BY <1>1, SettledOnWanted DEF Settled
<1>4. order.conceal /\ ~Clears(cover, 1, Load)
    BY <1>1, NoneClearsConceal
<1>5. Load <= Positions(cover) \div 32 /\ Load <= Room(cover, order)
    BY <1>1, <1>2, <1>3, <1>4 DEF PassesGates
<1> QED BY <1>3, <1>4, <1>5, ConcealBudget DEF Clears

\* A frame that leaves less than Conceal lets through carries little beside its
\* own parts, and a header records that much.
LEMMA OverheadIsRecorded ==
    ASSUME NEW c \in Covers, NEW o \in Orders, NEW len \in Nat,
           len <= Positions(c) \div 32, ~(len <= Room(c, o))
    PROVE  8 * len <= LengthField
<1> DEFINE p == Positions(c)
           h == HeaderLen(o.seal)
<1>1. p \in Nat /\ h \in Nat
    BY SizesAreNat
<1>2. LengthField \in Nat /\ PreambleBits \in Nat
    BY FrameAssumption
<1>3. CASE o.mode # "heavy"
    <2>1. ~(len <= IF p \div 8 >= h THEN p \div 8 - h ELSE 0)
        BY <1>3 DEF Room
    <2>2. 8 * h <= LengthField
        BY FieldAssumption DEF HeaderLen
    <2>3. len <= p \div 32
        OBVIOUS
    <2> HIDE DEF p, h
    <2>4. len <= h
        BY <1>1, <2>1, <2>3, SMT
    <2> QED BY <1>1, <1>2, <2>2, <2>4, SMT
<1>4. CASE o.mode = "heavy" /\ ~HasLayout(p)
    <2>1. Written(p) < 2 * PreambleBits + 8 /\ 32 * len <= p
        BY <1>1, <1>2, <1>4, WrittenBounds, SMT DEF HasLayout
    <2>2. p <= Written(p) + 7 /\ Written(p) \in Nat
        BY <1>1, SMT DEF Written
    <2> HIDE DEF p
    <2>3. 8 * len <= 2 * PreambleBits
        <3>1. 32 * len <= 2 * PreambleBits + 14 /\ PreambleBits >= 1
            BY <1>1, <1>2, <2>1, <2>2, FrameAssumption
        <3> QED BY <1>2, <3>1, FrameAssumption, SMT
    <2> QED BY <1>2, <2>3, FieldAssumption
<1>5. CASE o.mode = "heavy" /\ HasLayout(p)
    <2> DEFINE m == MarkerBits * Marked(p)
               w == Written(p)
               free == w - 2 * PreambleBits - m
               pay == free - (free % 8)
    <2>1. m \in Nat /\ 2 * m <= p
        <3>1. Marked(p) \in Nat /\ 2 * m <= p
            BY <1>1, MarkersAreHalf
        <3> QED BY <3>1, FrameAssumption, SMT
    <2>2. p <= w + 7 /\ w \in Nat
        BY <1>1, SMT DEF Written
    <2>3. PayloadBits(p) = pay
        BY DEF PayloadBits, Marked
    <2>4. ~(len <= PayloadBits(p) \div 8)
        BY <1>5 DEF Room
    <2>5. PayloadBits(p) \in Nat
        BY <1>1, <1>5, PayloadIsNat
    <2>6. 32 * len <= p
        BY <1>1, SMT
    <2> HIDE DEF p, m, w
    <2>7. free \in Int
        BY <1>2, <2>1, <2>2
    <2>8. pay >= free - 7 /\ pay % 8 = 0 /\ pay \in Int
        <3> HIDE DEF free
        <3> QED BY <2>7, SMT
    <2>9. pay + 8 <= 8 * len
        <3> HIDE DEF pay
        <3> QED BY <2>3, <2>4, <2>5, <2>8, SMT
    <2>10. 32 * len <= 8 * PreambleBits + 24
        <3> HIDE DEF pay
        <3> QED BY <1>1, <1>2, <2>1, <2>2, <2>6, <2>8, <2>9
    <2>11. 8 * len <= 2 * PreambleBits
        BY <1>2, <2>10, FrameAssumption, SMT
    <2> QED BY <1>2, <2>11, FieldAssumption
<1> QED BY <1>3, <1>4, <1>5

\* The figure shown for Conceal is no more than any candidate's gate lets through.
LEMMA ShownIsBudget ==
    ASSUME offer \in Offers, NEW i \in DOMAIN offer, NEW density \in {1, 10, 25}
    PROVE  Shown(1, density) \in Nat /\ Shown(1, density) <= Positions(offer[i]) \div 32
<1> DEFINE share == Clamp(density, Ranges[1].least, Ranges[1].most)
           S == {(Positions(offer[j]) * share) \div 800 : j \in DOMAIN offer}
<1>1. share \in {5, 10, 25}
    BY DEF Clamp, Ranges
<1>2. ASSUME NEW j \in DOMAIN offer
      PROVE  /\ (Positions(offer[j]) * share) \div 800 \in Nat
             /\ (Positions(offer[j]) * share) \div 800 <= Positions(offer[j]) \div 32
    <2>1. offer[j] \in Covers
        BY AdviceAssumption
    <2>2. offer[j].slots \in Nat
        BY <2>1, CostAssumption DEF Covers
    <2>3. Positions(offer[j]) \in Nat
        BY <2>2, SMT DEF Positions
    <2> HIDE DEF share
    <2> QED BY <1>1, <2>3, SMT
<1>3. S \in SUBSET Nat /\ (Positions(offer[i]) * share) \div 800 \in S
    BY <1>2
<1>4. Shown(1, density) = Min(S)
    BY DEF Shown
<1>5. Min(S) \in Nat /\ Min(S) <= (Positions(offer[i]) * share) \div 800
    <2> DEFINE x == (Positions(offer[i]) * share) \div 800
    <2>1. S \in SUBSET Nat /\ x \in S
        BY <1>3
    <2> HIDE DEF S, x
    <2>2. S # {}
        BY <2>1
    <2>3. Min(S) \in S /\ Min(S) <= x
        BY <2>1, <2>2, MinIs
    <2> QED BY <2>1, <2>3 DEF x
<1>6. Positions(offer[i]) \div 32 \in Int
    <2>1. offer[i] \in Covers
        BY AdviceAssumption
    <2>2. offer[i].slots \in Nat
        BY <2>1, CostAssumption DEF Covers
    <2> QED BY <2>2, SMT DEF Positions
<1> HIDE DEF S
<1>7. (Positions(offer[i]) * share) \div 800 \in Nat
      /\ (Positions(offer[i]) * share) \div 800 <= Positions(offer[i]) \div 32
    BY <1>2
<1> DEFINE x == (Positions(offer[i]) * share) \div 800
           y == Positions(offer[i]) \div 32
<1>8. x \in Nat /\ y \in Int /\ x <= y /\ Min(S) \in Nat /\ Min(S) <= x
    BY <1>5, <1>6, <1>7
<1> HIDE DEF x, y
<1>9. Min(S) <= y
    BY <1>8
<1> QED BY <1>4, <1>8, <1>9 DEF y

\* The bytes shown for Conceal are taken under it.
LEMMA ShownTaken ==
    ASSUME AdviceInv, SizingInv, FramedInv, rounds < SpanRounds
    PROVE  ShownIsTaken
<1>1. SUFFICES ASSUME Settled, choice = "stricter",
                      Bounded(cover) => Envelope <= Room(cover, order),
                      NEW density \in {1, 10, 25}, Envelope <= Shown(1, density)
               PROVE  phase = "placed"
    BY DEF ShownIsTaken
<1>2. /\ cover \in Covers /\ order \in Orders /\ offer \in Offers
      /\ Envelope \in Nat /\ Envelope = Load
    BY <1>1, SettledOnWanted
<1>3. PICK i \in DOMAIN offer : cover = offer[i]
    BY <1>1 DEF AdviceInv, Taken
<1>4. Positions(cover) \in Nat /\ Positions(cover) \div 32 \in Nat
    <2>1. Positions(cover) \in Nat
        BY <1>2, SizesAreNat
    <2> QED BY <2>1, SMT
<1>5. Envelope <= Positions(cover) \div 32
    BY <1>1, <1>2, <1>3, <1>4, ShownIsBudget
<1>6. ~(Envelope <= Room(cover, order))
    BY <1>1, <1>2, <1>5, NoneClearsConceal, ConcealBudget DEF Clears
<1>7. 8 * Envelope <= LengthField
    BY <1>2, <1>5, <1>6, OverheadIsRecorded
<1> QED BY <1>1, <1>5, <1>6, <1>7, PlacedWhereItFits DEF PassesGates

-----------------------------------------------------------------------------
(* The theorems.                                                           *)

\* What is recommended holds: the carrier and the mission recommended take the
\* secret, what is cut by the shortfall named is taken, no candidate the cover
\* bounds takes it under Conceal where something else was recommended, and the
\* bytes shown for Conceal are bytes its gate lets through, for every list of
\* candidates, cipher, frame and secret (recommend_framed, mission_capacity,
\* encode_for_mission_framed).  The span search needs its rounds, as in
\* SpanStaysSmallest.
THEOREM AdviceStaysBest ==
    ASSUME NEW f, Powers(f), NEW r \in Nat, LongestFits(f, r), WantsFit(f, r),
           r + 11 <= SpanRounds
    PROVE  AdviceSpec => []AdviceIsBest
<1>1. AdviceInv /\ Sized(f, r) => AdviceIsBest
    <2>1. SUFFICES ASSUME AdviceInv, Sized(f, r) PROVE AdviceIsBest
        OBVIOUS
    <2>2. CASE phase = "asking"
        BY <2>2 DEF AdviceIsBest, AdviceIsKept, NoneMoreDiscreet, ShownIsTaken, Settled
    <2>3. CASE phase # "asking"
        <3>1. SizingInv /\ FramedInv /\ RoundsInv(f, r)
            BY <2>1, <2>3 DEF Sized
        <3>2. rounds < SpanRounds
            BY <3>1, FrameAssumption DEF SizingInv, TypeOK, RoundsInv
        <3>3. AdviceIsKept
            BY <2>1, <3>1, <3>2, AdvisedIsPlaced, ShorterIsPlaced DEF AdviceIsKept
        <3> QED BY <2>1, <3>1, <3>2, <3>3, NoneIsMoreDiscreet, ShownTaken DEF AdviceIsBest
    <2> QED BY <2>2, <2>3
<1> QED BY <1>1, AdviceInvariant, PTL

\* A caller who takes advice, leaves it aside or cuts the secret short gets from
\* the engine all that a caller gets who asks for none: the report is true and
\* exact, the span the smallest, and what is placed stands (carrier_capacity,
\* minimum_span, place_layer).
THEOREM AdvisedAreServedAlike ==
    ASSUME NEW f, Powers(f), NEW r \in Nat, LongestFits(f, r), WantsFit(f, r),
           r + 11 <= SpanRounds
    PROVE  AdviceSpec => [](ReportIsTrue /\ BeyondReportRefused /\ SpanIsSmallest /\ FrameStands)
<1>1. AdviceInv /\ Sized(f, r)
        => ReportIsTrue /\ BeyondReportRefused /\ SpanIsSmallest /\ FrameStands
    <2>1. SUFFICES ASSUME AdviceInv, Sized(f, r)
                   PROVE  ReportIsTrue /\ BeyondReportRefused /\ SpanIsSmallest /\ FrameStands
        OBVIOUS
    <2>2. CASE phase = "asking"
        <3>1. secret = 0 /\ span = 0 /\ written = 0 /\ low = 0
            BY <2>1, <2>2 DEF AdviceInv, Question
        <3> QED BY <2>2, <3>1 DEF ReportIsTrue, ReportedIsPlaced, ZeroIsExplained, Settled,
                                  BeyondReportRefused, SpanIsSmallest, FrameStands, WritesFit,
                                  ReaderSeesTheLayout
    <2>3. CASE phase # "asking"
        <3>1. SizingInv /\ FramedInv /\ RoundsInv(f, r)
            BY <2>1, <2>3 DEF Sized
        <3>2. rounds < SpanRounds
            BY <3>1, FrameAssumption DEF SizingInv, TypeOK, RoundsInv
        <3> QED BY <3>1, <3>2, PastReport, ReportTrue, SpanExact, Fits, SeenAsWritten
               DEF SpanIsSmallest, SpanIsExact, FrameStands
    <2> QED BY <2>2, <2>3
<1> QED BY <1>1, AdviceInvariant, PTL
=============================================================================
