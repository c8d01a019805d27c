---------------------------- MODULE FrameSizing ----------------------------
(***************************************************************************)
(* How large a secret fits: the capacity report of stegano-core and the    *)
(* sizing of the frame that compose then writes (pipeline.rs, format/).    *)
(* One cover is measured by the search of carrier_capacity; secrets of     *)
(* lengths around the reported figure are then composed into it, through   *)
(* the gates, the span search of the heavy frame and the builders.         *)
(* Lengths are bytes, spans and positions are bits.                        *)
(***************************************************************************)
EXTENDS Integers, FiniteSets

CONSTANTS
    PreambleBits,   \* one preamble replica of the heavy frame
    MarkerBits,     \* one resync marker
    MinSpacing,     \* MIN_MARKER_SPACING
    MaxSpacing,     \* MAX_MARKER_SPACING
    HeaderPlain,    \* header bytes of a light frame without a salt
    HeaderSealed,   \* header bytes of a light frame with one
    LengthField,    \* the largest payload_bits a header records
    SpanRounds,     \* SPAN_SEARCH_ROUNDS
    Seals,          \* [chain, growth, keyed]: what each cipher choice costs
    Slots,          \* slot counts of the covers
    Around          \* bound: composed lengths, relative to the reported figure

Kinds == {"overflowing", "delimited", "rewriting"}
Modes == {"light", "heavy", "saturated"}

ASSUME FrameAssumption ==
    /\ PreambleBits \in Nat \ {0} /\ PreambleBits % 8 = 0
    /\ MarkerBits \in Nat \ {0}
    /\ MinSpacing \in Nat /\ MaxSpacing \in Nat
    /\ MarkerBits <= MinSpacing /\ MinSpacing <= MaxSpacing
    /\ HeaderPlain \in Nat /\ HeaderSealed \in Nat
    /\ LengthField \in Nat /\ SpanRounds \in Nat

\* Markers are whole bytes and never nearer than twice their width.
ASSUME MarkerAssumption == MarkerBits % 8 = 0 /\ 2 * MarkerBits <= MinSpacing

ASSUME CostAssumption ==
    /\ Seals \subseteq [chain : Nat, growth : Nat, keyed : BOOLEAN]
    /\ Slots \subseteq Nat
    /\ Around \subseteq Int

-----------------------------------------------------------------------------
(* The layout of a heavy frame over n positions.                           *)

Clamp(x, lo, hi) == IF x < lo THEN lo ELSE IF x > hi THEN hi ELSE x

Spacing(n) == Clamp(n \div 8, MinSpacing, MaxSpacing)

\* The positions a carrier writes: whole bytes.
Written(n) == n - (n % 8)

\* Room for both replicas and one byte; never one replica dropped.
HasLayout(n) == Written(n) >= 2 * PreambleBits + 8

\* The offsets of the resync markers: multiples of the spacing that lie whole
\* between the replicas.
Markers(n) ==
    {m \in {k * Spacing(n) : k \in 1..(n \div Spacing(n))} :
        PreambleBits <= m /\ m + MarkerBits <= Written(n) - PreambleBits}

\* What the markers leave of the region between the replicas, in whole bytes.
PayloadBits(n) ==
    LET free == Written(n) - 2 * PreambleBits - MarkerBits * Cardinality(Markers(n))
    IN free - (free % 8)

-----------------------------------------------------------------------------
(* What an envelope costs, and the room a frame leaves for it.             *)

\* The length prefix of the payload grows at the varint boundaries.
VarintLen(n) == IF n < 128 THEN 1 ELSE IF n < 16384 THEN 2 ELSE 3

EnvelopeLen(seal, secret) ==
    seal.chain + VarintLen(secret + seal.growth) + secret + seal.growth

HeaderLen(seal) == IF seal.keyed THEN HeaderSealed ELSE HeaderPlain

\* Slip: the delimiters are not deducted.
SlipPositions(c) == IF c.kind = "delimited" THEN 8 * (c.slots \div 8) ELSE c.slots

\* A carrier that delimits its bytes writes nine characters for eight bits.
Positions(c) ==
    IF c.kind # "delimited" THEN c.slots
    ELSE IF c.slots < 8 THEN 0
    ELSE 8 * ((c.slots + 1) \div 9)

\* The characters it takes to write that many bits.
SlotsUsed(c, bits) ==
    IF c.kind = "delimited" /\ bits > 0 THEN bits + bits \div 8 - 1 ELSE bits

\* The one kind of carrier that extends the document instead of refusing.
Bounded(c) == c.kind # "overflowing"

\* framed_room: envelope bytes the cover's positions hold under the frame.
Room(c, o) ==
    IF o.mode = "heavy"
    THEN IF HasLayout(Positions(c)) THEN PayloadBits(Positions(c)) \div 8 ELSE 0
    ELSE IF Positions(c) \div 8 >= HeaderLen(o.seal)
         THEN Positions(c) \div 8 - HeaderLen(o.seal) ELSE 0

-----------------------------------------------------------------------------
VARIABLES
    cover,      \* [kind, slots]: the carrier and what the cover offers it
    order,      \* [seal, mode, conceal]: the cipher, the placement, the mission
    phase,      \* where the measurement or the compose is
    low, high,  \* the interval of the capacity search; low is what it reports
    secret,     \* the length being composed
    span,       \* positions the frame is sized to
    rounds,     \* rounds of the span search
    written     \* positions written, 0 before

vars == <<cover, order, phase, low, high, secret, span, rounds, written>>

Covers == [kind : Kinds, slots : Slots]

\* Saturation takes no mission.
Orders == {o \in [seal : Seals, mode : Modes, conceal : BOOLEAN] :
             o.mode = "saturated" => ~o.conceal}

Phases == {"probing", "told", "spanning", "building", "placed", "refused"}

TypeOK ==
    /\ cover \in Covers
    /\ order \in Orders
    /\ phase \in Phases
    /\ low \in Nat /\ high \in Nat
    /\ secret \in Nat /\ span \in Nat /\ rounds \in Nat /\ written \in Nat

Init ==
    /\ cover \in Covers
    /\ order \in Orders
    /\ phase = "probing"
    /\ low = 0 /\ high = Room(cover, order)
    /\ secret = 0 /\ span = 0 /\ rounds = 0 /\ written = 0

-----------------------------------------------------------------------------
(* carrier_capacity: the largest secret whose envelope fits.               *)

\* Slip: the middle is rounded down.
SlipMiddle == low + (high - low) \div 2

Middle == low + (high - low + 1) \div 2

Probe ==
    /\ phase = "probing" /\ low < high
    /\ IF EnvelopeLen(order.seal, Middle) <= Room(cover, order)
       THEN low' = Middle /\ UNCHANGED high
       ELSE high' = Middle - 1 /\ UNCHANGED low
    /\ UNCHANGED <<cover, order, phase, secret, span, rounds, written>>

Tell ==
    /\ phase = "probing" /\ low = high
    /\ phase' = "told"
    /\ UNCHANGED <<cover, order, low, high, secret, span, rounds, written>>

\* Why the surfaces say a report is zero.
ZeroReason ==
    IF low > 0 THEN "none"
    ELSE IF ~Bounded(cover) THEN "extends"
    ELSE IF Positions(cover) = 0 THEN "no position"
    ELSE IF Positions(cover) < 8 THEN "no byte"
    ELSE IF Room(cover, order) = 0 THEN "no frame"
    ELSE "no room"

-----------------------------------------------------------------------------
(* encode_for_mission_framed and encode_saturated on a free channel.       *)

Envelope == EnvelopeLen(order.seal, secret)

\* Slip: a load that fills the room is refused.
SlipPassesGates(len) ==
    order.mode # "saturated" =>
        /\ order.conceal => len <= Positions(cover) \div 32
        /\ Bounded(cover) => len < Room(cover, order)

\* The gates asked before any text is produced: a quarter of the positions
\* under Conceal, and the room where the cover bounds the carrier.  Saturation
\* asks neither.
PassesGates(len) ==
    order.mode # "saturated" =>
        /\ order.conceal => len <= Positions(cover) \div 32
        /\ Bounded(cover) => len <= Room(cover, order)

\* Slip: a marker is reckoned with at every minimum spacing.
SlipFirstSpan(bits) == 2 * PreambleBits + bits + MarkerBits * (1 + bits \div MinSpacing)

FirstSpan(bits) == 2 * PreambleBits + bits

LightBits(len) == 8 * (HeaderLen(order.seal) + len)

\* A carrier that creates its positions spans what it places; one that rewrites
\* visible text reads every position back, so it frames the whole cover.
SearchesSpan == order.mode = "heavy" /\ cover.kind # "rewriting"

Compose(n) ==
    /\ phase = "told" /\ n > 0
    /\ secret' = n
    /\ LET len == EnvelopeLen(order.seal, n) IN
        \/ /\ ~PassesGates(len)
           /\ phase' = "refused"
           /\ UNCHANGED span
        \/ /\ PassesGates(len) /\ SearchesSpan
           /\ phase' = "spanning"
           /\ span' = FirstSpan(8 * len)
        \/ /\ PassesGates(len) /\ ~SearchesSpan
           /\ phase' = "building"
           /\ span' = IF order.mode = "heavy" THEN Positions(cover) ELSE LightBits(len)
    /\ UNCHANGED <<cover, order, low, high, rounds, written>>

\* minimum_span: what is short at this span is added to it, for so many rounds.
SpanRound ==
    /\ phase = "spanning"
    /\ IF PayloadBits(span) >= 8 * Envelope
       THEN phase' = "building" /\ UNCHANGED <<span, rounds>>
       ELSE /\ span' = span + (8 * Envelope - PayloadBits(span))
            /\ rounds' = rounds + 1
            /\ phase' = IF rounds + 1 = SpanRounds THEN "refused" ELSE "spanning"
    /\ UNCHANGED <<cover, order, low, high, secret, written>>

\* The builders refuse what their length field or layout cannot hold.
Builds ==
    /\ 8 * Envelope <= LengthField
    /\ order.mode = "heavy" => HasLayout(span) /\ 8 * Envelope <= PayloadBits(span)

\* Saturation repeats the frame as often as it fits whole, once at least.
Copies ==
    IF order.mode = "saturated" /\ span <= Positions(cover)
    THEN Positions(cover) \div span ELSE 1

BitsToWrite == Copies * Written(span)

\* Slip: the delimiters are forgotten when the slots are counted.
SlipCarrierTakes(bits) == Bounded(cover) => bits <= cover.slots

\* A carrier the cover bounds refuses one bit too many.
CarrierTakes(bits) == Bounded(cover) => bits <= Positions(cover)

Place ==
    /\ phase = "building"
    /\ Builds /\ CarrierTakes(BitsToWrite)
    /\ phase' = "placed"
    /\ written' = BitsToWrite
    /\ UNCHANGED <<cover, order, low, high, secret, span, rounds>>

RefusePlace ==
    /\ phase = "building"
    /\ ~(Builds /\ CarrierTakes(BitsToWrite))
    /\ phase' = "refused"
    /\ UNCHANGED <<cover, order, low, high, secret, span, rounds, written>>

\* The next secret for the same cover, which the last compose left untouched.
Again ==
    /\ phase \in {"placed", "refused"}
    /\ phase' = "told"
    /\ secret' = 0 /\ span' = 0 /\ rounds' = 0 /\ written' = 0
    /\ UNCHANGED <<cover, order, low, high>>

Internal == Probe \/ Tell \/ SpanRound \/ Place \/ RefusePlace

Next ==
    \/ Internal
    \/ \E d \in Around : Compose(low + d)
    \/ Again

\* The loops of the code run to their end once entered.
Spec == Init /\ [][Next]_vars /\ WF_vars(Internal)

-----------------------------------------------------------------------------
(* Properties.                                                             *)

Settled == phase \in {"placed", "refused"}

\* Every length the header can record.
Recordable == 8 * EnvelopeLen(order.seal, low) <= LengthField

\* Outside Conceal a secret of the reported length or less is placed, whatever
\* the carrier and the frame (pipeline.rs capacity, encode_for_mission_framed,
\* minimum_span, place_layer).
ReportedIsPlaced ==
    Settled /\ ~order.conceal /\ Recordable /\ secret <= low => phase = "placed"

\* A report of zero is explained by a document that would be extended exactly
\* where a secret is placed all the same; any other reason means a refusal
\* (capacity_zero_reason of the three surfaces).
ZeroIsExplained ==
    Settled /\ low = 0 /\ ~order.conceal /\ 8 * EnvelopeLen(order.seal, secret) <= LengthField =>
        (ZeroReason = "extends" <=> phase = "placed")

\* The report and the reason given with a zero are what compose does.
ReportIsTrue == ReportedIsPlaced /\ ZeroIsExplained

\* Where the cover bounds the carrier, one byte past the report is refused,
\* under every mission and every placement (pipeline.rs, cover_bounds_writes:
\* "one byte more is refused").
BeyondReportRefused ==
    Bounded(cover) /\ secret > low => phase # "placed"

\* The span search ends on the smallest frame that holds the payload, well
\* inside its rounds, and never outgrows a cover whose gate let it through
\* although the room of a heavy frame is not monotone in its span (minimum_span).
SpanIsSmallest ==
    SearchesSpan /\ span > 0 =>
        /\ rounds < SpanRounds
        /\ \A n \in (2 * PreambleBits)..(span - 1) : PayloadBits(n) < 8 * Envelope
        /\ Bounded(cover) => span <= Positions(cover)

\* Replicas, markers and payload of a heavy frame keep to positions of their own.
LayoutIsDisjoint(n) ==
    HasLayout(n) =>
        /\ \A m \in Markers(n) :
            /\ PreambleBits <= m
            /\ m + MarkerBits <= Written(n) - PreambleBits
            /\ \A k \in Markers(n) : m < k => m + MarkerBits <= k
        /\ PayloadBits(n) >= 0

\* What is written fits the slots the cover has, delimiters included, wherever
\* the cover bounds the carrier, and no region of a heavy frame runs into
\* another (WhitespaceVar::capacity, place_sequence, Layout::for_positions).
WritesFit ==
    written > 0 =>
        /\ Bounded(cover) => SlotsUsed(cover, written) <= cover.slots
        /\ order.mode = "heavy" => LayoutIsDisjoint(span)

\* No two regions of a heavy frame overlap, written or only laid out
\* (Layout::for_positions).
RegionsDisjoint == LayoutIsDisjoint(Positions(cover)) /\ LayoutIsDisjoint(span)

\* The reader counts the positions it finds and lays the same frame over them
\* that the writer did, so it looks for every region where it was written
\* (place_layer, frame.rs read: the layout derives from the length alone).
ReaderSeesTheLayout ==
    order.mode = "heavy" /\ phase = "placed" =>
        LET seen == IF cover.kind = "rewriting" THEN Positions(cover) ELSE written IN
        /\ HasLayout(seen)
        /\ Written(seen) = Written(span)
        /\ Markers(seen) = Markers(span)

\* A cover is always measured: the bisection never stands still between two lengths
\* (carrier_capacity: "this terminates in the width of the frame in bits").  And a
\* compose is always answered, which the bound on the rounds of minimum_span sees to.
SearchEnds == <>(phase # "probing") /\ [](phase = "spanning" => <>Settled)

\* The document placed is the document read back: it fits its slots and is looked
\* for where it was put (place_layer, Layout::for_positions).
FrameStands == WritesFit /\ ReaderSeesTheLayout

\* "Where the mission is concealment, the document must stay under its density
\* ceiling" (pipeline.rs:1100), a quarter of the positions, one mark a position.
ConcealStaysUnder ==
    phase = "placed" /\ order.conceal /\ cover.kind = "overflowing" =>
        4 * written <= Positions(cover)

\* "`encode` accepts exactly `secret_bytes` and refuses one byte more"
\* (pipeline.rs:463), on every cover.
EncodeAcceptsReported ==
    Settled /\ ~order.conceal /\ 0 < secret /\ secret <= low => phase = "placed"

=============================================================================
