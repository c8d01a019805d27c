------------------------------- MODULE Carriers -------------------------------
(***************************************************************************)
(* The four carriers of stegano-core over one document: where each may     *)
(* write, what it reads back, what it takes for its own work and removes.  *)
(* A document is a sequence of characters, told apart as far as the        *)
(* carriers tell them apart.  Regions and gaps use the coordinates of the  *)
(* code: gap k lies after the first k characters, a region <<from, to>>    *)
(* holds the characters between gap from and gap to.                       *)
(***************************************************************************)
EXTENDS Integers, FiniteSets, Sequences, SequencesExt

CONSTANT ByteBits    \* bits of a byte: 8 in the code

ASSUME ByteBitsAssumption == ByteBits \in Nat \ {0}

-----------------------------------------------------------------------------
(* Characters.                                                             *)

\* Beyond ASCII: Latin letters and symbols that Windows-1252 knows.
HighLatin == {"accent", "lead", "sign", "curl", "hat"}
HighSymbols == {"cont", "euro", "angle"}

\* A Latin letter with a lookalike, any other Latin letter, a lookalike, and a
\* Cyrillic letter that resembles none.
LatinLetters == {"twin", "latin"} \cup HighLatin
Letters == LatinLetters \cup {"alike", "cyrillic"}
Visible == Letters \cup HighSymbols \cup {"space", "star", "tick", "dollar", "newline"}

Bit0 == [zero_width |-> "zw0", whitespace_var |-> "ws0", bidi |-> "bd0"]
Bit1 == [zero_width |-> "zw1", whitespace_var |-> "ws1", bidi |-> "bd1"]
Delim == [whitespace_var |-> "ws,", bidi |-> "bd,"]
Spare == [whitespace_var |-> "ws+", bidi |-> "bd+"]

Delimiting == DOMAIN Delim
Inserting == DOMAIN Bit0
Carrier == Inserting \cup {"homoglyph"}

\* What a carrier finds a cover occupied by; for the homoglyphs, only the side
\* of the map that is not written over.
Occupying(c) ==
    IF c = "homoglyph" THEN {"alike"}
    ELSE {Bit0[c], Bit1[c]} \cup (IF c \in Delimiting THEN {Delim[c]} ELSE {})

\* What strip removes: of two carriers also kindred characters it never writes.
Removable(c) == Occupying(c) \cup (IF c \in Delimiting THEN {Spare[c]} ELSE {})

Marks == UNION {Removable(c) : c \in Inserting}
FormatControl == Marks \cup {"joiner"}
Symbols == Visible \cup FormatControl

\* The elements of a sequence that are in a set, in their order.
Only(d, S) ==
    LET kept[i \in 0..Len(d)] ==
            IF i = 0 THEN <<>>
            ELSE IF d[i] \in S THEN Append(kept[i - 1], d[i]) ELSE kept[i - 1]
    IN  kept[Len(d)]

\* And those that are not.
Free(d, S) == Only(d, Range(d) \ S)

Skeleton(d) == Free(d, FormatControl)
Has(d, S) == \E i \in DOMAIN d : d[i] \in S

\* The positions of a document that are in a set, from the first.
Ascending(d, S) == Only([i \in DOMAIN d |-> i], S)

Rank(S, x) == Cardinality({y \in S : y <= x})

-----------------------------------------------------------------------------
(* Protected regions.                                                      *)

\* Lines, without their newline; a last line that is empty is none.
Lines(d) ==
    LET breaks == {i \in DOMAIN d : d[i] = "newline"}
        stop(from) == Min({e - 1 : e \in {e \in breaks : e > from}} \cup {Len(d)})
    IN  {<<from, stop(from)>> : from \in ({0} \cup breaks) \ {Len(d)}}

\* A line whose first characters but spaces are three ticks.
Fenced(d, line) ==
    \E c \in line[1]..(line[2] - 3) :
        /\ \A i \in (line[1] + 1)..c : d[i] = "space"
        /\ \A i \in (c + 1)..(c + 3) : d[i] = "tick"

\* A fence runs from an odd fence line to the next one, or to the end.
FenceRegions(d) ==
    LET fences == {l \in Lines(d) : Fenced(d, l)}
        opening == {l \in fences : Cardinality({m \in fences : m[1] < l[1]}) % 2 = 0}
        later(l) == {m[1] : m \in {m \in fences : m[1] > l[1]}}
        end(l) == IF later(l) = {} THEN Len(d) ELSE Min(later(l))
    IN  {<<l[2] + 1, end(l)>> :
            l \in {o \in opening : later(o) # {} \/ o[2] + 1 < Len(d)}}

\* Outside the fences, the ticks of a line pair up as they come.
InlineRegions(d) ==
    LET fences == {l \in Lines(d) : Fenced(d, l)}
        plain == {l \in Lines(d) \ fences :
                    Cardinality({m \in fences : m[1] < l[1]}) % 2 = 0}
        ticks(l) == Ascending(d, {i \in (l[1] + 1)..l[2] : d[i] = "tick"})
    IN  UNION {{<<ticks(l)[2 * k - 1], ticks(l)[2 * k] - 1>> :
                    k \in 1..(Len(ticks(l)) \div 2)} : l \in plain}

\* Equations between dollars, doubled or single; a single one opens before no
\* space and closes after none.  (The bracketed delimiters go as the doubled
\* dollars do.)
MathRegions(d) ==
    LET n == Len(d)
        loose == {"space", "newline"}
        dollar(i) == i \in 1..n /\ d[i] = "dollar"
        doubled(i) == {j \in i..(n - 1) : dollar(j) /\ dollar(j + 1)}
        single(i) == {j \in i..n : dollar(j) /\ \A k \in i..(j - 1) : ~dollar(k)}
        closes(i) == {j \in single(i + 1) : d[i + 1] \notin loose /\ d[j - 1] \notin loose}
        from[i \in 1..(n + 2)] ==
            IF i > n THEN {}
            ELSE IF dollar(i) /\ dollar(i + 1)
            THEN IF doubled(i + 2) = {} THEN from[i + 2]
                 ELSE LET j == Min(doubled(i + 2))
                      IN  {r \in {<<i + 1, j - 1>>} : j > i + 2} \cup from[j + 2]
            ELSE IF dollar(i) /\ closes(i) # {}
            THEN LET j == Min(closes(i)) IN {<<i, j - 1>>} \cup from[j + 1]
            ELSE from[i + 1]
    IN  from[1]

\* A document as far as regions go: everything else is like any letter.
Outline(d) ==
    [i \in DOMAIN d |->
        IF d[i] \in {"newline", "space", "tick", "dollar"} THEN d[i] ELSE "latin"]

\* protected_regions: code and equations.
Regions(d) ==
    LET o == Outline(d)
    IN  IF Has(o, {"tick", "dollar"})
        THEN FenceRegions(o) \cup InlineRegions(o) \cup MathRegions(o) ELSE {}

\* code_character_flags: the characters inside one.
Inside(d) ==
    LET regions == Regions(d)
    IN  {i \in DOMAIN d : \E r \in regions : r[1] < i /\ i <= r[2]}

-----------------------------------------------------------------------------
(* Where an inserting carrier may write.                                   *)

\* Slip: a region is taken half-open, as the metric takes it.
SlipWritableGaps(d) ==
    LET regions == Regions(d)
    IN  {k \in 0..Len(d) :
            /\ k \in {0, Len(d)} \/ ~({d[k], d[k + 1]} \subseteq Letters)
            /\ \A r \in regions : ~(r[1] <= k /\ k < r[2])}

\* The gaps at a word boundary and clear of every region, its edges included.
WritableGaps(d) ==
    LET regions == Regions(d)
    IN  {k \in 0..Len(d) :
            /\ k \in {0, Len(d)} \/ ~({d[k], d[k + 1]} \subseteq Letters)
            /\ \A r \in regions : ~(r[1] <= k /\ k <= r[2])}

\* Slip: counted over the document as it stands.
SlipBoundarySlots(d) == Cardinality(WritableGaps(d))

\* What the cover offers, counted without any format control.
BoundarySlots(d) == Cardinality(WritableGaps(Skeleton(d)))

\* One character per gap, in order; what is left goes after the last.
PlacedAtBoundaries(d, seq) ==
    LET gaps == WritableGaps(d) \ {Len(d)}
        at(k) == IF k \in gaps /\ Rank(gaps, k) <= Len(seq)
                 THEN <<seq[Rank(gaps, k)]>> ELSE <<>>
    IN  FlattenSeq([i \in DOMAIN d |-> at(i - 1) \o <<d[i]>>])
        \o SubSeq(seq, Cardinality(gaps) + 1, Len(seq))

-----------------------------------------------------------------------------
(* A carrier's own work.                                                   *)

\* document_script: Latin or Cyrillic letters and none of the other kind, the
\* lookalikes being no evidence.
LatinDocument(d) == Has(d, LatinLetters) /\ ~Has(d, {"cyrillic"})

\* The run of letters around a letter.
Run(d, i) ==
    {j \in DOMAIN d : \A k \in (IF i < j THEN i..j ELSE j..i) : d[k] \in Letters}

\* The word decides, and where it is all lookalikes the document.
MarkedRun(d, run) ==
    /\ \A j \in run : d[j] # "cyrillic"
    /\ (\E j \in run : d[j] \in LatinLetters) \/ LatinDocument(d)

\* attribute: the lookalikes the carrier can show it put there.
Attributed(d) == {i \in DOMAIN d : d[i] = "alike" /\ MarkedRun(d, Run(d, i))}

\* The letters that carry bits, whatever they are attributed to.
Places(d) == {i \in DOMAIN d : d[i] \in {"twin", "alike"}} \ Inside(d)

-----------------------------------------------------------------------------
(* Writing and reading.                                                    *)

BitChar(c, b) == IF b = 1 THEN Bit1[c] ELSE Bit0[c]

\* bits_to_ws, bits_to_bidi: a delimiter between bytes.
Sequenced(c, bits) ==
    FlattenSeq([i \in DOMAIN bits |->
        (IF c \in Delimiting /\ i > 1 /\ (i - 1) % ByteBits = 0
         THEN <<Delim[c]>> ELSE <<>>)
        \o <<BitChar(c, bits[i])>>])

\* capacity of a delimiting carrier: whole bytes, and a delimiter between two.
Spanned(slots) ==
    IF slots < ByteBits THEN 0 ELSE ((slots + 1) \div (ByteBits + 1)) * ByteBits

\* positions: what the carrier offers in this document.
Positions(c, d) ==
    IF c = "homoglyph" THEN Cardinality(Places(d))
    ELSE IF c \in Delimiting THEN Spanned(BoundarySlots(d))
    ELSE BoundarySlots(d)

\* check_writable
Writable(c, d) == ~Has(d, Occupying(c))

\* The gates of write_positions; the zero-width carrier overflows instead.
Accepts(c, d, bits) ==
    /\ Writable(c, d)
    /\ c = "zero_width" \/ Len(bits) <= Positions(c, d)

\* Slip: letters of code are written over as well.
SlipSubstituted(d, bits) ==
    LET places == {i \in DOMAIN d : d[i] = "twin"}
    IN  [i \in DOMAIN d |->
            IF i \in places /\ Rank(places, i) <= Len(bits) /\ bits[Rank(places, i)] = 1
            THEN "alike" ELSE d[i]]

\* place_bits of the homoglyphs: a one turns the letter into its lookalike.
Substituted(d, bits) ==
    LET places == {i \in Places(d) : d[i] = "twin"}
    IN  [i \in DOMAIN d |->
            IF i \in places /\ Rank(places, i) <= Len(bits) /\ bits[Rank(places, i)] = 1
            THEN "alike" ELSE d[i]]

\* write_positions, and encode for whole bytes.
Written(c, d, bits) ==
    IF c = "homoglyph" THEN Substituted(d, bits)
    ELSE PlacedAtBoundaries(d, Sequenced(c, bits))

\* extract_bits
ReadPositions(c, d) ==
    IF c = "homoglyph"
    THEN LET places == Ascending(d, Places(d))
         IN  [j \in DOMAIN places |-> IF d[places[j]] = "alike" THEN 1 ELSE 0]
    ELSE LET read == Only(d, {Bit0[c], Bit1[c]})
         IN  [j \in DOMAIN read |-> IF read[j] = Bit1[c] THEN 1 ELSE 0]

\* check_readable: lookalikes of which none is its own are the document's.
Readable(d) == Has(d, {"alike"}) => Attributed(d) # {}

\* decode, in whole bytes: nothing when the carrier refuses to read or finds
\* nothing; an inserting one refuses a channel that ends within a byte.
Decoded(c, d) ==
    LET bits == ReadPositions(c, d)
        whole == (Len(bits) \div ByteBits) * ByteBits
    IN  IF c = "homoglyph"
        THEN IF Readable(d) THEN SubSeq(bits, 1, whole) ELSE <<>>
        ELSE IF Len(bits) = whole THEN bits ELSE <<>>

-----------------------------------------------------------------------------
(* Removing.                                                               *)

\* Slip: whatever resembles a substitution is taken back.
SlipStrip(c, d) ==
    IF c = "homoglyph"
    THEN [i \in DOMAIN d |-> IF d[i] = "alike" THEN "twin" ELSE d[i]]
    ELSE Free(d, Removable(c))

Strip(c, d) ==
    IF c = "homoglyph"
    THEN LET own == Attributed(d)
         IN  [i \in DOMAIN d |-> IF i \in own THEN "twin" ELSE d[i]]
    ELSE Free(d, Removable(c))

\* One carrier after the other, of those chosen.
StripEach(order, chosen, d) ==
    LET step(i, t) == IF order[i] \in chosen THEN Strip(order[i], t) ELSE t
    IN  step(4, step(3, step(2, step(1, d))))

\* The order of a clean and of the document hash, and that of the agents.
CleanOrder == <<"bidi", "homoglyph", "whitespace_var", "zero_width">>
CarrierOrder == <<"zero_width", "whitespace_var", "bidi", "homoglyph">>

\* strip_all, of which document_hash is the digest.
StripAll(d) == StripEach(CleanOrder, Carrier, d)

\* The script of a text is beyond doubt: Latin with a letter no carrier writes
\* over and no lookalike of the author's, or Cyrillic alone.
Decided(t) ==
    \/ Has(t, LatinLetters \ {"twin"}) /\ ~Has(t, {"cyrillic", "alike"})
    \/ Has(t, {"cyrillic"}) /\ ~Has(t, LatinLetters)

\* What comes back of a mark is what went in.
ReadsBack(c, d, bits) == IsPrefix(bits, ReadPositions(c, d))

=============================================================================
