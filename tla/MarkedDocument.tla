---------------------------- MODULE MarkedDocument ----------------------------
(***************************************************************************)
(* One document on its way through the surfaces of the program: marked by  *)
(* several carriers, signed by several people, in band or beside it,       *)
(* cleaned of some classes of marks, edited by its author, pasted about,   *)
(* issued as fingerprinted copies and traced.  Nothing of it is kept by    *)
(* the program: every operation is handed the text as it stands, and the   *)
(* operations come in any order.                                           *)
(***************************************************************************)
EXTENDS Carriers

CONSTANTS
    Covers,         \* documents as their authors leave them
    Payloads,       \* bits of the secrets concealed
    Signers,
    ClaimBits,      \* the bits a signer's claim is framed to
    Digest,         \* the digest of a recipient's name, chained as far as covers reach
    Strays,         \* marks another program leaves in a document
    CleanSelections,\* selections of classes somebody cleans
    Sparseness,     \* letters to a substitution beyond which none is suspected: 200 in the code
    NoBits, NoClaim, Nobody,
    MaxMarks,       \* bound: marks placed and claims made
    MaxSteps        \* bound: these, cleans, edits and pastes

Recipients == DOMAIN Digest
BitStrings == Seq({0, 1})
Claims == [signer : Signers, hash : Seq(Symbols), over : Seq(Symbols)]

ASSUME DocumentAssumption ==
    /\ Covers \subseteq Seq(Symbols \ Marks)
    /\ \A b \in Payloads : b \in BitStrings /\ Len(b) % ByteBits = 0 /\ Len(b) > 0
    /\ \A s \in Signers : ClaimBits[s] \in BitStrings /\ Len(ClaimBits[s]) % ByteBits = 0
    /\ \A r \in Recipients : /\ Digest[r] \in BitStrings
                            /\ \A d \in Covers : Len(d) <= Len(Digest[r])
    /\ Strays \subseteq Marks /\ Sparseness \in Nat \ {0}
    /\ NoBits \notin BitStrings /\ NoClaim \notin Claims /\ Nobody \notin Signers
    /\ MaxMarks \in Nat /\ MaxSteps \in Nat

VARIABLES
    doc,        \* the document as it travels
    text,       \* history: what its author wrote of it
    held,       \* history: the bits each carrier placed and nothing disturbed
    inband,     \* the claim placed through each carrier
    sidecar,    \* the detached record kept beside it
    prints,     \* the fingerprint each recipient's copy was issued with
    marks, steps

vars == <<doc, text, held, inband, sidecar, prints, marks, steps>>

NoPrints == [r \in {} |-> NoBits]

Init ==
    /\ doc \in Covers
    /\ text = doc
    /\ held = [c \in Carrier |-> NoBits]
    /\ inband = [c \in Carrier |-> NoClaim]
    /\ sidecar = NoClaim
    /\ prints = NoPrints
    /\ marks = 0 /\ steps = 0

-----------------------------------------------------------------------------
(* Marks.                                                                  *)

Step == steps < MaxSteps /\ steps' = steps + 1

Mark == Step /\ marks < MaxMarks /\ marks' = marks + 1

\* The document a carrier makes of these bits, and what it now holds.
Place(c, bits, claim) ==
    /\ Accepts(c, doc, bits)
    /\ doc' = Written(c, doc, bits)
    /\ held' = [held EXCEPT ![c] = bits]
    /\ inband' = [inband EXCEPT ![c] = claim]
    /\ UNCHANGED <<text, sidecar, prints>>

\* A secret is concealed; the agents hand nothing over that they cannot read.
Conceal(c, bits) ==
    /\ Mark
    /\ ReadsBack(c, Written(c, doc, bits), bits)
    /\ Place(c, bits, NoClaim)

\* ProvenanceClaim::new and SignedClaim::sign over the document as it stands.
Claim(s) == [signer |-> s, hash |-> StripAll(doc), over |-> text]

\* Slip: the document is hashed with the marks in it.
SlipUnaltered(claim, d) == d = claim.hash

\* evaluate: the document hashes to what was signed.
Unaltered(claim, d) == StripAll(d) = claim.hash

\* The agents read a record back and hand over none that does not verify.
AgentSigns(s, c) ==
    /\ Mark
    /\ LET made == Written(c, doc, ClaimBits[s])
       IN  ReadsBack(c, made, ClaimBits[s]) /\ Unaltered(Claim(s), made)
    /\ Place(c, ClaimBits[s], Claim(s))

\* The command line and the desktop hand over what the binding made.
SignsUnread(s, c) == Mark /\ Place(c, ClaimBits[s], Claim(s))

\* A detached record, which every surface makes of the document as it stands.
SignsBeside(s) ==
    /\ Mark
    /\ sidecar' = Claim(s)
    /\ UNCHANGED <<doc, text, held, inband, prints>>

-----------------------------------------------------------------------------
(* Cleaning.                                                               *)

Cleaned(d, chosen) ==
    /\ Step
    /\ doc' = d
    /\ held' = [c \in Carrier |-> IF c \in chosen THEN NoBits ELSE held[c]]
    /\ inband' = [c \in Carrier |-> IF c \in chosen THEN NoClaim ELSE inband[c]]
    /\ UNCHANGED <<text, sidecar, prints, marks>>

\* sovereignty::clean of the classes somebody chose.
Clean(chosen) == Cleaned(StripEach(CleanOrder, chosen, doc), chosen)

\* The agents' sanitize goes through them in another order, and takes letters
\* back only where the analysis of the text as it came shows substitutions.
Sanitize(chosen) ==
    /\ "homoglyph" \in chosen =>
        Has(doc, LatinLetters) /\ Attributed(doc) # {}
    /\ Cleaned(StripEach(CarrierOrder, chosen, doc), chosen)

-----------------------------------------------------------------------------
(* Fingerprinted copies.                                                   *)

\* The letters a cover offers a fingerprint.
Offered(d) == Cardinality({i \in Places(d) : d[i] = "twin"})

\* The digest of a recipient's name, as far as the whole bytes of a cover reach.
Fingerprint(d, r) == SubSeq(Digest[r], 1, (Offered(d) \div ByteBits) * ByteBits)

\* generate_batch: a copy for every recipient, of which one travels on.
Issue(r) ==
    /\ Mark
    /\ Offered(doc) >= ByteBits /\ Writable("homoglyph", doc)
    /\ doc' = Substituted(doc, Fingerprint(doc, r))
    /\ prints' = [q \in Recipients |-> Fingerprint(doc, q)]
    /\ held' = [held EXCEPT !["homoglyph"] = Fingerprint(doc, r)]
    /\ inband' = [inband EXCEPT !["homoglyph"] = NoClaim]
    /\ UNCHANGED <<text, sidecar>>

\* detect: the substitutions that are shown, among all letters that have a
\* substitute or are one, in code as well, are at least one in so many.
Suspected(d) ==
    /\ Attributed(d) # {}
    /\ Sparseness * Cardinality(Attributed(d))
        >= Cardinality({i \in DOMAIN d : d[i] \in {"twin", "alike"}})

\* Slip: the first byte decides.
SlipNamed(d) ==
    {r \in DOMAIN prints :
        Suspected(d)
        /\ SubSeq(Decoded("homoglyph", d), 1, ByteBits) = SubSeq(prints[r], 1, ByteBits)}

\* Whom identify_leak may name, if the document is suspected at all: the first on
\* its list with exactly the bytes that are read, the list coming in any order.
Named(d) ==
    {r \in DOMAIN prints : Suspected(d) /\ Decoded("homoglyph", d) = prints[r]}

-----------------------------------------------------------------------------
(* The surroundings.                                                       *)

\* The author writes another letter over one; the text as it stands is then
\* what the author wrote, and the letters may carry other bits.
Edit(i, letter) ==
    /\ Step
    /\ doc[i] \in Letters \ {letter}
    /\ doc' = [doc EXCEPT ![i] = letter]
    /\ LET j == Cardinality({k \in 1..i : doc[k] \notin Marks})
       IN  text' = [text EXCEPT ![j] = letter]
    /\ held' = [held EXCEPT !["homoglyph"] = NoBits]
    /\ inband' = [inband EXCEPT !["homoglyph"] = NoClaim]
    /\ UNCHANGED <<sidecar, prints, marks>>

\* A mark of another program arrives with a paste.
Stray(k, s) ==
    /\ Step
    /\ doc' = InsertAt(doc, k + 1, s)
    /\ held' = [c \in Carrier |-> IF s \in Removable(c) THEN NoBits ELSE held[c]]
    /\ inband' = [c \in Carrier |-> IF s \in Removable(c) THEN NoClaim ELSE inband[c]]
    /\ UNCHANGED <<text, sidecar, prints, marks>>

Next ==
    \/ \E c \in Carrier :
        \/ \E bits \in Payloads : Conceal(c, bits)
        \/ \E s \in Signers : AgentSigns(s, c) \/ SignsUnread(s, c)
    \/ \E s \in Signers : SignsBeside(s)
    \/ \E chosen \in CleanSelections : Clean(chosen) \/ Sanitize(chosen)
    \/ \E r \in Recipients : Issue(r)
    \/ \E i \in DOMAIN doc, letter \in {"twin", "latin"} : Edit(i, letter)
    \/ \E k \in 0..Len(doc), s \in Strays : Stray(k, s)

Spec == Init /\ [][Next]_vars

-----------------------------------------------------------------------------
(* Verification.                                                           *)

\* The claims that read back: in band what the carrier gives up, beside the
\* document the record.
Legible ==
    {c \in Carrier : inband[c] # NoClaim
        /\ ReadsBack(c, doc, ClaimBits[inband[c].signer])}

\* evaluate, of every claim the document or its record gives up.
Standing ==
    {claim \in {inband[c] : c \in Legible} \cup ({sidecar} \ {NoClaim}) :
        Unaltered(claim, doc)}

\* satisfies: what a policy requires was signed by that very signer, over the
\* document as it is.
Satisfied(standing, found, required) ==
    required # Nobody =>
        \E claim \in found : claim.signer = required /\ claim \in standing

\* provenance_holds: a trusted signer's claim stands and no requirement is
\* unmet; a carrier that holds something else than a claim ends the verification.
Holds(standing, legible, offered, kept, trusted, required) ==
    LET found == {inband[c] : c \in offered \cap legible}
                 \cup (IF kept THEN {sidecar} \ {NoClaim} ELSE {})
    IN  /\ \A c \in offered : held[c] # NoBits => inband[c] # NoClaim
        /\ \E claim \in found \cap standing : claim.signer \in trusted
        /\ Satisfied(standing, found, required)

-----------------------------------------------------------------------------
(* Properties.                                                             *)

TypeOK ==
    /\ \A i \in DOMAIN doc : doc[i] \in Symbols
    /\ \A i \in DOMAIN text : text[i] \in Symbols \ Marks
    /\ \A c \in Carrier :
        /\ inband[c] # NoClaim => held[c] = ClaimBits[inband[c].signer]
        /\ held[c] # NoBits => Len(held[c]) % ByteBits = 0
    /\ sidecar # NoClaim => sidecar.signer \in Signers
    /\ DOMAIN prints \in {{}, Recipients}
    /\ marks \in 0..MaxMarks /\ steps \in marks..MaxSteps

\* What an inserting carrier placed, and nothing removed since, is what it reads
\* back, bit for bit and nothing beside, whatever other carriers placed before or
\* after, whatever was edited, cleaned of other classes and pasted in.
InsertedReadBack ==
    \A c \in Inserting : held[c] # NoBits => ReadPositions(c, doc) = held[c]

\* What was placed in the letters, and nobody typed over or took back since,
\* reads back, whatever the other carriers place, move and remove ("the written
\* and read positions stay aligned", homoglyph.rs).
LettersReadBack ==
    held["homoglyph"] # NoBits => ReadsBack("homoglyph", doc, held["homoglyph"])

\* What a carrier placed reads back, by gap or by letter.
MarksReadBack == InsertedReadBack /\ LettersReadBack

\* In a text whose script is beyond doubt, a clean of every class gives back
\* exactly what the author wrote, in the order of a clean and in that of the
\* agents, however often and by whom it was marked: the ground on which
\* document_hash stands.
RestoresTheText ==
    Decided(text) =>
        StripAll(doc) = text /\ StripEach(CarrierOrder, Carrier, doc) = text

\* Verification says what happened: provenance holds exactly when a trusted
\* signer signed the text as it now reads and the required one did too, over
\* every mix of records in band and beside, later marks, cleans and edits.
VerdictIsHistory ==
    LET standing == Standing
        legible == Legible
    IN  Decided(text) =>
        \A offered \in SUBSET {c \in Carrier : held[c] # NoBits},
           kept \in {FALSE, sidecar # NoClaim},
           trusted \in SUBSET Signers, required \in Signers \cup {Nobody} :
            LET play == {inband[c] : c \in offered} \cup (IF kept THEN {sidecar} ELSE {})
                signed == {claim \in play \ {NoClaim} : claim.over = text}
            IN  (\A claim \in play \ {NoClaim} : Decided(claim.over)) =>
                (Holds(standing, legible, offered, kept, trusted, required) <=>
                    /\ \A c \in offered : inband[c] # NoClaim
                    /\ \E claim \in signed : claim.signer \in trusted
                    /\ required # Nobody =>
                        \E claim \in signed : claim.signer = required)

\* What a carrier offers is a matter of the author's text: no mark, of whatever
\* carrier or origin, moves the capacity another one reports (boundary_slots).
\* And as much as it reports finds a gap for every character and every delimiter,
\* in a document that others have marked as well: "a bounded carrier sizes its
\* payload so the tail is never reached" (placement.rs).
RoomIsKept ==
    /\ \A c \in Carrier : Positions(c, doc) = Positions(c, text)
    /\ \A c \in Delimiting :
        LET most == [i \in 1..Positions(c, doc) |-> 1]
        IN  Len(Sequenced(c, most)) <= Cardinality(WritableGaps(doc))

Protected(d) ==
    LET inside == Ascending(d, Inside(d)) IN [j \in DOMAIN inside |-> d[inside[j]]]

\* Marking leaves code and equations as they are, and a reader of the marked
\* document finds the same ones: "a command a reader will paste and an equation
\* a reader will render both survive byte for byte" (placement.rs).
CodeUntouched == [][marks' # marks => Protected(doc') = Protected(doc)]_vars

\* A copy whose letters nobody touched is never traced to anybody but those who
\* were sent that very copy, over marks of other carriers, cleans of other
\* classes and pastes; and to them it is traced, if the fingerprint replaced as
\* many of the author's letters, those in code counted, as a suspicion takes.  Of
\* several whose copies are one and the same, since the cover was too short for
\* their names, any can be named.  (A secret that happens to be a fingerprint
\* makes a copy only in a text of as many letters.)
TracedWhileWhole ==
    \A r \in DOMAIN prints :
        /\ held["homoglyph"] = prints[r] /\ inband["homoglyph"] = NoClaim
        /\ Len(prints[r]) = (Cardinality(Places(text)) \div ByteBits) * ByteBits
        /\ Decided(text)
        => LET replaced == {i \in DOMAIN prints[r] : prints[r][i] = 1}
               copies == {q \in Recipients : prints[q] = prints[r]}
           IN  /\ Named(doc) \subseteq copies
               /\ replaced # {}
                  /\ Sparseness * Cardinality(replaced)
                        >= Cardinality({i \in DOMAIN text : text[i] = "twin"})
                  => Named(doc) = copies

=============================================================================
