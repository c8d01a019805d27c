----------------------------- MODULE DocumentFile -----------------------------
(***************************************************************************)
(* A document as a file on disk, taken through the file commands of the    *)
(* surfaces: read through its encoding or out of its archive, cleaned,     *)
(* stripped, marked or signed, and written back in its own format.  The    *)
(* author goes on working on it in between.  A text file is its            *)
(* characters in an encoding; an office file is paragraphs of formatted    *)
(* runs, of which a reader gets a rendering, beside a metadata channel.    *)
(***************************************************************************)
EXTENDS Carriers

CONSTANTS
    TextFiles,      \* Markdown and plain text as their authors leave them
    OfficeFiles,    \* DOCX and ODT
    Secrets,        \* the bits of the frames concealed
    Authors,        \* who signs
    Pasted,         \* marks another program leaves
    FileSelections, \* selections of classes somebody cleans
    Unsigned,
    MaxOps          \* bound: commands and edits

Encodings == {"utf8", "utf8_bom", "utf16", "cp1252"}

\* In an office file a mark may be written as a reference to it.
References == {"&zw0", "&ws1"}
FileSymbols == Symbols \cup References

\* A run of one format; what is deleted or hidden is not shown.
FileRuns == [bold : BOOLEAN, shown : BOOLEAN, chars : Seq(FileSymbols)]
Outlines == Seq(Seq([bold : BOOLEAN, chars : Seq(Symbols)]))

ASSUME FileAssumption ==
    /\ TextFiles \subseteq [form : {"text"}, enc : Encodings, chars : Seq(Symbols \ Marks)]
    /\ OfficeFiles \subseteq
            [form : {"office"}, kind : {"docx", "odt"}, paras : Seq(Seq(FileRuns)), meta : {Unsigned}]
    /\ Secrets \subseteq Seq({0, 1})
    /\ \A b \in Secrets : Len(b) % ByteBits = 0 /\ Len(b) > 0
    /\ Pasted \subseteq Marks
    /\ FileSelections \subseteq SUBSET Carrier
    /\ Unsigned \notin [signer : Authors, hash : Seq(Symbols)]
    /\ Unsigned \notin [signer : Authors, over : Outlines, firm : BOOLEAN]
    /\ MaxOps \in Nat

VARIABLES
    file,       \* the file
    wrote,      \* history: what a reader gets of a text file, but for the marks
    placed,     \* history: the bits each carrier placed and nothing disturbed
    cleared,    \* history: the classes a clean removed and nothing put back
    signed,     \* history: who last signed the file, and over what
    ops

filevars == <<file, wrote, placed, cleared, signed, ops>>

-----------------------------------------------------------------------------
(* Text files.                                                             *)

\* What a character becomes when its UTF-8 bytes are taken for Windows-1252, of
\* those told apart here: Ã© for é, Ãƒ for Ã, Â© for ©, â€‹ for a zero-width space.
Garbled == [accent |-> <<"lead", "cont">>, lead |-> <<"lead", "curl">>,
            cont |-> <<"sign", "cont">>, zw0 |-> <<"hat", "euro", "angle">>]

\* Beyond ASCII: what mojibake can be part of.
High == HighLatin \cup HighSymbols \cup FormatControl \cup {"alike", "cyrillic"}

\* What a text looks like once it is garbled, and what that is made of.
Garble(d) == FlattenSeq([i \in DOMAIN d |-> Garbled[d[i]]])
Mojibake == UNION {Range(Garbled[s]) : s \in DOMAIN Garbled}

\* A maximal run is repaired when all of it reads as UTF-8, to what is shorter.
Reread(run) ==
    LET read == {d \in BoundedSeq(DOMAIN Garbled, Len(run) \div 2) : Garble(d) = run}
    IN  IF Range(run) \subseteq Mojibake /\ read # {}
        THEN CHOOSE d \in read : TRUE ELSE run

\* fix_mojibake: a run goes where it begins.
Repaired(d) ==
    LET end(i) == Max({j \in i..Len(d) : \A k \in i..j : d[k] \in High})
        piece(i) == IF d[i] \notin High THEN <<d[i]>>
                    ELSE IF i > 1 /\ d[i - 1] \in High THEN <<>>
                    ELSE Reread(SubSeq(d, i, end(i)))
    IN  FlattenSeq([i \in DOMAIN d |-> piece(i)])

\* encode_text: the bytes of a text in an encoding, as decode_bytes will take
\* them.  U+FEFF at the start of UTF-8 is the mark of its byte order.
Saved(enc, d) ==
    IF enc = "utf8" /\ d # <<>> /\ Head(d) = "ws1"
    THEN [form |-> "text", enc |-> "utf8_bom", chars |-> Tail(d)]
    ELSE [form |-> "text", enc |-> enc, chars |-> d]

\* extract_text of Markdown and plain text.
TextOf(f) == Repaired(f.chars)

\* Slip: what was written is not read again.
SlipWritableBack(enc, d) == enc # "cp1252"

\* A legacy encoding is never written, and what is written must read the same.
WritableBack(enc, d) == enc # "cp1252" /\ TextOf(Saved(enc, d)) = d

-----------------------------------------------------------------------------
(* Office files.                                                           *)

Unescaped(s) == CASE s = "&zw0" -> "zw0" [] s = "&ws1" -> "ws1" [] OTHER -> s

Trimmed(d) ==
    LET ink == {i \in DOMAIN d : d[i] \notin {"space", "newline"}}
    IN  IF ink = {} THEN <<>> ELSE SubSeq(d, Min(ink), Max(ink))

\* Emphasis goes around a run, inside the spaces at its ends.
Emphasised(run) ==
    LET ink == {i \in DOMAIN run.chars : run.chars[i] \notin {"space", "newline"}}
    IN  IF ink = {} \/ ~run.bold THEN run.chars
        ELSE SubSeq(run.chars, 1, Min(ink) - 1) \o <<"star">> \o Trimmed(run.chars)
             \o <<"star">> \o SubSeq(run.chars, Max(ink) + 1, Len(run.chars))

\* A run joins the last one if that has its format.
Joining(done, run) ==
    LET n == Len(done)
    IN  IF n > 0 /\ done[n].bold = run.bold
        THEN [done EXCEPT ![n] = [bold |-> run.bold, chars |-> @.chars \o run.chars]]
        ELSE Append(done, run)

\* render_docx_segs: neighbours of one format are one.
Merged(runs) ==
    LET merged[k \in 0..Len(runs)] ==
            IF k = 0 THEN <<>> ELSE Joining(merged[k - 1], runs[k])
    IN  merged[Len(runs)]

Rendered(runs) ==
    LET segs == Merged(runs)
    IN  FlattenSeq([k \in DOMAIN segs |-> Emphasised(segs[k])])

Shown(para) ==
    LET shown == Only(para, {run \in Range(para) : run.shown})
    IN  [k \in DOMAIN shown |->
            [bold |-> shown[k].bold,
             chars |-> [i \in DOMAIN shown[k].chars |-> Unescaped(shown[k].chars[i])]]]

ParagraphText(para) == Trimmed(Rendered(Shown(para)))

\* docx_document_to_md, odt_content_to_md: the paragraphs that are not blank.
Lowered(paras) ==
    FlattenSeq([p \in DOMAIN paras |->
        LET text == ParagraphText(paras[p])
        IN  IF text = <<>> THEN <<>> ELSE text \o <<"newline">>])

\* extract_text; of an office file, nothing is an error.
Extracted(f) == IF f.form = "text" THEN TextOf(f) ELSE Lowered(f.paras)

\* rewrite_text_nodes: every text node on its own, references as they are.
NodesCleaned(paras, chosen) ==
    [p \in DOMAIN paras |-> [k \in DOMAIN paras[p] |->
        [paras[p][k] EXCEPT !.chars = StripEach(CleanOrder, chosen, @)]]]

\* Slip: the rewrite is not proven.
SlipRemoved(paras, chosen) == TRUE

\* What a reader gets must hold none of the classes any more.
Removed(paras, chosen) ==
    LET text == Lowered(paras)
    IN  text # <<>> /\ StripEach(CleanOrder, chosen, text) = text

-----------------------------------------------------------------------------
(* The commands.                                                           *)

FileInit ==
    /\ file \in TextFiles \cup OfficeFiles
    /\ wrote = (IF file.form = "text" THEN StripAll(TextOf(file)) ELSE <<>>)
    /\ placed = [c \in Carrier |-> <<>>]
    /\ cleared = {}
    /\ signed = Unsigned
    /\ ops = 0

FileStep == ops < MaxOps /\ ops' = ops + 1

Unplaced(classes) == [c \in Carrier |-> IF c \in classes THEN <<>> ELSE placed[c]]

\* clean_text_native, of a text that changes.
CleanText(chosen) ==
    LET text == TextOf(file)
        cleaned == StripEach(CleanOrder, chosen, text)
    IN  /\ FileStep
        /\ file.form = "text"
        /\ cleaned # text /\ WritableBack(file.enc, cleaned)
        /\ file' = Saved(file.enc, cleaned)
        /\ placed' = Unplaced(chosen)
        /\ cleared' = cleared \cup chosen
        /\ UNCHANGED <<wrote, signed>>

\* Slip: the archive is made of the content alone.
SlipRepackaged(f, paras) == [f EXCEPT !.paras = paras, !.meta = Unsigned]

\* repackage_zip: every other entry is copied, the metadata channel with them.
Repackaged(f, paras) == [f EXCEPT !.paras = paras]

\* clean_office: lookalikes are refused by name, and what changes is proven.
CleanOffice(chosen) ==
    LET paras == NodesCleaned(file.paras, chosen)
    IN  /\ FileStep
        /\ file.form = "office" /\ "homoglyph" \notin chosen
        /\ Lowered(file.paras) # <<>>
        /\ paras # file.paras /\ Removed(paras, chosen)
        /\ file' = Repackaged(file, paras)
        /\ cleared' = cleared \cup chosen
        /\ UNCHANGED <<wrote, placed, signed>>

\* A file that holds nothing of the classes is left byte for byte as it was.  (An
\* archive that holds them as references alone is too, and is not reported clean.)
CleanFindsNone(chosen) ==
    LET text == Extracted(file)
    IN  /\ FileStep
        /\ file.form = "office" =>
            /\ "homoglyph" \notin chosen /\ text # <<>>
            /\ NodesCleaned(file.paras, chosen) = file.paras
        /\ StripEach(CleanOrder, chosen, text) = text
        /\ cleared' = cleared \cup chosen
        /\ UNCHANGED <<file, wrote, placed, signed>>

\* pristine_file, text files only: every class, and every format control left.
PristineFile ==
    LET text == TextOf(file)
        bare == Skeleton(StripAll(text))
    IN  /\ FileStep
        /\ file.form = "text"
        /\ \/ bare = text /\ UNCHANGED <<file, placed>>
           \/ /\ bare # text /\ WritableBack(file.enc, bare)
              /\ file' = Saved(file.enc, bare)
              /\ placed' = Unplaced(Carrier)
        /\ wrote' = Skeleton(wrote)
        /\ cleared' = Carrier
        /\ UNCHANGED signed

\* conceal_file, text files only, under the ceiling of its mission.
ConcealFile(c, bits) ==
    LET text == TextOf(file)
        marked == Written(c, text, bits)
    IN  /\ FileStep
        /\ file.form = "text"
        /\ Accepts(c, text, bits) /\ Len(bits) <= Positions(c, text)
        /\ WritableBack(file.enc, marked)
        /\ file' = Saved(file.enc, marked)
        /\ placed' = [placed EXCEPT ![c] = bits]
        /\ cleared' = cleared \ {c}
        /\ UNCHANGED <<wrote, signed>>

\* strip_file, of an archive: the metadata entries are left out.
StripFile ==
    /\ FileStep
    /\ file.form = "office"
    /\ file' = [file EXCEPT !.meta = Unsigned]
    /\ signed' = Unsigned
    /\ UNCHANGED <<wrote, placed, cleared>>

\* embed_docx: a channel that is there is replaced.
Embedded(f, claim) == [f EXCEPT !.meta = claim]

\* What the author put on paper: the text and its format, but for the marks.
Authored(paras) ==
    [p \in DOMAIN paras |->
        LET shown == Shown(paras[p])
        IN  [k \in DOMAIN shown |-> [shown[k] EXCEPT !.chars =
                Free(@, Marks)]]]

\* No letter can be taken for a lookalike somebody put there, wherever a mark
\* splits a word.
Unmistaken(t) ==
    \A i \in DOMAIN t : t[i] = "alike" =>
        ~LatinDocument(t) /\ \A j \in Run(t, i) : t[j] \notin LatinLetters

\* Marks stand between what is visible: none is at the end of a run, where it
\* keeps a space from being taken for the margin.  And none can split a word so
\* that a letter of the author's is taken back.
Firm(paras) ==
    /\ Unmistaken(Free(Lowered(paras), Marks))
    /\ \A p \in DOMAIN paras :
            LET shown == Shown(paras[p])
            IN  \A k \in DOMAIN shown :
                    LET d == shown[k].chars
                    IN  Has(d, Marks) =>
                            {d[1], d[Len(d)]} \cap (Marks \cup {"space", "newline"}) = {}

\* sign_into_metadata, which only DOCX has the channel for.
SignIntoMetadata(s) ==
    /\ FileStep
    /\ file.form = "office" /\ file.kind = "docx"
    /\ Lowered(file.paras) # <<>>
    /\ file' = Embedded(file,
            [signer |-> s, hash |-> StripAll(Lowered(file.paras))])
    /\ signed' = [signer |-> s, over |-> Authored(file.paras), firm |-> Firm(file.paras)]
    /\ UNCHANGED <<wrote, placed, cleared>>

\* verify_from_metadata: a claim is carried and the text is what it was made over.
Verified(f) ==
    /\ f.meta # Unsigned /\ Lowered(f.paras) # <<>>
    /\ StripAll(Lowered(f.paras)) = f.meta.hash

-----------------------------------------------------------------------------
(* The author, in an editor that sees the characters as they are saved.    *)

\* The text changes under what was placed in its letters.
Reworded(chars) ==
    LET saved == Saved(file.enc, chars)
    IN  /\ FileStep
        /\ file' = saved
        /\ wrote' = StripAll(TextOf(saved))
        /\ UNCHANGED signed

\* A letter is written over.
RetypeText(i, letter) ==
    /\ file.form = "text"
    /\ file.chars[i] \in {"twin", "latin"} \ {letter}
    /\ Reworded([file.chars EXCEPT ![i] = letter])
    /\ placed' = Unplaced({"homoglyph"})
    /\ cleared' = cleared \ {"homoglyph"}

\* A mark arrives with a paste; the encodings of Unicode have a place for it.  Among
\* garbled characters it makes another text of them, by whose letters others are judged.
PasteIntoText(k, s) ==
    /\ file.form = "text" /\ file.enc # "cp1252"
    /\ Reworded(InsertAt(file.chars, k + 1, s))
    /\ placed' = Unplaced({c \in Carrier : s \in Removable(c)})
    /\ cleared' = cleared \ {c \in Carrier :
            s \in Removable(c) \/ (c = "homoglyph" /\ wrote' # wrote)}

\* An editor that keeps the entries of an archive it does not know, or drops them.
RetypeOffice(p, k, i, letter, keeps) ==
    /\ FileStep
    /\ file.form = "office"
    /\ file.paras[p][k].chars[i] \in {"twin", "latin"} \ {letter}
    /\ file' = [file EXCEPT !.paras[p][k].chars[i] = letter,
                            !.meta = IF keeps THEN @ ELSE Unsigned]
    /\ signed' = IF keeps THEN signed ELSE Unsigned
    /\ UNCHANGED <<wrote, placed, cleared>>

\* A mark arrives in a run, as itself or as a reference to it.
PasteIntoOffice(p, k, i, s) ==
    /\ FileStep
    /\ file.form = "office"
    /\ file' = [file EXCEPT !.paras[p][k].chars = InsertAt(@, i + 1, s)]
    /\ cleared' = cleared \ {c \in Carrier : Unescaped(s) \in Removable(c)}
    /\ UNCHANGED <<wrote, placed, signed>>

TextChars == IF file.form = "text" THEN file.chars ELSE <<>>
Paras == IF file.form = "office" THEN file.paras ELSE <<>>

FileNext ==
    \/ \E chosen \in FileSelections :
        CleanText(chosen) \/ CleanFindsNone(chosen) \/ CleanOffice(chosen)
    \/ PristineFile
    \/ \E c \in Carrier, bits \in Secrets : ConcealFile(c, bits)
    \/ StripFile
    \/ \E s \in Authors : SignIntoMetadata(s)
    \/ \E i \in DOMAIN TextChars, letter \in {"twin", "latin"} : RetypeText(i, letter)
    \/ \E k \in 0..Len(TextChars), s \in Pasted : PasteIntoText(k, s)
    \/ \E p \in DOMAIN Paras : \E k \in DOMAIN Paras[p] :
        \/ \E i \in DOMAIN Paras[p][k].chars, letter \in {"twin", "latin"},
              keeps \in BOOLEAN : RetypeOffice(p, k, i, letter, keeps)
        \/ \E i \in 0..Len(Paras[p][k].chars), s \in Pasted \cup References :
              PasteIntoOffice(p, k, i, s)

FileSpec == FileInit /\ [][FileNext]_filevars

-----------------------------------------------------------------------------
(* Properties.                                                             *)

FileTypeOK ==
    /\ file.form = "text" =>
        /\ file.enc \in Encodings
        /\ \A i \in DOMAIN file.chars : file.chars[i] \in FileSymbols \ References
        /\ ~(file.enc = "utf8" /\ file.chars # <<>> /\ Head(file.chars) = "ws1")
    /\ file.form = "office" =>
        /\ file.kind = "odt" => file.meta = Unsigned
        /\ file.meta = Unsigned <=> signed = Unsigned
    /\ cleared \subseteq Carrier
    /\ ops \in 0..MaxOps

\* Whatever was concealed, cleaned and written back, in whatever encoding and
\* through whatever garbled characters, a reader gets the author's text, and of
\* each carrier's bits what it placed ("the write is proven by re-extracting the
\* written bytes", transform.rs).
WriteBackKeeps ==
    file.form = "text" =>
        LET text == TextOf(file)
        IN  /\ Decided(wrote) => StripAll(text) = wrote
            /\ \A c \in Carrier : ReadsBack(c, text, placed[c])

\* A class a clean reported gone is gone from what a reader gets of the file
\* until somebody puts it back, though an archive is cleaned node by node and
\* what a node holds is not what a reader gets of it.
CleanHolds ==
    LET text == Extracted(file)
    IN  \A c \in cleared :
            (c = "homoglyph" => Decided(wrote)) => Strip(c, text) = text

\* The claim an archive carries is the last one made, and stands exactly when the
\* author's text is what it was made over, whatever was cleaned of the file and
\* pasted into it since (where marks stand firm, and no letter is in doubt).
ClaimTellsEdits ==
    signed # Unsigned =>
        /\ file.meta # Unsigned /\ file.meta.signer = signed.signer
        /\ signed.firm /\ Firm(file.paras) =>
            (Verified(file) <=> Authored(file.paras) = signed.over)

=============================================================================
