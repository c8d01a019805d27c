------------------------------ MODULE MCDocuments ------------------------------
(***************************************************************************)
(* Small instances of six parts: one document on its way through the       *)
(* surfaces, documents as files, secrets handed over, a note that files    *)
(* are attached to, documents marked in their choice of words, and         *)
(* licences.  A behaviour is one of one of them; the others stand still.   *)
(***************************************************************************)
EXTENDS MCMarkedDocument, DocumentFile, Exchange, WordMarks, Licences

CONSTANTS p1, p2, k1, k2, m1, m2

Text(enc, chars) == [form |-> "text", enc |-> enc, chars |-> chars]
Office(kind, paras) ==
    [form |-> "office", kind |-> kind, paras |-> paras, meta |-> Unsigned]
Plain(chars) == [bold |-> FALSE, shown |-> TRUE, chars |-> chars]
Bold(chars) == [bold |-> TRUE, shown |-> TRUE, chars |-> chars]
Hidden(chars) == [bold |-> FALSE, shown |-> FALSE, chars |-> chars]

\* Text garbled twice and once, in every encoding.
MCTextFiles ==
    {Text("utf8", <<"lead", "curl", "sign", "cont", "space", "latin", "twin", "twin">>),
     Text("utf8", <<"hat", "euro", "angle", "latin", "space", "twin", "twin">>),
     Text("utf8_bom", <<"twin", "space", "twin", "joiner", "latin">>),
     Text("utf16", <<"accent", "space", "twin", "cont", "twin">>),
     Text("utf16", <<"hat", "euro", "angle", "space", "alike">>),
     Text("cp1252", <<"lead", "cont", "space", "accent", "latin", "twin">>),
     Text("cp1252", <<"hat", "euro", "angle", "latin", "twin">>)}

\* Emphasis, runs that meet, spaces at their ends, a deleted run, a mark in a
\* run from the start and one that stands alone.
MCOfficeFiles ==
    {Office("docx", <<<<Plain(<<"latin">>), Plain(<<"twin", "space">>), Bold(<<"twin">>)>>>>),
     Office("docx", <<<<Hidden(<<"zw0", "twin">>), Bold(<<"latin", "zw0", "twin">>)>>,
                      <<Plain(<<"space">>)>>>>),
     Office("docx", <<<<Plain(<<"twin">>), Bold(<<"zw0">>)>>>>),
     Office("docx", <<<<Plain(<<"cyrillic", "alike", "space", "twin">>)>>>>),
     Office("odt", <<<<Bold(<<"twin", "zw0", "latin">>)>>>>)}

MCSecrets == {<<0, 1>>}
MCFileSelections == {{c} : c \in Carrier} \cup {Carrier, Inserting}

\* What is handed over: nothing yet, or a short note.
HandedNotes == {<<>>, <<Token("word")>>}
PlainNames == {<<Token("word")>>}

\* Stray parts of the syntax of an attachment, in notes and in names; one name
\* closes the attachment too early, and one is blank.
StrayNotes ==
    {<<Token("word"), Token("bar"), Token("close")>>, <<Token("open"), Token("word")>>,
     <<Token("bar")>>}
MCTyped == (HandedNotes \ {<<>>}) \cup StrayNotes
MCNames ==
    PlainNames \cup {<<Token("open"), Token("word")>>, <<Token("word"), Token("close")>>, <<>>}

\* Passcodes that begin alike.
MCOpening == [p \in Passcode |-> "alike"]

MCChosen == {{"zero_width"}, {"zero_width", "homoglyph"}}

MCAlike == Permutations(Passcode) \cup Permutations(Recipient)

Says(group, variant, form) == [group |-> group, variant |-> variant, form |-> form]
Holding(whole, piece) ==
    [reads |-> [part \in Parts |-> IF part = "whole" THEN whole ELSE piece],
     own |-> piece.variant, veil |-> {}]
W(group, variant, form) == Holding(Says(group, variant, form), Says(NoGroup, 0, "lower"))

\* A group's word that holds another one, as "also" does, and a word of none.
Also(form) == Holding(Says("big", 0, form), Says("fast", 0, "lower"))
Enlarged(form) == Holding(Says(NoGroup, 0, form), Says("big", 1, "lower"))

\* Two words that carry and one beyond them, in every form; pieces; mixed case;
\* and a document too short.
MCTypings ==
    {<<Also("first"), W(NoGroup, 0, "lower"), W("fast", 1, "lower"), W("big", 1, "upper")>>,
     <<Enlarged("lower"), W("big", 1, "mixed"), W("fast", 0, "mixed first")>>,
     <<W("big", 0, "lower")>>}

MCReplies ==
    {<<>>, <<W("fast", 0, "first"), [W("big", 1, "lower") EXCEPT !.veil = {"inside"}]>>}

MCMagic == <<1, 0>>

\* Bits that depend on the key, and on every part of the document.
MCOnes(k, d) ==
    LET count(S) == Cardinality(S)
        shape == 2 * count({i \in DOMAIN d : "beside" \in d[i].veil})
                 + count({i \in DOMAIN d : d[i].veil \subseteq {"beside"}})
                 + count({i \in DOMAIN d : Look(d[i]).variant = 1})
                 + count({i \in DOMAIN d : Look(d[i]).form = "lower"})
    IN {n \in 1..2 : (shape + (IF k = "ours" THEN 1 ELSE 2)) % 3 < n}

\* A paragraph that ends well, one that does not, and one with letters to spare.
MCLicenceCovers ==
    {<<"latin", "twin", "space", "twin">>, <<"latin", "twin", "space", "twin", "newline">>,
     <<"latin", "twin", "twin", "star", "twin", "twin">>}
MCOldLicences == {<<"latin", "twin", "space", "twin">>}
MCPackageBits == <<1, 0>>
MCMachineId == m1 :> 1 @@ m2 :> NoMachineId

\* The domain c, a machine of it, and a name that ends in its letters.
MCHostNames == {<<"a", ".", "c">>, <<"c">>, <<"b", "c">>}
MCFirstNames == m1 :> <<"a", ".", "c">> @@ m2 :> <<"c">>

BelowDomain == [below |-> TRUE, name |-> <<"c">>]
Exact == [below |-> FALSE, name |-> <<"c">>]
For(hardware, org, expires) == [hardware |-> hardware, org |-> org, expires |-> expires]

MCTerms ==
    {For(FALSE, NoTerm, NoTerm), For(TRUE, BelowDomain, <<2100, 2, 28, 1>>),
     For(FALSE, Exact, <<2100, 3, 1>>)}

\* The 28th of February 2100, past 32 leap years and in none.
MCDates == {47540}

VARIABLE part

PartsInit ==
    /\ part \in {"marks", "file", "hand", "attach", "words", "licence"}
    /\ Init /\ (part # "marks" => doc = <<>>)
    /\ FileInit /\ (part # "file" => file = Office("odt", <<<<Bold(<<"twin", "zw0", "latin">>)>>>>))
    /\ HandedInit
    /\ part = "hand" => note \in HandedNotes /\ blob = File("small")
    /\ part = "attach" => note \in StrayNotes
    /\ part \notin {"hand", "attach"} => note = <<Token("bar")>> /\ blob = File("small")
    /\ WordsInit /\ (part # "words" => words = <<W("big", 0, "lower")>>)
    /\ LicenceInit /\ (part # "licence" => deed = NoDeed)

\* One attachment, by a plain name, to what is handed over: bound.
HandedOnce ==
    HandedNext /\ Len(attached') <= 1 /\ \A f \in Range(attached') : f.name \in PlainNames

PartsNext ==
    \/ part = "marks" /\ Next /\ UNCHANGED <<part, filevars, handed, wordvars, licencevars>>
    \/ part = "file" /\ FileNext /\ UNCHANGED <<part, vars, handed, wordvars, licencevars>>
    \/ part = "hand" /\ HandedOnce /\ UNCHANGED <<part, vars, filevars, wordvars, licencevars>>
    \/ /\ part = "attach" /\ (Compress \/ Attach \/ DetachAll)
       /\ UNCHANGED <<part, vars, filevars, wordvars, licencevars>>
    \/ part = "words" /\ WordsNext /\ UNCHANGED <<part, vars, filevars, handed, licencevars>>
    \/ part = "licence" /\ LicenceNext /\ UNCHANGED <<part, vars, filevars, handed, wordvars>>

PartsSpec == PartsInit /\ [][PartsNext]_<<part, vars, filevars, handed, wordvars, licencevars>>
=============================================================================
