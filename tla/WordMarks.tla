------------------------------- MODULE WordMarks -------------------------------
(***************************************************************************)
(* The mark in the choice of words (stegano-wm): a document is its words,  *)
(* some of which belong to a group of two synonyms.  A signature is        *)
(* written in the variants of the first of them, whitened by bits that a   *)
(* key and the document itself determine; scrubs and rewrites disturb it,  *)
(* and so do the other carriers, whose characters are in or beside words,  *)
(* and may part a group's word from the one it stands in: "al|so".         *)
(***************************************************************************)
EXTENDS Naturals, Sequences, FiniteSets

CONSTANTS
    Group,       \* the synonym groups
    Master,      \* the keys
    Magic,       \* the pattern a signature is, sixteen bits in the code
    Ones(_, _),  \* where the whitening bits of a key and a document are one
    Typings,     \* documents as authors type them
    Replies,     \* documents a model answers with
    Slack,       \* how much longer than half as long again an answer may be
    MaxCalls     \* bound: calls and edits

Bits == {0, 1}
NoGroup == "no group"
NoKeyYet == "no key yet"
Forms == {"lower", "first", "upper", "mixed", "mixed first"}

\* A word, and the piece of it that a group knows too, if any: one, bound.
Parts == {"whole", "piece"}

\* Where other carriers' characters are: between the piece and the rest, in the
\* one or the other (or in place of a letter of theirs), or beside the word.
Veils == {"apart", "within", "inside", "beside"}

\* What a part is looked up as; own is the variant of the piece that makes the
\* word what it is.
Reading == [group : Group \cup {NoGroup}, variant : Bits, form : Forms]
Term == [reads : [Parts -> Reading], own : Bits, veil : SUBSET Veils]

ASSUME WordsAssumption ==
    /\ Magic \in Seq(Bits) /\ NoGroup \notin Group /\ NoKeyYet \notin Master
    /\ Typings \subseteq Seq(Term) /\ Replies \subseteq Seq(Term)
    /\ Slack \in Nat /\ MaxCalls \in Nat

-----------------------------------------------------------------------------
(* The channel.                                                            *)

\* The part that may stand between characters that are no letters.
Part(w) == IF "apart" \in w.veil THEN "piece" ELSE "whole"

\* It does while it is whole: a piece that was changed makes another word, and
\* of a group's two words only the first holds a piece.
Alone(w) ==
    IF "apart" \in w.veil
    THEN "within" \notin w.veil /\ w.reads["whole"].variant = 0
    ELSE w.veil \subseteq {"beside"} /\ w.reads["piece"].variant = w.own

Look(w) == w.reads[Part(w)]

Matched(d) == {i \in DOMAIN d : Alone(d[i]) /\ Look(d[i]).group # NoGroup}

Nth(d, i) == Cardinality({j \in Matched(d) : j <= i})

\* match_case knows three forms; another one is taken for that of its first letter.
Recased(form) ==
    CASE form = "mixed" -> "lower" [] form = "mixed first" -> "first" [] OTHER -> form

\* rebuild: the variants chosen, and every other word as it is.
Rebuilt(d, chosen) ==
    [i \in DOMAIN d |->
        IF i \in DOMAIN chosen
        THEN [d[i] EXCEPT !.reads[Part(d[i])] =
                [@ EXCEPT !.variant = chosen[i], !.form = Recased(Look(d[i]).form)]]
        ELSE d[i]]

Canonical(d) == Rebuilt(d, [i \in {j \in Matched(d) : Look(d[j]).variant # 0} |-> 0])

\* prf_bit under the key derived for this document.
Whitening(k, d, n) == IF n \in Ones(k, Canonical(d)) THEN 1 ELSE 0

HasRoom(d) == Cardinality(Matched(d)) >= Len(Magic)

Carrying(d) == {i \in Matched(d) : Nth(d, i) <= Len(Magic)}

Flip(a, b) == IF a = b THEN 0 ELSE 1

\* The key is derived from the document as it reads, not as it is canonical.
SlipWithSignature(d, k) ==
    Rebuilt(d, [i \in Carrying(d) |->
        Flip(Magic[Nth(d, i)], IF Nth(d, i) \in Ones(k, d) THEN 1 ELSE 0)])

WithSignature(d, k) ==
    Rebuilt(d, [i \in Carrying(d) |-> Flip(Magic[Nth(d, i)], Whitening(k, d, Nth(d, i)))])

HasSignature(d, k) ==
    /\ HasRoom(d)
    /\ \A i \in Carrying(d) : Flip(Look(d[i]).variant, Whitening(k, d, Nth(d, i))) = Magic[Nth(d, i)]

Flipped(d, places) == Rebuilt(d, [i \in places |-> 1 - Look(d[i]).variant])

\* Every first, second or third position, counted from the first one.
Strided(d, stride) == {i \in Matched(d) : (Nth(d, i) - 1) % stride = 0}

\* analyze, of what the words themselves show.
Verdicts(d, k) ==
    {"impossible"}
    \cup (IF HasSignature(d, k) THEN {"certain"} ELSE {})
    \cup (IF Matched(d) # {} THEN {"indication"} ELSE {})

-----------------------------------------------------------------------------
(* State: the program keeps nothing between calls.                         *)

VARIABLES
    words,   \* the document
    source,  \* history: the text its words were chosen in
    parted,  \* history: the words a piece of which has stood apart since
    stamp,    \* history: the last signature, and the document it was put in
    calls

wordvars == <<words, source, parted, stamp, calls>>

Divided(d) == {i \in DOMAIN d : "apart" \in d[i].veil}

NoMark == [key |-> NoKeyYet, at |-> <<>>]

WordsInit ==
    /\ words \in Typings /\ source = words /\ parted = Divided(words)
    /\ stamp = NoMark /\ calls = 0

Call(d) == calls < MaxCalls /\ calls' = calls + 1 /\ words' = d

\* Refused by name where the words are too few.
EmbedSignature(k) ==
    /\ HasRoom(words)
    /\ Call(WithSignature(words, k))
    /\ stamp' = [key |-> k, at |-> WithSignature(words, k)]
    /\ UNCHANGED <<source, parted>>

RemoveSignature == Call(Canonical(words)) /\ UNCHANGED <<source, parted, stamp>>

\* Light, medium and heavy.
ScrubSynonyms(stride) ==
    Call(Flipped(words, Strided(words, stride))) /\ UNCHANGED <<source, parted, stamp>>

\* The flips a model prefers, at most as many as the fraction allows.
ScrubGuided(budget) ==
    /\ \E places \in SUBSET Matched(words) :
        /\ Cardinality(places) <= budget
        /\ Call(Flipped(words, places))
    /\ UNCHANGED <<source, parted, stamp>>

\* validate_rewrite, of what is no refusal: neither padded nor collapsed.
Faithful(d, reply) ==
    /\ Len(reply) > 0
    /\ 2 * Len(reply) <= 3 * Len(d) + 2 * Slack
    /\ 10 * Len(reply) >= 3 * Len(d)

Veiled(d, i, veil) == [d EXCEPT ![i].veil = @ \cup {veil}]

Unveiled(d, classes) == [i \in DOMAIN d |-> [d[i] EXCEPT !.veil = @ \ classes]]

\* An online model is asked once its disclaimer was shown.  A usable reply is
\* cleaned of every class; for any other the text is scrubbed instead.
RewriteByModel(online, acknowledged) ==
    /\ online => acknowledged
    /\ \/ \E reply \in Replies :
            /\ Faithful(words, reply)
            /\ Call(Unveiled(reply, Veils))
            /\ source' = Unveiled(reply, Veils) /\ parted' = {} /\ stamp' = NoMark
       \/ /\ Call(Flipped(words, Strided(words, 2)))
          /\ UNCHANGED <<source, parted, stamp>>

-----------------------------------------------------------------------------
(* The other carriers, which put their characters in words or beside them, *)
(* and take them out again; and the author.                                *)

Veil(i, veil) ==
    /\ Call(Veiled(words, i, veil))
    /\ source' = Veiled(source, i, veil)
    /\ parted' = parted \cup Divided(words')
    /\ UNCHANGED stamp

Unveil(classes) ==
    /\ Call(Unveiled(words, classes))
    /\ source' = Unveiled(source, classes)
    /\ UNCHANGED <<parted, stamp>>

RetypeWords ==
    \E d \in Typings : Call(d) /\ source' = d /\ parted' = Divided(d) /\ stamp' = NoMark

WordsNext ==
    \/ \E k \in Master : EmbedSignature(k)
    \/ RemoveSignature
    \/ \E stride \in 1..3 : ScrubSynonyms(stride)
    \/ \E budget \in 0..Cardinality(Matched(words)) : ScrubGuided(budget)
    \/ \E online, acknowledged \in BOOLEAN : RewriteByModel(online, acknowledged)
    \/ \E i \in DOMAIN words, veil \in Veils : Veil(i, veil)
    \/ \E classes \in SUBSET Veils \ {{}} : Unveil(classes)
    \/ RetypeWords

WordsSpec == WordsInit /\ [][WordsNext]_wordvars

-----------------------------------------------------------------------------
(* Properties.                                                             *)

\* Documents are words, and a signature has a key and a document.
WordsTypeOK ==
    /\ words \in Seq(Term) /\ source \in Seq(Term) /\ parted \subseteq DOMAIN words
    /\ stamp = NoMark \/ stamp \in [key : Master, at : Seq(Term)]
    /\ calls \in 0..MaxCalls

\* The forms match_case gives back.
Ordinary(d) ==
    \A i \in DOMAIN d, part \in Parts :
        d[i].reads[part].group # NoGroup => Recased(d[i].reads[part].form) = d[i].reads[part].form

\* The words of one document are those of another, but for variants, and so are
\* their pieces; their veils may differ.
Rewords(d, e) ==
    /\ DOMAIN d = DOMAIN e
    /\ \A i \in DOMAIN d :
        /\ d[i].own = e[i].own
        /\ \A part \in Parts :
            LET x == d[i].reads[part]
                y == e[i].reads[part]
            IN  /\ x.group = y.group /\ x.form = y.form
                /\ x.group = NoGroup => x.variant = y.variant

Veiling(d) == [i \in DOMAIN d |-> d[i].veil]

\* The other carriers' characters are the same, and so is all that no group
\* reads as they stand.
SameVeils(d, e) ==
    /\ Veiling(d) = Veiling(e)
    /\ \A i \in DOMAIN d, part \in Parts :
        \/ i \in Matched(d) /\ part = Part(d[i])
        \/ d[i].reads[part].variant = e[i].reads[part].variant

\* "Reads back exactly with the same key" and "only the chosen group words
\* change" (mark.rs): whatever was signed, scrubbed, removed, concealed and
\* cleaned, the words are the author's, or the model's, but for their variants,
\* and a word no piece of which ever stood apart keeps that piece; and whenever
\* the other carriers' characters, and what they hide of the words, are as they
\* were when the last signature was written, it reads under its key exactly when
\* every word or piece that carries it has the variant it was given, whatever
\* became of the others.  Except for words in mixed case, whose case is lost.
SignatureStands ==
    Ordinary(source) =>
        /\ Rewords(words, source) /\ Veiling(words) = Veiling(source)
        /\ \A i \in DOMAIN words \ parted :
            words[i].reads["piece"].variant = source[i].reads["piece"].variant
        /\ stamp # NoMark /\ SameVeils(words, stamp.at) =>
            ("certain" \in Verdicts(words, stamp.key) <=>
                \A i \in Carrying(words) : Look(words[i]).variant = Look(stamp.at[i]).variant)
=============================================================================
