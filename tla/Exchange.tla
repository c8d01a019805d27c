------------------------------- MODULE Exchange -------------------------------
(***************************************************************************)
(* A secret handed over through the surfaces: the desktop application, the *)
(* command line, the HTTP server and the agents' commands prepare it       *)
(* (attach, compress, protect, seal), conceal it in a text or a text file, *)
(* and reveal and open what another of them concealed.  The surfaces keep  *)
(* nothing between two calls: all that is handed on is a value of this     *)
(* module.  Placement is StegoPipeline's business; here a marked text is   *)
(* what its layer says and the carriers that still hold it.                *)
(***************************************************************************)
EXTENDS Carriers, FiniteSetsExt

CONSTANTS Ciphers,      \* the ciphers writers choose from
          Passcode,     \* the passcodes in use
          Opening,      \* what each passcode begins with, as long as a short text
          Recipient,    \* the owners of key pairs
          Chosen,       \* the selections of carriers in use
          Typed,        \* the notes people type, as sequences of tokens
          Names,        \* the names of files, as sequences of tokens
          MaxNote       \* bound: the tokens of a note that something is attached to

Aead == {"aes256_gcm", "aes128_gcm", "chacha20_poly1305"}
Keystream == {"caesar", "xor"}

ASSUME CiphersAssumption == Ciphers \subseteq Aead \cup Keystream

Blank == "blank passcode"
NoKey == "no key"
Clear == "none"

ASSUME MeansAssumption == {Blank, NoKey} \cap (Passcode \cup Recipient) = {}

ASSUME ChosenAssumption == Chosen \subseteq (SUBSET Carrier) \ {{}}

-----------------------------------------------------------------------------
(* Values.  Text is a sequence of tokens; every other value is bytes.      *)

Token(k) == [tok |-> k]
Data(v) == [tok |-> "data", of |-> v]
Kinds(s) == [i \in DOMAIN s |-> s[i].tok]

ASSUME TypedAssumption ==
    Typed \cup Names \subseteq Seq({Token(k) : k \in {"open", "bar", "close", "word"}})

Note(s) == [is |-> "text", says |-> s]
File(size) == [is |-> "file", size |-> size]
Compressed(v) == [is |-> "compressed", of |-> v]
Ciphered(c, p, v) == [is |-> "protected", of |-> v, under |-> c, pass |-> p]
Sealed(r, v) == [is |-> "sealed", of |-> v, to |-> r]

\* What becomes of bytes that were altered and then opened.
Noise == [is |-> "noise"]
Refusal == [is |-> "refusal"]

IsText(v) == v.is = "text"
Void(v) == v \in {Note(<<>>), File("empty")}

-----------------------------------------------------------------------------
(* The two keystream ciphers are one: bytes are added to what the passcode *)
(* alone determines, its own bytes and then their digests, from the first  *)
(* one on.  So the same passcode twice is none, the order does not matter, *)
(* and passcodes that begin alike are one to a text no longer than that.   *)

\* Bytes under some keystreams, each added once.
Streamed(keys, v) == IF keys = {} THEN v ELSE [is |-> "streamed", keys |-> keys, of |-> v]

StreamsOf(v) == IF v.is = "streamed" THEN v.keys ELSE {}
Below(v) == IF v.is = "streamed" THEN v.of ELSE v

Brief(v) == IsText(v) /\ Len(v.says) = 1

\* The keystream of a passcode as far as a value reaches.
KeyOver(p, v) ==
    IF Void(Below(v)) \/ Below(v) = Noise THEN {}
    ELSE IF Brief(Below(v)) THEN {Opening[p]} ELSE {p}

Mixed(p, v) == Streamed(SymDiff(StreamsOf(v), KeyOver(p, v)), Below(v))

-----------------------------------------------------------------------------
(* Attachments: [FILE:name|data][/FILE] behind the text.                   *)

Embed(s, name, v) ==
    s \o <<Token("open")>> \o name \o <<Token("bar"), Data(v), Token("close")>>

FirstOf(k, s, from) ==
    LET found == {i \in from..Len(s) : s[i].tok = k} IN
    IF found = {} THEN 0 ELSE Min(found)

\* The tokens from an opening to the next closing marker, <<0, 0>> when there
\* are none from there on.
NextBlock(s, from) ==
    LET o == FirstOf("open", s, from)
        c == FirstOf("close", s, o + 1)
    IN IF o = 0 \/ c = 0 THEN <<0, 0>> ELSE <<o, c>>

SlipFileIn(s, block) ==
    LET bar == FirstOf("bar", SubSeq(s, 1, block[2]), 1)
        data == SubSeq(s, bar + 1, block[2] - 1)
    IN IF bar # 0 /\ Kinds(data) = <<"data">>
       THEN <<[name |-> SubSeq(s, block[1] + 1, bar - 1), data |-> data[1].of]>> ELSE <<>>

\* A block is a file when a bar parts its name from what decodes.
FileIn(s, block) ==
    LET bar == FirstOf("bar", SubSeq(s, 1, block[2]), block[1] + 1)
        name == SubSeq(s, block[1] + 1, bar - 1)
        data == SubSeq(s, bar + 1, block[2] - 1)
    IN IF bar # 0 /\ Kinds(data) = <<"data">>
       THEN <<[name |-> name, data |-> data[1].of]>> ELSE <<>>

Extract(s) ==
    LET from[p \in 1..Len(s) + 1] ==
            LET block == NextBlock(s, p) IN
            IF block[1] = 0 THEN <<>> ELSE FileIn(s, block) \o from[block[2] + 1]
    IN from[1]

\* Blocks go one at a time, each search from the start of what is left.
Detach(s) ==
    LET left[n \in 0..Len(s)] ==
            IF n = 0 THEN s
            ELSE LET t == left[n - 1]
                     block == NextBlock(t, 1)
                 IN IF block[1] = 0 THEN t
                    ELSE SubSeq(t, 1, block[1] - 1) \o SubSeq(t, block[2] + 1, Len(t))
    IN left[Len(s)]

-----------------------------------------------------------------------------
(* What a caller's value opens to, outside a text.                         *)

Expanded(v) == IF v.is = "compressed" THEN v.of ELSE Refusal

Enciphered(c, p, v) == IF c \in Keystream THEN Mixed(p, v) ELSE Ciphered(c, p, v)

\* A keystream makes something of any bytes; a tag tells the others' own apart.
Unprotected(c, p, v) ==
    IF p = Blank THEN Refusal
    ELSE IF c \in Keystream THEN Mixed(p, v)
    ELSE IF v.is = "protected" /\ v.under = c /\ v.pass = p THEN v.of ELSE Refusal

Unsealed(r, v) == IF v.is = "sealed" /\ v.to = r THEN v.of ELSE Refusal

-----------------------------------------------------------------------------
(* State.                                                                  *)

VARIABLES note,      \* the text a writer is preparing
          blob,      \* the bytes beside it
          typed,     \* history: what was typed of it
          attached,  \* history: what was attached to that, and by what names
          sheet,     \* the text handed over: its layer, or Unmarked
          sent,      \* history: what the writer asked for
          got        \* what the reader was given, and by what means

handed == <<note, blob, typed, attached, sheet, sent, got>>

\* A request to conceal: what it says of the layer, and who makes it.
Request(by, over, cipher, pass, to) ==
    [by |-> by, over |-> over, cipher |-> cipher, pass |-> pass, to |-> to]

SentAs(q, v) ==
    [by |-> q.by, over |-> q.over, cipher |-> q.cipher, pass |-> q.pass, to |-> q.to,
     secret |-> v]

\* A layer: a chain of at most one cipher over the body, and the body as that
\* left it; a blank passcode is no cipher to the core.  Documents older than the
\* format hold a package with a digest of what was hidden.
Layer(over, cipher, pass, v) ==
    LET none == cipher = Clear \/ pass = Blank IN
    [over |-> over, hurt |-> FALSE, old |-> FALSE, sound |-> TRUE,
     cipher |-> IF none THEN Clear ELSE cipher,
     body |-> IF none THEN v ELSE Enciphered(cipher, pass, v)]

Unmarked == Layer({}, Clear, Blank, Refusal)
NotSent == SentAs(Request("nobody", {}, Clear, Blank, NoKey), Refusal)
Nothing == [value |-> Refusal, vouched |-> FALSE, with |-> {}]

\* What old documents hide: two words, longer than what passcodes begin with.
OldWords == Note(<<Token("word"), Token("word")>>)

OldRequests ==
    {Request("before", {"zero_width"}, c, p, NoKey) : c \in Ciphers, p \in Passcode}
    \cup {Request("before", {"zero_width"}, Clear, Blank, NoKey)}

OldLayer(q, sound) ==
    [Layer(q.over, q.cipher, q.pass, OldWords) EXCEPT !.old = TRUE, !.sound = sound]

HandedInit ==
    /\ attached = <<>> /\ got = Nothing
    /\ \/ /\ note \in Typed /\ blob \in {File(size) : size \in {"empty", "small", "large"}}
          /\ sheet = Unmarked /\ sent = NotSent
       \/ /\ note = <<>> /\ blob = File("small")
          /\ \E q \in OldRequests, sound \in BOOLEAN :
                sheet = OldLayer(q, sound) /\ sent = SentAs(q, OldWords)
    /\ typed = note

-----------------------------------------------------------------------------
(* Preparing.                                                              *)

Preparing == sheet = Unmarked

Bench(v) ==
    /\ blob' = v
    /\ UNCHANGED <<note, typed, attached, sheet, sent, got>>

\* Values are prepared at most twice: bound.
Shallow(v) == v.is = "file" \/ (v.is = "compressed" /\ v.of.is = "file")

Compress == Preparing /\ Shallow(blob) /\ Bench(Compressed(blob))

Protect ==
    /\ Preparing /\ Shallow(blob)
    /\ \E c \in Ciphers, p \in Passcode, v \in {blob, Note(note)} : Bench(Enciphered(c, p, v))

Seal == Preparing /\ Shallow(blob) /\ \E r \in Recipient : Bench(Sealed(r, Note(note)))

\* More than a hundred kilobytes, which a cipher does not make less.
TooLarge(v) == File("large") \in {v} \cup (IF v.is \in {"protected", "streamed"} THEN {v.of} ELSE {})

\* Refused are a bar in the name and too large a file, on every surface; on the
\* desktop a blank name and an empty file as well.
Attachable(by, name, v) ==
    /\ "bar" \notin Range(Kinds(name)) /\ ~TooLarge(v)
    /\ by = "desktop" => name # <<>> /\ v # File("empty")

Attach ==
    /\ Preparing /\ Len(note) <= MaxNote
    /\ \E by \in {"desktop", "agent"}, name \in Names :
        /\ Attachable(by, name, blob)
        /\ note' = Embed(note, name, blob)
        /\ attached' = Append(attached, [name |-> name, data |-> blob])
    /\ UNCHANGED <<blob, typed, sheet, sent, got>>

DetachAll ==
    /\ Preparing /\ note' = Detach(note) /\ typed' = note' /\ attached' = <<>>
    /\ UNCHANGED <<blob, sheet, sent, got>>

-----------------------------------------------------------------------------
(* Concealing.                                                             *)

Single == {s \in Chosen : Cardinality(s) = 1}

SlipCipherFrom == {<<Clear, Blank>>} \cup Ciphers \X (Passcode \cup {Blank})

\* With a cipher a passcode, or the request is refused.
CipherFrom == {<<Clear, Blank>>} \cup Ciphers \X Passcode

\* The older surfaces know one cipher and pass on a blank passcode.
EncryptWith == {<<Clear, Blank>>} \cup
    ({"chacha20_poly1305"} \cap Ciphers) \X (Passcode \cup {Blank})

Compose == {Request("desktop", s, k[1], k[2], NoKey) : s \in Chosen, k \in CipherFrom}
ComposeSealed == {Request("desktop", s, Clear, Blank, r) : s \in Chosen, r \in Recipient}
Encode == {Request("cli", {c}, k[1], k[2], r) :
              c \in UNION Single, k \in EncryptWith, r \in Recipient \cup {NoKey}}
HandleEncode == {Request("http", {c}, k[1], k[2], NoKey) : c \in UNION Single, k \in EncryptWith}
ConcealWith == {Request("agent", s, k[1], k[2], r) :
               s \in Chosen, k \in CipherFrom, r \in Recipient \cup {NoKey}}

\* The commands over a text file, of three surfaces, take the same.
Filed(by) == {Request(by, s, k[1], k[2], NoKey) : s \in Chosen, k \in CipherFrom}
FileConceal == Filed("desktop file")
FileConcealCommand == Filed("cli file")
RunFileConceal == Filed("agent file")

Requests ==
    Compose \cup ComposeSealed \cup Encode \cup HandleEncode \cup ConcealWith
    \cup FileConceal \cup FileConcealCommand \cup RunFileConceal

\* Bytes that are not text are hidden by agents alone, and nothing at all by the
\* command line and the server.
Hideable(q) ==
    {v \in {Note(note)} \cup (IF q.by = "agent" THEN {blob} ELSE {}) :
        Void(v) => q.by \in {"cli", "http"}}

Addressed(q, v) == IF q.to = NoKey THEN v ELSE Sealed(q.to, v)

SlipLayerOf(q, v) ==
    [Layer(q.over, q.cipher, q.pass, Addressed(q, v)) EXCEPT !.cipher = q.cipher]

LayerOf(q, v) == Layer(q.over, q.cipher, q.pass, Addressed(q, v))

\* The cover has the room, or nothing is written.
Write ==
    /\ Preparing
    /\ \E q \in Requests :
       \E v \in Hideable(q) :
          /\ sheet' = LayerOf(q, v)
          /\ sent' = SentAs(q, v)
    /\ note' = <<>> /\ blob' = File("small") /\ typed' = <<>> /\ attached' = <<>>
    /\ UNCHANGED got

-----------------------------------------------------------------------------
(* On the way.  Plain text and Markdown leave as they are; a rendering may *)
(* lose a carrier's characters, or so many that a layer reads no more; the *)
(* PDF writer knows no character outside Latin-1.                          *)

Exported(target) ==
    IF target = "pdf" THEN {{}}
    ELSE IF target = "rendered" THEN SUBSET sheet.over
    ELSE {sheet.over}

\* One export: bound.
Export ==
    /\ sheet # Unmarked /\ sheet.over = sent.over /\ got = Nothing
    /\ \E target \in {"text", "rendered", "pdf"}, hurt \in BOOLEAN :
       \E left \in Exported(target) :
          /\ hurt => target = "rendered" /\ left # {}
          /\ sheet' = [sheet EXCEPT !.over = left, !.hurt = @ \/ hurt]
    /\ UNCHANGED <<note, blob, typed, attached, sent, got>>

-----------------------------------------------------------------------------
(* Revealing.                                                              *)

\* The layer's cipher reverted, where it is offered.
Reverted(offered, p) ==
    IF sheet.cipher = Clear THEN sheet.body
    ELSE IF sheet.cipher \notin offered THEN Refusal
    ELSE Unprotected(sheet.cipher, p, sheet.body)

\* What an old package that was altered opens to.
Damaged(v) ==
    IF v = Refusal \/ sheet.sound THEN v
    ELSE IF sheet.cipher \in Aead THEN Refusal ELSE Noise

SlipDecode(cands, offered, p) ==
    LET v == Damaged(Reverted(offered, p)) IN
    IF sheet.over \cap cands = {} \/ sheet.hurt
    THEN [value |-> Refusal, integrity |-> FALSE]
    ELSE [value |-> v, integrity |-> v # Refusal]

\* What the core answers, and whether it vouches for it.  The digest of an old
\* document is of what was hidden; the checksum of a layer covers what the
\* keystream made of it.
Decode(cands, offered, p) ==
    LET v == Damaged(Reverted(offered, p)) IN
    IF sheet.over \cap cands = {} \/ sheet.hurt
    THEN [value |-> Refusal, integrity |-> FALSE]
    ELSE [value |-> v, integrity |-> v # Refusal /\ (sheet.old => v = OldWords)]

\* The secret half of a key, when one is given, is tried on what came out.
Opened(r, v) == IF r = NoKey \/ v = Refusal THEN v ELSE Unsealed(r, v)

\* The desktop shows what reads as text, and of other bytes the size; what is
\* under a keystream, or altered, may read as text.
AsText(v) ==
    IF IsText(v) \/ v.is \in {"refusal", "noise", "streamed"} THEN v ELSE [is |-> "size"]

\* The HTTP server says so in words.
InWords(v) == IF AsText(v) = v THEN v ELSE [is |-> "placeholder"]

Given(v, vouched, with) ==
    [value |-> v, vouched |-> vouched, with |-> with \ {Blank, NoKey}]

RevealCore(cands, p, r) ==
    LET d == Decode(cands, Aead \cup Keystream, p) IN
    Given(AsText(Opened(r, d.value)), d.integrity, {p, r})

Reveal(cands, p) == RevealCore(cands, p, NoKey)
RevealSealed(cands, r) == RevealCore(cands, Blank, r)

\* The text is read out of its file, and then as any other.
FileDecode(cands, p) == Reveal(cands, p)

\* What only the recovery sweep found is withheld until it is asked for.
RevealTraced(p, recovery) ==
    IF sheet.old /\ ~recovery THEN Nothing ELSE Reveal(Carrier, p)

DecodeCommand(c, p, r) ==
    LET d == Decode({c}, {"chacha20_poly1305"}, p) IN
    Given(Opened(r, d.value), d.integrity, {p, r})

HandleDecode(c, p) ==
    LET d == Decode({c}, {"chacha20_poly1305"}, p) IN
    Given(InWords(d.value), d.integrity, {p})

\* The agent keeps back what is not vouched for.
RunReveal(cands, offered, p, r, accept) ==
    LET d == Decode(cands, offered, p) IN
    IF d.integrity \/ accept THEN Given(Opened(r, d.value), d.integrity, {p, r}) ELSE Nothing

Passes == Passcode \cup {Blank}
Keys == Recipient \cup {NoKey}
Offers == {Aead \cup Keystream} \cup {{k} : k \in Ciphers}

Readings ==
    {Reveal(s, p) : s \in Single \cup {Carrier}, p \in Passes}
    \cup {FileDecode(s, p) : s \in Single \cup {Carrier}, p \in Passes}
    \cup {RevealSealed(s, r) : s \in Single \cup {Carrier}, r \in Recipient}
    \cup {RevealTraced(p, w) : p \in Passes, w \in BOOLEAN}
    \cup {DecodeCommand(c, p, r) : c \in UNION Single, p \in Passes, r \in Keys}
    \cup {HandleDecode(c, p) : c \in UNION Single, p \in Passes}
    \cup {RunReveal(s, o, p, r, a) :
             s \in Chosen, o \in Offers, p \in Passes, r \in Keys, a \in BOOLEAN}

\* One reading: bound.
Read ==
    /\ sheet # Unmarked /\ got = Nothing
    /\ got' \in {g \in Readings : g.value # Refusal}
    /\ UNCHANGED <<note, blob, typed, attached, sheet, sent>>

-----------------------------------------------------------------------------
(* Opening what came out, one wrapping after the other.  A tag vouches for *)
(* what it opened, a keystream for nothing.                                *)

Unwrapped(v, vouched, with) ==
    {Given(Expanded(v), vouched, with)}
    \cup {Given(Unsealed(r, v), vouched, with \cup {r}) : r \in Recipient}
    \cup {Given(Unprotected(c, p, v), vouched /\ c \in Aead, with \cup {p}) :
             c \in Ciphers, p \in Passes}
    \cup (IF IsText(v) THEN {Given(f.data, vouched, with) : f \in Range(Extract(v.says))} ELSE {})

Unwrap ==
    /\ got # Nothing /\ got.value.is \notin {"size", "placeholder"}
    /\ got' \in {g \in Unwrapped(got.value, got.vouched, got.with) : g.value # Refusal}
    /\ UNCHANGED <<note, blob, typed, attached, sheet, sent>>

HandedNext ==
    \/ Compress \/ Protect \/ Seal \/ Attach \/ DetachAll
    \/ Write \/ Export \/ Read \/ Unwrap

HandedSpec == HandedInit /\ [][HandedNext]_handed

-----------------------------------------------------------------------------
(* Properties.                                                             *)

\* What is wrapped in a value, and in that, as far as writers wrap.
Wrapped(v) ==
    IF IsText(v) THEN {t.of : t \in {t \in Range(v.says) : t.tok = "data"}}
    ELSE IF v.is \in {"compressed", "protected", "streamed", "sealed"} THEN {v.of} ELSE {}

Further(S) == S \cup UNION {Wrapped(u) : u \in S}
Stages(v) == Further(Further(Further(Further(Further({v})))))

Placed == Addressed(sent, sent.secret)

\* The keystreams a reader has who brings these passcodes, as far as what was
\* hidden reaches, and those it was hidden under.
Brought == UNION {KeyOver(p, Placed) : p \in got.with \cap Passcode}
Locks ==
    IF sent.cipher \in Keystream /\ sent.pass # Blank
    THEN StreamsOf(Mixed(sent.pass, Placed)) ELSE StreamsOf(Placed)

Explained(v) == v \in Stages(Placed) \cup {[is |-> "size"], [is |-> "placeholder"]}

\* What a reader is given and told to be intact is what the writer hid, or what
\* was wrapped in it, whatever surface wrote, exported, revealed and opened it;
\* only a keystream makes of another passcode's what a surface vouches for, and
\* never of a document older than the format (decode, run_reveal, reveal_core,
\* handle_decode, run_unprotect_payload, pqc::open).
AnswersAreTrue ==
    got.vouched => \/ Explained(got.value)
                   \/ /\ Below(got.value) = Below(Placed) /\ ~sheet.old
                      /\ sheet.cipher \in Keystream
                      /\ ~(KeyOver(sent.pass, Placed) \subseteq Brought)

\* Nobody has the secret who did not bring what the writer locked it with: the
\* key of the recipient it was sealed to; the passcode of a cipher with a tag;
\* and every keystream that is still on it in the document, where two passes
\* under one passcode leave none, and passcodes that begin alike are one to a
\* short text.  And the surfaces that refuse a blank passcode have locked it
\* (crypto_selection, cipher_from, compose_core, run_conceal, conceal_file,
\* run_protect_payload, Xor::derive_key).
OnlyTheAddressed ==
    /\ Below(got.value) \in Stages(sent.secret) \ {Placed} => sent.to \in got.with \cup {NoKey}
    /\ sent.cipher \in Aead /\ Below(got.value) \in Stages(Placed) =>
        sent.pass \in got.with \cup {Blank}
    /\ StreamsOf(got.value) = {} /\ got.value \in Stages(Below(Placed)) => Locks \subseteq Brought
    /\ sent.cipher # Clear /\ sent.by \notin {"cli", "http"} => sent.pass # Blank

\* What the writer's own surface reads with all that the writer knows, and what
\* an agent does.
OwnReadings ==
    {RunReveal(s, Aead \cup Keystream, sent.pass, sent.to, FALSE) :
        s \in {t \in Chosen : t \cap sent.over # {}}}
    \cup (CASE sent.by = "desktop" /\ sent.to = NoKey ->
                 {Reveal(s, sent.pass) : s \in {sent.over, Carrier} \cap (Single \cup {Carrier})}
           [] sent.by = "desktop file" ->
                 {FileDecode(s, sent.pass) : s \in {sent.over, Carrier} \cap (Single \cup {Carrier})}
           [] sent.by = "desktop" /\ sent.to # NoKey -> {RevealSealed(Carrier, sent.to)}
           [] \/ sent.by = "cli"
              \/ sent.by = "cli file" /\ sent.cipher \in {Clear, "chacha20_poly1305"} ->
                 {DecodeCommand(c, sent.pass, sent.to) : c \in sent.over}
           [] sent.by = "http" -> {HandleDecode(c, sent.pass) : c \in sent.over}
           [] OTHER -> {})

\* What was handed over as it was written reads back on the surface that wrote
\* it and, whichever that was, with an agent; but files concealed from the
\* command line under another cipher than the one its Decode knows do not read
\* there (compose against reveal, compose_sealed against reveal_sealed, Encode
\* against Decode, handle_encode against handle_decode, file_conceal against
\* file_decode, each against run_reveal).
OwnersRead ==
    sheet # Unmarked /\ ~sheet.old /\ ~sheet.hurt /\ sheet.over = sent.over =>
        \A g \in OwnReadings : g.value = sent.secret /\ g.vouched

\* What was attached to a note comes back whole, by its name and in order, and
\* detaching leaves what was typed, unless an opening marker was typed as well or
\* a name holds a closing one (FileEmbed::embed, extract and strip).
AttachmentsReturn ==
    /\ "open" \notin Range(Kinds(typed))
    /\ \A file \in Range(attached) : "close" \notin Range(Kinds(file.name))
    => Extract(note) = attached /\ Detach(note) = typed
=============================================================================
