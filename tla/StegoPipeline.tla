--------------------------- MODULE StegoPipeline ---------------------------
(***************************************************************************)
(* The compose and reveal paths of stegano-core (pipeline.rs, format/).    *)
(* One document is composed into at most MaxComposes times, is altered by  *)
(* the world at most MaxDamage times, and is then read by the decode       *)
(* cascade, one wave per step.                                             *)
(*                                                                         *)
(* A text is what each carrier's own alphabet holds in it: the alphabets   *)
(* are pairwise disjoint, so a text is a function from carriers to the     *)
(* contents of their channels.  Bits are abstracted to what the readers    *)
(* tell apart: whether a header reads, whether the bytes behind it are the *)
(* ones that were written, and what those bytes were sealed under.         *)
(*                                                                         *)
(* Checksums and authentication tags are taken to be exact: accidental     *)
(* damage never collides, and never alters two channels in the same way.   *)
(***************************************************************************)
EXTENDS Naturals, Sequences, FiniteSets

CONSTANTS
    Inserting,      \* carriers the cover's slots bound (whitespace_var, bidi)
    Overflowing,    \* carriers that extend the document (zero_width)
    Rewriting,      \* carriers that substitute visible letters (homoglyph)
    Rank,           \* the order candidates are offered in, a number per carrier
    Keyed,          \* ciphers with a keyed, authenticated path
    Legacy,         \* ciphers that authenticate nothing (xor, caesar)
    Secrets,        \* the byte strings a user hides
    Noise,          \* what reading bytes nobody wrote returns
    Passcodes,      \* non-empty passcodes
    Covers,         \* the covers: how many light frames each carrier's slots hold
    Packages,       \* carriers in which a cover may hold a pre-format document
    CandidateSets,  \* the sets of candidate carriers a reader may offer
    CipherOffers,   \* the sets of ciphers a reader may have
    MaxStack,       \* bound: carriers in one stack
    MaxComposes,    \* bound: compose calls on one document
    MaxDamage       \* bound: alterations of one document in transit

Carriers == Inserting \cup Overflowing \cup Rewriting
Ciphers  == Keyed \cup Legacy

\* The empty passcode, and the choice of no cipher.
NoPasscode == "no passcode"
NoCipher   == "no cipher"
\* The chain step of the CRC-32, and a step no build knows.
Integrity  == "crc32"
Unknown    == "unknown step"

\* A heavy frame takes the room of HeavyFrames light ones; a frame stays under
\* the Conceal ceiling on a cover that holds ConcealFrames of them.
HeavyFrames   == 2
ConcealFrames == 3

ASSUME CarriersAssumption ==
    /\ Inserting \cap Overflowing = {}
    /\ Inserting \cap Rewriting = {}
    /\ Overflowing \cap Rewriting = {}
    /\ Rank \in [Carriers -> Nat]
    /\ \A c, d \in Carriers : Rank[c] = Rank[d] => c = d
    \* a list of candidates has a last one
    /\ \A S \in (SUBSET Carriers) \ {{}} :
           \E c \in S : \A d \in S : Rank[d] <= Rank[c]

ASSUME NamesAssumption ==
    /\ Keyed \cap Legacy = {}
    /\ {"no", "mangled"} \cap Carriers = {}
    /\ NoCipher \notin Ciphers
    \* the ids of the waves are told apart
    /\ Carriers \cap Ciphers = {}
    /\ {"identify", "envelope", "recovery_sweep", Integrity, Unknown}
           \cap (Carriers \cup Ciphers) = {}

ASSUME DataAssumption ==
    /\ Noise \notin Secrets
    /\ NoPasscode \notin Passcodes
    /\ Covers \subseteq [Carriers -> Nat]
    /\ Packages \subseteq Carriers
    /\ CandidateSets \subseteq (SUBSET Carriers) \ {{}}
    /\ CipherOffers \subseteq SUBSET Ciphers
    /\ MaxStack \in Nat /\ MaxComposes \in Nat /\ MaxDamage \in Nat

-----------------------------------------------------------------------------
(* What a channel can hold.                                                *)

Salts == 0..MaxComposes           \* 0 is the zero salt of a plain light frame

\* Bytes of a payload: the secret, the transforms still applied to it, what
\* they were keyed with, and whether they were altered since they were written.
Bodies == [secret : Secrets \cup {Noise}, on : Seq(Ciphers \cup {Integrity}),
           pass : Passcodes \cup {NoPasscode}, salt : Salts,
           hit : Carriers \cup {"no", "mangled"}]

Envelopes == [parses : BOOLEAN,
              chain : Seq(Ciphers \cup {Integrity, Unknown}),
              body : Bodies]

\* One frame: its header reads ("ok"), shows only its magic and version
\* ("torn"), or is not seen at all ("lost").
Frames == [head : {"ok", "torn", "lost"}, salt : Salts, env : Envelopes]

Nothing == [form |-> "empty"]
Stray   == [form |-> "stray"]

Layers == {Nothing, Stray}
    \cup [form : {"light"}, copies : Seq(Frames)]
    \cup [form : {"heavy"}, tail : BOOLEAN, frame : Frames]
    \cup [form : {"package"}, cipher : Ciphers \cup {NoCipher}, body : Bodies]

Texts == [Carriers -> Layers]

-----------------------------------------------------------------------------
(* The frame readers.                                                      *)

\* Is this channel framed at all: either preamble replica of a heavy frame, or
\* any light frame whose header holds.
IsFramed(layer) ==
    \/ layer.form = "heavy" /\ (layer.frame.head = "ok" \/ layer.tail)
    \/ /\ layer.form = "light"
       /\ \E i \in DOMAIN layer.copies : layer.copies[i].head = "ok"

\* The first light frame of the channel whose header holds.
FirstWhole(copies) ==
    CHOOSE i \in DOMAIN copies :
        /\ copies[i].head = "ok"
        /\ \A j \in DOMAIN copies : copies[j].head = "ok" => i <= j

\* A light frame that shows its version at the start of the stream is read
\* there, whatever follows it; the scan is for streams that open otherwise.
ReadsLight(layer) ==
    /\ layer.form = "light"
    /\ layer.copies[1].head # "torn"
    /\ IsFramed(layer)

\* A heavy frame reads only with both replicas, and identical.
ReadsHeavy(layer) ==
    /\ layer.form = "heavy"
    /\ layer.frame.head = "ok"
    /\ layer.tail

ReadsLayer(layer) == ReadsLight(layer) \/ ReadsHeavy(layer)

LayerFrame(layer) ==
    IF layer.form = "heavy" THEN layer.frame ELSE layer.copies[FirstWhole(layer.copies)]

-----------------------------------------------------------------------------
VARIABLES
    doc,        \* the text as the user holds it
    cover,      \* how many light frames each carrier's slots hold in it
    composes,   \* compose calls made, also the number of the last salt drawn
    damage,     \* alterations made in transit
    job,        \* the compose in progress, or Idle
    reading,    \* the decode in progress, or Idle
    ask,        \* what the last decode was offered, or NoAsk
    trace,      \* the waves of the last decode
    answer,     \* what the last call returned
    sealed      \* every secret ever composed, with its cipher and passcode

vars == <<doc, cover, composes, damage, job, reading, ask, trace, answer, sealed>>

Claims == [secret : Secrets, cipher : Ciphers \cup {NoCipher},
           pass : Passcodes \cup {NoPasscode}]

Idle == [phase |-> "idle"]
NoAnswer == [kind |-> "none"]

\* A call is running, or has returned something its caller has not taken yet.
Busy == job # Idle \/ reading # Idle \/ answer # NoAnswer

Jobs == [phase : {"placing"}, stack : Seq(Carriers), placed : Nat, draft : Texts,
         mode : {"light", "heavy", "saturated"}, conceal : BOOLEAN,
         frame : Frames, claim : Claims]

Readings == [phase : {"layers", "chain", "recovery"}, todo : SUBSET Carriers,
             text : Texts, found : Seq(Frames),
             left : Nat, body : Bodies]

NoAsk == [cands |-> {}, offered |-> {}, pass |-> NoPasscode]
Asks  == [cands : SUBSET Carriers, offered : SUBSET Ciphers,
          pass : Passcodes \cup {NoPasscode}]

Waves == [wave : {"identify", "envelope", "recovery_sweep", Integrity, Unknown}
                 \cup Carriers \cup Ciphers,
          oracle : {"aead", "checksum", "none"},
          verdict : {"passed", "failed", "undetermined"}]

Answers == [kind : {"none", "composed", "refused", "failed", "nothing"}]
    \cup [kind : {"secret"}, value : Secrets \cup {Noise},
          integrity : BOOLEAN, recovered : BOOLEAN]

TypeOK ==
    /\ doc \in Texts
    /\ cover \in [Carriers -> Nat]
    /\ composes \in 0..MaxComposes
    /\ damage \in 0..MaxDamage
    /\ job \in Jobs \cup {Idle}
    /\ reading \in Readings \cup {Idle}
    /\ ask \in Asks
    /\ trace \in Seq(Waves)
    /\ answer \in Answers
    /\ sealed \subseteq Claims

\* A cover arrives empty, holding characters of a carrier's alphabet that are
\* its own writing, or holding a document of the pre-format era.
PackageOf(secret, cipher, pass) ==
    [form |-> "package", cipher |-> cipher,
     body |-> [secret |-> secret, on |-> <<>>, pass |-> pass, salt |-> 0, hit |-> "no"]]

ArrivingLayers(c) ==
    {Nothing, Stray} \cup
    {PackageOf(s, k, p) : s \in {t \in Secrets : c \in Packages},
                          k \in Ciphers, p \in Passcodes} \cup
    {PackageOf(s, NoCipher, NoPasscode) : s \in {t \in Secrets : c \in Packages}}

Init ==
    /\ cover \in Covers
    /\ doc \in {t \in [Carriers -> UNION {ArrivingLayers(c) : c \in Carriers}] :
                 /\ \A c \in Carriers : t[c] \in ArrivingLayers(c)
                 /\ Cardinality({c \in Carriers : t[c] # Nothing}) <= 1}
    /\ composes = 0 /\ damage = 0
    /\ job = Idle /\ reading = Idle /\ ask = NoAsk
    /\ trace = <<>> /\ answer = NoAnswer
    /\ sealed = {}

-----------------------------------------------------------------------------
(* Compose: seal once, then one layer per carrier of the stack.            *)

\* The carriers of a stack have disjoint alphabets (so none occurs twice), and
\* one that rewrites visible text runs last.
ValidateComposition(stack) ==
    /\ \A i, j \in DOMAIN stack : stack[i] = stack[j] => i = j
    /\ \A i \in DOMAIN stack : stack[i] \in Rewriting => i = Len(stack)

\* Transforms in the order they are applied.  An empty passcode is no cipher,
\* and what no authenticated cipher covers is covered by the integrity step.
ChainOf(claim) ==
    CASE claim.cipher \in Keyed  -> <<claim.cipher>>
      [] claim.cipher \in Legacy -> <<claim.cipher, Integrity>>
      [] OTHER                   -> <<Integrity>>

\* A keyed cipher is keyed by a fresh salt, drawn with the n-th compose.
Seal(claim, n) ==
    [parses |-> TRUE, chain |-> ChainOf(claim),
     body |-> [secret |-> claim.secret, on |-> ChainOf(claim), pass |-> claim.pass,
               salt |-> IF claim.cipher \in Keyed THEN n ELSE 0, hit |-> "no"]]

\* Slip: the light frame never carries a salt.
SlipFrameOf(claim, mode, n) ==
    [head |-> "ok", env |-> Seal(claim, n), salt |-> IF mode = "heavy" THEN n ELSE 0]

\* The heavy frame always carries a salt, the light one only beside a keyed cipher.
FrameOf(claim, mode, n) ==
    [head |-> "ok", env |-> Seal(claim, n),
     salt |-> IF mode = "heavy" \/ claim.cipher \in Keyed THEN n ELSE 0]

StartCompose(stack, claim, mode, conceal) ==
    /\ ~Busy
    /\ composes < MaxComposes
    /\ stack # <<>>
    /\ ValidateComposition(stack)
    /\ composes' = composes + 1
    /\ job' = [phase |-> "placing", stack |-> stack, placed |-> 0, draft |-> doc,
               mode |-> mode, conceal |-> conceal,
               frame |-> FrameOf(claim, mode, composes + 1), claim |-> claim]
    /\ UNCHANGED <<doc, cover, damage, reading, ask, trace, answer, sealed>>

\* No carrier, or an unsound stack: refused before any text is touched.
RefuseCompose(stack) ==
    /\ ~Busy
    /\ composes < MaxComposes
    /\ stack = <<>> \/ ~ValidateComposition(stack)
    /\ composes' = composes + 1
    /\ answer' = [kind |-> "refused"]
    /\ UNCHANGED <<doc, cover, damage, job, reading, ask, trace, sealed>>

FramesNeeded(mode) == IF mode = "heavy" THEN HeavyFrames ELSE 1

\* Slip: the carrier is not asked whether its channel is free.
SlipCanPlace(c, text) ==
    /\ (job.conceal /\ job.mode # "saturated") => cover[c] >= ConcealFrames
    /\ c \in Overflowing \/ cover[c] >= FramesNeeded(job.mode)

\* The gates of one carrier on the text it is about to receive: the Conceal
\* ceiling, room where the cover bounds the carrier, and a channel that is free.
\* Saturation takes no mission, and leaves the room to the carrier's own refusal.
CanPlace(c, text) ==
    /\ (job.conceal /\ job.mode # "saturated") => cover[c] >= ConcealFrames
    /\ c \in Overflowing \/ cover[c] >= FramesNeeded(job.mode)
    /\ text[c] = Nothing

\* Saturation repeats the frame as often as the slots hold it, once at least.
LayerOf(c) ==
    IF job.mode = "heavy" THEN [form |-> "heavy", tail |-> TRUE, frame |-> job.frame]
    ELSE [form |-> "light",
          copies |-> [i \in 1..(IF job.mode = "saturated" /\ cover[c] > 1 THEN cover[c] ELSE 1)
                        |-> job.frame]]

NextCarrier == job.stack[job.placed + 1]

\* One layer, read back before it counts.
PlaceLayer ==
    /\ job # Idle /\ job.placed < Len(job.stack)
    /\ CanPlace(NextCarrier, job.draft)
    /\ ReadsLayer(LayerOf(NextCarrier)) /\ LayerFrame(LayerOf(NextCarrier)) = job.frame
    /\ job' = [job EXCEPT !.draft = [@ EXCEPT ![NextCarrier] = LayerOf(NextCarrier)],
                          !.placed = @ + 1]
    /\ UNCHANGED <<doc, cover, composes, damage, reading, ask, trace, answer, sealed>>

\* One refusal refuses the compose: the draft is dropped, the document stands.
RefuseLayer ==
    /\ job # Idle /\ job.placed < Len(job.stack)
    /\ ~CanPlace(NextCarrier, job.draft)
    /\ job' = Idle
    /\ answer' = [kind |-> "refused"]
    /\ UNCHANGED <<doc, cover, composes, damage, reading, ask, trace, sealed>>

FinishCompose ==
    /\ job # Idle /\ job.placed = Len(job.stack)
    /\ doc' = job.draft
    /\ sealed' = sealed \cup {job.claim}
    /\ job' = Idle
    /\ answer' = [kind |-> "composed"]
    /\ UNCHANGED <<cover, composes, damage, reading, ask, trace>>

-----------------------------------------------------------------------------
(* Transit: what a copy, a sanitiser or an excerpt does to the text.       *)

\* What the bytes behind an intact header can be after an alteration in c: no
\* envelope at all, an envelope of other bytes, one whose chain lost its steps
\* (a single bit of the length before it), one that names another step.
Altered(env, c) ==
    LET hit == [env.body EXCEPT !.hit = c] IN
    {[env EXCEPT !.parses = FALSE, !.body = hit], [env EXCEPT !.body = hit],
     [env EXCEPT !.chain = <<>>, !.body = hit],
     [env EXCEPT !.chain = <<Unknown>>, !.body = hit]}

AlteredFrames(f, c) ==
    {[f EXCEPT !.head = h] : h \in {"torn", "lost"}} \cup
    {[f EXCEPT !.env = e] : e \in Altered(f.env, c)}

AlteredLayers(layer, c) ==
    CASE layer.form = "light" ->
            {Nothing} \cup
            {[layer EXCEPT !.copies[i] = f] :
                f \in UNION {AlteredFrames(layer.copies[j], c) : j \in DOMAIN layer.copies},
                i \in DOMAIN layer.copies}
      [] layer.form = "heavy" ->
            {Nothing, [layer EXCEPT !.tail = FALSE]} \cup
            {[layer EXCEPT !.frame = f] : f \in AlteredFrames(layer.frame, c)}
      [] layer.form = "package" -> 
            {Nothing, Stray} \cup {[layer EXCEPT !.body.hit = h] : h \in {c, "mangled"}}
      [] OTHER -> {Nothing}

Touched ==
    /\ ~Busy /\ damage < MaxDamage
    /\ damage' = damage + 1
    /\ UNCHANGED <<cover, composes, job, reading, ask, trace, answer, sealed>>

\* One channel is altered, or swept away with its alphabet.
AlterChannel(c) ==
    /\ Touched
    /\ doc[c] # Nothing
    /\ \E layer \in AlteredLayers(doc[c], c) : doc' = [doc EXCEPT ![c] = layer]

\* An excerpt opens past the start of the document, in every channel at once.
Excerpt ==
    LET Cut(layer) ==
            CASE layer.form = "light" -> [layer EXCEPT !.copies[1].head = "lost"]
              [] layer.form = "heavy" -> [layer EXCEPT !.frame.head = "lost"]
              [] layer.form = "package" -> Stray
              [] OTHER -> layer
    IN /\ Touched
       /\ doc' = [c \in Carriers |-> Cut(doc[c])]
       /\ doc' # doc

-----------------------------------------------------------------------------
(* Reveal: the decode cascade.                                             *)

Wave(w, o, v) == [wave |-> w, oracle |-> o, verdict |-> v]

\* Which candidates hold a frame is the one heuristic of the cascade.
Identified(cands) == {c \in cands : IsFramed(doc[c])}

StartDecode(cands, offered, pass) ==
    /\ ~Busy
    /\ ask' = [cands |-> cands, offered |-> offered, pass |-> pass]
    /\ trace' = <<Wave("identify", "checksum", "passed")>>
    /\ reading' = [phase |-> IF Identified(cands) = {} THEN "recovery" ELSE "layers",
                   todo |-> Identified(cands), text |-> doc, found |-> <<>>, left |-> 0,
                   body |-> [secret |-> Noise, on |-> <<>>, pass |-> NoPasscode,
                             salt |-> 0, hit |-> "no"]]
    /\ UNCHANGED <<doc, cover, composes, damage, job, answer, sealed>>

\* No candidate: refused with an empty trace.
RefuseDecode ==
    /\ ~Busy
    /\ answer' = [kind |-> "refused"]
    /\ UNCHANGED <<doc, cover, composes, damage, job, reading, ask, trace, sealed>>

InPhase(p) == reading # Idle /\ reading.phase = p

\* A wave that cannot keep its promise names itself and halts the cascade.
Halt(w, o) ==
    /\ trace' = Append(trace, Wave(w, o, "failed"))
    /\ answer' = [kind |-> "failed"]
    /\ reading' = Idle
    /\ UNCHANGED <<doc, cover, composes, damage, job, ask, sealed>>

Pass(w, o) == trace' = Append(trace, Wave(w, o, "passed"))

\* Slip: layers are read in the order they were applied.
SlipOutermost(S) == CHOOSE c \in S : \A d \in S : Rank[c] <= Rank[d]

\* Carriers are peeled off in the reverse of the order they were offered in.
Outermost(S) == CHOOSE c \in S : \A d \in S : Rank[d] <= Rank[c]
Innermost(S) == CHOOSE c \in S : \A d \in S : Rank[c] <= Rank[d]

\* Slip: a layer that reads is not compared with the one above it.
SlipLayerHolds(c) == ReadsLayer(reading.text[c])

\* Each layer is a complete copy, so a layer must agree with the one above it.
LayerHolds(c) ==
    /\ ReadsLayer(reading.text[c])
    /\ reading.found # <<>> => reading.found[1].env = LayerFrame(reading.text[c]).env

LayerWave ==
    /\ InPhase("layers") /\ reading.todo # {}
    /\ LET c == Outermost(reading.todo) IN
        \/ /\ LayerHolds(c)
           /\ Pass(c, "checksum")
           /\ reading' = [reading EXCEPT !.todo = @ \ {c},
                              !.found = <<LayerFrame(reading.text[c])>>,
                              !.text = [@ EXCEPT ![c] = Nothing]]
           /\ UNCHANGED <<doc, cover, composes, damage, job, ask, answer, sealed>>
        \/ ~LayerHolds(c) /\ Halt(c, "checksum")

EnvelopeWave ==
    /\ InPhase("layers") /\ reading.todo = {}
    /\ LET env == reading.found[1].env IN
        \/ /\ env.parses
           /\ Pass("envelope", "none")
           /\ reading' = [reading EXCEPT !.phase = "chain", !.left = Len(env.chain),
                                         !.body = env.body]
           /\ UNCHANGED <<doc, cover, composes, damage, job, ask, answer, sealed>>
        \/ ~env.parses /\ Halt("envelope", "none")

\* The transform a body was last put through, and that body without it.
IsOutside(step, body) == body.on # <<>> /\ body.on[Len(body.on)] = step
Peeled(body) == [body EXCEPT !.on = [i \in 1..(Len(@) - 1) |-> @[i]]]

CanTry(step) == step \in ask.offered /\ ask.pass # NoPasscode

\* Slip: bytes come out of the cipher before their tag is verified.
SlipReverts(step, body, salt) ==
    \/ step = Integrity /\ IsOutside(step, body) /\ body.hit = "no"
    \/ step \in Ciphers /\ CanTry(step) /\ IsOutside(step, body)

\* Whether one chain step reverts: the checksum over the bytes it was taken of,
\* the tag under the key of this passcode and this document's salt.  A legacy
\* cipher reverts under any passcode.
Reverts(step, body, salt) ==
    \/ step = Integrity /\ IsOutside(step, body) /\ body.hit = "no"
    \/ /\ step \in Keyed /\ CanTry(step)
       /\ IsOutside(step, body) /\ body.hit = "no"
       /\ body.pass = ask.pass /\ body.salt = salt
    \/ step \in Legacy /\ CanTry(step)

\* What it reverts to.  Another passcode's key stream over a legacy cipher
\* yields bytes nobody wrote.
Reverted(step, body) ==
    IF step \in Legacy /\ ~(IsOutside(step, body) /\ body.pass = ask.pass)
    THEN [body EXCEPT !.on = <<>>, !.hit = "mangled"]
    ELSE Peeled(body)

OracleOf(step) ==
    CASE step = Integrity -> "checksum"
      [] step \in Keyed /\ CanTry(step) -> "aead"
      [] OTHER -> "none"

\* Chain steps are reverted in strict reverse order, one wave each.
ChainWave ==
    /\ InPhase("chain") /\ reading.left > 0
    /\ LET step == reading.found[1].env.chain[reading.left] IN
        \/ /\ Reverts(step, reading.body, reading.found[1].salt)
           /\ Pass(step, OracleOf(step))
           /\ reading' = [reading EXCEPT !.left = @ - 1, !.body = Reverted(step, @)]
           /\ UNCHANGED <<doc, cover, composes, damage, job, ask, answer, sealed>>
        \/ /\ ~Reverts(step, reading.body, reading.found[1].salt)
           /\ Halt(step, OracleOf(step))

\* The bytes a body stands for.
Bytes(body) == IF body.hit = "no" /\ body.on = <<>> THEN body.secret ELSE Noise

\* Integrity is what the exact oracles of the trace said.
IntegrityValid ==
    \E i \in DOMAIN trace :
        trace[i].verdict = "passed" /\ trace[i].oracle \in {"aead", "checksum"}

ReturnSecret ==
    /\ InPhase("chain") /\ reading.left = 0
    /\ answer' = [kind |-> "secret", value |-> Bytes(reading.body),
                  integrity |-> IntegrityValid, recovered |-> FALSE]
    /\ reading' = Idle
    /\ UNCHANGED <<doc, cover, composes, damage, job, ask, trace, sealed>>

-----------------------------------------------------------------------------
(* Recovery: documents of the pre-format era, when no candidate is framed. *)

Parseable == {c \in ask.cands : doc[c].form = "package"}

\* A package opens when its data decodes, without a cipher or with its cipher
\* and a passcode; only a keyed cipher refuses a wrong one.
Opens(p) ==
    /\ p.body.hit # "mangled"
    /\ \/ p.cipher = NoCipher
       \/ /\ CanTry(p.cipher)
          /\ p.cipher \in Keyed => p.body.hit = "no" /\ p.body.pass = ask.pass

\* Slip: what a package holds is never held to its own checksum.
SlipOpened(p) == p.body.secret

Opened(p) ==
    IF p.body.hit = "no" /\ (p.cipher = NoCipher \/ p.body.pass = ask.pass)
    THEN p.body.secret ELSE Noise

\* The first candidate that holds a package decides.
Recover ==
    /\ InPhase("recovery")
    /\ reading' = Idle
    /\ \/ /\ Parseable = {}
          /\ trace' = Append(trace, Wave("recovery_sweep", "none", "undetermined"))
          /\ answer' = [kind |-> "nothing"]
       \/ /\ Parseable # {}
          /\ LET p == doc[Innermost(Parseable)] IN
             \/ /\ Opens(p)
                /\ Pass("recovery_sweep", "checksum")
                /\ answer' = [kind |-> "secret", value |-> Opened(p),
                              integrity |-> Opened(p) # Noise, recovered |-> TRUE]
             \/ /\ ~Opens(p)
                /\ trace' = Append(trace, Wave("recovery_sweep", "checksum", "failed"))
                /\ answer' = [kind |-> "failed"]
    /\ UNCHANGED <<doc, cover, composes, damage, job, ask, sealed>>

-----------------------------------------------------------------------------
Stacks == UNION {[1..n -> Carriers] : n \in 0..MaxStack}

Compose ==
    \/ \E stack \in Stacks, claim \in Claims,
          mode \in {"light", "heavy", "saturated"}, conceal \in BOOLEAN :
        /\ claim.cipher = NoCipher <=> claim.pass = NoPasscode
        /\ mode = "saturated" => ~conceal
        /\ StartCompose(stack, claim, mode, conceal)
    \/ \E stack \in Stacks : RefuseCompose(stack)
    \/ PlaceLayer
    \/ RefuseLayer
    \/ FinishCompose

Transit == (\E c \in Carriers : AlterChannel(c)) \/ Excerpt

Reveal ==
    \/ \E cands \in CandidateSets, offered \in CipherOffers,
          pass \in Passcodes \cup {NoPasscode} : StartDecode(cands, offered, pass)
    \/ RefuseDecode
    \/ LayerWave
    \/ EnvelopeWave
    \/ ChainWave
    \/ ReturnSecret
    \/ Recover

\* The caller takes what was returned, the trace with it.
TakeAnswer ==
    /\ answer # NoAnswer
    /\ answer' = NoAnswer /\ ask' = NoAsk /\ trace' = <<>>
    /\ UNCHANGED <<doc, cover, composes, damage, job, reading, sealed>>

Next == Compose \/ Transit \/ Reveal \/ TakeAnswer

Spec == Init /\ [][Next]_vars

-----------------------------------------------------------------------------
(* Properties.                                                             *)

\* The layers the last decode was driven by, and whether each is as written.
Driven == Identified(ask.cands)

\* A layer that reads, and reads as the very envelope of a claim.
Holds(layer, k) ==
    /\ ReadsLayer(layer)
    /\ LayerFrame(layer).env.body.hit = "no"
    /\ LayerFrame(layer).env.body.secret = k.secret
    /\ LayerFrame(layer).env.chain = ChainOf(k)
    /\ LayerFrame(layer).env.body.pass = k.pass

\* The reader offers all that a claim was sealed under.
Equipped(k) == k.cipher # NoCipher => k.cipher \in ask.offered /\ ask.pass = k.pass

Finished == ask.cands # {} /\ reading = Idle

Authenticated == \E i \in DOMAIN trace : trace[i].oracle = "aead" /\ trace[i].verdict = "passed"

\* An answer an authentication tag vouched for is a secret somebody composed
\* under that very cipher and passcode, whatever was done to the document and
\* whatever else was composed into it (pipeline.rs decode_traced, revert_step).
AuthenticatedAnswer ==
    answer.kind = "secret" /\ Authenticated =>
        \E k \in sealed :
            /\ k.secret = answer.value
            /\ k.pass = ask.pass
            /\ \E i \in DOMAIN trace : trace[i].wave = k.cipher

\* A document whose framed layers still read as one compose wrote them gives
\* its secret back to a reader equipped for it: from any stack, frame and order
\* of candidates, from an excerpt as from the whole, and whatever its unframed
\* channels hold (pipeline.rs encode, decode_traced; frame_light.rs scan_light).
RoundTrip ==
    \A k \in sealed :
        /\ Finished /\ Driven # {} /\ Equipped(k)
        /\ \A c \in Driven : Holds(doc[c], k)
        /\ \A c, d \in Driven : LayerFrame(doc[c]).env = LayerFrame(doc[d]).env
        => /\ answer.kind = "secret"
           /\ answer.value = k.secret
           /\ answer.integrity /\ ~answer.recovered

\* A secret comes out of the cascade only when every framed candidate was read
\* and all of them held the same envelope: no layer is skipped, outvoted or
\* preferred (pipeline.rs decode_traced, the comparison of copies).
CopiesAgree ==
    answer.kind = "secret" /\ ~answer.recovered =>
        /\ Driven # {}
        /\ \A c, d \in Driven :
            /\ ReadsLayer(doc[c])
            /\ LayerFrame(doc[c]).env = LayerFrame(doc[d]).env

\* The trace tells the story of the answer: nothing runs after a wave that did
\* not pass, a secret means every wave passed, a halt names the wave it stopped
\* at, and each carrier and each chain step has a wave of its own, in strict
\* reverse order (pipeline.rs decode_traced, halted, recover).
TraceTellsAnswer ==
    Finished =>
        /\ \A i \in 1..(Len(trace) - 1) : trace[i].verdict = "passed"
        /\ answer.kind = "secret" <=> trace[Len(trace)].verdict = "passed"
        /\ answer.kind = "failed" <=> trace[Len(trace)].verdict = "failed"
        /\ \A i, j \in DOMAIN trace :
            /\ trace[i].wave \in Carriers /\ trace[j].wave \in Carriers /\ i < j
               => Rank[trace[i].wave] > Rank[trace[j].wave]
            /\ trace[i].wave = Integrity /\ trace[j].wave \in Ciphers => i < j
        /\ answer.kind = "secret" /\ ~answer.recovered =>
            {trace[i].wave : i \in DOMAIN trace} \cap Carriers = Driven

\* What recovery returns as valid is what the old document held, and recovery
\* never speaks for a document one of the candidates can see a frame in.
RecoveredTruth ==
    answer.kind = "secret" /\ answer.recovered =>
        /\ Driven = {}
        /\ answer.integrity =>
            \E c \in ask.cands :
                /\ doc[c].form = "package" /\ doc[c].body.secret = answer.value
                /\ doc[c].cipher # NoCipher => doc[c].body.pass = ask.pass

\* A compose that returns has placed the whole of its stack and nothing else,
\* over no channel that held anything, each layer readable on its own; one that
\* refuses leaves the document as it was (encode_for_mission_framed, place_layer).
ComposeIsWhole ==
    [][job # Idle =>
        \/ doc' = doc
        \/ /\ answer'.kind = "composed"
           /\ \A c \in DOMAIN doc :
               IF \E i \in DOMAIN job.stack : job.stack[i] = c
               THEN /\ doc[c] = Nothing
                    /\ ReadsLayer(doc'[c]) /\ LayerFrame(doc'[c]) = job.frame
               ELSE doc'[c] = doc[c]]_vars

(* What the documentation says, and the cascade does otherwise.            *)

\* "Returns `Err(DecryptionFailed)` on wrong password" (traits.rs:98): bytes a
\* passcode sealed come out under that passcode alone.
WrongPasscodeRefused ==
    answer.kind = "secret" /\ ~answer.recovered =>
        \A c \in Driven :
            LayerFrame(doc[c]).env.body.pass \in {NoPasscode, ask.pass}

\* "Each carries a complete copy, so a document that survives with one channel
\* intact still reads" (pipeline.rs:943, the stack of carriers).
SurvivingChannelReads ==
    \A k \in sealed :
        /\ Finished /\ Equipped(k)
        /\ \E c \in ask.cands : Holds(doc[c], k)
        => answer.kind = "secret" /\ answer.value = k.secret

=============================================================================
