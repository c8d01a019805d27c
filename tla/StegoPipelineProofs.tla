------------------------ MODULE StegoPipelineProofs ------------------------
(***************************************************************************)
(* What StegoPipeline guarantees for every value of its constants: its     *)
(* types; that an answer vouched for by an authentication tag is a secret  *)
(* somebody composed under that cipher and passcode; that a compose writes *)
(* the whole of its stack or nothing; and that what a decode answers, and  *)
(* the trace it leaves, is what the document held.                         *)
(***************************************************************************)
EXTENDS StegoPipeline, SequenceTheorems, WellFoundedInduction, TLAPS

-----------------------------------------------------------------------------
(* The data.                                                               *)

\* A layer has one of five forms, each with the fields of its own.
LEMMA LayerShapes ==
    ASSUME NEW layer \in Layers
    PROVE  /\ layer.form \in {"empty", "stray", "light", "heavy", "package"}
           /\ layer.form = "light" => layer = [form |-> "light", copies |-> layer.copies]
                                      /\ layer.copies \in Seq(Frames)
           /\ layer.form = "heavy" =>
                /\ layer = [form |-> "heavy", tail |-> layer.tail, frame |-> layer.frame]
                /\ layer.tail \in BOOLEAN /\ layer.frame \in Frames
           /\ layer.form = "package" =>
                /\ layer = [form |-> "package", cipher |-> layer.cipher, body |-> layer.body]
                /\ layer.cipher \in Ciphers \cup {NoCipher} /\ layer.body \in Bodies
BY DEF Layers, Nothing, Stray

\* Copies of a light frame make a layer.
LEMMA LightIsLayer == \A copies \in Seq(Frames) : [form |-> "light", copies |-> copies] \in Layers
BY DEF Layers

\* A heavy frame, with or without its tail replica, makes a layer.
LEMMA HeavyIsLayer ==
    \A tail \in BOOLEAN, frame \in Frames :
        [form |-> "heavy", tail |-> tail, frame |-> frame] \in Layers
BY DEF Layers

\* A pre-format package makes a layer.
LEMMA PackageIsLayer ==
    \A cipher \in Ciphers \cup {NoCipher}, body \in Bodies :
        [form |-> "package", cipher |-> cipher, body |-> body] \in Layers
BY DEF Layers

\* A free channel and one with stray characters are layers.
LEMMA EmptyIsLayer == Nothing \in Layers /\ Stray \in Layers
BY DEF Layers

\* A sequence with one element replaced is a sequence.
LEMMA ReplaceIsSeq ==
    ASSUME NEW S, NEW q \in Seq(S), NEW i, NEW e \in S
    PROVE  [q EXCEPT ![i] = e] \in Seq(S)
<1>1. CASE i \in 1..Len(q)
    BY <1>1, ExceptSeq
<1>2. CASE i \notin 1..Len(q)
    <2>1. [q EXCEPT ![i] = e] = q
        BY <1>2
    <2> QED BY <2>1
<1> QED BY <1>1, <1>2

\* The smallest element of a non-empty set of natural numbers.
LEMMA Smallest ==
    ASSUME NEW T \in SUBSET Nat, T # {}
    PROVE  \E i \in T : \A j \in T : i <= j
<1>1. PICK i \in T : \A j \in T : ~(<<j, i>> \in OpToRel(<, Nat))
    BY NatLessThanWellFounded, WFMin
<1>2. ASSUME NEW j \in T PROVE i <= j
    <2>1. ~(j < i)
        BY <1>1 DEF OpToRel
    <2> QED BY <2>1
<1> QED BY <1>2

\* The first whole frame of a channel is one of its frames, and reads.
LEMMA FirstWholeIsFramed ==
    ASSUME NEW copies \in Seq(Frames), \E i \in DOMAIN copies : copies[i].head = "ok"
    PROVE  /\ FirstWhole(copies) \in DOMAIN copies
           /\ copies[FirstWhole(copies)].head = "ok"
<1> DEFINE T == {i \in DOMAIN copies : copies[i].head = "ok"}
<1>1. T \in SUBSET Nat /\ T # {}
    <2>1. DOMAIN copies = 1..Len(copies) /\ Len(copies) \in Nat
        OBVIOUS
    <2> QED BY <2>1
<1>2. PICK i \in T : \A j \in T : i <= j
    BY <1>1, Smallest
<1>3. /\ i \in DOMAIN copies /\ copies[i].head = "ok"
      /\ \A j \in DOMAIN copies : copies[j].head = "ok" => i <= j
    BY <1>2
<1> QED BY <1>3 DEF FirstWhole

\* A layer that reads yields a frame.
LEMMA ReadLayerIsFrame ==
    ASSUME NEW layer \in Layers, ReadsLayer(layer)
    PROVE  LayerFrame(layer) \in Frames
<1>1. CASE layer.form = "heavy"
    BY <1>1, LayerShapes DEF LayerFrame
<1>2. CASE layer.form # "heavy"
    <2>1. ReadsLight(layer) /\ layer.form = "light"
        BY <1>2 DEF ReadsLayer, ReadsHeavy, ReadsLight
    <2>2. /\ layer.copies \in Seq(Frames)
          /\ \E i \in DOMAIN layer.copies : layer.copies[i].head = "ok"
        BY <2>1, LayerShapes DEF ReadsLight, IsFramed
    <2>3. FirstWhole(layer.copies) \in DOMAIN layer.copies
        BY <2>2, FirstWholeIsFramed
    <2> QED BY <1>2, <2>2, <2>3 DEF LayerFrame
<1> QED BY <1>1, <1>2

\* One element, or two, make a sequence.
LEMMA ShortSeqs ==
    ASSUME NEW S, NEW a \in S, NEW b \in S
    PROVE  <<a>> \in Seq(S) /\ <<a, b>> \in Seq(S)
OBVIOUS

\* The recorded chain is a sequence of known steps.
LEMMA ChainIsSeq ==
    ASSUME NEW claim \in Claims
    PROVE  ChainOf(claim) \in Seq(Ciphers \cup {Integrity})
<1>1. claim.cipher \in Ciphers \cup {NoCipher}
    BY DEF Claims
<1>2. CASE claim.cipher \in Keyed
    <2>1. claim.cipher \notin Legacy
        BY <1>2, NamesAssumption
    <2>2. ChainOf(claim) = <<claim.cipher>>
        BY <1>2, <2>1 DEF ChainOf
    <2> QED BY <1>2, <2>2 DEF Ciphers
<1>3. CASE claim.cipher \in Legacy /\ claim.cipher \notin Keyed
    <2>1. ChainOf(claim) = <<claim.cipher, Integrity>>
        BY <1>3 DEF ChainOf
    <2> DEFINE steps == Ciphers \cup {Integrity}
               cipher == claim.cipher
    <2>2. cipher \in steps /\ Integrity \in steps
        <3>1. claim.cipher \in Ciphers
            BY <1>3 DEF Ciphers
        <3> QED BY <3>1
    <2>3. <<cipher, Integrity>> \in Seq(steps)
        <3> HIDE DEF steps, cipher
        <3> QED BY <2>2, ShortSeqs
    <2> QED BY <2>1, <2>3
<1>4. CASE claim.cipher \notin Ciphers
    <2>1. ChainOf(claim) = <<Integrity>>
        BY <1>4 DEF ChainOf, Ciphers
    <2> QED BY <2>1
<1> QED BY <1>2, <1>3, <1>4 DEF Ciphers

\* The bytes a claim is sealed into.
SealedBody(claim, n) ==
    [secret |-> claim.secret, on |-> ChainOf(claim), pass |-> claim.pass,
     salt |-> IF claim.cipher \in Keyed THEN n ELSE 0, hit |-> "no"]

\* seal returns an envelope, of the claim it was given.
LEMMA SealIsEnvelope ==
    ASSUME NEW claim \in Claims, NEW n \in Salts
    PROVE  /\ Seal(claim, n) = [parses |-> TRUE, chain |-> ChainOf(claim),
                                body |-> SealedBody(claim, n)]
           /\ Seal(claim, n) \in Envelopes
<1>1. Seal(claim, n) = [parses |-> TRUE, chain |-> ChainOf(claim), body |-> SealedBody(claim, n)]
    BY DEF Seal, SealedBody
<1>2. ChainOf(claim) \in Seq(Ciphers \cup {Integrity})
    BY ChainIsSeq
<1>3. ChainOf(claim) \in Seq(Ciphers \cup {Integrity, Unknown})
    BY <1>2, SeqMonotonic
<1>4. 0 \in Salts
    BY DataAssumption DEF Salts
<1>5. SealedBody(claim, n) \in Bodies
    BY <1>2, <1>4 DEF SealedBody, Bodies, Claims
<1> QED BY <1>1, <1>3, <1>5 DEF Envelopes

\* place_layer builds a frame around the sealed envelope.
LEMMA FrameIsFrame ==
    ASSUME NEW claim \in Claims, NEW n \in Salts, NEW mode
    PROVE  /\ FrameOf(claim, mode, n) \in Frames
           /\ FrameOf(claim, mode, n).env = Seal(claim, n)
<1>1. 0 \in Salts
    BY DataAssumption DEF Salts
<1> QED BY <1>1, SealIsEnvelope DEF FrameOf, Frames

-----------------------------------------------------------------------------
(* The shape of the state: at most one call runs, none has an answer yet,  *)
(* and a decode past its layers holds a frame.                             *)

OneCall ==
    /\ job # Idle => answer = NoAnswer /\ reading = Idle
    /\ reading # Idle => answer = NoAnswer

ReadingShape ==
    reading # Idle =>
        /\ reading.phase = "layers" /\ reading.todo = {} => reading.found # <<>>
        /\ reading.phase = "chain" =>
            /\ reading.found # <<>>
            /\ reading.left <= Len(reading.found[1].env.chain)

TypeInv == TypeOK /\ OneCall /\ ReadingShape

\* What a compose in progress consists of.
LEMMA JobTypes ==
    ASSUME TypeOK, job # Idle
    PROVE  /\ job \in Jobs /\ job.stack \in Seq(Carriers) /\ job.placed \in Nat
           /\ job.draft \in Texts /\ job.mode \in {"light", "heavy", "saturated"}
           /\ job.conceal \in BOOLEAN /\ job.frame \in Frames /\ job.claim \in Claims
BY DEF TypeOK, Jobs

\* What a decode in progress consists of.
LEMMA ReadingTypes ==
    ASSUME TypeOK, reading # Idle
    PROVE  /\ reading \in Readings /\ reading.phase \in {"layers", "chain", "recovery"}
           /\ reading.todo \in SUBSET Carriers /\ reading.text \in Texts
           /\ reading.found \in Seq(Frames) /\ reading.left \in Nat /\ reading.body \in Bodies
BY DEF TypeOK, Readings

\* Having nothing to tell is an answer.
LEMMA NoAnswerIsAnswer == NoAnswer \in Answers
BY DEF NoAnswer, Answers

\* A document that has just arrived is well typed, no call runs.
LEMMA InitTypes == Init => TypeInv
<1>1. SUFFICES ASSUME Init PROVE TypeInv
    OBVIOUS
<1>2. doc \in [Carriers -> UNION {ArrivingLayers(c) : c \in Carriers}]
      /\ \A c \in Carriers : doc[c] \in ArrivingLayers(c)
    BY <1>1 DEF Init
<1>3. ASSUME NEW c \in Carriers PROVE ArrivingLayers(c) \subseteq Layers
    <2>1. ASSUME NEW s \in Secrets, NEW k \in Ciphers \cup {NoCipher},
                 NEW p \in Passcodes \cup {NoPasscode}
          PROVE  PackageOf(s, k, p) \in Layers
        <3>1. <<>> \in Seq(Ciphers \cup {Integrity}) /\ 0 \in Salts
            BY DataAssumption DEF Salts
        <3>2. [secret |-> s, on |-> <<>>, pass |-> p, salt |-> 0, hit |-> "no"] \in Bodies
            BY <3>1 DEF Bodies
        <3> QED BY <3>2, PackageIsLayer DEF PackageOf
    <2> QED BY <2>1, EmptyIsLayer DEF ArrivingLayers
<1>4. doc \in Texts
    BY <1>2, <1>3 DEF Texts
<1>5. TypeOK
    <2>1. cover \in [Carriers -> Nat]
        BY <1>1, DataAssumption DEF Init
    <2>2. NoAsk \in Asks
        BY DEF NoAsk, Asks
    <2> QED BY <1>1, <1>4, <2>1, <2>2, NoAnswerIsAnswer, DataAssumption DEF Init, TypeOK
<1> QED BY <1>1, <1>5 DEF Init, TypeInv, OneCall, ReadingShape

\* Sealing and validating a stack keep the types.
LEMMA StartComposeTypes ==
    ASSUME TypeInv, NEW stack \in Stacks, NEW claim \in Claims,
           NEW mode \in {"light", "heavy", "saturated"}, NEW conceal \in BOOLEAN,
           StartCompose(stack, claim, mode, conceal)
    PROVE  TypeInv'
<1>1. /\ composes \in 0..MaxComposes /\ composes < MaxComposes /\ composes' = composes + 1
      /\ job' = [phase |-> "placing", stack |-> stack, placed |-> 0, draft |-> doc,
                 mode |-> mode, conceal |-> conceal,
                 frame |-> FrameOf(claim, mode, composes + 1), claim |-> claim]
      /\ answer = NoAnswer /\ reading = Idle /\ doc \in Texts
      /\ UNCHANGED <<doc, cover, damage, reading, ask, trace, answer, sealed>>
    BY DEF TypeInv, TypeOK, StartCompose, Busy
<1>2. composes + 1 \in Salts /\ composes' \in 0..MaxComposes
    BY <1>1, DataAssumption DEF Salts
<1>3. stack \in Seq(Carriers)
    <2>1. PICK n \in 0..MaxStack : stack \in [1..n -> Carriers]
        BY DEF Stacks
    <2> QED BY <2>1, DataAssumption, IsASeq
<1>4. job' \in Jobs
    BY <1>1, <1>2, <1>3, FrameIsFrame DEF Jobs
<1> QED BY <1>1, <1>2, <1>4 DEF TypeInv, TypeOK, OneCall, ReadingShape

\* Refusing a stack keeps the types.
LEMMA RefuseComposeTypes ==
    ASSUME TypeInv, NEW stack, RefuseCompose(stack)
    PROVE  TypeInv'
<1>1. composes' \in 0..MaxComposes
    BY DataAssumption DEF TypeInv, TypeOK, RefuseCompose
<1>2. answer' = [kind |-> "refused"] /\ answer' \in Answers
    BY DEF RefuseCompose, Answers
<1> QED BY <1>1, <1>2 DEF TypeInv, TypeOK, OneCall, ReadingShape, RefuseCompose, Busy

\* Placing one layer in the draft keeps the types.
LEMMA PlaceLayerTypes == TypeInv /\ PlaceLayer => TypeInv'
<1>1. SUFFICES ASSUME TypeInv, PlaceLayer PROVE TypeInv'
    OBVIOUS
<1>2. /\ job # Idle /\ job.placed < Len(job.stack)
      /\ job' = [job EXCEPT !.draft = [@ EXCEPT ![NextCarrier] = LayerOf(NextCarrier)],
                            !.placed = @ + 1]
      /\ UNCHANGED <<doc, cover, composes, damage, reading, ask, trace, answer, sealed>>
    BY <1>1 DEF PlaceLayer
<1>3. /\ job \in Jobs /\ job.stack \in Seq(Carriers) /\ job.placed \in Nat
      /\ job.draft \in Texts /\ job.frame \in Frames
    BY <1>1, <1>2, JobTypes DEF TypeInv
<1>4. NextCarrier \in Carriers
    BY <1>2, <1>3 DEF NextCarrier
<1>5. LayerOf(NextCarrier) \in Layers
    <2>1. CASE job.mode = "heavy"
        BY <1>3, <2>1, HeavyIsLayer DEF LayerOf
    <2>2. CASE job.mode # "heavy"
        <3> DEFINE n == IF job.mode = "saturated" /\ cover[NextCarrier] > 1
                        THEN cover[NextCarrier] ELSE 1
        <3>1. n \in Nat
            BY <1>1, <1>4 DEF TypeInv, TypeOK
        <3>2. [i \in 1..n |-> job.frame] \in Seq(Frames)
            <4> HIDE DEF n
            <4> QED BY <1>3, <3>1, IsASeq
        <3> QED BY <2>2, <3>2, LightIsLayer DEF LayerOf
    <2> QED BY <2>1, <2>2
<1>6. [job.draft EXCEPT ![NextCarrier] = LayerOf(NextCarrier)] \in Texts
    BY <1>3, <1>4, <1>5 DEF Texts
<1>7. job' \in Jobs
    <2> DEFINE draft == [job.draft EXCEPT ![NextCarrier] = LayerOf(NextCarrier)]
               placed == job.placed + 1
    <2>1. job' = [job EXCEPT !.draft = draft, !.placed = placed]
        BY <1>2
    <2>2. draft \in Texts /\ placed \in Nat
        BY <1>3, <1>6
    <2> HIDE DEF draft, placed
    <2> QED BY <1>3, <2>1, <2>2 DEF Jobs
<1> QED BY <1>1, <1>2, <1>7 DEF TypeInv, TypeOK, OneCall, ReadingShape

\* Refusing a layer keeps the types.
LEMMA RefuseLayerTypes == TypeInv /\ RefuseLayer => TypeInv'
<1>1. [kind |-> "refused"] \in Answers
    BY DEF Answers
<1> QED BY <1>1 DEF TypeInv, TypeOK, OneCall, ReadingShape, RefuseLayer

\* Handing the draft over keeps the types.
LEMMA FinishComposeTypes == TypeInv /\ FinishCompose => TypeInv'
<1>1. SUFFICES ASSUME TypeInv, FinishCompose PROVE TypeInv'
    OBVIOUS
<1>2. job.draft \in Texts /\ job.claim \in Claims
    BY <1>1, JobTypes DEF TypeInv, FinishCompose
<1>3. [kind |-> "composed"] \in Answers
    BY DEF Answers
<1> QED BY <1>1, <1>2, <1>3 DEF TypeInv, TypeOK, OneCall, ReadingShape, FinishCompose

-----------------------------------------------------------------------------
(* Transit.                                                                *)

\* An altered envelope is still one, and never counts as unaltered.
LEMMA AlteredIsEnvelope ==
    ASSUME NEW env \in Envelopes, NEW c \in Carriers
    PROVE  /\ Altered(env, c) \subseteq Envelopes
           /\ \A e \in Altered(env, c) : e.body.hit = c
<1> DEFINE hit == [env.body EXCEPT !.hit = c]
<1>1. hit \in Bodies /\ hit.hit = c
    <2>1. env.body \in Bodies
        BY DEF Envelopes
    <2> QED BY <2>1 DEF Bodies
<1>2. <<>> \in Seq(Ciphers \cup {Integrity, Unknown})
      /\ <<Unknown>> \in Seq(Ciphers \cup {Integrity, Unknown})
    <2>1. Unknown \in Ciphers \cup {Integrity, Unknown}
        OBVIOUS
    <2>2. <<Unknown>> \in Seq(Ciphers \cup {Integrity, Unknown})
        BY <2>1, ShortSeqs
    <2> QED BY <2>2
<1>3. Altered(env, c) = {[env EXCEPT !.parses = FALSE, !.body = hit], [env EXCEPT !.body = hit],
                         [env EXCEPT !.chain = <<>>, !.body = hit],
                         [env EXCEPT !.chain = <<Unknown>>, !.body = hit]}
    BY DEF Altered
<1> HIDE DEF hit
<1> QED BY <1>1, <1>2, <1>3 DEF Envelopes

\* An altered frame is still a frame.
LEMMA AlteredFrameIsFrame ==
    ASSUME NEW f \in Frames, NEW c \in Carriers
    PROVE  AlteredFrames(f, c) \subseteq Frames
<1>1. f.env \in Envelopes
    BY DEF Frames
<1>2. Altered(f.env, c) \subseteq Envelopes
    BY <1>1, AlteredIsEnvelope
<1> QED BY <1>2 DEF AlteredFrames, Frames

\* An altered channel is still a layer.
LEMMA AlteredIsLayer ==
    ASSUME NEW layer \in Layers, NEW c \in Carriers
    PROVE  AlteredLayers(layer, c) \subseteq Layers
<1>1. CASE layer.form = "light"
    <2>1. layer = [form |-> "light", copies |-> layer.copies] /\ layer.copies \in Seq(Frames)
        BY <1>1, LayerShapes
    <2>2. ASSUME NEW i \in DOMAIN layer.copies, NEW j \in DOMAIN layer.copies,
                 NEW f \in AlteredFrames(layer.copies[j], c)
          PROVE  [layer EXCEPT !.copies[i] = f] \in Layers
        <3>1. f \in Frames
            <4>1. layer.copies[j] \in Frames
                BY <2>1
            <4> QED BY <4>1, AlteredFrameIsFrame
        <3>2. [layer.copies EXCEPT ![i] = f] \in Seq(Frames)
            BY <2>1, <3>1, ReplaceIsSeq
        <3>3. [layer EXCEPT !.copies[i] = f]
                = [form |-> "light", copies |-> [layer.copies EXCEPT ![i] = f]]
            BY <2>1
        <3> QED BY <3>2, <3>3, LightIsLayer
    <2>3. AlteredLayers(layer, c) = {Nothing} \cup
            {[layer EXCEPT !.copies[i] = f] :
                f \in UNION {AlteredFrames(layer.copies[j], c) : j \in DOMAIN layer.copies},
                i \in DOMAIN layer.copies}
        BY <1>1 DEF AlteredLayers
    <2> QED BY <2>2, <2>3, EmptyIsLayer
<1>2. CASE layer.form = "heavy"
    <2>1. /\ layer = [form |-> "heavy", tail |-> layer.tail, frame |-> layer.frame]
          /\ layer.tail \in BOOLEAN /\ layer.frame \in Frames
        BY <1>2, LayerShapes
    <2>2. ASSUME NEW f \in AlteredFrames(layer.frame, c)
          PROVE  [layer EXCEPT !.frame = f] \in Layers
        <3>1. f \in Frames
            BY <2>1, AlteredFrameIsFrame
        <3>2. [layer EXCEPT !.frame = f] = [form |-> "heavy", tail |-> layer.tail, frame |-> f]
            BY <2>1
        <3> QED BY <2>1, <3>1, <3>2, HeavyIsLayer
    <2>3. [layer EXCEPT !.tail = FALSE] \in Layers
        <3> DEFINE heavy == [form : {"heavy"}, tail : BOOLEAN, frame : Frames]
        <3>1. layer \in heavy
            BY <2>1
        <3>2. [layer EXCEPT !.tail = FALSE] \in heavy
            BY <3>1
        <3> QED BY <3>2 DEF Layers
    <2>4. AlteredLayers(layer, c) = {Nothing, [layer EXCEPT !.tail = FALSE]} \cup
            {[layer EXCEPT !.frame = f] : f \in AlteredFrames(layer.frame, c)}
        BY <1>2 DEF AlteredLayers
    <2> QED BY <2>2, <2>3, <2>4, EmptyIsLayer
<1>3. CASE layer.form = "package"
    <2>1. /\ layer = [form |-> "package", cipher |-> layer.cipher, body |-> layer.body]
          /\ layer.cipher \in Ciphers \cup {NoCipher} /\ layer.body \in Bodies
        BY <1>3, LayerShapes
    <2>2. ASSUME NEW h \in {c, "mangled"} PROVE [layer EXCEPT !.body.hit = h] \in Layers
        <3>1. [layer.body EXCEPT !.hit = h] \in Bodies
            BY <2>1 DEF Bodies
        <3>2. [layer EXCEPT !.body.hit = h]
                = [form |-> "package", cipher |-> layer.cipher,
                   body |-> [layer.body EXCEPT !.hit = h]]
            BY <2>1
        <3> QED BY <2>1, <3>1, <3>2, PackageIsLayer
    <2>3. AlteredLayers(layer, c)
            = {Nothing, Stray} \cup {[layer EXCEPT !.body.hit = h] : h \in {c, "mangled"}}
        BY <1>3 DEF AlteredLayers
    <2> QED BY <2>2, <2>3, EmptyIsLayer
<1>4. CASE layer.form \notin {"light", "heavy", "package"}
    BY <1>4, EmptyIsLayer DEF AlteredLayers
<1> QED BY <1>1, <1>2, <1>3, <1>4

\* An alteration of one channel keeps the types.
LEMMA AlterChannelTypes ==
    ASSUME TypeInv, NEW c \in Carriers, AlterChannel(c)
    PROVE  TypeInv'
<1>1. damage' \in 0..MaxDamage /\ job = Idle /\ reading = Idle /\ answer = NoAnswer
    BY DataAssumption DEF TypeInv, TypeOK, AlterChannel, Touched, Busy
<1>2. doc[c] \in Layers /\ doc \in Texts
    BY DEF TypeInv, TypeOK, Texts
<1>3. doc' \in Texts
    <2>1. PICK layer \in AlteredLayers(doc[c], c) : doc' = [doc EXCEPT ![c] = layer]
        BY DEF AlterChannel
    <2>2. layer \in Layers
        BY <1>2, AlteredIsLayer
    <2> QED BY <1>2, <2>1, <2>2 DEF Texts
<1> QED BY <1>1, <1>3 DEF TypeInv, TypeOK, OneCall, ReadingShape, AlterChannel, Touched

\* Taking an excerpt keeps the types.
LEMMA ExcerptTypes == TypeInv /\ Excerpt => TypeInv'
<1>1. SUFFICES ASSUME TypeInv, Excerpt PROVE TypeInv'
    OBVIOUS
<1>2. damage' \in 0..MaxDamage /\ job = Idle /\ reading = Idle /\ answer = NoAnswer
      /\ UNCHANGED <<cover, composes, job, reading, ask, trace, answer, sealed>>
    BY <1>1, DataAssumption DEF TypeInv, TypeOK, Excerpt, Touched, Busy
<1> DEFINE Cut(layer) ==
        CASE layer.form = "light" -> [layer EXCEPT !.copies[1].head = "lost"]
          [] layer.form = "heavy" -> [layer EXCEPT !.frame.head = "lost"]
          [] layer.form = "package" -> Stray
          [] OTHER -> layer
<1>3. doc' = [c \in Carriers |-> Cut(doc[c])]
    BY <1>1 DEF Excerpt
<1>4. ASSUME NEW layer \in Layers PROVE Cut(layer) \in Layers
    <2>1. CASE layer.form = "light"
        <3> DEFINE copies == layer.copies
                   lost == [copies[1] EXCEPT !.head = "lost"]
        <3>1. layer = [form |-> "light", copies |-> copies] /\ copies \in Seq(Frames)
            BY <2>1, LayerShapes
        <3>2. [copies EXCEPT ![1] = lost] \in Seq(Frames)
            <4>1. CASE 1 \in 1..Len(copies)
                <5>1. copies[1] \in Frames
                    BY <3>1, <4>1
                <5>2. lost \in Frames
                    BY <5>1 DEF Frames
                <5> HIDE DEF lost, copies
                <5> QED BY <3>1, <5>2, ReplaceIsSeq
            <4>2. CASE 1 \notin 1..Len(copies)
                <5>1. [copies EXCEPT ![1] = lost] = copies
                    BY <3>1, <4>2
                <5> QED BY <3>1, <5>1
            <4> QED BY <4>1, <4>2
        <3>3. Cut(layer) = [layer EXCEPT !.copies = [copies EXCEPT ![1] = lost]]
            BY <2>1
        <3>4. Cut(layer) = [form |-> "light", copies |-> [copies EXCEPT ![1] = lost]]
            <4> HIDE DEF lost, copies, Cut
            <4> QED BY <3>1, <3>3
        <3> QED BY <3>2, <3>4, LightIsLayer
    <2>2. CASE layer.form = "heavy"
        <3> DEFINE lost == [layer.frame EXCEPT !.head = "lost"]
        <3>1. /\ layer = [form |-> "heavy", tail |-> layer.tail, frame |-> layer.frame]
              /\ layer.tail \in BOOLEAN /\ layer.frame \in Frames
            BY <2>2, LayerShapes
        <3>2. lost \in Frames
            BY <3>1 DEF Frames
        <3>3. Cut(layer) = [layer EXCEPT !.frame = lost]
            BY <2>2
        <3> HIDE DEF lost
        <3>4. [layer EXCEPT !.frame = lost]
                = [form |-> "heavy", tail |-> layer.tail, frame |-> lost]
            BY <3>1
        <3> QED BY <3>1, <3>2, <3>3, <3>4, HeavyIsLayer
    <2>3. CASE layer.form \notin {"light", "heavy"}
        BY <2>3, EmptyIsLayer
    <2> QED BY <2>1, <2>2, <2>3
<1>5. doc' \in Texts
    <2>1. \A c \in Carriers : doc[c] \in Layers
        BY <1>1 DEF TypeInv, TypeOK, Texts
    <2> HIDE DEF Cut
    <2> QED BY <1>3, <1>4, <2>1 DEF Texts
<1> QED BY <1>1, <1>2, <1>5 DEF TypeInv, TypeOK, OneCall, ReadingShape

-----------------------------------------------------------------------------
(* Reveal.                                                                 *)

Verdicts == {"passed", "failed", "undetermined"}
Oracles  == {"aead", "checksum", "none"}
Steps    == {"identify", "envelope", "recovery_sweep", Integrity, Unknown}
                \cup Carriers \cup Ciphers

\* A record of one wave can be appended to the trace.
LEMMA WaveIsWave ==
    ASSUME TypeOK, NEW w \in Steps, NEW o \in Oracles, NEW v \in Verdicts
    PROVE  Wave(w, o, v) \in Waves /\ Append(trace, Wave(w, o, v)) \in Seq(Waves)
<1>1. Wave(w, o, v) \in Waves
    BY DEF Wave, Waves, Steps, Oracles, Verdicts
<1> QED BY <1>1 DEF TypeOK

\* Identifying the carriers keeps the types.
LEMMA StartDecodeTypes ==
    ASSUME TypeInv, NEW cands \in SUBSET Carriers, NEW offered \in SUBSET Ciphers,
           NEW pass \in Passcodes \cup {NoPasscode}, StartDecode(cands, offered, pass)
    PROVE  TypeInv'
<1>1. job = Idle /\ reading = Idle /\ answer = NoAnswer
      /\ UNCHANGED <<doc, cover, composes, damage, job, answer, sealed>>
    BY DEF StartDecode, Busy
<1>2. ask' \in Asks
    BY DEF StartDecode, Asks
<1>3. trace' \in Seq(Waves)
    BY DEF StartDecode, Wave, Waves
<1>4. Identified(cands) \in SUBSET Carriers
    BY DEF Identified
<1>5. [secret |-> Noise, on |-> <<>>, pass |-> NoPasscode, salt |-> 0, hit |-> "no"] \in Bodies
    <2>1. <<>> \in Seq(Ciphers \cup {Integrity}) /\ 0 \in Salts
        BY DataAssumption DEF Salts
    <2> QED BY <2>1 DEF Bodies
<1>6. /\ reading' \in Readings
      /\ reading'.phase = "layers" => reading'.todo # {}
      /\ reading'.phase # "chain"
    <2>1. doc \in Texts /\ <<>> \in Seq(Frames)
        BY DEF TypeInv, TypeOK
    <2> QED BY <1>4, <1>5, <2>1 DEF StartDecode, Readings
<1> QED BY <1>1, <1>2, <1>3, <1>6 DEF TypeInv, TypeOK, OneCall, ReadingShape

\* Refusing a decode without candidates keeps the types.
LEMMA RefuseDecodeTypes == TypeInv /\ RefuseDecode => TypeInv'
<1>1. [kind |-> "refused"] \in Answers
    BY DEF Answers
<1> QED BY <1>1 DEF TypeInv, TypeOK, OneCall, ReadingShape, RefuseDecode, Busy

\* Halting at a wave keeps the types.
LEMMA HaltTypes ==
    ASSUME TypeInv, reading # Idle, NEW w \in Steps, NEW o \in Oracles, Halt(w, o)
    PROVE  TypeInv'
<1>1. trace' \in Seq(Waves)
    BY WaveIsWave DEF Halt, TypeInv, Verdicts
<1>2. [kind |-> "failed"] \in Answers
    BY DEF Answers
<1> QED BY <1>1, <1>2 DEF Halt, TypeInv, TypeOK, OneCall, ReadingShape

\* Some carrier of a set of them was offered last.
LEMMA OutermostIsIn ==
    ASSUME NEW S \in (SUBSET Carriers) \ {{}}
    PROVE  Outermost(S) \in S
BY CarriersAssumption DEF Outermost

\* Some carrier of a set of them was offered first.
LEMMA InnermostIsIn ==
    ASSUME NEW S \in (SUBSET Carriers) \ {{}}
    PROVE  Innermost(S) \in S
<1> DEFINE T == {Rank[c] : c \in S}
<1>1. T \in SUBSET Nat /\ T # {}
    BY CarriersAssumption
<1>2. PICK r \in T : \A q \in T : r <= q
    BY <1>1, Smallest
<1>3. \E c \in S : \A d \in S : Rank[c] <= Rank[d]
    BY <1>2
<1> QED BY <1>3 DEF Innermost

\* Peeling a layer off, or halting there, keeps the types.
LEMMA LayerWaveTypes == TypeInv /\ LayerWave => TypeInv'
<1>1. SUFFICES ASSUME TypeInv, LayerWave PROVE TypeInv'
    OBVIOUS
<1> DEFINE c == Outermost(reading.todo)
<1>2. reading # Idle /\ reading.phase = "layers" /\ reading.todo # {}
    BY <1>1 DEF LayerWave, InPhase
<1>3. /\ reading \in Readings /\ reading.todo \in SUBSET Carriers
      /\ reading.text \in Texts /\ c \in Carriers
    BY <1>1, <1>2, ReadingTypes, OutermostIsIn DEF TypeInv
<1>4. c \in Steps /\ "checksum" \in Oracles /\ "passed" \in Verdicts
    BY <1>3 DEF Steps, Oracles, Verdicts
<1>5. CASE /\ LayerHolds(c)
           /\ Pass(c, "checksum")
           /\ reading' = [reading EXCEPT !.todo = @ \ {c},
                              !.found = <<LayerFrame(reading.text[c])>>,
                              !.text = [@ EXCEPT ![c] = Nothing]]
           /\ UNCHANGED <<doc, cover, composes, damage, job, ask, answer, sealed>>
    <2> DEFINE found == <<LayerFrame(reading.text[c])>>
               todo == reading.todo \ {c}
               text == [reading.text EXCEPT ![c] = Nothing]
    <2>1. LayerFrame(reading.text[c]) \in Frames
        BY <1>3, <1>5, ReadLayerIsFrame DEF LayerHolds, Texts
    <2>2. found \in Seq(Frames) /\ found # <<>>
        BY <2>1
    <2>3. todo \in SUBSET Carriers /\ text \in Texts
        BY <1>3, EmptyIsLayer DEF Texts
    <2>4. reading' = [reading EXCEPT !.todo = todo, !.found = found, !.text = text]
        BY <1>5
    <2>5. /\ reading' \in Readings /\ reading'.phase = "layers"
          /\ reading'.found # <<>>
        <3> HIDE DEF found, todo, text, c
        <3> QED BY <1>2, <1>3, <2>2, <2>3, <2>4 DEF Readings
    <2>6. trace' \in Seq(Waves)
        <3> HIDE DEF c
        <3> QED BY <1>1, <1>4, <1>5, WaveIsWave DEF Pass, TypeInv
    <2> HIDE DEF c
    <2> QED BY <1>1, <1>2, <1>5, <2>5, <2>6 DEF TypeInv, TypeOK, OneCall, ReadingShape
<1>6. CASE ~LayerHolds(c) /\ Halt(c, "checksum")
    BY <1>1, <1>2, <1>4, <1>6, HaltTypes
<1> QED BY <1>1, <1>5, <1>6 DEF LayerWave

\* Parsing the envelope, or halting there, keeps the types.
LEMMA EnvelopeWaveTypes == TypeInv /\ EnvelopeWave => TypeInv'
<1>1. SUFFICES ASSUME TypeInv, EnvelopeWave PROVE TypeInv'
    OBVIOUS
<1> DEFINE env == reading.found[1].env
<1>2. reading # Idle /\ reading.phase = "layers" /\ reading.todo = {}
    BY <1>1 DEF EnvelopeWave, InPhase
<1>3. reading \in Readings /\ reading.found \in Seq(Frames) /\ reading.found # <<>>
    BY <1>1, <1>2, ReadingTypes DEF TypeInv, ReadingShape
<1>4. env \in Envelopes
    <2>1. reading.found[1] \in Frames
        BY <1>3
    <2> QED BY <2>1 DEF Frames
<1>5. "envelope" \in Steps /\ "none" \in Oracles /\ "passed" \in Verdicts
    BY DEF Steps, Oracles, Verdicts
<1>6. CASE /\ Pass("envelope", "none")
           /\ reading' = [reading EXCEPT !.phase = "chain", !.left = Len(env.chain),
                                         !.body = env.body]
           /\ UNCHANGED <<doc, cover, composes, damage, job, ask, answer, sealed>>
    <2> DEFINE left == Len(env.chain)
               body == env.body
    <2>1. left \in Nat /\ body \in Bodies
        BY <1>4 DEF Envelopes
    <2>2. reading' = [reading EXCEPT !.phase = "chain", !.left = left, !.body = body]
        BY <1>6
    <2>3. /\ reading' \in Readings /\ reading'.found = reading.found
          /\ reading'.phase = "chain" /\ reading'.left = left
        <3> HIDE DEF left, body
        <3> QED BY <1>3, <2>1, <2>2 DEF Readings
    <2>4. trace' \in Seq(Waves)
        BY <1>1, <1>5, <1>6, WaveIsWave DEF Pass, TypeInv
    <2>5. reading'.found # <<>> /\ reading'.left <= Len(reading'.found[1].env.chain)
        BY <1>3, <2>1, <2>3
    <2> QED BY <1>1, <1>2, <1>6, <2>3, <2>4, <2>5 DEF TypeInv, TypeOK, OneCall, ReadingShape
<1>7. CASE Halt("envelope", "none")
    BY <1>1, <1>2, <1>5, <1>7, HaltTypes
<1> QED BY <1>1, <1>6, <1>7 DEF EnvelopeWave

\* Reverting a step leaves bytes of some kind.
LEMMA RevertedIsBody ==
    ASSUME NEW body \in Bodies, NEW step, NEW salt, Reverts(step, body, salt)
    PROVE  Reverted(step, body) \in Bodies
<1>1. <<>> \in Seq(Ciphers \cup {Integrity})
    OBVIOUS
<1>2. CASE step \in Legacy /\ ~(IsOutside(step, body) /\ body.pass = ask.pass)
    BY <1>1, <1>2 DEF Reverted, Bodies
<1>3. CASE IsOutside(step, body)
           /\ ~(step \in Legacy /\ ~(IsOutside(step, body) /\ body.pass = ask.pass))
    <2> DEFINE on == [i \in 1..(Len(body.on) - 1) |-> body.on[i]]
    <2>1. body.on \in Seq(Ciphers \cup {Integrity}) /\ body.on # <<>>
        BY <1>3 DEF IsOutside, Bodies
    <2>2. Len(body.on) - 1 \in Nat
        BY <2>1
    <2>3. \A i \in 1..(Len(body.on) - 1) : body.on[i] \in Ciphers \cup {Integrity}
        BY <2>1, <2>2
    <2>4. on \in Seq(Ciphers \cup {Integrity})
        BY <2>2, <2>3, IsASeq
    <2>5. Reverted(step, body) = [body EXCEPT !.on = on]
        BY <1>3 DEF Reverted, Peeled
    <2> HIDE DEF on
    <2> QED BY <2>4, <2>5 DEF Bodies
<1> QED BY <1>2, <1>3 DEF Reverts

\* Reverting a chain step, or halting there, keeps the types.
LEMMA ChainWaveTypes == TypeInv /\ ChainWave => TypeInv'
<1>1. SUFFICES ASSUME TypeInv, ChainWave PROVE TypeInv'
    OBVIOUS
<1> DEFINE step == reading.found[1].env.chain[reading.left]
           salt == reading.found[1].salt
<1>2. reading # Idle /\ reading.phase = "chain" /\ reading.left > 0
    BY <1>1 DEF ChainWave, InPhase
<1>3. /\ reading \in Readings /\ reading.found \in Seq(Frames) /\ reading.found # <<>>
      /\ reading.left \in Nat /\ reading.body \in Bodies
      /\ reading.left <= Len(reading.found[1].env.chain)
    BY <1>1, <1>2, ReadingTypes DEF TypeInv, ReadingShape
<1>4. reading.found[1].env.chain \in Seq(Ciphers \cup {Integrity, Unknown})
    <2>1. reading.found[1] \in Frames
        BY <1>3
    <2> QED BY <2>1 DEF Frames, Envelopes
<1>5. step \in Ciphers \cup {Integrity, Unknown}
    BY <1>2, <1>3, <1>4
<1>6. step \in Steps /\ OracleOf(step) \in Oracles /\ "passed" \in Verdicts
    BY <1>5, SMTT(40) DEF Steps, Oracles, Verdicts, OracleOf
<1>7. CASE /\ Reverts(step, reading.body, salt)
           /\ Pass(step, OracleOf(step))
           /\ reading' = [reading EXCEPT !.left = @ - 1, !.body = Reverted(step, @)]
           /\ UNCHANGED <<doc, cover, composes, damage, job, ask, answer, sealed>>
    <2> DEFINE left == reading.left - 1
               body == Reverted(step, reading.body)
    <2>1. left \in Nat /\ left <= reading.left
        BY <1>2, <1>3
    <2>2. body \in Bodies
        BY <1>3, <1>7, RevertedIsBody
    <2>3. reading' = [reading EXCEPT !.left = left, !.body = body]
        BY <1>7
    <2>4. /\ reading' \in Readings /\ reading'.found = reading.found
          /\ reading'.phase = "chain" /\ reading'.left = left
        <3> HIDE DEF left, body
        <3> QED BY <1>2, <1>3, <2>1, <2>2, <2>3 DEF Readings
    <2>5. reading'.left <= Len(reading'.found[1].env.chain)
        <3>1. Len(reading.found[1].env.chain) \in Nat
            BY <1>4
        <3> HIDE DEF left
        <3> QED BY <1>3, <2>1, <2>4, <3>1
    <2>6. trace' \in Seq(Waves)
        <3> HIDE DEF step
        <3> QED BY <1>1, <1>6, <1>7, WaveIsWave DEF Pass, TypeInv
    <2> QED BY <1>1, <1>2, <1>3, <1>7, <2>4, <2>5, <2>6
            DEF TypeInv, TypeOK, OneCall, ReadingShape
<1>8. CASE Halt(step, OracleOf(step))
    <2> HIDE DEF step
    <2> QED BY <1>1, <1>2, <1>6, <1>8, HaltTypes
<1> QED BY <1>1, <1>7, <1>8 DEF ChainWave

\* A returned secret is an answer.
LEMMA SecretIsAnswer ==
    \A v \in Secrets \cup {Noise}, i, r \in BOOLEAN :
        [kind |-> "secret", value |-> v, integrity |-> i, recovered |-> r] \in Answers
BY DEF Answers

\* Returning the payload keeps the types.
LEMMA ReturnSecretTypes == TypeInv /\ ReturnSecret => TypeInv'
<1>1. SUFFICES ASSUME TypeInv, ReturnSecret PROVE TypeInv'
    OBVIOUS
<1>2. reading.body \in Bodies
    BY <1>1, ReadingTypes DEF TypeInv, ReturnSecret, InPhase
<1>3. Bytes(reading.body) \in Secrets \cup {Noise} /\ IntegrityValid \in BOOLEAN
    BY <1>2 DEF Bytes, Bodies, IntegrityValid
<1>4. answer' \in Answers
    BY <1>1, <1>3, SecretIsAnswer DEF ReturnSecret
<1> QED BY <1>1, <1>4 DEF TypeInv, TypeOK, OneCall, ReadingShape, ReturnSecret, InPhase

\* The recovery sweep keeps the types.
LEMMA RecoverTypes == TypeInv /\ Recover => TypeInv'
<1>1. SUFFICES ASSUME TypeInv, Recover PROVE TypeInv'
    OBVIOUS
<1>2. /\ reading # Idle /\ job = Idle /\ reading' = Idle
      /\ UNCHANGED <<doc, cover, composes, damage, job, ask, sealed>>
    BY <1>1 DEF Recover, InPhase, TypeInv, OneCall
<1>3. "recovery_sweep" \in Steps /\ Oracles = {"aead", "checksum", "none"}
      /\ Verdicts = {"passed", "failed", "undetermined"}
    BY DEF Steps, Oracles, Verdicts
<1>4. trace' \in Seq(Waves)
    BY <1>1, <1>3, WaveIsWave DEF Recover, Pass, TypeInv
<1>5. answer' \in Answers
    <2>1. CASE answer' \in {[kind |-> "nothing"], [kind |-> "failed"]}
        BY <2>1 DEF Answers
    <2>2. CASE /\ Parseable # {}
               /\ LET p == doc[Innermost(Parseable)] IN
                  answer' = [kind |-> "secret", value |-> Opened(p),
                             integrity |-> Opened(p) # Noise, recovered |-> TRUE]
        <3> DEFINE p == doc[Innermost(Parseable)]
        <3>1. Parseable \in (SUBSET Carriers) \ {{}}
            BY <1>1, <2>2 DEF Parseable, TypeInv, TypeOK, Asks
        <3>2. Innermost(Parseable) \in Parseable
            BY <3>1, InnermostIsIn
        <3>3. p \in Layers /\ p.form = "package"
            BY <1>1, <3>1, <3>2 DEF Parseable, TypeInv, TypeOK, Texts
        <3>4. p.body \in Bodies
            BY <3>3, LayerShapes
        <3>5. Opened(p) \in Secrets \cup {Noise}
            BY <3>4 DEF Opened, Bodies
        <3>6. (Opened(p) # Noise) \in BOOLEAN
            OBVIOUS
        <3> HIDE DEF p
        <3> QED BY <2>2, <3>5, <3>6, SecretIsAnswer DEF p
    <2> QED BY <1>1, <2>1, <2>2 DEF Recover
<1> QED BY <1>1, <1>2, <1>4, <1>5 DEF TypeInv, TypeOK, OneCall, ReadingShape

\* Taking an answer keeps the types.
LEMMA TakeAnswerTypes == TypeInv /\ TakeAnswer => TypeInv'
<1>1. NoAsk \in Asks /\ <<>> \in Seq(Waves)
    BY DEF NoAsk, Asks
<1> QED BY <1>1, NoAnswerIsAnswer DEF TypeInv, TypeOK, OneCall, ReadingShape, TakeAnswer

\* Every step keeps the types.
LEMMA StepTypes == TypeInv /\ [Next]_vars => TypeInv'
<1>1. SUFFICES ASSUME TypeInv, [Next]_vars PROVE TypeInv'
    OBVIOUS
<1>2. CASE Compose
    <2>1. ASSUME NEW stack \in Stacks, NEW claim \in Claims,
                 NEW mode \in {"light", "heavy", "saturated"}, NEW conceal \in BOOLEAN,
                 StartCompose(stack, claim, mode, conceal)
          PROVE  TypeInv'
        BY <1>1, <2>1, StartComposeTypes
    <2>2. ASSUME NEW stack \in Stacks, RefuseCompose(stack) PROVE TypeInv'
        BY <1>1, <2>2, RefuseComposeTypes
    <2> QED BY <1>1, <1>2, <2>1, <2>2, PlaceLayerTypes, RefuseLayerTypes, FinishComposeTypes
            DEF Compose
<1>3. CASE Transit
    BY <1>1, <1>3, AlterChannelTypes, ExcerptTypes DEF Transit
<1>4. CASE Reveal
    <2>1. ASSUME NEW cands \in CandidateSets, NEW offered \in CipherOffers,
                 NEW pass \in Passcodes \cup {NoPasscode}, StartDecode(cands, offered, pass)
          PROVE  TypeInv'
        <3>1. cands \in SUBSET Carriers /\ offered \in SUBSET Ciphers
            BY DataAssumption
        <3> QED BY <1>1, <2>1, <3>1, StartDecodeTypes
    <2> QED BY <1>1, <1>4, <2>1, RefuseDecodeTypes, LayerWaveTypes, EnvelopeWaveTypes,
               ChainWaveTypes, ReturnSecretTypes, RecoverTypes DEF Reveal
<1>5. CASE TakeAnswer
    BY <1>1, <1>5, TakeAnswerTypes
<1>6. CASE UNCHANGED vars
    BY <1>1, <1>6 DEF vars, TypeInv, TypeOK, OneCall, ReadingShape
<1> QED BY <1>1, <1>2, <1>3, <1>4, <1>5, <1>6 DEF Next

\* The types and the shape of the state hold throughout: one call at a time,
\* and a decode past its layers holds a frame.
THEOREM TypesHold == Spec => []TypeInv
<1> QED BY InitTypes, StepTypes, PTL DEF Spec

\* The state of every compose, transit and decode keeps its types, for any set
\* of carriers, ciphers and secrets (the data model of pipeline.rs).
THEOREM TypeCorrect == Spec => []TypeOK
<1>1. TypeInv => TypeOK
    BY DEF TypeInv
<1> QED BY <1>1, TypesHold, PTL

-----------------------------------------------------------------------------
(* What a tag vouches for.  Every envelope the world has not altered is the *)
(* seal of a claim, in the document, in a draft and in a decode alike; the  *)
(* chain of a decode then undoes that claim's transforms and nothing else,  *)
(* so an authentication tag can only verify as the last of them.            *)

SealedAs(f, k) ==
    /\ f.env.parses
    /\ f.env.chain = ChainOf(k)
    /\ f.env.body.secret = k.secret
    /\ f.env.body.pass = k.pass
    /\ f.env.body.on = ChainOf(k)
    /\ k.cipher \in Keyed => f.salt = f.env.body.salt

\* The checksum is taken after every cipher, so it is reverted before them.
Ordered(chain) ==
    \A i, j \in DOMAIN chain : chain[i] = Integrity /\ chain[j] \in Ciphers => j < i

Genuine(f, S) ==
    /\ Ordered(f.env.chain)
    /\ f.env.body.hit = "no" => \E k \in S : SealedAs(f, k)

GenuineLayer(layer, S) ==
    /\ layer.form = "light" => \A i \in DOMAIN layer.copies : Genuine(layer.copies[i], S)
    /\ layer.form = "heavy" => Genuine(layer.frame, S)

GenuineText(text, S) == \A c \in Carriers : GenuineLayer(text[c], S)

GenuineTexts ==
    /\ GenuineText(doc, sealed)
    /\ job # Idle =>
        /\ Genuine(job.frame, {job.claim})
        /\ GenuineText(job.draft, sealed \cup {job.claim})
    /\ reading # Idle =>
        /\ GenuineText(reading.text, sealed)
        /\ reading.found # <<>> => Genuine(reading.found[1], sealed)

\* The transforms of k that are still applied to the body being reverted.
Undoing(k) ==
    LET body == reading.body IN
    /\ reading.found[1].env.chain = ChainOf(k)
    /\ body.secret = k.secret
    /\ body.pass = k.pass
    /\ Len(body.on) = reading.left
    /\ \A i \in 1..Len(body.on) : body.on[i] = ChainOf(k)[i]

Vouched(k, secret) ==
    /\ k.secret = secret
    /\ k.pass = ask.pass
    /\ \E i \in DOMAIN trace : trace[i].wave = k.cipher

TagLast ==
    reading # Idle =>
        /\ Authenticated => reading.phase = "chain"
        /\ reading.phase = "chain" =>
            IF Authenticated
            THEN /\ reading.left = 0
                 /\ reading.body.hit = "no" /\ reading.body.on = <<>>
                 /\ \E k \in sealed : Vouched(k, reading.body.secret)
            ELSE reading.body.hit = "no" => \E k \in sealed : Undoing(k)

AuthInv == TypeInv /\ GenuineTexts /\ TagLast /\ AuthenticatedAnswer

\* What is genuine stays so when more is composed.
LEMMA GenuineGrows ==
    ASSUME NEW S, NEW T, S \subseteq T, NEW text, GenuineText(text, S)
    PROVE  GenuineText(text, T)
BY DEF GenuineText, GenuineLayer, Genuine

\* The steps of a chain: the cipher, then what covers it if the cipher does not.
LEMMA ChainShapes ==
    ASSUME NEW k \in Claims
    PROVE  \/ k.cipher \in Keyed /\ ChainOf(k) = <<k.cipher>>
           \/ k.cipher \in Legacy /\ ChainOf(k) = <<k.cipher, Integrity>>
           \/ k.cipher = NoCipher /\ ChainOf(k) = <<Integrity>>
BY NamesAssumption DEF ChainOf, Claims, Ciphers

\* A chain step is the claim's own cipher or the checksum, in that order.
LEMMA OrderedChain ==
    ASSUME NEW k \in Claims
    PROVE  /\ Ordered(ChainOf(k))
           /\ \A i \in DOMAIN ChainOf(k) :
                \/ ChainOf(k)[i] = Integrity
                \/ ChainOf(k)[i] = k.cipher /\ k.cipher \in Ciphers
<1>1. Integrity \notin Ciphers
    BY NamesAssumption
<1>2. CASE ChainOf(k) = <<k.cipher>> /\ k.cipher \in Keyed
    BY <1>1, <1>2 DEF Ordered, Ciphers
<1>3. CASE ChainOf(k) = <<k.cipher, Integrity>> /\ k.cipher \in Legacy
    BY <1>1, <1>3 DEF Ordered, Ciphers
<1>4. CASE ChainOf(k) = <<Integrity>>
    <2>1. DOMAIN ChainOf(k) = {1} /\ ChainOf(k)[1] = Integrity
        BY <1>4
    <2>2. \A i \in DOMAIN ChainOf(k) : ChainOf(k)[i] = Integrity /\ ChainOf(k)[i] \notin Ciphers
        BY <1>1, <2>1
    <2> QED BY <2>2 DEF Ordered
<1> QED BY <1>2, <1>3, <1>4, ChainShapes

\* The envelope of a frame is the seal of its claim.
LEMMA SealIsSealed ==
    ASSUME NEW claim \in Claims, NEW n \in Salts, NEW mode
    PROVE  /\ SealedAs(FrameOf(claim, mode, n), claim)
           /\ Genuine(FrameOf(claim, mode, n), {claim})
<1> DEFINE f == FrameOf(claim, mode, n)
<1>1. /\ f.env.parses /\ f.env.chain = ChainOf(claim) /\ f.env.body = SealedBody(claim, n)
    BY FrameIsFrame, SealIsEnvelope
<1>2. claim.cipher \in Keyed => f.salt = n /\ f.env.body.salt = n
    BY <1>1 DEF FrameOf, SealedBody
<1>3. SealedAs(f, claim)
    BY <1>1, <1>2 DEF SealedAs, SealedBody
<1>4. Ordered(ChainOf(claim))
    BY OrderedChain
<1> QED BY <1>1, <1>3, <1>4 DEF Genuine

\* A layer that reads yields an envelope of the layer.
LEMMA ReadIsGenuine ==
    ASSUME NEW S, NEW layer \in Layers, GenuineLayer(layer, S), ReadsLayer(layer)
    PROVE  Genuine(LayerFrame(layer), S)
<1>1. CASE layer.form = "heavy"
    BY <1>1 DEF LayerFrame, GenuineLayer
<1>2. CASE layer.form # "heavy"
    <2>1. ReadsLight(layer) /\ layer.form = "light"
        BY <1>2 DEF ReadsLayer, ReadsHeavy, ReadsLight
    <2>2. FirstWhole(layer.copies) \in DOMAIN layer.copies
        <3>1. /\ layer.copies \in Seq(Frames)
              /\ \E i \in DOMAIN layer.copies : layer.copies[i].head = "ok"
            BY <2>1, LayerShapes DEF ReadsLight, IsFramed
        <3> QED BY <3>1, FirstWholeIsFramed
    <2> QED BY <1>2, <2>1, <2>2 DEF LayerFrame, GenuineLayer
<1> QED BY <1>1, <1>2

\* An alteration leaves the chain, empties it, or names a step nobody knows.
LEMMA AlteredIsOrdered ==
    ASSUME NEW env \in Envelopes, NEW c \in Carriers, Ordered(env.chain),
           NEW e \in Altered(env, c)
    PROVE  Ordered(e.chain)
<1>1. e.chain \in {env.chain, <<>>, <<Unknown>>}
    <2> DEFINE hit == [env.body EXCEPT !.hit = c]
    <2> HIDE DEF hit
    <2>1. e \in {[env EXCEPT !.parses = FALSE, !.body = hit], [env EXCEPT !.body = hit],
                 [env EXCEPT !.chain = <<>>, !.body = hit],
                 [env EXCEPT !.chain = <<Unknown>>, !.body = hit]}
        BY DEF Altered, hit
    <2> QED BY <2>1 DEF Envelopes
<1>2. Ordered(<<>>)
    BY DEF Ordered
<1>3. Ordered(<<Unknown>>)
    <2>1. DOMAIN <<Unknown>> = {1} /\ <<Unknown>>[1] = Unknown /\ Unknown # Integrity
        BY DEF Unknown, Integrity
    <2> QED BY <2>1 DEF Ordered
<1> QED BY <1>1, <1>2, <1>3

\* What the world alters is no longer as written, so it is genuine vacuously.
LEMMA AlteredFrameIsGenuine ==
    ASSUME NEW S, NEW f \in Frames, NEW c \in Carriers, Genuine(f, S),
           NEW g \in AlteredFrames(f, c)
    PROVE  Genuine(g, S)
<1>1. CASE \E h \in {"torn", "lost"} : g = [f EXCEPT !.head = h]
    <2>1. g.env = f.env /\ g.salt = f.salt
        BY <1>1 DEF Frames
    <2> QED BY <2>1 DEF Genuine, SealedAs
<1>2. CASE \E e \in Altered(f.env, c) : g = [f EXCEPT !.env = e]
    <2>1. PICK e \in Altered(f.env, c) : g = [f EXCEPT !.env = e]
        BY <1>2
    <2>2. e.body.hit = c
        BY AlteredIsEnvelope DEF Frames
    <2>3. e.body.hit # "no"
        BY <2>2, NamesAssumption
    <2>4. g.env = e
        BY <2>1 DEF Frames
    <2>5. Ordered(e.chain)
        <3>1. f.env \in Envelopes /\ Ordered(f.env.chain)
            BY DEF Frames, Genuine
        <3> QED BY <3>1, AlteredIsOrdered
    <2> QED BY <2>3, <2>4, <2>5 DEF Genuine
<1> QED BY <1>1, <1>2 DEF AlteredFrames

\* An alteration never turns a layer into somebody's unaltered seal.
LEMMA AlteredIsGenuine ==
    ASSUME NEW S, NEW layer \in Layers, NEW c \in Carriers, GenuineLayer(layer, S),
           NEW new \in AlteredLayers(layer, c)
    PROVE  GenuineLayer(new, S)
<1>1. CASE new.form \notin {"light", "heavy"}
    BY <1>1 DEF GenuineLayer
<1>2. CASE layer.form = "light" /\ new # Nothing
    <2>1. layer = [form |-> "light", copies |-> layer.copies] /\ layer.copies \in Seq(Frames)
        BY <1>2, LayerShapes
    <2> DEFINE altered == UNION {AlteredFrames(layer.copies[j], c) : j \in DOMAIN layer.copies}
    <2>2. PICK f \in altered, i \in DOMAIN layer.copies : new = [layer EXCEPT !.copies[i] = f]
        BY <1>2 DEF AlteredLayers
    <2>3. new = [form |-> "light", copies |-> [layer.copies EXCEPT ![i] = f]]
        <3> DEFINE copies == [layer.copies EXCEPT ![i] = f]
        <3>1. new = [layer EXCEPT !.copies = copies]
            BY <2>2
        <3> HIDE DEF copies
        <3>2. new = [form |-> "light", copies |-> copies]
            BY <2>1, <3>1
        <3> QED BY <3>2 DEF copies
    <2>4. Genuine(f, S)
        <3>1. PICK j \in DOMAIN layer.copies : f \in AlteredFrames(layer.copies[j], c)
            OBVIOUS
        <3>2. layer.copies[j] \in Frames /\ Genuine(layer.copies[j], S)
            BY <1>2, <2>1 DEF GenuineLayer
        <3> QED BY <3>1, <3>2, AlteredFrameIsGenuine
    <2>5. ASSUME NEW k \in DOMAIN layer.copies
          PROVE  Genuine([layer.copies EXCEPT ![i] = f][k], S)
        BY <1>2, <2>1, <2>4 DEF GenuineLayer
    <2> QED BY <2>1, <2>3, <2>5 DEF GenuineLayer
<1>3. CASE layer.form = "heavy" /\ new # Nothing
    <2>1. /\ layer = [form |-> "heavy", tail |-> layer.tail, frame |-> layer.frame]
          /\ layer.frame \in Frames /\ Genuine(layer.frame, S)
        BY <1>3, LayerShapes DEF GenuineLayer
    <2>2. CASE new = [layer EXCEPT !.tail = FALSE]
        <3>1. new.form = "heavy" /\ new.frame = layer.frame
            BY <2>1, <2>2
        <3> QED BY <2>1, <3>1 DEF GenuineLayer
    <2>3. CASE \E f \in AlteredFrames(layer.frame, c) : new = [layer EXCEPT !.frame = f]
        <3>1. PICK f \in AlteredFrames(layer.frame, c) : new = [layer EXCEPT !.frame = f]
            BY <2>3
        <3>2. new.form = "heavy" /\ new.frame = f
            BY <2>1, <3>1
        <3> QED BY <2>1, <3>2, AlteredFrameIsGenuine DEF GenuineLayer
    <2> QED BY <1>3, <2>2, <2>3 DEF AlteredLayers
<1>4. CASE layer.form = "package" /\ new # Nothing
    <2>1. layer = [form |-> "package", cipher |-> layer.cipher, body |-> layer.body]
        BY <1>4, LayerShapes
    <2>2. CASE new = Stray
        BY <2>2 DEF Stray, GenuineLayer
    <2>3. CASE \E h \in {c, "mangled"} : new = [layer EXCEPT !.body.hit = h]
        <3>1. PICK h \in {c, "mangled"} : new = [layer EXCEPT !.body.hit = h]
            BY <2>3
        <3>2. new.form = "package"
            BY <2>1, <3>1
        <3> QED BY <3>2 DEF GenuineLayer
    <2> QED BY <1>4, <2>2, <2>3 DEF AlteredLayers
<1>5. CASE new = Nothing
    BY <1>5 DEF Nothing, GenuineLayer
<1>6. CASE layer.form \notin {"light", "heavy", "package"}
    BY <1>5, <1>6 DEF AlteredLayers
<1> QED BY <1>2, <1>3, <1>4, <1>5, <1>6

\* A free channel holds nothing to vouch for.
LEMMA NothingIsGenuine == \A S : GenuineLayer(Nothing, S)
BY DEF GenuineLayer, Nothing

\* No cover arrives with a frame.
LEMMA GenuineAtStart == Init => GenuineTexts
<1>1. SUFFICES ASSUME Init PROVE GenuineTexts
    OBVIOUS
<1>2. ASSUME NEW c \in Carriers PROVE doc[c].form \in {"empty", "stray", "package"}
    <2>1. doc[c] \in ArrivingLayers(c)
        BY <1>1 DEF Init
    <2> QED BY <2>1 DEF ArrivingLayers, Nothing, Stray, PackageOf
<1> QED BY <1>1, <1>2 DEF Init, GenuineTexts, GenuineText, GenuineLayer

\* A compose writes the seal of its own claim, and records the claim.
LEMMA ComposeKeepsGenuine ==
    ASSUME TypeInv, GenuineTexts, Compose
    PROVE  GenuineTexts'
<1>1. ASSUME NEW stack \in Stacks, NEW claim \in Claims,
             NEW mode \in {"light", "heavy", "saturated"}, NEW conceal \in BOOLEAN,
             StartCompose(stack, claim, mode, conceal)
      PROVE  GenuineTexts'
    <2>1. composes + 1 \in Salts
        BY <1>1, DataAssumption DEF TypeInv, TypeOK, StartCompose, Salts
    <2>2. Genuine(FrameOf(claim, mode, composes + 1), {claim})
        BY <2>1, SealIsSealed
    <2>3. /\ job'.frame = FrameOf(claim, mode, composes + 1)
          /\ job'.draft = doc /\ job'.claim = claim
          /\ reading' = Idle /\ doc' = doc /\ sealed' = sealed
        BY <1>1 DEF StartCompose, Busy
    <2>4. GenuineText(doc, sealed) /\ GenuineText(doc, sealed \cup {claim})
        BY GenuineGrows DEF GenuineTexts
    <2> QED BY <2>2, <2>3, <2>4 DEF GenuineTexts
<1>2. ASSUME NEW stack, RefuseCompose(stack) PROVE GenuineTexts'
    BY <1>2 DEF RefuseCompose, GenuineTexts
<1>3. CASE PlaceLayer
    <2> DEFINE S == sealed \cup {job.claim}
               next == NextCarrier
               layer == LayerOf(NextCarrier)
    <2>1. /\ job # Idle /\ job.placed < Len(job.stack)
          /\ job' = [job EXCEPT !.draft = [@ EXCEPT ![next] = layer], !.placed = @ + 1]
          /\ UNCHANGED <<doc, reading, sealed>>
        BY <1>3 DEF PlaceLayer
    <2>2. job \in Jobs /\ job.draft \in Texts
        BY <2>1, JobTypes DEF TypeInv
    <2>3. /\ Genuine(job.frame, {job.claim})
          /\ GenuineText(job.draft, S)
        BY <2>1 DEF GenuineTexts
    <2>4. GenuineLayer(layer, S)
        <3>1. Genuine(job.frame, S)
            BY <2>3 DEF Genuine
        <3> QED BY <3>1 DEF LayerOf, GenuineLayer
    <2> DEFINE draft == [job.draft EXCEPT ![next] = layer]
               placed == job.placed + 1
    <2>5. job'.frame = job.frame /\ job'.claim = job.claim /\ job'.draft = draft
        <3>1. job' = [job EXCEPT !.draft = draft, !.placed = placed]
            BY <2>1
        <3> HIDE DEF draft, placed
        <3> QED BY <2>2, <3>1 DEF Jobs
    <2>6. GenuineText(draft, S)
        <3> HIDE DEF S, next, layer
        <3> QED BY <2>2, <2>3, <2>4 DEF GenuineText, Texts
    <2>7. GenuineText(job'.draft, sealed' \cup {job'.claim})
        BY <2>1, <2>5, <2>6
    <2>8. Genuine(job'.frame, {job'.claim})
        BY <2>3, <2>5
    <2> HIDE DEF draft, next, layer
    <2> QED BY <2>1, <2>7, <2>8 DEF GenuineTexts
<1>4. CASE RefuseLayer
    BY <1>4 DEF RefuseLayer, GenuineTexts
<1>5. CASE FinishCompose
    BY <1>5 DEF FinishCompose, GenuineTexts, TypeInv, OneCall
<1> QED BY <1>1, <1>2, <1>3, <1>4, <1>5 DEF Compose

\* Alterations and excerpts forge no seal.
LEMMA TransitKeepsGenuine ==
    ASSUME TypeInv, GenuineTexts, Transit
    PROVE  GenuineTexts'
<1>1. job' = Idle /\ reading' = Idle /\ sealed' = sealed
    BY DEF Transit, AlterChannel, Excerpt, Touched, Busy
<1>2. \A c \in Carriers : doc[c] \in Layers /\ GenuineLayer(doc[c], sealed)
    BY DEF TypeInv, TypeOK, Texts, GenuineTexts, GenuineText
<1>3. CASE \E c \in Carriers : AlterChannel(c)
    <2>1. PICK c \in Carriers : AlterChannel(c)
        BY <1>3
    <2>2. PICK layer \in AlteredLayers(doc[c], c) : doc' = [doc EXCEPT ![c] = layer]
        BY <2>1 DEF AlterChannel
    <2>3. GenuineLayer(layer, sealed)
        BY <1>2, AlteredIsGenuine
    <2>4. doc \in Texts
        BY DEF TypeInv, TypeOK
    <2>5. GenuineText(doc', sealed')
        BY <1>1, <1>2, <2>2, <2>3, <2>4 DEF GenuineText, Texts
    <2> QED BY <1>1, <2>5 DEF GenuineTexts
<1>4. CASE Excerpt
    <2> DEFINE Cut(layer) ==
            CASE layer.form = "light" -> [layer EXCEPT !.copies[1].head = "lost"]
              [] layer.form = "heavy" -> [layer EXCEPT !.frame.head = "lost"]
              [] layer.form = "package" -> Stray
              [] OTHER -> layer
    <2>1. doc' = [c \in Carriers |-> Cut(doc[c])]
        BY <1>4 DEF Excerpt
    <2>2. ASSUME NEW layer \in Layers, GenuineLayer(layer, sealed)
          PROVE  GenuineLayer(Cut(layer), sealed)
        <3>1. CASE layer.form = "light"
            <4> DEFINE copies == layer.copies
                       lost == [copies[1] EXCEPT !.head = "lost"]
                       cut == [copies EXCEPT ![1] = lost]
            <4>1. layer = [form |-> "light", copies |-> copies] /\ copies \in Seq(Frames)
                BY <3>1, LayerShapes
            <4>2. Cut(layer).form = "light" /\ Cut(layer).copies = cut
                <5>1. Cut(layer) = [layer EXCEPT !.copies = cut]
                    BY <3>1
                <5> HIDE DEF cut, copies, Cut
                <5> QED BY <4>1, <5>1
            <4>3. ASSUME NEW i \in DOMAIN copies PROVE  cut[i].env = copies[i].env /\ cut[i].salt = copies[i].salt
                <5>1. copies[i] \in Frames
                    BY <4>1
                <5>2. CASE i = 1
                    <6>1. cut[1] = lost
                        BY <5>2
                    <6>2. copies[1] \in Frames
                        BY <5>1, <5>2
                    <6>3. lost.env = copies[1].env /\ lost.salt = copies[1].salt
                        <7> DEFINE first == copies[1]
                        <7> HIDE DEF first
                        <7>1. first \in Frames => /\ [first EXCEPT !.head = "lost"].env = first.env
                                                 /\ [first EXCEPT !.head = "lost"].salt = first.salt
                            BY DEF Frames
                        <7> USE DEF first
                        <7> QED BY <6>2, <7>1
                    <6> HIDE DEF cut, lost
                    <6> QED BY <5>2, <6>1, <6>3
                <5>3. CASE i # 1
                    BY <5>3
                <5> QED BY <5>2, <5>3
            <4>4. DOMAIN cut = DOMAIN copies
                OBVIOUS
            <4>5. \A i \in DOMAIN copies : Genuine(copies[i], sealed)
                BY <2>2, <3>1 DEF GenuineLayer
            <4> HIDE DEF cut, lost, Cut
            <4> QED BY <4>2, <4>3, <4>4, <4>5 DEF GenuineLayer, Genuine, SealedAs
        <3>2. CASE layer.form = "heavy"
            <4> DEFINE lost == [layer.frame EXCEPT !.head = "lost"]
            <4>1. /\ layer = [form |-> "heavy", tail |-> layer.tail, frame |-> layer.frame]
                  /\ layer.frame \in Frames
                BY <3>2, LayerShapes
            <4>2. lost.env = layer.frame.env /\ lost.salt = layer.frame.salt
                BY <4>1 DEF Frames
            <4>3. Cut(layer) = [layer EXCEPT !.frame = lost]
                BY <3>2
            <4> HIDE DEF lost
            <4>4. Cut(layer).form = "heavy" /\ Cut(layer).frame = lost
                BY <4>1, <4>3
            <4> QED BY <2>2, <3>2, <4>2, <4>4 DEF GenuineLayer, Genuine, SealedAs
        <3>3. CASE layer.form = "package"
            BY <3>3 DEF GenuineLayer, Stray
        <3>4. CASE layer.form \notin {"light", "heavy", "package"}
            BY <2>2, <3>4
        <3> QED BY <3>1, <3>2, <3>3, <3>4
    <2>3. GenuineText(doc', sealed')
        <3> HIDE DEF Cut
        <3> QED BY <1>1, <1>2, <2>1, <2>2 DEF GenuineText
    <2> QED BY <1>1, <2>3 DEF GenuineTexts
<1> QED BY <1>3, <1>4 DEF Transit

\* A decode only ever holds what it read from the document.
LEMMA RevealKeepsGenuine ==
    ASSUME TypeInv, GenuineTexts, Reveal
    PROVE  GenuineTexts'
<1>1. ASSUME NEW cands, NEW offered, NEW pass, StartDecode(cands, offered, pass)
      PROVE  GenuineTexts'
    <2>1. reading'.text = doc /\ reading'.found = <<>>
        BY <1>1 DEF StartDecode
    <2> QED BY <1>1, <2>1 DEF StartDecode, Busy, GenuineTexts
<1>2. CASE RefuseDecode
    BY <1>2 DEF RefuseDecode, GenuineTexts
<1>3. ASSUME NEW w, NEW o, Halt(w, o) PROVE GenuineTexts'
    BY <1>3 DEF Halt, GenuineTexts
<1>4. CASE LayerWave
    <2> DEFINE c == Outermost(reading.todo)
    <2>1. /\ reading # Idle /\ reading \in Readings /\ reading.text \in Texts
          /\ c \in Carriers
        BY <1>4, ReadingTypes, OutermostIsIn DEF LayerWave, InPhase, TypeInv
    <2>2. GenuineText(reading.text, sealed)
        BY <2>1 DEF GenuineTexts
    <2>3. CASE /\ LayerHolds(c)
               /\ reading' = [reading EXCEPT !.todo = @ \ {c},
                                  !.found = <<LayerFrame(reading.text[c])>>,
                                  !.text = [@ EXCEPT ![c] = Nothing]]
               /\ UNCHANGED <<doc, job, sealed>>
        <3> DEFINE frame == LayerFrame(reading.text[c])
                   todo == reading.todo \ {c}
                   text == [reading.text EXCEPT ![c] = Nothing]
        <3>1. Genuine(frame, sealed)
            BY <2>1, <2>2, <2>3, ReadIsGenuine DEF LayerHolds, GenuineText, Texts
        <3>2. GenuineText(text, sealed)
            BY <2>1, <2>2, NothingIsGenuine DEF GenuineText, Texts
        <3>3. reading'.found = <<frame>> /\ reading'.text = text
            <4>1. reading' = [reading EXCEPT !.todo = todo, !.found = <<frame>>, !.text = text]
                BY <2>3
            <4> HIDE DEF todo, frame, text
            <4> QED BY <2>1, <4>1 DEF Readings
        <3>4. reading'.found[1] = frame
            <4> HIDE DEF frame, text
            <4> QED BY <3>3
        <3>5. GenuineText(doc, sealed) /\ job' = job /\ doc' = doc /\ sealed' = sealed
              /\ (job # Idle => /\ Genuine(job.frame, {job.claim})
                                /\ GenuineText(job.draft, sealed \cup {job.claim}))
            BY <2>3 DEF GenuineTexts
        <3> HIDE DEF frame, text
        <3> QED BY <3>1, <3>2, <3>3, <3>4, <3>5 DEF GenuineTexts
    <2> QED BY <1>3, <1>4, <2>3 DEF LayerWave
<1>5. CASE EnvelopeWave \/ ChainWave
    <2>1. CASE UNCHANGED <<doc, job, sealed>> /\ reading'.found = reading.found
               /\ reading'.text = reading.text /\ reading # Idle
        BY <2>1 DEF GenuineTexts
    <2>2. reading # Idle /\ reading \in Readings
        BY <1>5, ReadingTypes DEF EnvelopeWave, ChainWave, InPhase, TypeInv
    <2>3. CASE EnvelopeWave
        <3>1. CASE /\ UNCHANGED <<doc, job, sealed>>
                   /\ reading' = [reading EXCEPT !.phase = "chain",
                                     !.left = Len(reading.found[1].env.chain),
                                     !.body = reading.found[1].env.body]
            <4>1. reading'.found = reading.found /\ reading'.text = reading.text
                BY <2>2, <3>1 DEF Readings
            <4> QED BY <2>1, <2>2, <3>1, <4>1
        <3> QED BY <1>3, <2>3, <3>1 DEF EnvelopeWave
    <2>4. CASE ChainWave
        <3> DEFINE step == reading.found[1].env.chain[reading.left]
        <3>1. CASE /\ UNCHANGED <<doc, job, sealed>>
                   /\ reading' = [reading EXCEPT !.left = @ - 1, !.body = Reverted(step, @)]
            <4> HIDE DEF step
            <4>1. reading'.found = reading.found /\ reading'.text = reading.text
                BY <2>2, <3>1 DEF Readings
            <4> QED BY <2>1, <2>2, <3>1, <4>1
        <3> QED BY <1>3, <2>4, <3>1 DEF ChainWave
    <2> QED BY <1>5, <2>3, <2>4
<1>6. CASE ReturnSecret
    BY <1>6 DEF ReturnSecret, GenuineTexts
<1>7. CASE Recover
    BY <1>7 DEF Recover, GenuineTexts
<1> QED BY <1>1, <1>2, <1>4, <1>5, <1>6, <1>7 DEF Reveal

\* Every step keeps every unaltered envelope the seal of a claim.
LEMMA StepGenuine == TypeInv /\ GenuineTexts /\ [Next]_vars => GenuineTexts'
<1>1. CASE GenuineTexts /\ TakeAnswer
    BY <1>1 DEF TakeAnswer, GenuineTexts
<1>2. CASE GenuineTexts /\ UNCHANGED vars
    BY <1>2 DEF vars, GenuineTexts
<1> QED BY <1>1, <1>2, ComposeKeepsGenuine, TransitKeepsGenuine, RevealKeepsGenuine DEF Next

\* A keyed cipher is the only transform of its chain.
LEMMA KeyedIsAlone ==
    ASSUME NEW k \in Claims, NEW i \in 1..Len(ChainOf(k)), ChainOf(k)[i] \in Keyed
    PROVE  i = 1 /\ ChainOf(k)[i] = k.cipher
<1>1. Integrity \notin Keyed /\ Keyed \cap Legacy = {}
    BY NamesAssumption DEF Ciphers
<1>2. CASE k.cipher \in Keyed
    <2>1. ChainOf(k) = <<k.cipher>>
        BY <1>1, <1>2 DEF ChainOf
    <2> QED BY <2>1
<1>3. CASE k.cipher \in Legacy
    <2>1. ChainOf(k) = <<k.cipher, Integrity>>
        BY <1>1, <1>3 DEF ChainOf
    <2>2. i \in {1, 2} /\ ChainOf(k)[i] \notin Keyed
        BY <1>1, <1>3, <2>1
    <2> QED BY <2>2
<1>4. CASE k.cipher \notin Keyed \cup Legacy
    <2>1. ChainOf(k) = <<Integrity>>
        BY <1>4 DEF ChainOf
    <2>2. i = 1 /\ ChainOf(k)[i] = Integrity
        BY <2>1
    <2> QED BY <1>1, <2>2
<1> QED BY <1>2, <1>3, <1>4

\* Only a verified tag authenticates.
LEMMA OtherWaves ==
    ASSUME TypeOK, NEW w, NEW o, NEW v, o # "aead" \/ v # "passed",
           trace' = Append(trace, Wave(w, o, v))
    PROVE  Authenticated' <=> Authenticated
<1>1. trace \in Seq(Waves)
    BY DEF TypeOK
<1>2. /\ DOMAIN trace = 1..Len(trace) /\ Len(trace) \in Nat
      /\ DOMAIN trace' = 1..(Len(trace) + 1)
      /\ \A i \in DOMAIN trace : trace'[i] = trace[i]
      /\ trace'[Len(trace) + 1] = Wave(w, o, v)
    BY <1>1
<1>3. ~(Wave(w, o, v).oracle = "aead" /\ Wave(w, o, v).verdict = "passed")
    BY DEF Wave
<1>4. \A i \in DOMAIN trace' : i = Len(trace) + 1 \/ i \in DOMAIN trace
    BY <1>2
<1>5. DOMAIN trace \subseteq DOMAIN trace'
    BY <1>2
<1> QED BY <1>2, <1>3, <1>4, <1>5 DEF Authenticated

\* Where no decode runs and no secret is returned nothing is claimed.
LEMMA NoSecretYet ==
    ASSUME reading' = Idle, answer'.kind # "secret"
    PROVE  TagLast' /\ AuthenticatedAnswer'
BY DEF TagLast, AuthenticatedAnswer

\* No tag has verified before anything was read.
LEMMA TagAtStart == Init => TagLast /\ AuthenticatedAnswer
BY DEF Init, TagLast, AuthenticatedAnswer, NoAnswer

\* A compose never runs beside a decode, so it disturbs no tag.
LEMMA ComposeKeepsTag ==
    ASSUME TypeInv, TagLast, AuthenticatedAnswer, Compose
    PROVE  TagLast' /\ AuthenticatedAnswer'
<1>1. NoAnswer.kind # "secret" /\ [kind |-> "refused"].kind # "secret"
      /\ [kind |-> "composed"].kind # "secret"
    BY DEF NoAnswer
<1>2. reading' = Idle /\ answer'.kind # "secret"
    <2>1. ASSUME NEW stack, NEW claim, NEW mode, NEW conceal,
                 StartCompose(stack, claim, mode, conceal)
          PROVE  reading' = Idle /\ answer'.kind # "secret"
        BY <1>1, <2>1 DEF StartCompose, Busy
    <2>2. ASSUME NEW stack, RefuseCompose(stack)
          PROVE  reading' = Idle /\ answer'.kind # "secret"
        BY <1>1, <2>2 DEF RefuseCompose, Busy
    <2>3. CASE PlaceLayer
        BY <1>1, <2>3 DEF PlaceLayer, TypeInv, OneCall
    <2>4. CASE RefuseLayer
        BY <1>1, <2>4 DEF RefuseLayer, TypeInv, OneCall
    <2>5. CASE FinishCompose
        BY <1>1, <2>5 DEF FinishCompose, TypeInv, OneCall
    <2> QED BY <2>1, <2>2, <2>3, <2>4, <2>5 DEF Compose
<1> QED BY <1>2, NoSecretYet

\* The document is not altered under a decode.
LEMMA TransitKeepsTag ==
    ASSUME Transit
    PROVE  TagLast' /\ AuthenticatedAnswer'
<1>1. reading' = Idle /\ answer' = NoAnswer
    BY DEF Transit, AlterChannel, Excerpt, Touched, Busy
<1> QED BY <1>1, NoSecretYet DEF NoAnswer

\* A halted decode returns no secret.
LEMMA HaltKeepsTag ==
    ASSUME NEW w, NEW o, Halt(w, o)
    PROVE  TagLast' /\ AuthenticatedAnswer'
BY NoSecretYet DEF Halt

\* A decode begins with no tag verified.
LEMMA StartDecodeKeepsTag ==
    ASSUME NEW cands, NEW offered, NEW pass, StartDecode(cands, offered, pass)
    PROVE  TagLast' /\ AuthenticatedAnswer'
<1>1. ~Authenticated'
    BY DEF StartDecode, Authenticated, Wave
<1>2. answer' = NoAnswer /\ reading'.phase # "chain"
    BY DEF StartDecode, Busy
<1> QED BY <1>1, <1>2 DEF TagLast, AuthenticatedAnswer, NoAnswer

\* Reading a layer verifies no tag.
LEMMA LayerWaveKeepsTag ==
    ASSUME TypeInv, TagLast, LayerWave
    PROVE  TagLast' /\ AuthenticatedAnswer'
<1> DEFINE c == Outermost(reading.todo)
<1>1. reading # Idle /\ reading.phase = "layers" /\ ~Authenticated /\ reading \in Readings
      /\ answer = NoAnswer
    BY ReadingTypes DEF LayerWave, InPhase, TagLast, TypeInv, OneCall
<1>2. CASE /\ Pass(c, "checksum")
           /\ reading' = [reading EXCEPT !.todo = @ \ {c},
                              !.found = <<LayerFrame(reading.text[c])>>,
                              !.text = [@ EXCEPT ![c] = Nothing]]
           /\ UNCHANGED answer
    <2>1. ~Authenticated'
        BY <1>1, <1>2, OtherWaves DEF Pass, TypeInv
    <2>2. reading'.phase = "layers"
        <3> DEFINE todo == reading.todo \ {c}
                   found == <<LayerFrame(reading.text[c])>>
                   text == [reading.text EXCEPT ![c] = Nothing]
        <3>1. reading' = [reading EXCEPT !.todo = todo, !.found = found, !.text = text]
            BY <1>2
        <3> HIDE DEF todo, found, text
        <3> QED BY <1>1, <3>1 DEF Readings
    <2> QED BY <1>1, <1>2, <2>1, <2>2 DEF TagLast, AuthenticatedAnswer, NoAnswer
<1>3. CASE Halt(c, "checksum")
    BY <1>3, HaltKeepsTag
<1> QED BY <1>2, <1>3 DEF LayerWave

\* The chain begins as that of the claim the envelope is the seal of.
LEMMA EnvelopeWaveKeepsTag ==
    ASSUME TypeInv, GenuineTexts, TagLast, EnvelopeWave
    PROVE  TagLast' /\ AuthenticatedAnswer'
<1> DEFINE env == reading.found[1].env
<1>1. /\ reading # Idle /\ ~Authenticated /\ reading \in Readings
      /\ reading.found # <<>> /\ answer = NoAnswer
    BY ReadingTypes DEF EnvelopeWave, InPhase, TagLast, TypeInv, OneCall, ReadingShape
<1>2. CASE /\ Pass("envelope", "none")
           /\ reading' = [reading EXCEPT !.phase = "chain", !.left = Len(env.chain),
                                         !.body = env.body]
           /\ UNCHANGED <<answer, sealed>>
    <2>1. ~Authenticated'
        BY <1>1, <1>2, OtherWaves DEF Pass, TypeInv
    <2>2. /\ reading'.phase = "chain" /\ reading'.found = reading.found
          /\ reading'.left = Len(env.chain) /\ reading'.body = env.body
        <3> DEFINE left == Len(env.chain)
                   body == env.body
        <3>1. reading' = [reading EXCEPT !.phase = "chain", !.left = left, !.body = body]
            BY <1>2
        <3> HIDE DEF left, body
        <3> QED BY <1>1, <3>1 DEF Readings, left, body
    <2>3. Genuine(reading.found[1], sealed)
        BY <1>1 DEF GenuineTexts
    <2>4. ASSUME NEW k \in sealed, SealedAs(reading.found[1], k) PROVE Undoing(k)'
        BY <2>2, <2>4 DEF SealedAs, Undoing
    <2>5. reading'.body.hit = "no" => \E k \in sealed' : Undoing(k)'
        BY <1>2, <2>2, <2>3, <2>4 DEF Genuine
    <2> QED BY <1>1, <1>2, <2>1, <2>2, <2>5 DEF TagLast, AuthenticatedAnswer, NoAnswer
<1>3. CASE Halt("envelope", "none")
    BY <1>3, HaltKeepsTag
<1> QED BY <1>2, <1>3 DEF EnvelopeWave

\* What is left of a body once its outermost transform is undone.
LEMMA PeelsOne ==
    ASSUME NEW body \in Bodies, body.on # <<>>
    PROVE  /\ Peeled(body).on \in Seq(Ciphers \cup {Integrity})
           /\ Len(Peeled(body).on) = Len(body.on) - 1
           /\ \A i \in 1..(Len(body.on) - 1) : Peeled(body).on[i] = body.on[i]
           /\ Peeled(body).secret = body.secret /\ Peeled(body).pass = body.pass
           /\ Peeled(body).hit = body.hit /\ Peeled(body).salt = body.salt
<1> DEFINE on == [i \in 1..(Len(body.on) - 1) |-> body.on[i]]
<1>1. body.on \in Seq(Ciphers \cup {Integrity}) /\ Len(body.on) - 1 \in Nat
    <2>1. body.on \in Seq(Ciphers \cup {Integrity})
        BY DEF Bodies
    <2> QED BY <2>1
<1>2. \A i \in 1..(Len(body.on) - 1) : body.on[i] \in Ciphers \cup {Integrity}
    BY <1>1
<1>3. on \in Seq(Ciphers \cup {Integrity})
    BY <1>1, <1>2, IsASeq
<1>4. Len(on) = Len(body.on) - 1
    <2>1. DOMAIN on = 1..(Len(body.on) - 1) /\ DOMAIN on = 1..Len(on) /\ Len(on) \in Nat
        BY <1>3
    <2> HIDE DEF on
    <2> QED BY <1>1, <2>1
<1>5. Peeled(body) = [body EXCEPT !.on = on]
    BY DEF Peeled
<1>6. \A i \in 1..(Len(body.on) - 1) : on[i] = body.on[i]
    OBVIOUS
<1> HIDE DEF on
<1>7. /\ Peeled(body).on = on /\ Peeled(body).secret = body.secret
      /\ Peeled(body).pass = body.pass /\ Peeled(body).hit = body.hit
      /\ Peeled(body).salt = body.salt
    BY <1>5 DEF Bodies
<1> QED BY <1>3, <1>4, <1>6, <1>7

\* A chain step undoes the next transform of the claim; a tag that verifies was
\* that of the claim's own cipher, under its own passcode.
LEMMA ChainWaveKeepsTag ==
    ASSUME TypeInv, GenuineTexts, TagLast, ChainWave
    PROVE  TagLast' /\ AuthenticatedAnswer'
<1> DEFINE chain == reading.found[1].env.chain
           step == chain[reading.left]
           salt == reading.found[1].salt
           body == reading.body
<1>1. /\ reading # Idle /\ reading.phase = "chain" /\ reading.left > 0
      /\ reading \in Readings /\ body \in Bodies /\ reading.left \in Nat
      /\ reading.left <= Len(chain) /\ answer = NoAnswer
    BY ReadingTypes DEF ChainWave, InPhase, TypeInv, OneCall, ReadingShape
<1>2. ~Authenticated /\ (body.hit = "no" => \E k \in sealed : Undoing(k))
    BY <1>1 DEF TagLast
<1>3. sealed \subseteq Claims
    BY DEF TypeInv, TypeOK
<1>4. CASE /\ Reverts(step, body, salt)
           /\ Pass(step, OracleOf(step))
           /\ reading' = [reading EXCEPT !.left = @ - 1, !.body = Reverted(step, @)]
           /\ UNCHANGED <<ask, answer, sealed>>
    <2> DEFINE left == reading.left - 1
               next == Reverted(step, body)
    <2>1. /\ reading'.phase = "chain" /\ reading'.found = reading.found
          /\ reading'.left = left /\ reading'.body = next
        <3>1. reading' = [reading EXCEPT !.left = left, !.body = next]
            BY <1>4
        <3> HIDE DEF left, next
        <3> QED BY <1>1, <3>1 DEF Readings
    <2>2. trace' = Append(trace, Wave(step, OracleOf(step), "passed"))
        BY <1>4 DEF Pass
    <2>3. next.hit = "no" =>
            /\ body.hit = "no" /\ body.on # <<>> /\ next = Peeled(body)
            /\ body.on[Len(body.on)] = step
        <3>1. CASE step \in Legacy /\ ~(IsOutside(step, body) /\ body.pass = ask.pass)
            <4>1. next = [body EXCEPT !.on = <<>>, !.hit = "mangled"]
                BY <3>1 DEF Reverted
            <4>2. next.hit = "mangled"
                <5> HIDE DEF next, body
                <5> QED BY <1>1, <4>1 DEF Bodies
            <4> QED BY <4>2
        <3>2. CASE ~(step \in Legacy /\ ~(IsOutside(step, body) /\ body.pass = ask.pass))
            <4>1. next = Peeled(body) /\ IsOutside(step, body)
                BY <1>4, <3>2 DEF Reverted, Reverts
            <4>2. body.on # <<>> /\ body.on[Len(body.on)] = step
                BY <4>1 DEF IsOutside
            <4>3. next.hit = body.hit
                BY <1>1, <4>1, <4>2, PeelsOne
            <4> QED BY <4>1, <4>2, <4>3, SMTT(40)
        <3> QED BY <3>1, <3>2
    <2>4. CASE OracleOf(step) = "aead"
        <3>1. step \in Keyed /\ CanTry(step)
            BY <2>4, SMTT(40) DEF OracleOf
        <3>2. /\ body.hit = "no" /\ body.pass = ask.pass /\ next = Peeled(body)
              /\ body.on # <<>>
            <4>1. step \notin Legacy /\ step # Integrity
                BY <3>1, NamesAssumption DEF Ciphers
            <4> QED BY <1>4, <4>1 DEF Reverts, Reverted, IsOutside
        <3>3. PICK k \in sealed : Undoing(k)
            BY <1>2, <3>2
        <3>4. /\ chain = ChainOf(k) /\ body.secret = k.secret /\ body.pass = k.pass
              /\ Len(body.on) = reading.left
            BY <3>3 DEF Undoing
        <3>5. reading.left = 1 /\ step = k.cipher
            <4>1. reading.left \in 1..Len(ChainOf(k)) /\ ChainOf(k)[reading.left] \in Keyed
                BY <1>1, <3>1, <3>4
            <4>2. k \in Claims
                BY <1>3, <3>3
            <4>3. reading.left = 1 /\ ChainOf(k)[reading.left] = k.cipher
                BY <4>1, <4>2, KeyedIsAlone
            <4> QED BY <3>4, <4>3
        <3>6. /\ next.on = <<>> /\ next.hit = "no"
              /\ next.secret = k.secret /\ left = 0
            <4>1. /\ Len(next.on) = Len(body.on) - 1
                  /\ next.on \in Seq(Ciphers \cup {Integrity})
                  /\ next.hit = body.hit /\ next.secret = body.secret
                <5> HIDE DEF next, body
                <5> QED BY <1>1, <3>2, PeelsOne
            <4>2. next.hit = "no" /\ next.secret = k.secret /\ Len(body.on) = 1
                <5> HIDE DEF next
                <5> QED BY <3>2, <3>4, <3>5, <4>1
            <4>3. Len(next.on) = 0 /\ next.on = <<>>
                <5> HIDE DEF next, body
                <5> QED BY <4>1, <4>2
            <4> QED BY <3>5, <4>2, <4>3
        <3>7. \E i \in DOMAIN trace' : trace'[i].wave = k.cipher
            <4>1. trace \in Seq(Waves)
                BY DEF TypeInv, TypeOK
            <4>2. Len(trace) + 1 \in DOMAIN trace'
                  /\ trace'[Len(trace) + 1] = Wave(step, OracleOf(step), "passed")
                BY <2>2, <4>1
            <4>3. Wave(step, OracleOf(step), "passed").wave = step
                BY DEF Wave
            <4> QED BY <3>5, <4>2, <4>3
        <3>8. Authenticated'
            <4>1. trace \in Seq(Waves)
                BY DEF TypeInv, TypeOK
            <4>2. Len(trace) + 1 \in DOMAIN trace'
                  /\ trace'[Len(trace) + 1] = Wave(step, OracleOf(step), "passed")
                BY <2>2, <4>1
            <4>3. /\ Wave(step, OracleOf(step), "passed").oracle = "aead"
                  /\ Wave(step, OracleOf(step), "passed").verdict = "passed"
                BY <2>4 DEF Wave
            <4> QED BY <4>2, <4>3 DEF Authenticated
        <3>9. Vouched(k, reading.body.secret)'
            <4> HIDE DEF next
            <4> QED BY <1>4, <2>1, <3>2, <3>4, <3>6, <3>7, SMTT(40) DEF Vouched
        <3> HIDE DEF next, left
        <3>10. TagLast'
            BY <1>4, <2>1, <3>3, <3>6, <3>8, <3>9 DEF TagLast
        <3> QED BY <1>1, <1>4, <3>10 DEF AuthenticatedAnswer, NoAnswer
    <2>5. CASE OracleOf(step) # "aead"
        <3>1. ~Authenticated'
            BY <1>2, <2>2, <2>5, OtherWaves DEF TypeInv
        <3>2. ASSUME next.hit = "no" PROVE \E k \in sealed : Undoing(k)'
            <4>1. PICK k \in sealed : Undoing(k)
                BY <1>2, <2>3, <3>2
            <4>2. /\ chain = ChainOf(k) /\ body.secret = k.secret /\ body.pass = k.pass
                  /\ Len(body.on) = reading.left
                  /\ \A i \in 1..Len(body.on) : body.on[i] = ChainOf(k)[i]
                BY <4>1 DEF Undoing
            <4>3. next = Peeled(body) /\ body.on # <<>>
                BY <2>3, <3>2
            <4>4. /\ Len(next.on) = left /\ next.secret = k.secret /\ next.pass = k.pass
                  /\ \A i \in 1..left : next.on[i] = body.on[i]
                BY <1>1, <4>2, <4>3, PeelsOne
            <4>5. \A i \in 1..left : i \in 1..Len(body.on)
                BY <1>1, <4>2
            <4> HIDE DEF next
            <4>6. Undoing(k)'
                BY <2>1, <4>2, <4>4, <4>5 DEF Undoing
            <4> QED BY <4>1, <4>6
        <3> HIDE DEF next
        <3>3. TagLast'
            BY <1>4, <2>1, <3>1, <3>2 DEF TagLast
        <3> QED BY <1>1, <1>4, <3>3 DEF AuthenticatedAnswer, NoAnswer
    <2> QED BY <2>4, <2>5
<1>5. CASE Halt(step, OracleOf(step))
    BY <1>5, HaltKeepsTag
<1> QED BY <1>4, <1>5 DEF ChainWave

\* A secret returned behind a tag is the claim's.
LEMMA ReturnSecretKeepsTag ==
    ASSUME TagLast, ReturnSecret
    PROVE  TagLast' /\ AuthenticatedAnswer'
<1>1. /\ reading # Idle /\ reading.phase = "chain" /\ reading' = Idle
      /\ answer'.value = Bytes(reading.body)
      /\ UNCHANGED <<ask, trace, sealed>>
    BY DEF ReturnSecret, InPhase
<1>2. ASSUME Authenticated
      PROVE  \E k \in sealed : Vouched(k, answer'.value)
    <2>1. /\ reading.body.hit = "no" /\ reading.body.on = <<>>
          /\ \E k \in sealed : Vouched(k, reading.body.secret)
        BY <1>1, <1>2 DEF TagLast
    <2> QED BY <1>1, <2>1 DEF Bytes
<1>3. Authenticated' <=> Authenticated
    BY <1>1 DEF Authenticated
<1>4. AuthenticatedAnswer'
    BY <1>1, <1>2, <1>3 DEF AuthenticatedAnswer, Vouched
<1> QED BY <1>1, <1>4 DEF TagLast

\* The recovery sweep verifies no tag.
LEMMA RecoverKeepsTag ==
    ASSUME TypeInv, TagLast, Recover
    PROVE  TagLast' /\ AuthenticatedAnswer'
<1>1. ~Authenticated /\ reading' = Idle
    BY DEF Recover, InPhase, TagLast
<1>2. ASSUME NEW o, NEW v, o # "aead",
             trace' = Append(trace, Wave("recovery_sweep", o, v))
      PROVE  ~Authenticated'
    BY <1>1, <1>2, OtherWaves DEF TypeInv
<1>3. ~Authenticated'
    BY <1>2 DEF Recover, Pass
<1> QED BY <1>1, <1>3 DEF TagLast, AuthenticatedAnswer

\* Every step keeps the tags to what was sealed.
LEMMA StepTags == AuthInv /\ [Next]_vars => TagLast' /\ AuthenticatedAnswer'
<1>1. SUFFICES ASSUME AuthInv, [Next]_vars PROVE TagLast' /\ AuthenticatedAnswer'
    OBVIOUS
<1>2. TypeInv /\ GenuineTexts /\ TagLast /\ AuthenticatedAnswer
    BY <1>1 DEF AuthInv
<1>3. CASE Reveal
    <2>1. CASE RefuseDecode
        BY <2>1, NoSecretYet DEF RefuseDecode, Busy
    <2> QED BY <1>2, <1>3, <2>1, StartDecodeKeepsTag, LayerWaveKeepsTag,
               EnvelopeWaveKeepsTag, ChainWaveKeepsTag, ReturnSecretKeepsTag, RecoverKeepsTag
            DEF Reveal
<1>4. CASE TakeAnswer
    <2>1. reading' = Idle /\ answer' = NoAnswer
        BY <1>2, <1>4 DEF TakeAnswer, TypeInv, OneCall
    <2> QED BY <2>1, NoSecretYet DEF NoAnswer
<1>5. CASE UNCHANGED vars
    BY <1>2, <1>5 DEF vars, TagLast, AuthenticatedAnswer, Authenticated, Undoing, Vouched
<1> QED BY <1>1, <1>2, <1>3, <1>4, <1>5, ComposeKeepsTag, TransitKeepsTag DEF Next

\* Every unaltered envelope is the seal of a claim, throughout, and a tag that
\* verified is the last step of one (revert_step).
THEOREM AuthHolds == Spec => []AuthInv
<1>1. Init => AuthInv
    BY InitTypes, GenuineAtStart, TagAtStart DEF AuthInv
<1>2. AuthInv /\ [Next]_vars => AuthInv'
    BY StepTypes, StepGenuine, StepTags DEF AuthInv
<1> QED BY <1>1, <1>2, PTL DEF Spec

\* An answer that an authentication tag vouched for is a secret somebody sealed
\* under that cipher and that passcode, whatever was done to the document
\* between and whatever else was composed into it (pipeline.rs revert_step).
THEOREM TagsVouch == Spec => []AuthenticatedAnswer
<1>1. AuthInv => AuthenticatedAnswer
    BY DEF AuthInv
<1> QED BY <1>1, AuthHolds, PTL

-----------------------------------------------------------------------------
(* Composing.  Until the last layer is placed only the draft changes: it is *)
(* the document, but for the carriers placed so far, whose channels were    *)
(* free and now read back as the frame.                                     *)

JobInv ==
    job # Idle =>
        /\ job.placed <= Len(job.stack)
        /\ \A i, j \in DOMAIN job.stack : job.stack[i] = job.stack[j] => i = j
        /\ \A c \in Carriers :
            IF \E i \in 1..job.placed : job.stack[i] = c
            THEN /\ doc[c] = Nothing
                 /\ ReadsLayer(job.draft[c]) /\ LayerFrame(job.draft[c]) = job.frame
            ELSE job.draft[c] = doc[c]

\* A stack is a sequence of carriers.
LEMMA StackIsSeq ==
    ASSUME NEW stack \in Stacks
    PROVE  stack \in Seq(Carriers)
<1>1. PICK n \in 0..MaxStack : stack \in [1..n -> Carriers]
    BY DEF Stacks
<1> QED BY <1>1, DataAssumption, IsASeq

\* What placing a layer does to the compose in progress.
LEMMA PlaceLayerStep ==
    ASSUME TypeInv, PlaceLayer
    PROVE  /\ job # Idle /\ job.placed \in Nat /\ job.placed < Len(job.stack)
           /\ job.stack \in Seq(Carriers) /\ job.draft \in [Carriers -> Layers]
           /\ NextCarrier \in Carriers /\ NextCarrier = job.stack[job.placed + 1]
           /\ job'.placed = job.placed + 1 /\ job'.stack = job.stack
           /\ job'.frame = job.frame
           /\ job'.draft = [job.draft EXCEPT ![NextCarrier] = LayerOf(NextCarrier)]
<1> DEFINE draft == [job.draft EXCEPT ![NextCarrier] = LayerOf(NextCarrier)]
           placed == job.placed + 1
<1>1. /\ job # Idle /\ job.placed < Len(job.stack)
      /\ job' = [job EXCEPT !.draft = draft, !.placed = placed]
    BY DEF PlaceLayer
<1>2. /\ job \in Jobs /\ job.stack \in Seq(Carriers) /\ job.placed \in Nat
      /\ job.draft \in [Carriers -> Layers]
    BY <1>1, JobTypes DEF TypeInv, Texts
<1>3. NextCarrier \in Carriers
    BY <1>1, <1>2 DEF NextCarrier
<1>4. job'.placed = placed /\ job'.stack = job.stack /\ job'.frame = job.frame
      /\ job'.draft = draft
    <2> HIDE DEF draft, placed
    <2> QED BY <1>1, <1>2 DEF Jobs
<1> QED BY <1>1, <1>2, <1>3, <1>4 DEF NextCarrier

\* Placing a layer moves one free channel of the stack from the document's to
\* the frame's.
LEMMA PlaceLayerKeepsDraft ==
    ASSUME TypeInv, JobInv, PlaceLayer
    PROVE  JobInv'
<1> DEFINE next == NextCarrier
           n == job.placed + 1
<1>1. /\ job # Idle /\ job.placed \in Nat /\ n <= Len(job.stack) /\ Len(job.stack) \in Nat
      /\ job.draft \in [Carriers -> Layers] /\ next \in Carriers /\ next = job.stack[n]
      /\ job'.placed = n /\ job'.stack = job.stack /\ job'.frame = job.frame
      /\ job'.draft = [job.draft EXCEPT ![next] = LayerOf(next)]
      /\ DOMAIN job.stack = 1..Len(job.stack)
    BY PlaceLayerStep
<1>2. \A i, j \in DOMAIN job.stack : job.stack[i] = job.stack[j] => i = j
    BY <1>1 DEF JobInv
<1>3. ~(\E i \in 1..job.placed : job.stack[i] = next)
    BY <1>1, <1>2
<1>4. doc[next] = Nothing
    <2>1. job.draft[next] = Nothing
        BY DEF PlaceLayer, CanPlace
    <2>2. job.draft[next] = doc[next]
        BY <1>1, <1>3 DEF JobInv
    <2> QED BY <2>1, <2>2
<1>5. ReadsLayer(LayerOf(next)) /\ LayerFrame(LayerOf(next)) = job.frame /\ doc' = doc
    BY DEF PlaceLayer
<1>6. ASSUME NEW c \in Carriers
      PROVE  IF \E i \in 1..n : job.stack[i] = c
             THEN /\ doc[c] = Nothing
                  /\ ReadsLayer(job'.draft[c]) /\ LayerFrame(job'.draft[c]) = job.frame
             ELSE job'.draft[c] = doc[c]
    <2>1. CASE c = next
        <3>1. \E i \in 1..n : job.stack[i] = c
            BY <1>1, <2>1
        <3>2. job'.draft[c] = LayerOf(next)
            BY <1>1, <2>1
        <3> QED BY <1>4, <1>5, <2>1, <3>1, <3>2
    <2>2. CASE c # next
        <3>1. (\E i \in 1..n : job.stack[i] = c) <=> \E i \in 1..job.placed : job.stack[i] = c
            BY <1>1, <2>2
        <3>2. job'.draft[c] = job.draft[c]
            BY <1>1, <2>2
        <3>3. IF \E i \in 1..job.placed : job.stack[i] = c
              THEN /\ doc[c] = Nothing
                   /\ ReadsLayer(job.draft[c]) /\ LayerFrame(job.draft[c]) = job.frame
              ELSE job.draft[c] = doc[c]
            BY <1>1 DEF JobInv
        <3> QED BY <3>1, <3>2, <3>3
    <2> QED BY <2>1, <2>2
<1> HIDE DEF next, n
<1> QED BY <1>1, <1>2, <1>5, <1>6 DEF JobInv

\* No compose is in progress when the world or a reader acts.
LEMMA NoJobBeside ==
    ASSUME TypeInv, Transit \/ Reveal \/ TakeAnswer
    PROVE  job = Idle /\ job' = Idle
<1>1. CASE Transit
    BY <1>1, SMTT(40) DEF Transit, AlterChannel, Excerpt, Touched, Busy
<1>2. CASE Reveal
    BY <1>2 DEF Reveal, StartDecode, RefuseDecode, Busy, LayerWave, EnvelopeWave, ChainWave,
                ReturnSecret, Recover, InPhase, Halt, TypeInv, OneCall
<1>3. CASE TakeAnswer
    BY <1>3 DEF TakeAnswer, TypeInv, OneCall
<1> QED BY <1>1, <1>2, <1>3

\* Every step keeps the draft to the document and the placed layers.
LEMMA StepDraft == TypeInv /\ JobInv /\ [Next]_vars => JobInv'
<1>1. SUFFICES ASSUME TypeInv, JobInv, [Next]_vars PROVE JobInv'
    OBVIOUS
<1>2. CASE Compose
    <2>1. ASSUME NEW stack \in Stacks, NEW claim, NEW mode, NEW conceal,
                 StartCompose(stack, claim, mode, conceal)
          PROVE  JobInv'
        <3>1. /\ job'.placed = 0 /\ job'.stack = stack /\ job'.draft = doc /\ doc' = doc
              /\ \A i, j \in DOMAIN stack : stack[i] = stack[j] => i = j
            BY <2>1 DEF StartCompose, ValidateComposition
        <3>2. Len(stack) \in Nat
            BY StackIsSeq
        <3> QED BY <3>1, <3>2 DEF JobInv
    <2>2. ASSUME NEW stack, RefuseCompose(stack) PROVE JobInv'
        BY <2>2 DEF RefuseCompose, Busy, JobInv
    <2>3. CASE RefuseLayer \/ FinishCompose
        BY <2>3 DEF RefuseLayer, FinishCompose, JobInv
    <2> QED BY <1>1, <1>2, <2>1, <2>2, <2>3, PlaceLayerKeepsDraft DEF Compose
<1>3. CASE Transit \/ Reveal \/ TakeAnswer
    BY <1>1, <1>3, NoJobBeside DEF JobInv
<1>4. CASE UNCHANGED vars
    BY <1>1, <1>4 DEF vars, JobInv
<1> QED BY <1>1, <1>2, <1>3, <1>4 DEF Next

\* Handing the draft over hands over the whole stack and nothing else.
LEMMA FinishIsWhole ==
    ASSUME TypeInv, JobInv, FinishCompose
    PROVE  /\ answer'.kind = "composed"
           /\ \A c \in DOMAIN doc :
               IF \E i \in DOMAIN job.stack : job.stack[i] = c
               THEN /\ doc[c] = Nothing
                    /\ ReadsLayer(doc'[c]) /\ LayerFrame(doc'[c]) = job.frame
               ELSE doc'[c] = doc[c]
<1>1. /\ job # Idle /\ job.placed = Len(job.stack) /\ doc' = job.draft
      /\ answer'.kind = "composed"
    BY DEF FinishCompose
<1>2. DOMAIN doc = Carriers
    BY DEF TypeInv, TypeOK, Texts
<1>3. DOMAIN job.stack = 1..job.placed
    BY <1>1, JobTypes DEF TypeInv
<1> QED BY <1>1, <1>2, <1>3 DEF JobInv

\* A compose puts its frame into every carrier of its stack and leaves the rest
\* of the document alone, or leaves all of it alone; it writes over nothing
\* (encode_for_mission_framed, place_layer).
THEOREM ComposesWhole == Spec => ComposeIsWhole
<1> DEFINE Whole ==
        job # Idle =>
            \/ doc' = doc
            \/ /\ answer'.kind = "composed"
               /\ \A c \in DOMAIN doc :
                   IF \E i \in DOMAIN job.stack : job.stack[i] = c
                   THEN /\ doc[c] = Nothing
                        /\ ReadsLayer(doc'[c]) /\ LayerFrame(doc'[c]) = job.frame
                   ELSE doc'[c] = doc[c]
<1>1. Init => JobInv
    BY DEF Init, JobInv
<1>2. TypeInv /\ JobInv /\ [Next]_vars => [Whole]_vars
    <2>1. SUFFICES ASSUME TypeInv, JobInv, Next PROVE Whole
        OBVIOUS
    <2>2. CASE Compose
        <3>1. CASE FinishCompose
            BY <2>1, <3>1, FinishIsWhole
        <3>2. CASE ~FinishCompose
            BY <2>2, <3>2 DEF Compose, StartCompose, RefuseCompose, PlaceLayer, RefuseLayer
        <3> QED BY <3>1, <3>2
    <2>3. CASE Transit \/ Reveal \/ TakeAnswer
        BY <2>1, <2>3, NoJobBeside
    <2> QED BY <2>1, <2>2, <2>3 DEF Next
<1>3. Spec => [](TypeInv /\ JobInv)
    BY <1>1, StepDraft, TypesHold, PTL DEF Spec
<1> QED BY <1>2, <1>3, PTL DEF Spec, ComposeIsWhole

-----------------------------------------------------------------------------
(* Revealing.  Nothing but the decode moves while it runs, so every layer   *)
(* still to be read is the document's, the ones read agree, and the trace   *)
(* has one wave for each of them.  A document whose framed channels all     *)
(* hold one claim therefore never halts a reader equipped for it.           *)

\* Who is sealed under no cipher has no passcode, and the other way round.
Fitting(k) == k.cipher = NoCipher <=> k.pass = NoPasscode

ClaimsFit ==
    /\ \A k \in sealed : Fitting(k)
    /\ job # Idle => Fitting(job.claim)

\* A decode has been asked for while it runs and until its answer is taken.
Asked ==
    ask.cands # {} <=> reading # Idle \/ answer.kind \in {"secret", "failed", "nothing"}

ReadSoFar == Driven \ reading.todo

LayersInv ==
    reading # Idle =>
        /\ reading.todo \subseteq Driven
        /\ reading.phase = "recovery" <=> Driven = {}
        /\ reading.phase # "layers" => reading.todo = {}
        /\ \A c \in reading.todo : reading.text[c] = doc[c]
        /\ \A c \in ReadSoFar :
            /\ ReadsLayer(doc[c])
            /\ reading.found # <<>> /\ reading.found[1].env = LayerFrame(doc[c]).env
            /\ \A d \in reading.todo : Rank[c] > Rank[d]
        /\ reading.found # <<>> => ReadSoFar # {}

\* An envelope that is, bit for bit, the seal of a claim.
EnvelopeHolds(env, k) ==
    /\ env.body.hit = "no"
    /\ env.body.secret = k.secret
    /\ env.chain = ChainOf(k)
    /\ env.body.pass = k.pass

\* The chain undoes such a claim's transforms in order, for an equipped reader.
ChainInv ==
    reading # Idle /\ reading.phase = "chain" =>
        \A k \in sealed :
            Equipped(k) /\ EnvelopeHolds(reading.found[1].env, k) =>
                /\ reading.body.hit = "no"
                /\ reading.body.salt = reading.found[1].env.body.salt
                /\ Undoing(k)

Waved == {trace[i].wave : i \in DOMAIN trace}

TraceOrder ==
    \A i, j \in DOMAIN trace :
        /\ trace[i].wave \in Carriers /\ trace[j].wave \in Carriers /\ i < j
           => Rank[trace[i].wave] > Rank[trace[j].wave]
        /\ trace[i].wave = Integrity /\ trace[j].wave \in Ciphers => i < j

\* A chain step that has a wave lies behind the ones still to be undone.
StepsDone ==
    \A i \in DOMAIN trace : trace[i].wave \in Ciphers \cup {Integrity} =>
        /\ reading.phase = "chain"
        /\ \E j \in DOMAIN reading.found[1].env.chain :
            reading.left < j /\ reading.found[1].env.chain[j] = trace[i].wave

TraceInv ==
    reading # Idle =>
        /\ trace # <<>> /\ trace[1] = Wave("identify", "checksum", "passed")
        /\ \A i \in DOMAIN trace : trace[i].verdict = "passed"
        /\ Waved \cap Carriers = ReadSoFar
        /\ TraceOrder
        /\ StepsDone

Answered == RoundTrip /\ CopiesAgree /\ TraceTellsAnswer /\ RecoveredTruth

Underway == LayersInv /\ ChainInv /\ TraceInv

CascadeInv == TypeInv /\ GenuineTexts /\ ClaimsFit /\ Asked /\ Underway /\ Answered

\* Every framed layer holds the claim, in one envelope, before an equipped reader.
Holding(k) ==
    /\ Driven # {} /\ Equipped(k)
    /\ \A c \in Driven : Holds(doc[c], k)
    /\ \A c, d \in Driven : LayerFrame(doc[c]).env = LayerFrame(doc[d]).env

\* What the document holds and the reader asks stays put while both do.
LEMMA SameAsk ==
    ASSUME doc' = doc, ask' = ask
    PROVE  /\ Driven' = Driven
           /\ \A k : (Equipped(k)' <=> Equipped(k)) /\ (Holding(k)' <=> Holding(k))
BY DEF Driven, Identified, Equipped, Holding

\* The claim of a compose fits its cipher and passcode.
LEMMA StepFits == TypeInv /\ ClaimsFit /\ [Next]_vars => ClaimsFit'
<1>1. SUFFICES ASSUME TypeInv, ClaimsFit, [Next]_vars PROVE ClaimsFit'
    OBVIOUS
<1>2. CASE Compose
    <2>1. ASSUME NEW stack \in Stacks, NEW claim \in Claims, NEW mode, NEW conceal,
                 claim.cipher = NoCipher <=> claim.pass = NoPasscode,
                 StartCompose(stack, claim, mode, conceal)
          PROVE  ClaimsFit'
        <3>1. job'.claim = claim /\ sealed' = sealed
            BY <2>1 DEF StartCompose
        <3> QED BY <1>1, <2>1, <3>1 DEF ClaimsFit, Fitting
    <2>2. ASSUME NEW stack, RefuseCompose(stack) PROVE ClaimsFit'
        BY <1>1, <2>2 DEF RefuseCompose, ClaimsFit
    <2>3. CASE PlaceLayer
        <3>1. job # Idle /\ sealed' = sealed /\ job'.claim = job.claim
            <4> DEFINE draft == [job.draft EXCEPT ![NextCarrier] = LayerOf(NextCarrier)]
                       placed == job.placed + 1
            <4>1. job # Idle /\ job' = [job EXCEPT !.draft = draft, !.placed = placed]
                BY <2>3 DEF PlaceLayer
            <4>2. job \in Jobs
                BY <1>1, <4>1, JobTypes DEF TypeInv
            <4> HIDE DEF draft, placed
            <4> QED BY <2>3, <4>1, <4>2 DEF PlaceLayer, Jobs
        <3> QED BY <1>1, <3>1 DEF ClaimsFit
    <2>4. CASE RefuseLayer
        BY <1>1, <2>4 DEF RefuseLayer, ClaimsFit
    <2>5. CASE FinishCompose
        BY <1>1, <2>5 DEF FinishCompose, ClaimsFit
    <2> QED BY <1>2, <2>1, <2>2, <2>3, <2>4, <2>5 DEF Compose
<1>3. CASE Transit \/ Reveal \/ TakeAnswer
    <2>1. sealed' = sealed
        BY <1>3 DEF Transit, AlterChannel, Excerpt, Touched, Reveal, StartDecode, RefuseDecode,
                    LayerWave, EnvelopeWave, ChainWave, ReturnSecret, Recover, Halt, TakeAnswer
    <2> QED BY <1>1, <1>3, <2>1, NoJobBeside, SMTT(40) DEF ClaimsFit
<1>4. CASE UNCHANGED vars
    BY <1>1, <1>4 DEF vars, ClaimsFit
<1> QED BY <1>1, <1>2, <1>3, <1>4 DEF Next

\* Where no decode runs and none has answered, nothing is claimed of one.
LEMMA NoneAsked ==
    ASSUME ask'.cands = {}, reading' = Idle,
           answer'.kind \notin {"secret", "failed", "nothing"}
    PROVE  (Asked /\ Underway /\ Answered)'
BY DEF Asked, Underway, LayersInv, ChainInv, TraceInv, Answered, RoundTrip, CopiesAgree,
       TraceTellsAnswer, RecoveredTruth, Finished

\* Composing, transit, a refused decode and taking an answer leave none asked.
LEMMA BetweenDecodes ==
    ASSUME TypeInv, Asked, Compose \/ Transit \/ RefuseDecode \/ TakeAnswer
    PROVE  (Asked /\ Underway /\ Answered)'
<1>1. NoAnswer.kind = "none" /\ NoAsk.cands = {}
    BY DEF NoAnswer, NoAsk
<1> DEFINE None == /\ ask'.cands = {} /\ reading' = Idle
                   /\ answer'.kind \notin {"secret", "failed", "nothing"}
<1>2. None
    <2>1. CASE Compose
        <3>1. ASSUME NEW stack, NEW claim, NEW mode, NEW conceal,
                     StartCompose(stack, claim, mode, conceal)
              PROVE  None
            BY <1>1, <3>1 DEF StartCompose, Busy, Asked
        <3>2. ASSUME NEW stack, RefuseCompose(stack)
              PROVE  None
            BY <1>1, <3>2 DEF RefuseCompose, Busy, Asked
        <3>3. CASE PlaceLayer \/ RefuseLayer \/ FinishCompose
            BY <1>1, <3>3 DEF PlaceLayer, RefuseLayer, FinishCompose, TypeInv, OneCall, Asked
        <3> QED BY <2>1, <3>1, <3>2, <3>3 DEF Compose
    <2>2. CASE Transit
        BY <1>1, <2>2 DEF Transit, AlterChannel, Excerpt, Touched, Busy, Asked
    <2>3. CASE RefuseDecode
        BY <1>1, <2>3 DEF RefuseDecode, Busy, Asked
    <2>4. CASE TakeAnswer
        BY <1>1, <2>4 DEF TakeAnswer, TypeInv, OneCall
    <2> QED BY <2>1, <2>2, <2>3, <2>4
<1> QED BY <1>2, NoneAsked

\* While a decode runs it has answered nothing.
LEMMA NotAnswered ==
    ASSUME reading' # Idle, answer' = NoAnswer
    PROVE  Answered'
BY DEF Answered, RoundTrip, CopiesAgree, TraceTellsAnswer, RecoveredTruth, Finished, NoAnswer

\* A trace grows by one wave at its end.
LEMMA TraceGrows ==
    ASSUME TypeOK, NEW w, NEW o, NEW v, trace' = Append(trace, Wave(w, o, v))
    PROVE  /\ Len(trace) \in Nat /\ DOMAIN trace = 1..Len(trace)
           /\ Len(trace') = Len(trace) + 1 /\ DOMAIN trace' = 1..(Len(trace) + 1)
           /\ \A i \in DOMAIN trace : trace'[i] = trace[i]
           /\ trace'[Len(trace) + 1].wave = w /\ trace'[Len(trace) + 1].verdict = v
           /\ Waved' = Waved \cup {w}
<1>1. trace \in Seq(Waves)
    BY DEF TypeOK
<1>2. /\ Len(trace) \in Nat /\ DOMAIN trace = 1..Len(trace)
      /\ Len(trace') = Len(trace) + 1 /\ DOMAIN trace' = 1..(Len(trace) + 1)
      /\ \A i \in DOMAIN trace : trace'[i] = trace[i]
      /\ trace'[Len(trace) + 1] = Wave(w, o, v)
    BY <1>1
<1>3. Wave(w, o, v).wave = w /\ Wave(w, o, v).verdict = v
    BY DEF Wave
<1>4. Waved' = Waved \cup {w}
    <2>1. ASSUME NEW x \in Waved PROVE x \in Waved'
        <3>1. PICK i \in DOMAIN trace : x = trace[i].wave
            BY DEF Waved
        <3>2. i \in DOMAIN trace' /\ trace'[i].wave = x
            BY <1>2, <3>1
        <3> QED BY <3>2 DEF Waved
    <2>2. w \in Waved'
        BY <1>2, <1>3 DEF Waved
    <2>3. ASSUME NEW x \in Waved' PROVE x \in Waved \cup {w}
        <3>1. PICK i \in DOMAIN trace' : x = trace'[i].wave
            BY DEF Waved
        <3>2. CASE i = Len(trace) + 1
            BY <1>2, <1>3, <3>1, <3>2
        <3>3. CASE i \in DOMAIN trace
            BY <1>2, <3>1, <3>3 DEF Waved
        <3> QED BY <1>2, <3>2, <3>3
    <2> QED BY <2>1, <2>2, <2>3
<1> QED BY <1>2, <1>3, <1>4

\* A carrier's wave comes after those of the carriers offered after it, the
\* checksum's before those of the ciphers.
LEMMA OrderGrows ==
    ASSUME TypeOK, TraceOrder, NEW w, NEW o, NEW v, trace' = Append(trace, Wave(w, o, v)),
           w \in Carriers => \A c \in Waved \cap Carriers : Rank[c] > Rank[w],
           w = Integrity => Waved \cap Ciphers = {}
    PROVE  TraceOrder'
<1> DEFINE n == Len(trace) + 1
<1>1. /\ Len(trace) \in Nat /\ DOMAIN trace = 1..Len(trace)
      /\ DOMAIN trace' = 1..n /\ trace'[n].wave = w
      /\ \A i \in DOMAIN trace : trace'[i] = trace[i]
    BY TraceGrows
<1>2. \A i \in DOMAIN trace' : i \in DOMAIN trace \/ i = n
    BY <1>1
<1>3. \A i \in DOMAIN trace : i < n /\ trace[i].wave \in Waved
    BY <1>1 DEF Waved
<1>4. Integrity \notin Ciphers
    BY NamesAssumption
<1>5. ASSUME NEW i \in DOMAIN trace', NEW j \in DOMAIN trace'
      PROVE  /\ trace'[i].wave \in Carriers /\ trace'[j].wave \in Carriers /\ i < j
                => Rank[trace'[i].wave] > Rank[trace'[j].wave]
             /\ trace'[i].wave = Integrity /\ trace'[j].wave \in Ciphers => i < j
    <2>1. CASE i \in DOMAIN trace /\ j \in DOMAIN trace
        BY <1>1, <2>1 DEF TraceOrder
    <2>2. CASE i \in DOMAIN trace /\ j = n
        BY <1>1, <1>3, <2>2
    <2>3. CASE i = n
        <3>1. ~(i < j)
            BY <1>1, <2>3
        <3>2. trace'[i].wave = Integrity => trace'[j].wave \notin Ciphers
            BY <1>1, <1>2, <1>3, <1>4, <2>3
        <3> QED BY <3>1, <3>2
    <2> QED BY <1>2, <2>1, <2>2, <2>3
<1> HIDE DEF n
<1> QED BY <1>5 DEF TraceOrder

\* A wave that passes keeps the trace of a running decode.
LEMMA PassKeepsTrace ==
    ASSUME TypeOK, reading # Idle, TraceInv, NEW w, NEW o, Pass(w, o),
           w \in Carriers => \A c \in ReadSoFar : Rank[c] > Rank[w],
           w = Integrity => Waved \cap Ciphers = {}
    PROVE  /\ trace' # <<>> /\ trace'[1] = Wave("identify", "checksum", "passed")
           /\ \A i \in DOMAIN trace' : trace'[i].verdict = "passed"
           /\ Waved' \cap Carriers = (ReadSoFar \cup {w}) \cap Carriers
           /\ TraceOrder'
<1> DEFINE n == Len(trace) + 1
<1>1. trace' = Append(trace, Wave(w, o, "passed"))
    BY DEF Pass
<1>2. /\ Len(trace) \in Nat /\ DOMAIN trace = 1..Len(trace)
      /\ Len(trace') = n /\ DOMAIN trace' = 1..n
      /\ \A i \in DOMAIN trace : trace'[i] = trace[i]
      /\ trace'[n].verdict = "passed" /\ Waved' = Waved \cup {w}
    BY <1>1, TraceGrows
<1>3. /\ trace # <<>> /\ trace[1] = Wave("identify", "checksum", "passed")
      /\ \A i \in DOMAIN trace : trace[i].verdict = "passed"
      /\ Waved \cap Carriers = ReadSoFar /\ TraceOrder
    BY DEF TraceInv
<1>4. trace' # <<>> /\ 1 \in DOMAIN trace
    <2>1. trace \in Seq(Waves)
        BY DEF TypeOK
    <2> QED BY <1>1, <1>3, <2>1
<1>5. \A i \in DOMAIN trace' : trace'[i].verdict = "passed"
    <2>1. \A i \in DOMAIN trace' : i \in DOMAIN trace \/ i = n
        BY <1>2
    <2> HIDE DEF n
    <2> QED BY <1>2, <1>3, <2>1
<1>6. TraceOrder'
    BY <1>1, <1>3, OrderGrows
<1> QED BY <1>2, <1>3, <1>4, <1>5, <1>6

\* A decode starts with every layer to be read, and its identify wave.
LEMMA StartDecodeReads ==
    ASSUME TypeInv, NEW cands \in CandidateSets, NEW offered, NEW pass,
           StartDecode(cands, offered, pass)
    PROVE  (Asked /\ Underway /\ Answered)'
<1>1. /\ ask'.cands = cands /\ cands # {} /\ doc' = doc /\ answer' = NoAnswer
      /\ trace' = <<Wave("identify", "checksum", "passed")>>
      /\ reading'.todo = Identified(cands) /\ reading'.text = doc /\ reading'.found = <<>>
      /\ reading'.phase = IF Identified(cands) = {} THEN "recovery" ELSE "layers"
    BY DataAssumption DEF StartDecode, Busy
<1>2. reading' # Idle
    <2>1. reading'.phase # "idle" /\ Idle.phase = "idle"
        BY <1>1 DEF Idle
    <2> QED BY <2>1
<1>3. Driven' = Identified(cands) /\ ReadSoFar' = {}
    BY <1>1 DEF Driven, Identified, ReadSoFar
<1>4. LayersInv'
    <2>1. <<>> # <<>> <=> FALSE
        OBVIOUS
    <2> QED BY <1>1, <1>3 DEF LayersInv
<1>5. ChainInv'
    BY <1>1 DEF ChainInv
<1>6. TraceInv'
    <2>1. DOMAIN trace' = {1} /\ trace'[1].wave = "identify" /\ trace'[1].verdict = "passed"
          /\ trace' # <<>> /\ trace'[1] = Wave("identify", "checksum", "passed")
        BY <1>1 DEF Wave
    <2>2. "identify" \notin Carriers /\ "identify" \notin Ciphers \cup {Integrity}
        BY NamesAssumption DEF Integrity
    <2>3. Waved' \cap Carriers = {}
        BY <2>1, <2>2 DEF Waved
    <2>4. TraceOrder' /\ StepsDone'
        BY <2>1, <2>2 DEF TraceOrder, StepsDone
    <2> QED BY <1>3, <2>1, <2>3, <2>4 DEF TraceInv
<1>7. Asked'
    BY <1>1, <1>2 DEF Asked
<1> QED BY <1>1, <1>2, <1>4, <1>5, <1>6, <1>7, NotAnswered DEF Underway

\* The carrier a set of layers is read from next was offered last of them.
LEMMA OutermostRanks ==
    ASSUME NEW S \in (SUBSET Carriers) \ {{}}
    PROVE  /\ Outermost(S) \in S
           /\ \A d \in S \ {Outermost(S)} : Rank[Outermost(S)] > Rank[d]
<1>1. Outermost(S) \in S /\ \A d \in S : Rank[d] <= Rank[Outermost(S)]
    BY CarriersAssumption DEF Outermost
<1> QED BY <1>1, CarriersAssumption

\* Where a decode stands when it reads its next layer.
LEMMA AtLayer ==
    ASSUME TypeInv, InPhase("layers"), reading.todo # {}
    PROVE  /\ reading # Idle /\ reading \in Readings /\ reading.phase = "layers"
           /\ reading.todo \in (SUBSET Carriers) \ {{}} /\ answer = NoAnswer
           /\ reading.text \in Texts
           /\ Outermost(reading.todo) \in reading.todo /\ Outermost(reading.todo) \in Carriers
           /\ \A d \in reading.todo \ {Outermost(reading.todo)} :
                Rank[Outermost(reading.todo)] > Rank[d]
<1>1. /\ reading # Idle /\ reading \in Readings /\ reading.phase = "layers"
      /\ reading.todo \in (SUBSET Carriers) \ {{}} /\ answer = NoAnswer
      /\ reading.text \in Texts
    BY ReadingTypes DEF TypeInv, OneCall, InPhase
<1> QED BY <1>1, OutermostRanks

\* A layer that reads and agrees joins the ones read before it.
LEMMA LayerWavePasses ==
    ASSUME CascadeInv, LayerWave, LayerHolds(Outermost(reading.todo))
    PROVE  (Asked /\ Underway /\ Answered)'
<1> DEFINE c == Outermost(reading.todo)
           todo == reading.todo \ {c}
           frame == LayerFrame(reading.text[c])
           text == [reading.text EXCEPT ![c] = Nothing]
<1>1. /\ reading # Idle /\ reading \in Readings /\ reading.phase = "layers"
      /\ reading.todo \in (SUBSET Carriers) \ {{}} /\ reading.text \in Texts
      /\ c \in reading.todo /\ c \in Carriers /\ answer = NoAnswer
      /\ \A d \in todo : Rank[c] > Rank[d]
    BY AtLayer DEF LayerWave, CascadeInv
<1>2. /\ Pass(c, "checksum")
      /\ reading' = [reading EXCEPT !.todo = todo, !.found = <<frame>>, !.text = text]
      /\ UNCHANGED <<doc, ask, answer>>
    BY DEF LayerWave, Halt
<1>3. /\ reading'.todo = todo /\ reading'.found = <<frame>> /\ reading'.text = text
      /\ reading'.phase = "layers" /\ reading' # Idle
    <2>1. Idle.phase = "idle"
        BY DEF Idle
    <2> HIDE DEF c, todo, frame, text
    <2> QED BY <1>1, <1>2, <2>1 DEF Readings
<1>4. /\ reading.todo \subseteq Driven /\ reading.text[c] = doc[c]
      /\ \A d \in reading.todo : reading.text[d] = doc[d]
      /\ \A d \in ReadSoFar :
            /\ ReadsLayer(doc[d])
            /\ reading.found # <<>> /\ reading.found[1].env = LayerFrame(doc[d]).env
            /\ \A e \in reading.todo : Rank[d] > Rank[e]
    BY <1>1 DEF CascadeInv, Underway, LayersInv
<1>5. Driven' = Driven /\ ReadSoFar' = ReadSoFar \cup {c}
    <2>1. Driven' = Driven
        BY <1>2, SameAsk
    <2> HIDE DEF c
    <2> QED BY <1>1, <1>3, <1>4, <2>1 DEF ReadSoFar
<1>6. /\ reading'.found # <<>> /\ reading'.found[1] = frame
      /\ ReadsLayer(doc[c]) /\ frame = LayerFrame(doc[c])
      /\ \A d \in ReadSoFar : LayerFrame(doc[d]).env = frame.env
    <2>1. ReadsLayer(reading.text[c])
          /\ (reading.found # <<>> => reading.found[1].env = frame.env)
        BY DEF LayerHolds
    <2> HIDE DEF c
    <2> QED BY <1>3, <1>4, <2>1
<1>7. LayersInv'
    <2>1. todo \subseteq Driven /\ Driven # {}
        BY <1>1, <1>4
    <2>2. \A d \in todo : text[d] = doc[d]
        BY <1>1, <1>4 DEF Texts
    <2>3. ASSUME NEW d \in ReadSoFar \cup {c}
          PROVE  /\ ReadsLayer(doc[d]) /\ frame.env = LayerFrame(doc[d]).env
                 /\ \A e \in todo : Rank[d] > Rank[e]
        <3>1. CASE d = c
            BY <1>1, <1>6, <3>1
        <3>2. CASE d \in ReadSoFar
            BY <1>4, <1>6, <3>2
        <3> QED BY <3>1, <3>2
    <2> HIDE DEF c, todo, frame, text
    <2> QED BY <1>2, <1>3, <1>5, <1>6, <2>1, <2>2, <2>3 DEF LayersInv
<1>8. ChainInv'
    BY <1>3 DEF ChainInv
<1>9. TraceInv'
    <2>1. c # Integrity /\ c \notin Ciphers
        BY <1>1, NamesAssumption
    <2>2. \A d \in ReadSoFar : Rank[d] > Rank[c]
        BY <1>1, <1>4
    <2>3. TypeOK /\ TraceInv
        BY DEF CascadeInv, TypeInv, Underway
    <2>4. /\ trace' # <<>> /\ trace'[1] = Wave("identify", "checksum", "passed")
          /\ \A i \in DOMAIN trace' : trace'[i].verdict = "passed"
          /\ Waved' \cap Carriers = (ReadSoFar \cup {c}) \cap Carriers
          /\ TraceOrder'
        <3> HIDE DEF c
        <3> QED BY <1>1, <1>2, <2>1, <2>2, <2>3, PassKeepsTrace
    <2>5. Waved' \cap Carriers = ReadSoFar'
        <3>1. ReadSoFar \subseteq Carriers
            BY DEF ReadSoFar, Driven, Identified, CascadeInv, TypeInv, TypeOK, Asks
        <3> HIDE DEF c
        <3> QED BY <1>1, <1>5, <2>4, <3>1
    <2>6. Waved \cap (Ciphers \cup {Integrity}) = {}
        BY <1>1, <2>3 DEF TraceInv, StepsDone, Waved
    <2>7. Waved' \cap (Ciphers \cup {Integrity}) = {}
        <3>1. Waved' = Waved \cup {c}
            BY <1>2, <2>3, TraceGrows DEF Pass
        <3> QED BY <2>1, <2>6, <3>1
    <2>8. StepsDone'
        BY <2>7 DEF StepsDone, Waved
    <2> QED BY <2>4, <2>5, <2>8 DEF TraceInv
<1>10. Asked'
    <2>1. ask.cands # {}
        BY <1>1 DEF CascadeInv, Asked
    <2> QED BY <1>2, <1>3, <2>1 DEF Asked
<1> QED BY <1>1, <1>2, <1>3, <1>7, <1>8, <1>9, <1>10, NotAnswered DEF Underway

\* Where a decode stands when it has read all its layers: they are in one
\* envelope, and it has that envelope.
LEMMA LayersDone ==
    ASSUME CascadeInv, reading # Idle,
           reading.phase = "chain" \/ (reading.phase = "layers" /\ reading.todo = {})
    PROVE  /\ reading.todo = {} /\ ReadSoFar = Driven /\ Driven # {}
           /\ reading.found # <<>> /\ reading.found \in Seq(Frames)
           /\ reading.found[1] \in Frames /\ Genuine(reading.found[1], sealed)
           /\ \A c \in Driven :
                ReadsLayer(doc[c]) /\ reading.found[1].env = LayerFrame(doc[c]).env
<1>1. /\ TypeOK /\ LayersInv /\ reading.todo = {} /\ ReadSoFar = Driven
    BY DEF CascadeInv, TypeInv, Underway, LayersInv, ReadSoFar
<1>2. reading.found # <<>> /\ reading.found \in Seq(Frames)
    BY <1>1, ReadingTypes DEF CascadeInv, TypeInv, ReadingShape
<1>3. reading.found[1] \in Frames
    BY <1>2
<1>4. Genuine(reading.found[1], sealed)
    BY <1>2 DEF CascadeInv, GenuineTexts
<1> QED BY <1>1, <1>2, <1>3, <1>4 DEF LayersInv

\* A claim all the layers hold is the one in the envelope.
LEMMA HeldIsFound ==
    ASSUME CascadeInv, reading # Idle,
           reading.phase = "chain" \/ (reading.phase = "layers" /\ reading.todo = {}),
           NEW k, Holding(k)
    PROVE  Equipped(k) /\ EnvelopeHolds(reading.found[1].env, k)
<1>1. PICK c \in Driven : reading.found[1].env = LayerFrame(doc[c]).env
    BY LayersDone
<1>2. Holds(doc[c], k) /\ Equipped(k)
    BY DEF Holding
<1> QED BY <1>1, <1>2 DEF Holds, EnvelopeHolds

\* Reading the envelope sets the chain out.
LEMMA EnvelopeWavePasses ==
    ASSUME CascadeInv, EnvelopeWave, reading.found[1].env.parses
    PROVE  (Asked /\ Underway /\ Answered)'
<1> DEFINE env == reading.found[1].env
           left == Len(env.chain)
           body == env.body
<1>1. /\ reading # Idle /\ reading.phase = "layers" /\ reading.todo = {} /\ answer = NoAnswer
      /\ reading \in Readings /\ TypeOK
    BY ReadingTypes DEF EnvelopeWave, InPhase, CascadeInv, TypeInv, OneCall
<1>2. /\ ReadSoFar = Driven /\ Driven # {} /\ Genuine(reading.found[1], sealed)
      /\ reading.found # <<>>
      /\ \A c \in Driven : ReadsLayer(doc[c]) /\ env = LayerFrame(doc[c]).env
    BY <1>1, LayersDone
<1>3. /\ Pass("envelope", "none")
      /\ reading' = [reading EXCEPT !.phase = "chain", !.left = left, !.body = body]
      /\ UNCHANGED <<doc, ask, answer, sealed>>
    BY DEF EnvelopeWave, Halt
<1>4. /\ reading'.todo = {} /\ reading'.found = reading.found /\ reading'.phase = "chain"
      /\ reading'.left = left /\ reading'.body = body /\ reading' # Idle
    <2>1. Idle.phase = "idle"
        BY DEF Idle
    <2> HIDE DEF left, body
    <2> QED BY <1>1, <1>3, <2>1 DEF Readings
<1>5. Driven' = Driven /\ ReadSoFar' = Driven
    <2>1. Driven' = Driven
        BY <1>3, SameAsk
    <2> QED BY <1>4, <2>1 DEF ReadSoFar
<1>6. LayersInv'
    BY <1>2, <1>3, <1>4, <1>5 DEF LayersInv
<1>7. ChainInv'
    <2>1. ASSUME NEW k \in sealed, EnvelopeHolds(env, k)
          PROVE  body.hit = "no" /\ Undoing(k)'
        <3>1. /\ body.hit = "no" /\ body.secret = k.secret /\ body.pass = k.pass
              /\ env.chain = ChainOf(k)
            BY <2>1 DEF EnvelopeHolds
        <3>2. PICK j \in sealed : SealedAs(reading.found[1], j)
            BY <1>2, <3>1 DEF Genuine
        <3>3. body.on = ChainOf(k)
            BY <3>1, <3>2 DEF SealedAs
        <3> HIDE DEF body, env
        <3> QED BY <1>4, <3>1, <3>3 DEF Undoing, env
    <2> QED BY <1>3, <1>4, <2>1, SameAsk DEF ChainInv
<1>8. TraceInv'
    <2>1. "envelope" \notin Carriers /\ "envelope" \notin Ciphers \cup {Integrity}
        BY NamesAssumption DEF Integrity
    <2>2. TraceInv
        BY DEF CascadeInv, Underway
    <2>3. /\ trace' # <<>> /\ trace'[1] = Wave("identify", "checksum", "passed")
          /\ \A i \in DOMAIN trace' : trace'[i].verdict = "passed"
          /\ Waved' \cap Carriers = (ReadSoFar \cup {"envelope"}) \cap Carriers
          /\ TraceOrder'
        BY <1>1, <1>3, <2>1, <2>2, PassKeepsTrace
    <2>4. Driven \subseteq Carriers
        BY <1>1 DEF Driven, Identified, TypeOK, Asks
    <2>5. Waved' \cap (Ciphers \cup {Integrity}) = {}
        <3>1. Waved \cap (Ciphers \cup {Integrity}) = {}
            BY <1>1, <2>2 DEF TraceInv, StepsDone, Waved
        <3>2. Waved' = Waved \cup {"envelope"}
            BY <1>1, <1>3, TraceGrows DEF Pass
        <3> QED BY <2>1, <3>1, <3>2
    <2>6. StepsDone'
        BY <2>5 DEF StepsDone, Waved
    <2> QED BY <1>2, <1>5, <2>1, <2>3, <2>4, <2>6 DEF TraceInv
<1>9. Asked'
    <2>1. ask.cands # {}
        BY <1>1 DEF CascadeInv, Asked
    <2> QED BY <1>3, <1>4, <2>1 DEF Asked
<1> QED BY <1>1, <1>3, <1>4, <1>6, <1>7, <1>8, <1>9, NotAnswered DEF Underway

\* Where a decode stands when it reverts its next chain step.
LEMMA AtStep ==
    ASSUME CascadeInv, InPhase("chain"), reading.left > 0
    PROVE  LET chain == reading.found[1].env.chain IN
           /\ reading # Idle /\ reading.phase = "chain" /\ reading \in Readings
           /\ answer = NoAnswer /\ reading.body \in Bodies
           /\ reading.left \in Nat /\ reading.left \in DOMAIN chain
           /\ DOMAIN chain = 1..Len(chain) /\ Len(chain) \in Nat
           /\ chain[reading.left] \in Ciphers \cup {Integrity, Unknown}
           /\ chain[reading.left] \notin Carriers
           /\ chain[reading.left] = Integrity => Waved \cap Ciphers = {}
<1> DEFINE chain == reading.found[1].env.chain
<1>1. /\ reading # Idle /\ reading.phase = "chain" /\ reading \in Readings
      /\ answer = NoAnswer /\ reading.body \in Bodies /\ reading.left \in Nat
      /\ reading.left <= Len(chain)
    BY ReadingTypes DEF CascadeInv, TypeInv, OneCall, ReadingShape, InPhase
<1>2. reading.found[1] \in Frames /\ Genuine(reading.found[1], sealed)
    BY <1>1, LayersDone
<1>3. chain \in Seq(Ciphers \cup {Integrity, Unknown}) /\ Ordered(chain)
    BY <1>2 DEF Frames, Envelopes, Genuine
<1>4. DOMAIN chain = 1..Len(chain) /\ Len(chain) \in Nat
    BY <1>3
<1>5. reading.left \in DOMAIN chain /\ chain[reading.left] \in Ciphers \cup {Integrity, Unknown}
    <2> HIDE DEF chain
    <2> QED BY <1>1, <1>3, <1>4
<1>6. ASSUME chain[reading.left] = Integrity, NEW i \in DOMAIN trace, trace[i].wave \in Ciphers
      PROVE  FALSE
    <2>1. StepsDone
        BY <1>1 DEF CascadeInv, Underway, TraceInv
    <2>2. PICK j \in DOMAIN chain : reading.left < j /\ chain[j] = trace[i].wave
        BY <1>6, <2>1 DEF StepsDone
    <2>3. j < reading.left
        BY <1>3, <1>5, <1>6, <2>2 DEF Ordered
    <2> HIDE DEF chain
    <2> QED BY <1>1, <1>4, <2>2, <2>3
<1> QED BY <1>1, <1>4, <1>5, <1>6, NamesAssumption DEF Waved

\* A step of a claim's chain reverts for a reader equipped for the claim, and
\* takes off exactly that step.
LEMMA HeldStepReverts ==
    ASSUME CascadeInv, InPhase("chain"), reading.left > 0,
           NEW k \in sealed, Equipped(k), EnvelopeHolds(reading.found[1].env, k)
    PROVE  LET step == reading.found[1].env.chain[reading.left] IN
           /\ Reverts(step, reading.body, reading.found[1].salt)
           /\ Reverted(step, reading.body) = Peeled(reading.body)
           /\ reading.body.on # <<>>
<1> DEFINE step == reading.found[1].env.chain[reading.left]
           body == reading.body
<1>1. /\ reading # Idle /\ reading.phase = "chain" /\ body \in Bodies /\ reading.left \in Nat
      /\ reading.left \in DOMAIN reading.found[1].env.chain
    BY AtStep
<1>2. body.hit = "no" /\ body.salt = reading.found[1].env.body.salt /\ Undoing(k)
    BY <1>1 DEF CascadeInv, Underway, ChainInv
<1>3. /\ reading.found[1].env.chain = ChainOf(k) /\ body.pass = k.pass
      /\ Len(body.on) = reading.left
      /\ \A i \in 1..Len(body.on) : body.on[i] = ChainOf(k)[i]
    BY <1>2 DEF Undoing
<1>4. body.on # <<>> /\ IsOutside(step, body)
    <2>1. body.on[Len(body.on)] = step /\ body.on # <<>>
        <3>1. body.on \in Seq(Ciphers \cup {Integrity})
            BY <1>1 DEF Bodies
        <3> QED BY <1>1, <1>3, <3>1
    <2> QED BY <2>1 DEF IsOutside
<1>5. k \in Claims /\ Fitting(k)
    BY DEF CascadeInv, TypeInv, TypeOK, ClaimsFit
<1>6. step = Integrity \/ (step = k.cipher /\ k.cipher \in Ciphers)
    <2>1. reading.left \in DOMAIN ChainOf(k) /\ step = ChainOf(k)[reading.left]
        BY <1>1, <1>3
    <2> HIDE DEF step
    <2> QED BY <1>5, <2>1, OrderedChain
<1>7. CASE step = Integrity
    <2>1. step \notin Legacy
        BY <1>7, NamesAssumption DEF Ciphers
    <2> QED BY <1>2, <1>4, <1>7, <2>1 DEF Reverts, Reverted
<1>8. CASE step = k.cipher /\ k.cipher \in Ciphers
    <2>1. CanTry(step) /\ ask.pass = k.pass
        <3>1. k.cipher # NoCipher
            BY <1>8, NamesAssumption
        <3> QED BY <1>5, <1>8, <3>1 DEF Equipped, Fitting, CanTry
    <2>2. CASE step \in Legacy
        BY <1>3, <1>4, <2>1, <2>2 DEF Reverts, Reverted
    <2>3. CASE step \in Keyed
        <3>1. step \notin Legacy /\ step # Integrity
            BY <2>3, NamesAssumption DEF Ciphers
        <3>2. body.salt = reading.found[1].salt
            <4>1. Genuine(reading.found[1], sealed)
                BY <1>1, LayersDone
            <4>2. reading.found[1].env.body.hit = "no"
                BY DEF EnvelopeHolds
            <4>3. PICK j \in sealed : SealedAs(reading.found[1], j)
                BY <4>1, <4>2 DEF Genuine
            <4>4. j \in Claims
                BY DEF CascadeInv, TypeInv, TypeOK
            <4>5. step = j.cipher
                BY <1>1, <3>1, <4>3, <4>4, OrderedChain, SMTT(40) DEF SealedAs
            <4> QED BY <1>2, <2>3, <4>3, <4>5 DEF SealedAs
        <3> QED BY <1>2, <1>3, <1>4, <2>1, <2>3, <3>1, <3>2 DEF Reverts, Reverted
    <2> QED BY <1>8, <2>2, <2>3 DEF Ciphers
<1> QED BY <1>4, <1>6, <1>7, <1>8

\* Reverting a step takes it off the chain and gives it its wave.
LEMMA ChainWavePasses ==
    ASSUME CascadeInv, ChainWave,
           Reverts(reading.found[1].env.chain[reading.left], reading.body, reading.found[1].salt)
    PROVE  (Asked /\ Underway /\ Answered)'
<1> DEFINE chain == reading.found[1].env.chain
           step == chain[reading.left]
           left == reading.left - 1
           body == Reverted(step, reading.body)
<1>1. /\ InPhase("chain") /\ reading.left > 0
      /\ Pass(step, OracleOf(step))
      /\ reading' = [reading EXCEPT !.left = left, !.body = body]
      /\ UNCHANGED <<doc, ask, answer, sealed>>
    BY SMTT(40) DEF ChainWave, Halt
<1>2. /\ reading # Idle /\ reading.phase = "chain" /\ reading \in Readings
      /\ answer = NoAnswer /\ reading.body \in Bodies
      /\ reading.left \in Nat /\ reading.left \in DOMAIN chain
      /\ DOMAIN chain = 1..Len(chain) /\ Len(chain) \in Nat
      /\ step \in Ciphers \cup {Integrity, Unknown} /\ step \notin Carriers
      /\ step = Integrity => Waved \cap Ciphers = {}
    BY <1>1, AtStep
<1>3. /\ reading'.todo = reading.todo /\ reading'.found = reading.found
      /\ reading'.phase = "chain" /\ reading'.text = reading.text
      /\ reading'.left = left /\ reading'.body = body /\ reading' # Idle
    <2>1. Idle.phase = "idle"
        BY DEF Idle
    <2> HIDE DEF left, body
    <2> QED BY <1>1, <1>2, <2>1 DEF Readings
<1>4. Driven' = Driven /\ ReadSoFar' = ReadSoFar /\ TypeOK
    <2>1. Driven' = Driven
        BY <1>1, SameAsk, SMTT(40)
    <2> QED BY <1>3, <2>1 DEF ReadSoFar, CascadeInv, TypeInv
<1>5. LayersInv'
    BY <1>1, <1>2, <1>3, <1>4 DEF LayersInv, CascadeInv, Underway
<1>6. ChainInv'
    <2>1. ASSUME NEW k \in sealed, Equipped(k), EnvelopeHolds(reading.found[1].env, k)
          PROVE  /\ body.hit = "no" /\ body.salt = reading.found[1].env.body.salt
                 /\ Undoing(k)'
        <3>1. /\ reading.body.hit = "no" /\ Undoing(k)
              /\ reading.body.salt = reading.found[1].env.body.salt
            BY <1>2, <2>1, SMTT(40) DEF CascadeInv, Underway, ChainInv
        <3>2. body = Peeled(reading.body) /\ reading.body.on # <<>>
            BY <1>1, <2>1, HeldStepReverts
        <3>3. /\ chain = ChainOf(k) /\ reading.body.secret = k.secret
              /\ reading.body.pass = k.pass /\ Len(reading.body.on) = reading.left
              /\ \A i \in 1..Len(reading.body.on) : reading.body.on[i] = ChainOf(k)[i]
            BY <3>1 DEF Undoing
        <3> HIDE DEF body
        <3>4. /\ Len(body.on) = left /\ body.secret = k.secret /\ body.pass = k.pass
              /\ body.hit = "no" /\ body.salt = reading.body.salt
              /\ \A i \in 1..left : body.on[i] = reading.body.on[i]
            BY <1>2, <3>1, <3>2, <3>3, PeelsOne
        <3>5. \A i \in 1..left : i \in 1..Len(reading.body.on)
            BY <1>2, <3>3
        <3>6. Undoing(k)'
            BY <1>3, <3>3, <3>4, <3>5 DEF Undoing
        <3> QED BY <3>1, <3>4, <3>6
    <2> HIDE DEF body
    <2> QED BY <1>1, <1>3, <2>1, SameAsk DEF ChainInv
<1>7. TraceInv'
    <2>1. TraceInv
        BY DEF CascadeInv, Underway
    <2> DEFINE n == Len(trace) + 1
    <2>2. /\ trace' # <<>> /\ trace'[1] = Wave("identify", "checksum", "passed")
          /\ \A i \in DOMAIN trace' : trace'[i].verdict = "passed"
          /\ Waved' \cap Carriers = (ReadSoFar \cup {step}) \cap Carriers
          /\ TraceOrder'
        <3> HIDE DEF step
        <3> QED BY <1>1, <1>2, <1>4, <2>1, PassKeepsTrace
    <2>3. Waved' \cap Carriers = ReadSoFar'
        <3>1. ReadSoFar \subseteq Carriers
            BY <1>4, SMTT(40) DEF ReadSoFar, Driven, Identified, TypeOK, Asks
        <3> QED BY <1>2, <1>4, <2>2, <3>1
    <2>4. /\ Len(trace) \in Nat /\ DOMAIN trace' = 1..n /\ DOMAIN trace = 1..Len(trace)
          /\ \A i \in DOMAIN trace : trace'[i] = trace[i]
          /\ trace'[n].wave = step
        BY <1>1, <1>4, TraceGrows DEF Pass
    <2>5. ASSUME NEW i \in DOMAIN trace', trace'[i].wave \in Ciphers \cup {Integrity}
          PROVE  \E j \in DOMAIN chain : left < j /\ chain[j] = trace'[i].wave
        <3>1. CASE i = n
            <4>1. left < reading.left
                BY <1>2
            <4> QED BY <1>2, <2>4, <3>1, <4>1
        <3>2. CASE i \in DOMAIN trace
            <4>1. PICK j \in DOMAIN chain : reading.left < j /\ chain[j] = trace'[i].wave
                BY <1>2, <2>1, <2>4, <2>5, <3>2 DEF TraceInv, StepsDone
            <4>2. left < j
                <5> HIDE DEF chain
                <5> QED BY <1>2, <4>1
            <4> QED BY <4>1, <4>2, SMTT(40)
        <3>3. i \in DOMAIN trace \/ i = n
            BY <2>4
        <3> QED BY <3>1, <3>2, <3>3
    <2>6. StepsDone'
        <3> HIDE DEF left, step
        <3> QED BY <1>3, <2>5 DEF StepsDone
    <2> QED BY <2>2, <2>3, <2>6 DEF TraceInv
<1>8. Asked'
    <2>1. ask.cands # {}
        BY <1>2 DEF CascadeInv, Asked
    <2> QED BY <1>1, <1>3, <2>1 DEF Asked
<1> QED BY <1>1, <1>2, <1>3, <1>5, <1>6, <1>7, <1>8, NotAnswered, ZenonT(60) DEF Underway

\* The last wave of a decode comes after waves that all passed, in order.
LEMMA LastWave ==
    ASSUME TypeOK, reading # Idle, TraceInv, NEW w, NEW o, NEW v,
           trace' = Append(trace, Wave(w, o, v)),
           w \in Carriers => \A c \in ReadSoFar : Rank[c] > Rank[w],
           w = Integrity => Waved \cap Ciphers = {}
    PROVE  /\ \A i \in 1..(Len(trace') - 1) : trace'[i].verdict = "passed"
           /\ trace'[Len(trace')].verdict = v
           /\ TraceOrder'
<1>1. /\ Len(trace) \in Nat /\ DOMAIN trace = 1..Len(trace)
      /\ Len(trace') = Len(trace) + 1
      /\ \A i \in DOMAIN trace : trace'[i] = trace[i]
      /\ trace'[Len(trace) + 1].verdict = v
    BY TraceGrows
<1>2. \A i \in 1..(Len(trace') - 1) : trace'[i].verdict = "passed"
    <2>1. Len(trace') - 1 = Len(trace)
        BY <1>1
    <2> QED BY <1>1, <2>1 DEF TraceInv
<1>3. TraceOrder'
    BY OrderGrows DEF TraceInv
<1> QED BY <1>1, <1>2, <1>3

\* A decode that halts says so, and only where no claim was held throughout.
LEMMA HaltTells ==
    ASSUME CascadeInv, reading # Idle, NEW w, NEW o, Halt(w, o),
           w \in Carriers => \A c \in ReadSoFar : Rank[c] > Rank[w],
           w = Integrity => Waved \cap Ciphers = {},
           \A k \in sealed : ~Holding(k)
    PROVE  (Asked /\ Underway /\ Answered)'
<1>1. /\ trace' = Append(trace, Wave(w, o, "failed")) /\ answer'.kind = "failed"
      /\ reading' = Idle /\ UNCHANGED <<doc, ask, sealed>>
    BY DEF Halt
<1>2. TypeOK /\ TraceInv
    BY DEF CascadeInv, TypeInv, Underway
<1>3. /\ \A i \in 1..(Len(trace') - 1) : trace'[i].verdict = "passed"
      /\ trace'[Len(trace')].verdict = "failed" /\ TraceOrder'
    BY <1>1, <1>2, LastWave
<1>4. TraceTellsAnswer'
    BY <1>1, <1>3 DEF TraceTellsAnswer, TraceOrder
<1>5. RoundTrip'
    <2>1. \A k \in sealed : ~Holding(k)'
        BY <1>1, SameAsk
    <2> QED BY <1>1, <2>1 DEF RoundTrip, Holding
<1>6. CopiesAgree' /\ RecoveredTruth'
    BY <1>1 DEF CopiesAgree, RecoveredTruth
<1>7. Asked'
    BY <1>1 DEF CascadeInv, Asked
<1> QED BY <1>1, <1>4, <1>5, <1>6, <1>7
        DEF Underway, LayersInv, ChainInv, TraceInv, Answered

\* A layer that all the framed channels share never halts the decode.
LEMMA LayerWaveHalts ==
    ASSUME CascadeInv, LayerWave, ~LayerHolds(Outermost(reading.todo))
    PROVE  (Asked /\ Underway /\ Answered)'
<1> DEFINE c == Outermost(reading.todo)
<1>1. /\ reading # Idle /\ reading.phase = "layers" /\ c \in reading.todo /\ c \in Carriers
      /\ Halt(c, "checksum")
    BY AtLayer DEF LayerWave, CascadeInv
<1>2. /\ reading.todo \subseteq Driven /\ reading.text[c] = doc[c]
      /\ reading.found # <<>> => ReadSoFar # {}
      /\ \A d \in ReadSoFar :
            /\ reading.found[1].env = LayerFrame(doc[d]).env /\ d \in Driven
            /\ Rank[d] > Rank[c]
    BY <1>1 DEF CascadeInv, Underway, LayersInv, ReadSoFar
<1>3. ASSUME NEW k \in sealed, Holding(k) PROVE FALSE
    <2>1. ReadsLayer(doc[c])
        BY <1>1, <1>2, <1>3 DEF Holding, Holds
    <2>2. reading.found # <<>> => reading.found[1].env = LayerFrame(doc[c]).env
        <3>1. \A d \in ReadSoFar : LayerFrame(doc[d]).env = LayerFrame(doc[c]).env
            BY <1>1, <1>2, <1>3 DEF Holding
        <3> HIDE DEF c
        <3> QED BY <1>2, <3>1
    <2> QED BY <1>2, <2>1, <2>2 DEF LayerHolds
<1>4. c # Integrity
    BY <1>1, NamesAssumption
<1> HIDE DEF c
<1> QED BY <1>1, <1>2, <1>3, <1>4, HaltTells

\* An envelope somebody sealed parses.
LEMMA EnvelopeWaveHalts ==
    ASSUME CascadeInv, EnvelopeWave, ~reading.found[1].env.parses
    PROVE  (Asked /\ Underway /\ Answered)'
<1>1. /\ reading # Idle /\ reading.phase = "layers" /\ reading.todo = {}
      /\ Halt("envelope", "none")
    BY DEF EnvelopeWave, InPhase
<1>2. ASSUME NEW k \in sealed, Holding(k) PROVE FALSE
    <2>1. reading.found[1].env.body.hit = "no"
        BY <1>1, <1>2, HeldIsFound DEF EnvelopeHolds
    <2>2. PICK j \in sealed : SealedAs(reading.found[1], j)
        BY <1>1, <2>1, LayersDone DEF Genuine
    <2> QED BY <2>2 DEF SealedAs
<1>3. "envelope" \notin Carriers /\ "envelope" # Integrity
    BY NamesAssumption DEF Integrity
<1> QED BY <1>1, <1>2, <1>3, HaltTells

\* The chain of a claim halts no reader equipped for it.
LEMMA ChainWaveHalts ==
    ASSUME CascadeInv, ChainWave,
           ~Reverts(reading.found[1].env.chain[reading.left], reading.body,
                    reading.found[1].salt)
    PROVE  (Asked /\ Underway /\ Answered)'
<1> DEFINE step == reading.found[1].env.chain[reading.left]
<1>1. /\ InPhase("chain") /\ reading.left > 0 /\ Halt(step, OracleOf(step))
    BY SMTT(40) DEF ChainWave
<1>2. /\ reading # Idle /\ reading.phase = "chain" /\ step \notin Carriers
      /\ step = Integrity => Waved \cap Ciphers = {}
    BY <1>1, AtStep, SMTT(40)
<1>3. ASSUME NEW k \in sealed, Holding(k) PROVE FALSE
    <2>1. Equipped(k) /\ EnvelopeHolds(reading.found[1].env, k)
        BY <1>2, <1>3, HeldIsFound
    <2> QED BY <1>1, <2>1, HeldStepReverts
<1> HIDE DEF step
<1> QED BY <1>1, <1>2, <1>3, HaltTells

\* A payload returned is that of the claim all the layers held, if they did.
LEMMA ReturnSecretTells ==
    ASSUME CascadeInv, ReturnSecret
    PROVE  (Asked /\ Underway /\ Answered)'
<1>1. /\ reading # Idle /\ reading.phase = "chain" /\ reading.left = 0 /\ reading' = Idle
      /\ answer'.kind = "secret" /\ answer'.value = Bytes(reading.body)
      /\ answer'.integrity = IntegrityValid /\ answer'.recovered = FALSE
      /\ UNCHANGED <<doc, ask, trace, sealed>>
    BY DEF ReturnSecret, InPhase
<1>2. /\ ReadSoFar = Driven /\ Driven # {}
      /\ \A c \in Driven : ReadsLayer(doc[c]) /\ reading.found[1].env = LayerFrame(doc[c]).env
    BY <1>1, LayersDone
<1>3. Driven' = Driven
    BY <1>1, SameAsk
<1>4. /\ trace # <<>> /\ trace[1] = Wave("identify", "checksum", "passed")
      /\ \A i \in DOMAIN trace : trace[i].verdict = "passed"
      /\ Waved \cap Carriers = Driven /\ TraceOrder
    BY <1>1, <1>2 DEF CascadeInv, Underway, TraceInv
<1>5. Len(trace) \in DOMAIN trace /\ 1 \in DOMAIN trace /\ DOMAIN trace = 1..Len(trace)
    <2>1. trace \in Seq(Waves)
        BY DEF CascadeInv, TypeInv, TypeOK
    <2> QED BY <1>4, <2>1
<1>6. TraceTellsAnswer'
    <2>1. \A i \in 1..(Len(trace) - 1) : i \in DOMAIN trace
        BY <1>5
    <2>2. {trace[i].wave : i \in DOMAIN trace} \cap Carriers = Driven
        BY <1>4 DEF Waved
    <2> QED BY <1>1, <1>3, <1>4, <1>5, <2>1, <2>2 DEF TraceTellsAnswer, TraceOrder
<1>7. RoundTrip'
    <2>1. ASSUME NEW k \in sealed, Holding(k) PROVE Bytes(reading.body) = k.secret
        <3>1. Equipped(k) /\ EnvelopeHolds(reading.found[1].env, k)
            BY <1>1, <2>1, HeldIsFound
        <3>2. reading.body.hit = "no" /\ reading.body.secret = k.secret
              /\ Len(reading.body.on) = 0
            BY <1>1, <3>1 DEF CascadeInv, Underway, ChainInv, Undoing
        <3>3. reading.body.on \in Seq(Ciphers \cup {Integrity})
            BY <1>1, ReadingTypes DEF CascadeInv, TypeInv, Bodies
        <3> QED BY <3>2, <3>3 DEF Bytes
    <2>2. IntegrityValid
        BY <1>4, <1>5 DEF IntegrityValid, Wave
    <2>3. \A k \in sealed : Holding(k)' => Holding(k)
        BY <1>1, SameAsk
    <2>4. ASSUME NEW k \in sealed', Holding(k)'
          PROVE  /\ answer'.kind = "secret" /\ answer'.value = k.secret
                 /\ answer'.integrity /\ ~answer'.recovered
        BY <1>1, <2>1, <2>2, <2>3, <2>4
    <2> QED BY <2>4 DEF RoundTrip, Holding
<1>8. CopiesAgree'
    <2>1. \A c, d \in Driven : /\ ReadsLayer(doc[c])
                               /\ LayerFrame(doc[c]).env = LayerFrame(doc[d]).env
        BY <1>2
    <2> QED BY <1>1, <1>2, <1>3, <2>1 DEF CopiesAgree
<1>9. RecoveredTruth'
    BY <1>1 DEF RecoveredTruth
<1>10. Asked'
    BY <1>1 DEF CascadeInv, Asked
<1> QED BY <1>1, <1>6, <1>7, <1>8, <1>9, <1>10
        DEF Underway, LayersInv, ChainInv, TraceInv, Answered

\* Recovery answers for a document nobody can see a frame in, with what the
\* first package of it holds.
LEMMA RecoverTells ==
    ASSUME CascadeInv, Recover
    PROVE  (Asked /\ Underway /\ Answered)'
<1>1. /\ reading # Idle /\ reading.phase = "recovery" /\ reading' = Idle
      /\ UNCHANGED <<doc, ask, sealed>>
    BY DEF Recover, InPhase
<1>2. Driven = {} /\ TypeOK /\ TraceInv
    BY <1>1 DEF CascadeInv, TypeInv, Underway, LayersInv
<1>3. Driven' = {}
    BY <1>1, <1>2, SameAsk
<1>4. "recovery_sweep" \notin Carriers /\ "recovery_sweep" # Integrity
    BY NamesAssumption DEF Integrity
<1>5. ASSUME NEW o, NEW v, trace' = Append(trace, Wave("recovery_sweep", o, v)),
             answer'.kind = "secret" => answer'.recovered,
             answer'.kind = "secret" <=> v = "passed",
             answer'.kind = "failed" <=> v = "failed"
      PROVE  TraceTellsAnswer' /\ CopiesAgree'
    <2>1. /\ \A i \in 1..(Len(trace') - 1) : trace'[i].verdict = "passed"
          /\ trace'[Len(trace')].verdict = v /\ TraceOrder'
        BY <1>1, <1>2, <1>4, <1>5, LastWave
    <2> QED BY <1>5, <2>1 DEF TraceTellsAnswer, TraceOrder, CopiesAgree
<1> DEFINE p == doc[Innermost(Parseable)]
           Told == TraceTellsAnswer' /\ CopiesAgree' /\ RecoveredTruth'
<1>6. ASSUME trace' = Append(trace, Wave("recovery_sweep", "none", "undetermined")),
             answer' = [kind |-> "nothing"]
      PROVE  Told
    <2>1. TraceTellsAnswer' /\ CopiesAgree'
        BY <1>5, <1>6
    <2> QED BY <1>6, <2>1 DEF RecoveredTruth
<1>7. ASSUME trace' = Append(trace, Wave("recovery_sweep", "checksum", "failed")),
             answer' = [kind |-> "failed"]
      PROVE  Told
    <2>1. TraceTellsAnswer' /\ CopiesAgree'
        BY <1>5, <1>7
    <2> QED BY <1>7, <2>1 DEF RecoveredTruth
<1>8. ASSUME Parseable # {}, Pass("recovery_sweep", "checksum"),
             answer' = [kind |-> "secret", value |-> Opened(p),
                        integrity |-> Opened(p) # Noise, recovered |-> TRUE]
      PROVE  Told
    <2>1. answer'.kind = "secret" /\ answer'.recovered /\ answer'.value = Opened(p)
          /\ answer'.integrity = (Opened(p) # Noise)
        <3> HIDE DEF p
        <3> QED BY <1>8
    <2>2. TraceTellsAnswer' /\ CopiesAgree'
        BY <1>5, <1>8, <2>1 DEF Pass
    <2>3. Innermost(Parseable) \in ask.cands /\ p.form = "package"
        <3>1. Parseable \in (SUBSET Carriers) \ {{}}
            BY <1>2, <1>8 DEF Parseable, TypeOK, Asks
        <3> QED BY <3>1, InnermostIsIn DEF Parseable
    <2>4. Opened(p) # Noise =>
            p.body.secret = Opened(p) /\ (p.cipher = NoCipher \/ p.body.pass = ask.pass)
        <3> HIDE DEF p
        <3> QED BY DEF Opened
    <2>5. RecoveredTruth'
        <3>1. answer'.integrity =>
                \E c \in ask'.cands :
                    /\ doc'[c].form = "package" /\ doc'[c].body.secret = answer'.value
                    /\ doc'[c].cipher # NoCipher => doc'[c].body.pass = ask'.pass
            BY <1>1, <2>1, <2>3, <2>4
        <3> QED BY <1>3, <3>1 DEF RecoveredTruth
    <2> QED BY <2>2, <2>5
<1>9. Told
    BY <1>6, <1>7, <1>8 DEF Recover
<1>10. RoundTrip'
    BY <1>3 DEF RoundTrip
<1>11. Asked'
    <2>1. answer'.kind \in {"secret", "failed", "nothing"}
        <3> HIDE DEF p
        <3> QED BY DEF Recover
    <2> QED BY <1>1, <2>1 DEF CascadeInv, Asked
<1> QED BY <1>1, <1>9, <1>10, <1>11
        DEF Underway, LayersInv, ChainInv, TraceInv, Answered

\* Every step keeps the decode to the document it was asked about.
LEMMA StepCascade == CascadeInv /\ [Next]_vars => (Asked /\ Underway /\ Answered)'
<1>1. SUFFICES ASSUME CascadeInv, [Next]_vars PROVE (Asked /\ Underway /\ Answered)'
    OBVIOUS
<1>2. TypeInv /\ Asked
    BY <1>1 DEF CascadeInv
<1>3. CASE Reveal
    <2>1. ASSUME NEW cands \in CandidateSets, NEW offered, NEW pass,
                 StartDecode(cands, offered, pass)
          PROVE  (Asked /\ Underway /\ Answered)'
        BY <1>2, <2>1, StartDecodeReads
    <2> QED BY <1>1, <1>2, <1>3, <2>1, BetweenDecodes, LayerWavePasses, LayerWaveHalts,
               EnvelopeWavePasses, EnvelopeWaveHalts, ChainWavePasses, ChainWaveHalts,
               ReturnSecretTells, RecoverTells DEF Reveal
<1>4. CASE Compose \/ Transit \/ TakeAnswer
    BY <1>2, <1>4, BetweenDecodes
<1>5. CASE UNCHANGED vars
    BY <1>1, <1>5
       DEF vars, CascadeInv, Asked, Underway, Answered, LayersInv, ChainInv, TraceInv,
           TraceOrder, StepsDone, Waved, ReadSoFar, Driven, Identified, Equipped, Undoing,
           RoundTrip, CopiesAgree, TraceTellsAnswer, RecoveredTruth, Finished
<1> QED BY <1>1, <1>3, <1>4, <1>5 DEF Next

\* The decode, its trace and its answer agree with the document throughout.
THEOREM CascadeHolds == Spec => []CascadeInv
<1>1. Init => CascadeInv
    <2>1. SUFFICES ASSUME Init PROVE ClaimsFit /\ Asked /\ Underway /\ Answered
        BY InitTypes, GenuineAtStart DEF CascadeInv
    <2>2. ClaimsFit
        BY <2>1 DEF Init, ClaimsFit
    <2>3. /\ ask.cands = {} /\ reading = Idle /\ answer.kind = "none"
        BY <2>1 DEF Init, NoAsk, NoAnswer
    <2> QED BY <2>2, <2>3
            DEF Asked, Underway, LayersInv, ChainInv, TraceInv, Answered, RoundTrip,
                CopiesAgree, TraceTellsAnswer, RecoveredTruth, Finished
<1>2. CascadeInv /\ [Next]_vars => CascadeInv'
    BY StepTypes, StepGenuine, StepFits, StepCascade DEF CascadeInv
<1> QED BY <1>1, <1>2, PTL DEF Spec

\* A document whose framed channels all read as one compose wrote them gives its
\* secret back, with its integrity vouched for, to a reader equipped for it:
\* for any stack, mode and set of candidates (pipeline.rs encode, decode_traced).
THEOREM SecretsComeBack == Spec => []RoundTrip
<1>1. CascadeInv => RoundTrip
    BY DEF CascadeInv, Answered
<1> QED BY <1>1, CascadeHolds, PTL

\* The cascade returns a secret only if every framed candidate was read and all
\* held one envelope (pipeline.rs decode_traced, the comparison of copies).
THEOREM NoCopyIsPreferred == Spec => []CopiesAgree
<1>1. CascadeInv => CopiesAgree
    BY DEF CascadeInv, Answered
<1> QED BY <1>1, CascadeHolds, PTL

\* The trace of a finished decode is the story of its answer: one wave for each
\* layer and step, in order, and the last one decides (decode_traced, halted).
THEOREM TracesTell == Spec => []TraceTellsAnswer
<1>1. CascadeInv => TraceTellsAnswer
    BY DEF CascadeInv, Answered
<1> QED BY <1>1, CascadeHolds, PTL

\* Recovery speaks only where no frame is seen, and vouches only for what a
\* package of the document held (pipeline.rs recover).
THEOREM RecoveryIsTrue == Spec => []RecoveredTruth
<1>1. CascadeInv => RecoveredTruth
    BY DEF CascadeInv, Answered
<1> QED BY <1>1, CascadeHolds, PTL

=============================================================================
