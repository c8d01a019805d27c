# SteganoHero: specifications, model checks and proofs

TLA+ models of SteganoHero, the TLC instances that check them and the TLAPS
proofs about them. Source paths are relative to `src/crates/`. Every definition
that stands for code is listed with the lines it stands for in `PROJECT.json`
under `map`; this file explains how they fit together.

## 1. Inventory

SteganoHero hides bytes in text with invisible or lookalike characters, reveals
them again, signs, marks and cleans documents. It is a Rust workspace with one
engine and five surfaces over it.

| Component | State it keeps | Operations | Interacts with |
|---|---|---|---|
| Pipeline (`stegano-core/src/pipeline.rs`) | none between calls; during a compose the running text and the sealed envelope, during a decode the text still to be peeled, the salt and payload of the last layer, the trace | `encode*`, `encode_saturated`, `decode_traced`, `recover`, `capacity`, `recommend`, `detect` | carriers, frames, ciphers; called by every surface |
| Frame formats (`stegano-core/src/format/`) | none | `build`, `read`, `is_framed`, `locate_preamble`, `scan_resync`, `build_light`, `read_light`, `scan_light`, envelope `to_bytes` / `parse` | pipeline |
| Carriers (`stegano-core/src/stego/`) | none; the document is the state | `positions`, `check_writable`, `write_positions`, `read_positions`, `encode`, `decode`, `strip`, script attribution | pipeline, provenance, cleaning, fingerprints |
| Ciphers and key tree (`stegano-core/src/crypto/`) | derived keys, for one call | `encrypt`, `decrypt`, `encrypt_with_key`, `KeyTree::derive` | `seal`, `revert_step` |
| Signing, provenance, licences (`signing.rs`, `provenance/`, `license.rs`) | manifests carried by the document | sign, verify, bind, grade edits | pipeline, surfaces |
| Sovereignty (`sovereignty/`) | none | inspect, clean | surfaces |
| Analysis (`forensic.rs`, `metrics.rs`, `fidelity/`, `noise/`) | none | statistics over one text | recommendation, reports |
| Document files (`stegano-files`) | container parts in memory, the output file; for a conversion to PDF the temporary files and a detached browser | import, export, convert, transform, strip, write back | pipeline, surfaces, an installed browser |
| Agent settings (`stegano-mcp/src/settings.rs`, `tools.rs`, `stegano-server/src/config.rs`) | one settings file; one copy in each process that opened it | load, validate, `with_update`, save; first-start token | both transports |
| MCP channel (`stegano-mcp/src/channel.rs`, `jsonrpc.rs`) | the session's handshake state | line-delimited requests, notifications, replies | tools, settings |
| HTTP server (`stegano-server`) | key table, token buckets, settings store | key check, rate limit, bearer check, routes | pipeline, settings |
| Watermarks and fingerprints (`stegano-core/src/watermark/`) | registries of marks and of recipients, kept by the surfaces | issue a copy per recipient, trace a leaked one | carriers, surfaces |
| Desktop application (`stegano-tauri`) | registries of recipients and marks, client configuration files | commands, client set-up | everything |
| Command line (`stegano-cli`) | none | commands | pipeline |
| Word marks (`stegano-wm`) | none; the document is the state | sign in the choice of synonyms, verify, remove, scrub, rewrite by a model, analyse | desktop, agents, a model on this or another machine |

### What is hard here

* **Stacking.** A stack of carriers writes one layer each into the text the
  previous one produced. A refusal in the middle must leave the document alone,
  a second compose must not disturb the first one's layers, and the reader peels
  layers in the reverse of the order *it* was offered carriers in.
* **Damage.** A document is copied, sanitised, excerpted. Each channel is
  damaged on its own, so copies of a layer disagree, headers read over altered
  payloads, frames open in the middle of the stream.
* **What vouches for an answer.** Header checksums, an authentication tag, a
  CRC over a ciphertext: a passed oracle does not always mean the same thing.
* **Arithmetic at boundaries.** A length prefix that grows at varint
  boundaries, markers that must not run into the tail replica, nine characters
  for eight bits, a sixteen-bit length; the heavy frame's capacity is not
  monotone in its positions.
* **Files shared by processes.** Settings, keys, client configurations:
  whole-file writes from private copies, crashes between two of them.
* **A document is judged again after it was changed.** Where a carrier may write,
  which letters it takes for its own and what counts as code are computed from the
  text, and the marks are in the text by then.
* **Two locks, a lazy clock.** A key is validated under one lock and metered under
  another; a bucket is filled up only when somebody looks at it, and lives in a
  process that may end.
* **A process nobody waits for.** The browser that prints a PDF outlives the one
  that was started, the call that started it and perhaps the program.

### What makes each component correct

* Pipeline: what a reader gets is what some author sealed under the passcode it
  gave, or a refusal that names the wave; a compose is whole or has no effect.
* Frames and capacity: regions never overlap, the reported capacity is exactly
  what is accepted, a frame is found where it was written.
* Carriers: written and read positions agree, nothing is written over a channel
  that is not free.
* Settings, keys: no accepted edit is lost to another request, what is stored is
  what is in force, no surface opens without its token, a revoked key spends nothing.
* Provenance: an edit is graded as what it was. Sovereignty: cleaning twice is
  cleaning once. Files: what a write-back did not touch stays as it was.

`PROJECT.json` lists the hazards with the line each bites at and the properties
that cover it.

## 2. Modules

| Module | Contents |
|---|---|
| `StegoPipeline` | compose, transit, reveal of one document: constants, state, actions, properties |
| `StegoPipelineProofs` | types and all six properties of it, proved |
| `MCStegoPipeline` | two small instances of it, in one run: three carriers and one compose, two carriers and two |
| `FrameSizing` | the capacity search, the gates, the span search, the layout of the heavy frame |
| `FrameSizingProofs` | types, disjoint layouts, the report, the span search and what is placed, proved; and of `Advice`, that the advice is the best there is and can be applied as it is |
| `MCFrameSizing` | the constants of the code and the covers to check |
| `Advice` | the settings recommended for one secret among several carriers, and what comes of taking them, over `FrameSizing` |
| `MCAdvice` | candidates and secrets to check, beside those of `MCFrameSizing` |
| `Carriers` | the four carriers character by character: protected regions, gaps, script attribution, write, read, strip (operators, no state) |
| `MarkedDocument` | one document marked, signed, cleaned, edited, fingerprinted and traced in any order, over `Carriers` |
| `MarkedDocumentProofs` | types, that cleaning restores and inserted marks read back, and of documents without code what letters, verdicts, traces and capacities say, proved |
| `MCMarkedDocument` | covers, claims and digests to check |
| `DocumentFile` | a text or office file through the file commands and an editor, over `Carriers` |
| `DocumentFileProofs` | types, that texts come back, that cleans hold and that claims tell edits, proved |
| `Exchange` | a secret prepared, concealed, exported, revealed and opened, each by any of the surfaces |
| `ExchangeProofs` | of `Exchange` who is given what, and what is vouched for; of `WordMarks` types, that a signature reads back, and that it stands, proved |
| `WordMarks` | the signature in the choice of synonyms, and whatever happens to its document |
| `Licences` | a licence generated, signed, handed on, and verified against key, text, machine and calendar, over `Carriers` |
| `LicencesProofs` | that verification succeeds for those who hold a licence and for nobody else, proved |
| `MCDocuments` | `MarkedDocument` beside `DocumentFile`, `Exchange` (twice: handed over, and only attached to), `WordMarks` and `Licences`, with the files, notes, words and paragraphs to check |
| `AgentSettings` | the settings file and the processes that hold copies of it |
| `KeyGate` | the server's API keys, start, middleware and token buckets |
| `Metering` | the abstract meter `KeyGate` implements |
| `ClientSetup` | the entry the desktop application merges into a client's configuration file |
| `ServicesProofs` | of `KeyGate` types, both rate bounds, who passes, the start and the refinement, of `ClientSetup` types and `NothingLost`, proved |
| `PdfExport` | the conversion to PDF through a detached browser |
| `ServerFilesProofs` | five invariants of `AgentSettings`, of `PdfExport` types, `OwnPage` and `NothingLeft`, proved |
| `MCAgentSettings` | updates, hand-written files and processes to check |
| `MCServerFiles` | `AgentSettings` beside `PdfExport`, whose calls run under the lock of the settings |
| `MCServices` | `KeyGate` beside `ClientSetup` |

`MCDocuments`, `MCServerFiles` and `MCServices` are sums: the parts share no variable, and a behaviour is one of one
part while the other stands still, so each is checked over all its own behaviours
in one run.

### StegoPipeline

A text is a function from carriers to what each carrier's alphabet holds in it.
That is what `validate_composition` secures: alphabets of a stack are disjoint,
so one carrier's characters never disturb another's. A layer is empty, stray
characters of the cover's own writing, a light frame in one or more copies, a
heavy frame with or without its tail replica, or a document of the pre-format
era. A frame has a header that reads, is torn (magic and version only) or is
lost, a salt, and an envelope; an envelope has the recorded chain and a body:
the secret, the transforms still on it, what they were keyed with, and whether
its bytes were altered. Bits are abstracted to exactly that.

| Action | Code |
|---|---|
| `StartCompose`, `RefuseCompose` | `encode_for_mission_framed` / `encode_saturated` up to the loop: empty stack, `validate_composition`, `seal` |
| `PlaceLayer`, `RefuseLayer` | one turn of the loop: Conceal gate, room, `check_writable`, `place_layer` / `place_saturated` with the read back |
| `FinishCompose` | the returned document replaces the user's |
| `AlterChannel`, `Excerpt` | the world (external): a channel altered, swept away, or the document cut |
| `StartDecode`, `RefuseDecode` | `decode_traced` up to the identified carriers |
| `LayerWave` | one turn of the carrier loop: read, compare with the layer above, strip |
| `EnvelopeWave`, `ChainWave` | `Envelope::parse`, then one `revert_step` |
| `ReturnSecret`, `Halt` | the result, `halted` |
| `Recover` | `recover`, with `open_pre_format_package` |
| `TakeAnswer` | the caller takes the result |

A call runs alone: the functions are synchronous, over a text of their own. What
interleaves is composes, alterations and decodes as a whole; the steps inside a
call are separate actions because a call may stop at any of them.

Assumed: checksums and tags are exact, damage is accidental and never alters two
channels in the same way. A whole-file sizing is replaced by how many light
frames the slots hold (`cover`, `FramesNeeded`, `ConcealFrames`); the real
arithmetic is in `FrameSizing`.

### FrameSizing

One cover, one order (cipher, light / heavy / saturated, Conceal or not). The
search of `carrier_capacity` runs first, one probe per step. Then secrets whose
lengths lie around the reported figure are composed one after another: gates,
span, `minimum_span` round by round, the builders' refusals, the carrier's own
refusal. Carriers differ in what sizing sees of them: one that extends the
document, one that spends nine characters on eight bits, one that rewrites
letters. Lengths and positions are the code's own numbers.

`Advice` puts a question before that: several candidates, a secret, a cipher and a frame.
`Recommend` is `recommend_framed`: per candidate the room of its frame and the budget of each
mission, strictest first; then the ranking, the pick and the shortfall. A caller takes the
advice (`TakeAdvice`), insists on Conceal with a candidate of its own choice
(`InsistOnConceal`), or cuts the secret by the shortfall (`CutShort`); the cover is then
measured and composed into by the actions of `FrameSizing`, and the gates have the last word.
`mission_capacity` composes in the same way and throws the document away; the bytes it shows
are `Shown`.

### AgentSettings

One settings file and the processes whose `STEGANO_SETTINGS` names it: servers
(`stegano-server`) and agents (`stegano-mcp`). Each keeps a private copy (`mem`)
and the mutex of `AgentState` (`holder`; an agent is single-threaded and has one
request at a time). The file is `Absent`, `Empty` (truncated), `Garbled` (does
not parse) or holds settings; settings are one free field, the coupled pair
`bind_address` / `allow_non_loopback`, and the token.

| Action | Code |
|---|---|
| `Look`, `Load`, `Generate`, `WriteToken`, `Judge` | `config::prepare`: existence, load, first-start token and its save, refusals |
| `Reopen` | `SettingsStore::at` in the server's `main`, a second read of the file |
| `StartAgent` | `main` of `stegano-mcp` |
| `Admit` | `bearer_middleware`, which takes the mutex for the token alone |
| `Refuse` | an update `with_update` rejects, or a file that cannot be opened |
| `BeginSave`, `WriteSave`, `SaveFails`, `Tell` | `SettingsStore::apply` under the mutex: copy and truncation, write, failure, assignment and reply |
| `End` | a process is killed or exits, at any step |
| `EditByHand` | an operator edits or deletes the file while nobody saves it (external) |

`std::fs::write` opens with truncation and then writes: two steps, with other
processes in between. A write that finds the file written since it was truncated
here may leave the tail of a longer text, so its outcome is the new settings or
`Garbled`. `promise`, `lasting` and `lastingIn` are history: what callers of one
process, and of all, were told.

### Carriers and MarkedDocument

`StegoPipeline` takes for granted that carriers do not disturb each other;
`Carriers` is where that is looked into. A document is a sequence of characters,
of as many kinds as the carriers tell apart: a Latin letter with a lookalike, the
lookalike, other Latin and Cyrillic letters, space, newline, tick and dollar, and
each carrier's own characters. `Regions` is `protected_regions` (fences, code spans,
equations), `WritableGaps` the gaps of `placement.rs`, `Attributed` the homoglyphs
the carrier can show are its own work, decided by the word and then the document.
`ByteBits` is 8 in the code and 2 in the instances, which reach several bytes
with few letters.

| Action of `MarkedDocument` | Code |
|---|---|
| `Conceal` | an agent's conceal: written, read back, handed over only if it reads |
| `AgentSigns`, `SignsUnread` | an in-band claim by an agent (verified before it is returned) and by the command line or the desktop (not) |
| `SignsBeside` | a detached record |
| `Clean`, `Sanitize` | `sovereignty::clean` and the agents' sanitize: another order, another gate for the homoglyphs |
| `Issue` | `generate_batch`: one recipient's copy travels on |
| `Edit`, `Stray` | the author changes a letter; another program's mark arrives (external) |

The program keeps nothing of it: each call is handed the text as it stands, so
`text`, `held`, `inband` and `prints` are what happened, and verification and
tracing (`Holds`, `Named`) are operators over the document, compared with it. A trace
names nobody unless the document is `Suspected`: `detect` sets the substitutions it can
show against all letters that have a substitute or are one, those in code as well, and
`identify_leak` asks for a score of 0.01, which is one in 200 (`Sparseness`).
Signatures and digests are exact: a claim is its signer, the hash's preimage and,
for the properties, the text it was made over.

### DocumentFile

What `stegano-files` does to a file that is read, changed and written back again and
again. A text file is its characters in an encoding (UTF-8 with or without the mark of
its byte order, UTF-16, or the Windows-1252 the decoder falls back to); every read
passes `fix_mojibake`, so characters can be garbled UTF-8 and turn into others, and a
U+FEFF at the start of what is written turns into the mark of the byte order. An office
file is paragraphs of formatted runs, some of them deleted or hidden, and a metadata
entry. A reader gets a rendering of it: references unescaped, runs of one format merged,
emphasis put inside the spaces, paragraphs trimmed (`Lowered`).

| Action | Code |
|---|---|
| `CleanText`, `CleanFindsNone` | `clean_text_native`: clean the extracted text, encode, read again and compare; or nothing to remove, byte for byte |
| `CleanOffice` | `clean_office`: each text node on its own, the archive repackaged, the removal proven on a second extraction |
| `PristineFile` | `pristine_text_native` |
| `ConcealFile` | `conceal_text_native`; the density ceiling is the room of the text |
| `StripFile` | `strip_zip`: the metadata entries are left out |
| `SignIntoMetadata` | `sign_into_metadata` with `embed_docx`; `Verified` is `verify_from_metadata` |
| `RetypeText`, `PasteIntoText`, `RetypeOffice`, `PasteIntoOffice` | the author's editor (external), which keeps or drops entries it does not know |

Commands that refuse leave the file as it was and are no step. `wrote`, `placed`,
`cleared` and `signed` are history. Left out: tables, links, lists and equations of
office files, and the metadata of pictures.

### Exchange

What the surfaces make of the engine. The desktop application, the command line, the HTTP
server, the agents' commands and the commands over files each choose carriers, ciphers and
passcodes in their own way, and hand on values: a note with attachments, compressed,
protected or sealed bytes, a text that carries. A value is what it is made of (`Note`,
`Compressed`, `Ciphered`, `Sealed`); a marked text is what its layer says and the carriers
that still hold it. Placement is the business of `StegoPipeline`.

The two ciphers without a tag are one and the same: the bytes are XORed with what the
passcode alone determines, beginning with its own bytes. A value under keystreams is
therefore the set of those on it and what is below (`Streamed`), and encrypting is taking a
passcode's stream in or out of the set (`Mixed`): twice is not at all, and the order does not
matter. A text of one token is no longer than what passcodes begin with (`Opening`), so
passcodes that begin alike have one stream over it (`KeyOver`). Nothing that is read is
final: a reader unprotects what an answer or the last unwrapping gave with any passcode,
as `run_unprotect_payload` takes any bytes.

A note and the name of a file are sequences of the tokens an attachment is made of, so
names may hold markers. `Attachable` is what each surface refuses: a bar in the name and
more than a hundred kilobytes everywhere (of a protected value, which a cipher makes no
shorter, but not of a compressed one), a blank name and an empty file on the desktop.

| Action | Code |
|---|---|
| `Attach`, `DetachAll` | `FileEmbed::embed`, `strip` behind `attach_payload` and the agents' commands |
| `Compress`, `Protect`, `Seal` | `compress_payload`, `run_protect_payload`, `handle_pqc` |
| `Write` | a request of any surface: `compose_core`, `Commands::Encode`, `handle_encode`, `run_conceal`, `file_conceal` and its two like |
| `Export` | `run_export`: a rendering may lose carriers, the PDF loses them all |
| `Read` | `reveal_core` and its three callers, `Commands::Decode`, `handle_decode`, `run_reveal` |
| `Unwrap` | expand, unprotect, open a sealed payload, `FileEmbed::extract` |

`sent` is history. `Readings` are all answers any surface gives to the text at hand, with
every passcode and key.

### WordMarks

A document is its words: of which group of synonyms a word is, which of its two variants
it has, in which case it is written, and which characters of other carriers are inside it
or beside it. `word_spans` ends a word at every character that is no letter and looks each
piece up on its own, so a word may hold a piece that is a group's while it stands apart:
"al|so" is "also" no more, but its "so" is matched, counted, and may become "thus". A word
therefore reads in one of two ways, whole or by its piece (`Part`, `Look`), and is matched
when what it then reads as is a group's (`Alone`): a character elsewhere inside, a
lookalike, a piece that was changed before the word was joined again, or a group's other
word take that away. One beside the word changes nothing but the text.
The bits that whiten a signature are any function of the key and the canonical form
(`Ones`), as a hash is.

| Action | Code |
|---|---|
| `EmbedSignature`, `RemoveSignature` | `embed_signature`, `remove_signature` (the canonical form) |
| `ScrubSynonyms` | `wordmark_scrub`: light, medium, heavy |
| `ScrubGuided` | `scrub_confidence_guided`: whichever flips the model prefers, within the budget |
| `RewriteByModel` | `scrub_via_backend`: the disclaimer, the validation, the clean of every class, or the scrub instead |
| `Veil`, `Unveil`, `RetypeWords` | other carriers, cleans, the author (external) |

`HasSignature` and `Verdicts` are `has_signature` and `analyze` over the document as it
stands; `source`, `parted` (the words a piece of which has stood apart) and `stamp` are
history.

### Licences

A licence is a paragraph that carries, through one carrier, a claim signed over itself and over
the hash of the paragraph without marks. Nothing of it is kept but the two files of the pair
(`keyfile`, `pubfile`, by generation); `deed` is what the package in the text says, `touched`
and `torn` are history.

| Action | Code |
|---|---|
| `Keygen`, `KeygenTorn` | `LicenseAction::Keygen`: the private half is written, then the public one, or not |
| `Generate` | `LicenseAction::Generate` with `LicenseBuilder` and `sign_and_embed`: printed with a newline, not read back |
| `AuthorshipSign` | `run_authorship_sign`: read back before it is handed over, bound to no machine |
| `Framed`, `Unframed`, `Retyped`, `CarrierRemoved` | pipes, shells, editors and cleaners (external) |
| `HalfDay`, `Renamed` | time passes, a machine gets another name (external) |

`Valid` is `extract_and_verify` as `LicenseAction::Verify` and `Inspect` call it, on the text
without the white space at its end; `TermsHold` are the checks after it. `Civil` is the calendar
of `days_to_ymd`, loop for loop, and `AtMost` the comparison of dates as texts; the properties
reckon by day numbers instead. The scope of a claim is carried and never asked for by a surface
(`check_module` has no caller but tests), `max_ops` likewise; both are left out.

### KeyGate and Metering

The table of keys survives and may be opened by several servers; everything else is
a process's. `Open`, `CreateKey`, `ShowKey` are the start of `main`: list, insert a
bootstrap key when no key is active, print it and listen; `OpenUnlisted` is the
listing that fails and is taken for a table with keys, `Stop` an end at any step.
`Arrive`, `Validate` and `ValidateFails`, `Check` are `auth_middleware`: the free
paths and the missing header, `validate_key` under the table's lock,
`RateLimiter::check` under the buckets' lock, with other requests, the clock and a
revocation in between. Tokens are counted in parts of a request (`Minute` parts to
one), which keeps refill an integer; the code's are `f64`.

`Metering` is the promise: a level per server and key that a clock refills evenly
and caps. `KeyGate` maps its lazily filled buckets to it (`level` is what `check`
would find now) and implements it.

### ClientSetup

`mcp_configure` of one or more windows on one client's file: `Click` reads and merges,
`BackUp` copies the file as it is by then, `Truncate` and `Write` are
`std::fs::write`, `GiveUp` is a window that ends or a step that fails. `Save` is the
client or its user (external). A file is missing, not text, not the expected JSON,
blank, or settings of the client's own with or without the entry.

### PdfExport

`html_to_pdf` step by step: `Convert` takes the names (process id and count),
`WriteHtml`, `Launch`, `BrowserExits` (`cmd.status()`), then `Poll` and `Read` are the
turns of `wait_for_pdf` and `Clear` the three removals. `Decline` is every refusal before
that. The browser (external) opens the page, opens the PDF and writes it in parts,
whatever the call is doing, and may end at any point; `Restart` ends the process and
gives its id to another one while its browsers and files live on. Time is counted
in polls. Removals fail only while a browser has the file. `halted`, `stale` and
`loose` record what a property has to exempt.

## 3. Runs

| Run | Instance | Shows |
|---|---|---|
| `stego_pipeline` | three carriers (one of each kind), an authenticated and a keystream cipher, one secret, two passcodes, stacks of up to two, one compose, one alteration, pre-format documents; beside it two carriers, two secrets, two composes by different authors, one alteration | the six properties below; 294,622 states |
| `marked_document` | six covers of up to seven characters (none at all, code span, equation, joiner, Cyrillic, mixed), bytes of two bits, two signers, three recipients, strays; beside it seven text files (garbled once and twice, four encodings) and five archives (emphasis, runs that meet, a deleted run, a mark that stands alone, a letter in doubt), three commands or edits; beside them a note handed over, under a cipher with a tag and a keystream, with two passcodes that begin alike and two key pairs, by one attachment, two wrappings, one export, one reading and any number of unwrappings; beside it three notes with stray parts of an attachment's syntax and four names (blank, and with an opening and a closing marker), files of three sizes, compressed or not, up to three of them attached one after another and detached at any time; beside them four documents of up to four words of two groups, among them words that hold another one, a pattern of two bits, two keys, four calls; beside them licences of three paragraphs, three kinds of terms, two machines, three uses | the sixteen properties below; 269,127 states |
| `services` | two servers over one table of two keys, two requests, limits 1 and 2, minutes of two ticks; two windows, two entries, one write of the client | the five properties below; 211,216 states |
| `frame_sizing` | the code's constants; covers of 7, 8, 150, 620–760 and 1200 slots, with and without a keyed cipher; beside them pairs of candidates of every kind, asked about secrets of 1 to 130 bytes | the six properties below; 81,344 states |
| `agent_settings` | a server with two request slots and an agent, three starts, three requests, one edit by hand, five updates, three files; beside it one process id with two lives, two conversions, a PDF in two parts, time for two polls | the seven properties below; 873,000 states |
| `wrong_passcode` | no damage at all | `traits.rs:98` promises a refusal; a keystream cipher gives none |
| `redundancy` | one alteration | `pipeline.rs:943` promises that one intact channel is enough; a second damaged one refuses the document |
| `conceal_ceiling` | the same covers, under Conceal | `pipeline.rs:1100` promises that the document stays under its ceiling; the frame comes on top of what the gate counts |
| `length_field` | covers of some 65,600 slots | `pipeline.rs:463` promises that what is reported is accepted; a frame cannot record more than 65,535 bits |
| `told_survives` | nobody's hand on the file | `tools.rs:81` promises that what was told is there at the next start; a save cut off, or another process's, undoes it |
| `fence` | one fenced block between two words | `placement.rs:112` promises that code survives byte for byte; a mark before the ticks that open a fence makes it no fence |
| `zone_token` | nobody's hand on the file | `settings.rs:13` promises that the zone never changes the token; a save carries the token of an older copy |

Properties of `StegoPipeline`: `AuthenticatedAnswer` (a verified tag means this
secret, this cipher, this passcode, composed by somebody), `RoundTrip` (layers
that still read as written give the secret back, from any order of candidates,
from an excerpt too), `CopiesAgree` (no secret out of layers that differ),
`TraceTellsAnswer` (the trace and the result tell one story, in reverse order),
`RecoveredTruth` (the recovery sweep's valid answers are true, and it never
speaks for a framed document), `ComposeIsWhole` (a compose places its whole
stack on free channels, or nothing).

Properties of `FrameSizing`: `ReportIsTrue` and `BeyondReportRefused` (the
report is exact, and a zero has the reason it says), `SpanIsSmallest`, `FrameStands` (what is placed
fits, the regions of its layout keep apart, and the reader looks for them where they are), `SearchEnds`.
Of `Advice`: `AdviceIsBest` (the carrier and the mission recommended take the secret, a cut by the
shortfall named is enough, no bounded candidate takes it under Conceal where something else was
recommended, and the bytes shown for Conceal are bytes its gate lets through).

Properties of `AgentSettings`: `EditsInForce` (a process has in force what it
loaded and every edit it told since), `StoredIsInForce` (a file last written for
a process's caller is what that process has in force), `WrittenIsUsable` (the
zone never writes settings the next start rejects), `NoOpenSurface` (no request
is served under a blank or another token).

Properties of `MarkedDocument`: `MarksReadBack`, which is `InsertedReadBack` (what an inserting
carrier placed is what it reads, bit for bit and nothing beside, whatever others placed, and whatever was
edited, cleaned or pasted around it) and `LettersReadBack` (what was placed in the letters, and
nobody typed over, reads back, the letters being judged again in a text other marks split),
`RestoresTheText` (a clean gives back the author's text, in either order, where its
script is beyond doubt), `VerdictIsHistory` (provenance holds exactly when a trusted
signer signed the text as it now reads, and the required one did too),
`RoomIsKept` (capacity is a matter of the author's text alone, and
what is reported finds its gaps in a marked document), `TracedWhileWhole` (an
untouched copy names nobody but the recipients whose copies are the same, and names them if
the letters it replaced are one in `Sparseness` of the text's),
`CodeUntouched` (code and equations stay as they are; violated in `fence`).

Properties of `DocumentFile`: `WriteBackKeeps` (whatever was concealed, cleaned and
written back, in whatever encoding, a reader gets the author's text and the bits that
were placed), `CleanHolds` (a class reported gone is gone from what a reader gets until
somebody puts it back), `ClaimTellsEdits` (the claim carried is the last one made, and
stands exactly when the author's text and format are what it was made over).

Properties of `Exchange`: `AnswersAreTrue` (what a surface vouches for is what was hidden or
what that was made of, except what a keystream makes of another passcode's),
`OnlyTheAddressed` (nobody gets the secret without the key it was sealed to, the passcode of a
tagged cipher, and every keystream that is still on it in the document; and who asked for a cipher
got one), `OwnersRead` (the surface that wrote reads, and so
do the agents), `AttachmentsReturn` (attached files come back whole, by their names and in
order, and detaching leaves what was typed). `OnlyTheAddressed` says of keystreams what is so: two
passes under one passcode leave no lock (section 5), and `Locks` is what is left.

Property of `WordMarks`: `SignatureStands` (whatever was signed, scrubbed, removed, concealed
and cleaned, the words and their pieces are the author's but for their variants, a word that was
never parted keeps its piece, and where other carriers'
characters are where they were, the signature reads under its key exactly when the words
and pieces that carry it have the variants they were given).

Property of `Licences`: `LicenceVerdict`, which is `GrantIsTrue` (whoever verification exits with success for holds a
claim made with the pair's private half, the paragraph reads as it did but for white space at
its end, the date by the calendar has not come, machine and name are those it was made for) and
`LicenceHolds` (whoever holds such a licence, untouched, is granted it, however it was printed
and pasted).

Properties of `KeyGate`: `RateKept` (from any moment on a run admits at most a full bucket
and the refill since, `WindowBound`; and nobody is refused before the limit within the
minute, `RefusedOnlyAtLimit`),
`OnlyKeysPass`, `StartsWithAKey`, `Metered` (the refinement). Of `ClientSetup`:
`NothingLost` (what the client had is in its file or in the copy, and calm merges
keep it in the file). Of `PdfExport`: `OwnPage` (a call returns what was printed from
its own page, whole unless the browser ended or paused in its writing), `NothingLeft`
(a file there is belongs to a call under way or to one of the named exceptions),
`CallEnds` (every call ends, as long as started browsers exit).

Every part's type invariant is proved for all constants, so no run repeats them, but for
`FileTypeOK` of `DocumentFile`, which relates parts of the state: no mark of the byte order is left
in a text, and an archive carries a claim exactly while a signature stands.

### Bounds, and why they are enough

* Stacks of two show order, partial refusal and disagreement; a third layer is
  compared with the one before it exactly as the second is. Three carriers are
  needed so that a candidate outside the stack exists.
* One compose and one alteration in the three-carrier instance; two composes in
  the two-carrier one. Two alterations of one document only widen what the first
  may already leave, since an alteration reaches every damaged form in one step.
* Two passcodes tell the right one from a wrong one. `stego_pipeline` carries one secret, told apart
  from its absence and from noise; its second instance has two, the least at which a second compose can bury
  the first one's message under a different one. Secrets and passcodes are symmetric.
* `frame_sizing` covers every slot count across several markers of the heavy
  frame, below and above the smallest frame, and the neighbourhood of the
  reported length where the searches turn (one less, exact, one more, twenty
  more). Varint boundaries at 128 bytes are crossed at 1200 slots. Two candidates are
  enough for the ranking, which compares them pairwise; 150, 700 and 1200 slots and the
  secrets lie around the lengths at which one mission, or one frame, gives way.

* Two request slots are the least that can lose an edit inside one server, a
  server and an agent the least that can between processes. Three starts let
  either restart while the other lives; three requests let two overlap after a
  first. The updates touch the free field, each of the coupled fields alone and
  both, and one names the token. `MaxStarts`, `MaxRequests` and `MaxHands` are
  bounds on counters the code does not have; the proofs hold for all of them.
  When they are spent the deployment stops, so deadlock is not checked there.

* `marked_document`: covers hold a byte for every carrier, two for the letters where
  fingerprints are to differ; three operations, of which two marks, let a mark, a
  disturbance and a third party meet in every order. Two signers tell trusted from
  not, three recipients have two whose first bytes agree.
* `marked_document`, the files: each command and each edit can follow any other, with
  one more after them; the texts are the shortest that hold garbled characters a
  removed mark can complete or a repair has to repair twice. Lookalikes need the word
  and the script around them, which is why they have several letters. One text, in which a
  mark pasted among garbled characters changes what script a lookalike is judged by, and one
  archive, in which a mark splits a word of two scripts, are the cases `PasteIntoText`
  and `Firm` speak of.
* `marked_document`, what is handed over: two passcodes and two keys tell the right one from
  a wrong one and are interchangeable, so they are declared symmetric (no property is about
  liveness, and the other parts mention neither). Two wrappings and one layer put up to three
  transforms on a value, so that a passcode can be used twice, around another one or a
  compression; a keystream and a tagged cipher stand for the others, which differ in nothing the
  model tells apart. The short note is opened by either passcode, a note with a file and every
  file by its own alone. `HandedOnce` allows one attachment by a plain name, and the file is
  small: what else may be attached is the next part's. A text is exported once and read once,
  since a reading depends on the text alone, and then unwrapped as far as it goes.
* `marked_document`, attachments: `MaxNote` of 13 tokens allows three files, the least with one
  before and one behind another; every stray part of the syntax is in a note or a name, and
  files are empty, small and too large.
* `marked_document`, the words: two words carry the pattern and one is beyond it, which is
  where removal, scrubs and case act without the signature's noticing; four calls are
  those a word needs to be parted, signed, joined and parted or cleaned again. A word holds
  at most one piece, and only the first word of a group does (`Parts`, `Alone`); one group's word
  and one word of none hold one. `Sparseness` is 2 where the code has 200: a fingerprint of one
  letter is enough among two and not among three.
* `marked_document`, the licences: a licence is generated once and then suffers two of a new
  pair, a torn pair, an edit, a clean, white space, a new name, or half a day; the dates lie
  at the end of February 2100, which the rule of centuries makes the one that is easily wrong,
  and the day number counts through every leap year before it. A byte more than the package
  takes is in one paragraph, white space at the end in another.
* `agent_settings`: the request slots of a process are interchangeable as well. `CallEnds`
  and the fairness it needs speak of `PdfExport` alone, where no slot occurs.
* `services`: a limit of one makes the first refusal immediate, of two lets tokens
  accumulate; three ticks are one and a half minutes, two starts a restart or a
  second server. Two clicks of different entries beside one write of the client are
  the least that can lose a text read earlier.
* `agent_settings`, the conversions: two parts are the least a PDF can be half
  written in, two conversions the least whose browsers can meet, one restart the
  least that brings names back, two polls the least that can find a size settled.

### Fairness

`StegoPipeline`, `AgentSettings`, `MarkedDocument`, `DocumentFile`, `Exchange`, `WordMarks`, `Licences`,
`KeyGate` and `ClientSetup` state none: their properties are safety. `PdfExport` assumes weak fairness of `Advance`, the steps a
call takes on its own, in one thread and one after the other. Nothing is assumed of
browsers: that a started one exits is a premise of `CallEnds`, because `cmd.status()`
waits for it without a limit, and nothing makes a detached one finish. `FrameSizing` assumes
weak fairness of `Internal`, the loops of `carrier_capacity`, `minimum_span` and
the builders: they are straight-line code of one thread and run to their end
once entered. Nothing is assumed of the user: `Compose` and `Again` are not fair.

## 4. Proofs

All constants are arbitrary within the named assumptions of the modules, which every
run evaluates: any number of carriers, ciphers, secrets, composes and alterations; any
marker spacing and preamble width; any notes, keys, processes, documents. What the
assumptions say is what the code fixes: the names of waves and of what stands for no
passcode or no key are told apart (`NamesAssumption`), ciphers and carriers are of their
kinds, preambles and markers are whole bytes and markers never nearer than twice their
width (`FrameAssumption`, `MarkerAssumption`; 32 bits and 64 in the code), a header records
payloads longer than the frame's own parts (`FieldAssumption`), and what people
type is made of the tokens of an attachment's syntax (`TypedAssumption`). An invariant is
seldom inductive as a run checks it; each entry names what had to be added.

### StegoPipelineProofs

* `TypeCorrect`: `Spec => []TypeOK`. `TypeInv` adds `OneCall` (a call runs alone, without
  an answer pending) and `ReadingShape` (a decode past its layers holds a frame, and no
  more chain steps to revert than were recorded).
* `TagsVouch`: `Spec => []AuthenticatedAnswer`. `AuthInv` adds `GenuineTexts` (every
  unaltered envelope, in the document, the draft and the decode, is the seal of a claim
  somebody composed) and `TagLast` (the transforms still on the body are those of that
  claim, so a tag can only verify as the last step reverted). The hard step is
  `ChainWave`: a chain whose steps were altered, or an altered body, fails the tag; an
  unaltered body was sealed, and its keyed cipher stands alone in its chain.
* `ComposesWhole`: `ComposeIsWhole`, from `JobInv`: the draft of a compose under way is
  the document with the layers of the stack's first carriers placed, each where nothing
  was, and the rest of it as it was.
* `SecretsComeBack`, `NoCopyIsPreferred`, `TracesTell`, `RecoveryIsTrue`: `RoundTrip`,
  `CopiesAgree`, `TraceTellsAnswer`, `RecoveredTruth`, from `CascadeInv`. It follows a
  decode wave by wave: what was read so far and from which carriers (`LayersInv`), which
  steps of the chain are still on the body (`ChainInv`), that the trace tells exactly that
  (`TraceInv`), and, once there is an answer, what it was computed from (`Answered`).
  `ClaimsFit` keeps for each claim that its stack was composed whole. The four properties
  speak of an answer and of the document at once, which is why the invariant has to
  say at every wave what the document held when the decode began.

### FrameSizingProofs

* `TypeCorrect`, `LayoutDisjoint`, `RegionsStayDisjoint`, `BeyondReportIsRefused`: replicas,
  markers and payload keep apart for every position count; `SizingInv` keeps the largest
  fitting secret between `low` and `high` and remembers which gate a compose passed;
  saturation, which passes none, is refused by the carrier itself.
* `FramesStand`: `FrameStands`, from `FramedInv`. The reader's count of positions and the
  writer's span give one layout although they need not be equal: what lies beyond the last
  whole byte moves no marker (`MarkersGrow`, and `MarkerAssumption`).
* `SpanStaysSmallest`: `SpanIsSmallest`, from `RoundsInv`. The room of a heavy frame is not
  monotone in its span, so neither is it obvious that adding what lacks finds the smallest
  span, nor that the search ends. No span skipped can hold the payload, because payload grows by at
  most one bit a position; and what lacks after a round is at most half of what lacked
  before it once markers are `MaxSpacing` apart, below which at most seven rounds are spent.
  So `r + 11` rounds are enough for every envelope of fewer than `2^r` bits, and the theorem
  holds under that hypothesis (`Powers`, `LongestFits`; a power is given as a function, since
  the provers know none). The code's 64 rounds leave `r = 53`: envelopes up to a petabyte.
* `ReportStaysTrue`: `ReportIsTrue`, under the same hypothesis: the search of
  `carrier_capacity` ends on the largest secret that fits, every secret up to it passes the
  gates, finds a span the cover has, and is built and taken; a zero has the reason it names.

The proof met one defect of the model: `ZeroReason` was a `CASE` whose guards overlapped, of
which TLC takes the first and the semantics any; it is a chain of conditions now, as in the code.

Of `Advice`, whose callers ask first and to whom the lemmas about single steps carry over:

* `AdviceStaysBest`: `AdviceIsBest`, from `AdviceInv`: what was recommended is cleared by the
  candidate named and no candidate clears a stricter mission (or none clears any, and the
  shortfall is what lacks to the most one holds), the cover and the mission of the measurement
  are what the caller went with, and the secret is what was wanted or what was left of it.
  That the ranking has a first is proved by a smallest list without one (`FirstIs`). The bytes
  shown for Conceal are taken only as long as a header can record a payload the size of the
  frame's own parts, which is `FieldAssumption` (65,535 bits against 384 in the code): the case
  is a carrier that extends the document, too short for its own frame (`OverheadIsRecorded`).
* `AdvisedAreServedAlike`: the four invariants of `FrameSizing` hold of these callers too.
* Both take the condition on the rounds, for the secrets wanted as well (`WantsFit`).

### ExchangeProofs

From `HandedInv` (the note is made of tokens and the bench holds a value of the shapes
writers make; the sheet holds what was asked for, locked with what was asked) and `FairInv`
(what a reader has is a stage of what was placed, under whatever keystreams differ from those on
it by some that were brought, or noise or words), over `HandedSpec`, the behaviours of the run:

* `AnswersStayTrue`: `AnswersAreTrue`; `OnlyTheAddressedRead`: `OnlyTheAddressed`;
  `OwnersAlwaysRead`: `OwnersRead`.
* A value under keystreams is `Tidy`: the set of them once, over what is none. Taking a stream
  in or out leaves it so (`MixedIsTidy`), and twice gives the value back. `Fair` says that the
  streams of what a reader has and those left on what was placed (`Locks`) differ by streams of
  passcodes the reader brought, after any number of passes: without any, it was locked by nothing else.
* `AttachmentsComeBack`: `AttachmentsReturn`, from `AttachInv`: extracting gives what was
  attached, detaching what was typed, and the note is `Closed`: every opening marker has a closing
  one behind it. Behind such a note a file whose name has no closing marker is a block of
  its own, whatever bars and closings stand before it and whatever openings its name holds, since the
  search for a block never runs into it, and the bar that ends the name is the first one.
* The lemmas are about the values: no writer wraps deeper than five stages (`StagesAreAll`);
  `Detach` and `Extract`, recursive functions, leave and give nothing but tokens and files of
  the note they are handed (`DetachKeeps`, `ExtractGives`), and with one file more
  behind a closed note what they gave without it (`DetachReturns`, `ExtractReturns`). These are inductions; they are
  made by a smallest counterexample (`Least`), which is a set and not an operator.
* `WordMarks`, from `WordsAssumption`: any table of groups, pattern, keys, whitening,
  documents and replies. `WordsTypes`: types. `StampReadsBack`: what has room and no word in mixed case reads its
  signature back. `SignaturesStand`: `SignatureStands`, from the invariant `Standing`: the
  words and their pieces are the source's but for their variants, and veiled alike, whatever was
  called; a piece that never stood apart has not changed; and the words are, but for variants, those of
  the document last signed, which reads its signature (`Whole`, `Signed`). The lemma that
  carries it is `AlikeReads`: documents that differ only in variants of what is matched have one
  canonical form, one set of matched positions and so one whitening.

### MarkedDocumentProofs

From `DocumentAssumption`: any covers of the carriers' symbols without marks, of any length
and with any code in them; any signers, recipients, claims and payloads of whole bytes;
digests at least as long as a cover (`derive_fingerprint` chains hashes as far as it needs).

* `MarkedTypes`: `TypeOK`, with `TypesInv`.
* `CleaningRestores`: `RestoresTheText`, and `InsertedBitsReturn`: `InsertedReadBack`, for
  every document, code and equations included. `MarkedInv` says that the document *reads* as
  the author's text: without its inserted marks it is that text but for letters exchanged for
  their lookalikes, and a text without a Latin letter it is exactly. And it has of each inserting
  carrier, in order, the characters of the bits that carrier is known to hold. That the
  lookalikes are told from the author's own letters in either order of cleaning is
  `StripAllRestores`; that what one carrier writes, removes and splits leaves another's
  bits alone is in `WrittenHolds`, `StripEachKeepsBits` and `PlaceKeeps`.
* `VerdictFollows`: wherever the letters read back, `VerdictIsHistory` holds.
* For prose, that is texts without code and without equations: `LettersComeBack`
  (`LettersReadBack`), `VerdictTellsHistory` (`VerdictIsHistory`), `CopiesAreTraced`
  (`TracedWhileWhole`, for any `Sparseness`) and `ProseKeepsRoom` (`RoomIsKept`). `LettersInv` adds that the letters that can
  carry begin with what homoglyph is known to hold, and that no edit outgrows the covers,
  so that a digest is never too short for its fingerprint (`FingerprintFits`). The
  premise is not for convenience: a stray mark in a fence turns code into prose (finding 6),
  and with it the letters of the code into places. The run has code in its covers, and
  none of the four breaks within its bounds; of longer behaviours nothing is claimed.
* `RoomIsTheTexts`: the half of `RoomIsKept` that needs no premise: the room an inserting
  carrier reports is the text's. The other half, that a gap is found for every character
  of what is reported, is arithmetic over `Spanned` (`SpannedFits`, `SequencedLength`) and
  a count of gaps and words that no lookalike moves (`GapsOfTwins`).
* Most lemmas are about `Carriers`' operators: `Only`, the one filter, takes concatenation,
  other filters and related texts (`OnlyJoined`, `OnlyPairwise` and their kin), and a placement is the
  document's symbols, each with what was put before it (`PlacedPieces`). These are inductions over
  documents, made over sets of sequences (`EverySequence`) or by a smallest counterexample.

The proof changed the module where it was wrong or could not be reasoned about: filters are one
recursive function (`Only`) and no `SelectSeq`, whose operator argument the provers cannot
instantiate; regions are computed over the characters they tell apart (`Outline`); digests
reach as far as covers; and `TracedWhileWhole` asks that the copy's text still have the
letters of its fingerprint, without which a concealed secret that equals the fingerprint of
an edited copy refutes it.

### DocumentFileProofs

From `FileAssumption`: any texts without marks, in any encoding and garbled however they are;
any archives of any number of paragraphs, runs and formats, marks and references in them,
that nobody signed yet; any secrets of whole bytes, authors, pasted marks and selections of classes.

* `FileTypes`: `FileTypeOK`. `CleansHold`: `CleanHolds`. `TextsComeBack`: what
  `WriteBackKeeps` says of the author's text and of the inserting carriers' bits, for every
  text. `ProseWritesBack`: `WriteBackKeeps` whole, for texts without code and equations; the
  letters' bits need that premise, as in `MarkedDocumentProofs` (finding 6). All four from
  `FileInv`: a text reads as its author's, carries what each carrier is known to hold
  (`Carries`) and nothing that was cleaned off and not put back (`Rid`); the rendering of an archive
  has none of the marks cleaned off it, though nothing of the kind is said of its nodes; and a claim is
  there exactly while a signature stands.
* `ClaimsTellEdits`: `ClaimTellsEdits`, with `ClaimInv`: the paper is of the shape of the one that was
  signed, run for run and letter for letter but for those retyped (`SegShaping`), and what was
  signed firm was hashed as it is rendered (`LoweredOf`). Of a firm paper every run is `Solid`, its marks
  stand between what is visible, so leaving them out and rendering can be done in
  either order; and papers of one shape that are rendered alike have the same letters
  where they could differ (`RetypedSame`).
* The lemmas are about the operators: joining, trimming, emphasis, the merge of runs of one
  format (its fold meets each run with the last segment only), and the repair. A text is a
  sequence of runs repaired each on its own (`RepairedAround`); a mark is nothing mojibake is
  made of, so the run it is put into is left as it is, and bringing one in can spoil a repair but
  never cause one.

The proof changed the module where it was wrong or could not be reasoned about. Wrong were: a
paste among garbled characters left a clean of the lookalikes in force, although the text it makes
is judged by other letters; and `Firm` allowed a letter whose script a mark can put in doubt. TLC
has the counterexample of both, in the two files added for them. And a repair picks
what reads garbled as the run it has, where it was a recursion over the text; the merge of runs
is an operator of its own (`Joining`, `Merged`); hidden runs are left out by `Only`.

### LicencesProofs

`LicencesStand`: `LicenceVerdict`, for every set of paragraphs without marks, of any length,
any machines, host names, terms and dates, however long the licence is printed, piped, retyped
and cleaned, from `LicenceAssumption`: a package is whole bytes, where machines have an
identity it is theirs alone, and a date that a licence names is a day of the calendar (nothing
checks that, see section 5). `LicenceInv` adds to what the run checks that a licence was signed
over what the code signs (`Issued`), and that an untouched one is the paragraph as it was
written and white space after it (`Whole`). The steps are short; the weight is in the lemmas
about what verification computes:

* `CivilDate`: the loops of `days_to_ymd` end, on the day whose number by the Gregorian rule is
  the one they were given. `TextsInOrder`: two such dates compare field by field as they
  compare in time, a date without a time being before all times of its day.
* `SeenToTheEnd`: trimming and stripping leave of a text what a reader sees of it, whichever is
  done first; so two texts with one hash read alike.
* `DecodedBack`: a package is read back from a framed and trimmed text through every carrier;
  through the homoglyphs where the paragraph has no byte more than the package takes, and its
  letters are read first and in the order they were written (`LettersReadFirst`).
* `NamesFit`: a name `matches_domain` admits ends as it should, and the domain's are admitted.

The loop over months was closed for the proof: a recursive function is defined where its
recursion stays in its domain, and thirteen, which no day reaches, is in it now.

### The other modules

* `ServerFilesProofs`, `AgentSettings`: `TypeCorrect`, `NoEditIsLost`, `StoreAgrees`,
  `ZoneWritesUsable`, `SurfaceStaysClosed`, from `SettingsAssumption`,
  `ProcessAssumption` and `UpdateAssumption`. The invariant `IInv` adds `Staged`
  (a copy about to be saved was made from what is still in force, and validated)
  and `StoredOrStaged` (between a write and its being told, the file is the copy
  about to be put in force). Two lemmas carry the steps: `Starting` for what a
  process does before it serves, `RequestKeeps` for what a request does to its
  slot, its process's copy and the file.
* `ServicesProofs`, `KeyGate` from `GateAssumption`: `GateTypes`; `KeysAreMetered` and `RefusedAtTheLimit`
  from one inductive `Accounts`, which for every server, key and past tick bounds the
  tokens left plus the requests let through since from above (a full bucket and the
  refill) and from below (what a clock-driven meter would have given), so that the
  first bound is one consequence and the second the other, and `RateIsKept` both; `KeysAlonePass` from
  `CallsKnown`, `ServersStartWithAKey` from `KeysKnown`; `ImplementsMeter`, that every
  step is a step of `Metering` or a stutter, from the arithmetic of filling up one
  tick later.
* `ServicesProofs`, `ClientSetup` from `SetupAssumption`: `SetupTypes`; `SettingsAreKept`, from
  `WhereItIs`: before the first copy what was written stays in the file, after it the
  copy has it, and what a calm window is about to write has it too.
* `ServerFilesProofs`, `PdfExport` from `PrintAssumption`: `PrintTypes`; `NothingIsLeft` from
  `Accounted` (whatever is there, a browser included, has a call that uses its name, or
  one that was loose with it); `OwnPageIsReturned` from `Own`: under a name that is
  not stale there is one call's page, one browser that loaded it, and in the PDF as
  many parts of it as that browser wrote; a settled size of a browser that was
  neither halted nor idle between two polls is all of them.

### Model-checked only

* `MarksReadBack` as to letters, `VerdictIsHistory`, `RoomIsKept` and `TracedWhileWhole` of documents with
  code or equations (without, they are proved), and `CodeUntouched`: they hold of the covers
  written down and not of every one, because a stray mark between the ticks of a fence
  changes what is protected (finding 6).
* `WriteBackKeeps` as to the letters' bits in text files with code or equations, for the same
  reason; the rest of it is proved (`TextsComeBack`, `ProseWritesBack`).
* `CallEnds`, `SearchEnds`: liveness, which is out of the prover's reach. What could
  stand still is the bisection of the capacity; the span search counts its rounds, and that
  they are enough is in `SpanStaysSmallest`.

## 5. Findings

1. A wrong passcode over `xor` or `caesar` returns bytes nobody wrote, with
   `integrity_valid` set: the CRC-32 is taken over the ciphertext (`seal`).
2. Of a stack with one damaged and one intact channel nothing is read while the
   damaged one still looks framed; only a channel swept away entirely is survived.
3. On covers beyond the frame's length field the reported capacity is refused.
4. A setting a caller was told of does not survive a save that is cut off, nor
   the save of another process that loaded the file earlier.
5. An agent that started before the server's first start saves a blank token over
   the generated one with its next edit; the server then refuses to start.

6. A mark placed before the ticks that open a fence leaves a line that is no fence
   to the next reader: what was protected as code is prose to every later call.

7. Under Conceal the gate holds the envelope against a quarter of the positions and not the
   frame around it: 576 of 620 positions are written, and a heavy frame may outgrow its cover.

Met while modelling, without a run:

* A server whose file changes between `prepare` and the opening of the store serves
  unjudged settings, and with a blank token answers 503 to everyone, a case
  `agent.rs:78` calls unreachable; a file that appears between `prepare`'s existence
  check and its load has its token replaced.
* Limits are per process: a restart, or a second server over the table, gives every
  key a full bucket again. A server that ends between storing and printing its
  bootstrap key leaves an active key nobody knows, and no later start makes another.
  A table whose keys are all revoked gets a new bootstrap key, although the comment
  speaks of a fresh database. A listing that fails counts as a table with keys.
* A client configuration that is no text is taken for blank and written over (the
  copy has it); a second set-up replaces the copy; what the client writes between
  copy and write is in neither. `mcp_setup.rs:6` says a client's own settings are never lost.
* A word all of lookalikes in a text of undetermined script is attributed to nobody,
  so a clean does not restore it and its hash differs: the premise `Decided`.
* Fingerprints are cut to the cover's whole bytes, so two recipients' copies may be
  one and the same; `identify_leak` then names the first of its list.
* `fingerprint.rs:4` says that the source of a leak is identified. A copy whose fingerprint
  replaces fewer than one in 200 of the letters that have a substitute, those in code counted, where
  nothing is replaced, is traced to nobody, untouched as it is. Hence the premise of `TracedWhileWhole`.
* A browser that pauses longer than the 100 ms between two polls, or ends in its
  writing, leaves a half-written PDF that is read and returned, though the comment of
  `wait_for_pdf` says that never happens. A process id that comes back meets the PDF
  its predecessor left. A page that cannot be written is left half there. Files a
  detached browser makes after the call cleared up stay. The wait for the browser's
  exit has no limit, and the server runs it under the lock every agent request needs.

* `transform.rs:27` says that stripping node by node equals stripping the whole
  document exactly. A mark that stands alone in a bold run, or that keeps a space from
  the end of its paragraph, changes the rendering when it goes, and with it the text a
  claim in the metadata was made over: a DOCX signed, then cleaned, is reported altered
  though nobody edited it. A mark pasted into a word of two scripts splits it, and the
  letter beyond it is judged by what is left: the hash strips it as a lookalike, or no longer.
  Hence the premise `Firm` of `ClaimTellsEdits`.
* A mark pasted among garbled characters keeps a run from being repaired: the text read has
  other letters, by which lookalikes once cleaned may be found again.
* An archive whose marks are all character references is returned as it was, with
  `altered` false and a count of removed marks above zero.
* Text garbled twice is repaired by one step at each read, so what is written back would
  not read the same and the write is refused by name; such a file is never cleaned.
  The same holds of a text whose first remaining character is U+FEFF, in UTF-8 without
  a mark of its byte order.
* Files are written in place, emptied first: a command cut off leaves half a document.
* The desktop's `file_clean` without a selection means every class, which a DOCX or ODT
  always refuses, for its lookalikes.

* The command line's Encode and the HTTP encode route hand a blank password to the core,
  which takes it for no cipher: the caller asked for one, and the secret is in the clear.
  The other surfaces refuse it by name.
* A file concealed from the command line under AES, XOR or Caesar is not read by the command
  line's Decode, which offers one cipher; the desktop and the agents read it.
* A secret protected under XOR or Caesar and then concealed under either with the same
  passcode is in the document as it was: who reveals it with any other passcode, told that it is
  intact, has it after a pass under the same one. Passcodes that begin alike are one to a text that ends before they differ.
* A `[FILE:` somebody typed takes the next attachment for its own, under a wrong name or not
  at all, and detaching removes what was typed in between. A name that holds `[/FILE]` ends
  its file too early: the file is not found and its bytes stay in the text that is left. The
  desktop says it refuses a name that would break the container (`main.rs:2487`), and looks
  for bars alone.
* The HTTP server answers bytes that are no text with the words "[binary: n bytes]" in the
  field of the text, where a caller cannot tell them from a secret that reads so.

* A synonym in mixed case (`bIG`) loses its case whenever its variant is chosen, and the text in
  which it does has another canonical form: a signature written into such a text does not read
  back, although `mark.rs:112` says it reads back exactly; nor does one whose text has such a
  word beyond the first sixteen, once a scrub turns it. Hence `Ordinary` in `SignatureStands`.
* `mark.rs:3` says that only group words change. A piece another carrier's character has split
  off a word may be one: "al|so" may be rewritten to "al|thus", and a clean then leaves "althus", a
  word of nobody's. Hence `parted` in `SignatureStands`.
* The surfaces say that `secret_bytes` is zero for a carrier the cover does not bound
  (`tools.rs:1059`, `server/main.rs:235`); `carrier_capacity` reports what its positions hold.
* A carrier whose alphabet the cover already holds is recommended by its positions and then
  refused: `recommend_framed` does not ask `check_writable`, as the capacity report does.
* The slider of Conceal goes to 60 %, and `mission_capacity` shows the bytes of that density,
  although the gate refuses past 25 %. Hence the densities of `ShownIsTaken`.
* A licence generated through the homoglyphs is printed as a success and never verifies where the
  paragraph offers letters for a byte more than the package takes: the letters left read back
  as zero bytes behind it (a comment on a test in `license.rs` knows). The agents' command reads
  back and refuses; the command line does not. Hence the homoglyphs' premise in `LicenceHolds`.
* A paragraph that ends in white space of its own is generated or signed as it is and verified
  trimmed: through a bounded carrier its licence never verifies at the command line. Hence
  `TrimEnd(deed.over) = deed.over` there.
* `check_expiry` compares texts, which its comment says works for ISO 8601. It does for times
  in UTC: an offset (`+02:00`) is compared as letters, and so never counted. A date without a
  time ends the night before it. Nothing checks the form when a licence is generated.
* `*.company.ch` admits any name that ends so, `mycompany.ch` too: `matches_domain` asks for no dot.
  `GrantIsTrue` therefore says of names that they end so, `LicenceHolds` that the domain's are admitted.
* A second `license keygen` writes over the first pair, and one that fails in the middle leaves
  halves of two pairs: what is generated then verifies nowhere. Hence `~torn`.
* A scrub is its own inverse: two heavy scrubs restore the signature the first destroyed.

## 6. Plan

The order is by how much of the system depends on the behaviour.

1. `StegoPipeline`, `FrameSizing`, `AgentSettings` and their proofs (done).
2. `KeyGate` with `Metering`, `ClientSetup`, `PdfExport` and their proofs (done).
3. `Carriers`, `MarkedDocument`, `DocumentFile`, `Exchange`, `WordMarks`: attribution, marking,
   signing, cleaning, tracing, the same in files, secrets handed between surfaces, the mark
   in the choice of words, and licences (done).
4. Theorems of what those modules' runs check, as far as the prover reaches (section 4; done).
5. `Registry`: the recipients' and marks' registries of the desktop application;
   `Channel`: handshake and notifications of the JSON-RPC transport.

## 7. Not modelled

The cipher and signature primitives, the compression algorithm, the tables, links and equations of
office files, the metadata of pictures, import or export between formats, the statistics of the analyser, C2PA parsing, the
detectors of public word marks and the embedded model, the user interface and the argument parsing of the surfaces: libraries, pure functions over
one text, format input and output, or wording. Detection scores
read the state and never change it. The largest files of the surfaces (the desktop
application, the agents' tools, the command line) and of import and export are mostly
of this kind, tests included, which is why the map covers a modest share of the lines.
