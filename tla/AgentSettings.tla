--------------------------- MODULE AgentSettings ---------------------------
(***************************************************************************)
(* One settings file and the processes that keep a copy of it: the REST    *)
(* server (stegano-server) and the agents on a channel (stegano-mcp).      *)
(* Each reads the file once, at its start, and from then on edits its own  *)
(* copy through the configuration zone, writing the whole of it through    *)
(* to the file before a caller is told.  Nothing locks the file: the mutex *)
(* of the server covers the requests of that one process.  The file is     *)
(* written in place, so it is empty for a while, and a process may end at  *)
(* any step.                                                               *)
(***************************************************************************)
EXTENDS Integers, FiniteSets

CONSTANTS
    Servers,        \* processes of stegano-server
    Agents,         \* processes of stegano-mcp
    Slots,          \* requests one process may have under way
    NoSlot,
    Languages,      \* interface languages anyone may write down
    Known,          \* KNOWN_LANGUAGES
    DefaultLanguage,
    Tokens,         \* bearer tokens
    Blank,          \* the empty token
    Absent, Empty, Garbled,   \* the file: missing, truncated, not parseable
    Updates,        \* what callers send to the zone
    HandWritten,    \* what an operator leaves in the file
    NoCaller,
    MaxStarts,      \* bound: starts of processes
    MaxRequests,    \* bound: requests that reach a handler
    MaxHands        \* bound: times the operator edits or deletes the file

Processes == Servers \cup Agents
Reaches == {"loopback", "beyond", "nowhere"}

\* The settings as far as anything here tells them apart: one free field, the
\* two coupled ones (bind_address and its deliberate flag), and the token.
Settings == [language : Languages, reach : Reaches,
             open : BOOLEAN, token : Tokens \cup {Blank}]

\* The fields the zone edits; anything else in an update is refused.
Editable == {"language", "reach", "open"}

Defaults == [language |-> DefaultLanguage, reach |-> "loopback",
             open |-> FALSE, token |-> Blank]

ASSUME SettingsAssumption ==
    /\ Known \subseteq Languages /\ DefaultLanguage \in Known
    /\ HandWritten \subseteq Settings \cup {Absent}
    /\ {Absent, Empty, Garbled} \cap Settings = {}
    /\ Absent \notin {Empty, Garbled}
    /\ MaxStarts \in Nat /\ MaxRequests \in Nat /\ MaxHands \in Nat

ASSUME ProcessAssumption ==
    /\ Servers \cap Agents = {}
    /\ NoCaller \notin Processes
    /\ NoSlot \notin Slots
    /\ Blank \notin Tokens

\* An update names some fields; one that is not editable has no value of use.
ASSUME UpdateAssumption ==
    \A u \in Updates :
        /\ "language" \in DOMAIN u => u["language"] \in Languages
        /\ "reach" \in DOMAIN u => u["reach"] \in Reaches
        /\ "open" \in DOMAIN u => u["open"] \in BOOLEAN

VARIABLES
    file,       \* Absent, Empty, Garbled or the settings it holds
    author,     \* whose caller the file was last written for; NoCaller when an
                \*   operator or a first start settled it
    pc,         \* where each process is
    mem,        \* each process's copy: SettingsStore::settings
    holder,     \* the request that holds the store's mutex
    slot,       \* the requests under way
    promise,    \* history: what each process loaded, and all it told since
    lasting,    \* history: what was last settled by hand or at a start, and
                \*   all that any caller was told since
    lastingIn,  \* history: the fields callers were told of in it
    starts, requests, hands

vars == <<file, author, pc, mem, holder, slot, promise, lasting, lastingIn,
          starts, requests, hands>>
history == <<promise, lasting, lastingIn>>
counters == <<starts, requests, hands>>

Stages == {"down", "created", "found", "generating", "writing", "judging",
           "reopening", "serving"}
Steps == {"free", "admitted", "writing", "written"}

NoUpdate == [none |-> TRUE]
Free == [step |-> "free", presented |-> Blank, update |-> NoUpdate,
         next |-> Defaults]

-----------------------------------------------------------------------------
(* The file.                                                               *)

Readable(f) == f \in Settings \cup {Absent}

\* Slip: a file is read field by field and the flag left to its default.
SlipLoaded(f) == IF f = Absent THEN Defaults ELSE [f EXCEPT !.open = FALSE]

\* What a load answers: the defaults when there is no file.
Loaded(f) == IF f = Absent THEN Defaults ELSE f

\* What a whole write leaves.  A file that is no longer empty was written by
\* another process since it was truncated here: what follows the end of the
\* shorter text may remain, and then nothing parses.
Outcomes(s) == IF file = Empty THEN {s} ELSE {s, Garbled}

\* Some process has truncated the file and not written it yet.
Saving(p) == pc[p] = "writing" \/ \E r \in Slots : slot[p][r].step = "writing"

\* No save is under way, nor one whose caller waits to be told.
Quiet == \A p \in Processes : pc[p] # "writing" /\ holder[p] = NoSlot

-----------------------------------------------------------------------------
(* An update of the zone.                                                  *)

\* with_update: the fields it names, over a copy of the others.
Updated(s, u) ==
    [language |-> IF "language" \in DOMAIN u THEN u["language"] ELSE s.language,
     reach    |-> IF "reach" \in DOMAIN u THEN u["reach"] ELSE s.reach,
     open     |-> IF "open" \in DOMAIN u THEN u["open"] ELSE s.open,
     token    |-> s.token]

\* validate: an address beyond loopback needs its flag in the same settings.
Usable(s) ==
    /\ s.language \in Known
    /\ s.reach # "nowhere"
    /\ s.reach = "beyond" => s.open

\* Slip: only what the update names is validated.
SlipAccepted(s, u) ==
    /\ DOMAIN u \subseteq Editable
    /\ "language" \in DOMAIN u => u["language"] \in Known
    /\ "reach" \in DOMAIN u => Usable(Updated(s, u))

\* Every field is one the zone edits, and the whole copy validates.
Accepted(s, u) == DOMAIN u \subseteq Editable /\ Usable(Updated(s, u))

\* Slip: a blank configured token matches a blank presented one.
SlipAdmits(p, presented) == presented = mem[p].token

\* bearer_middleware: without a configured token nobody is let in.
Admits(p, presented) == mem[p].token # Blank /\ presented = mem[p].token

\* Slip: the mutex is not held across a save.
SlipLockFree(p) == p \in Processes

LockFree(p) == holder[p] = NoSlot

-----------------------------------------------------------------------------
(* Starting.                                                               *)

Init ==
    /\ file \in HandWritten
    /\ author = NoCaller
    /\ pc = [p \in Processes |-> "down"]
    /\ mem = [p \in Processes |-> Defaults]
    /\ holder = [p \in Processes |-> NoSlot]
    /\ slot = [p \in Processes |-> [r \in Slots |-> Free]]
    /\ promise = [p \in Processes |-> Defaults]
    /\ lasting = Loaded(file)
    /\ lastingIn = {}
    /\ starts = 0 /\ requests = 0 /\ hands = 0

GoTo(p, stage) == pc' = [pc EXCEPT ![p] = stage]

\* prepare asks whether the file exists before it loads it.
Look(p) ==
    /\ p \in Servers
    /\ pc[p] = "down" /\ starts < MaxStarts
    /\ starts' = starts + 1
    /\ GoTo(p, IF file = Absent THEN "created" ELSE "found")
    /\ UNCHANGED <<file, author, mem, holder, slot, history, requests, hands>>

\* prepare loads it, and refuses to start on one it cannot read.
Load(p) ==
    /\ pc[p] \in {"created", "found"}
    /\ IF Readable(file)
       THEN /\ mem' = [mem EXCEPT ![p] = Loaded(file)]
            /\ GoTo(p, IF pc[p] = "created" THEN "generating" ELSE "judging")
       ELSE mem' = mem /\ GoTo(p, "down")
    /\ UNCHANGED <<file, author, holder, slot, history, counters>>

\* A first start: a token is generated, and its save truncates the file.
Generate(p) ==
    /\ pc[p] = "generating"
    /\ \E t \in Tokens : mem' = [mem EXCEPT ![p].token = t]
    /\ file' = Empty
    /\ GoTo(p, "writing")
    /\ UNCHANGED <<author, holder, slot, history, counters>>

\* That save ends: what the file holds is settled anew.
WriteToken(p) ==
    /\ pc[p] = "writing"
    /\ file' \in Outcomes(mem[p])
    /\ author' = NoCaller
    /\ lasting' = mem[p] /\ lastingIn' = {}
    /\ GoTo(p, "judging")
    /\ UNCHANGED <<mem, holder, slot, promise, counters>>

\* No token, or settings that do not validate: a refusal to start.
Judge(p) ==
    /\ pc[p] = "judging"
    /\ GoTo(p, IF mem[p].token # Blank /\ Usable(mem[p])
               THEN "reopening" ELSE "down")
    /\ UNCHANGED <<file, author, mem, holder, slot, history, counters>>

Serve(p) ==
    IF Readable(file)
    THEN /\ mem' = [mem EXCEPT ![p] = Loaded(file)]
         /\ promise' = [promise EXCEPT ![p] = Loaded(file)]
         /\ GoTo(p, "serving")
    ELSE GoTo(p, "down") /\ UNCHANGED <<mem, promise>>

\* main opens the store, which reads the file once more, unjudged.
Reopen(p) ==
    /\ pc[p] = "reopening"
    /\ Serve(p)
    /\ UNCHANGED <<file, author, holder, slot, lasting, lastingIn, counters>>

\* An agent opens the store and judges nothing.
StartAgent(p) ==
    /\ p \in Agents
    /\ pc[p] = "down" /\ starts < MaxStarts
    /\ starts' = starts + 1
    /\ Serve(p)
    /\ UNCHANGED <<file, author, holder, slot, lasting, lastingIn, requests, hands>>

-----------------------------------------------------------------------------
(* Requests of the zone.                                                   *)

SetSlot(p, r, value) == slot' = [slot EXCEPT ![p][r] = value]

\* A request gets past the middleware, which reads the token under the mutex
\* and lets go of it; an agent has no middleware and one request at a time.
Admit(p, r) ==
    /\ pc[p] = "serving" /\ slot[p][r].step = "free"
    /\ LockFree(p)
    /\ requests < MaxRequests
    /\ requests' = requests + 1
    /\ \E presented \in Tokens \cup {Blank}, u \in Updates :
        /\ IF p \in Servers THEN Admits(p, presented)
           ELSE presented = Blank /\ \A q \in Slots : slot[p][q].step = "free"
        /\ SetSlot(p, r, [step |-> "admitted", presented |-> presented,
                          update |-> u, next |-> Defaults])
    /\ UNCHANGED <<file, author, pc, mem, holder, history, starts, hands>>

\* The handler takes the mutex; an update that is not accepted, or a file that
\* cannot be opened, is refused with nothing touched.
Refuse(p, r) ==
    /\ slot[p][r].step = "admitted" /\ LockFree(p)
    /\ SetSlot(p, r, Free)
    /\ UNCHANGED <<file, author, pc, mem, holder, history, counters>>

\* An accepted update is staged as a copy, and the save truncates the file.
BeginSave(p, r) ==
    /\ slot[p][r].step = "admitted" /\ LockFree(p)
    /\ Accepted(mem[p], slot[p][r].update)
    /\ holder' = [holder EXCEPT ![p] = r]
    /\ file' = Empty
    /\ SetSlot(p, r, [slot[p][r] EXCEPT !.step = "writing",
                          !.next = Updated(mem[p], slot[p][r].update)])
    /\ UNCHANGED <<author, pc, mem, history, counters>>

WriteSave(p, r) ==
    /\ slot[p][r].step = "writing"
    /\ file' \in Outcomes(slot[p][r].next)
    /\ author' = p
    /\ SetSlot(p, r, [slot[p][r] EXCEPT !.step = "written"])
    /\ UNCHANGED <<pc, mem, holder, history, counters>>

\* The write fails: "(storage)" is refused, the copy in force stays, and the
\* file is what the part that was written made of it.
SaveFails(p, r) ==
    /\ slot[p][r].step = "writing"
    /\ file' \in {file, Garbled}
    /\ holder' = [holder EXCEPT ![p] = NoSlot]
    /\ SetSlot(p, r, Free)
    /\ UNCHANGED <<author, pc, mem, history, counters>>

\* The copy is put in force and the caller is told so.
Tell(p, r) ==
    /\ slot[p][r].step = "written"
    /\ mem' = [mem EXCEPT ![p] = slot[p][r].next]
    /\ promise' = [promise EXCEPT ![p] = Updated(@, slot[p][r].update)]
    /\ lasting' = Updated(lasting, slot[p][r].update)
    /\ lastingIn' = lastingIn \cup DOMAIN slot[p][r].update
    /\ holder' = [holder EXCEPT ![p] = NoSlot]
    /\ SetSlot(p, r, Free)
    /\ UNCHANGED <<file, author, pc, counters>>

-----------------------------------------------------------------------------
(* The surroundings.                                                       *)

\* A process ends, killed or because a save at its start failed: its copy, its
\* mutex and its requests are gone, and a write under way leaves part of itself.
End(p) ==
    /\ pc[p] # "down"
    /\ GoTo(p, "down")
    /\ file' \in IF Saving(p) THEN {file, Garbled} ELSE {file}
    /\ mem' = [mem EXCEPT ![p] = Defaults]
    /\ promise' = [promise EXCEPT ![p] = Defaults]
    /\ holder' = [holder EXCEPT ![p] = NoSlot]
    /\ slot' = [slot EXCEPT ![p] = [r \in Slots |-> Free]]
    /\ UNCHANGED <<author, lasting, lastingIn, counters>>

\* An operator edits or deletes the file, while no process is about to save it.
EditByHand ==
    /\ Quiet /\ hands < MaxHands
    /\ hands' = hands + 1
    /\ file' \in HandWritten
    /\ author' = NoCaller
    /\ lasting' = Loaded(file') /\ lastingIn' = {}
    /\ UNCHANGED <<pc, mem, holder, slot, promise, starts, requests>>

StartStep(p) ==
    \/ Look(p) \/ Load(p) \/ Generate(p) \/ WriteToken(p)
    \/ Judge(p) \/ Reopen(p) \/ StartAgent(p)

RequestStep(p, r) ==
    \/ Admit(p, r) \/ Refuse(p, r) \/ BeginSave(p, r)
    \/ WriteSave(p, r) \/ SaveFails(p, r) \/ Tell(p, r)

Next ==
    \/ \E p \in Processes : StartStep(p) \/ End(p)
    \/ \E p \in Processes, r \in Slots : RequestStep(p, r)
    \/ EditByHand

Spec == Init /\ [][Next]_vars

-----------------------------------------------------------------------------
(* Properties.                                                             *)

SlotRecord == [step : Steps, presented : Tokens \cup {Blank},
               update : Updates \cup {NoUpdate}, next : Settings]

Types ==
    /\ file \in Settings \cup {Absent, Empty, Garbled}
    /\ author \in Processes \cup {NoCaller}
    /\ pc \in [Processes -> Stages]
    /\ mem \in [Processes -> Settings]
    /\ holder \in [Processes -> Slots \cup {NoSlot}]
    /\ slot \in [Processes -> [Slots -> SlotRecord]]
    /\ promise \in [Processes -> Settings]
    /\ lasting \in Settings /\ lastingIn \subseteq Editable
    /\ starts \in 0..MaxStarts /\ requests \in 0..MaxRequests
    /\ hands \in 0..MaxHands

HeldBySaver ==
    \A p \in Processes, r \in Slots :
        /\ slot[p][r].step # "free" =>
            pc[p] = "serving" /\ slot[p][r].update \in Updates
        /\ holder[p] = r <=> slot[p][r].step \in {"writing", "written"}

\* Types, and who may be where: only a serving process has requests, and the
\* mutex is held exactly by the one that is saving.
TypeOK == Types /\ HeldBySaver

\* What a process has in force is what it loaded and every update it told a
\* caller of since, one over the other: no edit is lost to another request of
\* the same process, none that was refused remains (SettingsStore::apply).
EditsInForce ==
    \A p \in Processes : pc[p] = "serving" => mem[p] = promise[p]

\* A readable file that was last written for a caller of a process which is not
\* saving is what that process has in force, over restarts and over the failures
\* of other processes.
StoredIsInForce ==
    \A p \in Processes :
        /\ author = p /\ file \in Settings
        /\ pc[p] = "serving" /\ holder[p] = NoSlot
        => file = mem[p]

\* Whatever was written for a caller, a next start accepts but for the token:
\* no sequence of edits, each valid where it was made, and no copy started from
\* an unusable file, leaves settings that do not validate.
WrittenIsUsable ==
    author \in Processes /\ file \in Settings => Usable(file)

\* A request in the server's handlers presented the token the server holds at
\* this moment, and it is not a blank one, even on the surface of a server whose
\* file changed between its judgement and the opening of the store.
NoOpenSurface ==
    \A p \in Servers, r \in Slots :
        slot[p][r].step # "free" =>
            slot[p][r].presented = mem[p].token /\ mem[p].token # Blank

(* What the documentation says, and several processes or a failed write    *)
(* make of it.                                                             *)

\* "A caller is never told a setting took effect that would be gone at the next
\* start" (tools.rs:81): outside a save, the file loads and agrees with every
\* field that was told.
ToldSurvives ==
    Quiet =>
        \A f \in lastingIn : file \in Settings /\ file[f] = lasting[f]

\* The token is "never changed through" the configuration zone (settings.rs:14):
\* a readable file has the token that was generated or left by hand.
ZoneKeepsToken == Quiet /\ Readable(file) => Loaded(file).token = lasting.token

=============================================================================
