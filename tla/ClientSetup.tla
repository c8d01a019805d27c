----------------------------- MODULE ClientSetup -----------------------------
(***************************************************************************)
(* One click wires an assistant to the program: the desktop application    *)
(* merges its entry into the client's own JSON file, which the client and  *)
(* the user write to as they please.  The file is read, copied beside      *)
(* itself and written in place, each a step of its own, and any process    *)
(* may end between two.  Several windows may do it at once.                *)
(***************************************************************************)
EXTENDS Naturals

CONSTANTS
    Window,     \* desktop processes
    Own,        \* what else a client keeps in its file
    Command,    \* where the bundled server may be
    Nothing,    \* of it, nothing
    None,
    MaxSaves,   \* bound: writes of the client or the user
    MaxClicks   \* bound: configurations begun

\* A file that is not there, no text, no JSON object of the expected shape, or
\* blank; or one with the client's own settings and, perhaps, the entry.
Bare(shape) == [shape |-> shape, own |-> None, entry |-> None]
With(own, entry) == [shape |-> "settled", own |-> own, entry |-> entry]

Missing == Bare("missing")
Garbled == Bare("garbled")
Broken == Bare("broken")
Blank == Bare("blank")

Odd == {Missing, Garbled, Broken, Blank}
Settled == {With(own, entry) : own \in Own, entry \in Command \cup {None}}
Contents == Odd \cup Settled

ASSUME SetupAssumption ==
    /\ None \notin Command \cup Own
    /\ Nothing \in Own
    /\ MaxSaves \in Nat /\ MaxClicks \in Nat

VARIABLES
    file, backup,
    work,       \* of each window: how far it is, the text it will write
    latest,     \* history: what the client or the user wrote last
    copies,     \* history: backups taken since
    exposed,    \* history: it was written between a backup and a write
    calm,       \* history: since, no write was cut off and no read crossed one
    saves, clicks

setupvars == <<file, backup, work, latest, copies, exposed, calm, saves, clicks>>

Idle == [stage |-> "idle", text |-> Missing]

SetupInit ==
    /\ file \in Contents
    /\ backup = Missing
    /\ work = [w \in Window |-> Idle]
    /\ latest = file
    /\ copies = 0 /\ exposed = FALSE /\ calm = TRUE
    /\ saves = 0 /\ clicks = 0

-----------------------------------------------------------------------------
(* configure_client.                                                       *)

\* read_to_string(..).unwrap_or_default(): what cannot be read is blank.
TextOf(f) == IF f \in {Missing, Garbled} THEN Blank ELSE f

\* merge_mcp_servers: everything else is kept, the entry is put in.
Merged(text, command) ==
    IF text = Blank THEN With(Nothing, command) ELSE With(text.own, command)

\* A click on a client that is installed: the file is read and merged, unless
\* its text is refused or already holds the entry.
Click(w, command) ==
    LET text == TextOf(file) IN
    /\ work[w].stage = "idle"
    /\ clicks < MaxClicks /\ clicks' = clicks + 1
    /\ work' = [work EXCEPT ![w] =
                    IF text = Broken THEN Idle
                    ELSE IF Merged(text, command) = text THEN Idle
                    ELSE [stage |-> "merged", text |-> Merged(text, command)]]
    /\ calm' = (calm /\ \A v \in Window : work[v].stage # "open")
    /\ UNCHANGED <<file, backup, latest, copies, exposed, saves>>

\* Slip: only what could be parsed is copied.
SlipCopyOf(f) == IF f \in Odd THEN backup ELSE f

\* The copy is of the file as it is by then.
CopyOf(f) == f

BackUp(w) ==
    /\ work[w].stage = "merged"
    /\ IF file = Missing THEN UNCHANGED <<backup, copies>>
       ELSE backup' = CopyOf(file) /\ copies' = copies + 1
    /\ work' = [work EXCEPT ![w].stage = "saved"]
    /\ UNCHANGED <<file, latest, exposed, calm, saves, clicks>>

\* std::fs::write empties the file ..
Truncate(w) ==
    /\ work[w].stage = "saved"
    /\ file' = Blank
    /\ work' = [work EXCEPT ![w].stage = "open"]
    /\ UNCHANGED <<backup, latest, copies, exposed, calm, saves, clicks>>

\* .. and writes it.
Write(w) ==
    /\ work[w].stage = "open"
    /\ file' = work[w].text
    /\ work' = [work EXCEPT ![w] = Idle]
    /\ UNCHANGED <<backup, latest, copies, exposed, calm, saves, clicks>>

\* The window ends, the copy or the write fails: a write may leave half a file.
GiveUp(w) ==
    /\ work[w].stage # "idle"
    /\ work' = [work EXCEPT ![w] = Idle]
    /\ file' \in {file} \cup (IF work[w].stage = "open" THEN {Broken} ELSE {})
    /\ calm' = (calm /\ work[w].stage # "open")
    /\ UNCHANGED <<backup, latest, copies, exposed, saves, clicks>>

-----------------------------------------------------------------------------
(* The client and the user.                                                *)

Save(f) ==
    /\ saves < MaxSaves /\ saves' = saves + 1
    /\ file' = f /\ latest' = f
    /\ copies' = 0
    /\ exposed' = (\E w \in Window : work[w].stage \in {"saved", "open"})
    /\ calm' = (\A w \in Window : work[w].stage = "idle")
    /\ UNCHANGED <<backup, work, clicks>>

SetupNext ==
    \/ \E w \in Window :
        \/ \E command \in Command : Click(w, command)
        \/ BackUp(w) \/ Truncate(w) \/ Write(w) \/ GiveUp(w)
    \/ \E f \in Contents \ {Missing} : Save(f)

SetupSpec == SetupInit /\ [][SetupNext]_setupvars

-----------------------------------------------------------------------------
(* Properties.                                                             *)

SetupTypeOK ==
    /\ file \in Contents /\ backup \in Contents /\ latest \in Contents
    /\ work \in [Window -> [stage : {"idle", "merged", "saved", "open"}, text : Contents]]
    /\ \A w \in Window : work[w].stage # "idle" => work[w].text \in Settled
    /\ copies \in Nat /\ exposed \in BOOLEAN /\ calm \in BOOLEAN
    /\ saves \in 0..MaxSaves /\ clicks \in 0..MaxClicks

\* Whether a file still has what the client or the user had written.
Preserves(f, wrote) ==
    \/ f = wrote
    \/ wrote \in {Missing, Blank}
    \/ f \in Settled /\ wrote \in Settled /\ f.own = wrote.own

\* "backs the file up first, ... so a client's own settings are never lost".
\* What was in the file is in it still or in the copy beside it, through merges
\* of texts read earlier, crashes and half writes, until a second copy is taken
\* over the first (or unless it was written between a window's copy and its
\* write).  And however often windows that read a file they could parse merge
\* into it, side by side, it keeps what the client had there, as long as no write
\* is cut off and no read falls into one.
NothingLost ==
    /\ copies <= 1 /\ ~exposed => Preserves(file, latest) \/ Preserves(backup, latest)
    /\ calm /\ latest \in Settled =>
        \/ Preserves(file, latest)
        \/ \E w \in Window : work[w].stage = "open" /\ Preserves(work[w].text, latest)

=============================================================================
