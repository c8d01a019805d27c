------------------------------ MODULE PdfExport ------------------------------
(***************************************************************************)
(* Conversion to PDF.  A page is written to a temporary file, an installed *)
(* browser is made to print it to another, and the result is polled for,   *)
(* because the process that prints is detached and outlives the one that   *)
(* was started.  The names of the files are a process id and a count; a    *)
(* process may end anywhere, and its id comes back.  The command line and  *)
(* the agents convert one document at a time, the server under the lock of *)
(* its settings: a process has one conversion.                             *)
(***************************************************************************)
EXTENDS Integers

CONSTANTS
    Process,    \* process ids
    NoFile,     \* no page, in particular one a browser cannot open
    TornFile,   \* what is left of one that could not be written
    Parts,      \* writes a browser makes of a PDF
    Timeout,    \* polls in PDF_WAIT_TIMEOUT
    MaxRuns,    \* bound: processes there have been
    MaxPrints   \* bound: conversions

\* The pages to print; those of different conversions are told apart.
Page == 1..MaxPrints

ASSUME PrintAssumption ==
    /\ NoFile \notin Nat /\ TornFile \notin Nat /\ NoFile # TornFile
    /\ Parts \in Nat \ {0} /\ Timeout \in Nat \ {0}
    /\ MaxRuns \in Nat /\ MaxPrints \in Nat

VARIABLES
    count,      \* COUNTER of each process
    run,        \* history: how many processes had its id before it
    job,        \* the conversion of each process
    html, pdf,  \* of each name, the files ..
    dirs,       \* .. and the user-data directories, as the names that have one
    browsers,   \* detached browsers at work
    halted,     \* history: names whose browser ended or paused in its writing
    stale,      \* history: names an earlier process of their id left a PDF or a browser at
    loose,      \* history: names whose clearing was cut off, failed or came early
    prints

printvars == <<count, run, job, html, pdf, dirs, browsers, halted, stale, loose, prints>>

Token == Process \X (0..MaxPrints)

\* A PDF file: the pages its parts were printed from, and how many there are.
NoPdf == [pages |-> {}, parts |-> -1]

NoJob == [stage |-> "none", page |-> NoFile, token |-> <<>>,
          last |-> -1, polls |-> 0, got |-> NoPdf]

Running(t) == \E b \in browsers : b.token = t

PrintInit ==
    /\ count = [p \in Process |-> 0]
    /\ run = [p \in Process |-> 0]
    /\ job = [p \in Process |-> NoJob]
    /\ html = [t \in Token |-> NoFile]
    /\ pdf = [t \in Token |-> NoPdf]
    /\ dirs = {} /\ browsers = {} /\ halted = {} /\ stale = {} /\ loose = {}
    /\ prints = 0

-----------------------------------------------------------------------------
(* html_to_pdf, with the gates before it.                                  *)

\* Slip: the count is taken, and never raised.
SlipRaised(p) == count

Raised(p) == [count EXCEPT ![p] = @ + 1]

\* A document that is refused, or that no browser is there to print.
Decline(p) ==
    /\ job[p].stage = "none"
    /\ job' = [job EXCEPT ![p].stage = "told"]
    /\ UNCHANGED <<count, run, html, pdf, dirs, browsers, halted, stale, loose, prints>>

\* A conversion takes the names of its files.
Convert(p) ==
    /\ job[p].stage = "none"
    /\ prints < MaxPrints /\ prints' = prints + 1
    /\ job' = [job EXCEPT ![p] =
                  [NoJob EXCEPT !.stage = "named", !.page = prints', !.token = <<p, count[p]>>]]
    /\ count' = Raised(p)
    /\ UNCHANGED <<run, html, pdf, dirs, browsers, halted, stale, loose>>

\* The page is written, or the call ends with what there is of it.
WriteHtml(p) ==
    LET t == job[p].token IN
    /\ job[p].stage = "named"
    /\ \/ /\ html' = [html EXCEPT ![t] = job[p].page]
          /\ job' = [job EXCEPT ![p].stage = "written"]
          /\ UNCHANGED loose
       \/ /\ html' \in {html, [html EXCEPT ![t] = TornFile]}
          /\ job' = [job EXCEPT ![p].stage = "told"]
          /\ loose' = loose \cup {t}
    /\ UNCHANGED <<count, run, pdf, dirs, browsers, halted, stale, prints>>

\* The directory is made, if it can be, and the browser started, if it can be;
\* the process that prints is another one.
Launch(p) ==
    LET t == job[p].token IN
    /\ job[p].stage = "written"
    /\ dirs' \in {dirs, dirs \cup {t}}
    /\ \/ /\ browsers' = browsers \cup
                {[token |-> t, run |-> run[p], stage |-> "started", page |-> NoFile,
                  done |-> 0, linked |-> FALSE, due |-> FALSE]}
          /\ job' = [job EXCEPT ![p].stage = "running"]
       \/ /\ job' = [job EXCEPT ![p].stage = "clear"]
          /\ UNCHANGED browsers
    /\ UNCHANGED <<count, run, html, pdf, halted, stale, loose, prints>>

\* Slip: a browser that failed is an error to return at once.
SlipBrowserExits(p) ==
    /\ job[p].stage = "running"
    /\ job' \in {[job EXCEPT ![p].stage = stage] : stage \in {"waiting", "told"}}
    /\ UNCHANGED <<count, run, html, pdf, dirs, browsers, halted, stale, loose, prints>>

\* The process that was started exits, with success or not, whatever the one
\* that prints is doing.
BrowserExits(p) ==
    /\ job[p].stage = "running"
    /\ job' \in {[job EXCEPT ![p].stage = stage] : stage \in {"waiting", "clear"}}
    /\ UNCHANGED <<count, run, html, pdf, dirs, browsers, halted, stale, loose, prints>>

Steady(p, len) == len > 0 /\ len = job[p].last

\* Out of the loop.
Left(j) == [j EXCEPT !.stage = "clear", !.last = -1, !.polls = 0]

\* Slip: as long as a file is there the time begins anew.
SlipLater(j, there) ==
    IF there THEN [j EXCEPT !.polls = 0] ELSE IF j.polls >= Timeout THEN Left(j) ELSE j

\* The rest of a turn of the loop: time is up by the last poll ..
Later(j, there) == IF j.polls >= Timeout THEN Left(j) ELSE j

\* One look at the file.  (Time may be up before, when the thread was kept from
\* running.)
Poll(p) ==
    LET t == job[p].token
        len == pdf[t].parts
        seen == [job[p] EXCEPT !.polls = @ + 1, !.last = IF len >= 0 THEN len ELSE @]
        idle == {b \in browsers : b.token = t /\ b.stage = "writing" /\ b.due}
    IN
    /\ job[p].stage = "waiting"
    /\ job' \in IF Steady(p, len) THEN {[job EXCEPT ![p] = [seen EXCEPT !.stage = "reading"]]}
               ELSE {[job EXCEPT ![p] = j] : j \in {Later(seen, len >= 0), Left(seen)}}
    /\ browsers' = {IF b.token = t THEN [b EXCEPT !.due = TRUE] ELSE b : b \in browsers}
    /\ halted' = IF idle = {} THEN halted ELSE halted \cup {t}
    /\ UNCHANGED <<count, run, html, pdf, dirs, stale, loose, prints>>

\* The file is read, if it still can be.
Read(p) ==
    LET j == job[p]
        found == pdf[j.token]
        again == [j EXCEPT !.stage = "waiting"]
    IN
    /\ j.stage = "reading"
    /\ \/ found.parts > 0 /\ job' = [job EXCEPT ![p] = [Left(j) EXCEPT !.got = found]]
       \/ job' \in {[job EXCEPT ![p] = k] : k \in {Later(again, TRUE), Left(j)}}
    /\ UNCHANGED <<count, run, html, pdf, dirs, browsers, halted, stale, loose, prints>>

\* Removals whose errors are ignored: one may fail while a browser has the file.
Kept(t, gone, was) == {gone} \cup (IF Running(t) THEN {was} ELSE {})

\* The three removals, whatever the outcome, before the call returns.  A file
\* removed under a browser that writes it is out of reach with its name.
Clear(p) ==
    LET t == job[p].token IN
    /\ job[p].stage = "clear"
    /\ html' \in Kept(t, [html EXCEPT ![t] = NoFile], html)
    /\ pdf' \in Kept(t, [pdf EXCEPT ![t] = NoPdf], pdf)
    /\ dirs' \in Kept(t, dirs \ {t}, dirs)
    /\ browsers' = {IF b.token = t /\ pdf'[t] = NoPdf THEN [b EXCEPT !.linked = FALSE] ELSE b :
                        b \in browsers}
    /\ loose' = IF Running(t) THEN loose \cup {t} ELSE loose
    /\ job' = [job EXCEPT ![p].stage = "told"]
    /\ UNCHANGED <<count, run, halted, stale, prints>>

\* The caller has the PDF, or the named refusal.
Return(p) ==
    /\ job[p].stage = "told"
    /\ job' = [job EXCEPT ![p] = NoJob]
    /\ UNCHANGED <<count, run, html, pdf, dirs, browsers, halted, stale, loose, prints>>

-----------------------------------------------------------------------------
(* Browsers, and the end of a process.                                     *)

\* A detached browser opens the page there is at its address, and makes the
\* directory it was given ..
LoadPage(b) ==
    /\ b.stage = "started"
    /\ browsers' = (browsers \ {b}) \cup {[b EXCEPT !.stage = "loaded", !.page = html[b.token]]}
    /\ dirs' = dirs \cup {b.token}
    /\ UNCHANGED <<count, run, job, html, pdf, halted, stale, loose, prints>>

\* .. opens the PDF, empty, ..
OpenPdf(b) ==
    /\ b.stage = "loaded"
    /\ browsers' = (browsers \ {b}) \cup
            {[b EXCEPT !.stage = "writing", !.linked = TRUE, !.due = FALSE]}
    /\ pdf' = [pdf EXCEPT ![b.token] = [pages |-> {}, parts |-> 0]]
    /\ UNCHANGED <<count, run, job, html, dirs, halted, stale, loose, prints>>

\* .. and writes it part by part.
WritePart(b) ==
    LET was == pdf[b.token] IN
    /\ b.stage = "writing" /\ b.done < Parts
    /\ browsers' = (browsers \ {b}) \cup {[b EXCEPT !.done = @ + 1, !.due = FALSE]}
    /\ pdf' = IF b.linked
              THEN [pdf EXCEPT ![b.token] =
                        [pages |-> was.pages \cup {b.page},
                         parts |-> IF b.done < was.parts THEN was.parts ELSE b.done + 1]]
              ELSE pdf
    /\ UNCHANGED <<count, run, job, html, dirs, halted, stale, loose, prints>>

\* It ends, done or not.
Quit(b) ==
    /\ browsers' = browsers \ {b}
    /\ halted' = IF b.stage = "writing" /\ b.done < Parts THEN halted \cup {b.token} ELSE halted
    /\ UNCHANGED <<count, run, job, html, pdf, dirs, stale, loose, prints>>

\* A process ends, and another has its id.  Browsers live on.
Restart(p) ==
    /\ run[p] < MaxRuns
    /\ run' = [run EXCEPT ![p] = @ + 1]
    /\ count' = [count EXCEPT ![p] = 0]
    /\ job' = [job EXCEPT ![p] = NoJob]
    /\ loose' = IF job[p].token = <<>> \/ job[p].stage = "told" THEN loose
                ELSE loose \cup {job[p].token}
    /\ stale' = stale \cup {t \in Token : t[1] = p /\ (pdf[t] # NoPdf \/ Running(t))}
    /\ UNCHANGED <<html, pdf, dirs, browsers, halted, prints>>

\* What a call does on its own, once begun.
Advance(p) ==
    \/ WriteHtml(p) \/ Launch(p) \/ Poll(p) \/ Read(p)
    \/ Clear(p) \/ Return(p)

PrintNext ==
    \/ \E p \in Process :
        \/ Decline(p) \/ Convert(p) \/ Advance(p) \/ BrowserExits(p) \/ Restart(p)
    \/ \E b \in browsers : LoadPage(b) \/ OpenPdf(b) \/ WritePart(b) \/ Quit(b)

PrintFairness == \A p \in Process : WF_printvars(Advance(p))

PrintSpec == PrintInit /\ [][PrintNext]_printvars /\ PrintFairness

-----------------------------------------------------------------------------
(* Properties.                                                             *)

Pdf == [pages : SUBSET (Page \cup {NoFile, TornFile}), parts : -1..Parts]

Job == [stage : {"none", "named", "written", "running", "waiting", "reading",
                 "clear", "told"},
        page : Page \cup {NoFile}, token : Token \cup {<<>>},
        last : -1..Parts, polls : Nat, got : Pdf]

Browser == [token : Token, run : Nat, stage : {"started", "loaded", "writing"},
            page : Page \cup {NoFile, TornFile}, done : 0..Parts,
            linked : BOOLEAN, due : BOOLEAN]

PrintTypeOK ==
    /\ count \in [Process -> Nat] /\ run \in [Process -> 0..MaxRuns]
    /\ job \in [Process -> Job]
    /\ html \in [Token -> Page \cup {NoFile, TornFile}] /\ pdf \in [Token -> Pdf]
    /\ dirs \subseteq Token /\ halted \subseteq Token
    /\ stale \subseteq Token /\ loose \subseteq Token
    /\ browsers \subseteq Browser
    /\ prints \in 0..MaxPrints
    /\ \A p \in Process :
        /\ count[p] <= prints
        /\ job[p].token # <<>> => job[p].token[1] = p
        /\ job[p].stage = "none" => job[p] = NoJob
        /\ job[p].stage \notin {"none", "told"} => job[p].token # <<>> /\ job[p].page \in Page

\* "polls ... so a half-written file is never read", "derived from the process
\* id plus an atomic counter".  The bytes a caller gets were printed from its own
\* page and no other, although browsers of earlier calls may still be writing;
\* and they are all of it, unless the browser ended in its writing or paused
\* between two polls.  It takes names that nothing was left under by an earlier
\* process of the same id.
OwnPage ==
    \A p \in Process : LET j == job[p] IN
        j.token \notin stale /\ j.got # NoPdf =>
            /\ j.got.pages = {j.page}
            /\ j.got.parts = Parts \/ j.token \in halted

\* "The temporary HTML, the temporary PDF and the isolated user-data directory
\* are all removed before returning", whichever of the ways a call ends.  What is
\* left belongs to a call that still runs, was cut off, could not write its page,
\* or had cleared up when its browser was still at work.
NothingLeft ==
    \A t \in Token :
        html[t] # NoFile \/ pdf[t] # NoPdf \/ t \in dirs =>
            \/ t \in loose
            \/ \E p \in Process : job[p].token = t /\ job[p].stage # "told"

\* A call comes to its end, and gives back the lock it may be made under, as
\* long as every browser that was started exits: whatever is in the file, and
\* whoever is writing it.
CallEnds ==
    (\A p \in Process : []<>(job[p].stage # "running")) =>
        \A p \in Process : job[p].stage # "none" ~> job[p].stage = "none"

=============================================================================
