------------------------------- MODULE Licences -------------------------------
(***************************************************************************)
(* A licence: a paragraph that carries a claim, signed over the claim and  *)
(* over the paragraph.  It is generated by the command line or signed by   *)
(* the agents, goes from hand to hand as a text, and is verified against   *)
(* the public half of a pair, the clock, and the machine it is used on.    *)
(***************************************************************************)
EXTENDS Carriers

CONSTANTS
    LicenceCovers,  \* the paragraphs licences are made of
    OldLicences,    \* those of them licences of earlier versions were made of
    Retypes,        \* letters people type over others
    PackageBits,    \* the bits a claim and its signature are packed to
    Machine,
    MachineId,      \* of each machine, or NoMachineId where none can be read
    NoMachineId,
    HostNames,      \* names machines have, sequences of characters
    FirstNames,     \* the ones they have at first
    Terms,          \* what licences are generated for: [hardware, org, expires]
    Dates,          \* days since the first of January 1970 a behaviour begins on
    NoTerm, NoDeed, Unbound,
    MaxUses         \* bound: what anybody does, and the half days that pass

VARIABLES
    licence,    \* the paragraph as it travels
    deed,       \* what it was signed for, and by whom
    touched,    \* history: somebody edited it, or cleaned it of the carrier
    keyfile, pubfile,   \* the generations of the two files of the pair
    torn,       \* history: the last generation of a pair failed between the two
    date, half,     \* the clock
    hostname,   \* what each machine is called
    uses

licencevars == <<licence, deed, touched, keyfile, pubfile, torn,
                 date, half, hostname, uses>>

White == {"space", "newline"}

-----------------------------------------------------------------------------
(* The calendar.                                                           *)

\* Slip: every fourth year is a leap year.
SlipLeap(y) == y % 4 = 0

Leap(y) == (y % 4 = 0 /\ y % 100 # 0) \/ y % 400 = 0

MonthDays(y) == <<31, IF Leap(y) THEN 29 ELSE 28, 31, 30, 31, 30, 31, 31, 30, 31, 30, 31>>

YearDays(y) == IF Leap(y) THEN 366 ELSE 365

\* days_to_ymd, which format_timestamp repeats: year after year is taken off, then
\* month after month; no day is left for a thirteenth.
Civil(days) ==
    LET years[at \in Nat \X Nat] ==
            IF at[2] < YearDays(at[1]) THEN at ELSE years[<<at[1] + 1, at[2] - YearDays(at[1])>>]
        year == years[<<1970, days>>]
        months[at \in (1..13) \X Nat] ==
            IF at[1] = 13 \/ at[2] < MonthDays(year[1])[at[1]] THEN at
            ELSE months[<<at[1] + 1, at[2] - MonthDays(year[1])[at[1]]>>]
        month == months[<<1, year[2]>>]
    IN  <<year[1], month[1], month[2] + 1>>

\* format_timestamp; of the time of day, the half.
Timestamp == Append(Civil(date), half)

\* The dates a licence names: a day of the calendar, and a half of it or none.
IsDay(t) == t[1] \in Nat /\ t[2] \in 1..12 /\ t[3] \in 1..MonthDays(t[1])[t[2]]

IsExpiry(t) ==
    /\ t \in Seq(Nat) /\ Len(t) \in {3, 4} /\ IsDay(t)
    /\ Len(t) = 4 => t[4] \in {0, 1}

\* The paragraphs are somebody's, typed without marks; a package is whole bytes; and
\* where a machine has an identity, no other has it.
ASSUME LicenceAssumption ==
    /\ LicenceCovers \subseteq Seq(Symbols \ Marks) /\ OldLicences \subseteq LicenceCovers
    /\ Retypes \subseteq Letters
    /\ PackageBits \in Seq({0, 1})
    /\ Len(PackageBits) > 0 /\ Len(PackageBits) % ByteBits = 0
    /\ \A m, n \in Machine :
            MachineId[m] = MachineId[n] => m = n \/ MachineId[m] = NoMachineId
    /\ HostNames \subseteq Seq(STRING) /\ FirstNames \in [Machine -> HostNames]
    /\ Terms \subseteq [hardware : BOOLEAN,
                        org : {NoTerm} \cup [below : BOOLEAN, name : Seq(STRING)],
                        expires : {NoTerm} \cup Seq(Nat)]
    /\ \A asked \in Terms : asked.expires # NoTerm => IsExpiry(asked.expires)
    /\ Dates \subseteq Nat

\* s <= t as texts: in fields of fixed width, field by field.
AtMost(s, t) ==
    \/ IsPrefix(s, t)
    \/ \E i \in DOMAIN s \cap DOMAIN t :
        s[i] < t[i] /\ \A j \in 1..(i - 1) : s[j] = t[j]

-----------------------------------------------------------------------------
(* What a licence is bound to.                                             *)

\* machine_fingerprint
MachineFingerprint(m) == <<hostname[m], MachineId[m]>>

\* matches_domain
MatchesDomain(host, pattern) ==
    IF pattern.below THEN IsSuffix(pattern.name, host) ELSE host = pattern.name

CheckExpiry(terms) == terms.expires # NoTerm => AtMost(Timestamp, terms.expires)
CheckHardware(terms, m) == terms.hardware # NoTerm => MachineFingerprint(m) = terms.hardware
CheckOrg(terms, m) == terms.org # NoTerm => MatchesDomain(hostname[m], terms.org)

-----------------------------------------------------------------------------
(* Verification.                                                           *)

\* extract_and_verify: the package is whole, its signature the pair's, and the
\* text it is found in is, without marks, the one it was signed over.
ClaimVerified(d, c, pair, claim) ==
    /\ claim # NoDeed /\ claim.through = c
    /\ Decoded(c, d) = PackageBits
    /\ claim.by = pair
    /\ claim.hash # Unbound /\ StripAll(d) = claim.hash

\* text.trim_end(): no mark is white space.
TrimEnd(d) ==
    LET kept == {i \in DOMAIN d : d[i] \notin White}
    IN  SubSeq(d, 1, IF kept = {} THEN 0 ELSE Max(kept))

\* The command line's verify says so, and shows what the licence is for.
Valid(c) == ClaimVerified(TrimEnd(licence), c, pubfile, deed)

\* It asks of the machine what it is told to, and of the date always; with both,
\* it exits with success.
TermsHold(m, hardware, org) ==
    /\ hardware => CheckHardware(deed.terms, m)
    /\ org => CheckOrg(deed.terms, m)
    /\ CheckExpiry(deed.terms)

-----------------------------------------------------------------------------
(* Operations.                                                             *)

\* The claim LicenceBuilder builds and sign_and_embed binds to a paragraph.
Bound(c, cover, terms) ==
    [through |-> c, by |-> keyfile, hash |-> StripAll(cover), over |-> cover,
     terms |-> terms, on |-> NoTerm]

NoTerms == [hardware |-> NoTerm, org |-> NoTerm, expires |-> NoTerm]

\* At first nothing, or a paragraph signed before claims were bound to a document.
LicenceInit ==
    /\ keyfile = 0 /\ pubfile = 0
    /\ \/ licence = <<>> /\ deed = NoDeed
       \/ \E c \in Carrier, cover \in OldLicences :
            /\ Accepts(c, cover, PackageBits)
            /\ licence = Written(c, cover, PackageBits)
            /\ deed = [Bound(c, cover, NoTerms) EXCEPT !.hash = Unbound]
    /\ touched = FALSE
    /\ torn = FALSE
    /\ date \in Dates /\ half = 0
    /\ hostname = FirstNames
    /\ uses = 0

Used == uses < MaxUses /\ uses' = uses + 1

\* bound: a behaviour is that of one licence, which may take an old one's place.
Unlicensed == deed # NoDeed => deed.hash = Unbound

\* sign_and_embed: the capacity is asked before, and by the carrier again.
SignedAndEmbedded(c, cover, made, text) ==
    /\ Unlicensed
    /\ Accepts(c, cover, PackageBits)
    /\ licence' = text
    /\ deed' = made
    /\ touched' = FALSE
    /\ UNCHANGED <<keyfile, pubfile, torn, date, half, hostname>>

\* license generate, on some machine, prints the licence and a newline unread.
Generate(m, c, cover, asked) ==
    LET terms == [asked EXCEPT !.hardware = IF @ THEN MachineFingerprint(m) ELSE NoTerm]
    IN  /\ Used
        /\ SignedAndEmbedded(c, cover,
                [Bound(c, cover, terms) EXCEPT
                    !.on = IF asked.hardware THEN <<m, hostname[m]>> ELSE NoTerm],
                Append(Written(c, cover, PackageBits), "newline"))

\* authorship_sign hands over what it has read back, and binds to no machine.
AuthorshipSign(c, cover, asked) ==
    LET made == Bound(c, cover, [asked EXCEPT !.hardware = NoTerm])
        signed == Written(c, cover, PackageBits)
    IN  /\ Used
        /\ ClaimVerified(signed, c, keyfile, made)
        /\ SignedAndEmbedded(c, cover, made, signed)

\* license keygen: the private half is written, then the public one.
Keygen ==
    /\ Used
    /\ keyfile' = keyfile + 1 /\ pubfile' = keyfile + 1 /\ torn' = FALSE
    /\ UNCHANGED <<licence, deed, touched, date, half, hostname>>

\* It fails, or ends, between the two.
KeygenTorn ==
    /\ Used
    /\ keyfile' = keyfile + 1 /\ torn' = TRUE
    /\ UNCHANGED <<pubfile, licence, deed, touched, date, half, hostname>>

-----------------------------------------------------------------------------
(* What happens to a licence, and around it.                               *)

Elsewhere == UNCHANGED <<deed, keyfile, pubfile, torn, date, half, hostname>>

\* A pipe, a here-document or an editor adds white space at the end.
Framed(s) ==
    /\ Used
    /\ licence' = Append(licence, s)
    /\ UNCHANGED touched /\ Elsewhere

\* A shell takes the last newline away.
Unframed ==
    /\ Used
    /\ licence # <<>> /\ Last(licence) = "newline"
    /\ licence' = Front(licence)
    /\ UNCHANGED touched /\ Elsewhere

\* Somebody types another letter.
Retyped(i, letter) ==
    /\ Used
    /\ licence[i] \in Letters \ {letter}
    /\ licence' = [licence EXCEPT ![i] = letter]
    /\ touched' = TRUE
    /\ Elsewhere

\* Somebody cleans it of what one carrier places.
CarrierRemoved(c) ==
    /\ Used
    /\ licence' = Strip(c, licence)
    /\ touched' = (touched \/ (deed # NoDeed /\ deed.through = c))
    /\ Elsewhere

\* Half a day passes.
HalfDay ==
    /\ Used
    /\ half' = 1 - half /\ date' = date + half
    /\ UNCHANGED <<licence, deed, touched, keyfile, pubfile, torn, hostname>>

\* A machine is given another name.
Renamed(m, name) ==
    /\ Used
    /\ name # hostname[m] /\ hostname' = [hostname EXCEPT ![m] = name]
    /\ UNCHANGED <<licence, deed, touched, keyfile, pubfile, torn, date, half>>

LicenceNext ==
    \/ \E c \in Carrier, cover \in LicenceCovers, asked \in Terms :
        \/ \E m \in Machine : Generate(m, c, cover, asked)
        \/ AuthorshipSign(c, cover, asked)
    \/ Keygen \/ KeygenTorn
    \/ deed # NoDeed /\
        \/ \E s \in White : Framed(s)
        \/ Unframed
        \/ \E i \in DOMAIN licence, letter \in Retypes : Retyped(i, letter)
        \/ \E c \in Carrier : CarrierRemoved(c)
    \/ HalfDay
    \/ \E m \in Machine, name \in HostNames : Renamed(m, name)

LicenceSpec == LicenceInit /\ [][LicenceNext]_licencevars

-----------------------------------------------------------------------------
(* Properties.                                                             *)

\* What a reader sees of a text: no marks, and a letter for its lookalike.
Seen(d) ==
    LET shown == Free(d, Marks)
    IN  [i \in DOMAIN shown |-> IF shown[i] = "alike" THEN "twin" ELSE shown[i]]

SeenToEnd(d) == TrimEnd(Seen(d))

\* The days from the first of January 1970 to a date, by the Gregorian rule.
DayNumber(y, m, d) ==
    LET march == IF m <= 2 THEN y - 1 ELSE y
        months == (m + 9) % 12
    IN  365 * march + (march \div 4) - (march \div 100) + (march \div 400)
        + ((153 * months + 2) \div 5) + d - 719469

\* The time a licence ends has passed: the half day it names, or, where it names
\* a day and no time, the night before.
Lapsed(expires) ==
    LET day == DayNumber(expires[1], expires[2], expires[3])
    IN  IF Len(expires) = 3 THEN date >= day
        ELSE 2 * date + half > 2 * day + expires[4]

\* The machine the licence was generated on, under the name it had then; two
\* whose identity cannot be read are told apart by their names alone.
SameMachine(m) ==
    /\ hostname[m] = deed.on[2]
    /\ m = deed.on[1] \/ {MachineId[m], MachineId[deed.on[1]]} = {NoMachineId}

\* Whoever is granted a licence has one: its claim was signed by the pair of the
\* public half, the paragraph reads as it did, but for white space at the end,
\* the date it names by the calendar has not come, and the machine and the name
\* are the ones it was made for.
GrantIsTrue ==
    \A c \in Carrier : Valid(c) =>
        /\ deed.by = pubfile
        /\ SeenToEnd(licence) = SeenToEnd(deed.over)
        /\ \A m \in Machine, hardware, org \in BOOLEAN : TermsHold(m, hardware, org) =>
            /\ deed.terms.expires # NoTerm => ~Lapsed(deed.terms.expires)
            /\ hardware /\ deed.terms.hardware # NoTerm => SameMachine(m)
            /\ org /\ deed.terms.org # NoTerm => IsSuffix(deed.terms.org.name, hostname[m])

\* And who has one is granted it: however the licence was printed, piped and
\* pasted, it verifies until its date, as long as nobody touched it, and the pair
\* it was signed with is whole and the last.  Not so where the paragraph itself
\* ends in white space, which is trimmed with the rest, and through the
\* homoglyphs only where the paragraph offers no byte more than the claim takes.
LicenceHolds ==
    deed # NoDeed /\ deed.hash # Unbound /\ ~touched /\ Decided(deed.over)
    /\ TrimEnd(deed.over) = deed.over
    /\ (deed.through = "homoglyph" =>
            Cardinality(Places(deed.over)) \div ByteBits = Len(PackageBits) \div ByteBits)
    /\ deed.by = keyfile /\ ~torn
    /\ (deed.terms.expires # NoTerm => ~Lapsed(deed.terms.expires))
    => Valid(deed.through) /\ \A m \in Machine, hardware, org \in BOOLEAN :
        /\ hardware /\ deed.terms.hardware # NoTerm => SameMachine(m)
        /\ org /\ deed.terms.org # NoTerm =>
            \/ hostname[m] = deed.terms.org.name
            \/ deed.terms.org.below /\ IsSuffix(<<".">> \o deed.terms.org.name, hostname[m])
        => TermsHold(m, hardware, org)

\* Verification says what happened: it exits with success for those who hold a
\* licence, and for nobody else.
LicenceVerdict == GrantIsTrue /\ LicenceHolds

=============================================================================
