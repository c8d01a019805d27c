------------------------------- MODULE Advice -------------------------------
(***************************************************************************)
(* The settings stegano-core recommends for one secret and one cover       *)
(* (pipeline.rs recommend_framed, asked by the agent's and the desktop's   *)
(* recommend_settings), and what comes of taking them: the carrier that    *)
(* was recommended is measured and composed into as FrameSizing does it,   *)
(* under the mission that was recommended.                                 *)
(*                                                                         *)
(* The candidates differ in kind and in the slots the cover offers them.   *)
(* A carrier whose alphabet the cover already holds is not among them: it  *)
(* is recommended and refused alike whatever its size.                     *)
(***************************************************************************)
EXTENDS FrameSizing, Sequences, FiniteSetsExt

CONSTANTS
    Offers,     \* the lists of candidates, as the caller orders them
    Wants       \* the lengths of the secrets a caller has

ASSUME AdviceAssumption ==
    /\ Offers \subseteq Seq(Covers) \ {<<>>}
    /\ Wants \subseteq Nat \ {0}

\* A header records payloads longer than the frame's own parts.
ASSUME FieldAssumption ==
    /\ 2 * PreambleBits <= LengthField
    /\ 8 * HeaderPlain <= LengthField /\ 8 * HeaderSealed <= LengthField

VARIABLES
    offer,      \* the candidates of this question, <<>> where none is asked
    want,       \* the length of the secret
    advice,     \* what was recommended, or NoAdvice
    choice      \* what the caller went with: none, advised, stricter or shorter

askvars == <<offer, want, advice, choice>>

\* From the strictest to the most permissive, with the share of the positions
\* each may fill, in hundredths.
Missions == <<"conceal", "sign", "mark">>
Ceiling == <<25, 50, 85>>

NoAdvice == [best |-> 0, mission |-> 0, short |-> 0]

-----------------------------------------------------------------------------
(* recommend_framed.                                                       *)

\* The bytes a mission lets a load have on these positions.
Budget(c, m) == (Positions(c) * Ceiling[m]) \div 800

\* Slip: the carrier's frame is not asked.
SlipClears(c, m, len) == len <= Budget(c, m)

Clears(c, m, len) == len <= Room(c, order) /\ len <= Budget(c, m)

\* The number of the strictest mission the load clears on this candidate; one
\* past the last where it clears none.
Strictest(c, len) == Min({m \in 1..3 : Clears(c, m, len)} \cup {4})

\* Before another in the ranking: a stricter mission, then the lower fill, and
\* the caller's order where both agree.
Before(i, j, len) ==
    LET a == Strictest(offer[i], len)
        b == Strictest(offer[j], len)
        p == Positions(offer[i])
        q == Positions(offer[j])
    IN a < b \/ (a = b /\ (p > q \/ (p = q /\ i < j)))

First(len) ==
    CHOOSE i \in DOMAIN offer : \A j \in DOMAIN offer \ {i} : Before(i, j, len)

\* What a candidate holds at the most permissive mission.
Holds(i) == Min({Room(offer[i], order), Budget(offer[i], 3)})

MostHeld == Max({Holds(i) : i \in DOMAIN offer})

Recommend ==
    /\ phase = "asking" /\ advice = NoAdvice
    /\ LET len == EnvelopeLen(order.seal, want)
           i == First(len)
       IN advice' = IF Strictest(offer[i], len) < 4
                    THEN [best |-> i, mission |-> Strictest(offer[i], len), short |-> 0]
                    ELSE [best |-> 0, mission |-> 0, short |-> len - MostHeld]
    /\ UNCHANGED <<vars, offer, want, choice>>

-----------------------------------------------------------------------------
(* What a caller does with it.                                             *)

\* The candidate is taken up under a mission: the cover is measured for it.
TakeUp(i, conceal, how) ==
    /\ phase = "asking" /\ advice # NoAdvice
    /\ cover' = offer[i]
    /\ order' = [order EXCEPT !.conceal = conceal]
    /\ phase' = "probing"
    /\ low' = 0 /\ high' = Room(offer[i], order)
    /\ choice' = how
    /\ UNCHANGED <<secret, span, rounds, written, offer, want, advice>>

TakeAdvice ==
    /\ advice.best # 0
    /\ TakeUp(advice.best, advice.mission = 1, "advised")

\* The advice is left aside for a stricter mission.
InsistOnConceal(i) ==
    /\ advice.mission # 1
    /\ TakeUp(i, TRUE, "stricter")

\* The longest secret whose envelope is shorter by what was missing.
Remaining ==
    Max({n \in 0..want : EnvelopeLen(order.seal, n)
                            <= EnvelopeLen(order.seal, want) - advice.short} \cup {0})

\* The secret is cut by as much as the cover is said to fall short.
CutShort(i) ==
    /\ advice.short > 0
    /\ Holds(i) = MostHeld /\ Remaining > 0
    /\ TakeUp(i, FALSE, "shorter")

ComposeWanted ==
    /\ choice # "none"
    /\ Compose(IF choice = "shorter" THEN Remaining ELSE want)
    /\ UNCHANGED askvars

\* The range a caller may slide the density of a mission in, in hundredths.
Ranges == <<[least |-> 5, most |-> 60], [least |-> 10, most |-> 90], [least |-> 20, most |-> 100]>>

\* mission_capacity: the bytes shown for a mission at a density, on the narrowest
\* candidate.
Shown(m, density) ==
    Min({(Positions(offer[i]) * Clamp(density, Ranges[m].least, Ranges[m].most)) \div 800 :
            i \in DOMAIN offer})

-----------------------------------------------------------------------------
(* A caller who asks for no advice goes through FrameSizing alone.         *)

AdviceInit ==
    /\ advice = NoAdvice /\ choice = "none"
    /\ \/ Init /\ offer = <<>> /\ want = 0
       \/ /\ offer \in Offers /\ want \in Wants
          /\ cover = offer[1]
          /\ order \in {o \in Orders : o.mode # "saturated" /\ ~o.conceal}
          /\ phase = "asking"
          /\ low = 0 /\ high = 0
          /\ secret = 0 /\ span = 0 /\ rounds = 0 /\ written = 0

AdviceNext ==
    \/ Internal /\ UNCHANGED askvars
    \/ Again /\ UNCHANGED askvars
    \/ offer = <<>> /\ (\E d \in Around : Compose(low + d)) /\ UNCHANGED askvars
    \/ Recommend
    \/ TakeAdvice
    \/ \E i \in DOMAIN offer : InsistOnConceal(i) \/ CutShort(i)
    \/ ComposeWanted

AdviceSpec ==
    AdviceInit /\ [][AdviceNext]_<<vars, askvars>>
               /\ WF_<<vars, askvars>>(Internal /\ UNCHANGED askvars)

-----------------------------------------------------------------------------
(* Properties.                                                             *)

\* "The recommendation can be applied as is" (tools.rs:175): the carrier and the
\* mission that were recommended take the secret, whatever the cipher and the
\* frame; and where a shortfall was named instead, a secret whose envelope is
\* shorter by that much is taken (pipeline.rs recommend_framed).
AdviceIsKept ==
    Settled /\ 8 * Envelope <= LengthField =>
        /\ choice = "advised" => phase = "placed"
        /\ choice = "shorter" => phase = "placed"

\* The advice is the most discreet there is: no candidate the cover bounds takes
\* the secret under Conceal when another mission, or none, was recommended
\* (pipeline.rs recommend_framed, MISSIONS_STRICTEST_FIRST).
NoneMoreDiscreet ==
    choice = "stricter" /\ Bounded(cover) => phase # "placed"

\* The bytes shown for Conceal at any density up to the recommended one are bytes
\* its gate lets through, on every candidate with room for them
\* (mission_capacity; encode_for_mission_framed).
ShownIsTaken ==
    Settled /\ choice = "stricter" /\ (Bounded(cover) => Envelope <= Room(cover, order)) =>
        \A density \in {1, 10, 25} : Envelope <= Shown(1, density) => phase = "placed"

\* What is recommended holds, nothing better was passed over, and the figure shown
\* beside it is the one the gate applies.
AdviceIsBest == AdviceIsKept /\ NoneMoreDiscreet /\ ShownIsTaken
=============================================================================
