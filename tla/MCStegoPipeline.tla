------------------------ MODULE MCStegoPipeline ------------------------
(***************************************************************************)
(* Small instances of StegoPipeline for TLC: one carrier of each kind and  *)
(* one compose; beside it two carriers and two composes, so that channels  *)
(* may hold the work of two different calls.                               *)
(***************************************************************************)
EXTENDS StegoPipeline, TLC

CONSTANTS zw, ws, hg, s1, s2

MCRank == zw :> 1 @@ ws :> 2 @@ hg :> 3

\* One cover: whitespace has room for everything and saturates three times, the
\* zero-width carrier extends the document, the homoglyphs hold one light frame.
MCCovers == {zw :> 2 @@ ws :> 3 @@ hg :> 1}

MCCandidateSets == {{zw, ws, hg}, {ws, hg}}

MCSymmetry == Permutations(Secrets) \cup Permutations(Passcodes)

-----------------------------------------------------------------------------
(* Two carriers, on a cover with room for every frame under every mission. *)

SharedCover == zw :> 3 @@ hg :> 3

Shared == INSTANCE StegoPipeline WITH
    Secrets <- {s1, s2},
    Inserting <- {},
    Rank <- zw :> 1 @@ hg :> 2,
    Covers <- {SharedCover},
    CandidateSets <- {{zw, hg}, {zw}},
    CipherOffers <- {Keyed},
    Legacy <- {},
    Packages <- {},
    MaxComposes <- 2

SharedSymmetry == Permutations({s1, s2}) \cup Permutations(Passcodes)

OneOrSharedInit == Init \/ Shared!Init

OneOrSharedNext ==
    \/ cover # SharedCover /\ Next
    \/ cover = SharedCover /\ Shared!Next

OneOrShared == OneOrSharedInit /\ [][OneOrSharedNext]_vars
=============================================================================
