-------------------------- MODULE MCMarkedDocument --------------------------
(***************************************************************************)
(* Small instances of MarkedDocument: bytes of two bits, covers with a     *)
(* code span, an equation, a joiner, in Latin, in Cyrillic and mixed.      *)
(***************************************************************************)
EXTENDS MarkedDocument, TLC

CONSTANTS alice, bot, r1, r2, r3

MCCovers ==
    {<<>>, <<"tick", "twin", "tick", "twin", "space", "latin", "twin">>,
     <<"dollar", "twin", "dollar", "joiner", "twin", "latin", "twin">>,
     <<"twin", "twin", "space", "twin", "latin", "twin">>,
     <<"cyrillic", "space", "alike">>,
     <<"twin", "twin", "space", "cyrillic", "latin">>}

\* A fenced block between two words.
FencedCovers ==
    {<<"latin", "newline", "tick", "tick", "tick", "newline", "twin", "newline",
       "tick", "tick", "tick", "newline", "twin">>}

MCPayloads == {<<1, 1>>}
FencedPayloads == {<<1, 1, 1, 1>>}
MCDigest ==
    LET chained(h) == h \o h \o h \o h
    IN  r1 :> chained(<<1, 0, 1, 1>>) @@ r2 :> chained(<<1, 0, 0, 1>>)
        @@ r3 :> chained(<<0, 1, 1, 0>>)
MCClaimBits == alice :> <<0, 1>> @@ bot :> <<1, 0>>

MCCleanSelections ==
    {{c} : c \in Carrier} \cup {Carrier, {"bidi", "homoglyph"}, {"zero_width", "homoglyph"}}
=============================================================================
