------------------------------ MODULE MCAdvice ------------------------------
(***************************************************************************)
(* Advice with the constants of the code, for TLC: pairs of candidates of  *)
(* every kind, around the lengths at which one mission gives way to the    *)
(* next.                                                                   *)
(***************************************************************************)
EXTENDS Advice, MCFrameSizing

\* Both orders of each kind, equal sizes included.
MCOffers ==
    {<<[kind |-> k, slots |-> m], [kind |-> l, slots |-> n]>> :
        k \in Kinds, l \in Kinds, m \in {150, 700}, n \in {700, 1200}}

MCWants == {1, 10, 20, 30, 50, 70, 130}
=============================================================================
