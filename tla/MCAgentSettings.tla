-------------------------- MODULE MCAgentSettings --------------------------
(***************************************************************************)
(* A small instance of AgentSettings: callers' updates that touch the free *)
(* field, the two coupled fields alone and together, and that are refused; *)
(* files an operator may leave, usable and not.                            *)
(***************************************************************************)
EXTENDS AgentSettings, TLC

CONSTANTS en, fr, xx, own

MCUpdates ==
    {[language |-> fr],
     [reach |-> "beyond"], [reach |-> "beyond", open |-> TRUE],
     [open |-> FALSE], [token |-> own]}

MCHandWritten ==
    {Absent,
     [language |-> en, reach |-> "loopback", open |-> FALSE, token |-> own],
     [language |-> xx, reach |-> "beyond", open |-> TRUE, token |-> own]}

MCSymmetry == Permutations(Slots)
=============================================================================
