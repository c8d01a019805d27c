----------------------------- MODULE MCServices -----------------------------
(***************************************************************************)
(* Small instances of two parts that keep files and never meet: the door   *)
(* of the HTTP server and the setup of a client by the desktop             *)
(* application.  A behaviour is one of the first or one of the second; the *)
(* part it is not of stands still.                                         *)
(***************************************************************************)
EXTENDS KeyGate, ClientSetup, TLC

CONSTANTS k1, k2

MCLimit == k1 :> 1 @@ k2 :> 2

\* A table with a key somebody holds, and one whose keys are all revoked.
MCTables ==
    {k1 :> "active" @@ k2 :> "absent", k1 :> "revoked" @@ k2 :> "absent"}

MCSymmetry == Permutations(Server) \cup Permutations(Request) \cup Permutations(Window)

VARIABLE part

Init ==
    /\ part \in {"gate", "setup"}
    /\ GateInit /\ SetupInit
    /\ part = "gate" => file = Missing
    /\ part = "setup" => rows = [k \in Key |-> IF k = k1 THEN "active" ELSE "absent"]

Next ==
    \/ part = "gate" /\ GateNext /\ UNCHANGED <<part, setupvars>>
    \/ part = "setup" /\ SetupNext /\ UNCHANGED <<part, gatevars>>

vars == <<part, gatevars, setupvars>>

Spec == Init /\ [][Next]_vars
=============================================================================
