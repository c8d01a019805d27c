--------------------------- MODULE MCServerFiles ---------------------------
(***************************************************************************)
(* Small instances of two parts whose files outlive a process that may end *)
(* at any step: the settings, and the conversion to PDF that runs under    *)
(* their lock.  A behaviour is one of one of them; the other stands still. *)
(* The sets that are permuted are those of the settings, which the one     *)
(* with a liveness property never touches.                                 *)
(***************************************************************************)
EXTENDS MCAgentSettings, PdfExport

VARIABLE part

PartsInit ==
    /\ part \in {"settings", "print"}
    /\ Init /\ PrintInit
    /\ part = "print" => file = Absent

PartsNext ==
    \/ part = "settings" /\ Next /\ UNCHANGED <<part, printvars>>
    \/ part = "print" /\ PrintNext /\ UNCHANGED <<part, vars>>

PartsSpec == PartsInit /\ [][PartsNext]_<<part, vars, printvars>> /\ PrintFairness
=============================================================================
