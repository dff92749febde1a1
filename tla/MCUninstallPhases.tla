--------------------------- MODULE MCUninstallPhases ---------------------------
(***************************************************************************)
(* Two runs of UninstallPhases, of one application or of two, with and     *)
(* without an initial process: all of these are initial states.            *)
(***************************************************************************)
EXTENDS UninstallPhases

CONSTANTS a, b

OneApp  == [r \in Runs |-> a]
TwoApps == {p \in [Runs -> {a, b}] : Cardinality({p[r] : r \in Runs}) = 2}
SameOrOther == {OneApp, CHOOSE p \in TwoApps : TRUE}
================================================================================
