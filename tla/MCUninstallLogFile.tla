------------------------ MODULE MCUninstallLogFile ------------------------
(* A small instance of UninstallLogFile: a two-unit buffer, a record of    *)
(* one unit and one of three (so records straddle blocks and blocks hold   *)
(* parts of two records), and room for five blocks, of which four are      *)
(* within EndOffset's range.                                               *)
EXTENDS UninstallLogFile

CONSTANTS a, b

MCRecSize == [r \in {a, b} |-> IF r = a THEN 1 ELSE 3]
MCLists == {<<a>>, <<b>>, <<a, b>>}
=============================================================================
