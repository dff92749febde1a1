----------------------------- MODULE MCHelperPipe -----------------------------
(* HelperPipe for TLC *)
EXTENDS HelperPipe
===============================================================================
