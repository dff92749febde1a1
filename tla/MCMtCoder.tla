------------------------------- MODULE MCMtCoder -------------------------------
(***************************************************************************)
(* Small instances of MtCoder: as many blocks in the ring as the code      *)
(* takes for so few threads, and streams that go round the ring.           *)
(***************************************************************************)
EXTENDS MtCoder
================================================================================
