---------------------------- MODULE MCLZMACompressor ----------------------------
(***************************************************************************)
(* A small instance of LZMACompressor: buffers of two units, so that they  *)
(* fill, empty and wrap within two streams of up to three.                 *)
(***************************************************************************)
EXTENDS LZMACompressor

CallSizesOneTwo == {1, 2}
ReadSizesTwo == {2}
=================================================================================
