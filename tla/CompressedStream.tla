---------------------------- MODULE CompressedStream ----------------------------
(***************************************************************************)
(* What a compressor promises its caller, TCompressionHandler: the data    *)
(* given to Compress since the stream began reaches WriteProc, in          *)
(* compressed form, complete and in order, by the time Finish returns; no  *)
(* call on a compressor that raised ever writes again.                     *)
(*                                                                         *)
(* A unit of data is named by its position in the stream; unit i of the    *)
(* output stands for the compressed form of unit i of the input, and       *)
(* EndMark for what the encoder writes after the last one.                 *)
(***************************************************************************)
EXTENDS Naturals, Sequences

CONSTANT EndMark

VARIABLES
  phase,     \* "ready" between calls, "compressing" or "finishing" inside one
  accepted,  \* units given to Compress in the current stream
  written    \* what WriteProc has received of the current stream

sVars == <<phase, accepted, written>>

\* The whole output of a stream of n units.
Whole(n) == [i \in 1..n |-> i] \o <<EndMark>>

IsPartOf(s, whole) == Len(s) <= Len(whole) /\ s = SubSeq(whole, 1, Len(s))

Init == phase = "ready" /\ accepted = 0 /\ written = <<>>

Compress == /\ phase = "ready"
            /\ phase' = "compressing"
            /\ accepted' > accepted
            /\ UNCHANGED written

Finish == phase = "ready" /\ phase' = "finishing" /\ UNCHANGED <<accepted, written>>

\* Output may appear during any call, not only during the one that supplied it.
Emit == /\ phase \in {"compressing", "finishing"}
        /\ IsPartOf(written', Whole(accepted))
        /\ Len(written') > Len(written)
        /\ UNCHANGED <<phase, accepted>>

Compressed == phase = "compressing" /\ phase' = "ready" /\ UNCHANGED <<accepted, written>>

Finished == /\ phase = "finishing"
            /\ written = Whole(accepted)
            /\ phase' = "ready" /\ accepted' = 0 /\ written' = <<>>

Raise == /\ phase \in {"compressing", "finishing"} /\ phase' = "closed"
         /\ UNCHANGED <<accepted, written>>

Free == phase = "ready" /\ phase' = "closed" /\ UNCHANGED <<accepted, written>>

Next == Compress \/ Finish \/ Emit \/ Compressed \/ Finished \/ Raise \/ Free

Spec == Init /\ [][Next]_sVars
=================================================================================
