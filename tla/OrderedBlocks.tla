----------------------------- MODULE OrderedBlocks -----------------------------
(***************************************************************************)
(* What a block coder promises to its caller, however many threads it      *)
(* has: the blocks of the input leave it coded, each once and in their     *)
(* order, and the call says that all went well only when all of them have  *)
(* been written and nothing went wrong on the way.                         *)
(***************************************************************************)
EXTENDS Naturals, Sequences

CONSTANT Troubles   \* what may go wrong

VARIABLES
  busy,       \* a call is being made
  total,      \* blocks of its input
  out,        \* what has been written, block by block
  troubles,   \* what went wrong so far
  result      \* of the last call: "ok" or what it reported

vars == <<busy, total, out, troubles, result>>

Init == /\ busy = FALSE
        /\ total \in Nat
        /\ out = <<>>
        /\ troubles = {}
        /\ result = "ok"

Begin ==
  /\ ~busy /\ result = "ok"
  /\ busy' = TRUE
  /\ total' \in Nat \ {0}
  /\ out' = <<>>
  /\ troubles' = {}
  /\ UNCHANGED result

\* What is written after something went wrong is of no use to anyone.
Put ==
  /\ busy
  /\ \/ Len(out) < total /\ out' = Append(out, Len(out) + 1)
     \/ troubles # {} /\ \E b \in 1 .. total : out' = Append(out, b)
  /\ UNCHANGED <<busy, total, troubles, result>>

GoWrong ==
  /\ busy
  /\ \E e \in Troubles : troubles' = troubles \union {e}
  /\ UNCHANGED <<busy, total, out, result>>

Return ==
  /\ busy
  /\ busy' = FALSE
  /\ \/ result' = "ok" /\ troubles = {} /\ Len(out) = total /\ UNCHANGED troubles
     \/ \E e \in Troubles : result' = e /\ troubles' = troubles \union {e}
  /\ UNCHANGED <<total, out>>

Next == Begin \/ Put \/ GoWrong \/ Return

Spec == Init /\ [][Next]_vars
================================================================================
