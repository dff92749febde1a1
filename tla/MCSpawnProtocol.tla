---------------------------- MODULE MCSpawnProtocol ----------------------------
(* SpawnProtocol for TLC *)
EXTENDS SpawnProtocol

\* A program that returned 0, one that returned a code with two different words,
\* and one that could not be started
MCAnswers == {[ok |-> TRUE, lo |-> 0, hi |-> 0], [ok |-> TRUE, lo |-> 1, hi |-> 2],
              [ok |-> FALSE, lo |-> 2, hi |-> 0]}
===============================================================================
