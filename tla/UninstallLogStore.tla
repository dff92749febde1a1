------------------------- MODULE UninstallLogStore -------------------------
(***************************************************************************)
(* What the uninstall log file promises, without blocks in flight, caches  *)
(* or crashes: its readable content changes in one step, by an             *)
(* installation being added at the end.                                    *)
(***************************************************************************)
EXTENDS Integers

CONSTANTS NonSticky, NoFile, Unreadable

VARIABLE store

Entry(e) == e.kind = "log"

Init == store = NoFile

\* The file name is reserved; there is nothing to read yet.
Reserve == store = NoFile /\ store' = Unreadable

\* The first Save becomes readable.
Publish == store = Unreadable /\ Entry(store')

\* A later one does: the old blocks, then more.
Extends(old, new) ==
  /\ new.hdr.app = old.hdr.app
  /\ old.hdr.flags \ NonSticky \subseteq new.hdr.flags
  /\ old.hdr.num <= new.hdr.num
  /\ old.hdr.end <= new.hdr.end
  /\ \A i \in 1..old.hdr.end : new.blks[i] = old.blks[i]

Extend == Entry(store) /\ Entry(store') /\ Extends(store, store')

\* An overwriting Save begins again from nothing.
StartOver == Entry(store) /\ store' = Unreadable

\* The file is deleted: uninstalled, or rolled back.
Remove == store' = NoFile

Next == Reserve \/ Publish \/ Extend \/ StartOver \/ Remove

Spec == Init /\ [][Next]_store
=============================================================================
