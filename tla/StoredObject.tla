---------------------------- MODULE StoredObject ----------------------------
(***************************************************************************)
(* What the library promises about everything it keeps in the object      *)
(* storage, seen one object at a time: the file comes before the row that  *)
(* owns it, both are gone for good once removed, and an object whose row   *)
(* lost its file keeps losing.  Module Library implements it.              *)
(***************************************************************************)
CONSTANT Object   \* ids of documents and of sources that have a file

VARIABLE phase    \* per object, where it is in its life

\* "new": no file yet; "offered": a file no row owns yet; "kept": a row and its file;
\* "broken": a row without its file; "left": the file of a removed row; "gone": neither.
Phase == {"new", "offered", "kept", "broken", "left", "gone"}

Successor(p) ==
  CASE p = "new"     -> {"offered", "gone"}
    [] p = "offered" -> {"kept", "gone"}
    [] p = "kept"    -> {"left", "broken"}
    [] p = "broken"  -> {"gone"}
    [] p = "left"    -> {"gone"}
    [] p = "gone"    -> {}

Init == phase = [o \in Object |-> "new"]

\* One transaction may remove the rows of many objects.
Next == phase' \in [Object -> Phase] /\ \A o \in Object : phase'[o] \in {phase[o]} \cup Successor(phase[o])

Spec == Init /\ [][Next]_phase
=============================================================================
