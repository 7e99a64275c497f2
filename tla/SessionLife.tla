------------------------------ MODULE SessionLife ------------------------------
(***************************************************************************)
(* What the rotation of refresh tokens promises about a session, the life  *)
(* of one login: it has a token that works, or its next one is being made, *)
(* or it is over, and then for good.  Module Sessions implements it.       *)
(***************************************************************************)
CONSTANT Session   \* sessions, named by their first token

VARIABLE phase   \* per login, where its session is in its life

Phase == {"new", "renewing", "open", "over"}

Successor(p) ==
  CASE p = "new"      -> {"renewing"}
    [] p = "renewing" -> {"open", "over"}
    [] p = "open"     -> {"renewing", "over"}
    [] p = "over"     -> {}

Init == phase = [l \in Session |-> "new"]

\* Many sessions may expire at once.
Next == /\ phase' \in [Session -> Phase]
        /\ \A l \in Session : phase'[l] \in {phase[l]} \cup Successor(phase[l])

Spec == Init /\ [][Next]_phase
=============================================================================
