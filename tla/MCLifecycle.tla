----------------------------- MODULE MCLifecycle -----------------------------
(***************************************************************************)
(* Two terminals, one of which only starts betterconn while the other only *)
(* stops it: the part of Lifecycle!Spec in which no command is killed and  *)
(* the machine is not rebooted.                                            *)
(***************************************************************************)
EXTENDS Lifecycle

CONSTANTS p1, p2

TwoTerminals == {p1, p2}

RaceSpec ==
    /\ Init
    /\ [][ /\ Working
           /\ cmd'[p1] \in {"none", "start"}
           /\ cmd'[p2] \in {"none", "stop", "clean"} ]_vars
=============================================================================
