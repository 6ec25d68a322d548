----------------------------- MODULE MCEventCtrl -----------------------------
(* Two events of different topics, two callbacks that may subscribe to both, *)
(* and a restart after stop.                                                 *)
EXTENDS EventCtrl

CONSTANTS e1, e2, p1, p2, s1, s2

MCEvents == {e1, e2}
MCTopics == {p1, p2}
MCSubs == {s1, s2}
MCName == [e \in MCEvents |-> IF e = e1 THEN p1 ELSE p2]
=============================================================================
