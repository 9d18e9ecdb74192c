----------------------------- MODULE MCProfiles -----------------------------
(* Instances of Profiles for TLC: CONNECTs of four users, of which one     *)
(* comes twice and one has a blank in its name, and FOLLOWs between two of *)
(* them, in one direction twice.                                           *)
EXTENDS Profiles

CONSTANTS ana, bia, caio, c1, c2, c3, c4, c5, f1, f2, f3

Twice ==
    [c \in Connects |->
        CASE c \in {c1, c4} -> Lone(ana)
          [] c = c2 -> Lone(bia)
          [] c = c3 -> Lone(caio)
          [] c = c5 -> <<<<caio>>, <<ana>>>>]

BothWays == [f \in Follows |-> IF f = f1 THEN Lone(ana) ELSE Lone(bia)]
BothWaysWhom == [f \in Follows |-> IF f = f1 THEN Lone(bia) ELSE Lone(ana)]

=============================================================================
