------------------------------ MODULE MCClient ------------------------------
(* Instances of Client for TLC: n1, n2 and n3 are notifications numbered   *)
(* 1, 2 and 2, as two threads of the server can number them.               *)
EXTENDS Client

CONSTANTS n1, n2, n3, acc, rej, inf

PacketType ==
    [p \in Packets |-> CASE p = acc -> "accept" [] p = rej -> "reject"
                         [] p = inf -> "info" [] OTHER -> "notification"]
PacketSeqn ==
    [p \in Packets |-> CASE p = n1 -> 1 [] p \in {n2, n3} -> 2 [] OTHER -> 0]

=============================================================================
