------------------------- MODULE PassiveReplication -------------------------
(***************************************************************************)
(* What passive replication promises, without threads, numbers or packets: *)
(* the primary executes a client's request, each secondary executes it     *)
(* after the primary, and the client is accepted after all of them.        *)
(* Replication implements it when the handlers of the primary do not       *)
(* overlap and the buffer has a slot for every secondary.                  *)
(***************************************************************************)
CONSTANTS Hosts, Peers

VARIABLES
    executed,   \* clients whose request the primary has executed
    applied,    \* clients whose request each secondary has executed
    accepted    \* clients that were told so

vars == <<executed, applied, accepted>>

Init ==
    /\ executed = {}
    /\ applied = [p \in Peers |-> {}]
    /\ accepted = {}

Execute(h) ==
    /\ h \notin executed
    /\ executed' = executed \cup {h}
    /\ UNCHANGED <<applied, accepted>>

Replicate(h, p) ==
    /\ h \in executed
    /\ applied' = [applied EXCEPT ![p] = @ \cup {h}]
    /\ UNCHANGED <<executed, accepted>>

Accept(h) ==
    /\ \A p \in Peers : h \in applied[p]
    /\ accepted' = accepted \cup {h}
    /\ UNCHANGED <<executed, applied>>

Next ==
    \E h \in Hosts : Execute(h) \/ Accept(h) \/ \E p \in Peers : Replicate(h, p)

Spec == Init /\ [][Next]_vars

=============================================================================
