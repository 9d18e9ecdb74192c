------------------------------ MODULE Delivery ------------------------------
(***************************************************************************)
(* What the server promises for a post: the notification of each follower  *)
(* is pending until it was sent, reaches a socket at most once, and is     *)
(* given up only after it reached a socket or was disturbed.               *)
(***************************************************************************)
EXTENDS Sequences, Functions

CONSTANTS Notification, Sockets

VARIABLES
    pending,    \* notifications that the server still has
    sent,       \* notifications with the sockets they were sent to, in order
    done,       \* notifications that the server has finished with
    disturbed   \* notifications whose recipient's session changed meanwhile

vars == <<pending, sent, done, disturbed>>

Init == pending = {} /\ sent = <<>> /\ done = {} /\ disturbed = {}

Submit(n) ==
    /\ n \notin pending \cup done
    /\ pending' = pending \cup {n}
    /\ UNCHANGED <<sent, done, disturbed>>

Send(n, s) ==
    /\ n \in pending
    /\ [notif |-> n, socket |-> s] \notin Range(sent)
    /\ sent' = Append(sent, [notif |-> n, socket |-> s])
    /\ UNCHANGED <<pending, done, disturbed>>

Disturb(n) ==
    /\ n \in pending
    /\ disturbed' = disturbed \cup {n}
    /\ UNCHANGED <<pending, sent, done>>

Finish(n) ==
    /\ n \in pending
    /\ n \in disturbed \/ \E k \in DOMAIN sent : sent[k].notif = n
    /\ pending' = pending \ {n}
    /\ done' = done \cup {n}
    /\ UNCHANGED <<sent, disturbed>>

Next ==
    \E n \in Notification :
        Submit(n) \/ Disturb(n) \/ Finish(n) \/ \E s \in Sockets : Send(n, s)

Spec == Init /\ [][Next]_vars

=============================================================================
