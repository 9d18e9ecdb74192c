------------------------------ MODULE MCServer ------------------------------
(* Instances of Server for TLC.  `ana' and `caio' come from one socket,    *)
(* `bia' from several.                                                     *)
EXTENDS Server

CONSTANTS ana, bia, caio, a1, b1, b2, b3, c1

\* A request is named by its type, its socket and, for a second one, a number.
KindOf == [r \in Requests |-> r[1]]
HostOf == [r \in Requests |-> r[2]]
NameIn == [r \in Requests |->
              CASE r[1] = "follow" \/ r[2] = a1  -> ana
                [] r[1] # "follow" /\ r[2] = c1 -> caio
                [] OTHER                        -> bia]

Profile(handle, followers) == [handle |-> handle, followers |-> followers]

\* ana and bia follow each other.
BothFollow == <<Profile(ana, <<2>>), Profile(bia, <<1>>)>>
RaceRequests ==
    {"connect"} \X {a1, b1, b2, b3} \cup {"send"} \X {a1, b1} \cup {<<"disconnect", b1>>}
LeaveRequests ==
    {"connect"} \X {a1, b1} \cup {<<"send", a1>>, <<"disconnect", b1>>}

\* bia is new, and follows ana at the same time as caio.
Strangers == <<Profile(ana, <<>>), Profile(caio, <<>>)>>
JoinRequests ==
    {"connect"} \X {a1, b1, b2, c1} \cup {"follow"} \X {b1, c1}
    \cup {<<"send", a1>>, <<"info", c1>>}

\* What the theorems about the delivery assume of the clients.
ASSUME ClientsAssumption == ConnectsOnce /\ FollowsOnce

=============================================================================
