--------------------------- MODULE MCReplication ----------------------------
(* Instances of Replication for TLC: all clients log in as one user, so    *)
(* the limit on sessions per user is reached with three of them.           *)
EXTENDS Replication, TLC

CONSTANTS h1, h2, h3, u1

TwoHosts   == {h1, h2}
ThreeHosts == {h1, h2, h3}
OneUser    == [h \in Hosts |-> u1]

\* All clients of the instance are alike.
HostSymmetry == Permutations(Hosts)

=============================================================================
