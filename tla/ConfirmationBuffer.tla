------------------------- MODULE ConfirmationBuffer -------------------------
(***************************************************************************)
(* The containers of ConfirmationBuffer<N>                                 *)
(* (source/client/confirmation-buffer.hpp): one broadcast packet, N slots, *)
(* each slot with the sequence number of its BaseMessage and a flag, and   *)
(* the client the packet came from (originalHost and originalSeqn).        *)
(***************************************************************************)
EXTENDS Naturals, Sequences, StdVector

CONSTANT N  \* template argument, 3 in ReplicaManager.hpp

ASSUME NAssumption == N \in Nat \ {0}

Slots == 0 .. N - 1

\* The container Push builds from N BaseMessages numbered from `first'.
NewContainer(first, origin) ==
    [seqn      |-> [i \in Slots |-> first + i],
     confirmed |-> [i \in Slots |-> FALSE],
     origin    |-> origin]

\* Seeded fault: the confirmation's number is one higher, as in the other Make
\* functions.
ConfirmSlotsShifted(container, sequenceNumber) ==
    [container EXCEPT !.confirmed =
        [i \in Slots |-> @[i] \/ container.seqn[i] + 1 = sequenceNumber]]

\* The inner loop of Confirm: every slot with that number is confirmed.
ConfirmSlots(container, sequenceNumber) ==
    [container EXCEPT !.confirmed =
        [i \in Slots |-> @[i] \/ container.seqn[i] = sequenceNumber]]

\* Seeded fault: the loop returns on the first slot that is confirmed.
ContainerConfirmedByAny(container) == \E i \in Slots : container.confirmed[i]

ContainerConfirmed(container) == \A i \in Slots : container.confirmed[i]

=============================================================================
