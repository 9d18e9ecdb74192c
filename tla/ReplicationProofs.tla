------------------------- MODULE ReplicationProofs --------------------------
(***************************************************************************)
(* Proofs about Replication, for any number of clients, secondaries and    *)
(* slots: type correctness, and what the callback guarantees for every     *)
(* interleaving of the threads of the primary.                             *)
(***************************************************************************)
EXTENDS Replication, VectorProofs

-----------------------------------------------------------------------------
(* Operators.                                                              *)

\* Push builds a container, and Confirm keeps it one.
LEMMA ContainerType ==
    /\ \A first \in Nat, h \in Hosts : NewContainer(first, h) \in Container
    /\ \A c \in Container, q \in Nat : ConfirmSlots(c, q) \in Container
<1>1. \A first \in Nat, h \in Hosts : NewContainer(first, h) \in Container
  BY NAssumption DEF NewContainer, Container, Slots
<1>2. ASSUME NEW c \in Container, NEW q \in Nat
      PROVE  ConfirmSlots(c, q) \in Container
  <2>1. [i \in Slots |-> c.confirmed[i] \/ c.seqn[i] = q] \in [Slots -> BOOLEAN]
    BY Zenon
  <2> QED BY <2>1 DEF ConfirmSlots, Container
<1> QED BY <1>1, <1>2

-----------------------------------------------------------------------------
(* Type correctness.                                                       *)

LEMMA InitType == Init => TypeOK
BY NAssumption, ReplicationAssumption
DEF Init, TypeOK, ConnThread, ConnPC, Datagram, DgState, WorkerPC

LEMMA NextType == TypeOK /\ [Next]_vars => TypeOK'
<1> SUFFICES ASSUME TypeOK, [Next]_vars PROVE TypeOK'
  OBVIOUS
<1> USE NAssumption, ReplicationAssumption
<1>s. sessions \in [Users -> Seq(Hosts)] /\ \A h \in Hosts : UserOf[h] \in Users
  BY DEF TypeOK
<1>c. conn \in [Hosts -> ConnThread]
  BY DEF TypeOK
<1>d. dg \in [Hosts \X Peers -> Datagram]
  BY DEF TypeOK
<1>n. lastSeqn \in Nat /\ Len(buffer) \in Nat
  BY LenProperties DEF TypeOK
<1>1. ASSUME NEW h \in Hosts, ConnectStartSession(h) PROVE TypeOK'
  <2>1. StartSession(sessions, UserOf[h], h) \in [Users -> Seq(Hosts)]
    BY <1>s, SessionType
  <2>2. SessionAvailable(sessions, UserOf[h]) \in BOOLEAN
    BY DEF SessionAvailable
  <2>3. [conn[h] EXCEPT !.pc = "read",
                        !.session = SessionAvailable(sessions, UserOf[h])]
            \in ConnThread
    BY <1>c, <2>2 DEF ConnThread, ConnPC
  <2> QED BY <1>1, <1>c, <2>1, <2>3 DEF ConnectStartSession, TypeOK
<1>2. ASSUME NEW h \in Hosts, ReadSeqn(h) PROVE TypeOK'
  <2>1. [conn[h] EXCEPT !.pc = "reread", !.base = lastSeqn] \in ConnThread
    BY <1>c, <1>n DEF ConnThread, ConnPC
  <2> QED BY <1>2, <1>c, <2>1 DEF ReadSeqn, TypeOK
<1>3. ASSUME NEW h \in Hosts, RereadSeqn(h) PROVE TypeOK'
  <2>1. [conn[h] EXCEPT !.pc = "load", !.temp = lastSeqn] \in ConnThread
    BY <1>c, <1>n DEF ConnThread, ConnPC
  <2> QED BY <1>3, <1>c, <2>1 DEF RereadSeqn, TypeOK
<1>4. ASSUME NEW h \in Hosts, LoadSeqn(h) PROVE TypeOK'
  <2>1. [conn[h] EXCEPT !.pc = "store", !.reg = lastSeqn] \in ConnThread
    BY <1>c, <1>n DEF ConnThread, ConnPC
  <2> QED BY <1>4, <1>c, <2>1 DEF LoadSeqn, TypeOK
<1>5. ASSUME NEW h \in Hosts, StoreSeqn(h) PROVE TypeOK'
  <2> DEFINE pc == IF conn[h].i + 1 < N THEN "load" ELSE "push"
             i == conn[h].i + 1
  <2>a. pc \in ConnPC /\ i \in Nat /\ conn[h] \in ConnThread
    BY <1>c DEF ConnThread, ConnPC
  <2> HIDE DEF pc, i
  <2>1. [conn[h] EXCEPT !.pc = pc, !.i = i] \in ConnThread
    BY <2>a DEF ConnThread
  <2>2. lastSeqn' \in Nat
    BY <1>5, <1>c DEF StoreSeqn, ConnThread
  <2> QED BY <1>5, <1>c, <2>1, <2>2 DEF StoreSeqn, TypeOK, pc, i
<1>6. ASSUME NEW h \in Hosts, BeginPush(h) PROVE TypeOK'
  <2> DEFINE slot == Len(buffer) + 1
  <2>a. slot \in Nat /\ conn[h] \in ConnThread
    BY <1>c, <1>n
  <2> HIDE DEF slot
  <2>1. [conn[h] EXCEPT !.pc = "pushing", !.slot = slot] \in ConnThread
    BY <2>a DEF ConnThread, ConnPC
  <2> QED BY <1>6, <1>c, <2>1 DEF BeginPush, TypeOK, slot
<1>7. ASSUME NEW h \in Hosts, EndPush(h) PROVE TypeOK'
  <2> DEFINE c == NewContainer(conn[h].base, h)
  <2>1. c \in Container
    BY <1>c, ContainerType DEF ConnThread
  <2> HIDE DEF c
  <2>2. /\ Append(buffer, c) \in Seq(Container)
        /\ [buffer EXCEPT ![conn[h].slot] = c] \in Seq(Container)
    BY <2>1, AppendProperties, AssignType DEF TypeOK
  <2>3. buffer' \in Seq(Container)
    BY <1>7, <2>2 DEF EndPush, c, TypeOK
  <2>4. up' \in BOOLEAN
    BY <1>7, Zenon DEF EndPush
  <2>5. [conn[h] EXCEPT !.pc = "send"] \in ConnThread
    BY <1>c DEF ConnThread, ConnPC
  <2> QED BY <1>7, <1>c, <2>3, <2>4, <2>5 DEF EndPush, TypeOK
<1>8. ASSUME NEW h \in Hosts, SendToPeers(h) PROVE TypeOK'
  <2>1. [conn[h] EXCEPT !.pc = "done", !.temp = 0, !.i = 0, !.reg = 0, !.slot = 0]
            \in ConnThread
    BY <1>c DEF ConnThread, ConnPC
  <2>2. \A q \in Peers : conn[h].temp + q \in Nat
    BY <1>c DEF ConnThread, Peers
  <2>3. dg' \in [Hosts \X Peers -> Datagram]
    BY <1>8, <1>d, <2>2 DEF SendToPeers, Datagram, DgState
  <2> QED BY <1>8, <1>c, <2>1, <2>3 DEF SendToPeers, TypeOK
<1>9. ASSUME NEW h \in Hosts, Disconnect(h) PROVE TypeOK'
  <2>1. EndSession(sessions, UserOf[h], h) \in [Users -> Seq(Hosts)]
    BY <1>s, SessionType
  <2> QED BY <1>9, <2>1 DEF Disconnect, TypeOK
<1>10. ASSUME NEW h \in Hosts, NEW p \in Peers, SecondaryConnect(h, p)
       PROVE  TypeOK'
  <2>1. StartSession(replica[p], UserOf[h], Primary) \in [Users -> Seq({Primary})]
    BY SessionType DEF TypeOK
  <2>2. replica' \in [Peers -> [Users -> Seq({Primary})]]
    BY <1>10, <2>1 DEF SecondaryConnect, TypeOK
  <2>3. dg' \in [Hosts \X Peers -> Datagram]
    BY <1>10, <1>d DEF SecondaryConnect, Datagram, DgState
  <2>4. applied' \in [Peers -> SUBSET Hosts]
    BY <1>10 DEF SecondaryConnect, TypeOK
  <2> QED BY <1>10, <2>2, <2>3, <2>4 DEF SecondaryConnect, TypeOK
<1>11. ASSUME NEW h \in Hosts, NEW p \in Peers, BeginConfirm(h, p)
       PROVE  TypeOK'
  <2>1. dg' \in [Hosts \X Peers -> Datagram]
    <3> DEFINE d == dg[<<h, p>>]
    <3>1. d \in Datagram
      BY <1>d
    <3> HIDE DEF d
    <3>2. \A n \in Nat : [d EXCEPT !.st = "mark", !.i = 1, !.end = n] \in Datagram
      BY <3>1 DEF Datagram, DgState
    <3>3. [d EXCEPT !.st = "mark", !.i = 1, !.end = Len(buffer)] \in Datagram
      BY <1>n, <3>2, Zenon
    <3>4. Finished(d) \in Datagram
      BY <3>1 DEF Datagram, DgState, Finished
    <3> QED BY <1>11, <1>d, <3>3, <3>4 DEF BeginConfirm, d
  <2> QED BY <1>11, <2>1 DEF BeginConfirm, TypeOK
<1>12. ASSUME NEW h \in Hosts, NEW p \in Peers, MarkContainer(h, p)
       PROVE  TypeOK'
  <2> DEFINE d == dg[<<h, p>>]
             c == ConfirmSlots(buffer[d.i], d.seqn)
  <2>1. d.i \in 1 .. Len(buffer) => c \in Container
    BY <1>d, ContainerType, ElementOfSeq DEF TypeOK, Datagram
  <2>2. buffer' = [buffer EXCEPT ![d.i] = c]
    BY <1>12 DEF MarkContainer
  <2> HIDE DEF c
  <2>3. buffer' \in Seq(Container)
    BY <2>1, <2>2, AssignType DEF TypeOK
  <2>4. dg' \in [Hosts \X Peers -> Datagram]
    BY <1>12, <1>d DEF MarkContainer, Datagram, DgState
  <2> QED BY <1>12, <2>3, <2>4 DEF MarkContainer, TypeOK
<1>13. ASSUME NEW h \in Hosts, NEW p \in Peers, CheckContainer(h, p)
       PROVE  TypeOK'
  <2>1. dg' \in [Hosts \X Peers -> Datagram]
    <3> DEFINE d == dg[<<h, p>>]
    <3>1. d \in Datagram
      BY <1>d
    <3> HIDE DEF d
    <3>a. d.i + 1 \in Nat
      BY <3>1 DEF Datagram
    <3>b. \A n \in Nat : [d EXCEPT !.st = "mark", !.i = n] \in Datagram
      BY <3>1 DEF Datagram, DgState
    <3>2. [d EXCEPT !.st = "mark", !.i = d.i + 1] \in Datagram
      BY <3>a, <3>b, Zenon
    <3>3. Finished(d) \in Datagram
      BY <3>1 DEF Datagram, DgState, Finished
    <3> QED BY <1>13, <1>d, <3>2, <3>3 DEF CheckContainer, d
  <2>2. accepts' \in [Hosts -> Nat]
    <3>1. accepts \in [Hosts -> Nat]
      BY DEF TypeOK
    <3>2. ASSUME NEW o PROVE [accepts EXCEPT ![o] = accepts[o] + 1] \in [Hosts -> Nat]
      <4>1. CASE o \in Hosts
        <5>1. accepts[o] + 1 \in Nat
          BY <3>1, <4>1
        <5> QED BY <3>1, <5>1, Zenon
      <4>2. CASE o \notin Hosts
        BY <3>1, <4>2
      <4> QED BY <4>1, <4>2
    <3> QED BY <1>13, <3>1, <3>2 DEF CheckContainer
  <2> QED BY <1>13, <2>1, <2>2 DEF CheckContainer, TypeOK
<1>14. ASSUME NEW h \in Hosts, NEW p \in Peers, StaleConfirm(h, p)
       PROVE  TypeOK'
  <2>1. dg' \in [Hosts \X Peers -> Datagram]
    BY <1>14, <1>d DEF StaleConfirm, Datagram, DgState, Finished
  <2> QED BY <1>14, <2>1 DEF StaleConfirm, TypeOK
<1>15. ASSUME WorkerLoad PROVE TypeOK'
  BY <1>15 DEF WorkerLoad, TypeOK, WorkerPC
<1>16. ASSUME WorkerStore PROVE TypeOK'
  BY <1>16 DEF WorkerStore, TypeOK, WorkerPC
<1>17. ASSUME WorkerSend PROVE TypeOK'
  <2>1. notified' \in Seq(Nat)
    BY <1>17, AppendProperties DEF WorkerSend, TypeOK
  <2> QED BY <1>17, <2>1 DEF WorkerSend, TypeOK, WorkerPC
<1>18. ASSUME NEW h \in Hosts, NEW p \in Peers, Lose(h, p)
       PROVE  TypeOK'
  <2>1. dg' \in [Hosts \X Peers -> Datagram]
    BY <1>18, <1>d DEF Lose, Datagram, DgState
  <2> QED BY <1>18, <2>1 DEF Lose, TypeOK
<1>19. ASSUME NEW h \in Hosts, NEW p \in Peers, Duplicate(h, p)
       PROVE  TypeOK'
  <2>1. dg' \in [Hosts \X Peers -> Datagram]
    BY <1>19, <1>d DEF Duplicate, Datagram, DgState
  <2> QED BY <1>19, <2>1 DEF Duplicate, TypeOK
<1>20. CASE UNCHANGED vars
  BY <1>20 DEF vars, TypeOK
<1> QED
  BY <1>1, <1>2, <1>3, <1>4, <1>5, <1>6, <1>7, <1>8, <1>9, <1>10, <1>11, <1>12,
     <1>13, <1>14, <1>15, <1>16, <1>17, <1>18, <1>19, <1>20
  DEF Next, ConnectStep, ConfirmStep, WorkerStep, Quiescent

\* Every variable keeps its type, for any number of clients and secondaries.
THEOREM TypeCorrect == Spec => []TypeOK
BY InitType, NextType, PTL DEF Spec

-----------------------------------------------------------------------------
(* What each kind of step leaves alone.                                    *)

\* A step of the CONNECT handler of h.
ConnectFrame(h) ==
    /\ \A g \in Hosts \ {h} : conn'[g] = conn[g]
    /\ conn[h].pc # "done"
    /\ conn[h].pc # "push" => conn'[h].pc # "pushing"
    /\ conn[h].pc # "pushing" => conn'[h].pc # "send" /\ buffer' = buffer
    /\ conn[h].pc # "send" => conn'[h].pc # "done" /\ dg' = dg
    /\ conn[h].pc = "send" => conn'[h].pc = "done" /\ conn'[h].base = conn[h].base
    /\ \A x \in Hosts \X Peers : x[1] # h => dg'[x] = dg[x]
    /\ Len(buffer) <= Len(buffer')
    /\ UNCHANGED <<replica, disc, worker, accepts, applied, notified>>

\* A step of the datagram between h and secondary p.
DatagramFrame(h, p) ==
    /\ \A x \in Hosts \X Peers : dg'[x].seqn = dg[x].seqn
    /\ \A x \in Hosts \X Peers : x # <<h, p>> => dg'[x] = dg[x]
    /\ dg[<<h, p>>].st # "none"
    /\ \A q \in Peers : applied[q] \subseteq applied'[q]
    /\ DOMAIN buffer' = DOMAIN buffer /\ Len(buffer') = Len(buffer)
    /\ \A k \in DOMAIN buffer : /\ buffer'[k].seqn = buffer[k].seqn
                                /\ buffer'[k].origin = buffer[k].origin
    /\ UNCHANGED <<lastSeqn, sessions, conn, disc, worker, notified>>

\* A step of the notification worker, DISCONNECT, or none.
RestFrame == UNCHANGED <<buffer, replica, conn, dg, accepts, applied>>

LEMMA ConnectStepFrame ==
    ASSUME TypeOK, NEW h \in Hosts, ConnectStep(h)
    PROVE  ConnectFrame(h)
<1>c. conn \in [Hosts -> ConnThread]
  BY DEF TypeOK
<1>b. buffer \in Seq(Container) /\ Len(buffer) \in Nat
  BY LenProperties DEF TypeOK
<1>1. CASE ConnectStartSession(h)
  BY <1>1, <1>c, <1>b DEF ConnectStartSession, ConnectFrame
<1>2. CASE ReadSeqn(h)
  BY <1>2, <1>c, <1>b DEF ReadSeqn, ConnectFrame
<1>3. CASE RereadSeqn(h)
  BY <1>3, <1>c, <1>b DEF RereadSeqn, ConnectFrame
<1>4. CASE LoadSeqn(h)
  BY <1>4, <1>c, <1>b DEF LoadSeqn, ConnectFrame
<1>5. CASE StoreSeqn(h)
  BY <1>5, <1>c, <1>b DEF StoreSeqn, ConnectFrame
<1>6. CASE BeginPush(h)
  BY <1>6, <1>c, <1>b DEF BeginPush, ConnectFrame
<1>7. CASE EndPush(h)
  <2>1. Len(buffer) <= Len(buffer')
    BY <1>7, <1>b, LenProperties DEF EndPush
  <2> QED BY <1>7, <1>c, <2>1 DEF EndPush, ConnectFrame
<1>8. CASE SendToPeers(h)
  <2>1. \A x \in Hosts \X Peers : x[1] # h => dg'[x] = dg[x]
    BY <1>8 DEF SendToPeers
  <2>2. conn'[h].pc = "done" /\ conn'[h].base = conn[h].base
    BY <1>8, <1>c DEF SendToPeers, ConnThread
  <2>3. /\ \A g \in Hosts \ {h} : conn'[g] = conn[g]
        /\ conn[h].pc = "send"
        /\ UNCHANGED <<buffer, replica, disc, worker, accepts, applied, notified>>
    BY <1>8, <1>c DEF SendToPeers
  <2> QED BY <1>b, <2>1, <2>2, <2>3 DEF ConnectFrame
<1> QED BY <1>1, <1>2, <1>3, <1>4, <1>5, <1>6, <1>7, <1>8 DEF ConnectStep

LEMMA DatagramStepFrame ==
    ASSUME TypeOK, NEW h \in Hosts, NEW p \in Peers,
           ConfirmStep(h, p) \/ Lose(h, p) \/ Duplicate(h, p)
    PROVE  DatagramFrame(h, p)
<1>d. dg \in [Hosts \X Peers -> Datagram]
  BY DEF TypeOK
<1>a. applied \in [Peers -> SUBSET Hosts]
  BY DEF TypeOK
<1>b. buffer \in Seq(Container) /\ Len(buffer) \in Nat /\ DOMAIN buffer = 1 .. Len(buffer)
  BY LenProperties DEF TypeOK
<1> DEFINE OnlyThis == /\ \A x \in Hosts \X Peers : dg'[x].seqn = dg[x].seqn
                       /\ \A x \in Hosts \X Peers : x # <<h, p>> => dg'[x] = dg[x]
                       /\ dg[<<h, p>>].st # "none"
<1>1. OnlyThis
  <2>1. CASE SecondaryConnect(h, p)
    BY <2>1, <1>d DEF SecondaryConnect, Datagram
  <2>2. CASE BeginConfirm(h, p)
    BY <2>2, <1>d DEF BeginConfirm, Datagram, Finished
  <2>3. CASE MarkContainer(h, p)
    BY <2>3, <1>d DEF MarkContainer, Datagram
  <2>4. CASE CheckContainer(h, p)
    BY <2>4, <1>d DEF CheckContainer, Datagram, Finished
  <2>5. CASE StaleConfirm(h, p)
    BY <2>5, <1>d DEF StaleConfirm, Datagram, Finished, ConfRunning
  <2>6. CASE Lose(h, p)
    BY <2>6, <1>d DEF Lose, Datagram
  <2>7. CASE Duplicate(h, p)
    <3>1. PICK st : dg' = [dg EXCEPT ![<<h, p>>] = [@ EXCEPT !.st = st]]
      BY <2>7 DEF Duplicate
    <3>2. dg[<<h, p>>].st = "done"
      BY <2>7 DEF Duplicate
    <3> QED BY <3>1, <3>2, <1>d DEF Datagram
  <2> QED BY <2>1, <2>2, <2>3, <2>4, <2>5, <2>6, <2>7 DEF ConfirmStep
<1>3. CASE MarkContainer(h, p)
  <2>1. \A k \in DOMAIN buffer : buffer[k] \in Container
    BY <1>b, ElementOfSeq
  <2>2. /\ DOMAIN buffer' = DOMAIN buffer
        /\ \A k \in DOMAIN buffer :
            buffer'[k] = buffer[k] \/ buffer'[k] = ConfirmSlots(buffer[k], dg[<<h, p>>].seqn)
    BY <1>3, <1>b DEF MarkContainer
  <2>3. \A k \in DOMAIN buffer : /\ buffer'[k].seqn = buffer[k].seqn
                                 /\ buffer'[k].origin = buffer[k].origin
    BY <2>1, <2>2 DEF ConfirmSlots, Container
  <2>4. Len(buffer') = Len(buffer)
    BY <1>3, <1>b, LenProperties DEF MarkContainer
  <2> QED BY <1>1, <1>3, <1>a, <2>2, <2>3, <2>4 DEF MarkContainer, DatagramFrame
<1>4. CASE SecondaryConnect(h, p)
  <2>1. \A q \in Peers : applied[q] \subseteq applied'[q]
    BY <1>4, <1>a DEF SecondaryConnect
  <2> QED BY <1>1, <1>4, <1>b, <2>1 DEF SecondaryConnect, DatagramFrame
<1>5. CASE \/ BeginConfirm(h, p) \/ CheckContainer(h, p) \/ StaleConfirm(h, p)
           \/ Lose(h, p) \/ Duplicate(h, p)
  <2>1. UNCHANGED <<buffer, applied, lastSeqn, sessions, conn, disc, worker, notified>>
    BY <1>5 DEF BeginConfirm, CheckContainer, StaleConfirm, Lose, Duplicate
  <2> QED BY <1>1, <1>b, <2>1 DEF DatagramFrame
<1> QED BY <1>3, <1>4, <1>5 DEF ConfirmStep

\* The loop over the secondaries.
LEMMA SendEffect ==
    ASSUME TypeOK, NEW h \in Hosts, SendToPeers(h), NEW q \in Peers
    PROVE  /\ dg'[<<h, q>>].st = "forward"
           /\ dg'[<<h, q>>].seqn = conn[h].temp + q
<1>1. <<h, q>> \in Hosts \X Peers /\ <<h, q>>[1] = h /\ <<h, q>>[2] = q
  OBVIOUS
<1>2. dg[<<h, q>>] \in Datagram
  BY <1>1 DEF TypeOK
<1>3. dg'[<<h, q>>] = [dg[<<h, q>>] EXCEPT !.st = "forward", !.seqn = conn[h].temp + q]
  BY <1>1 DEF SendToPeers
<1> QED BY <1>2, <1>3 DEF Datagram

\* Every step is of one of the three kinds.
LEMMA StepKinds ==
    ASSUME [Next]_vars
    PROVE  \/ \E h \in Hosts : ConnectStep(h)
           \/ \E h \in Hosts, p \in Peers :
                ConfirmStep(h, p) \/ Lose(h, p) \/ Duplicate(h, p)
           \/ RestFrame
<1>1. ASSUME NEW h \in Hosts, Disconnect(h) PROVE RestFrame
  BY <1>1 DEF Disconnect, RestFrame
<1>2. ASSUME WorkerStep PROVE RestFrame
  BY <1>2 DEF WorkerStep, WorkerLoad, WorkerStore, WorkerSend, RestFrame
<1>3. ASSUME UNCHANGED vars PROVE RestFrame
  BY <1>3 DEF vars, RestFrame
<1> QED BY <1>1, <1>2, <1>3 DEF Next, Quiescent

\* The buffer is written by Push and by Confirm.
LEMMA BufferSteps ==
    ASSUME [Next]_vars
    PROVE  \/ \E h \in Hosts : EndPush(h)
           \/ \E h \in Hosts, p \in Peers : MarkContainer(h, p)
           \/ buffer' = buffer
<1>1. ASSUME NEW h \in Hosts, ConnectStep(h) PROVE EndPush(h) \/ buffer' = buffer
  BY <1>1 DEF ConnectStep, ConnectStartSession, ReadSeqn, RereadSeqn, LoadSeqn,
     StoreSeqn, BeginPush, SendToPeers
<1>2. ASSUME NEW h \in Hosts, NEW p \in Peers,
             ConfirmStep(h, p) \/ Lose(h, p) \/ Duplicate(h, p)
      PROVE  MarkContainer(h, p) \/ buffer' = buffer
  BY <1>2 DEF ConfirmStep, SecondaryConnect, BeginConfirm, CheckContainer,
     StaleConfirm, Lose, Duplicate
<1>3. RestFrame => buffer' = buffer
  BY DEF RestFrame
<1> QED BY <1>1, <1>2, <1>3, StepKinds

\* Clients are accepted by Confirm only.
LEMMA AcceptSteps ==
    ASSUME [Next]_vars
    PROVE  \/ \E h \in Hosts, p \in Peers : CheckContainer(h, p)
           \/ accepts' = accepts
<1>1. ASSUME NEW h \in Hosts, ConnectStep(h) PROVE accepts' = accepts
  BY <1>1 DEF ConnectStep, ConnectStartSession, ReadSeqn, RereadSeqn, LoadSeqn,
     StoreSeqn, BeginPush, EndPush, SendToPeers
<1>2. ASSUME NEW h \in Hosts, NEW p \in Peers,
             ConfirmStep(h, p) \/ Lose(h, p) \/ Duplicate(h, p)
      PROVE  CheckContainer(h, p) \/ accepts' = accepts
  BY <1>2 DEF ConfirmStep, SecondaryConnect, BeginConfirm, MarkContainer,
     StaleConfirm, Lose, Duplicate
<1>3. RestFrame => accepts' = accepts
  BY DEF RestFrame
<1> QED BY <1>1, <1>2, <1>3, StepKinds

-----------------------------------------------------------------------------
(* The parts both invariants share.                                        *)

LEMMA IteratorsStep ==
    ASSUME TypeOK, IteratorsInside, [Next]_vars
    PROVE  IteratorsInside'
<1>c. conn \in [Hosts -> ConnThread] /\ dg \in [Hosts \X Peers -> Datagram]
  BY DEF TypeOK
<1>b. buffer \in Seq(Container) /\ Len(buffer) \in Nat
  BY LenProperties DEF TypeOK
<1>i. /\ \A h \in Hosts :
           conn[h].pc = "pushing" => conn[h].slot \in 1 .. Len(buffer) + 1
      /\ \A x \in Hosts \X Peers : dg[x].st \in {"mark", "check"} =>
           dg[x].i \in 1 .. dg[x].end /\ dg[x].end <= Len(buffer)
  BY DEF IteratorsInside, ConfRunning
<1>1. ASSUME NEW h \in Hosts, ConnectStep(h) PROVE IteratorsInside'
  <2>1. ConnectFrame(h)
    BY <1>1, ConnectStepFrame
  <2>2. Len(buffer') \in Nat
    BY NextType, LenProperties DEF TypeOK
  <2>3. conn'[h].pc = "pushing" => conn'[h].slot \in 1 .. Len(buffer') + 1
    <3>1. CASE BeginPush(h)
      BY <3>1, <1>c, <1>b DEF BeginPush, ConnThread
    <3>2. CASE conn'[h].pc # "pushing"
      BY <3>2
    <3>3. conn'[h].pc = "pushing" => BeginPush(h)
      BY <1>1, <1>c, <2>1 DEF ConnectFrame, ConnectStep, ConnectStartSession, ReadSeqn,
         RereadSeqn, LoadSeqn, StoreSeqn, EndPush, SendToPeers
    <3> QED BY <3>1, <3>2, <3>3
  <2>4. \A x \in Hosts \X Peers : dg'[x].st \in {"mark", "check"} => dg'[x] = dg[x]
    <3>1. CASE conn[h].pc # "send"
      BY <2>1, <3>1 DEF ConnectFrame
    <3>2. CASE SendToPeers(h)
      BY <3>2, <1>c DEF SendToPeers, Datagram
    <3>3. conn[h].pc = "send" => SendToPeers(h)
      BY <1>1, <1>c DEF ConnectStep, ConnectStartSession, ReadSeqn, RereadSeqn,
         LoadSeqn, StoreSeqn, BeginPush, EndPush
    <3> QED BY <3>1, <3>2, <3>3
  <2>5. \A g \in Hosts : conn'[g].pc = "pushing" =>
            conn'[g].slot \in 1 .. Len(buffer') + 1
    BY <1>i, <1>b, <2>1, <2>2, <2>3 DEF ConnectFrame
  <2>6. \A x \in Hosts \X Peers : dg'[x].st \in {"mark", "check"} =>
            dg'[x].i \in 1 .. dg'[x].end /\ dg'[x].end <= Len(buffer')
    <3> SUFFICES ASSUME NEW x \in Hosts \X Peers, dg'[x].st \in {"mark", "check"}
                 PROVE  dg'[x].i \in 1 .. dg'[x].end /\ dg'[x].end <= Len(buffer')
      OBVIOUS
    <3>1. dg'[x] = dg[x] /\ dg[x].end \in Nat
      BY <1>c, <2>4 DEF Datagram
    <3> QED BY <1>i, <1>b, <2>1, <2>2, <3>1 DEF ConnectFrame
  <2> QED BY <2>5, <2>6 DEF IteratorsInside, ConfRunning
<1>2. ASSUME NEW h \in Hosts, NEW p \in Peers,
             ConfirmStep(h, p) \/ Lose(h, p) \/ Duplicate(h, p)
      PROVE  IteratorsInside'
  <2>1. DatagramFrame(h, p)
    BY <1>2, DatagramStepFrame
  <2> DEFINE d == dg[<<h, p>>]
             e == dg'[<<h, p>>]
  <2>2. e.st \in {"mark", "check"} => e.i \in 1 .. e.end /\ e.end <= Len(buffer)
    <3>d. d \in Datagram /\ <<h, p>> \in Hosts \X Peers
      BY <1>c
    <3>1. CASE SecondaryConnect(h, p)
      BY <3>1, <3>d, <1>c DEF SecondaryConnect, Datagram
    <3>2. CASE BeginConfirm(h, p)
      BY <3>2, <3>d, <1>c, <1>b, EmptySeq DEF BeginConfirm, Finished, Datagram
    <3>3. CASE MarkContainer(h, p)
      BY <3>3, <3>d, <1>c, <1>i DEF MarkContainer, Datagram
    <3>4. CASE CheckContainer(h, p)
      BY <3>4, <3>d, <1>c, <1>i DEF CheckContainer, Finished, Datagram
    <3>5. CASE StaleConfirm(h, p)
      BY <3>5, <3>d, <1>c DEF StaleConfirm, Finished, Datagram
    <3>6. CASE Lose(h, p)
      BY <3>6, <3>d, <1>c DEF Lose, Datagram
    <3>7. CASE Duplicate(h, p)
      BY <3>7, <3>d, <1>c DEF Duplicate, Datagram
    <3> QED BY <1>2, <3>1, <3>2, <3>3, <3>4, <3>5, <3>6, <3>7 DEF ConfirmStep
  <2> QED BY <1>i, <2>1, <2>2 DEF DatagramFrame, IteratorsInside, ConfRunning
<1>3. ASSUME RestFrame PROVE IteratorsInside'
  BY <1>3 DEF RestFrame, IteratorsInside, ConfRunning
<1> QED BY <1>1, <1>2, <1>3, StepKinds

LEMMA BufferStep ==
    ASSUME TypeOK, BufferNumbered, [Next]_vars
    PROVE  BufferNumbered'
<1>c. conn \in [Hosts -> ConnThread]
  BY DEF TypeOK
<1>b. /\ buffer \in Seq(Container) /\ Len(buffer) \in Nat
      /\ DOMAIN buffer = 1 .. Len(buffer)
      /\ \A k \in DOMAIN buffer : buffer[k] \in Container
  BY LenProperties, ElementOfSeq DEF TypeOK
<1>o. \A k \in DOMAIN buffer : buffer[k].origin \in Hosts
  BY <1>b DEF Container
<1>1. ASSUME NEW h \in Hosts, ConnectStep(h) PROVE BufferNumbered'
  <2>1. ConnectFrame(h)
    BY <1>1, ConnectStepFrame
  <2>2. CASE conn[h].pc # "pushing"
    BY <1>o, <2>1, <2>2 DEF ConnectFrame, BufferNumbered
  <2>3. CASE EndPush(h)
    <3> DEFINE c == NewContainer(conn[h].base, h)
    <3>1. /\ c.origin = h
          /\ \A i \in Slots : c.seqn[i] = conn[h].base + i
      BY DEF NewContainer
    <3> HIDE DEF c
    <3>2. /\ conn'[h].pc = "send" /\ conn'[h].base = conn[h].base
          /\ conn[h].pc = "pushing"
      BY <2>3, <1>c DEF EndPush, ConnThread
    <3>3. \A k \in DOMAIN buffer' :
            \/ k \in DOMAIN buffer /\ buffer'[k] = buffer[k]
            \/ buffer'[k] = c
      BY <2>3, <1>b, AppendProperties DEF EndPush, c
    <3> QED BY <1>o, <2>1, <3>1, <3>2, <3>3 DEF ConnectFrame, BufferNumbered
  <2>4. conn[h].pc = "pushing" => EndPush(h)
    BY <1>1 DEF ConnectStep, ConnectStartSession, ReadSeqn, RereadSeqn, LoadSeqn,
       StoreSeqn, BeginPush, SendToPeers
  <2> QED BY <2>2, <2>3, <2>4
<1>2. ASSUME NEW h \in Hosts, NEW p \in Peers,
             ConfirmStep(h, p) \/ Lose(h, p) \/ Duplicate(h, p)
      PROVE  BufferNumbered'
  BY <1>2, DatagramStepFrame DEF DatagramFrame, BufferNumbered
<1>3. ASSUME RestFrame PROVE BufferNumbered'
  BY <1>3 DEF RestFrame, BufferNumbered
<1> QED BY <1>1, <1>2, <1>3, StepKinds

LEMMA ConfirmedStep ==
    ASSUME TypeOK, ConfirmedApplied, [Next]_vars
    PROVE  ConfirmedApplied'
<1>c. conn \in [Hosts -> ConnThread] /\ dg \in [Hosts \X Peers -> Datagram]
  BY DEF TypeOK
<1>a. applied \in [Peers -> SUBSET Hosts]
  BY DEF TypeOK
<1>1. ASSUME NEW h \in Hosts, ConnectStep(h) PROVE ConfirmedApplied'
  <2>1. ConnectFrame(h)
    BY <1>1, ConnectStepFrame
  <2>2. CASE conn[h].pc # "send"
    BY <2>1, <2>2 DEF ConnectFrame, ConfirmedApplied
  <2>3. CASE SendToPeers(h)
    <3>1. \A q \in Peers : dg'[<<h, q>>].st = "forward"
      BY <2>3, SendEffect
    <3>2. \A g \in Hosts \ {h}, q \in Peers : dg'[<<g, q>>] = dg[<<g, q>>]
      BY <2>1 DEF ConnectFrame
    <3>3. conn[h].pc = "send"
      BY <2>3 DEF SendToPeers
    <3> QED BY <2>1, <3>1, <3>2, <3>3 DEF ConnectFrame, ConfirmedApplied
  <2>4. conn[h].pc = "send" => SendToPeers(h)
    BY <1>1 DEF ConnectStep, ConnectStartSession, ReadSeqn, RereadSeqn, LoadSeqn,
       StoreSeqn, BeginPush, EndPush
  <2> QED BY <2>2, <2>3, <2>4
<1>2. ASSUME NEW h \in Hosts, NEW p \in Peers,
             ConfirmStep(h, p) \/ Lose(h, p) \/ Duplicate(h, p)
      PROVE  ConfirmedApplied'
  <2>1. DatagramFrame(h, p)
    BY <1>2, DatagramStepFrame
  <2>2. dg'[<<h, p>>].st \in {"confirm", "mark", "check", "done"} => h \in applied'[p]
    <3>1. CASE SecondaryConnect(h, p)
      BY <3>1, <1>a DEF SecondaryConnect
    <3>2. CASE Lose(h, p)
      BY <3>2, <1>c DEF Lose, Datagram
    <3>3. CASE \/ BeginConfirm(h, p) \/ MarkContainer(h, p) \/ CheckContainer(h, p)
               \/ StaleConfirm(h, p) \/ Duplicate(h, p)
      <4>1. dg[<<h, p>>].st \in {"confirm", "mark", "check", "done"}
        BY <3>3 DEF BeginConfirm, MarkContainer, CheckContainer, StaleConfirm,
           Duplicate, ConfRunning
      <4> QED BY <2>1, <4>1 DEF DatagramFrame, ConfirmedApplied
    <3> QED BY <1>2, <3>1, <3>2, <3>3 DEF ConfirmStep
  <2>3. \A g \in Hosts, q \in Peers : <<g, q>> # <<h, p>> => dg'[<<g, q>>] = dg[<<g, q>>]
    BY <2>1 DEF DatagramFrame
  <2> QED BY <2>1, <2>2, <2>3 DEF DatagramFrame, ConfirmedApplied
<1>3. ASSUME RestFrame PROVE ConfirmedApplied'
  BY <1>3 DEF RestFrame, ConfirmedApplied
<1> QED BY <1>1, <1>2, <1>3, StepKinds

-----------------------------------------------------------------------------
(* AcceptBacked.                                                           *)

LEMMA BackedStep ==
    ASSUME TypeOK, [Next]_vars, NEW q, Backed(q)
    PROVE  Backed(q)'
<1>1. PICK g \in Hosts, p \in Peers :
        conn[g].pc = "done" /\ dg[<<g, p>>].seqn = q /\ g \in applied[p]
  BY DEF Backed
<1> SUFFICES conn'[g].pc = "done" /\ dg'[<<g, p>>].seqn = q /\ g \in applied'[p]
  BY DEF Backed
<1>2. ASSUME NEW h \in Hosts, ConnectStep(h) PROVE
        conn'[g].pc = "done" /\ dg'[<<g, p>>].seqn = q /\ g \in applied'[p]
  <2>1. ConnectFrame(h)
    BY <1>2, ConnectStepFrame
  <2>2. g # h
    BY <1>1, <2>1 DEF ConnectFrame
  <2>3. dg'[<<g, p>>] = dg[<<g, p>>]
    BY <2>1, <2>2 DEF ConnectFrame
  <2> QED BY <1>1, <2>1, <2>2, <2>3 DEF ConnectFrame
<1>3. ASSUME NEW h \in Hosts, NEW r \in Peers,
             ConfirmStep(h, r) \/ Lose(h, r) \/ Duplicate(h, r)
      PROVE  conn'[g].pc = "done" /\ dg'[<<g, p>>].seqn = q /\ g \in applied'[p]
  BY <1>1, <1>3, DatagramStepFrame DEF DatagramFrame
<1>4. ASSUME RestFrame PROVE
        conn'[g].pc = "done" /\ dg'[<<g, p>>].seqn = q /\ g \in applied'[p]
  BY <1>1, <1>4 DEF RestFrame
<1> QED BY <1>2, <1>3, <1>4, StepKinds

LEMMA SlotsStep ==
    ASSUME TypeOK, ConfirmedApplied, SlotsBacked, [Next]_vars
    PROVE  SlotsBacked'
<1>b. /\ buffer \in Seq(Container) /\ Len(buffer) \in Nat
      /\ DOMAIN buffer = 1 .. Len(buffer)
      /\ \A k \in DOMAIN buffer : buffer[k] \in Container
  BY LenProperties, ElementOfSeq DEF TypeOK
<1> SUFFICES \A k \in DOMAIN buffer' : \A i \in Slots :
                buffer'[k].confirmed[i] => Backed(buffer'[k].seqn[i])
  <2>1. ASSUME NEW k \in DOMAIN buffer', NEW i \in Slots, buffer'[k].confirmed[i],
               Backed(buffer'[k].seqn[i])
        PROVE  Backed(buffer[k].seqn[i])'
    BY <2>1, BackedStep
  <2> QED BY <2>1 DEF SlotsBacked
<1>1. CASE \E h \in Hosts : EndPush(h)
  <2> PICK h \in Hosts : EndPush(h)
    BY <1>1
  <2> DEFINE c == NewContainer(conn[h].base, h)
  <2>1. \A i \in Slots : ~c.confirmed[i]
    BY DEF NewContainer
  <2> HIDE DEF c
  <2>2. \A k \in DOMAIN buffer' :
            \/ k \in DOMAIN buffer /\ buffer'[k] = buffer[k]
            \/ buffer'[k] = c
    BY <1>b, AppendProperties DEF EndPush, c
  <2> QED BY <2>1, <2>2 DEF SlotsBacked
<1>2. CASE \E h \in Hosts, p \in Peers : MarkContainer(h, p)
  <2> PICK h \in Hosts, p \in Peers : MarkContainer(h, p)
    BY <1>2
  <2> DEFINE q == dg[<<h, p>>].seqn
  <2>1. Backed(q)
    BY DEF MarkContainer, ConfirmedApplied, Backed
  <2> HIDE DEF q
  <2>2. /\ DOMAIN buffer' = DOMAIN buffer
        /\ \A k \in DOMAIN buffer :
            buffer'[k] = buffer[k] \/ buffer'[k] = ConfirmSlots(buffer[k], q)
    BY <1>b DEF MarkContainer, q
  <2>3. \A k \in DOMAIN buffer : \A i \in Slots :
            LET c == ConfirmSlots(buffer[k], q) IN
            /\ c.seqn = buffer[k].seqn
            /\ c.confirmed[i] => buffer[k].confirmed[i] \/ buffer[k].seqn[i] = q
    BY <1>b DEF ConfirmSlots, Container
  <2> QED BY <2>1, <2>2, <2>3 DEF SlotsBacked
<1>3. CASE buffer' = buffer
  BY <1>3 DEF SlotsBacked
<1> QED BY <1>1, <1>2, <1>3, BufferSteps

LEMMA AcceptStep ==
    ASSUME TypeOK, IteratorsInside, BufferNumbered, SlotsBacked, AcceptedSent,
           AcceptBacked, [Next]_vars
    PROVE  AcceptedSent' /\ AcceptBacked'
<1>b. /\ buffer \in Seq(Container) /\ Len(buffer) \in Nat
      /\ DOMAIN buffer = 1 .. Len(buffer)
      /\ \A k \in DOMAIN buffer : buffer[k] \in Container
  BY LenProperties, ElementOfSeq DEF TypeOK
<1>a. accepts \in [Hosts -> Nat]
  BY DEF TypeOK
<1>1. ASSUME NEW o \in Hosts, accepts'[o] > 0
      PROVE  /\ conn[o].pc \in {"send", "done"}
             /\ \A i \in Slots : Backed(conn[o].base + i)
  <2>1. CASE accepts[o] > 0
    BY <2>1 DEF AcceptedSent, AcceptBacked
  <2>2. CASE ~(accepts[o] > 0)
    <3>1. PICK h \in Hosts, p \in Peers : CheckContainer(h, p)
      BY <1>1, <2>2, AcceptSteps
    <3> DEFINE k == dg[<<h, p>>].i
    <3>2. k \in DOMAIN buffer
      <4>1. ConfRunning(<<h, p>>) /\ <<h, p>> \in Hosts \X Peers
        BY <3>1 DEF CheckContainer, ConfRunning
      <4>2. dg[<<h, p>>].end \in Nat /\ k \in Nat
        BY <4>1 DEF TypeOK, Datagram
      <4> QED BY <1>b, <4>1, <4>2 DEF IteratorsInside
    <3>3. ContainerConfirmed(buffer[k]) /\ buffer[k].origin = o
      BY <3>1, <1>1, <2>2, <1>a DEF CheckContainer
    <3> HIDE DEF k
    <3>4. \A i \in Slots : Backed(buffer[k].seqn[i])
      BY <3>2, <3>3 DEF ContainerConfirmed, SlotsBacked
    <3> QED BY <3>2, <3>3, <3>4 DEF BufferNumbered
  <2> QED BY <2>1, <2>2
<1>2. ASSUME NEW o \in Hosts, conn[o].pc \in {"send", "done"}
      PROVE  conn'[o].pc \in {"send", "done"} /\ conn'[o].base = conn[o].base
  <2>1. ASSUME NEW h \in Hosts, ConnectStep(h)
        PROVE  conn'[o].pc \in {"send", "done"} /\ conn'[o].base = conn[o].base
    BY <1>2, <2>1, ConnectStepFrame DEF ConnectFrame
  <2>2. ASSUME NEW h \in Hosts, NEW p \in Peers,
               ConfirmStep(h, p) \/ Lose(h, p) \/ Duplicate(h, p)
        PROVE  conn' = conn
    BY <2>2, DatagramStepFrame DEF DatagramFrame
  <2>3. RestFrame => conn' = conn
    BY DEF RestFrame
  <2> QED BY <1>2, <2>1, <2>2, <2>3, StepKinds
<1>3. AcceptedSent'
  BY <1>1, <1>2 DEF AcceptedSent
<1>4. ASSUME NEW o \in Hosts, accepts'[o] > 0, NEW i \in Slots
      PROVE  Backed(conn[o].base + i)'
  <2>1. Backed(conn[o].base + i) /\ conn'[o].base + i = conn[o].base + i
    BY <1>1, <1>2, <1>4
  <2> QED BY <2>1, BackedStep
<1> QED BY <1>3, <1>4 DEF AcceptBacked

LEMMA InitBacked == Init => BackedInv
<1> SUFFICES ASSUME Init PROVE BackedInv
  OBVIOUS
<1>1. TypeOK
  BY InitType
<1>2. /\ buffer = <<>> /\ DOMAIN buffer = {}
      /\ \A h \in Hosts : conn[h].pc = "idle" /\ accepts[h] = 0
      /\ \A x \in Hosts \X Peers : dg[x].st = "none"
  BY DEF Init
<1> QED BY <1>1, <1>2
    DEF BackedInv, IteratorsInside, BufferNumbered, ConfirmedApplied, SlotsBacked,
        AcceptedSent, AcceptBacked, ConfRunning

LEMMA NextBacked == BackedInv /\ [Next]_vars => BackedInv'
BY NextType, IteratorsStep, BufferStep, ConfirmedStep, SlotsStep, AcceptStep
DEF BackedInv

\* The inductive invariant holds for every interleaving of the primary's threads
\* and every loss and duplication.
THEOREM BackedCorrect == Spec => []BackedInv
BY InitBacked, NextBacked, PTL DEF Spec

\* The callback accepts a client only when each number of its container was
\* carried by a packet some secondary executed, for every interleaving of the
\* primary's threads and every loss and duplication.
THEOREM AcceptsAreBacked == Spec => []AcceptBacked
<1>1. BackedInv => AcceptBacked
  BY DEF BackedInv
<1> QED BY BackedCorrect, <1>1, PTL

=============================================================================
