---------------------------- MODULE Replication -----------------------------
(***************************************************************************)
(* Passive replication of CONNECT: a primary that executes the packet,     *)
(* forwards it to every secondary with BroadcastToSecondaries and accepts  *)
(* the client from the callback of its ConfirmationBuffer, and secondaries *)
(* that execute the forwarded packet and send PACKET_CONFIRM_STATE_CHANGE. *)
(*                                                                         *)
(* Every datagram the primary receives is handled by a thread of its own   *)
(* (Server::Listen), and nothing in this path takes a lock except the      *)
(* session map: `lastSeqn' and the vector inside the buffer are shared by  *)
(* all handlers and by the notification worker without synchronisation.    *)
(* The build has no optimisation flags, so lastSeqn++ is a load and a      *)
(* store.  Where two threads race on the vector the outcomes are: the      *)
(* effect of one is lost, or the process dies (`up' becomes FALSE).        *)
(*                                                                         *)
(* The profile directory and the notification queue have modules of their  *)
(* own; of the worker only its use of lastSeqn appears here.               *)
(***************************************************************************)
EXTENDS ConfirmationBuffer, SessionManager

CONSTANTS
    Hosts,      \* client sockets (address and port); each connects once
    Users,
    UserOf,     \* the user name in the CONNECT payload of each host
    Leavers,    \* the hosts that send DISCONNECT
    NPeers,     \* secondaries in PEERS, in the order of the peers vector
    Primary,    \* the address of the primary, as the secondaries see it
    Overlap,    \* whether threads of the primary may run at the same time
    Faults,     \* what UDP does to datagrams: subset of {"lose", "duplicate"}
    MaxNotify,  \* bound: notifications the worker sends
    MaxAccepts, \* bound: no duplicates once a host was accepted this often
    MaxInFlight \* bound: no duplicates while so many datagrams are under way

Peers == 0 .. NPeers - 1

ASSUME ReplicationAssumption ==
    /\ IsFiniteSet(Hosts)
    /\ UserOf \in [Hosts -> Users]
    /\ Leavers \subseteq Hosts
    /\ NPeers \in Nat
    /\ Overlap \in BOOLEAN
    /\ Faults \subseteq {"lose", "duplicate"}
    /\ MaxNotify \in Nat
    /\ MaxAccepts \in Nat
    /\ MaxInFlight \in Nat

VARIABLES
    up,         \* the primary process is running
    lastSeqn,   \* Server::lastSeqn of the primary
    buffer,     \* ConfirmationBuffer::buffer of the primary
    sessions,   \* SessionManager::sessions of the primary
    replica,    \* SessionManager::sessions of each secondary
    conn,       \* the CONNECT handler thread of each host
    disc,       \* hosts whose DISCONNECT was handled
    dg,         \* for each host and peer: the forwarded packet, then the
                \* confirmation, then the thread that handles it
    worker,     \* the notification worker's use of lastSeqn
    accepts,    \* history: PACKET_ACCEPT_CONN_CMDs sent to each host
    applied,    \* history: hosts whose CONNECT each secondary executed
    notified    \* history: sequence numbers of the notifications sent

vars == <<up, lastSeqn, buffer, sessions, replica, conn, disc, dg, worker,
          accepts, applied, notified>>

-----------------------------------------------------------------------------
(* Threads of the primary.                                                 *)

ConnPC == {"idle", "read", "reread", "load", "store", "push", "pushing",
           "send", "done"}
DgState == {"none", "forward", "confirm", "mark", "check", "done", "lost"}
WorkerPC == {"idle", "store", "send"}

ConnRunning(h)  == conn[h].pc \notin {"idle", "done"}
ConfRunning(hp) == dg[hp].st \in {"mark", "check"}

\* Another thread may start: always, unless overlap is ruled out.
MayStart ==
    \/ Overlap
    \/ /\ \A h \in Hosts : ~ConnRunning(h)
       /\ \A hp \in Hosts \X Peers : ~ConfRunning(hp)
       /\ worker.pc = "idle"

Init ==
    /\ up = TRUE
    /\ lastSeqn = 0
    /\ buffer = <<>>
    /\ sessions = [u \in Users |-> <<>>]
    /\ replica = [p \in Peers |-> [u \in Users |-> <<>>]]
    /\ conn = [h \in Hosts |-> [pc |-> "idle", session |-> FALSE, base |-> 0,
                                temp |-> 0, i |-> 0, reg |-> 0, slot |-> 0]]
    /\ disc = {}
    /\ dg = [hp \in Hosts \X Peers |->
                [st |-> "none", seqn |-> 0, i |-> 0, end |-> 0]]
    /\ worker = [pc |-> "idle", reg |-> 0]
    /\ accepts = [h \in Hosts |-> 0]
    /\ applied = [p \in Peers |-> {}]
    /\ notified = <<>>

-----------------------------------------------------------------------------
(* The CONNECT handler of the primary.                                     *)

\* StartSession, whose result does not change what follows: the reply that
\* rejects the client is commented out.
ConnectStartSession(h) ==
    /\ up /\ MayStart
    /\ conn[h].pc = "idle"
    /\ conn' = [conn EXCEPT ![h] =
                   [@ EXCEPT !.pc = "read",
                             !.session = SessionAvailable(sessions, UserOf[h])]]
    /\ sessions' = StartSession(sessions, UserOf[h], h)
    /\ UNCHANGED <<up, lastSeqn, buffer, replica, disc, dg, worker, accepts,
                   applied, notified>>

\* BroadcastToSecondaries reads lastSeqn for the BaseMessages ...
ReadSeqn(h) ==
    /\ up
    /\ conn[h].pc = "read"
    /\ conn' = [conn EXCEPT ![h] = [@ EXCEPT !.pc = "reread", !.base = lastSeqn]]
    /\ UNCHANGED <<up, lastSeqn, buffer, sessions, replica, disc, dg, worker,
                   accepts, applied, notified>>

\* ... and again for the packets it sends.
RereadSeqn(h) ==
    /\ up
    /\ conn[h].pc = "reread"
    /\ conn' = [conn EXCEPT ![h] = [@ EXCEPT !.pc = "load", !.temp = lastSeqn]]
    /\ UNCHANGED <<up, lastSeqn, buffer, sessions, replica, disc, dg, worker,
                   accepts, applied, notified>>

\* IncrementSeqn, N times.
LoadSeqn(h) ==
    /\ up
    /\ conn[h].pc = "load"
    /\ conn' = [conn EXCEPT ![h] = [@ EXCEPT !.pc = "store", !.reg = lastSeqn]]
    /\ UNCHANGED <<up, lastSeqn, buffer, sessions, replica, disc, dg, worker,
                   accepts, applied, notified>>

\* Seeded fault: one IncrementSeqn instead of N.
StoreSeqnOnce(h) ==
    /\ up
    /\ conn[h].pc = "store"
    /\ lastSeqn' = conn[h].reg + 1
    /\ conn' = [conn EXCEPT ![h] = [@ EXCEPT !.pc = "push", !.i = N]]
    /\ UNCHANGED <<up, buffer, sessions, replica, disc, dg, worker, accepts,
                   applied, notified>>

StoreSeqn(h) ==
    /\ up
    /\ conn[h].pc = "store"
    /\ lastSeqn' = conn[h].reg + 1
    /\ conn' = [conn EXCEPT ![h] =
                   [@ EXCEPT !.pc = IF conn[h].i + 1 < N THEN "load" ELSE "push",
                             !.i = conn[h].i + 1]]
    /\ UNCHANGED <<up, buffer, sessions, replica, disc, dg, worker, accepts,
                   applied, notified>>

\* Push: emplace_back takes the slot after the last element ...
BeginPush(h) ==
    /\ up
    /\ conn[h].pc = "push"
    /\ conn' = [conn EXCEPT ![h] =
                   [@ EXCEPT !.pc = "pushing", !.slot = Len(buffer) + 1]]
    /\ UNCHANGED <<up, lastSeqn, buffer, sessions, replica, disc, dg, worker,
                   accepts, applied, notified>>

\* ... and fills it.  If another thread has filled it in the meantime, that
\* thread's container is overwritten or the process dies.
EndPush(h) ==
    LET container == NewContainer(conn[h].base, h) IN
    /\ up
    /\ conn[h].pc = "pushing"
    /\ conn' = [conn EXCEPT ![h] = [@ EXCEPT !.pc = "send"]]
    /\ IF conn[h].slot = Len(buffer) + 1
       THEN buffer' = Append(buffer, container) /\ up' = TRUE
       ELSE \/ buffer' = [buffer EXCEPT ![conn[h].slot] = container] /\ up' = TRUE
            \/ buffer' = buffer /\ up' = FALSE
    /\ UNCHANGED <<lastSeqn, sessions, replica, disc, dg, worker, accepts,
                   applied, notified>>

\* The loop over the secondaries.  The datagrams are independent once they
\* are in the network, so sending them one by one would add nothing.
SendToPeers(h) ==
    /\ up
    /\ conn[h].pc = "send"
    /\ conn' = [conn EXCEPT ![h] = [@ EXCEPT !.pc = "done", !.temp = 0, !.i = 0,
                                              !.reg = 0, !.slot = 0]]
    /\ dg' = [hp \in Hosts \X Peers |->
                 IF hp[1] = h
                 THEN [dg[hp] EXCEPT !.st = "forward", !.seqn = conn[h].temp + hp[2]]
                 ELSE dg[hp]]
    /\ UNCHANGED <<up, lastSeqn, buffer, sessions, replica, disc, worker,
                   accepts, applied, notified>>

-----------------------------------------------------------------------------
(* DISCONNECT is handled by the primary only.  It may overtake CONNECT.    *)

Disconnect(h) ==
    /\ up /\ MayStart
    /\ h \in Leavers \ disc
    /\ disc' = disc \cup {h}
    /\ sessions' = EndSession(sessions, UserOf[h], h)
    /\ UNCHANGED <<up, lastSeqn, buffer, replica, conn, dg, worker, accepts,
                   applied, notified>>

-----------------------------------------------------------------------------
(* A secondary executes the forwarded CONNECT and confirms it.  The packet *)
(* does not carry the client's address: the sender is the primary.  The    *)
(* only shared state it changes that matters here is its session map,      *)
(* under a mutex, so the handler is one step.                              *)

\* Seeded fault: the secondary confirms a packet that it does not execute.
SecondaryConfirmsOnly(h, p) ==
    /\ dg[<<h, p>>].st = "forward"
    /\ dg' = [dg EXCEPT ![<<h, p>>] = [@ EXCEPT !.st = "confirm"]]
    /\ UNCHANGED <<up, lastSeqn, buffer, sessions, replica, conn, disc, worker,
                   accepts, applied, notified>>

SecondaryConnect(h, p) ==
    /\ dg[<<h, p>>].st = "forward"
    /\ dg' = [dg EXCEPT ![<<h, p>>] = [@ EXCEPT !.st = "confirm"]]
    /\ replica' = [replica EXCEPT ![p] = StartSession(@, UserOf[h], Primary)]
    /\ applied' = [applied EXCEPT ![p] = @ \cup {h}]
    /\ UNCHANGED <<up, lastSeqn, buffer, sessions, conn, disc, worker, accepts,
                   notified>>

-----------------------------------------------------------------------------
(* The handler of PACKET_CONFIRM_STATE_CHANGE on the primary:              *)
(* ConfirmationBuffer::Confirm, one container at a time.                   *)

\* A handler thread that returns: its locals are gone.
Finished(d) == [d EXCEPT !.st = "done", !.i = 0, !.end = 0]

\* The range-for takes begin() and end() once.
BeginConfirm(h, p) ==
    /\ up /\ MayStart
    /\ dg[<<h, p>>].st = "confirm"
    /\ dg' = [dg EXCEPT ![<<h, p>>] = IF buffer = <<>> THEN Finished(@)
                                 ELSE [@ EXCEPT !.st = "mark", !.i = 1,
                                                !.end = Len(buffer)]]
    /\ UNCHANGED <<up, lastSeqn, buffer, sessions, replica, conn, disc, worker,
                   accepts, applied, notified>>

\* The block the iterators point into was freed by a concurrent Push.
Stale(hp) == Reallocated(dg[hp].end, Len(buffer))

MarkContainer(h, p) ==
    LET d == dg[<<h, p>>] IN
    /\ up
    /\ d.st = "mark" /\ ~Stale(<<h, p>>)
    /\ buffer' = [buffer EXCEPT ![d.i] = ConfirmSlots(@, d.seqn)]
    /\ dg' = [dg EXCEPT ![<<h, p>>] = [@ EXCEPT !.st = "check"]]
    /\ UNCHANGED <<up, lastSeqn, sessions, replica, conn, disc, worker,
                   accepts, applied, notified>>

\* ContainerConfirmed and the callback, which accepts the original host.
CheckContainer(h, p) ==
    LET d == dg[<<h, p>>] IN
    /\ up
    /\ d.st = "check" /\ ~Stale(<<h, p>>)
    /\ accepts' = IF ContainerConfirmed(buffer[d.i])
                  THEN [accepts EXCEPT ![buffer[d.i].origin] = @ + 1]
                  ELSE accepts
    /\ dg' = [dg EXCEPT ![<<h, p>>] = IF d.i < d.end
                                 THEN [@ EXCEPT !.st = "mark", !.i = d.i + 1]
                                 ELSE Finished(@)]
    /\ UNCHANGED <<up, lastSeqn, buffer, sessions, replica, conn, disc, worker,
                   applied, notified>>

\* On a freed block the rest of the loop has no effect, or the process dies.
StaleConfirm(h, p) ==
    /\ up
    /\ ConfRunning(<<h, p>>) /\ Stale(<<h, p>>)
    /\ dg' = [dg EXCEPT ![<<h, p>>] = Finished(@)]
    /\ up' \in BOOLEAN
    /\ UNCHANGED <<lastSeqn, buffer, sessions, replica, conn, disc, worker,
                   accepts, applied, notified>>

-----------------------------------------------------------------------------
(* PendingNotificationWorker: MakeNotification(++lastSeqn, ...).           *)

WorkerLoad ==
    /\ up /\ MayStart
    /\ worker.pc = "idle" /\ Len(notified) < MaxNotify
    /\ worker' = [pc |-> "store", reg |-> lastSeqn]
    /\ UNCHANGED <<up, lastSeqn, buffer, sessions, replica, conn, disc, dg,
                   accepts, applied, notified>>

\* Seeded fault: lastSeqn is used and not incremented.
WorkerStoreSame ==
    /\ up
    /\ worker.pc = "store"
    /\ lastSeqn' = worker.reg
    /\ worker' = [pc |-> "send", reg |-> 0]
    /\ UNCHANGED <<up, buffer, sessions, replica, conn, disc, dg, accepts,
                   applied, notified>>

WorkerStore ==
    /\ up
    /\ worker.pc = "store"
    /\ lastSeqn' = worker.reg + 1
    /\ worker' = [pc |-> "send", reg |-> 0]
    /\ UNCHANGED <<up, buffer, sessions, replica, conn, disc, dg, accepts,
                   applied, notified>>

\* ++lastSeqn is an lvalue: its value is read again for the argument, and
\* MakeNotification adds one to it.
WorkerSend ==
    /\ up
    /\ worker.pc = "send"
    /\ notified' = Append(notified, lastSeqn + 1)
    /\ worker' = [worker EXCEPT !.pc = "idle"]
    /\ UNCHANGED <<up, lastSeqn, buffer, sessions, replica, conn, disc, dg,
                   accepts, applied>>

-----------------------------------------------------------------------------
(* The network.                                                            *)

Lose(h, p) ==
    /\ "lose" \in Faults
    /\ dg[<<h, p>>].st \in {"forward", "confirm"}
    /\ dg' = [dg EXCEPT ![<<h, p>>] = [@ EXCEPT !.st = "lost"]]
    /\ UNCHANGED <<up, lastSeqn, buffer, sessions, replica, conn, disc, worker,
                   accepts, applied, notified>>

Travelling(hp) == dg[hp].st \in {"forward", "confirm", "mark", "check"}

\* A second copy of the forwarded packet or of the confirmation arrives
\* after the first one was handled.
Duplicate(h, p) ==
    /\ "duplicate" \in Faults
    /\ dg[<<h, p>>].st = "done"
    /\ \A g \in Hosts : accepts[g] < MaxAccepts
    /\ Cardinality({gq \in Hosts \X Peers : Travelling(gq)}) < MaxInFlight
    /\ \E st \in {"forward", "confirm"} :
        dg' = [dg EXCEPT ![<<h, p>>] = [@ EXCEPT !.st = st]]
    /\ UNCHANGED <<up, lastSeqn, buffer, sessions, replica, conn, disc, worker,
                   accepts, applied, notified>>

\* All handlers have returned; the primary waits in recvfrom, or is dead.
Quiescent ==
    /\ \/ ~up
       \/ /\ \A h \in Hosts : conn[h].pc = "done"
          /\ \A hp \in Hosts \X Peers : dg[hp].st \in {"done", "lost"}
          /\ worker.pc = "idle"
    /\ UNCHANGED vars

-----------------------------------------------------------------------------

ConnectStep(h) ==
    \/ ConnectStartSession(h)
    \/ ReadSeqn(h)
    \/ RereadSeqn(h)
    \/ LoadSeqn(h)
    \/ StoreSeqn(h)
    \/ BeginPush(h)
    \/ EndPush(h)
    \/ SendToPeers(h)

ConfirmStep(h, p) ==
    \/ SecondaryConnect(h, p)
    \/ BeginConfirm(h, p)
    \/ MarkContainer(h, p)
    \/ CheckContainer(h, p)
    \/ StaleConfirm(h, p)

WorkerStep ==
    \/ WorkerLoad
    \/ WorkerStore
    \/ WorkerSend

Next ==
    \/ \E h \in Hosts : ConnectStep(h) \/ Disconnect(h)
    \/ \E h \in Hosts, p \in Peers :
        ConfirmStep(h, p) \/ Lose(h, p) \/ Duplicate(h, p)
    \/ WorkerStep
    \/ Quiescent

Spec == Init /\ [][Next]_vars

\* Threads that can run do run, and datagrams that are not lost arrive.
Fairness ==
    /\ \A h \in Hosts : WF_vars(ConnectStep(h))
    /\ \A h \in Hosts, p \in Peers : WF_vars(ConfirmStep(h, p))
    /\ WF_vars(WorkerStep)

FairSpec == Spec /\ Fairness

-----------------------------------------------------------------------------
(* Properties.                                                             *)

ConnThread == [pc : ConnPC, session : BOOLEAN, base : Nat, temp : Nat,
               i : Nat, reg : Nat, slot : Nat]
Datagram == [st : DgState, seqn : Nat, i : Nat, end : Nat]
Container == [seqn : [Slots -> Nat], confirmed : [Slots -> BOOLEAN],
              origin : Hosts]

\* The type of every variable.
TypeOK ==
    /\ up \in BOOLEAN
    /\ lastSeqn \in Nat
    /\ buffer \in Seq(Container)
    /\ sessions \in [Users -> Seq(Hosts)]
    /\ replica \in [Peers -> [Users -> Seq({Primary})]]
    /\ conn \in [Hosts -> ConnThread]
    /\ disc \subseteq Hosts
    /\ dg \in [Hosts \X Peers -> Datagram]
    /\ worker \in [pc : WorkerPC, reg : Nat]
    /\ accepts \in [Hosts -> Nat]
    /\ applied \in [Peers -> SUBSET Hosts]
    /\ notified \in Seq(Nat)

\* "Quando todos os secundarios confirmarem, confirmar essa mensagem"
\* (server.cpp:184): the callback accepts a client only after every secondary
\* has executed that client's CONNECT.
ReplicatedBeforeAccept ==
    \A h \in Hosts : accepts[h] > 0 => \A p \in Peers : h \in applied[p]

\* Some secondary executed a packet that carried this number.
Backed(seqn) ==
    \E g \in Hosts, p \in Peers :
        conn[g].pc = "done" /\ dg[<<g, p>>].seqn = seqn /\ g \in applied[p]

\* What the callback guarantees whatever the interleaving and the network do:
\* for each of the N numbers of an accepted client's container, some secondary
\* executed a packet that carried that number.
AcceptBacked ==
    \A h \in Hosts : accepts[h] > 0 =>
        \A i \in Slots : Backed(conn[h].base + i)

\* With fewer secondaries than the buffer has slots, "vai dar ruim"
\* (ReplicaManager.cpp:141): no client is ever accepted.
NoAcceptWhenShort ==
    NPeers < N => \A h \in Hosts : accepts[h] = 0

\* A BaseMessage's sequence number "Serves as unique identifier"
\* (confirmation-buffer.hpp:16): no two slots of the buffer share one.
SeqnUnique ==
    \A a, b \in DOMAIN buffer : \A i, j \in Slots :
        buffer[a].seqn[i] = buffer[b].seqn[j] => a = b /\ i = j

\* StartSession returns NULL when the limit is reached (SessionManager.hpp:20)
\* and the client then learns that it was rejected (client.cpp:56): a client
\* that is accepted was given a session.
AcceptedHasSession == \A h \in Hosts : accepts[h] > 0 => conn[h].session

\* The numbers on notifications, which clients sort by, increase.
NotificationsOrdered ==
    \A i, j \in DOMAIN notified : i < j => notified[i] < notified[j]

\* "broadcast state change to secondaries" (server.cpp:218): when the primary
\* and the network are at rest and no packet was lost, each secondary holds as
\* many sockets of each user as the primary, until the first DISCONNECT, which
\* is not forwarded.
ReplicasAgree ==
    (up /\ disc = {} /\ (\A h \in Hosts : conn[h].pc = "done") /\
           (\A hp \in Hosts \X Peers : dg[hp].st = "done"))
        => \A p \in Peers, u \in Users : Len(replica[p][u]) = Len(sessions[u])

\* "Quando todos os secundarios confirmarem, confirmar essa mensagem"
\* (server.cpp:184), the promise's other half: a client whose CONNECT is handled
\* is accepted in the end, as long as the primary lives, unless one of the
\* packets is lost, since nothing is sent again.
EventuallyAccepted ==
    \A h \in Hosts :
        (conn[h].pc # "idle") ~>
            (~up \/ accepts[h] > 0 \/ \E p \in Peers : dg[<<h, p>>].st = "lost")

\* Containers stay in the buffer, so every confirmation that comes after a
\* container is complete calls back for it again (confirmation-buffer.hpp:122).
\* A client is answered at most once per confirmation, and not for the first
\* N - 1 of its own, when handlers do not overlap and no packet comes twice.
AcceptsCounted ==
    (~Overlap /\ "duplicate" \notin Faults) =>
        \A h \in Hosts : accepts[h] > 0 =>
            accepts[h] + N - 1 <=
                Cardinality({hp \in Hosts \X Peers :
                                dg[hp].st \in {"mark", "check", "done"}})

Executed == {h \in Hosts : conn[h].pc # "idle"}
Accepted == {h \in Hosts : accepts[h] > 0}

Passive == INSTANCE PassiveReplication WITH executed <- Executed,
                                            accepted <- Accepted

\* The handlers, the buffer and the packets implement passive replication:
\* each step executes, replicates or accepts, in that order for every client,
\* or changes nothing that the outside can see.
ImplementsPassive == Passive!Spec

-----------------------------------------------------------------------------
(* Inductive invariants.                                                   *)

\* The iterators of Confirm and the slot of Push lie in the vector, which never
\* shrinks.
IteratorsInside ==
    /\ \A h \in Hosts :
        conn[h].pc = "pushing" => conn[h].slot \in 1 .. Len(buffer) + 1
    /\ \A hp \in Hosts \X Peers :
        ConfRunning(hp) => dg[hp].i \in 1 .. dg[hp].end /\ dg[hp].end <= Len(buffer)

\* A container holds the numbers its origin read, and was pushed before the
\* origin's packets were sent.
BufferNumbered ==
    \A k \in DOMAIN buffer :
        /\ conn[buffer[k].origin].pc \in {"send", "done"}
        /\ \A i \in Slots : buffer[k].seqn[i] = conn[buffer[k].origin].base + i

\* A packet was executed by the secondary that confirms it.
ConfirmedApplied ==
    \A h \in Hosts, p \in Peers :
        /\ dg[<<h, p>>].st # "none" => conn[h].pc = "done"
        /\ dg[<<h, p>>].st \in {"confirm", "mark", "check", "done"} => h \in applied[p]

SlotsBacked ==
    \A k \in DOMAIN buffer : \A i \in Slots :
        buffer[k].confirmed[i] => Backed(buffer[k].seqn[i])

\* A client is accepted by its own container only.
AcceptedSent ==
    \A h \in Hosts : accepts[h] > 0 => conn[h].pc \in {"send", "done"}

\* The inductive invariant behind AcceptBacked: it holds for every interleaving
\* of the handlers and whatever the network does.
BackedInv ==
    /\ TypeOK
    /\ IteratorsInside
    /\ BufferNumbered
    /\ ConfirmedApplied
    /\ SlotsBacked
    /\ AcceptedSent
    /\ AcceptBacked

\* At most one thread of the primary runs.
Exclusive ==
    /\ \A g, h \in Hosts : ConnRunning(g) /\ ConnRunning(h) => g = h
    /\ \A gp, hp \in Hosts \X Peers : ConfRunning(gp) /\ ConfRunning(hp) => gp = hp
    /\ \A h \in Hosts, gp \in Hosts \X Peers : ~(ConnRunning(h) /\ ConfRunning(gp))
    /\ worker.pc # "idle" =>
        /\ \A h \in Hosts : ~ConnRunning(h)
        /\ \A hp \in Hosts \X Peers : ~ConfRunning(hp)

\* Where each CONNECT handler is in the counting of its N numbers.
Numbering ==
    \A h \in Hosts :
        LET c == conn[h] IN
        /\ c.pc \in {"idle", "read", "reread"} => c.i = 0
        /\ c.pc = "reread" => c.base = lastSeqn
        /\ c.pc \in {"load", "store"} =>
            c.temp = c.base /\ lastSeqn = c.base + c.i /\ c.i < N
        /\ c.pc = "store" => c.reg = lastSeqn
        /\ c.pc \in {"push", "pushing", "send"} => c.temp = c.base
        /\ c.pc \in {"push", "pushing", "send", "done"} => c.base + N <= lastSeqn
        /\ c.pc = "pushing" => c.slot = Len(buffer) + 1

WorkerNumbering == worker.pc = "store" => worker.reg = lastSeqn

\* The blocks of N numbers of two clients do not overlap.
BlocksDisjoint ==
    \A g, h \in Hosts :
        (/\ g # h
         /\ conn[g].pc \in {"push", "pushing", "send", "done"}
         /\ conn[h].pc \notin {"idle", "read"}) =>
            \/ conn[g].base + N <= conn[h].base
            \/ /\ conn[h].pc \in {"push", "pushing", "send", "done"}
               /\ conn[h].base + N <= conn[g].base

\* Each client has at most one container.
OriginsDiffer ==
    \A a, b \in DOMAIN buffer : buffer[a].origin = buffer[b].origin => a = b

\* The packet to secondary p carries the p-th number of its client's block.
DatagramsNumbered ==
    \A h \in Hosts, p \in Peers :
        conn[h].pc = "done" => dg[<<h, p>>].seqn = conn[h].base + p

\* Slot i of a container stands for secondary i.
SlotsApplied ==
    \A k \in DOMAIN buffer : \A i \in Slots :
        buffer[k].confirmed[i] => i \in Peers /\ buffer[k].origin \in applied[i]

\* The inductive invariant behind ReplicatedBeforeAccept when the handlers of
\* the primary do not overlap and there are at most N secondaries.
SerialInv ==
    /\ TypeOK
    /\ IteratorsInside
    /\ BufferNumbered
    /\ ConfirmedApplied
    /\ Exclusive
    /\ Numbering
    /\ WorkerNumbering
    /\ BlocksDisjoint
    /\ OriginsDiffer
    /\ DatagramsNumbered
    /\ SlotsApplied
    /\ ReplicatedBeforeAccept
    /\ NoAcceptWhenShort

\* Behind NotificationsOrdered: what the worker sends next is higher.
NotificationsBelow ==
    \A i \in DOMAIN notified :
        notified[i] <= IF worker.pc = "send" THEN lastSeqn ELSE lastSeqn + 1

\* The sockets that StartSession gives to so many CONNECTs of one user.
SocketsFor(clients, user) ==
    LET started == Cardinality({h \in clients : UserOf[h] = user})
    IN  IF started < MAX_SESSIONS_PER_USER THEN started ELSE MAX_SESSIONS_PER_USER

\* Behind ReplicasAgree: a secondary executes each packet once, and every
\* session map has the sockets of the CONNECTs executed there.
SocketsCounted ==
    /\ \A h \in Hosts, p \in Peers :
        dg[<<h, p>>].st \in {"none", "forward"} => h \notin applied[p]
    /\ disc = {} => \A u \in Users : Len(sessions[u]) = SocketsFor(Executed, u)
    /\ \A p \in Peers, u \in Users : Len(replica[p][u]) = SocketsFor(applied[p], u)

\* The confirmations whose handlers have passed the container of h.
Passed(h) ==
    {hp \in Hosts \X Peers :
        \/ dg[hp].st = "done"
        \/ /\ ConfRunning(hp)
           /\ \E k \in DOMAIN buffer : buffer[k].origin = h /\ k < dg[hp].i}

\* A confirmed slot was marked by a confirmation with its number.
SlotsMarked ==
    \A k \in DOMAIN buffer : \A i \in Slots :
        buffer[k].confirmed[i] =>
            \E hp \in Hosts \X Peers :
                /\ dg[hp].seqn = buffer[k].seqn[i]
                /\ hp \in Passed(buffer[k].origin) \/ (dg[hp].st = "check" /\ dg[hp].i = k)

\* Behind AcceptsCounted: each of the confirmations that passed the container of
\* a client, except for N - 1 of them, has called back for it at most once.
CallbacksCounted ==
    /\ SlotsMarked
    /\ \A h \in Hosts : accepts[h] > 0 => accepts[h] + N - 1 <= Cardinality(Passed(h))

=============================================================================
