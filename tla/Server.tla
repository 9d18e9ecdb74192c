------------------------------- MODULE Server -------------------------------
(***************************************************************************)
(* One server process: the handler threads of CONNECT, DISCONNECT, FOLLOW, *)
(* SEND and REQUEST_USER_INFO, one per datagram, and                       *)
(* PendingNotificationWorker, over the profiles, the sessions and the      *)
(* queue of pending notifications that they share.                         *)
(*                                                                         *)
(* Each mutex covers less than a handler does.  GetProfileByName and the   *)
(* push_back of NewProfile hold profileMutex, Sync and GetConnectedUsers   *)
(* walk over the same vector without it; StartSession and EndSession hold  *)
(* sessionMutex, the worker walks Session::sockets without it; followers   *)
(* have no mutex.  The worker holds notificationQueueMutex for a whole     *)
(* round, SEND for one push.                                               *)
(*                                                                         *)
(* A walk past the last socket sends to nobody (the destroyed              *)
(* SocketAddress has an empty or a departed address); a walk in a block    *)
(* freed by a reallocation does the same or kills the process (`up').  The *)
(* constructor Profile(handle, manager) leaves `session' uninitialised     *)
(* until SetSession: the heap decides whether it is a null or a wild       *)
(* pointer.                                                                *)
(*                                                                         *)
(* A step ends where another thread can make a difference: a lookup by     *)
(* name, whose result stays the same, is one step with what follows it.    *)
(* The file that Sync writes is in Profiles, and what CONNECT sends to the *)
(* secondaries in Replication.                                             *)
(***************************************************************************)
EXTENDS SessionManager, ProfileManager, StdVector

CONSTANTS
    Users,
    Hosts,      \* client sockets
    Requests,   \* the datagrams they send, each once and in any order
    Kind,       \* the type of each request
    From,       \* the socket it comes from
    Arg,        \* the user name in its payload
    Existing,   \* the profiles read from profiles.dat at startup
    FreshPtr    \* what an uninitialised Profile::session may hold

Kinds == {"connect", "disconnect", "follow", "send", "info"}

ASSUME ServerAssumption ==
    /\ IsFiniteSet(Requests)
    /\ Kind \in [Requests -> Kinds]
    /\ From \in [Requests -> Hosts]
    /\ Arg \in [Requests -> Users]
    /\ FreshPtr \subseteq {"null", "wild"}
    /\ Existing \in Seq([handle : Users, followers : Seq(DOMAIN Existing)])
    /\ \A i \in DOMAIN Existing : IsInjective(Existing[i].followers)

\* ReadProfilesFromFile looks followers up by their names.
ASSUME ExistingAssumption ==
    \A i \in DOMAIN Existing : \A f \in Range(Existing[i].followers) :
        GetProfileByName(Existing, Existing[f].handle) = f

VARIABLES
    up,         \* the process is running
    profiles,   \* ProfileManager::profiles
    sessions,   \* SessionManager::sessions
    capacity,   \* capacity of each user's Session::sockets
    req,        \* the handler thread of each request
    queue,      \* notificationQueue
    worker,     \* PendingNotificationWorker
    pushed,     \* history: notifications queued by SEND, in order
    sent,       \* history: notifications sent, each with its socket, in order
    missed,     \* history: sockets that were connected while a notification
                \* was being sent to their user and did not get it
    disturbed,  \* history: notifications during whose sending the session of
                \* the recipient changed, or whose session pointer was wild
    requeued    \* history: notifications put back

table   == <<sessions, capacity>>
sending == <<queue, worker, pushed, sent, missed, requeued>>
vars    == <<up, profiles, table, req, sending, disturbed>>

\* A handler thread: the profile and the follower it works on, a position in a
\* vector, and the followers that SEND still has to serve.
At(pc) == [pc |-> pc, me |-> 0, follower |-> 0, end |-> 0, left |-> <<>>]
Goto(r, rec) == req' = [req EXCEPT ![r] = rec]
Done == At("done")
Idle == [pc |-> "idle"]

NewProfile(handle, session) ==
    [handle |-> handle, followers |-> <<>>, session |-> session]

Init ==
    /\ up = TRUE
    /\ \E s \in [DOMAIN Existing -> FreshPtr] :
        profiles = [i \in DOMAIN Existing |->
                       [NewProfile(Existing[i].handle, s[i]) EXCEPT
                           !.followers = Existing[i].followers]]
    /\ sessions = [u \in Users |-> <<>>]
    /\ capacity = [u \in Users |-> 0]
    /\ req = [r \in Requests |-> At("idle")]
    /\ queue = <<>>
    /\ worker = Idle
    /\ pushed = <<>> /\ sent = <<>>
    /\ missed = {} /\ disturbed = {} /\ requeued = {}

\* Listen receives a datagram and starts its thread.
Receive(r, kind) == up /\ req[r].pc = "idle" /\ Kind[r] = kind

\* Thread r goes on from pc.
Continue(r, pc) == up /\ req[r].pc = pc

\* The process dies of a bad access, or not.
Risk(bad) == up' \in (IF bad THEN BOOLEAN ELSE {TRUE})

\* A thread is about to push_back a profile, or to fill the slot of a follower
\* of profile i.
AddingProfile == Reallocated(Len(profiles), Len(profiles) + 1)
                 /\ \E r \in Requests : req[r].pc = "new"
Pushing(i) == \E r \in Requests : req[r].pc = "push" /\ req[r].me = i

\* The worker is in its loop.
Sending(user) == worker # Idle /\ profiles[worker.notif.to].handle = user

Disturb(user) ==
    disturbed' = disturbed \cup (IF Sending(user) THEN {worker.notif} ELSE {})

-----------------------------------------------------------------------------
(* CONNECT.                                                                *)

\* push_back doubles a full vector; erase keeps the block.
Grown(user) == IF Len(sessions[user]) < capacity[user] THEN capacity[user]
               ELSE IF capacity[user] = 0 THEN 1 ELSE 2 * capacity[user]

\* Without a session the handler goes on to the secondaries.
Start(r, me) ==
    LET u == Arg[r] IN
    /\ sessions' = StartSession(sessions, u, From[r])
    /\ IF SessionAvailable(sessions, u)
       THEN /\ Goto(r, [At("set") EXCEPT !.me = me])
            /\ capacity' = [capacity EXCEPT ![u] = Grown(u)]
            /\ Disturb(u)
       ELSE /\ Goto(r, At("refused"))
            /\ UNCHANGED <<capacity, disturbed>>

\* GetProfileByName, and StartSession on the profile it finds.
ConnectLookup(r) ==
    LET me == GetProfileByName(profiles, Arg[r]) IN
    /\ Receive(r, "connect")
    /\ IF me # 0 THEN Start(r, me)
       ELSE Goto(r, At("new")) /\ UNCHANGED <<table, disturbed>>
    /\ UNCHANGED <<up, profiles, sending>>

\* Sync walks over all profiles and their followers without a mutex.
Sync == Risk(AddingProfile' \/ \E i \in DOMAIN profiles : Pushing(i)')

\* NewProfile, with Sync.
ConnectNewProfile(r) ==
    /\ Continue(r, "new")
    /\ \E s \in FreshPtr : profiles' = Append(profiles, NewProfile(Arg[r], s))
    /\ Goto(r, [At("start") EXCEPT !.me = Len(profiles) + 1])
    /\ Sync
    /\ UNCHANGED <<table, sending, disturbed>>

ConnectStartSession(r) ==
    /\ Continue(r, "start")
    /\ Start(r, req[r].me)
    /\ UNCHANGED <<up, profiles, sending>>

\* GetConnectedUsers walks over the profiles without a mutex and follows the
\* session pointer of every other one: whether that may be fatal.
GetConnectedUsers(me) ==
    \/ AddingProfile
    \/ \E i \in DOMAIN profiles : i # me /\ profiles[i].session = "wild"

\* Seeded fault: only a new profile gets the session.
ConnectSetNewSession(r) ==
    /\ Continue(r, "set")
    /\ profiles' = IF req[r].me \in DOMAIN Existing THEN profiles
                   ELSE [profiles EXCEPT ![req[r].me].session = "set"]
    /\ Goto(r, Done)
    /\ UNCHANGED <<up, table, sending, disturbed>>

\* SetSession and GetConnectedUsers.
ConnectSetSession(r) ==
    /\ Continue(r, "set")
    /\ profiles' = [profiles EXCEPT ![req[r].me].session = "set"]
    /\ Goto(r, Done)
    /\ Risk(GetConnectedUsers(req[r].me))
    /\ UNCHANGED <<table, sending, disturbed>>

-----------------------------------------------------------------------------
(* DISCONNECT and REQUEST_USER_INFO.                                       *)

\* A datagram that arrives before the CONNECT changes nothing.  A socket that
\* leaves is no longer owed the notification being sent.
Disconnect(r) ==
    LET u == Arg[r]
        h == From[r]
    IN
    /\ Receive(r, "disconnect")
    /\ Goto(r, Done)
    /\ IF GetProfileByName(profiles, u) # 0 /\ Contains(sessions[u], h)
       THEN /\ sessions' = EndSession(sessions, u, h)
            /\ Disturb(u)
            /\ worker' = IF Sending(u) THEN [worker EXCEPT !.due = @ \ {h}]
                         ELSE worker
       ELSE UNCHANGED <<sessions, worker, disturbed>>
    /\ UNCHANGED <<up, profiles, capacity, queue, pushed, sent, missed, requeued>>

\* The profile of the user at the sender's address: FOLLOW, SEND and
\* REQUEST_USER_INFO ignore a datagram from any other address.
SenderProfile(r) ==
    {GetProfileByName(profiles, u) : u \in UsersAt(sessions, From[r])} \ {0}

RequestUserInfo(r) ==
    /\ Receive(r, "info")
    /\ Goto(r, Done)
    /\ \/ SenderProfile(r) = {} /\ up' = TRUE
       \/ \E me \in SenderProfile(r) : Risk(GetConnectedUsers(me) \/ Pushing(me))
    /\ UNCHANGED <<profiles, table, sending, disturbed>>

-----------------------------------------------------------------------------
(* FOLLOW.                                                                 *)

\* Nobody follows himself or a user without a profile.  AddFollower looks for
\* the follower in the vector ...
FollowLookup(r) ==
    LET whom == GetProfileByName(profiles, Arg[r]) IN
    /\ Receive(r, "follow")
    /\ \/ SenderProfile(r) = {} /\ Goto(r, Done)
       \/ \E me \in SenderProfile(r) :
            Goto(r, IF \/ whom \in {0, me}
                       \/ Contains(profiles[whom].followers, me)
                    THEN Done
                    ELSE [At("begin") EXCEPT !.me = whom, !.follower = me])
    /\ UNCHANGED <<up, profiles, table, sending, disturbed>>

\* ... and push_back takes the slot after the last element ...
FollowBeginPush(r) ==
    /\ Continue(r, "begin")
    /\ Goto(r, [req[r] EXCEPT !.pc = "push",
                              !.end = Len(profiles[req[r].me].followers) + 1])
    /\ UNCHANGED <<up, profiles, table, sending, disturbed>>

\* ... and fills it, which overwrites what another thread put there in the
\* meantime, or kills the process.  Sync follows.
FollowPush(r) ==
    LET t == req[r]
        followers == profiles[t.me].followers
        Fill(list) == profiles' = [profiles EXCEPT ![t.me].followers = list]
    IN
    /\ Continue(r, "push")
    /\ Goto(r, Done)
    /\ IF t.end = Len(followers) + 1
       THEN Fill(Append(followers, t.follower)) /\ Sync
       ELSE \/ Fill([followers EXCEPT ![t.end] = t.follower]) /\ Sync
            \/ profiles' = profiles /\ up' = FALSE
    /\ UNCHANGED <<table, sending, disturbed>>

-----------------------------------------------------------------------------
(* SEND.                                                                   *)

\* GetFollowers copies the vector.
PostStart(r) ==
    /\ Receive(r, "send")
    /\ \/ SenderProfile(r) = {} /\ Goto(r, Done) /\ up' = TRUE
       \/ \E me \in SenderProfile(r) :
            LET left == profiles[me].followers IN
            /\ Goto(r, IF left = <<>> THEN Done
                       ELSE [At("post") EXCEPT !.left = left])
            /\ Risk(Pushing(me))
    /\ UNCHANGED <<profiles, table, sending, disturbed>>

\* One round of the loop, under the lock.
PostPush(r) ==
    LET n == [post |-> r, to |-> Head(req[r].left)] IN
    /\ Continue(r, "post")
    /\ worker = Idle
    /\ queue' = Append(queue, n)
    /\ pushed' = Append(pushed, n)
    /\ Goto(r, IF Len(req[r].left) = 1 THEN Done
               ELSE [req[r] EXCEPT !.left = Tail(@)])
    /\ UNCHANGED <<up, profiles, table, worker, sent, missed, requeued, disturbed>>

-----------------------------------------------------------------------------
(* PendingNotificationWorker.  It holds the lock unless it is Idle.        *)

SocketsOf(i) == sessions[profiles[i].handle]

\* Seeded fault: no test of the number of sockets.
OnlineWithoutSockets(i) == profiles[i].session = "set"

\* session && session->sockets.size() > 0
Online(i) == profiles[i].session = "set" /\ SocketsOf(i) # <<>>

\* Seeded fault: a stack instead of a queue.
TakeLast(n) == worker = Idle /\ queue # <<>> /\ n = Last(queue) /\ queue' = Front(queue)

\* Lock and pop.  On an empty queue it only unlocks again.
Take(n) == worker = Idle /\ queue # <<>> /\ n = Head(queue) /\ queue' = Tail(queue)

\* Seeded fault: the loop starts at index 1.
LoopFromSecond(n, end, due, block) ==
    [pc |-> "send", notif |-> n, due |-> due, i |-> 2, end |-> end, block |-> block]

\* In the loop over `end' sockets, whose iterators are on a block of that
\* capacity.
Loop(n, end, due, block) ==
    [pc |-> "send", notif |-> n, due |-> due, i |-> 1, end |-> end, block |-> block]

\* The recipient is online: the range-for takes begin() and end() once.
WorkerTake ==
    /\ up
    /\ \E n \in Range(queue) :
        LET sockets == SocketsOf(n.to) IN
        /\ Take(n)
        /\ Online(n.to)
        /\ worker' = Loop(n, Len(sockets), Range(sockets), capacity[profiles[n.to].handle])
    /\ UNCHANGED <<up, profiles, table, req, pushed, sent, missed, requeued, disturbed>>

\* A wild pointer may look like a session with sockets: the loop runs over
\* garbage and reaches nobody, or the process dies.
WorkerTakeWild ==
    /\ up
    /\ \E n \in Range(queue) :
        /\ Take(n)
        /\ profiles[n.to].session = "wild"
        /\ worker' = Loop(n, 0, {}, 0)
        /\ disturbed' = disturbed \cup {n}
    /\ Risk(TRUE)
    /\ UNCHANGED <<profiles, table, req, pushed, sent, missed, requeued>>

\* Seeded faults: the notification of an offline user is forgotten ...
WorkerForget ==
    /\ up
    /\ worker = Idle /\ queue # <<>> /\ ~Online(Head(queue).to)
    /\ queue' = Tail(queue)
    /\ requeued' = requeued \cup {Head(queue)}
    /\ UNCHANGED <<up, profiles, table, req, worker, pushed, sent, missed, disturbed>>

\* ... or goes back to the front of the queue.
WorkerRequeueFront ==
    /\ up
    /\ worker = Idle /\ queue # <<>> /\ ~Online(Head(queue).to)
    /\ requeued' = requeued \cup {Head(queue)}
    /\ UNCHANGED <<up, profiles, table, req, queue, worker, pushed, sent, missed,
                   disturbed>>

\* The recipient is offline: the notification goes back.
WorkerRequeue ==
    /\ up
    /\ worker = Idle /\ queue # <<>> /\ ~Online(Head(queue).to)
    /\ queue' = Append(Tail(queue), Head(queue))
    /\ requeued' = requeued \cup {Head(queue)}
    /\ UNCHANGED <<up, profiles, table, req, worker, pushed, sent, missed, disturbed>>

\* Reply sends to the address; an element that was erased reaches nobody.
Reply(socket) ==
    IF socket = {} THEN sent' = sent
    ELSE \E h \in socket : sent' = Append(sent, [notif |-> worker.notif, socket |-> h])

\* One round of the loop.  The block may have been freed.
WorkerSend ==
    LET sockets == SocketsOf(worker.notif.to)
        stale   == capacity[profiles[worker.notif.to].handle] # worker.block
        socket  == IF stale \/ worker.i > Len(sockets) THEN {} ELSE {sockets[worker.i]}
    IN
    /\ up
    /\ worker # Idle /\ worker.i <= worker.end
    /\ Reply(socket)
    /\ worker' = [worker EXCEPT !.i = @ + 1, !.due = @ \ socket]
    /\ Risk(stale)
    /\ UNCHANGED <<profiles, table, req, queue, pushed, missed, requeued, disturbed>>

\* The end of the loop: the lock is released.
WorkerFinish ==
    /\ up
    /\ worker # Idle /\ worker.i > worker.end
    /\ missed' = missed \cup ({worker.notif} \X worker.due)
    /\ worker' = Idle
    /\ UNCHANGED <<up, profiles, table, req, queue, pushed, sent, requeued, disturbed>>

-----------------------------------------------------------------------------

RequestStep(r) ==
    \/ ConnectLookup(r) \/ ConnectNewProfile(r) \/ ConnectStartSession(r)
    \/ ConnectSetSession(r) \/ Disconnect(r) \/ RequestUserInfo(r)
    \/ FollowLookup(r) \/ FollowBeginPush(r) \/ FollowPush(r)
    \/ PostStart(r) \/ PostPush(r)

WorkerStep ==
    WorkerTake \/ WorkerTakeWild \/ WorkerRequeue \/ WorkerSend \/ WorkerFinish

\* Nothing is left to do, or the process is dead.
Quiescent ==
    /\ \/ ~up
       \/ /\ \A r \in Requests : req[r].pc \in {"done", "refused"}
          /\ worker = Idle /\ queue = <<>>
    /\ UNCHANGED vars

Next == (\E r \in Requests : RequestStep(r)) \/ WorkerStep \/ Quiescent

Spec == Init /\ [][Next]_vars

\* The worker runs.  Handlers need not.
Fairness == WF_vars(WorkerStep)

FairSpec == Spec /\ Fairness

-----------------------------------------------------------------------------
(* Properties.                                                             *)

\* Each CONNECT of a new user may add a profile.
ConnectRequests == {r \in Requests : Kind[r] = "connect"}
Newcomers == {r \in ConnectRequests : GetProfileByName(Existing, Arg[r]) = 0}
Positions == 1 .. Len(Existing) + Cardinality(Newcomers)

\* Profiles, notifications, handler threads and the worker, when the profiles
\* are at positions P.
Profiles(P) ==
    [handle : Users, followers : Seq(P), session : {"null", "wild", "set"}]

Notifications(P) == [post : {r \in Requests : Kind[r] = "send"}, to : P]

Thread(P) ==
    [pc : {"idle", "new", "start", "set", "begin", "push", "post", "done", "refused"},
     me : P \cup {0}, follower : P \cup {0}, end : Nat, left : Seq(P)]

WorkerState(P) ==
    {Idle} \cup [pc : {"send"}, notif : Notifications(P), due : SUBSET Hosts,
                 i : Nat \ {0}, end : Nat, block : Nat]

Notification == Notifications(Positions)

\* The type of every variable: all Profile pointers are those of profiles.
TypeOK ==
    LET P == DOMAIN profiles IN
    /\ up \in BOOLEAN
    /\ profiles \in Seq(Profiles(P))
    /\ sessions \in [Users -> Seq(Hosts)]
    /\ capacity \in [Users -> Nat]
    /\ req \in [Requests -> Thread(P)]
    /\ queue \in Seq(Notifications(P))
    /\ worker \in WorkerState(P)
    /\ pushed \in Seq(Notifications(P))
    /\ sent \in Seq([notif : Notifications(P), socket : Hosts])
    /\ missed \subseteq Notifications(P) \X Hosts
    /\ disturbed \subseteq Notifications(P)
    /\ requeued \subseteq Notifications(P)

Held == IF worker = Idle THEN {} ELSE {worker.notif}
Pending == Range(queue) \cup Held
Finished == Range(pushed) \ Pending
Delivered(n) == \E k \in DOMAIN sent : sent[k].notif = n

\* "Caso nao existam sockets disponiveis, a notificacao fica na fila ate que o
\* usuario conecte" (RELATORIO.md:78): the worker never consumes a notification
\* without sending it to a socket.
NoLoss == \A n \in Finished : Delivered(n)

\* "envia a notificacao para os sockets disponiveis na sessao do usuario"
\* (RELATORIO.md:78), as far as the worker does so without a lock: a
\* notification misses a socket that stays connected only if that session
\* changed while the worker was sending it or its pointer was never initialised.
MissedOnlyWhenDisturbed == \A m \in missed : m[1] \in disturbed

Promise == INSTANCE Delivery WITH pending <- Pending, done <- Finished,
                                  Sockets <- Hosts

\* The handlers and the worker implement Delivery: a queued notification is
\* never forgotten, queued again after it was finished, or sent to a socket
\* twice, whoever connects, leaves, follows or posts at the same time, as long
\* as clients keep to ConnectsOnce and FollowsOnce below.
ImplementsDelivery == Promise!Spec

\* Notifications whose recipients were never found offline leave in the order
\* in which they were queued.
FifoWhileOnline ==
    \A i, j \in DOMAIN pushed, k, l \in DOMAIN sent :
        (/\ i < j /\ {pushed[i], pushed[j]} \cap requeued = {}
         /\ sent[k].notif = pushed[i] /\ sent[l].notif = pushed[j]) => k < l

\* The pending notification of a user who is connected is sent or given up in
\* the end, also when others in the queue wait for users who never connect.
EventuallyConsumed ==
    \A n \in Notification :
        LET Owed == n \in Pending /\ Online(n.to) IN Owed ~> (~up \/ ~Owed)

ConnectsOf(u) == {r \in ConnectRequests : Arg[r] = u}

\* A user with a socket in his session is online for the worker, through the
\* one profile that his followers and later requests find, once his CONNECTs
\* have finished; also when some of them overlapped and each created a profile
\* (server.cpp:159).  Only a CONNECT that was refused may leave the profile
\* that it created, and others find, without a session.
ConnectedIsOnline ==
    up => \A u \in Users :
        (/\ sessions[u] # <<>>
         /\ \A r \in ConnectsOf(u) : req[r].pc \in {"idle", "done"}) =>
            Online(GetProfileByName(profiles, u))

\* A follower in a list is the profile that the name of that user finds: the
\* one later CONNECTs give their session to.  Two profiles of one name do not
\* change that.
FollowersFound ==
    \A i \in DOMAIN profiles : \A f \in Range(profiles[i].followers) :
        GetProfileByName(profiles, profiles[f].handle) = f

\* A name that finds a profile finds the same one ever after: a second profile
\* of that name is never the one that is found, so Profile pointers that
\* handlers and the queue hold across steps stay the right ones.
LookupStable ==
    [][\A u \in Users :
        LET i == GetProfileByName(profiles, u)
        IN  i # 0 => GetProfileByName(profiles', u) = i]_vars

-----------------------------------------------------------------------------
(* What clients do, as far as delivery depends on it.                      *)

\* A socket sends one CONNECT, which is not duplicated: one that connects again
\* during the worker's loop may be served twice.
ConnectsOnce == \A c, d \in ConnectRequests : From[c] = From[d] => c = d

\* A user follows another one once, from whichever socket: two such FOLLOWs that
\* overlap put him into the list twice, and each post twice into the queue.
FollowsOnce ==
    \A f, g \in {r \in Requests : Kind[r] = "follow"}, c, d \in ConnectRequests :
        (From[c] = From[f] /\ From[d] = From[g] /\ Arg[c] = Arg[d] /\ Arg[f] = Arg[g])
            => f = g

-----------------------------------------------------------------------------
(* Inductive invariants.                                                   *)

\* Where a handler is, and with which profiles: that of the name in its request,
\* and that of the sender.
Inside(r) ==
    LET t == req[r] IN
    /\ t.pc \in {"new", "start", "set", "refused"} => r \in ConnectRequests
    /\ t.pc = "new" => r \in Newcomers
    /\ t.pc \in {"start", "set"} => t.me # 0 /\ profiles[t.me].handle = Arg[r]
    /\ t.pc \in {"begin", "push"} =>
        /\ Kind[r] = "follow"
        /\ t.me # 0 /\ profiles[t.me].handle = Arg[r]
        /\ t.follower # 0
        /\ GetProfileByName(profiles, profiles[t.follower].handle) = t.follower
    /\ t.pc = "push" => t.end \in 1 .. Len(profiles[t.me].followers) + 1
    /\ t.pc = "post" => Kind[r] = "send" /\ t.left # <<>>

HandlersInside == \A r \in Requests : Inside(r)

\* Profiles are added by CONNECTs of newcomers, each of which adds one.
DirectoryBounded ==
    /\ Extends(profiles, Existing)
    /\ Len(profiles) + Cardinality({r \in Newcomers : req[r].pc \in {"idle", "new"}})
        <= Len(Existing) + Cardinality(Newcomers)

\* A socket in a session got there by a CONNECT that has passed StartSession, and
\* the user has a profile.
SocketsConnected ==
    \A u \in Users : \A h \in Range(sessions[u]) :
        /\ GetProfileByName(profiles, u) # 0
        /\ \E c \in ConnectsOf(u) : From[c] = h /\ req[c].pc \in {"set", "done"}

\* The profile that a name finds has a session, or a CONNECT is about to set it,
\* or one was refused, or none has come yet.
SessionUnderWay ==
    \A u \in Users :
        LET i == GetProfileByName(profiles, u) IN
        i # 0 =>
            \/ profiles[i].session = "set"
            \/ \E c \in ConnectsOf(u) : req[c].pc \in {"start", "set"} /\ req[c].me = i
            \/ \E c \in ConnectsOf(u) : req[c].pc = "refused"
            \/ \A c \in ConnectsOf(u) : req[c].pc = "idle"

\* The inductive invariant behind FollowersFound and ConnectedIsOnline.
DirectoryInv ==
    /\ TypeOK
    /\ HandlersInside
    /\ DirectoryBounded
    /\ FollowersFound
    /\ SocketsConnected
    /\ SessionUnderWay

\* As long as nothing disturbs it, the worker walks over the session it tested,
\* and what it owes is what it has not yet reached.
WorkerUndisturbed ==
    (worker # Idle /\ worker.notif \notin disturbed) =>
        LET s == SocketsOf(worker.notif.to) IN
        /\ worker.end = Len(s) /\ s # <<>>
        /\ worker.block = capacity[profiles[worker.notif.to].handle]
        /\ worker.due \subseteq {s[j] : j \in worker.i .. worker.end}
        /\ worker.i > 1 => Delivered(worker.notif)

\* Nobody is twice in a list of followers, or about to be.
FollowersOnce ==
    /\ \A i \in DOMAIN profiles : IsInjective(profiles[i].followers)
    /\ \A r \in Requests :
        LET t == req[r] IN
        t.pc \in {"begin", "push"} =>
            /\ t.follower \notin Range(profiles[t.me].followers)
            /\ \E c \in ConnectRequests :
                From[c] = From[r] /\ Arg[c] = profiles[t.follower].handle

\* A notification is queued once, by the SEND that has served its recipient.
PushedOnce ==
    /\ IsInjective(pushed)
    /\ \A r \in Requests : IsInjective(req[r].left)
    /\ \A n \in Range(pushed) :
        /\ req[n.post].pc \in {"post", "done"}
        /\ n.to \notin Range(req[n.post].left)

\* It is in one place, and is sent only when the worker has taken it.
OnePlace ==
    /\ IsInjective(queue)
    /\ Range(queue) \subseteq Range(pushed)
    /\ worker # Idle => worker.notif \in Range(pushed) \ Range(queue)
    /\ \A k \in DOMAIN sent : sent[k].notif \in Range(pushed) \ Range(queue)

\* The worker has not yet sent to the sockets in front of it, and a socket that
\* still has to connect has got nothing.
SentOnce ==
    /\ \A u \in Users : IsInjective(sessions[u])
    /\ \A k \in DOMAIN sent : \E c \in ConnectRequests :
        From[c] = sent[k].socket /\ req[c].pc \in {"set", "done"}
    /\ worker # Idle =>
        LET s == SocketsOf(worker.notif.to) IN
        \A k \in DOMAIN sent : sent[k].notif = worker.notif =>
            \A j \in DOMAIN s : j >= worker.i => s[j] # sent[k].socket

\* The inductive invariant behind ImplementsDelivery.
DeliveryInv ==
    /\ DirectoryInv
    /\ WorkerUndisturbed
    /\ FollowersOnce
    /\ PushedOnce
    /\ OnePlace
    /\ SentOnce

\* Notifications that were never put back are in the queue in the order in which
\* they were queued, after those that were sent or are being sent.
QueueOrdered ==
    \A i, j \in DOMAIN pushed :
        {pushed[i], pushed[j]} \cap requeued = {} =>
            /\ \A a, b \in DOMAIN queue :
                (a < b /\ queue[a] = pushed[i] /\ queue[b] = pushed[j]) => i < j
            /\ (pushed[i] \in Held /\ pushed[j] \in Range(queue)) => i < j
            /\ \A k \in DOMAIN sent : sent[k].notif = pushed[i] =>
                /\ pushed[j] \in Range(queue) => i < j
                /\ pushed[j] \in Held => i <= j

=============================================================================
