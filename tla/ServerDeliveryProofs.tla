------------------------ MODULE ServerDeliveryProofs ------------------------
(***************************************************************************)
(* Proofs about Server: what the worker sends, and that handlers and       *)
(* worker implement Delivery.                                              *)
(***************************************************************************)
EXTENDS ServerProofs

-----------------------------------------------------------------------------
(* The worker's loop over a session that others change.                    *)

\* The record of a worker in its loop, and the user it sends to.
LEMMA WorkerSends ==
    ASSUME TypeOK, worker # Idle
    PROVE  /\ worker \in [pc : {"send"}, notif : Notifications(DOMAIN profiles),
                          due : SUBSET Hosts, i : Nat \ {0}, end : Nat, block : Nat]
           /\ worker.notif \in Notifications(DOMAIN profiles)
           /\ worker.notif.to \in DOMAIN profiles
           /\ worker.i \in Nat \ {0} /\ worker.end \in Nat
           /\ profiles[worker.notif.to].handle \in Users
           /\ SocketsOf(worker.notif.to) \in Seq(Hosts)
<1>1. worker \in [pc : {"send"}, notif : Notifications(DOMAIN profiles),
                  due : SUBSET Hosts, i : Nat \ {0}, end : Nat, block : Nat]
  BY DEF TypeOK, WorkerState
<1>2. /\ worker.notif \in Notifications(DOMAIN profiles)
      /\ worker.i \in Nat \ {0} /\ worker.end \in Nat
  BY <1>1
<1>3. worker.notif.to \in DOMAIN profiles
  BY <1>2 DEF Notifications
<1>4. profiles[worker.notif.to] \in Profiles(DOMAIN profiles)
  BY <1>3, ElementOfSeq, LenProperties DEF TypeOK
<1>5. profiles[worker.notif.to].handle \in Users
  BY <1>4 DEF Profiles
<1> QED BY <1>1, <1>2, <1>3, <1>5 DEF SocketsOf, TypeOK

\* The handle of the recipient does not change.
LEMMA RecipientStays ==
    ASSUME TypeOK, DirectoryGrows, NEW i \in DOMAIN profiles
    PROVE  profiles'[i].handle = profiles[i].handle
BY LenProperties DEF TypeOK, DirectoryGrows, Extends

\* Steps that leave the session of the recipient and the worker alone.
LEMMA UndisturbedStays ==
    ASSUME TypeOK, DirectoryGrows, WorkerUndisturbed, UNCHANGED <<worker, sent>>,
           disturbed \subseteq disturbed',
           worker # Idle =>
               LET u == profiles[worker.notif.to].handle IN
               \/ sessions'[u] = sessions[u] /\ capacity'[u] = capacity[u]
               \/ worker.notif \in disturbed'
    PROVE  WorkerUndisturbed'
<1> SUFFICES ASSUME worker # Idle, worker.notif \notin disturbed'
             PROVE  WorkerUndisturbed'
  BY DEF WorkerUndisturbed
<1>1. profiles'[worker.notif.to].handle = profiles[worker.notif.to].handle
  BY WorkerSends, RecipientStays
<1>2. SocketsOf(worker.notif.to)' = SocketsOf(worker.notif.to)
  BY <1>1 DEF SocketsOf
<1>3. Delivered(worker.notif)' <=> Delivered(worker.notif)
  BY DEF Delivered
<1>4. worker.notif \notin disturbed
  OBVIOUS
<1>5. capacity'[profiles'[worker.notif.to].handle] = capacity[profiles[worker.notif.to].handle]
  BY <1>1
<1> QED BY <1>2, <1>3, <1>4, <1>5 DEF WorkerUndisturbed

\* StartSession on the session that the worker walks over disturbs it.
LEMMA StartDisturbs ==
    ASSUME TypeOK, DirectoryGrows, NEW r \in Requests, NEW me, Start(r, me)
    PROVE  /\ disturbed \subseteq disturbed'
           /\ worker # Idle =>
               LET u == profiles[worker.notif.to].handle IN
               \/ sessions'[u] = sessions[u] /\ capacity'[u] = capacity[u]
               \/ worker.notif \in disturbed'
<1>1. disturbed \subseteq disturbed'
  BY DEF Start, Disturb
<1>2. ASSUME worker # Idle
      PROVE  LET u == profiles[worker.notif.to].handle IN
             \/ sessions'[u] = sessions[u] /\ capacity'[u] = capacity[u]
             \/ worker.notif \in disturbed'
  <2> DEFINE u == profiles[worker.notif.to].handle
  <2>1. CASE SessionAvailable(sessions, Arg[r]) /\ u = Arg[r]
    BY <1>2, <2>1 DEF Start, Disturb, Sending
  <2>2. CASE u # Arg[r]
    <3>1. u \in DOMAIN sessions /\ u \in DOMAIN capacity
      BY <1>2, WorkerSends DEF TypeOK
    <3> HIDE DEF u
    <3>2. sessions'[u] = sessions[u] /\ capacity'[u] = capacity[u]
      BY <2>2, <3>1 DEF Start, StartSession
    <3> QED BY <3>2 DEF u
  <2>3. CASE ~SessionAvailable(sessions, Arg[r])
    BY <2>3 DEF Start, StartSession
  <2> QED BY <2>1, <2>2, <2>3
<1> QED BY <1>1, <1>2

LEMMA StepUndisturbed ==
    ASSUME TypeOK, HandlersInside, WorkerUndisturbed, [Next]_vars
    PROVE  WorkerUndisturbed'
<1>0. DirectoryGrows
  BY StepGrows
<1>1. CASE UNCHANGED <<table, worker, sent, disturbed>>
  BY <1>0, <1>1, UndisturbedStays DEF table
<1>2. ASSUME NEW r \in Requests, NEW me, Start(r, me), UNCHANGED sending
      PROVE  WorkerUndisturbed'
  BY <1>0, <1>2, StartDisturbs, UndisturbedStays DEF sending
<1>3. ASSUME NEW r \in Requests, Disconnect(r), ~UNCHANGED <<table, worker, sent, disturbed>>
      PROVE  WorkerUndisturbed'
  <2> DEFINE u == Arg[r]
  <2>1. /\ sessions' = EndSession(sessions, u, From[r]) /\ Disturb(u)
        /\ worker' = IF Sending(u) THEN [worker EXCEPT !.due = @ \ {From[r]}] ELSE worker
        /\ UNCHANGED <<profiles, capacity, sent>>
    BY <1>3 DEF Disconnect, table
  <2>2. CASE Sending(u)
    <3>1. worker' # Idle => worker'.notif \in disturbed'
      BY <2>1, <2>2, WorkerSends DEF Disturb, Sending
    <3> QED BY <3>1 DEF WorkerUndisturbed
  <2>3. CASE ~Sending(u)
    <3>1. worker # Idle => profiles[worker.notif.to].handle # u
      BY <2>3 DEF Sending
    <3>2. worker # Idle => sessions'[profiles[worker.notif.to].handle]
                            = sessions[profiles[worker.notif.to].handle]
      BY <2>1, <3>1 DEF EndSession
    <3> QED BY <1>0, <2>1, <2>3, <3>2, UndisturbedStays DEF Disturb
  <2> QED BY <2>2, <2>3
<1>4. CASE WorkerTake
  <2>1. PICK n : /\ Take(n) /\ n \in Range(queue) /\ Online(n.to)
                 /\ worker' = Loop(n, Len(SocketsOf(n.to)), Range(SocketsOf(n.to)),
                                   capacity[profiles[n.to].handle])
    BY <1>4 DEF WorkerTake
  <2>2. UNCHANGED <<profiles, sessions, capacity>>
    BY <1>4 DEF WorkerTake, table
  <2>3. /\ worker'.notif = n /\ worker'.i = 1 /\ worker'.end = Len(SocketsOf(n.to))
        /\ worker'.due = Range(SocketsOf(n.to))
        /\ worker'.block = capacity[profiles[n.to].handle]
    BY <2>1 DEF Loop
  <2>4. SocketsOf(n.to)' = SocketsOf(n.to)
    BY <2>2 DEF SocketsOf
  <2>5. SocketsOf(n.to) # <<>> /\ SocketsOf(n.to) \in Seq(Hosts)
    <3>1. n \in Notifications(DOMAIN profiles)
      BY <2>1, RangeOfSeq DEF TypeOK
    <3>2. n.to \in DOMAIN profiles
      BY <3>1 DEF Notifications
    <3>3. profiles[n.to] \in Profiles(DOMAIN profiles)
      BY <3>2, ElementOfSeq, LenProperties DEF TypeOK
    <3> QED BY <2>1, <3>3 DEF Online, SocketsOf, Profiles, TypeOK
  <2>6. Range(SocketsOf(n.to)) = {SocketsOf(n.to)[j] : j \in 1 .. Len(SocketsOf(n.to))}
    BY <2>5, LenProperties DEF Range
  <2> QED BY <2>2, <2>3, <2>4, <2>5, <2>6 DEF WorkerUndisturbed
<1>5. CASE WorkerTakeWild
  <2>1. worker'.notif \in disturbed'
    BY <1>5 DEF WorkerTakeWild, Loop
  <2> QED BY <2>1 DEF WorkerUndisturbed
<1>6. CASE WorkerSend
  <2> SUFFICES ASSUME worker'.notif \notin disturbed'
               PROVE  WorkerUndisturbed'
    BY DEF WorkerUndisturbed
  <2> DEFINE s == SocketsOf(worker.notif.to)
  <2>1. /\ worker # Idle /\ worker.i <= worker.end
        /\ UNCHANGED <<profiles, sessions, capacity, disturbed>>
    BY <1>6 DEF WorkerSend, table
  <2>2. /\ worker.notif \in Notifications(DOMAIN profiles)
        /\ worker.i \in Nat \ {0} /\ worker.end \in Nat /\ s \in Seq(Hosts)
    BY <2>1, WorkerSends
  <2>3. worker'.notif = worker.notif
    BY <1>6, <2>1, WorkerSends DEF WorkerSend
  <2>4. /\ worker.end = Len(s) /\ s # <<>>
        /\ worker.block = capacity[profiles[worker.notif.to].handle]
        /\ worker.due \subseteq {s[j] : j \in worker.i .. worker.end}
    BY <2>1, <2>3 DEF WorkerUndisturbed
  <2>5. Reply({s[worker.i]}) /\ worker' = [worker EXCEPT !.i = @ + 1, !.due = @ \ {s[worker.i]}]
    <3>1. ~(worker.i > Len(s)) /\ ~(capacity[profiles[worker.notif.to].handle] # worker.block)
      BY <2>1, <2>2, <2>4
    <3> QED BY <1>6, <3>1 DEF WorkerSend
  <2>6. sent' = Append(sent, [notif |-> worker.notif, socket |-> s[worker.i]])
    BY <2>5 DEF Reply
  <2>7. Delivered(worker.notif)'
    <3>1. /\ sent'[Len(sent) + 1] = [notif |-> worker.notif, socket |-> s[worker.i]]
          /\ Len(sent) + 1 \in DOMAIN sent'
      BY <2>6, AppendProperties, LenProperties DEF TypeOK
    <3>2. \E k \in DOMAIN sent' : sent'[k].notif = worker'.notif
      BY <2>3, <3>1
    <3> QED BY <3>2 DEF Delivered
  <2>8. /\ worker'.i = worker.i + 1 /\ worker'.end = worker.end
        /\ worker'.block = worker.block /\ worker'.due = worker.due \ {s[worker.i]}
    BY <2>1, <2>5, WorkerSends
  <2>9. worker'.due \subseteq {s[j] : j \in worker.i + 1 .. worker.end}
    BY <2>2, <2>4, <2>8
  <2>10. SocketsOf(worker.notif.to)' = s
    BY <2>1, <2>3 DEF SocketsOf
  <2>11. capacity'[profiles'[worker'.notif.to].handle] = worker'.block
    BY <2>1, <2>3, <2>4, <2>8
  <2> HIDE DEF s
  <2> QED BY <2>4, <2>7, <2>8, <2>9, <2>10, <2>11 DEF WorkerUndisturbed
<1>7. CASE WorkerFinish
  BY <1>7 DEF WorkerFinish, WorkerUndisturbed
<1>8. \/ UNCHANGED <<table, worker, sent, disturbed>>
      \/ \E r \in Requests : \E me : Start(r, me) /\ UNCHANGED sending
      \/ \E r \in Requests : Disconnect(r) /\ ~UNCHANGED <<table, worker, sent, disturbed>>
      \/ WorkerTake \/ WorkerTakeWild \/ WorkerSend \/ WorkerFinish
  BY DEF Next, RequestStep, WorkerStep, Quiescent, vars, table, sending, ConnectLookup,
         ConnectNewProfile, ConnectStartSession, ConnectSetSession, RequestUserInfo,
         FollowLookup, FollowBeginPush, FollowPush, PostStart, PostPush, WorkerRequeue
<1> QED BY <1>1, <1>2, <1>3, <1>4, <1>5, <1>6, <1>7, <1>8

\* The loop reaches every socket that it owes the notification, unless the session
\* was changed under it.
LEMMA StepMissed ==
    ASSUME TypeOK, WorkerUndisturbed, MissedOnlyWhenDisturbed, [Next]_vars
    PROVE  MissedOnlyWhenDisturbed'
<1>1. disturbed \subseteq disturbed'
  BY DEF Next, RequestStep, WorkerStep, Quiescent, vars, table, sending, ConnectLookup, Start,
         Disturb, ConnectNewProfile, ConnectStartSession, ConnectSetSession, Disconnect,
         RequestUserInfo, FollowLookup, FollowBeginPush, FollowPush, PostStart, PostPush,
         WorkerTake, WorkerTakeWild, WorkerRequeue, WorkerSend, WorkerFinish
<1>2. CASE UNCHANGED missed
  BY <1>1, <1>2 DEF MissedOnlyWhenDisturbed
<1>3. CASE WorkerFinish
  <2>1. worker # Idle /\ worker.i > worker.end
        /\ missed' = missed \cup ({worker.notif} \X worker.due)
    BY <1>3 DEF WorkerFinish
  <2>2. CASE worker.notif \in disturbed
    BY <1>1, <2>1, <2>2 DEF MissedOnlyWhenDisturbed
  <2>3. CASE worker.notif \notin disturbed
    <3>1. worker.i .. worker.end = {}
      BY <2>1, WorkerSends
    <3>2. worker.due = {}
      BY <2>1, <2>3, <3>1 DEF WorkerUndisturbed
    <3> QED BY <1>1, <2>1, <3>2 DEF MissedOnlyWhenDisturbed
  <2> QED BY <2>2, <2>3
<1>4. UNCHANGED missed \/ WorkerFinish
  BY DEF Next, RequestStep, WorkerStep, Quiescent, vars, table, sending, ConnectLookup,
         ConnectNewProfile, ConnectStartSession, ConnectSetSession, Disconnect,
         RequestUserInfo, FollowLookup, FollowBeginPush, FollowPush, PostStart, PostPush,
         WorkerTake, WorkerTakeWild, WorkerRequeue, WorkerSend
<1> QED BY <1>2, <1>3, <1>4

\* A socket that stays connected misses a notification only if the session changed
\* while the worker was sending it, or its pointer was never initialised.
THEOREM MissedAreDisturbed == Spec => []MissedOnlyWhenDisturbed
<1>1. Init => WorkerUndisturbed /\ MissedOnlyWhenDisturbed
  BY DEF Init, WorkerUndisturbed, MissedOnlyWhenDisturbed
<1>2. /\ DirectoryInv /\ WorkerUndisturbed /\ MissedOnlyWhenDisturbed /\ [Next]_vars
      => WorkerUndisturbed' /\ MissedOnlyWhenDisturbed'
  BY StepUndisturbed, StepMissed DEF DirectoryInv
<1> QED BY <1>1, <1>2, DirectoryCorrect, PTL DEF Spec

-----------------------------------------------------------------------------
(* Lists of followers.                                                     *)

\* A user whose socket is known has sent a CONNECT from it.
LEMMA SenderConnected ==
    ASSUME TypeOK, SocketsConnected, NEW r \in Requests, NEW me \in SenderProfile(r)
    PROVE  \E c \in ConnectRequests : From[c] = From[r] /\ Arg[c] = profiles[me].handle
<1> DEFINE u == profiles[me].handle
<1>1. u \in UsersAt(sessions, From[r])
  BY SenderFound
<1>2. u \in Users /\ Contains(sessions[u], From[r]) /\ sessions[u] \in Seq(Hosts)
  BY <1>1 DEF UsersAt, TypeOK
<1>3. From[r] \in Range(sessions[u])
  BY <1>2, LenProperties DEF Contains, Range
<1>4. \E c \in ConnectsOf(u) : From[c] = From[r]
  BY <1>2, <1>3 DEF SocketsConnected
<1> QED BY <1>4 DEF ConnectsOf

\* Two threads that add a follower to one list add different ones.
LEMMA FollowsDiffer ==
    ASSUME FollowsOnce, HandlersInside, FollowersOnce,
           NEW q \in Requests, NEW r \in Requests, q # r,
           req[q].pc \in {"begin", "push"}, req[r].pc \in {"begin", "push"},
           req[q].me = req[r].me
    PROVE  req[q].follower # req[r].follower
<1> SUFFICES ASSUME req[q].follower = req[r].follower PROVE FALSE
  OBVIOUS
<1>1. PICK c \in ConnectRequests :
        From[c] = From[q] /\ Arg[c] = profiles[req[q].follower].handle
  BY DEF FollowersOnce
<1>2. PICK d \in ConnectRequests :
        From[d] = From[r] /\ Arg[d] = profiles[req[r].follower].handle
  BY DEF FollowersOnce
<1>3. Kind[q] = "follow" /\ Kind[r] = "follow" /\ Arg[q] = Arg[r]
  BY DEF HandlersInside, Inside
<1> QED BY <1>1, <1>2, <1>3 DEF FollowsOnce

\* A handler that is about to add a follower was about to do so before, or has
\* just found that he is not in the list.
LEMMA AboutToFollow ==
    ASSUME TypeOK, [Next]_vars, NEW q \in Requests, req'[q].pc \in {"begin", "push"}
    PROVE  \/ /\ req[q].pc \in {"begin", "push"}
              /\ req'[q].me = req[q].me /\ req'[q].follower = req[q].follower
           \/ \E me \in SenderProfile(q) :
                LET whom == GetProfileByName(profiles, Arg[q]) IN
                /\ FollowLookup(q) /\ whom # 0
                /\ ~Contains(profiles[whom].followers, me)
                /\ req'[q].me = whom /\ req'[q].follower = me
<1>1. CASE req'[q] = req[q]
  BY <1>1
<1>2. CASE RequestStep(q) /\ req[q].pc = "begin"
  <2>1. FollowBeginPush(q)
    BY <1>2 DEF RequestStep, Receive, Continue, ConnectLookup, ConnectNewProfile,
       ConnectStartSession, ConnectSetSession, Disconnect, RequestUserInfo, FollowLookup,
       FollowPush, PostStart, PostPush
  <2>2. req[q] \in Thread(DOMAIN profiles) /\ req \in [Requests -> Thread(DOMAIN profiles)]
    BY DEF TypeOK
  <2>3. req'[q] = [req[q] EXCEPT !.pc = "push",
                                 !.end = Len(profiles[req[q].me].followers) + 1]
    BY <2>1, <2>2 DEF FollowBeginPush, Goto
  <2>4. req'[q].me = req[q].me /\ req'[q].follower = req[q].follower
    BY <2>2, <2>3 DEF Thread
  <2> QED BY <1>2, <2>4
<1>3. CASE RequestStep(q) /\ req[q].pc = "idle"
  <2>1. FollowLookup(q)
    <3>1. \A rec : Goto(q, rec) => req'[q] = rec
      BY DEF Goto, TypeOK
    <3>2. Done.pc = "done"
      BY DEF Done, At
    <3>3. ~(Disconnect(q) \/ RequestUserInfo(q))
      BY <3>1, <3>2 DEF Disconnect, RequestUserInfo
    <3>4. ~PostStart(q)
      <4>1. ASSUME PostStart(q)
            PROVE  req'[q].pc \in {"post", "done"}
        <5>1. req'[q] = Done \/ \E left : req'[q] = [At("post") EXCEPT !.left = left]
          BY <3>1, <4>1 DEF PostStart
        <5>2. ASSUME NEW left, req'[q] = [At("post") EXCEPT !.left = left]
              PROVE  req'[q].pc = "post"
          BY <5>2 DEF At
        <5> QED BY <3>2, <5>1, <5>2
      <4> QED BY <4>1
    <3>5. Kind[q] # "connect"
      BY <1>3, ThreadMoves
    <3> QED BY <1>3, <3>3, <3>4, <3>5
        DEF RequestStep, Receive, Continue, ConnectLookup, ConnectNewProfile,
            ConnectStartSession, ConnectSetSession, FollowBeginPush, FollowPush, PostPush
  <2> DEFINE whom == GetProfileByName(profiles, Arg[q])
  <2>2. PICK me \in SenderProfile(q) :
          /\ whom # 0 /\ ~Contains(profiles[whom].followers, me)
          /\ req'[q] = [At("begin") EXCEPT !.me = whom, !.follower = me]
    <3>1. \A rec : Goto(q, rec) => req'[q] = rec
      BY DEF Goto, TypeOK
    <3>2. req'[q] # Done
      BY DEF Done, At
    <3> QED BY <2>1, <3>1, <3>2 DEF FollowLookup
  <2>3. req'[q].me = whom /\ req'[q].follower = me
    BY <2>2 DEF At
  <2> QED BY <2>1, <2>2, <2>3
<1>4. req'[q] = req[q] \/ (RequestStep(q) /\ req[q].pc \in {"begin", "idle"})
  BY OneThread, ThreadMoves
<1> QED BY <1>1, <1>2, <1>3, <1>4

\* No list gets a follower twice.
LEMMA ListsOnce ==
    ASSUME TypeOK, HandlersInside, FollowersOnce, [Next]_vars, NEW i \in DOMAIN profiles'
    PROVE  IsInjective(profiles'[i].followers)
<1>0. PICK P : P = DOMAIN profiles
  OBVIOUS
<1>1. TypedOver(P) /\ P = 1 .. Len(profiles) /\ Len(profiles) \in Nat
  BY <1>0, TypeOver, LenProperties DEF TypedOver
<1>2. \A k \in P : /\ profiles[k] \in Profiles(P) /\ profiles[k].followers \in Seq(P)
                   /\ IsInjective(profiles[k].followers)
  <2>1. \A k \in P : profiles[k] \in Profiles(P)
    BY <1>1, ElementOfSeq DEF TypedOver
  <2> QED BY <1>0, <2>1 DEF Profiles, FollowersOnce
<1>3. CASE UNCHANGED profiles
  BY <1>0, <1>2, <1>3
<1>4. ASSUME NEW r \in Requests, ConnectNewProfile(r)
      PROVE  IsInjective(profiles'[i].followers)
  <2>1. PICK s : profiles' = Append(profiles, NewProfile(Arg[r], s))
    BY <1>4 DEF ConnectNewProfile
  <2>2. /\ DOMAIN profiles' = 1 .. Len(profiles) + 1
        /\ profiles'[Len(profiles) + 1] = NewProfile(Arg[r], s)
        /\ \A k \in P : profiles'[k] = profiles[k]
    BY <1>1, <2>1 DEF TypedOver
  <2>3. IsInjective(NewProfile(Arg[r], s).followers)
    BY DEF NewProfile, IsInjective
  <2>4. i \in P \/ i = Len(profiles) + 1
    BY <1>1, <2>2
  <2> QED BY <1>2, <2>2, <2>3, <2>4
<1>5. ASSUME NEW r \in Requests, ConnectSetSession(r)
      PROVE  IsInjective(profiles'[i].followers)
  <2>1. i \in P
    BY <1>0, <1>5 DEF ConnectSetSession
  <2>2. profiles'[i].followers = profiles[i].followers
    BY <1>0, <1>2, <1>5, <2>1 DEF ConnectSetSession, Profiles
  <2> QED BY <1>2, <2>1, <2>2
<1>6. ASSUME NEW r \in Requests, FollowPush(r), ~UNCHANGED profiles
      PROVE  IsInjective(profiles'[i].followers)
  <2> DEFINE t == req[r]
             old == profiles[t.me].followers
  <2>1. PICK list : /\ profiles' = [profiles EXCEPT ![t.me].followers = list]
                    /\ list \in {Append(old, t.follower), [old EXCEPT ![t.end] = t.follower]}
    BY <1>6 DEF FollowPush
  <2>2. i \in P
    BY <1>0, <2>1
  <2>3. profiles'[i].followers = IF i = t.me THEN list ELSE profiles[i].followers
    BY <1>0, <1>2, <2>1, <2>2 DEF Profiles
  <2>4. CASE i = t.me
    <3>1. old \in Seq(P) /\ IsInjective(old)
      BY <1>2, <2>2, <2>4
    <3>2. t.follower \in P
      BY <1>1, <1>6 DEF FollowPush, Continue, HandlersInside, Inside, TypedOver, Thread
    <3>3. t.follower \notin Range(old)
      BY <1>6 DEF FollowPush, Continue, FollowersOnce
    <3>4. IsInjective(Append(old, t.follower))
      BY <3>1, <3>2, <3>3, AppendOnce
    <3>5. IsInjective([old EXCEPT ![t.end] = t.follower])
      BY <3>1, <3>2, <3>3, AssignOnce
    <3> QED BY <2>1, <2>3, <2>4, <3>4, <3>5
  <2> QED BY <1>2, <2>2, <2>3, <2>4
<1>7. \/ UNCHANGED profiles
      \/ \E r \in Requests : \/ ConnectNewProfile(r) \/ ConnectSetSession(r)
                             \/ FollowPush(r) /\ ~UNCHANGED profiles
  BY DEF Next, RequestStep, WorkerStep, Quiescent, vars, ConnectLookup,
         ConnectStartSession, Disconnect, RequestUserInfo, FollowLookup, FollowBeginPush,
         PostStart, PostPush, WorkerTake, WorkerTakeWild, WorkerRequeue, WorkerSend,
         WorkerFinish
<1> QED BY <1>3, <1>4, <1>5, <1>6, <1>7

LEMMA StepFollowersOnce ==
    ASSUME FollowsOnce, TypeOK, TypeOK', HandlersInside, SocketsConnected, FollowersOnce,
           [Next]_vars
    PROVE  FollowersOnce'
<1>0. DirectoryGrows
  BY StepGrows
<1>1. ASSUME NEW q \in Requests, req'[q].pc \in {"begin", "push"}
      PROVE  /\ req'[q].follower \notin Range(profiles'[req'[q].me].followers)
             /\ \E c \in ConnectRequests :
                    From[c] = From[q] /\ Arg[c] = profiles'[req'[q].follower].handle
  <2>1. PICK me : me = req'[q].me
    OBVIOUS
  <2>2. PICK f : f = req'[q].follower
    OBVIOUS
  <2>3. CASE /\ req[q].pc \in {"begin", "push"}
             /\ req[q].me = me /\ req[q].follower = f
    <3>1. f \in DOMAIN profiles /\ me \in DOMAIN profiles
      BY <2>3 DEF HandlersInside, Inside, TypeOK, Thread
    <3>2. /\ f \notin Range(profiles[me].followers)
          /\ \E c \in ConnectRequests : From[c] = From[q] /\ Arg[c] = profiles[f].handle
      BY <2>3 DEF FollowersOnce
    <3>3. profiles'[f].handle = profiles[f].handle
      BY <1>0, <3>1, RecipientStays
    <3>4. ASSUME f \in Range(profiles'[me].followers) PROVE FALSE
      <4>1. me \in DOMAIN profiles'
        BY <1>0, <3>1, LenProperties DEF TypeOK, DirectoryGrows, Extends
      <4>2. PICK r \in Requests : FollowPush(r) /\ req[r].me = me /\ req[r].follower = f
        BY <3>2, <3>4, <4>1, FollowersFrom
      <4>3. RequestStep(r) /\ req[r].pc = "push"
        BY <4>2 DEF FollowPush, Continue, RequestStep
      <4>4. req'[r].pc = "done"
        BY <4>3, ThreadMoves
      <4>5. q # r
        BY <1>1, <4>4
      <4> QED BY <2>3, <4>2, <4>3, <4>5, FollowsDiffer
    <3> QED BY <2>1, <2>2, <3>2, <3>3, <3>4
  <2>4. CASE \E w \in SenderProfile(q) :
                LET whom == GetProfileByName(profiles, Arg[q]) IN
                /\ FollowLookup(q) /\ whom # 0
                /\ ~Contains(profiles[whom].followers, w)
                /\ me = whom /\ f = w
    <3>1. f \in SenderProfile(q) /\ UNCHANGED profiles /\ me # 0
          /\ me = GetProfileByName(profiles, Arg[q])
          /\ ~Contains(profiles[me].followers, f)
      BY <2>4 DEF FollowLookup
    <3>2. \E c \in ConnectRequests : From[c] = From[q] /\ Arg[c] = profiles[f].handle
      BY <3>1, SenderConnected
    <3>3. me \in DOMAIN profiles
      BY <3>1, Found
    <3>4. profiles[me] \in Profiles(DOMAIN profiles)
      BY <3>3, ElementOfSeq, LenProperties DEF TypeOK
    <3>5. profiles[me].followers \in Seq(DOMAIN profiles)
      BY <3>4 DEF Profiles
    <3>6. f \notin Range(profiles[me].followers)
      BY <3>1, <3>5, LenProperties DEF Contains, Range
    <3> QED BY <2>1, <2>2, <3>1, <3>2, <3>6
  <2> QED BY <1>1, <2>1, <2>2, <2>3, <2>4, AboutToFollow
<1>2. \A i \in DOMAIN profiles' : IsInjective(profiles'[i].followers)
  BY ListsOnce
<1> QED BY <1>1, <1>2 DEF FollowersOnce

-----------------------------------------------------------------------------
(* What SEND puts into the queue.                                          *)

\* One round of SEND's loop.
LEMMA PostRound ==
    ASSUME TypeOK, HandlersInside, NEW r \in Requests, PostPush(r)
    PROVE  LET P == DOMAIN profiles
               left == req[r].left
               n == [post |-> r, to |-> Head(left)]
           IN
           /\ left \in Seq(P) /\ left # <<>> /\ n \in Notifications(P)
           /\ req[r].pc = "post" /\ req'[r].pc \in {"post", "done"}
           /\ req'[r].left \in {<<>>, Tail(left)}
           /\ worker = Idle /\ queue' = Append(queue, n) /\ pushed' = Append(pushed, n)
<1> DEFINE P == DOMAIN profiles
           left == req[r].left
           n == [post |-> r, to |-> Head(left)]
<1>1. req \in [Requests -> Thread(P)] /\ req[r] \in Thread(P)
  BY DEF TypeOK
<1>2. Kind[r] = "send" /\ left # <<>> /\ left \in Seq(P) /\ req[r].pc = "post"
  BY <1>1 DEF PostPush, Continue, HandlersInside, Inside, Thread
<1>3. Head(left) \in P
  BY <1>2, HeadTailProperties
<1>4. n \in Notifications(P)
  BY <1>2, <1>3 DEF Notifications
<1>5. req'[r] = IF Len(left) = 1 THEN Done ELSE [req[r] EXCEPT !.left = Tail(@)]
  BY <1>1 DEF PostPush, Goto
<1>6. /\ Done.pc = "done" /\ Done.left = <<>>
      /\ [req[r] EXCEPT !.left = Tail(@)].pc = "post"
      /\ [req[r] EXCEPT !.left = Tail(@)].left = Tail(left)
  BY <1>1, <1>2 DEF Done, At, Thread
<1>7. req'[r].pc \in {"post", "done"} /\ req'[r].left \in {<<>>, Tail(left)}
  BY <1>5, <1>6
<1> QED BY <1>2, <1>4, <1>7 DEF PostPush

\* The followers that a SEND still has to serve.
LEMMA LeftMoves ==
    ASSUME TypeOK, HandlersInside, NEW r \in Requests, RequestStep(r)
    PROVE  \/ PostPush(r)
           \/ /\ req[r].pc \notin {"post", "done"}
              /\ \/ req'[r].left \in {<<>>, req[r].left}
                 \/ \E me \in DOMAIN profiles : req'[r].left = profiles[me].followers
<1>1. req \in [Requests -> Thread(DOMAIN profiles)] /\ req[r] \in Thread(DOMAIN profiles)
  BY DEF TypeOK
<1>2. \A rec : Goto(r, rec) => req'[r] = rec
  BY <1>1 DEF Goto
<1>3. \A pc : At(pc).left = <<>>
  BY DEF At
<1>4. \A pc, me, f : /\ [At(pc) EXCEPT !.me = me].left = <<>>
                     /\ [At(pc) EXCEPT !.me = me, !.follower = f].left = <<>>
  BY DEF At
<1>5. CASE ConnectLookup(r) \/ ConnectStartSession(r)
  <2>1. \/ \E pc : req'[r] = At(pc)
        \/ \E me : req'[r] = [At("set") EXCEPT !.me = me]
    BY <1>2, <1>5 DEF ConnectLookup, ConnectStartSession, Start
  <2>2. req'[r].left = <<>>
    BY <1>3, <1>4, <2>1, Zenon
  <2> QED BY <1>5, <2>2 DEF ConnectLookup, ConnectStartSession, Receive, Continue
<1>6. CASE ConnectNewProfile(r)
  <2>1. req'[r] = [At("start") EXCEPT !.me = Len(profiles) + 1]
    BY <1>2, <1>6 DEF ConnectNewProfile
  <2>2. req'[r].left = <<>>
    BY <2>1 DEF At
  <2> QED BY <1>6, <2>2 DEF ConnectNewProfile, Continue
<1>7. CASE ConnectSetSession(r) \/ Disconnect(r) \/ RequestUserInfo(r) \/ FollowPush(r)
  <2>1. req'[r] = Done
    BY <1>2, <1>7 DEF ConnectSetSession, Disconnect, RequestUserInfo, FollowPush
  <2>2. req'[r].left = <<>>
    BY <2>1 DEF Done, At
  <2> QED BY <1>7, <2>2 DEF ConnectSetSession, Disconnect, RequestUserInfo, FollowPush,
          Receive, Continue
<1>8. CASE FollowLookup(r)
  <2>1. \/ req'[r] = At("done")
        \/ \E me, f : req'[r] = [At("begin") EXCEPT !.me = me, !.follower = f]
    BY <1>2, <1>8 DEF FollowLookup, Done
  <2>2. req'[r].left = <<>>
    <3>1. ASSUME NEW me, NEW f, req'[r] = [At("begin") EXCEPT !.me = me, !.follower = f]
          PROVE  req'[r].left = <<>>
      BY <3>1 DEF At
    <3> QED BY <1>3, <2>1, <3>1
  <2> QED BY <1>8, <2>2 DEF FollowLookup, Receive
<1>9. CASE FollowBeginPush(r)
  <2>1. req'[r] = [req[r] EXCEPT !.pc = "push",
                                 !.end = Len(profiles[req[r].me].followers) + 1]
    BY <1>2, <1>9 DEF FollowBeginPush
  <2>2. req'[r].left = req[r].left
    BY <1>1, <2>1 DEF Thread
  <2> QED BY <1>9, <2>2 DEF FollowBeginPush, Continue
<1>10. CASE PostStart(r)
  <2>1. \/ req'[r] = At("done")
        \/ \E me \in SenderProfile(r) :
                req'[r] = [At("post") EXCEPT !.left = profiles[me].followers]
    BY <1>2, <1>10 DEF PostStart, Done
  <2>2. ASSUME NEW me \in SenderProfile(r),
               req'[r] = [At("post") EXCEPT !.left = profiles[me].followers]
        PROVE  me \in DOMAIN profiles /\ req'[r].left = profiles[me].followers
    BY <2>2, SenderFound DEF At
  <2> QED BY <1>3, <1>10, <2>1, <2>2 DEF PostStart, Receive
<1> QED BY <1>5, <1>6, <1>7, <1>8, <1>9, <1>10 DEF RequestStep

\* Only SEND queues something for the first time.
LEMMA WhoPushes ==
    ASSUME [Next]_vars
    PROVE  \/ UNCHANGED pushed
           \/ \E r \in Requests : PostPush(r)
BY DEF Next, RequestStep, WorkerStep, Quiescent, vars, sending, ConnectLookup,
       ConnectNewProfile, ConnectStartSession, ConnectSetSession, Disconnect,
       RequestUserInfo, FollowLookup, FollowBeginPush, FollowPush, PostStart,
       WorkerTake, WorkerTakeWild, WorkerRequeue, WorkerSend, WorkerFinish

\* A SEND has not queued the notifications of the followers it still has to serve.
LEMMA PushIsNew ==
    ASSUME TypeOK, HandlersInside, PushedOnce, NEW r \in Requests, PostPush(r)
    PROVE  [post |-> r, to |-> Head(req[r].left)] \notin Range(pushed)
<1> DEFINE n == [post |-> r, to |-> Head(req[r].left)]
<1> SUFFICES ASSUME n \in Range(pushed) PROVE FALSE
  OBVIOUS
<1>1. n.post = r /\ n.to = Head(req[r].left)
  OBVIOUS
<1>2. n.to \notin Range(req[n.post].left)
  BY DEF PushedOnce
<1>3. Head(req[r].left) \in Range(req[r].left)
  BY PostRound, TailOnce
<1> QED BY <1>1, <1>2, <1>3

LEMMA StepPushed ==
    ASSUME TypeOK, TypeOK', HandlersInside, FollowersOnce, PushedOnce, [Next]_vars
    PROVE  PushedOnce'
<1>0. pushed \in Seq(Notifications(DOMAIN profiles))
  BY DEF TypeOK
<1>1. IsInjective(pushed')
  <2>1. CASE UNCHANGED pushed
    BY <2>1 DEF PushedOnce
  <2>2. ASSUME NEW r \in Requests, PostPush(r)
        PROVE  IsInjective(pushed')
    <3>1. PICK n : n = [post |-> r, to |-> Head(req[r].left)]
      OBVIOUS
    <3>2. /\ n \in Notifications(DOMAIN profiles) /\ n \notin Range(pushed)
          /\ pushed' = Append(pushed, n)
      BY <2>2, <3>1, PostRound, PushIsNew
    <3> QED BY <1>0, <3>2, AppendOnce DEF PushedOnce
  <2> QED BY <2>1, <2>2, WhoPushes
<1>2. ASSUME NEW r \in Requests, PostPush(r)
      PROVE  /\ Range(req'[r].left) \subseteq Range(req[r].left) \ {Head(req[r].left)}
             /\ IsInjective(req'[r].left)
  <2> DEFINE left == req[r].left
  <2>1. /\ left \in Seq(DOMAIN profiles) /\ left # <<>> /\ IsInjective(left)
        /\ req'[r].left \in {<<>>, Tail(left)}
    BY <1>2, PostRound DEF PushedOnce
  <2>2. /\ Range(Tail(left)) \subseteq Range(left) \ {Head(left)}
        /\ IsInjective(Tail(left))
    BY <2>1, TailOnce
  <2>3. Range(<<>>) = {} /\ IsInjective(<<>>)
    BY DEF Range, IsInjective
  <2> QED BY <2>1, <2>2, <2>3
<1>3. ASSUME NEW q \in Requests
      PROVE  IsInjective(req'[q].left)
  <2>1. CASE req'[q] = req[q]
    BY <2>1 DEF PushedOnce
  <2>2. CASE RequestStep(q)
    <3>1. CASE PostPush(q)
      BY <1>2, <3>1
    <3>2. CASE req'[q].left \in {<<>>, req[q].left}
      BY <3>2 DEF PushedOnce, IsInjective
    <3>3. CASE \E me \in DOMAIN profiles : req'[q].left = profiles[me].followers
      BY <3>3 DEF FollowersOnce
    <3> QED BY <2>2, <3>1, <3>2, <3>3, LeftMoves
  <2> QED BY <2>1, <2>2, OneThread
<1>4. ASSUME NEW n \in Range(pushed)
      PROVE  req'[n.post].pc \in {"post", "done"} /\ n.to \notin Range(req'[n.post].left)
  <2>1. n.post \in Requests
    <3>1. n \in Notifications(DOMAIN profiles)
      BY <1>0, RangeOfSeq
    <3> QED BY <3>1 DEF Notifications
  <2>2. req[n.post].pc \in {"post", "done"} /\ n.to \notin Range(req[n.post].left)
    BY DEF PushedOnce
  <2>3. req'[n.post].pc \in {"post", "done"}
    BY <2>1, <2>2, Onward
  <2>4. n.to \notin Range(req'[n.post].left)
    BY <1>2, <2>1, <2>2, OneThread, LeftMoves
  <2> QED BY <2>3, <2>4
<1>5. ASSUME NEW n \in Range(pushed')
      PROVE  req'[n.post].pc \in {"post", "done"} /\ n.to \notin Range(req'[n.post].left)
  <2>1. CASE n \in Range(pushed)
    BY <1>4, <2>1
  <2>2. CASE n \notin Range(pushed)
    <3>1. PICK r \in Requests : PostPush(r)
      BY <2>2, WhoPushes
    <3>2. n = [post |-> r, to |-> Head(req[r].left)]
      <4>1. PICK m : m = [post |-> r, to |-> Head(req[r].left)]
        OBVIOUS
      <4>2. m \in Notifications(DOMAIN profiles) /\ pushed' = Append(pushed, m)
        BY <3>1, <4>1, PostRound
      <4>3. Range(pushed') = Range(pushed) \cup {m}
        BY <1>0, <4>2, AppendOnce
      <4> QED BY <2>2, <4>1, <4>3
    <3> QED BY <1>2, <3>1, <3>2, PostRound
  <2> QED BY <2>1, <2>2
<1> QED BY <1>1, <1>3, <1>5 DEF PushedOnce

-----------------------------------------------------------------------------
(* The queue and the worker.                                               *)

\* The steps that move notifications.
LEMMA QueueSteps ==
    ASSUME TypeOK, [Next]_vars
    PROVE  \/ UNCHANGED <<queue, pushed, sent, requeued>> /\ Held' = Held
           \/ \E r \in Requests : PostPush(r)
           \/ \E n : /\ Take(n) /\ Held' = {n}
                     /\ UNCHANGED <<pushed, sent, requeued>>
           \/ WorkerRequeue \/ WorkerSend \/ WorkerFinish
<1>1. CASE UNCHANGED sending
  BY <1>1 DEF sending, Held
<1>2. ASSUME NEW r \in Requests, Disconnect(r)
      PROVE  UNCHANGED <<queue, pushed, sent, requeued>> /\ Held' = Held
  <2>1. worker' = worker \/ (worker # Idle /\ worker' = [worker EXCEPT !.due = @ \ {From[r]}])
    BY <1>2 DEF Disconnect, Sending
  <2>2. ASSUME worker # Idle, worker' = [worker EXCEPT !.due = @ \ {From[r]}]
        PROVE  worker' # Idle /\ worker'.notif = worker.notif
    <3>1. worker \in [pc : {"send"}, notif : Notifications(DOMAIN profiles),
                      due : SUBSET Hosts, i : Nat \ {0}, end : Nat, block : Nat]
      BY <2>2, WorkerSends
    <3>2. worker'.pc = "send" /\ worker'.notif = worker.notif
      BY <2>2, <3>1
    <3>3. Idle.pc = "idle"
      BY DEF Idle
    <3> QED BY <3>2, <3>3
  <2> QED BY <1>2, <2>1, <2>2 DEF Held, Disconnect
<1>3. ASSUME NEW n, NEW end, NEW due, NEW block, worker' = Loop(n, end, due, block)
      PROVE  Held' = {n}
  <2>1. worker'.pc = "send" /\ worker'.notif = n
    BY <1>3 DEF Loop
  <2>2. Idle.pc = "idle"
    BY DEF Idle
  <2> QED BY <2>1, <2>2 DEF Held
<1>4. CASE WorkerTake \/ WorkerTakeWild
  <2>1. /\ UNCHANGED <<pushed, sent, requeued>>
        /\ \E n, end, due, block : Take(n) /\ worker' = Loop(n, end, due, block)
    BY <1>4 DEF WorkerTake, WorkerTakeWild
  <2> QED BY <1>3, <2>1
<1>5. \/ UNCHANGED sending
      \/ \E r \in Requests : Disconnect(r) \/ PostPush(r)
      \/ WorkerTake \/ WorkerTakeWild \/ WorkerRequeue \/ WorkerSend \/ WorkerFinish
  BY DEF Next, RequestStep, WorkerStep, Quiescent, vars, ConnectLookup,
         ConnectNewProfile, ConnectStartSession, ConnectSetSession,
         RequestUserInfo, FollowLookup, FollowBeginPush, FollowPush, PostStart
<1> QED BY <1>1, <1>2, <1>4, <1>5

\* Taking the first notification from the queue.
LEMMA Taken ==
    ASSUME TypeOK, IsInjective(queue), NEW n, Take(n)
    PROVE  /\ Range(queue') = Range(queue) \ {n} /\ n \in Range(queue)
           /\ IsInjective(queue') /\ Held = {}
<1>1. /\ queue \in Seq(Notifications(DOMAIN profiles)) /\ queue # <<>>
      /\ n = Head(queue) /\ queue' = Tail(queue)
  BY DEF TypeOK, Take
<1>2. /\ Range(queue) = {n} \cup Range(queue')
      /\ IsInjective(queue') /\ n \notin Range(queue')
  BY <1>1, TailOnce
<1> QED BY <1>2 DEF Take, Held

\* What the worker puts back stays in the queue.
LEMMA Requeued ==
    ASSUME TypeOK, IsInjective(queue), WorkerRequeue
    PROVE  /\ Range(queue') = Range(queue) /\ IsInjective(queue')
           /\ Held = {} /\ Held' = {} /\ UNCHANGED <<pushed, sent>>
<1>1. /\ queue \in Seq(Notifications(DOMAIN profiles)) /\ queue # <<>>
      /\ queue' = Append(Tail(queue), Head(queue))
  BY DEF TypeOK, WorkerRequeue
<1>2. /\ Range(queue) = {Head(queue)} \cup Range(Tail(queue))
      /\ IsInjective(Tail(queue)) /\ Head(queue) \notin Range(Tail(queue))
  BY <1>1, TailOnce
<1>3. /\ Head(queue) \in Notifications(DOMAIN profiles)
      /\ Tail(queue) \in Seq(Notifications(DOMAIN profiles))
  BY <1>1, HeadTailProperties
<1>4. Range(queue') = Range(Tail(queue)) \cup {Head(queue)} /\ IsInjective(queue')
  <2>1. PICK h, t : h = Head(queue) /\ t = Tail(queue)
    OBVIOUS
  <2>2. Range(Append(t, h)) = Range(t) \cup {h} /\ IsInjective(Append(t, h))
    <3>1. /\ t \in Seq(Notifications(DOMAIN profiles)) /\ h \in Notifications(DOMAIN profiles)
          /\ IsInjective(t) /\ h \notin Range(t)
      BY <1>2, <1>3, <2>1, Zenon
    <3> QED BY <3>1, AppendOnce
  <2> QED BY <1>1, <2>1, <2>2
<1> QED BY <1>2, <1>4 DEF WorkerRequeue, Held

\* One round of the loop sends to one socket, or to nobody.
LEMMA Sent ==
    ASSUME TypeOK, WorkerSend
    PROVE  LET s == SocketsOf(worker.notif.to) IN
           /\ worker # Idle /\ worker' # Idle
           /\ worker'.notif = worker.notif /\ worker'.i = worker.i + 1
           /\ worker.i \in Nat \ {0} /\ s \in Seq(Hosts)
           /\ UNCHANGED <<profiles, sessions, req, queue, pushed, disturbed, requeued>>
           /\ Held' = {worker.notif}
           /\ \/ UNCHANGED sent
              \/ /\ worker.i \in DOMAIN s
                 /\ sent' = Append(sent, [notif |-> worker.notif, socket |-> s[worker.i]])
<1> DEFINE s == SocketsOf(worker.notif.to)
<1>1. /\ worker # Idle
      /\ UNCHANGED <<profiles, sessions, req, queue, pushed, disturbed, requeued>>
  BY DEF WorkerSend, table
<1>2. /\ worker \in [pc : {"send"}, notif : Notifications(DOMAIN profiles),
                     due : SUBSET Hosts, i : Nat \ {0}, end : Nat, block : Nat]
      /\ worker.i \in Nat \ {0} /\ s \in Seq(Hosts)
  BY <1>1, WorkerSends
<1>3. PICK socket : /\ socket \in {{}, {s[worker.i]}} /\ Reply(socket)
                    /\ worker.i > Len(s) => socket = {}
                    /\ worker' = [worker EXCEPT !.i = @ + 1, !.due = @ \ socket]
  BY DEF WorkerSend
<1>4. /\ worker'.pc = "send" /\ worker'.notif = worker.notif
      /\ worker'.i = worker.i + 1
  BY <1>2, <1>3
<1>5. worker' # Idle
  BY <1>4 DEF Idle
<1>6. \/ UNCHANGED sent
      \/ /\ worker.i \in DOMAIN s
         /\ sent' = Append(sent, [notif |-> worker.notif, socket |-> s[worker.i]])
  <2>1. CASE socket = {}
    BY <1>3, <2>1 DEF Reply
  <2>2. CASE socket = {s[worker.i]}
    <3>1. ~(worker.i > Len(s))
      BY <1>3, <2>2
    <3>2. worker.i \in DOMAIN s
      BY <1>2, <3>1, LenProperties
    <3> QED BY <1>3, <2>2, <3>2 DEF Reply
  <2> QED BY <1>3, <2>1, <2>2
<1> QED BY <1>1, <1>2, <1>4, <1>5, <1>6 DEF Held

LEMMA StepOnePlace ==
    ASSUME TypeOK, HandlersInside, PushedOnce, OnePlace, [Next]_vars
    PROVE  OnePlace'
<1>0. pushed \in Seq(Notifications(DOMAIN profiles))
      /\ queue \in Seq(Notifications(DOMAIN profiles))
  BY DEF TypeOK
<1>1. /\ IsInjective(queue) /\ Range(queue) \subseteq Range(pushed)
      /\ Held \subseteq Range(pushed) \ Range(queue)
      /\ \A k \in DOMAIN sent : sent[k].notif \in Range(pushed) \ Range(queue)
  BY DEF OnePlace, Held
<1> SUFFICES /\ IsInjective(queue') /\ Range(queue') \subseteq Range(pushed')
             /\ Held' \subseteq Range(pushed') \ Range(queue')
             /\ \A k \in DOMAIN sent' : sent'[k].notif \in Range(pushed') \ Range(queue')
  BY DEF OnePlace, Held
<1>2. CASE UNCHANGED <<queue, pushed, sent, requeued>> /\ Held' = Held
  BY <1>1, <1>2
<1>3. ASSUME NEW r \in Requests, PostPush(r)
      PROVE  /\ IsInjective(queue') /\ Range(queue') \subseteq Range(pushed')
             /\ Held' \subseteq Range(pushed') \ Range(queue')
             /\ \A k \in DOMAIN sent' : sent'[k].notif \in Range(pushed') \ Range(queue')
  <2>1. PICK n : n = [post |-> r, to |-> Head(req[r].left)]
    OBVIOUS
  <2>2. /\ n \in Notifications(DOMAIN profiles) /\ n \notin Range(pushed)
        /\ pushed' = Append(pushed, n) /\ queue' = Append(queue, n)
    BY <1>3, <2>1, PostRound, PushIsNew
  <2>3. /\ Range(pushed') = Range(pushed) \cup {n} /\ Range(queue') = Range(queue) \cup {n}
        /\ IsInjective(queue')
    BY <1>0, <1>1, <2>2, AppendOnce
  <2>4. Held' = {} /\ UNCHANGED sent
    BY <1>3 DEF PostPush, Held
  <2> QED BY <1>1, <2>2, <2>3, <2>4
<1>4. ASSUME NEW n, Take(n), Held' = {n}, UNCHANGED <<pushed, sent, requeued>>
      PROVE  /\ IsInjective(queue') /\ Range(queue') \subseteq Range(pushed')
             /\ Held' \subseteq Range(pushed') \ Range(queue')
             /\ \A k \in DOMAIN sent' : sent'[k].notif \in Range(pushed') \ Range(queue')
  BY <1>1, <1>4, Taken
<1>5. CASE WorkerRequeue
  BY <1>1, <1>5, Requeued
<1>6. CASE WorkerSend
  <2>1. UNCHANGED <<queue, pushed>> /\ Held' = Held /\ worker.notif \in Held
    BY <1>6, Sent DEF Held
  <2>2. \/ UNCHANGED sent
        \/ \E h : sent' = Append(sent, [notif |-> worker.notif, socket |-> h])
    BY <1>6, Sent
  <2>3. \A k \in DOMAIN sent' : \/ k \in DOMAIN sent /\ sent'[k] = sent[k]
                                \/ sent'[k].notif = worker.notif
    <3>1. ASSUME NEW h, sent' = Append(sent, [notif |-> worker.notif, socket |-> h]),
                 NEW k \in DOMAIN sent'
          PROVE  \/ k \in DOMAIN sent /\ sent'[k] = sent[k]
                 \/ sent'[k].notif = worker.notif
      <4>1. sent \in Seq([notif : Notifications(DOMAIN profiles), socket : Hosts])
        BY DEF TypeOK
      <4>2. sent'[k] = [notif |-> worker.notif, socket |-> h]
            \/ (k \in DOMAIN sent /\ sent'[k] = sent[k])
        <5> DEFINE R == [notif : Notifications(DOMAIN profiles), socket : Hosts]
        <5> HIDE DEF R
        <5>1. sent \in Seq(R)
          BY <4>1 DEF R
        <5>2. PICK x : x = [notif |-> worker.notif, socket |-> h]
          OBVIOUS
        <5>3. sent' = Append(sent, x)
          BY <3>1, <5>2
        <5> QED BY <5>1, <5>2, <5>3
      <4> QED BY <4>2
    <3> QED BY <2>2, <3>1
  <2> QED BY <1>1, <2>1, <2>3
<1>7. CASE WorkerFinish
  BY <1>1, <1>7 DEF WorkerFinish, Held
<1> QED BY <1>2, <1>3, <1>4, <1>5, <1>6, <1>7, QueueSteps

-----------------------------------------------------------------------------
(* Who gets a notification.                                                *)

\* The sockets that a notification was sent to, and the ones ahead of the worker.
SentTo(n) == {sent[k].socket : k \in {j \in DOMAIN sent : sent[j].notif = n}}

LEMMA SentOnceParts ==
    SentOnce <=>
        /\ \A u \in Users : IsInjective(sessions[u])
        /\ \A k \in DOMAIN sent : \E c \in ConnectRequests :
            From[c] = sent[k].socket /\ req[c].pc \in {"set", "done"}
        /\ worker # Idle =>
            \A j \in DOMAIN SocketsOf(worker.notif.to) :
                j >= worker.i => SocketsOf(worker.notif.to)[j] \notin SentTo(worker.notif)
BY DEF SentOnce, SentTo

\* The steps that change sessions.
LEMMA SessionSteps ==
    ASSUME TypeOK, HandlersInside, [Next]_vars
    PROVE  \/ UNCHANGED sessions
           \/ \E r \in ConnectRequests :
                /\ req[r].pc \in {"idle", "start"} /\ UNCHANGED <<up, profiles, sending>>
                /\ sessions' = StartSession(sessions, Arg[r], From[r])
           \/ \E r \in Requests :
                Disconnect(r) /\ sessions' = EndSession(sessions, Arg[r], From[r])
<1>1. ASSUME NEW r \in Requests, ConnectLookup(r), ~UNCHANGED sessions
      PROVE  /\ r \in ConnectRequests /\ req[r].pc = "idle"
             /\ sessions' = StartSession(sessions, Arg[r], From[r])
             /\ UNCHANGED <<up, profiles, sending>>
  BY <1>1 DEF ConnectLookup, Start, Receive, ConnectRequests, table
<1>2. ASSUME NEW r \in Requests, ConnectStartSession(r)
      PROVE  /\ r \in ConnectRequests /\ req[r].pc = "start"
             /\ sessions' = StartSession(sessions, Arg[r], From[r])
             /\ UNCHANGED <<up, profiles, sending>>
  BY <1>2 DEF ConnectStartSession, Start, Continue, HandlersInside, Inside
<1>3. ASSUME NEW r \in Requests, Disconnect(r), ~UNCHANGED sessions
      PROVE  sessions' = EndSession(sessions, Arg[r], From[r])
  BY <1>3 DEF Disconnect
<1>4. \/ UNCHANGED sessions
      \/ \E r \in Requests : \/ ConnectLookup(r) /\ ~UNCHANGED sessions
                             \/ ConnectStartSession(r)
                             \/ Disconnect(r) /\ ~UNCHANGED sessions
  BY DEF Next, RequestStep, WorkerStep, Quiescent, vars, table, ConnectNewProfile,
         ConnectSetSession, RequestUserInfo, FollowLookup, FollowBeginPush, FollowPush,
         PostStart, PostPush, WorkerTake, WorkerTakeWild, WorkerRequeue, WorkerSend,
         WorkerFinish
<1> QED BY <1>1, <1>2, <1>3, <1>4

\* A socket that still has to connect is in no session and has got nothing.
LEMMA FreshSocket ==
    ASSUME ConnectsOnce, SocketsConnected, SentOnce,
           NEW r \in ConnectRequests, req[r].pc \in {"idle", "start"}
    PROVE  /\ \A u \in Users : From[r] \notin Range(sessions[u])
           /\ \A k \in DOMAIN sent : sent[k].socket # From[r]
<1>1. ASSUME NEW c \in ConnectRequests, From[c] = From[r], req[c].pc \in {"set", "done"}
      PROVE  FALSE
  BY <1>1 DEF ConnectsOnce
<1>2. \A u \in Users : From[r] \notin Range(sessions[u])
  BY <1>1 DEF SocketsConnected, ConnectsOf
<1>3. \A k \in DOMAIN sent : sent[k].socket # From[r]
  BY <1>1 DEF SentOnce
<1> QED BY <1>2, <1>3

\* No session has a socket twice.
LEMMA SessionsOnce ==
    ASSUME ConnectsOnce, TypeOK, HandlersInside, SocketsConnected, SentOnce, [Next]_vars,
           NEW u \in Users
    PROVE  IsInjective(sessions'[u])
<1>1. sessions[u] \in Seq(Hosts) /\ IsInjective(sessions[u]) /\ u \in DOMAIN sessions
  BY DEF TypeOK, SentOnce
<1>2. CASE UNCHANGED sessions
  BY <1>1, <1>2
<1>3. ASSUME NEW r \in ConnectRequests, req[r].pc \in {"idle", "start"},
             sessions' = StartSession(sessions, Arg[r], From[r])
      PROVE  IsInjective(sessions'[u])
  <2>1. sessions'[u] = sessions[u] \/ sessions'[u] = Append(sessions[u], From[r])
    BY <1>1, <1>3 DEF StartSession
  <2>2. From[r] \notin Range(sessions[u]) /\ From[r] \in Hosts
    BY <1>3, FreshSocket, RequestType
  <2>3. IsInjective(Append(sessions[u], From[r]))
    BY <1>1, <2>2, AppendOnce
  <2> QED BY <1>1, <2>1, <2>3
<1>4. ASSUME NEW r \in Requests, sessions' = EndSession(sessions, Arg[r], From[r])
      PROVE  IsInjective(sessions'[u])
  <2>1. sessions'[u] = sessions[u] \/ sessions'[u] = RemoveFirst(sessions[u], From[r])
    BY <1>1, <1>4 DEF EndSession
  <2> QED BY <1>1, <2>1, RemoveFirstOnce
<1> QED BY <1>2, <1>3, <1>4, SessionSteps

\* What WorkerSend adds to the history.
LEMMA SentGrows ==
    ASSUME TypeOK, [Next]_vars, NEW k \in DOMAIN sent'
    PROVE  \/ k \in DOMAIN sent /\ sent'[k] = sent[k]
           \/ LET s == SocketsOf(worker.notif.to) IN
              /\ WorkerSend /\ worker.i \in DOMAIN s
              /\ sent'[k] = [notif |-> worker.notif, socket |-> s[worker.i]]
              /\ sent'[k].notif = worker.notif /\ sent'[k].socket = s[worker.i]
              /\ k = Len(sent) + 1
<1>1. CASE UNCHANGED sent
  BY <1>1
<1>2. CASE WorkerSend /\ ~UNCHANGED sent
  <2> DEFINE s == SocketsOf(worker.notif.to)
             R == [notif : Notifications(DOMAIN profiles), socket : Hosts]
  <2>1. PICK x : x = [notif |-> worker.notif, socket |-> s[worker.i]]
    OBVIOUS
  <2>2. worker.i \in DOMAIN s /\ sent' = Append(sent, x)
    BY <1>2, <2>1, Sent
  <2>3. x.notif = worker.notif /\ x.socket = s[worker.i]
    BY <2>1
  <2>4. sent \in Seq(R)
    BY DEF TypeOK
  <2>0. x \in R
    <3>1. /\ worker.notif \in Notifications(DOMAIN profiles) /\ s \in Seq(Hosts)
          /\ DOMAIN s = 1 .. Len(s)
      BY <1>2, Sent, WorkerSends, LenProperties
    <3>2. s[worker.i] \in Hosts
      BY <2>2, <3>1, ElementOfSeq
    <3> QED BY <2>1, <3>1, <3>2
  <2> HIDE DEF R, s
  <2>5. \/ k \in DOMAIN sent /\ sent'[k] = sent[k]
        \/ sent'[k] = x /\ k = Len(sent) + 1
    <3>1. /\ DOMAIN sent = 1 .. Len(sent) /\ Len(sent) \in Nat
          /\ DOMAIN sent' = 1 .. Len(sent) + 1 /\ sent'[Len(sent) + 1] = x
          /\ \A j \in 1 .. Len(sent) : sent'[j] = sent[j]
      BY <2>0, <2>2, <2>4, AppendProperties, LenProperties
    <3> QED BY <3>1
  <2>6. ASSUME sent'[k] = x, k = Len(sent) + 1
        PROVE  /\ WorkerSend /\ worker.i \in DOMAIN s
               /\ sent'[k] = [notif |-> worker.notif, socket |-> s[worker.i]]
               /\ sent'[k].notif = worker.notif /\ sent'[k].socket = s[worker.i]
               /\ k = Len(sent) + 1
    BY <1>2, <2>1, <2>2, <2>3, <2>6
  <2> QED BY <2>5, <2>6 DEF s
<1>3. UNCHANGED sent \/ WorkerSend
  BY DEF Next, RequestStep, WorkerStep, Quiescent, vars, sending, ConnectLookup,
         ConnectNewProfile, ConnectStartSession, ConnectSetSession, Disconnect,
         RequestUserInfo, FollowLookup, FollowBeginPush, FollowPush, PostStart, PostPush,
         WorkerTake, WorkerTakeWild, WorkerRequeue, WorkerFinish
<1> QED BY <1>1, <1>2, <1>3

\* A notification goes only to sockets that have connected.
LEMMA SentConnected ==
    ASSUME TypeOK, HandlersInside, SocketsConnected, SentOnce, [Next]_vars,
           NEW k \in DOMAIN sent'
    PROVE  \E c \in ConnectRequests :
               From[c] = sent'[k].socket /\ req'[c].pc \in {"set", "done"}
<1>1. CASE k \in DOMAIN sent /\ sent'[k] = sent[k]
  BY <1>1, Onward DEF SentOnce, ConnectRequests
<1>2. ASSUME WorkerSend, worker.i \in DOMAIN SocketsOf(worker.notif.to),
             sent'[k].socket = SocketsOf(worker.notif.to)[worker.i]
      PROVE  \E c \in ConnectRequests :
                 From[c] = sent'[k].socket /\ req'[c].pc \in {"set", "done"}
  <2> DEFINE u == profiles[worker.notif.to].handle
  <2>1. u \in Users /\ UNCHANGED req
    BY <1>2, Sent, WorkerSends
  <2>2. sent'[k].socket \in Range(sessions[u])
    BY <1>2 DEF SocketsOf, Range
  <2>3. \E c \in ConnectsOf(u) : From[c] = sent'[k].socket /\ req[c].pc \in {"set", "done"}
    BY <2>1, <2>2 DEF SocketsConnected
  <2> QED BY <2>1, <2>3 DEF ConnectsOf
<1> QED BY <1>1, <1>2, SentGrows

\* The worker is not going to send to a socket what it has sent to it already.
Ahead ==
    worker # Idle =>
        \A j \in DOMAIN SocketsOf(worker.notif.to) :
            j >= worker.i => SocketsOf(worker.notif.to)[j] \notin SentTo(worker.notif)

\* Others change the session under the worker.
LEMMA AheadStays ==
    ASSUME ConnectsOnce, TypeOK, HandlersInside, SocketsConnected, SentOnce, [Next]_vars,
           worker # Idle, worker' # Idle, worker'.notif = worker.notif,
           worker'.i = worker.i, UNCHANGED sent
    PROVE  Ahead'
<1> DEFINE u == profiles[worker.notif.to].handle
           s == sessions[u]
<1>1. u \in Users /\ s \in Seq(Hosts) /\ worker.i \in Nat /\ worker.notif.to \in DOMAIN profiles
  BY WorkerSends DEF SocketsOf
<1>2. profiles'[worker.notif.to].handle = u
  BY <1>1, StepGrows, RecipientStays
<1>3. SentTo(worker.notif)' = SentTo(worker.notif)
  BY DEF SentTo
<1>4. \A j \in DOMAIN s : j >= worker.i => s[j] \notin SentTo(worker.notif)
  BY SentOnceParts DEF SocketsOf
<1>5. u \in DOMAIN sessions
  BY <1>1 DEF TypeOK
<1>6. PICK x : x = SentTo(worker.notif)
  OBVIOUS
<1> HIDE DEF u, s
<1>7. \A j \in DOMAIN sessions'[u] : j >= worker.i => sessions'[u][j] \notin x
  <2>1. CASE UNCHANGED sessions
    BY <1>4, <1>6, <2>1 DEF s
  <2>2. ASSUME NEW r \in ConnectRequests, req[r].pc \in {"idle", "start"},
               sessions' = StartSession(sessions, Arg[r], From[r])
        PROVE  \A j \in DOMAIN sessions'[u] : j >= worker.i => sessions'[u][j] \notin x
    <3>1. sessions'[u] = s \/ sessions'[u] = Append(s, From[r])
      BY <1>5, <2>2 DEF StartSession, s
    <3>2. From[r] \notin x
      BY <1>6, <2>2, FreshSocket DEF SentTo
    <3>3. CASE sessions'[u] = s
      BY <1>4, <1>6, <3>3
    <3>4. CASE sessions'[u] = Append(s, From[r])
      BY <1>1, <1>4, <1>6, <3>2, <3>4
    <3> QED BY <3>1, <3>3, <3>4
  <2>3. ASSUME NEW r \in Requests, sessions' = EndSession(sessions, Arg[r], From[r])
        PROVE  \A j \in DOMAIN sessions'[u] : j >= worker.i => sessions'[u][j] \notin x
    <3> DEFINE t == RemoveFirst(s, From[r])
    <3>1. sessions'[u] = s \/ sessions'[u] = t
      BY <1>5, <2>3 DEF EndSession, s
    <3>2. CASE ~Contains(s, From[r])
      <4>1. t = s
        BY <3>2 DEF RemoveFirst, Contains
      <4> QED BY <1>4, <1>6, <3>1, <4>1
    <3>3. CASE Contains(s, From[r])
      <4>1. PICK m \in 1 .. Len(s) :
                /\ s[m] = From[r] /\ Len(t) = Len(s) - 1
                /\ \A k \in 1 .. Len(s) - 1 : t[k] = IF k < m THEN s[k] ELSE s[k + 1]
        BY <1>1, <3>3, RemoveFirstShape
      <4>2. t \in Seq(Hosts)
        BY <1>1, RemoveFirstType
      <4> HIDE DEF t
      <4>3. DOMAIN t = 1 .. Len(s) - 1 /\ DOMAIN s = 1 .. Len(s) /\ Len(s) \in Nat
        BY <1>1, <4>1, <4>2, LenProperties
      <4>4. ASSUME NEW j \in DOMAIN t, j >= worker.i
            PROVE  t[j] \notin x
        <5>1. /\ j \in DOMAIN s /\ j + 1 \in DOMAIN s /\ j + 1 >= worker.i
          BY <1>1, <4>3, <4>4
        <5>2. t[j] = s[j] \/ t[j] = s[j + 1]
          BY <4>1, <4>3
        <5> QED BY <1>4, <1>6, <4>4, <5>1, <5>2
      <4> QED BY <1>4, <1>6, <3>1, <4>4
    <3> QED BY <3>2, <3>3
  <2> QED BY <2>1, <2>2, <2>3, SessionSteps
<1>8. SocketsOf(worker.notif.to)' = sessions'[u] /\ SentTo(worker.notif)' = x
  BY <1>2, <1>3, <1>6 DEF SocketsOf
<1> QED BY <1>7, <1>8 DEF Ahead

LEMMA StepAhead ==
    ASSUME ConnectsOnce, TypeOK, HandlersInside, SocketsConnected, OnePlace, SentOnce,
           [Next]_vars
    PROVE  Ahead'
<1>1. CASE worker' = Idle
  BY <1>1 DEF Ahead
<1>2. CASE worker # Idle /\ UNCHANGED <<worker, sent>>
  BY <1>2, AheadStays DEF Ahead
<1>3. CASE worker = Idle /\ UNCHANGED worker
  BY <1>3 DEF Ahead
<1>4. ASSUME NEW r \in Requests, Disconnect(r), ~UNCHANGED worker
      PROVE  Ahead'
  <2>1. /\ worker # Idle /\ worker' = [worker EXCEPT !.due = @ \ {From[r]}]
        /\ UNCHANGED sent
    BY <1>4 DEF Disconnect, Sending
  <2>2. worker \in [pc : {"send"}, notif : Notifications(DOMAIN profiles),
                    due : SUBSET Hosts, i : Nat \ {0}, end : Nat, block : Nat]
    BY <2>1, WorkerSends
  <2>3. worker'.pc = "send" /\ worker'.notif = worker.notif /\ worker'.i = worker.i
    BY <2>1, <2>2
  <2>4. worker' # Idle
    BY <2>3 DEF Idle
  <2> QED BY <2>1, <2>3, <2>4, AheadStays
<1>5. CASE WorkerTake \/ WorkerTakeWild
  <2>1. /\ UNCHANGED sent
        /\ \E n, end, due, block : Take(n) /\ worker' = Loop(n, end, due, block)
    BY <1>5 DEF WorkerTake, WorkerTakeWild
  <2>2. PICK n : Take(n) /\ worker'.notif = n
    BY <2>1 DEF Loop
  <2>3. n \in Range(queue)
    BY <2>2, Taken DEF OnePlace
  <2>4. \A k \in DOMAIN sent' : sent'[k].notif # worker'.notif
    BY <2>1, <2>2, <2>3 DEF OnePlace
  <2>5. SentTo(worker.notif)' = {}
    BY <2>4 DEF SentTo
  <2> QED BY <2>5 DEF Ahead
<1>6. CASE WorkerSend
  <2> DEFINE s == SocketsOf(worker.notif.to)
  <2>1. /\ worker # Idle /\ worker'.notif = worker.notif /\ worker'.i = worker.i + 1
        /\ worker.i \in Nat \ {0} /\ s \in Seq(Hosts) /\ UNCHANGED <<profiles, sessions>>
    BY <1>6, Sent
  <2>2. SocketsOf(worker.notif.to)' = s
    BY <2>1 DEF SocketsOf
  <2>3. \A h \in SentTo(worker.notif)' :
            h \in SentTo(worker.notif) \/ (worker.i \in DOMAIN s /\ h = s[worker.i])
    BY <2>1, SentGrows DEF SentTo
  <2>4. \A j \in DOMAIN s : j >= worker.i => s[j] \notin SentTo(worker.notif)
    BY <2>1, SentOnceParts
  <2>5. IsInjective(s)
    BY <2>1, WorkerSends, SentOnceParts DEF SocketsOf
  <2> HIDE DEF s
  <2>6. ASSUME NEW j \in DOMAIN s, j >= worker.i + 1
        PROVE  s[j] \notin SentTo(worker.notif)'
    <3>1. j \in Nat /\ j >= worker.i /\ j # worker.i
      BY <2>1, <2>6, LenProperties
    <3>2. worker.i \in DOMAIN s => s[j] # s[worker.i]
      BY <2>5, <3>1 DEF IsInjective
    <3> QED BY <2>3, <2>4, <3>1, <3>2
  <2> QED BY <2>1, <2>2, <2>6 DEF Ahead
<1>7. CASE WorkerFinish
  BY <1>1, <1>7 DEF WorkerFinish
<1>8. \/ UNCHANGED <<worker, sent>>
      \/ \E r \in Requests : Disconnect(r)
      \/ WorkerTake \/ WorkerTakeWild \/ WorkerSend \/ WorkerFinish
  BY DEF Next, RequestStep, WorkerStep, Quiescent, vars, sending, ConnectLookup,
         ConnectNewProfile, ConnectStartSession, ConnectSetSession,
         RequestUserInfo, FollowLookup, FollowBeginPush, FollowPush, PostStart, PostPush,
         WorkerRequeue
<1>9. \A r \in Requests : Disconnect(r) => UNCHANGED sent
  BY DEF Disconnect
<1> QED BY <1>2, <1>3, <1>4, <1>5, <1>6, <1>7, <1>8, <1>9

LEMMA StepSentOnce ==
    ASSUME ConnectsOnce, TypeOK, HandlersInside, SocketsConnected, OnePlace, SentOnce,
           [Next]_vars
    PROVE  SentOnce'
<1>1. \A u \in Users : IsInjective(sessions'[u])
  BY SessionsOnce
<1>2. \A k \in DOMAIN sent' : \E c \in ConnectRequests :
        From[c] = sent'[k].socket /\ req'[c].pc \in {"set", "done"}
  BY SentConnected
<1>3. Ahead'
  BY StepAhead
<1> QED BY <1>1, <1>2, <1>3 DEF SentOnce, Ahead, SentTo

-----------------------------------------------------------------------------
(* The inductive invariant.                                                *)

LEMMA InitDelivery == Init => DeliveryInv
<1> SUFFICES ASSUME Init PROVE DeliveryInv
  OBVIOUS
<1>1. DirectoryInv
  BY InitDirectory
<1>2. WorkerUndisturbed /\ OnePlace
  BY DEF Init, WorkerUndisturbed, OnePlace, IsInjective, Range
<1>3. \A r \in Requests : req[r] = At("idle")
  BY DEF Init
<1>4. IsInjective(<<>>) /\ Range(<<>>) = {}
  BY DEF IsInjective, Range
<1>5. FollowersOnce
  <2>1. \A i \in DOMAIN profiles : IsInjective(profiles[i].followers)
    BY ServerAssumption DEF Init, NewProfile
  <2>2. \A r \in Requests : req[r].pc = "idle"
    BY <1>3 DEF At
  <2> QED BY <2>1, <2>2 DEF FollowersOnce
<1>6. PushedOnce
  <2>1. \A r \in Requests : req[r].left = <<>>
    BY <1>3 DEF At
  <2> QED BY <1>4, <2>1 DEF Init, PushedOnce
<1>7. SentOnce
  BY <1>4 DEF Init, SentOnce
<1> QED BY <1>1, <1>2, <1>5, <1>6, <1>7 DEF DeliveryInv

LEMMA StepDelivery ==
    ASSUME ConnectsOnce, FollowsOnce, DeliveryInv, [Next]_vars
    PROVE  DeliveryInv'
<1>1. /\ DirectoryInv /\ WorkerUndisturbed /\ FollowersOnce
      /\ PushedOnce /\ OnePlace /\ SentOnce
      /\ TypeOK /\ HandlersInside /\ SocketsConnected
  BY DEF DeliveryInv, DirectoryInv
<1>2. DirectoryInv' /\ TypeOK'
  BY <1>1, StepDirectory DEF DirectoryInv
<1>3. WorkerUndisturbed'
  BY <1>1, StepUndisturbed
<1>4. FollowersOnce'
  BY <1>1, <1>2, StepFollowersOnce
<1>5. PushedOnce'
  BY <1>1, <1>2, StepPushed
<1>6. OnePlace'
  BY <1>1, StepOnePlace
<1>7. SentOnce'
  BY <1>1, StepSentOnce
<1> QED BY <1>2, <1>3, <1>4, <1>5, <1>6, <1>7 DEF DeliveryInv

LEMMA DeliveryCorrect ==
    ASSUME ConnectsOnce, FollowsOnce
    PROVE  Spec => []DeliveryInv
<1>1. DeliveryInv /\ [Next]_vars => DeliveryInv'
  BY StepDelivery
<1> QED BY <1>1, InitDelivery, PTL DEF Spec

-----------------------------------------------------------------------------
(* Handlers and worker implement Delivery.                                 *)

\* The notifications that can ever exist include all that do.
LEMMA NotificationKnown ==
    ASSUME TypeOK, DirectoryBounded, NEW n \in Notifications(DOMAIN profiles)
    PROVE  n \in Notification
<1> DEFINE Left == {r \in Newcomers : req[r].pc \in {"idle", "new"}}
<1>1. IsFiniteSet(Newcomers)
  BY RequestType, ServerAssumption, FS_Subset
<1>2. Cardinality(Left) \in Nat /\ Cardinality(Newcomers) \in Nat
  BY <1>1, FS_Subset, FS_CardinalityType
<1>3. /\ Len(profiles) + Cardinality(Left) <= Len(Existing) + Cardinality(Newcomers)
      /\ Len(profiles) \in Nat /\ Len(Existing) \in Nat /\ DOMAIN profiles = 1 .. Len(profiles)
  BY RequestType, LenProperties DEF DirectoryBounded, TypeOK
<1> HIDE DEF Left
<1>4. DOMAIN profiles \subseteq Positions
  BY <1>2, <1>3 DEF Positions
<1> QED BY <1>4, TypesGrow DEF Notification

\* A change of the session is a Disturb of the notification that is being sent.
LEMMA RefineDisturb ==
    ASSUME TypeOK, DirectoryBounded, NEW u, Disturb(u),
           UNCHANGED <<queue, pushed, sent>>, Held' = Held
    PROVE  Promise!Next \/ UNCHANGED Promise!vars
<1>1. UNCHANGED <<Pending, Finished, sent>>
  BY DEF Pending, Finished
<1>2. CASE Sending(u)
  <2>1. worker # Idle /\ worker.notif \in Pending
    BY <1>2 DEF Sending, Pending, Held
  <2>2. worker.notif \in Notification
    BY <2>1, WorkerSends, NotificationKnown
  <2>3. Promise!Disturb(worker.notif)
    BY <1>1, <1>2, <2>1 DEF Disturb, Promise!Disturb
  <2> QED BY <2>2, <2>3 DEF Promise!Next
<1>3. CASE ~Sending(u)
  BY <1>1, <1>3 DEF Disturb, Promise!vars
<1> QED BY <1>2, <1>3

LEMMA RefineStep ==
    ASSUME DeliveryInv, [Next]_vars
    PROVE  [Promise!Next]_(Promise!vars)
<1>0. /\ TypeOK /\ HandlersInside /\ DirectoryBounded
      /\ WorkerUndisturbed /\ PushedOnce /\ OnePlace /\ SentOnce
  BY DEF DeliveryInv, DirectoryInv
<1>1. CASE UNCHANGED <<sending, disturbed>>
  BY <1>1 DEF Promise!vars, Pending, Finished, Held, sending
<1>2. ASSUME NEW r \in Requests, NEW me, Start(r, me), UNCHANGED sending
      PROVE  Promise!Next \/ UNCHANGED Promise!vars
  <2>1. CASE SessionAvailable(sessions, Arg[r])
    BY <1>0, <1>2, <2>1, RefineDisturb DEF Start, sending, Held
  <2>2. CASE ~SessionAvailable(sessions, Arg[r])
    BY <1>1, <1>2, <2>2 DEF Start
  <2> QED BY <2>1, <2>2
<1>3. ASSUME NEW r \in Requests, Disconnect(r), ~UNCHANGED <<sending, disturbed>>
      PROVE  Promise!Next \/ UNCHANGED Promise!vars
  <2>1. /\ Disturb(Arg[r]) /\ UNCHANGED <<queue, pushed, sent, missed, requeued>>
        /\ worker' = IF Sending(Arg[r]) THEN [worker EXCEPT !.due = @ \ {From[r]}] ELSE worker
    BY <1>3 DEF Disconnect, sending
  <2>2. Held' = Held
    <3>1. CASE worker' = worker
      BY <3>1 DEF Held
    <3>2. CASE worker # Idle /\ worker' = [worker EXCEPT !.due = @ \ {From[r]}]
      <4>1. worker \in [pc : {"send"}, notif : Notifications(DOMAIN profiles),
                        due : SUBSET Hosts, i : Nat \ {0}, end : Nat, block : Nat]
        BY <1>0, <3>2, WorkerSends
      <4>2. worker'.pc = "send" /\ worker'.notif = worker.notif
        BY <3>2, <4>1
      <4>3. worker' # Idle
        BY <4>2 DEF Idle
      <4> QED BY <3>2, <4>2, <4>3 DEF Held
    <3> QED BY <2>1, <3>1, <3>2 DEF Sending
  <2> QED BY <1>0, <2>1, <2>2, RefineDisturb
<1>4. ASSUME NEW r \in Requests, PostPush(r)
      PROVE  Promise!Next
  <2>1. PICK n : n = [post |-> r, to |-> Head(req[r].left)]
    OBVIOUS
  <2>2. /\ n \in Notifications(DOMAIN profiles) /\ n \notin Range(pushed)
        /\ pushed' = Append(pushed, n) /\ queue' = Append(queue, n)
    BY <1>0, <1>4, <2>1, PostRound, PushIsNew
  <2>3. /\ Range(pushed') = Range(pushed) \cup {n} /\ Range(queue') = Range(queue) \cup {n}
    BY <1>0, <2>2, AppendOnce DEF TypeOK
  <2>4. Held' = {} /\ Held = {} /\ UNCHANGED <<sent, disturbed>>
    BY <1>4 DEF PostPush, Held
  <2>5. Range(queue) \subseteq Range(pushed)
    BY <1>0 DEF OnePlace
  <2>6. Promise!Submit(n)
    BY <2>2, <2>3, <2>4, <2>5 DEF Promise!Submit, Pending, Finished
  <2>7. n \in Notification
    BY <1>0, <2>2, NotificationKnown
  <2> QED BY <2>6, <2>7 DEF Promise!Next
<1>5. ASSUME NEW n, Take(n), Held' = {n}, UNCHANGED <<pushed, sent>>
      PROVE  UNCHANGED <<Pending, Finished>> /\ n \in Pending
             /\ n \in Notifications(DOMAIN profiles)
  <2>1. IsInjective(queue)
    BY <1>0 DEF OnePlace
  <2>2. /\ Range(queue') = Range(queue) \ {n} /\ n \in Range(queue) /\ Held = {}
    BY <1>0, <1>5, <2>1, Taken
  <2>3. n \in Notifications(DOMAIN profiles)
    BY <1>0, <2>2, RangeOfSeq DEF TypeOK
  <2> QED BY <1>5, <2>2, <2>3 DEF Pending, Finished
<1>6. ASSUME NEW n, NEW end, NEW due, NEW block, worker' = Loop(n, end, due, block)
      PROVE  Held' = {n}
  <2>1. worker'.pc = "send" /\ worker'.notif = n
    BY <1>6 DEF Loop
  <2>2. worker' # Idle
    BY <2>1 DEF Idle
  <2> QED BY <2>1, <2>2 DEF Held
<1>7. CASE WorkerTake
  <2>1. /\ UNCHANGED <<pushed, sent, disturbed>>
        /\ \E n, end, due, block : Take(n) /\ worker' = Loop(n, end, due, block)
    BY <1>7 DEF WorkerTake
  <2>2. UNCHANGED <<Pending, Finished>>
    BY <1>5, <1>6, <2>1
  <2> QED BY <2>1, <2>2 DEF Promise!vars
<1>8. CASE WorkerTakeWild
  <2>1. PICK n : /\ Take(n) /\ worker' = Loop(n, 0, {}, 0)
                 /\ disturbed' = disturbed \cup {n} /\ UNCHANGED <<pushed, sent>>
    BY <1>8 DEF WorkerTakeWild
  <2>2. UNCHANGED <<Pending, Finished>> /\ n \in Pending /\ n \in Notification
    BY <1>0, <1>5, <1>6, <2>1, NotificationKnown
  <2>3. Promise!Disturb(n)
    BY <2>1, <2>2 DEF Promise!Disturb
  <2> QED BY <2>2, <2>3 DEF Promise!Next
<1>9. CASE WorkerRequeue
  <2>1. IsInjective(queue) /\ UNCHANGED disturbed
    BY <1>0, <1>9 DEF OnePlace, WorkerRequeue
  <2>2. Range(queue') = Range(queue) /\ Held' = Held /\ UNCHANGED <<pushed, sent>>
    BY <1>0, <1>9, <2>1, Requeued
  <2> QED BY <2>1, <2>2 DEF Promise!vars, Pending, Finished
<1>10. CASE WorkerSend
  <2> DEFINE s == SocketsOf(worker.notif.to)
             h == s[worker.i]
  <2>1. /\ worker # Idle /\ UNCHANGED <<queue, pushed, disturbed>> /\ Held' = {worker.notif}
        /\ worker.i \in Nat /\ s \in Seq(Hosts)
        /\ \/ UNCHANGED sent
           \/ /\ worker.i \in DOMAIN s
              /\ sent' = Append(sent, [notif |-> worker.notif, socket |-> h])
    BY <1>0, <1>10, Sent
  <2>2. UNCHANGED <<Pending, Finished, disturbed>> /\ worker.notif \in Pending
    BY <2>1 DEF Pending, Finished, Held
  <2>3. CASE UNCHANGED sent
    BY <2>2, <2>3 DEF Promise!vars
  <2>4. CASE worker.i \in DOMAIN s
             /\ sent' = Append(sent, [notif |-> worker.notif, socket |-> h])
    <3>1. h \in Hosts
      BY <2>1, <2>4, LenProperties, ElementOfSeq
    <3>2. worker.notif \in Notification
      BY <1>0, <2>1, WorkerSends, NotificationKnown
    <3>3. \A k \in DOMAIN sent : sent[k].notif = worker.notif => h # sent[k].socket
      BY <1>0, <2>1, <2>4 DEF SentOnce
    <3>4. [notif |-> worker.notif, socket |-> h] \notin Range(sent)
      <4> SUFFICES ASSUME NEW k \in DOMAIN sent,
                          sent[k] = [notif |-> worker.notif, socket |-> h]
                   PROVE  FALSE
        BY DEF Range
      <4>1. sent[k].notif = worker.notif /\ sent[k].socket = h
        OBVIOUS
      <4> QED BY <3>3, <4>1
    <3> HIDE DEF h
    <3>5. Promise!Send(worker.notif, h)
      BY <2>2, <2>4, <3>4 DEF Promise!Send, Range, Promise!Range
    <3> QED BY <3>1, <3>2, <3>5 DEF Promise!Next
  <2> QED BY <2>1, <2>3, <2>4
<1>11. CASE WorkerFinish
  <2>1. /\ worker # Idle /\ worker.i > worker.end /\ worker' = Idle
        /\ UNCHANGED <<queue, pushed, sent, disturbed>>
    BY <1>11 DEF WorkerFinish
  <2>2. worker.notif \in Range(pushed) \ Range(queue)
    BY <1>0, <2>1 DEF OnePlace
  <2>3. Held = {worker.notif} /\ Held' = {}
    BY <2>1 DEF Held
  <2>4. worker.notif \in disturbed \/ Delivered(worker.notif)
    <3> SUFFICES ASSUME worker.notif \notin disturbed PROVE Delivered(worker.notif)
      OBVIOUS
    <3>1. /\ worker.end = Len(SocketsOf(worker.notif.to))
          /\ SocketsOf(worker.notif.to) # <<>>
          /\ worker.i > 1 => Delivered(worker.notif)
      BY <1>0, <2>1 DEF WorkerUndisturbed
    <3>2. /\ SocketsOf(worker.notif.to) \in Seq(Hosts)
          /\ worker.i \in Nat
      BY <1>0, <2>1, WorkerSends
    <3>3. worker.end > 0
      BY <3>1, <3>2, EmptySeq, LenProperties
    <3> QED BY <1>0, <2>1, <3>1, <3>2, <3>3, WorkerSends
  <2>5. Promise!Finish(worker.notif)
    BY <2>1, <2>2, <2>3, <2>4 DEF Promise!Finish, Pending, Finished, Delivered
  <2>6. worker.notif \in Notification
    BY <1>0, <2>1, WorkerSends, NotificationKnown
  <2> QED BY <2>5, <2>6 DEF Promise!Next
<1>12. \/ UNCHANGED <<sending, disturbed>>
       \/ \E r \in Requests : \E me : Start(r, me) /\ UNCHANGED sending
       \/ \E r \in Requests : Disconnect(r) /\ ~UNCHANGED <<sending, disturbed>>
       \/ \E r \in Requests : PostPush(r)
       \/ WorkerTake \/ WorkerTakeWild \/ WorkerRequeue \/ WorkerSend \/ WorkerFinish
  BY DEF Next, RequestStep, WorkerStep, Quiescent, vars, ConnectLookup,
         ConnectNewProfile, ConnectStartSession, ConnectSetSession, RequestUserInfo,
         FollowLookup, FollowBeginPush, FollowPush, PostStart
<1> QED BY <1>1, <1>2, <1>3, <1>4, <1>7, <1>8, <1>9, <1>10, <1>11, <1>12

LEMMA RefineInit == Init => Promise!Init
<1>1. Range(<<>>) = {}
  BY DEF Range
<1> QED BY <1>1 DEF Init, Promise!Init, Pending, Finished, Held

\* Handlers and worker implement Delivery when a socket sends its CONNECT, and a
\* user his FOLLOW of another one, once.
THEOREM DeliveryIsImplemented ==
    ASSUME ConnectsOnce, FollowsOnce
    PROVE  Spec => ImplementsDelivery
<1>1. DeliveryInv /\ [Next]_vars => [Promise!Next]_(Promise!vars)
  BY RefineStep
<1> QED BY <1>1, RefineInit, DeliveryCorrect, PTL DEF Spec, ImplementsDelivery, Promise!Spec

-----------------------------------------------------------------------------
(* FifoWhileOnline.                                                        *)

\* What PostPush does to both sequences.
LEMMA PushAppends ==
    ASSUME DeliveryInv, NEW r \in Requests, PostPush(r)
    PROVE  \E n : /\ DOMAIN pushed' = 1 .. Len(pushed) + 1 /\ DOMAIN pushed = 1 .. Len(pushed)
                  /\ \A i \in DOMAIN pushed : pushed'[i] = pushed[i]
                  /\ pushed'[Len(pushed) + 1] = n
                  /\ DOMAIN queue' = 1 .. Len(queue) + 1 /\ DOMAIN queue = 1 .. Len(queue)
                  /\ \A a \in DOMAIN queue : queue'[a] = queue[a]
                  /\ queue'[Len(queue) + 1] = n
                  /\ Len(pushed) \in Nat /\ Len(queue) \in Nat
                  /\ n \notin Range(pushed) /\ n \notin Range(queue)
                  /\ Range(queue') = Range(queue) \cup {n}
                  /\ Held = {} /\ Held' = {} /\ UNCHANGED <<sent, requeued>>
<1>1. /\ TypeOK /\ HandlersInside /\ PushedOnce /\ OnePlace
  BY DEF DeliveryInv, DirectoryInv
<1>2. PICK n : n = [post |-> r, to |-> Head(req[r].left)]
  OBVIOUS
<1>3. /\ n \in Notifications(DOMAIN profiles) /\ worker = Idle
      /\ queue' = Append(queue, n) /\ pushed' = Append(pushed, n)
  BY <1>1, <1>2, PostRound
<1>4. n \notin Range(pushed) /\ n \notin Range(queue)
  BY <1>1, <1>2, PushIsNew DEF OnePlace
<1>5. /\ queue \in Seq(Notifications(DOMAIN profiles))
      /\ pushed \in Seq(Notifications(DOMAIN profiles))
  BY <1>1 DEF TypeOK
<1>6. /\ DOMAIN pushed' = 1 .. Len(pushed) + 1 /\ DOMAIN pushed = 1 .. Len(pushed)
      /\ \A i \in DOMAIN pushed : pushed'[i] = pushed[i]
      /\ pushed'[Len(pushed) + 1] = n /\ Len(pushed) \in Nat
  BY <1>3, <1>5, AppendProperties, LenProperties
<1>7. /\ DOMAIN queue' = 1 .. Len(queue) + 1 /\ DOMAIN queue = 1 .. Len(queue)
      /\ \A a \in DOMAIN queue : queue'[a] = queue[a]
      /\ queue'[Len(queue) + 1] = n /\ Len(queue) \in Nat
  BY <1>3, <1>5, AppendProperties, LenProperties
<1>8. Range(queue') = Range(queue) \cup {n}
  BY <1>1, <1>3, <1>4, <1>5, AppendOnce DEF OnePlace
<1>9. Held = {} /\ Held' = {} /\ UNCHANGED <<sent, requeued>>
  BY <1>3 DEF PostPush, Held
<1> QED BY <1>4, <1>6, <1>7, <1>8, <1>9

\* Positions in the queue without its first element.
LEMMA TailShape ==
    ASSUME TypeOK, queue # <<>>
    PROVE  LET t == Tail(queue) IN
           /\ Len(queue) \in Nat \ {0} /\ DOMAIN queue = 1 .. Len(queue)
           /\ t \in Seq(Notifications(DOMAIN profiles))
           /\ Len(t) = Len(queue) - 1 /\ DOMAIN t = 1 .. Len(queue) - 1
           /\ \A a \in DOMAIN t : t[a] = queue[a + 1]
           /\ Head(queue) = queue[1] /\ Head(queue) \in Notifications(DOMAIN profiles)
<1>1. queue \in Seq(Notifications(DOMAIN profiles))
  BY DEF TypeOK
<1> QED BY <1>1, HeadTailProperties, LenProperties, EmptySeq

\* The order of the queue is kept.
LEMMA StepQueueOrdered ==
    ASSUME DeliveryInv, QueueOrdered, [Next]_vars
    PROVE  QueueOrdered'
<1>0. TypeOK /\ HandlersInside /\ PushedOnce /\ OnePlace
  BY DEF DeliveryInv, DirectoryInv
<1>1. CASE UNCHANGED <<queue, pushed, sent, requeued>> /\ (Held' = Held \/ Held' = {})
  BY <1>1 DEF QueueOrdered
<1>2. CASE WorkerFinish
  <2>1. UNCHANGED <<queue, pushed, sent, requeued>> /\ Held' = {}
    BY <1>2 DEF WorkerFinish, Held
  <2> QED BY <1>1, <2>1
<1>3. ASSUME NEW r \in Requests, PostPush(r)
      PROVE  QueueOrdered'
  <2>1. PICK n : /\ DOMAIN pushed' = 1 .. Len(pushed) + 1 /\ DOMAIN pushed = 1 .. Len(pushed)
                 /\ \A i \in DOMAIN pushed : pushed'[i] = pushed[i]
                 /\ pushed'[Len(pushed) + 1] = n
                 /\ DOMAIN queue' = 1 .. Len(queue) + 1 /\ DOMAIN queue = 1 .. Len(queue)
                 /\ \A a \in DOMAIN queue : queue'[a] = queue[a]
                 /\ queue'[Len(queue) + 1] = n
                 /\ Len(pushed) \in Nat /\ Len(queue) \in Nat
                 /\ n \notin Range(pushed) /\ n \notin Range(queue)
                 /\ Range(queue') = Range(queue) \cup {n}
                 /\ Held = {} /\ Held' = {} /\ UNCHANGED <<sent, requeued>>
    BY <1>3, PushAppends
  <2> SUFFICES ASSUME NEW i \in DOMAIN pushed', NEW j \in DOMAIN pushed',
                      {pushed'[i], pushed'[j]} \cap requeued = {}
               PROVE  /\ \A a, b \in DOMAIN queue' :
                          (a < b /\ queue'[a] = pushed'[i] /\ queue'[b] = pushed'[j]) => i < j
                      /\ \A k \in DOMAIN sent : sent[k].notif = pushed'[i] =>
                          (pushed'[j] \in Range(queue') => i < j)
    BY <2>1 DEF QueueOrdered
  <2>2. ASSUME pushed'[i] \in Range(pushed)
        PROVE  i \in DOMAIN pushed /\ pushed'[i] = pushed[i]
    BY <2>1, <2>2
  <2>3. \/ j = Len(pushed) + 1 /\ pushed'[j] = n
        \/ j \in DOMAIN pushed /\ pushed'[j] = pushed[j] /\ pushed'[j] # n
    BY <2>1 DEF Range
  <2>4. ASSUME NEW a \in DOMAIN queue', NEW b \in DOMAIN queue',
               a < b, queue'[a] = pushed'[i], queue'[b] = pushed'[j]
        PROVE  i < j
    <3>1. a \in DOMAIN queue /\ queue'[a] = queue[a]
      BY <2>1, <2>4
    <3>2. queue[a] \in Range(pushed)
      BY <1>0, <3>1 DEF OnePlace, Range
    <3>3. i \in DOMAIN pushed /\ pushed'[i] = pushed[i]
      BY <2>2, <2>4, <3>1, <3>2
    <3>4. CASE j = Len(pushed) + 1
      BY <2>1, <3>3, <3>4
    <3>5. CASE j \in DOMAIN pushed /\ pushed'[j] = pushed[j] /\ pushed'[j] # n
      <4>1. b \in DOMAIN queue /\ queue'[b] = queue[b]
        BY <2>1, <2>4, <3>5
      <4> QED BY <2>4, <3>1, <3>3, <3>5, <4>1 DEF QueueOrdered
    <3> QED BY <2>3, <3>4, <3>5
  <2>5. ASSUME NEW k \in DOMAIN sent, sent[k].notif = pushed'[i], pushed'[j] \in Range(queue')
        PROVE  i < j
    <3>1. i \in DOMAIN pushed /\ pushed'[i] = pushed[i]
      BY <1>0, <2>2, <2>5 DEF OnePlace
    <3>2. CASE j = Len(pushed) + 1
      BY <2>1, <3>1, <3>2
    <3>3. CASE j \in DOMAIN pushed /\ pushed'[j] = pushed[j] /\ pushed'[j] # n
      <4>1. pushed[j] \in Range(queue)
        BY <2>1, <2>5, <3>3
      <4> QED BY <2>5, <3>1, <3>3, <4>1 DEF QueueOrdered
    <3> QED BY <2>3, <3>2, <3>3
  <2> QED BY <2>4, <2>5
<1>4. ASSUME NEW n, Take(n), Held' = {n}, UNCHANGED <<pushed, sent, requeued>>
      PROVE  QueueOrdered'
  <2>0. IsInjective(queue)
    BY <1>0 DEF OnePlace
  <2>1. /\ Range(queue') = Range(queue) \ {n} /\ n \in Range(queue)
    BY <1>0, <1>4, <2>0, Taken
  <2>2. queue # <<>> /\ n = Head(queue) /\ queue' = Tail(queue)
    BY <1>4 DEF Take
  <2>3. /\ Len(queue) \in Nat \ {0} /\ DOMAIN queue = 1 .. Len(queue)
        /\ DOMAIN queue' = 1 .. Len(queue) - 1
        /\ \A a \in DOMAIN queue' : queue'[a] = queue[a + 1]
        /\ n = queue[1]
    BY <1>0, <2>2, TailShape
  <2> SUFFICES ASSUME NEW i \in DOMAIN pushed, NEW j \in DOMAIN pushed,
                      {pushed[i], pushed[j]} \cap requeued = {}
               PROVE  /\ \A a, b \in DOMAIN queue' :
                          (a < b /\ queue'[a] = pushed[i] /\ queue'[b] = pushed[j]) => i < j
                      /\ (pushed[i] \in {n} /\ pushed[j] \in Range(queue')) => i < j
                      /\ \A k \in DOMAIN sent : sent[k].notif = pushed[i] =>
                          /\ pushed[j] \in Range(queue') => i < j
                          /\ pushed[j] \in {n} => i <= j
    BY <1>4 DEF QueueOrdered
  <2>4. \A a, b \in DOMAIN queue :
            (a < b /\ queue[a] = pushed[i] /\ queue[b] = pushed[j]) => i < j
    BY DEF QueueOrdered
  <2>5. ASSUME NEW a \in DOMAIN queue', NEW b \in DOMAIN queue',
               a < b, queue'[a] = pushed[i], queue'[b] = pushed[j]
        PROVE  i < j
    <3>1. a + 1 \in DOMAIN queue /\ b + 1 \in DOMAIN queue /\ a + 1 < b + 1
      BY <2>3, <2>5
    <3> QED BY <2>3, <2>4, <2>5, <3>1
  <2>6. ASSUME pushed[i] = n, pushed[j] \in Range(queue')
        PROVE  i < j
    <3>1. PICK b \in DOMAIN queue' : queue'[b] = pushed[j]
      BY <2>6 DEF Range
    <3>2. 1 \in DOMAIN queue /\ b + 1 \in DOMAIN queue /\ 1 < b + 1
      BY <2>3, <3>1
    <3>3. queue[b + 1] = pushed[j] /\ queue[1] = pushed[i]
      BY <2>3, <2>6, <3>1
    <3> QED BY <2>4, <3>2, <3>3
  <2>7. ASSUME NEW k \in DOMAIN sent, sent[k].notif = pushed[i], pushed[j] \in Range(queue)
        PROVE  i < j
    BY <2>7 DEF QueueOrdered
  <2>8. i < j => i <= j
    <3>1. pushed \in Seq(Notifications(DOMAIN profiles))
      BY <1>0 DEF TypeOK
    <3>2. i \in Nat /\ j \in Nat
      BY <3>1, LenProperties
    <3> QED BY <3>2
  <2> QED BY <2>1, <2>5, <2>6, <2>7, <2>8
<1>5. CASE WorkerRequeue
  <2>0. IsInjective(queue)
    BY <1>0 DEF OnePlace
  <2>1. /\ Range(queue') = Range(queue) /\ Held' = {} /\ UNCHANGED <<pushed, sent>>
    BY <1>0, <1>5, <2>0, Requeued
  <2>2. /\ queue # <<>> /\ queue' = Append(Tail(queue), Head(queue))
        /\ requeued' = requeued \cup {Head(queue)}
    BY <1>5 DEF WorkerRequeue
  <2>3. PICK t, h : t = Tail(queue) /\ h = Head(queue)
    OBVIOUS
  <2>4. /\ Len(queue) \in Nat \ {0} /\ DOMAIN queue = 1 .. Len(queue)
        /\ t \in Seq(Notifications(DOMAIN profiles)) /\ h \in Notifications(DOMAIN profiles)
        /\ Len(t) = Len(queue) - 1 /\ DOMAIN t = 1 .. Len(queue) - 1
        /\ \A a \in DOMAIN t : t[a] = queue[a + 1]
    BY <1>0, <2>2, <2>3, TailShape
  <2>5. /\ DOMAIN queue' = 1 .. Len(queue)
        /\ \A a \in DOMAIN t : queue'[a] = queue[a + 1]
        /\ queue'[Len(queue)] = h
    <3>0. PICK N : N = Notifications(DOMAIN profiles)
      OBVIOUS
    <3>1. PICK q : q = queue'
      OBVIOUS
    <3>2. q = Append(t, h) /\ t \in Seq(N) /\ h \in N
      BY <2>2, <2>3, <2>4, <3>0, <3>1
    <3>3. /\ Len(q) = Len(t) + 1 /\ \A a \in 1 .. Len(t) : q[a] = t[a]
          /\ q[Len(t) + 1] = h /\ DOMAIN q = 1 .. Len(q)
      BY <3>2, AppendProperties, LenProperties
    <3>4. Len(t) + 1 = Len(queue) /\ DOMAIN t = 1 .. Len(t)
      BY <2>4
    <3> QED BY <2>4, <3>1, <3>3, <3>4
  <2> SUFFICES ASSUME NEW i \in DOMAIN pushed, NEW j \in DOMAIN pushed,
                      {pushed[i], pushed[j]} \cap (requeued \cup {h}) = {}
               PROVE  /\ \A a, b \in DOMAIN queue' :
                          (a < b /\ queue'[a] = pushed[i] /\ queue'[b] = pushed[j]) => i < j
                      /\ \A k \in DOMAIN sent : sent[k].notif = pushed[i] =>
                          (pushed[j] \in Range(queue) => i < j)
    BY <2>1, <2>2, <2>3 DEF QueueOrdered
  <2>6. /\ \A a, b \in DOMAIN queue :
            (a < b /\ queue[a] = pushed[i] /\ queue[b] = pushed[j]) => i < j
        /\ \A k \in DOMAIN sent : sent[k].notif = pushed[i] =>
            (pushed[j] \in Range(queue) => i < j)
    BY DEF QueueOrdered
  <2>7. ASSUME NEW a \in DOMAIN queue', NEW b \in DOMAIN queue',
               a < b, queue'[a] = pushed[i], queue'[b] = pushed[j]
        PROVE  i < j
    <3>1. b # Len(queue)
      BY <2>5, <2>7
    <3>2. a \in DOMAIN t /\ b \in DOMAIN t
      BY <2>4, <2>5, <2>7, <3>1
    <3>3. a + 1 \in DOMAIN queue /\ b + 1 \in DOMAIN queue /\ a + 1 < b + 1
      BY <2>4, <2>7, <3>2
    <3> QED BY <2>5, <2>6, <2>7, <3>2, <3>3
  <2> QED BY <2>6, <2>7
<1>6. CASE WorkerSend
  <2>1. /\ worker # Idle /\ Held' = {worker.notif} /\ UNCHANGED <<queue, pushed, requeued>>
    BY <1>0, <1>6, Sent
  <2>2. Held = {worker.notif}
    BY <2>1 DEF Held
  <2> SUFFICES ASSUME NEW i \in DOMAIN pushed, NEW j \in DOMAIN pushed,
                      {pushed[i], pushed[j]} \cap requeued = {},
                      NEW k \in DOMAIN sent', sent'[k].notif = pushed[i]
               PROVE  /\ pushed[j] \in Range(queue) => i < j
                      /\ pushed[j] \in Held => i <= j
    BY <2>1, <2>2 DEF QueueOrdered
  <2>3. CASE k \in DOMAIN sent /\ sent'[k] = sent[k]
    BY <2>3 DEF QueueOrdered
  <2>4. CASE sent'[k].notif = worker.notif
    <3>1. pushed[i] \in Held
      BY <2>2, <2>4
    <3>2. pushed[j] \in Range(queue) => i < j
      BY <3>1 DEF QueueOrdered
    <3>3. pushed[j] \in Held => i = j
      BY <1>0, <2>2, <3>1 DEF PushedOnce, IsInjective
    <3>4. pushed \in Seq(Notifications(DOMAIN profiles))
      BY <1>0 DEF TypeOK
    <3>5. i \in Nat /\ j \in Nat
      BY <3>4, LenProperties
    <3> QED BY <3>2, <3>3, <3>5
  <2> QED BY <1>0, <2>3, <2>4, SentGrows
<1> QED BY <1>0, <1>1, <1>2, <1>3, <1>4, <1>5, <1>6, QueueSteps

\* Of two notifications that are sent, the one queued first is sent first.
LEMMA StepFifo ==
    ASSUME DeliveryInv, QueueOrdered, FifoWhileOnline, [Next]_vars
    PROVE  FifoWhileOnline'
<1>0. /\ TypeOK /\ HandlersInside /\ PushedOnce /\ OnePlace
      /\ pushed \in Seq(Notifications(DOMAIN profiles))
      /\ sent \in Seq([notif : Notifications(DOMAIN profiles), socket : Hosts])
  BY DEF DeliveryInv, DirectoryInv, TypeOK
<1>1. requeued \subseteq requeued'
  BY <1>0, QueueSteps DEF PostPush, WorkerRequeue, WorkerSend, WorkerFinish
<1>2. ASSUME NEW i \in DOMAIN pushed'
      PROVE  \/ i \in DOMAIN pushed /\ pushed'[i] = pushed[i]
             \/ UNCHANGED sent /\ pushed'[i] \notin Range(pushed)
  <2>1. CASE UNCHANGED pushed
    BY <1>2, <2>1
  <2>2. ASSUME NEW r \in Requests, PostPush(r)
        PROVE  \/ i \in DOMAIN pushed /\ pushed'[i] = pushed[i]
               \/ UNCHANGED sent /\ pushed'[i] \notin Range(pushed)
    <3>1. PICK n : /\ DOMAIN pushed' = 1 .. Len(pushed) + 1
                   /\ DOMAIN pushed = 1 .. Len(pushed) /\ Len(pushed) \in Nat
                   /\ \A x \in DOMAIN pushed : pushed'[x] = pushed[x]
                   /\ pushed'[Len(pushed) + 1] = n /\ n \notin Range(pushed)
                   /\ UNCHANGED sent
      BY <2>2, PushAppends
    <3>2. i \in DOMAIN pushed \/ i = Len(pushed) + 1
      BY <1>2, <3>1
    <3> QED BY <3>1, <3>2
  <2> QED BY <1>0, <2>1, <2>2, QueueSteps DEF WorkerRequeue, WorkerSend, WorkerFinish
<1> SUFFICES ASSUME NEW i \in DOMAIN pushed', NEW j \in DOMAIN pushed',
                    NEW k \in DOMAIN sent', NEW l \in DOMAIN sent',
                    i < j, {pushed'[i], pushed'[j]} \cap requeued' = {},
                    sent'[k].notif = pushed'[i], sent'[l].notif = pushed'[j]
             PROVE  k < l
  BY DEF FifoWhileOnline
<1>3. \A x \in DOMAIN sent : sent[x].notif \in Range(pushed)
  BY <1>0 DEF OnePlace
<1>4. /\ i \in DOMAIN pushed /\ pushed'[i] = pushed[i]
      /\ j \in DOMAIN pushed /\ pushed'[j] = pushed[j]
      /\ {pushed[i], pushed[j]} \cap requeued = {}
  BY <1>1, <1>2, <1>3
<1>5. i \in Nat /\ j \in Nat
  BY <1>0, <1>4, LenProperties
<1>6. pushed[i] # pushed[j]
  BY <1>0, <1>4, <1>5 DEF PushedOnce, IsInjective
<1>7. CASE k \in DOMAIN sent /\ sent'[k] = sent[k] /\ l \in DOMAIN sent /\ sent'[l] = sent[l]
  BY <1>4, <1>7 DEF FifoWhileOnline
<1>8. CASE /\ k \in DOMAIN sent /\ sent'[k] = sent[k]
           /\ l = Len(sent) + 1
  BY <1>0, <1>8, LenProperties
<1>9. CASE /\ WorkerSend /\ sent'[k].notif = worker.notif
           /\ l \in DOMAIN sent /\ sent'[l] = sent[l]
  <2>1. pushed[i] \in Held
    BY <1>0, <1>4, <1>9, Sent DEF Held
  <2>2. j <= i
    BY <1>4, <1>9, <2>1 DEF QueueOrdered
  <2> QED BY <1>5, <2>2
<1>10. CASE sent'[k].notif = worker.notif /\ sent'[l].notif = worker.notif
  BY <1>4, <1>6, <1>10
<1>11. /\ \/ k \in DOMAIN sent /\ sent'[k] = sent[k]
          \/ WorkerSend /\ sent'[k].notif = worker.notif /\ k = Len(sent) + 1
       /\ \/ l \in DOMAIN sent /\ sent'[l] = sent[l]
          \/ WorkerSend /\ sent'[l].notif = worker.notif /\ l = Len(sent) + 1
  BY <1>0, SentGrows
<1> QED BY <1>7, <1>8, <1>9, <1>10, <1>11

\* Notifications whose recipients were never found offline leave in the order in
\* which SEND queued them.
THEOREM OnlineIsFifo ==
    ASSUME ConnectsOnce, FollowsOnce
    PROVE  Spec => []FifoWhileOnline
<1>1. Init => QueueOrdered /\ FifoWhileOnline
  BY DEF Init, QueueOrdered, FifoWhileOnline
<1>2. DeliveryInv /\ QueueOrdered /\ FifoWhileOnline /\ [Next]_vars
        => QueueOrdered' /\ FifoWhileOnline'
  BY StepQueueOrdered, StepFifo
<1> QED BY <1>1, <1>2, DeliveryCorrect, PTL DEF Spec

=============================================================================
