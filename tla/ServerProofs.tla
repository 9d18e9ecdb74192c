---------------------------- MODULE ServerProofs ----------------------------
(***************************************************************************)
(* Proofs about Server, for any users, sockets, requests and profiles:     *)
(* type correctness, the directory and the sessions.                       *)
(***************************************************************************)
EXTENDS Server, VectorProofs

-----------------------------------------------------------------------------
(* Types.                                                                  *)

PCs == {"idle", "new", "start", "set", "begin", "push", "post", "done", "refused"}

\* What a request and the profiles read at startup are.
LEMMA RequestType ==
    /\ \A r \in Requests : Kind[r] \in Kinds /\ From[r] \in Hosts /\ Arg[r] \in Users
    /\ Existing \in Seq([handle : Users, followers : Seq(DOMAIN Existing)])
    /\ Newcomers \subseteq ConnectRequests /\ ConnectRequests \subseteq Requests
BY ServerAssumption DEF Newcomers, ConnectRequests

\* The states of handler threads.
LEMMA ThreadType ==
    ASSUME NEW P, NEW pc \in PCs
    PROVE  /\ At(pc) \in Thread(P)
           /\ \A me \in P : [At(pc) EXCEPT !.me = me] \in Thread(P)
           /\ \A me, f \in P : [At(pc) EXCEPT !.me = me, !.follower = f] \in Thread(P)
           /\ \A left \in Seq(P) : [At(pc) EXCEPT !.left = left] \in Thread(P)
<1>1. <<>> \in Seq(P)
  BY EmptySeq
<1> QED BY <1>1 DEF PCs, At, Thread

LEMMA GotoType ==
    ASSUME NEW P, req \in [Requests -> Thread(P)], NEW r \in Requests,
           NEW rec \in Thread(P), Goto(r, rec)
    PROVE  /\ req' \in [Requests -> Thread(P)]
           /\ req'[r] = rec
           /\ \A s \in Requests \ {r} : req'[s] = req[s]
BY DEF Goto

\* Types do not depend on what is added to the directory.
LEMMA TypesGrow ==
    ASSUME NEW P, NEW Q, P \subseteq Q
    PROVE  /\ Profiles(P) \subseteq Profiles(Q)
           /\ Notifications(P) \subseteq Notifications(Q)
           /\ Thread(P) \subseteq Thread(Q)
           /\ WorkerState(P) \subseteq WorkerState(Q)
<1>1. \A s \in Seq(P) : s \in Seq(Q)
  BY SeqMonotonic
<1>2. Profiles(P) \subseteq Profiles(Q)
  BY <1>1 DEF Profiles
<1>3. Notifications(P) \subseteq Notifications(Q)
  BY DEF Notifications
<1>4. Thread(P) \subseteq Thread(Q)
  BY <1>1 DEF Thread
<1>5. WorkerState(P) \subseteq WorkerState(Q)
  BY <1>3 DEF WorkerState
<1> QED BY <1>2, <1>3, <1>4, <1>5


\* TypeOK when the profiles are at positions P.
TypedOver(P) ==
    /\ up \in BOOLEAN
    /\ profiles \in Seq(Profiles(P))
    /\ sessions \in [Users -> Seq(Hosts)]
    /\ capacity \in [Users -> Nat]
    /\ req \in [Requests -> Thread(P)]
    /\ queue \in Seq(Notifications(P))
    /\ worker \in WorkerState(P)
    /\ pushed \in Seq(Notifications(P))
    /\ sent \in Seq([notif : Notifications(P), socket : Hosts])
    /\ missed \subseteq Notifications(P) \X Hosts
    /\ disturbed \subseteq Notifications(P)
    /\ requeued \subseteq Notifications(P)

LEMMA TypeOver == TypeOK <=> TypedOver(DOMAIN profiles)
BY DEF TypeOK, TypedOver

LEMMA InitType == Init => TypeOK
<1> SUFFICES ASSUME Init PROVE TypeOK
  OBVIOUS
<1> DEFINE P == DOMAIN Existing
<1>0. /\ P = 1 .. Len(Existing) /\ Len(Existing) \in Nat
      /\ \A i \in P : Existing[i].handle \in Users /\ Existing[i].followers \in Seq(P)
  <2> DEFINE R == [handle : Users, followers : Seq(P)]
  <2>1. Existing \in Seq(R)
    BY RequestType
  <2>2. P = 1 .. Len(Existing) /\ Len(Existing) \in Nat
    BY <2>1, LenProperties
  <2>3. \A i \in P : Existing[i] \in R
    BY <2>1, <2>2, ElementOfSeq
  <2> QED BY <2>2, <2>3
<1>1. PICK s \in [P -> FreshPtr] :
        profiles = [i \in P |-> [NewProfile(Existing[i].handle, s[i]) EXCEPT
                                    !.followers = Existing[i].followers]]
  BY DEF Init
<1>2. \A i \in P : s[i] \in {"null", "wild", "set"}
  BY ServerAssumption
<1>3. profiles \in [P -> Profiles(P)]
  BY <1>0, <1>1, <1>2 DEF Profiles, NewProfile
<1>4. profiles \in Seq(Profiles(P)) /\ DOMAIN profiles = P
  BY <1>0, <1>3, SeqDef
<1>5. At("idle") \in Thread(P)
  BY ThreadType DEF PCs
<1>6. sessions \in [Users -> Seq(Hosts)] /\ capacity \in [Users -> Nat]
  BY EmptySeq DEF Init
<1>7. TypedOver(P)
  BY <1>4, <1>5, <1>6, EmptySeq DEF Init, TypedOver, WorkerState
<1> QED BY <1>4, <1>7, TypeOver

\* The record that a lookup returns, and what is known of the pointers that a
\* handler holds.
LEMMA Found ==
    ASSUME TypeOK, NEW u
    PROVE  LET i == GetProfileByName(profiles, u) IN
           i # 0 => /\ i \in DOMAIN profiles /\ profiles[i].handle = u
                    /\ \A k \in DOMAIN profiles : profiles[k].handle = u => i <= k
BY Lookup, LenProperties DEF TypeOK

LEMMA SenderFound ==
    ASSUME TypeOK, NEW r \in Requests, NEW me \in SenderProfile(r)
    PROVE  /\ me \in DOMAIN profiles
           /\ GetProfileByName(profiles, profiles[me].handle) = me
           /\ profiles[me].handle \in UsersAt(sessions, From[r])
<1>1. PICK u \in UsersAt(sessions, From[r]) : me = GetProfileByName(profiles, u) /\ me # 0
  BY DEF SenderProfile
<1>2. me \in DOMAIN profiles /\ profiles[me].handle = u
  BY <1>1, Found
<1> QED BY <1>1, <1>2

\* A handler step that changes only its own thread, the directory within its
\* positions, and whether the process is up.
LEMMA HandlerType ==
    ASSUME NEW P, P = DOMAIN profiles, TypedOver(P), NEW r \in Requests,
           NEW rec \in Thread(P), Goto(r, rec), up' \in BOOLEAN,
           profiles' \in Seq(Profiles(P)), Len(profiles') = Len(profiles),
           UNCHANGED <<table, sending, disturbed>>
    PROVE  TypeOK'
<1>1. req' \in [Requests -> Thread(P)]
  BY GotoType DEF TypedOver
<1>2. TypedOver(P)'
  BY <1>1 DEF TypedOver, table, sending
<1>3. DOMAIN profiles' = P
  BY LenProperties DEF TypedOver
<1> QED BY <1>2, <1>3 DEF TypeOK, TypedOver

\* StartSession, on a profile of the directory.
LEMMA StartType ==
    ASSUME TypeOK, NEW r \in Requests, NEW me \in DOMAIN profiles, Start(r, me),
           UNCHANGED <<up, profiles, sending>>
    PROVE  TypeOK'
<1>0. PICK P : P = DOMAIN profiles
  OBVIOUS
<1>1. TypedOver(P)
  BY <1>0, TypeOver
<1>2. Arg[r] \in Users /\ From[r] \in Hosts
  BY RequestType
<1>3. sessions' \in [Users -> Seq(Hosts)]
  BY <1>1, <1>2, SessionType DEF Start, TypedOver
<1>4. capacity' \in [Users -> Nat]
  <2>1. capacity \in [Users -> Nat] /\ Grown(Arg[r]) \in Nat
    BY <1>1, <1>2 DEF TypedOver, Grown
  <2> QED BY <1>2, <2>1 DEF Start
<1>5. req' \in [Requests -> Thread(P)]
  <2>1. [At("set") EXCEPT !.me = me] \in Thread(P) /\ At("refused") \in Thread(P)
    BY <1>0, ThreadType DEF PCs
  <2> QED BY <1>1, <2>1, GotoType DEF Start, TypedOver
<1>6. disturbed' \subseteq Notifications(P)
  BY <1>1 DEF Start, Disturb, Sending, TypedOver, WorkerState
<1>7. TypedOver(P)'
  BY <1>1, <1>3, <1>4, <1>5, <1>6 DEF TypedOver, sending
<1> QED BY <1>0, <1>7 DEF TypeOK, TypedOver

LEMMA ConnectType ==
    ASSUME TypeOK, HandlersInside, NEW r \in Requests,
           \/ ConnectLookup(r) \/ ConnectNewProfile(r) \/ ConnectStartSession(r)
           \/ ConnectSetSession(r)
    PROVE  TypeOK'
<1>0. PICK P : P = DOMAIN profiles
  OBVIOUS
<1>1. TypedOver(P) /\ P = 1 .. Len(profiles) /\ Len(profiles) \in Nat
  BY <1>0, TypeOver, LenProperties DEF TypedOver
<1>2. req[r] \in Thread(P) /\ Arg[r] \in Users
  BY <1>1, RequestType DEF TypedOver
<1>3. CASE ConnectLookup(r)
  <2> DEFINE me == GetProfileByName(profiles, Arg[r])
  <2>1. CASE me # 0
    <3>1. me \in DOMAIN profiles
      BY <2>1, Found
    <3> QED BY <1>3, <2>1, <3>1, StartType DEF ConnectLookup
  <2>2. CASE me = 0
    <3>1. At("new") \in Thread(P)
      BY ThreadType DEF PCs
    <3>2. Goto(r, At("new")) /\ UNCHANGED <<up, profiles, table, sending, disturbed>>
      BY <1>3, <2>2 DEF ConnectLookup
    <3> QED BY <1>0, <1>1, <3>1, <3>2, HandlerType DEF TypedOver
  <2> QED BY <2>1, <2>2
<1>4. CASE ConnectNewProfile(r)
  <2>1. PICK Q : Q = 1 .. Len(profiles) + 1
    OBVIOUS
  <2>2. /\ Profiles(P) \subseteq Profiles(Q) /\ Notifications(P) \subseteq Notifications(Q)
        /\ Thread(P) \subseteq Thread(Q) /\ WorkerState(P) \subseteq WorkerState(Q)
    <3>1. P \subseteq Q
      BY <1>1, <2>1
    <3> QED BY <3>1, TypesGrow
  <2>3. PICK s \in FreshPtr : profiles' = Append(profiles, NewProfile(Arg[r], s))
    BY <1>4 DEF ConnectNewProfile
  <2>4. NewProfile(Arg[r], s) \in Profiles(Q)
    BY <1>2, ServerAssumption, EmptySeq DEF Profiles, NewProfile
  <2>5. profiles \in Seq(Profiles(Q))
    BY <1>1, <2>2, SeqMonotonic DEF TypedOver
  <2>6. profiles' \in Seq(Profiles(Q)) /\ DOMAIN profiles' = Q
    BY <2>1, <2>3, <2>4, <2>5, AppendProperties
  <2>7. [At("start") EXCEPT !.me = Len(profiles) + 1] \in Thread(Q)
    <3>1. Len(profiles) + 1 \in Q
      BY <1>1, <2>1
    <3> QED BY <3>1, ThreadType DEF PCs
  <2>8. req' \in [Requests -> Thread(Q)]
    <3>1. req \in [Requests -> Thread(Q)]
      BY <1>1, <2>2 DEF TypedOver
    <3> QED BY <1>4, <2>7, <3>1, GotoType DEF ConnectNewProfile
  <2>9. /\ queue' \in Seq(Notifications(Q)) /\ pushed' \in Seq(Notifications(Q))
        /\ sent' \in Seq([notif : Notifications(Q), socket : Hosts])
    <3>1. [notif : Notifications(P), socket : Hosts]
            \subseteq [notif : Notifications(Q), socket : Hosts]
      BY <2>2
    <3>2. /\ queue \in Seq(Notifications(Q)) /\ pushed \in Seq(Notifications(Q))
          /\ sent \in Seq([notif : Notifications(Q), socket : Hosts])
      <4>1. queue \in Seq(Notifications(Q)) /\ pushed \in Seq(Notifications(Q))
        BY <1>1, <2>2, SeqMonotonic DEF TypedOver
      <4>2. sent \in Seq([notif : Notifications(Q), socket : Hosts])
        <5> DEFINE A == [notif : Notifications(P), socket : Hosts]
                   B == [notif : Notifications(Q), socket : Hosts]
        <5>1. A \subseteq B /\ sent \in Seq(A)
          BY <1>1, <3>1 DEF TypedOver
        <5> HIDE DEF A, B
        <5>2. sent \in Seq(B)
          BY <5>1, SeqMonotonic
        <5> QED BY <5>2 DEF B
      <4> QED BY <4>1, <4>2
    <3> QED BY <1>4, <3>2 DEF ConnectNewProfile, sending
  <2>10. up' \in BOOLEAN
    BY <1>4 DEF ConnectNewProfile, Sync, Risk
  <2>11. TypedOver(Q)'
    BY <1>1, <1>4, <2>2, <2>6, <2>8, <2>9, <2>10
    DEF TypedOver, ConnectNewProfile, table, sending
  <2> QED BY <2>6, <2>11 DEF TypeOK, TypedOver
<1>5. CASE ConnectStartSession(r)
  <2>1. req[r].me \in DOMAIN profiles
    BY <1>0, <1>2, <1>5 DEF ConnectStartSession, Continue, HandlersInside, Inside, Thread
  <2> QED BY <1>5, <2>1, StartType DEF ConnectStartSession
<1>6. CASE ConnectSetSession(r)
  <2> DEFINE me == req[r].me
  <2>1. me \in P
    BY <1>2, <1>6 DEF ConnectSetSession, Continue, HandlersInside, Inside, Thread
  <2>2. profiles[me] \in Profiles(P)
    BY <1>1, <2>1, ElementOfSeq DEF TypedOver
  <2>3. [profiles[me] EXCEPT !.session = "set"] \in Profiles(P)
    BY <2>2 DEF Profiles
  <2>4. profiles' = [profiles EXCEPT ![me] = [profiles[me] EXCEPT !.session = "set"]]
    BY <1>6 DEF ConnectSetSession
  <2>5. profiles' \in Seq(Profiles(P)) /\ Len(profiles') = Len(profiles)
    BY <1>1, <2>1, <2>3, <2>4, ExceptSeq DEF TypedOver
  <2>6. Done \in Thread(P)
    BY ThreadType DEF Done, PCs
  <2>7. up' \in BOOLEAN
    BY <1>6 DEF ConnectSetSession, Risk
  <2> QED BY <1>0, <1>1, <1>6, <2>5, <2>6, <2>7, HandlerType DEF ConnectSetSession
<1> QED BY <1>3, <1>4, <1>5, <1>6

LEMMA DisconnectType ==
    ASSUME TypeOK, NEW r \in Requests, Disconnect(r)
    PROVE  TypeOK'
<1>0. PICK P : P = DOMAIN profiles
  OBVIOUS
<1>1. TypedOver(P)
  BY <1>0, TypeOver
<1>2. Arg[r] \in Users /\ From[r] \in Hosts
  BY RequestType
<1>3. sessions' \in [Users -> Seq(Hosts)]
  <2>1. sessions \in [Users -> Seq(Hosts)]
    BY <1>1 DEF TypedOver
  <2>2. EndSession(sessions, Arg[r], From[r]) \in [Users -> Seq(Hosts)]
    BY <1>2, <2>1, SessionType
  <2> QED BY <2>1, <2>2 DEF Disconnect
<1>4. req' \in [Requests -> Thread(P)]
  <2>1. Done \in Thread(P)
    BY ThreadType DEF Done, PCs
  <2> QED BY <1>1, <2>1, GotoType DEF Disconnect, TypedOver
<1>5. worker' \in WorkerState(P)
  <2>1. worker \in WorkerState(P)
    BY <1>1 DEF TypedOver
  <2>2. worker # Idle => \A h : [worker EXCEPT !.due = @ \ {h}] \in WorkerState(P)
    BY <2>1 DEF WorkerState
  <2> QED BY <2>1, <2>2 DEF Disconnect, Sending
<1>6. disturbed' \subseteq Notifications(P)
  BY <1>1 DEF Disconnect, Disturb, Sending, TypedOver, WorkerState
<1>7. TypedOver(P)'
  BY <1>1, <1>3, <1>4, <1>5, <1>6 DEF TypedOver, Disconnect
<1>8. DOMAIN profiles' = P
  BY <1>0 DEF Disconnect
<1> QED BY <1>7, <1>8 DEF TypeOK, TypedOver

LEMMA InfoType ==
    ASSUME TypeOK, NEW r \in Requests, RequestUserInfo(r)
    PROVE  TypeOK'
<1>0. PICK P : P = DOMAIN profiles
  OBVIOUS
<1>1. TypedOver(P)
  BY <1>0, TypeOver
<1>2. Done \in Thread(P)
  BY ThreadType DEF Done, PCs
<1>3. up' \in BOOLEAN
  BY DEF RequestUserInfo, Risk
<1> QED BY <1>0, <1>1, <1>2, <1>3, HandlerType DEF RequestUserInfo, TypedOver

\* The thread that FOLLOW and SEND go on with.
LEMMA FollowType ==
    ASSUME TypeOK, HandlersInside, NEW r \in Requests,
           FollowLookup(r) \/ FollowBeginPush(r) \/ FollowPush(r)
    PROVE  TypeOK'
<1>0. PICK P : P = DOMAIN profiles
  OBVIOUS
<1>1. TypedOver(P) /\ P = 1 .. Len(profiles) /\ Len(profiles) \in Nat
  BY <1>0, TypeOver, LenProperties DEF TypedOver
<1>2. req[r] \in Thread(P) /\ Done \in Thread(P)
  BY <1>1, ThreadType DEF TypedOver, Done, PCs
<1>3. \A i \in P : profiles[i] \in Profiles(P)
  BY <1>1, ElementOfSeq DEF TypedOver
<1>4. CASE FollowLookup(r)
  <2> DEFINE whom == GetProfileByName(profiles, Arg[r])
  <2>1. whom # 0 => whom \in P
    BY <1>0, Found
  <2>2. \A me \in SenderProfile(r) : me \in P
    BY <1>0, SenderFound
  <2>3. \A me \in SenderProfile(r) : whom # 0 =>
          [At("begin") EXCEPT !.me = whom, !.follower = me] \in Thread(P)
    BY <2>1, <2>2, ThreadType DEF PCs
  <2> HIDE DEF whom
  <2>4. PICK rec \in Thread(P) : Goto(r, rec)
    BY <1>2, <1>4, <2>3 DEF FollowLookup, whom
  <2> QED BY <1>0, <1>1, <1>4, <2>4, HandlerType DEF FollowLookup, TypedOver
<1>5. CASE FollowBeginPush(r)
  <2> DEFINE rec == [req[r] EXCEPT !.pc = "push",
                              !.end = Len(profiles[req[r].me].followers) + 1]
  <2>1. req[r].me \in P
    BY <1>2, <1>5 DEF FollowBeginPush, Continue, HandlersInside, Inside, Thread
  <2>2. Len(profiles[req[r].me].followers) \in Nat
    BY <1>3, <2>1, LenProperties DEF Profiles
  <2>3. rec \in Thread(P)
    <3>1. Len(profiles[req[r].me].followers) + 1 \in Nat
      BY <2>2
    <3> QED BY <1>2, <3>1 DEF Thread
  <2>4. Goto(r, rec)
    BY <1>5 DEF FollowBeginPush
  <2> HIDE DEF rec
  <2> QED BY <1>0, <1>1, <1>5, <2>3, <2>4, HandlerType DEF FollowBeginPush, TypedOver
<1>6. CASE FollowPush(r)
  <2> DEFINE t == req[r]
             followers == profiles[t.me].followers
  <2>1. t.me \in P /\ t.follower \in P
    BY <1>2, <1>6 DEF FollowPush, Continue, HandlersInside, Inside, Thread
  <2>2. profiles[t.me] \in Profiles(P) /\ followers \in Seq(P)
    BY <1>3, <2>1 DEF Profiles
  <2>3. /\ Append(followers, t.follower) \in Seq(P)
        /\ [followers EXCEPT ![t.end] = t.follower] \in Seq(P)
    BY <2>1, <2>2, AppendProperties, AssignType
  <2>4. \A list \in Seq(P) :
          LET dir == [profiles EXCEPT ![t.me].followers = list]
          IN  dir \in Seq(Profiles(P)) /\ Len(dir) = Len(profiles)
    <3> TAKE list \in Seq(P)
    <3>1. [profiles[t.me] EXCEPT !.followers = list] \in Profiles(P)
      BY <2>2 DEF Profiles
    <3> QED BY <1>1, <2>1, <3>1, ExceptSeq DEF TypedOver
  <2>5. \/ profiles' = profiles
        \/ \E list \in Seq(P) : profiles' = [profiles EXCEPT ![t.me].followers = list]
    BY <1>6, <2>3 DEF FollowPush
  <2>6. profiles' \in Seq(Profiles(P)) /\ Len(profiles') = Len(profiles)
    <3>1. profiles \in Seq(Profiles(P))
      BY <1>1 DEF TypedOver
    <3>2. ASSUME NEW list \in Seq(P),
                 profiles' = [profiles EXCEPT ![t.me].followers = list]
          PROVE  profiles' \in Seq(Profiles(P)) /\ Len(profiles') = Len(profiles)
      BY <2>4, <3>2
    <3> QED BY <2>5, <3>1, <3>2
  <2>7. up' \in BOOLEAN
    BY <1>6 DEF FollowPush, Sync, Risk
  <2> QED BY <1>0, <1>1, <1>2, <1>6, <2>6, <2>7, HandlerType DEF FollowPush
<1> QED BY <1>4, <1>5, <1>6

LEMMA PostType ==
    ASSUME TypeOK, HandlersInside, NEW r \in Requests, PostStart(r) \/ PostPush(r)
    PROVE  TypeOK'
<1>0. PICK P : P = DOMAIN profiles
  OBVIOUS
<1>1. TypedOver(P) /\ P = 1 .. Len(profiles) /\ Len(profiles) \in Nat
  BY <1>0, TypeOver, LenProperties DEF TypedOver
<1>2. req[r] \in Thread(P) /\ Done \in Thread(P)
  BY <1>1, ThreadType DEF TypedOver, Done, PCs
<1>3. CASE PostStart(r)
  <2>1. \A me \in SenderProfile(r) : profiles[me].followers \in Seq(P)
    <3> TAKE me \in SenderProfile(r)
    <3>1. profiles[me] \in Profiles(P)
      BY <1>0, <1>1, SenderFound, ElementOfSeq DEF TypedOver
    <3> QED BY <3>1 DEF Profiles
  <2>2. \A me \in SenderProfile(r) :
          [At("post") EXCEPT !.left = profiles[me].followers] \in Thread(P)
    BY <2>1, ThreadType DEF PCs
  <2>3. PICK rec \in Thread(P) : Goto(r, rec)
    BY <1>2, <1>3, <2>2 DEF PostStart
  <2>4. up' \in BOOLEAN
    BY <1>3 DEF PostStart, Risk
  <2> QED BY <1>0, <1>1, <1>3, <2>3, <2>4, HandlerType DEF PostStart, TypedOver
<1>4. CASE PostPush(r)
  <2> DEFINE left == req[r].left
             n == [post |-> r, to |-> Head(left)]
  <2>1. Kind[r] = "send" /\ left # <<>> /\ left \in Seq(P)
    BY <1>2, <1>4 DEF PostPush, Continue, HandlersInside, Inside, Thread
  <2>2. Head(left) \in P /\ Tail(left) \in Seq(P)
    BY <2>1, HeadTailProperties
  <2>3. n \in Notifications(P)
    BY <2>1, <2>2 DEF Notifications
  <2>4. [req[r] EXCEPT !.left = Tail(@)] \in Thread(P)
    BY <1>2, <2>2 DEF Thread
  <2>5. req' \in [Requests -> Thread(P)]
    BY <1>1, <1>2, <1>4, <2>4, GotoType DEF PostPush, TypedOver
  <2>6. queue' \in Seq(Notifications(P)) /\ pushed' \in Seq(Notifications(P))
    BY <1>1, <1>4, <2>3, AppendProperties DEF PostPush, TypedOver
  <2>7. TypedOver(P)'
    BY <1>1, <1>4, <2>5, <2>6 DEF PostPush, TypedOver, table
  <2>8. DOMAIN profiles' = P
    BY <1>0, <1>4 DEF PostPush
  <2> QED BY <2>7, <2>8 DEF TypeOK, TypedOver
<1> QED BY <1>3, <1>4

LEMMA WorkerType ==
    ASSUME TypeOK, WorkerStep
    PROVE  TypeOK'
<1>0. PICK P : P = DOMAIN profiles
  OBVIOUS
<1> DEFINE N == Notifications(P)
<1>1. TypedOver(P) /\ P = 1 .. Len(profiles) /\ Len(profiles) \in Nat
  BY <1>0, TypeOver, LenProperties DEF TypedOver
<1>2. \A i \in P : profiles[i].handle \in Users
  <2>1. \A i \in P : profiles[i] \in Profiles(P)
    BY <1>1, ElementOfSeq DEF TypedOver
  <2> QED BY <2>1 DEF Profiles
<1>3. \A n \in N : n.to \in P /\ SocketsOf(n.to) \in Seq(Hosts)
                   /\ capacity[profiles[n.to].handle] \in Nat
  BY <1>1, <1>2 DEF TypedOver, Notifications, SocketsOf
<1>4. queue # <<>> => Head(queue) \in N /\ Tail(queue) \in Seq(N)
  BY <1>1, HeadTailProperties DEF TypedOver
<1>5. \A n \in N, end \in Nat, due \in SUBSET Hosts, block \in Nat :
        Loop(n, end, due, block) \in WorkerState(P)
  BY DEF Loop, WorkerState
<1>6. WorkerState(P)' = WorkerState(P)
  OBVIOUS
<1>7. CASE WorkerTake
  <2>1. PICK n : /\ Take(n)
                 /\ worker' = Loop(n, Len(SocketsOf(n.to)), Range(SocketsOf(n.to)),
                                   capacity[profiles[n.to].handle])
    BY <1>7 DEF WorkerTake
  <2>2. n \in N /\ queue' \in Seq(N)
    BY <1>4, <2>1 DEF Take
  <2>3. Len(SocketsOf(n.to)) \in Nat /\ Range(SocketsOf(n.to)) \subseteq Hosts
    BY <1>3, <2>2, RangeOfSeq, LenProperties
  <2>4. worker' \in WorkerState(P)
    BY <1>3, <1>5, <2>1, <2>2, <2>3
  <2>5. TypedOver(P)' /\ DOMAIN profiles' = P
    BY <1>0, <1>1, <1>7, <2>2, <2>4 DEF TypedOver, WorkerTake, table
  <2> QED BY <2>5 DEF TypeOK, TypedOver
<1>8. CASE WorkerTakeWild
  <2>1. PICK n : Take(n) /\ worker' = Loop(n, 0, {}, 0) /\ disturbed' = disturbed \cup {n}
    BY <1>8 DEF WorkerTakeWild
  <2>2. n \in N /\ queue' \in Seq(N)
    BY <1>4, <2>1 DEF Take
  <2>3. worker' \in WorkerState(P)
    BY <1>5, <2>1, <2>2
  <2>4. up' \in BOOLEAN
    BY <1>8 DEF WorkerTakeWild, Risk
  <2>5. TypedOver(P)' /\ DOMAIN profiles' = P
    BY <1>0, <1>1, <1>8, <2>1, <2>2, <2>3, <2>4 DEF TypedOver, WorkerTakeWild, table
  <2> QED BY <2>5 DEF TypeOK, TypedOver
<1>9. CASE WorkerRequeue
  <2>1. queue' \in Seq(N) /\ requeued' \subseteq N
    BY <1>1, <1>4, <1>9, AppendProperties DEF WorkerRequeue, TypedOver
  <2>2. TypedOver(P)' /\ DOMAIN profiles' = P
    BY <1>0, <1>1, <1>9, <2>1 DEF TypedOver, WorkerRequeue, table
  <2> QED BY <2>2 DEF TypeOK, TypedOver
<1>10. CASE WorkerSend
  <2> DEFINE sockets == SocketsOf(worker.notif.to)
             socket == IF \/ capacity[profiles[worker.notif.to].handle] # worker.block
                          \/ worker.i > Len(sockets)
                       THEN {} ELSE {sockets[worker.i]}
  <2>1. worker \in [pc : {"send"}, notif : N, due : SUBSET Hosts,
                    i : Nat \ {0}, end : Nat, block : Nat]
    BY <1>1, <1>10 DEF WorkerSend, TypedOver, WorkerState
  <2>2. socket \subseteq Hosts
    BY <1>3, <2>1, ElementOfSeq
  <2>3. Reply(socket) /\ worker' = [worker EXCEPT !.i = @ + 1, !.due = @ \ socket]
    BY <1>10 DEF WorkerSend
  <2> HIDE DEF socket
  <2>4. worker' \in WorkerState(P)
    <3>1. worker.i + 1 \in Nat \ {0} /\ worker.due \ socket \in SUBSET Hosts
      BY <2>1
    <3>2. [worker EXCEPT !.i = worker.i + 1, !.due = worker.due \ socket]
            \in [pc : {"send"}, notif : N, due : SUBSET Hosts,
                 i : Nat \ {0}, end : Nat, block : Nat]
      BY <2>1, <3>1
    <3> QED BY <2>3, <3>2 DEF WorkerState
  <2>5. sent' \in Seq([notif : N, socket : Hosts])
    <3>1. sent \in Seq([notif : N, socket : Hosts])
      BY <1>1 DEF TypedOver
    <3>2. \A h \in Hosts : [notif |-> worker.notif, socket |-> h] \in [notif : N, socket : Hosts]
      BY <2>1
    <3> DEFINE R == [notif : N, socket : Hosts]
    <3> HIDE DEF R
    <3>3. \A x \in R : Append(sent, x) \in Seq(R)
      BY <3>1, AppendProperties DEF R
    <3>4. \/ sent' = sent
          \/ \E h \in Hosts : sent' = Append(sent, [notif |-> worker.notif, socket |-> h])
      BY <2>2, <2>3 DEF Reply
    <3> QED BY <3>1, <3>2, <3>3, <3>4, Zenon DEF R
  <2>6. up' \in BOOLEAN
    BY <1>10 DEF WorkerSend, Risk
  <2>7. TypedOver(P)' /\ DOMAIN profiles' = P
    BY <1>0, <1>1, <1>10, <2>4, <2>5, <2>6 DEF TypedOver, WorkerSend, table
  <2> QED BY <2>7 DEF TypeOK, TypedOver
<1>11. CASE WorkerFinish
  <2>1. worker' \in WorkerState(P)
    BY <1>11 DEF WorkerFinish, WorkerState
  <2>2. missed' \subseteq N \X Hosts
    BY <1>1, <1>11 DEF WorkerFinish, TypedOver, WorkerState
  <2>3. TypedOver(P)' /\ DOMAIN profiles' = P
    BY <1>0, <1>1, <1>11, <2>1, <2>2 DEF TypedOver, WorkerFinish, table
  <2> QED BY <2>3 DEF TypeOK, TypedOver
<1> QED BY <1>7, <1>8, <1>9, <1>10, <1>11 DEF WorkerStep

LEMMA StepType == TypeOK /\ HandlersInside /\ [Next]_vars => TypeOK'
<1> SUFFICES ASSUME TypeOK, HandlersInside, [Next]_vars PROVE TypeOK'
  OBVIOUS
<1>1. CASE \E r \in Requests : RequestStep(r)
  BY <1>1, ConnectType, DisconnectType, InfoType, FollowType, PostType DEF RequestStep
<1>2. CASE WorkerStep
  BY <1>2, WorkerType
<1>3. CASE UNCHANGED vars
  BY <1>3 DEF vars, table, sending, TypeOK
<1> QED BY <1>1, <1>2, <1>3 DEF Next, Quiescent

-----------------------------------------------------------------------------
(* The directory and the handlers.                                         *)

\* No profile is removed or renamed, no list of followers gets shorter, and no
\* session pointer is taken back.
DirectoryGrows ==
    /\ Extends(profiles', profiles)
    /\ \A i \in DOMAIN profiles :
        /\ Len(profiles'[i].followers) >= Len(profiles[i].followers)
        /\ profiles[i].session = "set" => profiles'[i].session = "set"

LEMMA StepGrows ==
    ASSUME TypeOK, HandlersInside, [Next]_vars
    PROVE  DirectoryGrows
<1>0. PICK P : P = DOMAIN profiles
  OBVIOUS
<1>1. TypedOver(P) /\ P = 1 .. Len(profiles) /\ Len(profiles) \in Nat
  BY <1>0, TypeOver, LenProperties DEF TypedOver
<1>2. \A i \in P : /\ profiles[i] \in Profiles(P)
                   /\ Len(profiles[i].followers) \in Nat
  <2>1. \A i \in P : profiles[i] \in Profiles(P)
    BY <1>1, ElementOfSeq DEF TypedOver
  <2> QED BY <2>1, LenProperties DEF Profiles
<1>3. CASE UNCHANGED profiles
  BY <1>0, <1>1, <1>2, <1>3 DEF DirectoryGrows, Extends
<1>4. ASSUME NEW r \in Requests, ConnectNewProfile(r)
      PROVE  DirectoryGrows
  <2>1. PICK p : profiles' = Append(profiles, p)
    BY <1>4 DEF ConnectNewProfile
  <2>2. Len(profiles') = Len(profiles) + 1 /\ \A i \in P : profiles'[i] = profiles[i]
    BY <1>1, <2>1 DEF TypedOver
  <2> QED BY <1>0, <1>1, <1>2, <2>2 DEF DirectoryGrows, Extends
<1>5. ASSUME NEW r \in Requests, ConnectSetSession(r)
      PROVE  DirectoryGrows
  <2>1. \A i \in P : /\ profiles'[i].handle = profiles[i].handle
                     /\ profiles'[i].followers = profiles[i].followers
                     /\ profiles'[i].session \in {profiles[i].session, "set"}
    BY <1>0, <1>2, <1>5 DEF ConnectSetSession, Profiles
  <2>2. Len(profiles') = Len(profiles)
    BY <1>1, <1>5 DEF ConnectSetSession, TypedOver
  <2> QED BY <1>0, <1>1, <1>2, <2>1, <2>2 DEF DirectoryGrows, Extends
<1>6. ASSUME NEW r \in Requests, FollowPush(r), ~UNCHANGED profiles
      PROVE  DirectoryGrows
  <2> DEFINE t == req[r]
             old == profiles[t.me].followers
  <2>1. PICK list : /\ profiles' = [profiles EXCEPT ![t.me].followers = list]
                    /\ list \in {Append(old, t.follower), [old EXCEPT ![t.end] = t.follower]}
    BY <1>6 DEF FollowPush
  <2>2. \A i \in P : /\ profiles'[i].handle = profiles[i].handle
                     /\ profiles'[i].followers = IF i = t.me THEN list ELSE profiles[i].followers
                     /\ profiles'[i].session = profiles[i].session
    BY <1>0, <1>2, <2>1 DEF Profiles
  <2>3. Len(profiles') = Len(profiles)
    BY <1>1, <2>1 DEF TypedOver
  <2>4. t.me \in P => Len(list) >= Len(old)
    BY <1>2, <2>1 DEF Profiles
  <2> QED BY <1>0, <1>1, <1>2, <2>2, <2>3, <2>4 DEF DirectoryGrows, Extends
<1>7. \/ UNCHANGED profiles
      \/ \E r \in Requests : \/ ConnectNewProfile(r) \/ ConnectSetSession(r)
                             \/ FollowPush(r) /\ ~UNCHANGED profiles
  BY DEF Next, RequestStep, WorkerStep, Quiescent, vars, ConnectLookup,
         ConnectStartSession, Disconnect, RequestUserInfo, FollowLookup, FollowBeginPush,
         PostStart, PostPush, WorkerTake, WorkerTakeWild, WorkerRequeue, WorkerSend,
         WorkerFinish
<1> QED BY <1>3, <1>4, <1>5, <1>6, <1>7

\* The profile that a name finds stays the one it finds.
LEMMA StepLookup ==
    ASSUME TypeOK, TypeOK', DirectoryGrows, NEW u, GetProfileByName(profiles, u) # 0
    PROVE  GetProfileByName(profiles', u) = GetProfileByName(profiles, u)
BY LookupStays DEF TypeOK, DirectoryGrows

\* What a handler holds stays right while others take steps.
LEMMA InsideStays ==
    ASSUME TypeOK, TypeOK', DirectoryGrows,
           NEW s \in Requests, req'[s] = req[s], Inside(s)
    PROVE  Inside(s)'
<1>0. PICK P : P = DOMAIN profiles
  OBVIOUS
<1>1. TypedOver(P) /\ P = 1 .. Len(profiles) /\ Len(profiles) \in Nat
  BY <1>0, TypeOver, LenProperties DEF TypedOver
<1> DEFINE t == req[s]
<1>2. t \in Thread(P)
  BY <1>1 DEF TypedOver
<1>3. \A i \in P : profiles'[i].handle = profiles[i].handle
  BY <1>1 DEF DirectoryGrows, Extends
<1>4. CASE t.pc \in {"start", "set"}
  BY <1>2, <1>3, <1>4 DEF Inside, Thread
<1>5. CASE t.pc \in {"begin", "push"}
  <2>1. t.me \in P /\ t.follower \in P
    BY <1>2, <1>5 DEF Inside, Thread
  <2>2. GetProfileByName(profiles', profiles[t.follower].handle) = t.follower
    BY <1>5, StepLookup DEF Inside
  <2>3. t.pc = "push" => t.end \in 1 .. Len(profiles'[t.me].followers) + 1
    <3>1. profiles[t.me] \in Profiles(P) /\ Len(profiles'[t.me].followers) \in Nat
      <4>1. t.me \in DOMAIN profiles'
        BY <1>0, <1>1, <2>1, LenProperties DEF DirectoryGrows, Extends, TypeOK
      <4>2. profiles'[t.me] \in Profiles(DOMAIN profiles')
        BY <4>1, ElementOfSeq, LenProperties DEF TypeOK
      <4>3. profiles[t.me] \in Profiles(P)
        BY <1>1, <2>1, ElementOfSeq DEF TypedOver
      <4>4. profiles'[t.me].followers \in Seq(DOMAIN profiles')
        BY <4>2 DEF Profiles
      <4> QED BY <4>3, <4>4, LenProperties
    <3>2. Len(profiles[t.me].followers) \in Nat
      BY <3>1, LenProperties DEF Profiles
    <3>3. Len(profiles'[t.me].followers) >= Len(profiles[t.me].followers)
      BY <1>0, <2>1 DEF DirectoryGrows
    <3>4. t.pc = "push" => t.end \in 1 .. Len(profiles[t.me].followers) + 1
      BY DEF Inside
    <3>5. \A a, b \in Nat : \A e : e \in 1 .. a + 1 /\ b >= a => e \in 1 .. b + 1
      OBVIOUS
    <3>6. Len(profiles'[t.me].followers) \in Nat
      BY <3>1
    <3> QED BY <3>2, <3>3, <3>4, <3>5, <3>6
  <2> QED BY <1>3, <1>5, <2>1, <2>2, <2>3 DEF Inside
<1> QED BY <1>4, <1>5 DEF Inside

\* A step is one of the worker, of one handler thread, or none.
LEMMA OneThread ==
    ASSUME TypeOK, [Next]_vars
    PROVE  \/ UNCHANGED req
           \/ \E r \in Requests : RequestStep(r) /\ \A s \in Requests \ {r} : req'[s] = req[s]
<1>1. ASSUME NEW r \in Requests, RequestStep(r)
      PROVE  \A s \in Requests \ {r} : req'[s] = req[s]
  <2>1. \E rec : Goto(r, rec)
    BY <1>1 DEF RequestStep, ConnectLookup, Start, ConnectNewProfile, ConnectStartSession,
       ConnectSetSession, Disconnect, RequestUserInfo, FollowLookup, FollowBeginPush,
       FollowPush, PostStart, PostPush
  <2> QED BY <2>1 DEF Goto, TypeOK
<1>2. CASE WorkerStep \/ UNCHANGED vars
  BY <1>2 DEF WorkerStep, WorkerTake, WorkerTakeWild, WorkerRequeue, WorkerSend,
     WorkerFinish, vars
<1> QED BY <1>1, <1>2 DEF Next, Quiescent

\* Where a thread that takes a step ends up.
LEMMA StepsInside ==
    ASSUME TypeOK, TypeOK', HandlersInside, Extends(profiles, Existing), DirectoryGrows,
           NEW r \in Requests, RequestStep(r)
    PROVE  Inside(r)'
<1>0. PICK P : P = DOMAIN profiles
  OBVIOUS
<1>1. TypedOver(P) /\ P = 1 .. Len(profiles) /\ Len(profiles) \in Nat
  BY <1>0, TypeOver, LenProperties DEF TypedOver
<1>2. req \in [Requests -> Thread(P)] /\ Inside(r)
  BY <1>1 DEF TypedOver, HandlersInside
<1>3. \A i \in P : profiles'[i].handle = profiles[i].handle
  BY <1>1 DEF DirectoryGrows, Extends
<1>4. \A rec : Goto(r, rec) => req'[r] = rec
  BY <1>2 DEF Goto
<1>5. CASE req'[r].pc \in {"idle", "done"}
  BY <1>5 DEF Inside
<1>6. ASSUME NEW me \in P, profiles[me].handle = Arg[r], r \in ConnectRequests, Start(r, me)
      PROVE  Inside(r)'
  <2>1. req'[r] \in {[At("set") EXCEPT !.me = me], At("refused")}
    BY <1>4, <1>6 DEF Start
  <2> QED BY <1>1, <1>3, <1>6, <2>1 DEF Inside, At
<1>7. CASE ConnectLookup(r)
  <2> DEFINE me == GetProfileByName(profiles, Arg[r])
  <2>1. r \in ConnectRequests
    BY <1>7 DEF ConnectLookup, Receive, ConnectRequests
  <2>2. CASE me # 0
    <3>1. me \in P /\ profiles[me].handle = Arg[r]
      BY <1>0, <2>2, Found
    <3> QED BY <1>6, <1>7, <2>1, <2>2, <3>1 DEF ConnectLookup
  <2>3. CASE me = 0
    <3>1. req'[r] = At("new")
      BY <1>4, <1>7, <2>3 DEF ConnectLookup
    <3>2. GetProfileByName(Existing, Arg[r]) = 0
      BY <2>3, RequestType, LookupStays DEF TypeOK
    <3>3. r \in Newcomers
      BY <2>1, <3>2 DEF Newcomers
    <3> QED BY <2>1, <3>1, <3>3 DEF Inside, At
  <2> QED BY <2>2, <2>3
<1>8. CASE ConnectNewProfile(r)
  <2>1. req'[r] = [At("start") EXCEPT !.me = Len(profiles) + 1]
    BY <1>4, <1>8 DEF ConnectNewProfile
  <2>2. profiles'[Len(profiles) + 1].handle = Arg[r]
    <3>1. PICK s : profiles' = Append(profiles, NewProfile(Arg[r], s))
      BY <1>8 DEF ConnectNewProfile
    <3>2. profiles'[Len(profiles) + 1] = NewProfile(Arg[r], s)
      BY <1>1, <3>1 DEF TypedOver
    <3> QED BY <3>2 DEF NewProfile
  <2>3. r \in ConnectRequests
    BY <1>2, <1>8 DEF ConnectNewProfile, Continue, Inside
  <2> QED BY <1>1, <2>1, <2>2, <2>3 DEF Inside, At
<1>9. CASE ConnectStartSession(r)
  <2>1. r \in ConnectRequests /\ req[r].me \in P /\ profiles[req[r].me].handle = Arg[r]
    BY <1>2, <1>9 DEF ConnectStartSession, Continue, Inside, Thread
  <2> QED BY <1>6, <1>9, <2>1 DEF ConnectStartSession
<1>10. CASE ConnectSetSession(r) \/ Disconnect(r) \/ RequestUserInfo(r) \/ FollowPush(r)
  BY <1>4, <1>5, <1>10
  DEF ConnectSetSession, Disconnect, RequestUserInfo, FollowPush, Done, At
<1>11. CASE FollowLookup(r)
  <2> DEFINE whom == GetProfileByName(profiles, Arg[r])
  <2>1. CASE req'[r] = Done
    BY <1>5, <2>1 DEF Done, At
  <2>2. CASE req'[r] # Done
    <3>1. PICK me \in SenderProfile(r) :
            req'[r] = [At("begin") EXCEPT !.me = whom, !.follower = me] /\ whom # 0
      BY <1>4, <1>11, <2>2 DEF FollowLookup
    <3>2. whom \in P /\ profiles[whom].handle = Arg[r]
      BY <1>0, <3>1, Found
    <3>3. me \in P /\ GetProfileByName(profiles, profiles[me].handle) = me
      BY <1>0, SenderFound
    <3>4. GetProfileByName(profiles', profiles[me].handle) = me
      BY <1>1, <3>3, StepLookup
    <3>5. me # 0 /\ Kind[r] = "follow"
      <4>1. Kind[r] = "follow"
        BY <1>11 DEF FollowLookup, Receive
      <4>2. 0 \notin P
        BY <1>1
      <4> QED BY <3>3, <4>1, <4>2
    <3> HIDE DEF whom
    <3> QED BY <1>3, <3>1, <3>2, <3>3, <3>4, <3>5 DEF Inside, At
  <2> QED BY <2>1, <2>2
<1>12. CASE FollowBeginPush(r)
  <2> DEFINE t == req[r]
  <2>1. /\ t.pc = "begin" /\ t \in Thread(P) /\ UNCHANGED profiles
        /\ req'[r] = [t EXCEPT !.pc = "push", !.end = Len(profiles[t.me].followers) + 1]
    BY <1>2, <1>4, <1>12 DEF FollowBeginPush, Continue
  <2>2. t.me \in P
    BY <1>2, <2>1 DEF Inside, Thread
  <2>3. Len(profiles[t.me].followers) \in Nat
    <3>1. profiles[t.me] \in Profiles(P)
      BY <1>1, <2>2, ElementOfSeq DEF TypedOver
    <3> QED BY <3>1, LenProperties DEF Profiles
  <2>4. Len(profiles[t.me].followers) + 1 \in 1 .. Len(profiles[t.me].followers) + 1
    BY <2>3
  <2>5. /\ req'[r].pc = "push" /\ req'[r].me = t.me /\ req'[r].follower = t.follower
        /\ req'[r].end = Len(profiles[t.me].followers) + 1
    BY <2>1 DEF Thread
  <2> QED BY <1>2, <2>1, <2>4, <2>5 DEF Inside
<1>13. CASE PostStart(r)
  <2>1. \/ req'[r] = Done
        \/ \E left : req'[r] = [At("post") EXCEPT !.left = left] /\ left # <<>>
    BY <1>4, <1>13 DEF PostStart
  <2>2. Kind[r] = "send"
    BY <1>13 DEF PostStart, Receive
  <2>3. CASE req'[r] = Done
    BY <1>5, <2>3 DEF Done, At
  <2>4. ASSUME NEW left, req'[r] = [At("post") EXCEPT !.left = left], left # <<>>
        PROVE  Inside(r)'
    BY <2>2, <2>4 DEF Inside, At
  <2> QED BY <2>1, <2>3, <2>4
<1>14. CASE PostPush(r)
  <2> DEFINE left == req[r].left
  <2>1. Kind[r] = "send" /\ left # <<>> /\ left \in Seq(P) /\ req[r].pc = "post"
    BY <1>2, <1>14 DEF PostPush, Continue, Inside, Thread
  <2>2. Len(left) # 1 => Tail(left) # <<>>
    <3>1. Len(Tail(left)) = Len(left) - 1 /\ Len(left) \in Nat
      BY <2>1, HeadTailProperties, LenProperties
    <3>2. Len(left) # 1 => Len(Tail(left)) # 0
      BY <3>1
    <3> QED BY <3>2, EmptySeq
  <2>3. req'[r] = IF Len(left) = 1 THEN Done ELSE [req[r] EXCEPT !.left = Tail(@)]
    BY <1>4, <1>14 DEF PostPush
  <2>4. req[r] \in Thread(P)
    BY <1>2
  <2>5. CASE Len(left) = 1
    BY <1>5, <2>3, <2>5 DEF Done, At
  <2>6. CASE Len(left) # 1
    <3>1. req'[r].pc = "post" /\ req'[r].left = Tail(left)
      BY <2>1, <2>3, <2>4, <2>6 DEF Thread
    <3> QED BY <2>1, <2>2, <2>6, <3>1 DEF Inside
  <2> QED BY <2>5, <2>6
<1> QED BY <1>7, <1>8, <1>9, <1>10, <1>11, <1>12, <1>13, <1>14 DEF RequestStep

LEMMA StepInside ==
    ASSUME TypeOK, TypeOK', HandlersInside, Extends(profiles, Existing), [Next]_vars
    PROVE  HandlersInside' /\ Extends(profiles', Existing)
<1>1. DirectoryGrows
  BY StepGrows
<1>2. HandlersInside'
  <2> SUFFICES ASSUME NEW s \in Requests PROVE Inside(s)'
    BY DEF HandlersInside
  <2>1. CASE req'[s] = req[s]
    BY <1>1, <2>1, InsideStays DEF HandlersInside
  <2>2. CASE req'[s] # req[s]
    <3>1. RequestStep(s)
      BY <2>2, OneThread
    <3> QED BY <1>1, <3>1, StepsInside
  <2> QED BY <2>1, <2>2
<1>3. Extends(profiles', Existing)
  <2>1. Len(Existing) \in Nat /\ Len(profiles) \in Nat /\ Len(profiles') \in Nat
    BY RequestType, LenProperties DEF TypeOK
  <2> QED BY <1>1, <2>1 DEF DirectoryGrows, Extends
<1> QED BY <1>2, <1>3

\* The order in which a handler goes through its steps.
LEMMA ThreadMoves ==
    ASSUME TypeOK, NEW r \in Requests, RequestStep(r)
    PROVE  LET old == req[r].pc
               new == req'[r].pc
           IN
           \/ old = "idle" /\ Kind[r] = "connect" /\ new \in {"new", "set", "refused"}
           \/ old = "idle" /\ Kind[r] # "connect" /\ new \in {"begin", "post", "done"}
           \/ old = "new" /\ new = "start" /\ ConnectNewProfile(r)
           \/ old = "start" /\ new \in {"set", "refused"} /\ ConnectStartSession(r)
           \/ old = "set" /\ new = "done" /\ ConnectSetSession(r)
           \/ old = "begin" /\ new = "push"
           \/ old = "push" /\ new = "done" /\ FollowPush(r)
           \/ old = "post" /\ new \in {"post", "done"}
<1>0. PICK P : P = DOMAIN profiles
  OBVIOUS
<1>1. TypedOver(P)
  BY <1>0, TypeOver
<1>2. req \in [Requests -> Thread(P)] /\ req[r] \in Thread(P)
  BY <1>1 DEF TypedOver
<1>3. \A rec : Goto(r, rec) => req'[r] = rec
  BY <1>2 DEF Goto
<1>4. ASSUME NEW me, Start(r, me)
      PROVE  req'[r].pc \in {"set", "refused"}
  BY <1>3, <1>4 DEF Start, At
<1>5. CASE ConnectLookup(r) \/ ConnectStartSession(r)
  <2>1. CASE ConnectLookup(r)
    <3>1. req'[r].pc \in {"new", "set", "refused"}
      BY <1>3, <1>4, <2>1 DEF ConnectLookup, At
    <3> QED BY <2>1, <3>1 DEF ConnectLookup, Receive
  <2>2. CASE ConnectStartSession(r)
    BY <1>4, <2>2 DEF ConnectStartSession, Continue
  <2> QED BY <1>5, <2>1, <2>2
<1>6. CASE ConnectNewProfile(r) \/ ConnectSetSession(r)
  <2>1. CASE ConnectNewProfile(r)
    <3>1. req'[r] = [At("start") EXCEPT !.me = Len(profiles) + 1]
      BY <1>3, <2>1 DEF ConnectNewProfile
    <3> QED BY <2>1, <3>1 DEF ConnectNewProfile, Continue, At
  <2>2. CASE ConnectSetSession(r)
    <3>1. req'[r] = Done
      BY <1>3, <2>2 DEF ConnectSetSession
    <3> QED BY <2>2, <3>1 DEF ConnectSetSession, Continue, At, Done
  <2> QED BY <1>6, <2>1, <2>2
<1>7. CASE Disconnect(r) \/ RequestUserInfo(r) \/ PostStart(r) \/ FollowLookup(r)
  <2>1. /\ req[r].pc = "idle" /\ Kind[r] # "connect"
        /\ \/ req'[r] = Done
           \/ \E left : req'[r] = [At("post") EXCEPT !.left = left]
           \/ \E me, f : req'[r] = [At("begin") EXCEPT !.me = me, !.follower = f]
    BY <1>3, <1>7 DEF Disconnect, RequestUserInfo, PostStart, FollowLookup, Receive
  <2>2. req'[r].pc \in {"begin", "post", "done"}
    <3>1. CASE req'[r] = Done
      BY <3>1 DEF At, Done
    <3>2. ASSUME NEW left, req'[r] = [At("post") EXCEPT !.left = left]
          PROVE  req'[r].pc = "post"
      BY <3>2 DEF At
    <3>3. ASSUME NEW me, NEW f, req'[r] = [At("begin") EXCEPT !.me = me, !.follower = f]
          PROVE  req'[r].pc = "begin"
      BY <3>3 DEF At
    <3> QED BY <2>1, <3>1, <3>2, <3>3
  <2> QED BY <2>1, <2>2
<1>8. CASE FollowBeginPush(r) \/ FollowPush(r) \/ PostPush(r)
  <2>1. \A a, b : [req[r] EXCEPT !.pc = a, !.end = b].pc = a
    BY <1>2 DEF Thread
  <2>2. \A a : [req[r] EXCEPT !.left = a].pc = req[r].pc
    BY <1>2 DEF Thread
  <2>3. Done.pc = "done"
    BY DEF Done, At
  <2>4. CASE FollowBeginPush(r)
    <3>1. \E b : req'[r] = [req[r] EXCEPT !.pc = "push", !.end = b]
      BY <1>3, <2>4 DEF FollowBeginPush
    <3> QED BY <2>1, <2>4, <3>1 DEF FollowBeginPush, Continue
  <2>5. CASE FollowPush(r)
    BY <1>3, <2>3, <2>5 DEF FollowPush, Continue
  <2>6. CASE PostPush(r)
    BY <1>3, <2>2, <2>3, <2>6 DEF PostPush, Continue
  <2> QED BY <1>8, <2>4, <2>5, <2>6
<1> QED BY <1>5, <1>6, <1>7, <1>8 DEF RequestStep

\* A handler does not return to where it was.
LEMMA Onward ==
    ASSUME TypeOK, [Next]_vars, NEW c \in Requests
    PROVE  /\ req'[c].pc \in {"idle", "new"} => req[c].pc \in {"idle", "new"}
           /\ req[c].pc \in {"set", "done"} => req'[c].pc \in {"set", "done"}
           /\ req[c].pc = "refused" => req'[c].pc = "refused"
           /\ req[c].pc \in {"post", "done"} => req'[c].pc \in {"post", "done"}
<1>1. req'[c] = req[c] \/ RequestStep(c)
  BY OneThread
<1>2. CASE req'[c] = req[c]
  BY <1>2
<1>3. CASE RequestStep(c)
  BY <1>3, ThreadMoves
<1> QED BY <1>1, <1>2, <1>3

\* Who changes the number of profiles.
LEMMA StepLen ==
    ASSUME TypeOK, HandlersInside, [Next]_vars
    PROVE  \/ Len(profiles') = Len(profiles)
           \/ \E r \in Requests : ConnectNewProfile(r) /\ Len(profiles') = Len(profiles) + 1
<1>1. profiles \in Seq(Profiles(DOMAIN profiles))
  BY DEF TypeOK
<1>2. ASSUME NEW r \in Requests, ConnectNewProfile(r)
      PROVE  Len(profiles') = Len(profiles) + 1
  BY <1>1, <1>2 DEF ConnectNewProfile
<1>3. ASSUME NEW r \in Requests, ConnectSetSession(r) \/ FollowPush(r)
      PROVE  Len(profiles') = Len(profiles)
  BY <1>1, <1>3 DEF ConnectSetSession, FollowPush
<1>4. \/ UNCHANGED profiles
      \/ \E r \in Requests : ConnectNewProfile(r) \/ ConnectSetSession(r) \/ FollowPush(r)
  BY DEF Next, RequestStep, WorkerStep, Quiescent, vars, ConnectLookup,
         ConnectStartSession, Disconnect, RequestUserInfo, FollowLookup, FollowBeginPush,
         PostStart, PostPush, WorkerTake, WorkerTakeWild, WorkerRequeue, WorkerSend,
         WorkerFinish
<1> QED BY <1>2, <1>3, <1>4

LEMMA StepBounded ==
    ASSUME TypeOK, TypeOK', HandlersInside, DirectoryBounded, [Next]_vars
    PROVE  DirectoryBounded'
<1> DEFINE Left == {r \in Newcomers : req[r].pc \in {"idle", "new"}}
<1>1. IsFiniteSet(Newcomers) /\ Newcomers \subseteq Requests
  BY RequestType, ServerAssumption, FS_Subset
<1>2. IsFiniteSet(Left) /\ Cardinality(Left) \in Nat /\ Cardinality(Newcomers) \in Nat
  BY <1>1, FS_Subset, FS_CardinalityType
<1>3. Left' \subseteq Left
  BY <1>1, Onward
<1>4. /\ Len(profiles) \in Nat /\ Len(profiles') \in Nat /\ Len(Existing) \in Nat
      /\ Len(profiles) + Cardinality(Left) <= Len(Existing) + Cardinality(Newcomers)
  BY RequestType, LenProperties DEF TypeOK, DirectoryBounded
<1>5. Len(profiles') + Cardinality(Left') <= Len(Existing) + Cardinality(Newcomers)
  <2>1. CASE Len(profiles') = Len(profiles)
    <3>1. IsFiniteSet(Left') /\ Cardinality(Left') <= Cardinality(Left)
      BY <1>2, <1>3, FS_Subset
    <3>2. Cardinality(Left') \in Nat
      BY <3>1, FS_CardinalityType
    <3> HIDE DEF Left
    <3> QED BY <1>2, <1>4, <2>1, <3>1, <3>2
  <2>2. ASSUME NEW r \in Requests, ConnectNewProfile(r), Len(profiles') = Len(profiles) + 1
        PROVE  Len(profiles') + Cardinality(Left') <= Len(Existing) + Cardinality(Newcomers)
    <3>1. r \in Left
      BY <2>2 DEF ConnectNewProfile, Continue, HandlersInside, Inside
    <3>2. r \notin Left'
      <4>1. req[r].pc = "new" /\ RequestStep(r)
        BY <2>2 DEF ConnectNewProfile, Continue, RequestStep
      <4> QED BY <4>1, ThreadMoves
    <3>3. IsFiniteSet(Left \ {r}) /\ Cardinality(Left \ {r}) = Cardinality(Left) - 1
      BY <1>2, <3>1, FS_RemoveElement
    <3>4. Left' \subseteq Left \ {r}
      BY <1>3, <3>2
    <3> HIDE DEF Left
    <3>5. IsFiniteSet(Left') /\ Cardinality(Left') <= Cardinality(Left \ {r})
      BY <3>3, <3>4, FS_Subset
    <3>6. Cardinality(Left') \in Nat
      BY <3>5, FS_CardinalityType
    <3> QED BY <1>2, <1>4, <2>2, <3>3, <3>5, <3>6
  <2> QED BY <2>1, <2>2, StepLen
<1>6. Extends(profiles', Existing)
  BY StepInside DEF DirectoryBounded
<1> QED BY <1>5, <1>6 DEF DirectoryBounded

\* A follower in a list was there before, or FOLLOW has just put him there.
LEMMA FollowersFrom ==
    ASSUME TypeOK, HandlersInside, [Next]_vars,
           NEW i \in DOMAIN profiles', NEW f \in Range(profiles'[i].followers)
    PROVE  /\ i \in DOMAIN profiles /\ f \in DOMAIN profiles
           /\ \/ f \in Range(profiles[i].followers)
              \/ \E r \in Requests : FollowPush(r) /\ req[r].me = i /\ req[r].follower = f
<1>0. PICK P : P = DOMAIN profiles
  OBVIOUS
<1>1. TypedOver(P) /\ P = 1 .. Len(profiles) /\ Len(profiles) \in Nat
  BY <1>0, TypeOver, LenProperties DEF TypedOver
<1>2. \A k \in P : profiles[k] \in Profiles(P) /\ profiles[k].followers \in Seq(P)
  <2>1. \A k \in P : profiles[k] \in Profiles(P)
    BY <1>1, ElementOfSeq DEF TypedOver
  <2> QED BY <2>1 DEF Profiles
<1>3. \A k \in P : Range(profiles[k].followers) \subseteq P
  BY <1>2, RangeOfSeq
<1>4. CASE UNCHANGED profiles
  BY <1>0, <1>3, <1>4
<1>5. ASSUME NEW r \in Requests, ConnectNewProfile(r)
      PROVE  i \in P /\ f \in Range(profiles[i].followers)
  <2>1. PICK s : profiles' = Append(profiles, NewProfile(Arg[r], s))
    BY <1>5 DEF ConnectNewProfile
  <2>2. /\ DOMAIN profiles' = 1 .. Len(profiles) + 1
        /\ profiles'[Len(profiles) + 1] = NewProfile(Arg[r], s)
        /\ \A k \in P : profiles'[k] = profiles[k]
    BY <1>1, <2>1 DEF TypedOver
  <2>3. i # Len(profiles) + 1
    <3>1. NewProfile(Arg[r], s).followers = <<>>
      BY DEF NewProfile
    <3>2. Range(<<>>) = {}
      BY DEF Range
    <3> QED BY <2>2, <3>1, <3>2
  <2>4. i \in P
    BY <1>1, <2>2, <2>3
  <2> QED BY <2>2, <2>4
<1>6. ASSUME NEW r \in Requests, ConnectSetSession(r)
      PROVE  i \in P /\ f \in Range(profiles[i].followers)
  <2>1. i \in P
    BY <1>0, <1>6 DEF ConnectSetSession
  <2>2. profiles'[i].followers = profiles[i].followers
    BY <1>0, <1>2, <1>6, <2>1 DEF ConnectSetSession, Profiles
  <2> QED BY <2>1, <2>2
<1>7. ASSUME NEW r \in Requests, FollowPush(r), ~UNCHANGED profiles
      PROVE  /\ i \in P
             /\ f \in Range(profiles[i].followers) \/ (req[r].me = i /\ req[r].follower = f)
  <2> DEFINE t == req[r]
             old == profiles[t.me].followers
  <2>1. PICK list : /\ profiles' = [profiles EXCEPT ![t.me].followers = list]
                    /\ list \in {Append(old, t.follower), [old EXCEPT ![t.end] = t.follower]}
    BY <1>7 DEF FollowPush
  <2>2. i \in P
    BY <1>0, <2>1
  <2>3. profiles'[i].followers = IF i = t.me THEN list ELSE profiles[i].followers
    BY <1>0, <1>2, <2>1, <2>2 DEF Profiles
  <2>4. CASE i = t.me
    <3>1. old \in Seq(P)
      BY <1>2, <2>2, <2>4
    <3>2. PICK k \in DOMAIN list : f = list[k]
      BY <2>3, <2>4 DEF Range
    <3>3. list[k] = t.follower \/ (k \in DOMAIN old /\ list[k] = old[k])
      <4>1. CASE list = Append(old, t.follower)
        BY <3>1, <3>2, <4>1
      <4>2. CASE list = [old EXCEPT ![t.end] = t.follower]
        <5>1. k \in DOMAIN old
          BY <3>2, <4>2
        <5> HIDE DEF old, t
        <5> QED BY <4>2, <5>1
      <4> QED BY <2>1, <4>1, <4>2
    <3> QED BY <2>2, <2>4, <3>2, <3>3 DEF Range
  <2> QED BY <2>2, <2>3, <2>4
<1>8. \/ UNCHANGED profiles
      \/ \E r \in Requests : \/ ConnectNewProfile(r) \/ ConnectSetSession(r)
                             \/ FollowPush(r) /\ ~UNCHANGED profiles
  BY DEF Next, RequestStep, WorkerStep, Quiescent, vars, ConnectLookup,
         ConnectStartSession, Disconnect, RequestUserInfo, FollowLookup, FollowBeginPush,
         PostStart, PostPush, WorkerTake, WorkerTakeWild, WorkerRequeue, WorkerSend,
         WorkerFinish
<1>9. \A r \in Requests : FollowPush(r) => req[r].follower \in P
  BY <1>0, <1>1 DEF FollowPush, Continue, HandlersInside, Inside, TypedOver, Thread
<1>10. CASE i \in P /\ f \in Range(profiles[i].followers)
  BY <1>0, <1>3, <1>10
<1>11. ASSUME NEW r \in Requests, FollowPush(r), ~UNCHANGED profiles
       PROVE  /\ i \in DOMAIN profiles /\ f \in DOMAIN profiles
              /\ \/ f \in Range(profiles[i].followers)
                 \/ \E q \in Requests : FollowPush(q) /\ req[q].me = i /\ req[q].follower = f
  <2>1. CASE f \in Range(profiles[i].followers)
    BY <1>0, <1>3, <1>7, <1>11, <2>1
  <2>2. CASE req[r].me = i /\ req[r].follower = f
    BY <1>0, <1>7, <1>9, <1>11, <2>2
  <2> QED BY <1>7, <1>11, <2>1, <2>2
<1> QED BY <1>4, <1>5, <1>6, <1>8, <1>10, <1>11

LEMMA StepFollowers ==
    ASSUME TypeOK, TypeOK', HandlersInside, FollowersFound, [Next]_vars
    PROVE  FollowersFound'
<1> SUFFICES ASSUME NEW i \in DOMAIN profiles', NEW f \in Range(profiles'[i].followers)
             PROVE  GetProfileByName(profiles', profiles'[f].handle) = f
  BY DEF FollowersFound
<1>1. DirectoryGrows
  BY StepGrows
<1>2. /\ i \in DOMAIN profiles /\ f \in DOMAIN profiles
      /\ \/ f \in Range(profiles[i].followers)
         \/ \E r \in Requests : FollowPush(r) /\ req[r].me = i /\ req[r].follower = f
  BY FollowersFrom
<1>3. GetProfileByName(profiles, profiles[f].handle) = f
  BY <1>2 DEF FollowersFound, FollowPush, Continue, HandlersInside, Inside
<1>4. /\ f \in 1 .. Len(profiles) /\ f # 0
      /\ profiles'[f].handle = profiles[f].handle
  BY <1>1, <1>2, LenProperties DEF TypeOK, DirectoryGrows, Extends
<1> QED BY <1>1, <1>3, <1>4, StepLookup

\* A socket in a session was there before, or CONNECT has just put it there.
LEMMA SocketsFrom ==
    ASSUME TypeOK, HandlersInside, [Next]_vars,
           NEW u \in Users, NEW h \in Range(sessions'[u])
    PROVE  \/ h \in Range(sessions[u])
           \/ \E r \in ConnectRequests, me \in DOMAIN profiles :
                /\ Start(r, me) /\ SessionAvailable(sessions, Arg[r])
                /\ Arg[r] = u /\ From[r] = h
                /\ req'[r].pc = "set" /\ profiles[me].handle = u
<1>0. PICK P : P = DOMAIN profiles
  OBVIOUS
<1>1. TypedOver(P)
  BY <1>0, TypeOver
<1>2. sessions \in [Users -> Seq(Hosts)] /\ req \in [Requests -> Thread(P)]
  BY <1>1 DEF TypedOver
<1>3. ASSUME NEW r \in ConnectRequests, NEW me \in DOMAIN profiles, Start(r, me),
             profiles[me].handle = Arg[r], h \notin Range(sessions[u])
      PROVE  \E c \in ConnectRequests, m \in DOMAIN profiles :
                /\ Start(c, m) /\ SessionAvailable(sessions, Arg[c])
                /\ Arg[c] = u /\ From[c] = h
                /\ req'[c].pc = "set" /\ profiles[m].handle = u
  <2>1. sessions' = StartSession(sessions, Arg[r], From[r])
    BY <1>3 DEF Start
  <2>2. /\ SessionAvailable(sessions, Arg[r]) /\ Arg[r] = u
        /\ sessions'[u] = Append(sessions[u], From[r])
    BY <1>2, <1>3, <2>1 DEF StartSession
  <2>3. h = From[r]
    <3>1. PICK k \in DOMAIN sessions'[u] : h = sessions'[u][k]
      BY DEF Range
    <3>2. k \in DOMAIN sessions[u] => sessions'[u][k] = sessions[u][k]
      BY <1>2, <2>2
    <3>3. k \notin DOMAIN sessions[u]
      BY <1>3, <3>1, <3>2 DEF Range
    <3>4. sessions[u] \in Seq(Hosts) /\ k = Len(sessions[u]) + 1
      BY <1>2, <2>2, <3>1, <3>3
    <3> QED BY <2>2, <3>1, <3>4
  <2>4. req'[r].pc = "set"
    <3>1. req'[r] = [At("set") EXCEPT !.me = me]
      BY <1>2, <1>3, <2>2, RequestType DEF Start, Goto
    <3> QED BY <3>1 DEF At
  <2> QED BY <1>3, <2>2, <2>3, <2>4
<1>4. ASSUME NEW r \in Requests, Disconnect(r)
      PROVE  h \in Range(sessions[u])
  <2>1. sessions' = sessions \/ sessions' = EndSession(sessions, Arg[r], From[r])
    BY <1>4 DEF Disconnect
  <2>2. sessions'[u] = sessions[u] \/ sessions'[u] = RemoveFirst(sessions[u], From[r])
    BY <1>2, <2>1 DEF EndSession
  <2> QED BY <1>2, <2>2, RemoveFirstRange
<1>5. ASSUME NEW r \in Requests, ConnectLookup(r), ~UNCHANGED sessions
      PROVE  \E me \in DOMAIN profiles :
                r \in ConnectRequests /\ Start(r, me) /\ profiles[me].handle = Arg[r]
  <2> DEFINE me == GetProfileByName(profiles, Arg[r])
  <2>1. me # 0
    BY <1>5 DEF ConnectLookup, table
  <2>2. me \in DOMAIN profiles /\ profiles[me].handle = Arg[r]
    BY <2>1, Found
  <2> QED BY <1>5, <2>1, <2>2 DEF ConnectLookup, Receive, ConnectRequests
<1>6. ASSUME NEW r \in Requests, ConnectStartSession(r)
      PROVE  \E me \in DOMAIN profiles :
                r \in ConnectRequests /\ Start(r, me) /\ profiles[me].handle = Arg[r]
  <2>1. r \in ConnectRequests /\ req[r].me \in P /\ profiles[req[r].me].handle = Arg[r]
    BY <1>2, <1>6 DEF ConnectStartSession, Continue, HandlersInside, Inside, Thread
  <2> QED BY <1>0, <1>6, <2>1 DEF ConnectStartSession
<1>7. \/ UNCHANGED sessions
      \/ \E r \in Requests : \/ ConnectLookup(r) /\ ~UNCHANGED sessions
                             \/ ConnectStartSession(r) \/ Disconnect(r)
  BY DEF Next, RequestStep, WorkerStep, Quiescent, vars, table, ConnectNewProfile,
         ConnectSetSession, RequestUserInfo, FollowLookup, FollowBeginPush, FollowPush,
         PostStart, PostPush, WorkerTake, WorkerTakeWild, WorkerRequeue, WorkerSend,
         WorkerFinish
<1>8. CASE UNCHANGED sessions
  BY <1>8
<1> QED BY <1>3, <1>4, <1>5, <1>6, <1>7, <1>8

LEMMA StepSockets ==
    ASSUME TypeOK, TypeOK', HandlersInside, SocketsConnected, [Next]_vars
    PROVE  SocketsConnected'
<1> SUFFICES ASSUME NEW u \in Users, NEW h \in Range(sessions'[u])
             PROVE  /\ GetProfileByName(profiles', u) # 0
                    /\ \E c \in ConnectsOf(u) : From[c] = h /\ req'[c].pc \in {"set", "done"}
  BY DEF SocketsConnected, ConnectsOf
<1>1. DirectoryGrows
  BY StepGrows
<1>2. CASE h \in Range(sessions[u])
  <2>1. /\ GetProfileByName(profiles, u) # 0
        /\ \E c \in ConnectsOf(u) : From[c] = h /\ req[c].pc \in {"set", "done"}
    BY <1>2 DEF SocketsConnected
  <2> QED BY <1>1, <2>1, StepLookup, Onward DEF ConnectsOf, ConnectRequests
<1>3. ASSUME NEW r \in ConnectRequests, NEW me \in DOMAIN profiles,
             Arg[r] = u, From[r] = h, req'[r].pc = "set", profiles[me].handle = u
      PROVE  /\ GetProfileByName(profiles', u) # 0
             /\ \E c \in ConnectsOf(u) : From[c] = h /\ req'[c].pc \in {"set", "done"}
  <2>1. GetProfileByName(profiles, u) # 0
    <3>1. me \in 1 .. Len(profiles) /\ profiles \in Seq(Profiles(DOMAIN profiles))
      BY LenProperties DEF TypeOK
    <3> QED BY <1>3, <3>1, Lookup
  <2> QED BY <1>1, <1>3, <2>1, StepLookup DEF ConnectsOf
<1> QED BY <1>2, <1>3, SocketsFrom

\* A profile that a name finds only now is the one that CONNECT has just added.
LEMMA NewlyFound ==
    ASSUME TypeOK, TypeOK', HandlersInside, [Next]_vars, NEW u,
           GetProfileByName(profiles, u) = 0, GetProfileByName(profiles', u) # 0
    PROVE  \E r \in ConnectsOf(u) :
               req'[r].pc = "start" /\ req'[r].me = GetProfileByName(profiles', u)
<1> DEFINE j == GetProfileByName(profiles', u)
<1>0. profiles \in Seq(Profiles(DOMAIN profiles)) /\ Len(profiles) \in Nat
      /\ profiles' \in Seq(Profiles(DOMAIN profiles'))
  BY LenProperties DEF TypeOK
<1>1. j \in 1 .. Len(profiles') /\ profiles'[j].handle = u
  BY <1>0, Lookup
<1>2. \A k \in 1 .. Len(profiles) : profiles[k].handle # u
  BY <1>0, Lookup
<1>3. \A k \in 1 .. Len(profiles) : profiles'[k].handle # u
  BY <1>2, StepGrows DEF DirectoryGrows, Extends
<1> HIDE DEF j
<1>4. PICK r \in Requests : ConnectNewProfile(r) /\ Len(profiles') = Len(profiles) + 1
  BY <1>0, <1>1, <1>3, StepLen
<1>5. j = Len(profiles) + 1
  BY <1>0, <1>1, <1>3, <1>4
<1>6. r \in ConnectRequests
  BY <1>4 DEF ConnectNewProfile, Continue, HandlersInside, Inside
<1>7. Arg[r] = u
  <2>1. PICK s : profiles' = Append(profiles, NewProfile(Arg[r], s))
    BY <1>4 DEF ConnectNewProfile
  <2>2. profiles'[Len(profiles) + 1] = NewProfile(Arg[r], s)
    BY <1>0, <2>1
  <2> QED BY <1>1, <1>5, <2>2 DEF NewProfile
<1>8. req'[r] = [At("start") EXCEPT !.me = Len(profiles) + 1]
  BY <1>4 DEF ConnectNewProfile, Goto, TypeOK
<1>9. req'[r].pc = "start" /\ req'[r].me = j
  BY <1>5, <1>8 DEF At
<1> QED BY <1>6, <1>7, <1>9 DEF ConnectsOf, j

LEMMA StepUnderWay ==
    ASSUME TypeOK, TypeOK', HandlersInside, SessionUnderWay, [Next]_vars
    PROVE  SessionUnderWay'
<1> SUFFICES
      ASSUME NEW u \in Users, GetProfileByName(profiles', u) # 0
      PROVE  LET i == GetProfileByName(profiles', u) IN
             \/ profiles'[i].session = "set"
             \/ \E c \in ConnectsOf(u) : req'[c].pc \in {"start", "set"} /\ req'[c].me = i
             \/ \E c \in ConnectsOf(u) : req'[c].pc = "refused"
             \/ \A c \in ConnectsOf(u) : req'[c].pc = "idle"
  BY DEF SessionUnderWay, ConnectsOf
<1>1. CASE GetProfileByName(profiles, u) = 0
  BY <1>1, NewlyFound
<1>2. CASE GetProfileByName(profiles, u) # 0
  <2>0. PICK P : P = DOMAIN profiles
    OBVIOUS
  <2>1. TypedOver(P) /\ req \in [Requests -> Thread(P)]
    BY <2>0, TypeOver DEF TypedOver
  <2>2. PICK i : i = GetProfileByName(profiles, u)
    OBVIOUS
  <2>3. /\ i \in P /\ profiles[i].handle = u
        /\ DirectoryGrows /\ i = GetProfileByName(profiles', u)
    BY <1>2, <2>0, <2>2, Found, StepGrows, StepLookup
  <2>4. \A c \in ConnectsOf(u) : c \in Requests /\ Kind[c] = "connect" /\ Arg[c] = u
    BY DEF ConnectsOf, ConnectRequests
  <2>5. \A c \in Requests : \A rec : Goto(c, rec) => req'[c] = rec
    BY <2>1 DEF Goto
  <2>6. CASE profiles[i].session = "set"
    BY <2>0, <2>3, <2>6 DEF DirectoryGrows
  <2>7. ASSUME NEW c \in ConnectsOf(u), req[c].pc \in {"start", "set"}, req[c].me = i
        PROVE  \/ profiles'[i].session = "set"
               \/ req'[c].pc \in {"start", "set"} /\ req'[c].me = i
               \/ req'[c].pc = "refused"
    <3>1. CASE req'[c] = req[c]
      BY <2>7, <3>1
    <3>2. CASE RequestStep(c)
      <4>1. ConnectStartSession(c) \/ ConnectSetSession(c)
        BY <2>4, <2>7, <3>2, ThreadMoves
      <4>2. CASE ConnectStartSession(c)
        <5>1. req'[c] \in {[At("set") EXCEPT !.me = i], At("refused")}
          BY <2>4, <2>5, <2>7, <4>2 DEF ConnectStartSession, Start
        <5> QED BY <5>1 DEF At
      <4>3. CASE ConnectSetSession(c)
        <5>1. profiles[i] \in Profiles(P)
          BY <2>0, <2>1, <2>3, ElementOfSeq, LenProperties DEF TypedOver
        <5>2. profiles' = [profiles EXCEPT ![i].session = "set"]
          BY <2>7, <4>3 DEF ConnectSetSession
        <5> QED BY <2>0, <2>3, <5>1, <5>2 DEF Profiles
      <4> QED BY <4>1, <4>2, <4>3
    <3> QED BY <2>4, <3>1, <3>2, OneThread
  <2>8. ASSUME NEW c \in ConnectsOf(u), req[c].pc = "refused"
        PROVE  req'[c].pc = "refused"
    BY <2>4, <2>8, Onward
  <2>9. ASSUME \A c \in ConnectsOf(u) : req[c].pc = "idle",
               NEW c \in ConnectsOf(u), req'[c].pc # "idle"
        PROVE  (req'[c].pc = "set" /\ req'[c].me = i) \/ req'[c].pc = "refused"
    <3>1. RequestStep(c) /\ req[c].pc = "idle"
      BY <2>4, <2>9, OneThread
    <3>2. ConnectLookup(c)
      <4>1. Kind[c] = "connect"
        BY <2>4
      <4> QED BY <3>1, <4>1
          DEF RequestStep, Receive, Continue, ConnectNewProfile, ConnectStartSession,
              ConnectSetSession, Disconnect, RequestUserInfo, FollowLookup,
              FollowBeginPush, FollowPush, PostStart, PostPush
    <3>3. Start(c, i)
      BY <1>2, <2>2, <2>4, <3>2 DEF ConnectLookup
    <3>4. req'[c] \in {[At("set") EXCEPT !.me = i], At("refused")}
      BY <2>4, <2>5, <3>3 DEF Start
    <3> QED BY <3>4 DEF At
  <2>10. \/ profiles[i].session = "set"
         \/ \E c \in ConnectsOf(u) : req[c].pc \in {"start", "set"} /\ req[c].me = i
         \/ \E c \in ConnectsOf(u) : req[c].pc = "refused"
         \/ \A c \in ConnectsOf(u) : req[c].pc = "idle"
    BY <1>2, <2>2 DEF SessionUnderWay
  <2> QED BY <2>3, <2>6, <2>7, <2>8, <2>9, <2>10
<1> QED BY <1>1, <1>2

LEMMA InitDirectory == Init => DirectoryInv
<1> SUFFICES ASSUME Init PROVE DirectoryInv
  OBVIOUS
<1>1. TypeOK
  BY InitType
<1>2. /\ Existing \in Seq([handle : Users, followers : Seq(DOMAIN Existing)])
      /\ Len(Existing) \in Nat /\ DOMAIN Existing = 1 .. Len(Existing)
  BY RequestType, LenProperties
<1>3. /\ DOMAIN profiles = DOMAIN Existing
      /\ \A i \in DOMAIN Existing : /\ profiles[i].handle = Existing[i].handle
                                    /\ profiles[i].followers = Existing[i].followers
  BY DEF Init, NewProfile
<1>4. Extends(profiles, Existing)
  <2>1. Len(profiles) = Len(Existing)
    BY <1>1, <1>2, <1>3, LenProperties DEF TypeOK
  <2>2. \A i \in 1 .. Len(Existing) : profiles[i].handle = Existing[i].handle
    BY <1>2, <1>3
  <2> QED BY <1>2, <2>1, <2>2 DEF Extends
<1>5. \A r \in Requests : req[r] = At("idle")
  BY DEF Init
<1>6. HandlersInside
  BY <1>5 DEF HandlersInside, Inside, At
<1>7. DirectoryBounded
  <2>1. {r \in Newcomers : req[r].pc \in {"idle", "new"}} = Newcomers
    BY <1>5, RequestType DEF At
  <2>2. Cardinality(Newcomers) \in Nat
    BY RequestType, ServerAssumption, FS_Subset, FS_CardinalityType
  <2>3. Len(profiles) = Len(Existing)
    BY <1>1, <1>2, <1>3, LenProperties DEF TypeOK
  <2>4. Len(profiles) + Cardinality(Newcomers) <= Len(Existing) + Cardinality(Newcomers)
    BY <1>2, <2>2, <2>3
  <2> QED BY <1>4, <2>1, <2>4 DEF DirectoryBounded
<1>8. FollowersFound
  <2> SUFFICES ASSUME NEW i \in DOMAIN Existing, NEW f \in Range(Existing[i].followers)
               PROVE  GetProfileByName(profiles, profiles[f].handle) = f
    BY <1>3 DEF FollowersFound
  <2>1. GetProfileByName(Existing, Existing[f].handle) = f
    BY ExistingAssumption
  <2>2. Existing[i].followers \in Seq(DOMAIN Existing)
    <3> DEFINE R == [handle : Users, followers : Seq(DOMAIN Existing)]
    <3>1. Existing[i] \in R
      BY <1>2, ElementOfSeq
    <3> QED BY <3>1
  <2>3. f \in DOMAIN Existing
    BY <2>2, RangeOfSeq
  <2>4. f # 0 /\ profiles[f].handle = Existing[f].handle
    BY <1>2, <1>3, <2>3
  <2> QED BY <1>1, <1>2, <1>4, <2>1, <2>4, LookupStays DEF TypeOK
<1>9. SocketsConnected
  <2>1. \A u \in Users : Range(sessions[u]) = {}
    BY DEF Init, Range
  <2> QED BY <2>1 DEF SocketsConnected
<1>10. SessionUnderWay
  BY <1>5 DEF SessionUnderWay, ConnectsOf, ConnectRequests, At
<1> QED BY <1>1, <1>6, <1>7, <1>8, <1>9, <1>10 DEF DirectoryInv

LEMMA StepDirectory == DirectoryInv /\ [Next]_vars => DirectoryInv'
<1> SUFFICES ASSUME DirectoryInv, [Next]_vars PROVE DirectoryInv'
  OBVIOUS
<1>1. /\ TypeOK /\ HandlersInside /\ DirectoryBounded
      /\ FollowersFound /\ SocketsConnected /\ SessionUnderWay
  BY DEF DirectoryInv
<1>2. TypeOK'
  BY <1>1, StepType
<1>3. HandlersInside'
  BY <1>1, <1>2, StepInside DEF DirectoryBounded
<1>4. DirectoryBounded'
  BY <1>1, <1>2, StepBounded
<1>5. FollowersFound'
  BY <1>1, <1>2, StepFollowers
<1>6. SocketsConnected'
  BY <1>1, <1>2, StepSockets
<1>7. SessionUnderWay'
  BY <1>1, <1>2, StepUnderWay
<1> QED BY <1>2, <1>3, <1>4, <1>5, <1>6, <1>7 DEF DirectoryInv

LEMMA DirectoryCorrect == Spec => []DirectoryInv
<1> QED BY InitDirectory, StepDirectory, PTL DEF Spec

\* Every variable keeps its type, whatever requests clients send and in whichever
\* order the threads run; a Profile pointer that a thread or the queue holds is
\* always the position of a profile.
THEOREM ServerTypes == Spec => []TypeOK
<1>1. DirectoryInv => TypeOK
  BY DEF DirectoryInv
<1> QED BY <1>1, DirectoryCorrect, PTL

\* A name that finds a profile finds the same one ever after, also when two
\* CONNECTs of a new user each add one.
THEOREM LookupsAreStable == Spec => LookupStable
<1>1. DirectoryInv /\ DirectoryInv' /\ [Next]_vars =>
        [\A u \in Users :
            LET i == GetProfileByName(profiles, u)
            IN  i # 0 => GetProfileByName(profiles', u) = i]_vars
  BY StepGrows, StepLookup DEF DirectoryInv
<1> QED BY <1>1, DirectoryCorrect, PTL DEF Spec, LookupStable

\* Every follower in a list is the profile that his name finds.
THEOREM FollowersAreFound == Spec => []FollowersFound
<1>1. DirectoryInv => FollowersFound
  BY DEF DirectoryInv
<1> QED BY <1>1, DirectoryCorrect, PTL

\* A user with a socket is online through the profile that others find, once his
\* CONNECTs have finished and none of them was refused.
THEOREM ConnectedAreOnline == Spec => []ConnectedIsOnline
<1>1. DirectoryInv => ConnectedIsOnline
  <2> SUFFICES ASSUME DirectoryInv, NEW u \in Users, sessions[u] # <<>>,
                      \A r \in ConnectsOf(u) : req[r].pc \in {"idle", "done"}
               PROVE  Online(GetProfileByName(profiles, u))
    BY DEF ConnectedIsOnline
  <2> DEFINE i == GetProfileByName(profiles, u)
  <2>0. TypeOK /\ SocketsConnected /\ SessionUnderWay
    BY DEF DirectoryInv
  <2>1. \E h : h \in Range(sessions[u])
    <3>1. sessions[u] \in Seq(Hosts)
      BY <2>0 DEF TypeOK
    <3>2. 1 \in DOMAIN sessions[u]
      BY <3>1, EmptySeq, LenProperties
    <3> QED BY <3>2 DEF Range
  <2>2. i # 0 /\ \E c \in ConnectsOf(u) : req[c].pc \in {"set", "done"}
    BY <2>0, <2>1 DEF SocketsConnected
  <2>3. profiles[i].handle = u
    BY <2>0, <2>2, Found
  <2>4. profiles[i].session = "set"
    BY <2>0, <2>2 DEF SessionUnderWay
  <2> QED BY <2>3, <2>4 DEF Online, SocketsOf
<1> QED BY <1>1, DirectoryCorrect, PTL

=============================================================================
