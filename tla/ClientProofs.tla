----------------------------- MODULE ClientProofs ---------------------------
(***************************************************************************)
(* Proofs about the threads of the client, for every set of packets, every *)
(* order of their arrival and every input.                                 *)
(***************************************************************************)
EXTENDS Client, VectorProofs

-----------------------------------------------------------------------------
(* Where the threads are.                                                  *)

PCs == {"start", "none", "load", "store", "send", "close", "push", "pushing", "spawn",
        "draw", "input", "login", "window", "listen", "reorder", "hand"}

LEMMA AtFields ==
    ASSUME NEW pc
    PROVE  /\ At(pc).pc = pc /\ At(pc).msg = "" /\ At(pc).then = ""
           /\ At(pc).reg = 0
           /\ pc \in PCs => At(pc) \in Thread
BY DEF At, Thread, PCs

LEMMA DoingFields ==
    ASSUME NEW pc, NEW msg, NEW then
    PROVE  /\ Doing(pc, msg, then).pc = pc /\ Doing(pc, msg, then).msg = msg
           /\ Doing(pc, msg, then).then = then
           /\ (/\ pc \in PCs /\ msg \in Shown \cup Sends
               /\ then \in {"spawn", "draw", "window", "close", "listen", "hand"})
                => Doing(pc, msg, then) \in Thread
BY DEF At, Doing, Thread, PCs

LEMMA GotoEffect ==
    ASSUME th \in [Threads -> Thread], NEW t \in Threads, NEW rec, Goto(t, rec)
    PROVE  /\ th'[t] = rec
           /\ \A s \in Threads \ {t} : th'[s] = th[s]
           /\ rec \in Thread => th' \in [Threads -> Thread]
BY DEF Goto

\* Where a thread may go at the end of a send or a push_back.
Onwards == {"spawn", "draw", "window", "close", "listen", "hand"}

\* SendMessageToServer, Shutdown and push_back, on whichever thread.
LEMMA StepThread ==
    ASSUME TypeOK, NEW t \in Threads, Step(t)
    PROVE  /\ \A s \in Threads \ {t} : th'[s] = th[s]
           /\ \/ /\ \/ th[t].pc \in SendPC /\ th'[t].pc \in SendPC
                    \/ th[t].pc \in PushPC /\ th'[t].pc \in PushPC
                 /\ th'[t].msg = th[t].msg /\ th'[t].then = th[t].then
                 /\ th'[t] \in Thread
              \/ th[t].pc \in {"send", "pushing"} /\ th'[t] = At(th[t].then)
              \/ th[t].pc = "close" /\ th'[t] = At("none")
           /\ UNCHANGED <<frontEnd, connected, running, reorder, inputs, received>>
<1>0. th \in [Threads -> Thread] /\ th[t] \in Thread /\ lastSentSeqn \in Nat
  BY DEF TypeOK
<1>1. CASE LoadSeqn(t)
  <2>1. th[t].pc = "load" /\ Goto(t, [th[t] EXCEPT !.pc = "store", !.reg = lastSentSeqn])
        /\ UNCHANGED <<frontEnd, connected, running, reorder, inputs, received>>
    BY <1>1 DEF LoadSeqn, network
  <2>2. PICK u : u = [th[t] EXCEPT !.pc = "store", !.reg = lastSentSeqn]
    OBVIOUS
  <2>3. u \in Thread /\ u.pc = "store" /\ u.msg = th[t].msg /\ u.then = th[t].then
    BY <1>0, <2>2 DEF Thread
  <2>4. th'[t] = u /\ \A s \in Threads \ {t} : th'[s] = th[s]
    BY <1>0, <2>1, <2>2, GotoEffect
  <2> QED BY <2>1, <2>3, <2>4 DEF SendPC
<1>2. CASE StoreSeqn(t)
  <2>1. th[t].pc = "store" /\ Goto(t, [th[t] EXCEPT !.pc = "send"])
        /\ UNCHANGED <<frontEnd, connected, running, reorder, inputs, received>>
    BY <1>2 DEF StoreSeqn
  <2>2. PICK u : u = [th[t] EXCEPT !.pc = "send"]
    OBVIOUS
  <2>3. u \in Thread /\ u.pc = "send" /\ u.msg = th[t].msg /\ u.then = th[t].then
    BY <1>0, <2>2 DEF Thread
  <2>4. th'[t] = u /\ \A s \in Threads \ {t} : th'[s] = th[s]
    BY <1>0, <2>1, <2>2, GotoEffect
  <2> QED BY <2>1, <2>3, <2>4 DEF SendPC
<1>3. CASE SendPacket(t)
  BY <1>0, <1>3, GotoEffect DEF SendPacket
<1>4. CASE CloseSocket(t)
  BY <1>0, <1>4, GotoEffect DEF CloseSocket
<1>5. CASE BeginPush(t)
  <2>1. th[t].pc = "push" /\ Goto(t, [th[t] EXCEPT !.pc = "pushing"])
        /\ UNCHANGED <<frontEnd, connected, running, reorder, inputs, received>>
    BY <1>5 DEF BeginPush, network
  <2>2. PICK u : u = [th[t] EXCEPT !.pc = "pushing"]
    OBVIOUS
  <2>3. u \in Thread /\ u.pc = "pushing" /\ u.msg = th[t].msg /\ u.then = th[t].then
    BY <1>0, <2>2 DEF Thread
  <2>4. th'[t] = u /\ \A s \in Threads \ {t} : th'[s] = th[s]
    BY <1>0, <2>1, <2>2, GotoEffect
  <2> QED BY <2>1, <2>3, <2>4 DEF PushPC
<1>6. CASE EndPush(t)
  BY <1>0, <1>6, GotoEffect DEF EndPush, network
<1> QED BY <1>1, <1>2, <1>3, <1>4, <1>5, <1>6 DEF Step

LEMMA ThreadsStep ==
    ASSUME TypeOK, ThreadsInside, [Next]_vars
    PROVE  ThreadsInside' /\ th' \in [Threads -> Thread]
<1>0. /\ th \in [Threads -> Thread] /\ \A t \in Threads : th[t] \in Thread
      /\ "main" \in Threads /\ "listen" \in Threads /\ "reorder" \in Threads
      /\ \A t \in Threads : t \in {"main", "listen", "reorder"}
  BY DEF TypeOK, Threads
<1>i. /\ MainInside(th["main"]) /\ ListenInside(th["listen"]) /\ ReorderInside(th["reorder"])
      /\ (Connecting \/ th["main"].pc = "spawn") =>
           th["listen"] = At("none") /\ th["reorder"] = At("none")
  BY DEF ThreadsInside
<1>1. ASSUME NEW t \in Threads, Step(t)
      PROVE  ThreadsInside' /\ th' \in [Threads -> Thread]
  <2>1. /\ \A s \in Threads \ {t} : th'[s] = th[s]
        /\ \/ /\ \/ th[t].pc \in SendPC /\ th'[t].pc \in SendPC
                 \/ th[t].pc \in PushPC /\ th'[t].pc \in PushPC
              /\ th'[t].msg = th[t].msg /\ th'[t].then = th[t].then
              /\ th'[t] \in Thread
           \/ th[t].pc \in {"send", "pushing"} /\ th'[t] = At(th[t].then)
           \/ th[t].pc = "close" /\ th'[t] = At("none")
        /\ UNCHANGED <<frontEnd, handed>>
    BY <1>1, StepThread DEF reorder
  <2>2. th[t].pc \in {"send", "pushing"} => th[t].then \in Onwards
    BY <1>0, <1>i DEF MainInside, ListenInside, ReorderInside, SendPC, PushPC, Onwards
  <2>3. th'[t] \in Thread
    BY <2>1, <2>2, AtFields DEF Onwards, PCs
  <2>4. th' \in [Threads -> Thread]
    <3>1. \E rec : Goto(t, rec)
      BY <1>1 DEF Step, LoadSeqn, StoreSeqn, SendPacket, CloseSocket, BeginPush, EndPush
    <3> QED BY <1>0, <2>3, <3>1, GotoEffect
  <2>5. CASE t = "main"
    <3>1. th'["listen"] = th["listen"] /\ th'["reorder"] = th["reorder"]
      BY <1>0, <2>1, <2>5
    <3>2. PICK a, b : a = th["main"] /\ b = th'["main"]
      OBVIOUS
    <3>3. /\ MainInside(a)
          /\ \/ /\ {a.pc, b.pc} \subseteq SendPC \/ {a.pc, b.pc} \subseteq PushPC
                /\ b.msg = a.msg /\ b.then = a.then
             \/ a.pc \in {"send", "pushing"} /\ b = At(a.then)
             \/ a.pc = "close" /\ b = At("none")
      BY <1>i, <2>1, <2>5, <3>2
    <3>4. ASSUME b = At(a.then) /\ a.pc \in {"send", "pushing"}
          PROVE  MainInside(b) /\ (b.pc = "spawn" => a.pc = "send" /\ a.then = "spawn")
                 /\ b.pc \in {"spawn", "close", "draw", "window"}
      <4>1. b.pc = a.then /\ b.pc \in {"spawn", "close", "draw", "window"}
        BY <3>3, <3>4, AtFields DEF MainInside, SendPC, PushPC
      <4>2. b.pc = "spawn" => a.pc = "send" /\ a.then = "spawn"
        BY <3>3, <3>4, <4>1 DEF MainInside, SendPC, PushPC
      <4> QED BY <4>1, <4>2 DEF MainInside, SendPC, PushPC
    <3>5. ASSUME b = At("none")
          PROVE  MainInside(b) /\ b.pc = "none"
      <4>1. b.pc = "none"
        BY <3>5, AtFields
      <4> QED BY <4>1 DEF MainInside, SendPC, PushPC
    <3>6. /\ MainInside(b)
          /\ (b.pc \in {"start", "login", "spawn"} \/ (b.pc \in SendPC /\ b.then = "spawn"))
               => a.pc \in SendPC /\ a.then = "spawn"
      BY <3>3, <3>4, <3>5 DEF MainInside, SendPC, PushPC
    <3> QED BY <1>i, <2>1, <2>4, <3>1, <3>2, <3>6 DEF ThreadsInside, ReorderInside, Connecting
  <2>6. CASE t = "listen"
    <3>1. th'["main"] = th["main"] /\ th'["reorder"] = th["reorder"]
      BY <1>0, <2>1, <2>6
    <3>2. ListenInside(th'["listen"])
      <4>1. PICK a, b : a = th["listen"] /\ b = th'["listen"]
        OBVIOUS
      <4>2. CASE b = At(a.then) /\ a.pc \in {"send", "pushing"}
        <5>0. a.then \in {"listen", "close"}
          BY <1>i, <4>1, <4>2 DEF ListenInside, SendPC, PushPC
        <5>1. b.pc = a.then /\ b.pc \in {"listen", "close"}
          BY <4>2, <5>0, AtFields
        <5> QED BY <4>1, <5>1 DEF ListenInside, SendPC, PushPC
      <4>3. CASE b = At("none")
        <5>1. b.pc = "none"
          BY <4>3, AtFields
        <5> QED BY <4>1, <5>1 DEF ListenInside, SendPC, PushPC
      <4>4. CASE /\ {a.pc, b.pc} \subseteq SendPC \/ {a.pc, b.pc} \subseteq PushPC
                 /\ b.msg = a.msg /\ b.then = a.then
        BY <1>i, <4>1, <4>4 DEF ListenInside, SendPC, PushPC
      <4> QED BY <2>1, <2>6, <4>1, <4>2, <4>3, <4>4
    <3>3. th["listen"] # At("none")
      <4>1. th["listen"].pc # "none"
        BY <2>1, <2>6 DEF SendPC, PushPC
      <4>2. At("none").pc = "none"
        BY AtFields
      <4> QED BY <4>1, <4>2
    <3> QED BY <1>i, <2>1, <2>4, <3>1, <3>2, <3>3 DEF ThreadsInside, ReorderInside, Connecting
  <2>7. CASE t = "reorder"
    <3>1. th'["main"] = th["main"] /\ th'["listen"] = th["listen"]
      BY <1>0, <2>1, <2>7
    <3>2. ReorderInside(th["reorder"])'
      <4>1. PICK a, b : a = th["reorder"] /\ b = th'["reorder"]
        OBVIOUS
      <4>2. CASE b = At(a.then) /\ a.pc \in {"send", "pushing"}
        <5>1. b.pc = a.then /\ b.pc = "hand"
          BY <1>i, <4>1, <4>2, AtFields DEF ReorderInside, PushPC
        <5> QED BY <4>1, <5>1 DEF ReorderInside, PushPC
      <4>3. CASE b = At("none")
        <5>1. b.pc = "none"
          BY <4>3, AtFields
        <5> QED BY <4>1, <5>1 DEF ReorderInside, PushPC
      <4>4. CASE /\ {a.pc, b.pc} \subseteq SendPC \/ {a.pc, b.pc} \subseteq PushPC
                 /\ b.msg = a.msg /\ b.then = a.then
        BY <1>i, <2>1, <4>1, <4>4 DEF ReorderInside, SendPC, PushPC
      <4> QED BY <2>1, <2>7, <4>1, <4>2, <4>3, <4>4
    <3>3. th["reorder"] # At("none")
      <4>1. th["reorder"].pc # "none"
        BY <2>1, <2>7 DEF SendPC, PushPC
      <4>2. At("none").pc = "none"
        BY AtFields
      <4> QED BY <4>1, <4>2
    <3> QED BY <1>i, <2>1, <2>4, <3>1, <3>2, <3>3 DEF ThreadsInside, Connecting
  <2> QED BY <1>0, <2>5, <2>6, <2>7
<1>2. ASSUME NEW rec, Goto("main", rec), rec \in Thread, MainInside(rec),
             rec.pc # "spawn", ~(rec.pc \in SendPC /\ rec.then = "spawn"),
             rec.pc \notin {"start", "login"}, UNCHANGED <<frontEnd, handed>>
      PROVE  ThreadsInside' /\ th' \in [Threads -> Thread]
  <2>1. /\ th'["main"] = rec /\ th'["listen"] = th["listen"] /\ th'["reorder"] = th["reorder"]
        /\ th' \in [Threads -> Thread]
    BY <1>0, <1>2, GotoEffect
  <2> QED BY <1>i, <1>2, <2>1 DEF ThreadsInside, Connecting, ReorderInside
<1>3. ASSUME NEW pc \in {"draw", "input", "window"}
      PROVE  LET rec == At(pc) IN
             /\ rec \in Thread /\ MainInside(rec) /\ rec.pc # "spawn"
             /\ ~(rec.pc \in SendPC /\ rec.then = "spawn") /\ rec.pc \notin {"start", "login"}
  BY <1>3, AtFields DEF MainInside, SendPC, PushPC, PCs
<1>4. ASSUME NEW msg, NEW then,
             \/ msg \in {"follow", "post"} /\ then \in {"draw", "window"}
             \/ msg = "disconnect" /\ then = "close"
      PROVE  LET rec == Doing("load", msg, then) IN
             /\ rec \in Thread /\ MainInside(rec) /\ rec.pc # "spawn"
             /\ ~(rec.pc \in SendPC /\ rec.then = "spawn") /\ rec.pc \notin {"start", "login"}
  BY <1>4, DoingFields DEF MainInside, SendPC, PushPC, PCs, Sends
<1>5. ASSUME NEW msg \in {"usage", "help"}
      PROVE  LET rec == Doing("push", msg, "draw") IN
             /\ rec \in Thread /\ MainInside(rec) /\ rec.pc # "spawn"
             /\ ~(rec.pc \in SendPC /\ rec.then = "spawn") /\ rec.pc \notin {"start", "login"}
  BY <1>5, DoingFields DEF MainInside, SendPC, PushPC, PCs, Shown
<1>6. CASE Connect \/ GuiLogin
  <2>1. /\ Goto("main", Doing("load", "connect", "spawn")) /\ UNCHANGED <<frontEnd, handed>>
        /\ Connecting
    BY <1>6 DEF Connect, GuiLogin, Open, Connecting, reorder
  <2>2. LET rec == Doing("load", "connect", "spawn") IN
        rec \in Thread /\ MainInside(rec)
    BY DoingFields DEF MainInside, SendPC, PushPC, PCs, Sends
  <2>3. /\ MainInside(th'["main"]) /\ th'["listen"] = th["listen"]
        /\ th'["reorder"] = th["reorder"] /\ th' \in [Threads -> Thread]
    BY <1>0, <2>1, <2>2, GotoEffect
  <2> QED BY <1>i, <2>1, <2>3 DEF ThreadsInside, ReorderInside
<1>7. CASE SpawnThreads
  <2>1. /\ th' = [main |-> At(IF frontEnd = "console" THEN "draw" ELSE "window"),
                  listen |-> At("listen"), reorder |-> At("reorder")]
        /\ UNCHANGED <<frontEnd, handed>>
    BY <1>7 DEF SpawnThreads, network, reorder
  <2>2. /\ th'["main"] \in {At("draw"), At("window")}
        /\ th'["listen"] = At("listen") /\ th'["reorder"] = At("reorder")
    BY <2>1
  <2>3. th' \in [Threads -> Thread]
    <3>1. At("draw") \in Thread /\ At("window") \in Thread /\ At("listen") \in Thread
          /\ At("reorder") \in Thread
      BY AtFields DEF PCs
    <3> QED BY <2>1, <3>1 DEF Threads
  <2>4. /\ MainInside(th'["main"]) /\ th'["main"].pc \in {"draw", "window"}
        /\ ListenInside(th'["listen"]) /\ ReorderInside(th["reorder"])'
    <3>1. /\ th'["main"].pc \in {"draw", "window"} /\ th'["listen"].pc = "listen"
          /\ th'["reorder"].pc = "reorder"
      BY <2>2, AtFields
    <3>2. MainInside(th'["main"])
      BY <3>1 DEF MainInside, SendPC, PushPC
    <3>3. ListenInside(th'["listen"])
      BY <3>1 DEF ListenInside, SendPC, PushPC
    <3> QED BY <3>1, <3>2, <3>3 DEF ReorderInside, PushPC
  <2> QED BY <2>3, <2>4 DEF ThreadsInside, Connecting, SendPC
<1>8. CASE Draw
  <2>1. (Goto("main", At("input")) \/ Goto("main", Doing("load", "disconnect", "close")))
        /\ UNCHANGED <<frontEnd, handed>>
    BY <1>8 DEF Draw, Shutdown, network, reorder
  <2> QED BY <1>2, <1>3, <1>4, <2>1
<1>9. ASSUME NEW line \in Inputs, HandleUserInput(line)
      PROVE  ThreadsInside' /\ th' \in [Threads -> Thread]
  <2>1. /\ \/ Goto("main", At("draw"))
           \/ line \in {"follow", "post"} /\ Goto("main", Doing("load", line, "draw"))
           \/ line \in {"usage", "help"} /\ Goto("main", Doing("push", line, "draw"))
        /\ UNCHANGED <<frontEnd, handed>>
    BY <1>9 DEF HandleUserInput, reorder
  <2> QED BY <1>2, <1>3, <1>4, <1>5, <2>1
<1>10. ASSUME NEW line \in Inputs, GuiPost(line)
       PROVE  ThreadsInside' /\ th' \in [Threads -> Thread]
  <2>1. /\ \/ Goto("main", At("window"))
           \/ line = "post" /\ Goto("main", Doing("load", line, "window"))
        /\ UNCHANGED <<frontEnd, handed>>
    BY <1>10 DEF GuiPost, network, reorder
  <2> QED BY <1>2, <1>3, <1>4, <2>1
<1>11. CASE UNCHANGED <<th, frontEnd, handed>>
  BY <1>0, <1>i, <1>11 DEF ThreadsInside, Connecting, ReorderInside
<1>12. ASSUME NEW rec, Goto("listen", rec), rec \in Thread, ListenInside(rec),
              th["listen"].pc = "listen", UNCHANGED <<frontEnd, handed>>
       PROVE  ThreadsInside' /\ th' \in [Threads -> Thread]
  <2>1. /\ th'["listen"] = rec /\ th'["main"] = th["main"] /\ th'["reorder"] = th["reorder"]
        /\ th' \in [Threads -> Thread]
    BY <1>0, <1>12, GotoEffect
  <2>2. th["listen"] # At("none")
    BY <1>12, AtFields
  <2> QED BY <1>i, <1>12, <2>1, <2>2 DEF ThreadsInside, Connecting, ReorderInside
<1>13. ASSUME NEW p \in Packets, ReceiveReject(p)
       PROVE  ThreadsInside' /\ th' \in [Threads -> Thread]
  <2>1. /\ Goto("listen", Doing("load", "disconnect", "close"))
        /\ th["listen"].pc = "listen" /\ UNCHANGED <<frontEnd, handed>>
    BY <1>13 DEF ReceiveReject, Receive, Shutdown, network, reorder
  <2>2. LET rec == Doing("load", "disconnect", "close") IN rec \in Thread /\ ListenInside(rec)
    BY DoingFields DEF ListenInside, SendPC, PushPC, PCs, Sends
  <2> QED BY <1>12, <2>1, <2>2
<1>14. ASSUME NEW p \in Packets, ReceiveText(p)
       PROVE  ThreadsInside' /\ th' \in [Threads -> Thread]
  <2>1. /\ Goto("listen", Hand(TypeOf[p], "listen")) /\ TypeOf[p] \in {"info", "error"}
        /\ th["listen"].pc = "listen" /\ UNCHANGED <<frontEnd, handed>>
    BY <1>14 DEF ReceiveText, Receive, network, reorder
  <2>2. Hand(TypeOf[p], "listen") \in Thread /\ ListenInside(Hand(TypeOf[p], "listen"))
    <3>1. LET rec == Doing("push", TypeOf[p], "listen") IN rec \in Thread /\ ListenInside(rec)
      BY <2>1, DoingFields DEF ListenInside, SendPC, PushPC, PCs, Shown
    <3>2. At("listen") \in Thread /\ ListenInside(At("listen"))
      BY AtFields DEF ListenInside, SendPC, PushPC, PCs
    <3> QED BY <3>1, <3>2 DEF Hand
  <2> QED BY <1>12, <2>1, <2>2
<1>15. ASSUME NEW rec, Goto("reorder", rec), rec \in Thread, ReorderInside(rec)',
              th["reorder"].pc \in {"reorder", "hand"}
       PROVE  ThreadsInside' /\ th' \in [Threads -> Thread]
  <2>1. /\ th'["reorder"] = rec /\ th'["main"] = th["main"] /\ th'["listen"] = th["listen"]
        /\ th' \in [Threads -> Thread]
    BY <1>0, <1>15, GotoEffect
  <2>2. th["reorder"] # At("none")
    BY <1>15, AtFields
  <2> QED BY <1>i, <1>15, <2>1, <2>2 DEF ThreadsInside, Connecting, ReorderInside
<1>16. CASE ReorderSort \/ ReorderClear
  <2>1. PICK pc \in {"hand", "reorder"} : Goto("reorder", At(pc))
    BY <1>16 DEF ReorderSort, ReorderClear
  <2>2. At(pc) \in Thread /\ ReorderInside(At(pc))'
    BY AtFields DEF ReorderInside, SendPC, PushPC, PCs
  <2> QED BY <1>15, <1>16, <2>1, <2>2 DEF ReorderSort, ReorderClear
<1>17. CASE ReorderHand
  <2>1. /\ Goto("reorder", Hand(Head(round), "hand")) /\ th["reorder"].pc = "hand"
        /\ handed' = Append(handed, [packet |-> Head(round), round |-> rounds])
        /\ round # <<>> /\ UNCHANGED frontEnd
    BY <1>17 DEF ReorderHand, network
  <2>2. Head(round) \in Notifications
    BY <2>1, HeadTailProperties DEF TypeOK
  <2>3. PICK e : e = [packet |-> Head(round), round |-> rounds]
    OBVIOUS
  <2>4. handed' # <<>> /\ handed'[Len(handed')].packet = Head(round)
    <3>1. e \in [packet : Notifications, round : Nat] /\ e.packet = Head(round)
      BY <2>2, <2>3 DEF TypeOK
    <3>2. Len(handed') = Len(handed) + 1 /\ handed'[Len(handed) + 1] = e
      BY <2>1, <2>3, <3>1, AppendProperties DEF TypeOK
    <3>3. Len(handed) \in Nat
      BY LenProperties DEF TypeOK
    <3> QED BY <3>1, <3>2, <3>3
  <2>5. At("hand") \in Thread /\ ReorderInside(At("hand"))'
    BY AtFields DEF ReorderInside, SendPC, PushPC, PCs
  <2>6. PICK rec : rec = Hand(Head(round), "hand")
    OBVIOUS
  <2>7. CASE frontEnd = "console"
    <3>1. rec = Doing("push", Head(round), "hand")
      BY <2>6, <2>7 DEF Hand
    <3>2. rec.pc = "push" /\ rec.msg = Head(round) /\ rec.then = "hand"
      BY <3>1, DoingFields
    <3>3. rec \in Thread
      BY <2>2, <3>1, DoingFields DEF PCs, Shown, Notifications
    <3>4. ReorderInside(rec)'
      BY <2>1, <2>4, <2>7, <3>2 DEF ReorderInside, PushPC
    <3> QED BY <1>15, <2>1, <2>6, <3>3, <3>4
  <2>8. CASE frontEnd # "console"
    BY <1>15, <2>1, <2>5, <2>8 DEF Hand
  <2> QED BY <2>7, <2>8
<1>18. ASSUME NEW p \in Packets, ReceiveAccept(p) \/ ReceiveNotification(p)
       PROVE  UNCHANGED <<th, frontEnd, handed>>
  BY <1>18 DEF ReceiveAccept, ReceiveNotification, network, reorder
<1>19. GuiClose \/ Quiescent \/ UNCHANGED vars => UNCHANGED <<th, frontEnd, handed>>
  BY DEF GuiClose, Quiescent, vars, network, reorder
<1> QED BY <1>1, <1>6, <1>7, <1>8, <1>9, <1>10, <1>11, <1>13, <1>14, <1>16, <1>17, <1>18,
           <1>19 DEF Next, ReorderStep

-----------------------------------------------------------------------------
(* The types of the variables.                                             *)

\* What std::sort leaves: the same packets, each once, in order.
LEMMA SortedShape ==
    ASSUME NEW S, NEW list \in Seq(S), NEW s \in Sorted(list)
    PROVE  /\ s \in Seq(S)
           /\ IsInjective(s)
           /\ Range(s) = Range(list)
           /\ \A i, j \in DOMAIN s : i < j => SeqnOf[s[i]] <= SeqnOf[s[j]]
<1>1. IsFiniteSet(Range(list))
  <2>1. DOMAIN list = 1 .. Len(list) /\ Len(list) \in Nat
    BY LenProperties
  <2>2. list \in Surjection(1 .. Len(list), Range(list))
    BY <2>1 DEF Range, Surjection
  <2>3. IsFiniteSet(1 .. Len(list))
    BY <2>1, FS_Interval
  <2> QED BY <2>2, <2>3, FS_Surjection
<1>2. PICK n, R : n = Cardinality(Range(list)) /\ R = Range(list)
  OBVIOUS
<1>3. /\ s \in [1 .. n -> R] /\ \A i, j \in 1 .. n : i # j => s[i] # s[j]
      /\ \A i, j \in DOMAIN s : i < j => SeqnOf[s[i]] <= SeqnOf[s[j]]
  BY <1>2 DEF Sorted, SetToSeqs
<1>4. n \in Nat /\ IsFiniteSet(R) /\ Cardinality(R) = n
  BY <1>1, <1>2, FS_CardinalityType
<1>5. s \in Injection(1 .. n, R) /\ DOMAIN s = 1 .. n
  BY <1>3 DEF Injection, IsInjective
<1>6. IsFiniteSet(1 .. n) /\ Cardinality(1 .. n) = n
  BY <1>4, FS_Interval
<1>7. s \in Surjection(1 .. n, R)
  BY <1>4, <1>5, <1>6, FS_Injection
<1>8. Range(s) = R
  BY <1>5, <1>7 DEF Surjection, Range
<1>9. R \subseteq S
  BY <1>2, LenProperties DEF Range
<1>10. s \in Seq(S)
  <2>1. s \in Seq(R)
    BY <1>3, <1>4
  <2> QED BY <1>9, <2>1, SeqMonotonic
<1> QED BY <1>2, <1>3, <1>5, <1>8, <1>10 DEF IsInjective

\* What a thread sends and what it appends to messages.
LEMMA ThreadHolds ==
    ASSUME TypeOK, ThreadsInside, NEW t \in Threads
    PROVE  /\ th[t].pc \in SendPC => th[t].msg \in Sends
           /\ th[t].pc \in PushPC => th[t].msg \in Shown
<1>1. /\ MainInside(th["main"]) /\ ListenInside(th["listen"]) /\ ReorderInside(th["reorder"])
      /\ t \in {"main", "listen", "reorder"}
  BY DEF ThreadsInside, Threads
<1>2. CASE t = "main"
  BY <1>1, <1>2 DEF MainInside, SendPC, PushPC, Sends, Shown
<1>3. CASE t = "listen"
  BY <1>1, <1>3 DEF ListenInside, SendPC, PushPC, Sends, Shown
<1>4. CASE t = "reorder"
  <2>1. th[t].pc \notin SendPC
    BY <1>1, <1>4 DEF ReorderInside, SendPC, PushPC
  <2>2. th[t].pc \in PushPC => handed # <<>> /\ th[t].msg = handed[Len(handed)].packet
    BY <1>1, <1>4 DEF ReorderInside
  <2>3. handed # <<>> => handed[Len(handed)] \in [packet : Notifications, round : Nat]
    <3>1. PICK R : R = [packet : Notifications, round : Nat]
      OBVIOUS
    <3>2. handed \in Seq(R) /\ (handed # <<>> => Len(handed) \in 1 .. Len(handed))
      BY <3>1, LenProperties, EmptySeq DEF TypeOK
    <3> QED BY <3>1, <3>2, ElementOfSeq
  <2>4. handed # <<>> => handed[Len(handed)].packet \in Packets
    BY <2>3 DEF Notifications
  <2> QED BY <2>1, <2>2, <2>4 DEF Shown
<1> QED BY <1>1, <1>2, <1>3, <1>4

LEMMA FlagsStep ==
    ASSUME TypeOK, [Next]_vars
    PROVE  /\ {up, open, isListening, connected, running}' \subseteq BOOLEAN
           /\ frontEnd' = frontEnd
           /\ inputs' \in 0 .. MaxInputs
           /\ rounds' \in Nat
<1>0. up \in BOOLEAN /\ open \in BOOLEAN /\ isListening \in BOOLEAN /\ connected \in BOOLEAN
      /\ running \in BOOLEAN /\ inputs \in 0 .. MaxInputs /\ rounds \in Nat
  BY DEF TypeOK
<1>1. ASSUME NEW t \in Threads, Step(t)
      PROVE  /\ up' \in BOOLEAN /\ open' \in BOOLEAN /\ isListening' \in BOOLEAN
             /\ UNCHANGED <<connected, running, frontEnd, inputs, rounds>>
  <2>1. CASE LoadSeqn(t)
    BY <1>0, <2>1 DEF LoadSeqn, network, reorder
  <2>2. CASE StoreSeqn(t)
    BY <1>0, <2>2 DEF StoreSeqn, reorder
  <2>3. CASE SendPacket(t)
    BY <1>0, <2>3 DEF SendPacket, reorder
  <2>4. CASE CloseSocket(t)
    BY <1>0, <2>4 DEF CloseSocket, reorder
  <2>5. CASE BeginPush(t)
    BY <1>0, <2>5 DEF BeginPush, network, reorder
  <2>6. CASE EndPush(t)
    BY <1>0, <2>6 DEF EndPush, network, reorder
  <2> QED BY <1>1, <2>1, <2>2, <2>3, <2>4, <2>5, <2>6 DEF Step
<1>2. CASE Connect \/ GuiLogin
  BY <1>0, <1>2 DEF Connect, GuiLogin, Open, reorder
<1>3. CASE SpawnThreads
  BY <1>0, <1>3 DEF SpawnThreads, network, reorder
<1>4. CASE Draw
  BY <1>0, <1>4 DEF Draw, network, reorder
<1>5. ASSUME NEW line \in Inputs, HandleUserInput(line)
      PROVE  /\ inputs' \in 0 .. MaxInputs /\ running' \in BOOLEAN
             /\ UNCHANGED <<up, open, isListening, connected, frontEnd, rounds>>
  BY <1>0, <1>5, ClientAssumption DEF HandleUserInput, reorder
<1>6. ASSUME NEW line \in Inputs, GuiPost(line)
      PROVE  /\ inputs' \in 0 .. MaxInputs
             /\ UNCHANGED <<up, open, isListening, connected, running, frontEnd, rounds>>
  BY <1>0, <1>6, ClientAssumption DEF GuiPost, network, reorder
<1>7. CASE GuiClose
  BY <1>0, <1>7 DEF GuiClose, network, reorder
<1>8. ASSUME NEW p \in Packets, ReceiveAccept(p)
      PROVE  connected' = TRUE
             /\ UNCHANGED <<up, open, isListening, running, frontEnd, inputs, rounds>>
  BY <1>8 DEF ReceiveAccept, reorder
<1>9. ASSUME NEW p \in Packets, ReceiveReject(p) \/ ReceiveText(p) \/ ReceiveNotification(p)
      PROVE  UNCHANGED <<up, open, isListening, connected, running, frontEnd, inputs, rounds>>
  BY <1>9 DEF ReceiveReject, ReceiveText, ReceiveNotification, network, reorder
<1>10. CASE ReorderStep
  <2>1. /\ UNCHANGED <<up, open, isListening, connected, running, frontEnd, inputs>>
        /\ rounds' \in {rounds, rounds + 1}
    BY <1>10 DEF ReorderStep, ReorderSort, ReorderHand, ReorderClear, network
  <2> QED BY <1>0, <2>1
<1>11. CASE Quiescent \/ UNCHANGED vars
  BY <1>0, <1>11 DEF Quiescent, vars
<1> QED BY <1>0, <1>1, <1>2, <1>3, <1>4, <1>5, <1>6, <1>7, <1>8, <1>9, <1>10, <1>11 DEF Next

LEMMA BuffersStep ==
    ASSUME TypeOK, ThreadsInside, [Next]_vars
    PROVE  /\ PacketList' \in Seq(Notifications)
           /\ round' \in Seq(Notifications)
           /\ DOMAIN received' \subseteq Packets
           /\ handed' \in Seq([packet : Notifications, round : Nat])
<1>0. /\ PacketList \in Seq(Notifications) /\ round \in Seq(Notifications)
      /\ DOMAIN received \subseteq Packets /\ rounds \in Nat
      /\ handed \in Seq([packet : Notifications, round : Nat])
  BY DEF TypeOK
<1>1. ASSUME NEW p \in Packets, NEW types, Receive(p, types)
      PROVE  DOMAIN received' \subseteq Packets /\ TypeOf[p] \in types
  BY <1>0, <1>1 DEF Receive
<1>2. ASSUME NEW p \in Packets, ReceiveAccept(p) \/ ReceiveReject(p) \/ ReceiveText(p)
      PROVE  DOMAIN received' \subseteq Packets /\ UNCHANGED <<PacketList, round, handed>>
  BY <1>1, <1>2 DEF ReceiveAccept, ReceiveReject, ReceiveText, reorder
<1>3. ASSUME NEW p \in Packets, ReceiveNotification(p)
      PROVE  /\ DOMAIN received' \subseteq Packets /\ PacketList' \in Seq(Notifications)
             /\ UNCHANGED <<round, handed>>
  <2>1. Receive(p, {"notification"}) /\ PacketList' = Append(PacketList, p)
        /\ UNCHANGED <<round, handed>>
    BY <1>3 DEF ReceiveNotification
  <2>2. p \in Notifications /\ DOMAIN received' \subseteq Packets
    BY <1>1, <2>1 DEF Notifications
  <2> QED BY <1>0, <2>1, <2>2, AppendProperties
<1>4. CASE ReorderSort
  <2>1. round' \in Sorted(PacketList) /\ UNCHANGED <<PacketList, received, handed>>
    BY <1>4 DEF ReorderSort
  <2> QED BY <1>0, <2>1, SortedShape
<1>5. CASE ReorderHand
  <2>1. /\ round # <<>> /\ round' = Tail(round) /\ UNCHANGED <<PacketList, received>>
        /\ handed' = Append(handed, [packet |-> Head(round), round |-> rounds])
    BY <1>5 DEF ReorderHand
  <2>2. Head(round) \in Notifications /\ Tail(round) \in Seq(Notifications)
    BY <1>0, <2>1, HeadTailProperties
  <2>3. PICK e, R : e = [packet |-> Head(round), round |-> rounds]
                    /\ R = [packet : Notifications, round : Nat]
    OBVIOUS
  <2>4. e \in R
    BY <1>0, <2>2, <2>3
  <2>5. handed' \in Seq(R)
    BY <1>0, <2>1, <2>3, <2>4, AppendProperties
  <2> QED BY <1>0, <2>1, <2>2, <2>3, <2>5
<1>6. CASE ReorderClear
  BY <1>0, <1>6, EmptySeq DEF ReorderClear
<1>7. CASE UNCHANGED <<PacketList, round, received, handed>>
  BY <1>0, <1>7
<1>8. ASSUME NEW t \in Threads, Step(t) PROVE UNCHANGED <<PacketList, round, received, handed>>
  BY <1>8, StepThread DEF reorder
<1>9. ASSUME NEW line \in Inputs, HandleUserInput(line) \/ GuiPost(line)
      PROVE  UNCHANGED <<PacketList, round, received, handed>>
  BY <1>9 DEF HandleUserInput, GuiPost, reorder
<1>10. Connect \/ GuiLogin \/ SpawnThreads \/ Draw \/ GuiClose \/ Quiescent \/ UNCHANGED vars
       => UNCHANGED <<PacketList, round, received, handed>>
  BY DEF Connect, GuiLogin, Open, SpawnThreads, Draw, GuiClose, Quiescent, vars, reorder
<1> QED BY <1>0, <1>2, <1>3, <1>4, <1>5, <1>6, <1>7, <1>8, <1>9, <1>10 DEF Next, ReorderStep

\* Only StoreSeqn, SendPacket and EndPush change what is numbered, sent and shown.
LEMMA SendsAndPushes ==
    ASSUME TypeOK, [Next]_vars
    PROVE  \/ UNCHANGED <<lastSentSeqn, sent, messages>>
           \/ \E t \in Threads : StoreSeqn(t) \/ SendPacket(t) \/ EndPush(t)
<1>1. ASSUME NEW t \in Threads, LoadSeqn(t) \/ CloseSocket(t) \/ BeginPush(t)
      PROVE  UNCHANGED <<lastSentSeqn, sent, messages>>
  BY <1>1 DEF LoadSeqn, CloseSocket, BeginPush, network
<1>2. ASSUME NEW line \in Inputs, HandleUserInput(line) \/ GuiPost(line)
      PROVE  UNCHANGED <<lastSentSeqn, sent, messages>>
  BY <1>2 DEF HandleUserInput, GuiPost, network
<1>3. Connect \/ GuiLogin \/ SpawnThreads \/ Draw \/ GuiClose \/ Quiescent \/ UNCHANGED vars
      => UNCHANGED <<lastSentSeqn, sent, messages>>
  BY DEF Connect, GuiLogin, Open, SpawnThreads, Draw, GuiClose, Quiescent, vars, network
<1>4. ASSUME NEW p \in Packets,
             ReceiveAccept(p) \/ ReceiveReject(p) \/ ReceiveText(p) \/ ReceiveNotification(p)
      PROVE  UNCHANGED <<lastSentSeqn, sent, messages>>
  BY <1>4 DEF ReceiveAccept, ReceiveReject, ReceiveText, ReceiveNotification, network
<1>5. ReorderStep => UNCHANGED <<lastSentSeqn, sent, messages>>
  BY DEF ReorderStep, ReorderSort, ReorderHand, ReorderClear, network
<1> QED BY <1>1, <1>2, <1>3, <1>4, <1>5 DEF Next, Step

LEMMA SentStep ==
    ASSUME TypeOK, ThreadsInside, [Next]_vars
    PROVE  /\ lastSentSeqn' \in Nat
           /\ sent' \in Seq([type : Sends, seqn : Nat])
           /\ messages' \in Seq(Shown)
<1>0. /\ lastSentSeqn \in Nat /\ sent \in Seq([type : Sends, seqn : Nat])
      /\ messages \in Seq(Shown) /\ \A t \in Threads : th[t] \in Thread
  BY DEF TypeOK
<1>1. ASSUME NEW t \in Threads, StoreSeqn(t)
      PROVE  lastSentSeqn' \in Nat /\ UNCHANGED <<sent, messages>>
  <2>1. th[t].reg \in Nat
    BY <1>0 DEF Thread
  <2> QED BY <1>1, <2>1 DEF StoreSeqn
<1>2. ASSUME NEW t \in Threads, SendPacket(t)
      PROVE  /\ sent' \in Seq([type : Sends, seqn : Nat])
             /\ UNCHANGED <<lastSentSeqn, messages>>
  <2>1. /\ th[t].pc = "send" /\ UNCHANGED <<lastSentSeqn, messages>>
        /\ sent' = IF open THEN Append(sent, Make(th[t].msg, lastSentSeqn)) ELSE sent
    BY <1>2 DEF SendPacket
  <2>2. th[t].msg \in Sends
    BY <2>1, ThreadHolds DEF SendPC
  <2>3. PICK e, R : e = Make(th[t].msg, lastSentSeqn) /\ R = [type : Sends, seqn : Nat]
    OBVIOUS
  <2>4. e \in R
    BY <1>0, <2>2, <2>3 DEF Make
  <2>5. sent' \in Seq(R)
    BY <1>0, <2>1, <2>3, <2>4, AppendProperties
  <2> QED BY <2>1, <2>3, <2>5
<1>3. ASSUME NEW t \in Threads, EndPush(t)
      PROVE  messages' \in Seq(Shown) /\ UNCHANGED <<lastSentSeqn, sent>>
  <2>1. /\ th[t].pc = "pushing" /\ UNCHANGED <<lastSentSeqn, sent>>
        /\ \/ messages' = Append(messages, th[t].msg)
           \/ messages' \in Damaged(messages, th[t].msg)
           \/ messages' = messages
    BY <1>3 DEF EndPush, network
  <2>2. th[t].msg \in Shown
    BY <2>1, ThreadHolds DEF PushPC
  <2>3. Append(messages, th[t].msg) \in Seq(Shown)
    BY <1>0, <2>2, AppendProperties
  <2>4. ASSUME messages' \in Damaged(messages, th[t].msg)
        PROVE  messages' \in Seq(Shown)
    <3>1. PICK n \in 0 .. Len(messages) :
            \/ messages' = SubSeq(messages, 1, n)
            \/ messages' = Append(SubSeq(messages, 1, n), th[t].msg)
      BY <2>4 DEF Damaged
    <3>2. \A i \in 1 .. n : messages[i] \in Shown
      <4>1. Len(messages) \in Nat /\ \A i \in 1 .. Len(messages) : messages[i] \in Shown
        BY <1>0, LenProperties, ElementOfSeq
      <4> QED BY <3>1, <4>1
    <3>3. PICK m : m = SubSeq(messages, 1, n)
      OBVIOUS
    <3>4. m \in Seq(Shown)
      <4>1. Len(messages) \in Nat
        BY <1>0, LenProperties
      <4> QED BY <1>0, <3>1, <3>2, <3>3, <4>1, SubSeqProperties
    <3>5. Append(m, th[t].msg) \in Seq(Shown)
      BY <2>2, <3>4, AppendProperties
    <3> QED BY <3>1, <3>3, <3>4, <3>5
  <2> QED BY <1>0, <2>1, <2>3, <2>4
<1> QED BY <1>0, <1>1, <1>2, <1>3, SendsAndPushes

\* Only BeginPush changes whether two threads were in push_back at once.
LEMMA RacedStep ==
    ASSUME TypeOK, [Next]_vars
    PROVE  raced' \in BOOLEAN
<1>0. raced \in BOOLEAN
  BY DEF TypeOK
<1>1. ASSUME NEW t \in Threads, Step(t)
      PROVE  raced' = raced \/ raced' = (raced \/ Pushing(t))
  BY <1>1 DEF Step, LoadSeqn, StoreSeqn, SendPacket, CloseSocket, BeginPush, EndPush
<1>2. ASSUME NEW line \in Inputs, HandleUserInput(line) \/ GuiPost(line)
      PROVE  raced' = raced
  BY <1>2 DEF HandleUserInput, GuiPost
<1>3. Connect \/ GuiLogin \/ SpawnThreads \/ Draw \/ GuiClose \/ Quiescent \/ UNCHANGED vars
      => raced' = raced
  BY DEF Connect, GuiLogin, Open, SpawnThreads, Draw, GuiClose, Quiescent, vars
<1>4. ASSUME NEW p \in Packets,
             ReceiveAccept(p) \/ ReceiveReject(p) \/ ReceiveText(p) \/ ReceiveNotification(p)
      PROVE  raced' = raced
  BY <1>4 DEF ReceiveAccept, ReceiveReject, ReceiveText, ReceiveNotification
<1>5. ReorderStep => raced' = raced
  BY DEF ReorderStep, ReorderSort, ReorderHand, ReorderClear
<1>6. raced' = raced \/ \E t \in Threads : raced' = (raced \/ Pushing(t))
  BY <1>1, <1>2, <1>3, <1>4, <1>5 DEF Next
<1> QED BY <1>0, <1>6

LEMMA TypesStep ==
    ASSUME TypeOK, ThreadsInside, [Next]_vars
    PROVE  TypeOK' /\ ThreadsInside'
<1>1. frontEnd \in FrontEnds
  BY DEF TypeOK
<1> QED BY <1>1, ThreadsStep, FlagsStep, BuffersStep, SentStep, RacedStep DEF TypeOK

LEMMA TypesInit == Init => TypeOK /\ ThreadsInside
<1> SUFFICES ASSUME Init PROVE TypeOK /\ ThreadsInside
  OBVIOUS
<1>0. th = [main |-> At(IF frontEnd = "console" THEN "start" ELSE "login"),
            listen |-> At("none"), reorder |-> At("none")]
  BY DEF Init
<1>1. /\ th["listen"] = At("none") /\ th["reorder"] = At("none")
      /\ th["main"] \in {At("start"), At("login")}
  BY <1>0
<1>2. /\ At("start") \in Thread /\ At("login") \in Thread /\ At("none") \in Thread
      /\ th["listen"].pc = "none" /\ th["reorder"].pc = "none"
      /\ th["main"].pc \in {"start", "login"}
  BY <1>1, AtFields DEF PCs
<1>3. th \in [Threads -> Thread]
  BY <1>0, <1>2 DEF Threads
<1>4. TypeOK
  <2>1. DOMAIN received \subseteq Packets
    BY DEF Init
  <2>2. /\ PacketList \in Seq(Notifications) /\ round \in Seq(Notifications)
        /\ messages \in Seq(Shown) /\ handed \in Seq([packet : Notifications, round : Nat])
        /\ sent \in Seq([type : Sends, seqn : Nat])
    BY EmptySeq DEF Init
  <2>3. /\ {up, open, isListening, connected, running} \subseteq BOOLEAN
        /\ frontEnd \in FrontEnds /\ lastSentSeqn \in Nat /\ inputs \in 0 .. MaxInputs
        /\ rounds \in Nat /\ raced \in BOOLEAN
    <3>1. /\ up = TRUE /\ open = FALSE /\ isListening = TRUE /\ connected = FALSE
          /\ running = TRUE /\ frontEnd \in FrontEnds /\ lastSentSeqn = 0 /\ inputs = 0
          /\ rounds = 0 /\ raced = FALSE
      BY DEF Init
    <3>2. up \in BOOLEAN /\ open \in BOOLEAN /\ isListening \in BOOLEAN
          /\ connected \in BOOLEAN /\ running \in BOOLEAN /\ raced \in BOOLEAN
      BY <3>1
    <3>3. inputs \in 0 .. MaxInputs
      BY <3>1, ClientAssumption
    <3> QED BY <3>1, <3>2, <3>3
  <2> QED BY <1>3, <2>1, <2>2, <2>3 DEF TypeOK
<1>5. MainInside(th["main"])
  BY <1>2 DEF MainInside, SendPC, PushPC
<1>6. ListenInside(th["listen"]) /\ ReorderInside(th["reorder"])
  BY <1>2 DEF ListenInside, ReorderInside, SendPC, PushPC
<1> QED BY <1>1, <1>4, <1>5, <1>6 DEF ThreadsInside

LEMMA TypesCorrect == Spec => [](TypeOK /\ ThreadsInside)
<1>1. TypeOK /\ ThreadsInside /\ [Next]_vars => (TypeOK /\ ThreadsInside)'
  BY TypesStep
<1> QED BY <1>1, TypesInit, PTL DEF Spec

\* Type correctness of the client, for every set of packets and every input.
THEOREM ClientTypes == Spec => []TypeOK
BY TypesCorrect, PTL

-----------------------------------------------------------------------------
(* Each notification is handed on once.                                    *)

\* What a step means for the notifications: it is one of Reorder's, it receives
\* one, or it leaves them where they are.
Elsewhere == UNCHANGED <<PacketList, round, handed, rounds>> /\ MutexFree' = MutexFree

LEMMA ReorderOrNot ==
    ASSUME TypeOK, ThreadsInside, [Next]_vars
    PROVE  \/ ReorderSort \/ ReorderHand \/ ReorderClear
           \/ \E p \in Packets : ReceiveNotification(p)
           \/ Elsewhere /\ \E p \in Packets : ReceiveAccept(p) \/ ReceiveReject(p) \/ ReceiveText(p)
           \/ Elsewhere /\ UNCHANGED received
<1>0. th \in [Threads -> Thread] /\ "reorder" \in Threads /\ "main" \in Threads
      /\ "listen" \in Threads /\ \A t \in Threads : t \in {"main", "listen", "reorder"}
  BY DEF TypeOK, Threads
<1>1. ASSUME NEW t \in Threads, Step(t) PROVE Elsewhere /\ UNCHANGED received
  <2>1. UNCHANGED <<PacketList, round, handed, rounds, received>>
    BY <1>1, StepThread DEF reorder
  <2>2. CASE t # "reorder"
    <3>1. th'["reorder"] = th["reorder"]
      BY <1>0, <1>1, <2>2, StepThread
    <3> QED BY <2>1, <3>1 DEF Elsewhere, MutexFree
  <2>3. CASE t = "reorder"
    <3>1. PICK a, b : a = th["reorder"] /\ b = th'["reorder"]
      OBVIOUS
    <3>2. /\ \/ {a.pc, b.pc} \subseteq SendPC \/ {a.pc, b.pc} \subseteq PushPC
             \/ a.pc \in {"send", "pushing"} /\ b = At(a.then)
             \/ a.pc = "close"
      BY <1>1, <2>3, <3>1, StepThread
    <3>3. /\ a.pc \in {"none", "reorder", "hand"} \cup PushPC
          /\ a.pc \in PushPC => a.then = "hand"
      BY <3>1 DEF ThreadsInside, ReorderInside
    <3>4. a.pc \in {"send", "pushing"} /\ b = At(a.then) => b.pc = "hand"
      BY <3>3, AtFields DEF PushPC
    <3>5. a.pc \in PushPC /\ b.pc \in PushPC \cup {"hand"}
      BY <3>2, <3>3, <3>4 DEF SendPC, PushPC
    <3>6. MutexFree = FALSE /\ MutexFree' = FALSE
      BY <3>1, <3>5 DEF MutexFree, PushPC
    <3> QED BY <2>1, <3>6 DEF Elsewhere
  <2> QED BY <2>2, <2>3
<1>2. ASSUME NEW rec, NEW t \in {"main", "listen"}, Goto(t, rec) PROVE MutexFree' = MutexFree
  <2>1. th'["reorder"] = th["reorder"]
    BY <1>0, <1>2, GotoEffect
  <2> QED BY <2>1 DEF MutexFree
<1>3. ASSUME NEW line \in Inputs, HandleUserInput(line) \/ GuiPost(line)
      PROVE  Elsewhere /\ UNCHANGED received
  <2>1. PICK rec : Goto("main", rec)
    BY <1>3 DEF HandleUserInput, GuiPost
  <2>2. UNCHANGED <<PacketList, round, handed, rounds, received>>
    BY <1>3 DEF HandleUserInput, GuiPost, reorder
  <2> QED BY <1>2, <2>1, <2>2 DEF Elsewhere
<1>4. CASE Connect \/ GuiLogin \/ Draw
  <2>1. PICK rec : Goto("main", rec)
    BY <1>4 DEF Connect, GuiLogin, Open, Draw
  <2>2. UNCHANGED <<PacketList, round, handed, rounds, received>>
    BY <1>4 DEF Connect, GuiLogin, Open, Draw, reorder
  <2> QED BY <1>2, <2>1, <2>2 DEF Elsewhere
<1>5. CASE SpawnThreads
  <2>1. /\ th' = [main |-> At(IF frontEnd = "console" THEN "draw" ELSE "window"),
                  listen |-> At("listen"), reorder |-> At("reorder")]
        /\ UNCHANGED <<PacketList, round, handed, rounds, received>>
        /\ th["main"].pc = "spawn"
    BY <1>5 DEF SpawnThreads, reorder
  <2>2. th'["reorder"] = At("reorder") /\ th["reorder"] = At("none")
    BY <2>1 DEF ThreadsInside
  <2>3. th'["reorder"].pc = "reorder" /\ th["reorder"].pc = "none"
    BY <2>2, AtFields
  <2> QED BY <2>1, <2>3 DEF Elsewhere, MutexFree
<1>6. CASE GuiClose \/ Quiescent \/ UNCHANGED vars
  <2>1. UNCHANGED <<PacketList, round, handed, rounds, received, th>>
    BY <1>6 DEF GuiClose, Quiescent, vars, reorder
  <2> QED BY <2>1 DEF Elsewhere, MutexFree
<1>7. ASSUME NEW p \in Packets, ReceiveAccept(p) \/ ReceiveReject(p) \/ ReceiveText(p)
      PROVE  Elsewhere
  <2>1. UNCHANGED <<PacketList, round, handed, rounds>>
    BY <1>7 DEF ReceiveAccept, ReceiveReject, ReceiveText, reorder
  <2>2. UNCHANGED th \/ \E rec : Goto("listen", rec)
    BY <1>7 DEF ReceiveAccept, ReceiveReject, ReceiveText
  <2>3. MutexFree' = MutexFree
    BY <1>2, <2>2 DEF MutexFree
  <2> QED BY <2>1, <2>3 DEF Elsewhere
<1> QED BY <1>1, <1>3, <1>4, <1>5, <1>6, <1>7 DEF Next, ReorderStep

\* What Reorder's steps do to its own place.
LEMMA ReorderPlace ==
    ASSUME TypeOK
    PROVE  /\ ReorderSort => MutexFree /\ ~MutexFree'
           /\ ReorderHand => ~MutexFree /\ ~MutexFree'
           /\ ReorderClear => ~MutexFree /\ MutexFree'
<1>0. th \in [Threads -> Thread] /\ "reorder" \in Threads
  BY DEF TypeOK, Threads
<1>1. ASSUME ReorderSort PROVE MutexFree /\ ~MutexFree'
  <2>1. th["reorder"].pc = "reorder" /\ th'["reorder"] = At("hand")
    BY <1>0, <1>1, GotoEffect DEF ReorderSort
  <2>2. th'["reorder"].pc = "hand"
    BY <2>1, AtFields
  <2> QED BY <2>1, <2>2 DEF MutexFree
<1>2. ASSUME ReorderHand PROVE ~MutexFree /\ ~MutexFree'
  <2>1. th["reorder"].pc = "hand" /\ th'["reorder"] = Hand(Head(round), "hand")
    BY <1>0, <1>2, GotoEffect DEF ReorderHand
  <2>2. th'["reorder"].pc \in {"push", "hand"}
    <3>1. th'["reorder"] \in {Doing("push", Head(round), "hand"), At("hand")}
      BY <2>1 DEF Hand
    <3>2. th'["reorder"] = Doing("push", Head(round), "hand") => th'["reorder"].pc = "push"
      BY DoingFields
    <3>3. th'["reorder"] = At("hand") => th'["reorder"].pc = "hand"
      BY AtFields
    <3> QED BY <3>1, <3>2, <3>3
  <2> QED BY <2>1, <2>2 DEF MutexFree
<1>3. ASSUME ReorderClear PROVE ~MutexFree /\ MutexFree'
  <2>1. th["reorder"].pc = "hand" /\ th'["reorder"] = At("reorder")
    BY <1>0, <1>3, GotoEffect DEF ReorderClear
  <2>2. th'["reorder"].pc = "reorder"
    BY <2>1, AtFields
  <2> QED BY <2>1, <2>2 DEF MutexFree
<1> QED BY <1>1, <1>2, <1>3

LEMMA HandedTypes ==
    ASSUME TypeOK
    PROVE  /\ Len(handed) \in Nat /\ DOMAIN handed = 1 .. Len(handed)
           /\ \A k \in DOMAIN handed :
                handed[k].packet \in Notifications /\ handed[k].round \in Nat
<1>1. PICK R : R = [packet : Notifications, round : Nat]
  OBVIOUS
<1>2. handed \in Seq(R)
  BY <1>1 DEF TypeOK
<1>3. /\ Len(handed) \in Nat /\ DOMAIN handed = 1 .. Len(handed)
      /\ \A k \in DOMAIN handed : handed[k] \in R
  BY <1>2, LenProperties, ElementOfSeq
<1> QED BY <1>1, <1>3

\* handed grows by the packet at the front of the round.
LEMMA HandStep ==
    ASSUME TypeOK, ReorderHand
    PROVE  /\ Head(round) \in Notifications /\ round # <<>>
           /\ Len(handed) \in Nat /\ Len(handed') = Len(handed) + 1
           /\ DOMAIN handed = 1 .. Len(handed) /\ DOMAIN handed' = 1 .. Len(handed) + 1
           /\ \A k \in 1 .. Len(handed) : handed'[k] = handed[k]
           /\ handed'[Len(handed) + 1].packet = Head(round)
           /\ handed'[Len(handed) + 1].round = rounds
           /\ round' = Tail(round)
           /\ UNCHANGED <<PacketList, received, rounds>>
<1>1. /\ round # <<>> /\ round' = Tail(round) /\ UNCHANGED <<PacketList, received, rounds>>
      /\ handed' = Append(handed, [packet |-> Head(round), round |-> rounds])
  BY DEF ReorderHand
<1>2. Head(round) \in Notifications
  BY <1>1, HeadTailProperties DEF TypeOK
<1>3. PICK e, R : e = [packet |-> Head(round), round |-> rounds]
                  /\ R = [packet : Notifications, round : Nat]
  OBVIOUS
<1>4. e \in R /\ e.packet = Head(round) /\ e.round = rounds
  BY <1>2, <1>3 DEF TypeOK
<1>5. /\ handed' \in Seq(R) /\ Len(handed') = Len(handed) + 1
      /\ \A k \in 1 .. Len(handed) : handed'[k] = handed[k]
      /\ handed'[Len(handed) + 1] = e
  BY <1>1, <1>3, <1>4, AppendProperties DEF TypeOK
<1>6. /\ DOMAIN handed = 1 .. Len(handed) /\ DOMAIN handed' = 1 .. Len(handed')
      /\ Len(handed) \in Nat
  BY <1>3, <1>5, LenProperties DEF TypeOK
<1> QED BY <1>1, <1>2, <1>4, <1>5, <1>6

LEMMA HandedStep ==
    ASSUME HandedInv, [Next]_vars
    PROVE  HandedInv'
<1>0. TypeOK /\ ThreadsInside /\ HandedOnce /\ RoundKept
  BY DEF HandedInv
<1>t. TypeOK' /\ ThreadsInside'
  BY <1>0, TypesStep
<1>h. /\ \A j, k \in DOMAIN handed : handed[j].packet = handed[k].packet => j = k
      /\ IsInjective(PacketList)
      /\ DOMAIN received \cap Notifications = Handed \cup Range(PacketList)
      /\ MutexFree => round = <<>> /\ Handed \cap Range(PacketList) = {}
      /\ ~MutexFree => IsInjective(round) /\ Range(round) = Range(PacketList) \ Handed
  BY <1>0 DEF HandedOnce, RoundKept
<1>q. ASSUME /\ \A j, k \in DOMAIN handed' : handed'[j].packet = handed'[k].packet => j = k
             /\ IsInjective(PacketList')
             /\ DOMAIN received' \cap Notifications = Handed' \cup Range(PacketList')
             /\ MutexFree' => round' = <<>> /\ Handed' \cap Range(PacketList') = {}
             /\ ~MutexFree' =>
                IsInjective(round') /\ Range(round') = Range(PacketList') \ Handed'
      PROVE  HandedInv'
  <2>1. RoundKept'
    BY <1>q DEF RoundKept
  <2>2. th'["reorder"].pc = "reorder" => MutexFree'
    BY DEF MutexFree
  <2>3. HandedOnce'
    BY <1>q, <2>2 DEF HandedOnce
  <2> QED BY <1>t, <2>1, <2>3 DEF HandedInv
<1>1. CASE Elsewhere /\ DOMAIN received' \cap Notifications = DOMAIN received \cap Notifications
  <2>1. /\ PacketList' = PacketList /\ round' = round /\ handed' = handed
        /\ MutexFree' = MutexFree /\ Handed' = Handed
    BY <1>1 DEF Elsewhere, Handed
  <2> QED BY <1>1, <1>h, <1>q, <2>1
<1>2. ASSUME NEW p \in Packets, ReceiveAccept(p) \/ ReceiveReject(p) \/ ReceiveText(p)
      PROVE  DOMAIN received' \cap Notifications = DOMAIN received \cap Notifications
  <2>1. DOMAIN received' = DOMAIN received \cup {p} /\ TypeOf[p] # "notification"
    BY <1>2 DEF ReceiveAccept, ReceiveReject, ReceiveText, Receive
  <2> QED BY <2>1 DEF Notifications
<1>3. ASSUME NEW p \in Packets, ReceiveNotification(p)
      PROVE  HandedInv'
  <2>1. /\ DOMAIN received' = DOMAIN received \cup {p} /\ TypeOf[p] = "notification"
        /\ p \notin DOMAIN received /\ MutexFree /\ PacketList' = Append(PacketList, p)
        /\ UNCHANGED <<round, handed, th>>
    BY <1>3 DEF ReceiveNotification, Receive
  <2>2. p \in Notifications /\ p \notin Handed /\ p \notin Range(PacketList)
    BY <1>h, <2>1 DEF Notifications
  <2>3. Range(PacketList') = Range(PacketList) \cup {p} /\ IsInjective(PacketList')
    BY <1>0, <1>h, <2>1, <2>2, AppendOnce DEF TypeOK
  <2>4. Handed' = Handed /\ MutexFree'
    BY <2>1 DEF Handed, MutexFree
  <2> QED BY <1>h, <1>q, <2>1, <2>2, <2>3, <2>4
<1>4. CASE ReorderSort
  <2>1. /\ round' \in Sorted(PacketList) /\ UNCHANGED <<PacketList, received, handed>>
        /\ MutexFree /\ ~MutexFree'
    BY <1>0, <1>4, ReorderPlace DEF ReorderSort
  <2>2. IsInjective(round') /\ Range(round') = Range(PacketList)
    BY <1>0, <2>1, SortedShape DEF TypeOK
  <2>3. Handed' = Handed
    BY <2>1 DEF Handed
  <2> QED BY <1>h, <1>q, <2>1, <2>2, <2>3
<1>5. CASE ReorderHand
  <2>1. ~MutexFree /\ ~MutexFree'
    BY <1>0, <1>5, ReorderPlace
  <2>2. PICK e, n : e = Head(round) /\ n = Len(handed)
    OBVIOUS
  <2>3. /\ round # <<>> /\ round' = Tail(round) /\ UNCHANGED <<PacketList, received>>
        /\ n \in Nat /\ DOMAIN handed = 1 .. n /\ DOMAIN handed' = 1 .. n + 1
        /\ \A k \in 1 .. n : handed'[k] = handed[k]
        /\ handed'[n + 1].packet = e
    BY <1>0, <1>5, <2>2, HandStep
  <2>4. /\ Range(round) = {e} \cup Range(round')
        /\ IsInjective(round') /\ e \notin Range(round')
    BY <1>0, <1>h, <2>1, <2>2, <2>3, TailOnce DEF TypeOK
  <2>5. e \in Range(PacketList) /\ e \notin Handed
    BY <1>h, <2>1, <2>4
  <2>6. Handed' = Handed \cup {e}
    BY <2>3 DEF Handed
  <2>7. \A k \in 1 .. n : handed[k].packet # e
    BY <2>3, <2>5 DEF Handed
  <2>8. ASSUME NEW j \in DOMAIN handed', NEW k \in DOMAIN handed',
               handed'[j].packet = handed'[k].packet
        PROVE  j = k
    <3>1. j \in 1 .. n /\ k \in 1 .. n => j = k
      BY <1>h, <2>3, <2>8
    <3>2. j \in 1 .. n \/ j = n + 1
      BY <2>3
    <3>3. k \in 1 .. n \/ k = n + 1
      BY <2>3
    <3> QED BY <2>3, <2>7, <2>8, <3>1, <3>2, <3>3
  <2>9. Range(round') = Range(PacketList') \ Handed'
    BY <1>h, <2>1, <2>3, <2>4, <2>6
  <2>10. DOMAIN received' \cap Notifications = Handed' \cup Range(PacketList')
    BY <1>h, <2>3, <2>5, <2>6
  <2> QED BY <1>h, <1>q, <2>1, <2>3, <2>4, <2>8, <2>9, <2>10
<1>6. CASE ReorderClear
  <2>1. /\ round = <<>> /\ PacketList' = <<>> /\ UNCHANGED <<round, received, handed>>
        /\ ~MutexFree /\ MutexFree'
    BY <1>0, <1>6, ReorderPlace DEF ReorderClear
  <2>2. Range(<<>>) = {} /\ IsInjective(<<>>)
    BY DEF Range, IsInjective
  <2>3. Handed' = Handed
    BY <2>1 DEF Handed
  <2> QED BY <1>h, <1>q, <2>1, <2>2, <2>3
<1> QED BY <1>0, <1>1, <1>2, <1>3, <1>4, <1>5, <1>6, ReorderOrNot

LEMMA HandedInit == Init => HandedInv
<1> SUFFICES ASSUME Init PROVE HandedInv
  OBVIOUS
<1>1. TypeOK /\ ThreadsInside
  BY TypesInit
<1>2. /\ handed = <<>> /\ PacketList = <<>> /\ round = <<>> /\ DOMAIN received = {}
      /\ th["reorder"] = At("none")
  BY DEF Init
<1>3. Handed = {} /\ Range(PacketList) = {} /\ IsInjective(PacketList)
      /\ DOMAIN handed = {}
  BY <1>2 DEF Handed, Range, IsInjective
<1>4. MutexFree
  BY <1>2, AtFields DEF MutexFree
<1> QED BY <1>1, <1>2, <1>3, <1>4 DEF HandedInv, HandedOnce, RoundKept

LEMMA HandedCorrect == Spec => []HandedInv
<1>1. HandedInv /\ [Next]_vars => HandedInv'
  BY HandedStep
<1> QED BY <1>1, HandedInit, PTL DEF Spec

\* Between the Listen and the Reorder thread no notification is lost or handed
\* on twice, whatever arrives and however the threads interleave.
THEOREM HandsOnOnce == Spec => []HandedOnce
<1>1. HandedInv => HandedOnce
  BY DEF HandedInv
<1> QED BY <1>1, HandedCorrect, PTL

-----------------------------------------------------------------------------
(* The order in which they are handed on.                                  *)

OrderInv == HandedInv /\ RoundSorted /\ OutOfOrderOnlyIfLate

LEMMA OrderStep ==
    ASSUME OrderInv, [Next]_vars
    PROVE  RoundSorted' /\ OutOfOrderOnlyIfLate'
<1>0. TypeOK /\ ThreadsInside /\ HandedOnce /\ HandedInv
  BY DEF OrderInv, HandedInv
<1>r. /\ \A p \in DOMAIN received : received[p] \in 0 .. rounds
      /\ \A k \in DOMAIN handed : handed[k].round <= rounds
      /\ \A p \in Range(PacketList) : received[p] = IF MutexFree THEN rounds ELSE rounds - 1
      /\ \A i, j \in DOMAIN round : i < j => SeqnOf[round[i]] <= SeqnOf[round[j]]
      /\ \A k \in DOMAIN handed : handed[k].round = rounds =>
          \A p \in Range(round) : SeqnOf[handed[k].packet] <= SeqnOf[p]
  BY DEF OrderInv, RoundSorted
<1>o. \A j, k \in DOMAIN handed :
        (j < k /\ SeqnOf[handed[j].packet] > SeqnOf[handed[k].packet]) =>
            received[handed[k].packet] >= handed[j].round
  BY DEF OrderInv, OutOfOrderOnlyIfLate
<1>d. /\ rounds \in Nat
      /\ \A k \in DOMAIN handed : handed[k].packet \in DOMAIN received
      /\ \A p \in Range(PacketList) : p \in DOMAIN received
  BY <1>0 DEF TypeOK, HandedOnce, Handed
<1>1. CASE Elsewhere /\ UNCHANGED received
  <2>1. /\ PacketList' = PacketList /\ round' = round /\ handed' = handed /\ rounds' = rounds
        /\ MutexFree' = MutexFree /\ received' = received
    BY <1>1 DEF Elsewhere
  <2>2. RoundSorted'
    BY <1>r, <2>1 DEF RoundSorted
  <2>3. OutOfOrderOnlyIfLate'
    BY <1>o, <2>1 DEF OutOfOrderOnlyIfLate
  <2> QED BY <2>2, <2>3
<1>2. ASSUME NEW p \in Packets, NEW n \in 0 .. rounds, p \notin DOMAIN received,
             received' = [q \in DOMAIN received \cup {p} |->
                             IF q # p THEN received[q] ELSE n],
             UNCHANGED <<round, handed, rounds>>, MutexFree' = MutexFree,
             \/ UNCHANGED PacketList
             \/ MutexFree /\ n = rounds /\ Range(PacketList') = Range(PacketList) \cup {p}
      PROVE  RoundSorted' /\ OutOfOrderOnlyIfLate'
  <2>1. /\ DOMAIN received' = DOMAIN received \cup {p} /\ received'[p] = n
        /\ \A q \in DOMAIN received : received'[q] = received[q]
    BY <1>2
  <2>2. \A q \in DOMAIN received' : received'[q] \in 0 .. rounds
    BY <1>d, <1>r, <2>1
  <2>3. \A q \in Range(PacketList') : received'[q] = IF MutexFree THEN rounds ELSE rounds - 1
    BY <1>2, <1>d, <1>r, <2>1
  <2>4. RoundSorted'
    BY <1>2, <1>r, <2>2, <2>3 DEF RoundSorted
  <2>5. OutOfOrderOnlyIfLate'
    BY <1>2, <1>d, <1>o, <2>1 DEF OutOfOrderOnlyIfLate
  <2> QED BY <2>4, <2>5
<1>3. ASSUME NEW p \in Packets, Elsewhere,
             ReceiveAccept(p) \/ ReceiveReject(p) \/ ReceiveText(p)
      PROVE  RoundSorted' /\ OutOfOrderOnlyIfLate'
  <2>1. /\ p \notin DOMAIN received
        /\ received' = [q \in DOMAIN received \cup {p} |->
                            IF q # p THEN received[q]
                            ELSE IF p \in Notifications THEN rounds ELSE 0]
    BY <1>3 DEF ReceiveAccept, ReceiveReject, ReceiveText, Receive
  <2>2. PICK n : n = IF p \in Notifications THEN rounds ELSE 0
    OBVIOUS
  <2>3. n \in 0 .. rounds
    BY <1>d, <2>2
  <2> QED BY <1>2, <1>3, <2>1, <2>2, <2>3 DEF Elsewhere
<1>4. ASSUME NEW p \in Packets, ReceiveNotification(p)
      PROVE  RoundSorted' /\ OutOfOrderOnlyIfLate'
  <2>1. /\ p \notin DOMAIN received /\ TypeOf[p] = "notification" /\ MutexFree
        /\ received' = [q \in DOMAIN received \cup {p} |->
                            IF q # p THEN received[q]
                            ELSE IF p \in Notifications THEN rounds ELSE 0]
        /\ PacketList' = Append(PacketList, p) /\ UNCHANGED <<round, handed, rounds, th>>
    BY <1>4 DEF ReceiveNotification, Receive
  <2>2. p \in Notifications
    BY <2>1 DEF Notifications
  <2>3. Range(PacketList') = Range(PacketList) \cup {p}
    BY <1>0, <2>1, <2>2, AppendOnce DEF TypeOK
  <2>4. MutexFree' = MutexFree
    BY <2>1 DEF MutexFree
  <2>5. rounds \in 0 .. rounds
    BY <1>d
  <2>6. received' = [q \in DOMAIN received \cup {p} |->
                        IF q # p THEN received[q] ELSE rounds]
    BY <2>1, <2>2
  <2> QED BY <1>2, <2>1, <2>3, <2>4, <2>5, <2>6
<1>5. CASE ReorderSort
  <2>1. /\ round' \in Sorted(PacketList) /\ rounds' = rounds + 1
        /\ PacketList' = PacketList /\ received' = received /\ handed' = handed
        /\ MutexFree /\ ~MutexFree'
    BY <1>0, <1>5, ReorderPlace DEF ReorderSort
  <2>2. \A i, j \in DOMAIN round' : i < j => SeqnOf[round'[i]] <= SeqnOf[round'[j]]
    BY <1>0, <2>1, SortedShape DEF TypeOK
  <2>3. \A p \in Range(PacketList) : received[p] = rounds' - 1
    BY <1>d, <1>r, <2>1
  <2>4. \A p \in DOMAIN received : received[p] \in 0 .. rounds'
    BY <1>d, <1>r, <2>1
  <2>5. \A k \in DOMAIN handed : handed[k].round <= rounds' /\ handed[k].round # rounds'
    <3>1. \A k \in DOMAIN handed : handed[k].round \in Nat
      BY <1>0, HandedTypes
    <3> QED BY <1>d, <1>r, <2>1, <3>1
  <2>6. RoundSorted'
    BY <2>1, <2>2, <2>3, <2>4, <2>5 DEF RoundSorted
  <2>7. OutOfOrderOnlyIfLate'
    BY <1>o, <2>1 DEF OutOfOrderOnlyIfLate
  <2> QED BY <2>6, <2>7
<1>6. CASE ReorderHand
  <2>1. ~MutexFree /\ ~MutexFree'
    BY <1>0, <1>6, ReorderPlace
  <2>2. PICK e, n : e = Head(round) /\ n = Len(handed)
    OBVIOUS
  <2>3. /\ round # <<>> /\ round' = Tail(round)
        /\ PacketList' = PacketList /\ received' = received /\ rounds' = rounds
        /\ n \in Nat /\ DOMAIN handed = 1 .. n /\ DOMAIN handed' = 1 .. n + 1
        /\ \A k \in 1 .. n : handed'[k] = handed[k]
        /\ handed'[n + 1].packet = e /\ handed'[n + 1].round = rounds
    BY <1>0, <1>6, <2>2, HandStep
  <2>4. /\ Range(round) = {e} \cup Range(round') /\ e \in Range(PacketList)
    <3>1. Range(round) = {e} \cup Range(round')
      BY <1>0, <2>2, <2>3, TailOnce DEF TypeOK
    <3>2. Range(round) \subseteq Range(PacketList)
      BY <1>0, <2>1 DEF HandedInv, RoundKept
    <3> QED BY <3>1, <3>2
  <2>5. /\ Len(round) \in Nat \ {0} /\ DOMAIN round = 1 .. Len(round)
        /\ DOMAIN round' = 1 .. Len(round) - 1 /\ e = round[1]
        /\ \A k \in 1 .. Len(round) - 1 : round'[k] = round[k + 1]
    BY <1>0, <2>2, <2>3, HeadTailProperties, LenProperties, EmptySeq DEF TypeOK
  <2>6. \A i, j \in DOMAIN round' : i < j => SeqnOf[round'[i]] <= SeqnOf[round'[j]]
    <3> SUFFICES ASSUME NEW i \in DOMAIN round', NEW j \in DOMAIN round', i < j
                 PROVE  SeqnOf[round'[i]] <= SeqnOf[round'[j]]
      OBVIOUS
    <3>1. /\ i + 1 \in DOMAIN round /\ j + 1 \in DOMAIN round /\ i + 1 < j + 1
          /\ round'[i] = round[i + 1] /\ round'[j] = round[j + 1]
      BY <2>5
    <3> QED BY <1>r, <3>1
  <2>7. \A p \in Range(round') : SeqnOf[e] <= SeqnOf[p]
    <3>1. ASSUME NEW k \in DOMAIN round' PROVE SeqnOf[e] <= SeqnOf[round'[k]]
      <4>1. k + 1 \in DOMAIN round /\ 1 \in DOMAIN round /\ 1 < k + 1 /\ round'[k] = round[k + 1]
        BY <2>5
      <4> QED BY <1>r, <2>5, <4>1
    <3> QED BY <3>1 DEF Range
  <2>8. \A k \in DOMAIN handed' : handed'[k].round <= rounds
    BY <1>d, <1>r, <2>3
  <2>9. \A k \in DOMAIN handed' : handed'[k].round = rounds =>
          \A p \in Range(round') : SeqnOf[handed'[k].packet] <= SeqnOf[p]
    BY <1>r, <2>3, <2>4, <2>7
  <2>10. RoundSorted'
    <3>1. \A p \in Range(PacketList') :
            received'[p] = IF MutexFree' THEN rounds' ELSE rounds' - 1
      BY <1>r, <2>1, <2>3
    <3> QED BY <1>r, <2>3, <2>6, <2>8, <2>9, <3>1 DEF RoundSorted
  <2>11. ASSUME NEW j \in 1 .. n, SeqnOf[handed[j].packet] > SeqnOf[e]
         PROVE  received[e] >= handed[j].round
    <3>1. handed[j].round \in Nat /\ handed[j].packet \in Packets /\ e \in Packets
      BY <1>0, <1>6, <2>2, <2>3, HandedTypes, HandStep DEF Notifications
    <3>2. SeqnOf[handed[j].packet] \in Nat /\ SeqnOf[e] \in Nat
      BY <3>1, ClientAssumption
    <3>3. handed[j].round # rounds
      <4>1. handed[j].round = rounds => SeqnOf[handed[j].packet] <= SeqnOf[e]
        BY <1>r, <2>3, <2>4
      <4> QED BY <2>11, <3>2, <4>1
    <3>4. handed[j].round <= rounds /\ received[e] = rounds - 1
      BY <1>r, <2>1, <2>3, <2>4
    <3> QED BY <1>d, <3>1, <3>3, <3>4
  <2>12. ASSUME NEW j \in DOMAIN handed', NEW k \in DOMAIN handed', j < k,
                SeqnOf[handed'[j].packet] > SeqnOf[handed'[k].packet]
         PROVE  received'[handed'[k].packet] >= handed'[j].round
    <3>1. j \in 1 .. n /\ (k \in 1 .. n \/ k = n + 1)
      BY <2>3, <2>12
    <3>2. CASE k \in 1 .. n
      BY <1>o, <2>3, <2>12, <3>1, <3>2
    <3>3. CASE k = n + 1
      BY <2>3, <2>11, <2>12, <3>1, <3>3
    <3> QED BY <3>1, <3>2, <3>3
  <2> QED BY <2>10, <2>12 DEF OutOfOrderOnlyIfLate
<1>7. CASE ReorderClear
  <2>1. /\ round = <<>> /\ PacketList' = <<>> /\ round' = <<>> /\ received' = received
        /\ handed' = handed /\ rounds' = rounds
    BY <1>7 DEF ReorderClear
  <2>2. Range(<<>>) = {} /\ DOMAIN <<>> = {}
    BY DEF Range
  <2>3. RoundSorted'
    BY <1>r, <2>1, <2>2 DEF RoundSorted
  <2>4. OutOfOrderOnlyIfLate'
    BY <1>o, <2>1 DEF OutOfOrderOnlyIfLate
  <2> QED BY <2>3, <2>4
<1> QED BY <1>0, <1>1, <1>3, <1>4, <1>5, <1>6, <1>7, ReorderOrNot

\* A notification is handed on before one with a smaller number only if that
\* one arrived too late for the first one's round.
THEOREM OutOfOrderIsLate == Spec => []OutOfOrderOnlyIfLate
<1>1. Init => OrderInv
  <2> SUFFICES ASSUME Init PROVE RoundSorted /\ OutOfOrderOnlyIfLate
    BY HandedInit DEF OrderInv
  <2>1. /\ handed = <<>> /\ PacketList = <<>> /\ round = <<>> /\ DOMAIN received = {}
    BY DEF Init
  <2>2. DOMAIN <<>> = {} /\ Range(<<>>) = {}
    BY DEF Range
  <2> QED BY <2>1, <2>2 DEF RoundSorted, OutOfOrderOnlyIfLate
<1>2. OrderInv /\ [Next]_vars => OrderInv'
  <2>1. OrderInv /\ [Next]_vars => HandedInv'
    BY HandedStep DEF OrderInv
  <2> QED BY <2>1, OrderStep DEF OrderInv
<1>3. OrderInv => OutOfOrderOnlyIfLate
  BY DEF OrderInv
<1> QED BY <1>1, <1>2, <1>3, PTL DEF Spec

-----------------------------------------------------------------------------
(* The packets sent, while only the main thread sends.                     *)

NoReject == \A p \in DOMAIN received : TypeOf[p] \notin {"reject", "other"}
SendOrClose == {"load", "store", "send", "close"}

\* A step that is not the main thread's: it sends nothing.
Others ==
    /\ th'["main"] = th["main"]
    /\ UNCHANGED <<lastSentSeqn, sent, open>>
    /\ up' => up

\* A step of the main thread after the connect and outside SendMessageToServer.
MainMoves ==
    /\ up
    /\ th["main"].pc \in {"spawn", "draw", "input", "window", "push", "pushing"}
    /\ th'["main"].pc \notin {"start", "login", "store", "send"}
    /\ ~(th'["main"].pc = "load" /\ th'["main"].then = "spawn")
    /\ UNCHANGED <<lastSentSeqn, sent, open>>

MainSends == LoadSeqn("main") \/ StoreSeqn("main") \/ SendPacket("main") \/ CloseSocket("main")

LEMMA ReceivedGrows ==
    ASSUME TypeOK, [Next]_vars, NoReject'
    PROVE  NoReject /\ \A p \in Packets : ~ReceiveReject(p)
<1>1. ASSUME NEW p \in Packets, NEW types, Receive(p, types)
      PROVE  NoReject /\ TypeOf[p] \notin {"reject", "other"}
  <2>1. /\ DOMAIN received' = DOMAIN received \cup {p} /\ TypeOf[p] \in types
    BY <1>1 DEF Receive
  <2> QED BY <2>1 DEF NoReject
<1>2. ASSUME NEW p \in Packets PROVE ~ReceiveReject(p)
  <2>1. ReceiveReject(p) => TypeOf[p] \in {"reject", "other"} /\ Receive(p, {"reject", "other"})
    BY DEF ReceiveReject, Receive
  <2> QED BY <1>1, <2>1
<1>3. ASSUME NEW p \in Packets, ReceiveAccept(p) \/ ReceiveText(p) \/ ReceiveNotification(p)
      PROVE  NoReject
  BY <1>1, <1>3 DEF ReceiveAccept, ReceiveText, ReceiveNotification
<1>4. ASSUME NEW t \in Threads, Step(t) PROVE UNCHANGED received
  BY <1>4, StepThread
<1>5. ASSUME NEW line \in Inputs, HandleUserInput(line) \/ GuiPost(line)
      PROVE  UNCHANGED received
  BY <1>5 DEF HandleUserInput, GuiPost
<1>6. \/ Connect \/ GuiLogin \/ SpawnThreads \/ Draw \/ GuiClose \/ Quiescent
      \/ UNCHANGED vars \/ ReorderStep
      => UNCHANGED received
  BY DEF Connect, GuiLogin, Open, SpawnThreads, Draw, GuiClose, Quiescent, vars,
         ReorderStep, ReorderSort, ReorderHand, ReorderClear
<1>7. UNCHANGED received => NoReject
  BY DEF NoReject
<1> QED BY <1>2, <1>3, <1>4, <1>5, <1>6, <1>7 DEF Next

LEMMA WhoSends ==
    ASSUME TypeOK, ThreadsInside, [Next]_vars, NoReject', th["listen"].pc \notin SendOrClose
    PROVE  /\ \/ Others \/ MainMoves \/ MainSends
              \/ (Connect \/ GuiLogin)
           /\ th'["listen"].pc \notin SendOrClose
<1>0. th \in [Threads -> Thread] /\ "reorder" \in Threads /\ "main" \in Threads
      /\ "listen" \in Threads /\ \A t \in Threads : t \in {"main", "listen", "reorder"}
  BY DEF TypeOK, Threads
<1>i. /\ MainInside(th["main"]) /\ ListenInside(th["listen"]) /\ ReorderInside(th["reorder"])
      /\ MainInside(th'["main"])
  BY ThreadsStep DEF ThreadsInside
<1>1. ASSUME NEW t \in {"listen", "reorder"}, Step(t)
      PROVE  Others /\ th'["listen"].pc \notin SendOrClose
  <2>1. /\ th[t].pc \notin SendOrClose
        /\ th[t].pc \in PushPC => th[t].then \in {"listen", "hand"}
    BY <1>i DEF ListenInside, ReorderInside, SendOrClose, PushPC
  <2>2. BeginPush(t) \/ EndPush(t)
    BY <1>1, <2>1 DEF Step, LoadSeqn, StoreSeqn, SendPacket, CloseSocket, SendOrClose
  <2>3. up /\ UNCHANGED <<lastSentSeqn, sent, open>>
    BY <2>2 DEF BeginPush, EndPush, network
  <2>4. t \in Threads /\ t # "main" /\ th'["main"] = th["main"]
        /\ (t # "listen" => th'["listen"] = th["listen"])
    BY <1>0, <1>1, StepThread
  <2>5. th'[t].pc \notin SendOrClose
    <3>1. \/ th'[t].pc \in PushPC
          \/ th[t].pc = "pushing" /\ th'[t] = At(th[t].then)
      BY <1>1, <2>1, <2>4, StepThread DEF SendOrClose, SendPC
    <3>2. th[t].pc = "pushing" /\ th'[t] = At(th[t].then) => th'[t].pc = th[t].then
      BY AtFields
    <3> QED BY <2>1, <3>1, <3>2 DEF PushPC, SendOrClose
  <2> QED BY <1>1, <2>3, <2>4, <2>5 DEF Others
<1>2. CASE Step("main")
  <2>1. th'["listen"] = th["listen"]
    BY <1>0, <1>2, StepThread
  <2>2. CASE BeginPush("main") \/ EndPush("main")
    <3>1. up /\ th["main"].pc \in PushPC /\ UNCHANGED <<lastSentSeqn, sent, open>>
      BY <2>2 DEF BeginPush, EndPush, network, PushPC
    <3>2. \/ th'["main"].pc \in PushPC
          \/ th["main"].pc = "pushing" /\ th'["main"] = At(th["main"].then)
      BY <1>0, <1>2, <3>1, StepThread DEF SendPC, PushPC
    <3>3. th["main"].then = "draw"
      BY <1>i, <3>1 DEF MainInside
    <3>4. th'["main"] = At(th["main"].then) => th'["main"].pc = "draw"
      BY <3>3, AtFields
    <3>5. MainMoves
      BY <3>1, <3>2, <3>4 DEF MainMoves, PushPC
    <3> QED BY <2>1, <3>5
  <2> QED BY <1>2, <2>1, <2>2 DEF Step, MainSends
<1>3. ASSUME NEW rec, Goto("main", rec), up, UNCHANGED <<lastSentSeqn, sent, open>>,
             th["main"].pc \in {"draw", "input", "window"},
             rec.pc \in {"draw", "input", "window", "push"} \/ rec.then \in {"draw", "window", "close"},
             rec.pc \in {"draw", "input", "window", "push", "load"}
      PROVE  MainMoves /\ th'["listen"].pc \notin SendOrClose
  <2>1. th'["main"] = rec /\ th'["listen"] = th["listen"]
    BY <1>0, <1>3, GotoEffect
  <2> QED BY <1>3, <2>1 DEF MainMoves
<1>4. /\ \A pc \in {"draw", "input", "window"} : At(pc).pc = pc
      /\ \A msg : Doing("load", msg, "draw").pc = "load" /\ Doing("load", msg, "draw").then = "draw"
      /\ \A msg : Doing("load", msg, "window").pc = "load"
                  /\ Doing("load", msg, "window").then = "window"
      /\ \A msg : Doing("push", msg, "draw").pc = "push"
      /\ Shutdown.pc = "load" /\ Shutdown.then = "close"
  <2>1. \A pc \in {"draw", "input", "window"} : At(pc).pc = pc
    BY AtFields
  <2>2. ASSUME NEW pc, NEW msg, NEW then
        PROVE  Doing(pc, msg, then).pc = pc /\ Doing(pc, msg, then).then = then
    BY DoingFields
  <2>3. Shutdown.pc = "load" /\ Shutdown.then = "close"
    BY <2>2 DEF Shutdown
  <2> QED BY <2>1, <2>2, <2>3
<1>5. CASE Draw
  <2>1. /\ Goto("main", At("input")) \/ Goto("main", Shutdown)
        /\ up /\ th["main"].pc = "draw" /\ UNCHANGED <<lastSentSeqn, sent, open>>
    BY <1>5 DEF Draw, network
  <2> QED BY <1>3, <1>4, <2>1
<1>6. ASSUME NEW line \in Inputs, HandleUserInput(line) \/ GuiPost(line)
      PROVE  MainMoves /\ th'["listen"].pc \notin SendOrClose
  <2>1. /\ \/ Goto("main", At("draw")) \/ Goto("main", At("window"))
           \/ Goto("main", Doing("load", line, "draw")) \/ Goto("main", Doing("push", line, "draw"))
           \/ Goto("main", Doing("load", line, "window"))
        /\ up /\ th["main"].pc \in {"input", "window"} /\ UNCHANGED <<lastSentSeqn, sent, open>>
    BY <1>6 DEF HandleUserInput, GuiPost, network
  <2> QED BY <1>3, <1>4, <2>1
<1>7. CASE SpawnThreads
  <2>1. /\ up /\ th["main"].pc = "spawn" /\ UNCHANGED <<lastSentSeqn, sent, open>>
        /\ th' = [main |-> At(IF frontEnd = "console" THEN "draw" ELSE "window"),
                  listen |-> At("listen"), reorder |-> At("reorder")]
    BY <1>7 DEF SpawnThreads, network
  <2>2. th'["main"] \in {At("draw"), At("window")} /\ th'["listen"] = At("listen")
    BY <2>1
  <2>3. th'["main"].pc \in {"draw", "window"} /\ th'["listen"].pc = "listen"
    BY <2>2, AtFields
  <2> QED BY <2>1, <2>3 DEF MainMoves, SendOrClose
<1>8. CASE Connect \/ GuiLogin
  <2>1. PICK rec : Goto("main", rec)
    BY <1>8 DEF Connect, GuiLogin, Open
  <2>2. th'["listen"] = th["listen"]
    BY <1>0, <2>1, GotoEffect
  <2> QED BY <1>8, <2>2
<1>9. CASE GuiClose \/ Quiescent \/ UNCHANGED vars
  BY <1>9 DEF GuiClose, Quiescent, vars, network, Others
<1>10. ASSUME NEW p \in Packets, ReceiveAccept(p) \/ ReceiveText(p) \/ ReceiveNotification(p)
       PROVE  Others /\ th'["listen"].pc \notin SendOrClose
  <2>1. up /\ UNCHANGED <<lastSentSeqn, sent, open>>
    BY <1>10 DEF ReceiveAccept, ReceiveText, ReceiveNotification, Receive, network
  <2>2. CASE ReceiveText(p)
    <3>1. Goto("listen", Hand(TypeOf[p], "listen"))
      BY <2>2 DEF ReceiveText
    <3>2. th'["main"] = th["main"]
          /\ th'["listen"] \in {Doing("push", TypeOf[p], "listen"), At("listen")}
      BY <1>0, <3>1, GotoEffect DEF Hand
    <3>3. th'["listen"].pc \in {"push", "listen"}
      <4>1. th'["listen"] = Doing("push", TypeOf[p], "listen") => th'["listen"].pc = "push"
        BY DoingFields
      <4>2. th'["listen"] = At("listen") => th'["listen"].pc = "listen"
        BY AtFields
      <4> QED BY <3>2, <4>1, <4>2
    <3> QED BY <2>1, <3>2, <3>3 DEF Others, SendOrClose
  <2>3. CASE UNCHANGED th
    BY <2>1, <2>3 DEF Others
  <2> QED BY <1>10, <2>2, <2>3 DEF ReceiveAccept, ReceiveNotification
<1>11. CASE ReorderStep
  <2>1. PICK rec : Goto("reorder", rec)
    BY <1>11 DEF ReorderStep, ReorderSort, ReorderHand, ReorderClear
  <2>2. th'["main"] = th["main"] /\ th'["listen"] = th["listen"]
    BY <1>0, <2>1, GotoEffect
  <2>3. up /\ UNCHANGED <<lastSentSeqn, sent, open>>
    BY <1>11 DEF ReorderStep, ReorderSort, ReorderHand, ReorderClear, network
  <2> QED BY <2>2, <2>3 DEF Others
<1>12. \A p \in Packets : ~ReceiveReject(p)
  BY ReceivedGrows
<1>13. ASSUME NEW t \in Threads, Step(t)
       PROVE  /\ Others \/ MainMoves \/ MainSends \/ (Connect \/ GuiLogin)
              /\ th'["listen"].pc \notin SendOrClose
  BY <1>0, <1>1, <1>2, <1>13
<1> QED BY <1>5, <1>6, <1>7, <1>8, <1>9, <1>10, <1>11, <1>12, <1>13 DEF Next

SendInv == TypeOK /\ ThreadsInside /\ OnlyMainSends /\ SentInOrder

LEMMA SendInvStep ==
    ASSUME SendInv, [Next]_vars
    PROVE  OnlyMainSends' /\ SentInOrder'
<1>0. TypeOK /\ ThreadsInside
  BY DEF SendInv
<1> SUFFICES ASSUME NoReject' PROVE OnlyMainSends' /\ SentInOrder'
  BY DEF NoReject, OnlyMainSends, SentInOrder
<1>h. NoReject
  BY <1>0, ReceivedGrows
<1> DEFINE m == th["main"]
           L == lastSentSeqn
<1>i. /\ th["listen"].pc \notin SendOrClose
      /\ up => open \/ m.pc \in {"start", "login"}
      /\ m.pc = "store" => m.reg = L
      /\ \A i \in DOMAIN sent : sent[i].seqn <= IF m.pc = "send" THEN L ELSE L + 1
      /\ (m.pc \in {"start", "login"} \/ (m.pc \in SendPC /\ m.then = "spawn")) <=> sent = <<>>
      /\ (\E i \in DOMAIN sent : sent[i].type = "disconnect") =>
            m.pc = "close" \/ (m.pc = "none" /\ ~up)
  BY <1>h DEF SendInv, NoReject, OnlyMainSends, SendOrClose, Connecting
<1>s. /\ \A i, j \in DOMAIN sent : i < j => sent[i].seqn < sent[j].seqn
      /\ \A i \in DOMAIN sent :
            /\ sent[i].type = "connect" <=> i = 1
            /\ sent[i].type = "disconnect" => i = Len(sent)
  BY <1>h DEF SendInv, NoReject, SentInOrder
<1>t. L \in Nat /\ m \in Thread /\ "main" \in Threads /\ th \in [Threads -> Thread]
      /\ MainInside(m)
  BY <1>0 DEF TypeOK, Threads, ThreadsInside
<1>w. /\ Others \/ MainMoves \/ MainSends \/ Connect \/ GuiLogin
      /\ th'["listen"].pc \notin SendOrClose
  BY <1>0, <1>i, WhoSends
<1>q. ASSUME /\ up' => open' \/ m'.pc \in {"start", "login"}
             /\ m'.pc = "store" => m'.reg = L'
             /\ \A i \in DOMAIN sent' : sent'[i].seqn <= IF m'.pc = "send" THEN L' ELSE L' + 1
             /\ (m'.pc \in {"start", "login"} \/ (m'.pc \in SendPC /\ m'.then = "spawn"))
                  <=> sent' = <<>>
             /\ (\E i \in DOMAIN sent' : sent'[i].type = "disconnect") =>
                  m'.pc = "close" \/ (m'.pc = "none" /\ ~up')
      PROVE  OnlyMainSends'
  BY <1>q, <1>w DEF OnlyMainSends, Connecting, SendOrClose
<1>p. UNCHANGED sent => SentInOrder'
  BY <1>s DEF SentInOrder
<1>n. /\ Len(sent) \in Nat /\ DOMAIN sent = 1 .. Len(sent)
      /\ \A i \in DOMAIN sent : sent[i].seqn \in Nat
  <2>1. PICK R : R = [type : Sends, seqn : Nat]
    OBVIOUS
  <2>2. sent \in Seq(R)
    BY <1>0, <2>1 DEF TypeOK
  <2>3. /\ Len(sent) \in Nat /\ DOMAIN sent = 1 .. Len(sent)
        /\ \A i \in DOMAIN sent : sent[i] \in R
    BY <2>2, LenProperties, ElementOfSeq
  <2> QED BY <2>1, <2>3
<1>1. CASE Others
  <2>1. m' = m /\ L' = L /\ sent' = sent /\ open' = open /\ (up' => up)
    BY <1>1 DEF Others
  <2>2. OnlyMainSends'
    BY <1>i, <1>q, <2>1
  <2> QED BY <1>p, <2>1, <2>2
<1>2. CASE MainMoves
  <2>1. /\ up /\ m.pc \in {"spawn", "draw", "input", "window", "push", "pushing"}
        /\ m'.pc \notin {"start", "login", "store", "send"}
        /\ ~(m'.pc = "load" /\ m'.then = "spawn")
        /\ L' = L /\ sent' = sent /\ open' = open
    BY <1>2 DEF MainMoves
  <2>2. /\ sent # <<>> /\ open /\ ~\E i \in DOMAIN sent : sent[i].type = "disconnect"
    BY <1>i, <2>1 DEF SendPC
  <2>3. \A i \in DOMAIN sent : sent[i].seqn <= L + 1
    BY <1>i, <2>1
  <2>4. OnlyMainSends'
    BY <1>q, <2>1, <2>2, <2>3 DEF SendPC
  <2> QED BY <1>p, <2>1, <2>4
<1>3. CASE Connect \/ GuiLogin
  <2>1. /\ up /\ m.pc \in {"start", "login"} /\ open' = TRUE
        /\ Goto("main", Doing("load", "connect", "spawn")) /\ L' = L /\ sent' = sent
    BY <1>3 DEF Connect, GuiLogin, Open
  <2>2. m'.pc = "load" /\ m'.then = "spawn"
    <3>1. m' = Doing("load", "connect", "spawn")
      BY <1>t, <2>1, GotoEffect
    <3> QED BY <3>1, DoingFields
  <2>3. sent = <<>> /\ DOMAIN sent = {}
    <3>1. sent = <<>>
      BY <1>i, <2>1
    <3> QED BY <3>1
  <2>4. OnlyMainSends'
    BY <1>q, <2>1, <2>2, <2>3 DEF SendPC
  <2> QED BY <1>p, <2>1, <2>4
<1>4. CASE LoadSeqn("main")
  <2>1. /\ up /\ m.pc = "load" /\ Goto("main", [m EXCEPT !.pc = "store", !.reg = L])
        /\ L' = L /\ sent' = sent /\ open' = open /\ up' = up
    BY <1>4 DEF LoadSeqn, network
  <2>2. m'.pc = "store" /\ m'.then = m.then /\ m'.reg = L
    <3>1. m' = [m EXCEPT !.pc = "store", !.reg = L]
      BY <1>t, <2>1, GotoEffect
    <3> QED BY <1>t, <3>1 DEF Thread
  <2>3. OnlyMainSends'
    BY <1>i, <1>q, <2>1, <2>2 DEF SendPC
  <2> QED BY <1>p, <2>1, <2>3
<1>5. CASE StoreSeqn("main")
  <2>1. /\ up /\ m.pc = "store" /\ Goto("main", [m EXCEPT !.pc = "send"])
        /\ L' = m.reg + 1 /\ sent' = sent /\ open' = open /\ up' = up
    BY <1>5 DEF StoreSeqn
  <2>2. m'.pc = "send" /\ m'.then = m.then
    <3>1. m' = [m EXCEPT !.pc = "send"]
      BY <1>t, <2>1, GotoEffect
    <3> QED BY <1>t, <3>1 DEF Thread
  <2>3. L' = L + 1
    BY <1>i, <2>1
  <2>4. \A i \in DOMAIN sent : sent[i].seqn <= L + 1
    BY <1>i, <2>1
  <2>5. OnlyMainSends'
    BY <1>i, <1>q, <2>1, <2>2, <2>3, <2>4 DEF SendPC
  <2> QED BY <1>p, <2>1, <2>5
<1>6. CASE SendPacket("main")
  <2>1. /\ up /\ m.pc = "send" /\ Goto("main", At(m.then)) /\ L' = L /\ open' = open /\ up' = up
        /\ sent' = IF open THEN Append(sent, Make(m.msg, L)) ELSE sent
    BY <1>6 DEF SendPacket
  <2>2. open /\ \A i \in DOMAIN sent : sent[i].seqn <= L /\ sent[i].type # "disconnect"
    BY <1>i, <2>1
  <2>3. PICK e, R, n : e = Make(m.msg, L) /\ R = [type : Sends, seqn : Nat] /\ n = Len(sent)
    OBVIOUS
  <2>4. e \in R /\ e.type = m.msg /\ e.seqn = L + 1
    <3>1. m.msg \in Sends
      BY <1>0, <1>t, <2>1, ThreadHolds DEF SendPC
    <3> QED BY <1>t, <2>3, <3>1 DEF Make
  <2>5. /\ DOMAIN sent' = 1 .. n + 1 /\ Len(sent') = n + 1 /\ sent'[n + 1] = e
        /\ \A i \in 1 .. n : sent'[i] = sent[i]
    <3>1. sent \in Seq(R) /\ sent' = Append(sent, e)
      BY <1>0, <2>1, <2>2, <2>3 DEF TypeOK
    <3>2. /\ sent' \in Seq(R) /\ Len(sent') = n + 1 /\ sent'[n + 1] = e
          /\ \A i \in 1 .. n : sent'[i] = sent[i]
      BY <2>3, <2>4, <3>1, AppendProperties
    <3> QED BY <3>2, LenProperties
  <2>6. n \in Nat /\ DOMAIN sent = 1 .. n /\ \A i \in 1 .. n : sent[i].seqn \in Nat
    BY <1>n, <2>3
  <2>7. m'.pc = m.then
    <3>1. m' = At(m.then)
      BY <1>t, <2>1, GotoEffect
    <3> QED BY <3>1, AtFields
  <2>8. \/ m.msg = "connect" /\ m.then = "spawn"
        \/ m.msg = "disconnect" /\ m.then = "close"
        \/ m.msg \in {"follow", "post"} /\ m.then \in {"draw", "window"}
    BY <1>t, <2>1 DEF MainInside, SendPC
  <2>9. m.msg = "connect" <=> n = 0
    <3>1. sent = <<>> <=> n = 0
      BY <2>3, <2>6, <1>0, EmptySeq, LenProperties DEF TypeOK
    <3>2. m.then = "spawn" <=> sent = <<>>
      BY <1>i, <2>1 DEF SendPC
    <3> QED BY <2>8, <3>1, <3>2
  <2>10. OnlyMainSends'
    <3>1. sent' # <<>> /\ m'.pc \notin {"start", "login", "load", "store", "send"}
      BY <2>5, <2>6, <2>7, <2>8
    <3>2. \A i \in DOMAIN sent' : sent'[i].seqn <= L + 1
      BY <1>t, <2>2, <2>4, <2>5, <2>6
    <3>3. ASSUME NEW i \in DOMAIN sent', sent'[i].type = "disconnect" PROVE m'.pc = "close"
      <4>1. i = n + 1
        BY <2>2, <2>5, <2>6, <3>3
      <4> QED BY <2>4, <2>5, <2>7, <2>8, <3>3, <4>1
    <3> QED BY <1>q, <2>1, <2>2, <3>1, <3>2, <3>3 DEF SendPC
  <2>11. ASSUME NEW i \in DOMAIN sent', NEW j \in DOMAIN sent', i < j
         PROVE  sent'[i].seqn < sent'[j].seqn
    <3>1. i \in 1 .. n /\ (j \in 1 .. n \/ j = n + 1)
      BY <2>5, <2>6, <2>11
    <3>2. CASE j \in 1 .. n
      BY <1>s, <2>5, <2>6, <2>11, <3>1, <3>2
    <3>3. CASE j = n + 1
      BY <1>t, <2>2, <2>4, <2>5, <2>6, <3>1, <3>3
    <3> QED BY <3>1, <3>2, <3>3
  <2>12. ASSUME NEW i \in DOMAIN sent'
         PROVE  /\ sent'[i].type = "connect" <=> i = 1
                /\ sent'[i].type = "disconnect" => i = Len(sent')
    <3>1. i \in 1 .. n \/ i = n + 1
      BY <2>5, <2>6
    <3>2. CASE i \in 1 .. n
      BY <1>s, <2>2, <2>5, <2>6, <3>2
    <3>3. CASE i = n + 1
      BY <2>4, <2>5, <2>6, <2>9, <3>3
    <3> QED BY <3>1, <3>2, <3>3
  <2> QED BY <2>10, <2>11, <2>12 DEF SentInOrder
<1>7. CASE CloseSocket("main")
  <2>1. /\ up /\ m.pc = "close" /\ Goto("main", At("none")) /\ L' = L /\ sent' = sent
        /\ up' = FALSE
    BY <1>7 DEF CloseSocket
  <2>2. m'.pc = "none"
    <3>1. m' = At("none")
      BY <1>t, <2>1, GotoEffect
    <3> QED BY <3>1, AtFields
  <2>3. OnlyMainSends'
    BY <1>i, <1>q, <2>1, <2>2 DEF SendPC
  <2> QED BY <1>p, <2>1, <2>3
<1> QED BY <1>w, <1>1, <1>2, <1>3, <1>4, <1>5, <1>6, <1>7 DEF MainSends

\* The packets of a client that the server accepts are numbered upwards, the
\* connect comes first and the disconnect last.
THEOREM SendsInOrder == Spec => []SentInOrder
<1>1. Init => SendInv
  <2> SUFFICES ASSUME Init PROVE OnlyMainSends /\ SentInOrder
    BY TypesInit DEF SendInv
  <2>1. th["main"] \in {At("start"), At("login")} /\ th["listen"] = At("none")
        /\ sent = <<>>
    BY DEF Init
  <2>2. th["main"].pc \in {"start", "login"} /\ th["listen"].pc = "none" /\ DOMAIN sent = {}
    <3>1. At("start").pc = "start" /\ At("login").pc = "login" /\ At("none").pc = "none"
      BY AtFields
    <3>2. DOMAIN sent = {}
      BY <2>1
    <3> QED BY <2>1, <3>1, <3>2
  <2> QED BY <2>1, <2>2 DEF OnlyMainSends, SentInOrder, Connecting
<1>2. SendInv /\ [Next]_vars => SendInv'
  <2>1. SendInv /\ [Next]_vars => TypeOK' /\ ThreadsInside'
    BY TypesStep DEF SendInv
  <2> QED BY <2>1, SendInvStep DEF SendInv
<1>3. SendInv => SentInOrder
  BY DEF SendInv
<1> QED BY <1>1, <1>2, <1>3, PTL DEF Spec

-----------------------------------------------------------------------------
(* What the console shows.                                                 *)

\* A step that neither appends to messages nor hands a notification on.
NoPush ==
    /\ UNCHANGED <<messages, raced, handed, frontEnd>>
    /\ th'["reorder"].pc \in PushPC <=> th["reorder"].pc \in PushPC

LEMMA WhoPushes ==
    ASSUME TypeOK, ThreadsInside, [Next]_vars
    PROVE  \/ NoPush \/ ReorderHand
           \/ \E t \in Threads : BeginPush(t) \/ EndPush(t)
<1>0. th \in [Threads -> Thread] /\ "reorder" \in Threads /\ "main" \in Threads
      /\ "listen" \in Threads /\ \A t \in Threads : t \in {"main", "listen", "reorder"}
  BY DEF TypeOK, Threads
<1>i. /\ MainInside(th["main"]) /\ ListenInside(th["listen"]) /\ ReorderInside(th["reorder"])
  BY DEF ThreadsInside
<1>1. ASSUME NEW t \in Threads, NEW rec, Goto(t, rec),
             UNCHANGED <<messages, raced, handed, frontEnd>>,
             t = "reorder" => th["reorder"].pc \notin PushPC /\ rec.pc \notin PushPC
      PROVE  NoPush
  <2>1. th'[t] = rec /\ \A s \in Threads \ {t} : th'[s] = th[s]
    BY <1>0, <1>1, GotoEffect
  <2>2. th'["reorder"].pc \in PushPC <=> th["reorder"].pc \in PushPC
    BY <1>0, <1>1, <2>1
  <2> QED BY <1>1, <2>2 DEF NoPush
<1>f. /\ \A pc : At(pc).pc = pc
      /\ \A pc, msg, then : Doing(pc, msg, then).pc = pc
  <2>1. ASSUME NEW pc PROVE At(pc).pc = pc
    BY AtFields
  <2>2. ASSUME NEW pc, NEW msg, NEW then PROVE Doing(pc, msg, then).pc = pc
    BY DoingFields
  <2> QED BY <2>1, <2>2
<1>2. ASSUME NEW t \in Threads,
             LoadSeqn(t) \/ StoreSeqn(t) \/ SendPacket(t) \/ CloseSocket(t)
      PROVE  NoPush
  <2>1. /\ up /\ th[t].pc \in {"load", "store", "send", "close"}
        /\ UNCHANGED <<messages, raced, handed, frontEnd>>
    BY <1>2 DEF LoadSeqn, StoreSeqn, SendPacket, CloseSocket, network, reorder
  <2>2. t # "reorder"
    BY <1>i, <2>1 DEF ReorderInside, PushPC
  <2>3. \E rec : Goto(t, rec)
    BY <1>2 DEF LoadSeqn, StoreSeqn, SendPacket, CloseSocket
  <2> QED BY <1>1, <2>1, <2>2, <2>3
<1>3. CASE Connect \/ GuiLogin
  <2>1. /\ Goto("main", Doing("load", "connect", "spawn")) /\ up
        /\ UNCHANGED <<messages, raced, handed, frontEnd>>
    BY <1>3 DEF Connect, GuiLogin, Open, reorder
  <2> QED BY <1>0, <1>1, <1>f, <2>1
<1>4. CASE Draw
  <2>1. /\ Goto("main", At("input")) \/ Goto("main", Doing("load", "disconnect", "close"))
        /\ UNCHANGED <<messages, raced, handed, frontEnd>>
    BY <1>4 DEF Draw, Shutdown, network, reorder
  <2> QED BY <1>0, <1>1, <1>f, <2>1
<1>5. ASSUME NEW line \in Inputs, HandleUserInput(line) \/ GuiPost(line)
      PROVE  NoPush
  <2>1. /\ \/ Goto("main", At("draw")) \/ Goto("main", At("window"))
           \/ Goto("main", Doing("load", line, "draw"))
           \/ Goto("main", Doing("push", line, "draw"))
           \/ Goto("main", Doing("load", line, "window"))
        /\ UNCHANGED <<messages, raced, handed, frontEnd>>
    BY <1>5 DEF HandleUserInput, GuiPost, network, reorder
  <2> QED BY <1>0, <1>1, <1>f, <2>1
<1>6. CASE SpawnThreads
  <2>1. /\ up /\ th["main"].pc = "spawn" /\ UNCHANGED <<messages, raced, handed, frontEnd, up>>
        /\ th' = [main |-> At(IF frontEnd = "console" THEN "draw" ELSE "window"),
                  listen |-> At("listen"), reorder |-> At("reorder")]
    BY <1>6 DEF SpawnThreads, network, reorder
  <2>2. th'["main"] \in {At("draw"), At("window")} /\ th'["listen"] = At("listen")
        /\ th'["reorder"] = At("reorder") /\ th["reorder"] = At("none")
    BY <2>1 DEF ThreadsInside
  <2>3. /\ th'["reorder"].pc = "reorder" /\ th["reorder"].pc = "none"
    BY <1>f, <2>2
  <2> QED BY <1>0, <2>1, <2>3 DEF NoPush, PushPC
<1>7. CASE GuiClose \/ Quiescent \/ UNCHANGED vars
  <2>1. UNCHANGED <<messages, raced, handed, frontEnd, th>> 
    BY <1>7 DEF GuiClose, Quiescent, vars, network, reorder
  <2> QED BY <2>1 DEF NoPush
<1>8. ASSUME NEW p \in Packets, ReceiveAccept(p) \/ ReceiveNotification(p)
      PROVE  NoPush
  <2>1. UNCHANGED <<messages, raced, handed, frontEnd, th, up>>
    BY <1>8 DEF ReceiveAccept, ReceiveNotification, network, reorder
  <2> QED BY <2>1 DEF NoPush
<1>9. ASSUME NEW p \in Packets, ReceiveReject(p) \/ ReceiveText(p)
      PROVE  NoPush
  <2>1. /\ \/ Goto("listen", Doing("load", "disconnect", "close"))
           \/ Goto("listen", Doing("push", TypeOf[p], "listen"))
           \/ Goto("listen", At("listen"))
        /\ UNCHANGED <<messages, raced, handed, frontEnd>>
    BY <1>9 DEF ReceiveReject, ReceiveText, Receive, Shutdown, Hand, network, reorder
  <2> QED BY <1>0, <1>1, <1>f, <2>1
<1>10. CASE ReorderSort \/ ReorderClear
  <2>1. /\ Goto("reorder", At("hand")) \/ Goto("reorder", At("reorder"))
        /\ UNCHANGED <<messages, raced, handed, frontEnd>>
        /\ th["reorder"].pc \in {"reorder", "hand"}
    BY <1>10 DEF ReorderSort, ReorderClear, network
  <2> QED BY <1>0, <1>1, <1>f, <2>1 DEF PushPC
<1> QED BY <1>2, <1>3, <1>4, <1>5, <1>6, <1>7, <1>8, <1>9, <1>10 DEF Next, Step, ReorderStep

\* What the console shows, in parts: how many notifications it appended are P.
AllShown(P) == \A k \in 1 .. P : \E a \in DOMAIN messages : messages[a] = handed[k].packet
OnlyHanded(P) == \A a \in DOMAIN messages : messages[a] \in Packets =>
    \E k \in 1 .. P : messages[a] = handed[k].packet
InOrder(P) == \A a, b \in DOMAIN messages : \A j, k \in 1 .. P :
    (messages[a] = handed[j].packet /\ messages[b] = handed[k].packet) => (a < b <=> j < k)

LEMMA ShownParts ==
    ShownUnlessRaced <=>
        ((frontEnd = "console" /\ ~raced) =>
            AllShown(Pushed) /\ OnlyHanded(Pushed) /\ InOrder(Pushed))
BY DEF ShownUnlessRaced, AllShown, OnlyHanded, InOrder

LEMMA ShownStep ==
    ASSUME HandedInv, ShownUnlessRaced, [Next]_vars
    PROVE  ShownUnlessRaced'
<1>0. TypeOK /\ ThreadsInside /\ HandedOnce
  BY DEF HandedInv
<1>e. frontEnd' = frontEnd
  BY <1>0, FlagsStep
<1>t. /\ th \in [Threads -> Thread] /\ "reorder" \in Threads
      /\ \A t \in Threads : th[t] \in Thread
      /\ messages \in Seq(Shown) /\ Len(messages) \in Nat
      /\ DOMAIN messages = 1 .. Len(messages) /\ raced \in BOOLEAN
  BY <1>0, LenProperties DEF TypeOK, Threads
<1>n. Len(handed) \in Nat /\ DOMAIN handed = 1 .. Len(handed)
      /\ \A k \in DOMAIN handed : handed[k].packet \in Notifications
  BY <1>0, HandedTypes
<1>k. raced => raced'
  <2>1. ASSUME NEW t \in Threads, BeginPush(t) \/ EndPush(t) PROVE raced => raced'
    BY <2>1 DEF BeginPush, EndPush
  <2>2. NoPush \/ ReorderHand => raced' = raced
    BY DEF NoPush, ReorderHand
  <2> QED BY <1>0, <2>1, <2>2, WhoPushes
<1> SUFFICES ASSUME frontEnd = "console", ~raced PROVE ShownUnlessRaced'
  BY <1>e, <1>k DEF ShownUnlessRaced
<1>1. PICK P : P = Pushed
  OBVIOUS
<1>c. AllShown(P) /\ OnlyHanded(P) /\ InOrder(P)
  BY <1>1, ShownParts
<1>p. /\ th["reorder"].pc \in PushPC =>
            /\ P = Len(handed) - 1 /\ handed # <<>>
            /\ th["reorder"].msg = handed[Len(handed)].packet
      /\ th["reorder"].pc \notin PushPC => P = Len(handed)
  BY <1>0, <1>1 DEF Pushed, ThreadsInside, ReorderInside
<1>m. P \in Nat /\ P <= Len(handed)
  <2>1. handed # <<>> => Len(handed) # 0
    BY <1>0, EmptySeq DEF TypeOK
  <2> QED BY <1>n, <1>p, <2>1
<1>z. ASSUME NEW Q, Pushed' = Q, AllShown(Q)', OnlyHanded(Q)', InOrder(Q)'
      PROVE  ShownUnlessRaced'
  BY <1>z DEF ShownUnlessRaced, AllShown, OnlyHanded, InOrder
<1>q. ASSUME messages' = messages, Pushed' = P,
             \A k \in 1 .. P : handed'[k] = handed[k]
      PROVE  ShownUnlessRaced'
  <2>1. AllShown(P)' /\ OnlyHanded(P)' /\ InOrder(P)'
    BY <1>c, <1>q DEF AllShown, OnlyHanded, InOrder
  <2> QED BY <1>q, <1>z, <2>1
<1>2. CASE NoPush
  <2>1. /\ messages' = messages /\ handed' = handed
        /\ th'["reorder"].pc \in PushPC <=> th["reorder"].pc \in PushPC
    BY <1>2 DEF NoPush
  <2>2. Pushed' = P
    BY <1>1, <2>1 DEF Pushed
  <2> QED BY <1>q, <2>1, <2>2
<1>3. CASE ReorderHand
  <2>1. /\ th["reorder"].pc = "hand" /\ Goto("reorder", Hand(Head(round), "hand"))
        /\ messages' = messages
    BY <1>3 DEF ReorderHand
  <2>2. th'["reorder"] = Doing("push", Head(round), "hand")
    BY <1>t, <2>1, GotoEffect DEF Hand
  <2>3. th'["reorder"].pc = "push"
    BY <2>2, DoingFields
  <2>4. /\ Len(handed') = Len(handed) + 1
        /\ \A k \in 1 .. Len(handed) : handed'[k] = handed[k]
    BY <1>0, <1>3, HandStep
  <2>5. Pushed' = P /\ P = Len(handed)
    BY <1>n, <1>p, <2>1, <2>3, <2>4 DEF Pushed, PushPC
  <2> QED BY <1>q, <2>1, <2>4, <2>5
<1>4. ASSUME NEW t \in Threads, BeginPush(t) PROVE ShownUnlessRaced'
  <2>1. /\ th[t].pc = "push" /\ messages' = messages /\ handed' = handed
        /\ Goto(t, [th[t] EXCEPT !.pc = "pushing"])
    BY <1>4 DEF BeginPush, reorder
  <2>2. PICK u : u = [th[t] EXCEPT !.pc = "pushing"]
    OBVIOUS
  <2>3. u.pc = "pushing"
    BY <1>t, <2>2 DEF Thread
  <2>4. th'[t] = u /\ \A s \in Threads \ {t} : th'[s] = th[s]
    BY <1>t, <2>1, <2>2, GotoEffect
  <2>5. th'["reorder"].pc \in PushPC <=> th["reorder"].pc \in PushPC
    BY <1>t, <2>1, <2>3, <2>4 DEF PushPC
  <2>6. Pushed' = P
    BY <1>1, <2>1, <2>5 DEF Pushed
  <2> QED BY <1>q, <2>1, <2>6
<1>5. ASSUME NEW t \in Threads, EndPush(t) PROVE ShownUnlessRaced'
  <2>1. /\ th[t].pc = "pushing" /\ handed' = handed /\ Goto(t, At(th[t].then))
        /\ messages' = Append(messages, th[t].msg)
    BY <1>5 DEF EndPush, reorder
  <2>2. PICK e, n : e = th[t].msg /\ n = Len(messages)
    OBVIOUS
  <2>3. e \in Shown /\ n \in Nat /\ DOMAIN messages = 1 .. n
    BY <1>0, <1>t, <2>1, <2>2, ThreadHolds DEF PushPC
  <2>4. /\ DOMAIN messages' = 1 .. n + 1 /\ messages'[n + 1] = e
        /\ \A a \in 1 .. n : messages'[a] = messages[a]
    <3>1. /\ messages' \in Seq(Shown) /\ Len(messages') = n + 1 /\ messages'[n + 1] = e
          /\ \A a \in 1 .. n : messages'[a] = messages[a]
      BY <1>t, <2>1, <2>2, <2>3, AppendProperties
    <3>2. DOMAIN messages' = 1 .. n + 1
      BY <3>1, LenProperties
    <3> QED BY <3>1, <3>2
  <2>5. th'[t] = At(th[t].then) /\ \A s \in Threads \ {t} : th'[s] = th[s]
    BY <1>t, <2>1, GotoEffect
  <2>6. th'[t].pc \notin PushPC
    <3>1. th[t].then \notin PushPC
      BY <1>0, <1>t, <2>1 DEF ThreadsInside, MainInside, ListenInside, ReorderInside,
                              PushPC, Threads
    <3>2. At(th[t].then).pc = th[t].then
      BY AtFields
    <3> QED BY <2>5, <3>1, <3>2
  <2>7. \A k \in 1 .. P : handed[k].packet \in Packets
    BY <1>m, <1>n DEF Notifications
  <2>a. ASSUME NEW a \in 1 .. n, messages[a] \in Packets
        PROVE  \E k \in 1 .. P : messages[a] = handed[k].packet
    BY <1>c, <2>3, <2>a DEF OnlyHanded
  <2>b. ASSUME NEW k \in 1 .. P
        PROVE  \E a \in 1 .. n : messages'[a] = handed[k].packet
    <3>1. PICK a \in 1 .. n : messages[a] = handed[k].packet
      BY <1>c, <2>3 DEF AllShown
    <3> QED BY <2>4, <3>1
  <2>8. CASE t # "reorder"
    <3>1. Pushed' = P
      <4>1. th'["reorder"] = th["reorder"]
        BY <1>t, <2>5, <2>8
      <4> QED BY <1>1, <2>1, <4>1 DEF Pushed
    <3>2. e \notin Packets
      <4>1. e \in {"usage", "help", "info", "error"}
        BY <1>0, <2>1, <2>2, <2>8 DEF ThreadsInside, MainInside, ListenInside, PushPC, Threads
      <4> QED BY <4>1, ClientAssumption
    <3>3. \A a \in 1 .. n + 1 : messages'[a] \in Packets =>
            a \in 1 .. n /\ messages'[a] = messages[a]
      BY <2>3, <2>4, <3>2
    <3>4. \A k \in 1 .. P : \E a \in 1 .. n + 1 : messages'[a] = handed[k].packet
      BY <2>3, <2>b
    <3>5. \A a \in 1 .. n + 1 : messages'[a] \in Packets =>
            \E k \in 1 .. P : messages'[a] = handed[k].packet
      BY <2>a, <3>3
    <3>6. \A a, b \in 1 .. n + 1 : \A j, k \in 1 .. P :
            (messages'[a] = handed[j].packet /\ messages'[b] = handed[k].packet) =>
                (a < b <=> j < k)
      BY <1>c, <2>3, <2>7, <3>3 DEF InOrder
    <3>7. AllShown(P)' /\ OnlyHanded(P)'
      BY <2>1, <2>4, <3>4, <3>5 DEF AllShown, OnlyHanded
    <3>8. InOrder(P)'
      BY <2>1, <2>4, <3>6 DEF InOrder
    <3> QED BY <1>z, <3>1, <3>7, <3>8
  <2>9. CASE t = "reorder"
    <3>1. P = Len(handed) - 1 /\ e = handed[Len(handed)].packet /\ Pushed' = Len(handed)
      <4>1. th["reorder"].pc \in PushPC /\ th'["reorder"].pc \notin PushPC
        BY <2>1, <2>6, <2>9 DEF PushPC
      <4>2. Pushed' = Len(handed)
        BY <2>1, <4>1 DEF Pushed
      <4> QED BY <1>p, <2>2, <2>9, <4>1, <4>2
    <3>2. /\ Pushed' = P + 1 /\ P + 1 \in DOMAIN handed /\ handed[P + 1].packet = e
          /\ e \in Packets
      <4>1. Pushed' = P + 1 /\ P + 1 \in DOMAIN handed /\ Len(handed) = P + 1
        BY <1>m, <1>n, <3>1
      <4> QED BY <1>n, <3>1, <4>1 DEF Notifications
    <3>3. \A k \in 1 .. P : handed[k].packet # e
      <4> SUFFICES ASSUME NEW k \in 1 .. P, handed[k].packet = e PROVE FALSE
        OBVIOUS
      <4>1. k \in DOMAIN handed /\ k # P + 1
        BY <1>m, <1>n
      <4> QED BY <1>0, <3>2, <4>1 DEF HandedOnce
    <3>4. \A a \in 1 .. n : messages[a] # e
      <4> SUFFICES ASSUME NEW a \in 1 .. n, messages[a] = e PROVE FALSE
        OBVIOUS
      <4> QED BY <2>a, <3>2, <3>3
    <3>5. ASSUME NEW k \in 1 .. P + 1
          PROVE  \E a \in 1 .. n + 1 : messages'[a] = handed[k].packet
      <4>1. CASE k = P + 1
        <5>1. n + 1 \in 1 .. n + 1
          BY <2>3
        <5> QED BY <2>4, <3>2, <4>1, <5>1
      <4>2. CASE k \in 1 .. P
        BY <2>3, <2>b, <4>2
      <4> QED BY <1>m, <4>1, <4>2
    <3>6. ASSUME NEW a \in 1 .. n + 1, messages'[a] \in Packets
          PROVE  \E k \in 1 .. P + 1 : messages'[a] = handed[k].packet
      <4>1. CASE a = n + 1
        <5>1. P + 1 \in 1 .. P + 1
          BY <1>m
        <5> QED BY <2>4, <3>2, <4>1, <5>1
      <4>2. CASE a \in 1 .. n
        <5>1. PICK k \in 1 .. P : messages[a] = handed[k].packet
          BY <2>4, <2>a, <3>6, <4>2
        <5>2. k \in 1 .. P + 1
          BY <1>m
        <5> QED BY <2>4, <4>2, <5>1, <5>2
      <4> QED BY <2>3, <4>1, <4>2
    <3>7. \A a \in 1 .. n + 1 : \A k \in 1 .. P + 1 : messages'[a] = handed[k].packet =>
            \/ a = n + 1 /\ k = P + 1
            \/ a \in 1 .. n /\ k \in 1 .. P /\ messages[a] = handed[k].packet
      <4> SUFFICES ASSUME NEW a \in 1 .. n + 1, NEW k \in 1 .. P + 1,
                          messages'[a] = handed[k].packet
                   PROVE  \/ a = n + 1 /\ k = P + 1
                          \/ a \in 1 .. n /\ k \in 1 .. P /\ messages[a] = handed[k].packet
        OBVIOUS
      <4>1. a = n + 1 \/ a \in 1 .. n
        BY <2>3
      <4>2. k = P + 1 \/ k \in 1 .. P
        BY <1>m
      <4> QED BY <2>4, <3>2, <3>3, <3>4, <4>1, <4>2
    <3>8. ASSUME NEW a \in 1 .. n + 1, NEW b \in 1 .. n + 1,
                 NEW j \in 1 .. P + 1, NEW k \in 1 .. P + 1,
                 messages'[a] = handed[j].packet, messages'[b] = handed[k].packet
          PROVE  a < b <=> j < k
      <4>1. /\ \/ a = n + 1 /\ j = P + 1
               \/ a \in 1 .. n /\ j \in 1 .. P /\ messages[a] = handed[j].packet
            /\ \/ b = n + 1 /\ k = P + 1
               \/ b \in 1 .. n /\ k \in 1 .. P /\ messages[b] = handed[k].packet
        BY <3>7, <3>8
      <4>2. CASE a \in 1 .. n /\ b \in 1 .. n /\ j \in 1 .. P /\ k \in 1 .. P
                 /\ messages[a] = handed[j].packet /\ messages[b] = handed[k].packet
        BY <1>c, <2>3, <4>2 DEF InOrder
      <4>3. CASE (a = n + 1 /\ j = P + 1) \/ (b = n + 1 /\ k = P + 1)
        <5>1. /\ (a = n + 1 /\ j = P + 1) \/ (a \in 1 .. n /\ j \in 1 .. P)
              /\ (b = n + 1 /\ k = P + 1) \/ (b \in 1 .. n /\ k \in 1 .. P)
          BY <4>1
        <5> QED BY <1>m, <2>3, <4>3, <5>1
      <4> QED BY <4>1, <4>2, <4>3
    <3>9. PICK Q : Q = P + 1
      OBVIOUS
    <3>10. AllShown(Q)' /\ OnlyHanded(Q)'
      BY <2>1, <2>4, <3>5, <3>6, <3>9 DEF AllShown, OnlyHanded
    <3>11. InOrder(Q)'
      <4>1. \A a, b \in DOMAIN messages' : \A j, k \in 1 .. Q :
              (messages'[a] = handed'[j].packet /\ messages'[b] = handed'[k].packet) =>
                  (a < b <=> j < k)
        <5> SUFFICES ASSUME NEW a \in DOMAIN messages', NEW b \in DOMAIN messages',
                            NEW j \in 1 .. Q, NEW k \in 1 .. Q,
                            messages'[a] = handed'[j].packet, messages'[b] = handed'[k].packet
                     PROVE  a < b <=> j < k
          OBVIOUS
        <5>1. a \in 1 .. n + 1 /\ b \in 1 .. n + 1 /\ j \in 1 .. P + 1 /\ k \in 1 .. P + 1
          BY <2>4, <3>9
        <5>2. messages'[a] = handed[j].packet /\ messages'[b] = handed[k].packet
          BY <2>1
        <5> QED BY <3>8, <5>1, <5>2
      <4> QED BY <4>1 DEF InOrder
    <3> QED BY <1>z, <3>2, <3>9, <3>10, <3>11
  <2> QED BY <2>8, <2>9
<1> QED BY <1>0, <1>2, <1>3, <1>4, <1>5, WhoPushes

\* Unless two threads were in push_back at once, the console's list holds the
\* notifications that Reorder handed on, all of them, once and in that order.
THEOREM ShowsUnlessRaced == Spec => []ShownUnlessRaced
<1>1. Init => HandedInv /\ ShownUnlessRaced
  <2> SUFFICES ASSUME Init PROVE ShownUnlessRaced
    BY HandedInit
  <2>1. th["reorder"] = At("none") /\ messages = <<>> /\ handed = <<>>
    BY DEF Init
  <2>2. At("none").pc = "none"
    BY AtFields
  <2>3. DOMAIN messages = {} /\ Pushed = 0
    BY <2>1, <2>2 DEF Pushed, PushPC
  <2> QED BY <2>3 DEF ShownUnlessRaced
<1>2. HandedInv /\ ShownUnlessRaced /\ [Next]_vars => HandedInv' /\ ShownUnlessRaced'
  BY HandedStep, ShownStep
<1>3. HandedInv /\ ShownUnlessRaced => ShownUnlessRaced
  OBVIOUS
<1> QED BY <1>1, <1>2, PTL DEF Spec

=============================================================================
