------------------------------- MODULE Client -------------------------------
(***************************************************************************)
(* One client process: the main thread, which turns input into packets,    *)
(* the Listen thread, which receives packets, and the Reorder thread,      *)
(* which sorts the notifications that arrived and hands them to            *)
(* ConsoleInterface::IncomingMessageHandler.                               *)
(*                                                                         *)
(* With three arguments the front end is the console; without, in a build  *)
(* with USE_GUI, it is the window, which sets no messageHandler and, when  *)
(* it is closed, ends the process without a word to the server.            *)
(*                                                                         *)
(* packetQueueMutex protects PacketList.  Nothing protects                 *)
(* ConsoleInterface::messages, which all three threads append to and the   *)
(* main thread draws, nor the static lastSentSeqn.  Two push_backs at once *)
(* are undefined: from then on every push_back may lose any number of the  *)
(* last messages, and it or a draw may kill the process.  A draw during a  *)
(* push_back may kill it too.                                              *)
(***************************************************************************)
EXTENDS Naturals, Sequences, SequencesExt

CONSTANTS
    Packets,    \* the datagrams the network may deliver, in any order
    TypeOf,     \* their types
    SeqnOf,     \* their sequence numbers
    FrontEnds,  \* subset of {"console", "gui"}
    Inputs,     \* the kinds of lines the user enters
    MaxInputs   \* bound: how many

Types == {"accept", "reject", "notification", "info", "error", "other"}

\* "follow" and "post" are well-formed; "usage" is /follow without a name, "me"
\* any other command, "long" a text of more than 128 characters; "exit" is also
\* Ctrl-C.
Lines == {"follow", "usage", "help", "me", "post", "long", "exit"}

ASSUME ClientAssumption ==
    /\ Packets \cap {"usage", "help", "info", "error"} = {}
    /\ TypeOf \in [Packets -> Types]
    /\ SeqnOf \in [Packets -> Nat]
    /\ FrontEnds \subseteq {"console", "gui"}
    /\ Inputs \subseteq Lines
    /\ MaxInputs \in Nat

VARIABLES
    up,           \* the process is running
    frontEnd,
    open,         \* socketDescr is open
    isListening, connected, running,
    lastSentSeqn,
    PacketList,
    round,        \* what the Reorder thread has sorted and not yet handed on
    messages,     \* ConsoleInterface::messages
    raced,        \* two threads were in its push_back at once
    th,           \* the state of each thread
    inputs,       \* how many lines were entered
    received,     \* history: packets received, notifications with the rounds so far
    handed,       \* history: notifications handed on, with their round
    rounds,       \* history: how many rounds of Reorder found something
    sent          \* history: packets sent, in order

vars == <<up, frontEnd, open, isListening, connected, running, lastSentSeqn, PacketList,
          round, messages, raced, th, inputs, received, handed, rounds, sent>>

network == <<frontEnd, open, isListening, connected, running, lastSentSeqn, sent>>
reorder == <<PacketList, round, handed, rounds>>

Threads == {"main", "listen", "reorder"}
Notifications == {p \in Packets : TypeOf[p] = "notification"}

\* `msg' is what the thread appends to messages or sends; `then' is where it
\* goes afterwards.
At(pc) == [pc |-> pc, msg |-> "", then |-> "", reg |-> 0]
Doing(pc, msg, then) == [At(pc) EXCEPT !.msg = msg, !.then = then]
Goto(t, rec) == th' = [th EXCEPT ![t] = rec]

Init ==
    /\ up = TRUE
    /\ open = FALSE /\ isListening = TRUE /\ connected = FALSE /\ running = TRUE
    /\ lastSentSeqn = 0
    /\ PacketList = <<>> /\ round = <<>>
    /\ messages = <<>> /\ raced = FALSE
    /\ frontEnd \in FrontEnds
    /\ th = [main |-> At(IF frontEnd = "console" THEN "start" ELSE "login"),
             listen |-> At("none"), reorder |-> At("none")]
    /\ inputs = 0
    /\ received = [p \in {} |-> 0]
    /\ handed = <<>> /\ rounds = 0
    /\ sent = <<>>

-----------------------------------------------------------------------------
(* SendMessageToServer(Make...(++lastSentSeqn, ...)), called by the main   *)
(* thread and, through Shutdown, by the Listen thread.                     *)

\* Make... adds one to the number it is given.
Make(type, lastSeqn) == [type |-> type, seqn |-> lastSeqn + 1]

LoadSeqn(t) ==
    /\ up
    /\ th[t].pc = "load"
    /\ Goto(t, [th[t] EXCEPT !.pc = "store", !.reg = lastSentSeqn])
    /\ UNCHANGED <<up, network, reorder, messages, raced, inputs, received>>

\* Seeded fault: lastSentSeqn is used and not incremented.
StoreSeqnSame(t) ==
    /\ up
    /\ th[t].pc = "store"
    /\ Goto(t, [th[t] EXCEPT !.pc = "send"])
    /\ UNCHANGED <<up, network, reorder, messages, raced, inputs, received>>

StoreSeqn(t) ==
    /\ up
    /\ th[t].pc = "store"
    /\ lastSentSeqn' = th[t].reg + 1
    /\ Goto(t, [th[t] EXCEPT !.pc = "send"])
    /\ UNCHANGED <<up, frontEnd, open, isListening, connected, running, sent, reorder,
                   messages, raced, inputs, received>>

\* sendto fails on a closed socket.
SendPacket(t) ==
    /\ up
    /\ th[t].pc = "send"
    /\ sent' = IF open THEN Append(sent, Make(th[t].msg, lastSentSeqn)) ELSE sent
    /\ Goto(t, At(th[t].then))
    /\ UNCHANGED <<up, frontEnd, open, isListening, connected, running, lastSentSeqn,
                   reorder, messages, raced, inputs, received>>

\* The rest of Shutdown.  The main thread then returns from main.
CloseSocket(t) ==
    /\ up
    /\ th[t].pc = "close"
    /\ open' = FALSE /\ isListening' = FALSE
    /\ up' = (t # "main")
    /\ Goto(t, At("none"))
    /\ UNCHANGED <<frontEnd, connected, running, lastSentSeqn, sent, reorder,
                   messages, raced, inputs, received>>

Shutdown == Doing("load", "disconnect", "close")

-----------------------------------------------------------------------------
(* messages.push_back, called by all threads through messageHandler, if it *)
(* is set, and by HandleUserInput.                                         *)

Hand(msg, then) == IF frontEnd = "console" THEN Doing("push", msg, then) ELSE At(then)

\* Another thread is inside push_back.
Pushing(t) == \E s \in Threads \ {t} : th[s].pc = "pushing"

BeginPush(t) ==
    /\ up
    /\ th[t].pc = "push"
    /\ raced' = (raced \/ Pushing(t))
    /\ Goto(t, [th[t] EXCEPT !.pc = "pushing"])
    /\ UNCHANGED <<up, network, reorder, messages, inputs, received>>

\* What a push_back may leave of a vector that two threads grew at once: any
\* number of the last messages are lost, and the new one is or is not there.
Damaged(list, msg) ==
    UNION {{SubSeq(list, 1, n), Append(SubSeq(list, 1, n), msg)} : n \in 0 .. Len(list)}

EndPush(t) ==
    /\ up
    /\ th[t].pc = "pushing"
    /\ \/ ~raced /\ messages' = Append(messages, th[t].msg) /\ up' = TRUE
       \/ raced /\ messages' \in Damaged(messages, th[t].msg) /\ up' = TRUE
       \/ raced /\ messages' = messages /\ up' = FALSE
    /\ Goto(t, At(th[t].then))
    /\ UNCHANGED <<network, reorder, raced, inputs, received>>

-----------------------------------------------------------------------------
(* The main thread.                                                        *)

\* Connect opens the socket ...
Open ==
    /\ open' = TRUE
    /\ Goto("main", Doing("load", "connect", "spawn"))
    /\ UNCHANGED <<up, frontEnd, isListening, connected, running, lastSentSeqn,
                   sent, reorder, messages, raced, inputs, received>>

Connect == up /\ th["main"].pc = "start" /\ Open

\* The button of the login window.
GuiLogin == up /\ th["main"].pc = "login" /\ Open

\* ... and, when the packet is sent, starts the two threads.
SpawnThreads ==
    /\ up
    /\ th["main"].pc = "spawn"
    /\ th' = [main |-> At(IF frontEnd = "console" THEN "draw" ELSE "window"),
              listen |-> At("listen"), reorder |-> At("reorder")]
    /\ UNCHANGED <<up, network, reorder, messages, raced, inputs, received>>

\* A round of MainLoop: leave, or DrawMessages and wait in getch.
Draw ==
    /\ up
    /\ th["main"].pc = "draw"
    /\ IF running
       THEN /\ Goto("main", At("input"))
            /\ up' \in (IF raced \/ Pushing("main") THEN BOOLEAN ELSE {TRUE})
       ELSE Goto("main", Shutdown) /\ up' = TRUE
    /\ UNCHANGED <<network, reorder, messages, raced, inputs, received>>

\* Seeded fault: every line is sent to the server.
PostEveryLine(line) ==
    /\ up
    /\ th["main"].pc = "input"
    /\ inputs < MaxInputs
    /\ inputs' = inputs + 1
    /\ Goto("main", Doing("load", line, "draw"))
    /\ UNCHANGED <<up, network, reorder, messages, raced, received>>

\* HandleUserInput, for each kind of line.
HandleUserInput(line) ==
    /\ up
    /\ th["main"].pc = "input"
    /\ inputs < MaxInputs \/ line = "exit"
    /\ inputs' = IF line = "exit" THEN inputs ELSE inputs + 1
    /\ running' = (line # "exit")
    /\ Goto("main", CASE line \in {"follow", "post"} -> Doing("load", line, "draw")
                      [] line \in {"usage", "help"}  -> Doing("push", line, "draw")
                      [] OTHER                       -> At("draw"))
    /\ UNCHANGED <<up, frontEnd, open, isListening, connected, lastSentSeqn, sent, reorder,
                   messages, raced, received>>

\* The button of the main window.  Post drops a long text.
GuiPost(line) ==
    /\ up
    /\ th["main"].pc = "window"
    /\ inputs < MaxInputs /\ line \in {"post", "long"}
    /\ inputs' = inputs + 1
    /\ Goto("main", IF line = "post" THEN Doing("load", line, "window") ELSE At("window"))
    /\ UNCHANGED <<up, network, reorder, messages, raced, received>>

\* The window is closed, and main returns without a Shutdown.
GuiClose ==
    /\ up
    /\ th["main"].pc \in {"login", "window"}
    /\ up' = FALSE
    /\ UNCHANGED <<network, reorder, messages, raced, th, inputs, received>>

-----------------------------------------------------------------------------
(* The Listen thread.                                                      *)

\* A datagram arrives, once; a duplicate is another member of Packets.
Receive(p, types) ==
    /\ up
    /\ th["listen"].pc = "listen" /\ isListening /\ open
    /\ TypeOf[p] \in types
    /\ p \notin DOMAIN received
    /\ received' = [q \in DOMAIN received \cup {p} |->
                        IF q # p THEN received[q]
                        ELSE IF p \in Notifications THEN rounds ELSE 0]

ReceiveAccept(p) ==
    /\ Receive(p, {"accept"})
    /\ connected' = TRUE
    /\ UNCHANGED <<up, frontEnd, open, isListening, running, lastSentSeqn, sent, reorder,
                   messages, raced, th, inputs>>

\* Shutdown, after which isListening ends the thread.
ReceiveReject(p) ==
    /\ Receive(p, {"reject", "other"})
    /\ Goto("listen", Shutdown)
    /\ UNCHANGED <<up, network, reorder, messages, raced, inputs>>

ReceiveText(p) ==
    /\ Receive(p, {"info", "error"})
    /\ Goto("listen", Hand(TypeOf[p], "listen"))
    /\ UNCHANGED <<up, network, reorder, messages, raced, inputs>>

\* Seeded fault: no lock.
NoMutex == TRUE

\* The lock is free unless Reorder is in a round.
MutexFree == th["reorder"].pc \in {"none", "reorder"}

ReceiveNotification(p) ==
    /\ Receive(p, {"notification"})
    /\ MutexFree
    /\ PacketList' = Append(PacketList, p)
    /\ UNCHANGED <<up, network, round, handed, rounds, messages, raced, th, inputs>>

-----------------------------------------------------------------------------
(* The Reorder thread.                                                     *)

\* Seeded fault: the list is not sorted.
Unsorted(list) == {list}

\* The orders std::sort may leave the list in.
Sorted(list) ==
    {s \in SetToSeqs(Range(list)) :
        \A i, j \in DOMAIN s : i < j => SeqnOf[s[i]] <= SeqnOf[s[j]]}

\* Lock and sort.  On an empty list the round has no effect.
ReorderSort ==
    /\ up
    /\ th["reorder"].pc = "reorder" /\ PacketList # <<>>
    /\ round' \in Sorted(PacketList)
    /\ rounds' = rounds + 1
    /\ Goto("reorder", At("hand"))
    /\ UNCHANGED <<up, network, PacketList, received, handed, messages, raced, inputs>>

\* Seeded fault: no handler is set.
ReorderHandToNobody ==
    /\ up
    /\ th["reorder"].pc = "hand" /\ round # <<>>
    /\ handed' = Append(handed, [packet |-> Head(round), round |-> rounds])
    /\ round' = Tail(round)
    /\ UNCHANGED <<up, network, PacketList, received, rounds, messages, raced, th, inputs>>

\* messageHandler(message, Notification), if it is set.
ReorderHand ==
    /\ up
    /\ th["reorder"].pc = "hand" /\ round # <<>>
    /\ handed' = Append(handed, [packet |-> Head(round), round |-> rounds])
    /\ round' = Tail(round)
    /\ Goto("reorder", Hand(Head(round), "hand"))
    /\ UNCHANGED <<up, network, PacketList, received, rounds, messages, raced, inputs>>

\* Seeded fault: the thread ends after one round.
ReorderOnce ==
    /\ up
    /\ th["reorder"].pc = "hand" /\ round = <<>>
    /\ PacketList' = <<>>
    /\ Goto("reorder", At("none"))
    /\ UNCHANGED <<up, network, round, received, handed, rounds, messages, raced, inputs>>

\* Clear and unlock.
ReorderClear ==
    /\ up
    /\ th["reorder"].pc = "hand" /\ round = <<>>
    /\ PacketList' = <<>>
    /\ Goto("reorder", At("reorder"))
    /\ UNCHANGED <<up, network, round, received, handed, rounds, messages, raced, inputs>>

-----------------------------------------------------------------------------

ReorderStep == ReorderSort \/ ReorderHand \/ ReorderClear

Step(t) ==
    \/ LoadSeqn(t) \/ StoreSeqn(t) \/ SendPacket(t) \/ CloseSocket(t)
    \/ BeginPush(t) \/ EndPush(t)

Quiescent == ~up /\ UNCHANGED vars

Next ==
    \/ \E t \in Threads : Step(t)
    \/ Connect \/ SpawnThreads \/ Draw \/ GuiLogin \/ GuiClose
    \/ \E line \in Inputs : HandleUserInput(line) \/ GuiPost(line)
    \/ \E p \in Packets :
        ReceiveAccept(p) \/ ReceiveReject(p) \/ ReceiveText(p)
        \/ ReceiveNotification(p)
    \/ ReorderStep
    \/ Quiescent

Spec == Init /\ [][Next]_vars

\* The Reorder thread runs.  Neither packets nor input need ever come.
Fairness == WF_vars(ReorderStep \/ Step("reorder"))

FairSpec == Spec /\ Fairness

-----------------------------------------------------------------------------
(* Properties.                                                             *)

Shown == Packets \cup {"usage", "help", "info", "error"}
Sends == {"connect", "disconnect", "follow", "post"}
Thread ==
    [pc : {"start", "none", "load", "store", "send", "close", "push", "pushing", "spawn",
           "draw", "input", "login", "window", "listen", "reorder", "hand"},
     msg : Shown \cup Sends \cup {""},
     then : {"", "spawn", "draw", "window", "close", "listen", "hand"},
     reg : Nat]

\* The type of every variable.
TypeOK ==
    /\ {up, open, isListening, connected, running} \subseteq BOOLEAN
    /\ frontEnd \in FrontEnds
    /\ lastSentSeqn \in Nat
    /\ PacketList \in Seq(Notifications) /\ round \in Seq(Notifications)
    /\ messages \in Seq(Shown) /\ raced \in BOOLEAN
    /\ th \in [Threads -> Thread]
    /\ inputs \in 0 .. MaxInputs
    /\ DOMAIN received \subseteq Packets
    /\ handed \in Seq([packet : Notifications, round : Nat])
    /\ rounds \in Nat
    /\ sent \in Seq([type : Sends, seqn : Nat])

Handed == {handed[k].packet : k \in DOMAIN handed}

\* A notification that arrived is waiting in PacketList or was handed to the
\* front end, and is handed on once: none is lost or repeated between the threads.
HandedOnce ==
    /\ \A j, k \in DOMAIN handed : handed[j].packet = handed[k].packet => j = k
    /\ IsInjective(PacketList)
    /\ DOMAIN received \cap Notifications = Handed \cup Range(PacketList)
    /\ th["reorder"].pc = "reorder" => Handed \cap Range(PacketList) = {}

\* "Garantir a chegada dos pacotes UDP na ordem de envio correta. Para isso foi
\* implemetado um buffer que e reordenado pelo numero de sequencia."
\* (RELATORIO.md:77), as far as the buffer goes: a notification is handed on
\* before one with a smaller number only if that one arrived after the first
\* had been sorted.
OutOfOrderOnlyIfLate ==
    \A j, k \in DOMAIN handed :
        (j < k /\ SeqnOf[handed[j].packet] > SeqnOf[handed[k].packet]) =>
            received[handed[k].packet] >= handed[j].round

PushPC == {"push", "pushing"}

\* How many notifications the console has been given and has appended.
Pushed == IF th["reorder"].pc \in PushPC THEN Len(handed) - 1 ELSE Len(handed)

\* Unless two threads are in push_back at once, the console's list holds all
\* notifications that Reorder handed on, each once and in that order, among the
\* messages of other threads: nothing but the unprotected vector loses, repeats
\* or swaps them.
ShownUnlessRaced ==
    (frontEnd = "console" /\ ~raced) =>
        /\ \A k \in 1 .. Pushed : \E a \in DOMAIN messages : messages[a] = handed[k].packet
        /\ \A a \in DOMAIN messages : messages[a] \in Packets =>
            \E k \in 1 .. Pushed : messages[a] = handed[k].packet
        /\ \A a, b \in DOMAIN messages : \A j, k \in 1 .. Pushed :
            (messages[a] = handed[j].packet /\ messages[b] = handed[k].packet) =>
                (a < b <=> j < k)

\* The server sees the packets of a client numbered upwards, the connect first
\* and nothing after a disconnect, as long as no packet makes the Listen thread
\* shut down at the same time as the main thread.
SentInOrder ==
    (\A p \in DOMAIN received : TypeOf[p] \notin {"reject", "other"}) =>
        /\ \A i, j \in DOMAIN sent : i < j => sent[i].seqn < sent[j].seqn
        /\ \A i \in DOMAIN sent :
            /\ sent[i].type = "connect" <=> i = 1
            /\ sent[i].type = "disconnect" => i = Len(sent)

\* A notification that arrived is handed to the front end in the end, as long
\* as the process lives, whatever else arrives.
EventuallyHanded ==
    \A p \in Notifications : (p \in DOMAIN received) ~> (~up \/ p \in Handed)

-----------------------------------------------------------------------------
(* Inductive invariants.                                                   *)

SendPC == {"load", "store", "send"}

\* The main thread has not sent the connect.
Connecting ==
    \/ th["main"].pc \in {"start", "login"}
    \/ th["main"].pc \in SendPC /\ th["main"].then = "spawn"

\* Where each thread may be, and with what.
MainInside(t) ==
    /\ t.pc \notin {"listen", "reorder", "hand"}
    /\ t.pc \in SendPC => \/ t.msg = "connect" /\ t.then = "spawn"
                          \/ t.msg = "disconnect" /\ t.then = "close"
                          \/ t.msg \in {"follow", "post"} /\ t.then \in {"draw", "window"}
    /\ t.pc \in PushPC => t.msg \in {"usage", "help"} /\ t.then = "draw"

ListenInside(t) ==
    /\ t.pc \in {"none", "listen", "close"} \cup SendPC \cup PushPC
    /\ t.pc \in SendPC => t.msg = "disconnect" /\ t.then = "close"
    /\ t.pc \in PushPC => t.msg \in {"info", "error"} /\ t.then = "listen"

ReorderInside(t) ==
    /\ t.pc \in {"none", "reorder", "hand"} \cup PushPC
    /\ t.pc \in PushPC => /\ frontEnd = "console" /\ t.then = "hand"
                          /\ handed # <<>> /\ t.msg = handed[Len(handed)].packet

ThreadsInside ==
    /\ MainInside(th["main"])
    /\ ListenInside(th["listen"])
    /\ ReorderInside(th["reorder"])
    /\ (Connecting \/ th["main"].pc = "spawn") =>
        th["listen"] = At("none") /\ th["reorder"] = At("none")

\* Behind HandedOnce: what a round has not yet handed on.
RoundKept ==
    /\ MutexFree => round = <<>> /\ Handed \cap Range(PacketList) = {}
    /\ ~MutexFree => IsInjective(round) /\ Range(round) = Range(PacketList) \ Handed

HandedInv == TypeOK /\ ThreadsInside /\ HandedOnce /\ RoundKept

\* Behind OutOfOrderOnlyIfLate: a round hands on, in order, what arrived between
\* the last round and this one.
RoundSorted ==
    /\ \A p \in DOMAIN received : received[p] \in 0 .. rounds
    /\ \A k \in DOMAIN handed : handed[k].round <= rounds
    /\ \A p \in Range(PacketList) : received[p] = IF MutexFree THEN rounds ELSE rounds - 1
    /\ \A i, j \in DOMAIN round : i < j => SeqnOf[round[i]] <= SeqnOf[round[j]]
    /\ \A k \in DOMAIN handed : handed[k].round = rounds =>
        \A p \in Range(round) : SeqnOf[handed[k].packet] <= SeqnOf[p]

\* Behind SentInOrder, while only the main thread sends.
OnlyMainSends ==
    (\A p \in DOMAIN received : TypeOf[p] \notin {"reject", "other"}) =>
        /\ th["listen"].pc \notin {"load", "store", "send", "close"}
        /\ up => open \/ th["main"].pc \in {"start", "login"}
        /\ th["main"].pc = "store" => th["main"].reg = lastSentSeqn
        /\ \A i \in DOMAIN sent :
            sent[i].seqn <= IF th["main"].pc = "send" THEN lastSentSeqn ELSE lastSentSeqn + 1
        /\ Connecting <=> sent = <<>>
        /\ (\E i \in DOMAIN sent : sent[i].type = "disconnect") =>
            \/ th["main"].pc = "close"
            \/ th["main"].pc = "none" /\ ~up

=============================================================================
