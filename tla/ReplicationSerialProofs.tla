----------------------- MODULE ReplicationSerialProofs ----------------------
(***************************************************************************)
(* What the replication of CONNECT guarantees when the threads of the      *)
(* primary do not overlap: the proof that SerialInv is inductive, and the  *)
(* properties that follow from it.                                         *)
(***************************************************************************)
EXTENDS ReplicationProofs

-----------------------------------------------------------------------------
(* Handlers that do not overlap: ReplicatedBeforeAccept.                   *)

\* Nothing but perhaps the CONNECT handler of h is running.
Alone(h) ==
    /\ \A g \in Hosts \ {h} : ~ConnRunning(g)
    /\ \A x \in Hosts \X Peers : ~ConfRunning(x)
    /\ worker.pc = "idle"

LEMMA ConnectAlone ==
    ASSUME ~Overlap, Exclusive, NEW h \in Hosts, ConnectStep(h)
    PROVE  Alone(h)
<1>1. MayStart \/ ConnRunning(h)
  BY DEF ConnectStep, ConnectStartSession, ReadSeqn, RereadSeqn, LoadSeqn, StoreSeqn,
     BeginPush, EndPush, SendToPeers, ConnRunning
<1>2. CASE MayStart
  BY <1>2 DEF MayStart, Alone
<1>3. CASE ConnRunning(h)
  BY <1>3 DEF Exclusive, Alone
<1> QED BY <1>1, <1>2, <1>3

LEMMA ExclusiveStep ==
    ASSUME ~Overlap, TypeOK, Exclusive, [Next]_vars
    PROVE  Exclusive'
<1>d. dg \in [Hosts \X Peers -> Datagram]
  BY DEF TypeOK
<1>1. ASSUME NEW h \in Hosts, ConnectStep(h) PROVE Exclusive'
  <2>1. ConnectFrame(h) /\ Alone(h)
    BY <1>1, ConnectStepFrame, ConnectAlone
  <2>2. \A g \in Hosts \ {h} : ~ConnRunning(g)'
    BY <2>1 DEF ConnectFrame, Alone, ConnRunning
  <2>3. \A x \in Hosts \X Peers : ~ConfRunning(x)'
    <3>1. CASE conn[h].pc # "send"
      BY <2>1, <3>1 DEF ConnectFrame, Alone, ConfRunning
    <3>2. CASE SendToPeers(h)
      <4>1. \A q \in Peers : ~ConfRunning(<<h, q>>)'
        BY <3>2, SendEffect DEF ConfRunning
      <4>2. \A g \in Hosts \ {h}, q \in Peers : dg'[<<g, q>>] = dg[<<g, q>>]
        BY <2>1 DEF ConnectFrame
      <4>3. \A g \in Hosts, q \in Peers : ~ConfRunning(<<g, q>>)'
        BY <2>1, <4>1, <4>2 DEF Alone, ConfRunning
      <4> QED BY <4>3
    <3>3. conn[h].pc = "send" => SendToPeers(h)
      BY <1>1 DEF ConnectStep, ConnectStartSession, ReadSeqn, RereadSeqn, LoadSeqn,
         StoreSeqn, BeginPush, EndPush
    <3> QED BY <3>1, <3>2, <3>3
  <2>4. worker'.pc = "idle"
    BY <2>1 DEF ConnectFrame, Alone
  <2> QED BY <2>2, <2>3, <2>4 DEF Exclusive
<1>2. ASSUME NEW h \in Hosts, NEW p \in Peers,
             ConfirmStep(h, p) \/ Lose(h, p) \/ Duplicate(h, p)
      PROVE  Exclusive'
  <2>1. DatagramFrame(h, p) /\ <<h, p>> \in Hosts \X Peers
    BY <1>2, DatagramStepFrame
  <2>2. ~ConfRunning(<<h, p>>)' \/ ConfRunning(<<h, p>>) \/ MayStart
    <3>1. CASE SecondaryConnect(h, p)
      BY <3>1, <1>d DEF SecondaryConnect, ConfRunning, Datagram
    <3>2. CASE Lose(h, p)
      BY <3>2, <1>d DEF Lose, ConfRunning, Datagram
    <3>3. CASE Duplicate(h, p)
      <4>1. PICK st \in {"forward", "confirm"} :
                dg' = [dg EXCEPT ![<<h, p>>] = [@ EXCEPT !.st = st]]
        BY <3>3 DEF Duplicate
      <4> QED BY <4>1, <1>d DEF ConfRunning, Datagram
    <3>4. CASE \/ BeginConfirm(h, p) \/ MarkContainer(h, p) \/ CheckContainer(h, p)
               \/ StaleConfirm(h, p)
      BY <3>4 DEF BeginConfirm, MarkContainer, CheckContainer, StaleConfirm, ConfRunning
    <3> QED BY <1>2, <3>1, <3>2, <3>3, <3>4 DEF ConfirmStep
  <2>3. /\ \A x \in Hosts \X Peers : x # <<h, p>> => (ConfRunning(x)' <=> ConfRunning(x))
        /\ \A g \in Hosts : ConnRunning(g)' <=> ConnRunning(g)
        /\ worker' = worker
    BY <2>1 DEF DatagramFrame, ConfRunning, ConnRunning
  <2>4. CASE ~ConfRunning(<<h, p>>)'
    BY <2>3, <2>4 DEF Exclusive
  <2>5. CASE ConfRunning(<<h, p>>)
    BY <2>1, <2>3, <2>5 DEF Exclusive
  <2>6. CASE MayStart
    BY <2>3, <2>6 DEF MayStart, Exclusive
  <2> QED BY <2>2, <2>4, <2>5, <2>6
<1>3. ASSUME WorkerStep PROVE Exclusive'
  <2>1. UNCHANGED <<conn, dg>> /\ (MayStart \/ worker.pc # "idle")
    BY <1>3 DEF WorkerStep, WorkerLoad, WorkerStore, WorkerSend
  <2>2. /\ \A g \in Hosts : ~ConnRunning(g)
        /\ \A x \in Hosts \X Peers : ~ConfRunning(x)
    BY <2>1 DEF MayStart, Exclusive
  <2> QED BY <2>1, <2>2 DEF Exclusive, ConnRunning, ConfRunning
<1>4. ASSUME UNCHANGED <<conn, dg, worker>> PROVE Exclusive'
  BY <1>4 DEF Exclusive, ConnRunning, ConfRunning
<1>5. ASSUME NEW h \in Hosts, Disconnect(h) PROVE Exclusive'
  BY <1>4, <1>5 DEF Disconnect
<1>6. CASE UNCHANGED vars
  BY <1>4, <1>6 DEF vars
<1> QED BY <1>1, <1>2, <1>3, <1>5, <1>6 DEF Next, Quiescent

\* Handlers that have all their numbers.
Numbered == {"push", "pushing", "send", "done"}

\* Numbering, for one handler.
NumberingOf(h) ==
    LET c == conn[h] IN
    /\ c.pc \in {"idle", "read", "reread"} => c.i = 0
    /\ c.pc = "reread" => c.base = lastSeqn
    /\ c.pc \in {"load", "store"} =>
        c.temp = c.base /\ lastSeqn = c.base + c.i /\ c.i < N
    /\ c.pc = "store" => c.reg = lastSeqn
    /\ c.pc \in {"push", "pushing", "send"} => c.temp = c.base
    /\ c.pc \in Numbered => c.base + N <= lastSeqn
    /\ c.pc = "pushing" => c.slot = Len(buffer) + 1

LEMMA NumberingStep ==
    ASSUME ~Overlap, TypeOK, Exclusive, Numbering, WorkerNumbering, [Next]_vars
    PROVE  Numbering' /\ WorkerNumbering' /\ lastSeqn <= lastSeqn'
<1> USE NAssumption
<1>c. conn \in [Hosts -> ConnThread] /\ lastSeqn \in Nat /\ N \in Nat \ {0}
  BY DEF TypeOK
<1>h. ASSUME NEW h \in Hosts
      PROVE  /\ conn[h] \in ConnThread /\ NumberingOf(h)
             /\ conn[h].base \in Nat /\ conn[h].temp \in Nat /\ conn[h].i \in Nat
  BY <1>c DEF Numbering, NumberingOf, Numbered, ConnThread
<1>q. (\A h \in Hosts : NumberingOf(h)') => Numbering'
  BY DEF Numbering, NumberingOf, Numbered
<1>1. ASSUME NEW h \in Hosts, ConnectStep(h)
      PROVE  Numbering' /\ WorkerNumbering' /\ lastSeqn <= lastSeqn'
  <2>1. ConnectFrame(h) /\ Alone(h)
    BY <1>1, ConnectStepFrame, ConnectAlone
  <2>2. NumberingOf(h)' /\ lastSeqn <= lastSeqn'
    <3>h. /\ conn[h] \in ConnThread /\ NumberingOf(h)
          /\ conn[h].base \in Nat /\ conn[h].temp \in Nat /\ conn[h].i \in Nat
      BY <1>h
    <3>1. CASE ConnectStartSession(h)
      BY <3>1, <3>h, <1>c DEF ConnectStartSession, NumberingOf, Numbered, ConnThread
    <3>2. CASE ReadSeqn(h)
      BY <3>2, <3>h, <1>c DEF ReadSeqn, NumberingOf, Numbered, ConnThread
    <3>3. CASE RereadSeqn(h)
      BY <3>3, <3>h, <1>c DEF RereadSeqn, NumberingOf, Numbered, ConnThread
    <3>4. CASE LoadSeqn(h)
      BY <3>4, <3>h, <1>c DEF LoadSeqn, NumberingOf, Numbered, ConnThread
    <3>5. CASE StoreSeqn(h)
      BY <3>5, <3>h, <1>c DEF StoreSeqn, NumberingOf, Numbered, ConnThread
    <3>6. CASE BeginPush(h)
      BY <3>6, <3>h, <1>c DEF BeginPush, NumberingOf, Numbered, ConnThread
    <3>7. CASE EndPush(h)
      BY <3>7, <3>h, <1>c DEF EndPush, NumberingOf, Numbered, ConnThread
    <3>8. CASE SendToPeers(h)
      <4>1. /\ conn[h].pc = "send" /\ UNCHANGED <<lastSeqn, buffer>>
            /\ conn'[h].pc = "done" /\ conn'[h].base = conn[h].base
        BY <3>8, <2>1 DEF SendToPeers, ConnectFrame
      <4> QED BY <4>1, <3>h, <1>c DEF NumberingOf, Numbered
    <3> QED BY <1>1, <3>1, <3>2, <3>3, <3>4, <3>5, <3>6, <3>7, <3>8 DEF ConnectStep
  <2>3. lastSeqn' \in Nat
    BY NextType DEF TypeOK
  <2>4. ASSUME NEW g \in Hosts \ {h} PROVE NumberingOf(g)'
    <3>1. conn'[g] = conn[g] /\ conn[g].pc \in {"idle", "done"}
      BY <2>1 DEF ConnectFrame, Alone, ConnRunning
    <3>2. NumberingOf(g) /\ conn[g].base \in Nat
      BY <1>h
    <3> QED BY <1>c, <2>2, <2>3, <3>1, <3>2 DEF NumberingOf, Numbered
  <2>5. WorkerNumbering'
    BY <2>1 DEF ConnectFrame, Alone, WorkerNumbering
  <2> QED BY <1>q, <2>2, <2>4, <2>5
<1>2. ASSUME NEW h \in Hosts, NEW p \in Peers,
             ConfirmStep(h, p) \/ Lose(h, p) \/ Duplicate(h, p)
      PROVE  Numbering' /\ WorkerNumbering' /\ lastSeqn <= lastSeqn'
  <2>1. UNCHANGED <<conn, lastSeqn, worker>> /\ Len(buffer') = Len(buffer)
    BY <1>2, DatagramStepFrame DEF DatagramFrame
  <2> QED BY <2>1, <1>c DEF Numbering, WorkerNumbering
<1>3. ASSUME WorkerStep PROVE Numbering' /\ WorkerNumbering' /\ lastSeqn <= lastSeqn'
  <2>1. UNCHANGED <<conn, buffer>> /\ (MayStart \/ worker.pc # "idle")
    BY <1>3 DEF WorkerStep, WorkerLoad, WorkerStore, WorkerSend
  <2>2. \A g \in Hosts : conn[g].pc \in {"idle", "done"}
    BY <2>1 DEF MayStart, Exclusive, ConnRunning
  <2>3. lastSeqn <= lastSeqn' /\ lastSeqn' \in Nat /\ WorkerNumbering'
    <3>1. CASE WorkerLoad
      BY <3>1, <1>c DEF WorkerLoad, WorkerNumbering
    <3>2. CASE WorkerStore
      BY <3>2, <1>c DEF WorkerStore, WorkerNumbering
    <3>3. CASE WorkerSend
      <4>1. worker'.pc = "idle" /\ lastSeqn' = lastSeqn
        BY <3>3 DEF WorkerSend, TypeOK
      <4> QED BY <4>1, <1>c DEF WorkerNumbering
    <3> QED BY <1>3, <3>1, <3>2, <3>3 DEF WorkerStep
  <2>4. ASSUME NEW g \in Hosts PROVE NumberingOf(g)'
    BY <1>c, <1>h, <2>1, <2>2, <2>3 DEF NumberingOf, Numbered
  <2> QED BY <1>q, <2>3, <2>4
<1>4. ASSUME UNCHANGED <<conn, lastSeqn, worker, buffer>>
      PROVE  Numbering' /\ WorkerNumbering' /\ lastSeqn <= lastSeqn'
  BY <1>4, <1>c DEF Numbering, WorkerNumbering
<1>5. ASSUME NEW h \in Hosts, Disconnect(h)
      PROVE  Numbering' /\ WorkerNumbering' /\ lastSeqn <= lastSeqn'
  BY <1>4, <1>5 DEF Disconnect
<1>6. ASSUME UNCHANGED vars
      PROVE  Numbering' /\ WorkerNumbering' /\ lastSeqn <= lastSeqn'
  BY <1>4, <1>6 DEF vars
<1> QED BY <1>1, <1>2, <1>3, <1>5, <1>6 DEF Next, Quiescent

LEMMA BlocksStep ==
    ASSUME ~Overlap, TypeOK, Exclusive, Numbering, BlocksDisjoint, [Next]_vars
    PROVE  BlocksDisjoint'
<1>c. conn \in [Hosts -> ConnThread] /\ lastSeqn \in Nat /\ N \in Nat \ {0}
  BY NAssumption DEF TypeOK
<1>1. ASSUME NEW h \in Hosts, ConnectStep(h) PROVE BlocksDisjoint'
  <2>1. ConnectFrame(h) /\ Alone(h)
    BY <1>1, ConnectStepFrame, ConnectAlone
  <2>2. \A g \in Hosts \ {h} : conn'[g] = conn[g] /\ conn[g].pc \in {"idle", "done"}
    BY <2>1 DEF ConnectFrame, Alone, ConnRunning
  <2>3. \A g \in Hosts : conn[g].base \in Nat /\ (conn[g].pc = "done" =>
            conn[g].base + N <= lastSeqn)
    BY <1>c DEF Numbering, ConnThread
  <2>4. CASE ReadSeqn(h)
    <3>1. conn'[h].pc = "reread" /\ conn'[h].base = lastSeqn
      BY <2>4, <1>c DEF ReadSeqn, ConnThread
    <3> QED BY <2>2, <2>3, <3>1 DEF BlocksDisjoint
  <2>5. CASE ConnectStartSession(h)
    <3>1. conn'[h].pc = "read"
      BY <2>5, <1>c DEF ConnectStartSession, ConnThread
    <3> QED BY <2>2, <3>1 DEF BlocksDisjoint
  <2>6. CASE \/ RereadSeqn(h) \/ LoadSeqn(h) \/ StoreSeqn(h) \/ BeginPush(h)
             \/ EndPush(h) \/ SendToPeers(h)
    <3>1. /\ conn[h].pc \notin {"idle", "read"} /\ conn'[h].pc \notin {"idle", "read"}
          /\ conn'[h].base = conn[h].base
          /\ conn[h].pc \in Numbered => conn'[h].pc \in Numbered
      <4>1. CASE RereadSeqn(h)
        BY <4>1, <1>c DEF RereadSeqn, ConnThread, Numbered
      <4>2. CASE LoadSeqn(h)
        BY <4>2, <1>c DEF LoadSeqn, ConnThread, Numbered
      <4>3. CASE StoreSeqn(h)
        BY <4>3, <1>c DEF StoreSeqn, ConnThread, Numbered
      <4>4. CASE BeginPush(h)
        BY <4>4, <1>c DEF BeginPush, ConnThread, Numbered
      <4>5. CASE EndPush(h)
        BY <4>5, <1>c DEF EndPush, ConnThread, Numbered
      <4>6. CASE SendToPeers(h)
        BY <4>6, <2>1 DEF SendToPeers, ConnectFrame, Numbered
      <4> QED BY <2>6, <4>1, <4>2, <4>3, <4>4, <4>5, <4>6
    <3> QED BY <2>2, <2>3, <3>1, <1>c DEF BlocksDisjoint, Numbered
  <2> QED BY <1>1, <2>4, <2>5, <2>6 DEF ConnectStep
<1>2. ASSUME NEW h \in Hosts, NEW p \in Peers,
             ConfirmStep(h, p) \/ Lose(h, p) \/ Duplicate(h, p)
      PROVE  BlocksDisjoint'
  BY <1>2, DatagramStepFrame DEF DatagramFrame, BlocksDisjoint
<1>3. ASSUME RestFrame PROVE BlocksDisjoint'
  BY <1>3 DEF RestFrame, BlocksDisjoint
<1> QED BY <1>1, <1>2, <1>3, StepKinds

LEMMA OriginsStep ==
    ASSUME TypeOK, Numbering, BufferNumbered, OriginsDiffer, [Next]_vars
    PROVE  OriginsDiffer'
<1>b. /\ buffer \in Seq(Container) /\ Len(buffer) \in Nat
      /\ DOMAIN buffer = 1 .. Len(buffer)
  BY LenProperties DEF TypeOK
<1>1. CASE \E h \in Hosts : EndPush(h)
  <2> PICK h \in Hosts : EndPush(h)
    BY <1>1
  <2> DEFINE c == NewContainer(conn[h].base, h)
  <2>1. c.origin = h
    BY DEF NewContainer
  <2> HIDE DEF c
  <2>2. buffer' = Append(buffer, c)
    BY DEF EndPush, Numbering, c
  <2>3. /\ DOMAIN buffer' = 1 .. Len(buffer) + 1
        /\ \A k \in DOMAIN buffer : buffer'[k] = buffer[k]
        /\ buffer'[Len(buffer) + 1] = c
    BY <1>b, <2>2
  <2>4. \A k \in DOMAIN buffer : buffer[k].origin # h
    BY DEF EndPush, BufferNumbered
  <2> QED BY <1>b, <2>1, <2>3, <2>4 DEF OriginsDiffer
<1>2. ASSUME NEW h \in Hosts, NEW p \in Peers, MarkContainer(h, p)
      PROVE  OriginsDiffer'
  BY <1>2, DatagramStepFrame DEF DatagramFrame, OriginsDiffer, ConfirmStep
<1>3. CASE buffer' = buffer
  BY <1>3 DEF OriginsDiffer
<1> QED BY <1>1, <1>2, <1>3, BufferSteps

LEMMA DatagramsStep ==
    ASSUME TypeOK, Numbering, DatagramsNumbered, [Next]_vars
    PROVE  DatagramsNumbered'
<1>1. ASSUME NEW h \in Hosts, ConnectStep(h) PROVE DatagramsNumbered'
  <2>1. ConnectFrame(h)
    BY <1>1, ConnectStepFrame
  <2>2. \A g \in Hosts \ {h}, q \in Peers : dg'[<<g, q>>] = dg[<<g, q>>]
    BY <2>1 DEF ConnectFrame
  <2>3. CASE conn[h].pc # "send"
    BY <2>1, <2>2, <2>3 DEF ConnectFrame, DatagramsNumbered
  <2>4. CASE SendToPeers(h)
    <3>1. \A q \in Peers : dg'[<<h, q>>].seqn = conn'[h].base + q
      <4>1. conn[h].pc = "send"
        BY <2>4 DEF SendToPeers
      <4>2. conn'[h].base = conn[h].base
        BY <2>1, <4>1 DEF ConnectFrame
      <4>3. conn[h].temp = conn[h].base
        BY <4>1 DEF Numbering
      <4> QED BY <2>4, <4>2, <4>3, SendEffect
    <3> QED BY <2>1, <2>2, <3>1 DEF ConnectFrame, DatagramsNumbered
  <2>5. conn[h].pc = "send" => SendToPeers(h)
    BY <1>1 DEF ConnectStep, ConnectStartSession, ReadSeqn, RereadSeqn, LoadSeqn,
       StoreSeqn, BeginPush, EndPush
  <2> QED BY <2>3, <2>4, <2>5
<1>2. ASSUME NEW h \in Hosts, NEW p \in Peers,
             ConfirmStep(h, p) \/ Lose(h, p) \/ Duplicate(h, p)
      PROVE  DatagramsNumbered'
  BY <1>2, DatagramStepFrame DEF DatagramFrame, DatagramsNumbered
<1>3. ASSUME RestFrame PROVE DatagramsNumbered'
  BY <1>3 DEF RestFrame, DatagramsNumbered
<1> QED BY <1>1, <1>2, <1>3, StepKinds

\* The record of what the secondaries executed only grows.
LEMMA AppliedGrows ==
    ASSUME TypeOK, [Next]_vars, NEW p \in Peers
    PROVE  applied[p] \subseteq applied'[p]
<1>1. ASSUME NEW h \in Hosts, ConnectStep(h) PROVE applied' = applied
  BY <1>1, ConnectStepFrame DEF ConnectFrame
<1>2. ASSUME NEW h \in Hosts, NEW q \in Peers,
             ConfirmStep(h, q) \/ Lose(h, q) \/ Duplicate(h, q)
      PROVE  applied[p] \subseteq applied'[p]
  BY <1>2, DatagramStepFrame DEF DatagramFrame
<1>3. RestFrame => applied' = applied
  BY DEF RestFrame
<1> QED BY <1>1, <1>2, <1>3, StepKinds

\* A number of one block identifies the client and the secondary.
LEMMA SlotOfPacket ==
    ASSUME NPeers <= N, TypeOK, BufferNumbered, ConfirmedApplied, BlocksDisjoint,
           DatagramsNumbered, NEW h \in Hosts, NEW p \in Peers, conn[h].pc = "done",
           NEW k \in DOMAIN buffer, NEW i \in Slots,
           buffer[k].seqn[i] = dg[<<h, p>>].seqn
    PROVE  buffer[k].origin = h /\ i = p
<1> DEFINE o == buffer[k].origin
<1>1. o \in Hosts
  <2>1. buffer[k] \in Container
    BY ElementOfSeq, LenProperties DEF TypeOK
  <2> QED BY <2>1 DEF Container
<1>2. /\ conn[o].base \in Nat /\ conn[h].base \in Nat
      /\ i \in Nat /\ i < N /\ p \in Nat /\ p < N /\ N \in Nat
  <2>1. conn[o] \in ConnThread /\ conn[h] \in ConnThread
    BY <1>1 DEF TypeOK
  <2>2. conn[o].base \in Nat /\ conn[h].base \in Nat
    BY <2>1 DEF ConnThread
  <2> HIDE DEF o
  <2> QED BY <2>2, NAssumption, ReplicationAssumption DEF Slots, Peers
<1>3. conn[o].base + i = conn[h].base + p
  BY <1>1 DEF BufferNumbered, DatagramsNumbered
<1>4. conn[o].pc \in {"send", "done"}
  BY DEF BufferNumbered
<1>5. CASE o = h
  BY <1>2, <1>3, <1>5
<1>6. CASE o # h
  <2>1. conn[o].base + N <= conn[h].base \/ conn[h].base + N <= conn[o].base
    BY <1>1, <1>4, <1>6 DEF BlocksDisjoint
  <2> QED BY <1>2, <1>3, <2>1
<1> QED BY <1>5, <1>6

LEMMA SlotsAppliedStep ==
    ASSUME NPeers <= N, TypeOK, BufferNumbered, ConfirmedApplied, BlocksDisjoint,
           DatagramsNumbered, SlotsApplied, [Next]_vars
    PROVE  SlotsApplied'
<1>b. /\ buffer \in Seq(Container) /\ Len(buffer) \in Nat
      /\ DOMAIN buffer = 1 .. Len(buffer)
      /\ \A k \in DOMAIN buffer : buffer[k] \in Container
  BY LenProperties, ElementOfSeq DEF TypeOK
<1> SUFFICES \A k \in DOMAIN buffer' : \A i \in Slots :
                buffer'[k].confirmed[i] => i \in Peers /\ buffer'[k].origin \in applied[i]
  BY AppliedGrows DEF SlotsApplied
<1>1. CASE \E h \in Hosts : EndPush(h)
  <2> PICK h \in Hosts : EndPush(h)
    BY <1>1
  <2> DEFINE c == NewContainer(conn[h].base, h)
  <2>1. \A i \in Slots : ~c.confirmed[i]
    BY DEF NewContainer
  <2> HIDE DEF c
  <2>2. \A k \in DOMAIN buffer' :
            \/ k \in DOMAIN buffer /\ buffer'[k] = buffer[k]
            \/ buffer'[k] = c
    BY <1>b, AppendProperties DEF EndPush, c
  <2> QED BY <2>1, <2>2 DEF SlotsApplied
<1>2. CASE \E h \in Hosts, p \in Peers : MarkContainer(h, p)
  <2> PICK h \in Hosts, p \in Peers : MarkContainer(h, p)
    BY <1>2
  <2> DEFINE q == dg[<<h, p>>].seqn
  <2>1. conn[h].pc = "done" /\ h \in applied[p]
    BY DEF MarkContainer, ConfirmedApplied
  <2>2. \A k \in DOMAIN buffer : \A i \in Slots :
            buffer[k].seqn[i] = q => buffer[k].origin = h /\ i = p
    BY <2>1, SlotOfPacket
  <2> HIDE DEF q
  <2>3. /\ DOMAIN buffer' = DOMAIN buffer
        /\ \A k \in DOMAIN buffer :
            buffer'[k] = buffer[k] \/ buffer'[k] = ConfirmSlots(buffer[k], q)
    BY <1>b DEF MarkContainer, q
  <2>4. \A k \in DOMAIN buffer : \A i \in Slots :
            LET c == ConfirmSlots(buffer[k], q) IN
            /\ c.origin = buffer[k].origin
            /\ c.confirmed[i] => buffer[k].confirmed[i] \/ buffer[k].seqn[i] = q
    BY <1>b DEF ConfirmSlots, Container
  <2> QED BY <2>1, <2>2, <2>3, <2>4 DEF SlotsApplied
<1>3. CASE buffer' = buffer
  BY <1>3 DEF SlotsApplied
<1> QED BY <1>1, <1>2, <1>3, BufferSteps

LEMMA ReplicatedStep ==
    ASSUME NPeers <= N, TypeOK, IteratorsInside, SlotsApplied,
           ReplicatedBeforeAccept, NoAcceptWhenShort, [Next]_vars
    PROVE  ReplicatedBeforeAccept' /\ NoAcceptWhenShort'
<1>b. /\ buffer \in Seq(Container) /\ Len(buffer) \in Nat
      /\ DOMAIN buffer = 1 .. Len(buffer)
  BY LenProperties DEF TypeOK
<1>a. accepts \in [Hosts -> Nat]
  BY DEF TypeOK
<1>n. N \in Nat \ {0} /\ NPeers \in Nat
  BY NAssumption, ReplicationAssumption
<1>1. ASSUME NEW o \in Hosts, accepts'[o] > 0
      PROVE  ~(NPeers < N) /\ \A p \in Peers : o \in applied[p]
  <2>1. CASE accepts[o] > 0
    BY <2>1, <1>a DEF ReplicatedBeforeAccept, NoAcceptWhenShort
  <2>2. CASE ~(accepts[o] > 0)
    <3>1. PICK h \in Hosts, p \in Peers : CheckContainer(h, p)
      BY <1>1, <2>2, AcceptSteps
    <3> DEFINE k == dg[<<h, p>>].i
    <3>2. k \in DOMAIN buffer
      <4>1. ConfRunning(<<h, p>>) /\ <<h, p>> \in Hosts \X Peers
        BY <3>1 DEF CheckContainer, ConfRunning
      <4>2. dg[<<h, p>>].end \in Nat /\ k \in Nat
        BY <4>1 DEF TypeOK, Datagram
      <4> QED BY <1>b, <4>1, <4>2 DEF IteratorsInside
    <3>3. ContainerConfirmed(buffer[k]) /\ buffer[k].origin = o
      BY <3>1, <1>1, <2>2, <1>a DEF CheckContainer
    <3> HIDE DEF k
    <3>4. \A i \in Slots : i \in Peers /\ o \in applied[i]
      BY <3>2, <3>3 DEF ContainerConfirmed, SlotsApplied
    <3>5. N - 1 \in Peers
      BY <3>4, <1>n DEF Slots
    <3>6. ~(NPeers < N)
      BY <3>5, <1>n DEF Peers
    <3>7. \A p1 \in Peers : p1 \in Slots
      BY <1>n DEF Peers, Slots
    <3> QED BY <3>4, <3>6, <3>7
  <2> QED BY <2>1, <2>2
<1>2. ReplicatedBeforeAccept'
  BY <1>1, AppliedGrows DEF ReplicatedBeforeAccept
<1>3. NoAcceptWhenShort'
  <2>1. accepts' \in [Hosts -> Nat]
    BY NextType DEF TypeOK
  <2> QED BY <1>1, <2>1 DEF NoAcceptWhenShort
<1> QED BY <1>2, <1>3

LEMMA InitSerial == Init => SerialInv
<1> SUFFICES ASSUME Init PROVE SerialInv
  OBVIOUS
<1>1. TypeOK
  BY InitType
<1>2. /\ buffer = <<>> /\ DOMAIN buffer = {}
      /\ \A h \in Hosts : conn[h].pc = "idle" /\ conn[h].i = 0 /\ accepts[h] = 0
      /\ \A x \in Hosts \X Peers : dg[x].st = "none"
      /\ worker.pc = "idle"
  BY DEF Init
<1> QED BY <1>1, <1>2
    DEF SerialInv, IteratorsInside, BufferNumbered, ConfirmedApplied, Exclusive,
        Numbering, WorkerNumbering, BlocksDisjoint, OriginsDiffer, DatagramsNumbered,
        SlotsApplied, ReplicatedBeforeAccept, NoAcceptWhenShort, ConnRunning, ConfRunning

LEMMA NextSerial ==
    ASSUME ~Overlap, NPeers <= N
    PROVE  SerialInv /\ [Next]_vars => SerialInv'
BY NextType, IteratorsStep, BufferStep, ConfirmedStep, ExclusiveStep, NumberingStep,
   BlocksStep, OriginsStep, DatagramsStep, SlotsAppliedStep, ReplicatedStep
DEF SerialInv

\* The inductive invariant holds for every number of hosts, users and slots.
THEOREM SerialCorrect ==
    ASSUME ~Overlap, NPeers <= N
    PROVE  Spec => []SerialInv
BY InitSerial, NextSerial, PTL DEF Spec

\* With handlers that do not overlap and at most N secondaries, a client is
\* accepted only after every secondary has executed its CONNECT.
THEOREM AcceptedAfterReplicated ==
    ASSUME ~Overlap, NPeers <= N
    PROVE  Spec => []ReplicatedBeforeAccept
<1>1. SerialInv => ReplicatedBeforeAccept
  BY DEF SerialInv
<1> QED BY SerialCorrect, <1>1, PTL

\* With handlers that do not overlap and fewer than N secondaries, no client is
\* ever accepted.
THEOREM NoneAcceptedWhenShort ==
    ASSUME ~Overlap
    PROVE  Spec => []NoAcceptWhenShort
<1>1. CASE NPeers <= N
  <2>1. SerialInv => NoAcceptWhenShort
    BY DEF SerialInv
  <2> QED BY <1>1, SerialCorrect, <2>1, PTL
<1>2. CASE ~(NPeers <= N)
  <2>1. NoAcceptWhenShort
    BY <1>2, NAssumption, ReplicationAssumption DEF NoAcceptWhenShort
  <2> QED BY <2>1, PTL
<1> QED BY <1>1, <1>2

\* The part of SerialInv that the numbers rest on, for any number of secondaries.
NumberInv ==
    /\ TypeOK
    /\ BufferNumbered
    /\ Exclusive
    /\ Numbering
    /\ WorkerNumbering
    /\ BlocksDisjoint
    /\ OriginsDiffer

LEMMA NumberStep ==
    ASSUME ~Overlap
    PROVE  NumberInv /\ [Next]_vars => NumberInv'
BY NextType, BufferStep, ExclusiveStep, NumberingStep, BlocksStep, OriginsStep
DEF NumberInv

\* With handlers that do not overlap, a sequence number occurs in one slot of
\* the buffer.
THEOREM SeqnsAreUnique ==
    ASSUME ~Overlap
    PROVE  Spec => []SeqnUnique
<1>1. NumberInv => SeqnUnique
  <2> SUFFICES ASSUME NumberInv, NEW a \in DOMAIN buffer, NEW b \in DOMAIN buffer,
                      NEW i \in Slots, NEW j \in Slots,
                      buffer[a].seqn[i] = buffer[b].seqn[j]
               PROVE  a = b /\ i = j
    BY DEF SeqnUnique
  <2> DEFINE g == buffer[a].origin
             h == buffer[b].origin
  <2>1. g \in Hosts /\ h \in Hosts
    <3>1. buffer[a] \in Container /\ buffer[b] \in Container
      BY ElementOfSeq, LenProperties DEF NumberInv, TypeOK
    <3> QED BY <3>1 DEF Container
  <2>2. /\ conn[g].base \in Nat /\ conn[h].base \in Nat
        /\ i \in Nat /\ i < N /\ j \in Nat /\ j < N /\ N \in Nat
    <3>1. conn[g] \in ConnThread /\ conn[h] \in ConnThread
      BY <2>1 DEF NumberInv, TypeOK
    <3>2. conn[g].base \in Nat /\ conn[h].base \in Nat
      BY <3>1 DEF ConnThread
    <3> HIDE DEF g, h
    <3> QED BY <3>2, NAssumption DEF Slots
  <2>3. /\ conn[g].base + i = conn[h].base + j
        /\ conn[g].pc \in {"send", "done"} /\ conn[h].pc \in {"send", "done"}
    BY DEF NumberInv, BufferNumbered
  <2>4. g = h
    <3> SUFFICES ASSUME g # h PROVE FALSE
      OBVIOUS
    <3>1. conn[g].base + N <= conn[h].base \/ conn[h].base + N <= conn[g].base
      BY <2>1, <2>3 DEF NumberInv, BlocksDisjoint
    <3> QED BY <2>2, <2>3, <3>1
  <2>5. a = b
    BY <2>4 DEF NumberInv, OriginsDiffer
  <2> QED BY <2>2, <2>3, <2>4, <2>5
<1>2. Init => NumberInv
  BY InitSerial DEF SerialInv, NumberInv
<1> QED BY NumberStep, <1>1, <1>2, PTL DEF Spec

LEMMA NumbersCorrect ==
    ASSUME ~Overlap
    PROVE  Spec => []NumberInv
<1>1. Init => NumberInv
  BY InitSerial DEF SerialInv, NumberInv
<1> QED BY NumberStep, <1>1, PTL DEF Spec

-----------------------------------------------------------------------------
(* The numbers of notifications.                                           *)

\* Only the worker sends notifications.
LEMMA NotifySteps ==
    ASSUME TypeOK, [Next]_vars
    PROVE  UNCHANGED <<worker, notified>> \/ WorkerStep
<1>1. ASSUME NEW h \in Hosts, ConnectStep(h) PROVE UNCHANGED <<worker, notified>>
  BY <1>1, ConnectStepFrame DEF ConnectFrame
<1>2. ASSUME NEW h \in Hosts, NEW p \in Peers,
             ConfirmStep(h, p) \/ Lose(h, p) \/ Duplicate(h, p)
      PROVE  UNCHANGED <<worker, notified>>
  BY <1>2, DatagramStepFrame DEF DatagramFrame
<1>3. ASSUME NEW h \in Hosts, Disconnect(h) PROVE UNCHANGED <<worker, notified>>
  BY <1>3 DEF Disconnect
<1> QED BY <1>1, <1>2, <1>3 DEF Next, Quiescent, vars

LEMMA NotificationsStep ==
    ASSUME ~Overlap, NumberInv, NotificationsBelow, NotificationsOrdered, [Next]_vars
    PROVE  NotificationsBelow' /\ NotificationsOrdered'
<1>0. /\ TypeOK /\ WorkerNumbering /\ lastSeqn \in Nat /\ lastSeqn' \in Nat
      /\ notified \in Seq(Nat)
  BY NextType DEF NumberInv, TypeOK
<1>1. lastSeqn <= lastSeqn'
  BY NumberingStep DEF NumberInv
<1>2. DOMAIN notified = 1 .. Len(notified) /\ Len(notified) \in Nat
      /\ \A i \in DOMAIN notified : notified[i] \in Nat
  BY <1>0, LenProperties, ElementOfSeq
<1>3. CASE UNCHANGED <<worker, notified>>
  BY <1>0, <1>1, <1>2, <1>3 DEF NotificationsBelow, NotificationsOrdered
<1>4. CASE WorkerLoad
  BY <1>0, <1>2, <1>4 DEF WorkerLoad, NotificationsBelow, NotificationsOrdered
<1>5. CASE WorkerStore
  <2>1. lastSeqn' = lastSeqn + 1 /\ worker.pc = "store" /\ UNCHANGED notified
    BY <1>0, <1>5 DEF WorkerStore, WorkerNumbering
  <2> QED BY <1>0, <1>2, <2>1 DEF NotificationsBelow, NotificationsOrdered
<1>6. CASE WorkerSend
  <2>1. /\ notified' = Append(notified, lastSeqn + 1) /\ UNCHANGED lastSeqn
        /\ worker.pc = "send" /\ worker'.pc = "idle"
    BY <1>0, <1>6 DEF WorkerSend, TypeOK
  <2>2. /\ DOMAIN notified' = 1 .. Len(notified) + 1
        /\ \A i \in DOMAIN notified : notified'[i] = notified[i]
        /\ notified'[Len(notified) + 1] = lastSeqn + 1
    BY <1>0, <1>2, <2>1, AppendProperties
  <2>3. \A i \in DOMAIN notified : notified[i] <= lastSeqn
    BY <2>1 DEF NotificationsBelow
  <2>4. NotificationsBelow'
    BY <1>0, <1>2, <2>1, <2>2, <2>3 DEF NotificationsBelow
  <2>5. NotificationsOrdered'
    BY <1>0, <1>2, <2>1, <2>2, <2>3 DEF NotificationsOrdered
  <2> QED BY <2>4, <2>5
<1> QED BY <1>0, <1>3, <1>4, <1>5, <1>6, NotifySteps DEF WorkerStep

\* With handlers that do not overlap, the numbers on notifications increase,
\* also where CONNECTs count in between.
THEOREM NotificationsAreOrdered ==
    ASSUME ~Overlap
    PROVE  Spec => []NotificationsOrdered
<1>1. Init => NotificationsBelow /\ NotificationsOrdered
  BY DEF Init, NotificationsBelow, NotificationsOrdered
<1>2. NumberInv /\ NotificationsBelow /\ NotificationsOrdered /\ [Next]_vars
        => NotificationsBelow' /\ NotificationsOrdered'
  BY NotificationsStep
<1> QED BY <1>1, <1>2, NumbersCorrect, PTL DEF Spec

-----------------------------------------------------------------------------
(* The session maps.                                                       *)

\* One more CONNECT of user u.
LEMMA OneMore ==
    ASSUME NEW C \in SUBSET Hosts, NEW h \in Hosts, h \notin C, NEW u \in Users,
           NEW ss, NEW S, ss \in [Users -> Seq(S)], NEW x \in S,
           \A v \in Users : Len(ss[v]) = SocketsFor(C, v)
    PROVE  Len(StartSession(ss, UserOf[h], x)[u]) = SocketsFor(C \cup {h}, u)
<1> DEFINE D == {g \in C : UserOf[g] = u}
           E == {g \in C \cup {h} : UserOf[g] = u}
<1>1. IsFiniteSet(D) /\ Cardinality(D) \in Nat
  <2>1. D \in SUBSET Hosts /\ IsFiniteSet(Hosts)
    BY ReplicationAssumption
  <2>2. IsFiniteSet(D)
    BY <2>1, FS_Subset
  <2> QED BY <2>2, FS_CardinalityType
<1>2. UserOf[h] \in Users
  BY ReplicationAssumption
<1>3. CASE UserOf[h] # u
  <2>1. E = D
    BY <1>3
  <2>2. StartSession(ss, UserOf[h], x)[u] = ss[u]
    BY <1>2, <1>3 DEF StartSession
  <2> QED BY <2>1, <2>2 DEF SocketsFor
<1>4. CASE UserOf[h] = u
  <2>1. E = D \cup {h} /\ h \notin D
    BY <1>4
  <2>2. Cardinality(E) = Cardinality(D) + 1
    BY <1>1, <2>1, FS_AddElement
  <2>3. Len(ss[u]) = IF Cardinality(D) < 2 THEN Cardinality(D) ELSE 2
    BY DEF SocketsFor, MAX_SESSIONS_PER_USER
  <2>4. SocketsFor(C \cup {h}, u) = IF Cardinality(D) + 1 < 2 THEN Cardinality(D) + 1 ELSE 2
    BY <2>2 DEF SocketsFor, MAX_SESSIONS_PER_USER
  <2> HIDE DEF D, E
  <2>5. CASE Cardinality(D) < 2
    <3>1. StartSession(ss, UserOf[h], x)[u] = Append(ss[u], x)
      BY <1>4, <2>3, <2>5 DEF StartSession, SessionAvailable, MAX_SESSIONS_PER_USER
    <3>2. Len(Append(ss[u], x)) = Len(ss[u]) + 1
      BY AppendProperties
    <3> QED BY <1>1, <2>3, <2>4, <2>5, <3>1, <3>2
  <2>6. CASE ~(Cardinality(D) < 2)
    <3>1. StartSession(ss, UserOf[h], x)[u] = ss[u]
      BY <1>4, <2>3, <2>6 DEF StartSession, SessionAvailable, MAX_SESSIONS_PER_USER
    <3>2. Len(StartSession(ss, UserOf[h], x)[u]) = 2
      BY <2>3, <2>6, <3>1
    <3>3. SocketsFor(C \cup {h}, u) = 2
      BY <1>1, <2>4, <2>6
    <3> QED BY <3>2, <3>3
  <2> QED BY <2>5, <2>6
<1> QED BY <1>3, <1>4

\* The sockets of the primary.
LEMMA PrimaryCounted ==
    ASSUME TypeOK, [Next]_vars, disc' = {},
           disc = {} => \A u \in Users : Len(sessions[u]) = SocketsFor(Executed, u)
    PROVE  \A u \in Users : Len(sessions'[u]) = SocketsFor(Executed', u)
<1>0. /\ conn \in [Hosts -> ConnThread] /\ sessions \in [Users -> Seq(Hosts)]
  BY DEF TypeOK
<1>1. CASE sessions' = sessions /\ disc' = disc /\ Executed' = Executed
  BY <1>1 DEF SocketsFor
<1>2. ASSUME NEW h \in Hosts, ConnectStartSession(h)
      PROVE  \A u \in Users : Len(sessions'[u]) = SocketsFor(Executed', u)
  <2>1. /\ sessions' = StartSession(sessions, UserOf[h], h) /\ disc' = disc
        /\ conn[h].pc = "idle"
    BY <1>2 DEF ConnectStartSession
  <2>2. \A g \in Hosts : conn'[g].pc = IF g = h THEN "read" ELSE conn[g].pc
    BY <1>0, <1>2 DEF ConnectStartSession, ConnThread
  <2>3. h \notin Executed /\ Executed' = Executed \cup {h}
    BY <2>1, <2>2 DEF Executed
  <2>4. Executed \in SUBSET Hosts
    BY DEF Executed
  <2>5. \A u \in Users : Len(StartSession(sessions, UserOf[h], h)[u])
                            = SocketsFor(Executed \cup {h}, u)
    BY <1>0, <2>1, <2>3, <2>4, OneMore
  <2> QED BY <2>1, <2>3, <2>5
<1>3. ASSUME NEW h \in Hosts, ConnectStep(h), ~ConnectStartSession(h)
      PROVE  sessions' = sessions /\ disc' = disc /\ Executed' = Executed
  <2>1. sessions' = sessions /\ disc' = disc
    BY <1>3 DEF ConnectStep, ReadSeqn, RereadSeqn, LoadSeqn, StoreSeqn, BeginPush,
       EndPush, SendToPeers
  <2>2. conn[h].pc # "idle" /\ \E t : t.pc # "idle" /\ conn' = [conn EXCEPT ![h] = t]
    <3>1. conn[h] \in ConnThread
      BY <1>0
    <3>2. CASE ReadSeqn(h) \/ RereadSeqn(h) \/ LoadSeqn(h)
      BY <3>1, <3>2 DEF ReadSeqn, RereadSeqn, LoadSeqn, ConnThread
    <3>3. CASE StoreSeqn(h)
      BY <3>1, <3>3 DEF StoreSeqn, ConnThread
    <3>4. CASE BeginPush(h) \/ EndPush(h) \/ SendToPeers(h)
      BY <3>1, <3>4 DEF BeginPush, EndPush, SendToPeers, ConnThread
    <3> QED BY <1>3, <3>2, <3>3, <3>4 DEF ConnectStep
  <2>3. \A g \in Hosts : conn'[g].pc # "idle" <=> conn[g].pc # "idle"
    BY <1>0, <2>2
  <2> QED BY <2>1, <2>3 DEF Executed
<1>4. ASSUME NEW h \in Hosts, NEW p \in Peers,
             ConfirmStep(h, p) \/ Lose(h, p) \/ Duplicate(h, p)
      PROVE  sessions' = sessions /\ disc' = disc /\ Executed' = Executed
  BY <1>4, DatagramStepFrame DEF DatagramFrame, Executed
<1>5. ASSUME WorkerStep \/ Quiescent \/ UNCHANGED vars
      PROVE  sessions' = sessions /\ disc' = disc /\ Executed' = Executed
  BY <1>5 DEF WorkerStep, WorkerLoad, WorkerStore, WorkerSend, Quiescent, vars, Executed
<1>6. ASSUME NEW h \in Hosts, Disconnect(h) PROVE FALSE
  BY <1>6 DEF Disconnect
<1> QED BY <1>1, <1>2, <1>3, <1>4, <1>5, <1>6 DEF Next

\* The sockets of the secondaries.
LEMMA SecondariesCounted ==
    ASSUME "duplicate" \notin Faults, TypeOK, ConfirmedApplied, SocketsCounted, [Next]_vars
    PROVE  /\ \A h \in Hosts, p \in Peers :
                dg'[<<h, p>>].st \in {"none", "forward"} => h \notin applied'[p]
           /\ \A p \in Peers, u \in Users : Len(replica'[p][u]) = SocketsFor(applied'[p], u)
<1>0. /\ dg \in [Hosts \X Peers -> Datagram] /\ applied \in [Peers -> SUBSET Hosts]
      /\ replica \in [Peers -> [Users -> Seq({Primary})]]
  BY DEF TypeOK
<1>1. CASE UNCHANGED <<replica, applied>>
           /\ \A x \in Hosts \X Peers : dg'[x].st \in {"none", "forward"} =>
                dg[x].st \in {"none", "forward"}
  BY <1>1 DEF SocketsCounted
<1>2. ASSUME NEW h \in Hosts, ConnectStep(h)
      PROVE  UNCHANGED <<replica, applied>>
             /\ \A x \in Hosts \X Peers : dg'[x].st \in {"none", "forward"} =>
                  dg[x].st \in {"none", "forward"}
  <2>1. ConnectFrame(h)
    BY <1>2, ConnectStepFrame
  <2>2. CASE conn[h].pc # "send"
    BY <2>1, <2>2 DEF ConnectFrame
  <2>3. CASE conn[h].pc = "send"
    <3>1. \A p \in Peers : dg[<<h, p>>].st = "none"
      BY <2>3 DEF ConfirmedApplied
    <3>2. \A x \in Hosts \X Peers : x[1] = h => dg[x].st = "none"
      BY <3>1
    <3> QED BY <2>1, <3>2 DEF ConnectFrame
  <2> QED BY <2>2, <2>3
<1>3. ASSUME NEW h \in Hosts, NEW p \in Peers, SecondaryConnect(h, p)
      PROVE  /\ \A g \in Hosts, q \in Peers :
                  dg'[<<g, q>>].st \in {"none", "forward"} => g \notin applied'[q]
             /\ \A q \in Peers, u \in Users :
                  Len(replica'[q][u]) = SocketsFor(applied'[q], u)
  <2>1. /\ dg' = [dg EXCEPT ![<<h, p>>] = [@ EXCEPT !.st = "confirm"]]
        /\ replica' = [replica EXCEPT ![p] = StartSession(@, UserOf[h], Primary)]
        /\ applied' = [applied EXCEPT ![p] = @ \cup {h}]
        /\ dg[<<h, p>>].st = "forward"
    BY <1>3 DEF SecondaryConnect
  <2>2. h \notin applied[p] /\ applied[p] \in SUBSET Hosts
    BY <1>0, <2>1 DEF SocketsCounted
  <2>3. ASSUME NEW g \in Hosts, NEW q \in Peers, dg'[<<g, q>>].st \in {"none", "forward"}
        PROVE  g \notin applied'[q]
    <3>1. <<g, q>> # <<h, p>>
      BY <1>0, <2>1, <2>3 DEF Datagram
    <3>2. dg'[<<g, q>>] = dg[<<g, q>>]
      BY <1>0, <2>1, <3>1
    <3>3. g \notin applied[q]
      BY <2>3, <3>2 DEF SocketsCounted
    <3> QED BY <1>0, <2>1, <3>1, <3>3
  <2>4. ASSUME NEW q \in Peers, NEW u \in Users
        PROVE  Len(replica'[q][u]) = SocketsFor(applied'[q], u)
    <3>1. CASE q # p
      BY <1>0, <2>1, <3>1 DEF SocketsCounted
    <3>2. CASE q = p
      <4>1. /\ replica[p] \in [Users -> Seq({Primary})]
            /\ \A v \in Users : Len(replica[p][v]) = SocketsFor(applied[p], v)
        BY <1>0 DEF SocketsCounted
      <4>2. Len(StartSession(replica[p], UserOf[h], Primary)[u])
                = SocketsFor(applied[p] \cup {h}, u)
        <5>1. PICK T, C, ss : T = {Primary} /\ C = applied[p] /\ ss = replica[p]
          OBVIOUS
        <5>2. /\ Primary \in T /\ C \in SUBSET Hosts /\ h \notin C
              /\ ss \in [Users -> Seq(T)]
              /\ \A v \in Users : Len(ss[v]) = SocketsFor(C, v)
          BY <2>2, <4>1, <5>1
        <5>3. Len(StartSession(ss, UserOf[h], Primary)[u]) = SocketsFor(C \cup {h}, u)
          BY <5>2, OneMore
        <5> QED BY <5>1, <5>3
      <4> QED BY <1>0, <2>1, <3>2, <4>2
    <3> QED BY <3>1, <3>2
  <2> QED BY <2>3, <2>4
<1>4. ASSUME NEW h \in Hosts, NEW p \in Peers,
             ConfirmStep(h, p) \/ Lose(h, p) \/ Duplicate(h, p), ~SecondaryConnect(h, p)
      PROVE  UNCHANGED <<replica, applied>>
             /\ \A x \in Hosts \X Peers : dg'[x].st \in {"none", "forward"} =>
                  dg[x].st \in {"none", "forward"}
  <2>1. ~Duplicate(h, p)
    BY DEF Duplicate
  <2>2. UNCHANGED <<replica, applied>>
    BY <1>4, <2>1 DEF ConfirmStep, BeginConfirm, MarkContainer, CheckContainer,
       StaleConfirm, Lose
  <2>3. dg[<<h, p>>] \in Datagram
    BY <1>0
  <2>4. \E d : d.st \notin {"none", "forward"} /\ dg' = [dg EXCEPT ![<<h, p>>] = d]
    <3>1. CASE BeginConfirm(h, p)
      BY <2>3, <3>1 DEF BeginConfirm, Finished, Datagram
    <3>2. CASE MarkContainer(h, p) \/ Lose(h, p)
      BY <2>3, <3>2 DEF MarkContainer, Lose, Datagram
    <3>3. CASE CheckContainer(h, p)
      BY <2>3, <3>3 DEF CheckContainer, Finished, Datagram
    <3>4. CASE StaleConfirm(h, p)
      BY <2>3, <3>4 DEF StaleConfirm, Finished, Datagram
    <3> QED BY <1>4, <2>1, <3>1, <3>2, <3>3, <3>4 DEF ConfirmStep
  <2> QED BY <1>0, <2>2, <2>4
<1>5. ASSUME RestFrame
      PROVE  UNCHANGED <<replica, applied>>
             /\ \A x \in Hosts \X Peers : dg'[x].st \in {"none", "forward"} =>
                  dg[x].st \in {"none", "forward"}
  BY <1>5 DEF RestFrame
<1> QED BY <1>1, <1>2, <1>3, <1>4, <1>5, StepKinds

\* If no packet is executed twice, every secondary has as many sockets of each
\* user as the primary when all packets have been handled, for any interleaving
\* of the handlers: the limit on sessions cuts all of them off alike.
THEOREM ReplicasDoAgree ==
    ASSUME "duplicate" \notin Faults
    PROVE  Spec => []ReplicasAgree
<1>1. Init => SocketsCounted
  <2> SUFFICES ASSUME Init PROVE SocketsCounted
    OBVIOUS
  <2>1. Executed = {}
    BY DEF Init, Executed
  <2>2. \A u \in Users : SocketsFor({}, u) = 0
    <3>1. \A u \in Users : {h \in {} : UserOf[h] = u} = {}
      OBVIOUS
    <3> QED BY <3>1, FS_EmptySet DEF SocketsFor, MAX_SESSIONS_PER_USER
  <2>3. /\ \A u \in Users : Len(sessions[u]) = 0
        /\ \A p \in Peers : applied[p] = {}
        /\ \A p \in Peers, u \in Users : Len(replica[p][u]) = 0
    BY EmptySeq DEF Init
  <2> QED BY <2>1, <2>2, <2>3 DEF SocketsCounted
<1>2. BackedInv /\ SocketsCounted /\ [Next]_vars => SocketsCounted'
  <2> SUFFICES ASSUME BackedInv, SocketsCounted, [Next]_vars PROVE SocketsCounted'
    OBVIOUS
  <2>1. TypeOK /\ ConfirmedApplied
    BY DEF BackedInv
  <2>2. disc' = {} => \A u \in Users : Len(sessions'[u]) = SocketsFor(Executed', u)
    BY <2>1, PrimaryCounted DEF SocketsCounted
  <2>3. /\ \A h \in Hosts, p \in Peers :
             dg'[<<h, p>>].st \in {"none", "forward"} => h \notin applied'[p]
        /\ \A p \in Peers, u \in Users : Len(replica'[p][u]) = SocketsFor(applied'[p], u)
    BY <2>1, SecondariesCounted
  <2> QED BY <2>2, <2>3 DEF SocketsCounted
<1>3. BackedInv /\ SocketsCounted => ReplicasAgree
  <2> SUFFICES ASSUME BackedInv, SocketsCounted, disc = {},
                      \A h \in Hosts : conn[h].pc = "done",
                      \A hp \in Hosts \X Peers : dg[hp].st = "done",
                      NEW p \in Peers, NEW u \in Users
               PROVE  Len(replica[p][u]) = Len(sessions[u])
    BY DEF ReplicasAgree
  <2>1. Executed = Hosts
    BY DEF Executed
  <2>2. applied[p] = Hosts
    BY DEF BackedInv, ConfirmedApplied, TypeOK
  <2> QED BY <2>1, <2>2 DEF SocketsCounted
<1> QED BY <1>1, <1>2, <1>3, BackedCorrect, PTL DEF Spec

-----------------------------------------------------------------------------
(* How often a client is accepted.                                         *)

\* A container stays where it is, and its flags are set by confirmations.
LEMMA ContainersStay ==
    ASSUME NumberInv, [Next]_vars
    PROVE  /\ \A k \in DOMAIN buffer :
                /\ k \in DOMAIN buffer'
                /\ buffer'[k].origin = buffer[k].origin /\ buffer'[k].seqn = buffer[k].seqn
           /\ \A k \in DOMAIN buffer', i \in Slots : buffer'[k].confirmed[i] =>
                \/ k \in DOMAIN buffer /\ buffer[k].confirmed[i]
                \/ \E h \in Hosts, p \in Peers :
                    /\ MarkContainer(h, p) /\ k = dg[<<h, p>>].i /\ k \in DOMAIN buffer
                    /\ buffer[k].seqn[i] = dg[<<h, p>>].seqn
<1>0. TypeOK /\ Numbering
  BY DEF NumberInv
<1>b. /\ buffer \in Seq(Container) /\ Len(buffer) \in Nat
      /\ DOMAIN buffer = 1 .. Len(buffer)
      /\ \A k \in DOMAIN buffer : buffer[k] \in Container
  BY <1>0, LenProperties, ElementOfSeq DEF TypeOK
<1>1. CASE \E h \in Hosts : EndPush(h)
  <2> PICK h \in Hosts : EndPush(h)
    BY <1>1
  <2> DEFINE c == NewContainer(conn[h].base, h)
  <2>1. \A i \in Slots : ~c.confirmed[i]
    BY DEF NewContainer
  <2> HIDE DEF c
  <2>2. buffer' = Append(buffer, c)
    BY <1>0 DEF EndPush, Numbering, c
  <2>3. /\ DOMAIN buffer' = 1 .. Len(buffer) + 1
        /\ \A k \in DOMAIN buffer : buffer'[k] = buffer[k]
        /\ buffer'[Len(buffer) + 1] = c
    BY <1>b, <2>2
  <2> QED BY <1>b, <2>1, <2>3
<1>2. CASE \E h \in Hosts, p \in Peers : MarkContainer(h, p)
  <2> PICK h \in Hosts, p \in Peers : MarkContainer(h, p)
    BY <1>2
  <2> DEFINE q == dg[<<h, p>>].seqn
  <2>1. /\ DOMAIN buffer' = DOMAIN buffer
        /\ \A k \in DOMAIN buffer :
            \/ buffer'[k] = buffer[k]
            \/ buffer'[k] = ConfirmSlots(buffer[k], q) /\ k = dg[<<h, p>>].i
    BY <1>b DEF MarkContainer
  <2> HIDE DEF q
  <2>2. \A k \in DOMAIN buffer : \A i \in Slots :
            LET c == ConfirmSlots(buffer[k], q) IN
            /\ c.origin = buffer[k].origin /\ c.seqn = buffer[k].seqn
            /\ c.confirmed[i] => buffer[k].confirmed[i] \/ buffer[k].seqn[i] = q
    BY <1>b DEF ConfirmSlots, Container
  <2>3. \A k \in DOMAIN buffer :
            buffer'[k].origin = buffer[k].origin /\ buffer'[k].seqn = buffer[k].seqn
    BY <1>0, DatagramStepFrame DEF DatagramFrame, ConfirmStep
  <2>4. \A k \in DOMAIN buffer, i \in Slots : buffer'[k].confirmed[i] =>
            \/ buffer[k].confirmed[i]
            \/ k = dg[<<h, p>>].i /\ buffer[k].seqn[i] = q
    BY <2>1, <2>2
  <2> QED BY <2>1, <2>3, <2>4 DEF q
<1>3. CASE buffer' = buffer
  BY <1>3
<1> QED BY <1>1, <1>2, <1>3, BufferSteps

\* The handler of a confirmation goes on to the next container or returns.
LEMMA Onward ==
    ASSUME "duplicate" \notin Faults, TypeOK, ConfirmedApplied, [Next]_vars,
           NEW x \in Hosts \X Peers, dg[x].st \in {"mark", "check", "done"}
    PROVE  /\ dg'[x].seqn = dg[x].seqn
           /\ \/ dg'[x].st = "done"
              \/ /\ ConfRunning(x) /\ ConfRunning(x)'
                 /\ \/ dg'[x].i = dg[x].i /\ (dg[x].st = "check" => dg'[x].st = "check")
                    \/ dg'[x].i = dg[x].i + 1
<1>0. dg \in [Hosts \X Peers -> Datagram] /\ dg[x] \in Datagram
  BY DEF TypeOK
<1>1. CASE dg'[x] = dg[x]
  BY <1>1 DEF ConfRunning
<1>2. ASSUME NEW h \in Hosts, ConnectStep(h) PROVE dg'[x] = dg[x]
  <2>1. ConnectFrame(h)
    BY <1>2, ConnectStepFrame
  <2>2. PICK g \in Hosts, p \in Peers : x = <<g, p>>
    OBVIOUS
  <2>3. conn[g].pc = "done"
    BY <2>2 DEF ConfirmedApplied
  <2>4. x[1] # h
    BY <2>1, <2>2, <2>3 DEF ConnectFrame
  <2> QED BY <2>1, <2>4 DEF ConnectFrame
<1>3. ASSUME NEW h \in Hosts, NEW p \in Peers,
             ConfirmStep(h, p) \/ Lose(h, p) \/ Duplicate(h, p)
      PROVE  /\ dg'[x].seqn = dg[x].seqn
             /\ \/ dg'[x] = dg[x]
                \/ dg'[x].st = "done"
                \/ /\ ConfRunning(x) /\ ConfRunning(x)'
                   /\ \/ dg'[x].i = dg[x].i /\ (dg[x].st = "check" => dg'[x].st = "check")
                      \/ dg'[x].i = dg[x].i + 1
  <2>1. DatagramFrame(h, p)
    BY <1>3, DatagramStepFrame
  <2>2. CASE x # <<h, p>>
    BY <2>1, <2>2 DEF DatagramFrame
  <2>3. CASE x = <<h, p>>
    <3>1. MarkContainer(h, p) \/ CheckContainer(h, p) \/ StaleConfirm(h, p)
      BY <1>3, <2>3 DEF ConfirmStep, SecondaryConnect, BeginConfirm, Lose, Duplicate
    <3>2. CASE MarkContainer(h, p)
      BY <1>0, <2>3, <3>2 DEF MarkContainer, Datagram, ConfRunning
    <3>3. CASE CheckContainer(h, p)
      <4>1. dg[x].st = "check" /\ dg'[x] = IF dg[x].i < dg[x].end
                                 THEN [dg[x] EXCEPT !.st = "mark", !.i = dg[x].i + 1]
                                 ELSE Finished(dg[x])
        BY <1>0, <2>3, <3>3 DEF CheckContainer
      <4> QED BY <1>0, <4>1 DEF Finished, Datagram, ConfRunning
    <3>4. CASE StaleConfirm(h, p)
      BY <1>0, <2>3, <3>4 DEF StaleConfirm, Finished, Datagram
    <3> QED BY <3>1, <3>2, <3>3, <3>4
  <2> QED BY <2>2, <2>3
<1>4. RestFrame => dg'[x] = dg[x]
  BY DEF RestFrame
<1> QED BY <1>1, <1>2, <1>3, <1>4, StepKinds

\* A confirmation that has passed a container has passed it for good.
LEMMA PassedStays ==
    ASSUME "duplicate" \notin Faults, NumberInv, ConfirmedApplied, [Next]_vars,
           NEW h \in Hosts
    PROVE  Passed(h) \subseteq Passed(h)'
<1> SUFFICES ASSUME NEW x \in Passed(h) PROVE x \in Passed(h)'
  OBVIOUS
<1>0. TypeOK /\ x \in Hosts \X Peers /\ dg[x] \in Datagram /\ dg'[x] \in Datagram
  BY NextType DEF NumberInv, TypeOK, Passed
<1>1. dg[x].st \in {"mark", "check", "done"}
  BY DEF Passed, ConfRunning
<1>2. CASE dg'[x].st = "done"
  BY <1>0, <1>2 DEF Passed
<1>3. CASE ConfRunning(x) /\ ConfRunning(x)' /\ dg'[x].i \in {dg[x].i, dg[x].i + 1}
  <2>1. PICK k \in DOMAIN buffer : buffer[k].origin = h /\ k < dg[x].i
    BY <1>3 DEF Passed, ConfRunning
  <2>2. k \in DOMAIN buffer' /\ buffer'[k].origin = h
    BY <2>1, ContainersStay
  <2>3. k \in Nat /\ dg[x].i \in Nat
    BY <1>0, LenProperties DEF TypeOK, Datagram
  <2>4. k < dg'[x].i
    BY <1>3, <2>1, <2>3
  <2> QED BY <1>0, <1>3, <2>2, <2>4 DEF Passed
<1> QED BY <1>0, <1>1, <1>2, <1>3, Onward

LEMMA PacketsFinite ==
    ASSUME NEW T \in SUBSET (Hosts \X Peers)
    PROVE  IsFiniteSet(T) /\ Cardinality(T) \in Nat
<1>1. IsFiniteSet(Peers)
  BY ReplicationAssumption, FS_Interval DEF Peers
<1>2. IsFiniteSet(Hosts \X Peers)
  BY <1>1, ReplicationAssumption, FS_Product
<1>3. IsFiniteSet(T)
  BY <1>2, FS_Subset
<1> QED BY <1>3, FS_CardinalityType

LEMMA MarkedStep ==
    ASSUME "duplicate" \notin Faults, NumberInv, ConfirmedApplied, SlotsMarked,
           [Next]_vars
    PROVE  SlotsMarked'
<1>0. TypeOK /\ TypeOK'
  BY NextType DEF NumberInv
<1> SUFFICES ASSUME NEW k \in DOMAIN buffer', NEW i \in Slots, buffer'[k].confirmed[i]
             PROVE  \E x \in Hosts \X Peers :
                        /\ dg'[x].seqn = buffer'[k].seqn[i]
                        /\ \/ x \in Passed(buffer[k].origin)'
                           \/ dg'[x].st = "check" /\ dg'[x].i = k
  BY DEF SlotsMarked
<1>1. CASE k \in DOMAIN buffer /\ buffer[k].confirmed[i]
  <2>1. PICK x \in Hosts \X Peers :
            /\ dg[x].seqn = buffer[k].seqn[i]
            /\ x \in Passed(buffer[k].origin) \/ (dg[x].st = "check" /\ dg[x].i = k)
    BY <1>1 DEF SlotsMarked
  <2>2. /\ buffer'[k].seqn = buffer[k].seqn
        /\ buffer'[k].origin = buffer[k].origin /\ buffer[k].origin \in Hosts
    <3>1. buffer[k] \in Container
      BY <1>0, <1>1, ElementOfSeq, LenProperties DEF TypeOK
    <3> QED BY <1>1, <3>1, ContainersStay DEF Container
  <2>3. dg[x].st \in {"mark", "check", "done"}
    BY <2>1 DEF Passed, ConfRunning
  <2>4. dg'[x].seqn = buffer'[k].seqn[i]
    BY <1>0, <2>1, <2>2, <2>3, Onward
  <2>5. CASE x \in Passed(buffer[k].origin)
    <3>1. PICK h \in Hosts : h = buffer[k].origin
      BY <2>2
    <3>2. x \in Passed(h)'
      BY <2>5, <3>1, PassedStays
    <3>3. x \in Passed(buffer[k].origin)'
      BY <2>2, <3>1, <3>2 DEF Passed
    <3> QED BY <2>4, <3>3
  <2>6. CASE dg[x].st = "check" /\ dg[x].i = k
    <3>1. CASE dg'[x].st = "done"
      <4>1. x \in Passed(buffer[k].origin)'
        BY <3>1 DEF Passed
      <4> QED BY <2>4, <4>1
    <3>2. CASE dg'[x].i = dg[x].i /\ dg'[x].st = "check"
      BY <2>4, <2>6, <3>2
    <3>3. CASE ConfRunning(x)' /\ dg'[x].i = dg[x].i + 1
      <4>1. k < dg'[x].i
        BY <1>0, <1>1, <2>6, <3>3, LenProperties DEF TypeOK
      <4>2. x \in Passed(buffer[k].origin)'
        BY <3>3, <4>1 DEF Passed
      <4> QED BY <2>4, <4>2
    <3> QED BY <1>0, <2>3, <2>6, <3>1, <3>2, <3>3, Onward
  <2> QED BY <2>1, <2>5, <2>6
<1>2. ASSUME NEW h \in Hosts, NEW p \in Peers, MarkContainer(h, p),
             k = dg[<<h, p>>].i, k \in DOMAIN buffer,
             buffer[k].seqn[i] = dg[<<h, p>>].seqn
      PROVE  \E x \in Hosts \X Peers :
                  dg'[x].seqn = buffer'[k].seqn[i] /\ dg'[x].st = "check" /\ dg'[x].i = k
  <2>1. dg[<<h, p>>] \in Datagram /\ <<h, p>> \in Hosts \X Peers
    BY <1>0 DEF TypeOK
  <2>2. dg'[<<h, p>>] = [dg[<<h, p>>] EXCEPT !.st = "check"]
    BY <1>0, <1>2, <2>1 DEF MarkContainer, TypeOK
  <2>3. /\ dg'[<<h, p>>].st = "check" /\ dg'[<<h, p>>].i = k
        /\ dg'[<<h, p>>].seqn = dg[<<h, p>>].seqn
    BY <1>2, <2>1, <2>2 DEF Datagram
  <2>4. buffer'[k].seqn = buffer[k].seqn
    BY <1>2, ContainersStay
  <2> QED BY <1>2, <2>1, <2>3, <2>4
<1> QED BY <1>1, <1>2, ContainersStay

\* A container whose slots are all confirmed was passed by N confirmations,
\* counting the one that finds it complete.
LEMMA CompleteContainer ==
    ASSUME NumberInv, SlotsMarked, NEW h \in Hosts, NEW p \in Peers, NEW k \in DOMAIN buffer,
           dg[<<h, p>>].st = "check", dg[<<h, p>>].i = k, ContainerConfirmed(buffer[k]),
           NEW g \in Hosts, g = buffer[k].origin
    PROVE  /\ <<h, p>> \notin Passed(g)
           /\ N <= Cardinality(Passed(g) \cup {<<h, p>>})
<1> DEFINE x == <<h, p>>
           T == Passed(g) \cup {x}
           F == [i \in Slots |-> CHOOSE y \in T : dg[y].seqn = buffer[k].seqn[i]]
<1>0. x \in Hosts \X Peers /\ ConfRunning(x)
  BY DEF ConfRunning
<1>k. k \in Nat
  BY LenProperties DEF NumberInv, TypeOK
<1>1. x \notin Passed(g)
  <2> SUFFICES ASSUME x \in Passed(g) PROVE FALSE
    OBVIOUS
  <2>1. PICK j \in DOMAIN buffer : buffer[j].origin = g /\ j < dg[x].i
    BY DEF Passed
  <2>2. j = k
    BY <2>1 DEF NumberInv, OriginsDiffer
  <2> QED BY <1>k, <2>1, <2>2
<1>2. \A i \in Slots : \E y \in T : dg[y].seqn = buffer[k].seqn[i]
  <2> SUFFICES ASSUME NEW i \in Slots
               PROVE  \E y \in T : dg[y].seqn = buffer[k].seqn[i]
    OBVIOUS
  <2>1. PICK y \in Hosts \X Peers :
            /\ dg[y].seqn = buffer[k].seqn[i]
            /\ y \in Passed(g) \/ (dg[y].st = "check" /\ dg[y].i = k)
    BY DEF SlotsMarked, ContainerConfirmed
  <2>2. dg[y].st = "check" => y = x
    BY <1>0, <2>1 DEF NumberInv, Exclusive, ConfRunning
  <2> QED BY <2>1, <2>2
<1>3. \A i \in Slots : F[i] \in T /\ dg[F[i]].seqn = buffer[k].seqn[i]
  BY <1>2
<1>4. \A i, j \in Slots : buffer[k].seqn[i] = buffer[k].seqn[j] => i = j
  <2>1. conn[g] \in ConnThread
    BY DEF NumberInv, TypeOK
  <2>2. conn[g].base \in Nat
    BY <2>1 DEF ConnThread
  <2>3. \A i \in Slots : buffer[k].seqn[i] = conn[g].base + i /\ i \in Nat
    BY NAssumption DEF NumberInv, BufferNumbered, Slots
  <2> QED BY <2>2, <2>3
<1>5. IsFiniteSet(T)
  <2>1. T \in SUBSET (Hosts \X Peers)
    BY <1>0 DEF Passed
  <2> HIDE DEF T
  <2> QED BY <2>1, PacketsFinite
<1>6. Cardinality(Slots) = N
  BY NAssumption, FS_Interval DEF Slots
<1>7. F \in [Slots -> T]
  BY <1>3
<1>8. \A i, j \in Slots : F[i] = F[j] => i = j
  BY <1>3, <1>4
<1> HIDE DEF F, T
<1>9. F \in Injection(Slots, T)
  BY <1>7, <1>8 DEF Injection, IsInjective
<1>10. N <= Cardinality(T)
  BY <1>5, <1>6, <1>9, FS_Injection
<1> QED BY <1>1, <1>10 DEF T

LEMMA CallbacksStep ==
    ASSUME ~Overlap, "duplicate" \notin Faults, NumberInv, BackedInv, CallbacksCounted,
           [Next]_vars
    PROVE  CallbacksCounted'
<1>0. /\ TypeOK /\ ConfirmedApplied /\ SlotsMarked /\ IteratorsInside
      /\ accepts \in [Hosts -> Nat] /\ N \in Nat \ {0}
  BY NAssumption DEF NumberInv, BackedInv, CallbacksCounted, TypeOK
<1>1. SlotsMarked'
  BY <1>0, MarkedStep
<1>2. ASSUME NEW g \in Hosts
      PROVE  /\ Passed(g) \subseteq Passed(g)'
             /\ Cardinality(Passed(g)) <= Cardinality(Passed(g)')
             /\ Cardinality(Passed(g)) \in Nat /\ Cardinality(Passed(g)') \in Nat
             /\ IsFiniteSet(Passed(g)) /\ IsFiniteSet(Passed(g)')
  <2>1. Passed(g) \subseteq Passed(g)'
    BY <1>0, PassedStays
  <2>2. Passed(g) \in SUBSET (Hosts \X Peers) /\ Passed(g)' \in SUBSET (Hosts \X Peers)
    BY DEF Passed
  <2>3. /\ IsFiniteSet(Passed(g)) /\ Cardinality(Passed(g)) \in Nat
        /\ IsFiniteSet(Passed(g)') /\ Cardinality(Passed(g)') \in Nat
    BY <2>2, PacketsFinite
  <2>4. Cardinality(Passed(g)) <= Cardinality(Passed(g)')
    BY <2>1, <2>3, FS_Subset
  <2> QED BY <2>1, <2>3, <2>4
<1> SUFFICES ASSUME NEW g \in Hosts, accepts'[g] > 0
             PROVE  accepts'[g] + N - 1 <= Cardinality(Passed(g)')
  BY <1>1 DEF CallbacksCounted
<1>3. CASE accepts'[g] = accepts[g]
  BY <1>0, <1>2, <1>3 DEF CallbacksCounted
<1>4. ASSUME NEW h \in Hosts, NEW p \in Peers, CheckContainer(h, p),
             accepts'[g] # accepts[g]
      PROVE  accepts'[g] + N - 1 <= Cardinality(Passed(g)')
  <2> DEFINE x == <<h, p>>
             k == dg[x].i
  <2>1. /\ dg[x].st = "check" /\ x \in Hosts \X Peers /\ dg[x] \in Datagram
        /\ k \in DOMAIN buffer
    <3>1. dg[x].st = "check" /\ x \in Hosts \X Peers /\ dg[x] \in Datagram
      BY <1>0, <1>4 DEF CheckContainer, TypeOK
    <3>2. dg[x].i \in 1 .. dg[x].end /\ dg[x].end <= Len(buffer) /\ dg[x].end \in Nat
      BY <1>0, <3>1 DEF IteratorsInside, ConfRunning, Datagram
    <3>3. Len(buffer) \in Nat /\ DOMAIN buffer = 1 .. Len(buffer)
      BY <1>0, LenProperties DEF TypeOK
    <3> QED BY <3>1, <3>2, <3>3
  <2>2. /\ ContainerConfirmed(buffer[k]) /\ buffer[k].origin = g
        /\ accepts'[g] = accepts[g] + 1
    BY <1>0, <1>4 DEF CheckContainer
  <2>3. x \notin Passed(g) /\ N <= Cardinality(Passed(g) \cup {x})
    BY <1>0, <2>1, <2>2, CompleteContainer
  <2>4. x \in Passed(g)'
    <3>1. dg'[x] = IF dg[x].i < dg[x].end
                   THEN [dg[x] EXCEPT !.st = "mark", !.i = dg[x].i + 1]
                   ELSE Finished(dg[x])
      BY <1>0, <1>4 DEF CheckContainer, TypeOK
    <3>2. buffer' = buffer
      BY <1>4 DEF CheckContainer
    <3>3. CASE dg[x].i < dg[x].end
      <4>1. ConfRunning(x)' /\ k < dg'[x].i
        BY <2>1, <3>1, <3>3 DEF ConfRunning, Datagram
      <4>2. k \in DOMAIN buffer' /\ buffer'[k].origin = g
        BY <2>1, <2>2, <3>2
      <4> QED BY <2>1, <4>1, <4>2 DEF Passed
    <3>4. CASE ~(dg[x].i < dg[x].end)
      <4>1. dg'[x].st = "done"
        BY <2>1, <3>1, <3>4 DEF Finished, Datagram
      <4> QED BY <2>1, <4>1 DEF Passed
    <3> QED BY <3>3, <3>4
  <2>5. /\ Cardinality(Passed(g) \cup {x}) = Cardinality(Passed(g)) + 1
        /\ Cardinality(Passed(g) \cup {x}) <= Cardinality(Passed(g)')
    <3>1. Passed(g) \cup {x} \in SUBSET Passed(g)'
      BY <1>2, <2>4
    <3>2. Cardinality(Passed(g) \cup {x}) <= Cardinality(Passed(g)')
      BY <1>2, <3>1, FS_Subset
    <3> QED BY <1>2, <2>3, <3>2, FS_AddElement
  <2>6. accepts[g] > 0 => accepts[g] + N - 1 <= Cardinality(Passed(g))
    BY DEF CallbacksCounted
  <2>7. accepts[g] \in Nat /\ Cardinality(Passed(g)) \in Nat /\ Cardinality(Passed(g)') \in Nat
    BY <1>0, <1>2
  <2> HIDE DEF x, k
  <2> QED BY <1>0, <2>2, <2>3, <2>5, <2>6, <2>7
<1> QED BY <1>3, <1>4, AcceptSteps

\* With handlers that do not overlap and packets that come once, a client gets at
\* most one PACKET_ACCEPT_CONN_CMD per confirmation that the primary handles, and
\* none for the first N - 1.
THEOREM AcceptsAreCounted == Spec => []AcceptsCounted
<1>1. CASE Overlap \/ "duplicate" \in Faults
  <2>1. AcceptsCounted
    BY <1>1 DEF AcceptsCounted
  <2> QED BY <2>1, PTL
<1>2. CASE ~Overlap /\ "duplicate" \notin Faults
  <2>1. Init => CallbacksCounted
    BY DEF Init, CallbacksCounted, SlotsMarked
  <2>2. NumberInv /\ BackedInv /\ CallbacksCounted /\ [Next]_vars => CallbacksCounted'
    BY <1>2, CallbacksStep
  <2>3. NumberInv /\ CallbacksCounted => AcceptsCounted
    <3> SUFFICES ASSUME NumberInv, CallbacksCounted, NEW h \in Hosts, accepts[h] > 0
                 PROVE  accepts[h] + N - 1 <=
                            Cardinality({hp \in Hosts \X Peers :
                                            dg[hp].st \in {"mark", "check", "done"}})
      BY DEF AcceptsCounted
    <3> DEFINE H == {hp \in Hosts \X Peers : dg[hp].st \in {"mark", "check", "done"}}
    <3>1. /\ IsFiniteSet(H) /\ Cardinality(H) \in Nat
          /\ Cardinality(Passed(h)) \in Nat
      <4>1. H \in SUBSET (Hosts \X Peers) /\ Passed(h) \in SUBSET (Hosts \X Peers)
        BY DEF Passed
      <4> HIDE DEF H
      <4> QED BY <4>1, PacketsFinite
    <3>2. Passed(h) \in SUBSET H
      BY DEF Passed, ConfRunning
    <3>3. Cardinality(Passed(h)) <= Cardinality(H)
      BY <3>1, <3>2, FS_Subset
    <3>4. accepts[h] + N - 1 <= Cardinality(Passed(h))
      BY DEF CallbacksCounted
    <3>5. accepts[h] \in Nat /\ N \in Nat
      BY NAssumption DEF NumberInv, TypeOK
    <3> HIDE DEF H
    <3>6. accepts[h] + N - 1 <= Cardinality(H)
      BY <3>1, <3>3, <3>4, <3>5
    <3> QED BY <3>6 DEF H
  <2> QED BY <1>2, <2>1, <2>2, <2>3, NumbersCorrect, BackedCorrect, PTL DEF Spec
<1> QED BY <1>1, <1>2

-----------------------------------------------------------------------------
(* The refinement: Replication implements PassiveReplication when the      *)
(* handlers of the primary do not overlap and there are at most N          *)
(* secondaries.                                                            *)

\* The three variables of PassiveReplication do not change.
Stutter == Executed' = Executed /\ applied' = applied /\ Accepted' = Accepted

LEMMA InitRefines == Init => Passive!Init
<1> SUFFICES ASSUME Init PROVE Passive!Init
  OBVIOUS
<1>1. \A h \in Hosts : conn[h].pc = "idle" /\ ~(accepts[h] > 0)
  BY DEF Init
<1>2. Executed = {} /\ Accepted = {}
  BY <1>1 DEF Executed, Accepted
<1>3. applied = [p \in Peers |-> {}]
  BY DEF Init
<1> QED BY <1>2, <1>3 DEF Passive!Init

\* A CONNECT handler that starts executes the request; its other steps are not
\* visible.
LEMMA ConnectRefines ==
    ASSUME TypeOK, NEW h \in Hosts, ConnectStep(h)
    PROVE  Passive!Execute(h) \/ Stutter
<1>c. conn \in [Hosts -> ConnThread]
  BY DEF TypeOK
<1>1. applied' = applied /\ accepts' = accepts
  BY ConnectStepFrame DEF ConnectFrame
<1>2. Accepted' = Accepted
  BY <1>1 DEF Accepted
<1>3. \A g \in Hosts \ {h} : conn'[g] = conn[g]
  BY ConnectStepFrame DEF ConnectFrame
<1>4. conn'[h].pc # "idle"
  BY <1>c DEF ConnectStep, ConnectStartSession, ReadSeqn, RereadSeqn, LoadSeqn,
     StoreSeqn, BeginPush, EndPush, SendToPeers, ConnThread
<1>5. Executed' = Executed \cup {h}
  BY <1>3, <1>4 DEF Executed
<1>6. CASE h \in Executed
  <2>1. Executed' = Executed
    BY <1>5, <1>6
  <2> QED BY <1>1, <1>2, <2>1 DEF Stutter
<1>7. CASE h \notin Executed
  BY <1>1, <1>2, <1>5, <1>7 DEF Passive!Execute
<1> QED BY <1>6, <1>7

\* A secondary executes a request that the primary has executed.
LEMMA SecondaryRefines ==
    ASSUME TypeOK, ConfirmedApplied, NEW h \in Hosts, NEW p \in Peers,
           SecondaryConnect(h, p)
    PROVE  Passive!Replicate(h, p)
<1>1. conn' = conn /\ accepts' = accepts
  BY DEF SecondaryConnect
<1>2. Executed' = Executed /\ Accepted' = Accepted
  BY <1>1 DEF Executed, Accepted
<1>3. conn[h].pc = "done"
  BY DEF SecondaryConnect, ConfirmedApplied
<1>4. h \in Executed
  BY <1>3 DEF Executed
<1>5. applied' = [applied EXCEPT ![p] = @ \cup {h}]
  BY DEF SecondaryConnect
<1> QED BY <1>2, <1>4, <1>5 DEF Passive!Replicate

\* The callback accepts a client that all secondaries have executed.
LEMMA CheckRefines ==
    ASSUME TypeOK, IteratorsInside, ReplicatedBeforeAccept', NEW h \in Hosts,
           NEW p \in Peers, CheckContainer(h, p)
    PROVE  (\E o \in Hosts : Passive!Accept(o)) \/ Stutter
<1>a. accepts \in [Hosts -> Nat]
  BY DEF TypeOK
<1>1. conn' = conn /\ applied' = applied
  BY DEF CheckContainer
<1>2. Executed' = Executed
  BY <1>1 DEF Executed
<1>3. CASE accepts' = accepts
  <2>1. Accepted' = Accepted
    BY <1>3 DEF Accepted
  <2> QED BY <1>1, <1>2, <2>1 DEF Stutter
<1>4. CASE accepts' # accepts
  <2> DEFINE k == dg[<<h, p>>].i
             o == buffer[k].origin
  <2>1. accepts' = [accepts EXCEPT ![o] = @ + 1]
    BY <1>4 DEF CheckContainer
  <2>2. o \in Hosts
    BY <1>4, <2>1, <1>a
  <2> HIDE DEF o
  <2>3. Accepted' = Accepted \cup {o}
    <3>1. \A g \in Hosts : accepts'[g] > 0 <=> (accepts[g] > 0 \/ g = o)
      BY <2>1, <2>2, <1>a
    <3> QED BY <2>2, <3>1 DEF Accepted
  <2>4. accepts'[o] > 0
    BY <2>1, <2>2, <1>a
  <2>5. \A q \in Peers : o \in applied[q]
    BY <2>2, <2>4, <1>1 DEF ReplicatedBeforeAccept
  <2>6. Passive!Accept(o)
    BY <1>1, <1>2, <2>3, <2>5 DEF Passive!Accept
  <2> QED BY <2>2, <2>6
<1> QED BY <1>3, <1>4

LEMMA NextRefines ==
    ASSUME SerialInv, SerialInv', [Next]_vars
    PROVE  [Passive!Next]_(Passive!vars)
<1>s. Stutter => UNCHANGED Passive!vars
  BY DEF Stutter, Passive!vars
<1>t. TypeOK /\ IteratorsInside /\ ConfirmedApplied /\ ReplicatedBeforeAccept'
  BY DEF SerialInv
<1>1. ASSUME NEW h \in Hosts, ConnectStep(h) PROVE [Passive!Next]_(Passive!vars)
  BY <1>1, <1>s, <1>t, ConnectRefines DEF Passive!Next
<1>2. ASSUME NEW h \in Hosts, NEW p \in Peers,
             ConfirmStep(h, p) \/ Lose(h, p) \/ Duplicate(h, p)
      PROVE  [Passive!Next]_(Passive!vars)
  <2>1. CASE SecondaryConnect(h, p)
    BY <2>1, <1>t, SecondaryRefines DEF Passive!Next
  <2>2. CASE CheckContainer(h, p)
    BY <2>2, <1>s, <1>t, CheckRefines DEF Passive!Next
  <2>3. CASE \/ BeginConfirm(h, p) \/ MarkContainer(h, p) \/ StaleConfirm(h, p)
             \/ Lose(h, p) \/ Duplicate(h, p)
    <3>1. conn' = conn /\ applied' = applied /\ accepts' = accepts
      BY <2>3 DEF BeginConfirm, MarkContainer, StaleConfirm, Lose, Duplicate
    <3>2. Stutter
      BY <3>1 DEF Stutter, Executed, Accepted
    <3> QED BY <3>2, <1>s
  <2> QED BY <1>2, <2>1, <2>2, <2>3 DEF ConfirmStep
<1>3. ASSUME RestFrame PROVE [Passive!Next]_(Passive!vars)
  <2>1. Stutter
    BY <1>3 DEF RestFrame, Stutter, Executed, Accepted
  <2> QED BY <2>1, <1>s
<1> QED BY <1>1, <1>2, <1>3, StepKinds

\* The CONNECT path of the primary, its buffer and the secondaries implement
\* passive replication: every client is executed by the primary, then by the
\* secondaries, and accepted after all of them (server.cpp:184).
THEOREM ReplicationIsPassive ==
    ASSUME ~Overlap, NPeers <= N
    PROVE  Spec => ImplementsPassive
<1>1. Spec => []SerialInv
  BY SerialCorrect
<1>2. SerialInv /\ SerialInv' /\ [Next]_vars => [Passive!Next]_(Passive!vars)
  BY NextRefines
<1> QED BY <1>1, <1>2, InitRefines, PTL DEF Spec, ImplementsPassive, Passive!Spec

=============================================================================
