------------------------------ MODULE NodeProofs ------------------------------
(***************************************************************************)
(* Theorems about what is attached to a node, and their proofs: first its  *)
(* console (node_serial_monitor.py), for any number of clients and chunks  *)
(* and sockets of any size, then the tests of its inputs, for any number   *)
(* of actuators, attempts and restarts, any plan and any nodes.            *)
(***************************************************************************)
EXTENDS SerialMonitor, NodeTests, SequenceTheorems, WellFoundedInduction, TLAPS

(* What the argument needs of the types.                                   *)
Types ==
  /\ sent \in Nat /\ chunk \in Nat
  /\ clients \subseteq Clients /\ todo \subseteq Clients /\ dead \subseteq Clients
  /\ buf \in [Clients -> Seq(Nat)] /\ seen \in [Clients -> Seq(Nat)]
  /\ joined \in [Clients -> Nat]
  /\ phase \in [Clients -> {"off", "busy", "wait", "closed"}]
  /\ rdpc \in [Clients -> {"none", "recv", "write", "remove", "close", "gone"}]

(* Broadcast holds the lock exactly while it iterates, over clients that   *)
(* are registered, and one chunk at a time.                                *)
Broadcasting ==
  /\ lock = "main" <=> mainpc = "send"
  /\ lock # "main" => lock = "free" /\ todo = {} /\ dead = {}
  /\ todo \cup dead \subseteq clients
  /\ chunk = IF mainpc = "broadcast" THEN sent + 1 ELSE sent

(* The connection the acceptor is busy with.                               *)
Accepting ==
  accpc \in {"add", "spawn"} => conn \in Clients /\ rdpc[conn] = "none" /\ phase[conn] # "off"

(* A connection that was not registered yet has not been sent anything.    *)
Fresh ==
  /\ \A c \in Clients : rdpc[c] = "none" /\ ~(accpc = "spawn" /\ conn = c) =>
       c \notin clients /\ buf[c] = <<>> /\ seen[c] = <<>>
  /\ \A c \in Clients : phase[c] = "off" => rdpc[c] = "none"

(* What reached a client, and what should have.                            *)
Delivered(c) == seen[c] \o buf[c]
Due(c) == IF c \in todo THEN sent - 1 ELSE sent
Complete(c) ==
  /\ Len(Delivered(c)) = Due(c) - joined[c]
  /\ \A i \in 1..Len(Delivered(c)) : Delivered(c)[i] = joined[c] + i

Served == \A c \in clients : phase[c] \in {"busy", "wait"} => Complete(c)

IInv == Types /\ Broadcasting /\ Accepting /\ Fresh /\ Served

-------------------------------------------------------------------------------
(* A chunk put into the socket of a client is the last one delivered: what *)
(* was complete up to the chunk before it is complete with it.             *)
LEMMA DeliverOne ==
  ASSUME NEW s \in Seq(Nat), NEW b \in Seq(Nat), NEW e \in Nat, NEW j \in Nat,
         Len(s \o b) = e - 1 - j,
         \A i \in 1..Len(s \o b) : (s \o b)[i] = j + i
  PROVE /\ Len(s \o Append(b, e)) = e - j
        /\ \A i \in 1..Len(s \o Append(b, e)) : (s \o Append(b, e))[i] = j + i
<1>1. Append(b, e) = b \o <<e>> /\ <<e>> \in Seq(Nat) /\ Len(<<e>>) = 1 /\ <<e>>[1] = e
  BY AppendIsConcat
<1>2. s \o Append(b, e) = (s \o b) \o <<e>> /\ s \o b \in Seq(Nat)
  BY <1>1, ConcatAssociative, ConcatProperties
<1>3. Len(s \o b) \in Nat
  BY <1>2, LenProperties
<1>4. /\ Len(s \o Append(b, e)) = Len(s \o b) + 1
      /\ \A i \in 1..Len(s \o b) + 1 :
           (s \o Append(b, e))[i] = IF i <= Len(s \o b) THEN (s \o b)[i] ELSE <<e>>[i - Len(s \o b)]
  BY <1>1, <1>2, ConcatProperties
<1>5. ASSUME NEW i \in 1..Len(s \o b) + 1 PROVE (s \o Append(b, e))[i] = j + i
  <2>1. CASE i <= Len(s \o b) BY <1>3, <1>4, <2>1
  <2>2. CASE i = Len(s \o b) + 1 BY <1>1, <1>3, <1>4, <2>2
  <2> QED BY <1>3, <2>1, <2>2
<1> QED BY <1>3, <1>4, <1>5

(* A chunk that is read stays delivered.                                   *)
LEMMA ReadOne ==
  ASSUME NEW s \in Seq(Nat), NEW b \in Seq(Nat), b # <<>>
  PROVE /\ Append(s, Head(b)) \in Seq(Nat) /\ Tail(b) \in Seq(Nat)
        /\ Append(s, Head(b)) \o Tail(b) = s \o b
<1>1. Head(b) \in Nat /\ Tail(b) \in Seq(Nat)
  BY HeadTailProperties
<1>2. Append(s, Head(b)) = s \o <<Head(b)>>
  BY <1>1, AppendIsConcat
<1>3. <<Head(b)>> \in Seq(Nat)
  BY <1>1
<1>4. <<Head(b)>> \o Tail(b) = b
  BY HeadTailProperties
<1> QED BY <1>1, <1>2, <1>3, <1>4, ConcatAssociative, AppendProperties

(* Nothing was delivered to a client whose socket and program are empty.   *)
LEMMA Nothing == <<>> \o <<>> = <<>> /\ <<>> \in Seq(Nat) /\ Len(<<>>) = 0
  OBVIOUS

(* Served is NothingMissed, as SerialMonitor states it.                    *)
LEMMA ServedIs == Served <=> NothingMissed
  BY DEF Served, NothingMissed, Complete, Delivered, Due

(* A step that broadcasts, reads and registers nothing keeps what every    *)
(* client has got.                                                         *)
LEMMA ServedFrame ==
  ASSUME Served, UNCHANGED <<sent, todo, joined, seen, buf>>, clients' \subseteq clients,
         \A c \in clients' : phase'[c] \in {"busy", "wait"} => phase[c] \in {"busy", "wait"}
  PROVE Served'
  BY DEF Served, Complete, Delivered, Due

-------------------------------------------------------------------------------
(* Initially nobody is connected.                                          *)
LEMMA InitIInv == Init => IInv
  BY Nothing DEF Init, IInv, Types, Broadcasting, Accepting, Fresh, Served

(* The steps of the main thread outside a broadcast.                       *)
LEMMA MainKeeps == IInv /\ (SerialRead \/ ReaderEnd \/ HandleForget \/ stop) => IInv'
<1> SUFFICES ASSUME IInv, SerialRead \/ ReaderEnd \/ HandleForget \/ stop PROVE IInv'
  OBVIOUS
<1>1. /\ UNCHANGED <<sent, todo, dead, clients, lock, joined, accpc, conn, rdpc, phase, seen, buf>>
      /\ mainpc # "send" /\ mainpc' # "send" /\ chunk \in Nat /\ chunk' \in Nat
      /\ chunk' = IF mainpc' = "broadcast" THEN sent + 1 ELSE sent
  BY DEF SerialRead, ReaderEnd, HandleForget, stop, accVars, rdVars, clVars, srvVars, IInv, Types,
         Broadcasting
<1>2. Types' BY <1>1 DEF IInv, Types
<1>3. Broadcasting' BY <1>1 DEF IInv, Broadcasting
<1>4. Accepting' /\ Fresh' BY <1>1 DEF IInv, Accepting, Fresh
<1>5. Served' BY <1>1, ServedFrame DEF IInv
<1> QED BY <1>2, <1>3, <1>4, <1>5 DEF IInv

(* A broadcast begins: its chunk is due to every registered client.        *)
LEMMA BroadcastStartKeeps == IInv /\ BroadcastStart => IInv'
<1> SUFFICES ASSUME IInv, BroadcastStart PROVE IInv'
  OBVIOUS
<1>1. /\ mainpc = "broadcast" /\ mainpc' = "send" /\ lock = "free" /\ lock' = "main"
      /\ todo = {} /\ todo' = clients /\ dead' = {} /\ chunk' = chunk
      /\ chunk = sent + 1 /\ sent' = sent + 1 /\ sent \in Nat
      /\ UNCHANGED <<clients, joined, accpc, conn, rdpc, phase, seen, buf>>
  BY DEF BroadcastStart, accVars, rdVars, clVars, IInv, Types, Broadcasting
<1>2. Types' BY <1>1 DEF IInv, Types
<1>3. Broadcasting' BY <1>1 DEF IInv, Broadcasting
<1>4. Accepting' /\ Fresh' BY <1>1 DEF IInv, Accepting, Fresh
<1>5. Served'
  <2> SUFFICES ASSUME NEW c \in clients', phase'[c] \in {"busy", "wait"} PROVE Complete(c)'
    BY DEF Served
  <2>1. Complete(c) BY <1>1 DEF IInv, Served
  <2>2. Due(c)' = Due(c) BY <1>1 DEF Due
  <2> QED BY <1>1, <2>1, <2>2 DEF Complete, Delivered
<1> QED BY <1>2, <1>3, <1>4, <1>5 DEF IInv

(* A client gets the chunk that was due to it.                             *)
LEMMA SendToKeeps == ASSUME NEW c \in Clients PROVE IInv /\ SendTo(c) => IInv'
<1> SUFFICES ASSUME IInv, SendTo(c) PROVE IInv'
  OBVIOUS
<1>1. /\ mainpc = "send" /\ c \in todo /\ todo' = todo \ {c}
      /\ buf' = [buf EXCEPT ![c] = Append(@, sent)]
      /\ UNCHANGED <<mainpc, chunk, sent, dead, clients, lock, joined, accpc, conn, rdpc, phase, seen>>
  BY DEF SendTo, accVars, rdVars, clVars, srvVars
<1>2. c \in clients BY <1>1 DEF IInv, Broadcasting
<1>3. sent \in Nat /\ seen[c] \in Seq(Nat) /\ buf[c] \in Seq(Nat) /\ joined[c] \in Nat
  BY DEF IInv, Types
<1>4. buf'[c] = Append(buf[c], sent) /\ buf'[c] \in Seq(Nat)
  BY <1>1, <1>3, AppendProperties DEF IInv, Types
<1>5. \A d \in Clients : d # c => buf'[d] = buf[d]
  BY <1>1 DEF IInv, Types
<1>6. Types' BY <1>1, <1>3, <1>4 DEF IInv, Types
<1>7. Broadcasting' BY <1>1 DEF IInv, Broadcasting
<1>8. Accepting' BY <1>1 DEF IInv, Accepting
<1>9. Fresh' BY <1>1, <1>2, <1>5 DEF IInv, Fresh
<1>10. Served'
  <2> SUFFICES ASSUME NEW d \in clients', phase'[d] \in {"busy", "wait"} PROVE Complete(d)'
    BY DEF Served
  <2>1. Complete(d) /\ d \in Clients BY <1>1 DEF IInv, Types, Served
  <2>2. CASE d # c
    <3>1. Due(d)' = Due(d) /\ Delivered(d)' = Delivered(d)
      BY <1>1, <1>5, <2>1, <2>2 DEF Due, Delivered
    <3> QED BY <1>1, <2>1, <3>1 DEF Complete
  <2>3. CASE d = c
    <3>1. c \in todo /\ c \notin todo' /\ sent' = sent /\ joined' = joined /\ seen' = seen
      BY <1>1
    <3>2. /\ Len(seen[c] \o buf[c]) = sent - 1 - joined[c]
          /\ \A i \in 1..Len(seen[c] \o buf[c]) : (seen[c] \o buf[c])[i] = joined[c] + i
      BY <2>1, <2>3, <3>1 DEF Complete, Delivered, Due
    <3>3. /\ Len(seen[c] \o Append(buf[c], sent)) = sent - joined[c]
          /\ \A i \in 1..Len(seen[c] \o Append(buf[c], sent)) :
               (seen[c] \o Append(buf[c], sent))[i] = joined[c] + i
      BY <1>3, <3>2, DeliverOne
    <3> QED BY <1>4, <2>3, <3>1, <3>3 DEF Complete, Delivered, Due
  <2> QED BY <2>2, <2>3
<1> QED BY <1>6, <1>7, <1>8, <1>9, <1>10 DEF IInv

(* A client that has gone is passed over.                                  *)
LEMMA SendToGoneKeeps == ASSUME NEW c \in Clients PROVE IInv /\ SendToGone(c) => IInv'
<1> SUFFICES ASSUME IInv, SendToGone(c) PROVE IInv'
  OBVIOUS
<1>1. /\ mainpc = "send" /\ c \in todo /\ phase[c] = "closed" /\ todo' = todo \ {c}
      /\ dead' = dead \/ dead' = dead \cup {c}
      /\ UNCHANGED <<mainpc, chunk, sent, clients, lock, joined, accpc, conn, rdpc, phase, seen, buf>>
  BY DEF SendToGone, accVars, rdVars, clVars, srvVars
<1>2. c \in clients BY <1>1 DEF IInv, Broadcasting
<1>3. Types' BY <1>1 DEF IInv, Types
<1>4. Broadcasting' BY <1>1, <1>2 DEF IInv, Broadcasting
<1>5. Accepting' /\ Fresh' BY <1>1 DEF IInv, Accepting, Fresh
<1>6. Served' BY <1>1 DEF IInv, Served, Complete, Delivered, Due
<1> QED BY <1>3, <1>4, <1>5, <1>6 DEF IInv

(* A broadcast ends.                                                       *)
LEMMA BroadcastEndKeeps == IInv /\ BroadcastEnd => IInv'
<1> SUFFICES ASSUME IInv, BroadcastEnd PROVE IInv'
  OBVIOUS
<1>1. /\ mainpc = "send" /\ mainpc' = "read" /\ todo = {} /\ dead' = {} /\ lock' = "free"
      /\ clients' = clients \ dead
      /\ UNCHANGED <<chunk, sent, todo, joined, accpc, conn, rdpc, phase, seen, buf>>
  BY DEF BroadcastEnd, accVars, clVars
<1>2. Types' BY <1>1 DEF IInv, Types
<1>3. Broadcasting' BY <1>1 DEF IInv, Broadcasting
<1>4. Accepting' /\ Fresh' BY <1>1 DEF IInv, Accepting, Fresh
<1>5. Served' BY <1>1, ServedFrame DEF IInv
<1> QED BY <1>2, <1>3, <1>4, <1>5 DEF IInv

-------------------------------------------------------------------------------
(* The acceptor registers a connection that is up to date with the last    *)
(* broadcast, and none that was registered before.                         *)
LEMMA AcceptorKeeps == IInv /\ Acceptor => IInv'
<1> SUFFICES ASSUME IInv, Acceptor PROVE IInv'
  OBVIOUS
<1>1. ASSUME NEW c \in Clients, accept(c) PROVE IInv'
  <2>1. /\ phase[c] # "off" /\ rdpc[c] = "none" /\ accpc = "accept" /\ accpc' = "add" /\ conn' = c
        /\ UNCHANGED <<mainpc, chunk, sent, todo, dead, clients, lock, joined, rdpc, phase, seen, buf>>
    BY <1>1 DEF accept, mainVars, srvVars, rdVars, clVars
  <2>2. Types' /\ Broadcasting' BY <2>1 DEF IInv, Types, Broadcasting
  <2>3. Accepting' /\ Fresh' BY <2>1 DEF IInv, Accepting, Fresh
  <2>4. Served' BY <2>1, ServedFrame DEF IInv
  <2> QED BY <2>2, <2>3, <2>4 DEF IInv
<1>2. CASE ClientAdd
  <2>1. /\ accpc = "add" /\ lock = "free" /\ clients' = clients \cup {conn}
        /\ joined' = [joined EXCEPT ![conn] = sent] /\ accpc' = "spawn"
        /\ UNCHANGED <<mainpc, chunk, sent, todo, dead, lock, conn, rdpc, phase, seen, buf>>
    BY <1>2 DEF ClientAdd, mainVars, rdVars, clVars
  <2>2. /\ conn \in Clients /\ rdpc[conn] = "none" /\ conn \notin clients
        /\ buf[conn] = <<>> /\ seen[conn] = <<>> /\ todo = {}
    BY <2>1 DEF IInv, Accepting, Fresh, Broadcasting
  <2>3. Types' BY <2>1, <2>2 DEF IInv, Types
  <2>4. Broadcasting' BY <2>1, <2>2 DEF IInv, Broadcasting
  <2>5. Accepting' BY <2>1, <2>2 DEF IInv, Accepting
  <2>6. Fresh' BY <2>1, <2>2 DEF IInv, Fresh
  <2>7. Served'
    <3> SUFFICES ASSUME NEW d \in clients', phase'[d] \in {"busy", "wait"} PROVE Complete(d)'
      BY DEF Served
    <3>1. CASE d = conn
      <4>1. Delivered(d)' = <<>> BY <2>1, <2>2, <3>1, Nothing DEF Delivered
      <4>2. Due(d)' = sent /\ joined'[d] = sent /\ sent \in Nat
        BY <2>1, <2>2, <3>1 DEF Due, IInv, Types
      <4> QED BY <4>1, <4>2, Nothing DEF Complete
    <3>2. CASE d # conn
      <4>1. d \in clients /\ d \in Clients /\ Complete(d)
        BY <2>1, <3>2 DEF IInv, Types, Served
      <4>2. Delivered(d)' = Delivered(d) /\ Due(d)' = Due(d) /\ joined'[d] = joined[d]
        BY <2>1, <3>2, <4>1 DEF Delivered, Due, IInv, Types
      <4> QED BY <4>1, <4>2 DEF Complete
    <3> QED BY <3>1, <3>2
  <2> QED BY <2>3, <2>4, <2>5, <2>6, <2>7 DEF IInv
<1>3. CASE ReaderStart
  <2>1. /\ accpc = "spawn" /\ accpc' = "accept"
        /\ rdpc' = [rdpc EXCEPT ![conn] = Loop] /\ Loop \in {"recv", "remove"}
        /\ UNCHANGED <<mainpc, chunk, sent, todo, dead, clients, lock, joined, phase, seen, buf>>
    BY <1>3 DEF ReaderStart, mainVars, srvVars, clVars, Loop
  <2>2. conn \in Clients /\ phase[conn] # "off" BY <2>1 DEF IInv, Accepting
  <2>3. Types' BY <2>1 DEF IInv, Types
  <2>4. Broadcasting' /\ Accepting' BY <2>1 DEF IInv, Broadcasting, Accepting
  <2>5. rdpc'[conn] # "none" /\ \A d \in Clients : d # conn => rdpc'[d] = rdpc[d]
    BY <2>1, <2>2 DEF IInv, Types
  <2>6. Fresh' BY <2>1, <2>2, <2>5 DEF IInv, Fresh
  <2>7. Served' BY <2>1, ServedFrame DEF IInv
  <2> QED BY <2>3, <2>4, <2>6, <2>7 DEF IInv
<1>4. CASE AcceptEnd
  <2>1. /\ accpc = "accept" /\ accpc' = "gone"
        /\ UNCHANGED <<mainpc, chunk, sent, todo, dead, clients, lock, conn, joined, rdpc, phase, seen,
                       buf>>
    BY <1>4 DEF AcceptEnd, mainVars, srvVars, rdVars, clVars
  <2>2. Types' /\ Broadcasting' BY <2>1 DEF IInv, Types, Broadcasting
  <2>3. Accepting' /\ Fresh' BY <2>1 DEF IInv, Accepting, Fresh
  <2>4. Served' BY <2>1, ServedFrame DEF IInv
  <2> QED BY <2>2, <2>3, <2>4 DEF IInv
<1> QED BY <1>1, <1>2, <1>3, <1>4 DEF Acceptor

(* A reader that was started is never taken for one that was not; a client *)
(* leaves the set outside a broadcast only.                                *)
LEMMA ReaderKeeps == ASSUME NEW c \in Clients PROVE IInv /\ Reader(c) => IInv'
<1> SUFFICES ASSUME IInv, Reader(c) PROVE IInv'
  OBVIOUS
<1>1. /\ UNCHANGED <<mainpc, chunk, sent, todo, dead, lock, accpc, conn, joined, phase, seen, buf>>
      /\ clients' = clients \/ (lock = "free" /\ clients' = clients \ {c})
  BY DEF Reader, RecvEnd, Recv, SerialWrite, ClientRemove, ClientClose, mainVars, accVars, srvVars,
         clVars
<1>2. /\ rdpc[c] # "none"
      /\ \E to \in {"recv", "write", "remove", "close", "gone"} : rdpc' = [rdpc EXCEPT ![c] = to]
  BY DEF Reader, RecvEnd, Recv, SerialWrite, ClientRemove, ClientClose, Finally, Loop
<1>3. rdpc'[c] # "none" /\ \A d \in Clients : d # c => rdpc'[d] = rdpc[d]
  BY <1>2 DEF IInv, Types
<1>4. Types' BY <1>1, <1>2 DEF IInv, Types
<1>5. Broadcasting' BY <1>1 DEF IInv, Broadcasting
<1>6. Accepting' BY <1>1, <1>2, <1>3 DEF IInv, Accepting
<1>7. Fresh' BY <1>1, <1>2, <1>3 DEF IInv, Fresh
<1>8. Served' BY <1>1, ServedFrame DEF IInv
<1> QED BY <1>4, <1>5, <1>6, <1>7, <1>8 DEF IInv

(* A signal and the operator's input only touch running and their own.     *)
LEMMA OthersKeep == IInv /\ (handle_signal \/ Operator) => IInv'
<1> SUFFICES ASSUME IInv, handle_signal \/ Operator PROVE IInv'
  OBVIOUS
<1>1. UNCHANGED <<mainpc, chunk, sent, todo, dead, clients, lock, accpc, conn, joined, rdpc, phase,
                  seen, buf>>
  BY DEF handle_signal, Operator, OperatorInput, OperatorWrite, mainVars, accVars, rdVars, clVars
<1>2. Types' /\ Broadcasting' BY <1>1 DEF IInv, Types, Broadcasting
<1>3. Accepting' /\ Fresh' BY <1>1 DEF IInv, Accepting, Fresh
<1>4. Served' BY <1>1, ServedFrame DEF IInv
<1> QED BY <1>2, <1>3, <1>4 DEF IInv

-------------------------------------------------------------------------------
(* The connected programs.                                                 *)
LEMMA ProgramKeeps == ASSUME NEW c \in Clients PROVE IInv /\ Program(c) => IInv'
<1> SUFFICES ASSUME IInv, Program(c) PROVE IInv'
  OBVIOUS
<1>1. CASE Connect(c)
  <2>1. /\ phase[c] = "off" /\ phase' = [phase EXCEPT ![c] = "busy"]
        /\ UNCHANGED <<mainpc, chunk, sent, todo, dead, clients, lock, accpc, conn, joined, rdpc, seen,
                       buf>>
    BY <1>1 DEF Connect, mainVars, srvVars, accVars, rdVars
  <2>2. c \notin clients BY <2>1 DEF IInv, Fresh, Accepting
  <2>3. Types' /\ Broadcasting' BY <2>1 DEF IInv, Types, Broadcasting
  <2>4. Accepting' /\ Fresh' BY <2>1 DEF IInv, Types, Accepting, Fresh
  <2>5. \A d \in clients : phase'[d] = phase[d] BY <2>1, <2>2 DEF IInv, Types
  <2>6. Served' BY <2>1, <2>5, ServedFrame DEF IInv
  <2> QED BY <2>3, <2>4, <2>6 DEF IInv
<1>2. CASE Work(c)
  <2>1. /\ phase[c] = "busy" /\ phase' = [phase EXCEPT ![c] = "wait"]
        /\ UNCHANGED <<mainpc, chunk, sent, todo, dead, clients, lock, accpc, conn, joined, rdpc, seen,
                       buf>>
    BY <1>2 DEF Work, mainVars, srvVars, accVars, rdVars
  <2>2. Types' /\ Broadcasting' BY <2>1 DEF IInv, Types, Broadcasting
  <2>3. Accepting' /\ Fresh' BY <2>1 DEF IInv, Types, Accepting, Fresh
  <2>4. \A d \in Clients : phase'[d] = phase[d] \/ phase[d] = "busy" BY <2>1 DEF IInv, Types
  <2>5. Served' BY <2>1, <2>4, ServedFrame DEF IInv, Types
  <2> QED BY <2>2, <2>3, <2>5 DEF IInv
<1>3. CASE ClientRead(c)
  <2>1. /\ buf[c] # <<>>
        /\ seen' = [seen EXCEPT ![c] = Append(@, Head(buf[c]))]
        /\ buf' = [buf EXCEPT ![c] = Tail(@)]
        /\ UNCHANGED <<mainpc, chunk, sent, todo, dead, clients, lock, accpc, conn, joined, rdpc, phase>>
    BY <1>3 DEF ClientRead, mainVars, srvVars, accVars, rdVars
  <2>2. seen[c] \in Seq(Nat) /\ buf[c] \in Seq(Nat) BY DEF IInv, Types
  <2>3. /\ seen'[c] = Append(seen[c], Head(buf[c])) /\ buf'[c] = Tail(buf[c])
        /\ seen'[c] \in Seq(Nat) /\ buf'[c] \in Seq(Nat)
        /\ seen'[c] \o buf'[c] = seen[c] \o buf[c]
    BY <2>1, <2>2, ReadOne DEF IInv, Types
  <2>4. \A d \in Clients : d # c => seen'[d] = seen[d] /\ buf'[d] = buf[d]
    BY <2>1 DEF IInv, Types
  <2>5. Types' BY <2>1, <2>3 DEF IInv, Types
  <2>6. Broadcasting' /\ Accepting' BY <2>1 DEF IInv, Broadcasting, Accepting
  <2>7. Fresh' BY <2>1, <2>4 DEF IInv, Fresh
  <2>8. \A d \in Clients : Delivered(d)' = Delivered(d)
    BY <2>3, <2>4 DEF Delivered
  <2>9. Served' BY <2>1, <2>8 DEF IInv, Types, Served, Complete, Due
  <2> QED BY <2>5, <2>6, <2>7, <2>9 DEF IInv
<1>4. CASE Finish(c)
  <2>1. /\ phase[c] = "wait" /\ phase' = [phase EXCEPT ![c] = "closed"]
        /\ buf' = [buf EXCEPT ![c] = <<>>] /\ seen' = [seen EXCEPT ![c] = <<>>]
        /\ UNCHANGED <<mainpc, chunk, sent, todo, dead, clients, lock, accpc, conn, joined, rdpc>>
    BY <1>4 DEF Finish, mainVars, srvVars, accVars, rdVars
  <2>2. Types' BY <2>1, Nothing DEF IInv, Types
  <2>3. Broadcasting' BY <2>1 DEF IInv, Broadcasting
  <2>4. Accepting' /\ Fresh' BY <2>1 DEF IInv, Types, Accepting, Fresh
  <2>5. /\ phase'[c] = "closed"
        /\ \A d \in Clients : d # c => seen'[d] = seen[d] /\ buf'[d] = buf[d] /\ phase'[d] = phase[d]
    BY <2>1 DEF IInv, Types
  <2>6. Served' BY <2>1, <2>5 DEF IInv, Types, Served, Complete, Delivered, Due
  <2> QED BY <2>2, <2>3, <2>4, <2>6 DEF IInv
<1> QED BY <1>1, <1>2, <1>3, <1>4 DEF Program

(* Every step keeps the invariant.                                         *)
LEMMA NextIInv == IInv /\ [Next]_vars => IInv'
<1> SUFFICES ASSUME IInv, [Next]_vars PROVE IInv'
  OBVIOUS
<1>1. CASE MainStep
  BY <1>1, MainKeeps, BroadcastStartKeeps, BroadcastEndKeeps, SendToKeeps, SendToGoneKeeps DEF MainStep
<1>2. CASE Acceptor BY <1>2, AcceptorKeeps
<1>3. CASE handle_signal \/ Operator BY <1>3, OthersKeep
<1>4. CASE \E c \in Clients : Reader(c) \/ Program(c) BY <1>4, ReaderKeeps, ProgramKeeps
<1>5. CASE UNCHANGED vars
  <2>1. UNCHANGED <<mainpc, chunk, sent, todo, dead, clients, lock, accpc, conn, joined, rdpc, phase,
                    seen, buf>>
    BY <1>5 DEF vars, mainVars, srvVars, accVars, rdVars, clVars
  <2>2. Types' /\ Broadcasting' BY <2>1 DEF IInv, Types, Broadcasting
  <2>3. Accepting' /\ Fresh' BY <2>1 DEF IInv, Accepting, Fresh
  <2>4. Served' BY <2>1, ServedFrame DEF IInv
  <2> QED BY <2>2, <2>3, <2>4 DEF IInv
<1> QED BY <1>1, <1>2, <1>3, <1>4, <1>5 DEF Next

LEMMA Invariant == Spec => []IInv
  BY InitIInv, NextIInv, PTL DEF Spec

-------------------------------------------------------------------------------
(* The clients broadcast iterates over stay registered until it is through *)
(* with them, whatever the acceptor and the readers do meanwhile.          *)
THEOREM IterationIsStable == Spec => []IterationStable
<1>1. IInv => IterationStable BY DEF IInv, Broadcasting, IterationStable
<1> QED BY <1>1, Invariant, PTL

(* A registered program gets every chunk broadcast since, once and in      *)
(* order.                                                                  *)
THEOREM NobodyMisses == Spec => []NothingMissed
<1>1. IInv => NothingMissed BY ServedIs DEF IInv
<1> QED BY <1>1, Invariant, PTL

-------------------------------------------------------------------------------
(* The tests of the node's inputs.                                         *)

(* The tests of the inputs: operations, commands, and how many are left.   *)
Operations ==
  {sensor_test[k] : k \in 1..11} \cup {wall_switch_test[k] : k \in 1..5} \cup {[op |-> "restart"]}
Commands == {"aux low", "aux high", "push on", "push off"}
Left == Len(script)
On(test) == pc # "next" /\ Test = test

NodeTypeOK ==
  /\ plan \in Seq(Tests) /\ script \in Seq(Operations)
  /\ pc \in {"next", "run", "pushed", "read", "verify", "rediscover", "madr",
             "motdsbl", "secure", "reverify"}
  /\ attempts \in Nat /\ unread \subseteq Actuators
  /\ good \in BOOLEAN /\ passed \in BOOLEAN /\ clean \in BOOLEAN
  /\ verdicts \in Seq(Tests \X BOOLEAN)
  /\ line \in Seq(Commands) /\ events \in Seq(Inputs)
  /\ aux \in BOOLEAN /\ up \in BOOLEAN /\ reboot \in BOOLEAN
  /\ follows \in [Inputs -> SUBSET Actuators]
  /\ dim \in [Actuators -> {0, 100}] /\ mode \in {OnOff, MotVac}
  /\ motdsbl \in {Enabled, Disabled}
  /\ lost \in Nat /\ late \in Nat

(* The operations left are the end of the test's script, and the host is   *)
(* in the middle of an operation only if it is one that has a middle.      *)
OnScript ==
  /\ pc = "next" => script = <<>>
  /\ pc # "next" =>
       /\ plan # <<>> /\ Left <= Len(Script(Test))
       /\ \A k \in 1..Left : script[k] = Script(Test)[Len(Script(Test)) - Left + k]
  /\ On("sensor1") => /\ \/ pc = "run" \/ (pc = "read" /\ Left \in {5, 2}) \/ (pc = "motdsbl" /\ Left = 11)
                         \/ pc \in {"verify", "secure", "reverify"} /\ Left = 1
                      /\ Left > 1 => attempts = 0
  /\ On("pdline") => /\ pc = "run" \/ (pc \in {"pushed", "read"} /\ Left \in {2, 1})
                     /\ Left > 2 => attempts = 0
  /\ On("trigger") => pc = "run" \/ (pc \in {"rediscover", "madr"} /\ Left > 0)

(* The node goes down only in or after a trigger test.                     *)
Steady == ~Restarted /\ ~On("trigger") => up /\ ~reboot

(* Each write that did not get through, or whose effect was not read, was  *)
(* lost or its reading was.                                                *)
Restoring ==
  ~Restarted /\ lost < Tries =>
    /\ ~On("sensor1") \/ Left = 0 => mode = MotVac /\ motdsbl = Disabled
    /\ On("sensor1") /\ Left = 1 /\ pc \notin {"secure", "reverify"} =>
         mode = MotVac \/ lost >= attempts + (IF pc = "verify" THEN 1 ELSE 0)
    /\ On("sensor1") /\ Left = 1 /\ pc \in {"secure", "reverify"} =>
         mode = MotVac /\ (motdsbl = Disabled \/ lost >= attempts + (IF pc = "reverify" THEN 1 ELSE 0))

(* Nothing is on its way but these commands and their edges.               *)
OnlyOf(commands, inputs) ==
  /\ \A k \in 1..Len(line) : line[k] \in commands
  /\ \A k \in 1..Len(events) : events[k] \in inputs

(* All actuators read so far had the level.                                *)
ReadSoFar(level) == pc = "read" /\ good => \A a \in Actuators \ unread : dim[a] = level

(* What the sensor test has shown of the node so far.                      *)
SensorEarned ==
  On("sensor1") /\ clean /\ passed =>
    /\ Left \in {6, 5} => /\ OnlyOf({"aux high"}, {"rise"}) /\ Len(line) + Len(events) <= 1
                          /\ ~Settled => Dark
                          /\ \A a \in Actuators : dim[a] = 100 => a \in follows["rise"]
                          /\ ReadSoFar(100)
    /\ Left = 4 => Settled /\ \A a \in Actuators : dim[a] = 100
    /\ Left \in {3, 2} => /\ OnlyOf({"aux low"}, {"fall"})
                          /\ \A a \in Actuators : dim[a] = 0 => a \in follows["fall"]
                          /\ ReadSoFar(0)
    /\ Left <= 4 => follows["rise"] = Actuators
    /\ Left <= 1 => follows["fall"] = Actuators

(* And the wall switch test.  Late lines of the first button may come      *)
(* while the second one is tried, but they raise levels only.              *)
SwitchEarned ==
  On("pdline") /\ clean /\ passed =>
    /\ Left = 2 /\ (pc # "run" \/ attempts > 0) =>
         /\ OnlyOf({"push on"}, {"on"})
         /\ \A a \in Actuators : dim[a] = 100 => a \in follows["on"]
         /\ ReadSoFar(100)
    /\ Left = 1 => /\ OnlyOf({"push on", "push off"}, {"on", "off"})
                   /\ \A a \in Actuators : dim[a] = 0 => a \in follows["off"]
                   /\ pc = "read" /\ good => \A a \in Actuators \ unread : a \in follows["off"]
    /\ Left <= 1 => follows["on"] = Actuators
    /\ Left = 0 => follows["off"] = Actuators

(* A node that works.                                                      *)
AllFollow == \A input \in Inputs : follows[input] = Actuators

(* A change of AUX1 is on its way, or the node has followed it.            *)
Changing(cmd, high, input) ==
  \/ line = <<cmd>> /\ events = <<>> /\ aux = ~high
  \/ line = <<>> /\ events = <<input>> /\ aux = high
  \/ Settled /\ aux = high /\ \A a \in Actuators : dim[a] = Level(input)

SensorGood ==
  On("sensor1") /\ AllFollow /\ ~Restarted /\ lost = 0 /\ late = 0 =>
    /\ passed /\ (pc = "read" => good)
    /\ Left \in 2..10 \/ pc = "motdsbl" => mode = OnOff
    /\ Left \in {9, 8} => IF line = <<>> THEN ~aux ELSE line[Len(line)] = "aux low"
    /\ Left = 7 => Settled /\ ~aux
    /\ Left = 6 => Changing("aux high", TRUE, "rise")
    /\ Left \in {5, 4} => Settled /\ aux /\ \A a \in Actuators : dim[a] = 100
    /\ Left = 3 => Changing("aux low", FALSE, "fall")
    /\ Left = 2 => Settled /\ Dark

(* A push is on its way, or it was the last thing the node has followed.   *)
Pushing(cmd, input) ==
  IF line # <<>> THEN line[Len(line)] = cmd
  ELSE IF events # <<>> THEN events[Len(events)] = input
  ELSE \A a \in Actuators : dim[a] = Level(input)

(* Each attempt of a button that failed, or will, is accounted for.        *)
Attempted(cmd, input) ==
  /\ lost + late >= attempts
  /\ pc = "pushed" => lost + late >= attempts + 1 \/ Pushing(cmd, input)
  /\ pc = "read" => \/ lost + late >= attempts + 1
                    \/ good /\ Settled /\ \A a \in Actuators : dim[a] = Level(input)

SwitchGood ==
  On("pdline") /\ AllFollow /\ ~Restarted =>
    /\ IF Left > 0 THEN passed ELSE passed \/ lost + late >= Attempts
    /\ Left = 2 => Attempted("push on", "on")
    /\ Left = 1 => Attempted("push off", "off")

NodeInv ==
  /\ NodeTypeOK /\ OnScript /\ Steady /\ Restoring /\ SensorEarned /\ SwitchEarned
  /\ SensorGood /\ SwitchGood

(* The three scripts.                                                      *)
LEMMA Scripts ==
  /\ Len(sensor_test) = 11 /\ Len(wall_switch_test) = 5
  /\ Len(trigger_test) = Restarts /\ \A k \in 1..Restarts : trigger_test[k] = [op |-> "restart"]
  /\ Script("sensor1") = sensor_test /\ Script("pdline") = wall_switch_test
  /\ Script("trigger") = trigger_test
<1>1. Len(sensor_test) = 11
  BY DEF sensor_test
<1>2. Len(wall_switch_test) = 5
  BY DEF wall_switch_test
<1>3. Len(trigger_test) = Restarts /\ \A k \in 1..Restarts : trigger_test[k] = [op |-> "restart"]
  BY TestsAssumption DEF trigger_test
<1>4. /\ Script("sensor1") = sensor_test /\ Script("pdline") = wall_switch_test
      /\ Script("trigger") = trigger_test
  BY DEF Script
<1> QED BY <1>1, <1>2, <1>3, <1>4

(* Which test is under way, and what is left of its script.                *)
LEMMA UnderWayIs ==
  ASSUME NodeTypeOK, OnScript, pc # "next"
  PROVE /\ Left \in Nat /\ Test \in Tests
        /\ On("sensor1") => Left \in 0..11 /\ ~On("pdline") /\ ~On("trigger")
        /\ On("pdline") => Left \in 0..5 /\ ~On("sensor1") /\ ~On("trigger")
        /\ On("trigger") => ~On("sensor1") /\ ~On("pdline")
        /\ script # <<>> <=> Left > 0
        /\ Left > 0 => Op \in Operations /\ Op = Script(Test)[Len(Script(Test)) - Left + 1]
<1>1. Left \in Nat /\ plan # <<>> /\ plan \in Seq(Tests) /\ script \in Seq(Operations)
  BY DEF NodeTypeOK, OnScript, Left
<1>2. Test \in Tests
  BY <1>1 DEF Test
<1>3. script # <<>> <=> Left > 0
  BY <1>1 DEF Left
<1>4. ASSUME On("sensor1") PROVE Left \in 0..11
  <2>1. Script(Test) = sensor_test /\ Left <= Len(Script(Test))
    BY <1>4, Scripts DEF OnScript, On
  <2>2. Left <= 11
    BY <2>1, Scripts
  <2> QED BY <1>1, <2>2
<1>5. ASSUME On("pdline") PROVE Left \in 0..5
  <2>1. Script(Test) = wall_switch_test /\ Left <= Len(Script(Test))
    BY <1>5, Scripts DEF OnScript, On
  <2>2. Left <= 5
    BY <2>1, Scripts
  <2> QED BY <1>1, <2>2
<1>6. ASSUME Left > 0 PROVE Op \in Operations /\ Op = Script(Test)[Len(Script(Test)) - Left + 1]
  <2>1. 1 \in 1..Left /\ Op = script[1] /\ Op \in Operations
    BY <1>1, <1>3, <1>6 DEF Op, Left
  <2> QED BY <2>1 DEF OnScript
<1> QED BY <1>1, <1>2, <1>3, <1>4, <1>5, <1>6 DEF On

(* The operation under way, by the length of what is left.                 *)
LEMMA SensorOps ==
  ASSUME NodeTypeOK, OnScript, On("sensor1")
  PROVE /\ Left = 11 => Op = [op |-> "before"]
        /\ Left = 10 => Op = Command("aux low")
        /\ Left = 9 => Op = Put("dim", 0)
        /\ Left = 8 => Op = Sleep
        /\ Left = 6 => Op = Sleep
        /\ Left = 3 => Op = Sleep
        /\ Left = 7 => Op = Command("aux high")
        /\ Left = 5 => Op = Check(100)
        /\ Left = 4 => Op = Command("aux low")
        /\ Left = 2 => Op = Check(0)
        /\ Left = 1 => Op = [op |-> "after"]
<1>1. Left > 0 => Op = sensor_test[11 - Left + 1]
  <2>1. Script(Test) = sensor_test /\ Len(Script(Test)) = 11
    BY Scripts DEF On
  <2> QED BY <2>1, UnderWayIs DEF On
<1>2. /\ sensor_test[1] = [op |-> "before"] /\ sensor_test[2] = Command("aux low")
      /\ sensor_test[3] = Put("dim", 0) /\ sensor_test[4] = Sleep
      /\ sensor_test[5] = Command("aux high") /\ sensor_test[6] = Sleep
      /\ sensor_test[7] = Check(100) /\ sensor_test[8] = Command("aux low")
      /\ sensor_test[9] = Sleep /\ sensor_test[10] = Check(0)
      /\ sensor_test[11] = [op |-> "after"]
  BY DEF sensor_test
<1>3. \A k \in 1..11 : Left = 12 - k => Left > 0 /\ 11 - Left + 1 = k
  OBVIOUS
<1>4. \A k \in 1..11 : Left = 12 - k => Op = sensor_test[k]
  BY <1>1, <1>3
<1>5. /\ Left = 11 => Op = sensor_test[1]
      /\ Left = 10 => Op = sensor_test[2]
      /\ Left = 9 => Op = sensor_test[3]
      /\ Left = 8 => Op = sensor_test[4]
      /\ Left = 7 => Op = sensor_test[5]
      /\ Left = 6 => Op = sensor_test[6]
      /\ Left = 5 => Op = sensor_test[7]
      /\ Left = 4 => Op = sensor_test[8]
      /\ Left = 3 => Op = sensor_test[9]
      /\ Left = 2 => Op = sensor_test[10]
      /\ Left = 1 => Op = sensor_test[11]
  BY <1>4
<1> QED BY <1>2, <1>5

LEMMA SwitchOps ==
  ASSUME NodeTypeOK, OnScript, On("pdline")
  PROVE /\ Left = 5 => Op = Command("push off")
        /\ Left = 4 => Op = Put("dim", 0)
        /\ Left = 3 => Op = Sleep
        /\ Left = 2 => Op = Push("push on", 100)
        /\ Left = 1 => Op = Push("push off", 0)
<1>1. Left > 0 => Op = wall_switch_test[5 - Left + 1]
  <2>1. Script(Test) = wall_switch_test /\ Len(Script(Test)) = 5
    BY Scripts DEF On
  <2> QED BY <2>1, UnderWayIs DEF On
<1>2. /\ wall_switch_test[1] = Command("push off") /\ wall_switch_test[2] = Put("dim", 0)
      /\ wall_switch_test[3] = Sleep
      /\ wall_switch_test[4] = Push("push on", 100) /\ wall_switch_test[5] = Push("push off", 0)
  BY DEF wall_switch_test
<1>3. \A k \in 1..5 : Left = 6 - k => Left > 0 /\ 5 - Left + 1 = k
  OBVIOUS
<1>4. \A k \in 1..5 : Left = 6 - k => Op = wall_switch_test[k]
  BY <1>1, <1>3
<1>5. /\ Left = 5 => Op = wall_switch_test[1]
      /\ Left = 4 => Op = wall_switch_test[2]
      /\ Left = 3 => Op = wall_switch_test[3]
      /\ Left = 2 => Op = wall_switch_test[4]
      /\ Left = 1 => Op = wall_switch_test[5]
  BY <1>4
<1> QED BY <1>2, <1>5

LEMMA TriggerOps ==
  ASSUME NodeTypeOK, OnScript, On("trigger"), Left > 0
  PROVE Op = [op |-> "restart"]
<1>1. Op = trigger_test[Restarts - Left + 1] /\ Left \in Nat /\ Left <= Restarts
  BY UnderWayIs, Scripts DEF On, OnScript
<1> QED BY <1>1, Scripts, TestsAssumption

(* The kinds of operations and their parts.                                *)
LEMMA KindsOf ==
  /\ Put("dim", 0).op = "put" /\ Put("dim", 0).key = "dim" /\ Put("dim", 0).value = 0
  /\ Command("aux low").op = "command" /\ Command("aux low").cmd = "aux low"
  /\ Command("aux high").op = "command" /\ Command("aux high").cmd = "aux high"
  /\ Command("push off").op = "command" /\ Command("push off").cmd = "push off"
  /\ Check(100).op = "check" /\ Check(100).expected = 100
  /\ Check(0).op = "check" /\ Check(0).expected = 0
  /\ Push("push on", 100).op = "push" /\ Push("push on", 100).cmd = "push on"
  /\ Push("push on", 100).expected = 100
  /\ Push("push off", 0).op = "push" /\ Push("push off", 0).cmd = "push off"
  /\ Push("push off", 0).expected = 0
  /\ Sleep.op = "sleep"
BY DEF Put, Command, Check, Push, Sleep

(* Where each kind of operation is found.                                  *)
LEMMA Found ==
  ASSUME NodeTypeOK, OnScript, pc # "next", Left > 0
  PROVE /\ Op.op = "before" => On("sensor1") /\ Left = 11
        /\ Op.op = "put" => \/ On("sensor1") /\ Left = 9 /\ Op = Put("dim", 0)
                            \/ On("pdline") /\ Left = 4 /\ Op = Put("dim", 0)
        /\ Op.op = "command" => \/ On("sensor1") /\ Left \in {10, 4} /\ Op = Command("aux low")
                                \/ On("sensor1") /\ Left = 7 /\ Op = Command("aux high")
                                \/ On("pdline") /\ Left = 5 /\ Op = Command("push off")
        /\ Op.op = "sleep" => \/ On("sensor1") /\ Left \in {8, 6, 3}
                              \/ On("pdline") /\ Left = 3
        /\ Op.op = "check" => \/ On("sensor1") /\ Left = 5 /\ Op = Check(100)
                              \/ On("sensor1") /\ Left = 2 /\ Op = Check(0)
        /\ Op.op = "push" => \/ On("pdline") /\ Left = 2 /\ Op = Push("push on", 100)
                             \/ On("pdline") /\ Left = 1 /\ Op = Push("push off", 0)
        /\ Op.op = "after" => On("sensor1") /\ Left = 1
        /\ Op.op = "restart" => On("trigger")
<1>1. On("sensor1") \/ On("pdline") \/ On("trigger")
  <2>1. Test \in Tests
    BY UnderWayIs
  <2> QED BY <2>1 DEF On, Tests
<1>2. On("trigger") => Op.op = "restart"
  BY TriggerOps
<1>3. On("sensor1") => Left \in {11, 9} \cup {10, 4} \cup {7} \cup {8, 6, 3} \cup {5} \cup {2} \cup {1}
  BY UnderWayIs
<1>4. On("pdline") => Left \in {5, 4, 3, 2, 1}
  BY UnderWayIs
<1>5. On("sensor1") =>
        /\ Left = 11 => Op.op = "before"
        /\ Left = 9 => Op = Put("dim", 0) /\ Op.op = "put"
        /\ Left = 10 => Op = Command("aux low") /\ Op.op = "command"
        /\ Left = 4 => Op = Command("aux low") /\ Op.op = "command"
        /\ Left = 7 => Op = Command("aux high") /\ Op.op = "command"
  <2>1. On("sensor1") /\ Left = 11 => Op.op = "before"
    <3>1. On("sensor1") /\ Left = 11 => Op = [op |-> "before"]
      BY SensorOps
    <3> QED BY <3>1
  <2>2. On("sensor1") /\ Left = 9 => Op = Put("dim", 0) /\ Op.op = "put"
    BY SensorOps, KindsOf
  <2>3. On("sensor1") /\ Left = 10 => Op = Command("aux low") /\ Op.op = "command"
    BY SensorOps, KindsOf
  <2>4. On("sensor1") /\ Left = 4 => Op = Command("aux low") /\ Op.op = "command"
    BY SensorOps, KindsOf
  <2>5. On("sensor1") /\ Left = 7 => Op = Command("aux high") /\ Op.op = "command"
    BY SensorOps, KindsOf
  <2> QED BY <2>1, <2>2, <2>3, <2>4, <2>5
<1>6. On("sensor1") =>
        /\ Left = 8 => Op.op = "sleep"
        /\ Left = 6 => Op.op = "sleep"
        /\ Left = 3 => Op.op = "sleep"
        /\ Left = 5 => Op = Check(100) /\ Op.op = "check"
        /\ Left = 2 => Op = Check(0) /\ Op.op = "check"
        /\ Left = 1 => Op.op = "after"
  <2>1. On("sensor1") /\ Left = 8 => Op.op = "sleep"
    BY SensorOps, KindsOf
  <2>2. On("sensor1") /\ Left = 6 => Op.op = "sleep"
    BY SensorOps, KindsOf
  <2>3. On("sensor1") /\ Left = 3 => Op.op = "sleep"
    BY SensorOps, KindsOf
  <2>4. On("sensor1") /\ Left = 5 => Op = Check(100) /\ Op.op = "check"
    BY SensorOps, KindsOf
  <2>5. On("sensor1") /\ Left = 2 => Op = Check(0) /\ Op.op = "check"
    BY SensorOps, KindsOf
  <2>6. On("sensor1") /\ Left = 1 => Op.op = "after"
    <3>1. On("sensor1") /\ Left = 1 => Op = [op |-> "after"]
      BY SensorOps
    <3> QED BY <3>1
  <2> QED BY <2>1, <2>2, <2>3, <2>4, <2>5, <2>6
<1>7. On("pdline") =>
        /\ Left = 5 => Op = Command("push off") /\ Op.op = "command"
        /\ Left = 4 => Op = Put("dim", 0) /\ Op.op = "put"
        /\ Left = 3 => Op.op = "sleep"
        /\ Left = 2 => Op = Push("push on", 100) /\ Op.op = "push"
        /\ Left = 1 => Op = Push("push off", 0) /\ Op.op = "push"
  <2>1. On("pdline") /\ Left = 5 => Op = Command("push off") /\ Op.op = "command"
    BY SwitchOps, KindsOf
  <2>2. On("pdline") /\ Left = 4 => Op = Put("dim", 0) /\ Op.op = "put"
    BY SwitchOps, KindsOf
  <2>3. On("pdline") /\ Left = 3 => Op.op = "sleep"
    BY SwitchOps, KindsOf
  <2>4. On("pdline") /\ Left = 2 => Op = Push("push on", 100) /\ Op.op = "push"
    BY SwitchOps, KindsOf
  <2>5. On("pdline") /\ Left = 1 => Op = Push("push off", 0) /\ Op.op = "push"
    BY SwitchOps, KindsOf
  <2> QED BY <2>1, <2>2, <2>3, <2>4, <2>5
<1>8. Op.op = "put" => \/ On("sensor1") /\ Left = 9 /\ Op = Put("dim", 0)
                       \/ On("pdline") /\ Left = 4 /\ Op = Put("dim", 0)
  BY <1>1, <1>2, <1>3, <1>4, <1>5, <1>6, <1>7
<1>9. Op.op = "command" => \/ On("sensor1") /\ Left \in {10, 4} /\ Op = Command("aux low")
                           \/ On("sensor1") /\ Left = 7 /\ Op = Command("aux high")
                           \/ On("pdline") /\ Left = 5 /\ Op = Command("push off")
  BY <1>1, <1>2, <1>3, <1>4, <1>5, <1>6, <1>7
<1>10. Op.op = "sleep" => \/ On("sensor1") /\ Left \in {8, 6, 3}
                          \/ On("pdline") /\ Left = 3
  BY <1>1, <1>2, <1>3, <1>4, <1>5, <1>6, <1>7
<1>11. Op.op = "check" => \/ On("sensor1") /\ Left = 5 /\ Op = Check(100)
                          \/ On("sensor1") /\ Left = 2 /\ Op = Check(0)
  BY <1>1, <1>2, <1>3, <1>4, <1>5, <1>6, <1>7
<1>12. Op.op = "push" => \/ On("pdline") /\ Left = 2 /\ Op = Push("push on", 100)
                         \/ On("pdline") /\ Left = 1 /\ Op = Push("push off", 0)
  BY <1>1, <1>2, <1>3, <1>4, <1>5, <1>6, <1>7
<1>13. Op.op = "after" => On("sensor1") /\ Left = 1
  BY <1>1, <1>2, <1>3, <1>4, <1>5, <1>6, <1>7
<1>15. Op.op = "before" => On("sensor1") /\ Left = 11
  BY <1>1, <1>2, <1>3, <1>4, <1>5, <1>6, <1>7
<1>14. Op.op = "restart" => On("trigger")
  BY <1>1, <1>2, <1>3, <1>4, <1>5, <1>6, <1>7
<1> QED BY <1>8, <1>9, <1>10, <1>11, <1>12, <1>13, <1>14, <1>15

(* The host goes on to the next operation of the same test.                *)
LEMMA Onwards ==
  ASSUME NodeTypeOK, OnScript, pc # "next", pc' # "next", plan' = plan, Left > 0,
         script' = Tail(script)
  PROVE /\ Left' = Left - 1 /\ script' \in Seq(Operations) /\ plan' # <<>>
        /\ Test' = Test /\ \A test : On(test)' <=> On(test)
        /\ Left' <= Len(Script(Test))
        /\ \A k \in 1..Left' : script'[k] = Script(Test)[Len(Script(Test)) - Left' + k]
<1>1. /\ script \in Seq(Operations) /\ script # <<>> /\ Left \in Nat /\ plan # <<>>
      /\ Left <= Len(Script(Test)) /\ Len(Script(Test)) \in Nat
      /\ \A k \in 1..Left : script[k] = Script(Test)[Len(Script(Test)) - Left + k]
  <2>1. Len(Script(Test)) \in Nat
    BY UnderWayIs, Scripts, TestsAssumption DEF Tests
  <2> QED BY <2>1, UnderWayIs DEF NodeTypeOK, OnScript
<1>2. /\ Len(Tail(script)) = Left - 1 /\ Tail(script) \in Seq(Operations)
      /\ \A k \in 1..(Left - 1) : Tail(script)[k] = script[k + 1]
  BY <1>1 DEF Left
<1>3. Left' = Left - 1
  BY <1>2 DEF Left
<1>4. \A k \in 1..Left' : script'[k] = Script(Test)[Len(Script(Test)) - Left' + k]
  <2> SUFFICES ASSUME NEW k \in 1..Left'
      PROVE script'[k] = Script(Test)[Len(Script(Test)) - Left' + k]
    OBVIOUS
  <2>1. k + 1 \in 1..Left /\ script'[k] = script[k + 1]
    BY <1>1, <1>2, <1>3
  <2>2. Len(Script(Test)) - Left + (k + 1) = Len(Script(Test)) - Left' + k
    BY <1>1, <1>3
  <2> QED BY <1>1, <2>1, <2>2
<1> QED BY <1>1, <1>2, <1>3, <1>4 DEF On, Test

(* The scripts consist of operations.                                      *)
LEMMA ScriptsTyped == ASSUME NEW test \in Tests PROVE Script(test) \in Seq(Operations)
<1>1. \A k \in 1..11 : sensor_test[k] \in Operations
  BY DEF Operations
<1>2. \A k \in 1..5 : wall_switch_test[k] \in Operations
  BY DEF Operations
<1>3. sensor_test \in Seq(Operations)
  <2>1. sensor_test = [k \in 1..11 |-> sensor_test[k]]
    BY DEF sensor_test
  <2> QED BY <1>1, <2>1
<1>4. wall_switch_test \in Seq(Operations)
  <2>1. wall_switch_test = [k \in 1..5 |-> wall_switch_test[k]]
    BY DEF wall_switch_test
  <2> QED BY <1>2, <2>1
<1>5. trigger_test \in Seq(Operations)
  <2>1. [op |-> "restart"] \in Operations
    BY DEF Operations
  <2> QED BY <2>1, TestsAssumption DEF trigger_test
<1> QED BY <1>3, <1>4, <1>5, Scripts DEF Tests

(* Everything about a test is false between two tests.                     *)
LEMMA BetweenTests ==
  ASSUME pc = "next"
  PROVE \A test : ~On(test)
BY DEF On

(* A test begins.                                                          *)
LEMMA StartTestStep == ASSUME NodeInv, StartTest PROVE NodeInv'
<1>1. /\ pc = "next" /\ plan # <<>> /\ pc' = "run" /\ script' = Script(Test)
      /\ passed' = TRUE /\ attempts' = 0
      /\ UNCHANGED <<plan, unread, good, verdicts, clean, line, aux, follows, events, dim, mode, motdsbl,
                     up, reboot, lost, late>>
  BY DEF StartTest, nodeVars
<1>2. /\ Test \in Tests /\ Test' = Test /\ Script(Test) \in Seq(Operations)
      /\ Left' = Len(Script(Test)) /\ Left' \in Nat
  <2>1. Test \in Tests
    BY <1>1 DEF NodeInv, NodeTypeOK, Test
  <2>2. Script(Test) \in Seq(Operations)
    BY <2>1, ScriptsTyped
  <2> QED BY <1>1, <2>1, <2>2 DEF Left, Test
<1>3. /\ \A test : On(test)' <=> Test = test
      /\ \A test : ~On(test)
      /\ On("sensor1")' => Left' = 11
      /\ On("pdline")' => Left' = 5
  BY <1>1, <1>2, Scripts DEF On
<1>4. Restarted' = Restarted
  BY <1>1 DEF Restarted
<1>5. NodeTypeOK'
  BY <1>1, <1>2 DEF NodeInv, NodeTypeOK
<1>6. OnScript'
  <2>1. /\ Script(Test)' = Script(Test)
        /\ \A k \in 1..Left' : script'[k] = Script(Test)[Len(Script(Test)) - Left' + k]
    BY <1>1, <1>2
  <2> QED BY <1>1, <1>2, <1>3, <2>1 DEF OnScript
<1>7. Steady' /\ Restoring'
  BY <1>1, <1>3, <1>4 DEF NodeInv, Steady, Restoring
<1>8. passed' /\ pc' # "read" /\ pc' # "motdsbl"
  BY <1>1
<1>9. On("sensor1")' => /\ Left' \notin {6, 5} /\ Left' # 4 /\ Left' \notin {3, 2}
                        /\ ~(Left' <= 4) /\ ~(Left' <= 1)
  BY <1>3
<1>10. SensorEarned'
  BY <1>9 DEF SensorEarned
<1>11. On("sensor1")' => /\ Left' \notin 2..10 /\ Left' \notin {9, 8} /\ Left' # 7 /\ Left' # 6
                         /\ Left' \notin {5, 4} /\ Left' # 3 /\ Left' # 2
  BY <1>3
<1>12. SensorGood'
  BY <1>8, <1>11 DEF SensorGood
<1>13. On("pdline")' => Left' # 2 /\ Left' # 1 /\ Left' # 0 /\ ~(Left' <= 1) /\ Left' > 0
  BY <1>3
<1>14. SwitchEarned' /\ SwitchGood'
  BY <1>8, <1>13 DEF SwitchEarned, SwitchGood
<1> QED BY <1>5, <1>6, <1>7, <1>10, <1>12, <1>14 DEF NodeInv

(* A test ends, and its verdict is noted.                                  *)
LEMMA EndTestStep == ASSUME NodeInv, EndTest PROVE NodeInv'
<1>1. /\ pc = "run" /\ script = <<>> /\ pc' = "next" /\ plan' = Tail(plan)
      /\ verdicts' = Append(verdicts, <<Test, passed>>)
      /\ UNCHANGED <<script, attempts, unread, good, passed, clean, line, aux, follows, events,
                     dim, mode, motdsbl, up, reboot, lost, late>>
  BY DEF EndTest, nodeVars
<1>2. plan # <<>> /\ plan \in Seq(Tests) /\ Test \in Tests /\ Left = 0
  BY <1>1, UnderWayIs DEF NodeInv, NodeTypeOK, OnScript, Left
<1>3. \A test : ~On(test)'
  BY <1>1 DEF On
<1>4. (Restarted => Restarted') /\ (On("trigger") => Restarted')
  <2>1. /\ verdicts \in Seq(Tests \X BOOLEAN) /\ <<Test, passed>> \in Tests \X BOOLEAN
        /\ <<Test, passed>>[1] = Test
    BY <1>2 DEF NodeInv, NodeTypeOK
  <2>2. /\ Len(verdicts) + 1 \in DOMAIN verdicts' /\ verdicts'[Len(verdicts) + 1] = <<Test, passed>>
        /\ \A k \in DOMAIN verdicts : k \in DOMAIN verdicts' /\ verdicts'[k] = verdicts[k]
    BY <1>1, <2>1
  <2> QED BY <2>1, <2>2 DEF Restarted, On
<1>5. NodeTypeOK'
  <2>1. plan' \in Seq(Tests) /\ verdicts' \in Seq(Tests \X BOOLEAN)
    BY <1>1, <1>2 DEF NodeInv, NodeTypeOK
  <2> QED BY <1>1, <2>1 DEF NodeInv, NodeTypeOK
<1>6. OnScript'
  BY <1>1, <1>3 DEF OnScript
<1>7. Steady' /\ Restoring'
  BY <1>1, <1>2, <1>3, <1>4 DEF NodeInv, Steady, Restoring
<1>8. SensorEarned' /\ SwitchEarned' /\ SensorGood' /\ SwitchGood'
  BY <1>3 DEF SensorEarned, SwitchEarned, SensorGood, SwitchGood
<1> QED BY <1>5, <1>6, <1>7, <1>8 DEF NodeInv

(* The firmware and the node leave the host where it is.                   *)
LEMMA HostStays ==
  ASSUME NodeInv, UNCHANGED <<pc, plan, script, attempts, verdicts, follows>>
  PROVE /\ Left' = Left /\ (\A test : On(test)' <=> On(test)) /\ Restarted' = Restarted
        /\ AllFollow' = AllFollow /\ OnScript'
        /\ pc # "next" => Left \in Nat
<1>1. Left' = Left /\ Test' = Test
  BY DEF Left, Test
<1>2. \A test : On(test)' <=> On(test)
  BY <1>1 DEF On
<1>3. OnScript'
  BY <1>1, <1>2 DEF NodeInv, OnScript
<1> QED BY <1>1, <1>2, <1>3, UnderWayIs DEF Restarted, AllFollow, NodeInv

(* A command is lost.                                                      *)
LEMMA LoseCommandStep == ASSUME NodeInv, LoseCommand PROVE NodeInv'
<1>1. /\ line # <<>> /\ line' = Tail(line) /\ lost' = lost + 1
      /\ UNCHANGED <<pc, plan, script, attempts, unread, good, passed, verdicts, clean, aux,
                     follows, events, dim, mode, motdsbl, up, reboot, late>>
  BY DEF LoseCommand, hostVars, nodeVars
<1>2. /\ line \in Seq(Commands) /\ Len(line') = Len(line) - 1 /\ Len(line) \in Nat
      /\ \A k \in 1..Len(line') : k + 1 \in 1..Len(line) /\ line'[k] = line[k + 1]
      /\ line' \in Seq(Commands) /\ lost \in Nat /\ late \in Nat /\ attempts \in Nat
      /\ Len(events) \in Nat /\ Attempts \in Nat
  BY <1>1, TestsAssumption DEF NodeInv, NodeTypeOK
<1>3. /\ Left' = Left /\ (\A test : On(test)' <=> On(test)) /\ Restarted' = Restarted
      /\ AllFollow' = AllFollow /\ OnScript'
  BY <1>1, HostStays
<1>4. NodeTypeOK'
  BY <1>1, <1>2 DEF NodeInv, NodeTypeOK
<1>5. Steady'
  BY <1>1, <1>3 DEF NodeInv, Steady
<1>6. Restoring'
  <2>1. lost' < Tries => lost < Tries
    BY <1>1, <1>2, TestsAssumption
  <2>2. /\ lost >= attempts + (IF pc = "verify" THEN 1 ELSE 0) =>
             lost' >= attempts + (IF pc = "verify" THEN 1 ELSE 0)
        /\ lost >= attempts + (IF pc = "reverify" THEN 1 ELSE 0) =>
             lost' >= attempts + (IF pc = "reverify" THEN 1 ELSE 0)
    BY <1>1, <1>2
  <2> QED BY <1>1, <1>3, <2>1, <2>2 DEF NodeInv, Restoring
<1>7. \A c, e : OnlyOf(c, e) => OnlyOf(c, e)'
  BY <1>1, <1>2 DEF OnlyOf
<1>8. SensorEarned'
  <2>1. Settled' => line' = <<>> /\ events = <<>>
    BY <1>1 DEF Settled
  <2>2. ~Settled
    BY <1>1 DEF Settled
  <2>3. Len(line) + Len(events) <= 1 => Len(line') + Len(events') <= 1
    BY <1>1, <1>2
  <2> QED BY <1>1, <1>3, <1>7, <2>2, <2>3 DEF NodeInv, SensorEarned, Dark, ReadSoFar
<1>9. SwitchEarned'
  BY <1>1, <1>3, <1>7 DEF NodeInv, SwitchEarned, ReadSoFar
<1>10. SensorGood'
  <2>1. lost' # 0
    BY <1>1, <1>2
  <2> QED BY <2>1 DEF SensorGood
<1>11. SwitchGood'
  <2>1. ASSUME NEW c, NEW e, Attempted(c, e) PROVE Attempted(c, e)'
    <3>1. ~Settled
      BY <1>1 DEF Settled
    <3>2. lost + late >= attempts /\ lost' + late' >= attempts' + 1
      BY <1>1, <1>2, <2>1 DEF Attempted
    <3>3. lost' + late' >= attempts'
      BY <1>1, <1>2, <3>2
    <3> QED BY <3>2, <3>3 DEF Attempted
  <2>2. lost + late >= Attempts => lost' + late' >= Attempts
    BY <1>1, <1>2
  <2> QED BY <1>1, <1>3, <2>1, <2>2 DEF NodeInv, SwitchGood
<1> QED BY <1>3, <1>4, <1>5, <1>6, <1>8, <1>9, <1>10, <1>11 DEF NodeInv

(* A node that restarts goes down, and comes up again.                     *)
LEMMA GoDownStep == ASSUME NodeInv, GoDown PROVE NodeInv'
<1>1. /\ reboot /\ up /\ up' = FALSE /\ reboot' = FALSE /\ events' = <<>>
      /\ UNCHANGED <<pc, plan, script, attempts, unread, good, passed, verdicts, clean, line, aux,
                     follows, dim, mode, motdsbl, lost, late>>
  BY DEF GoDown, hostVars
<1>2. /\ Left' = Left /\ (\A test : On(test)' <=> On(test)) /\ Restarted' = Restarted
      /\ AllFollow' = AllFollow /\ OnScript'
  BY <1>1, HostStays
<1>3. NodeTypeOK'
  <2>1. events' \in Seq(Inputs)
    BY <1>1
  <2> QED BY <1>1, <2>1 DEF NodeInv, NodeTypeOK
<1>4. Restarted \/ On("trigger")
  BY <1>1 DEF NodeInv, Steady
<1>5. (~On("sensor1") /\ ~On("pdline")) \/ Restarted
  BY <1>4 DEF On
<1>6. Steady' /\ SensorGood' /\ SwitchGood'
  BY <1>2, <1>4, <1>5 DEF Steady, SensorGood, SwitchGood
<1>7. Restoring'
  BY <1>1, <1>2 DEF NodeInv, Restoring
<1>8. /\ Len(events') = 0 /\ Len(events) \in Nat /\ Len(line) \in Nat
      /\ Len(line) + Len(events) <= 1 => Len(line) + 0 <= 1
  BY <1>1 DEF NodeInv, NodeTypeOK
<1>9. \A c, e : OnlyOf(c, e) => OnlyOf(c, e)'
  BY <1>1, <1>8 DEF OnlyOf
<1>10. Settled => Settled'
  BY <1>1 DEF Settled
<1>11. SensorEarned'
  BY <1>1, <1>2, <1>8, <1>9, <1>10 DEF NodeInv, SensorEarned, Dark, ReadSoFar
<1>12. SwitchEarned'
  BY <1>1, <1>2, <1>9 DEF NodeInv, SwitchEarned, ReadSoFar
<1> QED BY <1>2, <1>3, <1>6, <1>7, <1>11, <1>12 DEF NodeInv

LEMMA ComeUpStep == ASSUME NodeInv, ComeUp PROVE NodeInv'
<1>1. /\ ~up /\ up' = TRUE
      /\ UNCHANGED <<pc, plan, script, attempts, unread, good, passed, verdicts, clean, line, aux,
                     follows, events, dim, mode, motdsbl, reboot, lost, late>>
  BY DEF ComeUp, hostVars
<1>2. /\ Left' = Left /\ (\A test : On(test)' <=> On(test)) /\ Restarted' = Restarted
      /\ AllFollow' = AllFollow /\ OnScript'
  BY <1>1, HostStays
<1>3. NodeTypeOK' /\ Steady' /\ Restoring'
  BY <1>1, <1>2 DEF NodeInv, NodeTypeOK, Steady, Restoring
<1>4. (\A c, e : OnlyOf(c, e)' <=> OnlyOf(c, e)) /\ Settled' = Settled /\ Dark' = Dark
  BY <1>1 DEF OnlyOf, Settled, Dark
<1>5. SensorEarned' /\ SwitchEarned'
  BY <1>1, <1>2, <1>4 DEF NodeInv, SensorEarned, SwitchEarned, ReadSoFar
<1>6. SensorGood'
  BY <1>1, <1>2, <1>4 DEF NodeInv, SensorGood, Changing
<1>7. SwitchGood'
  <2>1. \A c, e : Attempted(c, e) => Attempted(c, e)'
    BY <1>1, <1>4 DEF Attempted, Pushing
  <2> QED BY <1>1, <1>2, <2>1 DEF NodeInv, SwitchGood
<1> QED BY <1>2, <1>3, <1>5, <1>6, <1>7 DEF NodeInv

(* What is left of a sequence when its first element is taken.             *)
LEMMA HeadAndTail ==
  ASSUME NEW S, NEW s \in Seq(S), s # <<>>
  PROVE /\ Len(s) \in Nat /\ Len(s) >= 1 /\ Head(s) = s[1] /\ Head(s) \in S
        /\ Tail(s) \in Seq(S) /\ Len(Tail(s)) = Len(s) - 1
        /\ \A k \in 1..(Len(s) - 1) : k + 1 \in 1..Len(s) /\ Tail(s)[k] = s[k + 1]
        /\ Len(s) = 1 <=> Tail(s) = <<>>
<1>1. Len(s) \in Nat /\ Len(s) >= 1 /\ Head(s) = s[1] /\ Head(s) \in S
  OBVIOUS
<1>2. Tail(s) \in Seq(S) /\ Len(Tail(s)) = Len(s) - 1
  OBVIOUS
<1>3. \A k \in 1..(Len(s) - 1) : k + 1 \in 1..Len(s) /\ Tail(s)[k] = s[k + 1]
  BY <1>1
<1>4. Len(s) = 1 <=> Tail(s) = <<>>
  <2>1. \A t \in Seq(S) : Len(t) = 0 <=> t = <<>>
    OBVIOUS
  <2>2. Len(s) = 1 <=> Len(Tail(s)) = 0
    BY <1>1, <1>2
  <2> QED BY <1>2, <2>1, <2>2
<1> QED BY <1>1, <1>2, <1>3, <1>4

(* A sequence of one element.                                              *)
LEMMA Single ==
  ASSUME NEW x
  PROVE Len(<<x>>) = 1 /\ <<x>>[1] = x /\ Head(<<x>>) = x /\ Tail(<<x>>) = <<>> /\ <<x>> # <<>>
        /\ <<>> \o <<x>> = <<x>> /\ Len(<<>>) = 0
OBVIOUS

(* The edges of a command.                                                 *)
LEMMA EdgeIs ==
  /\ Edge("aux high") = IF aux THEN <<>> ELSE <<"rise">>
  /\ Edge("aux low") = IF aux THEN <<"fall">> ELSE <<>>
  /\ Edge("push on") = <<"on">> /\ Edge("push off") = <<"off">>
  /\ \A cmd \in Commands : Edge(cmd) \in Seq(Inputs) /\ Len(Edge(cmd)) \in {0, 1}
<1>1. /\ Edge("aux high") = IF aux THEN <<>> ELSE <<"rise">>
      /\ Edge("aux low") = IF aux THEN <<"fall">> ELSE <<>>
      /\ Edge("push on") = <<"on">> /\ Edge("push off") = <<"off">>
  BY DEF Edge
<1>2. /\ <<>> \in Seq(Inputs) /\ <<"rise">> \in Seq(Inputs) /\ <<"fall">> \in Seq(Inputs)
      /\ <<"on">> \in Seq(Inputs) /\ <<"off">> \in Seq(Inputs)
  BY DEF Inputs
<1>3. /\ Len(<<>>) = 0 /\ Len(<<"rise">>) = 1 /\ Len(<<"fall">>) = 1
      /\ Len(<<"on">>) = 1 /\ Len(<<"off">>) = 1
  OBVIOUS
<1> QED BY <1>1, <1>2, <1>3 DEF Commands

(* The firmware carries out a command, and the node sees the edge.         *)
LEMMA FirmwareStep == ASSUME NodeInv, processSerialCommand PROVE NodeInv'
<1>1. /\ line # <<>> /\ line' = Tail(line)
      /\ aux' = (Head(line) = "aux high" \/ (aux /\ Head(line) # "aux low"))
      /\ events' = IF up THEN events \o Edge(Head(line)) ELSE events
      /\ UNCHANGED <<pc, plan, script, attempts, unread, good, passed, verdicts, clean,
                     follows, dim, mode, motdsbl, up, reboot, lost, late>>
  BY DEF processSerialCommand, hostVars
<1>2. /\ line \in Seq(Commands) /\ Len(line') = Len(line) - 1 /\ Len(line) \in Nat /\ Len(line) >= 1
      /\ \A k \in 1..Len(line') : k + 1 \in 1..Len(line) /\ line'[k] = line[k + 1]
      /\ line' \in Seq(Commands) /\ Head(line) = line[1] /\ Head(line) \in Commands
      /\ events \in Seq(Inputs) /\ Len(events) \in Nat
  <2>1. line \in Seq(Commands) /\ events \in Seq(Inputs) /\ Len(events) \in Nat
    BY DEF NodeInv, NodeTypeOK
  <2> QED BY <1>1, <2>1, HeadAndTail
<1>3. /\ Left' = Left /\ (\A test : On(test)' <=> On(test)) /\ Restarted' = Restarted
      /\ AllFollow' = AllFollow /\ OnScript'
  BY <1>1, HostStays
<1>4. PICK edge \in Seq(Inputs) : edge = Edge(Head(line)) /\ Len(edge) \in {0, 1}
  BY <1>2, EdgeIs
<1>5. /\ events \o edge \in Seq(Inputs) /\ Len(events \o edge) = Len(events) + Len(edge)
      /\ \A k \in 1..Len(events) : (events \o edge)[k] = events[k]
      /\ Len(edge) = 1 => (events \o edge)[Len(events) + 1] = edge[1]
  BY <1>2, <1>4
<1>6. NodeTypeOK'
  <2>1. events' \in Seq(Inputs)
    BY <1>1, <1>2, <1>4, <1>5
  <2>2. aux' \in BOOLEAN
    BY <1>1
  <2> QED BY <1>1, <1>2, <2>1, <2>2 DEF NodeInv, NodeTypeOK
<1>7. Steady' /\ Restoring'
  BY <1>1, <1>3 DEF NodeInv, Steady, Restoring
<1>8. ~Settled
  BY <1>1 DEF Settled
<1>9. ASSUME NEW c, NEW e, OnlyOf(c, e), Len(edge) = 1 => edge[1] \in e
      PROVE OnlyOf(c, e)'
  <2>1. \A k \in 1..Len(line') : line'[k] \in c
    BY <1>2, <1>9 DEF OnlyOf
  <2>2. \A k \in 1..Len(events') : events'[k] \in e
    <3>1. CASE ~up
      BY <1>1, <1>9, <3>1 DEF OnlyOf
    <3>2. CASE up
      <4>1. events' = events \o edge
        BY <1>1, <1>4, <3>2
      <4>2. Len(events') = Len(events) + Len(edge) /\ Len(edge) \in {0, 1}
        BY <1>4, <1>5, <4>1
      <4>3. \A k \in 1..Len(events') : k \in 1..Len(events) \/ (k = Len(events) + 1 /\ Len(edge) = 1)
        BY <1>2, <4>2
      <4>4. \A k \in 1..Len(events) : events'[k] \in e
        BY <1>5, <1>9, <4>1 DEF OnlyOf
      <4>5. Len(edge) = 1 => events'[Len(events) + 1] \in e
        BY <1>5, <1>9, <4>1
      <4> QED BY <4>3, <4>4, <4>5
    <3> QED BY <3>1, <3>2
  <2> QED BY <2>1, <2>2 DEF OnlyOf
<1>10. \A c, e : OnlyOf(c, e) => Head(line) \in c
  BY <1>2 DEF OnlyOf
<1>11. /\ OnlyOf({"aux high"}, {"rise"}) => OnlyOf({"aux high"}, {"rise"})'
       /\ OnlyOf({"aux low"}, {"fall"}) => OnlyOf({"aux low"}, {"fall"})'
       /\ OnlyOf({"push on"}, {"on"}) => OnlyOf({"push on"}, {"on"})'
       /\ OnlyOf({"push on", "push off"}, {"on", "off"}) =>
            OnlyOf({"push on", "push off"}, {"on", "off"})'
  <2>1. /\ Head(line) = "aux high" => (Len(edge) = 1 => edge[1] = "rise")
        /\ Head(line) = "aux low" => (Len(edge) = 1 => edge[1] = "fall")
        /\ Head(line) = "push on" => (Len(edge) = 1 => edge[1] = "on")
        /\ Head(line) = "push off" => (Len(edge) = 1 => edge[1] = "off")
    <3>1. ASSUME NEW x, edge = <<x>> \/ edge = <<>>, Len(edge) = 1 PROVE edge[1] = x
      BY <3>1, Single
    <3>2. /\ Head(line) = "aux high" => edge = <<"rise">> \/ edge = <<>>
          /\ Head(line) = "aux low" => edge = <<"fall">> \/ edge = <<>>
          /\ Head(line) = "push on" => edge = <<"on">> \/ edge = <<>>
          /\ Head(line) = "push off" => edge = <<"off">> \/ edge = <<>>
      BY <1>4, EdgeIs
    <3> QED BY <3>1, <3>2
  <2>2. ASSUME OnlyOf({"aux high"}, {"rise"}) PROVE OnlyOf({"aux high"}, {"rise"})'
    BY <1>9, <1>10, <2>1, <2>2
  <2>3. ASSUME OnlyOf({"aux low"}, {"fall"}) PROVE OnlyOf({"aux low"}, {"fall"})'
    BY <1>9, <1>10, <2>1, <2>3
  <2>4. ASSUME OnlyOf({"push on"}, {"on"}) PROVE OnlyOf({"push on"}, {"on"})'
    BY <1>9, <1>10, <2>1, <2>4
  <2>5. ASSUME OnlyOf({"push on", "push off"}, {"on", "off"})
        PROVE OnlyOf({"push on", "push off"}, {"on", "off"})'
    BY <1>9, <1>10, <2>1, <2>5
  <2> QED BY <2>2, <2>3, <2>4, <2>5
<1>12. SensorEarned'
  <2>1. Len(line) + Len(events) <= 1 => Len(line') + Len(events') <= 1
    <3>1. Len(events') <= Len(events) + 1 /\ Len(events') \in Nat
      <4>1. Len(events') \in {Len(events), Len(events \o edge)}
        BY <1>1, <1>4
      <4>2. Len(events \o edge) \in {Len(events), Len(events) + 1}
        <5>1. Len(events \o edge) = Len(events) + Len(edge) /\ (Len(edge) = 0 \/ Len(edge) = 1)
          BY <1>4, <1>5
        <5>2. Len(events) \in Nat
          BY <1>2
        <5>3. Len(edge) = 0 => Len(events) + Len(edge) = Len(events)
          BY <5>2
        <5>4. Len(edge) = 1 => Len(events) + Len(edge) = Len(events) + 1
          OBVIOUS
        <5> QED BY <5>1, <5>3, <5>4, Zenon
      <4> QED BY <1>2, <4>1, <4>2
    <3> QED BY <1>2, <3>1
  <2> QED BY <1>1, <1>3, <1>8, <1>11, <2>1 DEF NodeInv, SensorEarned, Dark, ReadSoFar
<1>13. SwitchEarned'
  BY <1>1, <1>3, <1>11 DEF NodeInv, SwitchEarned, ReadSoFar
<1>14. SensorGood'
  <2> SUFFICES ASSUME On("sensor1"), AllFollow, ~Restarted, lost = 0, late = 0
      PROVE SensorGood'
    BY <1>1, <1>3 DEF SensorGood
  <2>1. up /\ passed /\ (pc = "read" => good) /\ (Left \in 2..10 \/ pc = "motdsbl" => mode = OnOff)
    BY DEF NodeInv, Steady, SensorGood, On
  <2>2. Left \notin {7, 5, 4, 2}
    BY <1>8 DEF NodeInv, SensorGood
  <2>3. Left \in {9, 8} => IF line' = <<>> THEN ~aux' ELSE line'[Len(line')] = "aux low"
    <3> SUFFICES ASSUME Left \in {9, 8}
        PROVE IF line' = <<>> THEN ~aux' ELSE line'[Len(line')] = "aux low"
      OBVIOUS
    <3>1. line[Len(line)] = "aux low"
      BY <1>1 DEF NodeInv, SensorGood
    <3>2. CASE line' = <<>>
      <4>1. Len(line') = 0
        BY <3>2
      <4>2. Len(line) = 1
        BY <1>2, <4>1
      <4> QED BY <1>1, <1>2, <3>1, <3>2, <4>2
    <3>3. CASE line' # <<>>
      <4>1. Len(line') \in 1..Len(line') /\ Len(line') + 1 = Len(line)
        BY <1>2, <3>3
      <4> QED BY <1>2, <3>1, <3>3, <4>1
    <3> QED BY <3>2, <3>3
  <2>4. ASSUME NEW cmd, NEW high \in BOOLEAN, NEW input, Changing(cmd, high, input),
               Edge(cmd) = <<input>>, aux' = high
        PROVE Changing(cmd, high, input)'
    <3>1. line = <<cmd>> /\ events = <<>>
      BY <1>1, <1>8, <2>4 DEF Changing
    <3>2. line' = <<>> /\ Head(line) = cmd
      BY <1>1, <3>1, Single
    <3>3. events' = <<input>>
      <4>1. events' = events \o <<input>>
        BY <1>1, <2>1, <2>4, <3>2
      <4> QED BY <3>1, <4>1, Single
    <3> QED BY <2>4, <3>2, <3>3 DEF Changing
  <2>5. ASSUME Left = 6 PROVE Changing("aux high", TRUE, "rise")'
    <3>1. Changing("aux high", TRUE, "rise")
      BY <2>5 DEF NodeInv, SensorGood
    <3>2. line = <<"aux high">> /\ ~aux
      BY <1>1, <1>8, <3>1 DEF Changing
    <3>3. Head(line) = "aux high"
      BY <3>2, Single
    <3>4. Edge("aux high") = <<"rise">> /\ aux' = TRUE
      BY <1>1, <3>2, <3>3, EdgeIs
    <3> QED BY <2>4, <3>1, <3>4
  <2>6. ASSUME Left = 3 PROVE Changing("aux low", FALSE, "fall")'
    <3>1. Changing("aux low", FALSE, "fall")
      BY <2>6 DEF NodeInv, SensorGood
    <3>2. line = <<"aux low">> /\ aux
      BY <1>1, <1>8, <3>1 DEF Changing
    <3>3. Head(line) = "aux low"
      BY <3>2, Single
    <3>4. Edge("aux low") = <<"fall">> /\ aux' = FALSE
      BY <1>1, <3>2, <3>3, EdgeIs
    <3> QED BY <2>4, <3>1, <3>4
  <2> QED BY <1>1, <1>3, <2>1, <2>2, <2>3, <2>5, <2>6 DEF SensorGood
<1>15. SwitchGood'
  <2> SUFFICES ASSUME On("pdline"), AllFollow, ~Restarted
      PROVE SwitchGood'
    BY <1>1, <1>3 DEF SwitchGood
  <2>1. up
    BY DEF NodeInv, Steady, On
  <2>2. ASSUME NEW cmd, NEW input, Edge(cmd) = <<input>>, Pushing(cmd, input)
        PROVE Pushing(cmd, input)'
    <3>1. line[Len(line)] = cmd
      BY <1>1, <2>2 DEF Pushing
    <3>2. CASE line' = <<>>
      <4>1. Len(line') = 0
        BY <3>2
      <4>2. Len(line) = 1
        BY <1>2, <4>1
      <4>3. edge = <<input>>
        BY <1>2, <1>4, <2>2, <3>1, <4>2
      <4>4. Len(edge) = 1 /\ edge[1] = input
        BY <4>3
      <4>5. events' = events \o edge
        BY <1>1, <1>4, <2>1
      <4>6. Len(events') = Len(events) + 1 /\ events'[Len(events) + 1] = input
        BY <1>5, <4>4, <4>5
      <4>7. events' # <<>> /\ events'[Len(events')] = input
        BY <1>2, <4>6
      <4> QED BY <3>2, <4>7 DEF Pushing
    <3>3. CASE line' # <<>>
      <4>1. Len(line') \in 1..Len(line') /\ Len(line') + 1 = Len(line)
        BY <1>2, <3>3
      <4> QED BY <1>2, <3>1, <3>3, <4>1 DEF Pushing
    <3> QED BY <3>2, <3>3
  <2>3. ASSUME NEW cmd, NEW input, Edge(cmd) = <<input>>, Attempted(cmd, input)
        PROVE Attempted(cmd, input)'
    BY <1>1, <1>8, <2>2, <2>3 DEF Attempted
  <2>4. /\ Left = 2 => Attempted("push on", "on")'
        /\ Left = 1 => Attempted("push off", "off")'
    BY <2>3, EdgeIs DEF NodeInv, SwitchGood
  <2> QED BY <1>1, <1>3, <2>4 DEF NodeInv, SwitchGood
<1> QED BY <1>3, <1>6, <1>7, <1>12, <1>13, <1>14, <1>15 DEF NodeInv

(* The node reacts to the oldest edge.                                     *)
LEMMA ReactStep == ASSUME NodeInv, React PROVE NodeInv'
<1> DEFINE heard == IF Head(events) \in {"rise", "fall"} /\ mode # OnOff THEN {}
                    ELSE follows[Head(events)]
<1>0. PICK input : input = Head(events)
  OBVIOUS
<1>1. /\ up /\ events # <<>> /\ events' = Tail(events)
      /\ dim' = [a \in Actuators |-> IF a \in heard THEN Level(input) ELSE dim[a]]
      /\ UNCHANGED <<pc, plan, script, attempts, unread, good, passed, verdicts, clean, line, aux,
                     follows, mode, motdsbl, up, reboot, lost, late>>
  BY <1>0 DEF React, hostVars
<1>2. /\ events \in Seq(Inputs) /\ Len(events') = Len(events) - 1 /\ Len(events) \in Nat
      /\ Len(events) >= 1 /\ events' \in Seq(Inputs) /\ input = events[1] /\ input \in Inputs
      /\ \A k \in 1..Len(events') : k + 1 \in 1..Len(events) /\ events'[k] = events[k + 1]
      /\ line \in Seq(Commands) /\ Len(line) \in Nat
  <2>1. line \in Seq(Commands) /\ events \in Seq(Inputs) /\ Len(line) \in Nat
    BY DEF NodeInv, NodeTypeOK
  <2> QED BY <1>0, <1>1, <2>1, HeadAndTail
<1>3. /\ Left' = Left /\ (\A test : On(test)' <=> On(test)) /\ Restarted' = Restarted
      /\ AllFollow' = AllFollow /\ OnScript'
  BY <1>1, HostStays
<1>4. /\ Level("rise") = 100 /\ Level("on") = 100 /\ Level("fall") = 0 /\ Level("off") = 0
      /\ Level(input) \in {0, 100}
  BY DEF Level
<1>5. /\ \A a \in Actuators : dim'[a] = Level(input) \/ dim'[a] = dim[a]
      /\ \A a \in Actuators : dim'[a] = Level(input) \/ a \notin heard
      /\ \A a \in Actuators : dim'[a] = dim[a] \/ a \in heard
      /\ heard \subseteq follows[input]
      /\ input \in {"on", "off"} \/ mode = OnOff => heard = follows[input]
  BY <1>0, <1>1
<1> HIDE DEF heard
<1>51. \A a \in Actuators : dim'[a] = dim[a] \/ a \in follows[input]
  BY <1>5
<1>52. \A a \in Actuators : dim'[a] = Level(input) \/ dim'[a] = dim[a]
  BY <1>5
<1>53. 0 # 100
  OBVIOUS
<1>6. NodeTypeOK'
  <2>1. dim' \in [Actuators -> {0, 100}]
    BY <1>1, <1>4 DEF NodeInv, NodeTypeOK
  <2> QED BY <1>1, <1>2, <2>1 DEF NodeInv, NodeTypeOK
<1>7. Steady' /\ Restoring'
  BY <1>1, <1>3 DEF NodeInv, Steady, Restoring
<1>8. ~Settled
  BY <1>1 DEF Settled
<1>9. \A c, e : OnlyOf(c, e) => OnlyOf(c, e)' /\ input \in e
  BY <1>1, <1>2 DEF OnlyOf
<1>10. SensorEarned'
  <2> SUFFICES ASSUME On("sensor1"), clean, passed PROVE SensorEarned'
    BY <1>1, <1>3 DEF SensorEarned
  <2>1. Left # 4
    BY <1>8 DEF NodeInv, SensorEarned
  <2>2. ASSUME Left \in {6, 5}
        PROVE /\ OnlyOf({"aux high"}, {"rise"})' /\ Len(line') + Len(events') <= 1
              /\ Settled'
              /\ \A a \in Actuators : dim'[a] = 100 => a \in follows["rise"]
              /\ ReadSoFar(100)'
    <3>1. /\ OnlyOf({"aux high"}, {"rise"}) /\ Len(line) + Len(events) <= 1 /\ Dark
          /\ ReadSoFar(100)
      BY <1>8, <2>2 DEF NodeInv, SensorEarned
    <3>2. OnlyOf({"aux high"}, {"rise"})' /\ input = "rise"
      BY <1>9, <3>1
    <3>3. Len(line) = 0 /\ Len(events') = 0 /\ Len(events) = 1
      <4>1. Len(line) + Len(events) <= 1 /\ Len(events') = Len(events) - 1
        BY <1>2, <3>1
      <4> QED BY <1>2, <4>1
    <3>4. Settled'
      <4>1. line' = <<>> /\ events' = <<>>
        BY <1>1, <1>2, <3>3
      <4> QED BY <4>1 DEF Settled
    <3>5. \A a \in Actuators : dim'[a] = 100 => a \in follows["rise"]
      <4>1. \A a \in Actuators : dim[a] # 100
        BY <1>53, <3>1, Zenon DEF Dark
      <4>2. \A a \in Actuators : dim'[a] = dim[a] \/ a \in follows["rise"]
        BY <1>51, <3>2
      <4> SUFFICES ASSUME NEW a \in Actuators, dim'[a] = 100 PROVE a \in follows["rise"]
        OBVIOUS
      <4>3. dim'[a] = dim[a] \/ a \in follows["rise"]
        BY <4>2
      <4>4. dim'[a] # dim[a]
        BY <4>1
      <4> QED BY <4>3, <4>4
    <3>6. ReadSoFar(100)'
      <4>1. \A a \in Actuators : dim[a] # 100
        BY <1>53, <3>1, Zenon DEF Dark
      <4>2. pc = "read" /\ good => \A a \in Actuators \ unread : dim[a] = 100 /\ a \in Actuators
        BY <3>1 DEF ReadSoFar
      <4>3. pc = "read" /\ good => \A a \in Actuators \ unread : dim'[a] = 100
        BY <4>1, <4>2, Zenon
      <4> QED BY <1>1, <4>3 DEF ReadSoFar
    <3>7. Len(line') + Len(events') <= 1
      <4>1. Len(line') = 0
        BY <1>1, <3>3
      <4> QED BY <3>3, <4>1
    <3> QED BY <3>2, <3>4, <3>5, <3>6, <3>7
  <2>3. ASSUME Left \in {3, 2}
        PROVE /\ OnlyOf({"aux low"}, {"fall"})'
              /\ \A a \in Actuators : dim'[a] = 0 => a \in follows["fall"]
              /\ ReadSoFar(0)'
    <3>1. /\ OnlyOf({"aux low"}, {"fall"})
          /\ \A a \in Actuators : dim[a] = 0 => a \in follows["fall"]
          /\ ReadSoFar(0)
      BY <2>3 DEF NodeInv, SensorEarned
    <3>2. OnlyOf({"aux low"}, {"fall"})' /\ input = "fall"
      BY <1>9, <3>1
    <3>3. \A a \in Actuators : dim'[a] = 0 => a \in follows["fall"]
      BY <1>5, <3>1, <3>2
    <3>4. ReadSoFar(0)'
      BY <1>1, <1>4, <1>5, <3>1, <3>2 DEF ReadSoFar
    <3> QED BY <3>2, <3>3, <3>4
  <2> QED BY <1>1, <1>3, <2>1, <2>2, <2>3 DEF NodeInv, SensorEarned
<1>11. SwitchEarned'
  <2> SUFFICES ASSUME On("pdline"), clean, passed PROVE SwitchEarned'
    BY <1>1, <1>3 DEF SwitchEarned
  <2>1. ASSUME Left = 2 /\ (pc # "run" \/ attempts > 0)
        PROVE /\ OnlyOf({"push on"}, {"on"})'
              /\ \A a \in Actuators : dim'[a] = 100 => a \in follows["on"]
              /\ ReadSoFar(100)'
    <3>1. /\ OnlyOf({"push on"}, {"on"})
          /\ \A a \in Actuators : dim[a] = 100 => a \in follows["on"]
          /\ ReadSoFar(100)
      BY <2>1 DEF NodeInv, SwitchEarned
    <3>2. OnlyOf({"push on"}, {"on"})' /\ input = "on"
      BY <1>9, <3>1
    <3>3. \A a \in Actuators : dim'[a] = 100 => a \in follows["on"]
      BY <1>5, <3>1, <3>2
    <3>4. ReadSoFar(100)'
      BY <1>1, <1>4, <1>5, <3>1, <3>2 DEF ReadSoFar
    <3> QED BY <3>2, <3>3, <3>4
  <2>2. ASSUME Left = 1
        PROVE /\ OnlyOf({"push on", "push off"}, {"on", "off"})'
              /\ \A a \in Actuators : dim'[a] = 0 => a \in follows["off"]
    <3>1. /\ OnlyOf({"push on", "push off"}, {"on", "off"})
          /\ \A a \in Actuators : dim[a] = 0 => a \in follows["off"]
      BY <2>2 DEF NodeInv, SwitchEarned
    <3>2. OnlyOf({"push on", "push off"}, {"on", "off"})' /\ input \in {"on", "off"}
      BY <1>9, <3>1
    <3>3. \A a \in Actuators : dim'[a] = 0 => a \in follows["off"]
      <4>1. CASE input = "off"
        BY <1>51, <3>1, <4>1, Zenon
      <4>2. CASE input = "on"
        BY <1>4, <1>52, <1>53, <3>1, <4>2, Zenon
      <4> QED BY <3>2, <4>1, <4>2
    <3> QED BY <3>2, <3>3
  <2> QED BY <1>1, <1>3, <2>1, <2>2 DEF NodeInv, SwitchEarned
<1>12. AllFollow /\ (input \in {"on", "off"} \/ mode = OnOff) =>
         \A a \in Actuators : dim'[a] = Level(input)
  BY <1>2, <1>5 DEF AllFollow
<1>13. SensorGood'
  <2> SUFFICES ASSUME On("sensor1"), AllFollow, ~Restarted, lost = 0, late = 0
      PROVE SensorGood'
    BY <1>1, <1>3 DEF SensorGood
  <2>1. /\ passed /\ (pc = "read" => good) /\ (Left \in 2..10 \/ pc = "motdsbl" => mode = OnOff)
        /\ Left \in {9, 8} => IF line = <<>> THEN ~aux ELSE line[Len(line)] = "aux low"
    BY DEF NodeInv, SensorGood
  <2>2. Left \notin {7, 5, 4, 2}
    BY <1>8 DEF NodeInv, SensorGood
  <2>3. ASSUME NEW cmd, NEW high, NEW edge, Changing(cmd, high, edge), mode = OnOff
        PROVE Changing(cmd, high, edge)'
    <3>1. line = <<>> /\ events = <<edge>> /\ aux = high
      BY <1>1, <1>8, <2>3 DEF Changing
    <3>2. events' = <<>> /\ input = edge
      BY <1>0, <1>1, <3>1, Single
    <3> QED BY <1>1, <1>12, <2>3, <3>1, <3>2 DEF Changing, Settled
  <2>4. /\ Left = 6 => Changing("aux high", TRUE, "rise") /\ mode = OnOff
        /\ Left = 3 => Changing("aux low", FALSE, "fall") /\ mode = OnOff
    <3>1. /\ Left = 6 => Changing("aux high", TRUE, "rise")
          /\ Left = 3 => Changing("aux low", FALSE, "fall")
      BY DEF NodeInv, SensorGood
    <3>2. Left = 6 \/ Left = 3 => Left \in 2..10
      OBVIOUS
    <3> QED BY <2>1, <3>1, <3>2
  <2>5. /\ Left = 6 => Changing("aux high", TRUE, "rise")'
        /\ Left = 3 => Changing("aux low", FALSE, "fall")'
    BY <2>3, <2>4
  <2> QED BY <1>1, <1>3, <2>1, <2>2, <2>5 DEF SensorGood
<1>14. SwitchGood'
  <2> SUFFICES ASSUME On("pdline"), AllFollow, ~Restarted
      PROVE SwitchGood'
    BY <1>1, <1>3 DEF SwitchGood
  <2>1. ASSUME NEW cmd, NEW edge \in {"on", "off"}, Pushing(cmd, edge)
        PROVE Pushing(cmd, edge)'
    <3>1. CASE line # <<>>
      BY <1>1, <2>1, <3>1 DEF Pushing
    <3>2. CASE line = <<>> /\ events' = <<>>
      <4>1. Len(events') = 0
        BY <3>2
      <4>2. Len(events) = 1
        BY <1>2, <4>1
      <4>3. input = edge
        BY <1>1, <1>2, <2>1, <3>2, <4>2 DEF Pushing
      <4> QED BY <1>1, <1>12, <3>2, <4>3 DEF Pushing
    <3>3. CASE line = <<>> /\ events' # <<>>
      <4>1. Len(events') \in 1..Len(events') /\ Len(events') + 1 = Len(events)
        BY <1>2, <3>3
      <4>2. events'[Len(events')] = events[Len(events)]
        BY <1>2, <4>1
      <4> QED BY <1>1, <2>1, <3>3, <4>2 DEF Pushing
    <3> QED BY <3>1, <3>2, <3>3
  <2>2. ASSUME NEW cmd, NEW edge \in {"on", "off"}, Attempted(cmd, edge)
        PROVE Attempted(cmd, edge)'
    BY <1>1, <1>8, <2>1, <2>2 DEF Attempted
  <2>3. /\ Left = 2 => Attempted("push on", "on")'
        /\ Left = 1 => Attempted("push off", "off")'
    BY <2>2 DEF NodeInv, SwitchGood
  <2> QED BY <1>1, <1>3, <2>3 DEF NodeInv, SwitchGood
<1> QED BY <1>3, <1>6, <1>7, <1>10, <1>11, <1>13, <1>14 DEF NodeInv

(* A request is served or lost.                                            *)
LEMMA PutOutcome ==
  ASSUME NEW key \in {"mode", "motdsbl", "dim", "trigger"}, NEW value, NodeTypeOK,
         PutServedOrLost(key, value)
  PROVE /\ lost' \in Nat /\ lost' >= lost /\ reboot' \in BOOLEAN
        /\ key = "mode" => /\ dim' = dim /\ motdsbl' = motdsbl /\ reboot' = reboot
                           /\ mode' \in {mode, value}
                           /\ up /\ lost' # lost + 1 => mode' = value
        /\ key = "motdsbl" => /\ dim' = dim /\ mode' = mode /\ reboot' = reboot
                              /\ motdsbl' \in {motdsbl, value}
                              /\ up /\ lost' # lost + 1 => motdsbl' = value
        /\ key = "dim" => /\ mode' = mode /\ motdsbl' = motdsbl /\ reboot' = reboot
                          /\ dim' \in {dim, [a \in Actuators |-> value]}
        /\ key = "trigger" => dim' = dim /\ mode' = mode /\ motdsbl' = motdsbl
<1>1. lost \in Nat /\ reboot \in BOOLEAN
  BY DEF NodeTypeOK
<1>2. CASE up /\ ServePut(key, value) /\ lost' = lost
  BY <1>1, <1>2 DEF ServePut
<1>3. CASE lost' = lost + 1 /\ UNCHANGED <<dim, mode, motdsbl, reboot>>
  BY <1>1, <1>3
<1>4. CASE ~up /\ UNCHANGED <<lost, dim, mode, motdsbl, reboot>>
  BY <1>1, <1>4
<1> QED BY <1>2, <1>3, <1>4 DEF PutServedOrLost

LEMMA ReadOutcome ==
  ASSUME NEW value, NEW reply, NodeTypeOK, getValue(value, reply)
  PROVE /\ lost' \in Nat /\ lost' >= lost /\ reply \in {value, NotRead}
        /\ up /\ lost' # lost + 1 => reply = value
<1>1. lost \in Nat
  BY DEF NodeTypeOK
<1> QED BY <1>1 DEF getValue

(* The host is still busy with the same operation.                         *)
LEMMA SameOperation ==
  ASSUME NodeTypeOK, OnScript, pc # "next", pc' # "next", UNCHANGED <<plan, script>>
  PROVE /\ Left' = Left /\ Left \in Nat /\ plan' # <<>>
        /\ Test' = Test /\ \A test : On(test)' <=> On(test)
        /\ Left' <= Len(Script(Test))
        /\ \A k \in 1..Left' : script'[k] = Script(Test)[Len(Script(Test)) - Left' + k]
<1>1. Left' = Left /\ Test' = Test
  BY DEF Left, Test
<1> QED BY <1>1, UnderWayIs DEF On, OnScript

(* A setting is written.                                                   *)
LEMMA putValueStep == ASSUME NodeInv, putValue PROVE NodeInv'
<1>1. /\ pc = "run" /\ script # <<>> /\ Op.op = "put" /\ PutServedOrLost(Op.key, Op.value)
      /\ script' = Tail(script)
      /\ UNCHANGED <<pc, plan, attempts, unread, good, passed, verdicts, clean,
                     line, aux, events, follows, up, late>>
  BY DEF putValue, Doing
<1>2. NodeTypeOK /\ OnScript /\ Left > 0 /\ Left \in Nat /\ pc # "next" /\ pc' # "next"
  <2>1. NodeTypeOK /\ OnScript /\ pc # "next"
    BY <1>1 DEF NodeInv
  <2> QED BY <1>1, <2>1, UnderWayIs
<1>3. /\ Left' = Left - 1 /\ script' \in Seq(Operations) /\ plan' # <<>>
      /\ Test' = Test /\ (\A test : On(test)' <=> On(test))
      /\ Left' <= Len(Script(Test))
      /\ \A k \in 1..Left' : script'[k] = Script(Test)[Len(Script(Test)) - Left' + k]
  BY <1>1, <1>2, Onwards
<1>4. Restarted' = Restarted /\ AllFollow' = AllFollow
  BY <1>1 DEF Restarted, AllFollow
<1>5. \/ On("sensor1") /\ Left = 9 /\ Op = Put("dim", 0)
      \/ On("pdline") /\ Left = 4 /\ Op = Put("dim", 0)
  BY <1>1, <1>2, Found
<1>6. /\ On("sensor1") => Left' = 8 /\ ~On("pdline") /\ ~On("trigger")
      /\ On("pdline") => Left' = 3 /\ ~On("sensor1") /\ ~On("trigger")
  BY <1>3, <1>5 DEF On
<1>7. /\ lost' \in Nat /\ lost' >= lost /\ reboot' = reboot
      /\ mode' = mode /\ motdsbl' = motdsbl /\ dim' \in {dim, [a \in Actuators |-> 0]}
  <2>1. PutServedOrLost("dim", 0)
    BY <1>1, <1>5, KindsOf
  <2> QED BY <1>2, <2>1, PutOutcome
<1>8. NodeTypeOK'
  <2>1. dim' \in [Actuators -> {0, 100}] /\ mode' \in {OnOff, MotVac}
    BY <1>2, <1>7 DEF NodeTypeOK
  <2> QED BY <1>1, <1>2, <1>3, <1>7, <2>1 DEF NodeTypeOK
<1>9. OnScript'
  <2>1. Left > 2 => attempts = 0
    BY <1>2, <1>5 DEF OnScript
  <2>2. attempts' = 0
    BY <1>1, <1>5, <2>1
  <2> QED BY <1>1, <1>2, <1>3, <1>5, <2>2 DEF OnScript, On
<1>10. Steady'
  BY <1>1, <1>3, <1>4, <1>7 DEF NodeInv, Steady
<1>11. Restoring'
  <2>1. ~(On("sensor1") /\ Left' = 1) /\ ~(On("sensor1") /\ Left' = 0)
    BY <1>6
  <2>2. lost' < Tries => lost < Tries
    BY <1>2, <1>7, TestsAssumption DEF NodeTypeOK
  <2> QED BY <1>3, <1>4, <1>7, <2>1, <2>2 DEF NodeInv, Restoring
<1>12. SensorEarned'
  <2>1. On("sensor1") => /\ Left' \notin {6, 5} /\ Left' # 4 /\ Left' \notin {3, 2}
                         /\ ~(Left' <= 4) /\ ~(Left' <= 1)
    BY <1>6
  <2> QED BY <1>3, <2>1 DEF SensorEarned
<1>13. SwitchEarned'
  <2>1. On("pdline") => Left' # 2 /\ Left' # 1 /\ ~(Left' <= 1) /\ Left' # 0
    BY <1>6
  <2> QED BY <1>3, <2>1 DEF SwitchEarned
<1>14. SensorGood'
  <2> SUFFICES ASSUME On("sensor1"), AllFollow, ~Restarted, lost' = 0, late = 0
      PROVE SensorGood'
    BY <1>1, <1>3, <1>4 DEF SensorGood
  <2>1. lost = 0 /\ lost' # lost + 1 /\ up
    BY <1>2, <1>6, <1>7 DEF NodeInv, NodeTypeOK, Steady
  <2>2. passed /\ pc' # "read"
    BY <1>1, <2>1 DEF NodeInv, SensorGood
  <2>3. mode' = OnOff
    <3>1. Left = 9 => Left \in 2..10
      OBVIOUS
    <3>2. Left \in 2..10 => mode = OnOff
      BY <2>1 DEF NodeInv, SensorGood
    <3> QED BY <1>5, <1>7, <3>1, <3>2 DEF On
  <2>4. Left' = 8 => IF line = <<>> THEN ~aux ELSE line[Len(line)] = "aux low"
    <3>1. Left \in {9, 8} => IF line = <<>> THEN ~aux ELSE line[Len(line)] = "aux low"
      BY <2>1 DEF NodeInv, SensorGood
    <3>2. Left' = 8 => Left = 9
      BY <1>2, <1>3
    <3> QED BY <3>1, <3>2
  <2>5. Left' # 9 /\ Left' # 7 /\ Left' # 6 /\ Left' \notin {5, 4} /\ Left' # 3 /\ Left' # 2
    BY <1>6
  <2> QED BY <1>1, <2>2, <2>3, <2>4, <2>5 DEF SensorGood
<1>15. SwitchGood'
  <2>1. On("pdline") => Left' > 0 /\ Left' # 2 /\ Left' # 1 /\ Left > 0
    BY <1>2, <1>6
  <2> QED BY <1>1, <1>3, <1>4, <2>1 DEF NodeInv, SwitchGood
<1> QED BY <1>8, <1>9, <1>10, <1>11, <1>12, <1>13, <1>14, <1>15 DEF NodeInv

(* A command is sent.                                                      *)
LEMMA Sent ==
  ASSUME NEW cmd \in Commands, NodeTypeOK, line' = Append(line, cmd)
  PROVE /\ line' \in Seq(Commands) /\ line' # <<>> /\ Len(line') = Len(line) + 1
        /\ line'[Len(line')] = cmd
        /\ \A k \in 1..Len(line) : line'[k] = line[k]
        /\ line = <<>> => line' = <<cmd>>
<1>1. line \in Seq(Commands)
  BY DEF NodeTypeOK
<1>2. /\ line' \in Seq(Commands) /\ Len(line') = Len(line) + 1 /\ line'[Len(line) + 1] = cmd
      /\ \A k \in 1..Len(line) : line'[k] = line[k]
  BY <1>1
<1>3. line' # <<>>
  <2>1. Len(line) \in Nat /\ Len(<<>>) = 0
    BY <1>1
  <2>2. Len(line') # 0
    BY <1>2, <2>1
  <2> QED BY <2>1, <2>2
<1>4. line = <<>> => line' = <<cmd>>
  OBVIOUS
<1> QED BY <1>2, <1>3, <1>4

LEMMA SentOnly ==
  ASSUME NEW cmd \in Commands, NodeTypeOK, line' = Append(line, cmd), events' = events,
         NEW commands, NEW inputs, cmd \in commands, OnlyOf(commands, inputs)
  PROVE OnlyOf(commands, inputs)'
<1>1. /\ Len(line') = Len(line) + 1 /\ line'[Len(line')] = cmd
      /\ \A k \in 1..Len(line) : line'[k] = line[k]
      /\ Len(line) \in Nat
  BY Sent DEF NodeTypeOK
<1>2. \A k \in 1..Len(line') : k \in 1..Len(line) \/ k = Len(line')
  BY <1>1
<1>3. \A k \in 1..Len(line') : line'[k] \in commands
  BY <1>1, <1>2 DEF OnlyOf
<1> QED BY <1>3 DEF OnlyOf

LEMMA OneOnly ==
  ASSUME NEW cmd, NEW inputs, line' = <<cmd>>, events' = <<>>
  PROVE OnlyOf({cmd}, inputs)' /\ Len(line') + Len(events') <= 1
<1>1. Len(line') = 1 /\ Len(events') = 0 /\ line'[1] = cmd
  BY Single
<1>2. \A k \in 1..Len(line') : k = 1
  BY <1>1
<1>3. \A k \in 1..Len(events') : FALSE
  BY <1>1
<1>4. OnlyOf({cmd}, inputs)'
  BY <1>1, <1>2, <1>3, Zenon DEF OnlyOf
<1>5. Len(line') + Len(events') <= 1
  <2>1. Len(line') + Len(events') = 1 + 0
    BY <1>1
  <2> QED BY <2>1
<1> QED BY <1>4, <1>5

LEMMA setAuxStep == ASSUME NodeInv, setAux PROVE NodeInv'
<1>1. /\ pc = "run" /\ script # <<>> /\ Op.op = "command" /\ line' = Append(line, Op.cmd)
      /\ clean' = IF Op.cmd = "aux high" \/ (Op.cmd = "push on" /\ attempts = 0)
                  THEN Settled /\ Dark ELSE clean
      /\ script' = Tail(script)
      /\ UNCHANGED <<pc, plan, attempts, unread, good, passed, verdicts,
                     aux, follows, events, dim, mode, motdsbl, up, reboot, lost, late>>
  BY DEF setAux, Doing, Write, nodeVars
<1>2. NodeTypeOK /\ OnScript /\ Left > 0 /\ Left \in Nat /\ pc # "next" /\ pc' # "next"
  <2>1. NodeTypeOK /\ OnScript /\ pc # "next"
    BY <1>1 DEF NodeInv
  <2> QED BY <1>1, <2>1, UnderWayIs
<1>3. /\ Left' = Left - 1 /\ script' \in Seq(Operations) /\ plan' # <<>>
      /\ Test' = Test /\ (\A test : On(test)' <=> On(test))
      /\ Left' <= Len(Script(Test))
      /\ \A k \in 1..Left' : script'[k] = Script(Test)[Len(Script(Test)) - Left' + k]
  BY <1>1, <1>2, Onwards
<1>4. Restarted' = Restarted /\ AllFollow' = AllFollow
  BY <1>1 DEF Restarted, AllFollow
<1>5. \/ On("sensor1") /\ ~On("pdline") /\ (Left = 10 \/ Left = 7 \/ Left = 4)
      \/ On("pdline") /\ ~On("sensor1") /\ Left = 5
  BY <1>1, <1>2, Found, UnderWayIs
<1>6. /\ On("sensor1") => Left' \in {9, 6, 3} /\ ~On("pdline")
      /\ On("pdline") => Left' = 4 /\ ~On("sensor1")
  <2>1. /\ (Left = 10 => Left' = 9) /\ (Left = 7 => Left' = 6)
        /\ (Left = 4 => Left' = 3) /\ (Left = 5 => Left' = 4)
    BY <1>3
  <2> QED BY <1>5, <2>1
<1>61. On("sensor1") /\ Left = 10 => Op.cmd = "aux low"
  BY <1>2, SensorOps, KindsOf
<1>62. On("sensor1") /\ Left = 7 => Op.cmd = "aux high"
  BY <1>2, SensorOps, KindsOf
<1>63. On("sensor1") /\ Left = 4 => Op.cmd = "aux low"
  BY <1>2, SensorOps, KindsOf
<1>64. On("pdline") /\ Left = 5 => Op.cmd = "push off"
  BY <1>2, SwitchOps, KindsOf
<1>7. Op.cmd \in Commands /\ Op.cmd # "push on"
  <2>1. Op.cmd \in {"aux low", "aux high", "push off"}
    BY <1>5, <1>61, <1>62, <1>63, <1>64
  <2> QED BY <2>1 DEF Commands
<1>8. /\ line' \in Seq(Commands) /\ line' # <<>> /\ line'[Len(line')] = Op.cmd
      /\ line = <<>> => line' = <<Op.cmd>>
  BY <1>1, <1>2, <1>7, Sent
<1>9. NodeTypeOK'
  <2>1. clean' \in BOOLEAN
    BY <1>1, <1>2 DEF NodeTypeOK
  <2> QED BY <1>1, <1>2, <1>3, <1>8, <2>1 DEF NodeTypeOK
<1>10. OnScript'
  <2>1. On("sensor1") /\ Left > 1 => attempts = 0
    BY <1>2 DEF OnScript
  <2>2. On("pdline") /\ Left > 2 => attempts = 0
    BY <1>2 DEF OnScript
  <2>3. Left > 1 /\ (On("pdline") => Left > 2)
    BY <1>5
  <2>4. attempts' = 0
    BY <1>1, <1>5, <2>1, <2>2, <2>3
  <2> QED BY <1>1, <1>2, <1>3, <1>5, <2>4 DEF OnScript, On
<1>11. Steady'
  BY <1>1, <1>3, <1>4 DEF NodeInv, Steady
<1>12. Restoring'
  <2>1. ~(On("sensor1") /\ Left' = 1) /\ ~(On("sensor1") /\ Left' = 0)
    BY <1>6
  <2> QED BY <1>1, <1>3, <1>4, <2>1 DEF NodeInv, Restoring
<1>13. SensorEarned'
  <2> SUFFICES ASSUME On("sensor1"), clean', passed PROVE SensorEarned'
    BY <1>1, <1>3 DEF SensorEarned
  <2>1. CASE Left = 10
    <3>1. Left' \notin {6, 5} /\ Left' # 4 /\ Left' \notin {3, 2} /\ ~(Left' <= 4) /\ ~(Left' <= 1)
      BY <1>3, <2>1
    <3> QED BY <3>1 DEF SensorEarned
  <2>2. CASE Left = 7
    <3>1. Left' = 6 /\ Left' # 4 /\ Left' \notin {3, 2} /\ ~(Left' <= 4) /\ ~(Left' <= 1)
      BY <1>3, <2>2
    <3>2. Op.cmd = "aux high"
      BY <1>62, <2>2
    <3>3. line = <<>> /\ events = <<>> /\ Dark
      BY <1>1, <3>2 DEF Settled
    <3>4. line' = <<"aux high">> /\ events' = <<>>
      BY <1>1, <1>8, <3>2, <3>3
    <3>6. OnlyOf({"aux high"}, {"rise"})' /\ Len(line') + Len(events') <= 1
      BY <3>4, OneOnly
    <3>8. Dark' /\ \A a \in Actuators : dim'[a] # 100
      <4>1. 0 # 100
        OBVIOUS
      <4> QED BY <1>1, <3>3, <4>1, Zenon DEF Dark
    <3>9. ReadSoFar(100)'
      BY <1>1 DEF ReadSoFar
    <3> QED BY <3>1, <3>6, <3>8, <3>9 DEF SensorEarned
  <2>3. CASE Left = 4
    <3>1. Left' = 3 /\ Left' # 4 /\ Left' \notin {6, 5} /\ ~(Left' <= 1)
      BY <1>3, <2>3
    <3>2. Op.cmd = "aux low"
      BY <1>63, <2>3
    <3>3. clean
      BY <1>1, <3>2
    <3>4. Settled /\ (\A a \in Actuators : dim[a] = 100) /\ follows["rise"] = Actuators
      BY <2>3, <3>3 DEF NodeInv, SensorEarned
    <3>5. line' = <<"aux low">> /\ events' = <<>>
      BY <1>1, <1>8, <3>2, <3>4 DEF Settled
    <3>7. OnlyOf({"aux low"}, {"fall"})'
      BY <3>5, OneOnly
    <3>8. \A a \in Actuators : dim'[a] # 0
      <4>1. dim' = dim
        BY <1>1
      <4>2. 100 # 0
        OBVIOUS
      <4> QED BY <3>4, <4>1, <4>2, Zenon
    <3>9. ReadSoFar(0)'
      BY <1>1 DEF ReadSoFar
    <3> QED BY <1>1, <3>1, <3>4, <3>7, <3>8, <3>9 DEF SensorEarned
  <2> QED BY <1>5, <2>1, <2>2, <2>3 DEF On
<1>14. SwitchEarned'
  <2>1. On("pdline") => Left' # 2 /\ Left' # 1 /\ ~(Left' <= 1) /\ Left' # 0
    BY <1>6
  <2> QED BY <1>3, <2>1 DEF SwitchEarned
<1>15. SensorGood'
  <2> SUFFICES ASSUME On("sensor1"), AllFollow, ~Restarted, lost = 0, late = 0
      PROVE SensorGood'
    BY <1>1, <1>3, <1>4 DEF SensorGood
  <2>1. passed /\ (Left \in 2..10 \/ pc = "motdsbl" => mode = OnOff)
    BY DEF NodeInv, SensorGood
  <2>2. mode' = OnOff
    <3>1. Left \in 2..10
      BY <1>5
    <3> QED BY <1>1, <2>1, <3>1
  <2>3. ASSUME NEW cmd \in Commands, NEW high \in BOOLEAN, NEW input, Settled, aux = ~high, Op.cmd = cmd
        PROVE Changing(cmd, high, input)'
    BY <1>1, <1>8, <2>3 DEF Changing, Settled
  <2>4. CASE Left = 10
    <3>1. /\ Left' = 9 /\ Left' # 7 /\ Left' # 6 /\ Left' \notin {5, 4} /\ Left' # 3 /\ Left' # 2
      BY <1>3, <2>4
    <3>2. Op.cmd = "aux low"
      BY <1>61, <2>4
    <3> QED BY <1>1, <1>8, <2>1, <2>2, <3>1, <3>2 DEF SensorGood
  <2>5. CASE Left = 7
    <3>1. /\ Left' = 6 /\ Left' # 7 /\ Left' \notin {9, 8} /\ Left' \notin {5, 4} /\ Left' # 3 /\ Left' # 2
      BY <1>3, <2>5
    <3>2. Op.cmd = "aux high" /\ Op.cmd \in Commands
      BY <1>7, <1>62, <2>5
    <3>3. Settled /\ aux = FALSE
      BY <1>2, <2>5 DEF NodeInv, SensorGood, NodeTypeOK
    <3>4. Changing("aux high", TRUE, "rise")'
      BY <2>3, <3>2, <3>3
    <3> QED BY <1>1, <2>1, <2>2, <3>1, <3>4 DEF SensorGood
  <2>6. CASE Left = 4
    <3>1. /\ Left' = 3 /\ Left' # 7 /\ Left' \notin {9, 8} /\ Left' \notin {5, 4} /\ Left' # 6 /\ Left' # 2
      BY <1>3, <2>6
    <3>2. Op.cmd = "aux low" /\ Op.cmd \in Commands
      BY <1>7, <1>63, <2>6
    <3>3. Settled /\ aux = TRUE
      BY <1>2, <2>6 DEF NodeInv, SensorGood, NodeTypeOK
    <3>4. Changing("aux low", FALSE, "fall")'
      BY <2>3, <3>2, <3>3
    <3> QED BY <1>1, <2>1, <2>2, <3>1, <3>4 DEF SensorGood
  <2> QED BY <1>5, <2>4, <2>5, <2>6 DEF On
<1>16. SwitchGood'
  <2>1. On("pdline") => Left' > 0 /\ Left' # 2 /\ Left' # 1 /\ Left > 0
    BY <1>2, <1>6
  <2> QED BY <1>1, <1>3, <1>4, <2>1 DEF NodeInv, SwitchGood
<1> QED BY <1>9, <1>10, <1>11, <1>12, <1>13, <1>14, <1>15, <1>16 DEF NodeInv

(* A fixed wait.                                                           *)
LEMMA sleepStep == ASSUME NodeInv, sleep PROVE NodeInv'
<1>1. /\ pc = "run" /\ script # <<>> /\ Op.op = "sleep" /\ Waited
      /\ script' = Tail(script)
      /\ UNCHANGED <<pc, plan, attempts, unread, good, passed, verdicts, clean,
                     line, aux, follows, events, dim, mode, motdsbl, up, reboot, lost>>
  BY DEF sleep, Doing, nodeVars
<1>2. NodeTypeOK /\ OnScript /\ Left > 0 /\ Left \in Nat /\ pc # "next" /\ pc' # "next"
  <2>1. NodeTypeOK /\ OnScript /\ pc # "next"
    BY <1>1 DEF NodeInv
  <2> QED BY <1>1, <2>1, UnderWayIs
<1>3. /\ Left' = Left - 1 /\ script' \in Seq(Operations) /\ plan' # <<>>
      /\ Test' = Test /\ (\A test : On(test)' <=> On(test))
      /\ Left' <= Len(Script(Test))
      /\ \A k \in 1..Left' : script'[k] = Script(Test)[Len(Script(Test)) - Left' + k]
  BY <1>1, <1>2, Onwards
<1>4. Restarted' = Restarted /\ AllFollow' = AllFollow /\ Settled' = Settled /\ Dark' = Dark
  BY <1>1 DEF Restarted, AllFollow, Settled, Dark
<1>5. \/ On("sensor1") /\ ~On("pdline") /\ (Left = 8 \/ Left = 6 \/ Left = 3)
      \/ On("pdline") /\ ~On("sensor1") /\ Left = 3
  BY <1>1, <1>2, Found, UnderWayIs
<1>6. /\ On("sensor1") => Left' \in {7, 5, 2} /\ ~On("pdline")
      /\ On("pdline") => Left' = 2 /\ ~On("sensor1")
  <2>1. (Left = 8 => Left' = 7) /\ (Left = 6 => Left' = 5) /\ (Left = 3 => Left' = 2)
    BY <1>3
  <2> QED BY <1>5, <2>1
<1>7. late' \in Nat /\ late' >= late /\ (late' = 0 => late = 0 /\ Settled)
  BY <1>1, <1>2 DEF Waited, NodeTypeOK
<1>8. attempts' = 0
  <2>1. (On("sensor1") /\ Left > 1 => attempts = 0) /\ (On("pdline") /\ Left > 2 => attempts = 0)
    BY <1>2 DEF OnScript
  <2> QED BY <1>1, <1>5, <2>1
<1>9. NodeTypeOK'
  BY <1>1, <1>2, <1>3, <1>7 DEF NodeTypeOK
<1>10. OnScript'
  BY <1>1, <1>2, <1>3, <1>5, <1>8 DEF OnScript, On
<1>11. Steady'
  BY <1>1, <1>3, <1>4 DEF NodeInv, Steady
<1>12. Restoring'
  <2>1. ~(On("sensor1") /\ Left' = 1) /\ ~(On("sensor1") /\ Left' = 0)
    BY <1>6
  <2> QED BY <1>1, <1>3, <1>4, <2>1 DEF NodeInv, Restoring
<1>13. \A c, e : OnlyOf(c, e) => OnlyOf(c, e)'
  BY <1>1 DEF OnlyOf
<1>14. SensorEarned'
  <2> SUFFICES ASSUME On("sensor1"), clean, passed PROVE SensorEarned'
    BY <1>1, <1>3 DEF SensorEarned
  <2>1. CASE Left = 8
    <3>1. Left' \notin {6, 5} /\ Left' # 4 /\ Left' \notin {3, 2} /\ ~(Left' <= 4) /\ ~(Left' <= 1)
      BY <1>3, <2>1
    <3> QED BY <3>1 DEF SensorEarned
  <2>2. CASE Left = 6
    <3>1. Left' = 5 /\ Left' # 4 /\ Left' \notin {3, 2} /\ ~(Left' <= 4) /\ ~(Left' <= 1)
      BY <1>3, <2>2
    <3>2. /\ OnlyOf({"aux high"}, {"rise"}) /\ Len(line) + Len(events) <= 1
          /\ ~Settled => Dark
          /\ \A a \in Actuators : dim[a] = 100 => a \in follows["rise"]
      BY <2>2 DEF NodeInv, SensorEarned
    <3>3. ReadSoFar(100)'
      BY <1>1 DEF ReadSoFar
    <3> QED BY <1>1, <1>4, <1>13, <3>1, <3>2, <3>3 DEF SensorEarned
  <2>3. CASE Left = 3
    <3>1. Left' = 2 /\ Left' # 4 /\ Left' \notin {6, 5} /\ ~(Left' <= 1)
      BY <1>3, <2>3
    <3>2. /\ OnlyOf({"aux low"}, {"fall"}) /\ follows["rise"] = Actuators
          /\ \A a \in Actuators : dim[a] = 0 => a \in follows["fall"]
      <4>1. Left \in {3, 2} /\ Left <= 4
        BY <2>3
      <4> QED BY <4>1 DEF NodeInv, SensorEarned
    <3>3. ReadSoFar(0)'
      BY <1>1 DEF ReadSoFar
    <3> QED BY <1>1, <1>13, <3>1, <3>2, <3>3 DEF SensorEarned
  <2> QED BY <1>5, <2>1, <2>2, <2>3 DEF On
<1>15. SwitchEarned'
  <2>1. On("pdline") => /\ Left' # 1 /\ ~(Left' <= 1) /\ Left' # 0
                        /\ ~(pc' # "run" \/ attempts' > 0)
    BY <1>1, <1>6, <1>8
  <2> QED BY <1>3, <2>1 DEF SwitchEarned
<1>16. SensorGood'
  <2> SUFFICES ASSUME On("sensor1"), AllFollow, ~Restarted, lost = 0, late' = 0
      PROVE SensorGood'
    BY <1>1, <1>3, <1>4 DEF SensorGood
  <2>1. late = 0 /\ Settled
    BY <1>7
  <2>2. passed /\ (Left \in 2..10 \/ pc = "motdsbl" => mode = OnOff)
    BY <2>1 DEF NodeInv, SensorGood
  <2>3. mode' = OnOff
    <3>1. Left \in 2..10
      BY <1>5 DEF On
    <3> QED BY <1>1, <2>2, <3>1
  <2>5. CASE Left = 8
    <3>1. /\ Left' = 7 /\ Left' \notin {9, 8} /\ Left' # 6 /\ Left' \notin {5, 4} /\ Left' # 3 /\ Left' # 2
      BY <1>3, <2>5
    <3>2. ~aux
      BY <2>1, <2>5 DEF NodeInv, SensorGood, Settled
    <3> QED BY <1>1, <1>4, <2>1, <2>2, <2>3, <3>1, <3>2 DEF SensorGood
  <2>6. CASE Left = 6
    <3>1. /\ Left' = 5 /\ Left' # 7 /\ Left' \notin {9, 8} /\ Left' # 6 /\ Left' # 3 /\ Left' # 2
      BY <1>3, <2>6
    <3>2. Changing("aux high", TRUE, "rise") /\ Level("rise") = 100
      BY <2>1, <2>6 DEF NodeInv, SensorGood, Level
    <3>3. aux = TRUE /\ \A a \in Actuators : dim[a] = 100
      <4>1. aux = TRUE /\ \A a \in Actuators : dim[a] = Level("rise")
        BY <2>1, <3>2, Single DEF Changing, Settled
      <4> QED BY <3>2, <4>1
    <3> QED BY <1>1, <1>4, <2>1, <2>2, <2>3, <3>1, <3>3 DEF SensorGood
  <2>7. CASE Left = 3
    <3>1. /\ Left' = 2 /\ Left' # 7 /\ Left' \notin {9, 8} /\ Left' \notin {5, 4} /\ Left' # 6 /\ Left' # 3
      BY <1>3, <2>7
    <3>2. Changing("aux low", FALSE, "fall") /\ Level("fall") = 0
      BY <2>1, <2>7 DEF NodeInv, SensorGood, Level
    <3>3. Dark
      BY <2>1, <3>2, Single DEF Dark, Changing, Settled
    <3> QED BY <1>1, <1>4, <2>1, <2>2, <2>3, <3>1, <3>3 DEF SensorGood
  <2> QED BY <1>5, <2>5, <2>6, <2>7 DEF On
<1>17. SwitchGood'
  <2> SUFFICES ASSUME On("pdline"), AllFollow, ~Restarted
      PROVE SwitchGood'
    BY <1>1, <1>3, <1>4 DEF SwitchGood
  <2>1. Left' = 2 /\ Left' > 0 /\ Left' # 1 /\ passed
    <3>1. passed
      BY <1>2 DEF NodeInv, SwitchGood
    <3> QED BY <1>6, <3>1
  <2>2. lost' + late' >= attempts'
    <3>1. lost' = lost /\ lost \in Nat
      BY <1>1, <1>2 DEF NodeTypeOK
    <3>2. PICK later \in Nat : late' = later
      BY <1>7
    <3>3. lost + later >= 0
      BY <3>1
    <3> QED BY <1>8, <3>1, <3>2, <3>3
  <2>3. Attempted("push on", "on")'
    BY <1>1, <2>2 DEF Attempted
  <2> QED BY <1>1, <2>1, <2>3 DEF SwitchGood
<1> QED BY <1>9, <1>10, <1>11, <1>12, <1>14, <1>15, <1>16, <1>17 DEF NodeInv

(* A button is pushed.                                                     *)
LEMMA setPush4BTNStep == ASSUME NodeInv, setPush4BTN PROVE NodeInv'
<1>1. /\ pc = "run" /\ script # <<>> /\ Op.op = "push" /\ line' = Append(line, Op.cmd)
      /\ clean' = IF Op.cmd = "aux high" \/ (Op.cmd = "push on" /\ attempts = 0)
                  THEN Settled /\ Dark ELSE clean
      /\ pc' = "pushed"
      /\ UNCHANGED <<plan, script, attempts, unread, good, passed, verdicts,
                     aux, follows, events, dim, mode, motdsbl, up, reboot, lost, late>>
  BY DEF setPush4BTN, Doing, Write, nodeVars
<1>2. NodeTypeOK /\ OnScript /\ Left > 0 /\ Left \in Nat /\ pc # "next" /\ pc' # "next"
  <2>1. NodeTypeOK /\ OnScript /\ pc # "next" /\ pc' # "next"
    BY <1>1 DEF NodeInv
  <2> QED BY <1>1, <2>1, UnderWayIs
<1>3. /\ Left' = Left /\ plan' # <<>>
      /\ Test' = Test /\ (\A test : On(test)' <=> On(test))
      /\ Left' <= Len(Script(Test))
      /\ \A k \in 1..Left' : script'[k] = Script(Test)[Len(Script(Test)) - Left' + k]
  BY <1>1, <1>2, SameOperation
<1>4. Restarted' = Restarted /\ AllFollow' = AllFollow
  BY <1>1 DEF Restarted, AllFollow
<1>5. On("pdline") /\ ~On("sensor1") /\ ~On("trigger") /\ (Left = 2 \/ Left = 1)
  BY <1>1, <1>2, Found, UnderWayIs
<1>6. Left = 2 => Op.cmd = "push on"
  BY <1>2, <1>5, SwitchOps, KindsOf
<1>7. Left = 1 => Op.cmd = "push off"
  BY <1>2, <1>5, SwitchOps, KindsOf
<1>8. Op.cmd \in Commands
  BY <1>5, <1>6, <1>7 DEF Commands
<1>9. /\ line' \in Seq(Commands) /\ line' # <<>> /\ line'[Len(line')] = Op.cmd
      /\ line = <<>> => line' = <<Op.cmd>>
  BY <1>1, <1>2, <1>8, Sent
<1>10. NodeTypeOK'
  <2>1. clean' \in BOOLEAN
    BY <1>1, <1>2 DEF NodeTypeOK
  <2> QED BY <1>1, <1>2, <1>9, <2>1 DEF NodeTypeOK
<1>11. OnScript'
  <2>1. ~(Left' > 2)
    BY <1>3, <1>5
  <2> QED BY <1>1, <1>3, <1>5, <2>1 DEF OnScript
<1>12. Steady' /\ Restoring'
  BY <1>1, <1>3, <1>4, <1>5 DEF NodeInv, Steady, Restoring
<1>13. SensorEarned' /\ SensorGood'
  BY <1>3, <1>5 DEF SensorEarned, SensorGood
<1>14. SwitchEarned'
  <2> SUFFICES ASSUME clean', passed PROVE SwitchEarned'
    BY <1>1 DEF SwitchEarned
  <2>1. Left' # 0
    BY <1>3, <1>5
  <2>2. CASE Left = 2
    <3>1. Left' = 2 /\ Left' # 1 /\ ~(Left' <= 1)
      BY <1>3, <2>2
    <3>2. OnlyOf({"push on"}, {"on"})' /\ \A a \in Actuators : dim'[a] = 100 => a \in follows["on"]
      <4>1. CASE attempts = 0
        <5>1. line = <<>> /\ events = <<>> /\ Dark
          BY <1>1, <1>6, <2>2, <4>1 DEF Settled
        <5>2. line' = <<"push on">> /\ events' = <<>>
          BY <1>1, <1>6, <1>9, <2>2, <5>1
        <5>3. OnlyOf({"push on"}, {"on"})'
          BY <5>2, OneOnly
        <5>4. 0 # 100
          OBVIOUS
        <5>5. \A a \in Actuators : dim'[a] # 100
          BY <1>1, <5>1, <5>4, Zenon DEF Dark
        <5> QED BY <5>3, <5>5
      <4>2. CASE attempts # 0
        <5>1. attempts > 0
          BY <1>2, <4>2 DEF NodeTypeOK
        <5>2. clean
          BY <1>1, <1>6, <2>2, <4>2
        <5>3. OnlyOf({"push on"}, {"on"}) /\ \A a \in Actuators : dim[a] = 100 => a \in follows["on"]
          BY <1>5, <2>2, <5>1, <5>2 DEF NodeInv, SwitchEarned
        <5>4. OnlyOf({"push on"}, {"on"})'
          <6>1. /\ line' = Append(line, "push on") /\ "push on" \in Commands /\ events' = events
            BY <1>1, <1>6, <1>8, <2>2
          <6>2. PICK c : c = {"push on"}
            OBVIOUS
          <6>3. "push on" \in c
            BY <6>2
          <6>4. OnlyOf(c, {"on"})
            BY <5>3, <6>2
          <6>5. OnlyOf(c, {"on"})'
            BY <1>2, <6>1, <6>3, <6>4, SentOnly
          <6> QED BY <6>2, <6>5
        <5> QED BY <1>1, <5>3, <5>4
      <4> QED BY <4>1, <4>2
    <3>3. ReadSoFar(100)'
      BY <1>1 DEF ReadSoFar
    <3> QED BY <1>1, <2>1, <3>1, <3>2, <3>3 DEF SwitchEarned
  <2>3. CASE Left = 1
    <3>1. Left' = 1 /\ Left' # 2 /\ Left <= 1
      BY <1>3, <2>3
    <3>2. clean
      BY <1>1, <1>7, <2>3
    <3>3. /\ OnlyOf({"push on", "push off"}, {"on", "off"}) /\ follows["on"] = Actuators
          /\ \A a \in Actuators : dim[a] = 0 => a \in follows["off"]
      BY <1>5, <2>3, <3>1, <3>2 DEF NodeInv, SwitchEarned
    <3>4. OnlyOf({"push on", "push off"}, {"on", "off"})'
      <4>1. /\ line' = Append(line, "push off") /\ "push off" \in Commands /\ events' = events
        BY <1>1, <1>7, <1>8, <2>3
      <4>3. PICK c : c = {"push on", "push off"}
        OBVIOUS
      <4>4. OnlyOf(c, {"on", "off"})
        BY <3>3, <4>3
      <4>5. "push off" \in c
        BY <4>3
      <4>6. OnlyOf(c, {"on", "off"})'
        BY <1>2, <4>1, <4>4, <4>5, SentOnly
      <4> QED BY <4>3, <4>6
    <3> QED BY <1>1, <2>1, <3>1, <3>3, <3>4 DEF SwitchEarned
  <2> QED BY <1>5, <2>2, <2>3
<1>15. SwitchGood'
  <2> SUFFICES ASSUME AllFollow, ~Restarted PROVE SwitchGood'
    BY <1>4 DEF SwitchGood
  <2>1. /\ passed
        /\ Left = 2 => Attempted("push on", "on")
        /\ Left = 1 => Attempted("push off", "off")
    BY <1>2, <1>5 DEF NodeInv, SwitchGood
  <2>2. ASSUME NEW input, Attempted(Op.cmd, input) PROVE Attempted(Op.cmd, input)'
    <3>1. lost + late >= attempts
      BY <2>2 DEF Attempted
    <3>2. line' # <<>> /\ line'[Len(line')] = Op.cmd /\ Op' = Op
      BY <1>1, <1>9 DEF Op
    <3> QED BY <1>1, <3>1, <3>2 DEF Attempted, Pushing
  <2>3. Op' = Op
    BY <1>1 DEF Op
  <2>4. /\ Left = 2 => Attempted("push on", "on")'
        /\ Left = 1 => Attempted("push off", "off")'
    BY <1>6, <1>7, <2>1, <2>2, <2>3
  <2> QED BY <1>1, <1>2, <1>3, <2>1, <2>4 DEF SwitchGood
<1> QED BY <1>10, <1>11, <1>12, <1>13, <1>14, <1>15 DEF NodeInv

(* The reading of the actuators begins.                                    *)
LEMMA check_actuators_dimStep == ASSUME NodeInv, check_actuators_dim PROVE NodeInv'
<1>1. /\ \/ pc = "pushed" /\ Waited
         \/ pc = "run" /\ script # <<>> /\ Op.op = "check" /\ late' = late
      /\ pc' = "read" /\ unread' = Actuators /\ good' = TRUE
      /\ UNCHANGED <<plan, script, attempts, passed, verdicts, clean,
                     line, aux, follows, events, dim, mode, motdsbl, up, reboot, lost>>
  BY DEF check_actuators_dim, Doing, ToCheck, nodeVars
<1>2. NodeTypeOK /\ OnScript /\ pc # "next" /\ pc' # "next" /\ Left \in Nat
  <2>1. NodeTypeOK /\ OnScript /\ pc # "next" /\ pc' # "next"
    BY <1>1 DEF NodeInv
  <2> QED BY <2>1, UnderWayIs
<1>3. /\ Left' = Left /\ plan' # <<>>
      /\ Test' = Test /\ (\A test : On(test)' <=> On(test))
      /\ Left' <= Len(Script(Test))
      /\ \A k \in 1..Left' : script'[k] = Script(Test)[Len(Script(Test)) - Left' + k]
  BY <1>1, <1>2, SameOperation
<1>4. Restarted' = Restarted /\ AllFollow' = AllFollow /\ Settled' = Settled /\ Dark' = Dark
  BY <1>1 DEF Restarted, AllFollow, Settled, Dark
<1>5. \/ /\ On("sensor1") /\ ~On("pdline") /\ ~On("trigger") /\ (Left = 5 \/ Left = 2)
         /\ pc = "run" /\ late' = late
      \/ /\ On("pdline") /\ ~On("sensor1") /\ ~On("trigger") /\ (Left = 2 \/ Left = 1)
         /\ pc = "pushed" /\ Waited
  <2>1. CASE pc = "pushed" /\ Waited
    <3>1. On("pdline") /\ ~On("sensor1") /\ ~On("trigger")
      <4>1. Test \in Tests
        BY <1>2, UnderWayIs
      <4> QED BY <1>2, <2>1, <4>1 DEF OnScript, On, Tests
    <3>2. Left = 2 \/ Left = 1
      BY <1>2, <2>1, <3>1 DEF OnScript
    <3> QED BY <2>1, <3>1, <3>2
  <2>2. CASE pc = "run" /\ script # <<>> /\ Op.op = "check" /\ late' = late
    <3>1. Left > 0
      BY <1>2, <2>2, UnderWayIs
    <3>2. On("sensor1") /\ (Left = 5 \/ Left = 2)
      BY <1>2, <2>2, <3>1, Found
    <3> QED BY <1>2, <2>2, <3>2, UnderWayIs
  <2> QED BY <1>1, <2>1, <2>2
<1>6. late' \in Nat /\ late' >= late
  BY <1>1, <1>2 DEF Waited, NodeTypeOK
<1>7. NodeTypeOK'
  BY <1>1, <1>2, <1>6 DEF NodeTypeOK
<1>8. OnScript'
  <2>1. On("sensor1") => (Left' \in {5, 2} /\ (Left > 1 => attempts = 0))
    BY <1>2, <1>3, <1>5 DEF OnScript
  <2>2. On("pdline") => (Left' \in {2, 1} /\ ~(Left' > 2))
    BY <1>3, <1>5
  <2> QED BY <1>1, <1>3, <1>5, <2>1, <2>2 DEF OnScript
<1>9. Steady'
  BY <1>1, <1>3, <1>4 DEF NodeInv, Steady
<1>10. Restoring'
  <2>1. On("sensor1") => Left' # 1 /\ Left' # 0
    BY <1>3, <1>5
  <2> QED BY <1>1, <1>3, <1>4, <2>1 DEF NodeInv, Restoring
<1>11. \A c, e : OnlyOf(c, e) => OnlyOf(c, e)'
  BY <1>1 DEF OnlyOf
<1>12. ReadSoFar(100)' /\ ReadSoFar(0)' /\ \A a \in (Actuators \ unread)' : FALSE
  BY <1>1 DEF ReadSoFar
<1>13. SensorEarned'
  <2> SUFFICES ASSUME On("sensor1"), clean, passed PROVE SensorEarned'
    BY <1>1, <1>3 DEF SensorEarned
  <2> QED BY <1>1, <1>3, <1>4, <1>11, <1>12 DEF NodeInv, SensorEarned
<1>14. SwitchEarned'
  <2> SUFFICES ASSUME On("pdline"), clean, passed PROVE SwitchEarned'
    BY <1>1, <1>3 DEF SwitchEarned
  <2>1. pc # "run"
    BY <1>5
  <2> QED BY <1>1, <1>3, <1>11, <1>12, <2>1 DEF NodeInv, SwitchEarned
<1>15. SensorGood'
  <2> SUFFICES ASSUME On("sensor1"), AllFollow, ~Restarted, lost = 0, late' = 0
      PROVE SensorGood'
    BY <1>1, <1>3, <1>4 DEF SensorGood
  <2>1. late = 0
    BY <1>5
  <2>2. Changing("aux high", TRUE, "rise")' = Changing("aux high", TRUE, "rise")
    BY <1>1, <1>4 DEF Changing
  <2>3. Changing("aux low", FALSE, "fall")' = Changing("aux low", FALSE, "fall")
    BY <1>1, <1>4 DEF Changing
  <2> QED BY <1>1, <1>3, <1>4, <2>1, <2>2, <2>3 DEF NodeInv, SensorGood
<1>16. SwitchGood'
  <2> SUFFICES ASSUME On("pdline"), AllFollow, ~Restarted PROVE SwitchGood'
    BY <1>3, <1>4 DEF SwitchGood
  <2>1. pc = "pushed" /\ Waited /\ (Left = 2 \/ Left = 1)
    BY <1>5
  <2>2. /\ passed
        /\ Left = 2 => Attempted("push on", "on")
        /\ Left = 1 => Attempted("push off", "off")
    <3>1. Left > 0
      BY <2>1
    <3> QED BY <3>1 DEF NodeInv, SwitchGood
  <2>3. lost \in Nat /\ late \in Nat /\ attempts \in Nat /\ lost' = lost /\ attempts' = attempts
    BY <1>1, <1>2 DEF NodeTypeOK
  <2>31. PICK later \in Nat : late' = later /\ later >= late
    BY <1>6
  <2>4. ASSUME NEW cmd, NEW input, Attempted(cmd, input) PROVE Attempted(cmd, input)'
    <3>1. lost + late >= attempts /\ (lost + late >= attempts + 1 \/ Pushing(cmd, input))
      BY <2>1, <2>4 DEF Attempted
    <3>2. lost' + late' >= attempts'
      <4>1. lost + later >= attempts
        BY <2>3, <2>31, <3>1
      <4> QED BY <2>3, <2>31, <4>1
    <3>3. \/ lost' + late' >= attempts' + 1
          \/ good' /\ Settled' /\ \A a \in Actuators : dim'[a] = Level(input)
      <4>1. CASE ~Settled
        <5>1. late' = late + 1
          BY <2>1, <4>1 DEF Waited
        <5> QED BY <2>3, <3>1, <5>1
      <4>2. CASE Settled
        <5>1. late' = late
          BY <2>1, <4>2 DEF Waited
        <5>2. Pushing(cmd, input) => \A a \in Actuators : dim[a] = Level(input)
          BY <4>2 DEF Pushing, Settled
        <5> QED BY <1>1, <1>4, <2>3, <3>1, <4>2, <5>1, <5>2
      <4> QED BY <4>1, <4>2
    <3> QED BY <1>1, <3>2, <3>3 DEF Attempted
  <2>5. /\ Left = 2 => Attempted("push on", "on")'
        /\ Left = 1 => Attempted("push off", "off")'
    BY <2>2, <2>4
  <2> QED BY <1>1, <1>3, <2>1, <2>2, <2>5 DEF SwitchGood
<1> QED BY <1>7, <1>8, <1>9, <1>10, <1>13, <1>14, <1>15, <1>16 DEF NodeInv

(* A set of naturals that is not empty has a smallest element.             *)
LEMMA SmallestOf ==
  ASSUME NEW S, S \subseteq Nat, S # {}
  PROVE \E x \in S : \A y \in S : x <= y
<1>1. \E x \in S : \A y \in S : <<y, x>> \notin OpToRel(<, Nat)
  BY WFMin, NatLessThanWellFounded, Zenon
<1>2. OpToRel(<, Nat) = {ss \in Nat \X Nat : ss[1] < ss[2]}
  BY Zenon DEF OpToRel
<1>3. \A x, y \in Nat : y < x => <<y, x>> \in {ss \in Nat \X Nat : ss[1] < ss[2]}
  OBVIOUS
<1>4. PICK x \in S : \A y \in S : <<y, x>> \notin {ss \in Nat \X Nat : ss[1] < ss[2]}
  BY <1>1, <1>2
<1>5. \A y \in S : ~(y < x) /\ x \in Nat /\ y \in Nat
  BY <1>3, <1>4, Zenon
<1> QED BY <1>5

(* An actuator is read.                                                    *)
LEMMA ReadDimStep == ASSUME NodeInv, ReadDim PROVE NodeInv'
<1>1. /\ pc = "read" /\ unread # {}
      /\ UNCHANGED <<pc, plan, script, attempts, passed, verdicts, clean,
                     line, aux, follows, events, dim, mode, motdsbl, up, reboot, late>>
  BY DEF ReadDim, nodeVars
<1>2. NodeTypeOK /\ OnScript /\ pc # "next" /\ pc' # "next" /\ Left \in Nat
  <2>1. NodeTypeOK /\ OnScript /\ pc # "next" /\ pc' # "next"
    BY <1>1 DEF NodeInv
  <2> QED BY <2>1, UnderWayIs
<1>3. PICK actuator, reply : /\ actuator \in unread /\ unread' = unread \ {actuator}
                             /\ getValue(dim[actuator], reply)
                             /\ good' = (good /\ reply = Op.expected)
  <2>1. \E x \in unread : \A y \in unread : x <= y
    <3>1. unread \subseteq Nat
      BY <1>2 DEF NodeTypeOK, Actuators
    <3> QED BY <1>1, <3>1, SmallestOf
  <2> DEFINE first == CHOOSE x \in unread : \A y \in unread : x <= y
  <2>2. first \in unread
    BY <2>1
  <2>3. /\ unread' = unread \ {first}
        /\ \E reply \in {dim[first], NotRead} :
             getValue(dim[first], reply) /\ good' = (good /\ reply = Op.expected)
    BY DEF ReadDim
  <2> HIDE DEF first
  <2> QED BY <2>2, <2>3
<1>4. /\ lost' \in Nat /\ lost' >= lost /\ reply \in {dim[actuator], NotRead}
      /\ up /\ lost' # lost + 1 => reply = dim[actuator]
  BY <1>2, <1>3, ReadOutcome
<1>5. /\ Left' = Left /\ plan' # <<>>
      /\ Test' = Test /\ (\A test : On(test)' <=> On(test))
      /\ Left' <= Len(Script(Test))
      /\ \A k \in 1..Left' : script'[k] = Script(Test)[Len(Script(Test)) - Left' + k]
  BY <1>1, <1>2, SameOperation
<1>6. /\ Restarted' = Restarted /\ AllFollow' = AllFollow /\ Settled' = Settled /\ Dark' = Dark
  BY <1>1 DEF Restarted, AllFollow, Settled, Dark
<1>7. \/ On("sensor1") /\ ~On("pdline") /\ ~On("trigger") /\ (Left = 5 \/ Left = 2)
      \/ On("pdline") /\ ~On("sensor1") /\ ~On("trigger") /\ (Left = 2 \/ Left = 1)
  <2>1. On("sensor1") \/ On("pdline") \/ On("trigger")
    BY <1>2, UnderWayIs DEF On, Tests
  <2>2. ~On("trigger")
    BY <1>1, <1>2 DEF OnScript
  <2>3. On("sensor1") => Left = 5 \/ Left = 2
    BY <1>1, <1>2 DEF OnScript
  <2>4. On("pdline") => Left = 2 \/ Left = 1
    BY <1>1, <1>2 DEF OnScript
  <2> QED BY <1>2, <2>1, <2>2, <2>3, <2>4, UnderWayIs
<1>8. actuator \in Actuators /\ dim[actuator] \in {0, 100} /\ NotRead \notin {0, 100} /\ 0 # 100
  BY <1>2, <1>3 DEF NodeTypeOK, NotRead
<1>9. NodeTypeOK'
  <2>1. unread' \subseteq Actuators /\ good' \in BOOLEAN
    BY <1>2, <1>3 DEF NodeTypeOK
  <2> QED BY <1>1, <1>2, <1>4, <2>1 DEF NodeTypeOK
<1>10. OnScript'
  BY <1>1, <1>2, <1>5 DEF OnScript
<1>11. Steady'
  BY <1>1, <1>5, <1>6 DEF NodeInv, Steady
<1>12. Restoring'
  <2>1. On("sensor1") => Left' # 1 /\ Left' # 0
    BY <1>5, <1>7
  <2>2. lost' < Tries => lost < Tries
    BY <1>2, <1>4, TestsAssumption DEF NodeTypeOK
  <2> QED BY <1>1, <1>5, <1>6, <2>1, <2>2 DEF NodeInv, Restoring
<1>13. \A c, e : OnlyOf(c, e) => OnlyOf(c, e)'
  BY <1>1 DEF OnlyOf
<1>14. good' => good /\ reply = Op.expected
  BY <1>3
<1>15. \A a \in Actuators \ unread' : a = actuator \/ a \in Actuators \ unread
  BY <1>3
<1>16. ASSUME NEW level \in {0, 100}, Op.expected = level, ReadSoFar(level)
       PROVE ReadSoFar(level)' /\ (good' => dim[actuator] = level)
  <2>1. good' => dim[actuator] = level
    BY <1>4, <1>8, <1>14, <1>16
  <2>2. good' => \A a \in Actuators \ unread : dim[a] = level
    BY <1>1, <1>14, <1>16 DEF ReadSoFar
  <2> QED BY <1>1, <1>15, <2>1, <2>2 DEF ReadSoFar
<1>17. /\ On("sensor1") /\ Left = 5 => Op.expected = 100
       /\ On("sensor1") /\ Left = 2 => Op.expected = 0
  BY <1>2, SensorOps, KindsOf
<1>18. /\ On("pdline") /\ Left = 2 => Op.expected = 100
       /\ On("pdline") /\ Left = 1 => Op.expected = 0
  BY <1>2, SwitchOps, KindsOf
<1>19. SensorEarned'
  <2> SUFFICES ASSUME On("sensor1"), clean, passed PROVE SensorEarned'
    BY <1>1, <1>5 DEF SensorEarned
  <2>1. CASE Left = 5
    <3>1. Left' = 5 /\ Left' # 4 /\ Left' \notin {3, 2} /\ ~(Left' <= 4) /\ ~(Left' <= 1)
      BY <1>5, <2>1
    <3>2. /\ OnlyOf({"aux high"}, {"rise"}) /\ Len(line) + Len(events) <= 1
          /\ ~Settled => Dark
          /\ \A a \in Actuators : dim[a] = 100 => a \in follows["rise"]
          /\ ReadSoFar(100)
      BY <2>1 DEF NodeInv, SensorEarned
    <3>3. ReadSoFar(100)'
      BY <1>16, <1>17, <2>1, <3>2
    <3> QED BY <1>1, <1>6, <1>13, <3>1, <3>2, <3>3 DEF SensorEarned
  <2>2. CASE Left = 2
    <3>1. Left' = 2 /\ Left' # 4 /\ Left' \notin {6, 5} /\ ~(Left' <= 1)
      BY <1>5, <2>2
    <3>2. /\ OnlyOf({"aux low"}, {"fall"}) /\ follows["rise"] = Actuators
          /\ \A a \in Actuators : dim[a] = 0 => a \in follows["fall"]
          /\ ReadSoFar(0)
      <4>1. Left \in {3, 2} /\ Left <= 4
        BY <2>2
      <4> QED BY <4>1 DEF NodeInv, SensorEarned
    <3>3. ReadSoFar(0)'
      BY <1>16, <1>17, <2>2, <3>2
    <3> QED BY <1>1, <1>6, <1>13, <3>1, <3>2, <3>3 DEF SensorEarned
  <2> QED BY <1>7, <2>1, <2>2
<1>20. SwitchEarned'
  <2> SUFFICES ASSUME On("pdline"), clean, passed PROVE SwitchEarned'
    BY <1>1, <1>5 DEF SwitchEarned
  <2>1. CASE Left = 2
    <3>1. Left' = 2 /\ Left' # 1 /\ ~(Left' <= 1) /\ Left' # 0
      BY <1>5, <2>1
    <3>2. /\ OnlyOf({"push on"}, {"on"}) /\ ReadSoFar(100)
          /\ \A a \in Actuators : dim[a] = 100 => a \in follows["on"]
      BY <1>1, <2>1 DEF NodeInv, SwitchEarned
    <3>3. ReadSoFar(100)'
      BY <1>16, <1>18, <2>1, <3>2
    <3> QED BY <1>1, <1>13, <3>1, <3>2, <3>3 DEF SwitchEarned
  <2>2. CASE Left = 1
    <3>1. Left' = 1 /\ Left' # 2 /\ Left' # 0 /\ Left <= 1
      BY <1>5, <2>2
    <3>2. /\ OnlyOf({"push on", "push off"}, {"on", "off"}) /\ follows["on"] = Actuators
          /\ \A a \in Actuators : dim[a] = 0 => a \in follows["off"]
          /\ good => \A a \in Actuators \ unread : a \in follows["off"]
      BY <1>1, <2>2, <3>1 DEF NodeInv, SwitchEarned
    <3>3. good' => dim[actuator] = 0
      BY <1>4, <1>8, <1>14, <1>18, <2>2
    <3>4. good' => \A a \in Actuators \ unread' : a \in follows["off"]
      BY <1>8, <1>14, <1>15, <3>2, <3>3
    <3> QED BY <1>1, <1>13, <3>1, <3>2, <3>4 DEF SwitchEarned
  <2> QED BY <1>7, <2>1, <2>2
<1>21. SensorGood'
  <2> SUFFICES ASSUME On("sensor1"), AllFollow, ~Restarted, lost' = 0, late = 0
      PROVE SensorGood'
    BY <1>1, <1>5, <1>6 DEF SensorGood
  <2>1. lost = 0 /\ lost' # lost + 1 /\ up
    BY <1>2, <1>4, <1>7 DEF NodeInv, NodeTypeOK, Steady
  <2>2. passed /\ good /\ (Left \in 2..10 \/ pc = "motdsbl" => mode = OnOff)
    BY <1>1, <2>1 DEF NodeInv, SensorGood
  <2>3. mode' = OnOff
    <3>1. Left \in 2..10
      BY <1>7
    <3> QED BY <1>1, <2>2, <3>1
  <2>4. reply = dim[actuator]
    BY <1>4, <2>1
  <2>5. CASE Left = 5
    <3>1. Left' = 5 /\ Left' # 7 /\ Left' \notin {9, 8} /\ Left' # 6 /\ Left' # 3 /\ Left' # 2
      BY <1>5, <2>5
    <3>2. Settled /\ aux /\ \A a \in Actuators : dim[a] = 100
      BY <2>1, <2>5 DEF NodeInv, SensorGood
    <3>3. good'
      BY <1>3, <1>8, <1>17, <2>2, <2>4, <2>5, <3>2
    <3> QED BY <1>1, <1>6, <2>2, <2>3, <3>1, <3>2, <3>3 DEF SensorGood
  <2>6. CASE Left = 2
    <3>1. Left' = 2 /\ Left' # 7 /\ Left' \notin {9, 8} /\ Left' \notin {5, 4} /\ Left' # 6 /\ Left' # 3
      BY <1>5, <2>6
    <3>2. Settled /\ Dark
      BY <2>1, <2>6 DEF NodeInv, SensorGood
    <3>3. good'
      BY <1>3, <1>8, <1>17, <2>2, <2>4, <2>6, <3>2 DEF Dark
    <3> QED BY <1>1, <1>6, <2>2, <2>3, <3>1, <3>2, <3>3 DEF SensorGood
  <2> QED BY <1>7, <2>5, <2>6
<1>22. SwitchGood'
  <2> SUFFICES ASSUME On("pdline"), AllFollow, ~Restarted PROVE SwitchGood'
    BY <1>5, <1>6 DEF SwitchGood
  <2>1. up /\ (Left = 2 \/ Left = 1)
    BY <1>7 DEF NodeInv, Steady
  <2>2. /\ passed
        /\ Left = 2 => Attempted("push on", "on")
        /\ Left = 1 => Attempted("push off", "off")
    <3>1. Left > 0
      BY <2>1
    <3> QED BY <3>1 DEF NodeInv, SwitchGood
  <2>3. /\ lost \in Nat /\ late \in Nat /\ attempts \in Nat /\ late' = late /\ attempts' = attempts
        /\ pc' = pc
    BY <1>1, <1>2 DEF NodeTypeOK
  <2>4. PICK losses \in Nat : lost' = losses /\ losses >= lost
    BY <1>4
  <2>5. ASSUME NEW cmd, NEW input, Attempted(cmd, input), Op.expected = Level(input)
        PROVE Attempted(cmd, input)'
    <3>1. /\ lost + late >= attempts
          /\ \/ lost + late >= attempts + 1
             \/ good /\ Settled /\ \A a \in Actuators : dim[a] = Level(input)
      BY <1>1, <2>5 DEF Attempted
    <3>2. lost' + late' >= attempts'
      <4>1. losses + late >= attempts
        BY <2>3, <2>4, <3>1
      <4> QED BY <2>3, <2>4, <4>1
    <3>3. \/ lost' + late' >= attempts' + 1
          \/ good' /\ Settled' /\ \A a \in Actuators : dim'[a] = Level(input)
      <4>1. CASE lost + late >= attempts + 1
        <5>1. losses + late >= attempts + 1
          BY <2>3, <2>4, <4>1
        <5> QED BY <2>3, <2>4, <5>1
      <4>2. CASE good /\ Settled /\ \A a \in Actuators : dim[a] = Level(input)
        <5>1. CASE lost' = lost + 1
          <6>1. lost + 1 + late >= attempts + 1
            BY <2>3, <3>1
          <6> QED BY <2>3, <5>1, <6>1
        <5>2. CASE lost' # lost + 1
          <6>1. reply = Op.expected
            BY <1>4, <1>8, <2>1, <2>5, <4>2, <5>2
          <6> QED BY <1>1, <1>3, <1>6, <4>2, <6>1
        <5> QED BY <5>1, <5>2
      <4> QED BY <3>1, <4>1, <4>2
    <3> QED BY <1>1, <3>2, <3>3 DEF Attempted
  <2>6. Level("on") = 100 /\ Level("off") = 0
    BY DEF Level
  <2>7. /\ Left = 2 => Attempted("push on", "on")'
        /\ Left = 1 => Attempted("push off", "off")'
    BY <1>18, <2>2, <2>5, <2>6
  <2> QED BY <1>1, <1>5, <2>1, <2>2, <2>7 DEF SwitchGood
<1> QED BY <1>9, <1>10, <1>11, <1>12, <1>19, <1>20, <1>21, <1>22 DEF NodeInv

(* A check of the sensor test is over.                                     *)
LEMMA CheckedStep == ASSUME NodeInv, Checked PROVE NodeInv'
<1>1. /\ pc = "read" /\ unread = {} /\ Op.op = "check" /\ passed' = (passed /\ good)
      /\ pc' = "run" /\ script' = Tail(script)
      /\ UNCHANGED <<plan, attempts, unread, good, verdicts, clean,
                     line, aux, follows, events, dim, mode, motdsbl, up, reboot, lost, late>>
  BY DEF Checked, nodeVars
<1>2. NodeTypeOK /\ OnScript /\ pc # "next" /\ pc' # "next" /\ Left \in Nat /\ Left > 0
  <2>1. NodeTypeOK /\ OnScript /\ pc # "next" /\ pc' # "next"
    BY <1>1 DEF NodeInv
  <2>2. Left \in Nat /\ (On("sensor1") \/ On("pdline") \/ On("trigger"))
    BY <2>1, UnderWayIs DEF On, Tests
  <2>3. ~On("trigger") /\ (On("sensor1") => Left \in {5, 2}) /\ (On("pdline") => Left \in {2, 1})
    BY <1>1, <2>1 DEF OnScript
  <2> QED BY <2>1, <2>2, <2>3
<1>3. /\ Left' = Left - 1 /\ script' \in Seq(Operations) /\ plan' # <<>>
      /\ Test' = Test /\ (\A test : On(test)' <=> On(test))
      /\ Left' <= Len(Script(Test))
      /\ \A k \in 1..Left' : script'[k] = Script(Test)[Len(Script(Test)) - Left' + k]
  BY <1>1, <1>2, Onwards
<1>4. Restarted' = Restarted /\ AllFollow' = AllFollow /\ Settled' = Settled /\ Dark' = Dark
  BY <1>1 DEF Restarted, AllFollow, Settled, Dark
<1>5. On("sensor1") /\ ~On("pdline") /\ ~On("trigger") /\ (Left = 5 \/ Left = 2)
  BY <1>1, <1>2, Found, UnderWayIs
<1>6. (Left = 5 => Left' = 4) /\ (Left = 2 => Left' = 1)
  BY <1>3
<1>7. attempts' = 0
  <2>1. Left > 1
    BY <1>5
  <2> QED BY <1>1, <1>2, <1>5, <2>1 DEF OnScript
<1>8. NodeTypeOK'
  <2>1. passed' \in BOOLEAN
    BY <1>1, <1>2 DEF NodeTypeOK
  <2> QED BY <1>1, <1>2, <1>3, <2>1 DEF NodeTypeOK
<1>9. OnScript'
  BY <1>1, <1>3, <1>5, <1>7 DEF OnScript
<1>10. Steady'
  BY <1>1, <1>3, <1>4 DEF NodeInv, Steady
<1>11. Restoring'
  <2>1. Left' # 0 /\ lost >= 0 + 0 /\ pc' # "verify"
    BY <1>1, <1>2, <1>5, <1>6 DEF NodeTypeOK
  <2> QED BY <1>1, <1>3, <1>4, <1>5, <1>7, <2>1 DEF Restoring
<1>12. SwitchEarned' /\ SwitchGood'
  BY <1>3, <1>5 DEF SwitchEarned, SwitchGood
<1>13. \A level : ReadSoFar(level) /\ good => \A a \in Actuators : dim[a] = level
  BY <1>1 DEF ReadSoFar
<1>14. SensorEarned'
  <2> SUFFICES ASSUME clean, passed, good PROVE SensorEarned'
    BY <1>1 DEF SensorEarned
  <2>1. CASE Left = 5
    <3>1. Left' = 4 /\ Left' \notin {6, 5} /\ Left' \notin {3, 2} /\ ~(Left' <= 1)
      BY <1>6, <2>1
    <3>2. /\ ~Settled => Dark
          /\ \A a \in Actuators : dim[a] = 100 => a \in follows["rise"]
          /\ ReadSoFar(100)
      BY <1>5, <2>1 DEF NodeInv, SensorEarned
    <3>3. \A a \in Actuators : dim[a] = 100
      BY <1>13, <3>2
    <3>4. Settled
      <4>1. 1 \in Actuators
        BY TestsAssumption DEF Actuators
      <4>2. dim[1] # 0
        BY <3>3, <4>1
      <4> QED BY <3>2, <4>1, <4>2 DEF Dark
    <3>5. follows["rise"] = Actuators
      <4>1. follows["rise"] \subseteq Actuators
        BY <1>2 DEF NodeTypeOK, Inputs
      <4> QED BY <3>2, <3>3, <4>1
    <3> QED BY <1>1, <1>4, <3>1, <3>3, <3>4, <3>5 DEF SensorEarned
  <2>2. CASE Left = 2
    <3>1. Left' = 1 /\ Left' # 4 /\ Left' \notin {6, 5} /\ Left' \notin {3, 2}
      BY <1>6, <2>2
    <3>2. /\ follows["rise"] = Actuators
          /\ \A a \in Actuators : dim[a] = 0 => a \in follows["fall"]
          /\ ReadSoFar(0)
      <4>1. Left \in {3, 2} /\ Left <= 4
        BY <2>2
      <4> QED BY <1>5, <4>1 DEF NodeInv, SensorEarned
    <3>3. \A a \in Actuators : dim[a] = 0
      BY <1>13, <3>2
    <3>4. follows["fall"] = Actuators
      <4>1. follows["fall"] \subseteq Actuators
        BY <1>2 DEF NodeTypeOK, Inputs
      <4> QED BY <3>2, <3>3, <4>1
    <3> QED BY <1>1, <3>1, <3>2, <3>4 DEF SensorEarned
  <2> QED BY <1>5, <2>1, <2>2
<1>15. SensorGood'
  <2> SUFFICES ASSUME AllFollow, ~Restarted, lost = 0, late = 0
      PROVE SensorGood'
    BY <1>1, <1>4 DEF SensorGood
  <2>1. passed /\ good /\ (Left \in 2..10 \/ pc = "motdsbl" => mode = OnOff)
    BY <1>1, <1>5 DEF NodeInv, SensorGood
  <2>2. mode' = OnOff
    <3>1. Left \in 2..10
      BY <1>5
    <3> QED BY <1>1, <2>1, <3>1
  <2>3. CASE Left = 5
    <3>1. Left' = 4 /\ Left' # 7 /\ Left' \notin {9, 8} /\ Left' # 6 /\ Left' # 3 /\ Left' # 2
      BY <1>6, <2>3
    <3>2. Settled /\ aux /\ \A a \in Actuators : dim[a] = 100
      BY <1>5, <2>3 DEF NodeInv, SensorGood
    <3> QED BY <1>1, <1>4, <2>1, <2>2, <3>1, <3>2 DEF SensorGood
  <2>4. CASE Left = 2
    <3>1. /\ Left' = 1 /\ Left' # 7 /\ Left' \notin {9, 8} /\ Left' \notin {5, 4} /\ Left' # 6 /\ Left' # 3
          /\ Left' # 2
      BY <1>6, <2>4
    <3> QED BY <1>1, <2>1, <2>2, <3>1 DEF SensorGood
  <2> QED BY <1>5, <2>3, <2>4
<1> QED BY <1>8, <1>9, <1>10, <1>11, <1>12, <1>14, <1>15 DEF NodeInv

(* A turn of the loop of a button is over: it goes on with the next        *)
(* operation, tries again, or ends the test.                               *)
LEMMA PushedStep == ASSUME NodeInv, Pushed PROVE NodeInv'
<1>1. /\ pc = "read" /\ unread = {} /\ Op.op = "push" /\ pc' = "run"
      /\ UNCHANGED <<plan, unread, good, verdicts, clean,
                     line, aux, follows, events, dim, mode, motdsbl, up, reboot, lost, late>>
  BY DEF Pushed, nodeVars
<1>2. \/ good /\ attempts' = 0 /\ script' = Tail(script) /\ passed' = passed
      \/ ~good /\ attempts' = attempts + 1 /\ script' = script /\ passed' = passed
      \/ ~good /\ attempts + 1 >= Attempts /\ attempts' = 0 /\ script' = <<>> /\ passed' = FALSE
  BY DEF Pushed, TooMany
<1>3. NodeTypeOK /\ OnScript /\ pc # "next" /\ pc' # "next" /\ Left \in Nat /\ Left > 0
  <2>1. NodeTypeOK /\ OnScript /\ pc # "next" /\ pc' # "next"
    BY <1>1 DEF NodeInv
  <2>2. Left \in Nat /\ (On("sensor1") \/ On("pdline") \/ On("trigger"))
    BY <2>1, UnderWayIs DEF On, Tests
  <2>3. ~On("trigger") /\ (On("sensor1") => Left \in {5, 2}) /\ (On("pdline") => Left \in {2, 1})
    BY <1>1, <2>1 DEF OnScript
  <2> QED BY <2>1, <2>2, <2>3
<1>4. On("pdline") /\ ~On("sensor1") /\ ~On("trigger") /\ (Left = 2 \/ Left = 1)
  BY <1>1, <1>3, Found, UnderWayIs
<1>5. Restarted' = Restarted /\ AllFollow' = AllFollow
  BY <1>1 DEF Restarted, AllFollow
<1>6. \A c, e : OnlyOf(c, e) => OnlyOf(c, e)'
  BY <1>1 DEF OnlyOf
<1>7. lost \in Nat /\ late \in Nat /\ attempts \in Nat /\ Attempts \in Nat
  BY <1>3, TestsAssumption DEF NodeTypeOK
<1>8. /\ AllFollow /\ ~Restarted => passed
      /\ AllFollow /\ ~Restarted /\ ~good => lost + late >= attempts + 1
  <2> SUFFICES ASSUME AllFollow, ~Restarted PROVE passed /\ (~good => lost + late >= attempts + 1)
    OBVIOUS
  <2>1. /\ passed
        /\ Left = 2 => Attempted("push on", "on")
        /\ Left = 1 => Attempted("push off", "off")
    BY <1>3, <1>4 DEF NodeInv, SwitchGood
  <2>2. \A cmd, input : Attempted(cmd, input) /\ ~good => lost + late >= attempts + 1
    BY <1>1 DEF Attempted
  <2> QED BY <1>4, <2>1, <2>2
<1>9. CASE good /\ attempts' = 0 /\ script' = Tail(script) /\ passed' = passed
  <2>1. /\ Left' = Left - 1 /\ script' \in Seq(Operations) /\ plan' # <<>>
        /\ Test' = Test /\ (\A test : On(test)' <=> On(test))
        /\ Left' <= Len(Script(Test))
        /\ \A k \in 1..Left' : script'[k] = Script(Test)[Len(Script(Test)) - Left' + k]
    BY <1>1, <1>3, <1>9, Onwards
  <2>2. (Left = 2 => Left' = 1) /\ (Left = 1 => Left' = 0)
    BY <2>1
  <2>3. NodeTypeOK'
    BY <1>1, <1>3, <1>9, <2>1 DEF NodeTypeOK
  <2>4. OnScript'
    BY <1>1, <1>4, <1>9, <2>1 DEF OnScript
  <2>5. Steady' /\ Restoring'
    BY <1>1, <1>4, <1>5, <2>1 DEF NodeInv, Steady, Restoring
  <2>6. SensorEarned' /\ SensorGood'
    BY <1>4, <2>1 DEF SensorEarned, SensorGood
  <2>7. SwitchEarned'
    <3> SUFFICES ASSUME clean, passed PROVE SwitchEarned'
      BY <1>1, <1>9 DEF SwitchEarned
    <3>1. CASE Left = 2
      <4>1. Left' = 1 /\ Left' # 2 /\ Left' # 0
        BY <2>2, <3>1
      <4>2. /\ OnlyOf({"push on"}, {"on"}) /\ ReadSoFar(100)
            /\ \A a \in Actuators : dim[a] = 100 => a \in follows["on"]
        BY <1>1, <1>4, <3>1 DEF NodeInv, SwitchEarned
      <4>3. \A a \in Actuators : dim[a] = 100 /\ dim[a] # 0
        <5>1. \A a \in Actuators : dim[a] = 100
          BY <1>1, <1>9, <4>2 DEF ReadSoFar
        <5>2. 100 # 0
          OBVIOUS
        <5> QED BY <5>1, <5>2, Zenon
      <4>4. follows["on"] = Actuators
        <5>1. follows["on"] \subseteq Actuators
          BY <1>3 DEF NodeTypeOK, Inputs
        <5> QED BY <4>2, <4>3, <5>1
      <4>5. OnlyOf({"push on", "push off"}, {"on", "off"})'
        BY <1>1, <4>2 DEF OnlyOf
      <4> QED BY <1>1, <4>1, <4>3, <4>4, <4>5 DEF SwitchEarned
    <3>2. CASE Left = 1
      <4>1. Left' = 0 /\ Left' # 1 /\ Left' # 2 /\ Left <= 1
        BY <2>2, <3>2
      <4>2. follows["on"] = Actuators /\ \A a \in Actuators : a \in follows["off"]
        BY <1>1, <1>4, <1>9, <3>2, <4>1 DEF NodeInv, SwitchEarned
      <4>3. follows["off"] = Actuators
        <5>1. follows["off"] \subseteq Actuators
          BY <1>3 DEF NodeTypeOK, Inputs
        <5> QED BY <4>2, <5>1
      <4> QED BY <1>1, <4>1, <4>2, <4>3 DEF SwitchEarned
    <3> QED BY <1>4, <3>1, <3>2
  <2>8. SwitchGood'
    <3>1. lost' + late' >= attempts'
      <4>1. lost + late >= 0
        BY <1>7
      <4> QED BY <1>1, <1>9, <4>1
    <3>2. \A cmd, input : Attempted(cmd, input)'
      BY <1>1, <3>1 DEF Attempted
    <3> QED BY <1>5, <1>8, <1>9, <3>2 DEF SwitchGood
  <2> QED BY <2>3, <2>4, <2>5, <2>6, <2>7, <2>8 DEF NodeInv
<1>10. CASE ~good /\ attempts' = attempts + 1 /\ script' = script /\ passed' = passed
  <2>1. /\ Left' = Left /\ plan' # <<>>
        /\ Test' = Test /\ (\A test : On(test)' <=> On(test))
        /\ Left' <= Len(Script(Test))
        /\ \A k \in 1..Left' : script'[k] = Script(Test)[Len(Script(Test)) - Left' + k]
    BY <1>1, <1>3, <1>10, SameOperation
  <2>2. NodeTypeOK'
    <3>1. attempts' \in Nat /\ script' \in Seq(Operations)
      BY <1>3, <1>7, <1>10 DEF NodeTypeOK
    <3> QED BY <1>1, <1>3, <1>10, <3>1 DEF NodeTypeOK
  <2>3. OnScript'
    <3>1. ~(Left' > 2)
      BY <1>4, <2>1
    <3> QED BY <1>1, <1>4, <2>1, <3>1 DEF OnScript
  <2>4. Steady' /\ Restoring'
    BY <1>1, <1>4, <1>5, <2>1 DEF NodeInv, Steady, Restoring
  <2>5. SensorEarned' /\ SensorGood'
    BY <1>4, <2>1 DEF SensorEarned, SensorGood
  <2>6. SwitchEarned'
    <3> SUFFICES ASSUME clean, passed PROVE SwitchEarned'
      BY <1>1, <1>10 DEF SwitchEarned
    <3>1. Left' # 0 /\ pc # "run" /\ pc' # "read"
      BY <1>1, <1>4, <2>1
    <3> QED BY <1>1, <1>4, <1>6, <2>1, <3>1 DEF NodeInv, SwitchEarned, ReadSoFar
  <2>7. SwitchGood'
    <3> SUFFICES ASSUME AllFollow, ~Restarted PROVE SwitchGood'
      BY <1>5 DEF SwitchGood
    <3>1. lost' + late' >= attempts'
      BY <1>1, <1>8, <1>10
    <3>2. \A cmd, input : Attempted(cmd, input)'
      BY <1>1, <3>1 DEF Attempted
    <3> QED BY <1>3, <1>8, <1>10, <2>1, <3>2 DEF SwitchGood
  <2> QED BY <2>2, <2>3, <2>4, <2>5, <2>6, <2>7 DEF NodeInv
<1>11. CASE ~good /\ attempts + 1 >= Attempts /\ attempts' = 0 /\ script' = <<>> /\ passed' = FALSE
  <2>1. Left' = 0 /\ script' \in Seq(Operations) /\ Test' = Test /\ plan' # <<>>
    BY <1>1, <1>3, <1>11 DEF Left, Test, OnScript
  <2>2. \A test : On(test)' <=> On(test)
    BY <1>1, <1>3, <2>1 DEF On
  <2>3. NodeTypeOK'
    BY <1>1, <1>3, <1>11, <2>1 DEF NodeTypeOK
  <2>4. OnScript'
    <3>1. Left' <= Len(Script(Test))
      BY <1>4, <2>1, Scripts DEF On
    <3>2. \A k \in 1..Left' : FALSE
      BY <2>1
    <3> QED BY <1>1, <1>4, <1>11, <2>1, <2>2, <3>1, <3>2 DEF OnScript
  <2>5. Steady' /\ Restoring'
    BY <1>1, <1>4, <1>5, <2>2 DEF NodeInv, Steady, Restoring
  <2>6. SensorEarned' /\ SensorGood'
    BY <1>4, <2>2 DEF SensorEarned, SensorGood
  <2>7. SwitchEarned'
    BY <1>11 DEF SwitchEarned
  <2>8. SwitchGood'
    <3> SUFFICES ASSUME AllFollow, ~Restarted PROVE SwitchGood'
      BY <1>5 DEF SwitchGood
    <3>1. lost + late >= Attempts
      BY <1>7, <1>8, <1>11
    <3>2. Left' # 2 /\ Left' # 1 /\ ~(Left' > 0)
      BY <2>1
    <3> QED BY <1>1, <3>1, <3>2 DEF SwitchGood
  <2> QED BY <2>3, <2>4, <2>5, <2>6, <2>7, <2>8 DEF NodeInv
<1> QED BY <1>2, <1>9, <1>10, <1>11

(* The settings of the sensor test are written.                            *)
LEMMA before_sensor_testStep == ASSUME NodeInv, before_sensor_test PROVE NodeInv'
<1>1. UNCHANGED <<plan, attempts, unread, good, passed, verdicts, clean,
                  line, aux, events, follows, up, late>>
  BY DEF before_sensor_test
<1>2. \/ /\ pc = "run" /\ script # <<>> /\ Op.op = "before" /\ PutServedOrLost("mode", OnOff)
         /\ pc' = "motdsbl" /\ script' = script
      \/ /\ pc = "motdsbl" /\ PutServedOrLost("motdsbl", Enabled)
         /\ pc' = "run" /\ script' = Tail(script)
  BY DEF before_sensor_test, Doing
<1>3. NodeTypeOK /\ OnScript /\ pc # "next" /\ pc' # "next" /\ Left \in Nat
  <2>1. NodeTypeOK /\ OnScript /\ pc # "next" /\ pc' # "next"
    BY <1>2 DEF NodeInv
  <2> QED BY <2>1, UnderWayIs
<1>4. On("sensor1") /\ ~On("pdline") /\ ~On("trigger") /\ Left = 11
  <2>1. CASE pc = "motdsbl"
    <3>1. On("sensor1") \/ On("pdline") \/ On("trigger")
      BY <1>3, UnderWayIs DEF On, Tests
    <3>2. ~On("pdline") /\ ~On("trigger")
      BY <1>3, <2>1 DEF OnScript
    <3>3. On("sensor1") => Left = 11
      BY <1>3, <2>1 DEF OnScript
    <3> QED BY <3>1, <3>2, <3>3
  <2>2. CASE script # <<>> /\ Op.op = "before"
    <3>1. Left > 0
      BY <1>3, <2>2, UnderWayIs
    <3> QED BY <1>3, <2>2, <3>1, Found, UnderWayIs
  <2> QED BY <1>2, <2>1, <2>2
<1>5. Restarted' = Restarted /\ AllFollow' = AllFollow
  BY <1>1 DEF Restarted, AllFollow
<1>6. attempts = 0 /\ (~Restarted => up)
  <2>1. Left > 1
    BY <1>4
  <2> QED BY <1>3, <1>4, <2>1 DEF NodeInv, Steady, OnScript
<1>7. /\ lost \in Nat /\ lost' \in Nat /\ lost' >= lost /\ dim' = dim /\ reboot' = reboot
      /\ mode' \in {OnOff, MotVac} /\ motdsbl' \in {Enabled, Disabled}
      /\ pc = "run" => (up /\ lost' # lost + 1 => mode' = OnOff)
      /\ pc = "motdsbl" => mode' = mode
  <2>1. lost \in Nat /\ mode \in {OnOff, MotVac} /\ motdsbl \in {Enabled, Disabled}
    BY <1>3 DEF NodeTypeOK
  <2>2. CASE pc = "run" /\ PutServedOrLost("mode", OnOff)
    BY <1>3, <2>1, <2>2, PutOutcome
  <2>3. CASE pc = "motdsbl" /\ PutServedOrLost("motdsbl", Enabled)
    BY <1>3, <2>1, <2>3, PutOutcome
  <2> QED BY <1>2, <2>2, <2>3
<1>8. ASSUME /\ Left' \in {11, 10} /\ script' \in Seq(Operations) /\ plan' # <<>>
             /\ Test' = Test /\ (\A test : On(test)' <=> On(test))
             /\ Left' <= Len(Script(Test))
             /\ \A k \in 1..Left' : script'[k] = Script(Test)[Len(Script(Test)) - Left' + k],
             pc' = "run" \/ (pc' = "motdsbl" /\ Left' = 11)
      PROVE NodeInv'
  <2>1. NodeTypeOK'
    BY <1>1, <1>3, <1>7, <1>8 DEF NodeTypeOK
  <2>2. OnScript'
    BY <1>1, <1>4, <1>6, <1>8 DEF OnScript
  <2>3. Steady'
    BY <1>1, <1>5, <1>7, <1>8 DEF NodeInv, Steady
  <2>4. Left' # 1 /\ Left' # 0 /\ On("sensor1")' /\ ~On("pdline")'
    BY <1>4, <1>8
  <2>5. Restoring'
    BY <2>4 DEF Restoring
  <2>6. SwitchEarned' /\ SwitchGood'
    BY <2>4 DEF SwitchEarned, SwitchGood
  <2>7. /\ Left' \notin {6, 5} /\ Left' # 4 /\ Left' \notin {3, 2} /\ ~(Left' <= 4) /\ ~(Left' <= 1)
        /\ Left' \notin {9, 8} /\ Left' # 7 /\ Left' # 6 /\ Left' \notin {5, 4} /\ Left' # 3 /\ Left' # 2
    BY <1>8
  <2>8. SensorEarned'
    BY <2>7 DEF SensorEarned
  <2>9. SensorGood'
    <3> SUFFICES ASSUME AllFollow, ~Restarted, lost' = 0, late = 0
        PROVE passed' /\ (pc' = "read" => good') /\ mode' = OnOff
      BY <1>1, <1>5, <2>7 DEF SensorGood
    <3>1. lost = 0 /\ lost' # lost + 1 /\ up
      BY <1>6, <1>7
    <3>2. passed /\ (pc = "motdsbl" => mode = OnOff)
      BY <1>4, <3>1 DEF NodeInv, SensorGood
    <3> QED BY <1>1, <1>2, <1>7, <3>1, <3>2
  <2> QED BY <2>1, <2>2, <2>3, <2>5, <2>6, <2>8, <2>9 DEF NodeInv
<1>9. CASE pc' = "motdsbl" /\ script' = script
  <2>1. /\ Left' = Left /\ plan' # <<>>
        /\ Test' = Test /\ (\A test : On(test)' <=> On(test))
        /\ Left' <= Len(Script(Test))
        /\ \A k \in 1..Left' : script'[k] = Script(Test)[Len(Script(Test)) - Left' + k]
    BY <1>1, <1>3, <1>9, SameOperation
  <2> QED BY <1>3, <1>4, <1>8, <1>9, <2>1 DEF NodeTypeOK
<1>10. CASE pc' = "run" /\ script' = Tail(script)
  <2>1. /\ Left' = Left - 1 /\ script' \in Seq(Operations) /\ plan' # <<>>
        /\ Test' = Test /\ (\A test : On(test)' <=> On(test))
        /\ Left' <= Len(Script(Test))
        /\ \A k \in 1..Left' : script'[k] = Script(Test)[Len(Script(Test)) - Left' + k]
    <3>1. Left > 0
      BY <1>4
    <3> QED BY <1>1, <1>3, <1>10, <3>1, Onwards
  <2>2. Left' \in {11, 10}
    BY <1>4, <2>1
  <2> QED BY <1>8, <1>10, <2>1, <2>2
<1> QED BY <1>2, <1>9, <1>10

(* The product's settings are written, and read back, one after the other. *)
LEMMA after_sensor_testStep == ASSUME NodeInv, after_sensor_test PROVE NodeInv'
<1>1. UNCHANGED <<plan, unread, good, passed, verdicts, clean, line, aux, events, follows, up, late>>
  BY DEF after_sensor_test
<1> DEFINE Written == pc \in {"run", "secure"} /\ script' = script /\ attempts' = attempts
           Again(reply) == attempts' = attempts + 1 /\ script' = script
           Enough(reply, value) == ~(reply # value /\ attempts + 1 < Tries) /\ attempts' = 0
<1>2. \/ /\ pc = "run" /\ script # <<>> /\ Op.op = "after" /\ Written
         /\ PutServedOrLost("mode", MotVac) /\ pc' = "verify"
      \/ /\ pc = "verify" /\ UNCHANGED <<dim, mode, motdsbl, reboot>>
         /\ \E reply : /\ getValue(mode, reply)
                       /\ \/ Again(reply) /\ pc' = "run"
                          \/ Enough(reply, MotVac) /\ pc' = "secure" /\ script' = script
      \/ /\ pc = "secure" /\ Written
         /\ PutServedOrLost("motdsbl", Disabled) /\ pc' = "reverify"
      \/ /\ pc = "reverify" /\ UNCHANGED <<dim, mode, motdsbl, reboot>>
         /\ \E reply : /\ getValue(motdsbl, reply)
                       /\ \/ Again(reply) /\ pc' = "secure"
                          \/ Enough(reply, Disabled) /\ pc' = "run" /\ script' = Tail(script)
  BY DEF after_sensor_test, Doing, SecureWrite, SecureRead, SecureAgain
<1>3. NodeTypeOK /\ OnScript /\ pc # "next" /\ pc' # "next" /\ Left \in Nat
  <2>1. NodeTypeOK /\ OnScript /\ pc # "next" /\ pc' # "next"
    BY <1>2 DEF NodeInv
  <2> QED BY <2>1, UnderWayIs
<1>4. On("sensor1") /\ ~On("pdline") /\ ~On("trigger") /\ Left = 1
  <2>1. CASE pc \in {"verify", "secure", "reverify"}
    <3>1. On("sensor1") \/ On("pdline") \/ On("trigger")
      BY <1>3, UnderWayIs DEF On, Tests
    <3>2. ~On("pdline") /\ ~On("trigger")
      BY <1>3, <2>1 DEF OnScript
    <3>3. On("sensor1") => Left = 1
      BY <1>3, <2>1 DEF OnScript
    <3> QED BY <3>1, <3>2, <3>3
  <2>2. CASE script # <<>> /\ Op.op = "after"
    <3>1. Left > 0
      BY <1>3, <2>2, UnderWayIs
    <3> QED BY <1>3, <2>2, <3>1, Found, UnderWayIs
  <2> QED BY <1>2, <2>1, <2>2
<1>6. Restarted' = Restarted /\ AllFollow' = AllFollow
  BY <1>1 DEF Restarted, AllFollow
<1>7. /\ lost \in Nat /\ attempts \in Nat /\ Tries \in Nat
      /\ mode \in {OnOff, MotVac} /\ motdsbl \in {Enabled, Disabled}
  BY <1>3, TestsAssumption DEF NodeTypeOK
<1>8. ~Restarted => up
  BY <1>4 DEF NodeInv, Steady
<1>9. ~Restarted /\ lost < Tries =>
        /\ pc = "run" => mode = MotVac \/ lost >= attempts
        /\ pc = "verify" => mode = MotVac \/ lost >= attempts + 1
        /\ pc \in {"secure", "reverify"} => mode = MotVac
        /\ pc = "secure" => motdsbl = Disabled \/ lost >= attempts
        /\ pc = "reverify" => motdsbl = Disabled \/ lost >= attempts + 1
  <2> SUFFICES ASSUME ~Restarted, lost < Tries
      PROVE /\ pc = "run" => mode = MotVac \/ lost >= attempts
            /\ pc = "verify" => mode = MotVac \/ lost >= attempts + 1
            /\ pc \in {"secure", "reverify"} => mode = MotVac
            /\ pc = "secure" => motdsbl = Disabled \/ lost >= attempts
            /\ pc = "reverify" => motdsbl = Disabled \/ lost >= attempts + 1
    OBVIOUS
  <2>1. pc \notin {"secure", "reverify"} =>
          mode = MotVac \/ lost >= attempts + (IF pc = "verify" THEN 1 ELSE 0)
    BY <1>4 DEF NodeInv, Restoring
  <2>2. pc \in {"secure", "reverify"} =>
          mode = MotVac /\ (motdsbl = Disabled \/ lost >= attempts + (IF pc = "reverify" THEN 1 ELSE 0))
    BY <1>4 DEF NodeInv, Restoring
  <2> QED BY <1>7, <2>1, <2>2
<1>10. clean /\ passed => follows["rise"] = Actuators /\ follows["fall"] = Actuators
  <2>1. Left <= 4 /\ Left <= 1
    BY <1>4
  <2> QED BY <1>4, <2>1 DEF NodeInv, SensorEarned
<1>11. ASSUME Left' \in {0, 1}, \A test : On(test)' <=> On(test), lost' \in Nat, lost' >= lost
       PROVE SensorEarned' /\ SensorGood' /\ SwitchEarned' /\ SwitchGood'
  <2>1. SwitchEarned' /\ SwitchGood'
    BY <1>4, <1>11 DEF SwitchEarned, SwitchGood
  <2>2. /\ Left' \notin {6, 5} /\ Left' # 4 /\ Left' \notin {3, 2} /\ Left' \notin 2..10
        /\ Left' \notin {9, 8} /\ Left' # 7 /\ Left' # 6 /\ Left' \notin {5, 4} /\ Left' # 3 /\ Left' # 2
    BY <1>11
  <2>3. SensorEarned'
    BY <1>1, <1>10, <2>2 DEF SensorEarned
  <2>4. AllFollow /\ ~Restarted /\ lost' = 0 /\ late = 0 => passed
    <3>1. lost' = 0 => lost = 0
      BY <1>7, <1>11
    <3> QED BY <1>4, <3>1 DEF NodeInv, SensorGood
  <2>5. pc' # "read" /\ pc' # "motdsbl"
    BY <1>2
  <2>6. SensorGood'
    BY <1>1, <1>6, <1>11, <2>2, <2>4, <2>5 DEF SensorGood
  <2> QED BY <2>1, <2>3, <2>6
<1>12. ASSUME script' = script, attempts' \in Nat, pc' \in {"run", "verify", "secure", "reverify"},
              lost' \in Nat, lost' >= lost, dim' = dim, reboot' = reboot,
              mode' \in {OnOff, MotVac}, motdsbl' \in {Enabled, Disabled},
              ~Restarted /\ lost' < Tries =>
                /\ pc' = "run" => mode' = MotVac \/ lost' >= attempts'
                /\ pc' = "verify" => mode' = MotVac \/ lost' >= attempts' + 1
                /\ pc' \in {"secure", "reverify"} => mode' = MotVac
                /\ pc' = "secure" => motdsbl' = Disabled \/ lost' >= attempts'
                /\ pc' = "reverify" => motdsbl' = Disabled \/ lost' >= attempts' + 1
       PROVE NodeInv'
  <2>1. /\ Left' = Left /\ plan' # <<>>
        /\ Test' = Test /\ (\A test : On(test)' <=> On(test))
        /\ Left' <= Len(Script(Test))
        /\ \A k \in 1..Left' : script'[k] = Script(Test)[Len(Script(Test)) - Left' + k]
    BY <1>1, <1>3, <1>12, SameOperation
  <2>2. NodeTypeOK'
    BY <1>1, <1>3, <1>12 DEF NodeTypeOK
  <2>3. OnScript'
    <3>1. Left' = 1 /\ ~(Left' > 1)
      BY <1>4, <2>1
    <3> QED BY <1>4, <1>12, <2>1, <3>1 DEF OnScript
  <2>4. Steady'
    BY <1>1, <1>6, <1>12, <2>1 DEF NodeInv, Steady
  <2>5. Restoring'
    <3>1. Left' = 1 /\ Left' # 0 /\ On("sensor1")'
      BY <1>4, <2>1
    <3> SUFFICES ASSUME ~Restarted, lost' < Tries
        PROVE /\ pc' \notin {"secure", "reverify"} =>
                   mode' = MotVac \/ lost' >= attempts' + (IF pc' = "verify" THEN 1 ELSE 0)
              /\ pc' \in {"secure", "reverify"} =>
                   /\ mode' = MotVac
                   /\ motdsbl' = Disabled \/ lost' >= attempts' + (IF pc' = "reverify" THEN 1 ELSE 0)
      BY <1>6, <3>1 DEF Restoring
    <3>2. PICK n \in Nat : n = attempts'
      BY <1>12
    <3>3. /\ pc' = "run" => mode' = MotVac \/ lost' >= n
          /\ pc' = "verify" => mode' = MotVac \/ lost' >= n + 1
          /\ pc' \in {"secure", "reverify"} => mode' = MotVac
          /\ pc' = "secure" => motdsbl' = Disabled \/ lost' >= n
          /\ pc' = "reverify" => motdsbl' = Disabled \/ lost' >= n + 1
      BY <1>12, <3>2
    <3>4. CASE pc' = "run"
      BY <3>2, <3>3, <3>4
    <3>5. CASE pc' = "verify"
      BY <3>2, <3>3, <3>5
    <3>6. CASE pc' = "secure"
      BY <3>2, <3>3, <3>6
    <3>7. CASE pc' = "reverify"
      BY <3>2, <3>3, <3>7
    <3> QED BY <1>12, <3>4, <3>5, <3>6, <3>7
  <2>6. SensorEarned' /\ SensorGood' /\ SwitchEarned' /\ SwitchGood'
    BY <1>4, <1>11, <1>12, <2>1
  <2> QED BY <2>2, <2>3, <2>4, <2>5, <2>6 DEF NodeInv
<1>13. CASE /\ pc = "run" /\ Written
            /\ PutServedOrLost("mode", MotVac) /\ pc' = "verify"
  <2>1. /\ lost' \in Nat /\ lost' >= lost /\ reboot' = reboot /\ dim' = dim /\ motdsbl' = motdsbl
        /\ mode' \in {mode, MotVac} /\ (up /\ lost' # lost + 1 => mode' = MotVac)
    BY <1>3, <1>13, PutOutcome
  <2>2. ~Restarted /\ lost' < Tries => mode' = MotVac \/ lost' >= attempts + 1
    BY <1>7, <1>8, <1>9, <1>13, <2>1
  <2> QED BY <1>7, <1>12, <1>13, <2>1, <2>2
<1>14. CASE /\ pc = "secure" /\ Written
            /\ PutServedOrLost("motdsbl", Disabled) /\ pc' = "reverify"
  <2>1. /\ lost' \in Nat /\ lost' >= lost /\ reboot' = reboot /\ dim' = dim /\ mode' = mode
        /\ motdsbl' \in {motdsbl, Disabled} /\ (up /\ lost' # lost + 1 => motdsbl' = Disabled)
    BY <1>3, <1>14, PutOutcome
  <2>2. /\ ~Restarted /\ lost' < Tries => motdsbl' = Disabled \/ lost' >= attempts + 1
        /\ ~Restarted /\ lost' < Tries => mode' = MotVac
    BY <1>7, <1>8, <1>9, <1>14, <2>1
  <2> QED BY <1>7, <1>12, <1>14, <2>1, <2>2
<1>15. ASSUME NEW has, NEW reply, getValue(has, reply), UNCHANGED <<dim, mode, motdsbl, reboot>>
       PROVE /\ lost' \in Nat /\ lost' >= lost /\ reply \in {has, NotRead}
             /\ lost' < Tries => lost < Tries
  <2>1. lost' \in Nat /\ lost' >= lost /\ reply \in {has, NotRead}
    BY <1>3, <1>15, ReadOutcome
  <2> QED BY <1>7, <2>1
<1>16. ASSUME NEW reply, NEW has, NEW value \in Nat, reply \in {has, NotRead}, Enough(reply, value),
              has = value \/ lost >= attempts + 1, lost < Tries
       PROVE has = value
  <2> SUFFICES ASSUME has # value PROVE FALSE
    OBVIOUS
  <2>1. reply # value
    BY <1>16 DEF NotRead
  <2>2. attempts + 1 < Tries
    BY <1>7, <1>16
  <2> QED BY <1>16, <2>1, <2>2
<1>17. CASE /\ pc = "verify" /\ UNCHANGED <<dim, mode, motdsbl, reboot>>
            /\ \E reply : /\ getValue(mode, reply)
                          /\ \/ Again(reply) /\ pc' = "run"
                             \/ Enough(reply, MotVac) /\ pc' = "secure" /\ script' = script
  <2>1. PICK reply : /\ getValue(mode, reply)
                     /\ \/ Again(reply) /\ pc' = "run"
                        \/ Enough(reply, MotVac) /\ pc' = "secure" /\ script' = script
    BY <1>17
  <2>2. /\ lost' \in Nat /\ lost' >= lost /\ reply \in {mode, NotRead} /\ (lost' < Tries => lost < Tries)
    BY <1>15, <1>17, <2>1
  <2>3. CASE Again(reply) /\ pc' = "run"
    <3>1. ~Restarted /\ lost' < Tries => mode' = MotVac \/ lost' >= attempts'
      BY <1>7, <1>9, <1>17, <2>2, <2>3
    <3> QED BY <1>7, <1>12, <1>17, <2>2, <2>3, <3>1
  <2>4. CASE Enough(reply, MotVac) /\ pc' = "secure" /\ script' = script
    <3>1. ~Restarted /\ lost' < Tries => mode = MotVac
      <4> SUFFICES ASSUME ~Restarted, lost' < Tries PROVE mode = MotVac
        OBVIOUS
      <4>1. lost < Tries /\ (mode = MotVac \/ lost >= attempts + 1)
        BY <1>9, <1>17, <2>2
      <4>2. MotVac \in Nat
        BY DEF MotVac
      <4> QED BY <1>16, <2>2, <2>4, <4>1, <4>2
    <3>2. lost' >= attempts' /\ attempts' \in Nat
      BY <2>2, <2>4
    <3> QED BY <1>7, <1>12, <1>17, <2>2, <2>4, <3>1, <3>2
  <2> QED BY <2>1, <2>3, <2>4
<1>18. CASE /\ pc = "reverify" /\ UNCHANGED <<dim, mode, motdsbl, reboot>>
            /\ \E reply : /\ getValue(motdsbl, reply)
                          /\ \/ Again(reply) /\ pc' = "secure"
                             \/ Enough(reply, Disabled) /\ pc' = "run" /\ script' = Tail(script)
  <2>1. PICK reply : /\ getValue(motdsbl, reply)
                     /\ \/ Again(reply) /\ pc' = "secure"
                        \/ Enough(reply, Disabled) /\ pc' = "run" /\ script' = Tail(script)
    BY <1>18
  <2>2. /\ lost' \in Nat /\ lost' >= lost /\ reply \in {motdsbl, NotRead} /\ (lost' < Tries => lost < Tries)
    BY <1>15, <1>18, <2>1
  <2>3. CASE Again(reply) /\ pc' = "secure"
    <3>1. /\ ~Restarted /\ lost' < Tries => motdsbl' = Disabled \/ lost' >= attempts'
          /\ ~Restarted /\ lost' < Tries => mode' = MotVac
      BY <1>7, <1>9, <1>18, <2>2, <2>3
    <3> QED BY <1>7, <1>12, <1>18, <2>2, <2>3, <3>1
  <2>4. CASE Enough(reply, Disabled) /\ pc' = "run" /\ script' = Tail(script)
    <3>1. /\ Left' = Left - 1 /\ script' \in Seq(Operations) /\ plan' # <<>>
          /\ Test' = Test /\ (\A test : On(test)' <=> On(test))
          /\ Left' <= Len(Script(Test))
          /\ \A k \in 1..Left' : script'[k] = Script(Test)[Len(Script(Test)) - Left' + k]
      BY <1>1, <1>3, <1>4, <2>4, Onwards
    <3>2. Left' = 0 /\ ~(Left' > 1)
      BY <1>4, <3>1
    <3>3. NodeTypeOK'
      BY <1>1, <1>3, <1>18, <2>2, <2>4, <3>1 DEF NodeTypeOK
    <3>4. OnScript'
      BY <1>4, <2>4, <3>1, <3>2 DEF OnScript
    <3>5. Steady'
      BY <1>1, <1>6, <1>18, <3>1 DEF NodeInv, Steady
    <3>6. Restoring'
      <4> SUFFICES ASSUME ~Restarted, lost' < Tries PROVE mode = MotVac /\ motdsbl = Disabled
        BY <1>6, <1>18, <3>1, <3>2 DEF Restoring
      <4>1. lost < Tries /\ (motdsbl = Disabled \/ lost >= attempts + 1) /\ mode = MotVac
        BY <1>9, <1>18, <2>2
      <4>2. Disabled \in Nat
        BY DEF Disabled
      <4> QED BY <1>16, <2>2, <2>4, <4>1, <4>2
    <3>7. SensorEarned' /\ SensorGood' /\ SwitchEarned' /\ SwitchGood'
      BY <1>4, <1>11, <2>2, <3>1, <3>2
    <3> QED BY <3>3, <3>4, <3>5, <3>6, <3>7 DEF NodeInv
  <2> QED BY <2>1, <2>3, <2>4
<1> QED BY <1>2, <1>13, <1>14, <1>17, <1>18

(* A turn of the trigger test, and its end when the node does not answer.  *)
LEMMA RestartStep == ASSUME NodeInv, Restart PROVE NodeInv'
<1>1. UNCHANGED <<plan, attempts, unread, good, verdicts, clean, line, aux, events, follows, up, late>>
  BY DEF Restart
<1>2. \/ /\ pc = "run" /\ script # <<>> /\ Op.op = "restart"
         /\ PutServedOrLost("trigger", 1) /\ pc' = "rediscover" /\ UNCHANGED <<script, passed>>
      \/ /\ pc = "rediscover" /\ pc' = "madr" /\ UNCHANGED <<script, passed, dim, mode, motdsbl, reboot>>
         /\ \E reply : getValue(0, reply)
      \/ /\ pc = "madr" /\ pc' = "run" /\ UNCHANGED <<dim, mode, motdsbl, reboot>>
         /\ (\E reply : getValue(0, reply)) /\ script' \in {<<>>, Tail(script)} /\ passed' \in BOOLEAN
  BY DEF Restart, Doing
<1>3. NodeTypeOK /\ OnScript /\ pc # "next" /\ pc' # "next" /\ Left \in Nat
  <2>1. NodeTypeOK /\ OnScript /\ pc # "next" /\ pc' # "next"
    BY <1>2 DEF NodeInv
  <2> QED BY <2>1, UnderWayIs
<1>4. On("trigger") /\ ~On("sensor1") /\ ~On("pdline") /\ Left > 0
  <2>1. CASE pc \in {"rediscover", "madr"}
    <3>1. On("sensor1") \/ On("pdline") \/ On("trigger")
      BY <1>3, UnderWayIs DEF On, Tests
    <3>2. ~On("pdline") /\ ~On("sensor1")
      BY <1>3, <2>1 DEF OnScript
    <3>3. On("trigger") => Left > 0
      BY <1>3, <2>1 DEF OnScript
    <3> QED BY <3>1, <3>2, <3>3
  <2>2. CASE script # <<>> /\ Op.op = "restart"
    <3>1. Left > 0
      BY <1>3, <2>2, UnderWayIs
    <3> QED BY <1>3, <2>2, <3>1, Found, UnderWayIs
  <2> QED BY <1>2, <2>1, <2>2
<1>5. Restarted' = Restarted
  BY <1>1 DEF Restarted
<1>6. lost' \in Nat /\ lost' >= lost /\ reboot' \in BOOLEAN /\ dim' = dim /\ mode' = mode
      /\ motdsbl' = motdsbl
  <2>1. CASE PutServedOrLost("trigger", 1)
    BY <1>3, <2>1, PutOutcome
  <2>2. CASE UNCHANGED <<dim, mode, motdsbl, reboot>> /\ \E reply : getValue(0, reply)
    BY <1>3, <2>2, ReadOutcome DEF NodeTypeOK
  <2> QED BY <1>2, <2>1, <2>2
<1>7. ASSUME /\ plan' # <<>> /\ Test' = Test /\ \A test : On(test)' <=> On(test)
             /\ Left' <= Len(Script(Test)) /\ script' \in Seq(Operations) /\ passed' \in BOOLEAN
             /\ \A k \in 1..Left' : script'[k] = Script(Test)[Len(Script(Test)) - Left' + k],
             pc' = "run" \/ (pc' \in {"rediscover", "madr"} /\ Left' > 0)
      PROVE NodeInv'
  <2>1. NodeTypeOK'
    BY <1>1, <1>3, <1>6, <1>7 DEF NodeTypeOK
  <2>2. OnScript'
    BY <1>4, <1>7 DEF OnScript
  <2>3. Steady'
    BY <1>4, <1>7 DEF Steady
  <2>4. Restoring'
    <3>1. lost' < Tries => lost < Tries
      BY <1>3, <1>6, TestsAssumption DEF NodeTypeOK
    <3> QED BY <1>4, <1>5, <1>6, <1>7, <3>1 DEF NodeInv, Restoring
  <2>5. SensorEarned' /\ SwitchEarned' /\ SensorGood' /\ SwitchGood'
    BY <1>4, <1>7 DEF SensorEarned, SwitchEarned, SensorGood, SwitchGood
  <2> QED BY <2>1, <2>2, <2>3, <2>4, <2>5 DEF NodeInv
<1>8. CASE script' = script /\ passed' = passed /\ pc' \in {"rediscover", "madr"}
  <2>1. /\ Left' = Left /\ plan' # <<>>
        /\ Test' = Test /\ (\A test : On(test)' <=> On(test))
        /\ Left' <= Len(Script(Test))
        /\ \A k \in 1..Left' : script'[k] = Script(Test)[Len(Script(Test)) - Left' + k]
    BY <1>1, <1>3, <1>8, SameOperation
  <2> QED BY <1>3, <1>4, <1>7, <1>8, <2>1 DEF NodeTypeOK
<1>9. CASE pc' = "run" /\ script' = Tail(script) /\ passed' \in BOOLEAN
  <2>1. /\ Left' = Left - 1 /\ script' \in Seq(Operations) /\ plan' # <<>>
        /\ Test' = Test /\ (\A test : On(test)' <=> On(test))
        /\ Left' <= Len(Script(Test))
        /\ \A k \in 1..Left' : script'[k] = Script(Test)[Len(Script(Test)) - Left' + k]
    BY <1>1, <1>3, <1>4, <1>9, Onwards
  <2> QED BY <1>7, <1>9, <2>1
<1>10. CASE pc' = "run" /\ script' = <<>> /\ passed' \in BOOLEAN
  <2>1. Left' = 0 /\ script' \in Seq(Operations) /\ Test' = Test /\ plan' # <<>>
    BY <1>1, <1>3, <1>10 DEF Left, Test, OnScript
  <2>2. \A test : On(test)' <=> On(test)
    BY <1>3, <1>10, <2>1 DEF On
  <2>3. Left' <= Len(Script(Test))
    BY <1>4, <2>1, Scripts, TestsAssumption DEF On
  <2>4. \A k \in 1..Left' : FALSE
    BY <2>1
  <2> QED BY <1>7, <1>10, <2>1, <2>2, <2>3, <2>4
<1> QED BY <1>2, <1>8, <1>9, <1>10

LEMMA NodeInitHolds == NodeTestsInit => NodeInv
<1> SUFFICES ASSUME NodeTestsInit PROVE NodeInv
  OBVIOUS
<1>1. /\ pc = "next" /\ script = <<>> /\ mode = MotVac /\ motdsbl = Disabled /\ up /\ ~reboot
      /\ \A test : ~On(test)
  BY DEF NodeTestsInit, On
<1>2. NodeTypeOK
  <2>1. plan \in Seq(Tests) /\ follows \in [Inputs -> SUBSET Actuators]
    BY TestsAssumption DEF NodeTestsInit
  <2>2. dim \in [Actuators -> {0, 100}]
    BY DEF NodeTestsInit
  <2>3. script \in Seq(Operations) /\ verdicts \in Seq(Tests \X BOOLEAN)
        /\ line \in Seq(Commands) /\ events \in Seq(Inputs)
    BY DEF NodeTestsInit
  <2> QED BY <2>1, <2>2, <2>3 DEF NodeTestsInit, NodeTypeOK
<1>3. OnScript /\ Steady /\ Restoring
  BY <1>1 DEF OnScript, Steady, Restoring
<1>4. SensorEarned /\ SwitchEarned /\ SensorGood /\ SwitchGood
  BY <1>1 DEF SensorEarned, SwitchEarned, SensorGood, SwitchGood
<1> QED BY <1>2, <1>3, <1>4 DEF NodeInv

LEMMA NodeStuttering == ASSUME NodeInv, UNCHANGED nodeTestsVars PROVE NodeInv'
<1>1. UNCHANGED <<pc, plan, script, attempts, unread, good, passed, verdicts, clean, line, aux,
                  follows, events, dim, mode, motdsbl, up, reboot, lost, late>>
  BY DEF nodeTestsVars, hostVars, nodeVars
<1>2. /\ Left' = Left /\ (\A test : On(test)' <=> On(test)) /\ Restarted' = Restarted
      /\ AllFollow' = AllFollow /\ OnScript'
  BY <1>1, HostStays
<1>3. NodeTypeOK' /\ Steady' /\ Restoring'
  BY <1>1, <1>2 DEF NodeInv, NodeTypeOK, Steady, Restoring
<1>4. (\A c, e : OnlyOf(c, e)' <=> OnlyOf(c, e)) /\ Settled' = Settled /\ Dark' = Dark
  BY <1>1 DEF OnlyOf, Settled, Dark
<1>5. SensorEarned' /\ SwitchEarned'
  BY <1>1, <1>2, <1>4 DEF NodeInv, SensorEarned, SwitchEarned, ReadSoFar
<1>6. SensorGood'
  BY <1>1, <1>2, <1>4 DEF NodeInv, SensorGood, Changing
<1>7. SwitchGood'
  <2>1. \A c, e : Attempted(c, e) => Attempted(c, e)'
    BY <1>1, <1>4 DEF Attempted, Pushing
  <2> QED BY <1>1, <1>2, <2>1 DEF NodeInv, SwitchGood
<1> QED BY <1>2, <1>3, <1>5, <1>6, <1>7 DEF NodeInv

LEMMA NodeNextKeeps == NodeInv /\ [NodeTestsNext]_nodeTestsVars => NodeInv'
<1> SUFFICES ASSUME NodeInv, [NodeTestsNext]_nodeTestsVars PROVE NodeInv'
  OBVIOUS
<1>1. CASE Host
  BY <1>1, StartTestStep, EndTestStep, putValueStep, setAuxStep, sleepStep, setPush4BTNStep,
     check_actuators_dimStep, ReadDimStep, CheckedStep, PushedStep, RestartStep,
     before_sensor_testStep, after_sensor_testStep
     DEF Host
<1>2. CASE processSerialCommand
  BY <1>2, FirmwareStep
<1>3. CASE LoseCommand
  BY <1>3, LoseCommandStep
<1>4. CASE React
  BY <1>4, ReactStep
<1>5. CASE GoDown \/ ComeUp
  BY <1>5, GoDownStep, ComeUpStep
<1>6. CASE UNCHANGED nodeTestsVars
  BY <1>6, NodeStuttering
<1>7. Done => UNCHANGED nodeTestsVars
  BY DEF Done
<1> QED BY <1>1, <1>2, <1>3, <1>4, <1>5, <1>6, <1>7 DEF NodeTestsNext

(* The inductive invariant of the tests of the inputs: where the host is   *)
(* in the script of the test, what may still be on its way between the     *)
(* controller and the node, and what each level read so far has shown.     *)
THEOREM NodeInvariance == NodeTestsSpec => []NodeInv
BY NodeInitHolds, NodeNextKeeps, PTL DEF NodeTestsSpec

(* A node whose actuators were dark when its input was first raised passes *)
(* only if every actuator follows both directions of that input, for any   *)
(* node, any number of attempts and any losses and delays.                 *)
THEOREM PassesAreEarned == NodeTestsSpec => []PassIsEarned
<1>1. NodeInv => PassIsEarned
  <2> SUFFICES ASSUME NodeInv, pc = "run", script = <<>>, Test # "trigger", passed, clean
      PROVE \A input \in InputsOf(Test) : follows[input] = Actuators
    BY DEF PassIsEarned
  <2>1. Left = 0 /\ Left <= 1 /\ Left <= 4
    BY DEF Left
  <2>2. Test \in Tests
    BY UnderWayIs DEF NodeInv
  <2>3. CASE Test = "sensor1"
    <3>1. follows["rise"] = Actuators /\ follows["fall"] = Actuators
      BY <2>1, <2>3 DEF NodeInv, SensorEarned, On
    <3> QED BY <2>3, <3>1 DEF InputsOf
  <2>4. CASE Test = "pdline"
    <3>1. follows["on"] = Actuators /\ follows["off"] = Actuators
      BY <2>1, <2>4 DEF NodeInv, SwitchEarned, On
    <3> QED BY <2>4, <3>1 DEF InputsOf
  <2> QED BY <2>2, <2>3, <2>4 DEF Tests
<1> QED BY <1>1, NodeInvariance, PTL

(* A node that works passes: the wall switch test unless as many messages  *)
(* were lost or late as it has attempts, the sensor test if none was.      *)
THEOREM GoodNodesPass == NodeTestsSpec => []GoodNodePasses
<1>1. NodeInv => GoodNodePasses
  <2> SUFFICES ASSUME NodeInv, pc = "run", script = <<>>, Test # "trigger",
                      \A i \in Inputs : follows[i] = Actuators, ~Restarted,
                      lost + late < (IF Test = "pdline" THEN Attempts ELSE 1)
      PROVE passed
    BY DEF GoodNodePasses
  <2>1. Left = 0 /\ ~(Left > 0) /\ AllFollow
    BY DEF Left, AllFollow
  <2>2. Test \in Tests
    BY UnderWayIs DEF NodeInv
  <2>3. lost \in Nat /\ late \in Nat /\ Attempts \in Nat
    BY TestsAssumption DEF NodeInv, NodeTypeOK
  <2>4. CASE Test = "sensor1"
    <3>1. lost = 0 /\ late = 0
      BY <2>3, <2>4
    <3> QED BY <2>1, <2>4, <3>1 DEF NodeInv, SensorGood, On
  <2>5. CASE Test = "pdline"
    <3>1. ~(lost + late >= Attempts)
      BY <2>3, <2>5
    <3> QED BY <2>1, <2>5, <3>1 DEF NodeInv, SwitchGood, On
  <2> QED BY <2>2, <2>4, <2>5 DEF Tests
<1> QED BY <1>1, NodeInvariance, PTL

(* After a sensor test the events of the sensor and its motion setting are *)
(* those of the product again, with fewer lost messages than               *)
(* secure_setting writes.                                                  *)
THEOREM SensorIsRestored == NodeTestsSpec => []SensorRestored
<1>1. NodeInv => SensorRestored
  BY DEF NodeInv, Restoring, SensorRestored, On
<1> QED BY <1>1, NodeInvariance, PTL
===============================================================================
