----------------------------- MODULE SerialMonitor -----------------------------
(***************************************************************************)
(* One process of node_serial_monitor.py (SerialTcpMonitor) and the        *)
(* programs that connect to it (services/rs485_module.py,                  *)
(* occupancy_reader.py, through services/parse_monitor.py).  The monitor   *)
(* owns the serial port of the node, copies what the node prints to every  *)
(* client, and what clients send to the node.                              *)
(*                                                                         *)
(* Threads: main (run, serial_reader, broadcast, stop), the acceptor, one  *)
(* reader per client and the operator's input.  A step is what a thread    *)
(* does between two points where another may see the difference.           *)
(***************************************************************************)
EXTENDS Naturals, Sequences, FiniteSets

CONSTANTS
  Clients,      \* the connections a monitor may get
  Exits,        \* the clients that end with shutdown_monitor (rs485_module)
  Buf,          \* the chunks a socket holds before sendall blocks
  MaxChunks     \* bound: the chunks the node prints

ASSUME MonitorAssumption ==
  Exits \subseteq Clients /\ Buf \in Nat \ {0} /\ MaxChunks \in Nat

VARIABLES
  running,      \* the Event
  mainpc,       \* where the main thread is
  chunk,        \* chunks read from the node so far
  sent,         \* the last chunk whose broadcast began
  todo, dead,   \* broadcast: clients still to serve, clients that failed
  clients,      \* self.clients
  lock,         \* who holds clients_lock across steps: "free" or "main"
  handle,       \* self.serial_handle: "open", "closed" or "none"
  accpc, conn,  \* the acceptor and the connection it has just accepted
  rdpc,         \* per client: its reader thread
  sock,         \* per client: the monitor's end of the connection
  oppc,         \* the operator's input thread
  phase,        \* per client: what the connected program is doing
  toServer,     \* per client: messages on their way to the monitor
  buf,          \* per client: chunks in its socket, not yet read
  seen,         \* history: chunks the connected client has read
  joined        \* history: the value of sent when the client was registered

mainVars == <<mainpc, chunk, sent, todo, dead>>
srvVars == <<running, clients, lock, handle>>
accVars == <<accpc, conn, joined>>
rdVars == <<rdpc, sock>>
clVars == <<phase, toServer, seen>>
vars == <<mainVars, srvVars, accVars, rdVars, oppc, clVars, buf>>

NoConn == "no connection"
Alive == mainpc # "exited"

Init ==
  /\ running = TRUE /\ mainpc = "read" /\ chunk = 0 /\ sent = 0
  /\ todo = {} /\ dead = {} /\ clients = {} /\ lock = "free" /\ handle = "open"
  /\ accpc = "accept" /\ conn = NoConn
  /\ rdpc = [c \in Clients |-> "none"] /\ sock = [c \in Clients |-> "open"]
  /\ oppc = "input"
  /\ phase = [c \in Clients |-> "off"] /\ toServer = [c \in Clients |-> <<>>]
  /\ buf = [c \in Clients |-> <<>>] /\ seen = [c \in Clients |-> <<>>]
  /\ joined = [c \in Clients |-> 0]

-------------------------------------------------------------------------------
(* The main thread.                                                        *)

\* ser.read() returned data; with no data the loop only tests running again.
SerialRead ==
  /\ mainpc = "read" /\ running /\ chunk < MaxChunks
  /\ chunk' = chunk + 1 /\ mainpc' = "broadcast"
  /\ UNCHANGED <<sent, todo, dead, srvVars, accVars, rdVars, oppc, clVars, buf>>

\* with self.clients_lock: the iteration over the clients begins.
BroadcastStart ==
  /\ mainpc = "broadcast" /\ lock = "free"
  /\ mainpc' = "send" /\ lock' = "main"
  /\ todo' = clients /\ dead' = {} /\ sent' = chunk
  /\ UNCHANGED <<chunk, running, clients, handle, accVars, rdVars, oppc, clVars, buf>>

\* Mutant: a client whose socket is full is passed over.
SendToNonBlocking(c) ==
  /\ mainpc = "send" /\ c \in todo /\ phase[c] # "closed"
  /\ todo' = todo \ {c}
  /\ buf' = IF Len(buf[c]) < Buf THEN [buf EXCEPT ![c] = Append(@, sent)] ELSE buf
  /\ UNCHANGED <<mainpc, chunk, sent, dead, srvVars, accVars, rdVars, oppc, clVars>>

\* c.sendall(data) to a program that is there: blocks while its socket is full.
SendTo(c) ==
  /\ mainpc = "send" /\ c \in todo /\ phase[c] # "closed" /\ Len(buf[c]) < Buf
  /\ todo' = todo \ {c}
  /\ buf' = [buf EXCEPT ![c] = Append(@, sent)]
  /\ UNCHANGED <<mainpc, chunk, sent, dead, srvVars, accVars, rdVars, oppc, clVars>>

\* c.sendall(data) to one that has gone: unnoticed, or an OSError.
SendToGone(c) ==
  /\ mainpc = "send" /\ c \in todo /\ phase[c] = "closed"
  /\ todo' = todo \ {c}
  /\ dead' \in {dead, dead \cup {c}}
  /\ UNCHANGED <<mainpc, chunk, sent, srvVars, accVars, rdVars, oppc, clVars, buf>>

\* Mutant: the lock is kept after an iteration without failures.
BroadcastEndHolding ==
  /\ mainpc = "send" /\ todo = {}
  /\ sock' = [c \in Clients |-> IF c \in dead THEN "closed" ELSE sock[c]]
  /\ clients' = clients \ dead /\ dead' = {}
  /\ lock' = (IF dead = {} THEN lock ELSE "free") /\ mainpc' = "read"
  /\ UNCHANGED <<chunk, sent, todo, running, handle, accVars, rdpc, oppc, clVars, buf>>

\* The clients that failed are closed and removed; the lock is released.
BroadcastEnd ==
  /\ mainpc = "send" /\ todo = {}
  /\ sock' = [c \in Clients |-> IF c \in dead THEN "closed" ELSE sock[c]]
  /\ clients' = clients \ dead /\ dead' = {}
  /\ lock' = "free" /\ mainpc' = "read"
  /\ UNCHANGED <<chunk, sent, todo, running, handle, accVars, rdpc, oppc, clVars, buf>>

\* The loop ends, or the serial port fails: finally, the port is closed ...
ReaderEnd ==
  /\ mainpc = "read"
  /\ mainpc' = "forget"
  /\ running' = FALSE /\ handle' = "closed"
  /\ UNCHANGED <<chunk, sent, todo, dead, clients, lock, accVars, rdVars, oppc, clVars,
                 buf>>

\* ... and forgotten, without serial_lock.
HandleForget ==
  /\ mainpc = "forget"
  /\ mainpc' = "stop" /\ handle' = "none"
  /\ UNCHANGED <<chunk, sent, todo, dead, running, clients, lock, accVars, rdVars, oppc,
                 clVars, buf>>

\* stop(): every registered client is closed under the lock; then the process
\* exits and its other threads, all daemons, with it.
stop ==
  /\ mainpc = "stop" /\ lock = "free"
  /\ mainpc' = "exited" /\ running' = FALSE
  /\ sock' = [c \in Clients |-> IF c \in clients THEN "closed" ELSE sock[c]]
  /\ UNCHANGED <<chunk, sent, todo, dead, clients, lock, handle, accVars, rdpc, oppc,
                 clVars, buf>>

MainStep ==
  \/ SerialRead \/ BroadcastStart \/ BroadcastEnd \/ ReaderEnd \/ HandleForget \/ stop
  \/ \E c \in Clients : SendTo(c) \/ SendToGone(c)

-------------------------------------------------------------------------------
(* The acceptor.  handle_signal clears running too.                        *)

accept(c) ==
  /\ Alive /\ accpc = "accept"
  /\ phase[c] # "off" /\ rdpc[c] = "none"
  /\ accpc' = "add" /\ conn' = c
  /\ UNCHANGED <<joined, mainVars, srvVars, rdVars, oppc, clVars, buf>>

\* with self.clients_lock: self.clients.add(conn)
ClientAdd ==
  /\ Alive /\ accpc = "add" /\ lock = "free"
  /\ clients' = clients \cup {conn}
  /\ joined' = [joined EXCEPT ![conn] = sent]
  /\ accpc' = "spawn"
  /\ UNCHANGED <<conn, running, lock, handle, mainVars, rdVars, oppc, clVars, buf>>

\* while self.running.is_set(): into recv(), which blocks, or to the finally.
Loop == IF running THEN "recv" ELSE "remove"

ReaderStart ==
  /\ Alive /\ accpc = "spawn"
  /\ rdpc' = [rdpc EXCEPT ![conn] = Loop]
  /\ accpc' = "accept" /\ conn' = NoConn
  /\ UNCHANGED <<joined, sock, mainVars, srvVars, oppc, clVars, buf>>

\* The loop ends, and with it the listening socket.
AcceptEnd ==
  /\ Alive /\ accpc = "accept" /\ ~running
  /\ accpc' = "gone"
  /\ UNCHANGED <<conn, joined, mainVars, srvVars, rdVars, oppc, clVars, buf>>

handle_signal ==
  /\ Alive /\ running
  /\ running' = FALSE
  /\ UNCHANGED <<clients, lock, handle, mainVars, accVars, rdVars, oppc, clVars, buf>>

Acceptor == (\E c \in Clients : accept(c)) \/ ClientAdd \/ ReaderStart \/ AcceptEnd

-------------------------------------------------------------------------------
(* tcp_client_reader.                                                      *)

Finally(c) == rdpc' = [rdpc EXCEPT ![c] = "remove"]

\* recv() finds that the program has closed, or that broadcast has closed the
\* socket.
RecvEnd(c) ==
  /\ Alive /\ rdpc[c] = "recv"
  /\ (phase[c] = "closed" /\ toServer[c] = <<>>) \/ sock[c] = "closed"
  /\ Finally(c)
  /\ UNCHANGED <<sock, mainVars, srvVars, accVars, oppc, clVars, buf>>

\* recv() returns the first k messages as one piece of data.  Alone, __EXIT__
\* ends the monitor; any other piece goes to the node.
Recv(c) ==
  /\ Alive /\ rdpc[c] = "recv" /\ sock[c] = "open"
  /\ \E k \in 1..Len(toServer[c]) :
       /\ toServer' = [toServer EXCEPT ![c] = SubSeq(@, k + 1, Len(@))]
       /\ IF k = 1 /\ Head(toServer[c]) = "exit"
          THEN running' = FALSE /\ Finally(c)
          ELSE rdpc' = [rdpc EXCEPT ![c] = "write"] /\ UNCHANGED running
  /\ UNCHANGED <<clients, lock, handle, sock, phase, seen, mainVars, accVars, oppc, buf>>

\* with self.serial_lock: the port takes the data, or the write raises: the port
\* is closed, or open but unplugged, or the handle is forgotten between its test
\* and its use.
SerialWrite(c) ==
  /\ Alive /\ rdpc[c] = "write"
  /\ \/ handle # "closed" /\ rdpc' = [rdpc EXCEPT ![c] = Loop]
     \/ Finally(c)
  /\ UNCHANGED <<sock, mainVars, srvVars, accVars, oppc, clVars, buf>>

\* Mutant: the client leaves the set without the lock.
ClientRemoveUnlocked(c) ==
  /\ Alive /\ rdpc[c] = "remove"
  /\ clients' = clients \ {c}
  /\ rdpc' = [rdpc EXCEPT ![c] = "close"]
  /\ UNCHANGED <<running, lock, handle, sock, mainVars, accVars, oppc, clVars, buf>>

\* finally, with self.clients_lock: the client leaves the set if it is there.
ClientRemove(c) ==
  /\ Alive /\ rdpc[c] = "remove" /\ lock = "free"
  /\ clients' = clients \ {c}
  /\ rdpc' = [rdpc EXCEPT ![c] = "close"]
  /\ UNCHANGED <<running, lock, handle, sock, mainVars, accVars, oppc, clVars, buf>>

ClientClose(c) ==
  /\ Alive /\ rdpc[c] = "close"
  /\ sock' = [sock EXCEPT ![c] = "closed"]
  /\ rdpc' = [rdpc EXCEPT ![c] = "gone"]
  /\ UNCHANGED <<mainVars, srvVars, accVars, oppc, clVars, buf>>

Reader(c) == RecvEnd(c) \/ Recv(c) \/ SerialWrite(c) \/ ClientRemove(c) \/ ClientClose(c)

-------------------------------------------------------------------------------
(* operator_input_thread: a line goes out as Ctrl-C, a pause and the line. *)

\* input() returns a line, or the end of the input stops the monitor.
OperatorInput ==
  /\ Alive /\ oppc = "input"
  /\ \/ oppc' = "break" /\ UNCHANGED running
     \/ running' = FALSE /\ oppc' = "gone"
  /\ UNCHANGED <<clients, lock, handle, mainVars, accVars, rdVars, clVars, buf>>

\* One write under serial_lock: a closed or unplugged port stops the monitor
\* (OSError), a handle forgotten between test and use ends the thread.
OperatorWrite ==
  /\ Alive /\ oppc \in {"break", "line"}
  /\ \/ /\ handle # "closed" /\ UNCHANGED running
        /\ oppc' = CASE oppc = "break" -> "line"
                     [] oppc = "line" -> IF running THEN "input" ELSE "gone"
     \/ handle # "none" /\ running' = FALSE /\ oppc' = "gone"
     \/ handle = "none" /\ oppc' = "gone" /\ UNCHANGED running
  /\ UNCHANGED <<clients, lock, handle, mainVars, accVars, rdVars, clVars, buf>>

Operator == OperatorInput \/ OperatorWrite

-------------------------------------------------------------------------------
(* The connected programs.                                                 *)

\* create_connection(): done when the kernel of the monitor's host queues it.
Connect(c) ==
  /\ Alive /\ accpc # "gone" /\ phase[c] = "off"
  /\ phase' = [phase EXCEPT ![c] = "busy"]
  /\ UNCHANGED <<toServer, seen, mainVars, srvVars, accVars, rdVars, oppc, buf>>

\* send_rs485_message, or a command to the node: the socket is not read.
Work(c) ==
  /\ phase[c] = "busy"
  /\ phase' = [phase EXCEPT ![c] = "wait"]
  /\ \/ UNCHANGED toServer
     \/ c \notin Exits /\ toServer' = [toServer EXCEPT ![c] = Append(@, "cmd")]
  /\ UNCHANGED <<seen, mainVars, srvVars, accVars, rdVars, oppc, buf>>

\* wait_for_response reads a piece of what has arrived.
ClientRead(c) ==
  /\ phase[c] = "wait" /\ buf[c] # <<>>
  /\ seen' = [seen EXCEPT ![c] = Append(@, Head(buf[c]))]
  /\ buf' = [buf EXCEPT ![c] = Tail(@)]
  /\ UNCHANGED <<phase, toServer, mainVars, srvVars, accVars, rdVars, oppc>>

\* What is on its way to the monitor after the exit command.
shutdown_monitor(c) == Append(toServer[c], "exit")

\* The anchor was found, the time is up or the monitor has gone: rs485_module
\* asks the monitor to exit, and the socket is closed.  Data left unread may
\* turn the close into a reset that overtakes what was sent.
Finish(c) ==
  /\ phase[c] = "wait"
  /\ phase' = [phase EXCEPT ![c] = "closed"]
  /\ \/ toServer' = [toServer EXCEPT ![c] = IF c \in Exits THEN shutdown_monitor(c) ELSE @]
     \/ buf[c] # <<>> /\ toServer' = [toServer EXCEPT ![c] = <<>>]
  /\ buf' = [buf EXCEPT ![c] = <<>>] /\ seen' = [seen EXCEPT ![c] = <<>>]
  /\ UNCHANGED <<mainVars, srvVars, accVars, rdVars, oppc>>

Program(c) == Connect(c) \/ Work(c) \/ ClientRead(c) \/ Finish(c)

Next ==
  \/ MainStep \/ Acceptor \/ handle_signal \/ Operator
  \/ \E c \in Clients : Reader(c) \/ Program(c)

Spec == Init /\ [][Next]_vars

(* The threads run; serial_timeout ends a read of the port, and a program  *)
(* that has connected gets through its work and its timed wait.  Nothing   *)
(* forces a connection, an input, a signal or a fault.                     *)
FairSpec ==
  /\ Spec
  /\ WF_vars(BroadcastStart) /\ WF_vars(BroadcastEnd) /\ WF_vars(HandleForget) /\ WF_vars(stop)
  /\ WF_vars(ReaderEnd /\ ~running)
  /\ \A c \in Clients : /\ WF_vars(SendTo(c)) /\ WF_vars(SendToGone(c))
                        /\ WF_vars(Work(c)) /\ WF_vars(Finish(c))

-------------------------------------------------------------------------------
(* broadcast iterates over the set and then removes the clients that       *)
(* failed; readers add and remove clients at the same time.  The clients   *)
(* it iterates over are all still registered when it gets to them, so the  *)
(* iteration is not disturbed and remove() never raises KeyError.          *)
IterationStable == lock = "main" => todo \cup dead \subseteq clients

(* A registered program misses nothing and gets nothing twice or out of    *)
(* order: what it has read and what waits in its socket are the chunks     *)
(* broadcast since it was registered.                                      *)
NothingMissed ==
  \A c \in clients : phase[c] \in {"busy", "wait"} =>
    LET all == seen[c] \o buf[c]
        upto == IF c \in todo THEN sent - 1 ELSE sent
    IN  /\ Len(all) = upto - joined[c]
        /\ \A i \in 1..Len(all) : all[i] = joined[c] + i

(* Once the monitor is told to stop (by a client, the operator or a        *)
(* signal) the process exits, although broadcast holds clients_lock over   *)
(* sends that block on programs that are not reading.                      *)
ShutdownExits == ~running ~> mainpc = "exited"
===============================================================================
