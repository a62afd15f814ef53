---------------------------- MODULE MonitorLaunch ----------------------------
(***************************************************************************)
(* Who reads the console of the node.  Its serial port is not opened       *)
(* exclusively, so every program that reads it brings a guard of its own   *)
(* against a second one:                                                   *)
(*                                                                         *)
(*   port      node_serial_monitor.py: no lock; its TCP port is taken by a *)
(*             thread of its own, while the main thread goes on.  Programs *)
(*             that need the console launch it if nobody answers there     *)
(*             (parse_monitor.py) and may end it again (rs485_module.py)   *)
(*   pid       node_serial_read_only_monitor.py: a lock file whose pid is  *)
(*             looked up, removed if stale, and written anew               *)
(*   excl      node_serial_monitor_old.py: with --lock, a lock file that   *)
(*             is created with O_EXCL; by default, none                    *)
(*   terminal  node_terminal_check_running.py and node_terminal_draft3.py: *)
(*             O_EXCL, and an exit handler that removes the file           *)
(*                                                                         *)
(* A lock file is a directory entry and a file: who has it open goes on    *)
(* writing it when it has lost its name.  Process ids are not used again.  *)
(***************************************************************************)
EXTENDS Naturals, FiniteSets

CONSTANTS
  MaxProcs,    \* bound: processes launched
  Programs,    \* programs that need the console
  Exits        \* those that end the monitor when they are done

ASSUME LaunchAssumption == MaxProcs \in Nat \ {0} /\ Exits \subseteq Programs

Kinds == {"port", "pid", "excl", "terminal"}
Procs == 1..MaxProcs
NoFile == 0
NoPid == 0

VARIABLES
  kind,        \* which of the programs is launched
  pc,          \* where each process is
  told,        \* processes told to stop, by a signal, __EXIT__ or end of input
  lock,        \* the file LOCK_PATH names; a file is named by its creator
  content,     \* per file: the pid in it
  fd,          \* per process: the file it has opened for writing
  listener,    \* per process: tcp_accept_thread
  prog,        \* where each program is in ensure_monitor_running and after
  conn,        \* the process each program is connected to
  unlocked,    \* excl: living processes started without --lock
  byHand,      \* history: living processes launched by the operator
  served,      \* history: living processes that a program was connected to
  missed,      \* history: living processes that an __EXIT__ sent to them did not reach
  overlapped,  \* history: a start met another one that nobody could see yet
  alone,       \* history: starts with a lock file that have met nobody so far
  refused,     \* history: a start was refused
  idly,        \* history: starts refused although nobody else was alive
  killed       \* history: processes killed that used a lock file

lockVars == <<lock, content, fd>>
progVars == <<prog, conn>>
heardVars == <<served, missed>>
history == <<byHand, overlapped, alone, refused, idly, killed, heardVars>>
vars == <<kind, pc, told, lockVars, listener, progVars, unlocked, history>>

Starting == {"acquire", "probe", "unlink", "create", "write"}
Alive == {p \in Procs : pc[p] \notin {"off", "gone"}}
Starters == {p \in Procs : pc[p] \in Starting}
Listening == {p \in Procs : listener[p] = "listening"}
Readers == {p \in Procs : pc[p] = "running"}

Init ==
  /\ kind \in Kinds
  /\ pc = [p \in Procs |-> "off"] /\ told = {}
  /\ lock = NoFile /\ content = [f \in Procs |-> NoPid] /\ fd = [p \in Procs |-> NoFile]
  /\ listener = [p \in Procs |-> "none"]
  /\ prog = [q \in Programs |-> IF kind = "port" THEN "start" ELSE "none"]
  /\ conn = [q \in Programs |-> NoPid]
  /\ unlocked = {} /\ served = {} /\ missed = {}
  /\ byHand = {} /\ overlapped = FALSE
  /\ alone = {} /\ refused = FALSE /\ idly = 0 /\ killed = 0

Goto(p, where) == pc' = [pc EXCEPT ![p] = where]

-----------------------------------------------------------------------------
(* Starting.                                                               *)

\* A process begins.  The monitor of today looks for the device, starts its
\* acceptor and goes on; the others look at their lock first, excl only if
\* it was started with --lock.
Begin(p) ==
  /\ pc[p] = "off" /\ \A r \in Procs : r < p => pc[r] # "off"
  /\ \/ kind # "port" /\ Goto(p, "acquire") /\ UNCHANGED <<listener, unlocked>>
     \/ /\ kind = "excl" /\ Goto(p, "open") /\ unlocked' = unlocked \cup {p}
        /\ UNCHANGED listener
     \/ /\ kind = "port" /\ Goto(p, "open")
        /\ listener' = [listener EXCEPT ![p] = "starting"] /\ UNCHANGED unlocked
     \/ kind = "port" /\ Goto(p, "releasing") /\ UNCHANGED <<listener, unlocked>>
  /\ alone' = IF Alive = {} /\ kind # "port" THEN {p} ELSE {}
  /\ UNCHANGED <<kind, told, lockVars, refused, idly, killed, heardVars>>

\* The operator launches one; a second monitor beside the first comes from
\* a program, see LaunchMonitor.
Launch(p) ==
  /\ Begin(p) /\ (kind = "port" => byHand = {})
  /\ byHand' = byHand \cup {p}
  /\ overlapped' = (overlapped \/ IF kind = "port" THEN Alive # {}
                                  ELSE p \notin unlocked' /\ Starters # {})
  /\ UNCHANGED progVars

\* The lock is there: the process goes.  The terminals have registered
\* release_lock as an exit handler before.
Refuse(p) ==
  /\ refused' = TRUE /\ idly' = idly + (IF p \in alone THEN 1 ELSE 0)
  /\ Goto(p, IF kind = "terminal" THEN "releasing" ELSE "gone")

\* Mutant: whether the file is there is asked first.
CreateExclusiveLater(p) ==
  \/ lock = NoFile /\ Goto(p, "create") /\ UNCHANGED <<lockVars, refused, idly>>
  \/ lock # NoFile /\ Goto(p, "probe") /\ UNCHANGED <<lockVars, refused, idly>>

\* os.open with O_CREAT | O_EXCL.
CreateExclusive(p) ==
  \/ /\ lock = NoFile
     /\ lock' = p /\ content' = [content EXCEPT ![p] = NoPid] /\ fd' = [fd EXCEPT ![p] = p]
     /\ Goto(p, "write") /\ UNCHANGED <<refused, idly>>
  \/ lock # NoFile /\ kind = "excl" /\ Goto(p, "probe") /\ UNCHANGED <<lockVars, refused, idly>>
  \/ lock # NoFile /\ kind = "terminal" /\ Refuse(p) /\ UNCHANGED lockVars

\* os.path.exists.
LockExists(p) ==
  /\ Goto(p, IF lock = NoFile THEN "create" ELSE "probe")
  /\ UNCHANGED <<lockVars, refused, idly>>

Acquire(p) ==
  /\ pc[p] = "acquire"
  /\ IF kind = "pid" THEN LockExists(p) ELSE CreateExclusive(p)
  /\ UNCHANGED <<kind, told, listener, progVars, unlocked, byHand, overlapped, alone, killed,
                 heardVars>>

\* Mutant: only a pid that is there can be stale.
StaleIfNamed == lock # NoFile /\ content[lock] # NoPid /\ content[lock] \notin Alive

\* The file cannot be read, holds no number, or that process has gone.
Stale == lock # NoFile => content[lock] \notin Alive

\* os.kill(pid, 0).
Probe(p) ==
  /\ pc[p] = "probe"
  /\ \/ Stale /\ Goto(p, "unlink") /\ UNCHANGED <<refused, idly>>
     \/ ~Stale /\ Refuse(p)
  /\ UNCHANGED <<kind, told, lockVars, listener, progVars, unlocked, byHand, overlapped,
                 alone, killed, heardVars>>

\* The stale file is removed.  If it has gone already, pid goes on and excl
\* gives up.
Unlink(p) ==
  /\ pc[p] = "unlink"
  /\ lock' = NoFile
  /\ \/ kind = "pid" /\ Goto(p, "create") /\ UNCHANGED <<refused, idly>>
     \/ kind = "excl" /\ lock # NoFile /\ Goto(p, "acquire") /\ UNCHANGED <<refused, idly>>
     \/ kind = "excl" /\ lock = NoFile /\ Refuse(p)
  /\ UNCHANGED <<kind, told, content, fd, listener, progVars, unlocked, byHand, overlapped,
                 alone, killed, heardVars>>

\* open(LOCK_PATH, "w"): whatever is there is emptied.
Create(p) ==
  /\ pc[p] = "create"
  /\ LET file == IF lock = NoFile THEN p ELSE lock
     IN  /\ lock' = file /\ fd' = [fd EXCEPT ![p] = file]
         /\ content' = [content EXCEPT ![file] = NoPid]
  /\ Goto(p, "write")
  /\ UNCHANGED <<kind, told, listener, progVars, unlocked, history>>

\* Mutant: the pid stays in the buffer.
WritePidLate(p) ==
  /\ pc[p] = "write"
  /\ Goto(p, "open")
  /\ UNCHANGED <<kind, told, lockVars, listener, progVars, unlocked, history>>

WritePid(p) ==
  /\ pc[p] = "write"
  /\ content' = [content EXCEPT ![fd[p]] = p]
  /\ Goto(p, "open")
  /\ UNCHANGED <<kind, told, lock, fd, listener, progVars, unlocked, history>>

-----------------------------------------------------------------------------
(* Reading and ending.                                                     *)

\* serial.Serial, and for the locked programs find_device_port: either may
\* fail.
OpenPort(p) ==
  /\ pc[p] = "open"
  /\ \E found \in BOOLEAN : Goto(p, IF found THEN "running" ELSE "releasing")
  /\ UNCHANGED <<kind, told, lockVars, listener, progVars, unlocked, history>>

\* server.bind.  One that fails ends the thread and is not noticed.
Bind(p) ==
  /\ listener[p] = "starting"
  /\ listener' = [listener EXCEPT ![p] = IF Listening = {} THEN "listening" ELSE "none"]
  /\ UNCHANGED <<kind, pc, told, lockVars, progVars, unlocked, history>>

\* A signal, or the end of its input.
Tell(p) ==
  /\ pc[p] \in {"open", "running"} /\ p \notin told
  /\ told' = told \cup {p}
  /\ UNCHANGED <<kind, pc, lockVars, listener, progVars, unlocked, history>>

\* The reading loop ends, and the port is closed.
ClosePort(p) ==
  /\ pc[p] = "running" /\ p \in told
  /\ Goto(p, "releasing")
  /\ UNCHANGED <<kind, told, lockVars, listener, progVars, unlocked, history>>

\* The acceptor sees that running is cleared, half a second later at most.
CloseServer(p) ==
  /\ listener[p] = "listening" /\ p \in told
  /\ listener' = [listener EXCEPT ![p] = "none"]
  /\ UNCHANGED <<kind, pc, told, lockVars, progVars, unlocked, history>>

\* Whatever threads and open files the process has end with it.
Gone(p) ==
  /\ Goto(p, "gone")
  /\ listener' = [listener EXCEPT ![p] = "none"]
  /\ fd' = [fd EXCEPT ![p] = NoFile]
  /\ told' = told \ {p} /\ byHand' = byHand \ {p}
  /\ unlocked' = unlocked \ {p} /\ served' = served \ {p} /\ missed' = missed \ {p}

\* The end of main: release_lock removes the file of that name, whoever
\* created it.
Release(p) ==
  /\ pc[p] = "releasing"
  /\ lock' = IF p \in unlocked THEN lock ELSE NoFile
  /\ Gone(p)
  /\ UNCHANGED <<kind, content, progVars, overlapped, alone, refused, idly, killed>>

\* SIGKILL, or a closed terminal: no handler runs.
Kill(p) ==
  /\ p \in Alive
  /\ Gone(p) /\ killed' = killed + (IF kind = "port" THEN 0 ELSE 1)
  /\ UNCHANGED <<kind, lock, content, progVars, overlapped, alone, refused, idly>>

-----------------------------------------------------------------------------
(* The programs: ensure_monitor_running, and what they do afterwards.      *)

\* Somebody listens: the connection is made, even to a monitor that is about
\* to close its server.
Connect(q) ==
  /\ prog[q] \in {"start", "wait"}
  /\ \E p \in Listening :
       conn' = [conn EXCEPT ![q] = p] /\ served' = served \cup {p}
  /\ prog' = [prog EXCEPT ![q] = "connected"]
  /\ UNCHANGED <<kind, pc, told, lockVars, listener, unlocked, byHand, overlapped, alone,
                 refused, idly, killed, missed>>

\* Nobody does.
NobodyListens(q) ==
  /\ prog[q] = "start" /\ Listening = {}
  /\ prog' = [prog EXCEPT ![q] = "launch"]
  /\ UNCHANGED <<kind, pc, told, lockVars, listener, conn, unlocked, history>>

\* A monitor is launched, whether or not one has come up in the meantime.
LaunchMonitor(q) ==
  /\ prog[q] = "launch"
  /\ \E p \in Procs : Begin(p)
  /\ prog' = [prog EXCEPT ![q] = "wait"]
  /\ overlapped' = (overlapped \/ Alive # {})
  /\ UNCHANGED <<conn, byHand>>

\* The two seconds are over: RuntimeError.
Deadline(q) ==
  /\ prog[q] = "wait"
  /\ prog' = [prog EXCEPT ![q] = "failed"]
  /\ UNCHANGED <<kind, pc, told, lockVars, listener, conn, unlocked, history>>

\* Mutant: the monitor goes on.
ToldByNone(q) == {}

\* Whom __EXIT__ is sent to.
ToldBy(q) == IF q \in Exits /\ conn[q] \in Alive THEN {conn[q]} ELSE {}

\* The program is done.  Its __EXIT__ can be lost: the error of a connection
\* that was reset or that the monitor has dropped is swallowed, and one that
\* arrives together with other data is taken for a command.
Finish(q) ==
  /\ prog[q] = "connected"
  /\ prog' = [prog EXCEPT ![q] = "ended"]
  /\ \E heard \in SUBSET ToldBy(q) :
       told' = told \cup heard /\ missed' = missed \cup (ToldBy(q) \ heard)
  /\ conn' = [conn EXCEPT ![q] = NoPid]
  /\ UNCHANGED <<kind, pc, lockVars, listener, unlocked, byHand, overlapped, alone, refused,
                 idly, killed, served>>

Work(p) == \/ Acquire(p) \/ Probe(p) \/ Unlink(p) \/ Create(p) \/ WritePid(p)
           \/ OpenPort(p) \/ Bind(p) \/ ClosePort(p) \/ CloseServer(p)
           \/ Release(p)

Next == \/ \E p \in Procs : Launch(p) \/ Work(p) \/ Tell(p) \/ Kill(p)
        \/ \E q \in Programs : \/ Connect(q) \/ NobodyListens(q) \/ LaunchMonitor(q)
                              \/ Deadline(q) \/ Finish(q)

Spec == Init /\ [][Next]_vars

\* The processes run, the operator and the programs may do nothing.
FairSpec == Spec /\ \A p \in Procs : WF_vars(Work(p))

-----------------------------------------------------------------------------
(* Properties.                                                             *)

\* Two programs of a kind that locks read the console, each getting a part of
\* what the node prints, only if one started before the other was through with
\* the lock: starts one after the other never get there, stale locks, kills and
\* the removal of the lock included.  The terminals only need a start that was
\* refused.  Nothing of the sort holds of the programs without a lock: the
\* monitor of today, and excl without --lock.
SingleReader ==
  kind # "port" /\ Cardinality(Readers \ unlocked) > 1 =>
    IF kind = "terminal" THEN refused ELSE overlapped

\* With the same exceptions, and as long as it reads the console, the pid of a
\* program that locks is in the lock, for the next start to find, whatever
\* programs without --lock come and go beside it.
LockNamesOwner ==
  kind # "port" =>
    \/ IF kind = "terminal" THEN refused ELSE overlapped
    \/ \A p \in Readers \ unlocked : lock # NoFile /\ content[lock] = p

\* The lock of a killed process keeps no monitor from starting, and at most
\* one terminal.
StaleLockGivesWay ==
  idly <= IF kind = "terminal" THEN killed ELSE 0

\* When all programs are done and each sent an __EXIT__, in the end no monitor
\* that one of them launched reads the console any more, unless an __EXIT__ to
\* it was lost, or starts overlapped and it was never connected to: a monitor
\* that came second has no server.
NothingLeftBehind ==
  (kind = "port" /\ Exits = Programs /\ \A q \in Programs : prog[q] = "ended")
    ~> (\A p \in Readers \ (byHand \cup missed) : overlapped /\ p \notin served)
=============================================================================
