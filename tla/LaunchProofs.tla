----------------------------- MODULE LaunchProofs -----------------------------
(***************************************************************************)
(* Theorems about the programs that launch others, and their proofs: first *)
(* who reads the console of the node, for any number of processes and      *)
(* programs and each of the four guards, then the tests launched by the    *)
(* web page, for any number of launches, lines and clicks.                 *)
(***************************************************************************)
EXTENDS MonitorLaunch, Station, FiniteSetTheorems, TLAPS

Past == {"open", "running", "releasing"}   \* behind the guard
Using == Past \cup {"write"}               \* has the lock, or will remove it
Stages == {"none", "start", "launch", "wait", "connected", "failed", "ended"}

TypeOK ==
  /\ kind \in Kinds
  /\ pc \in [Procs -> Starting \cup Past \cup {"off", "gone"}]
  /\ lock \in Procs \cup {NoFile} /\ content \in [Procs -> Procs \cup {NoPid}]
  /\ fd \in [Procs -> Procs \cup {NoFile}]
  /\ \A p \in Procs : pc[p] = "write" => fd[p] \in Procs
  /\ told \subseteq Procs /\ byHand \subseteq Procs /\ alone \subseteq Procs
  /\ unlocked \subseteq Procs /\ served \subseteq Procs /\ missed \subseteq Procs
  /\ listener \in [Procs -> {"none", "starting", "listening"}]
  /\ prog \in [Programs -> Stages]
  /\ conn \in [Programs -> Procs \cup {NoPid}]
  /\ overlapped \in BOOLEAN /\ refused \in BOOLEAN /\ idly \in Nat /\ killed \in Nat

(* The places each program has, that only the monitor of today is launched *)
(* by programs, and that who does without the lock never is in its code.   *)
Places ==
  /\ kind = "port" => \A p \in Procs : pc[p] \notin Starting
  /\ kind = "excl" => \A p \in Procs : pc[p] # "create"
  /\ kind = "terminal" => \A p \in Procs : pc[p] \notin {"probe", "unlink", "create"}
  /\ kind # "port" => \A q \in Programs : prog[q] = "none"
  /\ kind # "excl" => unlocked = {}
  /\ \A p \in unlocked : pc[p] \in Past

Locked == Procs \ unlocked    \* has a lock, if its program has one

(* What lets the guard of a locked program work.                           *)
Guarded ==
  /\ kind # "port"
  /\ IF kind = "terminal" THEN ~refused ELSE ~overlapped

(* The lock is the one of the process that uses it, and there is one; a    *)
(* starting process that goes on without asking again finds nobody.        *)
Owned ==
  Guarded =>
    /\ \A p \in Locked : pc[p] \in Past => lock # NoFile /\ content[lock] = p
    /\ \A p \in Locked : pc[p] = "write" => lock # NoFile /\ fd[p] = lock
    /\ \A p, q \in Locked : pc[p] \in Using /\ pc[q] \in Using => p = q
    /\ kind # "terminal" => \A p \in Starters : \A q \in Starters : p = q
    /\ \A p \in Procs : pc[p] \in {"unlink", "create"} =>
         \A q \in Locked : pc[q] \notin Past
    /\ \A p \in Procs : pc[p] = "create" => lock = NoFile

(* A file holds the pid of a process only when that process has written it.*)
Pids ==
  \A f \in Procs : content[f] # NoPid => pc[content[f]] \in Past \cup {"gone"}

(* Nobody else is alive while a process counts as alone, and nobody takes  *)
(* away the lock that it has found.                                        *)
AloneMeans ==
  \A p \in alone :
    /\ alone = {p} /\ Alive \subseteq {p} /\ kind # "port"
    /\ kind = "excl" /\ pc[p] \in {"probe", "unlink"} => lock # NoFile

(* The lock of a process that was killed is there, and nobody will remove  *)
(* it: it is accounted for by a start refused idly, or will be by one.     *)
LeftOver == lock # NoFile /\ \A p \in Procs : pc[p] \notin Using
Accounts ==
  IF kind = "terminal" THEN idly + (IF LeftOver THEN 1 ELSE 0) <= killed ELSE idly = 0

IInv ==
  /\ TypeOK /\ Places /\ Owned /\ Pids /\ AloneMeans /\ Accounts
-------------------------------------------------------------------------------
(* A process that moves on, and the others that stay.                      *)
LEMMA GotoIs ==
  ASSUME TypeOK, NEW p \in Procs, NEW where, Goto(p, where),
         where \in Starting \cup Past \cup {"off", "gone"}
  PROVE /\ pc'[p] = where /\ \A r \in Procs : r # p => pc'[r] = pc[r]
        /\ pc' \in [Procs -> Starting \cup Past \cup {"off", "gone"}]
BY DEF TypeOK, Goto

(* A step that touches neither the lock nor the places of the processes.   *)
LEMMA QuietStep ==
  ASSUME IInv, TypeOK', Places',
         UNCHANGED <<kind, pc, lock, content, fd, unlocked, overlapped, alone, refused, idly,
                     killed>>
  PROVE IInv'
<1>1. Pids' /\ AloneMeans'
  BY DEF IInv, Pids, AloneMeans, Alive
<1>2. Owned'
  BY DEF IInv, Owned, Guarded, Starters, Locked
<1>3. Accounts'
  BY DEF IInv, Accounts, LeftOver
<1> QED BY <1>1, <1>2, <1>3 DEF IInv

(* The acceptor, the signals and the programs that connect and go.         *)
LEMMA BesideStep ==
  ASSUME IInv,
         \/ \E p \in Procs : Bind(p) \/ Tell(p) \/ CloseServer(p)
         \/ \E q \in Programs : Connect(q) \/ NobodyListens(q) \/ Deadline(q) \/ Finish(q)
  PROVE IInv'
<1>1. /\ UNCHANGED <<kind, pc, lock, content, fd, unlocked, overlapped, alone, refused, idly,
                     killed, byHand>>
      /\ TypeOK /\ Places
  BY DEF IInv, Bind, Tell, CloseServer, Connect, NobodyListens, Deadline, Finish, lockVars,
         progVars, history
<1>2. CASE \E p \in Procs : Bind(p) \/ Tell(p) \/ CloseServer(p)
  <2>1. told' \subseteq Procs /\ UNCHANGED <<prog, conn, served, missed>>
    BY <1>1, <1>2 DEF TypeOK, Bind, Tell, CloseServer, progVars, history, heardVars
  <2>2. listener' \in [Procs -> {"none", "starting", "listening"}]
    BY <1>1, <1>2 DEF TypeOK, Bind, Tell, CloseServer
  <2>3. TypeOK' /\ Places'
    BY <1>1, <2>1, <2>2 DEF TypeOK, Places
  <2> QED BY <1>1, <2>3, QuietStep
<1>3. CASE \E q \in Programs : Connect(q) \/ NobodyListens(q) \/ Deadline(q) \/ Finish(q)
  <2>1. PICK q \in Programs : Connect(q) \/ NobodyListens(q) \/ Deadline(q) \/ Finish(q)
    BY <1>3
  <2>2. /\ prog[q] \in {"start", "wait", "connected"} /\ listener' = listener
        /\ \E to \in {"launch", "connected", "failed", "ended"} :
             prog' = [prog EXCEPT ![q] = to]
    BY <2>1 DEF Connect, NobodyListens, Deadline, Finish
  <2>3. kind = "port"
    BY <1>1, <2>2 DEF Places, TypeOK
  <2>4. told' \subseteq Procs /\ missed' \subseteq Procs
    <3>1. \A r \in Programs : ToldBy(r) \subseteq Procs
      BY DEF ToldBy, Alive
    <3>2. told \subseteq Procs /\ missed \subseteq Procs
      BY <1>1 DEF TypeOK
    <3>3. CASE Finish(q)
      <4>1. PICK heard \in SUBSET ToldBy(q) :
              told' = told \cup heard /\ missed' = missed \cup (ToldBy(q) \ heard)
        BY <3>3 DEF Finish
      <4> QED BY <3>1, <3>2, <4>1
    <3>4. CASE Connect(q) \/ NobodyListens(q) \/ Deadline(q)
      BY <3>2, <3>4 DEF Connect, NobodyListens, Deadline, history, heardVars
    <3> QED BY <2>1, <3>3, <3>4
  <2>5. prog' \in [Programs -> Stages]
    BY <1>1, <2>2 DEF TypeOK, Stages
  <2>6. conn' \in [Programs -> Procs \cup {NoPid}] /\ served' \subseteq Procs
    <3>1. Listening \subseteq Procs /\ conn \in [Programs -> Procs \cup {NoPid}]
          /\ served \subseteq Procs
      BY <1>1 DEF TypeOK, Listening
    <3> QED BY <2>1, <3>1 DEF Connect, NobodyListens, Deadline, Finish, history, heardVars
  <2>7. TypeOK' /\ Places'
    BY <1>1, <2>2, <2>3, <2>4, <2>5, <2>6 DEF TypeOK, Places
  <2> QED BY <1>1, <2>7, QuietStep
<1> QED BY <1>2, <1>3
-------------------------------------------------------------------------------
(* Starting.                                                               *)

(* A process begins; without an overlap nobody else is about to start.     *)
LEMMA BeginStep ==
  ASSUME IInv, NEW p \in Procs, Begin(p), overlapped' \in BOOLEAN,
         ~overlapped' => /\ ~overlapped
                         /\ kind # "port" /\ p \notin unlocked' => Starters = {},
         byHand' \subseteq Procs, conn' = conn,
         prog' \in [Programs -> Stages],
         kind # "port" => prog' = prog
  PROVE IInv'
<1>1. /\ pc[p] = "off" /\ \E where \in {"acquire", "open", "releasing"} :
           /\ Goto(p, where)
           /\ (where = "acquire" /\ kind # "port" /\ unlocked' = unlocked)
              \/ (where = "open" /\ kind = "excl" /\ unlocked' = unlocked \cup {p})
              \/ (where # "acquire" /\ kind = "port" /\ unlocked' = unlocked)
      /\ listener' = listener \/ listener' = [listener EXCEPT ![p] = "starting"]
      /\ alone' = IF Alive = {} /\ kind # "port" THEN {p} ELSE {}
      /\ UNCHANGED <<kind, told, lock, content, fd, refused, idly, killed, served, missed>>
  BY DEF Begin, lockVars, heardVars
<1>2. TypeOK /\ Places
  BY DEF IInv
<1>3. /\ pc'[p] \in {"acquire", "open", "releasing"}
      /\ (pc'[p] = "acquire" /\ kind # "port" /\ unlocked' = unlocked)
         \/ (pc'[p] = "open" /\ kind = "excl" /\ unlocked' = unlocked \cup {p})
         \/ (pc'[p] # "acquire" /\ kind = "port" /\ unlocked' = unlocked)
      /\ \A r \in Procs : r # p => pc'[r] = pc[r]
      /\ pc' \in [Procs -> Starting \cup Past \cup {"off", "gone"}]
  BY <1>1, <1>2, GotoIs DEF Starting, Past
<1>4. TypeOK'
  <2>1. listener' \in [Procs -> {"none", "starting", "listening"}]
    BY <1>1, <1>2 DEF TypeOK
  <2>2. alone' \subseteq Procs /\ unlocked' \subseteq Procs
    BY <1>1, <1>2, <1>3 DEF TypeOK
  <2>3. \A r \in Procs : pc'[r] = "write" => fd'[r] \in Procs
    BY <1>1, <1>2, <1>3 DEF TypeOK
  <2> QED BY <1>1, <1>2, <1>3, <2>1, <2>2, <2>3 DEF TypeOK
<1>5. Places'
  <2>1. \A r \in unlocked' : pc'[r] \in Past
    BY <1>1, <1>2, <1>3 DEF Places, Past, TypeOK
  <2> QED BY <1>1, <1>2, <1>3, <2>1 DEF Places, Starting
<1>6. Alive' = Alive \cup {p} /\ (pc'[p] = "acquire" => Starters' = Starters \cup {p})
  BY <1>3 DEF Alive, Starters, Starting
<1>7. pc'[p] = "acquire" \/ p \notin Locked' \/ kind = "port"
  BY <1>3 DEF Locked
<1>8. Owned'
  <2> SUFFICES ASSUME Guarded'
      PROVE /\ \A r \in Locked' : pc'[r] \in Past => lock # NoFile /\ content[lock] = r
            /\ \A r \in Locked' : pc'[r] = "write" => lock # NoFile /\ fd[r] = lock
            /\ \A r, q \in Locked' : pc'[r] \in Using /\ pc'[q] \in Using => r = q
            /\ kind # "terminal" => \A r \in Starters' : \A q \in Starters' : r = q
            /\ \A r \in Procs : pc'[r] \in {"unlink", "create"} =>
                 \A q \in Locked' : pc'[q] \notin Past
            /\ \A r \in Procs : pc'[r] = "create" => lock = NoFile
    BY <1>1 DEF Owned
  <2>1. /\ Guarded /\ kind # "port"
        /\ kind # "terminal" /\ pc'[p] = "acquire" => Starters = {}
    <3>1. kind # "port" /\ Guarded
      BY <1>1, <1>3 DEF Guarded
    <3>2. ASSUME kind # "terminal", pc'[p] = "acquire" PROVE Starters = {}
      <4>1. p \notin unlocked'
        BY <1>1, <1>2, <1>3, <3>2 DEF Places, Past
      <4> QED BY <1>1, <3>1, <3>2, <4>1 DEF Guarded
    <3> QED BY <3>1, <3>2
  <2>2. "acquire" \notin Past \cup Using \cup {"write", "unlink", "create"}
    BY DEF Past, Using
  <2>3. \A r \in Locked' : r \in Locked /\ (pc'[r] = pc[r] \/ (r = p /\ pc'[r] = "acquire"))
    BY <1>3, <1>7, <2>1 DEF Locked
  <2>4. kind # "terminal" => \A r \in Starters' : \A q \in Starters' : r = q
    <3>1. CASE pc'[p] = "acquire"
      BY <1>6, <2>1, <3>1
    <3>2. CASE pc'[p] # "acquire"
      <4>1. Starters' \subseteq Starters
        BY <1>3, <3>2 DEF Starters, Starting
      <4> QED BY <2>1, <4>1 DEF IInv, Owned
    <3> QED BY <3>1, <3>2
  <2>5. \A r \in Procs : pc'[r] \in {"unlink", "create"} => pc[r] = pc'[r]
    BY <1>3
  <2> QED BY <1>1, <2>1, <2>2, <2>3, <2>4, <2>5 DEF IInv, Owned
<1>9. Pids'
  BY <1>1, <1>2, <1>3 DEF IInv, Pids, Past, TypeOK
<1>10. AloneMeans'
  BY <1>1, <1>3, <1>6 DEF AloneMeans
<1>11. Accounts'
  <2>1. kind = "terminal" => pc'[p] \notin Using
    BY <1>3 DEF Using, Past
  <2>2. kind = "terminal" => (LeftOver' <=> LeftOver)
    BY <1>1, <1>3, <2>1 DEF LeftOver, Using, Past
  <2> QED BY <1>1, <2>2 DEF IInv, Accounts
<1> QED BY <1>4, <1>5, <1>8, <1>9, <1>10, <1>11 DEF IInv

(* The operator launches a process.                                         *)
LEMMA LaunchStep == ASSUME IInv, NEW p \in Procs, Launch(p) PROVE IInv'
<1>1. /\ Begin(p) /\ byHand' = byHand \cup {p} /\ UNCHANGED <<prog, conn>>
      /\ overlapped' = (overlapped \/ IF kind = "port" THEN Alive # {}
                                      ELSE p \notin unlocked' /\ Starters # {})
  BY DEF Launch, progVars
<1>2. /\ overlapped' \in BOOLEAN
      /\ ~overlapped' => /\ ~overlapped
                         /\ kind # "port" /\ p \notin unlocked' => Starters = {}
  <2>1. overlapped \in BOOLEAN
    BY DEF IInv, TypeOK
  <2> QED BY <1>1, <2>1
<1>3. byHand' \subseteq Procs
      /\ prog' \in [Programs -> Stages]
  BY <1>1 DEF IInv, TypeOK
<1> QED BY <1>1, <1>2, <1>3, BeginStep

(* A program launches a monitor, because nobody listens.                    *)
LEMMA LaunchMonitorStep == ASSUME IInv, NEW q \in Programs, LaunchMonitor(q) PROVE IInv'
<1>1. PICK p \in Procs : Begin(p)
  BY DEF LaunchMonitor
<1>2. /\ prog[q] = "launch" /\ prog' = [prog EXCEPT ![q] = "wait"]
      /\ overlapped' = (overlapped \/ Alive # {}) /\ UNCHANGED <<conn, byHand>>
  BY DEF LaunchMonitor
<1>3. kind = "port"
  BY <1>2 DEF IInv, Places
<1>4. /\ overlapped' \in BOOLEAN
      /\ ~overlapped' => /\ ~overlapped
                         /\ kind # "port" /\ p \notin unlocked' => Starters = {}
  <2>1. overlapped \in BOOLEAN
    BY DEF IInv, TypeOK
  <2> QED BY <1>2, <1>3, <2>1
<1>5. byHand' \subseteq Procs
      /\ prog' \in [Programs -> Stages]
  BY <1>2 DEF IInv, TypeOK, Stages
<1> QED BY <1>1, <1>2, <1>3, <1>4, <1>5, BeginStep

(* What every step of a process keeps that moves it from one place of its  *)
(* program to another.                                                     *)
LEMMA Moved ==
  ASSUME IInv, NEW p \in Procs, pc[p] # "off", pc[p] # "gone", NEW where, Goto(p, where),
         where \in Starting \cup Past \cup {"gone"},
         kind = "port" => where \notin Starting, kind = "excl" => where # "create",
         kind = "terminal" => where \notin {"probe", "unlink", "create"},
         unlocked' \subseteq unlocked,
         p \in unlocked' => pc[p] \in Starting \/ where \in Past,
         UNCHANGED <<kind, prog>>
  PROVE /\ Places' /\ Alive' \subseteq Alive /\ p \in Alive
        /\ pc'[p] = where /\ \A r \in Procs : r # p => pc'[r] = pc[r]
        /\ pc' \in [Procs -> Starting \cup Past \cup {"off", "gone"}]
<1>1. /\ pc'[p] = where /\ \A r \in Procs : r # p => pc'[r] = pc[r]
      /\ pc' \in [Procs -> Starting \cup Past \cup {"off", "gone"}]
  BY GotoIs DEF IInv
<1>2. Alive' \subseteq Alive /\ p \in Alive
  BY <1>1 DEF Alive
<1>3. \A r \in unlocked' : pc'[r] \in Past
  <2>1. p \in unlocked' => pc[p] \notin Starting
    BY DEF IInv, Places, Past, Starting
  <2> QED BY <1>1, <2>1 DEF IInv, TypeOK, Places
<1>4. Places'
  BY <1>1, <1>3 DEF IInv, Places
<1> QED BY <1>1, <1>2, <1>3, <1>4

(* The pids in the files, when a process moves and no file gets one.       *)
LEMMA PidsKept ==
  ASSUME IInv, NEW p \in Procs, pc[p] \in Past => pc'[p] \in Past \cup {"gone"},
         pc[p] # "gone", \A r \in Procs : r # p => pc'[r] = pc[r],
         \A f \in Procs : content'[f] \in {content[f], NoPid}
  PROVE Pids'
BY DEF IInv, TypeOK, Pids, Past

(* Whether the file is there: pid goes on if it is not.                    *)
LEMMA LockExistsStep ==
  ASSUME IInv, NEW p \in Procs, Acquire(p), kind = "pid" PROVE IInv'
<1>1. /\ pc[p] = "acquire" /\ Goto(p, IF lock = NoFile THEN "create" ELSE "probe")
      /\ UNCHANGED <<kind, told, lock, content, fd, listener, prog, conn, unlocked, served,
                     missed, byHand, overlapped, alone, refused, idly, killed>>
  BY DEF Acquire, LockExists, lockVars, progVars, heardVars
<1>2. /\ Places' /\ Alive' \subseteq Alive
      /\ pc'[p] = (IF lock = NoFile THEN "create" ELSE "probe")
      /\ \A r \in Procs : r # p => pc'[r] = pc[r]
      /\ pc' \in [Procs -> Starting \cup Past \cup {"off", "gone"}]
  BY <1>1, Moved DEF Starting
<1>3. TypeOK'
  BY <1>1, <1>2 DEF IInv, TypeOK
<1>4. Owned'
  <2>1. (Guarded' <=> Guarded) /\ Starters' = Starters
    BY <1>1, <1>2 DEF Guarded, Starters, Starting
  <2> QED BY <1>1, <1>2, <2>1 DEF IInv, Owned, Locked, Past, Using
<1>5. Pids'
  BY <1>1, <1>2, PidsKept DEF Past
<1>6. AloneMeans' /\ Accounts'
  BY <1>1, <1>2 DEF IInv, AloneMeans, Accounts
<1> QED BY <1>2, <1>3, <1>4, <1>5, <1>6 DEF IInv

(* The file is created by excl or a terminal: nobody used the lock.        *)
LEMMA CreatedStep ==
  ASSUME IInv, NEW p \in Procs, Acquire(p), kind # "pid", lock = NoFile PROVE IInv'
<1>1. /\ pc[p] = "acquire" /\ Goto(p, "write")
      /\ lock' = p /\ content' = [content EXCEPT ![p] = NoPid] /\ fd' = [fd EXCEPT ![p] = p]
      /\ UNCHANGED <<kind, told, listener, prog, conn, unlocked, served, missed, byHand,
                     overlapped, alone, refused, idly, killed>>
  BY DEF Acquire, CreateExclusive, progVars, heardVars
<1>2. kind \in {"excl", "terminal"} /\ p # NoFile
  BY <1>1 DEF IInv, TypeOK, Kinds, Places, Starting, Procs, NoFile
<1>3. /\ Places' /\ Alive' \subseteq Alive /\ pc'[p] = "write"
      /\ \A r \in Procs : r # p => pc'[r] = pc[r]
      /\ pc' \in [Procs -> Starting \cup Past \cup {"off", "gone"}]
  BY <1>1, <1>2, Moved DEF Starting
<1>4. fd'[p] = p /\ \A r \in Procs : r # p => fd'[r] = fd[r]
  BY <1>1 DEF IInv, TypeOK
<1>5. TypeOK'
  BY <1>1, <1>3, <1>4 DEF IInv, TypeOK
<1>6. Owned'
  <2> SUFFICES ASSUME Guarded' PROVE Owned'
    BY DEF Owned
  <2>1. Guarded
    BY <1>1 DEF Guarded
  <2>2. \A r \in Locked : pc[r] \notin Using
    BY <2>1 DEF IInv, Owned, Using
  <2>3. \A r \in Locked : pc'[r] \notin Past
    BY <1>3, <2>2 DEF Using, Past, Locked
  <2>4. \A r \in Locked : pc'[r] \in Using => r = p
    BY <1>3, <2>2 DEF Locked
  <2>5. Starters' = Starters
    BY <1>1, <1>3 DEF Starters, Starting
  <2>6. kind # "terminal" => \A r \in Starters' : \A q \in Starters' : r = q
    BY <2>1, <2>5 DEF IInv, Owned
  <2>7. \A r \in Procs : pc'[r] # "create"
    BY <1>2, <1>3 DEF IInv, Places
  <2> QED BY <1>1, <1>2, <1>4, <2>3, <2>4, <2>6, <2>7 DEF Owned, Using, Locked
<1>7. Pids'
  <2>1. \A f \in Procs : content'[f] \in {content[f], NoPid}
    BY <1>1 DEF IInv, TypeOK
  <2> QED BY <1>1, <1>3, <2>1, PidsKept DEF Past
<1>8. AloneMeans'
  BY <1>1, <1>2, <1>3 DEF IInv, AloneMeans
<1>9. Accounts'
  <2>1. ~LeftOver'
    BY <1>3 DEF LeftOver, Using
  <2> QED BY <1>1, <2>1 DEF IInv, TypeOK, Accounts
<1> QED BY <1>3, <1>5, <1>6, <1>7, <1>8, <1>9 DEF IInv

(* The file is there: excl looks at it.                                    *)
LEMMA FoundStep ==
  ASSUME IInv, NEW p \in Procs, Acquire(p), kind = "excl", lock # NoFile PROVE IInv'
<1>1. /\ pc[p] = "acquire" /\ Goto(p, "probe")
      /\ UNCHANGED <<kind, told, lock, content, fd, listener, prog, conn, unlocked, served,
                     missed, byHand, overlapped, alone, refused, idly, killed>>
  BY DEF Acquire, CreateExclusive, lockVars, progVars, heardVars
<1>2. /\ Places' /\ Alive' \subseteq Alive /\ pc'[p] = "probe"
      /\ \A r \in Procs : r # p => pc'[r] = pc[r]
      /\ pc' \in [Procs -> Starting \cup Past \cup {"off", "gone"}]
  BY <1>1, Moved DEF Starting
<1>3. TypeOK'
  BY <1>1, <1>2 DEF IInv, TypeOK
<1>4. Owned'
  <2>1. (Guarded' <=> Guarded) /\ Starters' = Starters
    BY <1>1, <1>2 DEF Guarded, Starters, Starting
  <2> QED BY <1>1, <1>2, <2>1 DEF IInv, Owned, Locked, Past, Using
<1>5. Pids'
  BY <1>1, <1>2, PidsKept DEF Past
<1>6. AloneMeans' /\ Accounts'
  BY <1>1, <1>2 DEF IInv, AloneMeans, Accounts
<1> QED BY <1>2, <1>3, <1>4, <1>5, <1>6 DEF IInv

(* ... and a terminal is refused.  If it was alone, the lock was left over *)
(* by a process that was killed, and this terminal removes it.             *)
LEMMA TerminalRefused ==
  ASSUME IInv, NEW p \in Procs, Acquire(p), kind = "terminal", lock # NoFile PROVE IInv'
<1>1. /\ pc[p] = "acquire" /\ Goto(p, "releasing") /\ refused' = TRUE
      /\ idly' = idly + (IF p \in alone THEN 1 ELSE 0)
      /\ UNCHANGED <<kind, told, lock, content, fd, listener, prog, conn, unlocked, served,
                     missed, byHand, overlapped, alone, killed>>
  BY DEF Acquire, CreateExclusive, Refuse, lockVars, progVars, heardVars
<1>2. /\ Places' /\ Alive' \subseteq Alive /\ p \in Alive /\ pc'[p] = "releasing"
      /\ \A r \in Procs : r # p => pc'[r] = pc[r]
      /\ pc' \in [Procs -> Starting \cup Past \cup {"off", "gone"}]
  BY <1>1, Moved DEF Starting, Past
<1>3. idly' \in Nat
  BY <1>1 DEF IInv, TypeOK
<1>4. TypeOK'
  BY <1>1, <1>2, <1>3 DEF IInv, TypeOK
<1>5. Owned'
  BY <1>1 DEF Owned, Guarded
<1>6. Pids'
  BY <1>1, <1>2, PidsKept DEF Past
<1>7. AloneMeans'
  BY <1>1, <1>2 DEF IInv, AloneMeans
<1>8. Accounts'
  <2>1. ~LeftOver'
    BY <1>2 DEF LeftOver, Using, Past
  <2>2. p \in alone => LeftOver
    <3>1. p \in alone => \A r \in Procs : r # p => pc[r] \in {"off", "gone"}
      BY DEF IInv, AloneMeans, Alive
    <3> QED BY <1>1, <3>1 DEF LeftOver, Using, Past
  <2>3. idly' <= killed
    BY <1>1, <2>2 DEF IInv, TypeOK, Accounts
  <2> QED BY <1>1, <1>3, <2>1, <2>3 DEF IInv, TypeOK, Accounts
<1> QED BY <1>2, <1>4, <1>5, <1>6, <1>7, <1>8 DEF IInv

(* A process asks for the lock, in the way of its program.                  *)
LEMMA AcquireStep == ASSUME IInv, NEW p \in Procs, Acquire(p) PROVE IInv'
<1>1. kind # "port"
  BY DEF Acquire, IInv, Places, Starting
<1>2. kind \in {"pid", "excl", "terminal"}
  BY <1>1 DEF IInv, TypeOK, Kinds
<1> QED BY <1>2, LockExistsStep, CreatedStep, FoundStep, TerminalRefused

(* A process that finds a stale pid: nobody is behind the guard.           *)
LEMMA ProbeStep == ASSUME IInv, NEW p \in Procs, Probe(p) PROVE IInv'
<1>1. /\ pc[p] = "probe"
      /\ \/ Stale /\ Goto(p, "unlink") /\ UNCHANGED <<refused, idly>>
         \/ ~Stale /\ refused' = TRUE /\ Goto(p, IF kind = "terminal" THEN "releasing" ELSE "gone")
            /\ idly' = idly + (IF p \in alone THEN 1 ELSE 0)
      /\ UNCHANGED <<kind, told, lock, content, fd, listener, prog, conn, unlocked, served,
                     missed, byHand, overlapped, alone, killed>>
  BY DEF Probe, Refuse, lockVars, progVars, heardVars
<1>2. kind \in {"pid", "excl"}
  BY <1>1 DEF IInv, TypeOK, Kinds, Places, Starting
<1>3. /\ Places' /\ Alive' \subseteq Alive /\ p \in Alive
      /\ pc'[p] = (IF Stale THEN "unlink" ELSE "gone")
      /\ \A r \in Procs : r # p => pc'[r] = pc[r]
      /\ pc' \in [Procs -> Starting \cup Past \cup {"off", "gone"}]
  <2>1. Goto(p, IF Stale THEN "unlink" ELSE "gone")
    BY <1>1, <1>2
  <2> QED BY <1>1, <1>2, <2>1, Moved DEF Starting
<1>4. UNCHANGED idly
  <2>1. CASE Stale
    BY <1>1, <2>1
  <2>2. CASE ~Stale
    <3>1. lock \in Procs /\ content[lock] \in Alive /\ content[lock] # NoPid
      BY <2>2 DEF Stale, IInv, TypeOK, Alive, Procs, NoPid
    <3>2. pc[content[lock]] # "probe"
      BY <3>1 DEF IInv, Pids, Past
    <3>3. p \notin alone
      BY <1>1, <3>1, <3>2 DEF IInv, AloneMeans
    <3> QED BY <1>1, <2>2, <3>3 DEF IInv, TypeOK
  <2> QED BY <2>1, <2>2
<1>5. TypeOK'
  <2>1. refused' \in BOOLEAN
    BY <1>1 DEF IInv, TypeOK
  <2>2. \A r \in Procs : pc'[r] = "write" => fd'[r] \in Procs
    BY <1>1, <1>3 DEF IInv, TypeOK
  <2> QED BY <1>1, <1>3, <1>4, <2>1, <2>2 DEF IInv, TypeOK
<1>6. Owned'
  <2> SUFFICES ASSUME Guarded' PROVE Owned'
    BY DEF Owned
  <2>1. Guarded
    BY <1>1, <1>2 DEF Guarded
  <2>2. Starters' \subseteq Starters
    BY <1>1, <1>3 DEF Starters, Starting
  <2>3. Stale => \A q \in Locked : pc[q] \notin Past
    BY <2>1 DEF Stale, Alive, Past, IInv, Owned, Locked
  <2>4. pc'[p] \notin Using \cup Past \cup {"create"}
    BY <1>3 DEF Using, Past
  <2>5. \A r \in Procs : pc'[r] \in {"unlink", "create"} =>
          \A q \in Locked : pc'[q] \notin Past
    BY <1>3, <2>1, <2>3, <2>4 DEF IInv, Owned, Locked
  <2>6. \A r, q \in Locked : pc'[r] \in Using /\ pc'[q] \in Using => r = q
    BY <1>3, <2>1, <2>4 DEF IInv, Owned, Locked
  <2>7. kind # "terminal" => \A r \in Starters' : \A q \in Starters' : r = q
    BY <2>1, <2>2 DEF IInv, Owned
  <2>8. /\ \A r \in Locked : pc'[r] \in Past => lock # NoFile /\ content[lock] = r
        /\ \A r \in Locked : pc'[r] = "write" => lock # NoFile /\ fd[r] = lock
        /\ \A r \in Procs : pc'[r] = "create" => lock = NoFile
    BY <1>3, <2>1, <2>4 DEF IInv, Owned, Using, Locked
  <2> QED BY <1>1, <2>5, <2>6, <2>7, <2>8 DEF Owned, Locked
<1>7. Pids'
  BY <1>1, <1>3, PidsKept DEF Past
<1>8. AloneMeans'
  BY <1>1, <1>3 DEF IInv, AloneMeans
<1>9. Accounts'
  BY <1>1, <1>2, <1>4 DEF IInv, Accounts
<1> QED BY <1>3, <1>5, <1>6, <1>7, <1>8, <1>9 DEF IInv

(* The stale file is removed.  Excl finds it gone only when somebody else  *)
(* has been there.                                                         *)
LEMMA UnlinkStep == ASSUME IInv, NEW p \in Procs, Unlink(p) PROVE IInv'
<1>1. /\ pc[p] = "unlink" /\ lock' = NoFile
      /\ \/ kind = "pid" /\ Goto(p, "create") /\ UNCHANGED <<refused, idly>>
         \/ kind = "excl" /\ lock # NoFile /\ Goto(p, "acquire") /\ UNCHANGED <<refused, idly>>
         \/ kind = "excl" /\ lock = NoFile /\ refused' = TRUE /\ Goto(p, "gone")
            /\ idly' = idly + (IF p \in alone THEN 1 ELSE 0)
      /\ UNCHANGED <<kind, told, content, fd, listener, prog, conn, unlocked, served, missed,
                     byHand, overlapped, alone, killed>>
  BY DEF Unlink, Refuse, progVars, heardVars
<1>2. PICK where \in {"create", "acquire", "gone"} :
        Goto(p, where) /\ (where = "create" <=> kind = "pid")
  BY <1>1
<1>3. /\ Places' /\ Alive' \subseteq Alive /\ p \in Alive /\ pc'[p] = where
      /\ \A r \in Procs : r # p => pc'[r] = pc[r]
      /\ pc' \in [Procs -> Starting \cup Past \cup {"off", "gone"}]
  BY <1>1, <1>2, Moved DEF Starting
<1>4. UNCHANGED idly
  <2>1. CASE kind = "excl" /\ lock = NoFile
    <3>1. p \notin alone
      BY <1>1, <2>1 DEF IInv, AloneMeans
    <3> QED BY <1>1, <2>1, <3>1 DEF IInv, TypeOK
  <2> QED BY <1>1, <2>1
<1>5. TypeOK'
  <2>1. refused' \in BOOLEAN
    BY <1>1 DEF IInv, TypeOK
  <2>2. \A r \in Procs : pc'[r] = "write" => fd'[r] \in Procs
    BY <1>1, <1>2, <1>3 DEF IInv, TypeOK
  <2> QED BY <1>1, <1>3, <1>4, <2>1, <2>2 DEF IInv, TypeOK
<1>6. Owned'
  <2> SUFFICES ASSUME Guarded' PROVE Owned'
    BY DEF Owned
  <2>1. Guarded /\ kind # "terminal"
    BY <1>1 DEF Guarded
  <2>2. Starters' \subseteq Starters /\ p \in Starters
    BY <1>1, <1>3 DEF Starters, Starting
  <2>3. \A q \in Locked : pc[q] \notin Past
    BY <1>1, <2>1 DEF IInv, Owned
  <2>4. \A q \in Procs : pc[q] \in Starting => q = p
    BY <2>1, <2>2 DEF IInv, Owned, Starters
  <2>5. \A q \in Locked : pc'[q] \notin Using \cup Past
    BY <1>2, <1>3, <2>3, <2>4 DEF Using, Past, Starting, Locked
  <2>6. \A r \in Starters' : \A q \in Starters' : r = q
    BY <2>1, <2>2 DEF IInv, Owned
  <2> QED BY <1>1, <2>5, <2>6 DEF Owned, Using, Locked
<1>7. Pids'
  BY <1>1, <1>3, PidsKept DEF Past
<1>8. AloneMeans'
  BY <1>1, <1>2, <1>3 DEF IInv, AloneMeans
<1>9. Accounts'
  BY <1>1, <1>4 DEF IInv, Accounts
<1> QED BY <1>3, <1>5, <1>6, <1>7, <1>8, <1>9 DEF IInv

(* The file is opened for writing, and emptied.                            *)
LEMMA CreateStep == ASSUME IInv, NEW p \in Procs, Create(p) PROVE IInv'
<1> DEFINE file == IF lock = NoFile THEN p ELSE lock
<1>1. /\ pc[p] = "create" /\ Goto(p, "write")
      /\ lock' = file /\ fd' = [fd EXCEPT ![p] = file]
      /\ content' = [content EXCEPT ![file] = NoPid]
      /\ UNCHANGED <<kind, told, listener, prog, conn, unlocked, served, missed, byHand,
                     overlapped, alone, refused, idly, killed>>
  BY DEF Create, progVars, history, heardVars
<1>2. kind = "pid" /\ file \in Procs /\ file # NoFile
  BY <1>1 DEF IInv, TypeOK, Kinds, Places, Starting, Procs, NoFile
<1> HIDE DEF file
<1>3. /\ Places' /\ Alive' \subseteq Alive /\ pc'[p] = "write"
      /\ \A r \in Procs : r # p => pc'[r] = pc[r]
      /\ pc' \in [Procs -> Starting \cup Past \cup {"off", "gone"}]
  BY <1>1, <1>2, Moved DEF Starting
<1>4. fd'[p] = file /\ \A r \in Procs : r # p => fd'[r] = fd[r]
  BY <1>1 DEF IInv, TypeOK
<1>5. TypeOK'
  <2>1. \A r \in Procs : pc'[r] = "write" => fd'[r] \in Procs
    BY <1>2, <1>3, <1>4 DEF IInv, TypeOK
  <2>2. content' \in [Procs -> Procs \cup {NoPid}] /\ fd' \in [Procs -> Procs \cup {NoFile}]
    BY <1>1, <1>2 DEF IInv, TypeOK
  <2> QED BY <1>1, <1>2, <1>3, <2>1, <2>2 DEF IInv, TypeOK
<1>6. Owned'
  <2> SUFFICES ASSUME Guarded' PROVE Owned'
    BY DEF Owned
  <2>1. Guarded /\ kind # "terminal"
    BY <1>1, <1>2 DEF Guarded
  <2>2. Starters' = Starters /\ p \in Starters
    BY <1>1, <1>3 DEF Starters, Starting
  <2>3. \A q \in Locked : pc[q] \notin Past
    BY <1>1, <2>1 DEF IInv, Owned
  <2>4. \A q \in Procs : pc[q] \in Starting => q = p
    BY <2>1, <2>2 DEF IInv, Owned, Starters
  <2>5. /\ \A q \in Locked : pc'[q] \notin Past /\ (pc'[q] \in Using => q = p)
        /\ \A q \in Procs : pc'[q] # "create"
    BY <1>3, <2>3, <2>4 DEF Using, Past, Starting, Locked
  <2>6. \A r \in Starters' : \A q \in Starters' : r = q
    BY <2>1, <2>2 DEF IInv, Owned
  <2> QED BY <1>1, <1>2, <1>4, <2>5, <2>6 DEF Owned, Using, Locked
<1>7. Pids'
  <2>1. \A f \in Procs : content'[f] \in {content[f], NoPid}
    BY <1>1 DEF IInv, TypeOK
  <2> QED BY <1>1, <1>3, <2>1, PidsKept DEF Past
<1>8. AloneMeans' /\ Accounts'
  BY <1>1, <1>2, <1>3 DEF IInv, AloneMeans, Accounts
<1> QED BY <1>3, <1>5, <1>6, <1>7, <1>8 DEF IInv

(* The pid is written to the file that the process has opened.             *)
LEMMA WritePidStep == ASSUME IInv, NEW p \in Procs, WritePid(p) PROVE IInv'
<1>1. /\ pc[p] = "write" /\ Goto(p, "open") /\ content' = [content EXCEPT ![fd[p]] = p]
      /\ UNCHANGED <<kind, told, lock, fd, listener, prog, conn, unlocked, served, missed, byHand,
                     overlapped, alone, refused, idly, killed>>
  BY DEF WritePid, progVars, history, heardVars
<1>2. /\ Places' /\ Alive' \subseteq Alive /\ pc'[p] = "open"
      /\ \A r \in Procs : r # p => pc'[r] = pc[r]
      /\ pc' \in [Procs -> Starting \cup Past \cup {"off", "gone"}]
  BY <1>1, Moved DEF Starting, Past
<1>3. /\ fd[p] \in Procs /\ content'[fd[p]] = p
      /\ \A f \in Procs : f # fd[p] => content'[f] = content[f]
  BY <1>1 DEF IInv, TypeOK
<1>4. TypeOK'
  <2>1. content' \in [Procs -> Procs \cup {NoPid}]
    BY <1>1 DEF IInv, TypeOK
  <2>2. \A r \in Procs : pc'[r] = "write" => fd'[r] \in Procs
    BY <1>1, <1>2 DEF IInv, TypeOK
  <2> QED BY <1>1, <1>2, <2>1, <2>2 DEF IInv, TypeOK
<1>5. Owned'
  <2> SUFFICES ASSUME Guarded' PROVE Owned'
    BY DEF Owned
  <2>1. Guarded
    BY <1>1 DEF Guarded
  <2>0. p \in Locked
    BY <1>1 DEF IInv, Places, Past, Locked
  <2>2. lock # NoFile /\ fd[p] = lock /\ content'[lock] = p
    BY <1>1, <1>3, <2>0, <2>1 DEF IInv, Owned
  <2>3. \A q \in Locked : pc[q] \in Using => q = p
    BY <1>1, <2>0, <2>1 DEF IInv, Owned, Using
  <2>4. \A q \in Locked : (pc'[q] \in Using => q = p) /\ pc'[q] # "write"
    BY <1>2, <2>3 DEF Using, Past, Locked
  <2>5. Starters' \subseteq Starters /\ p \in Starters
    BY <1>1, <1>2 DEF Starters, Starting, Past
  <2>6. kind # "terminal" => \A r \in Starters' : \A q \in Starters' : r = q
    BY <2>1, <2>5 DEF IInv, Owned
  <2>7. \A q \in Procs : pc'[q] \notin {"unlink", "create"}
    <3>1. CASE kind = "terminal"
      BY <1>1, <1>2, <3>1 DEF IInv, Places
    <3>2. CASE kind # "terminal"
      <4>1. \A q \in Procs : pc[q] \in Starting => q = p
        BY <2>1, <2>5, <3>2 DEF IInv, Owned, Starters
      <4> QED BY <1>2, <4>1 DEF Starting
    <3> QED BY <3>1, <3>2
  <2> QED BY <1>1, <2>2, <2>4, <2>6, <2>7 DEF Owned, Using, Locked
<1>6. Pids'
  <2>1. \A f \in Procs : f # fd[p] /\ content[f] # NoPid => content[f] # p
    BY <1>1 DEF IInv, Pids, Past
  <2>2. \A f \in Procs : f # fd[p] /\ content[f] # NoPid =>
          content[f] \in Procs /\ pc'[content[f]] = pc[content[f]]
    BY <1>2, <2>1 DEF IInv, TypeOK
  <2>3. ASSUME NEW f \in Procs, content'[f] # NoPid
        PROVE pc'[content'[f]] \in Past \cup {"gone"}
    <3>1. CASE f = fd[p]
      BY <1>2, <1>3, <3>1 DEF Past
    <3>2. CASE f # fd[p]
      BY <1>3, <2>2, <2>3, <3>2 DEF IInv, Pids
    <3> QED BY <3>1, <3>2
  <2> QED BY <2>3 DEF Pids
<1>7. AloneMeans'
  <2>1. \A r \in Procs : pc'[r] \in {"probe", "unlink"} => pc[r] = pc'[r]
    BY <1>2
  <2> QED BY <1>1, <1>2, <2>1 DEF IInv, TypeOK, AloneMeans
<1>8. Accounts'
  <2>1. ~LeftOver'
    BY <1>2 DEF LeftOver, Using, Past
  <2> QED BY <1>1, <2>1 DEF IInv, TypeOK, Accounts
<1> QED BY <1>2, <1>4, <1>5, <1>6, <1>7, <1>8 DEF IInv
-------------------------------------------------------------------------------
(* Reading and ending.                                                     *)

(* The serial port is opened or is not, and closed.                        *)
LEMMA PortStep ==
  ASSUME IInv, NEW p \in Procs, OpenPort(p) \/ ClosePort(p) PROVE IInv'
<1>1. /\ pc[p] \in Past /\ \E where \in Past : Goto(p, where)
      /\ UNCHANGED <<kind, told, lock, content, fd, listener, prog, conn, unlocked, served,
                     missed, byHand, overlapped, alone, refused, idly, killed>>
  BY DEF OpenPort, ClosePort, lockVars, progVars, history, heardVars, Past
<1>2. PICK where \in Past : Goto(p, where)
  BY <1>1
<1>3. where \notin Starting /\ pc[p] # "off" /\ pc[p] # "gone"
      /\ where \notin {"create", "probe", "unlink"}
  BY <1>1 DEF Past, Starting
<1>4. /\ Places' /\ Alive' \subseteq Alive /\ pc'[p] = where
      /\ \A r \in Procs : r # p => pc'[r] = pc[r]
      /\ pc' \in [Procs -> Starting \cup Past \cup {"off", "gone"}]
  BY <1>1, <1>2, <1>3, Moved
<1>5. /\ \A r \in Procs : (pc'[r] \in Past <=> pc[r] \in Past)
                       /\ (pc'[r] \in Using <=> pc[r] \in Using)
      /\ \A r \in Procs : \A at \in Starting : pc'[r] = at <=> pc[r] = at
      /\ Starters' = Starters
  BY <1>1, <1>4 DEF Past, Using, Starting, Starters
<1>6. TypeOK'
  BY <1>1, <1>4, <1>5 DEF IInv, TypeOK, Starting
<1>7. Owned'
  <2>1. Guarded' <=> Guarded
    BY <1>1 DEF Guarded
  <2> QED BY <1>1, <1>5, <2>1 DEF IInv, Owned, Starting, Locked
<1>8. Pids'
  BY <1>1, <1>3, <1>4, PidsKept
<1>9. AloneMeans'
  <2>1. \A r \in Procs : pc'[r] \in {"probe", "unlink"} => pc[r] = pc'[r]
    BY <1>5 DEF Starting
  <2> QED BY <1>1, <1>4, <2>1 DEF IInv, TypeOK, AloneMeans
<1>10. Accounts'
  <2>1. LeftOver' <=> LeftOver
    BY <1>1, <1>5 DEF LeftOver
  <2> QED BY <1>1, <2>1 DEF IInv, Accounts
<1> QED BY <1>4, <1>6, <1>7, <1>8, <1>9, <1>10 DEF IInv

(* A process ends, by itself or not.                                       *)
LEMMA Ended ==
  ASSUME IInv, NEW p \in Procs, p \in Alive, Gone(p), lock' \in {lock, NoFile},
         lock' = NoFile => lock = NoFile \/ (pc[p] = "releasing" /\ p \in Locked),
         UNCHANGED <<kind, content, prog, conn, overlapped, alone, refused, idly>>,
         killed' \in Nat
  PROVE /\ TypeOK' /\ Places' /\ Owned' /\ Pids' /\ AloneMeans'
        /\ pc'[p] = "gone" /\ \A r \in Procs : r # p => pc'[r] = pc[r]
<1>1. /\ Goto(p, "gone") /\ fd' = [fd EXCEPT ![p] = NoFile]
      /\ listener' = [listener EXCEPT ![p] = "none"]
      /\ told' = told \ {p} /\ byHand' = byHand \ {p} /\ pc[p] # "off" /\ pc[p] # "gone"
      /\ unlocked' = unlocked \ {p} /\ served' = served \ {p} /\ missed' = missed \ {p}
  BY DEF Gone, Alive
<1>2. /\ Places' /\ Alive' \subseteq Alive /\ pc'[p] = "gone"
      /\ \A r \in Procs : r # p => pc'[r] = pc[r]
      /\ pc' \in [Procs -> Starting \cup Past \cup {"off", "gone"}]
  BY <1>1, Moved DEF Starting
<1>3. \A r \in Procs : r # p => fd'[r] = fd[r]
  BY <1>1 DEF IInv, TypeOK
<1>4. TypeOK'
  <2>1. \A r \in Procs : pc'[r] = "write" => fd'[r] \in Procs
    BY <1>2, <1>3 DEF IInv, TypeOK
  <2>2. fd' \in [Procs -> Procs \cup {NoFile}]
        /\ listener' \in [Procs -> {"none", "starting", "listening"}]
    BY <1>1 DEF IInv, TypeOK
  <2>3. /\ told' \subseteq Procs /\ byHand' \subseteq Procs /\ unlocked' \subseteq Procs
        /\ served' \subseteq Procs /\ missed' \subseteq Procs
    BY <1>1 DEF IInv, TypeOK
  <2> QED BY <1>2, <2>1, <2>2, <2>3 DEF IInv, TypeOK
<1>5. Owned'
  <2> SUFFICES ASSUME Guarded' PROVE Owned'
    BY DEF Owned
  <2>1. Guarded
    BY DEF Guarded
  <2>2. \A r \in Procs : pc'[r] # "gone" => r # p /\ pc[r] = pc'[r]
    BY <1>2
  <2>3. Starters' \subseteq Starters
    BY <2>2 DEF Starters, Starting
  <2>4. \A r \in Locked' : pc'[r] \in Using =>
          r \in Locked /\ pc[r] \in Using /\ lock' = lock /\ r # p
    <3> SUFFICES ASSUME NEW r \in Locked', pc'[r] \in Using
        PROVE r \in Locked /\ pc[r] \in Using /\ lock' = lock /\ r # p
      OBVIOUS
    <3>1. r \in Procs /\ pc[r] \in Using /\ r # p
      BY <2>2 DEF Using, Past, Locked
    <3>2. r \in Locked
      BY <1>1, <3>1 DEF Locked
    <3>3. ~(pc[p] = "releasing" /\ p \in Locked)
      BY <2>1, <3>1, <3>2 DEF IInv, Owned, Using, Past
    <3> QED BY <3>1, <3>2, <3>3
  <2>5. \A r \in Locked' : pc'[r] \in Past => lock' # NoFile /\ content[lock'] = r
    BY <2>1, <2>2, <2>4 DEF IInv, Owned, Using, Past, Locked
  <2>6. \A r \in Locked' : pc'[r] = "write" => lock' # NoFile /\ fd'[r] = lock'
    BY <1>3, <2>1, <2>2, <2>4 DEF IInv, Owned, Using, Locked
  <2>7. \A r, q \in Locked' : pc'[r] \in Using /\ pc'[q] \in Using => r = q
    BY <2>1, <2>4 DEF IInv, Owned
  <2>8. kind # "terminal" => \A r \in Starters' : \A q \in Starters' : r = q
    BY <2>1, <2>3 DEF IInv, Owned
  <2>9. \A r \in Procs : pc'[r] \in {"unlink", "create"} =>
          \A q \in Locked' : pc'[q] \notin Past
    <3>1. \A q \in Locked' : pc'[q] \in Past => q \in Locked /\ pc[q] \in Past
      BY <1>1, <2>2 DEF Locked, Past
    <3> QED BY <2>1, <2>2, <3>1 DEF IInv, Owned
  <2>10. \A r \in Procs : pc'[r] = "create" => lock' = NoFile
    BY <2>1, <2>2 DEF IInv, Owned
  <2> QED BY <2>5, <2>6, <2>7, <2>8, <2>9, <2>10 DEF Owned
<1>6. Pids'
  BY <1>1, <1>2, PidsKept
<1>7. AloneMeans'
  <2> SUFFICES ASSUME NEW r \in alone
      PROVE /\ alone = {r} /\ Alive' \subseteq {r} /\ kind # "port"
            /\ kind = "excl" /\ pc'[r] \in {"probe", "unlink"} => lock' # NoFile
    BY DEF AloneMeans
  <2>1. r = p
    BY DEF IInv, AloneMeans
  <2> QED BY <1>2, <2>1 DEF IInv, AloneMeans
<1> QED BY <1>2, <1>4, <1>5, <1>6, <1>7

(* The end of main, which removes the lock.                                 *)
LEMMA ReleaseStep == ASSUME IInv, NEW p \in Procs, Release(p) PROVE IInv'
<1>1. /\ pc[p] = "releasing" /\ Gone(p)
      /\ lock' = IF p \in unlocked THEN lock ELSE NoFile
      /\ UNCHANGED <<kind, content, prog, conn, overlapped, alone, refused, idly, killed>>
  BY DEF Release, progVars
<1>2. p \in Alive /\ killed' \in Nat
  BY <1>1 DEF Alive, IInv, TypeOK
<1>3. TypeOK' /\ Places' /\ Owned' /\ Pids' /\ AloneMeans'
  BY <1>1, <1>2, Ended DEF Locked
<1>4. Accounts'
  <2>1. kind = "terminal" => lock' = NoFile
    BY <1>1 DEF IInv, Places
  <2>2. kind = "terminal" => ~LeftOver'
    BY <2>1 DEF LeftOver
  <2> QED BY <1>1, <2>2 DEF IInv, TypeOK, Accounts
<1> QED BY <1>3, <1>4 DEF IInv

(* A process is killed; its lock stays.                                     *)
LEMMA KillStep == ASSUME IInv, NEW p \in Procs, Kill(p) PROVE IInv'
<1>1. /\ p \in Alive /\ Gone(p) /\ killed' = killed + (IF kind = "port" THEN 0 ELSE 1)
      /\ UNCHANGED <<kind, lock, content, prog, conn, overlapped, alone, refused, idly>>
  BY DEF Kill, progVars
<1>2. killed' \in Nat
  BY <1>1 DEF IInv, TypeOK
<1>3. TypeOK' /\ Places' /\ Owned' /\ Pids' /\ AloneMeans'
  BY <1>1, <1>2, Ended
<1>4. Accounts'
  BY <1>1 DEF IInv, TypeOK, Accounts
<1> QED BY <1>3, <1>4 DEF IInv
-------------------------------------------------------------------------------
(* The theorems.                                                           *)

(* Nobody has been launched.                                                *)
LEMMA InitHolds == ASSUME Init PROVE IInv
<1>1. \A p \in Procs : pc[p] = "off"
  BY DEF Init
<1>2. TypeOK
  BY <1>1 DEF Init, TypeOK, Stages
<1>3. Places
  BY <1>1 DEF Init, Places, Starting
<1>4. Owned
  BY <1>1 DEF Owned, Starters, Starting, Locked, Past, Using
<1>5. Pids /\ AloneMeans /\ Accounts
  BY DEF Init, Pids, AloneMeans, Accounts, LeftOver
<1> QED BY <1>2, <1>3, <1>4, <1>5 DEF IInv

(* All actions together.                                                    *)
LEMMA StepKeeps == ASSUME IInv, [Next]_vars PROVE IInv'
<1>1. CASE \E p \in Procs : Launch(p)
  BY <1>1, LaunchStep
<1>2. CASE \E p \in Procs : Acquire(p) \/ Probe(p) \/ Unlink(p) \/ Create(p) \/ WritePid(p)
  BY <1>2, AcquireStep, ProbeStep, UnlinkStep, CreateStep, WritePidStep
<1>3. CASE \E p \in Procs : OpenPort(p) \/ ClosePort(p) \/ Release(p) \/ Kill(p)
  BY <1>3, PortStep, ReleaseStep, KillStep
<1>4. CASE \/ \E p \in Procs : Bind(p) \/ Tell(p) \/ CloseServer(p)
           \/ \E q \in Programs : Connect(q) \/ NobodyListens(q) \/ Deadline(q) \/ Finish(q)
  BY <1>4, BesideStep
<1>5. CASE \E q \in Programs : LaunchMonitor(q)
  BY <1>5, LaunchMonitorStep
<1>6. CASE UNCHANGED vars
  <2>1. UNCHANGED <<kind, pc, told, lock, content, fd, listener, prog, conn, unlocked, served,
                    missed, byHand, overlapped, alone, refused, idly, killed>>
    BY <1>6 DEF vars, lockVars, progVars, history, heardVars
  <2>2. TypeOK' /\ Places'
    BY <2>1 DEF IInv, TypeOK, Places
  <2> QED BY <2>1, <2>2, QuietStep
<1> QED BY <1>1, <1>2, <1>3, <1>4, <1>5, <1>6 DEF Next, Work

(* Whatever the operator and the programs do, the guards keep what makes   *)
(* them work.                                                              *)
THEOREM Invariance == Spec => []IInv
<1>1. Init => IInv
  BY InitHolds
<1>2. IInv /\ [Next]_vars => IInv'
  BY StepKeeps
<1> QED BY <1>1, <1>2, PTL DEF Spec

(* The variables of the processes, the lock and the programs keep their    *)
(* types.                                                                  *)
THEOREM TypeCorrect == Spec => []TypeOK
<1>1. IInv => TypeOK
  BY DEF IInv
<1> QED BY <1>1, Invariance, PTL

(* Two programs that lock never read the console at once, if no start     *)
(* overlapped another one, and with the terminals if none was refused: the *)
(* lock of the one that reads makes the next one go, whatever stale lock   *)
(* either has found, and whoever else reads without a lock.                *)
THEOREM OneReader == Spec => []SingleReader
<1>1. IInv => SingleReader
  <2> SUFFICES ASSUME IInv, kind # "port",
                      ~(IF kind = "terminal" THEN refused ELSE overlapped)
      PROVE ~(Cardinality(Readers \ unlocked) > 1)
    BY DEF SingleReader
  <2>1. \A p, q \in Readers \ unlocked : p = q
    BY DEF IInv, Owned, Guarded, Readers, Locked, Using, Past
  <2>2. CASE Readers \ unlocked = {}
    <3>1. Cardinality({}) = 0
      BY FS_EmptySet
    <3> QED BY <2>2, <3>1
  <2>3. CASE Readers \ unlocked # {}
    <3>1. PICK p \in Readers \ unlocked : TRUE
      BY <2>3
    <3>2. Readers \ unlocked = {p}
      BY <2>1, <3>1
    <3>3. Cardinality({p}) = 1
      BY FS_Singleton
    <3> QED BY <3>2, <3>3
  <2> QED BY <2>2, <2>3
<1> QED BY <1>1, Invariance, PTL

(* With the same exceptions, the lock names the process that reads, if it  *)
(* was started to use one.                                                 *)
THEOREM LockIsTheReaders == Spec => []LockNamesOwner
<1>1. IInv => LockNamesOwner
  BY DEF IInv, Owned, Guarded, LockNamesOwner, Readers, Locked, Past
<1> QED BY <1>1, Invariance, PTL

(* The lock of a process that was killed refuses no monitor that starts    *)
(* alone, and one terminal at most for each process killed.                *)
THEOREM StaleLocksGiveWay == Spec => []StaleLockGivesWay
<1>1. IInv => StaleLockGivesWay
  BY DEF IInv, TypeOK, Accounts, StaleLockGivesWay
<1> QED BY <1>1, Invariance, PTL

-------------------------------------------------------------------------------
(* The web page.                                                           *)

(* The lines of the tests, and the types.                                  *)
Lines == [proc : Tests, line : Nat]

StationTypeOK ==
  /\ page \in {"idle", "top", "poll", "start", "stop", "spawn", "stopping"}
  /\ launched \in 0..MaxLaunches /\ process \in {None, launched}
  /\ stop \in BOOLEAN /\ visible \in BOOLEAN /\ overlap \in BOOLEAN
  /\ queue \in Seq(Lines) /\ log \in Seq(Lines)
  /\ status \in [Tests -> {"none", "running", "exited"}]
  /\ reader \in [Tests -> {"none", "readline", "done"}]
  /\ watcher \in [Tests -> {"none", "wait", "flag", "line", "clear", "done"}]
  /\ doomed \subseteq 1..launched /\ broken \subseteq Tests
  /\ printed \in [Tests -> Nat] /\ pipe \in [Tests -> Seq(Lines)]
  /\ clicks \in Nat

(* Who has been launched, and where the script of the page can be.         *)
Launched ==
  /\ \A p \in Tests : status[p] = "none" <=> p > launched
  /\ \A p \in Tests : reader[p] = "none" <=> p > launched
  /\ \A p \in Tests : p > launched => watcher[p] = "none" /\ printed[p] = 0 /\ pipe[p] = <<>>
  /\ \A p \in Tests : watcher[p] \in {"flag", "line", "clear", "done"} => status[p] = "exited"
  /\ page = "spawn" => launched < MaxLaunches
  /\ page = "stopping" => launched \in doomed

(* Without an overlap nothing of an earlier test is left when one begins   *)
(* but its reader, and the flag tells the reader of a running test to stop *)
(* only if the operator has stopped the test.                              *)
Alone ==
  ~overlap =>
    /\ \A p \in Tests : p < launched => status[p] = "exited" /\ watcher[p] = "done"
    /\ \A p \in Tests : status[p] = "running" => process = launched
    /\ page = "spawn" =>
         ~stop /\ \A p \in 1..launched : status[p] = "exited" /\ watcher[p] = "done"
    /\ \A p \in Tests : status[p] = "running" /\ (stop \/ reader[p] = "done") => p \in doomed
    /\ broken \subseteq doomed

(* The pipe holds the end of what was printed.  Until the reader has ended *)
(* all that a line shown was followed by is shown or in the pipe.          *)
Taken(p) == printed[p] - Len(pipe[p])
Piped ==
  \A p \in Tests : Taken(p) \in Nat /\ \A i \in 1..Len(pipe[p]) : pipe[p][i] = Line(p, Taken(p) + i)

Followed ==
  \A p \in Tests : reader[p] # "done" =>
    \A i \in 1..Len(Shown) : OutputOf(p, i) =>
      /\ Shown[i].line <= Taken(p)
      /\ \A n \in (Shown[i].line + 1)..Taken(p) :
           \E k \in i..Len(Shown) : Shown[k] = Line(p, n)

StationInv ==
  StationTypeOK /\ Launched /\ Alone /\ Piped /\ Followed /\ ShownWithoutGaps

(* Two lists in a row, the second of which gets a line.                    *)
LEMMA ConcatAppend ==
  ASSUME NEW S, NEW s \in Seq(S), NEW t \in Seq(S), NEW e \in S
  PROVE s \o Append(t, e) = Append(s \o t, e)
<1>1. s \o Append(t, e) \in Seq(S) /\ Append(s \o t, e) \in Seq(S)
  OBVIOUS
<1>2. Len(s \o Append(t, e)) = Len(Append(s \o t, e))
  OBVIOUS
<1>3. \A i \in 1..Len(s \o Append(t, e)) : (s \o Append(t, e))[i] = Append(s \o t, e)[i]
  OBVIOUS
<1> QED BY <1>1, <1>2, <1>3

(* What is shown, and a line of it.                                        *)
LEMMA ShownIs ==
  ASSUME StationTypeOK
  PROVE /\ Shown \in Seq(Lines) /\ Len(Shown) \in Nat
        /\ \A i \in 1..Len(Shown) : Shown[i] \in Lines /\ Shown[i].line \in Nat
<1>1. Shown \in Seq(Lines)
  BY DEF StationTypeOK, Shown
<1>2. \A i \in 1..Len(Shown) : Shown[i] \in Lines
  BY <1>1
<1> QED BY <1>1, <1>2 DEF Lines

(* What is shown, and where it comes from, stays as it is.                 *)
LEMMA NothingShown ==
  ASSUME StationInv, UNCHANGED <<Shown, pipe, printed>>,
         \A p \in Tests : reader'[p] # "done" => reader[p] # "done"
  PROVE Piped' /\ Followed' /\ ShownWithoutGaps'
<1>1. Piped'
  BY DEF StationInv, Piped, Taken
<1>2. Followed'
  BY DEF StationInv, Followed, Taken, OutputOf
<1>3. ShownWithoutGaps'
  BY DEF StationInv, ShownWithoutGaps, OutputOf
<1> QED BY <1>1, <1>2, <1>3

(* The log is cleared: the lines in the queue are left.                    *)
LEMMA LogCleared ==
  ASSUME StationInv, log' = <<>>, UNCHANGED <<queue, pipe, printed, reader>>
  PROVE Piped' /\ Followed' /\ ShownWithoutGaps'
<1> DEFINE m == Len(log)
<1>1. /\ m \in Nat /\ Len(queue) \in Nat /\ Shown' = queue /\ Len(Shown) = m + Len(queue)
      /\ \A i \in 1..Len(queue) : queue[i] = Shown[i + m] /\ i + m \in 1..Len(Shown)
  BY DEF StationInv, StationTypeOK, Shown
<1> HIDE DEF m
<1>2. \A i \in (1 + m)..Len(Shown) : i - m \in 1..Len(queue) /\ queue[i - m] = Shown[i]
  BY <1>1
<1>3. Piped'
  BY DEF StationInv, Piped, Taken
<1>4. \A p, i : OutputOf(p, i)' <=> queue[i].proc = p /\ queue[i].line # Exit
  BY <1>1 DEF OutputOf
<1>5. \A i \in 1..Len(queue) : \A p : OutputOf(p, i)' => OutputOf(p, i + m)
  BY <1>1, <1>4 DEF OutputOf
<1>6. Followed'
  <2> SUFFICES ASSUME NEW p \in Tests, reader[p] # "done",
                      NEW i \in 1..Len(queue), OutputOf(p, i)'
      PROVE /\ queue[i].line <= Taken(p)
            /\ \A n \in (queue[i].line + 1)..Taken(p) :
                 \E k \in i..Len(queue) : queue[k] = Line(p, n)
    BY <1>1 DEF Followed, Taken
  <2>1. i + m \in 1..Len(Shown) /\ OutputOf(p, i + m) /\ queue[i] = Shown[i + m]
    BY <1>1, <1>5
  <2>2. /\ Shown[i + m].line <= Taken(p)
        /\ \A n \in (Shown[i + m].line + 1)..Taken(p) :
             \E k \in (i + m)..Len(Shown) : Shown[k] = Line(p, n)
    BY <2>1 DEF StationInv, Followed
  <2>3. ASSUME NEW n \in (queue[i].line + 1)..Taken(p)
        PROVE \E k \in i..Len(queue) : queue[k] = Line(p, n)
    <3>1. PICK k \in (i + m)..Len(Shown) : Shown[k] = Line(p, n)
      BY <2>1, <2>2, <2>3
    <3>2. k - m \in i..Len(queue) /\ queue[k - m] = Shown[k]
      BY <1>1, <1>2
    <3> QED BY <3>1, <3>2
  <2> QED BY <2>1, <2>2, <2>3
<1>7. ShownWithoutGaps'
  <2> SUFFICES ASSUME NEW p \in Tests, NEW i \in 1..Len(Shown'), NEW j \in 1..Len(Shown'), i < j,
                      OutputOf(p, i)', OutputOf(p, j)'
      PROVE /\ Shown'[i].line < Shown'[j].line
            /\ \A n \in (Shown'[i].line + 1)..(Shown'[j].line - 1) :
                 \E k \in i..j : Shown'[k] = Line(p, n)
    BY DEF ShownWithoutGaps
  <2>0. Shown' = queue /\ i \in 1..Len(queue) /\ j \in 1..Len(queue)
    BY <1>1
  <2>1. /\ i + m \in 1..Len(Shown) /\ OutputOf(p, i + m) /\ queue[i] = Shown[i + m]
        /\ j + m \in 1..Len(Shown) /\ OutputOf(p, j + m) /\ queue[j] = Shown[j + m]
        /\ i + m < j + m
    BY <1>1, <1>5, <2>0
  <2>2. /\ Shown[i + m].line < Shown[j + m].line
        /\ \A n \in (Shown[i + m].line + 1)..(Shown[j + m].line - 1) :
             \E k \in (i + m)..(j + m) : Shown[k] = Line(p, n)
    BY <2>1 DEF StationInv, ShownWithoutGaps
  <2>3. ASSUME NEW n \in (queue[i].line + 1)..(queue[j].line - 1)
        PROVE \E k \in i..j : queue[k] = Line(p, n)
    <3>1. PICK k \in (i + m)..(j + m) : Shown[k] = Line(p, n)
      BY <2>1, <2>2, <2>3
    <3>2. i \in Nat /\ j \in Nat /\ j + m <= Len(Shown)
      BY <1>1, <2>0, <2>1
    <3>3. k - m \in i..j /\ k \in (1 + m)..Len(Shown)
      BY <1>1, <2>0, <3>2
    <3> QED BY <1>2, <3>1, <3>3
  <2> QED BY <2>0, <2>1, <2>2, <2>3
<1> QED BY <1>3, <1>6, <1>7

(* A line of a test is shown, the one after the last taken, or the last    *)
(* line of its watcher.                                                    *)
LEMMA LineShown ==
  ASSUME StationInv, NEW e \in Lines, Shown' = Append(Shown, e), Piped',
         \A p \in Tests : reader'[p] # "done" =>
           reader[p] # "done" /\ (Taken(p)' = Taken(p) + (IF e = Line(p, Taken(p) + 1) THEN 1 ELSE 0)),
         e.line # Exit => reader[e.proc] # "done" /\ e.line = Taken(e.proc) + 1
  PROVE Followed' /\ ShownWithoutGaps'
<1>0. PICK m : m = Len(Shown)
  OBVIOUS
<1>1. /\ m \in Nat /\ Len(Shown') = m + 1 /\ Shown'[m + 1] = e
      /\ \A i \in 1..m : Shown'[i] = Shown[i] /\ Shown[i].line \in Nat
      /\ \A i \in 1..Len(Shown') : i \in 1..m \/ i = m + 1
  <2>1. Shown \in Seq(Lines)
    BY ShownIs DEF StationInv
  <2> QED BY <1>0, <2>1, ShownIs DEF StationInv
<1>2. \A p \in Tests : Taken(p) \in Nat
  BY DEF StationInv, Piped
<1>3. e.proc \in Tests /\ e.line \in Nat /\ e = [proc |-> e.proc, line |-> e.line]
  BY DEF Lines
<1>4. \A p : \A i \in 1..m : OutputOf(p, i)' <=> OutputOf(p, i)
  BY <1>1 DEF OutputOf
<1>5. \A p : OutputOf(p, m + 1)' <=> e.proc = p /\ e.line # Exit
  BY <1>1 DEF OutputOf
<1>6. ASSUME NEW p \in Tests, reader[p] # "done", NEW i \in 1..m, OutputOf(p, i)
      PROVE /\ Shown[i].line <= Taken(p)
            /\ \A n \in (Shown[i].line + 1)..Taken(p) : \E k \in i..m : Shown[k] = Line(p, n)
  BY <1>0, <1>6 DEF StationInv, Followed
<1>7. Followed'
  <2> SUFFICES ASSUME NEW p \in Tests, reader'[p] # "done",
                      NEW i \in 1..Len(Shown'), OutputOf(p, i)'
      PROVE /\ Shown'[i].line <= Taken(p)'
            /\ \A n \in (Shown'[i].line + 1)..Taken(p)' :
                 \E k \in i..Len(Shown') : Shown'[k] = Line(p, n)
    BY DEF Followed
  <2>1. /\ reader[p] # "done"
        /\ Taken(p)' = Taken(p) + (IF e = Line(p, Taken(p) + 1) THEN 1 ELSE 0)
    OBVIOUS
  <2>4. PICK t : t = Taken(p)
    OBVIOUS
  <2>5. PICK u : u = Taken(p)'
    OBVIOUS
  <2>6. t \in Nat /\ u \in {t, t + 1} /\ (u = t + 1 => e = Line(p, t + 1))
    BY <1>2, <2>1, <2>4, <2>5
  <2>2. CASE i \in 1..m
    <3>1. OutputOf(p, i) /\ Shown'[i] = Shown[i]
      BY <1>1, <1>4, <2>2
    <3>2. /\ Shown[i].line <= Taken(p)
          /\ \A n \in (Shown[i].line + 1)..Taken(p) : \E k \in i..m : Shown[k] = Line(p, n)
      BY <1>6, <2>1, <2>2, <3>1
    <3>3. ASSUME NEW n \in (Shown[i].line + 1)..Taken(p)'
          PROVE \E k \in i..Len(Shown') : Shown'[k] = Line(p, n)
      <4>0. n \in (Shown[i].line + 1)..Taken(p) \/ (n = t + 1 /\ u = t + 1)
        BY <1>1, <2>2, <2>4, <2>5, <2>6
      <4>1. CASE n \in (Shown[i].line + 1)..Taken(p)
        <5>1. PICK k \in i..m : Shown[k] = Line(p, n)
          BY <3>2, <4>1
        <5>2. k \in 1..m /\ k \in i..Len(Shown') /\ Shown'[k] = Shown[k]
          BY <1>1, <2>2
        <5> QED BY <5>1, <5>2
      <4>2. CASE n = t + 1 /\ u = t + 1
        <5>1. m + 1 \in i..Len(Shown') /\ Shown'[m + 1] = Line(p, n)
          BY <1>1, <2>2, <2>6, <4>2
        <5> QED BY <5>1
      <4> QED BY <4>0, <4>1, <4>2
    <3>4. Shown'[i].line <= u
      BY <1>1, <2>2, <2>4, <2>6, <3>1, <3>2
    <3> QED BY <2>5, <3>1, <3>3, <3>4
  <2>3. CASE i = m + 1
    <3>1. e.proc = p /\ e.line = Taken(p) + 1 /\ Shown'[i] = e
      BY <1>1, <1>5, <2>3
    <3>2. e = Line(p, Taken(p) + 1)
      BY <1>3, <3>1 DEF Line
    <3>3. Taken(p)' = Taken(p) + 1
      BY <2>1, <3>2
    <3> QED BY <1>2, <3>1, <3>3
  <2> QED BY <1>1, <2>2, <2>3
<1>8. ShownWithoutGaps'
  <2> SUFFICES ASSUME NEW p \in Tests, NEW i \in 1..Len(Shown'), NEW j \in 1..Len(Shown'), i < j,
                      OutputOf(p, i)', OutputOf(p, j)'
      PROVE /\ Shown'[i].line < Shown'[j].line
            /\ \A n \in (Shown'[i].line + 1)..(Shown'[j].line - 1) :
                 \E k \in i..j : Shown'[k] = Line(p, n)
    BY DEF ShownWithoutGaps
  <2>1. i \in 1..m /\ OutputOf(p, i) /\ Shown'[i] = Shown[i] /\ Shown[i].line \in Nat
    BY <1>1, <1>4
  <2>2. CASE j \in 1..m
    <3>1. OutputOf(p, j) /\ Shown'[j] = Shown[j]
      BY <1>1, <1>4, <2>2
    <3>2. /\ Shown[i].line < Shown[j].line
          /\ \A n \in (Shown[i].line + 1)..(Shown[j].line - 1) :
               \E k \in i..j : Shown[k] = Line(p, n)
      BY <1>0, <2>1, <2>2, <3>1 DEF StationInv, ShownWithoutGaps
    <3>3. \A k \in i..j : Shown'[k] = Shown[k]
      BY <1>1, <2>1, <2>2
    <3> QED BY <2>1, <3>1, <3>2, <3>3
  <2>3. CASE j = m + 1
    <3>1. e.proc = p /\ e.line = Taken(p) + 1 /\ reader[p] # "done" /\ Shown'[j] = e
      BY <1>1, <1>5, <2>3
    <3>2. /\ Shown[i].line <= Taken(p)
          /\ \A n \in (Shown[i].line + 1)..Taken(p) : \E k \in i..m : Shown[k] = Line(p, n)
      BY <1>6, <2>1, <3>1
    <3>3. \A k \in i..m : Shown'[k] = Shown[k] /\ k \in i..j
      BY <1>1, <2>1, <2>3
    <3>4. e.line - 1 = Taken(p) /\ Shown[i].line < e.line
      BY <1>2, <2>1, <3>1, <3>2
    <3> QED BY <2>1, <3>1, <3>2, <3>3, <3>4
  <2> QED BY <1>1, <2>2, <2>3
<1> QED BY <1>7, <1>8

(* How many tests have been launched, and which.                           *)
LEMMA Numbers ==
  ASSUME StationInv
  PROVE /\ launched \in Nat /\ MaxLaunches \in Nat /\ launched <= MaxLaunches
        /\ \A p \in Tests : p \in Nat /\ p >= 1 /\ (p > launched \/ p \in 1..launched)
        /\ \A p \in 1..launched : p \in Tests /\ status[p] \in {"running", "exited"}
<1>1. MaxLaunches \in Nat
  BY StationAssumption
<1>2. launched \in Nat /\ launched <= MaxLaunches
  BY <1>1 DEF StationInv, StationTypeOK
<1>3. ASSUME NEW p \in Tests
      PROVE p \in Nat /\ p >= 1 /\ (p > launched \/ p \in 1..launched)
  <2>1. p \in Nat /\ p >= 1
    BY <1>1 DEF Tests
  <2> QED BY <1>2, <2>1
<1>4. ASSUME NEW p \in 1..launched PROVE p \in Tests /\ status[p] \in {"running", "exited"}
  <2>1. p \in Tests /\ ~(p > launched)
    BY <1>1, <1>2 DEF Tests
  <2>2. status[p] # "none"
    BY <2>1 DEF StationInv, Launched
  <2> QED BY <2>1, <2>2 DEF StationInv, StationTypeOK
<1> QED BY <1>1, <1>2, <1>3, <1>4


(* Nothing is taken from a pipe and nothing is shown, and who runs and who *)
(* was told to stop is clear: the clicks and the handlers of the page.     *)
LEMMA ClickStep == ASSUME StationInv, Click PROVE StationInv'
<1>1. /\ page \in {"idle", "top", "poll"} /\ clicks' = clicks + 1
      /\ page' \in {"start", "stop", "top"}
      /\ UNCHANGED <<process, stop, queue, log, visible, launched, status, doomed, printed, pipe,
                     broken, reader, watcher, overlap>>
  BY DEF Click, session, procVars
<1>2. StationTypeOK' /\ Launched' /\ Alone'
  BY <1>1 DEF StationInv, StationTypeOK, Launched, Alone
<1>3. Piped' /\ Followed' /\ ShownWithoutGaps'
  BY <1>1, NothingShown DEF Shown
<1> QED BY <1>2, <1>3 DEF StationInv

(* A test may begin: none is under way, and without an overlap nothing of  *)
(* an earlier one is.                                                      *)
LEMMA LaunchTestStep == ASSUME StationInv, launch_test PROVE StationInv'
<1>1. /\ page = "start"
      /\ \/ /\ MayLaunch /\ page' = "spawn" /\ stop' = FALSE /\ log' = <<>>
            /\ overlap' = (overlap \/ \E p \in 1..launched : status[p] = "exited" /\ watcher[p] # "done")
         \/ ~MayLaunch /\ page' = "top" /\ UNCHANGED <<stop, log, overlap>>
      /\ UNCHANGED <<process, queue, visible, launched, status, doomed, printed, pipe, broken,
                     reader, watcher, clicks>>
  BY DEF launch_test, procVars
<1>2. CASE MayLaunch
  <2>1. /\ process = None /\ launched < MaxLaunches /\ page' = "spawn" /\ stop' = FALSE
        /\ log' = <<>> /\ overlap' \in BOOLEAN
        /\ ~overlap' => ~overlap /\ \A p \in 1..launched : status[p] = "exited" => watcher[p] = "done"
    BY <1>1, <1>2 DEF MayLaunch
  <2>2. StationTypeOK'
    <3>1. log' \in Seq(Lines)
      BY <2>1
    <3>2. page' \in {"idle", "top", "poll", "start", "stop", "spawn", "stopping"} /\ stop' \in BOOLEAN
      BY <2>1
    <3> QED BY <1>1, <2>1, <3>1, <3>2 DEF StationInv, StationTypeOK
  <2>3. Launched'
    BY <1>1, <2>1 DEF StationInv, Launched
  <2>4. Alone'
    <3> SUFFICES ASSUME ~overlap' PROVE Alone'
      BY DEF Alone
    <3>1. \A p \in 1..launched : p \in Tests /\ status[p] \in {"running", "exited"}
      BY Numbers
    <3>2. \A p \in 1..launched : status[p] # "running"
      <4>1. \A p \in Tests : status[p] = "running" => launched = None
        BY <2>1 DEF StationInv, Alone
      <4> QED BY <2>1, <3>1, <4>1, Numbers DEF None
    <3>3. \A p \in 1..launched : status[p] = "exited" /\ watcher[p] = "done"
      BY <2>1, <3>1, <3>2
    <3> QED BY <1>1, <2>1, <3>3 DEF StationInv, Alone
  <2>5. Piped' /\ Followed' /\ ShownWithoutGaps'
    BY <1>1, <2>1, LogCleared
  <2> QED BY <2>2, <2>3, <2>4, <2>5 DEF StationInv
<1>3. CASE ~MayLaunch
  <2>1. page' = "top" /\ UNCHANGED <<stop, log, overlap>>
    BY <1>1, <1>3
  <2>2. StationTypeOK' /\ Launched' /\ Alone'
    BY <1>1, <2>1 DEF StationInv, StationTypeOK, Launched, Alone
  <2>3. Piped' /\ Followed' /\ ShownWithoutGaps'
    BY <1>1, <2>1, NothingShown DEF Shown
  <2> QED BY <2>2, <2>3 DEF StationInv
<1> QED BY <1>2, <1>3

(* The test begins, and its two threads.                                   *)
LEMMA SpawnStep == ASSUME StationInv, spawn PROVE StationInv'
<1> DEFINE new == launched + 1
<1>1. /\ page = "spawn" /\ page' = "top" /\ launched' = new /\ process' = new
      /\ status' = [status EXCEPT ![new] = "running"]
      /\ reader' = [reader EXCEPT ![new] = "readline"]
      /\ watcher' = [watcher EXCEPT ![new] = "wait"]
      /\ UNCHANGED <<stop, queue, log, visible, doomed, printed, pipe, broken, clicks, overlap>>
  BY DEF spawn
<1>2. /\ new \in 1..MaxLaunches /\ new \in Tests /\ launched \in Nat
      /\ \A p \in Tests : p > new => p > launched
      /\ \A p \in Tests : p # new => (p > new <=> p > launched)
      /\ \A p \in Tests : p < new <=> p <= launched
  <2>1. launched < MaxLaunches /\ launched \in Nat /\ MaxLaunches \in Nat
    BY <1>1, Numbers DEF StationInv, Launched
  <2>2. new \in 1..MaxLaunches
    BY <2>1
  <2>3. ASSUME NEW p \in Tests
        PROVE /\ p > new => p > launched
              /\ p # new => (p > new <=> p > launched)
              /\ p < new <=> p <= launched
    <3>1. p \in Nat
      BY Numbers
    <3> QED BY <2>1, <3>1
  <2> QED BY <2>1, <2>2, <2>3 DEF Tests
<1> HIDE DEF new
<1>3. /\ status'[new] = "running" /\ reader'[new] = "readline" /\ watcher'[new] = "wait"
      /\ \A p \in Tests : p # new =>
           status'[p] = status[p] /\ reader'[p] = reader[p] /\ watcher'[p] = watcher[p]
  BY <1>1, <1>2 DEF StationInv, StationTypeOK
<1>4. StationTypeOK'
  <2>1. /\ status' \in [Tests -> {"none", "running", "exited"}]
        /\ reader' \in [Tests -> {"none", "readline", "done"}]
        /\ watcher' \in [Tests -> {"none", "wait", "flag", "line", "clear", "done"}]
    BY <1>1 DEF StationInv, StationTypeOK
  <2>2. doomed' \subseteq 1..launched' /\ launched' \in 0..MaxLaunches /\ process' \in {None, launched'}
    BY <1>1, <1>2 DEF StationInv, StationTypeOK, new
  <2> QED BY <1>1, <2>1, <2>2 DEF StationInv, StationTypeOK
<1>5. Launched'
  <2>1. ~(new > new)
    BY <1>2
  <2> QED BY <1>1, <1>2, <1>3, <2>1 DEF StationInv, Launched
<1>6. Alone'
  <2> SUFFICES ASSUME ~overlap PROVE Alone'
    BY <1>1 DEF Alone
  <2>1. ~stop /\ \A p \in 1..launched : status[p] = "exited" /\ watcher[p] = "done"
    BY <1>1 DEF StationInv, Alone
  <2>2. \A p \in Tests : p < new => p \in 1..launched /\ p # new
    BY <1>2 DEF Tests
  <2>3. \A p \in Tests : status'[p] = "running" => p = new
    <3>1. \A p \in Tests : p > launched => status[p] = "none"
      BY DEF StationInv, Launched
    <3>2. \A p \in Tests : p > launched \/ p \in 1..launched
      BY <1>2 DEF Tests
    <3> QED BY <1>3, <2>1, <3>1, <3>2
  <2> QED BY <1>1, <1>3, <2>1, <2>2, <2>3 DEF StationInv, Alone
<1>7. Piped' /\ Followed' /\ ShownWithoutGaps'
  <2>1. reader[new] # "done"
    <3>1. reader[new] = "none"
      BY <1>2 DEF StationInv, Launched, Tests, new
    <3> QED BY <3>1
  <2>2. \A p \in Tests : reader'[p] # "done" => reader[p] # "done"
    BY <1>3, <2>1
  <2> QED BY <1>1, <2>2, NothingShown DEF Shown
<1> QED BY <1>4, <1>5, <1>6, <1>7 DEF StationInv

(* The operator stops the test that is under way.                          *)
LEMMA StopTestStep == ASSUME StationInv, stop_test PROVE StationInv'
<1>1. /\ page = "stop"
      /\ IF process = None THEN page' = "top" /\ UNCHANGED <<stop, doomed>>
         ELSE page' = "stopping" /\ stop' = TRUE /\ doomed' = doomed \cup {process}
      /\ UNCHANGED <<process, queue, log, visible, launched, status, printed, pipe, broken,
                     reader, watcher, clicks, overlap>>
  BY DEF stop_test
<1>2. Piped' /\ Followed' /\ ShownWithoutGaps'
  BY <1>1, NothingShown DEF Shown
<1>3. CASE process = None
  <2>1. page' = "top" /\ UNCHANGED <<stop, doomed>>
    BY <1>1, <1>3
  <2>2. StationTypeOK' /\ Launched' /\ Alone'
    BY <1>1, <2>1 DEF StationInv, StationTypeOK, Launched, Alone
  <2> QED BY <1>2, <2>2 DEF StationInv
<1>4. CASE process # None
  <2>1. /\ page' = "stopping" /\ stop' = TRUE /\ doomed' = doomed \cup {process}
        /\ process = launched /\ launched \in 1..launched
    BY <1>1, <1>4 DEF StationInv, StationTypeOK, None
  <2>2. StationTypeOK' /\ Launched'
    BY <1>1, <2>1 DEF StationInv, StationTypeOK, Launched
  <2>3. Alone'
    <3>1. ~overlap => \A p \in Tests : status[p] = "running" => p = launched
      BY DEF StationInv, StationTypeOK, Launched, Alone, Tests
    <3> QED BY <1>1, <2>1, <3>1 DEF StationInv, Alone
  <2> QED BY <1>2, <2>2, <2>3 DEF StationInv
<1> QED BY <1>3, <1>4

(* The test it has stopped is the newest one.                              *)
LEMMA StopTestEndStep == ASSUME StationInv, stop_test_end PROVE StationInv'
<1>1. /\ page = "stopping" /\ status' = [status EXCEPT ![Killed] = "exited"]
      /\ process' = None /\ page' = "top"
      /\ UNCHANGED <<stop, queue, log, visible, launched, doomed, printed, pipe, broken,
                     reader, watcher, clicks, overlap>>
  BY DEF stop_test_end
<1>2. Killed = launched /\ launched \in Tests /\ launched \in 1..launched
  <2>1. launched \in doomed /\ doomed \subseteq 1..launched /\ launched \in Nat
    BY <1>1, Numbers DEF StationInv, Launched, StationTypeOK
  <2>2. \A p \in doomed : p \in Nat /\ p <= launched
    BY <2>1
  <2>3. ASSUME NEW p \in doomed PROVE (\A q \in doomed : q <= p) <=> p = launched
    BY <2>1, <2>2
  <2>4. Killed \in doomed /\ \A q \in doomed : q <= Killed
    BY <2>1, <2>3 DEF Killed
  <2>5. Killed = launched
    BY <2>3, <2>4
  <2> QED BY <2>1, <2>5, Numbers
<1>3. /\ status'[launched] = "exited" /\ \A p \in Tests : p # launched => status'[p] = status[p]
      /\ status' \in [Tests -> {"none", "running", "exited"}]
  BY <1>1, <1>2 DEF StationInv, StationTypeOK
<1>4. StationTypeOK'
  BY <1>1, <1>3 DEF StationInv, StationTypeOK
<1>5. Launched'
  BY <1>1, <1>2, <1>3 DEF StationInv, Launched
<1>6. Alone'
  <2> SUFFICES ASSUME ~overlap PROVE Alone'
    BY <1>1 DEF Alone
  <2>1. \A p \in Tests : status'[p] # "running"
    BY <1>2, <1>3 DEF StationInv, StationTypeOK, Launched, Alone, Tests
  <2>2. \A p \in Tests : p < launched => status'[p] = "exited" /\ watcher[p] = "done"
    BY <1>2, <1>3 DEF StationInv, Alone, Tests
  <2> QED BY <1>1, <2>1, <2>2 DEF StationInv, Alone
<1>7. Piped' /\ Followed' /\ ShownWithoutGaps'
  BY <1>1, NothingShown DEF Shown
<1> QED BY <1>4, <1>5, <1>6, <1>7 DEF StationInv

(* A line that has come moves from the queue to the log.                   *)
LEMMA DrainStep == ASSUME StationInv, drain PROVE StationInv'
<1>1. /\ page' \in {"top", "poll"}
      /\ \/ queue # <<>> /\ log' = Append(log, Head(queue)) /\ queue' = Tail(queue)
         \/ log' = log /\ queue' = queue
      /\ UNCHANGED <<process, stop, visible, launched, status, doomed, printed, pipe, broken,
                     reader, watcher, clicks, overlap>>
  BY DEF drain, procVars
<1>2. log' \in Seq(Lines) /\ queue' \in Seq(Lines) /\ log' \o queue' = log \o queue
  <2>1. log \in Seq(Lines) /\ queue \in Seq(Lines)
    BY DEF StationInv, StationTypeOK
  <2>2. CASE queue # <<>> /\ log' = Append(log, Head(queue)) /\ queue' = Tail(queue)
    BY <2>1, <2>2
  <2>3. CASE log' = log /\ queue' = queue
    BY <2>1, <2>3
  <2> QED BY <1>1, <2>2, <2>3
<1>3. StationTypeOK' /\ Launched' /\ Alone'
  BY <1>1, <1>2 DEF StationInv, StationTypeOK, Launched, Alone
<1>4. Piped' /\ Followed' /\ ShownWithoutGaps'
  BY <1>1, <1>2, NothingShown DEF Shown
<1> QED BY <1>3, <1>4 DEF StationInv

(* The page notices that the test has ended.                               *)
LEMMA PollStep == ASSUME StationInv, poll PROVE StationInv'
<1>1. /\ page = "poll" /\ page' \in {"idle", "top"}
      /\ \/ UNCHANGED <<process, stop>>
         \/ process # None /\ status[process] = "exited" /\ process' = None /\ stop' = TRUE
      /\ UNCHANGED <<queue, log, visible, launched, status, doomed, printed, pipe, broken,
                     reader, watcher, clicks, overlap>>
  BY DEF poll, procVars
<1>2. StationTypeOK' /\ Launched'
  BY <1>1 DEF StationInv, StationTypeOK, Launched
<1>3. Alone'
  <2>1. CASE UNCHANGED <<process, stop>>
    BY <1>1, <2>1 DEF StationInv, Alone
  <2>2. CASE process # None /\ status[process] = "exited" /\ process' = None /\ stop' = TRUE
    <3>1. process = launched /\ status[launched] = "exited"
      BY <2>2 DEF StationInv, StationTypeOK
    <3>2. ~overlap => \A p \in Tests : status[p] # "running"
      BY <3>1 DEF StationInv, StationTypeOK, Launched, Alone, Tests
    <3> QED BY <1>1, <3>2 DEF StationInv, Alone
  <2> QED BY <1>1, <2>1, <2>2
<1>4. Piped' /\ Followed' /\ ShownWithoutGaps'
  BY <1>1, NothingShown DEF Shown
<1> QED BY <1>2, <1>3, <1>4 DEF StationInv

(* A test prints: the line goes into its pipe.                             *)
LEMMA PrintLineStep ==
  ASSUME StationInv, NEW p \in Tests, PrintLine(p)
  PROVE StationInv'
<1>1. /\ status[p] = "running"
      /\ printed' = [printed EXCEPT ![p] = printed[p] + 1]
      /\ pipe' = [pipe EXCEPT ![p] = Append(pipe[p], Line(p, printed[p] + 1))]
      /\ UNCHANGED <<page, process, stop, queue, log, visible, launched, status, doomed, broken,
                     reader, watcher, clicks, overlap>>
  BY DEF PrintLine, session
<1>2. /\ printed[p] \in Nat /\ pipe[p] \in Seq(Lines) /\ Line(p, printed[p] + 1) \in Lines
      /\ ~(p > launched)
  BY <1>1 DEF StationInv, StationTypeOK, Launched, Lines, Line
<1>3. /\ printed'[p] = printed[p] + 1 /\ pipe'[p] = Append(pipe[p], Line(p, printed[p] + 1))
      /\ \A q \in Tests : q # p => printed'[q] = printed[q] /\ pipe'[q] = pipe[q]
  BY <1>1 DEF StationInv, StationTypeOK
<1>4. /\ Len(pipe[p]) \in Nat /\ Len(pipe'[p]) = Len(pipe[p]) + 1
      /\ \A i \in 1..Len(pipe[p]) : pipe'[p][i] = pipe[p][i]
      /\ pipe'[p][Len(pipe[p]) + 1] = Line(p, printed[p] + 1)
  BY <1>2, <1>3
<1>5. \A q \in Tests : Taken(q)' = Taken(q)
  <2>1. Taken(p)' = Taken(p)
    <3>1. PICK n : n = printed[p]
      OBVIOUS
    <3>2. PICK m : m = Len(pipe[p])
      OBVIOUS
    <3>3. n \in Nat /\ m \in Nat /\ printed'[p] = n + 1 /\ Len(pipe'[p]) = m + 1
      BY <1>2, <1>3, <1>4, <3>1, <3>2
    <3>4. (n + 1) - (m + 1) = n - m
      BY <3>3
    <3>5. Taken(p) = n - m /\ Taken(p)' = (n + 1) - (m + 1)
      BY <3>1, <3>2, <3>3 DEF Taken
    <3> QED BY <3>4, <3>5
  <2>2. \A q \in Tests : q # p => Taken(q)' = Taken(q)
    BY <1>3 DEF Taken
  <2> QED BY <2>1, <2>2
<1>6. StationTypeOK'
  <2>1. printed' \in [Tests -> Nat] /\ pipe' \in [Tests -> Seq(Lines)]
    BY <1>1, <1>2 DEF StationInv, StationTypeOK
  <2> QED BY <1>1, <2>1 DEF StationInv, StationTypeOK
<1>7. Launched' /\ Alone'
  BY <1>1, <1>2, <1>3 DEF StationInv, Launched, Alone
<1>8. Piped'
  <2> SUFFICES ASSUME NEW q \in Tests
      PROVE Taken(q)' \in Nat /\ \A i \in 1..Len(pipe'[q]) : pipe'[q][i] = Line(q, Taken(q)' + i)
    BY DEF Piped
  <2>1. Taken(q) \in Nat /\ \A i \in 1..Len(pipe[q]) : pipe[q][i] = Line(q, Taken(q) + i)
    BY DEF StationInv, Piped
  <2>2. CASE q = p
    <3>1. Taken(p) + (Len(pipe[p]) + 1) = printed[p] + 1
      BY <1>2, <1>4 DEF Taken
    <3>2. \A i \in 1..Len(pipe'[p]) : i \in 1..Len(pipe[p]) \/ i = Len(pipe[p]) + 1
      BY <1>4
    <3> QED BY <1>4, <1>5, <2>1, <2>2, <3>1, <3>2
  <2>3. CASE q # p
    BY <1>3, <1>5, <2>1, <2>3
  <2> QED BY <2>2, <2>3
<1>9. Followed' /\ ShownWithoutGaps'
  <2>1. Shown' = Shown
    BY <1>1 DEF Shown
  <2> QED BY <1>1, <1>5, <2>1 DEF StationInv, Followed, ShownWithoutGaps, OutputOf
<1> QED BY <1>6, <1>7, <1>8, <1>9 DEF StationInv

(* A test ends.  If it ends of a closed pipe, it was to be stopped.        *)
LEMMA ProcessEndStep ==
  ASSUME StationInv, NEW p \in Tests, ProcessEnd(p)
  PROVE StationInv'
<1>1. /\ status[p] = "running" /\ status' = [status EXCEPT ![p] = "exited"]
      /\ broken' = IF reader[p] = "done" THEN broken \cup {p} ELSE broken
      /\ UNCHANGED <<page, process, stop, queue, log, visible, launched, doomed, printed, pipe,
                     reader, watcher, clicks, overlap>>
  BY DEF ProcessEnd, Closed, session
<1>2. /\ status'[p] = "exited" /\ \A q \in Tests : q # p => status'[q] = status[q]
      /\ status' \in [Tests -> {"none", "running", "exited"}]
  BY <1>1 DEF StationInv, StationTypeOK
<1>3. StationTypeOK'
  BY <1>1, <1>2 DEF StationInv, StationTypeOK
<1>4. Launched'
  BY <1>1, <1>2 DEF StationInv, Launched
<1>5. Alone'
  <2> SUFFICES ASSUME ~overlap PROVE Alone'
    BY <1>1 DEF Alone
  <2>1. broken' \subseteq doomed
    BY <1>1 DEF StationInv, Alone
  <2>2. \A q \in Tests : status'[q] = "running" => status[q] = "running"
    BY <1>1, <1>2
  <2>3. \A q \in Tests : status[q] = "exited" => status'[q] = "exited"
    BY <1>1, <1>2
  <2>4. \A q \in 1..launched : q \in Tests
    BY Numbers
  <2> QED BY <1>1, <2>1, <2>2, <2>3, <2>4 DEF StationInv, Alone
<1>6. Piped' /\ Followed' /\ ShownWithoutGaps'
  BY <1>1, NothingShown DEF Shown
<1> QED BY <1>3, <1>4, <1>5, <1>6 DEF StationInv

(* A reader takes the oldest line of its pipe.                             *)
LEMMA LineTaken ==
  ASSUME StationInv, NEW p \in Tests, pipe[p] # <<>>,
         pipe' = [pipe EXCEPT ![p] = Tail(pipe[p])], UNCHANGED printed
  PROVE /\ pipe' \in [Tests -> Seq(Lines)] /\ Piped'
        /\ Head(pipe[p]) \in Lines /\ Head(pipe[p]) = Line(p, Taken(p) + 1)
        /\ Taken(p)' = Taken(p) + 1 /\ \A q \in Tests : q # p => Taken(q)' = Taken(q)
<1>1. pipe[p] \in Seq(Lines) /\ printed[p] \in Nat /\ Taken(p) \in Nat
  BY DEF StationInv, StationTypeOK, Piped
<1>2. /\ Len(pipe[p]) \in Nat /\ Len(pipe[p]) >= 1 /\ Tail(pipe[p]) \in Seq(Lines)
      /\ Head(pipe[p]) = pipe[p][1] /\ Head(pipe[p]) \in Lines /\ 1 \in 1..Len(pipe[p])
      /\ Len(Tail(pipe[p])) = Len(pipe[p]) - 1
      /\ \A i \in 1..Len(Tail(pipe[p])) : Tail(pipe[p])[i] = pipe[p][i + 1] /\ i + 1 \in 1..Len(pipe[p])
  BY <1>1
<1>3. /\ pipe'[p] = Tail(pipe[p]) /\ \A q \in Tests : q # p => pipe'[q] = pipe[q]
      /\ pipe' \in [Tests -> Seq(Lines)]
  BY <1>2 DEF StationInv, StationTypeOK
<1>4. \A i \in 1..Len(pipe[p]) : pipe[p][i] = Line(p, Taken(p) + i)
  BY DEF StationInv, Piped
<1>5. Taken(p)' = Taken(p) + 1 /\ \A q \in Tests : q # p => Taken(q)' = Taken(q)
  BY <1>1, <1>2, <1>3 DEF Taken
<1>6. \A i \in 1..Len(pipe'[p]) : pipe'[p][i] = Line(p, Taken(p)' + i)
  <2> SUFFICES ASSUME NEW i \in 1..Len(pipe'[p]) PROVE pipe'[p][i] = Line(p, Taken(p)' + i)
    OBVIOUS
  <2>1. pipe'[p][i] = Line(p, Taken(p) + (i + 1))
    BY <1>2, <1>3, <1>4
  <2>2. Taken(p) + (i + 1) = Taken(p)' + i
    BY <1>1, <1>5
  <2> QED BY <2>1, <2>2
<1>7. Piped'
  <2> SUFFICES ASSUME NEW q \in Tests
      PROVE Taken(q)' \in Nat /\ \A i \in 1..Len(pipe'[q]) : pipe'[q][i] = Line(q, Taken(q)' + i)
    BY DEF Piped
  <2>1. CASE q = p
    BY <1>1, <1>5, <1>6, <2>1
  <2>2. CASE q # p
    BY <1>3, <1>5, <2>2 DEF StationInv, Piped
  <2> QED BY <2>1, <2>2
<1> QED BY <1>2, <1>3, <1>4, <1>5, <1>7

(* The reader ends, or its line is the next to be shown.                   *)
LEMMA StreamStep ==
  ASSUME StationInv, NEW p \in Tests, stream_process_output(p)
  PROVE StationInv'
<1>1. /\ reader[p] = "readline"
      /\ \/ pipe[p] # <<>> /\ EndOrPut(p)
         \/ /\ pipe[p] = <<>> /\ status[p] = "exited"
            /\ reader' = [reader EXCEPT ![p] = "done"] /\ UNCHANGED <<pipe, queue>>
      /\ UNCHANGED <<page, process, stop, log, visible, launched, status, doomed, printed, broken,
                     watcher, clicks, overlap>>
  BY DEF stream_process_output
<1>2. ~(p > launched)
  BY <1>1 DEF StationInv, Launched
<1>3. ASSUME reader' = [reader EXCEPT ![p] = "done"], status[p] = "running" => stop
      PROVE /\ reader' \in [Tests -> {"none", "readline", "done"}] /\ Alone'
            /\ \A q \in Tests : reader'[q] = "none" <=> q > launched
            /\ \A q \in Tests : reader'[q] # "done" => q # p /\ reader[q] # "done"
  <2>1. /\ reader' \in [Tests -> {"none", "readline", "done"}]
        /\ reader'[p] = "done" /\ \A q \in Tests : q # p => reader'[q] = reader[q]
    BY <1>3 DEF StationInv, StationTypeOK
  <2>2. Alone'
    BY <1>1, <1>3, <2>1 DEF StationInv, Alone
  <2>3. \A q \in Tests : reader'[q] = "none" <=> q > launched
    BY <1>2, <2>1 DEF StationInv, Launched
  <2> QED BY <2>1, <2>2, <2>3
<1>4. CASE pipe[p] # <<>> /\ EndOrPut(p)
  <2>1. pipe' = [pipe EXCEPT ![p] = Tail(pipe[p])] /\ printed' = printed
    BY <1>1, <1>4 DEF EndOrPut
  <2>2. /\ pipe' \in [Tests -> Seq(Lines)] /\ Piped'
        /\ Head(pipe[p]) \in Lines /\ Head(pipe[p]) = Line(p, Taken(p) + 1)
        /\ Taken(p)' = Taken(p) + 1 /\ \A q \in Tests : q # p => Taken(q)' = Taken(q)
    BY <1>4, <2>1, LineTaken
  <2>3. \A q \in Tests : q # p => pipe'[q] = pipe[q]
    BY <2>1 DEF StationInv, StationTypeOK
  <2>4. CASE stop
    <3>1. reader' = [reader EXCEPT ![p] = "done"] /\ queue' = queue
      BY <1>4, <2>4 DEF EndOrPut
    <3>2. StationTypeOK'
      BY <1>1, <1>3, <2>2, <2>4, <3>1 DEF StationInv, StationTypeOK
    <3>3. Launched' /\ Alone'
      BY <1>1, <1>2, <1>3, <2>3, <2>4, <3>1 DEF StationInv, Launched
    <3>4. Shown' = Shown
      BY <1>1, <3>1 DEF Shown
    <3>5. \A q \in Tests : reader'[q] # "done" => reader[q] # "done" /\ Taken(q)' = Taken(q)
      BY <1>3, <2>2, <2>4, <3>1
    <3>6. Followed'
      BY <3>4, <3>5 DEF StationInv, Followed, OutputOf
    <3>7. ShownWithoutGaps'
      BY <3>4 DEF StationInv, ShownWithoutGaps, OutputOf
    <3> QED BY <2>2, <3>2, <3>3, <3>6, <3>7 DEF StationInv
  <2>5. CASE ~stop
    <3>1. queue' = Append(queue, Head(pipe[p])) /\ reader' = reader
      BY <1>4, <2>5 DEF EndOrPut
    <3>2. queue' \in Seq(Lines)
      BY <2>2, <3>1 DEF StationInv, StationTypeOK
    <3>3. StationTypeOK'
      BY <1>1, <2>2, <3>1, <3>2 DEF StationInv, StationTypeOK
    <3>4. Launched' /\ Alone'
      BY <1>1, <1>2, <2>3, <3>1 DEF StationInv, Launched, Alone
    <3>5. Shown' = Append(Shown, Head(pipe[p]))
      BY <1>1, <2>2, <3>1, ConcatAppend DEF StationInv, StationTypeOK, Shown
    <3>6. \A q \in Tests : Taken(q)' = Taken(q) + (IF Head(pipe[p]) = Line(q, Taken(q) + 1) THEN 1 ELSE 0)
      <4> SUFFICES ASSUME NEW q \in Tests
          PROVE Taken(q)' = Taken(q) + (IF Head(pipe[p]) = Line(q, Taken(q) + 1) THEN 1 ELSE 0)
        OBVIOUS
      <4>1. Taken(q) \in Nat
        BY DEF StationInv, Piped
      <4>2. CASE q = p
        BY <2>2, <4>1, <4>2
      <4>3. CASE q # p
        <5>1. Head(pipe[p]) # Line(q, Taken(q) + 1)
          BY <2>2, <4>3 DEF Line
        <5> QED BY <2>2, <4>1, <4>3, <5>1
      <4> QED BY <4>2, <4>3
    <3>7. Head(pipe[p]).proc = p /\ Head(pipe[p]).line = Taken(p) + 1
      BY <2>2 DEF Line
    <3>8. reader[p] # "done"
      BY <1>1
    <3>9. PICK e \in Lines : e = Head(pipe[p])
      BY <2>2
    <3>10. Shown' = Append(Shown, e) /\ e.proc = p /\ e.line = Taken(p) + 1
      BY <3>5, <3>7, <3>9
    <3>11. \A q \in Tests : reader'[q] # "done" =>
             reader[q] # "done" /\ Taken(q)' = Taken(q) + (IF e = Line(q, Taken(q) + 1) THEN 1 ELSE 0)
      BY <3>1, <3>6, <3>9
    <3>12. e.line # Exit => reader[e.proc] # "done" /\ e.line = Taken(e.proc) + 1
      BY <3>8, <3>10
    <3>13. Piped'
      BY <2>2
    <3>14. Followed' /\ ShownWithoutGaps'
      BY <3>9, <3>10, <3>11, <3>12, <3>13, LineShown
    <3> QED BY <2>2, <3>3, <3>4, <3>14 DEF StationInv
  <2> QED BY <2>4, <2>5
<1>5. CASE /\ pipe[p] = <<>> /\ status[p] = "exited"
           /\ reader' = [reader EXCEPT ![p] = "done"] /\ UNCHANGED <<pipe, queue>>
  <2>1. /\ reader' \in [Tests -> {"none", "readline", "done"}] /\ Alone'
        /\ \A q \in Tests : reader'[q] = "none" <=> q > launched
        /\ \A q \in Tests : reader'[q] # "done" => q # p /\ reader[q] # "done"
    BY <1>3, <1>5
  <2>2. StationTypeOK'
    BY <1>1, <1>5, <2>1 DEF StationInv, StationTypeOK
  <2>3. Launched'
    BY <1>1, <1>5, <2>1 DEF StationInv, Launched
  <2>4. Piped' /\ Followed' /\ ShownWithoutGaps'
    BY <1>1, <1>5, <2>1, NothingShown DEF Shown
  <2> QED BY <2>1, <2>2, <2>3, <2>4 DEF StationInv
<1> QED BY <1>1, <1>4, <1>5

(* The watcher of the newest test is the only one that can move without an *)
(* overlap, and its test has ended before it sets a flag or clears what it *)
(* shares with the page.                                                   *)
LEMMA WatcherStep ==
  ASSUME StationInv, NEW p \in Tests, watch_and_finalize(p)
  PROVE StationInv'
<1>1. /\ watcher[p] \in {"wait", "flag", "line", "clear"} /\ status[p] = "exited"
      /\ \E to \in {"flag", "line", "clear", "done"} : watcher' = [watcher EXCEPT ![p] = to]
      /\ \/ UNCHANGED <<stop, queue, process>>
         \/ stop' = TRUE /\ UNCHANGED <<queue, process>>
         \/ queue' = Append(queue, Line(p, Exit)) /\ UNCHANGED <<stop, process>>
         \/ process' = None /\ UNCHANGED <<stop, queue>>
      /\ UNCHANGED <<page, log, visible, launched, status, doomed, printed, pipe, broken,
                     reader, clicks, overlap>>
  BY DEF watch_and_finalize, WatcherAt, procVars, StationInv, Launched
<1>2. /\ watcher' \in [Tests -> {"none", "wait", "flag", "line", "clear", "done"}]
      /\ watcher'[p] \in {"flag", "line", "clear", "done"}
      /\ \A q \in Tests : q # p => watcher'[q] = watcher[q]
  BY <1>1 DEF StationInv, StationTypeOK
<1>3. ~(p > launched) /\ p \in 1..launched
  BY <1>1, Numbers DEF StationInv, Launched
<1>4. Line(p, Exit) \in Lines /\ Line(p, Exit).line = Exit
  BY DEF Lines, Line, Exit
<1>5. StationTypeOK'
  <2>1. queue' \in Seq(Lines)
    <3>1. queue \in Seq(Lines) /\ Append(queue, Line(p, Exit)) \in Seq(Lines)
      BY <1>4 DEF StationInv, StationTypeOK
    <3>2. queue' \in {queue, Append(queue, Line(p, Exit))}
      BY <1>1
    <3> QED BY <3>1, <3>2
  <2>2. process' \in {None, launched'} /\ stop' \in BOOLEAN
    BY <1>1 DEF StationInv, StationTypeOK
  <2> QED BY <1>1, <1>2, <2>1, <2>2 DEF StationInv, StationTypeOK
<1>6. Launched'
  BY <1>1, <1>2, <1>3 DEF StationInv, Launched
<1>7. Alone'
  <2> SUFFICES ASSUME ~overlap PROVE Alone'
    BY <1>1 DEF Alone
  <2>1. ~(p < launched)
    BY <1>1 DEF StationInv, Alone
  <2>2. \A q \in Tests : status[q] # "running"
    <3>1. \A q \in Tests : q > launched \/ q = p \/ q < launched
      BY <1>3, <2>1, Numbers
    <3> QED BY <1>1, <3>1 DEF StationInv, Launched, Alone
  <2>3. page # "spawn"
    BY <1>1, <1>3 DEF StationInv, Alone
  <2>4. \A q \in Tests : q < launched => status[q] = "exited" /\ watcher'[q] = "done"
    BY <1>2, <2>1 DEF StationInv, Alone
  <2> QED BY <1>1, <2>2, <2>3, <2>4 DEF StationInv, Alone
<1>8. Piped' /\ Followed' /\ ShownWithoutGaps'
  <2>1. CASE queue' = queue
    BY <1>1, <2>1, NothingShown DEF Shown
  <2>2. CASE queue' = Append(queue, Line(p, Exit))
    <3>1. Shown' = Append(Shown, Line(p, Exit))
      BY <1>1, <1>4, <2>2, ConcatAppend DEF StationInv, StationTypeOK, Shown
    <3>2. Piped'
      BY <1>1 DEF StationInv, Piped, Taken
    <3>3. \A q \in Tests : Taken(q)' = Taken(q) + (IF Line(p, Exit) = Line(q, Taken(q) + 1) THEN 1 ELSE 0)
      <4> SUFFICES ASSUME NEW q \in Tests
          PROVE Taken(q)' = Taken(q) + (IF Line(p, Exit) = Line(q, Taken(q) + 1) THEN 1 ELSE 0)
        OBVIOUS
      <4>1. Taken(q) \in Nat /\ Taken(q)' = Taken(q)
        BY <1>1 DEF StationInv, Piped, Taken
      <4>2. Exit # Taken(q) + 1
        BY <4>1 DEF Exit
      <4>3. Line(p, Exit) # Line(q, Taken(q) + 1)
        BY <4>2 DEF Line
      <4> QED BY <4>1, <4>3
    <3> QED BY <1>1, <1>4, <3>1, <3>2, <3>3, LineShown
  <2> QED BY <1>1, <2>1, <2>2
<1> QED BY <1>5, <1>6, <1>7, <1>8 DEF StationInv

(* The session begins.                                                     *)
LEMMA StationInitHolds == StationInit => StationInv
<1> SUFFICES ASSUME StationInit PROVE StationInv
  OBVIOUS
<1>1. /\ launched = 0 /\ MaxLaunches \in Nat /\ log \o queue = <<>> /\ Len(<<>>) = 0
      /\ \A p \in Tests : p > launched
  BY StationAssumption DEF StationInit, Tests
<1>2. StationTypeOK
  <2>1. /\ launched \in 0..MaxLaunches /\ process \in {None, launched}
        /\ queue \in Seq(Lines) /\ log \in Seq(Lines)
    BY <1>1 DEF StationInit, None
  <2>2. printed \in [Tests -> Nat] /\ pipe \in [Tests -> Seq(Lines)]
    BY DEF StationInit
  <2>3. /\ status \in [Tests -> {"none", "running", "exited"}]
        /\ reader \in [Tests -> {"none", "readline", "done"}]
        /\ watcher \in [Tests -> {"none", "wait", "flag", "line", "clear", "done"}]
    BY DEF StationInit
  <2> QED BY <2>1, <2>2, <2>3 DEF StationTypeOK, StationInit
<1>3. Launched
  BY <1>1 DEF StationInit, Launched
<1>4. Alone
  <2>1. \A p \in Tests : ~(p < launched)
    BY <1>1 DEF Tests
  <2> QED BY <2>1 DEF StationInit, Alone
<1>5. Piped
  BY <1>1 DEF StationInit, Piped, Taken
<1>6. Followed /\ ShownWithoutGaps
  <2>1. 1..Len(Shown) = {}
    BY <1>1 DEF Shown
  <2> QED BY <2>1 DEF Followed, ShownWithoutGaps
<1> QED BY <1>2, <1>3, <1>4, <1>5, <1>6 DEF StationInv

(* Every step keeps the invariant.                                         *)
LEMMA StationNextKeeps == StationInv /\ [StationNext]_stationVars => StationInv'
<1> SUFFICES ASSUME StationInv, [StationNext]_stationVars PROVE StationInv'
  OBVIOUS
<1>1. ASSUME NEW p \in Tests,
             PrintLine(p) \/ ProcessEnd(p) \/ stream_process_output(p) \/ watch_and_finalize(p)
      PROVE StationInv'
  BY <1>1, PrintLineStep, ProcessEndStep, StreamStep, WatcherStep
<1>2. CASE UNCHANGED stationVars
  <2>1. UNCHANGED <<page, process, stop, queue, log, visible, launched, status, doomed, printed,
                    pipe, broken, reader, watcher, clicks, overlap>>
    BY <1>2 DEF stationVars, session, procVars
  <2>2. StationTypeOK' /\ Launched' /\ Alone'
    BY <2>1 DEF StationInv, StationTypeOK, Launched, Alone
  <2>3. Piped' /\ Followed' /\ ShownWithoutGaps'
    BY <2>1, NothingShown DEF Shown
  <2> QED BY <2>2, <2>3 DEF StationInv
<1> QED BY <1>1, <1>2, ClickStep, LaunchTestStep, SpawnStep, StopTestStep, StopTestEndStep,
           DrainStep, PollStep DEF StationNext, Page

(* The invariant holds in every state a session of the page can reach, for *)
(* any number of launches, lines and clicks.                               *)
THEOREM StationInvariance == StationSpec => []StationInv
<1> QED BY StationInitHolds, StationNextKeeps, PTL DEF StationSpec

(* launch_test, the threads and the page: unless a launch comes between    *)
(* the end of a test and that of its watcher, at most one test is on the   *)
(* bench, it is the one the page can stop, and none dies of a pipe closed  *)
(* on it but one the operator has stopped.                                 *)
THEOREM OneTest == StationSpec => []OneTestAtATime
<1>1. StationInv => OneTestAtATime
  <2> SUFFICES ASSUME StationInv, ~overlap PROVE OneTestAtATime
    BY DEF OneTestAtATime
  <2>1. \A p \in Running : p = launched /\ process = launched
    <3> SUFFICES ASSUME NEW p \in Tests, status[p] = "running"
        PROVE p = launched /\ process = launched
      BY DEF Running
    <3>1. process = launched /\ ~(p < launched)
      BY DEF StationInv, Alone
    <3>2. ~(p > launched)
      BY DEF StationInv, Launched
    <3> QED BY <3>1, <3>2, Numbers
  <2> QED BY <2>1 DEF StationInv, Alone, OneTestAtATime
<1> QED BY <1>1, StationInvariance, PTL

(* The queue between the threads and the page: what the page shows of a    *)
(* test is a piece of its output, in order and without gaps, whatever is   *)
(* launched, stopped and cleared in between.                               *)
THEOREM ShownInOrder == StationSpec => []ShownWithoutGaps
<1>1. StationInv => ShownWithoutGaps
  BY DEF StationInv
<1> QED BY <1>1, StationInvariance, PTL
===============================================================================
