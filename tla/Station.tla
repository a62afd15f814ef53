------------------------------- MODULE Station -------------------------------
(***************************************************************************)
(* The web page that launches test.py: frontend/test_app.py.  Four kinds   *)
(* of actors share the session state: the script of the page, which runs   *)
(* anew at every click and after st.rerun(), the test processes, and for   *)
(* each process a thread that reads its output and one that waits for its  *)
(* end.                                                                    *)
(***************************************************************************)
EXTENDS Integers, Sequences

CONSTANTS
  MaxLaunches,  \* bound: test processes in a session
  MaxLines,     \* lines a test prints when it is not interrupted
  MaxClicks     \* bound: clicks of the operator

ASSUME StationAssumption ==
  MaxLaunches \in Nat \ {0} /\ MaxLines \in Nat /\ MaxClicks \in Nat

Tests == 1..MaxLaunches
None == 0

VARIABLES
  page,      \* where the page's script is
  process,   \* st.session_state.process
  stop,      \* st.session_state.stop_flag["stop"]
  queue,     \* st.session_state.log_queue
  log,       \* st.session_state.log_text
  visible,   \* a thread sees the session state of the page
  launched,  \* processes launched so far
  status,    \* per process: not launched, running or exited
  doomed,    \* processes sent SIGTERM
  printed,   \* per process: lines printed
  pipe,      \* per process: lines in its pipe
  broken,    \* processes that met a closed pipe
  reader,    \* per process: where stream_process_output is
  watcher,   \* per process: where watch_and_finalize is
  clicks,
  overlap    \* history: a launch began before the watcher of an ended process ended

session == <<process, stop, queue, log>>
procVars == <<launched, status, doomed, printed, pipe, broken>>
stationVars == <<page, session, visible, procVars, reader, watcher, clicks, overlap>>

Line(p, n) == [proc |-> p, line |-> n]
Exit == 0       \* the watcher's last line

StationInit ==
  /\ page = "idle" /\ process = None /\ stop = FALSE /\ queue = <<>> /\ log = <<>>
  /\ visible \in BOOLEAN /\ launched = 0
  /\ status = [p \in Tests |-> "none"] /\ doomed = {} /\ printed = [p \in Tests |-> 0]
  /\ pipe = [p \in Tests |-> <<>>] /\ broken = {}
  /\ reader = [p \in Tests |-> "none"] /\ watcher = [p \in Tests |-> "none"]
  /\ clicks = 0 /\ overlap = FALSE

-------------------------------------------------------------------------------
(* The script of the page.                                                 *)

\* A click starts the script anew, wherever it is outside its two handlers;
\* one on another element only matters to a page at rest.
Click ==
  /\ page \in {"idle", "top", "poll"} /\ clicks < MaxClicks
  /\ clicks' = clicks + 1
  /\ page' \in {"start", "stop"} \cup (IF page = "idle" THEN {"top"} ELSE {})
  /\ UNCHANGED <<session, visible, procVars, reader, watcher, overlap>>

\* Mutant: the guard is gone.
MayLaunchAlways == launched < MaxLaunches

\* A test is launched if none is under way.
MayLaunch == process = None /\ launched < MaxLaunches

launch_test ==
  /\ page = "start"
  /\ \/ /\ MayLaunch /\ page' = "spawn" /\ stop' = FALSE /\ log' = <<>>
        /\ overlap' = (overlap \/ \E p \in 1..launched : status[p] = "exited" /\ watcher[p] # "done")
     \/ ~MayLaunch /\ page' = "top" /\ UNCHANGED <<stop, log, overlap>>
  /\ UNCHANGED <<process, queue, visible, procVars, reader, watcher, clicks>>

\* Popen, and the two threads.
spawn ==
  /\ page = "spawn"
  /\ LET p == launched + 1
     IN  /\ launched' = p /\ process' = p
         /\ status' = [status EXCEPT ![p] = "running"]
         /\ reader' = [reader EXCEPT ![p] = "readline"]
         /\ watcher' = [watcher EXCEPT ![p] = "wait"]
  /\ page' = "top"
  /\ UNCHANGED <<stop, queue, log, visible, doomed, printed, pipe, broken, clicks, overlap>>

stop_test ==
  /\ page = "stop"
  /\ IF process = None THEN page' = "top" /\ UNCHANGED <<stop, doomed>>
     ELSE page' = "stopping" /\ stop' = TRUE /\ doomed' = doomed \cup {process}
  /\ UNCHANGED <<process, queue, log, visible, launched, status, printed, pipe, broken,
                 reader, watcher, clicks, overlap>>

\* It ended within three seconds, or is killed.  proc is the only process
\* this session has asked to end and not seen off yet.
Killed == CHOOSE p \in doomed : \A q \in doomed : q <= p

stop_test_end ==
  /\ page = "stopping"
  /\ status' = [status EXCEPT ![Killed] = "exited"]
  /\ process' = None /\ page' = "top"
  /\ UNCHANGED <<stop, queue, log, visible, launched, doomed, printed, pipe, broken,
                 reader, watcher, clicks, overlap>>

\* Mutant: the newest lines come first.
drainNewestFirst ==
  /\ page = "top"
  /\ \/ queue # <<>> /\ log' = <<Head(queue)>> \o log /\ queue' = Tail(queue) /\ UNCHANGED page
     \/ queue = <<>> /\ page' = "poll" /\ UNCHANGED <<log, queue>>
  /\ UNCHANGED <<process, stop, visible, procVars, reader, watcher, clicks, overlap>>

\* The lines that have come are shown, one after the other, until there are
\* none; more may come meanwhile.
drain ==
  /\ page = "top"
  /\ \/ queue # <<>> /\ log' = Append(log, Head(queue)) /\ queue' = Tail(queue) /\ UNCHANGED page
     \/ queue = <<>> /\ page' = "poll" /\ UNCHANGED <<log, queue>>
  /\ UNCHANGED <<process, stop, visible, procVars, reader, watcher, clicks, overlap>>

\* Mutant: a process that has ended is not forgotten.
pollOnly ==
  /\ page = "poll"
  /\ page' = IF process = None THEN "idle" ELSE "top"
  /\ UNCHANGED <<session, visible, procVars, reader, watcher, clicks, overlap>>

\* The page runs again while the test is running, and only then.
poll ==
  /\ page = "poll"
  /\ \/ process = None /\ page' = "idle" /\ UNCHANGED <<process, stop>>
     \/ /\ process # None /\ status[process] = "running"
        /\ page' = "top" /\ UNCHANGED <<process, stop>>
     \/ /\ process # None /\ status[process] = "exited"
        /\ page' = "idle" /\ process' = None /\ stop' = TRUE
  /\ UNCHANGED <<queue, log, visible, procVars, reader, watcher, clicks, overlap>>

Page == launch_test \/ spawn \/ stop_test \/ stop_test_end \/ drain \/ poll

-------------------------------------------------------------------------------
(* A test process.                                                         *)

\* The reader closes its end of the pipe only when it returns.
Closed(p) == reader[p] = "done"

PrintLine(p) ==
  /\ status[p] = "running" /\ printed[p] < MaxLines /\ ~Closed(p)
  /\ printed' = [printed EXCEPT ![p] = @ + 1]
  /\ pipe' = [pipe EXCEPT ![p] = Append(@, Line(p, printed[p] + 1))]
  /\ UNCHANGED <<page, session, visible, launched, status, doomed, broken,
                 reader, watcher, clicks, overlap>>

\* It has printed all, was sent SIGTERM, or its print raises BrokenPipeError.
ProcessEnd(p) ==
  /\ status[p] = "running" /\ (printed[p] = MaxLines \/ p \in doomed \/ Closed(p))
  /\ status' = [status EXCEPT ![p] = "exited"]
  /\ broken' = IF Closed(p) THEN broken \cup {p} ELSE broken
  /\ UNCHANGED <<page, session, visible, launched, doomed, printed, pipe,
                 reader, watcher, clicks, overlap>>

-------------------------------------------------------------------------------
(* The threads of a process.                                               *)

\* With the flag set the reader ends, and what is left is never shown.
EndOrPut(p) ==
  /\ pipe' = [pipe EXCEPT ![p] = Tail(@)]
  /\ IF stop THEN reader' = [reader EXCEPT ![p] = "done"] /\ UNCHANGED queue
     ELSE queue' = Append(queue, Head(pipe[p])) /\ UNCHANGED reader

stream_process_output(p) ==
  /\ reader[p] = "readline"
  /\ \/ pipe[p] # <<>> /\ EndOrPut(p)
     \/ /\ pipe[p] = <<>> /\ status[p] = "exited"
        /\ reader' = [reader EXCEPT ![p] = "done"] /\ UNCHANGED <<pipe, queue>>
  /\ UNCHANGED <<page, process, stop, log, visible, launched, status, doomed, printed, broken,
                 watcher, clicks, overlap>>

WatcherAt(p, from, to) == watcher[p] = from /\ watcher' = [watcher EXCEPT ![p] = to]

\* In a thread without the page's context st.session_state is empty: the
\* attribute raises and the thread ends.
watch_and_finalize(p) ==
  /\ \/ /\ WatcherAt(p, "wait", "flag") /\ status[p] = "exited"
        /\ UNCHANGED <<stop, queue, process>>
     \/ /\ WatcherAt(p, "flag", IF visible THEN "line" ELSE "done")
        /\ stop' = TRUE /\ UNCHANGED <<queue, process>>
     \/ /\ WatcherAt(p, "line", "clear")
        /\ queue' = Append(queue, Line(p, Exit)) /\ UNCHANGED <<stop, process>>
     \/ /\ WatcherAt(p, "clear", "done")
        /\ process' = None /\ UNCHANGED <<stop, queue>>
  /\ UNCHANGED <<page, log, visible, procVars, reader, clicks, overlap>>

StationNext ==
  \/ Click \/ Page
  \/ \E p \in Tests :
       PrintLine(p) \/ ProcessEnd(p) \/ stream_process_output(p) \/ watch_and_finalize(p)

StationSpec == StationInit /\ [][StationNext]_stationVars

(* The script, the processes and the threads run; nobody has to click.     *)
FairStationSpec ==
  /\ StationSpec /\ WF_stationVars(Page)
  /\ \A p \in Tests : /\ WF_stationVars(PrintLine(p) \/ ProcessEnd(p))
                      /\ WF_stationVars(stream_process_output(p))
                      /\ WF_stationVars(watch_and_finalize(p))

-------------------------------------------------------------------------------
Running == {p \in Tests : status[p] = "running"}

(* As long as no launch began between the end of a process and that of its *)
(* watcher, the bench is never shared by two tests, the running test can   *)
(* be stopped, and no test dies of a pipe that was closed on it unless the *)
(* operator stopped it.                                                    *)
OneTestAtATime ==
  ~overlap => /\ \A p, q \in Running : p = q
              /\ \A p \in Running : process = p
              /\ broken \subseteq doomed

Shown == log \o queue
OutputOf(p, i) == Shown[i].proc = p /\ Shown[i].line # Exit

(* What is shown of a test is a piece of its output, in order and without  *)
(* gaps: what is lost, is lost at its end, or before the log was cleared.  *)
ShownWithoutGaps ==
  \A p \in Tests : \A i, j \in 1..Len(Shown) :
    i < j /\ OutputOf(p, i) /\ OutputOf(p, j) =>
      /\ Shown[i].line < Shown[j].line
      /\ \A n \in (Shown[i].line + 1)..(Shown[j].line - 1) :
           \E k \in i..j : Shown[k] = Line(p, n)

(* Once nobody clicks, the page stops running again and again.             *)
PageSettles == <>[](page = "idle")
===============================================================================
