# A TLA+ model of the Testbench Station

This directory models and checks the program that tests lighting nodes on a bench
(`src/test.py` and what it calls), with TLA+ modules, TLC configurations and TLAPS proofs.
Every definition is translated from the code; `PROJECT.json` maps it to the lines it stands
for. Line numbers below are those of `src/`.

## The system

An operator starts one process per node under test (`test.py`, or `frontend/test_app.py`
which starts the same process from a web page). The process talks to

- the **node** over CoAP/UDP (`services/coap_client.py`), found by asking every
  address of the subnet (`resources/network.py`, `services/coap_client_scan.py`), and over a
  serial console that is shared through a TCP server of its own (`node_serial_monitor.py`);
- the **test controller**, a microcontroller with relays, switches and a mux
  (`mht_node_test_controller/v3`), over a serial line with line-wise commands
  (`services/controller.py`);
- the **electronic load**, over VISA (`services/load_mach.py`);
- the **operator**, through dialogs (`frontend/prompt.py`);
- the **records**, CSV files it reads, checks for duplicates and writes back (`test.py:520-606`).

| component | state | operations | interacts with |
|---|---|---|---|
| test pipeline (`test.py`, `cli.py`, `context.py`) | `TestContext`, `final_pass`, open ports | `main`, `start`, the 18 steps of `runTest`, `stop` | everything below, called in sequence |
| records | rows of the CSV files | `write_to_csv`: read, check, truncate, write back | pipeline, other processes that write the same file |
| load test (`tests/load_test.py`, procedures, `load_mach.py`) | current relay, load on/off, verdicts | `test_loads`, `test_single_load`, `moving_power_check`, battery script | operator, controller, electronic load |
| controller console (`controller.py`) | list `lines` shared by two threads | receiver thread, `readLine`, `flushLines`, commands | firmware |
| mux (`mux.py`) | poll counter, last channel read | `set` | controller console, firmware |
| firmware v3 | command buffer, outputs | `loop`, `serialEvent`, one handler per command | serial line |
| serial monitor | client set and its lock, port handle, `running` | serial reader, broadcast, acceptor, client readers, operator input, `stop` | node console, client programs |
| monitor clients (`parse_monitor.py`, `rs485_module.py`, `occupancy_reader.py`) | a socket | `ensure_monitor_running`, `wait_for_response`, `shutdown_monitor` | serial monitor |
| CoAP client, actuator settings | saved `cccv`/`maxw` values, node's settings | `putValue`, `getValue`, `secure_setting`, `set_cccv`, `set_max_watt`, `set_dim`, `check_actuators` | node |
| node discovery | list of nodes that answered | `get_ip`, `coap_client_scan` | node, network |
| node tests (`tests/*`) | retry counters | sensor, wall switch, trigger, commission | CoAP client, controller |
| station UI (`frontend/test_app.py`) | process handle, stop flag, output queue | `launch_test`, `stop_test`, reader and watcher threads, page reruns | test process |
| devices, prompts | constants, answers | - | pipeline |
| console readers, present and earlier (`node_serial_monitor*.py`, `node_serial_read_only_monitor.py`, `node_terminal_*.py`) | lock file or TCP port, serial device | start, refuse, stop, crash | each other, the console |
| other legacy programs, firmware v1/v2 | - | - | superseded |

What is hard here: two threads share an unlocked list; a monitor holds a lock over a blocking
`sendall`; answers come after the caller stopped waiting; one mutable string carries a verdict
across eighteen steps, any of which may raise or end the process; saved values decide whether a
node is written again; a web page, a process and two threads share one session state; a file
is emptied before it is written back, by processes that may be killed and that do not know of
each other; programs guard one serial device with lock files that outlive them; a lost answer
hands the test to another node; and the operator's answers make every loop a protocol of its
own.
`PROJECT.json` lists the hazards by line, with the properties that cover them.

## Modules

| module | models | state and actions |
|---|---|---|
| `CsvRecords` | rows, the duplicate test and `write_to_csv` | operators only |
| `TestRun` | `main`, `start`, `runTest`, `stop`, the choice and writing of files, one process after another | `pc` and `step` are the place in the program; every block of `runTest` is an action named after it; `files` and the serial number stored in each node outlive a process |
| `TestRunProofs` | the theorems about `TestRun` | |
| `RecordStore` | what a file of `records/` promises: rows are added at the end, a crash costs the last rows only | abstract specification |
| `Records` | the same `write_to_csv` in several processes at once, each of which may be killed | a process reads, opens (which empties the file), flushes pieces of its buffer, closes; `file` is shared |
| `RecordsProofs` | the theorems about `Records`, with the refinement of `RecordStore` | |
| `LoadTest` | one call of `test_single_load` or `test_loads` | loop variables, relay, output of the load; one action per part of the call between two points where relay, output or verdict change |
| `LoadTestProofs` | the theorems about `LoadTest` | |
| `LineFifo` | what the console promises: a FIFO that may forget its oldest lines | abstract specification |
| `RxLines` | the list shared by receiver and main thread | one action per Python statement that touches the list, since the two threads interleave there |
| `MuxSet` | `mux.set`, `setMux`, `getMux`, the firmware's handlers, the serial line | host steps, firmware steps (each output bit on its own), `Receive`, `Lose` |
| `ConsoleProofs` | the theorems about `RxLines`, with the refinement of `LineFifo`, and about `MuxSet` | |
| `SerialMonitor` | all threads of `node_serial_monitor.py` and the programs connected to it | per thread a place; `lock` is held across steps only by broadcast, all other critical sections are single steps |
| `MonitorLaunch` | who reads the console: the monitor and `ensure_monitor_running`, and the lock files of three earlier programs | per process a place; the lock is a directory entry and a file; `told` and `Kill` end processes |
| `Discovery` | `get_ip` and `scan` | the address the scan is at, the nodes that answered; an answer comes or is lost |
| `DiscoveryProofs` | the theorems about `Discovery` | |
| `NodeSettings` | settings of the node: `before_load_relays`, `set_cccv`, `set_max_watt`, `set_dim`, `secure_setting`, `commission.run` | a list of settings still to make; PUT, its end or timeout, one action per value read back; the node serves, misses or never gets a command |
| `NodeSettingsProofs` | the theorems about `NodeSettings` | |
| `NodeTests` | sensor, wall switch and trigger tests | a test is a sequence of operations (before, put, command, sleep, check, push, after, restart), where `before` and `after` change and restore the sensor's settings; the firmware moves an input, the node reacts to the edge |
| `NodeProofs` | the theorems about `SerialMonitor` and `NodeTests` | |
| `Station` | `frontend/test_app.py` | the script of the page as a place, per process its pipe, reader and watcher; every access to the session state is a step |
| `LaunchProofs` | the theorems about `MonitorLaunch` and `Station` | |

`MC*` modules hold the instances. `RxLines` instantiates `LineFifo`, and `Records` instantiates
`RecordStore`, with a refinement mapping; `TestRun`, `Records` and `RecordStore` extend
`CsvRecords`, so that the duplicate test is the same in all three. The power that `LoadTest`
measures, and the result it returns, are a free choice of pass or fail in `TestRun`; `TestRun`'s `Raise` covers what `LoadTest` shows
to raise. `NodeSettings` and `NodeTests` do the same for the steps whose result `TestRun` leaves
open (cccv, maxw, commission, sensor1, pdline, trigger_1); `Station` launches what `TestRun`
models and only sees it print and end. `MonitorLaunch` ends where `SerialMonitor` begins: a
process that reads the console; `Discovery` decides the outcome that `TestRun` takes as found,
not found or raised.

### Choices of the models

- `TestRun`: what a step measures is a choice; raising is possible in every step except DC-IN,
  which is the only one guarded, and in `start` while the node is looked for and the electronic
  load is opened. The mini-node branches (rgbw, firmware upgrade) are
  unreachable: `CoreNode.name()` takes no argument and raises while arguments are parsed.
  `rs485_module.main` ends in `sys.exit`, so the RS485 step ends the process.
- `LoadTest`: power levels are 1 (too low), 2 (right), 3 (high); mean and median are computed as
  in the code. A load that is off reads 0. A measurement that pyvisa could not make has no
  average, and rounding it raises (`load_test.py:333`): the `error` outcome ends in `crashed`. So
  does a command of the electronic load that raises: nothing guards the writes in
  `load_mach.py:51-57`, neither those that set it nor those that switch its output. A switching
  command that raises has not switched (`refused`). So do the hooks of the supernode that raise,
  see below.
- `Records`: rows are equally long, the header and the `Extra` columns are left out, reading the
  file is one step. What a writer leaves where another one emptied the file is a hole. The
  machine does not lose power.
- `MonitorLaunch`: one kind of program at a time. A file and its name are two things: who has an
  open file goes on writing it after it was removed. Process ids are not used again. A
  second monitor of today beside a running one comes from a program that met nobody, not from the
  operator. Whether somebody listens and the launch that follows are two steps
  (`parse_monitor.py:38-62`), between which another program's monitor may come up.
  `node_serial_monitor_old.py` takes a lock only if it is started with `--lock`
  (`node_serial_monitor_old.py:42-46`, 111-112), which is off by default: each start of it is one
  with or without (`unlocked`). An `__EXIT__` may be lost (`missed`): `shutdown_monitor` swallows
  the error of a connection that was reset (`parse_monitor.py:115-119`), and the monitor takes it
  for a command if it arrives together with other data (`node_serial_monitor.py:128`).
- `Discovery`: each request has a socket of its own and waits a tenth of a second: its answer is
  in time or lost, never late. A serial number is its leading digits and the rest.
- `MuxSet`: the counter's period of 50 and limit of 200 are constants, 3 and 12 in the
  instances, with the same relation; the counter starts over long before the limit. That is an
  assumption of the module (`PeriodAssumption`), not only of its instances: with a period above
  the limit `set` would give up, and its next call could take an answer meant for the last one. An
  answer may be garbled so that it holds no number, and `int` raises (`controller.py:459`); one
  garbled into another channel's number is left out.
- `SerialMonitor`: TCP is in order and does not lose data, except that a close with unread data
  may reset the connection and drop what was sent before it. A client that closes takes what its
  socket held with it. A write to the port may raise on any handle: an adapter that was pulled
  out looks open until it is used.
- `NodeSettings`: the node serves requests in the order sent, since each waits for its answer or
  a timeout; a PUT may still be served after its timeout. A command to the group may miss an
  actuator; a read never reports a value the node does not have. A node that goes down stays
  down. Power and dim levels of the procedures are small numbers.
- `NodeTests`: the procedure is the classic one. A fixed wait (`sleep`) normally covers the
  command and the reaction; up to `MaxLate` waits do not. A PUT is served or lost at once: what a
  late PUT does is the subject of `NodeSettings`. An edge that reaches a node that is restarting
  is lost. `before_sensor_test` also writes `onpol` and `offpol` values that the code calls the
  defaults; they are left out, as they change nothing. `motdsbl` is written and restored, but what
  it does to the node's reactions is not modelled.
- `Station`: `visible` says whether a thread started by the page can read `st.session_state`.
  Streamlit gives a thread no script context unless one is attached, and then the attribute
  raises and the watcher ends; the code does not say which case holds, so both are checked. The
  queue is drained line by line, with the reader free to push in between. A
  click interrupts the script anywhere outside the two handlers.

## Runs

| run | instance | states | shows |
|---|---|---|---|
| `TestRun` | 13 launches, 2 units, 2 processes in a row | 3.5 M | `VerdictMatchesSteps`: `main`'s verdict is a pass exactly when every configured step ran and none failed. `FailFast`: with `stop_on_failure` no step has a result after a failure. `BatchOnlyEarned`, `StatusTruthful`, `OneRowPerUnit`: what the rows say |
| `TestRunStartFails` | 1 launch | - | violated `RecordedPassIsEarned`: a failed `start()` can be recorded as Pass |
| `LoadTest` | 14 scenarios, 4 windows, 2 retries | 70 k | `FullCoverage`: a passed call has measured every load on every output asked for, whichever load or output failed or was aborted on the way. `MinimumUnderLoad`, `OffOnlyAfterFailure`: what a measurement was made under. `NoHotSwitch`, `OutputOffAtEnd`: what was drawn while relays moved, and afterwards |
| `RxLines` | limit 2, 7 lines | 18 k | `Bounded`, `MainNeverRaises`, `DeadOnlyAfterBurst`, `NeverTwice`, `ImplementsFifo` |
| `MuxSet` | channels 3 and 4 (codes that differ in every bit), 3 calls, 2 lost commands, 3 late answers | 136 k | `ConfirmedIsSet`. `SetReturns`: a call ends, by returning or by raising on a garbled answer, unless its `set_mux` was lost; the limit of 200 polls is never what ends it |
| `SerialMonitor` | 2 clients, 2 chunks, any number of operator lines, sockets of 1 chunk | 619 k | `IterationStable`, `NothingMissed`, `ShutdownExits` |
| `Records` | 3 processes, 3 rows of which two are of one unit, an empty file and one with a row | 844 k | `HistoryKept`: without races and kills in the middle of a write no row is lost. `ImplementsStore`: races apart, the four steps act like `RecordStore`, kills at any point included |
| `MonitorLaunch` | 3 processes of each kind, the old monitor with or without `--lock`, 2 programs | 597 k | `SingleReader`: when two processes that lock read the console at once. `LockNamesOwner`, `StaleLockGivesWay`: the lock tells who runs, and that of a dead process keeps nobody out for long. `NothingLeftBehind`: which launched monitors go on when the programs are done |
| `Discovery` | nodes of 6 kinds at up to 3 addresses, one behind the range, 2 ranges | 208 k | `ScanExplained`: which node is found, and why none or another. `BystandersUntouched`: who is sent `update_db` |
| `NodeSettings` | 2 actuators, 4 plans, 2 writes, 2 requests lost, 2 late, 1 group command missed by some | 119 k | `SavedIsCurrent`: a saved value is what the node has. `MeasuredAsConfigured`: a load is measured with its own max watt. `CommissionedIsSet`, `Settles` |
| `NodeTests` | a good node and each node with one actuator deaf to one input; 3 plans | 622 k | `PassIsEarned`: a node with a defect fails. `GoodNodePasses`: a good one passes unless more is lost or late than its attempts cover. `SensorRestored`, `TestsEnd` |
| `Station` | 2 launches, 2 lines each, 3 clicks | 1.06 M | `OneTestAtATime`, `ShownWithoutGaps`, `PageSettles` |

Why the bounds are enough. Two processes are what it takes for a row to meet an older row, and
two units for one to hide the other. The steps of the pipeline are spread over several launches
because a step only reads what earlier steps left in `ctx`; each step occurs in one of them with
failing and passing steps before and after it. Three loads and two relays give each nested loop
a first, a middle and a last turn. A limit of two lines with seven lines overruns the list
several times around each flush and read. Two clients are needed for one to fail in the middle
of a broadcast to the other, and one more chunk than a socket holds for a send to block.
`secure_setting` writes 9 times and `push_btn_then_check_dim_loop` pushes 10 times; with 2 and 3
and the losses allowed, each loop is left by success at once, by success after a retry, and by
its limit. Two launches are needed for a thread of the first to meet the second. Of three
processes on one file two race while the third finds what they left, or one is killed, one meets the cut row
and one the lock or file after it. Three nodes put one meant node before another, with a
bystander between, before or behind them and the bench's own address in the range.

Deadlock is not checked where the system may really stop: `RxLines` (all lines sent and the
port closed), `MuxSet` (no more calls), `SerialMonitor` (the process has exited), `MonitorLaunch`
(every process is gone), `Station` (a session nobody clicks in).

### Fairness

- `MuxSet`: weak fairness of the host inside `set`, of the firmware and of the receiver
  thread: each is a loop that runs whenever it can. Nothing forces a call, a loss or a late answer.
- `SerialMonitor`: weak fairness of the main thread's steps (a read of the port ends after
  `serial_timeout`) and of the work and the timed wait of connected programs, without which a
  blocked `sendall` would never end. Nothing forces a connection, input, signal or fault.
- `MonitorLaunch`: weak fairness of each process's own steps. Nobody has to launch, tell or kill a
  process, and a program may stay connected.
- `NodeSettings`: weak fairness of the host, whose every wait is timed, and of a request being
  served or lost. Nothing forces a loss, a late answer or a node going down.
- `NodeTests`: weak fairness of the host, of the firmware's loop and of the node's reactions; not
  of a node coming up again.
- `Station`: weak fairness of the page's script, of each process (it prints on or ends) and of
  each thread. Nobody has to click.

### Disagreements the code has

The violation run shows one: the row of a run whose `start()` failed says Pass. Others are
reproduced by the models without a run of their own: the RS485 step ends the process before
either of its results is reported (`test.py:469-476`, `rs485_module.py:94-97`); in `set_sn` mode
the serial number written is the one read from the node (`test.py:173-174`, a mode
`context.py:85` calls unused); a `dc_in_test` that fails without raising passes its step.

- Load test: the output is switched on before the window (`load_test.py:309`) and off after a
  failed one (`load_test.py:256`), so that a retry measures a load that does not draw.
  Nor does a later relay of the same load, if that load may stay on: it is switched on once in a
  call (`load_test.py:316`), also when the window of an earlier relay has failed and switched it
  off. `OffOnlyAfterFailure` says that these are the only ways to, and that a failure of another
  load or call never is. After 'abort' `test_loads` goes on
  although `load_test.py:265` prints "Process ended."; after 'Cancel' in the battery script the
  standard sequence starts (`load_test.py:362`).
- Supernode: `before_load_sequence` gets the list of loads and asks it for `get`, so `loads`
  always raises before the first measurement; `before_load_output_off` multiplies readings it
  only compares with `None` (`supernode_procedure.py:124`), while a failed read is an empty
  string, and raises before the load is switched off. `OutputOffAtEnd` excludes that hook.
- Electronic load: a command that switches it off can itself raise (`load_mach.py:51-55`, called
  unguarded at `load_test.py:256`, 330 and 386), and what catches it only closes the connection
  (`test.py:518`): the load goes on drawing. `OutputOffAtEnd` excludes a call that ended with such
  a refused command.
- Mux: the counter starts over every 50 polls, so the limit of 200 in `mux.py:26-28` ("continuing
  anyway") is never reached and `set` polls forever when its command was lost.
- Console readers: the comment "Lock file (single instance)" (`node_terminal_check_running.py:19`)
  does not hold once a start was refused: the exit handler registered before the attempt removes
  the lock of the terminal that runs. A second monitor whose TCP port is taken goes on reading the
  console and hears no `__EXIT__`; one whose `__EXIT__` was lost goes on too, and the program
  that sent it is not told. The old monitor has no guard at all unless it is given `--lock`, so
  that two starts one after the other read the same console; `SingleReader` and
  `LockNamesOwner` speak of the programs that lock.
- Discovery: an empty serial number never ends the scan early but is found at the first node
  without one; a lost context answer gets a healthy bystander an `update_db`
  (`coap_client_scan.py:86-93`); a node whose answer has no `serialnum` raises in `scan`, although
  `get_ip` guards the same access; `set_sn` without digits finds nothing.
- Settings: `set_cccv` passes the number of actuators where the sentinel is expected, so it reads
  back the last actuator only (`actuators.py:46`, against `actuators.py:98` for max watt);
  `set_dim` never reads the last actuator (`actuators.py:135`), and its callers ignore what it
  returns (`sensor_test.py:31`, `wall_switch_test.py:42`). A set that failed half way leaves an
  older saved value in place, and a later load with that value is not set again
  (`classic_procedure.py:38`); `SavedIsCurrent` therefore excludes keys whose last set failed.
- Trigger test: `getValue` never raises, so the loop that waits for the node to come back ends at
  its first turn, and the comparison the code says is never true (`trigger_test.py:26`) is what
  fails a node that is still restarting. A node that has not gone down yet passes, and may go
  down during the sensor test and fail that; `GoodNodePasses` excludes runs with a restart.
- Station: the watcher's last line, pushed "so the UI shows completion" (`test_app.py:101-102`),
  may never be shown: the page drains the queue before it polls the process, and does not run
  again once the process is gone. Lines still in the pipe when the stop flag is set are lost. A
  launch that begins after the old process has ended and before its watcher has ends up with a
  reader that is stopped or a handle that is cleared; `OneTestAtATime` is stated for sessions
  without such an `overlap`.

## Proofs

What follows is proved for all values of the constants. The names of the conjuncts of each
inductive invariant are those of its module.

`TestRunProofs`, for every set of units, launches and number of runs:
`TypeCorrect`, `VerdictSound`, `BatchSound`, `StatusSound`, `UnitsRecordedOnce`,
`FailFastHolds`. The inductive invariant is `TypeOK /\ Control /\ Verdict /\ Recorded`.
`VerdictMatchesSteps` speaks of the end of a run only; to be inductive it needs to know what
holds on the way: which steps the position in `runTest` has left behind (`Control`), and that
`ctx.test_status` is 'Fail' exactly when a step of this run failed (`Verdict`). The statements
about records need the files still to be written to be among those the verdict allows
(`Recorded`). Assumptions: each launch has the type of a launch, the number of runs is a
natural number.

`RecordsProofs`, for any number of processes, any rows and any file before them:
`HistoryIsKept` and `Refinement` (`Records` implements `RecordStore`). The inductive invariant is
`TypeOK /\ NotYet /\ Alone /\ WillAdd /\ ReadIsCurrent /\ WrittenSoFar /\ Kept`. As long as no
writers raced, a process that writes is alone (`Alone`), what it read is what the file held
when it opened it (`ReadIsCurrent`), and what it means to write is that and one row of a unit that was not in it
(`WillAdd`). The file is then its buffer cut off somewhere at or behind the last
flush (`WrittenSoFar`), which is what `RecordStore` says a kill leaves. Each step is mapped on its
own: opening is a stutter of the mapped rows, closing is `Record`, a kill is `CutOff`, and the
step that makes the first race is `Race`. Assumptions: the rows are rows.

`LoadTestProofs`, for any device, configuration, readings and number of retries:
`EveryLoadIsMeasured`, `OutputIsOff`, `MinimumIsDrawn`, `MeasuredOff` and the action property
`RelaysMoveCold`. `FullCoverage` speaks of the end of a call. On the way, what holds is that
every load behind the loop variable has been measured on every output the passes so far have
gone through (`Coverage`, in the three forms `Swept`, `Behind` and `UnderWay` for the general
sweep, a load's own sweep and the outputs under way), that the loop variables are where the
program says (`Callers`, `Positions`), and that a load that was not concluded well shows in what
is returned (`Shown`). `OutputMeans` says who may have left the output on, `OffMeans` that it is
off only behind a failed window: at a measurement one of this relay, or with a load that may
stay on one of an earlier relay (`FailedHere`, `FailedBefore`), which every new call starts
without. Assumptions: scenarios have the type of
a test configuration with at least one relay, `test_single_load` is called with one load, and
windows are not empty. That a load which does not draw cannot pass a minimum is `NothingDrawn`: the
median of a window of zeros is 0, however long the window (`MedianOfZeros`).

`ConsoleProofs`, first for every limit and number of lines: `TypeCorrect`, `ListBounded`,
`PopIsSafe`, `ReceiverSurvives`, `ReadsForward` and `Refinement` (the shared list implements
`LineFifo`). The inductive invariant says what each thread knows between two of its statements
although the other may run there: `DropGuarded` and `PopGuarded` bound the list from below while a
deletion is under way, `Room` counts what was taken since the last flush, `Recent`, `Sorted` and
`DropAfterBurst` order the numbers of the lines. Assumption (`PopsAssumption`): at most `Limit`
lines are taken between two flushes. Each command of `controller.py` flushes first and reads at
most five lines; the limit is 30. `TypeCorrect` states the `TypeOK` of `RxLines`, which is
proved and in no run.

Then, for all channels, calls, losses and late answers: `MuxIsSet`. The invariant is
`MuxTypeOK /\ Called /\ SetsOrdered /\ AnswersOrdered`. `ConfirmedIsSet` holds because answers to
polls cannot be told apart from those of an earlier call, yet cannot do harm: a `set_mux` of an earlier
call that is still on its way selects what is selected already (`SetsOrdered`), and behind an
answer that names the channel, on its way, stored or read, all answers name it
(`AnswersOrdered`). `Called` says that `set` returns only with such an answer, or raises, which is where
`PeriodAssumption` is needed.

`NodeProofs`, first for any number of clients and chunks, and sockets of any size:
`IterationIsStable` and `NobodyMisses`. The inductive invariant is
`Types /\ Broadcasting /\ Accepting /\ Fresh /\ Served`. `IterationStable` needs that nobody else
changes the client set while broadcast holds the lock, that is, that the lock is held exactly
during an iteration (`Broadcasting`). `NothingMissed` is `Served`; a new client satisfies it
because `Broadcasting` leaves nobody to serve while the lock is free, and because nothing was
sent to a connection before it was registered (`Fresh`), which in turn needs to know the
connection the acceptor is busy with (`Accepting`). No assumption beyond the module's own.

Then, for any number of actuators, attempts, tries and restarts, any plan, any nodes and any
number of losses and late reactions: `PassesAreEarned`, `GoodNodesPass` and `SensorIsRestored`.
The inductive invariant is `NodeTypeOK /\ OnScript /\ Steady /\ Restoring /\ SensorEarned /\
SwitchEarned /\ SensorGood /\ SwitchGood`. The place in a test is the number of operations it has
left (`OnScript`), and each further conjunct says what holds at each place.

- `PassIsEarned` needs to know what may still be on its way (`OnlyOf`): at a check no command or edge but the one the
  level read is credited to, and of the first push only what raises levels, so that a level that
  is read shows that its actuator follows the input (`SensorEarned`, `SwitchEarned`).
- `GoodNodePasses` has two arguments. A sensor test has one attempt, so nothing may be lost or
  late: a change of AUX1 is then on its way or has been followed (`Changing`), and is over when
  the level is read (`SensorGood`). A wall switch test repeats: each attempt that failed is accounted for by a loss or a
  late wait, and a push that is not was the last thing the node followed (`Attempted`, `Pushing`
  in `SwitchGood`).
- `SensorRestored` is `Restoring` at the end of the test: the mode is back before the motion
  setting is written, and each write of either that was not read back cost a lost message. Only a restart can take more, and a node is down
  only in or after a trigger test (`Steady`).

Assumption (`TestsAssumption`): there are an actuator, an attempt and a try, plans are sequences
of tests and nodes have the type of a node.

`LaunchProofs`, first for any number of processes and programs and each of the four kinds of guard:
`OneReader`, `LockIsTheReaders` and `StaleLocksGiveWay`. The inductive invariant is
`TypeOK /\ Places /\ Owned /\ Pids /\ AloneMeans /\ Accounts`. The theorems speak of the processes
that lock: those that are not in `unlocked`, of any kind but today's monitor, of which nothing
is claimed here. Two of them reading are excluded by `Owned`: as long as no two starts overlapped,
the lock is the one of the process that uses it, and a process between finding no lock and making
its own finds nobody; a process without `--lock` never touches the file. A
pid in a file is that of a process that has got as far as writing it (`Pids`), so that a probe of it is an honest one.
`Accounts` charges each start refused for nobody to a kill.
Assumption: the programs that exit are programs, there is a process.

Then, for any number of launches, lines and clicks: `OneTest` and `ShownInOrder`. The invariant is
`StationTypeOK /\ Launched /\ Alone /\ Piped /\ Followed /\ ShownWithoutGaps`. `OneTestAtATime` needs
that without an overlap nothing of an earlier test is left when one begins but its reader, and
that whoever sets the stop flag of a running test has asked it to end (`Alone`). For
`ShownWithoutGaps` it is not enough to look at what is shown: a pipe holds the end of what its
test has printed (`Piped`), and until its reader has ended everything between a line shown and the pipe
is shown (`Followed`). Clearing the log takes a front of what is shown away and keeps all three.

`NodeSettingsProofs`, for any number of actuators, any configuration and any number of requests
lost, late or missed: `SavedIsTrue`, `MeasuredWithMaxWatt` and `CommissioningSucceeds`. The inductive invariant is
`TypeOK /\ FromPlan /\ Addressed /\ CheckMeans /\ MaxwMeans /\ CommissionMeans /\ SavedMeans`. What
was read back was read when no PUT was on its way any more (`CheckMeans`), and a value that is saved
stays true since another PUT of its key starts by making the key busy (`SavedMeans`).
`MaxwMeans` and `CommissionMeans` follow a section from its first setting to its end.
Assumptions: plans have the type of a configuration, the address of all actuators is not the
number of one, and a commission section has no max watt (it is no load).

`DiscoveryProofs`, for every subnet, range and serial number: `ScanIsExplained` and
`BystandersAreLeftAlone`. The inductive invariant is
`Types /\ Place /\ Known /\ Passed /\ FirstEnds /\ Result /\ Repairs`. What `ScanExplained` says
of the end follows from what the scan leaves behind it: every node that is meant and was passed
is listed or its answer was lost (`Passed`), the list ascends (`Known`), and where serial numbers
are looked at no node that `get_ip` would pick is passed without ending the scan (`FirstEnds`).
The last is where the two rules meet, one in `scan` and one in `get_ip` (`PickedEnds`,
`EndsIsPicked`). Assumptions: addresses are numbers of octets, the range is a pair of natural
numbers, and nobody asks for a missing key.

Every invariant and every action property of the runs, and both refinements, are theorems above.
Only model-checked are the liveness properties (`SetReturns`, `ShutdownExits`,
`NothingLeftBehind`, `Settles`, `TestsEnd`, `PageSettles`): the prover does not do fairness and
ENABLED. What the fold behind the mean of a window (`Total`) computes for any length would need
an induction over data; no theorem speaks of it, and the median alone settles what the proofs need.

## Not modelled, and the plan

Done: the pipeline, its records as rows and as a file, the load test, the console, the mux, the
monitor and its launch, discovery, the node's settings, the tests of its inputs, the web page; the proofs of
all their safety properties.

Next, in this order:

1. **Atomicity of an operator's line**: between Ctrl-C and the line the monitor's lock is free
   (`node_serial_monitor.py:171`). A property about it needs the node's console as the reader of
   what the monitor writes.
2. The other hooks of the supernode's procedure (dim, mux and 0-10 V around each relay), whose
   results are only printed.

Not planned: layout of CSV files and dialogs, the settings of the electronic load other than
its output, finding serial ports (I/O), `test_legacy.py`, `runner.py` and the `functions_*`
modules (earlier versions of what is modelled), earlier firmware (superseded), CoAP broadcasts
and `is_ip_reachable` (no step of the test calls them), devices' constants beyond those the pipeline reads.
