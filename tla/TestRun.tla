------------------------------ MODULE TestRun ------------------------------
(***************************************************************************)
(* The main pipeline of the bench: test.py's main, start, runTest, stop    *)
(* and the recording of the result.  One process runs at a time; the next  *)
(* one is launched when the previous one has ended.  What outlives a       *)
(* process is the records folder and the serial number stored in a node.   *)
(*                                                                         *)
(* What a single step measures is left to a choice between pass and fail   *)
(* (LoadTest models the load steps in detail).  The branches for a         *)
(* mini node (rgbw, firmware_upgrade) are unreachable, see ParseArgs.      *)
(***************************************************************************)
EXTENDS Naturals, Sequences, CsvRecords

CONSTANTS
  Units,          \* serial numbers (and MAC addresses) of the nodes at hand
  Launches,       \* the command lines and test configurations tried
  MaxRuns         \* bound: how many processes are launched

ASSUME MaxRunsAssumption == MaxRuns \in Nat

VARIABLES
  pc,          \* where the process is
  step,        \* runTest: the position in StepSeq
  run,         \* the launch that is running
  ctx,         \* the fields of TestContext that decide and are recorded
  final_pass,  \* main's final_pass
  ctrlOpen,    \* controller.ser.is_open
  loadOpen,    \* load_mach.is_open
  pending,     \* csvs_to_write_to: files still to be written
  files,       \* records/: the rows of each file
  nodeSN,      \* the serial number stored in each node
  runs,        \* how many processes have been launched
  ran,         \* history: steps of this run that reached a result
  failed,      \* history: steps of this run that reported a failure
  tested,      \* history: runs that got past start()
  passed       \* history: runs that ended with final_pass

procVars == <<run, ran, failed, final_pass, ctrlOpen, loadOpen, pending>>
storeVars == <<files, nodeSN, runs, tested, passed>>
vars == <<pc, step, run, ctx, final_pass, ctrlOpen, loadOpen, pending,
          files, nodeSN, runs, ran, failed, tested, passed>>

-----------------------------------------------------------------------------
(* The steps of runTest in their order. *)

StepSeq == <<"code_version", "trigger_1", "update_db", "capture", "init",
             "subnet", "serial_number", "board_version", "cccv", "maxw",
             "load", "loads", "sensor1", "pdline", "dc_in", "commission",
             "cmd", "rs485">>
NumSteps == 18
Steps == {StepSeq[i] : i \in 1..NumSteps}
\* The steps a test configuration can ask for; the others always run.
ConfigKeys == Steps \ {"capture", "init", "serial_number", "board_version"}

\* Command-line device words (cli.checkDevice).  ELSNode is abstract and
\* CoreNode.name takes no argument, so constructing either raises.
Classics == {"classic"}
Usable == Classics \cup {"super", "battery"}
Broken == {"els", "core"}
Devices == Usable \cup Broken \cup {"none"}

\* Devices whose ctx.device_name is set; for the others it stays ''.
Named == {"super", "battery"}

\* records/: fpy_<Device.name()>_<year>, fpy_<device_name>_<year> with an empty
\* device name, fpy_<year>, the batch file and the file of the day, in the
\* order in which they are written.
FileOrder == [fpy_device |-> 1, fpy_blank |-> 2, fpy_year |-> 3, batch |-> 4, date |-> 5]
Files == {"fpy_device", "fpy_blank", "fpy_year", "batch", "date"}
PassOnlyFiles == {"batch", "date"}

Ended == {"idle", "done", "crashed", "exited"}
PCs == Ended \cup {"args", "settings", "config", "controller", "scan", "load_mach",
                   "runTest", "stop", "select", "write"}

\* Fixed revision testBoardVersion forces on a battery backup.
BatteryRev == "BB-R2.2"
Revs == {l.rev : l \in Launches} \cup {BatteryRev}
Serials == Units \cup {l.sn : l \in Launches} \cup {NotRead}
          \cup {l.custom_sn : l \in Launches}
Macs == Units \cup {NotRead, NotApplicable}

LaunchType == [device : Devices, unit : Units, sn : Serials, custom_sn : Serials,
               rev : Revs, set_sn : BOOLEAN, csv : BOOLEAN, stop : BOOLEAN,
               present : SUBSET ConfigKeys, on : SUBSET ConfigKeys]
Row == [date : 1..MaxRuns, rev : Revs, sn : Serials, mac : Macs,
        status : {"Pass", "Fail"}]
Context == [test_status : {"Pass", "Fail"}, serial_number : Serials,
            mac_address : Macs, board_version : Revs]

ASSUME LaunchesAssumption == Launches \subseteq LaunchType

-----------------------------------------------------------------------------
(* Launching a process. *)

Init ==
  /\ pc = "idle" /\ step = 1
  /\ run \in Launches
  /\ ctx = [test_status |-> "Pass", serial_number |-> NotRead,
            mac_address |-> NotRead, board_version |-> run.rev]
  /\ final_pass = FALSE /\ ctrlOpen = FALSE /\ loadOpen = FALSE /\ pending = {}
  /\ files = [f \in Files |-> {}]
  /\ nodeSN = [u \in Units |-> u]
  /\ runs = 0
  /\ ran = {} /\ failed = {} /\ tested = {} /\ passed = {}

\* A new process: a fresh TestContext; ports the old one held are closed by
\* the operating system when it ends.
Launch(l) ==
  /\ pc \in Ended
  /\ runs < MaxRuns
  /\ runs' = runs + 1
  /\ run' = l
  /\ ctx' = [test_status |-> "Pass", serial_number |-> l.sn,
             mac_address |-> NotRead, board_version |-> l.rev]
  /\ pc' = "args" /\ step' = 1
  /\ final_pass' = FALSE /\ ctrlOpen' = FALSE /\ loadOpen' = FALSE /\ pending' = {}
  /\ ran' = {} /\ failed' = {}
  /\ UNCHANGED <<files, nodeSN, tested, passed>>

\* main passes every argument to cli.checkArg; constructing an ELS node or
\* naming a core node raises there, before anything is opened.
ParseArgs ==
  /\ pc = "args"
  /\ pc' = IF run.device \in Broken THEN "crashed" ELSE "settings"
  /\ UNCHANGED <<step, ctx, procVars, storeVars>>

-----------------------------------------------------------------------------
(* start(): any failure returns FALSE and main goes on with stop(), leaving *)
(* ctx.test_status as it was created.                                       *)

\* cli.parse_general_settings
LoadSettings ==
  /\ pc = "settings"
  /\ pc' \in {"config", "stop"}
  /\ UNCHANGED <<step, ctx, procVars, storeVars>>

\* cli.init_test_config: without a device word ctx.Device is None.
LoadTestConfig ==
  /\ pc = "config"
  /\ IF run.device = "none" THEN pc' = "crashed" ELSE pc' \in {"controller", "stop"}
  /\ UNCHANGED <<step, ctx, procVars, storeVars>>

\* controller.open reports the port's state; the rx thread is started after it.
OpenController ==
  /\ pc = "controller"
  /\ ctrlOpen' \in BOOLEAN
  /\ pc' = IF ctrlOpen' THEN "scan" ELSE "stop"
  /\ UNCHANGED <<step, run, ran, failed, ctx, final_pass, loadOpen, pending, storeVars>>

\* network.get_ip scans for the serial number (or its leading digits).  An
\* answer that lacks what the scan looks for raises.
FindNode ==
  /\ pc = "scan"
  /\ pc' \in {"load_mach", "stop", "crashed"}
  /\ UNCHANGED <<step, ctx, procVars, storeVars>>

\* A missing electronic load only matters when the configuration has 'load';
\* pyvisa may raise in looking for it or in opening it.
OpenLoad ==
  /\ pc = "load_mach"
  /\ loadOpen' \in BOOLEAN
  /\ \/ ~loadOpen' /\ pc' = "crashed" /\ UNCHANGED tested
     \/ ~loadOpen' /\ "load" \in run.present /\ pc' = "stop" /\ UNCHANGED tested
     \/ /\ loadOpen' \/ "load" \notin run.present
        /\ pc' = "runTest" /\ tested' = tested \cup {runs}
  /\ UNCHANGED <<step, run, ran, failed, ctx, final_pass, ctrlOpen, pending,
                 files, nodeSN, runs, passed>>

-----------------------------------------------------------------------------
(* runTest(): the steps. *)

At(s) == pc = "runTest" /\ step \in 1..NumSteps /\ StepSeq[step] = s

\* Mutant: a later pass overwrites an earlier failure.
ConcludeLastResult(s, ok) ==
  /\ ran' = ran \cup {s}
  /\ failed' = IF ok THEN failed ELSE failed \cup {s}
  /\ ctx' = [ctx EXCEPT !.test_status = IF ok THEN "Pass" ELSE "Fail"]
  /\ IF ~ok /\ run.stop
       THEN pc' = "stop" /\ UNCHANGED step
       ELSE step' = step + 1 /\ UNCHANGED pc

\* Mutant: the word start() uses for its failures ends up in test_status.
ConcludeFailedWord(s, ok) ==
  /\ ran' = ran \cup {s}
  /\ failed' = IF ok THEN failed ELSE failed \cup {s}
  /\ ctx' = IF ok THEN ctx ELSE [ctx EXCEPT !.test_status = "Failed"]
  /\ step' = step + 1 /\ UNCHANGED pc

\* Mutant: stop_on_failure marks the run but does not leave runTest.
ConcludeGoesOn(s, ok) ==
  /\ ran' = ran \cup {s}
  /\ failed' = IF ok THEN failed ELSE failed \cup {s}
  /\ ctx' = IF ok THEN ctx ELSE [ctx EXCEPT !.test_status = "Fail"]
  /\ step' = step + 1 /\ UNCHANGED pc

\* The pass/fail branch that ends every reporting step: a failure marks the
\* run and, when the run stops on failure, leaves runTest at once.
Conclude(s, ok) ==
  /\ ran' = ran \cup {s}
  /\ IF ok
       THEN step' = step + 1 /\ UNCHANGED <<pc, ctx, failed>>
       ELSE /\ failed' = failed \cup {s}
            /\ ctx' = [ctx EXCEPT !.test_status = "Fail"]
            /\ IF run.stop
                 THEN pc' = "stop" /\ UNCHANGED step
                 ELSE step' = step + 1 /\ UNCHANGED pc

\* The step is not configured, toggled off, or has no result to report.
Continue == step' = step + 1 /\ UNCHANGED <<pc, ctx, ran, failed>>

StepFrame == UNCHANGED <<run, final_pass, ctrlOpen, loadOpen, pending, storeVars>>

\* A step that runs when its key is set and reports what it found.
Report(s) ==
  /\ At(s)
  /\ IF s \in run.on THEN \E ok \in BOOLEAN : Conclude(s, ok) ELSE Continue
  /\ StepFrame

\* testCodeVersion compares three versions, but with the defaults of
\* TestContext only the dfu version decides.
CodeVersionOk(dfu, golden, dfd, requireGolden, requireDfd) ==
  /\ dfu
  /\ golden \/ ~requireGolden
  /\ dfd \/ ~requireDfd

CodeVersion ==
  /\ At("code_version")
  /\ IF "code_version" \in run.on
       THEN \E dfu, golden, dfd \in BOOLEAN :
              Conclude("code_version", CodeVersionOk(dfu, golden, dfd, FALSE, FALSE))
       ELSE Continue
  /\ StepFrame

\* Runs with the configured probability only.
Trigger ==
  /\ At("trigger_1")
  /\ \/ Continue
     \/ /\ "trigger_1" \in run.on
        /\ \E ok \in BOOLEAN : Conclude("trigger_1", ok)
  /\ StepFrame

\* Writes to the node whose result nobody looks at.
UpdateDb == At("update_db") /\ Continue /\ StepFrame

\* The serial number typed by the operator is replaced by the one the node
\* answers, or by '' when the read failed.
CaptureIds ==
  /\ At("capture")
  /\ \E sn \in {nodeSN[run.unit], NotRead}, mac \in {run.unit, NotRead} :
       ctx' = IF run.device = "battery"
                THEN [ctx EXCEPT !.mac_address = NotApplicable]
                ELSE [ctx EXCEPT !.serial_number = sn, !.mac_address = mac]
  /\ step' = step + 1
  /\ UNCHANGED <<pc, ran, failed>>
  /\ StepFrame

InitDevice == At("init") /\ Continue /\ StepFrame

Subnet == Report("subnet")

\* testSerialNumber: without set_sn nothing is compared; with it the captured
\* serial number is written to the node and read back.
SerialNumber ==
  /\ At("serial_number")
  /\ CASE ctx.serial_number \in {NotRead, "0"} -> Continue /\ UNCHANGED nodeSN
       [] ctx.serial_number \notin {NotRead, "0"} /\ ~run.set_sn ->
            Conclude("serial_number", TRUE) /\ UNCHANGED nodeSN
       [] OTHER ->
            \E stored, readBack \in BOOLEAN :
              /\ nodeSN' = IF stored THEN [nodeSN EXCEPT ![run.unit] = ctx.serial_number]
                                     ELSE nodeSN
              /\ Conclude("serial_number",
                          readBack /\ nodeSN'[run.unit] = ctx.serial_number)
  /\ UNCHANGED <<run, final_pass, ctrlOpen, loadOpen, pending, files, runs, tested, passed>>

\* testBoardVersion: a battery backup gets a fixed revision, the others must
\* answer the one typed by the operator.  A supernode is not asked.
BoardVersion ==
  /\ At("board_version")
  /\ IF ctx.board_version = "" \/ run.device = "super" THEN Continue
     ELSE IF run.device = "battery"
       THEN /\ ctx' = [ctx EXCEPT !.board_version = BatteryRev]
            /\ ran' = ran \cup {"board_version"}
            /\ step' = step + 1
            /\ UNCHANGED <<pc, failed>>
       ELSE \E ok \in BOOLEAN : Conclude("board_version", ok)
  /\ StepFrame

Cccv == Report("cccv")
Maxw == Report("maxw")
Load == Report("load")

\* SuperNodeProcedure.before_load_sequence takes the list of load steps for
\* a dictionary and raises, so a supernode has no result here: see Raise.
Loads == (At("loads") /\ "loads" \in run.on => run.device # "super") /\ Report("loads")

Sensor == Report("sensor1")
Pdline == Report("pdline")

\* Device.has_dc_in is a method, hence true for every device.  Only an
\* exception fails the step: dc_in_test's own result is dropped.  It raises
\* for a device whose procedure has no dc_in_test, without a 'loads' section
\* and with a 'load' section, which has no 'test_steps'.
DcInRaises == \/ run.device # "super"
              \/ "loads" \notin run.present
              \/ "load" \in run.present

DcIn ==
  /\ At("dc_in")
  /\ IF "dc_in" \notin run.on THEN Continue
     ELSE \E raises \in BOOLEAN :
            /\ DcInRaises => raises
            /\ Conclude("dc_in", ~raises)
  /\ StepFrame

Commission == Report("commission")
Cmd == Report("cmd")

\* rs485_module.main ends in sys.exit(0) or sys.exit(1) when the monitor has
\* answered or not: neither branch of the caller is reached.
Rs485 ==
  /\ At("rs485")
  /\ IF "rs485" \in run.on
       THEN pc' = "exited" /\ UNCHANGED <<step, ctx, ran, failed>>
       ELSE Continue
  /\ StepFrame

\* Nothing in main or runTest catches what a step raises (a serial port
\* unplugged, a measurement that is None); only the DC-IN step is guarded.
Raise ==
  /\ pc = "runTest"
  /\ step \in 1..NumSteps
  /\ StepSeq[step] # "dc_in"
  /\ pc' = "crashed"
  /\ UNCHANGED <<step, ctx, ran, failed>>
  /\ StepFrame

\* Mutant: runTest returns TRUE whenever it reaches its end.
EndTestReached ==
  /\ pc = "runTest"
  /\ step = NumSteps + 1
  /\ final_pass' = TRUE
  /\ passed' = passed \cup {runs}
  /\ pc' = "stop"
  /\ UNCHANGED <<step, run, ran, failed, ctx, ctrlOpen, loadOpen, pending,
                 files, nodeSN, runs, tested>>

\* The last line of runTest and the test of it in main.
EndTest ==
  /\ pc = "runTest"
  /\ step = NumSteps + 1
  /\ final_pass' = (ctx.test_status # "Fail")
  /\ passed' = IF final_pass' THEN passed \cup {runs} ELSE passed
  /\ pc' = "stop"
  /\ UNCHANGED <<step, run, ran, failed, ctx, ctrlOpen, loadOpen, pending,
                 files, nodeSN, runs, tested>>

-----------------------------------------------------------------------------
(* stop() and the recording of the result. *)

Stop ==
  /\ pc = "stop"
  /\ ctrlOpen' = FALSE
  /\ loadOpen' = FALSE
  /\ pc' = IF run.device = "none" THEN "crashed" ELSE "select"  \* ctx.Device.name()
  /\ UNCHANGED <<step, run, ran, failed, ctx, final_pass, pending, storeVars>>

\* Mutant: every file is offered whatever the verdict.
CsvListAll == {"fpy_device", "fpy_year", "batch", "date"}

\* csv_list: the files offered to the operator.
CsvList == IF final_pass
             THEN {"fpy_device", "fpy_year", "batch", "date"}
             ELSE {IF run.device \in Named THEN "fpy_device" ELSE "fpy_blank", "fpy_year"}

\* The operator picks any of them; 'nocsv' skips the question.
SelectFiles ==
  /\ pc = "select"
  /\ IF run.csv
       THEN /\ pending' \in SUBSET CsvList
            /\ ctx' = IF run.device = "battery"
                        THEN [ctx EXCEPT !.serial_number = run.custom_sn] ELSE ctx
       ELSE UNCHANGED <<pending, ctx>>
  /\ pc' = "write"
  /\ UNCHANGED <<step, run, ran, failed, final_pass, ctrlOpen, loadOpen, storeVars>>

\* The row main records.
ResultRow == [date |-> runs, rev |-> ctx.board_version, sn |-> ctx.serial_number,
              mac |-> ctx.mac_address, status |-> ctx.test_status]

\* The loop over the chosen files, in the order of csv_list.
WriteFile(f) ==
  /\ pc = "write"
  /\ f \in pending
  /\ \A g \in pending : FileOrder[f] <= FileOrder[g]
  /\ files' = [files EXCEPT ![f] = WriteToCsv(@, ResultRow)]
  /\ pending' = pending \ {f}
  /\ UNCHANGED <<pc, step, run, ran, failed, ctx, final_pass, ctrlOpen, loadOpen,
                 nodeSN, runs, tested, passed>>

Finish ==
  /\ pc = "write"
  /\ pending = {}
  /\ pc' = "done"
  /\ UNCHANGED <<step, ctx, procVars, storeVars>>

\* The bench is switched off after the last run.
Rest == pc \in Ended /\ runs = MaxRuns /\ UNCHANGED vars

-----------------------------------------------------------------------------
StartSteps == LoadSettings \/ LoadTestConfig \/ OpenController \/ FindNode \/ OpenLoad

TestSteps == \/ CodeVersion \/ Trigger \/ UpdateDb \/ CaptureIds \/ InitDevice
             \/ Subnet \/ SerialNumber \/ BoardVersion \/ Cccv \/ Maxw \/ Load
             \/ Loads \/ Sensor \/ Pdline \/ DcIn \/ Commission \/ Cmd \/ Rs485
             \/ Raise \/ EndTest

RecordSteps == Stop \/ SelectFiles \/ (\E f \in Files : WriteFile(f)) \/ Finish

Next == \/ \E l \in Launches : Launch(l)
        \/ ParseArgs \/ StartSteps \/ TestSteps \/ RecordSteps \/ Rest

Spec == Init /\ [][Next]_vars

-----------------------------------------------------------------------------
(* Properties. *)

\* Every variable has its type: the state of main, its context and the records.
TypeOK ==
  /\ pc \in PCs
  /\ step \in 1..(NumSteps + 1)
  /\ run \in Launches
  /\ ctx \in Context
  /\ final_pass \in BOOLEAN /\ ctrlOpen \in BOOLEAN /\ loadOpen \in BOOLEAN
  /\ pending \subseteq Files
  /\ files \in [Files -> SUBSET Row]
  /\ nodeSN \in [Units -> Serials]
  /\ runs \in 0..MaxRuns
  /\ ran \subseteq Steps /\ failed \subseteq ran
  /\ tested \subseteq 1..runs /\ passed \subseteq tested

\* Steps that must have had a result when runTest reaches its end.
MustRun == run.on \ {"trigger_1", "update_db", "rs485"}

\* The verdict of main is exactly the conjunction of the results: final_pass
\* holds after runTest if and only if every configured step ran and none of
\* them reported a failure, however far back that was.
VerdictMatchesSteps ==
  pc \in {"stop", "select", "write", "done"} =>
    (final_pass <=> runs \in tested /\ failed = {} /\ MustRun \subseteq ran)

\* With stop_on_failure, no later step touches the node once one has failed.
FailFast == [][run.stop /\ failed # {} => ran' \subseteq ran]_vars

\* The batch file and the file of the day list only units that passed a
\* complete test: csv_list offers them for a pass only, and the status
\* recorded is the one main decided on.
BatchOnlyEarned ==
  \A f \in PassOnlyFiles : \A row \in files[f] :
    row.status = "Pass" /\ row.date \in passed

\* The Status column tells the verdict of the run that wrote the row, for
\* every run that got past start().
StatusTruthful ==
  \A f \in Files : \A row \in files[f] :
    row.date \in tested => (row.status = "Pass" <=> row.date \in passed)

\* A file never holds two rows of one revision with the same serial number
\* or the same MAC address (write_to_csv's duplicate check): the first
\* recorded verdict of a unit is the one that counts for first pass yield.
OneRowPerUnit ==
  \A f \in Files : \A r1, r2 \in files[f] :
    r1 # r2 => ~SameSerial(r1, r2) /\ ~SameMac(r1, r2)

\* What the Status column is for: a row says Pass only for a run that passed.
\* start() reports its failures as 'Failed' (test.py:492-512) and main prints
\* 'final - fail', but ctx.test_status is still 'Pass'.
RecordedPassIsEarned ==
  \A f \in Files : \A row \in files[f] : row.status = "Pass" => row.date \in passed

=============================================================================
