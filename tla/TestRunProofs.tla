--------------------------- MODULE TestRunProofs ---------------------------
(***************************************************************************)
(* Invariance proofs for TestRun, for all launches, all numbers of runs and *)
(* both settings of stop_on_failure.                                       *)
(***************************************************************************)
EXTENDS TestRun, TLAPS

BeforeTest == {"args", "settings", "config", "controller", "scan", "load_mach"}
AfterTest == {"stop", "select", "write", "done"}

\* Which run the verdict and the histories speak about at each point of main.
Control ==
  /\ pc = "idle" <=> runs = 0
  /\ pc \in BeforeTest => runs \notin tested
  /\ pc = "runTest" => runs \in tested
  /\ runs \in passed <=> final_pass
  /\ final_pass => pc \in AfterTest \cup Ended
  /\ pc \in AfterTest /\ runs \in tested => (final_pass <=> ctx.test_status = "Pass")
  /\ final_pass => ctx.test_status = "Pass"

\* test_status remembers every failure, and no configured step was skipped.
Verdict ==
  /\ ctx.test_status = "Fail" <=> failed # {}
  /\ pc \in BeforeTest \cup {"runTest"} =>
       \A i \in 1..(step - 1) : StepSeq[i] \in MustRun => StepSeq[i] \in ran
  /\ final_pass => MustRun \subseteq ran

\* Rows of the current run are written after its verdict is known.
Recorded ==
  /\ pending \subseteq (IF pc = "write" THEN CsvList ELSE {})
  /\ \A f \in Files : \A row \in files[f] :
       row.date <= runs /\ (row.date = runs => pc \in {"write"} \cup Ended)
  /\ BatchOnlyEarned
  /\ StatusTruthful

IInv == TypeOK /\ Control /\ Verdict /\ Recorded

\* What a step of runTest leaves alone; only the serial number step writes
\* to the node.
Frame == /\ UNCHANGED <<run, final_pass, ctrlOpen, loadOpen, pending, files, runs,
                        tested, passed>>
         /\ nodeSN' \in [Units -> Serials]

-----------------------------------------------------------------------------
(* The step list, and what the helpers of the steps keep. *)

\* Positions of runTest index StepSeq.
LEMMA StepSeqType == \A i \in 1..NumSteps : StepSeq[i] \in Steps
  BY DEF Steps

\* A step that only uses StepFrame leaves what Frame names alone.
LEMMA StepFrameIsFrame == ASSUME TypeOK, StepFrame PROVE Frame
  BY DEF TypeOK, StepFrame, storeVars, Frame

\* What a pass or a failure of the step under way does to the invariant.
LEMMA ConcludeKeeps ==
  ASSUME IInv, NEW s \in Steps, At(s), NEW ok \in BOOLEAN, Conclude(s, ok), Frame
  PROVE  IInv'
<1>1. step \in 1..NumSteps /\ pc = "runTest" /\ StepSeq[step] = s
  BY DEF At
<1>2. TypeOK'
  BY <1>1 DEF IInv, TypeOK, Conclude, Frame, PCs, Ended, Context, NumSteps
<1>3. Control'
  BY <1>1 DEF IInv, TypeOK, Control, Verdict, Conclude, Frame, Context,
     BeforeTest, AfterTest, Ended
<1>4. Verdict'
  <2>1. ctx'.test_status = "Fail" <=> failed' # {}
    BY DEF IInv, TypeOK, Verdict, Conclude, Context
  <2>2. ASSUME pc' \in BeforeTest \cup {"runTest"}, NEW i \in 1..(step' - 1), StepSeq[i] \in MustRun'
        PROVE  StepSeq[i] \in ran'
    <3>1. step' = step + 1 /\ ran' = ran \cup {s} /\ MustRun' = MustRun
      BY <1>1, <2>2 DEF Conclude, Frame, MustRun, BeforeTest
    <3>2. CASE i = step
      BY <1>1, <3>1, <3>2
    <3>3. CASE i # step
      <4>1. i \in 1..(step - 1)
        BY <1>1, <2>2, <3>1, <3>3 DEF NumSteps
      <4> QED BY <1>1, <2>2, <3>1, <4>1 DEF IInv, Verdict
    <3> QED BY <3>2, <3>3
  <2>3. ~final_pass'
    BY <1>1 DEF IInv, Control, AfterTest, Ended, Frame
  <2> QED BY <2>1, <2>2, <2>3 DEF Verdict
<1>5. Recorded'
  BY <1>1 DEF IInv, Recorded, Conclude, Frame, BatchOnlyEarned,
     StatusTruthful, Ended
<1> QED BY <1>2, <1>3, <1>4, <1>5 DEF IInv

\* Passing over a step that is not configured.
LEMMA ContinueKeeps ==
  ASSUME IInv, NEW s \in Steps, At(s), Continue, Frame, s \notin MustRun
  PROVE  IInv'
<1>1. step \in 1..NumSteps /\ pc = "runTest" /\ StepSeq[step] = s
  BY DEF At
<1>2. TypeOK'
  BY <1>1 DEF IInv, TypeOK, Continue, Frame, NumSteps
<1>3. Control'
  BY <1>1 DEF IInv, TypeOK, Control, Continue, Frame
<1>4. Verdict'
  <2>1. ASSUME NEW i \in 1..(step' - 1), StepSeq[i] \in MustRun'
        PROVE  StepSeq[i] \in ran'
    <3>1. step' = step + 1 /\ ran' = ran /\ MustRun' = MustRun
      BY <2>1 DEF Continue, Frame, MustRun
    <3>2. i # step
      BY <1>1, <2>1, <3>1
    <3>3. i \in 1..(step - 1)
      BY <1>1, <2>1, <3>1, <3>2 DEF NumSteps
    <3> QED BY <1>1, <2>1, <3>1, <3>3 DEF IInv, Verdict
  <2> QED BY <1>1, <2>1 DEF IInv, Verdict, Continue, Frame, MustRun
<1>5. Recorded'
  BY <1>1 DEF IInv, Recorded, Continue, Frame, BatchOnlyEarned,
     StatusTruthful, Ended
<1> QED BY <1>2, <1>3, <1>4, <1>5 DEF IInv

\* A step of the ordinary shape (Report) keeps the invariant.
LEMMA ReportKeeps ==
  ASSUME IInv, NEW s \in Steps, Report(s)
  PROVE  IInv'
<1>1. CASE s \in run.on
  BY <1>1, ConcludeKeeps, StepFrameIsFrame DEF Report, IInv
<1>2. CASE s \notin run.on
  BY <1>2, ContinueKeeps, StepFrameIsFrame DEF Report, MustRun, IInv
<1> QED BY <1>1, <1>2

-----------------------------------------------------------------------------
(* The steps that are more than a report. *)

\* Every step name is one of Steps; four steps cannot be configured away.
LEMMA StepNames ==
  /\ {"code_version", "trigger_1", "update_db", "capture", "init", "subnet",
      "serial_number", "board_version", "cccv", "maxw", "load", "loads", "sensor1",
      "pdline", "dc_in", "commission", "cmd", "rs485"} \subseteq Steps
  /\ {"capture", "init", "serial_number", "board_version"} \cap ConfigKeys = {}
<1>1. \A i \in 1..NumSteps : StepSeq[i] \in Steps
  BY StepSeqType
<1>2. /\ 1 \in 1..NumSteps /\ 2 \in 1..NumSteps /\ 3 \in 1..NumSteps /\ 4 \in 1..NumSteps
      /\ 5 \in 1..NumSteps /\ 6 \in 1..NumSteps /\ 7 \in 1..NumSteps /\ 8 \in 1..NumSteps
      /\ 9 \in 1..NumSteps /\ 10 \in 1..NumSteps /\ 11 \in 1..NumSteps /\ 12 \in 1..NumSteps
      /\ 13 \in 1..NumSteps /\ 14 \in 1..NumSteps /\ 15 \in 1..NumSteps /\ 16 \in 1..NumSteps
      /\ 17 \in 1..NumSteps /\ 18 \in 1..NumSteps
  BY DEF NumSteps
<1> QED BY <1>1, <1>2 DEF StepSeq, ConfigKeys

\* A launch asks only for configurable steps.
LEMMA RunType == ASSUME TypeOK PROVE run.on \subseteq ConfigKeys /\ run \in LaunchType
  BY LaunchesAssumption DEF TypeOK, LaunchType

\* The comparison of the three code versions reports like any other step.
LEMMA CodeVersionKeeps == ASSUME IInv, CodeVersion PROVE IInv'
<1>1. CASE "code_version" \in run.on
  BY <1>1, StepNames, ConcludeKeeps, StepFrameIsFrame DEF CodeVersion, CodeVersionOk, IInv
<1>2. CASE "code_version" \notin run.on
  BY <1>2, StepNames, ContinueKeeps, StepFrameIsFrame DEF CodeVersion, MustRun, IInv
<1> QED BY <1>1, <1>2

\* The trigger test may be skipped by chance; it is not in MustRun.
LEMMA TriggerKeeps == ASSUME IInv, Trigger PROVE IInv'
  BY StepNames, ConcludeKeeps, ContinueKeeps, StepFrameIsFrame DEF Trigger, MustRun, IInv

\* Updating the database reports nothing.
LEMMA UpdateDbKeeps == ASSUME IInv, UpdateDb PROVE IInv'
  BY StepNames, ContinueKeeps, StepFrameIsFrame DEF UpdateDb, MustRun, IInv

\* Initialising the device reports nothing.
LEMMA InitDeviceKeeps == ASSUME IInv, InitDevice PROVE IInv'
<1>1. "init" \notin MustRun
  BY StepNames, RunType DEF IInv, MustRun
<1> QED BY <1>1, StepNames, ContinueKeeps, StepFrameIsFrame DEF InitDevice, IInv

\* The DC-IN step, the only one that catches exceptions, reports like the others.
LEMMA DcInKeeps == ASSUME IInv, DcIn PROVE IInv'
<1>1. CASE "dc_in" \in run.on
  BY <1>1, StepNames, ConcludeKeeps, StepFrameIsFrame DEF DcIn, IInv
<1>2. CASE "dc_in" \notin run.on
  BY <1>2, StepNames, ContinueKeeps, StepFrameIsFrame DEF DcIn, MustRun, IInv
<1> QED BY <1>1, <1>2

\* Reading the identity of the node changes the context, never the verdict.
LEMMA CaptureIdsKeeps == ASSUME IInv, CaptureIds PROVE IInv'
<1>1. step \in 1..NumSteps /\ pc = "runTest" /\ StepSeq[step] = "capture"
  BY DEF CaptureIds, At
<1>2. run \in LaunchType /\ "capture" \notin MustRun
  BY StepNames, RunType DEF IInv, MustRun
<1>3. run.unit \in Units /\ run.unit \in Serials /\ run.unit \in Macs
  BY <1>2 DEF LaunchType, Serials, Macs
<1>4. ctx' \in Context /\ ctx'.test_status = ctx.test_status
  BY <1>3 DEF IInv, TypeOK, CaptureIds, Context, Serials, Macs
<1>5. TypeOK'
  BY <1>1, <1>4 DEF IInv, TypeOK, CaptureIds, StepFrame, storeVars, NumSteps
<1>6. Control'
  BY <1>1, <1>4 DEF IInv, TypeOK, Control, CaptureIds, StepFrame, storeVars
<1>7. Verdict'
  <2>1. ASSUME NEW i \in 1..(step' - 1), StepSeq[i] \in MustRun'
        PROVE  StepSeq[i] \in ran'
    <3>1. step' = step + 1 /\ ran' = ran /\ MustRun' = MustRun
      BY <2>1 DEF CaptureIds, StepFrame, MustRun
    <3>2. i # step
      BY <1>1, <1>2, <2>1, <3>1
    <3>3. i \in 1..(step - 1)
      BY <1>1, <2>1, <3>1, <3>2 DEF NumSteps
    <3> QED BY <1>1, <2>1, <3>1, <3>3 DEF IInv, Verdict
  <2> QED BY <1>1, <1>4, <2>1 DEF IInv, Verdict, CaptureIds, StepFrame, MustRun
<1>8. Recorded'
  BY <1>1 DEF IInv, Recorded, CaptureIds, StepFrame, storeVars, BatchOnlyEarned,
     StatusTruthful, Ended
<1> QED BY <1>5, <1>6, <1>7, <1>8 DEF IInv

\* Writing the captured serial number to the node cannot change the verdict
\* of an earlier step.
LEMMA SerialNumberKeeps == ASSUME IInv, SerialNumber PROVE IInv'
<1>1. "serial_number" \in Steps /\ "serial_number" \notin MustRun
  BY StepNames, RunType DEF IInv, MustRun
<1>2. At("serial_number")
  BY DEF SerialNumber
<1>3. CASE nodeSN' = nodeSN
  <2>1. Frame
    BY <1>3 DEF SerialNumber, Frame, IInv, TypeOK
  <2>2. Continue \/ \E ok \in BOOLEAN : Conclude("serial_number", ok)
    BY DEF SerialNumber
  <2> QED BY <1>1, <1>2, <2>1, <2>2, ConcludeKeeps, ContinueKeeps
<1>4. CASE nodeSN' # nodeSN
  <2>1. /\ nodeSN' = [nodeSN EXCEPT ![run.unit] = ctx.serial_number]
        /\ \E ok \in BOOLEAN : Conclude("serial_number", ok)
    BY <1>4 DEF SerialNumber
  <2>2. Frame
    BY <2>1 DEF SerialNumber, Frame, IInv, TypeOK, Context
  <2> QED BY <1>1, <1>2, <2>1, <2>2, ConcludeKeeps
<1> QED BY <1>3, <1>4

\* The revision forced on a battery backup changes what is recorded only.
LEMMA BoardVersionKeeps == ASSUME IInv, BoardVersion PROVE IInv'
<1>1. "board_version" \in Steps /\ "board_version" \notin MustRun
  BY StepNames, RunType DEF IInv, MustRun
<1>2. At("board_version") /\ StepFrame /\ Frame
  BY StepFrameIsFrame DEF BoardVersion, IInv
<1>3. CASE Continue \/ \E ok \in BOOLEAN : Conclude("board_version", ok)
  BY <1>1, <1>2, <1>3, ConcludeKeeps, ContinueKeeps
<1>4. CASE /\ ctx' = [ctx EXCEPT !.board_version = BatteryRev]
           /\ ran' = ran \cup {"board_version"}
           /\ step' = step + 1
           /\ UNCHANGED <<pc, failed>>
  <2>1. step \in 1..NumSteps /\ pc = "runTest" /\ StepSeq[step] = "board_version"
    BY <1>2 DEF At
  <2>2. ctx' \in Context /\ ctx'.test_status = ctx.test_status
    BY <1>4 DEF IInv, TypeOK, Context, Revs
  <2>3. TypeOK'
    BY <1>1, <1>2, <1>4, <2>1, <2>2 DEF IInv, TypeOK, Frame, NumSteps
  <2>4. Control'
    BY <1>2, <1>4, <2>1, <2>2 DEF IInv, TypeOK, Control, Frame
  <2>5. Verdict'
    <3>1. ASSUME NEW i \in 1..(step' - 1), StepSeq[i] \in MustRun'
          PROVE  StepSeq[i] \in ran'
      <4>1. i # step
        BY <1>1, <1>2, <2>1, <3>1 DEF Frame, MustRun
      <4>2. i \in 1..(step - 1) /\ StepSeq[i] \in MustRun
        BY <1>2, <1>4, <2>1, <3>1, <4>1 DEF Frame, MustRun, NumSteps
      <4> QED BY <1>4, <2>1, <4>2 DEF IInv, Verdict
    <3> QED BY <1>2, <1>4, <2>1, <2>2, <3>1 DEF IInv, Verdict, Control, Frame, AfterTest, Ended
  <2>6. Recorded'
    BY <1>2, <1>4, <2>1 DEF IInv, Recorded, Frame, BatchOnlyEarned, StatusTruthful, Ended
  <2> QED BY <2>3, <2>4, <2>5, <2>6 DEF IInv
<1> QED BY <1>3, <1>4 DEF BoardVersion

\* A process that ends inside runTest never got a verdict.
LEMMA AbortKeeps ==
  ASSUME IInv, pc = "runTest", pc' \in {"crashed", "exited"},
         UNCHANGED <<step, ctx, ran, failed>>, StepFrame
  PROVE  IInv'
<1>1. TypeOK'
  BY DEF IInv, TypeOK, StepFrame, storeVars, PCs, Ended
<1>2. Control'
  BY DEF IInv, Control, StepFrame, storeVars, BeforeTest, AfterTest, Ended
<1>3. Verdict'
  BY DEF IInv, Verdict, StepFrame, MustRun
<1>4. Recorded'
  BY DEF IInv, Recorded, StepFrame, storeVars, BatchOnlyEarned, StatusTruthful, Ended
<1> QED BY <1>1, <1>2, <1>3, <1>4 DEF IInv

\* The RS485 step ends the process or is skipped: no verdict is claimed.
LEMMA Rs485Keeps == ASSUME IInv, Rs485 PROVE IInv'
<1>1. CASE "rs485" \in run.on
  BY <1>1, AbortKeeps DEF Rs485, At
<1>2. CASE "rs485" \notin run.on
  BY <1>2, StepNames, ContinueKeeps, StepFrameIsFrame DEF Rs485, MustRun, IInv
<1> QED BY <1>1, <1>2

\* An exception in a step ends the process without a verdict.
LEMMA RaiseKeeps == ASSUME IInv, Raise PROVE IInv'
  BY AbortKeeps DEF Raise

\* The end of runTest: the verdict looks back over every step.
LEMMA EndTestKeeps == ASSUME IInv, EndTest PROVE IInv'
<1>1. /\ pc = "runTest" /\ pc' = "stop" /\ step = NumSteps + 1
      /\ ~final_pass /\ runs \notin passed /\ runs \in tested
      /\ final_pass' = (ctx.test_status # "Fail")
      /\ ctx.test_status \in {"Pass", "Fail"}
  BY DEF EndTest, IInv, Control, AfterTest, Ended, TypeOK, Context
<1>2. TypeOK'
  BY <1>1 DEF IInv, TypeOK, EndTest, PCs
<1>3. Control'
  BY <1>1 DEF IInv, TypeOK, Control, EndTest, BeforeTest, AfterTest, Ended
<1>4. MustRun \subseteq ran
  <2>1. MustRun \subseteq Steps
    BY RunType DEF IInv, MustRun, ConfigKeys
  <2>2. \A i \in 1..NumSteps : StepSeq[i] \in MustRun => StepSeq[i] \in ran
    BY <1>1 DEF IInv, Verdict, NumSteps
  <2> QED BY <2>1, <2>2 DEF Steps
<1>5. Verdict'
  BY <1>1, <1>4 DEF IInv, Verdict, EndTest, MustRun
<1>6. Recorded'
  BY <1>1 DEF IInv, Recorded, EndTest, BatchOnlyEarned, StatusTruthful, Ended
<1> QED BY <1>2, <1>3, <1>5, <1>6 DEF IInv

-----------------------------------------------------------------------------
(* Before and after runTest. *)

\* What the calls of start() and of main may do before runTest is entered.
LEMMA BeforeTestKeeps ==
  ASSUME IInv, pc \in BeforeTest, pc' \in (BeforeTest \cup {"stop", "crashed"}),
         UNCHANGED <<step, ctx, run, ran, failed, final_pass, pending, storeVars>>,
         ctrlOpen' \in BOOLEAN, loadOpen' \in BOOLEAN
  PROVE  IInv'
<1>1. runs \notin tested /\ ~final_pass /\ runs # 0
  BY DEF IInv, TypeOK, Control, BeforeTest, AfterTest, Ended
<1>2. TypeOK'
  BY DEF IInv, TypeOK, storeVars, PCs, Ended, BeforeTest
<1>3. Control'
  BY <1>1 DEF IInv, Control, storeVars, BeforeTest, AfterTest, Ended
<1>4. Verdict'
  BY <1>1 DEF IInv, Verdict, BeforeTest, MustRun
<1>5. Recorded'
  BY <1>1 DEF IInv, Recorded, storeVars, BatchOnlyEarned, StatusTruthful, BeforeTest, Ended
<1> QED BY <1>2, <1>3, <1>4, <1>5 DEF IInv

\* start() decides nothing before its last line.
LEMMA StartKeeps ==
  ASSUME IInv, ParseArgs \/ LoadSettings \/ LoadTestConfig \/ OpenController \/ FindNode
  PROVE  IInv'
<1>1. pc \in BeforeTest /\ pc' \in (BeforeTest \cup {"stop", "crashed"})
  BY DEF ParseArgs, LoadSettings, LoadTestConfig, OpenController, FindNode, BeforeTest
<1>2. /\ UNCHANGED <<step, ctx, run, ran, failed, final_pass, pending, storeVars>>
      /\ ctrlOpen' \in BOOLEAN /\ loadOpen' \in BOOLEAN
  BY DEF ParseArgs, LoadSettings, LoadTestConfig, OpenController, FindNode, procVars,
     IInv, TypeOK
<1> QED BY <1>1, <1>2, BeforeTestKeeps

\* The last line of start(): the run counts as tested from here on.
LEMMA OpenLoadKeeps == ASSUME IInv, OpenLoad PROVE IInv'
<1>1. /\ pc = "load_mach" /\ runs \notin tested /\ ~final_pass /\ runs # 0
      /\ runs \notin passed /\ step' = step
  BY DEF IInv, TypeOK, Control, OpenLoad, BeforeTest, AfterTest, Ended
<1>2. CASE pc' \in {"stop", "crashed"} /\ UNCHANGED tested
  <2>1. UNCHANGED <<step, ctx, run, ran, failed, final_pass, pending, storeVars>>
    BY <1>2 DEF OpenLoad, storeVars
  <2> QED BY <1>1, <1>2, <2>1, BeforeTestKeeps DEF OpenLoad, BeforeTest, IInv, TypeOK
<1>3. CASE pc' = "runTest" /\ tested' = tested \cup {runs}
  <2>1. TypeOK'
    <3>1. pc' \in PCs /\ tested' \subseteq 1..runs /\ passed \subseteq tested'
      BY <1>1, <1>3 DEF IInv, TypeOK, PCs
    <3>2. UNCHANGED <<step, run, ran, failed, ctx, final_pass, ctrlOpen, pending, files,
                      nodeSN, runs, passed>> /\ loadOpen' \in BOOLEAN
      BY DEF OpenLoad
    <3> QED BY <3>1, <3>2 DEF IInv, TypeOK
  <2>2. Control'
    BY <1>1, <1>3 DEF IInv, Control, OpenLoad, BeforeTest, AfterTest, Ended
  <2>3. Verdict'
    BY <1>1, <1>3 DEF IInv, Verdict, OpenLoad, MustRun, BeforeTest
  <2>4. Recorded'
    BY <1>1, <1>3 DEF IInv, Recorded, OpenLoad, BatchOnlyEarned, StatusTruthful, Ended
  <2> QED BY <2>1, <2>2, <2>3, <2>4 DEF IInv
<1> QED BY <1>2, <1>3 DEF OpenLoad

\* A new process begins with empty histories and a fresh context.
LEMMA LaunchKeeps == ASSUME IInv, NEW l \in Launches, Launch(l) PROVE IInv'
<1>1. l \in LaunchType
  BY LaunchesAssumption
<1>2. /\ runs' = runs + 1 /\ runs' \in 1..MaxRuns /\ runs \in Nat
      /\ runs' \notin tested /\ runs' \notin passed
      /\ step' = 1 /\ pc' = "args" /\ pending' = {} /\ ~final_pass'
  <2>1. runs \in 0..MaxRuns /\ runs < MaxRuns /\ runs' = runs + 1
    BY DEF IInv, TypeOK, Launch
  <2>2. runs \in Nat /\ runs' \in 1..MaxRuns /\ runs' \notin 1..runs
    BY <2>1, MaxRunsAssumption
  <2>3. runs' \notin tested /\ runs' \notin passed
    BY <2>2 DEF IInv, TypeOK
  <2>4. step' = 1 /\ pc' = "args" /\ pending' = {} /\ ~final_pass'
    BY DEF Launch
  <2> QED BY <2>1, <2>2, <2>3, <2>4
<1>3. ctx' \in Context /\ ctx'.test_status = "Pass"
  BY <1>1 DEF Launch, Context, LaunchType, Macs, Revs
<1>4. TypeOK'
  <2>1. runs' \in 0..MaxRuns /\ tested' \subseteq 1..runs' /\ passed' \subseteq tested'
    BY <1>2, MaxRunsAssumption DEF IInv, TypeOK, Launch
  <2>2. pc' \in PCs /\ step' \in 1..(NumSteps + 1)
    BY <1>2 DEF PCs, NumSteps
  <2>3. /\ files' \in [Files -> SUBSET Row] /\ nodeSN' \in [Units -> Serials]
        /\ ran' \subseteq Steps /\ failed' \subseteq ran' /\ pending' \subseteq Files
        /\ run' \in Launches
    BY DEF IInv, TypeOK, Launch
  <2>4. final_pass' \in BOOLEAN /\ ctrlOpen' \in BOOLEAN /\ loadOpen' \in BOOLEAN
    BY DEF Launch
  <2> QED BY <1>3, <2>1, <2>2, <2>3, <2>4 DEF TypeOK
<1>5. Control'
  BY <1>2, <1>3 DEF IInv, Control, Launch, BeforeTest, AfterTest, Ended
<1>6. Verdict'
  BY <1>2, <1>3 DEF Verdict, Launch
<1>7. Recorded'
  <2>1. ASSUME NEW f \in Files, NEW row \in files'[f]
        PROVE  row.date <= runs' /\ row.date # runs'
    <3>1. files' = files /\ row \in files[f] /\ row \in Row
      BY <2>1 DEF IInv, TypeOK, Launch
    <3>2. row.date \in Nat /\ row.date <= runs
      BY <3>1 DEF IInv, Recorded, Row
    <3> QED BY <1>2, <3>2
  <2>2. BatchOnlyEarned' /\ StatusTruthful'
    BY DEF IInv, Recorded, Launch, BatchOnlyEarned, StatusTruthful
  <2> QED BY <1>2, <2>1, <2>2 DEF Recorded
<1> QED BY <1>4, <1>5, <1>6, <1>7 DEF IInv

-----------------------------------------------------------------------------
(* Recording the result. *)

\* stop() closes the ports and keeps the verdict.
LEMMA StopKeeps == ASSUME IInv, Stop PROVE IInv'
<1>1. pc = "stop" /\ pc' \in {"crashed", "select"} /\ UNCHANGED <<files, runs, tested, passed, final_pass>>
  BY DEF Stop, storeVars
<1>2. TypeOK'
  BY <1>1 DEF IInv, TypeOK, Stop, storeVars, PCs, Ended
<1>3. Control'
  BY <1>1 DEF IInv, Control, Stop, storeVars, BeforeTest, AfterTest, Ended
<1>4. Verdict'
  BY <1>1 DEF IInv, Verdict, Stop, MustRun, BeforeTest
<1>5. Recorded'
  BY <1>1 DEF IInv, Recorded, Stop, storeVars, BatchOnlyEarned, StatusTruthful, Ended
<1> QED BY <1>2, <1>3, <1>4, <1>5 DEF IInv

\* The operator chooses among the files of csv_list.
LEMMA SelectFilesKeeps == ASSUME IInv, SelectFiles PROVE IInv'
<1>1. /\ pc = "select" /\ pc' = "write"
      /\ UNCHANGED <<files, nodeSN, runs, tested, passed, final_pass, run, step, ran, failed,
                     ctrlOpen, loadOpen>>
  BY DEF SelectFiles, storeVars
<1>2. ctx' \in Context /\ ctx'.test_status = ctx.test_status
  BY RunType DEF IInv, TypeOK, SelectFiles, Context, LaunchType
<1>3. CsvList' = CsvList
  BY <1>1 DEF CsvList
<1>4. pending' \subseteq CsvList
  BY <1>1 DEF SelectFiles, IInv, Recorded
<1>5. TypeOK'
  <2>1. CsvList \subseteq Files
    BY DEF CsvList, Files
  <2> QED BY <1>1, <1>2, <1>4, <2>1 DEF IInv, TypeOK, PCs
<1>6. Control'
  BY <1>1, <1>2 DEF IInv, Control, BeforeTest, AfterTest, Ended
<1>7. Verdict'
  BY <1>1, <1>2 DEF IInv, Verdict, MustRun, BeforeTest
<1>8. Recorded'
  BY <1>1, <1>3, <1>4 DEF IInv, Recorded, BatchOnlyEarned, StatusTruthful, Ended
<1> QED BY <1>5, <1>6, <1>7, <1>8 DEF IInv

\* A row written now carries the verdict of this run, and goes to a pass-only
\* file only when that verdict is a pass.
LEMMA WriteFileKeeps == ASSUME IInv, NEW f \in Files, WriteFile(f) PROVE IInv'
<1>1. /\ pc = "write" /\ pc' = "write" /\ f \in pending /\ pending' = pending \ {f}
      /\ UNCHANGED <<step, run, ran, failed, ctx, final_pass, ctrlOpen, loadOpen,
                     nodeSN, runs, tested, passed>>
      /\ files' = [files EXCEPT ![f] = WriteToCsv(@, ResultRow)]
  BY DEF WriteFile
<1>2. /\ f \in CsvList /\ runs \in 1..MaxRuns
      /\ runs \in passed <=> final_pass
      /\ runs \in tested => (final_pass <=> ctx.test_status = "Pass")
      /\ final_pass => ctx.test_status = "Pass"
  BY <1>1, MaxRunsAssumption DEF IInv, TypeOK, Control, Recorded, AfterTest
<1>3. ResultRow \in Row /\ ResultRow.date = runs /\ ResultRow.status = ctx.test_status
  BY <1>2 DEF IInv, TypeOK, ResultRow, Row, Context
<1>4. ASSUME NEW g \in Files, NEW row \in files'[g]
      PROVE  row \in files[g] \/ (row = ResultRow /\ g = f)
  <2>1. CASE g = f
    BY <1>1, <1>4, <2>1 DEF IInv, TypeOK, WriteToCsv
  <2>2. CASE g # f
    BY <1>1, <1>4, <2>2 DEF IInv, TypeOK
  <2> QED BY <2>1, <2>2
<1>5. TypeOK'
  <2>1. files' \in [Files -> SUBSET Row]
    BY <1>1, <1>3 DEF IInv, TypeOK, WriteToCsv
  <2> QED BY <1>1, <2>1 DEF IInv, TypeOK
<1>6. Control'
  BY <1>1 DEF IInv, Control
<1>7. Verdict'
  BY <1>1 DEF IInv, Verdict, MustRun
<1>8. Recorded'
  <2>1. pending' \subseteq CsvList'
    BY <1>1 DEF IInv, Recorded, CsvList
  <2>2. ASSUME NEW g \in Files, NEW row \in files'[g]
        PROVE  row.date <= runs' /\ pc' \in {"write"} \cup Ended
    <3>1. CASE row \in files[g]
      BY <1>1, <3>1 DEF IInv, Recorded
    <3>2. CASE row = ResultRow
      BY <1>1, <1>2, <1>3, <3>2
    <3> QED BY <1>4, <2>2, <3>1, <3>2
  <2>3. BatchOnlyEarned'
    <3> SUFFICES ASSUME NEW g \in PassOnlyFiles, NEW row \in files'[g]
                 PROVE  row.status = "Pass" /\ row.date \in passed
      BY <1>1 DEF BatchOnlyEarned
    <3>1. CASE row \in files[g]
      BY <3>1 DEF IInv, Recorded, BatchOnlyEarned
    <3>2. CASE row = ResultRow /\ g = f
      <4>1. final_pass
        BY <1>2, <3>2 DEF CsvList, PassOnlyFiles
      <4> QED BY <1>2, <1>3, <3>2, <4>1
    <3> QED BY <1>4, <3>1, <3>2 DEF PassOnlyFiles, Files
  <2>4. StatusTruthful'
    <3> SUFFICES ASSUME NEW g \in Files, NEW row \in files'[g], row.date \in tested
                 PROVE  row.status = "Pass" <=> row.date \in passed
      BY <1>1 DEF StatusTruthful
    <3>1. CASE row \in files[g]
      BY <3>1 DEF IInv, Recorded, StatusTruthful
    <3>2. CASE row = ResultRow
      BY <1>2, <1>3, <3>2
    <3> QED BY <1>4, <3>1, <3>2
  <2> QED BY <1>1, <2>1, <2>2, <2>3, <2>4 DEF Recorded
<1> QED BY <1>5, <1>6, <1>7, <1>8 DEF IInv

\* main returns when every chosen file is written.
LEMMA FinishKeeps == ASSUME IInv, Finish PROVE IInv'
<1>1. pc = "write" /\ pc' = "done" /\ pending = {} /\ UNCHANGED <<step, ctx, procVars, storeVars>>
  BY DEF Finish
<1>2. TypeOK'
  BY <1>1 DEF IInv, TypeOK, procVars, storeVars, PCs, Ended
<1>3. Control'
  BY <1>1 DEF IInv, Control, procVars, storeVars, BeforeTest, AfterTest, Ended
<1>4. Verdict'
  BY <1>1 DEF IInv, Verdict, procVars, MustRun, BeforeTest
<1>5. Recorded'
  BY <1>1 DEF IInv, Recorded, procVars, storeVars, BatchOnlyEarned, StatusTruthful, Ended
<1> QED BY <1>2, <1>3, <1>4, <1>5 DEF IInv

-----------------------------------------------------------------------------
(* The inductive invariant and what follows from it. *)

\* The bench starts with empty records and no process.
LEMMA InitInv == ASSUME Init PROVE IInv
<1>1. run \in LaunchType
  BY LaunchesAssumption DEF Init
<1>2. TypeOK
  <2>1. ctx \in Context
    BY <1>1 DEF Init, Context, Serials, Macs, Revs
  <2>2. nodeSN \in [Units -> Serials] /\ files \in [Files -> SUBSET Row]
    BY DEF Init, Serials
  <2>3. runs \in 0..MaxRuns /\ step \in 1..(NumSteps + 1)
    BY MaxRunsAssumption DEF Init, NumSteps
  <2>4. final_pass \in BOOLEAN /\ ctrlOpen \in BOOLEAN /\ loadOpen \in BOOLEAN
    BY DEF Init
  <2>5. /\ pc \in PCs /\ run \in Launches /\ pending \subseteq Files
        /\ ran \subseteq Steps /\ failed \subseteq ran
        /\ tested \subseteq 1..runs /\ passed \subseteq tested
    BY DEF Init, PCs, Ended
  <2> QED BY <2>1, <2>2, <2>3, <2>4, <2>5 DEF TypeOK
<1>3. Control
  BY DEF Init, Control, BeforeTest, AfterTest, Ended
<1>4. Verdict
  BY DEF Init, Verdict, BeforeTest
<1>5. Recorded
  BY DEF Init, Recorded, BatchOnlyEarned, StatusTruthful, PassOnlyFiles, Files
<1> QED BY <1>2, <1>3, <1>4, <1>5 DEF IInv

\* Every step keeps the invariant.
LEMMA NextInv == ASSUME IInv, [Next]_vars PROVE IInv'
<1>1. CASE \E l \in Launches : Launch(l)
  BY <1>1, LaunchKeeps
<1>2. CASE ParseArgs \/ StartSteps
  BY <1>2, StartKeeps, OpenLoadKeeps DEF StartSteps
<1>3. CASE Subnet \/ Cccv \/ Maxw \/ Load \/ Loads \/ Sensor \/ Pdline \/ Commission \/ Cmd
  BY <1>3, StepNames, ReportKeeps DEF Subnet, Cccv, Maxw, Load, Loads, Sensor, Pdline,
     Commission, Cmd
<1>4. CASE \/ CodeVersion \/ Trigger \/ UpdateDb \/ CaptureIds \/ InitDevice
           \/ SerialNumber \/ BoardVersion \/ DcIn \/ Rs485 \/ Raise \/ EndTest
  BY <1>4, CodeVersionKeeps, TriggerKeeps, UpdateDbKeeps, CaptureIdsKeeps, InitDeviceKeeps,
     SerialNumberKeeps, BoardVersionKeeps, DcInKeeps, Rs485Keeps, RaiseKeeps, EndTestKeeps
<1>5. CASE RecordSteps
  BY <1>5, StopKeeps, SelectFilesKeeps, WriteFileKeeps, FinishKeeps DEF RecordSteps
<1>6. CASE UNCHANGED vars
  <2>1. TypeOK' /\ Control' /\ Verdict'
    BY <1>6 DEF IInv, TypeOK, Control, Verdict, vars, MustRun
  <2>2. Recorded'
    BY <1>6 DEF IInv, Recorded, vars, CsvList, BatchOnlyEarned, StatusTruthful
  <2> QED BY <2>1, <2>2 DEF IInv
<1> QED BY <1>1, <1>2, <1>3, <1>4, <1>5, <1>6 DEF Next, TestSteps, Rest

\* The inductive invariant holds in every reachable state: the theorems below
\* weaken it.
THEOREM Invariance == Spec => []IInv
<1>1. Init => IInv
  BY InitInv
<1>2. IInv /\ [Next]_vars => IInv'
  BY NextInv
<1> QED BY <1>1, <1>2, PTL DEF Spec

\* Every variable of the pipeline keeps its type, whatever is launched.
THEOREM TypeCorrect == Spec => []TypeOK
<1>1. IInv => TypeOK
  BY DEF IInv
<1> QED BY <1>1, Invariance, PTL

\* The verdict of main is the conjunction of the results of all configured
\* steps, for every configuration and for both settings of stop_on_failure.
THEOREM VerdictSound == Spec => []VerdictMatchesSteps
<1>1. IInv => VerdictMatchesSteps
  <2> SUFFICES ASSUME IInv, pc \in AfterTest
               PROVE  final_pass <=> runs \in tested /\ failed = {} /\ MustRun \subseteq ran
    BY DEF VerdictMatchesSteps, AfterTest
  <2>1. final_pass => runs \in tested /\ failed = {} /\ MustRun \subseteq ran
    BY DEF IInv, TypeOK, Control, Verdict
  <2>2. runs \in tested /\ failed = {} => final_pass
    BY DEF IInv, TypeOK, Control, Verdict, Context
  <2> QED BY <2>1, <2>2
<1> QED BY <1>1, Invariance, PTL

\* The batch file and the file of the day hold passing units only.
THEOREM BatchSound == Spec => []BatchOnlyEarned
<1>1. IInv => BatchOnlyEarned
  BY DEF IInv, Recorded
<1> QED BY <1>1, Invariance, PTL

\* The Status column tells the verdict of every run that was really tested.
THEOREM StatusSound == Spec => []StatusTruthful
<1>1. IInv => StatusTruthful
  BY DEF IInv, Recorded
<1> QED BY <1>1, Invariance, PTL

-----------------------------------------------------------------------------
(* Duplicate rows and stopping at a failure: invariants of their own. *)

OneRow(rows) ==
  \A r1, r2 \in rows : r1 # r2 => ~SameSerial(r1, r2) /\ ~SameMac(r1, r2)

\* The duplicate check compares the new row with each row in one direction
\* only; that is enough.
LEMMA WriteToCsvKeepsOneRow ==
  ASSUME NEW rows, NEW new, OneRow(rows)
  PROVE  OneRow(WriteToCsv(rows, new))
<1>1. CASE AlreadyIn(rows, new)
  BY <1>1 DEF WriteToCsv
<1>2. CASE ~AlreadyIn(rows, new)
  <2>1. \A row \in rows : ~SameSerial(row, new) /\ ~SameMac(row, new)
    BY <1>2 DEF AlreadyIn
  <2>2. \A row \in rows : ~SameSerial(new, row) /\ ~SameMac(new, row)
    BY <2>1 DEF SameSerial, SameMac
  <2>3. WriteToCsv(rows, new) = rows \cup {new}
    BY <1>2 DEF WriteToCsv
  <2> QED BY <2>1, <2>2, <2>3 DEF OneRow
<1> QED BY <1>1, <1>2

\* No file ever holds two rows of one unit and revision.
THEOREM UnitsRecordedOnce == Spec => []OneRowPerUnit
<1>1. Init => OneRowPerUnit
  BY DEF Init, OneRowPerUnit
<1>2. TypeOK /\ OneRowPerUnit /\ [Next]_vars => OneRowPerUnit'
  <2> SUFFICES ASSUME TypeOK, OneRowPerUnit, [Next]_vars PROVE OneRowPerUnit'
    OBVIOUS
  <2>1. ASSUME NEW f \in Files, WriteFile(f) PROVE OneRowPerUnit'
    <3>1. files' = [files EXCEPT ![f] = WriteToCsv(files[f], ResultRow)]
      BY <2>1 DEF WriteFile
    <3>2. OneRow(files[f])
      BY DEF OneRowPerUnit, OneRow
    <3>3. OneRow(WriteToCsv(files[f], ResultRow))
      BY <3>2, WriteToCsvKeepsOneRow
    <3>4. \A g \in Files : OneRow(files'[g])
      BY <3>1, <3>3 DEF TypeOK, OneRowPerUnit, OneRow
    <3> QED BY <3>4 DEF OneRowPerUnit, OneRow
  <2>2. CASE files' = files
    BY <2>2 DEF OneRowPerUnit
  <2>3. files' = files \/ \E f \in Files : WriteFile(f)
    BY DEF Next, Launch, ParseArgs, StartSteps, TestSteps, RecordSteps, Rest, vars, storeVars,
       StepFrame, LoadSettings, LoadTestConfig, OpenController, FindNode, OpenLoad, Report,
       CodeVersion, Trigger, UpdateDb, CaptureIds, InitDevice, Subnet, SerialNumber,
       BoardVersion, Cccv, Maxw, Load, Loads, Sensor, Pdline, DcIn, Commission, Cmd, Rs485,
       Raise, EndTest, Stop, SelectFiles, Finish
  <2> QED BY <2>1, <2>2, <2>3
<1> QED BY <1>1, <1>2, TypeCorrect, PTL DEF Spec

\* With stop_on_failure the failing step is the last one of the run.
StopsAtFailure == run.stop /\ failed # {} => pc \notin BeforeTest \cup {"runTest"}

\* A step of runTest that adds a failure leaves runTest if stop_on_failure is set.
LEMMA InRunTest ==
  ASSUME TestSteps
  PROVE  /\ pc = "runTest" /\ run' = run
         /\ \/ failed' = failed
            \/ ~run.stop
            \/ pc' = "stop"
  BY DEF TestSteps, At, Conclude, Continue, Report, CodeVersion, Trigger, UpdateDb,
     CaptureIds, InitDevice, Subnet, SerialNumber, BoardVersion, Cccv, Maxw, Load, Loads,
     Sensor, Pdline, DcIn, Commission, Cmd, Rs485, Raise, EndTest, StepFrame

\* With stop_on_failure, no step gets a result after one has failed.
THEOREM FailFastHolds == Spec => FailFast
<1>1. Init => StopsAtFailure
  BY DEF Init, StopsAtFailure
<1>2. StopsAtFailure /\ [Next]_vars
        => StopsAtFailure' /\ (run.stop /\ failed # {} => ran' \subseteq ran)
  <2> SUFFICES ASSUME StopsAtFailure, [Next]_vars
               PROVE  StopsAtFailure' /\ (run.stop /\ failed # {} => ran' \subseteq ran)
    OBVIOUS
  <2>1. CASE \E l \in Launches : Launch(l)
    BY <2>1 DEF Launch, StopsAtFailure
  <2>2. CASE ParseArgs \/ StartSteps
    BY <2>2 DEF ParseArgs, StartSteps, LoadSettings, LoadTestConfig, OpenController, FindNode,
       OpenLoad, procVars, StopsAtFailure, BeforeTest
  <2>3. CASE TestSteps
    BY <2>3, InRunTest DEF StopsAtFailure, BeforeTest
  <2>4. CASE RecordSteps
    BY <2>4 DEF RecordSteps, Stop, SelectFiles, WriteFile, Finish, procVars, StopsAtFailure,
       BeforeTest
  <2>5. CASE UNCHANGED vars
    BY <2>5 DEF vars, StopsAtFailure
  <2> QED BY <2>1, <2>2, <2>3, <2>4, <2>5 DEF Next, Rest
<1> QED BY <1>1, <1>2, PTL DEF Spec, FailFast

=============================================================================
