--------------------------- MODULE LoadTestProofs ---------------------------
(***************************************************************************)
(* Theorems about the load steps of a test, for any device, configuration, *)
(* readings and number of retries, and their proofs.                       *)
(***************************************************************************)
EXTENDS LoadTest, FiniteSetTheorems, TLAPS

Within == {"relay", "on", "measure", "prompt", "close"}  \* in the inner loop
Selected == Within \ {"relay"}                           \* its relay is set

Results == [mode : {"load", "custom", "standard"}, load : Nat, relay : Nat,
            outcome : {"passed", "error", "aborted", "ignored"}, under : BOOLEAN]

TypeOK ==
  /\ sc \in Scenarios
  /\ pc \in {"begin", "script", "outer", "single", "end", "returned", "crashed"} \cup Within
  /\ mode \in {"none", "load", "custom", "standard"}
  /\ script \in Nat /\ rl \in Nat /\ li \in Nat /\ ri \in Nat
  /\ current \in Nat /\ relay \in Nat \ {NoRelay} /\ retries \in 0..MaxRetries
  /\ output \in BOOLEAN /\ ran_once \in BOOLEAN /\ under \in BOOLEAN
  /\ test_pass \in BOOLEAN /\ verdict \in BOOLEAN
  /\ outcome \in {"none", "passed", "error", "aborted", "ignored"}
  /\ results \subseteq Results
  /\ fails \subseteq Nat /\ refused \in BOOLEAN

(* Which part of the program each caller of test_single_load is in.        *)
Callers ==
  /\ pc = "begin" => mode = "none"
  /\ mode = "none" => /\ pc \in {"begin", "returned"} /\ ~output /\ ~verdict
                      /\ li = 1 /\ current = NoRelay /\ results = {}
  /\ mode = "load" => sc.kind = "load" /\ li = 1
                      /\ pc \notin {"begin", "script", "outer", "end"}
  /\ mode \in {"custom", "standard"} => sc.kind = "loads" /\ sc.loads # <<>>
  /\ mode = "custom" => sc.custom /\ pc \notin {"begin", "outer", "end"}
  /\ mode = "standard" => pc \notin {"begin", "script"}
  /\ mode # "standard" => rl = 1 /\ test_pass
  /\ mode = "standard" /\ pc = "returned" => ~output /\ (verdict => test_pass)

(* The loop variables.                                                     *)
Positions ==
  /\ rl \in 1..Len(sc.relays) /\ (~GeneralSweep => rl = 1)
  /\ pc \in Within \cup {"single"} => li \in 1..Len(sc.loads)
  /\ pc \in Within => /\ Load.valid /\ ri \in 1..Len(InnerRelays)
                      /\ Sweeps(Load) => current # NoRelay
                      /\ mode = "load" => ~Sweeps(Load)
  /\ pc \in Selected => current = InnerRelays[ri] /\ relay = current
  /\ mode = "standard" /\ GeneralSweep /\ pc \in Within \cup {"single"} =>
       current = sc.relays[rl]
  /\ mode = "load" /\ pc = "single" => current = NoRelay
  /\ pc = "end" \/ (mode = "standard" /\ pc = "returned") =>
       (GeneralSweep => rl = Len(sc.relays))

(* The load draws outside its own measurement only if a load may stay on,  *)
(* or when switching it, or a hook of the supernode, raised.               *)
OutputMeans ==
  output =>
    /\ sc.open
    /\ \/ pc \in {"measure", "close"} \/ (pc = "crashed" /\ (refused \/ sc.supernode))
       \/ \E l \in 1..Len(sc.loads) : ~TurnOff(sc.loads[l])

HasMin(load) == load.min \notin {0, NoBound}

(* What passed a minimum was measured with the output on.                  *)
UnderLoad ==
  /\ \A r \in results : r.load \in 1..Len(sc.loads)
  /\ \A r \in results : r.outcome = "passed" /\ HasMin(sc.loads[r.load]) => r.under
  /\ pc = "close" => outcome # "none"
  /\ pc = "close" /\ outcome = "passed" /\ HasMin(Load) => under

(* A window of the load under way failed: on this relay, or on an earlier  *)
(* one and the load is not switched on again.                              *)
FailedBefore == \E r \in fails : r < ri
FailedHere == ri \in fails \/ (~TurnOff(Load) /\ FailedBefore)

(* The output is off only behind a window that failed.                     *)
OffMeans ==
  sc.open /\ ~output =>
    /\ pc \in {"relay", "on"} /\ ran_once /\ ~TurnOff(Load) => FailedBefore
    /\ pc \in {"measure", "prompt", "close"} => FailedHere

(* Whose results there are, and that a load that was not concluded well    *)
(* shows in what is returned.                                              *)
Shown ==
  /\ \A r \in results : r.mode = mode \/ (r.mode = "custom" /\ mode = "standard")
  /\ \A r \in Deciding : \/ r.outcome \in {"passed", "ignored"}
                         \/ pc = "crashed" \/ (mode = "standard" /\ ~test_pass)
                         \/ pc = "returned" /\ ~verdict

(* A load without a sweep setting of its own is measured on the outputs.   *)
OnOutputs ==
  \A r \in results : r.mode # "custom" /\ ~sc.loads[r.load].sweep =>
                       \E i \in DOMAIN sc.relays : r.relay = sc.relays[i]

(* The load has been concluded on an output, by the caller that decides.   *)
Measured(l, x) == \E r \in results : r.mode = mode /\ r.load = l /\ r.relay = x

(* The load is behind in the present pass through the loads; the passes    *)
(* that have concluded it.                                                 *)
Concluded(l) == pc \in {"end", "returned"} \/ (pc # "outer" /\ l < li)
Rounds(l) == IF Concluded(l) THEN rl ELSE rl - 1

(* As long as nothing failed, every load behind has been measured on the   *)
(* outputs gone through.                                                   *)
Counting ==
  /\ mode \in {"load", "standard"} /\ test_pass
  /\ pc # "crashed" /\ (pc = "returned" => verdict)

Swept(l) == GeneralSweep => \A i \in 1..Rounds(l) : Measured(l, sc.relays[i])

Behind(l) ==
  ~GeneralSweep /\ Concluded(l) =>
    IF sc.loads[l].sweep THEN \E r \in results : r.mode = mode /\ r.load = l
    ELSE \A i \in 1..Len(sc.relays) : Measured(l, sc.relays[i])

UnderWay(l) ==
  l = li /\ pc \in Within /\ ~Sweeps(sc.loads[l]) =>
    \A i \in 1..(ri - 1) : Measured(l, sc.relays[i])

Coverage ==
  Counting => \A l \in 1..Len(sc.loads) :
                sc.loads[l].valid => Swept(l) /\ Behind(l) /\ UnderWay(l)

IInv ==
  /\ TypeOK /\ Callers /\ Positions /\ OutputMeans /\ UnderLoad /\ OffMeans
  /\ Shown /\ OnOutputs /\ Coverage
-------------------------------------------------------------------------------
(* What is known of a scenario.                                            *)
LEMMA ScenarioIs ==
  ASSUME TypeOK
  PROVE /\ sc.kind \in {"load", "loads"}
        /\ sc.custom \in BOOLEAN /\ sc.supernode \in BOOLEAN /\ sc.sweep \in BOOLEAN
        /\ sc.off \in BOOLEAN /\ sc.open \in BOOLEAN
        /\ sc.relays \in Seq(Nat \ {NoRelay}) /\ Len(sc.relays) \in Nat \ {0}
        /\ sc.loads \in Seq(Loads) /\ Len(sc.loads) \in Nat
        /\ sc.kind = "load" => Len(sc.loads) = 1
        /\ sc.kind = "loads" /\ sc.custom => Len(sc.loads) # 1
        /\ sc.loads # <<>> => Len(sc.loads) >= 1
  BY ScenariosAssumption DEF TypeOK

(* A relay of the device is not the missing one.                           *)
LEMMA RelayIs ==
  ASSUME TypeOK, NEW i \in 1..Len(sc.relays)
  PROVE sc.relays[i] \in Nat \ {NoRelay}
  BY ScenarioIs

(* A load of the configuration has the settings of a load.                 *)
LEMMA LoadIs ==
  ASSUME TypeOK, NEW l \in 1..Len(sc.loads)
  PROVE sc.loads[l] \in Loads
  BY ScenarioIs

(* The relays of the load under way.                                       *)
LEMMA InnerIs ==
  ASSUME TypeOK, Positions, pc \in Within
  PROVE /\ Len(InnerRelays) \in Nat /\ ri \in 1..Len(InnerRelays)
        /\ InnerRelays[ri] \in Nat \ {NoRelay}
        /\ Sweeps(Load) => InnerRelays = <<current>> /\ Len(InnerRelays) = 1 /\ ri = 1
        /\ ~Sweeps(Load) => InnerRelays = sc.relays
<1>1. CASE Sweeps(Load)
  <2>1. InnerRelays = <<current>> /\ ri \in 1..Len(InnerRelays) /\ current # NoRelay
    BY <1>1 DEF InnerRelays, Positions
  <2>2. current \in Nat
    BY DEF TypeOK
  <2>3. Len(<<current>>) = 1 /\ <<current>>[1] = current
    OBVIOUS
  <2> QED BY <1>1, <2>1, <2>2, <2>3
<1>2. CASE ~Sweeps(Load)
  BY <1>2, RelayIs, ScenarioIs DEF InnerRelays, Positions
<1> QED BY <1>1, <1>2
-------------------------------------------------------------------------------
(* What a step within the inner loop leaves as it is.                      *)
LEMMA InnerKeeps ==
  ASSUME IInv, pc \in Within, pc' \in Within,
         UNCHANGED <<sc, mode, rl, li, ri, test_pass, verdict, results>>
  PROVE Callers' /\ Shown' /\ OnOutputs' /\ Coverage'
<1>1. pc \notin {"begin", "script", "outer", "single", "end", "returned", "crashed"}
      /\ pc' \notin {"begin", "script", "outer", "single", "end", "returned", "crashed"}
  BY DEF Within
<1>2. Callers'
  BY <1>1 DEF IInv, Callers
<1>3. Shown'
  BY <1>1 DEF IInv, Shown, Deciding
<1>4. OnOutputs'
  BY DEF IInv, OnOutputs
<1>5. Coverage'
  <2>1. Counting' => Counting
    BY <1>1 DEF Counting
  <2> SUFFICES ASSUME Counting, NEW l \in 1..Len(sc.loads), sc.loads[l].valid
      PROVE (Swept(l) /\ Behind(l) /\ UnderWay(l))'
    BY <2>1 DEF Coverage
  <2>2. Swept(l) /\ Behind(l) /\ UnderWay(l)
    BY DEF IInv, Coverage
  <2>3. Concluded(l)' = Concluded(l)
    BY <1>1 DEF Concluded
  <2>4. Swept(l)'
    BY <2>2, <2>3 DEF Swept, GeneralSweep, Rounds, Measured
  <2>5. Behind(l)'
    BY <2>2, <2>3 DEF Behind, GeneralSweep, Measured
  <2>6. UnderWay(l)'
    BY <2>2 DEF UnderWay, Sweeps, GeneralSweep, Measured
  <2> QED BY <2>4, <2>5, <2>6
<1> QED BY <1>2, <1>3, <1>4, <1>5

(* The fixture moves to the relay of the loop and the program records it.  *)
LEMMA SelectRelayStep == ASSUME IInv, SelectRelay PROVE IInv'
<1>1. /\ pc = "relay" /\ pc' = "on" /\ current' = InnerRelays[ri]
      /\ relay' = IF InnerRelays[ri] = NoRelay THEN relay ELSE InnerRelays[ri]
      /\ UNCHANGED <<sc, mode, script, rl, li, ri, output, ran_once, outcome, under,
                     retries, test_pass, verdict, results, fails, refused>>
  BY DEF SelectRelay, setRelays, loopVars, resultVars, failVars
<1>2. TypeOK /\ Positions /\ pc \in Within /\ pc' \in Within
  BY <1>1 DEF IInv, Within
<1>3. InnerRelays[ri] \in Nat \ {NoRelay} /\ relay' = InnerRelays[ri]
  BY <1>1, <1>2, InnerIs
<1>4. TypeOK'
  BY <1>1, <1>2, <1>3 DEF TypeOK
<1>5. Positions'
  <2>1. InnerRelays' = InnerRelays
    BY <1>1, <1>2, InnerIs DEF InnerRelays, Sweeps, GeneralSweep, Load
  <2>2. mode = "standard" /\ GeneralSweep => InnerRelays[ri] = sc.relays[rl]
    BY <1>2, InnerIs DEF Positions, Sweeps
  <2> QED BY <1>1, <1>2, <1>3, <2>1, <2>2
      DEF Positions, GeneralSweep, Load, Sweeps, Selected, Within
<1>6. OutputMeans'
  BY <1>1 DEF IInv, OutputMeans, TurnOff, GeneralOff
<1>7. UnderLoad'
  BY <1>1 DEF IInv, UnderLoad
<1>8. OffMeans'
  BY <1>1 DEF IInv, OffMeans, TurnOff, GeneralOff, Load, FailedBefore
<1> QED BY <1>1, <1>2, <1>4, <1>5, <1>6, <1>7, <1>8, InnerKeeps DEF IInv

(* A load that is still off behind this step may stay on and failed before.*)
LEMMA TurnOnStep == ASSUME IInv, TurnOn PROVE IInv'
<1>1. /\ pc = "on" /\ pc' = "measure"
      /\ output' = ((TurnOff(Load) \/ ~ran_once \/ output) /\ sc.open)
      /\ UNCHANGED <<sc, mode, script, rl, li, ri, current, relay, ran_once, outcome,
                     under, retries, test_pass, verdict, results, fails, refused>>
  BY DEF TurnOn, setOutputOn, loopVars, resultVars, failVars
<1>2. TypeOK /\ Positions /\ pc \in Within /\ pc' \in Within
  BY <1>1 DEF IInv, Within
<1>3. TypeOK'
  <2>1. output' \in BOOLEAN
    BY <1>1
  <2> QED BY <1>1, <1>2, <2>1 DEF TypeOK
<1>4. Positions'
  BY <1>1, <1>2
     DEF Positions, GeneralSweep, Load, Sweeps, Selected, Within, InnerRelays
<1>5. OutputMeans'
  BY <1>1 DEF OutputMeans
<1>6. UnderLoad'
  BY <1>1 DEF IInv, UnderLoad
<1>7. OffMeans'
  <2> SUFFICES ASSUME sc.open, ~output'
      PROVE FailedBefore' /\ ~TurnOff(Load)'
    BY <1>1 DEF OffMeans, FailedHere
  <2>1. ~TurnOff(Load) /\ ran_once /\ ~output
    BY <1>1
  <2>2. FailedBefore
    BY <1>1, <2>1 DEF IInv, OffMeans
  <2> QED BY <1>1, <2>1, <2>2 DEF FailedBefore, TurnOff, GeneralOff, Load
<1> QED BY <1>1, <1>2, <1>3, <1>4, <1>5, <1>6, <1>7, InnerKeeps DEF IInv

(* The answer of the operator ends the relay or measures it again.         *)
LEMMA AnswerStep == ASSUME IInv, Answer PROVE IInv'
<1>1. /\ pc = "prompt" /\ retries' \in 0..MaxRetries
      /\ \/ pc' = "close" /\ outcome' \in {"aborted", "ignored"}
         \/ pc' = "measure" /\ outcome' = outcome
      /\ UNCHANGED <<sc, mode, script, rl, li, ri, current, relay, output, ran_once,
                     under, test_pass, verdict, results, fails, refused>>
  <2>1. retries \in 0..MaxRetries /\ MaxRetries \in Nat
    BY MaxRetriesAssumption DEF IInv, TypeOK
  <2> QED BY <2>1 DEF Answer, loopVars, resultVars, benchVars, failVars
<1>2. TypeOK /\ Positions /\ pc \in Within /\ pc' \in Within
  BY <1>1 DEF IInv, Within
<1>3. TypeOK'
  BY <1>1, <1>2 DEF TypeOK
<1>4. Positions'
  BY <1>1, <1>2
     DEF Positions, GeneralSweep, Load, Sweeps, Selected, Within, InnerRelays
<1>5. OutputMeans'
  BY <1>1 DEF IInv, OutputMeans, TurnOff, GeneralOff
<1>6. UnderLoad'
  BY <1>1 DEF IInv, UnderLoad
<1>7. OffMeans'
  BY <1>1 DEF IInv, OffMeans, FailedHere, FailedBefore, TurnOff, GeneralOff, Load
<1> QED BY <1>1, <1>2, <1>3, <1>4, <1>5, <1>6, <1>7, InnerKeeps DEF IInv

(* The median of readings that are all 0.                                  *)
LEMMA MedianOfZeros ==
  ASSUME NEW n \in Nat \ {0}
  PROVE Median([i \in 1..n |-> 0]) = 0
<1> DEFINE z == [i \in 1..n |-> 0]
           Middle(m) == /\ Cardinality({i \in DOMAIN z : z[i] < m}) <= (Len(z) - 1) \div 2
                        /\ Cardinality({i \in DOMAIN z : z[i] <= m}) > (Len(z) - 1) \div 2
<1>1. z \in Seq(Nat) /\ Len(z) = n /\ DOMAIN z = 1..n /\ \A i \in 1..n : z[i] = 0
  OBVIOUS
<1>2. Range(z) = {0}
  <2>1. 1 \in 1..n
    OBVIOUS
  <2> QED BY <1>1, <2>1 DEF Range
<1>3. Middle(0)
  <2>1. {i \in DOMAIN z : z[i] < 0} = {} /\ {i \in DOMAIN z : z[i] <= 0} = 1..n
    BY <1>1
  <2>2. Cardinality({}) = 0 /\ Cardinality(1..n) = n
    <3>1. Cardinality(1..n) = n
      BY FS_Interval
    <3> QED BY <3>1, FS_EmptySet
  <2>3. 0 <= (n - 1) \div 2 /\ n > (n - 1) \div 2
    OBVIOUS
  <2> QED BY <1>1, <2>1, <2>2, <2>3
<1>4. Median(z) = CHOOSE m \in Range(z) : Middle(m)
  BY DEF Median
<1> HIDE DEF Middle, z
<1>5. (CHOOSE m \in Range(z) : Middle(m)) \in Range(z)
  BY <1>2, <1>3
<1> QED BY <1>2, <1>4, <1>5 DEF z

(* A load that does not draw misses every minimum power.                   *)
LEMMA NothingDrawn ==
  ASSUME NEW w \in Windows, NEW load \in Loads, HasMin(load), ~output
  PROVE ~InRange(Readings(w), load)
<1>1. w \in Seq(Nat) /\ Len(w) \in Nat \ {0} /\ DOMAIN w = 1..Len(w)
  BY WindowsAssumption
<1>2. Readings(w) = [i \in 1..Len(w) |-> 0]
  BY <1>1 DEF Readings
<1>3. Median(Readings(w)) = 0
  BY <1>1, <1>2, MedianOfZeros
<1>4. load.min \in Nat /\ load.min # 0 /\ load.min # NoBound
  BY DEF HasMin, Loads
<1>5. Median(Readings(w)) < load.min
  BY <1>3, <1>4
<1> QED BY <1>4, <1>5, Zenon DEF InRange, BelowMin

(* A window passes a minimum power only with the output on.                *)
LEMMA MeasureStep == ASSUME IInv, Measure PROVE IInv'
<1>1. /\ pc = "measure" /\ under' = output
      /\ \/ /\ \E w \in Windows : InRange(Readings(w), Load)
            /\ outcome' = "passed" /\ pc' = "close" /\ UNCHANGED <<output, fails>>
         \/ /\ output' = FALSE /\ pc' = "prompt" /\ outcome' = outcome
            /\ fails' = fails \cup {ri}
         \/ outcome' = "error" /\ pc' = "close" /\ UNCHANGED <<output, fails>>
      /\ UNCHANGED <<sc, mode, script, rl, li, ri, current, relay, ran_once, retries,
                     test_pass, verdict, results, refused>>
  BY DEF Measure, setOutputOn, loopVars, resultVars
<1>2. TypeOK /\ Positions /\ pc \in Within /\ pc' \in Within
  BY <1>1 DEF IInv, Within
<1>3. TypeOK'
  BY <1>1, <1>2 DEF TypeOK
<1>4. Positions'
  BY <1>1, <1>2
     DEF Positions, GeneralSweep, Load, Sweeps, Selected, Within, InnerRelays
<1>5. OutputMeans'
  BY <1>1 DEF IInv, OutputMeans, TurnOff, GeneralOff
<1>6. UnderLoad'
  <2>1. ASSUME outcome' = "passed", pc' = "close", HasMin(Load)
        PROVE under'
    <3>1. PICK w \in Windows : InRange(Readings(w), Load)
      BY <1>1, <2>1
    <3>2. Load \in Loads
      BY <1>2, LoadIs DEF Load, Positions
    <3> QED BY <1>1, <2>1, <3>1, <3>2, NothingDrawn
  <2>2. pc' = "close" => outcome' # "none"
    BY <1>1
  <2>3. HasMin(Load)' <=> HasMin(Load)
    BY <1>1 DEF HasMin, Load
  <2>4. /\ \A r \in results : r.load \in 1..Len(sc.loads)
        /\ \A r \in results : r.outcome = "passed" /\ HasMin(sc.loads[r.load]) => r.under
    BY DEF IInv, UnderLoad
  <2> QED BY <1>1, <2>1, <2>2, <2>3, <2>4 DEF UnderLoad, HasMin
<1>7. OffMeans'
  BY <1>1 DEF IInv, OffMeans, TurnOff, GeneralOff, Load, FailedHere, FailedBefore
<1> QED BY <1>1, <1>2, <1>3, <1>4, <1>5, <1>6, <1>7, InnerKeeps DEF IInv

(* An exception ends the call without a verdict, within the loops or at    *)
(* their end.                                                              *)
LEMMA CrashKeeps ==
  ASSUME IInv, pc \in Within \cup {"end"}, pc' = "crashed",
         output' \in BOOLEAN, current' \in Nat, relay' \in Nat \ {NoRelay},
         refused' \in BOOLEAN,
         output' => sc.open /\ \/ refused' \/ sc.supernode
                               \/ \E l \in 1..Len(sc.loads) : ~TurnOff(sc.loads[l]),
         UNCHANGED <<sc, mode, script, rl, li, ri, ran_once, outcome, under, retries,
                     test_pass, verdict, results, fails>>
  PROVE IInv'
<1>1. pc \notin {"begin", "returned"}
  BY DEF Within
<1>2. TypeOK'
  BY DEF IInv, TypeOK
<1>3. Callers' /\ Positions'
  BY <1>1 DEF IInv, Callers, Positions, GeneralSweep, Selected, Within
<1>4. OutputMeans'
  BY DEF OutputMeans, TurnOff, GeneralOff
<1>5. UnderLoad' /\ OffMeans'
  BY DEF IInv, UnderLoad, OffMeans
<1>6. Shown' /\ OnOutputs'
  BY DEF IInv, Shown, OnOutputs, Deciding
<1>7. Coverage'
  BY DEF Coverage, Counting
<1> QED BY <1>2, <1>3, <1>4, <1>5, <1>6, <1>7 DEF IInv

(* A hook of the supernode raises.                                         *)
LEMMA HookStep == ASSUME IInv, before_load_output_off_raises PROVE IInv'
<1>1. /\ pc = "close" /\ sc.supernode /\ pc' = "crashed"
      /\ UNCHANGED <<sc, mode, script, rl, li, ri, current, relay, output, ran_once,
                     outcome, under, retries, test_pass, verdict, results, fails, refused>>
  BY DEF before_load_output_off_raises, loopVars, benchVars, resultVars, failVars
<1>2. pc \in Within
  BY <1>1 DEF Within
<1> QED BY <1>1, <1>2, CrashKeeps DEF IInv, TypeOK, OutputMeans

(* The setpoint raises: the load draws only if it stayed on.               *)
LEMMA SetpointStep == ASSUME IInv, SetpointRaises PROVE IInv'
<1>1. /\ pc = "relay" /\ pc' = "crashed" /\ current' = InnerRelays[ri]
      /\ relay' = IF InnerRelays[ri] = NoRelay THEN relay ELSE InnerRelays[ri]
      /\ UNCHANGED <<sc, mode, script, rl, li, ri, output, ran_once, outcome, under,
                     retries, test_pass, verdict, results, fails, refused>>
  BY DEF SetpointRaises, setRelays, loopVars, resultVars, failVars
<1>2. TypeOK /\ Positions /\ pc \in Within
  BY <1>1 DEF IInv, Within
<1>3. InnerRelays[ri] \in Nat \ {NoRelay} /\ relay' = InnerRelays[ri]
  BY <1>1, <1>2, InnerIs
<1>4. output => sc.open /\ \E l \in 1..Len(sc.loads) : ~TurnOff(sc.loads[l])
  BY <1>1 DEF IInv, OutputMeans
<1> QED BY <1>1, <1>2, <1>3, <1>4, CrashKeeps DEF TypeOK

(* Switching the load raises, whether or not the load has followed.        *)
LEMMA SwitchStep == ASSUME IInv, SwitchRaises PROVE IInv'
<1>1. /\ sc.open /\ refused' = TRUE /\ pc' = "crashed"
      /\ \E on \in BOOLEAN : AboutToSwitch(on) /\ output' \in {output, on}
      /\ UNCHANGED <<sc, mode, script, rl, li, ri, current, relay, ran_once, outcome,
                     under, retries, test_pass, verdict, results, fails>>
  BY DEF SwitchRaises, loopVars, resultVars
<1>2. pc \in Within \cup {"end"} /\ output' \in BOOLEAN
  BY <1>1 DEF AboutToSwitch, Within, IInv, TypeOK
<1> QED BY <1>1, <1>2, CrashKeeps DEF IInv, TypeOK
-------------------------------------------------------------------------------
(* The steps around the loops.                                             *)

(* The call enters the sequence its configuration selects.                 *)
LEMMA BeginStep == ASSUME IInv, Begin PROVE IInv'
<1>1. /\ pc = "begin" /\ mode = "none" /\ ~output /\ ~verdict
      /\ li = 1 /\ rl = 1 /\ test_pass /\ current = NoRelay /\ results = {}
  BY DEF Begin, IInv, Callers
<1>2. /\ \/ sc.kind = "load" /\ mode' = "load" /\ pc' = "single" /\ verdict' = verdict
         \/ mode' = "none" /\ pc' = "returned" /\ verdict' = FALSE
         \/ /\ sc.kind = "loads" /\ sc.loads # <<>> /\ sc.custom
            /\ mode' = "custom" /\ pc' = "script" /\ verdict' = verdict
         \/ /\ sc.kind = "loads" /\ sc.loads # <<>>
            /\ mode' = "standard" /\ pc' \in {"crashed", "outer"} /\ verdict' = verdict
      /\ UNCHANGED <<sc, script, rl, li, ri, current, relay, output, ran_once, outcome,
                     under, retries, test_pass, results, fails, refused>>
  BY <1>1 DEF Begin, loopVars, benchVars, failVars
<1>3. TypeOK /\ Positions
  BY DEF IInv
<1>4. TypeOK'
  <2>1. /\ mode' \in {"none", "load", "custom", "standard"} /\ verdict' \in BOOLEAN
        /\ pc' \in {"begin", "script", "outer", "single", "end", "returned", "crashed"}
    BY <1>2, <1>3 DEF TypeOK
  <2> QED BY <1>2, <1>3, <2>1 DEF TypeOK
<1>5. Callers'
  BY <1>1, <1>2 DEF Callers
<1>6. Positions'
  <2>1. pc' = "single" => mode' = "load" /\ Len(sc.loads) = 1
    BY <1>2, <1>3, ScenarioIs
  <2>2. pc' \in {"single", "returned", "script", "crashed", "outer"}
        /\ ~(mode' = "standard" /\ pc' = "returned")
    BY <1>2
  <2>3. /\ pc' \notin Within \cup {"end"}
        /\ rl \in 1..Len(sc.relays) /\ (~GeneralSweep => rl = 1)
    BY <1>3, <2>2 DEF Positions, Within
  <2>4. li \in 1..1 /\ UNCHANGED <<sc, rl, li, current>> /\ current = NoRelay
    BY <1>1, <1>2
  <2> QED BY <2>1, <2>2, <2>3, <2>4 DEF Positions, GeneralSweep, Selected
<1>7. OutputMeans' /\ UnderLoad' /\ OffMeans'
  BY <1>1, <1>2 DEF OutputMeans, UnderLoad, OffMeans
<1>8. Shown' /\ OnOutputs'
  BY <1>1, <1>2 DEF Shown, OnOutputs, Deciding
<1>9. Coverage'
  <2> SUFFICES ASSUME Counting', NEW l \in 1..Len(sc.loads)
      PROVE (Swept(l) /\ Behind(l) /\ UnderWay(l))'
    BY <1>2 DEF Coverage
  <2>1. pc' \in {"single", "outer"}
    BY <1>1, <1>2 DEF Counting
  <2>2. ~Concluded(l)' /\ Rounds(l)' = 0
    BY <1>1, <1>2, <2>1 DEF Concluded, Rounds
  <2> QED BY <2>1, <2>2 DEF Swept, Behind, UnderWay, Within
<1> QED BY <1>4, <1>5, <1>6, <1>7, <1>8, <1>9 DEF IInv

(* The battery backup's own sequence, until it ends or falls through.      *)
LEMMA ScriptStep == ASSUME IInv, Script PROVE IInv'
<1>1. pc = "script" /\ mode = "custom" /\ sc.custom /\ sc.kind = "loads"
      /\ sc.loads # <<>> /\ rl = 1 /\ test_pass
  BY DEF Script, IInv, TypeOK, Callers
<1>2. TypeOK /\ Positions
  BY DEF IInv
<1>3. 1 \in 1..Len(sc.loads) /\ 2 \in 1..Len(sc.loads)
  <2> DEFINE n == Len(sc.loads)
  <2>1. n \in Nat /\ n >= 1 /\ n # 1
    BY <1>1, <1>2, ScenarioIs
  <2> HIDE DEF n
  <2>2. 1 \in 1..n /\ 2 \in 1..n
    BY <2>1
  <2> QED BY <2>2 DEF n
<1>4. /\ \/ /\ verdict' = TRUE /\ pc' = "returned" /\ mode' = mode
            /\ UNCHANGED <<script, rl, li, ri>>
         \/ /\ script' = script + 1 /\ UNCHANGED <<pc, mode, rl, li, ri, verdict>>
         \/ /\ mode' = "standard" /\ pc' = "outer" /\ UNCHANGED <<script, rl, li, ri, verdict>>
         \/ /\ li' \in {1, 2} /\ pc' = "single" /\ UNCHANGED <<mode, script, rl, ri, verdict>>
      /\ UNCHANGED <<sc, current, relay, output, ran_once, outcome, under, retries,
                     test_pass, results, fails, refused>>
  BY <1>1 DEF Script, FallThrough, loopVars, benchVars, failVars
<1>5. TypeOK'
  <2>1. /\ mode' \in {"custom", "standard"} /\ verdict' \in BOOLEAN
        /\ pc' \in {"script", "returned", "outer", "single"}
    BY <1>1, <1>2, <1>4 DEF TypeOK
  <2>2. script \in Nat /\ rl \in Nat /\ li \in Nat /\ ri \in Nat
    BY <1>2 DEF TypeOK
  <2>3. script' \in Nat /\ rl' \in Nat /\ li' \in Nat /\ ri' \in Nat
    BY <1>4, <2>2
  <2> QED BY <1>2, <1>4, <2>1, <2>3 DEF TypeOK
<1>6. Callers'
  BY <1>1, <1>4 DEF IInv, Callers
<1>7. Positions'
  BY <1>1, <1>2, <1>3, <1>4 DEF Positions, GeneralSweep, Selected, Within
<1>8. OutputMeans' /\ UnderLoad' /\ OffMeans'
  BY <1>1, <1>4 DEF IInv, OutputMeans, UnderLoad, OffMeans, TurnOff, GeneralOff
<1>9. Shown' /\ OnOutputs'
  BY <1>1, <1>4 DEF IInv, Shown, OnOutputs, Deciding
<1>10. Coverage'
  <2> SUFFICES ASSUME Counting', NEW l \in 1..Len(sc.loads)
      PROVE (Swept(l) /\ Behind(l) /\ UnderWay(l))'
    BY <1>4 DEF Coverage
  <2>1. pc' = "outer"
    BY <1>1, <1>4 DEF Counting
  <2>2. ~Concluded(l)' /\ Rounds(l)' = 0
    BY <1>1, <1>4, <2>1 DEF Concluded, Rounds
  <2> QED BY <2>1, <2>2 DEF Swept, Behind, UnderWay, Within
<1> QED BY <1>5, <1>6, <1>7, <1>8, <1>9, <1>10 DEF IInv

(* A pass through the loads begins, on the relay of the outer loop.        *)
LEMMA OuterStep == ASSUME IInv, Outer PROVE IInv'
<1>1. /\ pc = "outer" /\ pc' = "single" /\ li' = 1
      /\ current' = IF GeneralSweep THEN sc.relays[rl] ELSE current
      /\ relay' = IF current' = NoRelay THEN relay ELSE current'
      /\ UNCHANGED <<sc, mode, script, rl, ri, output, ran_once, outcome, under, retries,
                     test_pass, verdict, results, fails, refused>>
  BY DEF Outer, setRelays, resultVars, failVars
<1>2. TypeOK /\ Positions /\ mode = "standard" /\ sc.loads # <<>>
  BY <1>1 DEF IInv, TypeOK, Callers
<1>3. 1 \in 1..Len(sc.loads) /\ sc.relays[rl] \in Nat \ {NoRelay}
  BY <1>2, ScenarioIs, RelayIs DEF Positions
<1>4. TypeOK'
  BY <1>1, <1>2, <1>3 DEF TypeOK
<1>5. Callers'
  BY <1>1, <1>2 DEF IInv, Callers
<1>6. Positions'
  BY <1>1, <1>2, <1>3 DEF Positions, GeneralSweep, Selected, Within
<1>7. OutputMeans' /\ UnderLoad' /\ OffMeans'
  BY <1>1 DEF IInv, OutputMeans, UnderLoad, OffMeans, TurnOff, GeneralOff
<1>8. Shown' /\ OnOutputs'
  BY <1>1 DEF IInv, Shown, OnOutputs, Deciding
<1>9. Coverage'
  <2> SUFFICES ASSUME Counting', NEW l \in 1..Len(sc.loads), sc.loads[l].valid
      PROVE (Swept(l) /\ Behind(l) /\ UnderWay(l))'
    BY <1>1 DEF Coverage
  <2>1. Swept(l)
    BY <1>1 DEF IInv, Coverage, Counting
  <2>2. ~Concluded(l)' /\ ~Concluded(l) /\ Rounds(l)' = Rounds(l)
    BY <1>1 DEF Concluded, Rounds
  <2>3. Swept(l)'
    BY <1>1, <2>1, <2>2 DEF Swept, GeneralSweep, Measured
  <2> QED BY <1>1, <2>2, <2>3 DEF Behind, UnderWay, Within
<1> QED BY <1>4, <1>5, <1>6, <1>7, <1>8, <1>9 DEF IInv

(* The end of test_loads switches off and returns what was accumulated.    *)
LEMMA EndLoadsStep == ASSUME IInv, EndLoads PROVE IInv'
<1>1. /\ pc = "end" /\ pc' = "returned" /\ output' = FALSE /\ verdict' = test_pass
      /\ UNCHANGED <<sc, mode, script, rl, li, ri, current, relay, ran_once, outcome,
                     under, retries, test_pass, results, fails, refused>>
  BY DEF EndLoads, setOutputOn, loopVars, failVars
<1>2. TypeOK /\ Positions /\ mode = "standard"
  BY <1>1 DEF IInv, TypeOK, Callers
<1>3. TypeOK'
  BY <1>1, <1>2 DEF TypeOK
<1>4. Callers'
  BY <1>1, <1>2 DEF IInv, Callers
<1>5. Positions'
  BY <1>1, <1>2 DEF Positions, GeneralSweep, Selected, Within
<1>6. OutputMeans' /\ UnderLoad' /\ OffMeans'
  BY <1>1 DEF IInv, OutputMeans, UnderLoad, OffMeans
<1>7. Shown' /\ OnOutputs'
  BY <1>1, <1>2 DEF IInv, Shown, OnOutputs, Deciding
<1>8. Coverage'
  <2> SUFFICES ASSUME Counting', NEW l \in 1..Len(sc.loads), sc.loads[l].valid
      PROVE (Swept(l) /\ Behind(l) /\ UnderWay(l))'
    BY <1>1 DEF Coverage
  <2>1. Swept(l) /\ Behind(l)
    BY <1>1 DEF IInv, Coverage, Counting
  <2>2. Concluded(l)' /\ Concluded(l) /\ Rounds(l)' = Rounds(l)
    BY <1>1 DEF Concluded, Rounds
  <2>3. Swept(l)'
    BY <1>1, <2>1, <2>2 DEF Swept, GeneralSweep, Measured
  <2>4. Behind(l)'
    BY <1>1, <2>1, <2>2 DEF Behind, GeneralSweep, Measured
  <2> QED BY <1>1, <2>3, <2>4 DEF UnderWay, Within
<1> QED BY <1>3, <1>4, <1>5, <1>6, <1>7, <1>8 DEF IInv
-------------------------------------------------------------------------------
(* The end of test_single_load.                                            *)

(* The cases of the return, with what each of them leaves as it is.        *)
LEMMA ReturnIs ==
  ASSUME NEW ok \in BOOLEAN, ReturnSingle(ok), TypeOK, Positions, Callers,
         pc \in {"single", "close"}, sc' = sc
  PROVE \/ /\ mode = "load" /\ pc' = "returned" /\ verdict' = ok
           /\ UNCHANGED <<mode, script, rl, li, ri, test_pass>>
        \/ /\ mode = "custom" /\ ok /\ pc' = "script" /\ script' = script + 1
           /\ UNCHANGED <<mode, rl, li, ri, test_pass, verdict>>
        \/ /\ mode = "custom" /\ ~ok /\ pc' = "outer" /\ mode' = "standard"
           /\ UNCHANGED <<script, rl, li, ri, test_pass, verdict>>
        \/ /\ mode = "standard" /\ test_pass' = (test_pass /\ ok)
           /\ \/ /\ li < Len(sc.loads) /\ li' = li + 1 /\ pc' = "single" /\ rl' = rl
              \/ /\ li = Len(sc.loads) /\ GeneralSweep /\ rl < Len(sc.relays)
                 /\ rl' = rl + 1 /\ li' = li /\ pc' = "outer"
              \/ /\ li = Len(sc.loads) /\ (GeneralSweep => rl = Len(sc.relays))
                 /\ rl' = rl /\ li' = li /\ pc' = "end"
           /\ UNCHANGED <<mode, script, ri, verdict>>
  BY DEF ReturnSingle, FallThrough, Accumulate, Advance, loopVars

(* The places it returns to.                                               *)
LEMMA ReturnTyped ==
  ASSUME NEW ok \in BOOLEAN, ReturnSingle(ok), TypeOK, Positions, Callers,
         pc \in {"single", "close"}, sc' = sc
  PROVE /\ pc' \in {"script", "outer", "single", "end", "returned"}
        /\ mode' \in {"load", "custom", "standard"}
        /\ script' \in Nat /\ rl' \in Nat /\ li' \in Nat /\ ri' \in Nat
        /\ test_pass' \in BOOLEAN /\ verdict' \in BOOLEAN
<1>1. /\ script \in Nat /\ rl \in Nat /\ li \in Nat /\ ri \in Nat
      /\ script + 1 \in Nat /\ rl + 1 \in Nat /\ li + 1 \in Nat
      /\ test_pass \in BOOLEAN /\ verdict \in BOOLEAN
      /\ mode \in {"none", "load", "custom", "standard"}
  BY DEF TypeOK
<1> QED BY <1>1, ReturnIs

(* Its callers find their loop variables where they left them.             *)
LEMMA ReturnPlaces ==
  ASSUME NEW ok \in BOOLEAN, ReturnSingle(ok), TypeOK, Positions, Callers,
         pc \in {"single", "close"}, UNCHANGED <<sc, current>>
  PROVE Callers' /\ Positions'
<1>1. /\ rl \in 1..Len(sc.relays) /\ li \in 1..Len(sc.loads)
      /\ Len(sc.relays) \in Nat /\ Len(sc.loads) \in Nat
  BY ScenarioIs DEF Positions, Within
<1>2. Callers'
  BY ReturnIs DEF Callers
<1>3. Positions'
  <2>1. CASE mode = "load"
    BY <1>1, <2>1, ReturnIs DEF Positions, Callers, GeneralSweep, Selected, Within
  <2>2. CASE mode = "custom"
    BY <1>1, <2>2, ReturnIs DEF Positions, Callers, GeneralSweep, Selected, Within
  <2>3. CASE mode = "standard" /\ pc' = "single"
    <3>1. li' \in 1..Len(sc.loads) /\ rl' = rl /\ mode' = "standard"
      BY <1>1, <2>3, ReturnIs
    <3> QED BY <1>1, <2>3, <3>1 DEF Positions, GeneralSweep, Selected, Within
  <2>4. CASE mode = "standard" /\ pc' = "outer"
    <3>1. rl' \in 1..Len(sc.relays) /\ GeneralSweep /\ mode' = "standard"
      BY <1>1, <2>4, ReturnIs
    <3> QED BY <1>1, <2>4, <3>1 DEF Positions, GeneralSweep, Selected, Within
  <2>5. CASE mode = "standard" /\ pc' = "end"
    <3>1. (GeneralSweep => rl = Len(sc.relays)) /\ rl' = rl /\ mode' = "standard"
      BY <1>1, <2>5, ReturnIs
    <3> QED BY <1>1, <2>5, <3>1 DEF Positions, GeneralSweep, Selected, Within
  <2> QED BY <2>1, <2>2, <2>3, <2>4, <2>5, ReturnIs
<1> QED BY <1>2, <1>3

(* Every result but a failed one is good, and a failed one is returned.    *)
LEMMA ReturnShown ==
  ASSUME NEW ok \in BOOLEAN, ReturnSingle(ok), TypeOK, Positions, Callers, Shown,
         pc \in {"single", "close"}, sc' = sc,
         \A r \in results' : \/ r \in results
                             \/ r.mode = mode /\ (r.outcome \in {"passed", "ignored"} \/ ~ok)
  PROVE Shown'
<1>1. \A r \in results' : r.mode = mode \/ (r.mode = "custom" /\ mode = "standard")
  BY DEF Shown
<1>2. \A r \in results' : r.mode = mode =>
        r.outcome \in {"passed", "ignored"} \/ ~ok \/ (mode = "standard" /\ ~test_pass)
  BY DEF Shown, Deciding
<1>3. CASE mode = "custom" /\ ~ok
  BY <1>1, <1>3, ReturnIs DEF Shown, Deciding
<1>4. CASE mode = "custom" /\ ok
  BY <1>1, <1>2, <1>4, ReturnIs DEF Shown, Deciding
<1>5. CASE mode = "load"
  BY <1>1, <1>2, <1>5, ReturnIs DEF Shown, Deciding
<1>6. CASE mode = "standard"
  BY <1>1, <1>2, <1>6, ReturnIs DEF Shown, Deciding
<1> QED BY <1>3, <1>4, <1>5, <1>6, ReturnIs

(* A load that counts and ended well has been measured where it belongs.  *)
LEMMA ReturnCovers ==
  ASSUME NEW ok \in BOOLEAN, ReturnSingle(ok), TypeOK, Positions, Callers, Coverage,
         pc \in {"single", "close"}, sc' = sc, results \subseteq results',
         ok /\ Load.valid /\ Counting =>
           /\ GeneralSweep => \E r \in results' : /\ r.mode = mode /\ r.load = li
                                                  /\ r.relay = sc.relays[rl]
           /\ ~GeneralSweep =>
                IF Load.sweep THEN \E r \in results' : r.mode = mode /\ r.load = li
                ELSE \A i \in 1..Len(sc.relays) :
                       \E r \in results' : /\ r.mode = mode /\ r.load = li
                                           /\ r.relay = sc.relays[i]
  PROVE Coverage'
<1> SUFFICES ASSUME Counting', NEW l \in 1..Len(sc.loads), sc.loads[l].valid
    PROVE (Swept(l) /\ Behind(l) /\ UnderWay(l))'
  BY DEF Coverage
<1>1. /\ rl \in 1..Len(sc.relays) /\ li \in 1..Len(sc.loads)
      /\ Len(sc.relays) \in Nat /\ Len(sc.loads) \in Nat
      /\ ~GeneralSweep => rl = 1
  BY ScenarioIs DEF Positions, Within
<1>2. pc' \notin Within
  BY ReturnTyped DEF Within
<1>3. UnderWay(l)'
  BY <1>2 DEF UnderWay
<1>4. CASE mode = "custom"
  <2>1. pc' = "outer" /\ rl' = 1
    BY <1>4, ReturnIs DEF Counting, Callers
  <2>2. ~Concluded(l)' /\ Rounds(l)' = 0
    BY <2>1 DEF Concluded, Rounds
  <2> QED BY <1>3, <2>2 DEF Swept, Behind
<1>5. CASE mode = "load"
  <2>1. /\ ok /\ l = li /\ sc.kind = "load" /\ ~GeneralSweep /\ mode' = mode /\ li' = li
    <3>1. sc.kind = "load" /\ li = 1
      BY <1>5 DEF Callers
    <3>2. Len(sc.loads) = 1
      BY <3>1, ScenarioIs
    <3>3. pc' = "returned" /\ verdict' = ok /\ mode' = mode /\ li' = li
      BY <1>5, ReturnIs
    <3>4. l = 1
      BY <3>2
    <3> QED BY <3>1, <3>3, <3>4 DEF Counting, GeneralSweep
  <2>2. Swept(l)'
    BY <2>1 DEF Swept, GeneralSweep
  <2>3. Counting
    BY <1>5 DEF Counting, Callers
  <2>4. Behind(l)'
    BY <2>1, <2>3 DEF Behind, Measured, Load
  <2> QED BY <1>3, <2>2, <2>4
<1>6. CASE mode = "standard"
  <2>1. /\ mode' = mode /\ test_pass /\ ok /\ sc.kind = "loads"
        /\ (GeneralSweep <=> GeneralSweep')
    BY <1>6, ReturnIs DEF Counting, Callers, GeneralSweep
  <2>2. Counting
    BY <1>6, <2>1 DEF Counting
  <2>3. Swept(l) /\ Behind(l)
    BY <2>2 DEF Coverage
  <2>4. Concluded(l) <=> l < li
    BY DEF Concluded
  <2>5. Concluded(l)' => l <= li
    BY <1>1, <1>6, ReturnIs DEF Concluded
  <2>6. GeneralSweep /\ l <= li => \A i \in 1..rl : Measured(l, sc.relays[i])'
    <3> SUFFICES ASSUME GeneralSweep, l <= li, NEW i \in 1..rl
        PROVE Measured(l, sc.relays[i])'
      OBVIOUS
    <3>1. CASE l < li \/ i < rl
      <4>1. i \in 1..Rounds(l)
        BY <1>1, <2>4, <3>1 DEF Rounds
      <4> QED BY <2>1, <2>3, <4>1 DEF Swept, Measured
    <3>2. CASE l = li /\ i = rl
      BY <2>1, <2>2, <3>2 DEF Measured, Load
    <3> QED BY <1>1, <3>1, <3>2
  <2>7. GeneralSweep /\ l > li => \A i \in 1..(rl - 1) : Measured(l, sc.relays[i])'
    <3>1. l > li => Rounds(l) = rl - 1
      BY <1>1, <2>4 DEF Rounds
    <3> QED BY <2>1, <2>3, <3>1 DEF Swept, Measured
  <2>8. Rounds(l)' = IF l <= li THEN rl ELSE rl - 1
    BY <1>1, <1>6, ReturnIs DEF Rounds, Concluded
  <2>9. Swept(l)'
    <3>1. \A i \in 1..Rounds(l)' : GeneralSweep => Measured(l, sc.relays[i])'
      BY <1>1, <2>6, <2>7, <2>8
    <3> QED BY <2>1, <3>1 DEF Swept, Measured
  <2>10. Behind(l)'
    <3>1. CASE l < li
      BY <2>1, <2>3, <2>4, <3>1 DEF Behind, Measured
    <3>2. CASE l = li
      BY <2>1, <2>2, <3>2 DEF Behind, Measured, Load
    <3>3. CASE l > li
      BY <1>1, <2>5, <3>3 DEF Behind
    <3> QED BY <1>1, <3>1, <3>2, <3>3
  <2> QED BY <1>3, <2>9, <2>10
<1> QED BY <1>4, <1>5, <1>6, ReturnIs

(* The head of test_single_load: skipped, raised, or the loop begins.      *)
LEMMA SingleStep == ASSUME IInv, Single PROVE IInv'
<1>1. /\ pc = "single"
      /\ UNCHANGED <<sc, current, relay, output, outcome, under, retries, results, refused>>
      /\ fails' = {}
  BY DEF Single, benchVars
<1>2. TypeOK /\ Positions /\ Callers /\ Coverage /\ Shown
  BY DEF IInv
<1>3. CASE ~Load.valid /\ ReturnSingle(TRUE) /\ UNCHANGED ran_once
  <2>1. pc' \in {"script", "outer", "single", "end", "returned"}
    BY <1>1, <1>2, <1>3, ReturnTyped
  <2>2. TypeOK'
    BY <1>1, <1>2, <1>3, ReturnTyped DEF TypeOK
  <2>3. Callers' /\ Positions'
    BY <1>1, <1>2, <1>3, ReturnPlaces
  <2>4. OutputMeans' /\ UnderLoad' /\ OffMeans' /\ OnOutputs'
    BY <1>1, <2>1 DEF IInv, OutputMeans, UnderLoad, OffMeans, OnOutputs, TurnOff, GeneralOff
  <2>5. Shown'
    BY <1>1, <1>2, <1>3, ReturnShown
  <2>6. Coverage'
    BY <1>1, <1>2, <1>3, ReturnCovers
  <2> QED BY <2>2, <2>3, <2>4, <2>5, <2>6 DEF IInv
<1>4. CASE /\ Load.valid /\ pc' = "crashed"
           /\ UNCHANGED <<mode, loopVars, ran_once, test_pass, verdict>>
  <2>1. TypeOK'
    BY <1>1, <1>2, <1>4 DEF TypeOK, loopVars
  <2>2. Callers' /\ Positions'
    BY <1>1, <1>2, <1>4 DEF Callers, Positions, GeneralSweep, Selected, Within, loopVars
  <2>3. OutputMeans' /\ UnderLoad' /\ OffMeans' /\ OnOutputs'
    BY <1>1, <1>4
       DEF IInv, OutputMeans, UnderLoad, OffMeans, OnOutputs, TurnOff, GeneralOff
  <2>4. Shown' /\ Coverage'
    BY <1>1, <1>2, <1>4 DEF Shown, Deciding, Coverage, Counting
  <2> QED BY <2>1, <2>2, <2>3, <2>4 DEF IInv
<1>5. CASE /\ Load.valid /\ (Sweeps(Load) => current # NoRelay)
           /\ ri' = 1 /\ ran_once' = FALSE /\ pc' = "relay"
           /\ UNCHANGED <<mode, script, rl, li, test_pass, verdict>>
  <2>1. TypeOK'
    BY <1>1, <1>2, <1>5 DEF TypeOK, Within
  <2>2. Callers'
    BY <1>1, <1>2, <1>5 DEF Callers
  <2>3. Positions'
    <3>1. InnerRelays' = InnerRelays /\ 1 \in 1..Len(InnerRelays)
      <4>1. InnerRelays' = InnerRelays
        BY <1>1, <1>5 DEF InnerRelays, Sweeps, GeneralSweep, Load
      <4>2. Len(<<current>>) = 1 /\ Len(sc.relays) \in Nat \ {0}
        BY <1>2, ScenarioIs
      <4>3. Len(InnerRelays) \in Nat \ {0}
        BY <4>2 DEF InnerRelays
      <4> QED BY <4>1, <4>3
    <3> QED BY <1>1, <1>2, <1>5, <3>1
        DEF Positions, GeneralSweep, Sweeps, Load, Selected, Within
  <2>4. OutputMeans' /\ UnderLoad' /\ OffMeans' /\ OnOutputs'
    BY <1>1, <1>5
       DEF IInv, OutputMeans, UnderLoad, OffMeans, OnOutputs, TurnOff, GeneralOff
  <2>5. Shown'
    BY <1>1, <1>2, <1>5 DEF Shown, Deciding
  <2>6. Coverage'
    <3> SUFFICES ASSUME Counting', NEW l \in 1..Len(sc.loads), sc.loads[l].valid
        PROVE (Swept(l) /\ Behind(l) /\ UnderWay(l))'
      BY <1>1 DEF Coverage
    <3>1. Swept(l) /\ Behind(l)
      BY <1>1, <1>2, <1>5 DEF Coverage, Counting
    <3>2. (Concluded(l)' <=> Concluded(l)) /\ Rounds(l)' = Rounds(l)
      BY <1>1, <1>5 DEF Concluded, Rounds
    <3>3. Swept(l)' /\ Behind(l)'
      BY <1>1, <1>5, <3>1, <3>2 DEF Swept, Behind, GeneralSweep, Measured
    <3> QED BY <1>5, <3>3 DEF UnderWay
  <2> QED BY <2>1, <2>2, <2>3, <2>4, <2>5, <2>6 DEF IInv
<1> QED BY <1>3, <1>4, <1>5 DEF Single

(* A relay of a load is concluded.                                         *)
LEMMA CloseRelayStep == ASSUME IInv, CloseRelay PROVE IInv'
<1> DEFINE new == [mode |-> mode, load |-> li, relay |-> relay,
                   outcome |-> outcome, under |-> under]
<1>1. /\ pc = "close" /\ output' = (output /\ ~TurnOff(Load))
      /\ results' = results \cup {new}
      /\ UNCHANGED <<sc, current, relay, outcome, under, retries, fails, refused>>
  BY DEF CloseRelay, OffAfter, failVars
<1>2. TypeOK /\ Positions /\ Callers /\ Coverage /\ Shown /\ pc \in Within
  BY <1>1 DEF IInv, Within
<1>3. /\ li \in 1..Len(sc.loads) /\ Load.valid /\ mode \in {"load", "custom", "standard"}
      /\ relay = InnerRelays[ri] /\ relay = current /\ outcome # "none"
      /\ ri \in 1..Len(InnerRelays) /\ Len(InnerRelays) \in Nat
      /\ Sweeps(Load) => InnerRelays = <<current>> /\ Len(InnerRelays) = 1 /\ ri = 1
      /\ ~Sweeps(Load) => InnerRelays = sc.relays
  <2>1. mode # "none" /\ outcome # "none"
    BY <1>1 DEF IInv, Callers, UnderLoad
  <2>2. /\ li \in 1..Len(sc.loads) /\ Load.valid
        /\ relay = InnerRelays[ri] /\ relay = current
    BY <1>1, <1>2 DEF Positions, Selected, Within
  <2> QED BY <1>2, <2>1, <2>2, InnerIs DEF TypeOK
<1>4. new \in Results /\ results' \subseteq Results
  <2>1. new \in Results
    BY <1>2, <1>3 DEF TypeOK, Results
  <2> HIDE DEF new
  <2> QED BY <1>1, <1>2, <2>1 DEF TypeOK
<1>5. \A r \in results' : r.load \in 1..Len(sc.loads)
      /\ (r.outcome = "passed" /\ HasMin(sc.loads[r.load]) => r.under)
  <2>1. new.load \in 1..Len(sc.loads)
        /\ (new.outcome = "passed" /\ HasMin(sc.loads[new.load]) => new.under)
    BY <1>1, <1>3 DEF IInv, UnderLoad, Load
  <2> QED BY <1>1, <2>1 DEF IInv, UnderLoad
<1>6. OnOutputs'
  <2>1. ASSUME mode # "custom", ~sc.loads[li].sweep
        PROVE \E i \in DOMAIN sc.relays : relay = sc.relays[i]
    <3>1. CASE Sweeps(Load)
      <4>1. GeneralSweep
        BY <2>1, <3>1 DEF Sweeps, Load
      <4>2. mode = "standard"
        BY <1>2, <1>3, <2>1, <4>1 DEF Callers, GeneralSweep
      <4>3. relay = sc.relays[rl] /\ rl \in 1..Len(sc.relays)
        BY <1>2, <1>3, <4>1, <4>2 DEF Positions
      <4> QED BY <1>2, <4>3, ScenarioIs
    <3>2. CASE ~Sweeps(Load)
      <4>1. Len(sc.relays) \in Nat /\ DOMAIN sc.relays = 1..Len(sc.relays)
        BY <1>2, ScenarioIs
      <4>2. relay = sc.relays[ri] /\ ri \in DOMAIN sc.relays
        BY <1>3, <3>2, <4>1
      <4> QED BY <4>2
    <3> QED BY <3>1, <3>2
  <2>2. new.mode # "custom" /\ ~sc.loads[new.load].sweep =>
          \E i \in DOMAIN sc.relays : new.relay = sc.relays[i]
    BY <2>1
  <2> QED BY <1>1, <2>2 DEF IInv, OnOutputs
<1>7. OutputMeans'
  <2>1. output' => \E l \in 1..Len(sc.loads) : ~TurnOff(sc.loads[l])
    BY <1>1, <1>3 DEF Load
  <2> QED BY <1>1, <2>1 DEF IInv, OutputMeans, TurnOff, GeneralOff
<1>8. output' \in BOOLEAN
  BY <1>1
<1>9. \A r \in results' : \/ r \in results
                          \/ r.mode = mode /\ r.outcome = outcome
  BY <1>1
<1>10. CASE /\ outcome = "error" /\ pc' = "crashed"
            /\ UNCHANGED <<mode, loopVars, ran_once, test_pass, verdict>>
  <2>1. TypeOK'
    BY <1>1, <1>2, <1>4, <1>8, <1>10 DEF TypeOK, loopVars
  <2>2. Callers' /\ Positions'
    BY <1>1, <1>2, <1>3, <1>10
       DEF Callers, Positions, GeneralSweep, Selected, Within, loopVars
  <2>3. UnderLoad' /\ OffMeans'
    BY <1>1, <1>5, <1>10 DEF UnderLoad, OffMeans, HasMin
  <2>4. Shown' /\ Coverage'
    BY <1>1, <1>2, <1>9, <1>10 DEF Shown, Deciding, Coverage, Counting
  <2> QED BY <1>6, <1>7, <2>1, <2>2, <2>3, <2>4 DEF IInv
<1>11. ASSUME NEW ok \in BOOLEAN, ReturnSingle(ok), ran_once' \in BOOLEAN,
              ok => outcome \in {"passed", "ignored"} /\ ri = Len(InnerRelays)
       PROVE IInv'
  <2>1. pc' \in {"script", "outer", "single", "end", "returned"}
    BY <1>1, <1>2, <1>11, ReturnTyped
  <2>2. TypeOK'
    BY <1>1, <1>2, <1>4, <1>8, <1>11, ReturnTyped DEF TypeOK
  <2>3. Callers' /\ Positions'
    BY <1>1, <1>2, <1>11, ReturnPlaces
  <2>4. UnderLoad' /\ OffMeans'
    BY <1>1, <1>5, <2>1 DEF UnderLoad, OffMeans, HasMin
  <2>5. Shown'
    <3>1. \A r \in results' : \/ r \in results
                              \/ r.mode = mode
                                 /\ (r.outcome \in {"passed", "ignored"} \/ ~ok)
      BY <1>9, <1>11
    <3> QED BY <1>1, <1>2, <1>11, <3>1, ReturnShown
  <2>6. Coverage'
    <3>1. ASSUME ok, Counting, GeneralSweep
          PROVE \E r \in results' : r.mode = mode /\ r.load = li /\ r.relay = sc.relays[rl]
      <4>1. mode = "standard"
        BY <1>2, <3>1 DEF Counting, Callers, GeneralSweep
      <4>2. new.relay = sc.relays[rl] /\ new.mode = mode /\ new.load = li
        BY <1>2, <1>3, <3>1, <4>1 DEF Positions
      <4> QED BY <1>1, <4>2
    <3>2. ASSUME ok, Counting, ~GeneralSweep
          PROVE IF Load.sweep THEN \E r \in results' : r.mode = mode /\ r.load = li
                ELSE \A i \in 1..Len(sc.relays) :
                       \E r \in results' : r.mode = mode /\ r.load = li
                                           /\ r.relay = sc.relays[i]
      <4>1. new \in results' /\ new.mode = mode /\ new.load = li /\ new.relay = relay
        BY <1>1
      <4>2. CASE Load.sweep
        BY <4>1, <4>2
      <4>3. CASE ~Load.sweep
        <5>1. ~Sweeps(Load) /\ InnerRelays = sc.relays /\ ri = Len(sc.relays)
          BY <1>3, <1>11, <3>2, <4>3 DEF Sweeps
        <5>2. \A i \in 1..(ri - 1) : Measured(li, sc.relays[i])
          BY <1>2, <1>3, <3>2, <5>1 DEF Coverage, UnderWay, Load
        <5>3. ASSUME NEW i \in 1..Len(sc.relays)
              PROVE \E r \in results' : r.mode = mode /\ r.load = li
                                        /\ r.relay = sc.relays[i]
          <6>1. CASE i = ri
            BY <1>3, <4>1, <5>1, <6>1
          <6>2. CASE i # ri
            <7>1. Measured(li, sc.relays[i])
              BY <1>3, <5>1, <5>2, <6>2
            <7> QED BY <1>1, <7>1 DEF Measured
          <6> QED BY <6>1, <6>2
        <5> QED BY <4>3, <5>3
      <4> QED BY <4>2, <4>3
    <3>3. results \subseteq results'
      BY <1>1
    <3> HIDE DEF new
    <3> QED BY <1>1, <1>2, <1>11, <3>1, <3>2, <3>3, ReturnCovers
  <2> QED BY <1>6, <1>7, <2>2, <2>3, <2>4, <2>5, <2>6 DEF IInv
<1>12. CASE /\ outcome \in {"passed", "ignored"} /\ ran_once' = TRUE
            /\ ri < Len(InnerRelays) /\ ri' = ri + 1 /\ pc' = "relay"
            /\ UNCHANGED <<mode, script, rl, li, test_pass, verdict>>
  <2>1. ri \in Nat /\ ri + 1 \in 1..Len(InnerRelays) /\ ri + 1 \in Nat /\ ~Sweeps(Load)
    BY <1>3, <1>12
  <2>2. TypeOK'
    BY <1>1, <1>2, <1>4, <1>8, <1>12, <2>1 DEF TypeOK, Within
  <2>3. Callers'
    BY <1>1, <1>2, <1>3, <1>12 DEF Callers
  <2>4. Positions'
    <3>1. InnerRelays' = InnerRelays
      BY <1>1, <1>12 DEF InnerRelays, Sweeps, GeneralSweep, Load
    <3> QED BY <1>1, <1>2, <1>12, <2>1, <3>1
        DEF Positions, GeneralSweep, Sweeps, Load, Selected, Within
  <2>5. UnderLoad'
    BY <1>1, <1>5, <1>12 DEF UnderLoad, HasMin
  <2>6. OffMeans'
    <3> SUFFICES ASSUME sc.open, ~output', ~TurnOff(Load)
        PROVE FailedBefore'
      BY <1>1, <1>12 DEF OffMeans, TurnOff, GeneralOff, Load
    <3>1. FailedHere
      BY <1>1 DEF IInv, OffMeans
    <3>2. ri < ri + 1 /\ \A r \in fails : r < ri => r < ri + 1
      BY <1>2, <2>1 DEF TypeOK
    <3> QED BY <1>1, <1>12, <3>1, <3>2 DEF FailedHere, FailedBefore
  <2>7. Shown'
    BY <1>1, <1>2, <1>9, <1>12 DEF Shown, Deciding
  <2>8. Coverage'
    <3> SUFFICES ASSUME Counting', NEW l \in 1..Len(sc.loads), sc.loads[l].valid
        PROVE (Swept(l) /\ Behind(l) /\ UnderWay(l))'
      BY <1>1 DEF Coverage
    <3>1. Swept(l) /\ Behind(l) /\ UnderWay(l)
      BY <1>1, <1>2, <1>12 DEF Coverage, Counting
    <3>2. (Concluded(l)' <=> Concluded(l)) /\ Rounds(l)' = Rounds(l)
      BY <1>1, <1>12 DEF Concluded, Rounds
    <3>3. results \subseteq results' /\ new \in results' /\ new.mode = mode
          /\ new.load = li /\ new.relay = relay
      BY <1>1
    <3> HIDE DEF new
    <3>4. Swept(l)' /\ Behind(l)'
      BY <1>1, <1>12, <3>1, <3>2, <3>3 DEF Swept, Behind, GeneralSweep, Measured
    <3>5. UnderWay(l)'
      <4> SUFFICES ASSUME l = li, ~Sweeps(Load), NEW i \in 1..ri
          PROVE Measured(l, sc.relays[i])'
        BY <1>1, <1>12, <2>1 DEF UnderWay, Sweeps, GeneralSweep, Load
      <4>1. CASE i = ri
        <5>1. relay = sc.relays[i]
          BY <1>3, <2>1, <4>1
        <5> QED BY <1>1, <1>12, <3>3, <5>1 DEF Measured
      <4>2. CASE i # ri
        <5>1. Measured(l, sc.relays[i])
          BY <1>2, <2>1, <3>1, <4>2 DEF UnderWay, Load
        <5> QED BY <1>1, <1>12, <3>3, <5>1 DEF Measured
      <4> QED BY <4>1, <4>2
    <3> QED BY <3>4, <3>5
  <2> QED BY <1>6, <1>7, <2>2, <2>3, <2>4, <2>5, <2>6, <2>7, <2>8 DEF IInv
<1>13. ran_once' \in BOOLEAN
  BY <1>2 DEF CloseRelay, TypeOK
<1>14. \/ outcome = "error" /\ pc' = "crashed"
            /\ UNCHANGED <<mode, loopVars, ran_once, test_pass, verdict>>
       \/ outcome = "aborted" /\ ReturnSingle(FALSE)
       \/ /\ outcome \in {"passed", "ignored"} /\ ran_once' = TRUE
          /\ \/ /\ ri < Len(InnerRelays) /\ ri' = ri + 1 /\ pc' = "relay"
                /\ UNCHANGED <<mode, script, rl, li, test_pass, verdict>>
             \/ ri = Len(InnerRelays) /\ ReturnSingle(TRUE)
  <2>1. ~(ri < Len(InnerRelays)) => ri = Len(InnerRelays)
    BY <1>3
  <2> QED BY <2>1, Zenon DEF CloseRelay
<1> QED BY <1>10, <1>11, <1>12, <1>13, <1>14
-------------------------------------------------------------------------------
(* The invariant.                                                          *)

(* Nothing has been measured when a call begins.                           *)
LEMMA InitHolds == Init => IInv
<1> SUFFICES ASSUME Init PROVE IInv
  OBVIOUS
<1>1. TypeOK
  <2>1. 0 \in 0..MaxRetries /\ 2 \in Nat \ {NoRelay} /\ NoRelay \in Nat
    BY MaxRetriesAssumption DEF NoRelay
  <2> QED BY <2>1 DEF Init, TypeOK
<1>2. Callers
  BY DEF Init, Callers
<1>3. Positions
  <2>1. Len(sc.relays) \in Nat \ {0}
    BY <1>1, ScenarioIs
  <2> QED BY <2>1 DEF Init, Positions, Selected, Within
<1>4. OutputMeans /\ UnderLoad /\ OffMeans
  BY DEF Init, OutputMeans, UnderLoad, OffMeans
<1>5. Shown /\ OnOutputs
  BY DEF Init, Shown, OnOutputs, Deciding
<1>6. Coverage
  BY DEF Init, Coverage, Counting
<1> QED BY <1>1, <1>2, <1>3, <1>4, <1>5, <1>6 DEF IInv

(* No action of the program leaves it, nor does a stuttering step.         *)
LEMMA StepKeeps == IInv /\ [Next]_vars => IInv'
<1> SUFFICES ASSUME IInv, [Next]_vars PROVE IInv'
  OBVIOUS
<1>1. CASE UNCHANGED vars
  <2>1. UNCHANGED <<sc, pc, mode, script, rl, li, ri, current, relay, output, ran_once,
                    outcome, under, retries, test_pass, verdict, results, fails, refused>>
    BY <1>1 DEF vars, loopVars, benchVars, resultVars, failVars
  <2>2. TypeOK' /\ Callers' /\ Positions'
    BY <2>1 DEF IInv, TypeOK, Callers, Positions, GeneralSweep, InnerRelays, Sweeps, Load
  <2>3. OutputMeans' /\ UnderLoad' /\ OffMeans'
    BY <2>1 DEF IInv, OutputMeans, UnderLoad, OffMeans, FailedHere, FailedBefore, TurnOff,
                GeneralOff, Load
  <2>4. Shown' /\ OnOutputs'
    BY <2>1 DEF IInv, Shown, OnOutputs, Deciding
  <2>5. Coverage'
    BY <2>1 DEF IInv, Coverage, Counting, Swept, Behind, UnderWay, Rounds, Concluded,
                Measured, GeneralSweep, Sweeps
  <2> QED BY <2>2, <2>3, <2>4, <2>5 DEF IInv
<1> QED BY <1>1, BeginStep, ScriptStep, OuterStep, SingleStep, SelectRelayStep, TurnOnStep,
           MeasureStep, AnswerStep, HookStep, CloseRelayStep, EndLoadsStep,
           SetpointStep, SwitchStep DEF Next, Done

(* The nested loops, the callers of test_single_load and the electronic    *)
(* load stay related as IInv says, whatever is configured and answered.    *)
THEOREM Invariance == Spec => []IInv
BY InitHolds, StepKeeps, PTL DEF Spec

(* The loop variables, the fixture and the verdicts keep their types.      *)
THEOREM TypeCorrect == Spec => []TypeOK
<1>1. IInv => TypeOK
  BY DEF IInv
<1> QED BY <1>1, Invariance, PTL
-------------------------------------------------------------------------------
(* What the invariant promises.                                            *)

(* The counting of the invariant is full coverage at the end.              *)
LEMMA CoversAll == IInv => FullCoverage
<1> SUFFICES ASSUME IInv, pc = "returned", verdict
    PROVE /\ \A r \in Deciding : r.outcome \in {"passed", "ignored"}
          /\ mode \in {"load", "standard"} =>
               \A l \in 1..Len(sc.loads) :
                 sc.loads[l].valid =>
                   LET seen == {r.relay : r \in {r \in Deciding : r.load = l}}
                   IN IF sc.loads[l].sweep THEN seen # {}
                      ELSE seen = {sc.relays[i] : i \in DOMAIN sc.relays}
  BY DEF FullCoverage
<1>1. TypeOK /\ Callers /\ Positions /\ Coverage /\ Shown /\ OnOutputs
  BY DEF IInv
<1>2. \A r \in Deciding : r.outcome \in {"passed", "ignored"}
  BY <1>1 DEF Shown, Callers
<1>3. ASSUME mode \in {"load", "standard"}, NEW l \in 1..Len(sc.loads), sc.loads[l].valid
      PROVE LET seen == {r.relay : r \in {r \in Deciding : r.load = l}}
            IN IF sc.loads[l].sweep THEN seen # {}
               ELSE seen = {sc.relays[i] : i \in DOMAIN sc.relays}
  <2> DEFINE seen == {r.relay : r \in {r \in Deciding : r.load = l}}
  <2>1. Len(sc.relays) \in Nat \ {0} /\ DOMAIN sc.relays = 1..Len(sc.relays)
    BY <1>1, ScenarioIs
  <2>2. Counting
    BY <1>1, <1>3 DEF Counting, Callers
  <2>3. Swept(l) /\ Behind(l)
    BY <1>1, <1>3, <2>2 DEF Coverage
  <2>4. Concluded(l) /\ Rounds(l) = rl
    BY DEF Concluded, Rounds
  <2>5. GeneralSweep => rl = Len(sc.relays)
    BY <1>1, <1>3 DEF GeneralSweep, Callers, Positions
  <2>6. \A x : Measured(l, x) => x \in seen
    BY DEF Measured, Deciding
  <2>7. ASSUME GeneralSweep \/ ~sc.loads[l].sweep
        PROVE \A i \in 1..Len(sc.relays) : sc.relays[i] \in seen
    <3>1. CASE GeneralSweep
      BY <2>3, <2>4, <2>5, <2>6, <3>1 DEF Swept
    <3>2. CASE ~GeneralSweep
      BY <2>3, <2>4, <2>6, <2>7, <3>2 DEF Behind
    <3> QED BY <3>1, <3>2
  <2>8. CASE sc.loads[l].sweep
    <3>1. CASE GeneralSweep
      <4>1. 1 \in 1..Len(sc.relays)
        BY <2>1
      <4> QED BY <2>7, <2>8, <3>1, <4>1
    <3>2. CASE ~GeneralSweep
      <4>1. PICK r \in results : r.mode = mode /\ r.load = l
        BY <2>3, <2>4, <2>8, <3>2 DEF Behind
      <4>2. r.relay \in seen
        BY <4>1 DEF Deciding
      <4> QED BY <2>8, <4>2
    <3> QED BY <3>1, <3>2
  <2>9. CASE ~sc.loads[l].sweep
    <3>1. \A x \in seen : \E i \in DOMAIN sc.relays : x = sc.relays[i]
      BY <1>1, <1>3, <2>9 DEF Deciding, OnOutputs
    <3>2. \A i \in DOMAIN sc.relays : sc.relays[i] \in seen
      BY <2>1, <2>7, <2>9
    <3> HIDE DEF seen
    <3>3. seen = {sc.relays[i] : i \in DOMAIN sc.relays}
      BY <3>1, <3>2
    <3> QED BY <2>9, <3>3 DEF seen
  <2> QED BY <2>8, <2>9
<1> QED BY <1>2, <1>3

(* A call of test_single_load or test_loads that returns TRUE has measured *)
(* every load it had to on every output of the device, in either nesting   *)
(* of the relay loops, and no load that failed is lost in the verdict.     *)
THEOREM EveryLoadIsMeasured == Spec => []FullCoverage
BY Invariance, CoversAll, PTL

(* However the loads are configured, the electronic load is left drawing   *)
(* only where the settings keep it on, or where an exception in switching  *)
(* it or in a hook of the supernode ended the call.                        *)
THEOREM OutputIsOff == Spec => []OutputOffAtEnd
<1>1. IInv => OutputOffAtEnd
  <2> SUFFICES ASSUME IInv, pc \in {"returned", "crashed"}, output
      PROVE \/ pc = "crashed" /\ (refused \/ sc.supernode)
            \/ /\ pc = "crashed" \/ mode \in {"load", "custom"}
               /\ \E l \in 1..Len(sc.loads) : ~TurnOff(sc.loads[l])
    BY DEF OutputOffAtEnd
  <2>1. \/ pc = "crashed" /\ (refused \/ sc.supernode)
        \/ \E l \in 1..Len(sc.loads) : ~TurnOff(sc.loads[l])
    BY DEF IInv, OutputMeans
  <2>2. pc = "crashed" \/ mode \in {"load", "custom"}
    BY DEF IInv, Callers, TypeOK
  <2> QED BY <2>1, <2>2
<1> QED BY <1>1, Invariance, PTL

(* A load is not passed on a minimum power that it cannot have drawn: the  *)
(* readings of a load that is off are 0, and so is their median.           *)
THEOREM MinimumIsDrawn == Spec => []MinimumUnderLoad
<1>1. IInv => MinimumUnderLoad
  BY DEF IInv, UnderLoad, MinimumUnderLoad, HasMin
<1> QED BY <1>1, Invariance, PTL

(* A relay is measured with the output off only behind a failed window: of *)
(* the relay itself, or of an earlier one of the same load, if that load   *)
(* may stay on.                                                            *)
THEOREM MeasuredOff == Spec => []OffOnlyAfterFailure
<1>1. IInv => OffOnlyAfterFailure
  BY DEF IInv, OffMeans, FailedHere, FailedBefore, OffOnlyAfterFailure
<1> QED BY <1>1, Invariance, PTL

(* Only a relay step moves the relays, and the load draws there only if    *)
(* the settings let one of the loads stay on.                              *)
LEMMA NoHotStep ==
  IInv /\ [Next]_vars =>
    [relay' # relay /\ output => \E l \in 1..Len(sc.loads) : ~TurnOff(sc.loads[l])]_vars
<1> SUFFICES ASSUME IInv, Next, relay' # relay, output
    PROVE \E l \in 1..Len(sc.loads) : ~TurnOff(sc.loads[l])
  BY Zenon
<1>1. pc \in {"outer", "relay"}
  BY DEF Next, Begin, Script, Outer, Single, SelectRelay, TurnOn, Measure, Answer,
         before_load_output_off_raises, CloseRelay, EndLoads, SetpointRaises,
         SwitchRaises, Done, vars, benchVars
<1> QED BY <1>1 DEF IInv, OutputMeans

(* The fixture never switches its relays under current unless a load is    *)
(* configured to stay on.                                                  *)
THEOREM RelaysMoveCold == Spec => NoHotSwitch
<1>1. Spec => [][Next]_vars
  BY DEF Spec
<1> QED BY <1>1, Invariance, NoHotStep, PTL DEF NoHotSwitch

=============================================================================
