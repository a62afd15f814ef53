------------------------------ MODULE LoadTest ------------------------------
(***************************************************************************)
(* The load steps of a test: tests/load_test.py (test_loads,               *)
(* test_single_load, moving_power_check) with the procedures it calls back *)
(* (classic, battery backup, and of the supernode's what can raise), the   *)
(* electronic load of load_mach.py and the operator's answers.  A run is   *)
(* one call of test_single_load ('load' in the configuration) or of        *)
(* test_loads ('loads').                                                   *)
(*                                                                         *)
(* A measurement window is a sequence of power readings.  The node's output*)
(* decides the readings while the load draws; a load that is switched off, *)
(* or was never opened, reads 0.                                           *)
(***************************************************************************)
EXTENDS Naturals, SequencesExt

CONSTANTS
  Scenarios,    \* the calls tried: device, configuration and bench
  Windows,      \* readings the node can cause while the load draws
  MaxRetries    \* bound: answers 'retry' of the operator

ASSUME MaxRetriesAssumption == MaxRetries \in Nat
ASSUME WindowsAssumption == Windows \subseteq Seq(Nat) \ {<<>>}

NoRelay == 0        \* ctx.current_relay before any relay was selected
NoBound == 99       \* 'power' or 'below_power' missing from a load

Loads == [valid : BOOLEAN, min : Nat, max : Nat, sweep : BOOLEAN,
          off : {"yes", "no", "general"}]

\* Every device has an output; 'load' is one load; the battery backup's own
\* sequence has a low and a high one (one that lacks either raises before it
\* measures anything).
ASSUME ScenariosAssumption ==
  /\ Scenarios \subseteq
       [kind : {"load", "loads"}, custom : BOOLEAN, supernode : BOOLEAN,
        relays : Seq(Nat \ {NoRelay}) \ {<<>>}, sweep : BOOLEAN, off : BOOLEAN,
        open : BOOLEAN, loads : Seq(Loads)]
  /\ \A s \in Scenarios :
       /\ s.kind = "load" => Len(s.loads) = 1
       /\ s.kind = "loads" /\ s.custom => Len(s.loads) # 1

VARIABLES
  sc,        \* the scenario
  pc,        \* where the program is
  mode,      \* who called test_single_load
  script,    \* battery backup: position in BatteryScript
  rl, li, ri,   \* loop variables: outer relay, load, relay of the load
  current,   \* ctx.current_relay
  relay,     \* the output the fixture connects to the load
  output,    \* the electronic load draws
  ran_once,
  test_pass,
  outcome,   \* what moving_power_check came to
  under,     \* the last window was measured with the output on
  retries,   \* answers 'retry' so far
  fails,     \* history: relays (ri) of the load under way with a window that failed
  refused,   \* history: switching the electronic load on or off raised
  verdict,   \* what the call returned
  results    \* history: the loads that were concluded, and how

loopVars == <<script, rl, li, ri>>
benchVars == <<current, relay, output>>
resultVars == <<test_pass, verdict, results>>
failVars == <<fails, refused>>
vars == <<sc, pc, mode, loopVars, benchVars, ran_once, outcome, under, retries,
          resultVars, failVars>>

-----------------------------------------------------------------------------
(* The verdict on one window: compute_stats and evaluate_thresholds.       *)

\* middle_value: the lower of the two middle readings for an even number.
Median(w) ==
  CHOOSE m \in Range(w) :
    /\ Cardinality({i \in DOMAIN w : w[i] < m}) <= (Len(w) - 1) \div 2
    /\ Cardinality({i \in DOMAIN w : w[i] <= m}) > (Len(w) - 1) \div 2
Total(w) == FoldSeq(+, 0, w)

\* Mutant: a window of zeros counts as not settled yet.
BelowMinIfDrawn(w, min) ==
  min # NoBound /\ Total(w) > 0 /\ (Total(w) < min * Len(w) \/ Median(w) < min)

BelowMin(w, min) == min # NoBound /\ (Total(w) < min * Len(w) \/ Median(w) < min)
AboveMax(w, max) == max # NoBound /\ (Total(w) > max * Len(w) \/ Median(w) > max)
InRange(w, load) == ~BelowMin(w, load.min) /\ ~AboveMax(w, load.max)

\* A load that is not open ignores the command; it may raise, see SwitchRaises.
setOutputOn(on) == output' = (on /\ sc.open)

\* What the load reports: readings of 0 when it does not draw.
Readings(w) == IF output THEN w ELSE [i \in DOMAIN w |-> 0]

-----------------------------------------------------------------------------
(* Settings: parse_general_load_test_settings and                          *)
(* parse_single_load_test_settings.                                        *)

Load == sc.loads[li]

\* A 'load' has no general section: the defaults of the dataclass.
GeneralOff == sc.kind = "loads" => sc.off
GeneralSweep == sc.kind = "loads" /\ sc.sweep
TurnOff(load) == load.off = "yes" \/ (load.off = "general" /\ GeneralOff)
Sweeps(load) == load.sweep \/ GeneralSweep

\* The relays test_single_load goes through for the load under way.
InnerRelays == IF Sweeps(Load) THEN <<current>> ELSE sc.relays

\* test_battery_load: loads[1] is the low and loads[2] the high load.
BatteryScript == <<"cccv", "high", "cccv", "prompt", "low", "high", "cccv", "low",
                   "cccv", "high">>

-----------------------------------------------------------------------------
Init ==
  /\ sc \in Scenarios
  /\ pc = "begin" /\ mode = "none" /\ script = 1
  /\ rl = 1 /\ li = 1 /\ ri = 1
  /\ current = NoRelay
  /\ relay = 2                \* setup() of the controller: RELAYS_OUTPUT2
  /\ output = FALSE /\ ran_once = FALSE /\ under = FALSE
  /\ test_pass = TRUE /\ verdict = FALSE
  /\ outcome = "none" /\ retries = 0 /\ fails = {} /\ refused = FALSE
  /\ results = {}

\* A supernode looks for 'dim' in the list of loads, which has no get.
before_load_sequence_raises == sc.supernode

\* runTest calls test_single_load or test_loads.
Begin ==
  /\ pc = "begin"
  /\ \/ /\ sc.kind = "load"
        /\ mode' = "load" /\ pc' = "single" /\ UNCHANGED verdict
     \/ /\ sc.kind = "loads" /\ sc.loads = <<>>
        /\ verdict' = FALSE /\ pc' = "returned" /\ UNCHANGED mode
     \/ /\ sc.kind = "loads" /\ sc.loads # <<>> /\ sc.custom
        /\ mode' = "custom" /\ pc' = "script" /\ UNCHANGED verdict
     \/ /\ sc.kind = "loads" /\ sc.loads # <<>> /\ ~sc.custom
        /\ mode' = "standard"
        /\ pc' = IF before_load_sequence_raises THEN "crashed" ELSE "outer"
        /\ UNCHANGED verdict
  /\ UNCHANGED <<sc, loopVars, benchVars, ran_once, test_pass, outcome, under, retries,
                 results, failVars>>

\* custom_loads_test returned FALSE: test_loads goes on with its own sequence.
FallThrough == mode' = "standard" /\ pc' = "outer"

\* One call of test_battery_load; only the loads leave the script.
Script ==
  /\ pc = "script"
  /\ \/ /\ script > Len(BatteryScript)
        /\ verdict' = TRUE /\ pc' = "returned"
        /\ UNCHANGED <<mode, loopVars>>
     \/ /\ script <= Len(BatteryScript)
        /\ UNCHANGED verdict
        /\ LET op == BatteryScript[script]
           IN \/ /\ op \in {"cccv", "prompt"}       \* set, or 'Okay'
                 /\ script' = script + 1 /\ UNCHANGED <<pc, mode, rl, li, ri>>
              \/ /\ op \in {"cccv", "prompt"}       \* not set, or 'Cancel'
                 /\ FallThrough
                 /\ UNCHANGED loopVars
              \/ /\ op \in {"low", "high"}
                 /\ li' = IF op = "low" THEN 1 ELSE 2
                 /\ pc' = "single" /\ UNCHANGED <<mode, script, rl, ri>>
  /\ UNCHANGED <<sc, benchVars, ran_once, test_pass, outcome, under, retries, results,
                 failVars>>

\* The controller connects an output; 'set_relays outputNone' moves nothing.
setRelays(r) == relay' = IF r = NoRelay THEN relay ELSE r

\* The outer loop of test_loads.  Without sweep_channel_first it runs once,
\* with the current relay.
Outer ==
  /\ pc = "outer"
  /\ current' = IF GeneralSweep THEN sc.relays[rl] ELSE current
  /\ setRelays(current')
  /\ li' = 1
  /\ pc' = "single"
  /\ UNCHANGED <<sc, mode, script, rl, ri, output, ran_once, outcome, under, retries,
                 resultVars, failVars>>

\* Mutant: the verdict of the last load is the verdict of all.
AccumulateLast(ok) == ok

\* test_pass after one more load.
Accumulate(ok) == test_pass /\ ok

\* The nested loops of test_loads: next load, next relay, end.
Advance ==
  \/ /\ li < Len(sc.loads)
     /\ li' = li + 1 /\ pc' = "single" /\ UNCHANGED rl
  \/ /\ li = Len(sc.loads) /\ GeneralSweep /\ rl < Len(sc.relays)
     /\ rl' = rl + 1 /\ pc' = "outer" /\ UNCHANGED li
  \/ /\ li = Len(sc.loads) /\ (GeneralSweep => rl = Len(sc.relays))
     /\ pc' = "end" /\ UNCHANGED <<rl, li>>

\* Where the end of test_single_load leads.
ReturnSingle(ok) ==
  \/ /\ mode = "load"
     /\ verdict' = ok /\ pc' = "returned"
     /\ UNCHANGED <<mode, loopVars, test_pass>>
  \/ /\ mode = "custom"
     /\ IF ok THEN script' = script + 1 /\ pc' = "script" /\ UNCHANGED mode
              ELSE FallThrough /\ UNCHANGED script
     /\ UNCHANGED <<rl, li, ri, test_pass, verdict>>
  \/ /\ mode = "standard"
     /\ test_pass' = Accumulate(ok)
     /\ Advance
     /\ UNCHANGED <<mode, script, ri, verdict>>

\* The head of test_single_load: a load without thresholds or setpoint is
\* skipped; a load that sweeps when no relay is selected indexes None.
Single ==
  /\ pc = "single"
  /\ \/ ~Load.valid /\ ReturnSingle(TRUE) /\ UNCHANGED ran_once
     \/ /\ Load.valid /\ Sweeps(Load) /\ current = NoRelay
        /\ pc' = "crashed" /\ UNCHANGED <<mode, loopVars, ran_once, test_pass, verdict>>
     \/ /\ Load.valid /\ (Sweeps(Load) => current # NoRelay)
        /\ ri' = 1 /\ ran_once' = FALSE /\ pc' = "relay"
        /\ UNCHANGED <<mode, script, rl, li, test_pass, verdict>>
  /\ fails' = {}
  /\ UNCHANGED <<sc, benchVars, outcome, under, retries, results, refused>>

\* set_relays and the setpoint of the load.
SelectRelay ==
  /\ pc = "relay"
  /\ setRelays(InnerRelays[ri])
  /\ current' = InnerRelays[ri]
  /\ pc' = "on"
  /\ UNCHANGED <<sc, mode, loopVars, output, ran_once, outcome, under, retries, resultVars,
                 failVars>>

\* Mutant: a load that may stay on is expected to be on.
TurnOnIfOff ==
  /\ pc = "on"
  /\ setOutputOn(TurnOff(Load) \/ output)
  /\ pc' = "measure"
  /\ UNCHANGED <<sc, mode, loopVars, current, relay, ran_once, outcome, under, retries,
                 resultVars, failVars>>

\* A load that may stay on is switched on for the first relay only.
TurnOn ==
  /\ pc = "on"
  /\ setOutputOn(TurnOff(Load) \/ ~ran_once \/ output)
  /\ pc' = "measure"
  /\ UNCHANGED <<sc, mode, loopVars, current, relay, ran_once, outcome, under, retries,
                 resultVars, failVars>>

\* One window of moving_power_check and its verdict; a failed window switches
\* the load off before the operator is asked.
Measure ==
  /\ pc = "measure"
  /\ under' = output
  /\ \/ \E w \in Windows :
          \/ /\ InRange(Readings(w), Load)
             /\ outcome' = "passed" /\ pc' = "close" /\ UNCHANGED <<output, fails>>
          \/ /\ ~InRange(Readings(w), Load)
             /\ setOutputOn(FALSE) /\ fails' = fails \cup {ri}
             /\ pc' = "prompt" /\ UNCHANGED outcome
     \/ /\ sc.open                        \* pyvisa raised: no average
        /\ outcome' = "error" /\ pc' = "close" /\ UNCHANGED <<output, fails>>
  /\ UNCHANGED <<sc, mode, loopVars, current, relay, ran_once, retries, resultVars,
                 refused>>

abort_retry_ignore_prompt == {"abort", "retry", "ignore", "none"}

\* What the operator answers; an unexpected answer repeats like 'retry'.
Answer ==
  /\ pc = "prompt"
  /\ \E answer \in abort_retry_ignore_prompt :
       \/ answer = "abort" /\ outcome' = "aborted" /\ pc' = "close" /\ UNCHANGED retries
       \/ answer = "ignore" /\ outcome' = "ignored" /\ pc' = "close" /\ UNCHANGED retries
       \/ /\ answer \in {"retry", "none"} /\ retries < MaxRetries
          /\ retries' = retries + 1 /\ pc' = "measure" /\ UNCHANGED outcome
  /\ UNCHANGED <<sc, mode, loopVars, benchVars, ran_once, under, resultVars, failVars>>

\* Mutant: the load stays on until the next window.
OffAfterNever == output

\* turn_load_off_after of the load under way.
OffAfter == output /\ ~TurnOff(Load)

\* The supernode's hook before the load is switched off multiplies two
\* readings of the node; one that was lost is a string, and raises.
before_load_output_off_raises ==
  /\ pc = "close" /\ sc.supernode
  /\ pc' = "crashed"
  /\ UNCHANGED <<sc, mode, loopVars, benchVars, ran_once, outcome, under, retries, resultVars,
                 failVars>>

\* After the window: switch off, round the average into the notes (which
\* raises when there is none), next relay or return.
CloseRelay ==
  /\ pc = "close"
  /\ output' = OffAfter
  /\ results' = results \cup {[mode |-> mode, load |-> li, relay |-> relay,
                               outcome |-> outcome, under |-> under]}
  /\ \/ /\ outcome = "error"
        /\ pc' = "crashed" /\ UNCHANGED <<mode, loopVars, ran_once, test_pass, verdict>>
     \/ outcome = "aborted" /\ ReturnSingle(FALSE) /\ UNCHANGED ran_once
     \/ /\ outcome \in {"passed", "ignored"}
        /\ ran_once' = TRUE
        /\ IF ri < Len(InnerRelays)
             THEN /\ ri' = ri + 1 /\ pc' = "relay"
                  /\ UNCHANGED <<mode, script, rl, li, test_pass, verdict>>
             ELSE ReturnSingle(TRUE)
  /\ UNCHANGED <<sc, current, relay, outcome, under, retries, failVars>>

\* Mutant: test_loads relies on test_single_load to switch off.
EndLoadsAsIs ==
  /\ pc = "end"
  /\ verdict' = test_pass
  /\ pc' = "returned"
  /\ UNCHANGED <<sc, mode, loopVars, benchVars, ran_once, outcome, under, retries,
                 test_pass, results, failVars>>

\* The end of test_loads.
EndLoads ==
  /\ pc = "end"
  /\ setOutputOn(FALSE)
  /\ verdict' = test_pass
  /\ pc' = "returned"
  /\ UNCHANGED <<sc, mode, loopVars, current, relay, ran_once, outcome, under, retries,
                 test_pass, results, failVars>>

\* pyvisa raises in the setpoint of the load, behind set_relays.
SetpointRaises ==
  /\ pc = "relay" /\ sc.open
  /\ setRelays(InnerRelays[ri])
  /\ current' = InnerRelays[ri]
  /\ pc' = "crashed"
  /\ UNCHANGED <<sc, mode, loopVars, output, ran_once, outcome, under, retries, resultVars,
                 failVars>>

\* Whether the program is about to switch the load on, or off.
AboutToSwitch(on) ==
  \/ pc = "on" /\ on /\ (TurnOff(Load) \/ ~ran_once)
  \/ pc = "measure" /\ ~on /\ \E w \in Windows : ~InRange(Readings(w), Load)
  \/ pc = "close" /\ ~on /\ TurnOff(Load)
  \/ pc = "end" /\ ~on

\* ... or in INPUT ON or OFF, which nothing catches: the call ends there.  The
\* load may have followed the command all the same.
SwitchRaises ==
  /\ sc.open
  /\ \E on \in BOOLEAN : AboutToSwitch(on) /\ output' \in {output, on}
  /\ refused' = TRUE
  /\ pc' = "crashed"
  /\ UNCHANGED <<sc, mode, loopVars, current, relay, ran_once, outcome, under, retries,
                 resultVars, fails>>

Done == pc \in {"returned", "crashed"} /\ UNCHANGED vars

Next == Begin \/ Script \/ Outer \/ Single \/ SelectRelay \/ TurnOn \/ Measure
        \/ Answer \/ before_load_output_off_raises \/ CloseRelay \/ EndLoads
        \/ SetpointRaises \/ SwitchRaises \/ Done

Spec == Init /\ [][Next]_vars

-----------------------------------------------------------------------------
(* Properties. *)

\* The results that decide what the call returns.
Deciding == {r \in results : r.mode = mode}

\* A passed call has measured every load on every output of the device,
\* whatever the nesting of the two relay loops and the sweep settings; a load
\* with a sweep setting of its own is measured on the current relay.  And no
\* load that was aborted hides behind later ones that pass.
FullCoverage ==
  pc = "returned" /\ verdict =>
    /\ \A r \in Deciding : r.outcome \in {"passed", "ignored"}
    /\ mode \in {"load", "standard"} =>
         \A l \in 1..Len(sc.loads) :
           sc.loads[l].valid =>
             LET seen == {r.relay : r \in {r \in Deciding : r.load = l}}
             IN IF sc.loads[l].sweep THEN seen # {}
                ELSE seen = {sc.relays[i] : i \in DOMAIN sc.relays}

\* test_loads never returns from its own sequence with the load still drawing,
\* and neither call ends with it when turn_load_off_after is on for its loads,
\* not even by a measurement or a setpoint that raised.  Two exceptions leave
\* the load drawing, since nothing that catches them switches it off: one in
\* switching it, and one in the hook of the supernode before it.
OutputOffAtEnd ==
  pc \in {"returned", "crashed"} /\ output =>
    \/ pc = "crashed" /\ (refused \/ sc.supernode)
    \/ /\ pc = "crashed" \/ mode \in {"load", "custom"}
       /\ \E l \in 1..Len(sc.loads) : ~TurnOff(sc.loads[l])

\* The relays move under current only if a load is told to stay on.
NoHotSwitch ==
  [][relay' # relay /\ output => \E l \in 1..Len(sc.loads) : ~TurnOff(sc.loads[l])]_vars

\* A load that passed a minimum power was really drawing it, although a retry
\* and an ignored relay leave the electronic load off.
MinimumUnderLoad ==
  \A r \in results :
    r.outcome = "passed" /\ sc.loads[r.load].min \notin {0, NoBound} => r.under

\* load_test.py:309 says 'SET OUTPUT ON AND MEASURE POWER'.  A relay is measured
\* with the output off only if a window failed, which switches it off: one of
\* this relay, that is repeated, or, with a load that may stay on, one of an
\* earlier relay in the same call, whether it was repeated or ignored, since
\* the load is then not switched on again.  Failures of other loads, and of
\* earlier calls, never count.
OffOnlyAfterFailure ==
  pc = "measure" /\ sc.open /\ ~output =>
    \/ ri \in fails
    \/ ~TurnOff(Load) /\ \E r \in fails : r < ri

=============================================================================
