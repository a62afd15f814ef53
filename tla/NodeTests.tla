------------------------------ MODULE NodeTests ------------------------------
(***************************************************************************)
(* The tests of the node's inputs: tests/sensor_test.py, tests/            *)
(* wall_switch_test.py and tests/trigger_test.py, one after the other.     *)
(* The host asks the test controller to move AUX1 or to push a button (a   *)
(* serial line, the firmware's handlers), the node reacts to the edge by   *)
(* dimming its actuators, and the host reads the dim levels over CoAP.     *)
(* The host waits for fixed times; a command or a reaction may take        *)
(* longer, and a command or a request may be lost.  The procedure is the   *)
(* classic one.                                                            *)
(***************************************************************************)
EXTENDS Integers, Sequences

CONSTANTS
  NumActuators,  \* Device.number_of_actuators()
  Plans,         \* the tests tried, in the order of runTest
  Nodes,         \* the nodes tried: which actuators follow which input
  Attempts,      \* pushes of one button (10)
  Tries,         \* writes of secure_setting (9)
  Restarts,      \* number_of_times_to_restart
  MaxLost,       \* bound: commands and requests lost
  MaxLate        \* bound: waits that end before the node has reacted

Actuators == 1..NumActuators
Tests == {"trigger", "sensor1", "pdline"}
Inputs == {"rise", "fall", "on", "off"}
ASSUME TestsAssumption ==
  /\ NumActuators \in Nat \ {0} /\ Attempts \in Nat \ {0} /\ Tries \in Nat \ {0}
  /\ Restarts \in Nat /\ MaxLost \in Nat /\ MaxLate \in Nat
  /\ Plans \subseteq Seq(Tests) /\ Nodes \subseteq [Inputs -> SUBSET Actuators]

VARIABLES
  plan,      \* tests still to run, the current one first
  pc,        \* where the host is
  script,    \* operations of the test still to do, the current one first
  attempts,  \* attempts_made, or the writes of secure_setting
  unread,    \* actuators check_actuators has not read yet
  good,      \* check_actuators: passed
  passed,    \* the result of the test
  verdicts,  \* history: <<test, result>> of the tests that ended
  clean,     \* history: the actuators were dark when the input was raised
  line,      \* commands on their way to the controller
  aux,       \* AUX1 is high
  events,    \* edges the node has not reacted to yet
  follows,   \* the node under test
  dim, mode, \* its dim levels and eventrisefall of its sensor
  motdsbl,   \* motdsbl of its actuator 1
  up,        \* it answers
  reboot,    \* it was told to restart and has not gone down yet
  lost, late

hostVars == <<plan, script, attempts, unread, good, passed, verdicts, clean>>
nodeVars == <<events, dim, mode, motdsbl, up, reboot>>
nodeTestsVars == <<pc, hostVars, line, aux, follows, nodeVars, lost, late>>

NotRead == -1   \* ''
OnOff == 1      \* 'on,off', the sensor's events during its test
MotVac == 2     \* 'mot,vac', those of the product
Enabled == 33   \* motion during the sensor test
Disabled == 3   \* and of the product

-------------------------------------------------------------------------------
(* The three tests as sequences of operations.                             *)

Put(key, value) == [op |-> "put", key |-> key, value |-> value]
Command(cmd) == [op |-> "command", cmd |-> cmd]
Sleep == [op |-> "sleep"]
Check(expected) == [op |-> "check", expected |-> expected]
Push(cmd, expected) == [op |-> "push", cmd |-> cmd, expected |-> expected]

\* The procedures also write onpol and offpol, with the values a node has
\* anyway ("this should be default, but change if not"): left out.
sensor_test == <<[op |-> "before"], Command("aux low"), Put("dim", 0), Sleep,
                 Command("aux high"), Sleep, Check(100), Command("aux low"), Sleep, Check(0),
                 [op |-> "after"]>>

wall_switch_test == <<Command("push off"), Put("dim", 0), Sleep,
                      Push("push on", 100), Push("push off", 0)>>

trigger_test == [i \in 1..Restarts |-> [op |-> "restart"]]

Script(test) == CASE test = "sensor1" -> sensor_test
                  [] test = "pdline"  -> wall_switch_test
                  [] test = "trigger" -> trigger_test

NodeTestsInit ==
  /\ plan \in Plans /\ pc = "next" /\ script = <<>> /\ attempts = 0
  /\ unread = {} /\ good = TRUE /\ passed = TRUE /\ verdicts = <<>> /\ clean = FALSE
  /\ line = <<>> /\ aux \in BOOLEAN /\ events = <<>>
  /\ follows \in Nodes /\ dim \in {[a \in Actuators |-> d] : d \in {0, 100}}
  /\ mode = MotVac /\ motdsbl = Disabled /\ up = TRUE /\ reboot = FALSE /\ lost = 0 /\ late = 0

Test == Head(plan)
Op == Head(script)
Doing(op) == pc = "run" /\ script # <<>> /\ Op.op = op

StartTest ==
  /\ pc = "next" /\ plan # <<>>
  /\ pc' = "run" /\ script' = Script(Test) /\ passed' = TRUE /\ attempts' = 0
  /\ UNCHANGED <<plan, unread, good, verdicts, clean, line, aux, follows, nodeVars, lost, late>>

EndTest ==
  /\ pc = "run" /\ script = <<>>
  /\ pc' = "next" /\ plan' = Tail(plan) /\ verdicts' = Append(verdicts, <<Test, passed>>)
  /\ UNCHANGED <<script, attempts, unread, good, passed, clean,
                 line, aux, follows, nodeVars, lost, late>>

-------------------------------------------------------------------------------
(* CoAP: a request is served, or lost with all its retransmissions.        *)

ServePut(key, value) ==
  /\ dim' = IF key = "dim" THEN [a \in Actuators |-> value] ELSE dim
  /\ mode' = IF key = "mode" THEN value ELSE mode
  /\ motdsbl' = IF key = "motdsbl" THEN value ELSE motdsbl
  /\ reboot' = (reboot \/ key = "trigger")

PutServedOrLost(key, value) ==
  \/ up /\ ServePut(key, value) /\ UNCHANGED lost
  \/ up /\ lost < MaxLost /\ lost' = lost + 1 /\ UNCHANGED <<dim, mode, motdsbl, reboot>>
  \/ ~up /\ UNCHANGED <<lost, dim, mode, motdsbl, reboot>>

\* reply is what getValue returns when the node has the given value.
getValue(value, reply) ==
  \/ up /\ reply = value /\ UNCHANGED lost
  \/ up /\ reply = NotRead /\ lost < MaxLost /\ lost' = lost + 1
  \/ ~up /\ reply = NotRead /\ UNCHANGED lost

putValue ==
  /\ Doing("put")
  /\ PutServedOrLost(Op.key, Op.value)
  /\ script' = Tail(script)
  /\ UNCHANGED <<pc, plan, attempts, unread, good, passed, verdicts, clean,
                 line, aux, events, follows, up, late>>

-------------------------------------------------------------------------------
(* Commands to the controller, waits and checks.                           *)

Settled == line = <<>> /\ events = <<>>
Dark == \A a \in Actuators : dim[a] = 0

\* A fixed wait is over: mostly, everything asked for has happened.
Waited == \/ Settled /\ UNCHANGED late
          \/ ~Settled /\ late < MaxLate /\ late' = late + 1

Write(cmd) ==
  /\ line' = Append(line, cmd)
  /\ clean' = IF cmd = "aux high" \/ (cmd = "push on" /\ attempts = 0) THEN Settled /\ Dark ELSE clean

\* setAux, or the first setPush4BTNOff; the echo is waited for but not read.
setAux ==
  /\ Doing("command")
  /\ Write(Op.cmd)
  /\ script' = Tail(script)
  /\ UNCHANGED <<pc, plan, attempts, unread, good, passed, verdicts,
                 aux, follows, nodeVars, lost, late>>

sleep ==
  /\ Doing("sleep")
  /\ Waited
  /\ script' = Tail(script)
  /\ UNCHANGED <<pc, plan, attempts, unread, good, passed, verdicts, clean,
                 line, aux, follows, nodeVars, lost>>

\* A turn of push_btn_then_check_dim_loop begins with the button.
setPush4BTN ==
  /\ Doing("push")
  /\ Write(Op.cmd)
  /\ pc' = "pushed"
  /\ UNCHANGED <<plan, script, attempts, unread, good, passed, verdicts,
                 aux, follows, nodeVars, lost, late>>

\* Mutant: only the last actuator is read.
ToCheckLast == {NumActuators}

\* check_actuators with the sentinel for all.
ToCheck == Actuators

check_actuators_dim ==
  /\ \/ pc = "pushed" /\ Waited
     \/ Doing("check") /\ UNCHANGED late
  /\ pc' = "read" /\ unread' = ToCheck /\ good' = TRUE
  /\ UNCHANGED <<plan, script, attempts, passed, verdicts, clean,
                 line, aux, follows, nodeVars, lost>>

\* get the dim of the next actuator; '' is not the level expected.
ReadDim ==
  /\ pc = "read" /\ unread # {}
  /\ LET a == CHOOSE x \in unread : \A y \in unread : x <= y
     IN  /\ unread' = unread \ {a}
         /\ \E reply \in {dim[a], NotRead} :
              getValue(dim[a], reply) /\ good' = (good /\ reply = Op.expected)
  /\ UNCHANGED <<pc, plan, script, attempts, passed, verdicts, clean,
                 line, aux, follows, nodeVars, late>>

\* sensor_test goes on after a check that failed.
Checked ==
  /\ pc = "read" /\ unread = {} /\ Op.op = "check"
  /\ passed' = (passed /\ good)
  /\ pc' = "run" /\ script' = Tail(script)
  /\ UNCHANGED <<plan, attempts, unread, good, verdicts, clean,
                 line, aux, follows, nodeVars, lost, late>>

\* Mutant: one push less.
TooManyEarly(n) == n + 1 >= Attempts

\* The loop has used up its attempts.
TooMany(n) == n >= Attempts

\* Mutant: the attempts are not counted.
PushedUncounted ==
  /\ pc = "read" /\ unread = {} /\ Op.op = "push"
  /\ pc' = "run" /\ script' = IF good THEN Tail(script) ELSE script
  /\ UNCHANGED <<attempts, passed>>
  /\ UNCHANGED <<plan, unread, good, verdicts, clean, line, aux, follows, nodeVars, lost, late>>

\* The loop ends with the expected level, or the test returns FALSE.
Pushed ==
  /\ pc = "read" /\ unread = {} /\ Op.op = "push"
  /\ pc' = "run"
  /\ \/ good /\ attempts' = 0 /\ script' = Tail(script) /\ UNCHANGED passed
     \/ ~good /\ ~TooMany(attempts + 1) /\ attempts' = attempts + 1 /\ UNCHANGED <<script, passed>>
     \/ ~good /\ TooMany(attempts + 1) /\ attempts' = 0 /\ script' = <<>> /\ passed' = FALSE
  /\ UNCHANGED <<plan, unread, good, verdicts, clean, line, aux, follows, nodeVars, lost, late>>

-------------------------------------------------------------------------------
(* after_sensor_test and the restarts.                                     *)

\* before_sensor_test: each setting is written once.
before_sensor_test ==
  /\ \/ Doing("before") /\ PutServedOrLost("mode", OnOff) /\ pc' = "motdsbl" /\ UNCHANGED script
     \/ /\ pc = "motdsbl" /\ PutServedOrLost("motdsbl", Enabled)
        /\ pc' = "run" /\ script' = Tail(script)
  /\ UNCHANGED <<plan, attempts, unread, good, passed, verdicts, clean,
                 line, aux, events, follows, up, late>>

\* Mutant: it is written once and not read back.
SecureAgainNever(value, reply) == FALSE

\* secure_setting writes again while the value read is another.
SecureAgain(value, reply) == reply # value /\ attempts + 1 < Tries

SecureWrite(key, value) == PutServedOrLost(key, value) /\ UNCHANGED <<script, attempts>>

\* has is what the node has, rest the script once it is the value written.
SecureRead(has, value, write, next, rest) ==
  /\ UNCHANGED <<dim, mode, motdsbl, reboot>>
  /\ \E reply \in {has, NotRead} :
       /\ getValue(has, reply)
       /\ \/ SecureAgain(value, reply) /\ attempts' = attempts + 1 /\ pc' = write /\ UNCHANGED script
          \/ ~SecureAgain(value, reply) /\ attempts' = 0 /\ pc' = next /\ script' = rest

\* after_sensor_test: the product's settings, one secure_setting after the
\* other; whether the first one got through makes no difference to the second.
after_sensor_test ==
  /\ \/ Doing("after") /\ SecureWrite("mode", MotVac) /\ pc' = "verify"
     \/ pc = "verify" /\ SecureRead(mode, MotVac, "run", "secure", script)
     \/ pc = "secure" /\ SecureWrite("motdsbl", Disabled) /\ pc' = "reverify"
     \/ pc = "reverify" /\ SecureRead(motdsbl, Disabled, "secure", "run", Tail(script))
  /\ UNCHANGED <<plan, unread, good, passed, verdicts, clean, line, aux, events, follows, up, late>>

\* A turn of trigger_test: 'trigger 1', one read whose failure getValue hides
\* from the loop that was to wait for the node, and one that decides.
Restart ==
  /\ \/ Doing("restart") /\ PutServedOrLost("trigger", 1) /\ pc' = "rediscover"
        /\ UNCHANGED <<script, passed>>
     \/ /\ pc = "rediscover" /\ pc' = "madr" /\ UNCHANGED <<script, passed, dim, mode, motdsbl, reboot>>
        /\ \E reply \in {0, NotRead} : getValue(0, reply)
     \/ /\ pc = "madr" /\ pc' = "run" /\ UNCHANGED <<dim, mode, motdsbl, reboot>>
        /\ \E reply \in {0, NotRead} :
             /\ getValue(0, reply)
             /\ script' = IF reply = NotRead THEN <<>> ELSE Tail(script)
             /\ passed' = (reply # NotRead)
  /\ UNCHANGED <<plan, attempts, unread, good, verdicts, clean, line, aux, events, follows, up, late>>

Host == \/ StartTest \/ EndTest \/ putValue \/ setAux \/ sleep \/ setPush4BTN
        \/ check_actuators_dim \/ ReadDim \/ Checked \/ Pushed \/ Restart
        \/ before_sensor_test \/ after_sensor_test

-------------------------------------------------------------------------------
(* The controller's firmware and the node.                                 *)

\* An output that does not change makes no edge.
Edge(cmd) ==
  CASE cmd = "aux high" -> IF aux THEN <<>> ELSE <<"rise">>
    [] cmd = "aux low"  -> IF aux THEN <<"fall">> ELSE <<>>
    [] cmd = "push on"  -> <<"on">>
    [] cmd = "push off" -> <<"off">>

\* processSerialCommand; a button is released after 300 ms, which the next
\* command waits for.  An edge passes a node that is down.
processSerialCommand ==
  /\ line # <<>>
  /\ line' = Tail(line)
  /\ aux' = (Head(line) = "aux high" \/ (aux /\ Head(line) # "aux low"))
  /\ events' = IF up THEN events \o Edge(Head(line)) ELSE events
  /\ UNCHANGED <<pc, hostVars, follows, dim, mode, motdsbl, up, reboot, lost, late>>

LoseCommand ==
  /\ line # <<>> /\ lost < MaxLost
  /\ line' = Tail(line) /\ lost' = lost + 1
  /\ UNCHANGED <<pc, hostVars, aux, follows, nodeVars, late>>

Level(input) == IF input \in {"rise", "on"} THEN 100 ELSE 0

\* The sensor's events count in the mode 'on,off' only.
React ==
  /\ up /\ events # <<>>
  /\ LET input == Head(events)
         heard == IF input \in {"rise", "fall"} /\ mode # OnOff THEN {} ELSE follows[input]
     IN  dim' = [a \in Actuators |-> IF a \in heard THEN Level(input) ELSE dim[a]]
  /\ events' = Tail(events)
  /\ UNCHANGED <<pc, hostVars, line, aux, follows, mode, motdsbl, up, reboot, lost, late>>

GoDown ==
  /\ reboot /\ up
  /\ up' = FALSE /\ reboot' = FALSE /\ events' = <<>>
  /\ UNCHANGED <<pc, hostVars, line, aux, follows, dim, mode, motdsbl, lost, late>>

ComeUp ==
  /\ ~up /\ up' = TRUE
  /\ UNCHANGED <<pc, hostVars, line, aux, follows, events, dim, mode, motdsbl, reboot, lost, late>>

Done == pc = "next" /\ plan = <<>> /\ Settled /\ UNCHANGED nodeTestsVars

NodeTestsNext == Host \/ processSerialCommand \/ LoseCommand \/ React \/ GoDown \/ ComeUp \/ Done

NodeTestsSpec == NodeTestsInit /\ [][NodeTestsNext]_nodeTestsVars

(* Every wait of the host is timed; the firmware's loop and the node run.  *)
FairNodeTestsSpec ==
  NodeTestsSpec /\ WF_nodeTestsVars(Host) /\ WF_nodeTestsVars(processSerialCommand) /\ WF_nodeTestsVars(React)

-------------------------------------------------------------------------------
(* Properties.                                                             *)

InputsOf(test) == IF test = "sensor1" THEN {"rise", "fall"} ELSE {"on", "off"}

(* A node whose actuators were dark when its input was first raised passes *)
(* only if every actuator follows both directions of the input: a late     *)
(* reaction, an earlier push or a lost read never stands in for one.       *)
PassIsEarned ==
  pc = "run" /\ script = <<>> /\ Test # "trigger" /\ passed /\ clean =>
    \A input \in InputsOf(Test) : follows[input] = Actuators

\* A trigger test may pass before the node has gone down: it then goes down
\* in the middle of a later test.
Restarted == \E i \in DOMAIN verdicts : verdicts[i][1] = "trigger"

(* The wall switch test passes a node that works unless there were as many *)
(* lost messages and early checks as it has attempts; the sensor test,     *)
(* which has one attempt, if there was none.  No restart is under way.      *)
GoodNodePasses ==
  pc = "run" /\ script = <<>> /\ Test # "trigger" /\ (\A i \in Inputs : follows[i] = Actuators)
  /\ ~Restarted /\ lost + late < (IF Test = "pdline" THEN Attempts ELSE 1) => passed

(* The product's events and its motion setting are back when the sensor    *)
(* test has ended, with fewer lost messages than secure_setting writes,    *)
(* wherever among the writes and reads of the two settings they are lost.  *)
SensorRestored ==
  pc = "next" /\ verdicts # <<>> /\ ~Restarted /\ lost < Tries => mode = MotVac /\ motdsbl = Disabled

(* Every test ends, also on a node that reacts to nothing.                 *)
TestsEnd == <>(pc = "next" /\ plan = <<>>)
===============================================================================
