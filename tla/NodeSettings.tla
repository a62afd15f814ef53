----------------------------- MODULE NodeSettings -----------------------------
(***************************************************************************)
(* Setting the node for a load: resources/actuators.py (set_cccv,          *)
(* set_max_watt, set_dim, check_actuators), secure_setting of              *)
(* services/coap_client.py, the steps 'cccv' and 'maxw' of runTest,        *)
(* tests/commission.py and before_load_relays of the procedures, which     *)
(* asks the values saved in the TestContext whether to set the node again. *)
(*                                                                         *)
(* The node serves its requests one after the other.  A PUT may be lost,   *)
(* may be served after the host has stopped waiting for it, and a group    *)
(* command may miss an actuator.  A GET whose answer arrives was served    *)
(* after everything before it; one that fails reads ''.                    *)
(***************************************************************************)
EXTENDS Integers, Sequences

CONSTANTS
  NumActuators,  \* Device.number_of_actuators()
  All,           \* Device.all_actuators_integer()
  Plans,         \* the test configurations tried: sequences of sections
  Tries,         \* writes of secure_setting (9)
  MaxLost,       \* bound: requests lost
  MaxLate,       \* bound: PUTs whose answer comes too late
  MaxMissed      \* bound: group commands that miss an actuator

ASSUME SettingsAssumption ==
  /\ NumActuators \in Nat \ {0} /\ All \in Nat /\ All \notin 1..NumActuators
  /\ Tries \in Nat \ {0} /\ MaxLost \in Nat /\ MaxLate \in Nat /\ MaxMissed \in Nat

Absent == 0     \* a key missing from a section
Unset == 0      \* ctx.maxw_save and ctx.cccv_save at first: None
DownDim == 10   \* dim_down_value
NotRead == -1   \* ''

Actuators == 1..NumActuators
Keys == {"maxw", "cccv", "cuv", "dim", "setting"}
Saved == {"maxw", "cccv"}
\* What is commissioned is one resource, never max watt.
ASSUME PlansAssumption ==
  /\ Plans \subseteq Seq([kind : {"cfg", "load", "commission"},
                        maxw : Nat, cccv : Nat, cuv : Nat, dim : Nat])
  /\ \A p \in Plans : \A i \in 1..Len(p) : p[i].kind = "commission" => p[i].maxw = Absent

VARIABLES
  plan,       \* the configuration of this test
  sec,        \* the section under way
  pc,         \* where the program is
  todo,       \* settings of the section still to make, the current one first
  tries,      \* writes of the secure_setting under way
  unchecked,  \* actuators check_actuators has not read back yet
  good,       \* check_actuators: passed
  save,       \* ctx.maxw_save, ctx.cccv_save
  node,       \* the values of the node's actuators
  wire,       \* PUTs the node has not served
  up,         \* the node answers; once gone it stays away
  lost, late, missed,
  failed,     \* history: the saved keys whose last set failed
  success     \* commission.run: success

hostVars == <<plan, sec, todo, tries, unchecked, good, save, failed, success>>
netVars == <<node, wire, up, lost, late, missed>>
vars == <<pc, hostVars, netVars>>

-------------------------------------------------------------------------------
(* What a section asks for, in the order of the code.                      *)

Setting(key, who, value) == [key |-> key, who |-> who, value |-> value]
Optional(s) == IF s.value = Absent THEN <<>> ELSE <<s>>

\* runTest steps 9 and 10: without a look at the saved values.
Config(s) == Optional(Setting("cccv", All, s.cccv)) \o Optional(Setting("maxw", All, s.maxw))

\* before_load_relays; cuv goes to actuators 1 and 2, dim down and up.
before_load_relays(s) ==
  /\ todo' = Optional(Setting("maxw", All, s.maxw)) \o Optional(Setting("cccv", All, s.cccv))
             \o Optional(Setting("cuv", 1, s.cuv)) \o Optional(Setting("cuv", 2, s.cuv))
             \o IF s.dim = Absent THEN <<>>
                ELSE <<Setting("dim", All, DownDim), Setting("dim", All, s.dim)>>

\* commission.run: one setting of a resource with ALL; a key without a value
\* is skipped and counts as a failure.  The value stands in the field cuv.
commission(s) ==
  /\ todo' = IF s.cuv = Absent THEN <<>> ELSE [a \in Actuators |-> Setting("setting", a, s.cuv)]
  /\ success' = (s.cuv # Absent)

Init ==
  /\ plan \in Plans /\ sec = 1 /\ pc = "section" /\ todo = <<>> /\ tries = 0
  /\ unchecked = {} /\ good = TRUE
  /\ save = [k \in Saved |-> Unset] /\ failed = {} /\ success = TRUE
  /\ node \in [Keys -> [Actuators -> {Unset}]] /\ wire = <<>> /\ up = TRUE
  /\ lost = 0 /\ late = 0 /\ missed = 0

Section ==
  /\ pc = "section" /\ sec <= Len(plan)
  /\ \/ plan[sec].kind = "cfg" /\ todo' = Config(plan[sec]) /\ UNCHANGED success
     \/ plan[sec].kind = "load" /\ before_load_relays(plan[sec]) /\ UNCHANGED success
     \/ plan[sec].kind = "commission" /\ commission(plan[sec])
  /\ pc' = "setting"
  /\ UNCHANGED <<plan, sec, tries, unchecked, good, save, failed, netVars>>

Current == Head(todo)

\* A load is not set again to a value that was saved.
Skipped == plan[sec].kind = "load" /\ Current.key \in Saved /\ Current.value = save[Current.key]

Choose ==
  /\ pc = "setting" /\ todo # <<>>
  /\ IF Skipped THEN todo' = Tail(todo) /\ UNCHANGED <<pc, tries>>
     ELSE pc' = "put" /\ tries' = 1 /\ UNCHANGED todo
  /\ UNCHANGED <<plan, sec, unchecked, good, save, failed, success, netVars>>

\* The load is measured, or the section of the configuration is done.
SectionEnd ==
  /\ pc = "setting" /\ todo = <<>>
  /\ pc' = "section" /\ sec' = sec + 1
  /\ UNCHANGED <<plan, todo, tries, unchecked, good, save, failed, success, netVars>>

-------------------------------------------------------------------------------
(* A setting: a PUT, its answer or timeout, and what is read back.         *)

putValue ==
  /\ pc = "put"
  /\ pc' = "wait"
  /\ wire' = Append(wire, Current)
  /\ UNCHANGED <<hostVars, node, up, lost, late, missed>>

\* check_actuators' third argument, a number or the sentinel.
CheckList(who) == IF who = All THEN Actuators ELSE {who}

\* Mutant: max watt is read back from the last actuator only.
ReadBackLast(key, who) == IF key \in Saved THEN CheckList(NumActuators) ELSE CheckList(who)

\* set_cccv passes the number of actuators, set_max_watt the sentinel.
ReadBack(key, who) == IF key = "cccv" THEN CheckList(NumActuators) ELSE CheckList(who)

\* asyncPut returns, or gives up waiting, and does not tell.  The actuators
\* set_dim reads back only decide what it prints.
PutEnd ==
  /\ pc = "wait"
  /\ \/ wire = <<>> /\ UNCHANGED late
     \/ wire # <<>> /\ late < MaxLate /\ late' = late + 1
  /\ IF Current.key = "dim"
     THEN pc' = "setting" /\ todo' = Tail(todo) /\ UNCHANGED <<unchecked, good>>
     ELSE /\ pc' = "check" /\ good' = TRUE /\ UNCHANGED todo
          /\ unchecked' = ReadBack(Current.key, Current.who)
  /\ UNCHANGED <<plan, sec, tries, save, failed, success, node, wire, up, lost, missed>>

\* The next actuator of the list.
NextToRead == CHOOSE a \in unchecked : \A b \in unchecked : a <= b

\* Mutant: a read that failed is no reason to doubt the setting.
getValueLenient ==
  /\ pc = "check" /\ unchecked # {}
  /\ unchecked' = unchecked \ {NextToRead}
  /\ \/ /\ up /\ wire = <<>> /\ UNCHANGED lost
        /\ good' = (good /\ node[Current.key][NextToRead] = Current.value)
     \/ up /\ lost < MaxLost /\ lost' = lost + 1 /\ UNCHANGED good
     \/ ~up /\ UNCHANGED <<lost, good>>
  /\ UNCHANGED <<pc, plan, sec, todo, tries, save, failed, success, node, wire, up, late, missed>>

\* getValue of the next actuator: its value, or '' (and that is no match).
getValue ==
  /\ pc = "check" /\ unchecked # {}
  /\ unchecked' = unchecked \ {NextToRead}
  /\ \/ /\ up /\ wire = <<>> /\ UNCHANGED lost
        /\ good' = (good /\ node[Current.key][NextToRead] = Current.value)
     \/ up /\ lost < MaxLost /\ lost' = lost + 1 /\ good' = FALSE
     \/ ~up /\ UNCHANGED lost /\ good' = FALSE
  /\ UNCHANGED <<pc, plan, sec, todo, tries, save, failed, success, node, wire, up, late, missed>>

\* set_max_watt and set_cccv: only what was read back is saved; the caller
\* goes on with the next setting either way.
SetEnd ==
  /\ save' = IF good THEN [save EXCEPT ![Current.key] = Current.value] ELSE save
  /\ failed' = IF good THEN failed \ {Current.key} ELSE failed \cup {Current.key}
  /\ todo' = Tail(todo) /\ pc' = "setting" /\ UNCHANGED <<tries, success>>

\* secure_setting returns; actuator 2's cuv is not set when actuator 1's
\* failed ('and').
SecureSet == todo' = Tail(todo) /\ pc' = "setting" /\ UNCHANGED <<tries, success>>
SecureAgain == tries' = tries + 1 /\ pc' = "put" /\ UNCHANGED <<todo, success>>
NextIsCuv == Len(todo) > 1 /\ todo[1].key = "cuv" /\ todo[2].key = "cuv"
GiveUp ==
  /\ todo' = IF NextIsCuv THEN Tail(Tail(todo)) ELSE Tail(todo)
  /\ success' = (success /\ Current.key # "setting")
  /\ pc' = "setting" /\ UNCHANGED tries

\* Mutant: it writes until the node follows.
SecureEndForever ==
  /\ UNCHANGED <<save, failed>>
  /\ \/ good /\ SecureSet
     \/ ~good /\ pc' = "put" /\ UNCHANGED <<todo, tries, success>>

\* Mutant: the result of commissioning is that of its last setting.
SecureEndLastResult ==
  /\ UNCHANGED <<save, failed>>
  /\ \/ good /\ todo' = Tail(todo) /\ pc' = "setting" /\ success' = TRUE /\ UNCHANGED tries
     \/ ~good /\ tries < Tries /\ SecureAgain
     \/ ~good /\ tries = Tries /\ GiveUp

\* secure_setting: write again, up to Tries times.
SecureEnd ==
  /\ UNCHANGED <<save, failed>>
  /\ \/ good /\ SecureSet
     \/ ~good /\ tries < Tries /\ SecureAgain
     \/ ~good /\ tries = Tries /\ GiveUp

CheckEnd ==
  /\ pc = "check" /\ unchecked = {}
  /\ IF Current.key \in Saved THEN SetEnd ELSE SecureEnd
  /\ UNCHANGED <<plan, sec, unchecked, good, netVars>>

Host == Section \/ Choose \/ SectionEnd \/ putValue \/ PutEnd \/ getValue \/ CheckEnd

-------------------------------------------------------------------------------
(* The node and the network.                                               *)

\* A command to one actuator, or to a group of which some may miss it.
Serve ==
  /\ up /\ wire # <<>>
  /\ LET cmd == Head(wire)
     IN  \E heard \in SUBSET CheckList(cmd.who) :
           /\ heard # CheckList(cmd.who) => cmd.who = All /\ missed < MaxMissed
           /\ missed' = IF heard = CheckList(cmd.who) THEN missed ELSE missed + 1
           /\ node' = [node EXCEPT ![cmd.key] =
                         [a \in Actuators |-> IF a \in heard THEN cmd.value ELSE @[a]]]
  /\ wire' = Tail(wire)
  /\ UNCHANGED <<pc, hostVars, up, lost, late>>

\* The request, with all its retransmissions, is lost.
Lose ==
  /\ wire # <<>>
  /\ wire' = Tail(wire)
  /\ \/ up /\ lost < MaxLost /\ lost' = lost + 1
     \/ ~up /\ UNCHANGED lost
  /\ UNCHANGED <<pc, hostVars, node, up, late, missed>>

\* The node loses its power or its network.
GoDown == up /\ up' = FALSE /\ UNCHANGED <<pc, hostVars, node, wire, lost, late, missed>>

Done == pc = "section" /\ sec > Len(plan) /\ wire = <<>> /\ UNCHANGED vars

Next == Host \/ Serve \/ Lose \/ GoDown \/ Done

Spec == Init /\ [][Next]_vars

(* The program goes on, every wait being timed; a PUT is served or lost.   *)
FairSpec == Spec /\ WF_vars(Host) /\ WF_vars(Serve \/ Lose)

-------------------------------------------------------------------------------
(* Properties.                                                             *)

\* The key that is being set.
Busy == IF pc \in {"wait", "check"} THEN {Current.key} ELSE {}

(* While a key is not being set and its last set did not fail, every       *)
(* actuator that is read back has the saved value and no PUT under way     *)
(* will change it: a command that was served late, after a timeout or in   *)
(* a set that failed, never undoes a later set that was confirmed.         *)
SavedIsCurrent ==
  \A k \in Saved \ (failed \cup Busy) : save[k] # Unset =>
    /\ \A a \in ReadBack(k, All) : node[k][a] = save[k]
    /\ \A i \in 1..Len(wire) : wire[i].key # k

(* A load whose max watt was set or skipped without a failure so far is    *)
(* measured with its own max watt on every actuator.                       *)
MeasuredAsConfigured ==
  pc = "setting" /\ todo = <<>> /\ plan[sec].maxw # Absent /\ "maxw" \notin failed =>
    \A a \in Actuators : node["maxw"][a] = plan[sec].maxw

(* A commissioning that reports success has every setting in the node, on  *)
(* every actuator, however many writes and reads were lost on the way.     *)
CommissionedIsSet ==
  pc = "setting" /\ todo = <<>> /\ plan[sec].kind = "commission" /\ success =>
    \A a \in Actuators : node["setting"][a] = plan[sec].cuv

(* Every section ends, also with a node that has gone for good.            *)
Settles == pc # "section" ~> pc = "section"
===============================================================================
