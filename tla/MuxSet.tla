-------------------------------- MODULE MuxSet --------------------------------
(***************************************************************************)
(* Selecting a mux channel: services/mux.py set(), the controller commands *)
(* set_mux and get_mux_channel of services/controller.py and their         *)
(* handlers in the firmware of the test controller (v3).  Commands and     *)
(* answers travel in order over a serial line; an answer may come after    *)
(* the host has stopped waiting for it, a command may be lost, and an      *)
(* answer may arrive with a channel that is not a number.                  *)
(***************************************************************************)
EXTENDS Integers, Sequences

CONSTANTS
  Targets,      \* the values of channel - 1 set() is called with
  Period,       \* count starts over at multiples of this (50)
  MaxPolls,     \* the count above which set() gives up (200)
  MaxLost,      \* bound: commands lost in a behaviour
  MaxLate,      \* bound: waits that end before the answer came
  MaxCalls      \* bound: calls of set()

ASSUME MuxAssumption ==
  /\ Targets \subseteq Nat            \* mux channels count from 1
  /\ Period \in Nat \ {0, 1} /\ MaxPolls \in Nat
  /\ MaxLost \in Nat /\ MaxLate \in Nat /\ MaxCalls \in Nat

(* The counter starts over before it reaches the limit: 50 and 200.  With  *)
(* another relation set() may give up, and its next call may take an       *)
(* answer of the call before the one given up for its own.                 *)
ASSUME PeriodAssumption == Period <= MaxPolls

VARIABLES
  pc,           \* where set() is: the next thing the host does, "idle" when it
                \* has returned, "raised" when it has raised
  target,       \* channel - 1 of the last call
  current,      \* current_mux
  count,        \* the poll counter of set()
  first,        \* TRUE iff the read under way is the one before the loop
  tries,        \* lines the getMux under way has looked at
  confirmed,    \* history: the last call saw its channel in an answer
  missed,       \* history: a set_mux was lost since the last call began
  wire,         \* commands on their way to the firmware
  inbound,      \* lines on their way to the host
  stored,       \* controller.lines
  pins,         \* MUX1..MUX3, the outputs that select the channel
  bit,          \* the bit setMuxChannel sets next, Idle between commands
  channel,      \* the argument of setMuxChannel
  lost, late, calls

hostVars == <<pc, target, current, count, first, tries, confirmed, late, calls>>
fwVars == <<pins, bit, channel>>
muxVars == <<hostVars, wire, inbound, stored, fwVars, lost, missed>>

None == -1
Echo == -1      \* any line that is not an answer to get_mux_channel
Idle == -1
Bits == 0..2

SetMux(ch) == [op |-> "set", ch |-> ch]
GetMux == [op |-> "get", ch |-> None]

\* digitalRead(MUX1) + digitalRead(MUX2)*2 + digitalRead(MUX3)*4
Value(p) == p[0] + 2 * p[1] + 4 * p[2]
BitOf(ch, i) == (ch \div 2^i) % 2

MuxInit ==
  /\ pc = "idle" /\ target = None /\ current = None /\ count = 0 /\ first = TRUE
  /\ tries = 0 /\ confirmed = FALSE
  /\ wire = <<>> /\ inbound = <<>> /\ stored = <<>>
  /\ pins = [i \in Bits |-> 0] /\ bit = Idle /\ channel = None
  /\ missed = FALSE /\ lost = 0 /\ late = 0 /\ calls = 0

-------------------------------------------------------------------------------
(* The host.                                                               *)

\* flushLines(), then ser.write()
Send(cmd) == stored' = <<>> /\ wire' = Append(wire, cmd)

\* setMux(channel - 1); its wait for a line only takes time.
set(ch) ==
  /\ pc = "idle" /\ calls < MaxCalls
  /\ calls' = calls + 1
  /\ target' = ch /\ count' = 0 /\ first' = TRUE /\ confirmed' = FALSE
  /\ pc' = "get"
  /\ Send(SetMux(ch))
  /\ missed' = FALSE
  /\ UNCHANGED <<current, tries, late, inbound, fwVars, lost>>

getMux ==
  /\ pc = "get"
  /\ pc' = "wait" /\ tries' = 0
  /\ Send(GetMux)
  /\ UNCHANGED <<target, current, count, first, confirmed, late, calls, inbound, fwVars, lost, missed>>

\* readLines(3, 200) returns: the controller had the time to answer, or not.
readLines ==
  /\ pc = "wait"
  /\ pc' = "read"
  /\ \/ wire = <<>> /\ inbound = <<>> /\ bit = Idle /\ UNCHANGED late
     \/ late < MaxLate /\ late' = late + 1
  /\ UNCHANGED <<target, current, count, first, tries, confirmed, calls,
                 wire, inbound, stored, fwVars, lost, missed>>

\* The first line stored; '' when there is none, which is no answer either.
FirstLine == IF stored = <<>> THEN Echo ELSE Head(stored)

\* One turn of getMux's loop over three lines: an answer, an answer whose
\* channel is no number (int() raises, and with it set() and the test), or a
\* line that is none.
readLine ==
  /\ pc = "read"
  /\ stored' = IF stored = <<>> THEN stored ELSE Tail(stored)
  /\ \/ FirstLine # Echo /\ current' = FirstLine /\ pc' = "test" /\ UNCHANGED tries
     \/ FirstLine # Echo /\ pc' = "raised" /\ UNCHANGED <<current, tries>>
     \/ /\ FirstLine = Echo
        /\ tries' = tries + 1
        /\ current' = IF tries = 2 THEN None ELSE current
        /\ pc' = IF tries = 2 THEN "test" ELSE "read"
  /\ UNCHANGED <<target, count, first, confirmed, late, calls, wire, inbound, fwVars, lost, missed>>

\* The poll counter after one more poll.
Counted(n) == IF n % Period = 0 THEN 2 ELSE n + 1

\* Mutant: any answer ends the loop.
testAny ==
  /\ pc = "test"
  /\ count' = IF first THEN count ELSE Counted(count)
  /\ first' = FALSE
  /\ confirmed' = (current # None)
  /\ pc' = IF current # None \/ count' > MaxPolls THEN "idle" ELSE "get"
  /\ UNCHANGED <<target, current, tries, late, calls, wire, inbound, stored, fwVars, lost, missed>>

\* The end of a turn of the loop: give up above MaxPolls, else test again.
test ==
  /\ pc = "test"
  /\ count' = IF first THEN count ELSE Counted(count)
  /\ first' = FALSE
  /\ confirmed' = (current = target)
  /\ pc' = IF current = target \/ count' > MaxPolls THEN "idle" ELSE "get"
  /\ UNCHANGED <<target, current, tries, late, calls, wire, inbound, stored, fwVars, lost, missed>>

Host == (\E ch \in Targets : set(ch)) \/ getMux \/ readLines \/ readLine \/ test

-------------------------------------------------------------------------------
(* The firmware and the line.                                              *)

\* set_mux within the accepted range starts setMuxChannel; the command is
\* echoed either way.
FwSet ==
  /\ bit = Idle /\ wire # <<>> /\ Head(wire).op = "set"
  /\ wire' = Tail(wire) /\ inbound' = Append(inbound, Echo)
  /\ IF Head(wire).ch > -1 /\ Head(wire).ch <= 8
     THEN bit' = 2 /\ channel' = Head(wire).ch
     ELSE UNCHANGED <<bit, channel>>
  /\ UNCHANGED <<pins, hostVars, stored, lost, missed>>

\* Mutant: the lowest bit is left out.
setMuxBitShort ==
  /\ bit # Idle
  /\ pins' = [pins EXCEPT ![bit] = BitOf(channel, bit)]
  /\ bit' = IF bit = 1 THEN Idle ELSE bit - 1
  /\ UNCHANGED <<channel, hostVars, wire, inbound, stored, lost, missed>>

\* One turn of setMuxChannel's loop: the outputs follow bit by bit.
setMuxBit ==
  /\ bit # Idle
  /\ pins' = [pins EXCEPT ![bit] = BitOf(channel, bit)]
  /\ bit' = bit - 1
  /\ UNCHANGED <<channel, hostVars, wire, inbound, stored, lost, missed>>

\* get_mux_channel: the echo, then the channel the outputs select.
getMuxChannel ==
  /\ bit = Idle /\ wire # <<>> /\ Head(wire).op = "get"
  /\ wire' = Tail(wire) /\ inbound' = inbound \o <<Echo, Value(pins)>>
  /\ UNCHANGED <<fwVars, hostVars, stored, lost, missed>>

\* The receiver thread of the host stores the next line.
Receive ==
  /\ inbound # <<>>
  /\ inbound' = Tail(inbound) /\ stored' = Append(stored, Head(inbound))
  /\ UNCHANGED <<hostVars, wire, fwVars, lost, missed>>

\* A command is lost on the line or by the controller.
Lose ==
  /\ wire # <<>> /\ lost < MaxLost
  /\ wire' = Tail(wire) /\ lost' = lost + 1
  /\ missed' = (missed \/ Head(wire).op = "set")
  /\ UNCHANGED <<hostVars, inbound, stored, fwVars>>

Firmware == FwSet \/ setMuxBit \/ getMuxChannel

MuxNext == Host \/ Firmware \/ Receive \/ Lose

MuxSpec == MuxInit /\ [][MuxNext]_muxVars

(* The host goes on once set() is called, the firmware serves its line and *)
(* the receiver thread runs; nothing forces a call or a loss.              *)
FairMuxSpec ==
  /\ MuxSpec
  /\ WF_muxVars(getMux \/ readLines \/ readLine \/ test)
  /\ WF_muxVars(Firmware) /\ WF_muxVars(Receive)

-------------------------------------------------------------------------------
(* When set() returns having seen its channel, the outputs select that     *)
(* channel and go on doing so until the next call: answers that came late, *)
(* from this call or an earlier one, and lost commands never make it take  *)
(* an old channel for the new one.  A set_mux may still be under way (its  *)
(* answer was an older one that named the same channel), but only one that *)
(* leaves the outputs as they are.                                         *)
ConfirmedIsSet ==
  pc = "idle" /\ confirmed =>
    /\ Value(pins) = target
    /\ bit # Idle => channel = target
    /\ \A i \in 1..Len(wire) : wire[i].op = "set" => wire[i].ch = target

(* set() comes to an end when none of its commands that select a channel   *)
(* is lost, through answers that come late or garbled and get_mux_channel  *)
(* commands that are lost.  When one is, it may poll forever, although     *)
(* mux.py:25-27 gives up above 200 polls: the counter starts over before   *)
(* it gets there.                                                          *)
SetReturns == pc \notin {"idle", "raised"} ~> pc \in {"idle", "raised"} \/ missed
===============================================================================
