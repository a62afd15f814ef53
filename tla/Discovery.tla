------------------------------ MODULE Discovery ------------------------------
(***************************************************************************)
(* How start() finds the node: get_ip of resources/network.py, which lets  *)
(* scan of services/coap_client_scan.py ask one address after the other    *)
(* and then looks for the node among those that answered.  The rule of     *)
(* what matches is written twice, once in scan to end it and once in       *)
(* get_ip to pick the node.  Requests are not confirmable and wait for a   *)
(* tenth of a second, each on a socket of its own: an answer is in time or *)
(* lost, never late.                                                       *)
(*                                                                         *)
(* A serial number is its leading digits and the rest.  scan_sn is always  *)
(* set, so the branch without a scan is left out.                          *)
(***************************************************************************)
EXTENDS Naturals, Sequences

CONSTANTS
  Addresses,     \* last octets that exist on the subnet
  Own,           \* that of the bench
  Networks,      \* what may be on the subnet: a node or none per address
  Ranges,        \* settings of scan_start and scan_end
  Wanted         \* serial numbers the operator may enter

ASSUME DiscoveryAssumption ==
  /\ Addresses \subseteq 1..254 /\ Own \in Addresses
  /\ Ranges \subseteq [first : Nat, end : Nat]

NoSn == [lead |-> "", rest |-> ""]      \* a node that has no number yet
NoKey == [lead |-> "none", rest |-> ""] \* an answer without 'serialnum'
NoNode == [sn |-> NoKey, keyw |-> "no node"]
NoIp == 0

\* The operator cannot ask for a missing key.
ASSUME WantedAssumption == NoKey \notin Wanted

VARIABLES
  net,        \* the node at each address
  request,    \* the settings of this run, see Requests
  pc,
  i,          \* the address scan is at
  nodes,      \* coap_client_scan.nodes: addresses that answered
  ip,         \* ctx.ip
  repaired,   \* addresses that were sent update_db
  lost,       \* history: nodes whose answer to /network was lost
  unread,     \* history: nodes whose answer to the context was lost
  esc         \* history: the operator ended the scan

history == <<lost, unread, esc>>
vars == <<net, request, pc, i, nodes, ip, repaired, history>>

\* serial_number and set_sn with its digits from the command line, the range
\* from general_settings.yaml, and is_mini_node.
Requests == [sn : Wanted, set_sn : BOOLEAN, digits : {"", "a"},
             range : Ranges, mini : BOOLEAN]

Init ==
  /\ net \in Networks
  /\ request \in {r \in Requests : ~r.set_sn => r.digits = ""}
  /\ pc = "start" /\ i = 0 /\ nodes = <<>> /\ ip = NoIp
  /\ repaired = {} /\ lost = {} /\ unread = {} /\ esc = FALSE

SerialOf(a) == net[a].sn
ByDigits == request.set_sn /\ request.digits # ""

\* str.startswith, and the comparison of the first digits in scan.
StartsWith(sn, digits) == sn.lead = digits

\* A range that makes no sense lets scan return without asking anyone.
RangeError == \/ request.range.first < 2 \/ request.range.end > 255
              \/ request.range.end <= request.range.first

scan ==
  /\ pc = "start"
  /\ i' = request.range.first
  /\ pc' = IF RangeError THEN "pick" ELSE "probe"
  /\ UNCHANGED <<net, request, nodes, ip, repaired, history>>

\* The operator holds 'esc'.
Escape ==
  /\ pc = "probe" /\ i < request.range.end
  /\ esc' = TRUE /\ pc' = "pick"
  /\ UNCHANGED <<net, request, i, nodes, ip, repaired, lost, unread>>

ScanComplete ==
  /\ pc = "probe" /\ i = request.range.end
  /\ pc' = "pick"
  /\ UNCHANGED <<net, request, i, nodes, ip, repaired, history>>

\* Nobody is asked at the own address, and nobody answers where no node is.
Silent == i = Own \/ i \notin Addresses \/ net[i] = NoNode

\* getUcast of /network.
Probe ==
  /\ pc = "probe" /\ i < request.range.end
  /\ \/ /\ ~Silent /\ UNCHANGED lost
        /\ pc' = IF request.mini THEN "list" ELSE "context"
     \/ /\ pc' = "next"
        /\ lost' = IF Silent THEN lost ELSE lost \cup {i}
  /\ UNCHANGED <<net, request, i, nodes, ip, repaired, unread, esc>>

\* context["keyw"][0] raises on an empty list, and "keyw" in None as well.
ContextBad(answered) == ~answered \/ net[i].keyw = "empty"

\* getUcast of /dfd, /dfu and the context, and the repair of a node without
\* one.  The first two are only printed.
ReadContext ==
  /\ pc = "context"
  /\ \E answered \in BOOLEAN :
       /\ unread' = IF answered THEN unread ELSE unread \cup {i}
       /\ repaired' = IF ContextBad(answered) THEN repaired \cup {i} ELSE repaired
  /\ pc' = "list"
  /\ UNCHANGED <<net, request, i, nodes, ip, lost, esc>>

\* Mutant: leading digits do not end the scan.
EndsScanExact(sn) == request.sn # NoSn /\ sn = request.sn

\* Mutant: they end it whatever was asked for.
EndsScanByLead(sn) == request.sn # NoSn /\ StartsWith(sn, request.sn.lead)

\* The two rules that end the scan; by leading digits they are the number.
EndsScan(sn) ==
  \/ ByDigits /\ StartsWith(sn, request.digits)
  \/ ~ByDigits /\ request.sn # NoSn /\ sn = request.sn

\* Whether scan looks at the serial number at all.
LooksAtSerial == ByDigits \/ request.sn # NoSn

\* The node is listed.  If its answer has no serial number, the KeyError
\* ends get_ip and the test with it.
ListNode ==
  /\ pc = "list"
  /\ nodes' = Append(nodes, i)
  /\ pc' = IF LooksAtSerial /\ SerialOf(i) = NoKey THEN "raised"
           ELSE IF EndsScan(SerialOf(i)) THEN "pick" ELSE "next"
  /\ UNCHANGED <<net, request, i, ip, repaired, history>>

NextAddress ==
  /\ pc = "next"
  /\ i' = i + 1 /\ pc' = "probe"
  /\ UNCHANGED <<net, request, nodes, ip, repaired, history>>

\* The rules by which get_ip takes a node; one without a serial number is
\* passed over.
Picks(sn) ==
  /\ sn # NoKey
  /\ \/ ~request.set_sn /\ sn = request.sn
     \/ ByDigits /\ StartsWith(sn, request.digits)

Candidates == {k \in DOMAIN nodes : Picks(SerialOf(nodes[k]))}

\* get_ip takes the first such node.
Pick ==
  /\ pc = "pick"
  /\ \/ /\ Candidates = {} /\ pc' = "not found" /\ UNCHANGED ip
     \/ \E k \in Candidates :
          /\ \A m \in Candidates : k <= m
          /\ ip' = nodes[k] /\ pc' = "found"
  /\ UNCHANGED <<net, request, i, nodes, repaired, history>>

Ended == pc \in {"found", "not found", "raised"} /\ UNCHANGED vars

Next == \/ scan \/ Escape \/ ScanComplete \/ Probe \/ ReadContext \/ ListNode
        \/ NextAddress \/ Pick \/ Ended

Spec == Init /\ [][Next]_vars

-----------------------------------------------------------------------------
(* Properties.                                                             *)

InRange == {a \in Addresses \ {Own} :
              ~RangeError /\ request.range.first <= a /\ a < request.range.end}

\* The node at this address is one the operator means.
Meant(a) ==
  /\ a \in InRange /\ net[a] # NoNode /\ SerialOf(a) # NoKey
  /\ IF request.set_sn THEN ByDigits /\ SerialOf(a).lead = request.digits
     ELSE SerialOf(a) = request.sn

\* The node that start() goes on with is one the operator means, and every
\* such node at a lower address kept silent: a node that misses one request
\* hands its place, and with set_sn its serial number, to the next.  None is
\* found only if all of them kept silent or the operator broke off.  Any other
\* node ends the test only by an answer without a serial number, given before
\* the first of them was reached.
ScanExplained ==
  LET SilentBelow(a) == \A b \in InRange : Meant(b) /\ b < a => b \in lost
  IN  /\ pc = "found" => Meant(ip) /\ SilentBelow(ip)
      /\ pc = "not found" => esc \/ \A a \in InRange : Meant(a) => a \in lost
      /\ pc = "raised" => SerialOf(i) = NoKey /\ SilentBelow(i)

\* A scan sends update_db only to nodes whose context was not read or lists
\* no keyword, never for a mini node, and to none beyond the one it was
\* looking for, if it was looking for one.
BystandersUntouched ==
  \A a \in repaired :
    /\ ~request.mini /\ a \in InRange
    /\ a \in unread \/ net[a].keyw = "empty"
    /\ pc = "found" /\ LooksAtSerial => a <= ip
=============================================================================
