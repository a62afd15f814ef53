--------------------------- MODULE DiscoveryProofs ---------------------------
(***************************************************************************)
(* Theorems about get_ip and scan, for every subnet, range and serial      *)
(* number.                                                                 *)
(***************************************************************************)
EXTENDS Discovery, SequenceTheorems, TLAPS

Scanning == {"probe", "context", "list", "next"}

(* What the argument needs of the types.                                   *)
Types ==
  /\ request.range \in [first : Nat, end : Nat] /\ request.sn # NoKey
  /\ i \in Nat /\ nodes \in Seq(Addresses)

(* The scan is inside its range, and asks a node only if there is one.     *)
Place ==
  /\ pc = "start" => nodes = <<>> /\ repaired = {}
  /\ pc \in Scanning => ~RangeError /\ request.range.first <= i /\ i <= request.range.end
  /\ pc \in {"context", "list", "next"} => i < request.range.end
  /\ pc \in {"context", "list"} => ~Silent
  /\ pc = "context" => ~request.mini

(* The nodes listed are in the range, in ascending order, and behind the   *)
(* address the scan is at.                                                 *)
Listed(a) == \E k \in DOMAIN nodes : nodes[k] = a
Behind(a) == IF pc \in {"probe", "context", "list"} THEN a < i ELSE a <= i
Known ==
  /\ \A k \in DOMAIN nodes :
       nodes[k] \in InRange /\ net[nodes[k]] # NoNode /\ Behind(nodes[k])
  /\ \A k, m \in DOMAIN nodes : k < m => nodes[k] < nodes[m]

(* A node that is meant and was passed is listed, or its answer was lost.  *)
Passed ==
  pc # "start" =>
    \A a \in InRange : Meant(a) /\ (a < i \/ (pc = "next" /\ a = i)) => a \in lost \/ Listed(a)

(* Where serial numbers are looked at, the first node that will be picked  *)
(* ended the scan.                                                         *)
FirstEnds ==
  LooksAtSerial =>
    \A k \in DOMAIN nodes : Picks(SerialOf(nodes[k])) => pc \notin Scanning /\ nodes[k] = i

(* Why the scan ended, and what came of it.                                *)
Over ==
  \/ esc \/ RangeError \/ i = request.range.end
  \/ Listed(i) /\ EndsScan(SerialOf(i)) /\ SerialOf(i) # NoKey
Result ==
  /\ pc \in {"pick", "not found"} => Over
  /\ pc = "not found" => Candidates = {}
  /\ pc = "found" => \E k \in Candidates : ip = nodes[k] /\ \A m \in Candidates : k <= m
  /\ pc = "raised" => LooksAtSerial /\ SerialOf(i) = NoKey

(* Who was sent update_db.                                                 *)
Repairs ==
  \A a \in repaired : /\ ~request.mini /\ a \in InRange /\ a <= i
                      /\ a \in unread \/ net[a].keyw = "empty"

IInv == Types /\ Place /\ Known /\ Passed /\ FirstEnds /\ Result /\ Repairs

-----------------------------------------------------------------------------
(* The rules of scan and get_ip agree where both apply.                    *)
LEMMA MeantIsPicked == \A a : Meant(a) => Picks(SerialOf(a))
  BY DEF Meant, Picks, StartsWith

LEMMA PickedIsMeant ==
  \A a \in InRange : net[a] # NoNode /\ Picks(SerialOf(a)) => Meant(a)
  BY DEF Meant, Picks, StartsWith, ByDigits

LEMMA PickedEnds == \A sn : LooksAtSerial /\ Picks(sn) => EndsScan(sn)
  BY DEF Picks, EndsScan, LooksAtSerial, ByDigits

LEMMA EndsIsPicked ==
  ASSUME NEW sn, sn # NoKey, EndsScan(sn), NEW a, Meant(a) PROVE Picks(sn)
  BY DEF EndsScan, Picks, Meant, ByDigits, StartsWith

(* The addresses of the range are those the scan goes through.             *)
LEMMA InRangeIs ==
  ASSUME Types
  PROVE \A a : a \in InRange <=>
          a \in Addresses /\ a # Own /\ ~RangeError /\ request.range.first <= a
            /\ a < request.range.end
  BY DEF InRange

(* Addresses are natural numbers.                                          *)
LEMMA AddressNat == \A a \in Addresses : a \in Nat
  BY DiscoveryAssumption

LEMMA InitIInv == Init => IInv
<1> SUFFICES ASSUME Init PROVE IInv
  OBVIOUS
<1>1. request.sn \in Wanted /\ request.range \in Ranges
  BY DEF Init, Requests
<1>2. pc = "start" /\ i = 0 /\ nodes = <<>> /\ repaired = {}
  BY DEF Init
<1>3. DOMAIN nodes = {} /\ nodes \in Seq(Addresses)
  BY <1>2
<1>4. request.range \in [first : Nat, end : Nat] /\ request.sn # NoKey
  BY <1>1, DiscoveryAssumption, WantedAssumption
<1>5. Types BY <1>2, <1>3, <1>4 DEF Types
<1> QED BY <1>2, <1>3, <1>5 DEF IInv, Place, Known, Passed, FirstEnds, Result, Repairs, Scanning

(* The set up of the scan and its ends.                                    *)
LEMMA ScanKeeps == IInv /\ scan => IInv'
<1> SUFFICES ASSUME IInv, scan PROVE IInv'
  OBVIOUS
<1>1. /\ nodes = <<>> /\ repaired = {} /\ DOMAIN nodes = {} /\ i' = request.range.first
      /\ pc' = (IF RangeError THEN "pick" ELSE "probe")
      /\ UNCHANGED <<net, request, nodes, ip, repaired, lost, unread, esc>>
  BY DEF scan, history, IInv, Place
<1>2. Types' BY <1>1 DEF IInv, Types
<1>3. request.range.first \in Nat /\ request.range.end \in Nat
  BY DEF IInv, Types
<1>4. RangeError' = RangeError BY <1>1 DEF RangeError
<1>5. Place' BY <1>1, <1>3, <1>4 DEF Place, Scanning, RangeError
<1>6. Known' /\ FirstEnds' /\ Repairs' BY <1>1 DEF Known, FirstEnds, Repairs
<1>7. Passed'
  <2> SUFFICES ASSUME NEW a \in InRange', Meant(a)', a < i' \/ (pc' = "next" /\ a = i')
               PROVE FALSE
    BY DEF Passed
  <2>1. a \in Addresses /\ request.range.first <= a /\ a \in Nat
    BY <1>1, AddressNat DEF InRange, RangeError
  <2> QED BY <1>1, <1>3, <2>1
<1>8. Result' BY <1>1, <1>4 DEF Result, Over
<1> QED BY <1>2, <1>5, <1>6, <1>7, <1>8 DEF IInv

LEMMA EndKeeps == IInv /\ (Escape \/ ScanComplete) => IInv'
<1> SUFFICES ASSUME IInv, Escape \/ ScanComplete PROVE IInv'
  OBVIOUS
<1>1. /\ pc = "probe" /\ pc' = "pick" /\ (esc' \/ i = request.range.end)
      /\ UNCHANGED <<net, request, i, nodes, ip, repaired, lost, unread>>
  BY DEF Escape, ScanComplete, history
<1>2. Types' BY <1>1 DEF IInv, Types
<1>3. Place' BY <1>1 DEF Place, Scanning
<1>4. Known'
  <2>1. \A k \in DOMAIN nodes : nodes[k] < i /\ nodes[k] \in Nat
    BY <1>1, AddressNat DEF IInv, Known, Behind, Types, InRange
  <2> QED BY <1>1, <2>1 DEF IInv, Types, Known, Behind, InRange, RangeError
<1>5. Passed' BY <1>1 DEF IInv, Passed, Meant, InRange, RangeError, Listed, SerialOf, ByDigits
<1>6. FirstEnds' BY <1>1 DEF IInv, FirstEnds, LooksAtSerial, Picks, SerialOf, ByDigits, Scanning
<1>7. Result' BY <1>1 DEF Result, Over
<1>8. Repairs' BY <1>1 DEF IInv, Repairs, InRange, RangeError
<1> QED BY <1>2, <1>3, <1>4, <1>5, <1>6, <1>7, <1>8 DEF IInv

-----------------------------------------------------------------------------
(* One address after the other.                                            *)
LEMMA ProbeKeeps == IInv /\ Probe => IInv'
<1> SUFFICES ASSUME IInv, Probe PROVE IInv'
  OBVIOUS
<1>1. /\ pc = "probe" /\ i < request.range.end
      /\ UNCHANGED <<net, request, i, nodes, ip, repaired, unread, esc>>
  BY DEF Probe
<1>2. \/ /\ ~Silent /\ lost' = lost
         /\ pc' = (IF request.mini THEN "list" ELSE "context")
      \/ /\ pc' = "next"
         /\ lost' = IF Silent THEN lost ELSE lost \cup {i}
  BY DEF Probe
<1>3. Types' BY <1>1 DEF IInv, Types
<1>4. Place' BY <1>1, <1>2 DEF IInv, Place, Scanning, Silent, RangeError
<1>5. Known'
  <2>1. \A k \in DOMAIN nodes : nodes[k] < i /\ nodes[k] \in Nat
    BY <1>1, AddressNat DEF IInv, Known, Behind, Types, InRange
  <2> QED BY <1>1, <1>2, <2>1 DEF IInv, Types, Known, Behind, InRange, RangeError
<1>6. Passed'
  <2>1. /\ \A a : (a \in InRange) = (a \in InRange') /\ Meant(a) = Meant(a)' /\ Listed(a) = Listed(a)'
        /\ pc # "start" /\ pc # "next" /\ lost \subseteq lost'
    BY <1>1, <1>2 DEF Meant, InRange, RangeError, Listed, SerialOf, ByDigits
  <2>2. \A a : Meant(a) /\ pc' = "next" /\ a = i => a \in lost'
    BY <1>1, <1>2 DEF Meant, InRange, Silent
  <2> QED BY <1>1, <2>1, <2>2 DEF IInv, Passed
<1>7. FirstEnds' BY <1>1 DEF IInv, FirstEnds, LooksAtSerial, Picks, SerialOf, ByDigits, Scanning
<1>8. Result' BY <1>1, <1>2 DEF Result
<1>9. Repairs' BY <1>1 DEF IInv, Repairs, InRange, RangeError
<1> QED BY <1>3, <1>4, <1>5, <1>6, <1>7, <1>8, <1>9 DEF IInv

LEMMA ReadContextKeeps == IInv /\ ReadContext => IInv'
<1> SUFFICES ASSUME IInv, ReadContext PROVE IInv'
  OBVIOUS
<1>1. /\ pc = "context" /\ pc' = "list" /\ unread \subseteq unread'
      /\ \A a \in repaired' : a \in repaired \/ (a = i /\ (i \in unread' \/ net[i].keyw = "empty"))
      /\ UNCHANGED <<net, request, i, nodes, ip, lost, esc>>
  BY DEF ReadContext, ContextBad
<1>2. Types' BY <1>1 DEF IInv, Types
<1>3. Place' BY <1>1 DEF IInv, Place, Scanning, Silent, RangeError
<1>4. Known' BY <1>1 DEF IInv, Types, Known, Behind, InRange, RangeError
<1>5. Passed' BY <1>1 DEF IInv, Passed, Meant, InRange, RangeError, Listed, SerialOf, ByDigits
<1>6. FirstEnds' BY <1>1 DEF IInv, FirstEnds, LooksAtSerial, Picks, SerialOf, ByDigits, Scanning
<1>7. Result' BY <1>1 DEF Result
<1>8. Repairs'
  <2>1. i \in InRange /\ ~request.mini /\ i \in Nat
    BY <1>1, InRangeIs DEF IInv, Types, Place, Silent, Scanning
  <2> QED BY <1>1, <2>1 DEF IInv, Repairs, InRange, RangeError
<1> QED BY <1>2, <1>3, <1>4, <1>5, <1>6, <1>7, <1>8 DEF IInv

LEMMA NextAddressKeeps == IInv /\ NextAddress => IInv'
<1> SUFFICES ASSUME IInv, NextAddress PROVE IInv'
  OBVIOUS
<1>1. /\ pc = "next" /\ pc' = "probe" /\ i' = i + 1 /\ i \in Nat
      /\ request.range.first \in Nat /\ request.range.end \in Nat
      /\ UNCHANGED <<net, request, nodes, ip, repaired, lost, unread, esc>>
  BY DEF NextAddress, history, IInv, Types
<1>2. Types' BY <1>1 DEF IInv, Types
<1>3. Place' BY <1>1 DEF IInv, Place, Scanning, RangeError
<1>4. /\ \A a : (a \in InRange) = (a \in InRange') /\ Meant(a) = Meant(a)' /\ Listed(a) = Listed(a)'
      /\ InRange \subseteq Nat
  BY <1>1, AddressNat DEF Meant, InRange, RangeError, Listed, SerialOf, ByDigits
<1>5. Known'
  <2>1. \A k \in DOMAIN nodes : nodes[k] <= i /\ nodes[k] \in Nat
    BY <1>1, <1>4 DEF IInv, Known, Behind
  <2> QED BY <1>1, <1>4, <2>1 DEF IInv, Known, Behind
<1>6. Passed'
  <2>1. \A a \in InRange : a < i + 1 => a < i \/ a = i
    BY <1>1, <1>4
  <2> QED BY <1>1, <1>4, <2>1 DEF IInv, Passed
<1>7. FirstEnds' BY <1>1 DEF IInv, FirstEnds, LooksAtSerial, Picks, SerialOf, ByDigits, Scanning
<1>8. Result' BY <1>1 DEF Result
<1>9. Repairs'
  <2>1. ASSUME NEW a \in repaired PROVE a <= i'
    <3>1. a \in Nat /\ a <= i BY <1>4 DEF IInv, Repairs
    <3> QED BY <1>1, <3>1
  <2> QED BY <1>1, <1>4, <2>1 DEF IInv, Repairs
<1> QED BY <1>2, <1>3, <1>5, <1>6, <1>7, <1>8, <1>9 DEF IInv

(* A node is listed: it is the last one, and the first that is picked ends *)
(* the scan.                                                               *)
LEMMA ListNodeKeeps == IInv /\ ListNode => IInv'
<1> SUFFICES ASSUME IInv, ListNode PROVE IInv'
  OBVIOUS
<1> DEFINE sn == SerialOf(i)
<1>1. /\ pc = "list" /\ nodes' = Append(nodes, i)
      /\ pc' = (IF LooksAtSerial /\ sn = NoKey THEN "raised" ELSE IF EndsScan(sn) THEN "pick" ELSE "next")
      /\ UNCHANGED <<net, request, i, ip, repaired, lost, unread, esc>>
  BY DEF ListNode, history
<1>2. pc' \in {"raised", "pick", "next"} BY <1>1
<1>3. i \in InRange /\ i \in Addresses /\ net[i] # NoNode /\ i \in Nat /\ i < request.range.end
  BY <1>1, InRangeIs DEF IInv, Types, Place, Silent, Scanning
<1>4. /\ \A k \in DOMAIN nodes : k \in DOMAIN nodes' /\ nodes'[k] = nodes[k]
      /\ \A k \in DOMAIN nodes' : k \notin DOMAIN nodes =>
           nodes'[k] = i /\ \A m \in DOMAIN nodes' : m <= k
      /\ \E k \in DOMAIN nodes' : nodes'[k] = i
      /\ nodes' \in Seq(Addresses) /\ DOMAIN nodes' \subseteq Nat
  <2>1. nodes \in Seq(Addresses) /\ Len(nodes) \in Nat /\ DOMAIN nodes = 1..Len(nodes)
    BY LenProperties DEF IInv, Types
  <2>2. /\ nodes' \in Seq(Addresses) /\ Len(nodes') = Len(nodes) + 1
        /\ nodes'[Len(nodes) + 1] = i
        /\ \A k \in 1..Len(nodes) : nodes'[k] = nodes[k]
    BY <1>1, <1>3, <2>1, AppendProperties
  <2>3. DOMAIN nodes' = 1..Len(nodes) + 1
    BY <2>1, <2>2, LenProperties
  <2> QED BY <2>1, <2>2, <2>3
<1>5. /\ \A a : (a \in InRange) = (a \in InRange') /\ Meant(a) = Meant(a)' /\ SerialOf(a)' = SerialOf(a)
      /\ \A x : Picks(x)' = Picks(x) /\ EndsScan(x)' = EndsScan(x)
      /\ LooksAtSerial' = LooksAtSerial
  BY <1>1 DEF Meant, InRange, RangeError, SerialOf, ByDigits, Picks, EndsScan, LooksAtSerial
<1>6. Types' BY <1>1, <1>4 DEF IInv, Types
<1>7. Place' BY <1>1, <1>2, <1>3 DEF IInv, Place, Scanning, RangeError
<1>8. Known'
  <2>1. \A k \in DOMAIN nodes : nodes[k] < i /\ nodes[k] \in Nat
    BY <1>1, AddressNat DEF IInv, Known, Behind, InRange
  <2>2. \A k \in DOMAIN nodes' :
          nodes'[k] \in InRange' /\ net[nodes'[k]] # NoNode /\ nodes'[k] <= i
    BY <1>3, <1>4, <1>5, <2>1 DEF IInv, Known
  <2>3. \A k, m \in DOMAIN nodes' : k < m => nodes'[k] < nodes'[m]
    <3> SUFFICES ASSUME NEW k \in DOMAIN nodes', NEW m \in DOMAIN nodes', k < m
                 PROVE nodes'[k] < nodes'[m]
      OBVIOUS
    <3>1. k \in DOMAIN nodes /\ nodes'[k] = nodes[k]
      <4>1. ~(m <= k) BY <1>4
      <4> QED BY <1>4, <4>1
    <3>2. CASE m \in DOMAIN nodes BY <1>4, <3>1, <3>2 DEF IInv, Known
    <3>3. CASE m \notin DOMAIN nodes BY <1>4, <2>1, <3>1, <3>3
    <3> QED BY <3>2, <3>3
  <2> QED BY <1>1, <1>2, <2>2, <2>3 DEF Known, Behind
<1>9. Passed'
  <2>1. Listed(i)' /\ \A a : Listed(a) => Listed(a)'
    BY <1>1, <1>4 DEF Listed
  <2> QED BY <1>1, <1>5, <2>1 DEF IInv, Passed
<1>10. FirstEnds'
  <2> SUFFICES ASSUME LooksAtSerial, NEW k \in DOMAIN nodes', Picks(SerialOf(nodes'[k]))
               PROVE pc' \notin Scanning /\ nodes'[k] = i
    BY <1>1, <1>5 DEF FirstEnds
  <2>1. k \notin DOMAIN nodes
    BY <1>1, <1>4 DEF IInv, FirstEnds, Scanning
  <2>2. nodes'[k] = i BY <1>4, <2>1
  <2>3. EndsScan(sn) /\ sn # NoKey BY <2>2, PickedEnds DEF Picks
  <2> QED BY <1>1, <2>2, <2>3 DEF Scanning
<1>11. Result'
  <2>1. EndsScan(sn) => LooksAtSerial BY DEF EndsScan, LooksAtSerial
  <2>2. Listed(i)' BY <1>1, <1>4 DEF Listed
  <2>3. pc' = "pick" => Over'
    BY <1>1, <1>5, <2>1, <2>2 DEF Over
  <2>4. pc' = "raised" => LooksAtSerial' /\ SerialOf(i)' = NoKey
    BY <1>1, <1>5
  <2>5. SerialOf(i') = SerialOf(i) BY <1>1
  <2> QED BY <1>1, <1>2, <2>3, <2>4 DEF Result
<1>12. Repairs' BY <1>1, <1>5 DEF IInv, Repairs
<1> QED BY <1>6, <1>7, <1>8, <1>9, <1>10, <1>11, <1>12 DEF IInv

LEMMA PickKeeps == IInv /\ Pick => IInv'
<1> SUFFICES ASSUME IInv, Pick PROVE IInv'
  OBVIOUS
<1>1. /\ pc = "pick" /\ UNCHANGED <<net, request, i, nodes, repaired, lost, unread, esc>>
      /\ \/ pc' = "not found" /\ Candidates = {}
         \/ pc' = "found" /\ \E k \in Candidates : ip' = nodes[k] /\ \A m \in Candidates : k <= m
  BY DEF Pick, history
<1>2. Types' BY <1>1 DEF IInv, Types
<1>3. Place' BY <1>1 DEF Place, Scanning
<1>4. Known' BY <1>1 DEF IInv, Known, Behind, InRange, RangeError
<1>5. Passed' BY <1>1 DEF IInv, Passed, Meant, InRange, RangeError, Listed, SerialOf, ByDigits
<1>6. FirstEnds' BY <1>1 DEF IInv, FirstEnds, LooksAtSerial, Picks, SerialOf, ByDigits, Scanning
<1>7. Result'
  <2>1. Candidates' = Candidates BY <1>1 DEF Candidates, Picks, SerialOf, ByDigits
  <2>2. Over' = Over BY <1>1 DEF Over, RangeError, Listed, EndsScan, SerialOf, ByDigits
  <2> QED BY <1>1, <2>1, <2>2 DEF IInv, Result
<1>8. Repairs' BY <1>1 DEF IInv, Repairs, InRange, RangeError
<1> QED BY <1>2, <1>3, <1>4, <1>5, <1>6, <1>7, <1>8 DEF IInv

LEMMA StutterKeeps == IInv /\ UNCHANGED vars => IInv'
<1> SUFFICES ASSUME IInv, UNCHANGED vars PROVE IInv'
  OBVIOUS
<1>1. UNCHANGED <<net, request, pc, i, nodes, ip, repaired, lost, unread, esc>>
  BY DEF vars, history
<1>2. Types' /\ Place' BY <1>1 DEF IInv, Types, Place, Silent, RangeError
<1>3. Known' /\ Repairs' BY <1>1 DEF IInv, Known, Repairs, Behind, InRange, RangeError
<1>4. Passed' BY <1>1 DEF IInv, Passed, Meant, InRange, RangeError, Listed, SerialOf, ByDigits
<1>5. FirstEnds' BY <1>1 DEF IInv, FirstEnds, LooksAtSerial, Picks, SerialOf, ByDigits
<1>6. Result'
  <2>1. Candidates' = Candidates BY <1>1 DEF Candidates, Picks, SerialOf, ByDigits
  <2>2. Over' = Over BY <1>1 DEF Over, RangeError, Listed, EndsScan, SerialOf, ByDigits
  <2> QED BY <1>1, <2>1, <2>2 DEF IInv, Result, LooksAtSerial, SerialOf, ByDigits
<1> QED BY <1>2, <1>3, <1>4, <1>5, <1>6 DEF IInv

LEMMA Invariant == Spec => []IInv
<1>1. IInv /\ [Next]_vars => IInv'
  BY ScanKeeps, EndKeeps, ProbeKeeps, ReadContextKeeps, ListNodeKeeps, NextAddressKeeps, PickKeeps,
     StutterKeeps DEF Next, Ended
<1> QED BY <1>1, InitIInv, PTL DEF Spec

-----------------------------------------------------------------------------
(* The node the test goes on with is one the operator means, the lowest of *)
(* those that answered; only lost answers, the operator's 'esc' and a node *)
(* without a key lead to another outcome.                                  *)
THEOREM ScanIsExplained == Spec => []ScanExplained
<1>1. IInv => ScanExplained
  <2> SUFFICES ASSUME IInv PROVE ScanExplained
    OBVIOUS
  <2> DEFINE SilentBelow(a) == \A b \in InRange : Meant(b) /\ b < a => b \in lost
  <2>1. ASSUME pc = "found" PROVE Meant(ip) /\ SilentBelow(ip)
    <3>1. PICK k \in Candidates : ip = nodes[k] /\ \A m \in Candidates : k <= m
      BY <2>1 DEF IInv, Result
    <3>2. k \in DOMAIN nodes /\ Picks(SerialOf(ip)) /\ DOMAIN nodes \subseteq Nat
      BY <3>1, LenProperties DEF Candidates, IInv, Types
    <3>3. ip \in InRange /\ net[ip] # NoNode /\ ip <= i /\ ip \in Nat /\ i \in Nat
      BY <2>1, <3>1, <3>2, AddressNat DEF IInv, Types, Known, Behind, InRange
    <3>4. Meant(ip) BY <3>2, <3>3, PickedIsMeant
    <3>5. ASSUME NEW b \in InRange, Meant(b), b < ip PROVE b \in lost
      <4>1. b \in Nat BY AddressNat DEF InRange
      <4>2. b < i BY <3>3, <3>5, <4>1
      <4>3. CASE Listed(b)
        <5>1. PICK m \in DOMAIN nodes : nodes[m] = b BY <4>3 DEF Listed
        <5>2. m \in Candidates BY <3>5, <5>1, MeantIsPicked DEF Candidates
        <5>3. k <= m /\ k \in Nat /\ m \in Nat BY <3>1, <3>2, <5>1, <5>2
        <5>4. k # m BY <3>1, <3>3, <3>5, <4>1, <5>1
        <5>5. nodes[k] < nodes[m] BY <3>2, <5>1, <5>3, <5>4 DEF IInv, Known
        <5> QED BY <3>1, <3>3, <3>5, <4>1, <5>1, <5>5
      <4> QED BY <2>1, <3>5, <4>2, <4>3 DEF IInv, Passed
    <3> QED BY <3>4, <3>5
  <2>2. ASSUME pc = "not found", ~esc, NEW a \in InRange, Meant(a) PROVE a \in lost
    <3>1. Candidates = {} /\ Over BY <2>2 DEF IInv, Result
    <3>2. \A b : Listed(b) => ~Picks(SerialOf(b))
      BY <3>1 DEF Listed, Candidates
    <3>3. ~(Listed(i) /\ EndsScan(SerialOf(i)) /\ SerialOf(i) # NoKey)
      BY <2>2, <3>2, EndsIsPicked
    <3>4. ~RangeError /\ a < request.range.end BY DEF InRange
    <3>5. i = request.range.end BY <2>2, <3>1, <3>3, <3>4 DEF Over
    <3>6. ~Listed(a) BY <2>2, <3>2, MeantIsPicked
    <3> QED BY <2>2, <3>4, <3>5, <3>6 DEF IInv, Passed
  <2>3. ASSUME pc = "raised" PROVE SerialOf(i) = NoKey /\ SilentBelow(i)
    <3>1. LooksAtSerial /\ SerialOf(i) = NoKey BY <2>3 DEF IInv, Result
    <3>2. ASSUME NEW b \in InRange, Meant(b), b < i PROVE b \in lost
      <4>1. b # i BY <3>1, <3>2 DEF Meant
      <4>2. ~Listed(b) BY <3>1, <3>2, <4>1, MeantIsPicked DEF IInv, FirstEnds, Listed
      <4> QED BY <2>3, <3>2, <4>2 DEF IInv, Passed
    <3> QED BY <3>1, <3>2
  <2> QED BY <2>1, <2>2, <2>3 DEF ScanExplained
<1> QED BY <1>1, Invariant, PTL

(* A scan tells only nodes it has asked and could not read, or that have   *)
(* no keyword, to rebuild their database, and none behind the node found.  *)
THEOREM BystandersAreLeftAlone == Spec => []BystandersUntouched
<1>1. IInv => BystandersUntouched
  <2> SUFFICES ASSUME IInv, NEW a \in repaired
               PROVE /\ ~request.mini /\ a \in InRange
                     /\ a \in unread \/ net[a].keyw = "empty"
                     /\ pc = "found" /\ LooksAtSerial => a <= ip
    BY DEF BystandersUntouched
  <2>1. /\ ~request.mini /\ a \in InRange /\ a <= i
        /\ a \in unread \/ net[a].keyw = "empty"
    BY DEF IInv, Repairs
  <2>2. ASSUME pc = "found", LooksAtSerial PROVE a <= ip
    <3>1. PICK k \in Candidates : ip = nodes[k] BY <2>2 DEF IInv, Result
    <3>2. ip = i BY <2>2, <3>1 DEF IInv, FirstEnds, Candidates
    <3> QED BY <2>1, <3>2
  <2> QED BY <2>1, <2>2
<1> QED BY <1>1, Invariant, PTL
=============================================================================
