--------------------------- MODULE NodeSettingsProofs ---------------------------
(***************************************************************************)
(* Theorems about setting the node, for any number of actuators, any test  *)
(* configuration and any number of requests lost, late or missed, and      *)
(* their proofs.                                                           *)
(***************************************************************************)
EXTENDS NodeSettings, SequenceTheorems, TLAPS

Entries(s) == {s[i] : i \in 1..Len(s)}
Settings == [key : Keys, who : Nat, value : Nat]
InSet == {"put", "wait", "check"}          \* a setting is under way

TypeOK ==
  /\ plan \in Plans /\ sec \in Nat \ {0} /\ pc \in {"section", "setting"} \cup InSet
  /\ pc # "section" => sec \in 1..Len(plan)
  /\ todo \in Seq(Settings) /\ (pc \in InSet => todo # <<>>)
  /\ tries \in Nat /\ unchecked \subseteq Nat /\ good \in BOOLEAN
  /\ save \in [Saved -> Nat] /\ failed \subseteq Saved /\ success \in BOOLEAN
  /\ node \in [Keys -> [Actuators -> Nat]] /\ wire \in Seq(Settings) /\ up \in BOOLEAN
  /\ lost \in 0..MaxLost /\ late \in 0..MaxLate /\ missed \in 0..MaxMissed

(* What is still to do comes from the section under way.                   *)
Asked(s) ==
  /\ s.key \in Saved => s.who = All
  /\ s.key = "maxw" => s.value = plan[sec].maxw
  /\ s.key = "setting" => /\ plan[sec].kind = "commission" /\ s.who \in Actuators
                          /\ s.value = plan[sec].cuv
  /\ plan[sec].kind = "commission" => s.key = "setting"
FromPlan == pc # "section" => \A s \in Entries(todo) : Asked(s)

(* A setting of one actuator goes to that actuator only.                   *)
Addressed == \A s \in Entries(wire) : s.key = "setting" => s.who \in Actuators

(* What has been read back was read behind every PUT.                      *)
CheckMeans ==
  pc = "check" =>
    /\ Current.key # "dim"
    /\ good => /\ unchecked = ReadBack(Current.key, Current.who) \/ wire = <<>>
               /\ \A a \in ReadBack(Current.key, Current.who) \ unchecked :
                    node[Current.key][a] = Current.value

(* Max watt of the section is saved once it is not to be set any more.     *)
MaxwMeans ==
  /\ pc # "section" /\ plan[sec].maxw # Absent /\ "maxw" \notin failed
  /\ \A s \in Entries(todo) : s.key # "maxw"
  => save["maxw"] = plan[sec].maxw

(* The actuator has the value it is commissioned with, and keeps it.       *)
Commissioned(a) ==
  /\ node["setting"][a] = plan[sec].cuv
  /\ \A s \in Entries(wire) : s.key = "setting" /\ s.who = a => s.value = plan[sec].cuv
Pending(a) == \E s \in Entries(todo) : s.key = "setting" /\ s.who = a
CommissionMeans ==
  pc # "section" /\ plan[sec].kind = "commission" /\ success =>
    \A a \in Actuators : Pending(a) \/ Commissioned(a)

(* SavedIsCurrent, by the entries of the wire.                             *)
SavedMeans ==
  \A k \in Saved \ (failed \cup Busy) : save[k] # Unset =>
    /\ \A a \in ReadBack(k, All) : node[k][a] = save[k]
    /\ \A s \in Entries(wire) : s.key # k

IInv ==
  /\ TypeOK /\ FromPlan /\ Addressed /\ CheckMeans /\ MaxwMeans /\ CommissionMeans
  /\ SavedMeans
-------------------------------------------------------------------------------
(* What a queue of settings holds.                                         *)

(* The entries of a sequence over a set belong to it.                      *)
LEMMA EntriesIn ==
  ASSUME NEW S, NEW q \in Seq(S)
  PROVE Entries(q) \subseteq S
BY DEF Entries

(* The first entry and the others.                                         *)
LEMMA EntriesTail ==
  ASSUME NEW S, NEW q \in Seq(S), q # <<>>
  PROVE /\ Tail(q) \in Seq(S) /\ Head(q) \in S /\ Head(q) \in Entries(q)
        /\ Entries(q) = {Head(q)} \cup Entries(Tail(q))
<1> DEFINE n == Len(q)
<1>1. n \in Nat \ {0} /\ Head(q) = q[1] /\ \A i \in 1..n : q[i] \in S
  OBVIOUS
<1>2. Tail(q) \in Seq(S) /\ Len(Tail(q)) = n - 1 /\ \A i \in 1..(n - 1) : Tail(q)[i] = q[i + 1]
  OBVIOUS
<1> HIDE DEF n
<1>3. 1 \in 1..n /\ \A i \in 1..n : i = 1 \/ i - 1 \in 1..(n - 1)
  BY <1>1
<1>4. \A i \in 1..(n - 1) : i + 1 \in 1..n
  BY <1>1
<1>5. \A i \in 1..n : i # 1 => Tail(q)[i - 1] = q[i]
  BY <1>1, <1>2, <1>3
<1>6. Entries(q) = {q[i] : i \in 1..n} /\ Entries(Tail(q)) = {Tail(q)[i] : i \in 1..(n - 1)}
  BY <1>2 DEF Entries, n
<1>7. Entries(q) \subseteq {Head(q)} \cup Entries(Tail(q))
  <2> SUFFICES ASSUME NEW i \in 1..n
      PROVE q[i] \in {Head(q)} \cup Entries(Tail(q))
    BY <1>6
  <2>1. CASE i = 1
    BY <1>1, <2>1
  <2>2. CASE i # 1
    BY <1>3, <1>5, <1>6, <2>2
  <2> QED BY <2>1, <2>2
<1>8. {Head(q)} \cup Entries(Tail(q)) \subseteq Entries(q)
  BY <1>1, <1>2, <1>3, <1>4, <1>6
<1> QED BY <1>1, <1>2, <1>3, <1>6, <1>7, <1>8

(* What is appended is an entry.                                           *)
LEMMA EntriesAppend ==
  ASSUME NEW S, NEW q \in Seq(S), NEW e \in S
  PROVE Append(q, e) \in Seq(S) /\ Entries(Append(q, e)) = Entries(q) \cup {e}
<1> DEFINE n == Len(q)
           a == Append(q, e)
<1>1. n \in Nat /\ a \in Seq(S) /\ Len(a) = n + 1 /\ a[n + 1] = e
      /\ \A i \in 1..n : a[i] = q[i]
  OBVIOUS
<1>2. Entries(q) = {q[i] : i \in 1..n} /\ Entries(a) = {a[i] : i \in 1..(n + 1)}
  BY <1>1 DEF Entries, n
<1> HIDE DEF n, a
<1>3. n + 1 \in 1..(n + 1) /\ \A i \in 1..n : i \in 1..(n + 1)
  BY <1>1
<1>4. \A i \in 1..(n + 1) : i = n + 1 \/ i \in 1..n
  BY <1>1
<1>5. Entries(a) = Entries(q) \cup {e}
  BY <1>1, <1>2, <1>3, <1>4
<1> QED BY <1>1, <1>5 DEF a

(* One queue behind another.                                               *)
LEMMA EntriesConcat ==
  ASSUME NEW S, NEW q \in Seq(S), NEW r \in Seq(S)
  PROVE q \o r \in Seq(S) /\ Entries(q \o r) = Entries(q) \cup Entries(r)
<1> DEFINE n == Len(q)
           m == Len(r)
           c == q \o r
<1>1. /\ n \in Nat /\ m \in Nat /\ c \in Seq(S) /\ Len(c) = n + m
      /\ \A i \in 1..(n + m) : c[i] = IF i <= n THEN q[i] ELSE r[i - n]
  BY ConcatProperties
<1>2. /\ Entries(q) = {q[i] : i \in 1..n} /\ Entries(r) = {r[i] : i \in 1..m}
      /\ Entries(c) = {c[i] : i \in 1..(n + m)}
  BY <1>1 DEF Entries, n, m
<1> HIDE DEF n, m, c
<1>3. \A i \in 1..n : i \in 1..(n + m) /\ c[i] = q[i]
  BY <1>1
<1>4. \A i \in 1..m : n + i \in 1..(n + m) /\ c[n + i] = r[i]
  BY <1>1
<1>5. \A i \in 1..(n + m) : \/ i \in 1..n /\ c[i] = q[i]
                            \/ i - n \in 1..m /\ c[i] = r[i - n]
  BY <1>1
<1>6. Entries(q) \subseteq Entries(c) /\ Entries(r) \subseteq Entries(c)
  BY <1>2, <1>3, <1>4
<1>7. Entries(c) \subseteq Entries(q) \cup Entries(r)
  BY <1>2, <1>5
<1> QED BY <1>1, <1>6, <1>7 DEF c

(* A setting of the section, or none.                                      *)
LEMMA OptionalIs ==
  ASSUME NEW s \in Settings
  PROVE /\ Optional(s) \in Seq(Settings)
        /\ Entries(Optional(s)) = IF s.value = Absent THEN {} ELSE {s}
BY DEF Optional, Entries

(* A setting behind those of the section so far, or none.                  *)
LEMMA OptionalNext ==
  ASSUME NEW q \in Seq(Settings), NEW s \in Settings
  PROVE /\ q \o Optional(s) \in Seq(Settings)
        /\ Entries(q) \subseteq Entries(q \o Optional(s))
        /\ Entries(q \o Optional(s)) \subseteq Entries(q) \cup {s}
        /\ s.value # Absent => s \in Entries(q \o Optional(s))
<1>1. Optional(s) \in Seq(Settings)
  BY OptionalIs
<1>2. /\ q \o Optional(s) \in Seq(Settings)
      /\ Entries(q \o Optional(s)) = Entries(q) \cup Entries(Optional(s))
  BY <1>1, EntriesConcat
<1> QED BY <1>2, OptionalIs
-------------------------------------------------------------------------------
(* What the definitions of the actuators come to.                          *)

LEMMA ReadBackIs ==
  ASSUME NEW k \in Keys, NEW who \in Nat
  PROVE /\ ReadBack(k, who) \subseteq Nat /\ ReadBack(k, who) # {}
        /\ who = All => ReadBack(k, who) \subseteq Actuators
        /\ k = "maxw" /\ who = All => ReadBack(k, who) = Actuators
        /\ k = "setting" /\ who \in Actuators => ReadBack(k, who) = {who}
        /\ who \in Actuators => CheckList(who) = {who}
<1>1. NumActuators \in Actuators /\ All \notin Actuators /\ Actuators \subseteq Nat
  BY SettingsAssumption DEF Actuators
<1> QED BY <1>1 DEF ReadBack, CheckList

(* The setting that is being made.                                         *)
LEMMA CurrentIs ==
  ASSUME TypeOK, todo # <<>>
  PROVE /\ Current \in Settings /\ Current \in Entries(todo)
        /\ Tail(todo) \in Seq(Settings)
        /\ Entries(todo) = {Current} \cup Entries(Tail(todo))
        /\ Current.key \in Keys /\ Current.who \in Nat /\ Current.value \in Nat
<1>1. todo \in Seq(Settings)
  BY DEF TypeOK
<1>2. /\ Current \in Settings /\ Current \in Entries(todo)
      /\ Tail(todo) \in Seq(Settings)
      /\ Entries(todo) = {Current} \cup Entries(Tail(todo))
  BY <1>1, EntriesTail DEF Current
<1> QED BY <1>2 DEF Settings

(* The section under way.                                                  *)
LEMMA SectionIs ==
  ASSUME TypeOK, sec \in 1..Len(plan)
  PROVE /\ plan[sec].kind \in {"cfg", "load", "commission"}
        /\ plan[sec].maxw \in Nat /\ plan[sec].cccv \in Nat
        /\ plan[sec].cuv \in Nat /\ plan[sec].dim \in Nat
        /\ plan[sec].kind = "commission" => plan[sec].maxw = Absent
<1> DEFINE R == [kind : {"cfg", "load", "commission"},
                 maxw : Nat, cccv : Nat, cuv : Nat, dim : Nat]
<1>1. plan \in Seq(R)
  BY PlansAssumption DEF TypeOK
<1> HIDE DEF R
<1>2. plan[sec] \in R
  BY <1>1, ElementOfSeq
<1>3. plan[sec].kind = "commission" => plan[sec].maxw = Absent
  BY PlansAssumption DEF TypeOK
<1> QED BY <1>2, <1>3 DEF R

(* A setting has its key, its actuators and its value.                     *)
LEMMA SettingIs ==
  ASSUME NEW k \in Keys, NEW who \in Nat, NEW v \in Nat
  PROVE /\ Setting(k, who, v) \in Settings
        /\ Setting(k, who, v).key = k /\ Setting(k, who, v).who = who
        /\ Setting(k, who, v).value = v
BY DEF Setting, Settings
-------------------------------------------------------------------------------
(* The steps of the host.                                                  *)

(* What a section of the configuration asks for.                           *)
LEMMA ConfigIs ==
  ASSUME NEW s, s.maxw \in Nat, s.cccv \in Nat
  PROVE /\ Config(s) \in Seq(Settings)
        /\ \A e \in Entries(Config(s)) :
             e.key \in Saved /\ e.who = All /\ (e.key = "maxw" => e.value = s.maxw)
        /\ s.maxw # Absent => \E e \in Entries(Config(s)) : e.key = "maxw"
<1> DEFINE c == Setting("cccv", All, s.cccv)
           m == Setting("maxw", All, s.maxw)
<1>1. /\ c \in Settings /\ c.key = "cccv" /\ c.who = All /\ c.value = s.cccv
      /\ m \in Settings /\ m.key = "maxw" /\ m.who = All /\ m.value = s.maxw
  BY SettingIs, SettingsAssumption DEF Keys
<1>2. Config(s) = Optional(c) \o Optional(m)
  BY DEF Config
<1> HIDE DEF c, m
<1>3. Optional(c) \in Seq(Settings) /\ Entries(Optional(c)) \subseteq {c}
  BY <1>1, OptionalIs
<1> DEFINE q == Optional(c)
<1> HIDE DEF q
<1>4. /\ Config(s) \in Seq(Settings) /\ Entries(Config(s)) \subseteq {c, m}
      /\ m.value # Absent => m \in Entries(Config(s))
  <2>1. q \in Seq(Settings) /\ Entries(q) \subseteq {c} /\ Config(s) = q \o Optional(m)
    BY <1>2, <1>3 DEF q
  <2> QED BY <1>1, <2>1, OptionalNext
<1> QED BY <1>1, <1>4 DEF Saved

(* What a load asks for.                                                   *)
LEMMA LoadAsks ==
  ASSUME NEW s, s.maxw \in Nat, s.cccv \in Nat, s.cuv \in Nat, s.dim \in Nat,
         before_load_relays(s)
  PROVE /\ todo' \in Seq(Settings)
        /\ \A e \in Entries(todo') : /\ e.key \in Saved => e.who = All
                                     /\ e.key = "maxw" => e.value = s.maxw
                                     /\ e.key # "setting"
        /\ s.maxw # Absent => \E e \in Entries(todo') : e.key = "maxw"
<1> DEFINE m == Setting("maxw", All, s.maxw)
           c == Setting("cccv", All, s.cccv)
           u1 == Setting("cuv", 1, s.cuv)
           u2 == Setting("cuv", 2, s.cuv)
           d1 == Setting("dim", All, DownDim)
           d2 == Setting("dim", All, s.dim)
           d == IF s.dim = Absent THEN <<>> ELSE <<d1, d2>>
<1>1. /\ m \in Settings /\ m.key = "maxw" /\ m.who = All /\ m.value = s.maxw
      /\ c \in Settings /\ c.key = "cccv" /\ c.who = All
  BY SettingIs, SettingsAssumption DEF Keys
<1>2. u1 \in Settings /\ u1.key = "cuv" /\ u2 \in Settings /\ u2.key = "cuv"
  BY SettingIs DEF Keys
<1>3. d1 \in Settings /\ d1.key = "dim" /\ d2 \in Settings /\ d2.key = "dim"
  BY SettingIs, SettingsAssumption DEF Keys, DownDim
<1>4. todo' = ((Optional(m) \o Optional(c)) \o Optional(u1)) \o Optional(u2) \o d
  BY DEF before_load_relays
<1> HIDE DEF m, c, u1, u2, d1, d2
<1>5. d \in Seq(Settings) /\ Entries(d) \subseteq {d1, d2}
  BY <1>3 DEF Entries
<1> HIDE DEF d
<1> DEFINE q2 == Optional(m) \o Optional(c)
           q3 == q2 \o Optional(u1)
           q4 == q3 \o Optional(u2)
<1>6. /\ q2 \in Seq(Settings) /\ Entries(q2) \subseteq {m, c}
      /\ m.value # Absent => m \in Entries(q2)
  <2>1. /\ Optional(m) \in Seq(Settings) /\ Entries(Optional(m)) \subseteq {m}
        /\ m.value # Absent => m \in Entries(Optional(m))
    BY <1>1, OptionalIs
  <2>2. /\ q2 \in Seq(Settings) /\ Entries(Optional(m)) \subseteq Entries(q2)
        /\ Entries(q2) \subseteq Entries(Optional(m)) \cup {c}
    BY <1>1, <2>1, OptionalNext
  <2> HIDE DEF q2
  <2> QED BY <2>1, <2>2
<1> HIDE DEF q2
<1>7. /\ q3 \in Seq(Settings) /\ Entries(q3) \subseteq {m, c, u1}
      /\ m.value # Absent => m \in Entries(q3)
  <2>1. /\ q3 \in Seq(Settings) /\ Entries(q2) \subseteq Entries(q3)
        /\ Entries(q3) \subseteq Entries(q2) \cup {u1}
    BY <1>2, <1>6, OptionalNext
  <2> HIDE DEF q3
  <2> QED BY <1>6, <2>1
<1> HIDE DEF q3
<1>8. /\ q4 \in Seq(Settings) /\ Entries(q4) \subseteq {m, c, u1, u2}
      /\ m.value # Absent => m \in Entries(q4)
  <2>1. /\ q4 \in Seq(Settings) /\ Entries(q3) \subseteq Entries(q4)
        /\ Entries(q4) \subseteq Entries(q3) \cup {u2}
    BY <1>2, <1>7, OptionalNext
  <2> HIDE DEF q4
  <2> QED BY <1>7, <2>1
<1>9. todo' = q4 \o d
  BY <1>4 DEF q3, q2
<1> HIDE DEF q4
<1>10. /\ todo' \in Seq(Settings) /\ Entries(todo') \subseteq {m, c, u1, u2, d1, d2}
       /\ m.value # Absent => m \in Entries(todo')
  <2>1. todo' \in Seq(Settings) /\ Entries(todo') = Entries(q4) \cup Entries(d)
    BY <1>5, <1>8, <1>9, EntriesConcat
  <2> QED BY <1>5, <1>8, <2>1
<1> QED BY <1>1, <1>2, <1>3, <1>10 DEF Saved

(* What a commissioning asks for.                                          *)
LEMMA CommissionAsks ==
  ASSUME NEW s, s.cuv \in Nat, commission(s)
  PROVE /\ todo' \in Seq(Settings) /\ success' \in BOOLEAN
        /\ \A e \in Entries(todo') :
             e.key = "setting" /\ e.who \in Actuators /\ e.value = s.cuv
        /\ success' => \A a \in Actuators : \E e \in Entries(todo') :
                         e.key = "setting" /\ e.who = a
<1>1. success' = (s.cuv # Absent)
  BY DEF commission
<1>2. CASE s.cuv = Absent
  <2>1. todo' = <<>>
    BY <1>2 DEF commission
  <2>2. todo' \in Seq(Settings) /\ Entries(todo') = {}
    BY <2>1 DEF Entries
  <2> QED BY <1>1, <1>2, <2>2
<1>3. CASE s.cuv # Absent
  <2>1. todo' = [a \in Actuators |-> Setting("setting", a, s.cuv)]
    BY <1>3 DEF commission
  <2>2. \A a \in Actuators : /\ Setting("setting", a, s.cuv) \in Settings
                             /\ Setting("setting", a, s.cuv).key = "setting"
                             /\ Setting("setting", a, s.cuv).who = a
                             /\ Setting("setting", a, s.cuv).value = s.cuv
    BY SettingIs DEF Keys, Actuators
  <2>3. todo' \in Seq(Settings) /\ Len(todo') = NumActuators
    BY <2>1, <2>2, SettingsAssumption DEF Actuators
  <2>4. Entries(todo') = {Setting("setting", a, s.cuv) : a \in Actuators}
    BY <2>1, <2>3 DEF Entries, Actuators
  <2> QED BY <1>1, <2>2, <2>3, <2>4
<1> QED BY <1>2, <1>3

(* A section begins: nothing of it is settled yet.                         *)
LEMMA SectionStep == ASSUME IInv, Section PROVE IInv'
<1>1. /\ pc = "section" /\ pc' = "setting" /\ sec <= Len(plan)
      /\ UNCHANGED <<plan, sec, tries, unchecked, good, save, failed,
                     node, wire, up, lost, late, missed>>
      /\ \/ plan[sec].kind = "cfg" /\ todo' = Config(plan[sec]) /\ success' = success
         \/ plan[sec].kind = "load" /\ before_load_relays(plan[sec]) /\ success' = success
         \/ plan[sec].kind = "commission" /\ commission(plan[sec])
  BY DEF Section, netVars
<1>2. TypeOK /\ sec \in 1..Len(plan)
  <2>1. Len(plan) \in Nat /\ sec \in Nat \ {0}
    BY PlansAssumption DEF IInv, TypeOK
  <2> QED BY <1>1, <2>1 DEF IInv
<1> DEFINE s == plan[sec]
<1>3. /\ s.maxw \in Nat /\ s.cccv \in Nat /\ s.cuv \in Nat /\ s.dim \in Nat
      /\ s.kind = "commission" => s.maxw = Absent
  BY <1>2, SectionIs
<1>4. /\ todo' \in Seq(Settings) /\ success' \in BOOLEAN
      /\ \A e \in Entries(todo') : Asked(e)
      /\ s.maxw # Absent => \E e \in Entries(todo') : e.key = "maxw"
      /\ s.kind = "commission" /\ success' =>
           \A a \in Actuators : \E e \in Entries(todo') : e.key = "setting" /\ e.who = a
  <2>0. success \in BOOLEAN
    BY <1>2 DEF TypeOK
  <2>1. CASE s.kind = "cfg" /\ todo' = Config(s) /\ success' = success
    BY <1>3, <2>0, <2>1, ConfigIs DEF Asked, Saved
  <2>2. CASE s.kind = "load" /\ before_load_relays(s) /\ success' = success
    BY <1>3, <2>0, <2>2, LoadAsks DEF Asked
  <2>3. CASE s.kind = "commission" /\ commission(s)
    BY <1>3, <2>3, CommissionAsks DEF Asked, Saved
  <2> QED BY <1>1, <2>1, <2>2, <2>3
<1>5. TypeOK'
  BY <1>1, <1>2, <1>4 DEF TypeOK, InSet
<1>6. FromPlan' /\ Addressed'
  BY <1>1, <1>4 DEF IInv, FromPlan, Asked, Addressed
<1>7. CheckMeans'
  BY <1>1 DEF CheckMeans
<1>8. MaxwMeans'
  BY <1>1, <1>4 DEF MaxwMeans
<1>9. CommissionMeans'
  BY <1>1, <1>4 DEF CommissionMeans, Pending
<1>10. SavedMeans'
  BY <1>1 DEF IInv, SavedMeans, Busy
<1> QED BY <1>5, <1>6, <1>7, <1>8, <1>9, <1>10 DEF IInv

(* A load is not set again to what is saved, or the setting begins.        *)
LEMMA ChooseStep == ASSUME IInv, Choose PROVE IInv'
<1>1. /\ pc = "setting" /\ todo # <<>>
      /\ \/ Skipped /\ todo' = Tail(todo) /\ pc' = pc /\ tries' = tries
         \/ pc' = "put" /\ tries' = 1 /\ todo' = todo
      /\ UNCHANGED <<plan, sec, unchecked, good, save, failed, success,
                     node, wire, up, lost, late, missed>>
  BY DEF Choose, netVars
<1>2. TypeOK /\ FromPlan
  BY DEF IInv
<1>3. /\ Current \in Entries(todo) /\ Tail(todo) \in Seq(Settings) /\ todo \in Seq(Settings)
      /\ Entries(todo) = {Current} \cup Entries(Tail(todo))
  BY <1>1, <1>2, CurrentIs DEF TypeOK
<1>4. TypeOK'
  <2>1. /\ todo' \in Seq(Settings) /\ tries' \in Nat /\ pc' \in {"setting", "put"}
        /\ pc' = "put" => todo' # <<>>
    <3>1. tries \in Nat
      BY <1>2 DEF TypeOK
    <3>2. CASE todo' = Tail(todo) /\ pc' = pc /\ tries' = tries
      BY <1>1, <1>3, <3>1, <3>2
    <3>3. CASE pc' = "put" /\ tries' = 1 /\ todo' = todo
      BY <1>1, <1>3, <3>3
    <3> QED BY <1>1, <3>2, <3>3
  <2> QED BY <1>1, <1>2, <2>1 DEF TypeOK, InSet
<1>5. FromPlan' /\ Addressed'
  BY <1>1, <1>3 DEF IInv, FromPlan, Asked, Addressed
<1>6. CheckMeans'
  BY <1>1 DEF CheckMeans
<1>7. MaxwMeans'
  <2>1. CASE todo' = todo
    BY <1>1, <2>1 DEF IInv, MaxwMeans
  <2>2. CASE Skipped /\ todo' = Tail(todo)
    <3>1. Current.key = "maxw" => save["maxw"] = plan[sec].maxw
      BY <1>1, <1>2, <1>3, <2>2 DEF FromPlan, Asked, Skipped
    <3> QED BY <1>1, <1>3, <2>2, <3>1 DEF IInv, MaxwMeans
  <2> QED BY <1>1, <2>1, <2>2
<1>8. CommissionMeans'
  <2>1. Skipped => plan[sec].kind # "commission"
    BY DEF Skipped
  <2> QED BY <1>1, <2>1 DEF IInv, CommissionMeans, Pending, Commissioned
<1>9. SavedMeans'
  BY <1>1 DEF IInv, SavedMeans, Busy
<1> QED BY <1>4, <1>5, <1>6, <1>7, <1>8, <1>9 DEF IInv

(* A section is over.                                                      *)
LEMMA SectionEndStep == ASSUME IInv, SectionEnd PROVE IInv'
<1>1. /\ pc = "setting" /\ pc' = "section" /\ sec' = sec + 1
      /\ UNCHANGED <<plan, todo, tries, unchecked, good, save, failed, success,
                     node, wire, up, lost, late, missed>>
  BY DEF SectionEnd, netVars
<1>2. TypeOK'
  <2>1. sec \in Nat \ {0}
    BY DEF IInv, TypeOK
  <2>2. sec' \in Nat \ {0}
    BY <1>1, <2>1
  <2>3. /\ pc' = "section"
        /\ UNCHANGED <<plan, todo, tries, unchecked, good, save, failed, success,
                       node, wire, up, lost, late, missed>>
    BY <1>1
  <2> QED BY <2>2, <2>3 DEF IInv, TypeOK, InSet
<1>3. FromPlan' /\ Addressed' /\ CheckMeans' /\ MaxwMeans' /\ CommissionMeans'
  BY <1>1 DEF IInv, FromPlan, Addressed, CheckMeans, MaxwMeans, CommissionMeans
<1>4. SavedMeans'
  BY <1>1 DEF IInv, SavedMeans, Busy
<1> QED BY <1>2, <1>3, <1>4 DEF IInv

(* A PUT is sent: from now on its key is being set.                        *)
LEMMA PutStep == ASSUME IInv, putValue PROVE IInv'
<1>1. /\ pc = "put" /\ pc' = "wait" /\ wire' = Append(wire, Current)
      /\ UNCHANGED <<plan, sec, todo, tries, unchecked, good, save, failed, success,
                     node, up, lost, late, missed>>
  BY DEF putValue, hostVars
<1>2. TypeOK /\ FromPlan /\ todo # <<>>
  BY <1>1 DEF IInv, TypeOK, InSet
<1>3. Current \in Settings /\ Asked(Current) /\ Current' = Current
  BY <1>1, <1>2, CurrentIs DEF FromPlan, Current
<1>4. wire' \in Seq(Settings) /\ Entries(wire') = Entries(wire) \cup {Current}
  BY <1>1, <1>2, <1>3, EntriesAppend DEF TypeOK
<1>5. TypeOK'
  BY <1>1, <1>2, <1>4 DEF TypeOK, InSet
<1>6. FromPlan'
  BY <1>1 DEF IInv, FromPlan, Asked
<1>7. Addressed'
  BY <1>3, <1>4 DEF IInv, Addressed, Asked
<1>8. CheckMeans' /\ MaxwMeans'
  BY <1>1 DEF IInv, CheckMeans, MaxwMeans
<1>9. CommissionMeans'
  BY <1>1, <1>3, <1>4 DEF IInv, CommissionMeans, Pending, Commissioned, Asked
<1>10. SavedMeans'
  BY <1>1, <1>3, <1>4 DEF IInv, SavedMeans, Busy
<1> QED BY <1>5, <1>6, <1>7, <1>8, <1>9, <1>10 DEF IInv

(* The PUT is answered or given up; what is set is read back, but for dim. *)
LEMMA PutEndStep == ASSUME IInv, PutEnd PROVE IInv'
<1>1. /\ pc = "wait" /\ late' \in 0..MaxLate
      /\ \/ /\ Current.key = "dim" /\ pc' = "setting" /\ todo' = Tail(todo)
            /\ unchecked' = unchecked /\ good' = good
         \/ /\ Current.key # "dim" /\ pc' = "check" /\ good' = TRUE /\ todo' = todo
            /\ unchecked' = ReadBack(Current.key, Current.who)
      /\ UNCHANGED <<plan, sec, tries, save, failed, success, node, wire, up, lost, missed>>
  <2>1. late \in 0..MaxLate /\ MaxLate \in Nat
    BY SettingsAssumption DEF IInv, TypeOK
  <2> QED BY <2>1 DEF PutEnd
<1>2. TypeOK /\ FromPlan /\ todo # <<>>
  BY <1>1 DEF IInv, TypeOK, InSet
<1>3. /\ Current \in Entries(todo) /\ Tail(todo) \in Seq(Settings) /\ todo \in Seq(Settings)
      /\ Entries(todo) = {Current} \cup Entries(Tail(todo))
      /\ ReadBack(Current.key, Current.who) \subseteq Nat /\ Asked(Current)
  BY <1>2, CurrentIs, ReadBackIs, <1>1 DEF TypeOK, FromPlan
<1>4. TypeOK'
  BY <1>1, <1>2, <1>3 DEF TypeOK, InSet
<1>5. FromPlan' /\ Addressed'
  BY <1>1, <1>3 DEF IInv, FromPlan, Asked, Addressed
<1>6. CheckMeans'
  BY <1>1 DEF CheckMeans, Current
<1>7. MaxwMeans'
  BY <1>1, <1>3 DEF IInv, MaxwMeans
<1>8. CommissionMeans'
  BY <1>1, <1>3 DEF IInv, CommissionMeans, Pending, Commissioned
<1>9. SavedMeans'
  <2>1. Current.key = "dim" => Current.key \notin Saved
    BY DEF Saved
  <2>2. Saved \ (failed' \cup Busy') \subseteq Saved \ (failed \cup Busy)
    BY <1>1, <2>1 DEF Busy, Current
  <2> QED BY <1>1, <2>2 DEF IInv, SavedMeans
<1> QED BY <1>4, <1>5, <1>6, <1>7, <1>8, <1>9 DEF IInv

(* One actuator is read back, behind every PUT or in vain.                 *)
LEMMA GetStep == ASSUME IInv, getValue PROVE IInv'
<1>1. /\ pc = "check" /\ pc' = pc /\ unchecked' = unchecked \ {NextToRead}
      /\ lost' \in 0..MaxLost
      /\ \/ wire = <<>> /\ good' = (good /\ node[Current.key][NextToRead] = Current.value)
         \/ good' = FALSE
      /\ UNCHANGED <<plan, sec, todo, tries, save, failed, success, node, wire, up, late,
                     missed>>
  <2>1. lost \in 0..MaxLost /\ MaxLost \in Nat
    BY SettingsAssumption DEF IInv, TypeOK
  <2> QED BY <2>1 DEF getValue
<1>2. TypeOK'
  BY <1>1 DEF IInv, TypeOK, InSet
<1>3. FromPlan' /\ Addressed' /\ MaxwMeans' /\ CommissionMeans'
  BY <1>1 DEF IInv, FromPlan, Asked, Addressed, MaxwMeans, CommissionMeans, Pending,
              Commissioned
<1>4. CheckMeans'
  BY <1>1 DEF IInv, CheckMeans, Current
<1>5. SavedMeans'
  BY <1>1 DEF IInv, SavedMeans, Busy, Current
<1> QED BY <1>2, <1>3, <1>4, <1>5 DEF IInv

(* A setting ends: what was read back is saved, written again or given up. *)
LEMMA CheckEndStep == ASSUME IInv, CheckEnd PROVE IInv'
<1>1. /\ pc = "check" /\ unchecked = {}
      /\ UNCHANGED <<plan, sec, unchecked, good, node, wire, up, lost, late, missed>>
  BY DEF CheckEnd, netVars
<1>2. TypeOK /\ FromPlan /\ todo # <<>>
  BY <1>1 DEF IInv, TypeOK, InSet
<1>3. /\ todo \in Seq(Settings) /\ Tail(todo) \in Seq(Settings) /\ Current \in Entries(todo)
      /\ Entries(todo) = {Current} \cup Entries(Tail(todo)) /\ Asked(Current)
      /\ Current.key \in Keys /\ Current.who \in Nat /\ Current.value \in Nat
  BY <1>1, <1>2, CurrentIs DEF TypeOK, FromPlan
<1>4. good => /\ wire = <<>>
              /\ \A a \in ReadBack(Current.key, Current.who) :
                   node[Current.key][a] = Current.value
  BY <1>1, <1>3, ReadBackIs DEF IInv, CheckMeans
<1>5. Addressed'
  BY <1>1 DEF IInv, Addressed
<1>6. ASSUME todo' \in Seq(Settings), Entries(todo') \subseteq Entries(todo)
      PROVE FromPlan'
  BY <1>1, <1>2, <1>6 DEF FromPlan, Asked
<1>7. CASE Current.key \in Saved /\ SetEnd
  <2>1. /\ todo' = Tail(todo) /\ pc' = "setting" /\ tries' = tries /\ success' = success
        /\ save' = IF good THEN [save EXCEPT ![Current.key] = Current.value] ELSE save
        /\ failed' = IF good THEN failed \ {Current.key} ELSE failed \cup {Current.key}
    BY <1>7 DEF SetEnd
  <2>2. save' \in [Saved -> Nat] /\ failed' \subseteq Saved
    BY <1>2, <1>3, <1>7, <2>1 DEF TypeOK
  <2>3. TypeOK'
    BY <1>1, <1>2, <1>3, <2>1, <2>2 DEF TypeOK, InSet
  <2>4. FromPlan'
    BY <1>3, <1>6, <2>1
  <2>5. CheckMeans'
    BY <2>1 DEF CheckMeans
  <2>6. \A k \in Saved : /\ k # Current.key => save'[k] = save[k] /\ (k \in failed' <=> k \in failed)
                         /\ k = Current.key /\ k \notin failed' => good /\ save'[k] = Current.value
    BY <1>2, <1>7, <2>1 DEF TypeOK
  <2>7. MaxwMeans'
    <3>1. "maxw" \in Saved
      BY DEF Saved
    <3>2. CASE Current.key = "maxw"
      BY <1>1, <1>3, <2>6, <3>1, <3>2 DEF MaxwMeans, Asked
    <3>3. CASE Current.key # "maxw"
      BY <1>1, <1>3, <2>1, <2>6, <3>1, <3>3 DEF IInv, MaxwMeans
    <3> QED BY <3>2, <3>3
  <2>8. CommissionMeans'
    <3>1. plan[sec].kind # "commission"
      BY <1>3, <1>7 DEF Asked, Saved
    <3> QED BY <1>1, <3>1 DEF CommissionMeans
  <2>9. SavedMeans'
    <3> SUFFICES ASSUME NEW k \in Saved, k \notin failed', save'[k] # Unset
        PROVE /\ \A a \in ReadBack(k, All) : node[k][a] = save'[k]
              /\ \A s \in Entries(wire) : s.key # k
      BY <1>1 DEF SavedMeans
    <3>1. CASE k = Current.key
      <4>1. good /\ save'[k] = Current.value /\ Current.who = All
        BY <1>3, <1>7, <2>6, <3>1 DEF Asked
      <4>2. Entries(wire) = {}
        BY <1>4, <4>1 DEF Entries
      <4> QED BY <1>4, <3>1, <4>1, <4>2
    <3>2. CASE k # Current.key
      <4>1. k \in Saved \ (failed \cup Busy) /\ save'[k] = save[k]
        BY <1>1, <2>6, <3>2 DEF Busy
      <4> QED BY <4>1 DEF IInv, SavedMeans
    <3> QED BY <3>1, <3>2
  <2> QED BY <1>5, <2>3, <2>4, <2>5, <2>7, <2>8, <2>9 DEF IInv
<1>8. CASE Current.key \notin Saved /\ SecureEnd
  <2>1. /\ save' = save /\ failed' = failed
        /\ \/ good /\ SecureSet
           \/ ~good /\ SecureAgain
           \/ ~good /\ GiveUp
    BY <1>8 DEF SecureEnd
  <2>2. SavedMeans'
    <3>1. Saved \ (failed' \cup Busy') \subseteq Saved \ (failed \cup Busy)
      BY <1>1, <1>8, <2>1 DEF Busy
    <3> QED BY <1>1, <2>1, <3>1 DEF IInv, SavedMeans
  <2>3. CASE good /\ SecureSet
    <3>1. todo' = Tail(todo) /\ pc' = "setting" /\ tries' = tries /\ success' = success
      BY <2>3 DEF SecureSet
    <3>2. TypeOK'
      BY <1>1, <1>2, <1>3, <2>1, <3>1 DEF TypeOK, InSet
    <3>3. FromPlan' /\ CheckMeans'
      BY <1>3, <1>6, <3>1 DEF CheckMeans
    <3>4. MaxwMeans'
      BY <1>1, <1>3, <1>8, <2>1, <3>1 DEF IInv, MaxwMeans, Saved
    <3>5. CommissionMeans'
      <4> SUFFICES ASSUME plan[sec].kind = "commission", success, NEW a \in Actuators
          PROVE Pending(a)' \/ Commissioned(a)'
        BY <1>1, <3>1 DEF CommissionMeans
      <4>1. Current.key = "setting" /\ Current.who \in Actuators
            /\ Current.value = plan[sec].cuv
        BY <1>3 DEF Asked
      <4>2. CASE a = Current.who
        <5>1. node["setting"][a] = plan[sec].cuv
          BY <1>3, <1>4, <2>3, <4>1, <4>2, ReadBackIs
        <5>2. Entries(wire) = {}
          BY <1>4, <2>3 DEF Entries
        <5> QED BY <1>1, <5>1, <5>2 DEF Commissioned
      <4>3. CASE a # Current.who
        <5>1. Pending(a) \/ Commissioned(a)
          BY <1>1 DEF IInv, CommissionMeans
        <5> QED BY <1>1, <1>3, <3>1, <4>3, <5>1 DEF Pending, Commissioned
      <4> QED BY <4>2, <4>3
    <3> QED BY <1>5, <2>2, <3>2, <3>3, <3>4, <3>5 DEF IInv
  <2>4. CASE ~good /\ SecureAgain
    <3>1. todo' = todo /\ pc' = "put" /\ tries' = tries + 1 /\ success' = success
      BY <2>4 DEF SecureAgain
    <3>2. TypeOK'
      <4>1. tries' \in Nat
        BY <1>2, <3>1 DEF TypeOK
      <4> QED BY <1>1, <1>2, <2>1, <3>1, <4>1 DEF TypeOK, InSet
    <3>3. FromPlan' /\ CheckMeans'
      BY <1>3, <1>6, <3>1 DEF CheckMeans
    <3>4. MaxwMeans' /\ CommissionMeans'
      BY <1>1, <2>1, <3>1 DEF IInv, MaxwMeans, CommissionMeans, Pending, Commissioned
    <3> QED BY <1>5, <2>2, <3>2, <3>3, <3>4 DEF IInv
  <2>5. CASE ~good /\ GiveUp
    <3>1. /\ todo' = IF NextIsCuv THEN Tail(Tail(todo)) ELSE Tail(todo)
          /\ pc' = "setting" /\ tries' = tries
          /\ success' = (success /\ Current.key # "setting")
      BY <2>5 DEF GiveUp
    <3>2. /\ todo' \in Seq(Settings) /\ Entries(todo') \subseteq Entries(todo)
          /\ \A s \in Entries(todo) : s.key = "maxw" => s \in Entries(todo')
      <4>1. CASE ~NextIsCuv
        BY <1>3, <1>8, <3>1, <4>1 DEF Saved
      <4>2. CASE NextIsCuv
        <5>1. Tail(todo) # <<>> /\ Head(Tail(todo)) = todo[2]
          <6>1. Len(todo) > 1 /\ todo \in Seq(Settings)
            BY <1>3, <4>2 DEF NextIsCuv
          <6>2. Len(Tail(todo)) = Len(todo) - 1 /\ Tail(todo)[1] = todo[2]
            BY <6>1
          <6> QED BY <6>1, <6>2
        <5>2. /\ Tail(Tail(todo)) \in Seq(Settings)
              /\ Entries(Tail(todo)) = {todo[2]} \cup Entries(Tail(Tail(todo)))
          BY <1>3, <5>1, EntriesTail
        <5> QED BY <1>3, <1>8, <3>1, <4>2, <5>2 DEF Saved, NextIsCuv
      <4> QED BY <4>1, <4>2
    <3>3. TypeOK'
      <4>1. success' \in BOOLEAN
        BY <3>1
      <4> QED BY <1>1, <1>2, <2>1, <3>1, <3>2, <4>1 DEF TypeOK, InSet
    <3>4. FromPlan' /\ CheckMeans'
      BY <1>6, <3>1, <3>2 DEF CheckMeans
    <3>5. MaxwMeans'
      BY <1>1, <2>1, <3>1, <3>2 DEF IInv, MaxwMeans
    <3>6. CommissionMeans'
      <4>1. plan[sec].kind = "commission" => Current.key = "setting"
        BY <1>3 DEF Asked
      <4> QED BY <1>1, <3>1, <4>1 DEF CommissionMeans
    <3> QED BY <1>5, <2>2, <3>3, <3>4, <3>5, <3>6 DEF IInv
  <2> QED BY <2>1, <2>3, <2>4, <2>5
<1> QED BY <1>7, <1>8 DEF CheckEnd
-------------------------------------------------------------------------------
(* The steps of the node and the network.                                  *)

(* The oldest PUT takes effect, on the actuators that heard it.            *)
LEMMA ServeStep == ASSUME IInv, Serve PROVE IInv'
<1> DEFINE cmd == Head(wire)
<1>1. /\ wire # <<>> /\ wire' = Tail(wire)
      /\ UNCHANGED <<pc, plan, sec, todo, tries, unchecked, good, save, failed, success,
                     up, lost, late>>
  BY DEF Serve, hostVars
<1>2. PICK heard \in SUBSET CheckList(cmd.who) :
        /\ heard # CheckList(cmd.who) => cmd.who = All /\ missed < MaxMissed
        /\ missed' = IF heard = CheckList(cmd.who) THEN missed ELSE missed + 1
        /\ node' = [node EXCEPT ![cmd.key] =
                      [a \in Actuators |-> IF a \in heard THEN cmd.value
                                           ELSE node[cmd.key][a]]]
  BY DEF Serve
<1>3. TypeOK /\ wire \in Seq(Settings)
  BY DEF IInv, TypeOK
<1>4. /\ cmd \in Settings /\ cmd \in Entries(wire) /\ Tail(wire) \in Seq(Settings)
      /\ Entries(wire') \subseteq Entries(wire)
  BY <1>1, <1>3, EntriesTail
<1>5. cmd.key \in Keys /\ cmd.who \in Nat /\ cmd.value \in Nat
  BY <1>4 DEF Settings
<1> HIDE DEF cmd
<1>6. /\ node' \in [Keys -> [Actuators -> Nat]]
      /\ \A k \in Keys : \A a \in Actuators :
           node'[k][a] = IF k = cmd.key /\ a \in heard THEN cmd.value ELSE node[k][a]
  <2>1. node \in [Keys -> [Actuators -> Nat]]
    BY <1>3 DEF TypeOK
  <2> DEFINE f == [a \in Actuators |-> IF a \in heard THEN cmd.value
                                       ELSE node[cmd.key][a]]
  <2>2. f \in [Actuators -> Nat]
    BY <1>5, <2>1
  <2>3. \A a \in Actuators : f[a] = IF a \in heard THEN cmd.value ELSE node[cmd.key][a]
    OBVIOUS
  <2>4. node' = [node EXCEPT ![cmd.key] = f]
    BY <1>2
  <2> HIDE DEF f
  <2>5. node' \in [Keys -> [Actuators -> Nat]]
    BY <1>5, <2>1, <2>2, <2>4
  <2>6. \A k \in Keys : node'[k] = IF k = cmd.key THEN f ELSE node[k]
    BY <1>5, <2>1, <2>4
  <2> QED BY <2>3, <2>5, <2>6
<1>7. missed' \in 0..MaxMissed
  <2>1. missed \in 0..MaxMissed /\ MaxMissed \in Nat
    BY <1>3, SettingsAssumption DEF TypeOK
  <2> QED BY <1>2, <2>1
<1>8. TypeOK'
  BY <1>1, <1>3, <1>4, <1>6, <1>7 DEF TypeOK, InSet
<1>9. FromPlan' /\ Addressed' /\ MaxwMeans'
  BY <1>1, <1>4 DEF IInv, FromPlan, Asked, Addressed, MaxwMeans
<1>10. CheckMeans'
  <2>1. pc = "check" /\ good => unchecked = ReadBack(Current.key, Current.who)
    BY <1>1 DEF IInv, CheckMeans
  <2> QED BY <1>1, <2>1 DEF IInv, CheckMeans, Current
<1>11. CommissionMeans'
  <2> SUFFICES ASSUME NEW a \in Actuators, Commissioned(a) PROVE Commissioned(a)'
    BY <1>1 DEF IInv, CommissionMeans, Pending
  <2>1. cmd.key = "setting" /\ a \in heard => cmd.who = a
    BY <1>2, <1>4, <1>5, ReadBackIs DEF IInv, Addressed
  <2>2. node'["setting"][a] = plan[sec].cuv
    BY <1>4, <1>6, <2>1 DEF Commissioned, Keys
  <2> QED BY <1>1, <1>4, <2>2 DEF Commissioned
<1>12. SavedMeans'
  <2> SUFFICES ASSUME NEW k \in Saved \ (failed \cup Busy), save[k] # Unset
      PROVE /\ \A a \in ReadBack(k, All) : node'[k][a] = save[k]
            /\ \A s \in Entries(wire') : s.key # k
    BY <1>1 DEF SavedMeans, Busy, Current
  <2>1. /\ \A a \in ReadBack(k, All) : node[k][a] = save[k]
        /\ \A s \in Entries(wire) : s.key # k
    BY DEF IInv, SavedMeans
  <2>2. k \in Keys /\ ReadBack(k, All) \subseteq Actuators
    BY ReadBackIs, SettingsAssumption DEF Saved, Keys
  <2> QED BY <1>4, <1>6, <2>1, <2>2
<1> QED BY <1>8, <1>9, <1>10, <1>11, <1>12 DEF IInv

(* The oldest PUT is lost.                                                 *)
LEMMA LoseStep == ASSUME IInv, Lose PROVE IInv'
<1>1. /\ wire # <<>> /\ wire' = Tail(wire) /\ lost' \in 0..MaxLost
      /\ UNCHANGED <<pc, plan, sec, todo, tries, unchecked, good, save, failed, success,
                     node, up, late, missed>>
  <2>1. lost \in 0..MaxLost /\ MaxLost \in Nat
    BY SettingsAssumption DEF IInv, TypeOK
  <2> QED BY <2>1 DEF Lose, hostVars
<1>2. Tail(wire) \in Seq(Settings) /\ Entries(wire') \subseteq Entries(wire)
  BY <1>1, EntriesTail DEF IInv, TypeOK
<1>3. TypeOK'
  BY <1>1, <1>2 DEF IInv, TypeOK, InSet
<1>4. FromPlan' /\ Addressed' /\ MaxwMeans'
  BY <1>1, <1>2 DEF IInv, FromPlan, Asked, Addressed, MaxwMeans
<1>5. CheckMeans'
  BY <1>1 DEF IInv, CheckMeans, Current
<1>6. CommissionMeans'
  BY <1>1, <1>2 DEF IInv, CommissionMeans, Pending, Commissioned
<1>7. SavedMeans'
  BY <1>1, <1>2 DEF IInv, SavedMeans, Busy, Current
<1> QED BY <1>3, <1>4, <1>5, <1>6, <1>7 DEF IInv

(* The node goes away, or nothing happens.                                 *)
LEMMA SilentStep ==
  ASSUME IInv, UNCHANGED <<pc, hostVars, node, wire, lost, late, missed>>, up' \in BOOLEAN
  PROVE IInv'
<1>1. UNCHANGED <<pc, plan, sec, todo, tries, unchecked, good, save, failed, success,
                  node, wire, lost, late, missed>>
  BY DEF hostVars
<1>2. TypeOK'
  BY <1>1 DEF IInv, TypeOK
<1>3. FromPlan' /\ Addressed' /\ MaxwMeans'
  BY <1>1 DEF IInv, FromPlan, Asked, Addressed, MaxwMeans
<1>4. CheckMeans'
  BY <1>1 DEF IInv, CheckMeans, Current
<1>5. CommissionMeans'
  BY <1>1 DEF IInv, CommissionMeans, Pending, Commissioned
<1>6. SavedMeans'
  BY <1>1 DEF IInv, SavedMeans, Busy, Current
<1> QED BY <1>2, <1>3, <1>4, <1>5, <1>6 DEF IInv
-------------------------------------------------------------------------------
(* The invariant and what it promises.                                     *)

(* Nothing is saved and nothing under way at first.                        *)
LEMMA InitHolds == Init => IInv
<1> SUFFICES ASSUME Init PROVE IInv
  OBVIOUS
<1>1. TypeOK
  <2>1. 0 \in 0..MaxLost /\ 0 \in 0..MaxLate /\ 0 \in 0..MaxMissed /\ Unset \in Nat
    BY SettingsAssumption DEF Unset
  <2>2. node \in [Keys -> [Actuators -> Nat]] /\ save \in [Saved -> Nat]
    BY <2>1 DEF Init
  <2> QED BY <2>1, <2>2 DEF Init, TypeOK, InSet
<1>2. Entries(wire) = {}
  BY DEF Init, Entries
<1>3. FromPlan /\ Addressed /\ CheckMeans /\ MaxwMeans /\ CommissionMeans
  BY <1>2 DEF Init, FromPlan, Addressed, CheckMeans, MaxwMeans, CommissionMeans
<1>4. SavedMeans
  BY DEF Init, SavedMeans
<1> QED BY <1>1, <1>3, <1>4 DEF IInv

(* Every step of the host, the node and the network keeps the invariant.   *)
LEMMA StepKeeps == IInv /\ [Next]_vars => IInv'
<1> SUFFICES ASSUME IInv, [Next]_vars PROVE IInv'
  OBVIOUS
<1>1. up \in BOOLEAN
  BY DEF IInv, TypeOK
<1>2. CASE UNCHANGED vars
  BY <1>1, <1>2, SilentStep DEF vars, netVars
<1>3. CASE GoDown
  BY <1>3, SilentStep DEF GoDown
<1> QED BY <1>2, <1>3, SectionStep, ChooseStep, SectionEndStep, PutStep, PutEndStep, GetStep,
           CheckEndStep, ServeStep, LoseStep DEF Next, Host, Done

(* What was saved, what is read back and what is on its way to the node    *)
(* stay related as IInv says.                                              *)
THEOREM Invariance == Spec => []IInv
BY InitHolds, StepKeeps, PTL DEF Spec

(* The settings under way and the node's values keep their types, also for *)
(* a node with fewer actuators than a load addresses.                      *)
THEOREM TypeCorrect == Spec => []TypeOK
<1>1. IInv => TypeOK
  BY DEF IInv
<1> QED BY <1>1, Invariance, PTL

(* A saved value is what the node has, on every actuator that is read      *)
(* back, and no PUT that was lost sight of will change it.                 *)
LEMMA SavedHolds == IInv => SavedIsCurrent
<1> SUFFICES ASSUME IInv, NEW k \in Saved \ (failed \cup Busy), save[k] # Unset
    PROVE /\ \A a \in ReadBack(k, All) : node[k][a] = save[k]
          /\ \A i \in 1..Len(wire) : wire[i].key # k
  BY DEF SavedIsCurrent
<1> QED BY DEF IInv, SavedMeans, Entries

(* The values saved in the context are the node's: a load that skips its   *)
(* setting because it was saved is measured with it.                       *)
THEOREM SavedIsTrue == Spec => []SavedIsCurrent
BY Invariance, SavedHolds, PTL

(* A load is measured with its own max watt on every actuator, set just    *)
(* now or kept from before, unless its last set failed.                    *)
THEOREM MeasuredWithMaxWatt == Spec => []MeasuredAsConfigured
<1>1. IInv => MeasuredAsConfigured
  <2> SUFFICES ASSUME IInv, pc = "setting", todo = <<>>, plan[sec].maxw # Absent,
                      "maxw" \notin failed
      PROVE \A a \in Actuators : node["maxw"][a] = plan[sec].maxw
    BY DEF MeasuredAsConfigured
  <2>1. Entries(todo) = {}
    BY DEF Entries
  <2>2. save["maxw"] = plan[sec].maxw
    BY <2>1 DEF IInv, MaxwMeans
  <2>3. "maxw" \in Saved \ (failed \cup Busy) /\ save["maxw"] # Unset
    BY <2>2 DEF Saved, Busy, Absent, Unset
  <2>4. ReadBack("maxw", All) = Actuators
    BY ReadBackIs, SettingsAssumption DEF Keys
  <2> QED BY <2>2, <2>3, <2>4 DEF IInv, SavedMeans
<1> QED BY <1>1, Invariance, PTL

(* A commissioning that reports success has set every actuator, whatever   *)
(* was lost or served late on the way.                                     *)
THEOREM CommissioningSucceeds == Spec => []CommissionedIsSet
<1>1. IInv => CommissionedIsSet
  <2> SUFFICES ASSUME IInv, pc = "setting", todo = <<>>,
                      plan[sec].kind = "commission", success
      PROVE \A a \in Actuators : node["setting"][a] = plan[sec].cuv
    BY DEF CommissionedIsSet
  <2>1. Entries(todo) = {}
    BY DEF Entries
  <2> QED BY <2>1 DEF IInv, CommissionMeans, Pending, Commissioned
<1> QED BY <1>1, Invariance, PTL

===============================================================================
