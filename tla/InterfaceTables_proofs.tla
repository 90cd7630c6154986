----------------------- MODULE InterfaceTables_proofs -----------------------
(***************************************************************************)
(* InterfaceTables for every set of YAML files, every set of numbers and   *)
(* every bound.                                                            *)
(***************************************************************************)
EXTENDS InterfaceTables, GreatestElement, SequenceTheorems

\* What the entries of the files are made of.
LEMMA FileIsSeq ==
  ASSUME NEW f \in Files
  PROVE  /\ f \in Seq(Range(f))
         /\ \A entry \in Range(f) : /\ entry.inputs \in Seq(Range(entry.inputs))
                                    /\ entry.outputs \in Seq(Range(entry.outputs))
<1>1. f \in Seq(Range(f))
  BY FilesAssumption
<1>2. ASSUME NEW entry \in Range(f)
      PROVE  /\ entry.inputs \in Seq(Range(entry.inputs))
             /\ entry.outputs \in Seq(Range(entry.outputs))
  <2>1. PICK i \in DOMAIN f : f[i] = entry
    BY DEF Range
  <2> QED BY <2>1, FilesAssumption
<1> QED BY <1>1, <1>2

LEMMA FunctionIsSeq ==
  ASSUME NEW S, NEW n \in Nat, NEW t \in [1 .. n -> S]
  PROVE  t \in Seq(S) /\ Len(t) = n /\ DOMAIN t = 1 .. n
OBVIOUS

LEMMA EqualSeqs ==
  ASSUME NEW S, NEW s \in Seq(S), NEW t \in Seq(S), Len(s) = Len(t),
         \A i \in 1 .. Len(s) : s[i] = t[i]
  PROVE  s = t
BY SeqEqual

LEMMA AppendedPlaces ==
  ASSUME NEW S, NEW s \in Seq(S), NEW t \in Seq(S), \A i \in 1 .. Len(t) : t[i] = 0
  PROVE  /\ s \o t \in Seq(S) /\ Len(s \o t) = Len(s) + Len(t)
         /\ DOMAIN (s \o t) = 1 .. Len(s \o t)
         /\ \A i \in DOMAIN (s \o t) :
              (s \o t)[i] = IF i <= Len(s) THEN s[i] ELSE 0
<1>1. s \o t \in Seq(S) /\ Len(s \o t) = Len(s) + Len(t)
  OBVIOUS
<1>2. ASSUME NEW i \in 1 .. Len(s) + Len(t)
      PROVE  (s \o t)[i] = IF i <= Len(s) THEN s[i] ELSE 0
  <2>1. CASE i <= Len(s)
    BY <2>1
  <2>2. CASE ~(i <= Len(s))
    <3>1. i - Len(s) \in 1 .. Len(t) /\ (s \o t)[i] = t[i - Len(s)]
      BY <2>2
    <3> QED BY <2>2, <3>1
  <2> QED BY <2>1, <2>2
<1> QED BY <1>1, <1>2

LEMMA NumberTypes == Nums \subseteq Nat /\ 0 \in Nums /\ NaN \notin Nums
BY NumbersAssumption DEF Nums, NaN

(***************************************************************************)
(* Entering a plugin's keys behind the places in use keeps those, finds a  *)
(* place for every key and never the same for two.                         *)
(***************************************************************************)
LEMMA EnteredIsSound ==
  ASSUME NEW old, NEW exported, exported \in Seq(Range(exported)), NEW base \in Nat,
         \A key \in DOMAIN old : old[key] \in 1 .. base,
         \A key, other \in DOMAIN old : old[key] = old[other] => key = other
  PROVE  LET new == Entered(old, exported, base)
         IN /\ DOMAIN new = DOMAIN old \cup Range(exported)
            /\ \A key \in DOMAIN new : new[key] \in 1 .. base + Len(exported)
            /\ \A key, other \in DOMAIN new : new[key] = new[other] => key = other
<1> DEFINE new == Entered(old, exported, base)
           places(key) == {i \in DOMAIN exported : exported[i] = key}
<1>1. DOMAIN exported = 1 .. Len(exported) /\ Len(exported) \in Nat
  OBVIOUS
<1>2. ASSUME NEW key, places(key) # {}
      PROVE  Max(places(key)) \in places(key)
  <2>1. places(key) \in SUBSET Int
    BY <1>1
  <2>2. IsFiniteSet(1 .. Len(exported)) /\ places(key) \subseteq 1 .. Len(exported)
    BY <1>1, FS_Interval
  <2>3. IsFiniteSet(places(key))
    BY <2>2, FS_Subset
  <2> HIDE DEF places
  <2> QED BY <1>2, <2>1, <2>3, MaxIsGreatest
<1>3. /\ DOMAIN new = DOMAIN old \cup Range(exported)
      /\ \A key \in DOMAIN new :
           new[key] = IF places(key) = {} THEN old[key] ELSE base + Max(places(key))
  BY DEF Entered
<1>4. ASSUME NEW key \in DOMAIN new
      PROVE  \/ key \in DOMAIN old /\ new[key] = old[key] /\ new[key] \in 1 .. base
             \/ \E i \in 1 .. Len(exported) : exported[i] = key /\ new[key] = base + i
  <2>1. CASE places(key) = {}
    <3>1. key \in DOMAIN old
      BY <1>3, <2>1 DEF Range
    <3> QED BY <1>3, <2>1, <3>1
  <2>2. CASE places(key) # {}
    <3>1. Max(places(key)) \in 1 .. Len(exported) /\ exported[Max(places(key))] = key
      BY <1>1, <1>2, <2>2
    <3> QED BY <1>3, <2>2, <3>1
  <2> QED BY <2>1, <2>2
<1>5. \A key \in DOMAIN new : new[key] \in 1 .. base + Len(exported)
  <2> HIDE DEF new
  <2> QED BY <1>1, <1>4
<1>6. ASSUME NEW key \in DOMAIN new, NEW other \in DOMAIN new, new[key] = new[other]
      PROVE  key = other
  <2> HIDE DEF new
  <2> QED BY <1>1, <1>4, <1>6
<1> QED BY <1>3, <1>5, <1>6

(***************************************************************************)
(* The interfaces whose value goes to one place have a last one.           *)
(***************************************************************************)
LEMMA LastIsHolding ==
  ASSUME TablesInv, NEW dir \in Directions, NEW s, Holding(dir, s) # {}
  PROVE  LastHolding(dir, s) \in Holding(dir, s)
<1> DEFINE H == Holding(dir, s)
           First == {p[1] : p \in H}
           d == Max(First)
           Second == {p[2] : p \in {q \in H : q[1] = d}}
           i == Max(Second)
<1>1. \A p \in H : /\ p[1] \in DOMAIN plugins /\ p = <<p[1], p[2]>>
                   /\ p[2] \in DOMAIN FieldsOf(devices[p[1]], dir)
  BY DEF Holding, Interfaces
<1>2. DOMAIN plugins = 1 .. Len(plugins) /\ Len(plugins) \in Nat
      /\ Len(devices) \in Nat /\ Len(plugins) <= Len(devices)
      /\ devices \in Seq(Range(file))
  BY DEF TablesInv, DevicesMirrorFile, FieldsMirrorDevices
<1>3. d \in First /\ \A e \in First : d >= e
  <2>1. First \subseteq 1 .. Len(plugins) /\ First # {}
    BY <1>1, <1>2
  <2> HIDE DEF First
  <2>2. IsFiniteSet(1 .. Len(plugins))
    BY <1>2, FS_Interval
  <2>3. IsFiniteSet(First)
    BY <2>1, <2>2, FS_Subset
  <2>4. First \in SUBSET Int
    BY <1>2, <2>1
  <2> QED BY <2>1, <2>3, <2>4, MaxIsGreatest
<1> HIDE DEF d
<1>4. \E n \in Nat : DOMAIN FieldsOf(devices[d], dir) = 1 .. n
  <2>1. d \in DOMAIN plugins
    BY <1>1, <1>3
  <2>2. devices[d] \in Range(file) /\ file \in Files
    BY <1>2, <2>1 DEF TablesInv
  <2> QED BY <2>2, FileIsSeq DEF FieldsOf
<1>5. i \in Second /\ \A e \in Second : i >= e
  <2>1. PICK n \in Nat : DOMAIN FieldsOf(devices[d], dir) = 1 .. n
    BY <1>4
  <2>2. Second \subseteq 1 .. n /\ Second # {}
    BY <1>1, <1>3, <2>1
  <2> HIDE DEF Second
  <2>3. IsFiniteSet(1 .. n)
    BY FS_Interval
  <2>4. IsFiniteSet(Second)
    BY <2>2, <2>3, FS_Subset
  <2>5. Second \in SUBSET Int
    BY <2>2
  <2> QED BY <2>2, <2>4, <2>5, MaxIsGreatest
<1> HIDE DEF i
<1>6. First \subseteq Int /\ Second \subseteq Int
  <2>1. First \subseteq Int
    BY <1>1, <1>2
  <2>2. Second \subseteq Int
    BY <1>1, <1>4
  <2> QED BY <2>1, <2>2
<1>7. <<d, i>> \in H
  BY <1>1, <1>5
<1>8. \A q \in H : ~Before(<<d, i>>, q)
  <2> SUFFICES ASSUME NEW q \in H, Before(<<d, i>>, q) PROVE FALSE
    OBVIOUS
  <2>1. q[1] \in First /\ d \in First /\ d >= q[1]
    BY <1>3
  <2>2. d < q[1] \/ (d = q[1] /\ i < q[2])
    BY DEF Before
  <2>3. q[1] \in Int /\ d \in Int
    BY <1>6, <2>1
  <2>4. q[1] = d /\ i < q[2]
    BY <2>1, <2>2, <2>3
  <2>5. q[2] \in Second /\ i >= q[2] /\ i \in Second
    BY <1>5, <2>4
  <2> QED BY <1>6, <2>4, <2>5
<1> HIDE DEF H
<1> QED BY <1>7, <1>8 DEF LastHolding, H

(***************************************************************************)
(* The sequences of a state that satisfies the invariant.                  *)
(***************************************************************************)
LEMMA Shapes ==
  ASSUME TablesInv
  PROVE  /\ file \in Seq(Range(file)) /\ Len(file) \in Nat
         /\ DOMAIN file = 1 .. Len(file)
         /\ devices \in Seq(Range(file)) /\ Len(devices) \in Nat
         /\ DOMAIN devices = 1 .. Len(devices)
         /\ Len(plugins) \in Nat /\ DOMAIN plugins = 1 .. Len(plugins)
         /\ DOMAIN plugins \subseteq DOMAIN devices
         /\ DOMAIN input = DOMAIN devices /\ DOMAIN output = DOMAIN devices
         /\ \A d \in DOMAIN devices : devices[d] \in Range(file)
         /\ k \in Nat
<1>1. file \in Seq(Range(file)) /\ Len(file) \in Nat /\ DOMAIN file = 1 .. Len(file)
  BY FileIsSeq DEF TablesInv
<1>2. devices \in Seq(Range(file)) /\ Len(plugins) <= Len(devices)
  BY DEF TablesInv, DevicesMirrorFile
<1>3. /\ Len(plugins) \in Nat /\ DOMAIN plugins = 1 .. Len(plugins)
      /\ DOMAIN input = 1 .. Len(devices) /\ DOMAIN output = 1 .. Len(devices)
  BY DEF TablesInv, FieldsMirrorDevices
<1>4. Len(devices) \in Nat /\ DOMAIN devices = 1 .. Len(devices)
  BY <1>2
<1>5. \A d \in DOMAIN devices : devices[d] \in Range(file)
  BY <1>2, <1>4
<1>6. k \in Nat
  BY <1>1 DEF TablesInv
<1> QED BY <1>1, <1>2, <1>3, <1>4, <1>5, <1>6

LEMMA FieldsAreSeqs ==
  ASSUME TablesInv, NEW d \in DOMAIN devices, NEW dir \in Directions
  PROVE  /\ FieldsOf(devices[d], dir) \in Seq(Range(FieldsOf(devices[d], dir)))
         /\ Exported(d, dir) \in Seq(Range(Exported(d, dir)))
         /\ Len(Exported(d, dir)) \in Nat
         /\ DOMAIN Exported(d, dir) = 1 .. Len(Exported(d, dir))
         /\ DOMAIN FieldsOf(devices[d], dir) = DOMAIN Exported(d, dir)
<1>1. FieldsOf(devices[d], dir) \in Seq(Range(FieldsOf(devices[d], dir)))
  BY Shapes, FileIsSeq DEF FieldsOf, TablesInv
<1> DEFINE n == Len(FieldsOf(devices[d], dir))
           e == Exported(d, dir)
<1>2. n \in Nat /\ DOMAIN FieldsOf(devices[d], dir) = 1 .. n
  BY <1>1
<1>3. e \in [1 .. n -> Range(e)]
  BY <1>2 DEF Exported, Range
<1> HIDE DEF n, e
<1>4. e \in Seq(Range(e)) /\ Len(e) = n /\ DOMAIN e = 1 .. n
  BY <1>2, <1>3, FunctionIsSeq
<1> QED BY <1>1, <1>2, <1>4 DEF e

LEMMA InitTablesInv == Init => TablesInv
<1> SUFFICES ASSUME Init PROVE TablesInv
  OBVIOUS
<1>1. file \in Files /\ file \in Seq(Range(file)) /\ Len(file) \in Nat
  BY FileIsSeq DEF Init
<1>2. events \in 0 .. MaxEvents /\ k \in 1 .. Len(file) + 1
  BY <1>1, MaxEventsAssumption DEF Init
<1>3. DevicesMirrorFile
  BY <1>1 DEF Init, DevicesMirrorFile, Ready, InUse
<1>4. FieldsMirrorDevices
  BY DEF Init, FieldsMirrorDevices
<1>5. TablesSound
  BY DEF Init, TablesSound, Loading, InUse
<1>6. HandlesFollowIndex
  BY DEF Init, HandlesFollowIndex, Loading, InUse
<1>7. CommandsRemembered
  BY DEF Init, CommandsRemembered, InUse
<1> QED BY <1>1, <1>2, <1>3, <1>4, <1>5, <1>6, <1>7 DEF TablesInv, Init

LEMMA FailKeepsInv ==
  ASSUME TablesInv, phase \in {"load", "plugins"}, Fail PROVE TablesInv'
<1> USE DEF TablesInv, Fail, tables, outside
<1>1. DevicesMirrorFile'
  BY DEF DevicesMirrorFile, InUse, Ready
<1>2. FieldsMirrorDevices'
  BY DEF FieldsMirrorDevices
<1>3. TablesSound'
  BY DEF TablesSound, Loading, InUse, Ready
<1>4. HandlesFollowIndex'
  BY DEF HandlesFollowIndex, Loading, InUse, Ready
<1>5. CommandsRemembered'
  BY DEF CommandsRemembered, InUse, Ready
<1> QED BY <1>1, <1>2, <1>3, <1>4, <1>5

LEMMA LoadDeviceKeepsInv ==
  ASSUME TablesInv, LoadDevice PROVE TablesInv'
<1>1. CASE file[k].fault = "entry"
  BY <1>1, FailKeepsInv DEF LoadDevice
<1>2. CASE file[k].fault # "entry"
  <2> DEFINE entry == file[k]
             Ins == UNION {[Range(e.inputs) -> Nums] : e \in Range(file)}
             Outs == UNION {[Range(e.outputs) -> Nums] : e \in Range(file)}
  <2>1. /\ phase = "load" /\ phase' = phase /\ k \in DOMAIN file /\ k' = k + 1
        /\ devices' = Append(devices, entry)
        /\ input' = Append(input, Zero(entry.inputs))
        /\ output' = Append(output, Zero(entry.outputs))
        /\ UNCHANGED <<file, plugins, tables, handles, asked, events>>
    BY <1>2 DEF LoadDevice
  <2>2. /\ entry \in Range(file) /\ k \in 1 .. Len(file)
        /\ Len(devices) = k - 1 /\ plugins = <<>>
        /\ \A i \in DOMAIN devices : devices[i] = file[i]
    BY <2>1, Shapes DEF TablesInv, DevicesMirrorFile, Range
  <2>3. /\ Zero(entry.inputs) \in [Range(entry.inputs) -> Nums]
        /\ Zero(entry.outputs) \in [Range(entry.outputs) -> Nums]
    BY NumberTypes DEF Zero
  <2>4. Zero(entry.inputs) \in Ins /\ Zero(entry.outputs) \in Outs
    BY <2>2, <2>3
  <2>5. input \in Seq(Ins) /\ output \in Seq(Outs) /\ devices \in Seq(Range(file))
        /\ Len(input) = Len(devices) /\ Len(output) = Len(devices)
    BY Shapes DEF TablesInv, FieldsMirrorDevices
  <2> HIDE DEF entry, Ins, Outs
  <2>6. /\ devices' \in Seq(Range(file)) /\ Len(devices') = k
        /\ DOMAIN devices' = 1 .. k
        /\ \A i \in 1 .. k - 1 : devices'[i] = devices[i]
        /\ devices'[k] = entry
    BY <2>1, <2>2, <2>5
  <2>7. /\ input' \in Seq(Ins) /\ Len(input') = k
        /\ \A i \in 1 .. k - 1 : input'[i] = input[i]
        /\ input'[k] = Zero(entry.inputs)
    BY <2>1, <2>2, <2>4, <2>5
  <2>8. /\ output' \in Seq(Outs) /\ Len(output') = k
        /\ \A i \in 1 .. k - 1 : output'[i] = output[i]
        /\ output'[k] = Zero(entry.outputs)
    BY <2>1, <2>2, <2>4, <2>5
  <2>9. DevicesMirrorFile'
    <3>1. \A i \in DOMAIN devices' : devices'[i] = file[i]
      BY <2>2, <2>5, <2>6 DEF entry
    <3> QED BY <2>1, <2>2, <2>6, <3>1 DEF DevicesMirrorFile, InUse, Ready
  <2>10. FieldsMirrorDevices'
    <3>1. \A i \in DOMAIN devices' :
             /\ input'[i] \in [Range(devices'[i].inputs) -> Nums]
             /\ output'[i] \in [Range(devices'[i].outputs) -> Nums]
      <4> SUFFICES ASSUME NEW i \in 1 .. k
                   PROVE  /\ input'[i] \in [Range(devices'[i].inputs) -> Nums]
                          /\ output'[i] \in [Range(devices'[i].outputs) -> Nums]
        BY <2>6
      <4>1. CASE i = k
        BY <4>1, <2>3, <2>6, <2>7, <2>8
      <4>2. CASE i # k
        <5>1. i \in 1 .. k - 1 /\ i \in DOMAIN devices
          BY <4>2, <2>2, <2>5
        <5>2. /\ input[i] \in [Range(devices[i].inputs) -> Nums]
              /\ output[i] \in [Range(devices[i].outputs) -> Nums]
          BY <5>1 DEF TablesInv, FieldsMirrorDevices
        <5> QED BY <5>1, <5>2, <2>6, <2>7, <2>8
      <4> QED BY <4>1, <4>2
    <3>2. plugins' = <<>>
      BY <2>1, <2>2
    <3>3. file' = file
      BY <2>1
    <3> QED BY <2>6, <2>7, <2>8, <3>1, <3>2, <3>3 DEF FieldsMirrorDevices, Ins, Outs
  <2>11. TablesSound'
    BY <2>1 DEF TablesInv, TablesSound, Loading, InUse, Ready, tables
  <2>12. HandlesFollowIndex'
    BY <2>1 DEF TablesInv, HandlesFollowIndex, Loading, InUse, Ready, tables
  <2>13. CommandsRemembered'
    BY <2>1 DEF CommandsRemembered, InUse, Ready
  <2>14. k' \in 1 .. Len(file') + 1
    BY <2>1, <2>2, Shapes
  <2> QED BY <2>1, <2>9, <2>10, <2>11, <2>12, <2>13, <2>14 DEF TablesInv
<1> QED BY <1>1, <1>2

LEMMA CreatePluginKeepsInv ==
  ASSUME TablesInv, CreatePlugin PROVE TablesInv'
<1>1. CASE devices[k].fault = "plugin"
  BY <1>1, FailKeepsInv DEF CreatePlugin
<1>2. CASE devices[k].fault # "plugin"
  <2> DEFINE new == [state |-> Zero(devices[k].inputs),
                     command |-> Zero(devices[k].outputs)]
             S == UNION {PluginOf(entry) : entry \in Range(file)}
  <2>1. /\ phase = "plugins" /\ phase' = phase /\ k \in DOMAIN devices /\ k' = k + 1
        /\ plugins' = Append(plugins, new)
        /\ UNCHANGED <<file, devices, tables, handles, outside>>
    BY <1>2 DEF CreatePlugin
  <2>2. k \in 1 .. Len(file) /\ Len(plugins) = k - 1 /\ devices = file
    BY <2>1, Shapes DEF TablesInv, DevicesMirrorFile
  <2>3. new \in PluginOf(devices[k])
    BY NumberTypes DEF Zero, PluginOf
  <2>4. new \in S
    BY <2>1, <2>3, Shapes
  <2>5. plugins \in Seq(S)
    BY DEF TablesInv, FieldsMirrorDevices
  <2>6. \A f \in DOMAIN new.command : new.command[f] = 0
    BY DEF Zero
  <2> HIDE DEF new, S
  <2>7. /\ plugins' \in Seq(S) /\ Len(plugins') = k /\ DOMAIN plugins' = 1 .. k
        /\ \A i \in 1 .. k - 1 : plugins'[i] = plugins[i]
        /\ plugins'[k] = new
    BY <2>1, <2>2, <2>4, <2>5
  <2>8. DevicesMirrorFile'
    BY <2>1, <2>2, <2>7, Shapes DEF TablesInv, DevicesMirrorFile, InUse, Ready
  <2>9. FieldsMirrorDevices'
    <3>1. ASSUME NEW d \in DOMAIN plugins' PROVE plugins'[d] \in PluginOf(devices[d])
      <4>1. CASE d = k
        BY <4>1, <2>3, <2>7
      <4>2. CASE d # k
        <5>1. d \in 1 .. k - 1 /\ d \in DOMAIN plugins
          BY <4>2, <2>2, <2>5, <2>7
        <5> QED BY <5>1, <2>7 DEF TablesInv, FieldsMirrorDevices
      <4> QED BY <4>1, <4>2
    <3>2. file' = file /\ devices' = devices /\ input' = input /\ output' = output
      BY <2>1 DEF outside
    <3> QED BY <2>7, <3>1, <3>2 DEF TablesInv, FieldsMirrorDevices, S
  <2>10. TablesSound'
    BY <2>1 DEF TablesInv, TablesSound, Loading, InUse, Ready, tables
  <2>11. HandlesFollowIndex'
    BY <2>1 DEF TablesInv, HandlesFollowIndex, Loading, InUse, Ready, tables
  <2>12. CommandsRemembered'
    <3>1. Untouched
      BY <2>1 DEF TablesInv, CommandsRemembered
    <3>2. ASSUME NEW d \in DOMAIN plugins', NEW f \in DOMAIN plugins'[d].command
          PROVE  plugins'[d].command[f] = 0
      <4>1. CASE d = k
        BY <4>1, <2>6, <2>7
      <4>2. CASE d # k
        <5>1. d \in 1 .. k - 1 /\ d \in DOMAIN plugins
          BY <4>2, <2>2, <2>5, <2>7
        <5> QED BY <5>1, <2>7, <3>1 DEF Untouched
      <4> QED BY <4>1, <4>2
    <3>3. Untouched'
      BY <2>1, <3>1, <3>2 DEF Untouched, tables
    <3> QED BY <2>1, <3>3 DEF CommandsRemembered, InUse, Ready
  <2>13. k' \in 1 .. Len(file') + 1
    BY <2>1, <2>2, Shapes
  <2> QED BY <2>1, <2>8, <2>9, <2>10, <2>11, <2>12, <2>13 DEF TablesInv, outside
<1> QED BY <1>1, <1>2

LEMMA NextLoopKeepsInv ==
  ASSUME TablesInv, NextLoop PROVE TablesInv'
<1>1. /\ k' = 1 /\ UNCHANGED <<file, devices, plugins, tables, handles, outside>>
      /\ \/ phase = "load" /\ k > Len(file) /\ phase' = "plugins"
         \/ phase = "plugins" /\ k > Len(devices) /\ phase' = "tables"
  BY DEF NextLoop
<1>2. k' \in 1 .. Len(file') + 1
  BY <1>1, Shapes
<1>3. FieldsMirrorDevices'
  BY <1>1 DEF TablesInv, FieldsMirrorDevices, outside
<1>4. HandlesFollowIndex'
  BY <1>1 DEF TablesInv, HandlesFollowIndex, Loading, InUse, Ready, tables
<1>5. CASE phase = "load"
  <2>1. phase' = "plugins" /\ k > Len(file)
    BY <1>1, <1>5
  <2>2. /\ Len(devices) = k - 1 /\ plugins = <<>> /\ Len(devices) <= Len(file)
        /\ \A i \in DOMAIN devices : devices[i] = file[i]
    BY <1>5 DEF TablesInv, DevicesMirrorFile
  <2>3. devices = file
    <3>1. Len(devices) = Len(file)
      BY <2>1, <2>2, Shapes
    <3> QED BY <2>2, <3>1, Shapes, EqualSeqs
  <2>4. DevicesMirrorFile'
    BY <1>1, <2>1, <2>2, <2>3, Shapes
       DEF TablesInv, DevicesMirrorFile, InUse, Ready
  <2>5. TablesSound'
    BY <1>1, <1>5, <2>1 DEF TablesInv, TablesSound, Loading, InUse, Ready, tables
  <2>6. CommandsRemembered'
    <3>1. values["command"] = <<>>
      BY <1>5 DEF TablesInv, TablesSound, Loading, Directions
    <3>2. Untouched'
      BY <1>1, <2>2, <3>1 DEF Untouched, tables
    <3> QED BY <2>1, <3>2 DEF CommandsRemembered, InUse, Ready
  <2> QED BY <1>1, <1>2, <1>3, <1>4, <2>1, <2>4, <2>5, <2>6 DEF TablesInv, outside
<1>6. CASE phase = "plugins"
  <2>1. phase' = "tables" /\ k > Len(devices)
    BY <1>1, <1>6
  <2>2. Len(plugins) = k - 1 /\ Len(plugins) <= Len(devices) /\ devices = file
    BY <1>6 DEF TablesInv, DevicesMirrorFile
  <2>3. DevicesMirrorFile'
    BY <1>1, <2>1, <2>2, Shapes
       DEF TablesInv, DevicesMirrorFile, InUse, Ready
  <2>4. TablesSound'
    <3>1. index = [dir \in Directions |-> <<>>] /\ Tabulated' = {}
      BY <1>1, <1>6, <2>1 DEF TablesInv, TablesSound, Loading, Tabulated
    <3>2. \A dir \in Directions : TableIsSound(dir)'
      BY <1>1, <3>1 DEF TableIsSound, tables
    <3> QED BY <1>1, <2>1, <3>2 DEF TablesInv, TablesSound, Loading, InUse, Ready, tables
  <2>5. CommandsRemembered'
    BY <1>1, <1>6, <2>1
       DEF TablesInv, CommandsRemembered, Untouched, InUse, Ready, tables
  <2> QED BY <1>1, <1>2, <1>3, <1>4, <2>1, <2>3, <2>4, <2>5 DEF TablesInv, outside
<1> QED BY <1>1, <1>5, <1>6

LEMMA BuildTablesKeepsInv ==
  ASSUME TablesInv, BuildTables PROVE TablesInv'
<1> DEFINE zeros(dir) == [i \in DOMAIN Exported(k, dir) |-> 0]
<1>1. /\ phase = "tables" /\ k \in DOMAIN plugins /\ k' = k + 1
      /\ index' = [dir \in Directions |->
                     Entered(index[dir], Exported(k, dir), Len(values[dir]))]
      /\ values' = [dir \in Directions |-> values[dir] \o zeros(dir)]
      /\ UNCHANGED <<file, phase, devices, plugins, handles, outside>>
  BY DEF BuildTables, Tabulate
<1>2. k \in DOMAIN devices /\ devices = file /\ k \in 1 .. Len(file)
      /\ Len(plugins) = Len(devices)
  BY <1>1, Shapes DEF TablesInv, DevicesMirrorFile
<1>3. ASSUME NEW dir \in Directions
      PROVE  /\ values[dir] \in Seq(Nums \cup {NaN}) /\ Len(values[dir]) \in Nat
             /\ values'[dir] \in Seq(Nums \cup {NaN})
             /\ Len(values'[dir]) = Len(values[dir]) + Len(Exported(k, dir))
             /\ DOMAIN values'[dir] = 1 .. Len(values'[dir])
             /\ \A s \in DOMAIN values'[dir] :
                  values'[dir][s] = IF s <= Len(values[dir]) THEN values[dir][s] ELSE 0
  <2>1. values[dir] \in Seq(Nums \cup {NaN})
    BY DEF TablesInv, TablesSound
  <2>2. zeros(dir) \in [1 .. Len(Exported(k, dir)) -> Nums \cup {NaN}]
    BY <1>2, FieldsAreSeqs, NumberTypes
  <2>3. zeros(dir) \in Seq(Nums \cup {NaN}) /\ Len(zeros(dir)) = Len(Exported(k, dir))
    <3> HIDE DEF zeros
    <3> QED BY <2>2, <1>2, FieldsAreSeqs, FunctionIsSeq
  <2>4. \A s \in 1 .. Len(Exported(k, dir)) : zeros(dir)[s] = 0
    BY <1>2, FieldsAreSeqs
  <2>5. values'[dir] = values[dir] \o zeros(dir)
    BY <1>1
  <2>6. Len(values[dir]) \in Nat /\ Len(Exported(k, dir)) \in Nat
    BY <1>2, <2>1, FieldsAreSeqs
  <2>7. \A s \in 1 .. Len(zeros(dir)) : zeros(dir)[s] = 0
    BY <2>3, <2>4
  <2> DEFINE S == Nums \cup {NaN}
             t == zeros(dir)
             st == values[dir] \o t
  <2>8. /\ st \in Seq(S) /\ Len(st) = Len(values[dir]) + Len(t)
        /\ DOMAIN st = 1 .. Len(st)
        /\ \A s \in DOMAIN st : st[s] = IF s <= Len(values[dir]) THEN values[dir][s] ELSE 0
    <3> HIDE DEF S, t
    <3>1. values[dir] \in Seq(S) /\ t \in Seq(S) /\ \A s \in 1 .. Len(t) : t[s] = 0
      BY <2>1, <2>3, <2>7 DEF S, t
    <3> QED BY <3>1, AppendedPlaces
  <2> HIDE DEF t, st
  <2>9. values'[dir] = st /\ Len(t) = Len(Exported(k, dir))
    BY <2>3, <2>5 DEF st, t
  <2> QED BY <2>1, <2>6, <2>8, <2>9
<1>4. TablesSound'
  <2>1. ASSUME NEW dir \in Directions PROVE TableIsSound(dir)'
    <3> DEFINE new == Entered(index[dir], Exported(k, dir), Len(values[dir]))
    <3>1. /\ \A key \in DOMAIN index[dir] : index[dir][key] \in 1 .. Len(values[dir])
          /\ \A key, other \in DOMAIN index[dir] :
               index[dir][key] = index[dir][other] => key = other
          /\ \A d \in 1 .. k - 1 : Range(Exported(d, dir)) \subseteq DOMAIN index[dir]
      BY <1>1, <1>3 DEF TablesInv, TablesSound, TableIsSound, Tabulated
    <3>2. /\ DOMAIN new = DOMAIN index[dir] \cup Range(Exported(k, dir))
          /\ \A key \in DOMAIN new :
               new[key] \in 1 .. Len(values[dir]) + Len(Exported(k, dir))
          /\ \A key, other \in DOMAIN new : new[key] = new[other] => key = other
      BY <1>2, <1>3, <3>1, FieldsAreSeqs, EnteredIsSound
    <3>3. index'[dir] = new
      BY <1>1
    <3> HIDE DEF new
    <3>4. \A key \in DOMAIN index'[dir] : index'[dir][key] \in DOMAIN values'[dir]
      BY <1>3, <3>2, <3>3
    <3>5. \A key, other \in DOMAIN index'[dir] :
            index'[dir][key] = index'[dir][other] => key = other
      BY <3>2, <3>3
    <3>6. Tabulated' = 1 .. k
      BY <1>1, <1>2, Shapes DEF Tabulated
    <3>7. \A d \in 1 .. k : Exported(d, dir)' = Exported(d, dir)
      BY <1>1 DEF Exported
    <3>8. \A d \in Tabulated' : Range(Exported(d, dir)') \subseteq DOMAIN index'[dir]
      <4> SUFFICES ASSUME NEW d \in 1 .. k
                   PROVE  Range(Exported(d, dir)) \subseteq DOMAIN index'[dir]
        BY <3>6, <3>7
      <4>1. d = k \/ d \in 1 .. k - 1
        BY <1>2
      <4> QED BY <3>1, <3>2, <3>3, <4>1
    <3> QED BY <3>4, <3>5, <3>8 DEF TableIsSound
  <2>2. values' \in [Directions -> Seq(Nums \cup {NaN})]
    BY <1>1, <1>3
  <2> QED BY <1>1, <2>1, <2>2 DEF TablesSound, Loading
<1>5. CommandsRemembered'
  <2>1. Untouched
    BY <1>1 DEF TablesInv, CommandsRemembered
  <2>2. \A s \in DOMAIN values'["command"] : values'["command"][s] = 0
    <3>1. "command" \in Directions
      BY DEF Directions
    <3> QED BY <1>3, <2>1, <3>1 DEF Untouched
  <2>3. Untouched'
    BY <1>1, <2>1, <2>2 DEF Untouched
  <2> QED BY <1>1, <2>3 DEF CommandsRemembered, InUse, Ready
<1>6. DevicesMirrorFile' /\ FieldsMirrorDevices'
  BY <1>1 DEF TablesInv, DevicesMirrorFile, FieldsMirrorDevices, InUse, Ready, outside
<1>7. HandlesFollowIndex'
  BY <1>1 DEF TablesInv, HandlesFollowIndex, Loading, InUse, Ready
<1>8. k' \in 1 .. Len(file') + 1
  BY <1>1, <1>2, Shapes
<1> QED BY <1>1, <1>4, <1>5, <1>6, <1>7, <1>8 DEF TablesInv, outside

LEMMA KeysUnchanged ==
  ASSUME devices' = devices, DOMAIN plugins' = DOMAIN plugins, NEW dir
  PROVE  /\ Keys(dir)' = Keys(dir)
         /\ \A d : Exported(d, dir)' = Exported(d, dir)
BY DEF Keys, Interfaces, KeyOf, Exported

\* While the tables are in use, every key has its place in them.
LEMMA KeysHavePlaces ==
  ASSUME TablesInv, plugins # <<>>, phase \in Ready,
         NEW dir \in Directions, NEW key \in Keys(dir)
  PROVE  key \in DOMAIN index[dir] /\ index[dir][key] \in DOMAIN values[dir]
<1>1. PICK d \in DOMAIN plugins : \E i \in DOMAIN FieldsOf(devices[d], dir) :
        key = Exported(d, dir)[i]
  BY DEF Keys, Interfaces, KeyOf
<1>2. key \in Range(Exported(d, dir))
  BY <1>1 DEF Exported, Range
<1>3. d \in Tabulated
  BY <1>1 DEF Tabulated, Ready
<1>4. TableIsSound(dir)
  BY DEF TablesInv, TablesSound, InUse
<1> QED BY <1>2, <1>3, <1>4 DEF TableIsSound

LEMMA HandlesPointAtPlaces ==
  ASSUME TablesInv, plugins # <<>>, phase \in Ready,
         NEW dir \in Directions, NEW key \in Keys(dir)
  PROVE  /\ key \in DOMAIN handles[dir]
         /\ handles[dir][key].slot = index[dir][key]
         /\ handles[dir][key].storage = storage
<1>1. HandlesFollowIndex /\ InUse
  BY DEF TablesInv, InUse
<1>2. handles[dir] = [name \in Keys(dir) |-> [slot |-> index[dir][name],
                                              storage |-> storage]]
  BY <1>1 DEF HandlesFollowIndex
<1> QED BY <1>2

\* The key of a field of a device that has a plugin is one of the keys.
LEMMA FieldsHaveKeys ==
  ASSUME TablesInv, NEW dir \in Directions, NEW d \in DOMAIN plugins,
         NEW f \in Range(FieldsOf(devices[d], dir))
  PROVE  devices[d].name \o f \in Keys(dir)
<1>1. PICK i \in DOMAIN FieldsOf(devices[d], dir) : f = FieldsOf(devices[d], dir)[i]
  BY DEF Range
<1>2. <<d, i>> \in Interfaces(dir)
  BY <1>1 DEF Interfaces
<1>3. KeyOf(<<d, i>>, dir) = devices[d].name \o f
  BY <1>1 DEF KeyOf, Exported
<1> QED BY <1>2, <1>3 DEF Keys

LEMMA ExportKeepsInv ==
  ASSUME TablesInv, Export PROVE TablesInv'
<1>1. /\ phase = "tables" /\ k > Len(plugins) /\ phase' = "unconfigured"
      /\ handles' = [dir \in Directions |->
           [key \in Keys(dir) |-> [slot |-> index[dir][key], storage |-> storage]]]
      /\ asked' = [key \in Keys("command") |-> NaN]
      /\ UNCHANGED <<file, k, devices, plugins, tables, input, output, events>>
  BY DEF Export
<1>2. \A dir : Keys(dir)' = Keys(dir)
  BY <1>1, KeysUnchanged
<1>3. DevicesMirrorFile' /\ FieldsMirrorDevices'
  BY <1>1 DEF TablesInv, DevicesMirrorFile, FieldsMirrorDevices, InUse, Ready
<1>4. TablesSound'
  <2>1. ASSUME NEW dir \in Directions PROVE TableIsSound(dir)'
    <3>1. TableIsSound(dir)
      BY <1>1 DEF TablesInv, TablesSound
    <3>2. Tabulated' \subseteq Tabulated
      BY <1>1, Shapes DEF Tabulated
    <3>3. \A d : Exported(d, dir)' = Exported(d, dir)
      BY <1>1, KeysUnchanged
    <3> QED BY <1>1, <3>1, <3>2, <3>3 DEF TableIsSound, tables
  <2> QED BY <1>1, <2>1 DEF TablesInv, TablesSound, Loading, tables
<1>5. HandlesFollowIndex'
  BY <1>1, <1>2 DEF HandlesFollowIndex, Loading, tables
<1>6. CommandsRemembered'
  <2>1. Untouched'
    BY <1>1 DEF TablesInv, CommandsRemembered, Untouched, tables
  <2> QED BY <1>1, <1>2, <2>1 DEF CommandsRemembered
<1> QED BY <1>1, <1>3, <1>4, <1>5, <1>6 DEF TablesInv, Ready

(***************************************************************************)
(* What a callback has to keep once the tables are in use.                 *)
(***************************************************************************)
LEMMA RunningFrame ==
  ASSUME TablesInv, phase \in Ready, phase' \in Ready, plugins # <<>>,
         UNCHANGED <<file, k, devices, index, storage, handles>>,
         events' \in 0 .. MaxEvents,
         Len(plugins') = Len(plugins), FieldsMirrorDevices',
         values' \in [Directions -> Seq(Nums \cup {NaN})],
         \A dir \in Directions : DOMAIN values'[dir] = DOMAIN values[dir],
         CommandsRemembered'
  PROVE  TablesInv'
<1>1. InUse /\ DOMAIN plugins' = DOMAIN plugins
  <2>1. DOMAIN plugins = 1 .. Len(plugins) /\ DOMAIN plugins' = 1 .. Len(plugins')
    BY DEF TablesInv, FieldsMirrorDevices
  <2> QED BY <2>1 DEF InUse
<1>2. plugins' # <<>>
  BY <1>1, Shapes
<1>3. DevicesMirrorFile'
  BY <1>1, <1>2 DEF TablesInv, DevicesMirrorFile, InUse, Ready
<1>4. \A dir : Keys(dir)' = Keys(dir) /\ \A d : Exported(d, dir)' = Exported(d, dir)
  BY <1>1, KeysUnchanged
<1>5. TablesSound'
  <2>1. ASSUME NEW dir \in Directions PROVE TableIsSound(dir)'
    <3>1. TableIsSound(dir)
      BY <1>1 DEF TablesInv, TablesSound
    <3>2. Tabulated' = Tabulated
      BY <1>1 DEF Tabulated, Ready
    <3> QED BY <1>4, <3>1, <3>2 DEF TableIsSound
  <2> QED BY <2>1 DEF TablesSound, Loading, Ready
<1>6. HandlesFollowIndex'
  BY <1>1, <1>4 DEF TablesInv, HandlesFollowIndex, Loading, Ready
<1> QED BY <1>3, <1>5, <1>6 DEF TablesInv

\* Only the phase changes, and not to "active".
LEMMA PhaseChangeKeepsInv ==
  ASSUME TablesInv, phase \in Ready, phase' \in {"unconfigured", "inactive"},
         plugins # <<>>,
         UNCHANGED <<file, k, devices, plugins, tables, handles, outside>>
  PROVE  TablesInv'
<1>1. FieldsMirrorDevices'
  BY DEF TablesInv, FieldsMirrorDevices, outside
<1>2. Keys("command")' = Keys("command")
  BY KeysUnchanged
<1>3. CommandsRemembered'
  BY <1>2 DEF TablesInv, CommandsRemembered, Untouched, InUse, Ready, tables, outside
<1>4. values' \in [Directions -> Seq(Nums \cup {NaN})]
  BY DEF TablesInv, TablesSound, tables
<1>5. phase' \in Ready /\ events' \in 0 .. MaxEvents
  BY DEF Ready, TablesInv, outside
<1>6. UNCHANGED <<index, storage, values>>
  BY DEF tables
<1> QED BY <1>1, <1>3, <1>4, <1>5, <1>6, RunningFrame

LEMMA OnActivateKeepsInv ==
  ASSUME TablesInv, OnActivate PROVE TablesInv'
<1>1. /\ phase = "inactive" /\ phase' \in {"active", "unconfigured"}
      /\ values' = [values EXCEPT !["command"] = [i \in DOMAIN @ |-> NaN]]
      /\ asked' = [key \in DOMAIN asked |-> NaN]
      /\ UNCHANGED <<file, k, devices, plugins, index, storage, handles,
                     input, output, events>>
  BY DEF OnActivate, Activation, Lifecycle
<1>2. plugins # <<>> /\ InUse
  BY <1>1 DEF TablesInv, DevicesMirrorFile, InUse, Ready
<1>3. /\ values' \in [Directions -> Seq(Nums \cup {NaN})]
      /\ \A dir \in Directions : DOMAIN values'[dir] = DOMAIN values[dir]
      /\ \A s \in DOMAIN values["command"] : values'["command"][s] = NaN
  <2> DEFINE n == Len(values["command"])
             nans == [i \in 1 .. n |-> NaN]
  <2>1. values \in [Directions -> Seq(Nums \cup {NaN})]
    BY DEF TablesInv, TablesSound
  <2>2. n \in Nat /\ DOMAIN values["command"] = 1 .. n
    BY <2>1 DEF Directions
  <2>3. values' = [values EXCEPT !["command"] = nans]
    BY <1>1, <2>2
  <2>4. nans \in Seq(Nums \cup {NaN}) /\ DOMAIN nans = 1 .. n
    <3>1. nans \in [1 .. n -> Nums \cup {NaN}]
      OBVIOUS
    <3> HIDE DEF n, nans
    <3> QED BY <2>2, <3>1, FunctionIsSeq
  <2>5. \A s \in 1 .. n : nans[s] = NaN
    OBVIOUS
  <2> HIDE DEF n, nans
  <2> QED BY <2>1, <2>2, <2>3, <2>4, <2>5 DEF Directions
<1>4. CommandsRemembered'
  <2>1. Keys("command")' = Keys("command")
    BY <1>1, KeysUnchanged
  <2>2. DOMAIN asked = Keys("command")
    BY <1>2 DEF TablesInv, CommandsRemembered
  <2>3. ASSUME NEW key \in Keys("command")
        PROVE  index["command"][key] \in DOMAIN values["command"]
    <3>1. "command" \in Directions /\ phase \in Ready
      BY <1>1 DEF Directions, Ready
    <3> QED BY <1>2, <3>1, KeysHavePlaces
  <2>4. \A key \in Keys("command") :
          values'["command"][index'["command"][key]] = asked'[key]
    BY <1>1, <1>3, <2>2, <2>3
  <2> QED BY <1>1, <2>1, <2>2, <2>4 DEF CommandsRemembered
<1>5. FieldsMirrorDevices'
  BY <1>1 DEF TablesInv, FieldsMirrorDevices
<1>6. phase \in Ready /\ phase' \in Ready /\ events' \in 0 .. MaxEvents
  BY <1>1 DEF Ready, TablesInv
<1>7. Len(plugins') = Len(plugins)
  BY <1>1
<1> QED BY <1>1, <1>2, <1>3, <1>4, <1>5, <1>6, <1>7, RunningFrame

LEMMA OnCleanupKeepsInv ==
  ASSUME TablesInv, OnCleanup PROVE TablesInv'
<1>1. /\ phase = "inactive" /\ phase' = "unconfigured" /\ plugins' = <<>>
      /\ values' = [dir \in Directions |-> <<>>]
      /\ UNCHANGED <<file, k, devices, index, handles, outside>>
  BY DEF OnCleanup, Lifecycle
<1>2. DevicesMirrorFile'
  BY <1>1, Shapes DEF TablesInv, DevicesMirrorFile, InUse, Ready
<1>3. FieldsMirrorDevices'
  BY <1>1 DEF TablesInv, FieldsMirrorDevices, outside
<1>4. TablesSound' /\ HandlesFollowIndex' /\ CommandsRemembered'
  BY <1>1 DEF TablesSound, HandlesFollowIndex, CommandsRemembered, Loading, InUse
<1> QED BY <1>1, <1>2, <1>3, <1>4 DEF TablesInv, Ready, outside

LEMMA ReadKeepsInv ==
  ASSUME TablesInv, Read PROVE TablesInv'
<1>1. /\ phase \in {"inactive", "active"}
      /\ plugins' = [d \in DOMAIN plugins |-> [plugins[d] EXCEPT !.state = input[d]]]
      /\ UNCHANGED <<file, phase, k, devices, index, storage, handles, outside>>
  BY DEF Read
<1> DEFINE shown(s) ==
      LET last == LastHolding("state", s)
      IN IF Holding("state", s) = {} THEN values["state"][s]
         ELSE GetStateValue(plugins'[last[1]], devices[last[1]].inputs[last[2]])
           S == UNION {PluginOf(entry) : entry \in Range(file)}
<1>2. values' = [values EXCEPT !["state"] = [s \in DOMAIN values["state"] |-> shown(s)]]
  BY DEF Read
<1>3. plugins # <<>> /\ phase \in Ready
  BY <1>1 DEF TablesInv, DevicesMirrorFile, Ready
<1>4. ASSUME NEW d \in DOMAIN plugins
      PROVE  /\ plugins'[d] \in PluginOf(devices[d])
             /\ plugins'[d].command = plugins[d].command
  <2>1. plugins[d] \in PluginOf(devices[d])
        /\ input[d] \in [Range(devices[d].inputs) -> Nums]
    BY Shapes DEF TablesInv, FieldsMirrorDevices
  <2> QED BY <1>1, <2>1 DEF PluginOf
<1>5. /\ plugins' \in Seq(S) /\ Len(plugins') = Len(plugins)
      /\ DOMAIN plugins' = DOMAIN plugins
  <2>1. plugins' \in [1 .. Len(plugins) -> S]
    BY <1>1, <1>4, Shapes
  <2> HIDE DEF S
  <2> QED BY <2>1, Shapes, FunctionIsSeq
<1>6. FieldsMirrorDevices'
  BY <1>1, <1>4, <1>5 DEF TablesInv, FieldsMirrorDevices, outside
<1>7. ASSUME NEW s \in DOMAIN values["state"] PROVE shown(s) \in Nums \cup {NaN}
  <2>1. values["state"] \in Seq(Nums \cup {NaN})
    BY DEF TablesInv, TablesSound, Directions
  <2>2. CASE Holding("state", s) = {}
    <3>1. shown(s) = values["state"][s]
      BY <2>2
    <3> HIDE DEF shown
    <3> QED BY <2>1, <3>1
  <2>3. CASE Holding("state", s) # {}
    <3> DEFINE last == LastHolding("state", s)
               name == devices[last[1]].inputs[last[2]]
    <3>1. "state" \in Directions
      BY DEF Directions
    <3>2. last \in Holding("state", s)
      BY <2>3, <3>1, LastIsHolding
    <3> HIDE DEF last
    <3>3. last[1] \in DOMAIN plugins
      BY <3>2 DEF Holding, Interfaces
    <3>4. plugins'[last[1]] \in PluginOf(devices[last[1]])
      BY <1>4, <3>3
    <3>5. GetStateValue(plugins'[last[1]], name) \in Nums
      <4> HIDE DEF name
      <4> QED BY <3>4, NumberTypes DEF GetStateValue, PluginOf
    <3> QED BY <2>3, <3>5 DEF last
  <2> QED BY <2>2, <2>3
<1> HIDE DEF shown, S
<1>8. /\ values' \in [Directions -> Seq(Nums \cup {NaN})]
      /\ \A dir \in Directions : DOMAIN values'[dir] = DOMAIN values[dir]
      /\ values'["command"] = values["command"]
  <2> DEFINE n == Len(values["state"])
             new == [s \in 1 .. n |-> shown(s)]
  <2>1. values \in [Directions -> Seq(Nums \cup {NaN})]
    BY DEF TablesInv, TablesSound
  <2>2. n \in Nat /\ DOMAIN values["state"] = 1 .. n
    BY <2>1 DEF Directions
  <2>3. new \in Seq(Nums \cup {NaN}) /\ DOMAIN new = 1 .. n
    <3>1. new \in [1 .. n -> Nums \cup {NaN}]
      BY <1>7, <2>2
    <3> HIDE DEF n, new
    <3> QED BY <2>2, <3>1, FunctionIsSeq
  <2>4. values' = [values EXCEPT !["state"] = new]
    BY <1>2, <2>2
  <2> HIDE DEF n, new
  <2> QED BY <2>1, <2>2, <2>3, <2>4 DEF Directions
<1>9. CommandsRemembered'
  <2>1. Keys("command")' = Keys("command")
    BY <1>1, <1>5, KeysUnchanged
  <2>2. Untouched => Untouched'
    BY <1>4, <1>5, <1>8 DEF Untouched
  <2>3. InUse
    BY <1>3 DEF InUse
  <2> QED BY <1>1, <1>8, <2>1, <2>2, <2>3
          DEF TablesInv, CommandsRemembered, Ready, outside
<1>10. events' \in 0 .. MaxEvents /\ phase' \in Ready
  BY <1>1, <1>3 DEF TablesInv, outside
<1> QED BY <1>1, <1>3, <1>5, <1>6, <1>8, <1>9, <1>10, RunningFrame

(***************************************************************************)
(* write(): what a field of a plugin and of its assembly becomes.          *)
(***************************************************************************)
LEMMA WrittenFields ==
  ASSUME TablesInv, Write, NEW d \in DOMAIN plugins,
         NEW f \in Range(devices[d].outputs)
  PROVE  LET key == devices[d].name \o f
             v == values["command"][index["command"][key]]
         IN /\ plugins'[d].command[f] = IF v \in Nums THEN v ELSE plugins[d].command[f]
            /\ output'[d][f] = plugins'[d].command[f]
            /\ key \in Keys("command")
            /\ index["command"][key] \in DOMAIN values["command"]
<1>1. plugins[d] \in PluginOf(devices[d]) /\ d \in DOMAIN output
  BY Shapes DEF TablesInv, FieldsMirrorDevices
<1>2. f \in DOMAIN plugins[d].command
  BY <1>1 DEF PluginOf
<1>3. plugins'[d].command[f] =
        LET v == values["command"][index["command"][devices[d].name \o f]]
        IN IF v \in Nums THEN v ELSE plugins[d].command[f]
  BY <1>1, <1>2 DEF Write, WriteWith, PluginOf, Nums
<1>4. output'[d] = plugins'[d].command
  BY <1>1 DEF Write, WriteWith
<1>5. "command" \in Directions /\ f \in Range(FieldsOf(devices[d], "command"))
  BY DEF Directions, FieldsOf
<1>6. devices[d].name \o f \in Keys("command")
  BY <1>5, FieldsHaveKeys
<1>7. plugins # <<>> /\ phase \in Ready
  BY DEF Write, WriteWith, TablesInv, DevicesMirrorFile, Ready
<1>8. index["command"][devices[d].name \o f] \in DOMAIN values["command"]
  BY <1>5, <1>6, <1>7, KeysHavePlaces
<1> QED BY <1>3, <1>4, <1>6, <1>8

LEMMA WriteKeepsInv ==
  ASSUME TablesInv, Write PROVE TablesInv'
<1> DEFINE S == UNION {PluginOf(entry) : entry \in Range(file)}
           Outs == UNION {[Range(entry.outputs) -> Nums] : entry \in Range(file)}
           sent(d) == [f \in DOMAIN plugins[d].command |->
             LET v == values["command"][index["command"][devices[d].name \o f]]
             IN IF v \in Nums THEN v ELSE plugins[d].command[f]]
<1>1. /\ phase \in {"inactive", "active"}
      /\ plugins' = [d \in DOMAIN plugins |-> [plugins[d] EXCEPT !.command = sent(d)]]
      /\ output' = [d \in DOMAIN output |->
                      IF d \in DOMAIN plugins THEN plugins'[d].command ELSE output[d]]
      /\ UNCHANGED <<file, phase, k, devices, tables, handles, input, asked, events>>
  BY DEF Write, WriteWith, Nums
<1>2. plugins # <<>> /\ phase \in Ready /\ InUse
  BY <1>1 DEF TablesInv, DevicesMirrorFile, Ready, InUse
<1>3. ASSUME NEW d \in DOMAIN plugins
      PROVE  /\ plugins'[d] \in PluginOf(devices[d])
             /\ plugins'[d].command \in [Range(devices[d].outputs) -> Nums]
  <2>1. plugins[d] \in PluginOf(devices[d])
    BY DEF TablesInv, FieldsMirrorDevices
  <2>2. sent(d) \in [Range(devices[d].outputs) -> Nums]
    BY <2>1 DEF PluginOf
  <2> HIDE DEF sent
  <2> QED BY <1>1, <2>1, <2>2 DEF PluginOf
<1> HIDE DEF sent
<1>4. /\ plugins' \in Seq(S) /\ Len(plugins') = Len(plugins)
      /\ DOMAIN plugins' = DOMAIN plugins
  <2>1. \A d \in DOMAIN plugins : plugins'[d] \in S
    BY <1>3, Shapes
  <2>2. plugins' \in [1 .. Len(plugins) -> S]
    <3> HIDE DEF S
    <3> QED BY <1>1, <2>1, Shapes
  <2> HIDE DEF S
  <2> QED BY <2>2, Shapes, FunctionIsSeq
<1>5. ASSUME NEW d \in DOMAIN devices
      PROVE  output'[d] \in [Range(devices[d].outputs) -> Nums]
  <2>1. output[d] \in [Range(devices[d].outputs) -> Nums] /\ d \in DOMAIN output
    BY Shapes DEF TablesInv, FieldsMirrorDevices
  <2> QED BY <1>1, <1>3, <2>1
<1>6. output' \in Seq(Outs) /\ Len(output') = Len(devices)
  <2>1. \A d \in DOMAIN devices : output'[d] \in Outs
    BY <1>5, Shapes
  <2> HIDE DEF Outs
  <2>2. output' \in [1 .. Len(devices) -> Outs]
    BY <1>1, <2>1, Shapes
  <2> QED BY <2>2, Shapes, FunctionIsSeq
<1>7. FieldsMirrorDevices'
  BY <1>1, <1>3, <1>4, <1>5, <1>6 DEF TablesInv, FieldsMirrorDevices
<1>8. UNCHANGED <<index, values, storage>>
  BY <1>1 DEF tables
<1>9. CommandsRemembered'
  <2>1. Keys("command")' = Keys("command")
    BY <1>1, <1>4, KeysUnchanged
  <2>2. ASSUME Untouched PROVE Untouched'
    <3>1. ASSUME NEW d \in DOMAIN plugins, NEW f \in DOMAIN plugins'[d].command
          PROVE  plugins'[d].command[f] = 0
      <4>1. f \in Range(devices[d].outputs) /\ f \in DOMAIN plugins[d].command
        BY <1>3, <3>1 DEF TablesInv, FieldsMirrorDevices, PluginOf
      <4> QED BY <2>2, <4>1, WrittenFields DEF Untouched
    <3> QED BY <1>4, <1>8, <2>2, <3>1 DEF Untouched
  <2> QED BY <1>1, <1>2, <1>8, <2>1, <2>2 DEF TablesInv, CommandsRemembered, Ready
<1>10. events' \in 0 .. MaxEvents /\ phase' \in Ready
  BY <1>1, <1>2 DEF TablesInv
<1>11. values' \in [Directions -> Seq(Nums \cup {NaN})]
  BY <1>8 DEF TablesInv, TablesSound
<1> QED BY <1>1, <1>2, <1>4, <1>7, <1>8, <1>9, <1>10, <1>11, RunningFrame

LEMMA ReportKeepsInv ==
  ASSUME TablesInv, NEW d \in DOMAIN input, NEW f \in DOMAIN input[d],
         NEW v \in Numbers, Report(d, f, v)
  PROVE  TablesInv'
<1> DEFINE Ins == UNION {[Range(entry.inputs) -> Nums] : entry \in Range(file)}
<1>1. /\ phase \in {"inactive", "active"} /\ events < MaxEvents
      /\ events' = events + 1
      /\ input' = [input EXCEPT ![d][f] = v]
      /\ UNCHANGED <<file, phase, k, devices, plugins, tables, handles, output, asked>>
  BY DEF Report
<1>2. ASSUME NEW e \in DOMAIN devices
      PROVE  input'[e] \in [Range(devices[e].inputs) -> Nums]
  <2>1. input[e] \in [Range(devices[e].inputs) -> Nums] /\ e \in DOMAIN input
    BY Shapes DEF TablesInv, FieldsMirrorDevices
  <2>2. CASE e = d
    <3>1. input'[e] = [input[e] EXCEPT ![f] = v]
      BY <1>1, <2>1, <2>2
    <3> QED BY <2>1, <3>1 DEF Nums
  <2>3. CASE e # d
    BY <1>1, <2>1, <2>3
  <2> QED BY <2>2, <2>3
<1>3. input' \in Seq(Ins) /\ Len(input') = Len(devices)
  <2>1. \A e \in DOMAIN devices : input'[e] \in Ins
    BY <1>2, Shapes
  <2> HIDE DEF Ins
  <2>2. DOMAIN input' = DOMAIN devices /\ input' = [e \in DOMAIN devices |-> input'[e]]
    BY <1>1, Shapes
  <2>3. input' \in [1 .. Len(devices) -> Ins]
    BY <2>1, <2>2, Shapes
  <2> QED BY <2>3, Shapes, FunctionIsSeq
<1>4. FieldsMirrorDevices'
  BY <1>1, <1>2, <1>3 DEF TablesInv, FieldsMirrorDevices
<1>5. plugins # <<>> /\ phase \in Ready /\ UNCHANGED <<index, values, storage>>
  BY <1>1 DEF TablesInv, DevicesMirrorFile, Ready, tables
<1>6. CommandsRemembered'
  <2>1. Keys("command")' = Keys("command")
    BY <1>1, KeysUnchanged
  <2> QED BY <1>1, <1>5, <2>1 DEF TablesInv, CommandsRemembered, Untouched, InUse
<1>7. events' \in 0 .. MaxEvents /\ phase' \in Ready
  BY <1>1, <1>5, MaxEventsAssumption DEF TablesInv
<1>8. values' \in [Directions -> Seq(Nums \cup {NaN})]
  BY <1>5 DEF TablesInv, TablesSound
<1>9. Len(plugins') = Len(plugins)
  BY <1>1
<1> QED BY <1>1, <1>4, <1>5, <1>6, <1>7, <1>8, <1>9, RunningFrame

LEMMA SetCommandKeepsInv ==
  ASSUME TablesInv, NEW key \in DOMAIN asked, NEW v \in Numbers, SetCommand(key, v)
  PROVE  TablesInv'
<1>1. /\ phase = "active" /\ events < MaxEvents
      /\ events' = events + 1
      /\ asked' = [asked EXCEPT ![key] = v]
      /\ values' = [values EXCEPT !["command"][handles["command"][key].slot] = v]
      /\ UNCHANGED <<file, phase, k, devices, plugins, index, storage, handles,
                     input, output>>
  BY DEF SetCommand
<1>2. plugins # <<>> /\ phase \in Ready /\ InUse
  BY <1>1 DEF TablesInv, DevicesMirrorFile, Ready, InUse
<1>3. "command" \in Directions
  BY DEF Directions
<1>4. /\ asked \in [Keys("command") -> Numbers \cup {NaN}] /\ key \in Keys("command")
      /\ \A other \in Keys("command") :
           values["command"][index["command"][other]] = asked[other]
  BY <1>1, <1>2 DEF TablesInv, CommandsRemembered
<1>5. handles["command"][key].slot = index["command"][key]
  BY <1>2, <1>3, <1>4, HandlesPointAtPlaces
<1>6. ASSUME NEW other \in Keys("command")
      PROVE  /\ other \in DOMAIN index["command"]
             /\ index["command"][other] \in DOMAIN values["command"]
  BY <1>2, <1>3, <1>6, KeysHavePlaces
<1>7. \A other \in Keys("command") :
        index["command"][other] = index["command"][key] => other = key
  BY <1>2, <1>3, <1>4, <1>6 DEF TablesInv, TablesSound, TableIsSound
<1>8. /\ values' \in [Directions -> Seq(Nums \cup {NaN})]
      /\ \A dir \in Directions : DOMAIN values'[dir] = DOMAIN values[dir]
      /\ values'["command"] = [values["command"] EXCEPT ![index["command"][key]] = v]
  <2> DEFINE old == values["command"]
             new == [old EXCEPT ![index["command"][key]] = v]
  <2>1. values \in [Directions -> Seq(Nums \cup {NaN})]
    BY DEF TablesInv, TablesSound
  <2>2. old \in Seq(Nums \cup {NaN}) /\ index["command"][key] \in DOMAIN old
    BY <1>3, <1>4, <1>6, <2>1
  <2>3. v \in Nums
    BY DEF Nums
  <2>4. values' = [values EXCEPT !["command"] = new]
    BY <1>1, <1>5
  <2> HIDE DEF old
  <2>5. new \in Seq(Nums \cup {NaN}) /\ DOMAIN new = DOMAIN old
    BY <2>2, <2>3
  <2> HIDE DEF new
  <2>6. values' \in [Directions -> Seq(Nums \cup {NaN})] /\ values'["command"] = new
    BY <1>3, <2>1, <2>4, <2>5
  <2>7. \A dir \in Directions : DOMAIN values'[dir] = DOMAIN values[dir]
    BY <1>3, <2>1, <2>4, <2>5 DEF old
  <2> QED BY <2>6, <2>7 DEF old, new
<1>9. CommandsRemembered'
  <2>1. Keys("command")' = Keys("command")
    BY <1>1, KeysUnchanged
  <2>2. asked' \in [Keys("command") -> Numbers \cup {NaN}]
    BY <1>1, <1>4
  <2>3. ASSUME NEW other \in Keys("command")
        PROVE  values'["command"][index["command"][other]] = asked'[other]
    <3>1. CASE other = key
      BY <1>1, <1>4, <1>6, <1>8, <3>1
    <3>2. CASE other # key
      BY <1>1, <1>4, <1>6, <1>7, <1>8, <3>2
    <3> QED BY <3>1, <3>2
  <2> QED BY <1>1, <2>1, <2>2, <2>3 DEF CommandsRemembered
<1>10. FieldsMirrorDevices'
  BY <1>1 DEF TablesInv, FieldsMirrorDevices
<1>11. events' \in 0 .. MaxEvents /\ phase' \in Ready /\ Len(plugins') = Len(plugins)
  BY <1>1, <1>2, MaxEventsAssumption DEF TablesInv
<1> QED BY <1>1, <1>2, <1>8, <1>9, <1>10, <1>11, RunningFrame

LEMMA StutteringKeepsInv ==
  ASSUME TablesInv, UNCHANGED vars PROVE TablesInv'
<1> USE DEF vars, tables, outside
<1>1. DevicesMirrorFile' /\ FieldsMirrorDevices'
  BY DEF TablesInv, DevicesMirrorFile, FieldsMirrorDevices, InUse
<1>2. \A dir : Keys(dir)' = Keys(dir) /\ \A d : Exported(d, dir)' = Exported(d, dir)
  BY KeysUnchanged
<1>3. TablesSound'
  <2>1. \A dir \in Directions : TableIsSound(dir) => TableIsSound(dir)'
    BY <1>2 DEF TableIsSound, Tabulated
  <2> QED BY <2>1 DEF TablesInv, TablesSound, Loading, InUse
<1>4. HandlesFollowIndex'
  BY <1>2 DEF TablesInv, HandlesFollowIndex, Loading, InUse
<1>5. CommandsRemembered'
  BY <1>2 DEF TablesInv, CommandsRemembered, Untouched, InUse
<1> QED BY <1>1, <1>3, <1>4, <1>5 DEF TablesInv

LEMMA NextKeepsTablesInv ==
  ASSUME TablesInv, [Next]_vars PROVE TablesInv'
<1>1. CASE LoadDevice \/ CreatePlugin \/ BuildTables \/ NextLoop \/ Export
  BY <1>1, LoadDeviceKeepsInv, CreatePluginKeepsInv, BuildTablesKeepsInv,
     NextLoopKeepsInv, ExportKeepsInv
<1>2. CASE OnConfigure
  <2>1. phase = "unconfigured" /\ phase' = "inactive" /\ plugins # <<>>
        /\ UNCHANGED <<file, k, devices, plugins, tables, handles, outside>>
    BY <1>2 DEF OnConfigure, Lifecycle
  <2>2. phase \in Ready
    BY <2>1 DEF Ready
  <2> QED BY <2>1, <2>2, PhaseChangeKeepsInv
<1>3. CASE OnDeactivate
  <2>1. phase = "active" /\ phase' = "inactive"
        /\ UNCHANGED <<file, k, devices, plugins, tables, handles, outside>>
    BY <1>3 DEF OnDeactivate, Lifecycle
  <2>2. phase \in Ready /\ plugins # <<>>
    BY <2>1 DEF TablesInv, DevicesMirrorFile, Ready
  <2> QED BY <2>1, <2>2, PhaseChangeKeepsInv
<1>4. CASE OnActivate \/ OnCleanup \/ Read \/ Write
  BY <1>4, OnActivateKeepsInv, OnCleanupKeepsInv, ReadKeepsInv, WriteKeepsInv
<1>5. CASE \E d \in DOMAIN input : \E f \in DOMAIN input[d], v \in Numbers :
             Report(d, f, v)
  BY <1>5, ReportKeepsInv
<1>6. CASE \E key \in DOMAIN asked, v \in Numbers : SetCommand(key, v)
  BY <1>6, SetCommandKeepsInv
<1>7. CASE UNCHANGED vars
  BY <1>7, StutteringKeepsInv
<1> QED BY <1>1, <1>2, <1>3, <1>4, <1>5, <1>6, <1>7 DEF Next

(***************************************************************************)
(* Every reachable state satisfies the invariant.                          *)
(***************************************************************************)
THEOREM TablesInvariance == Spec => []TablesInv
<1>1. TablesInv /\ [Next]_vars => TablesInv'
  BY NextKeepsTablesInv
<1> QED BY <1>1, InitTablesInv, PTL DEF Spec

(***************************************************************************)
(* The state is well typed: values are numbers or NaN, indices lie in the  *)
(* vectors.                                                                *)
(***************************************************************************)
THEOREM TablesTypeCorrect == Spec => []TypeOK
<1>1. TablesInv => TypeOK
  <2> SUFFICES ASSUME TablesInv PROVE TypeOK
    OBVIOUS
  <2>1. ASSUME NEW dir \in Directions
        PROVE  /\ \A i \in DOMAIN values[dir] : values[dir][i] \in Numbers \cup {0, NaN}
               /\ plugins # <<>> => Range(index[dir]) \subseteq DOMAIN values[dir]
    <3>1. \A i \in DOMAIN values[dir] : values[dir][i] \in Numbers \cup {0, NaN}
      BY DEF TablesInv, TablesSound, Nums
    <3>2. CASE Loading
      BY <3>2 DEF TablesInv, TablesSound, Range
    <3>3. CASE ~Loading /\ plugins # <<>>
      <4>1. TableIsSound(dir)
        BY <3>3 DEF TablesInv, TablesSound, Loading, InUse, Ready
      <4> QED BY <3>1, <4>1 DEF TableIsSound, Range
    <3> QED BY <3>1, <3>2, <3>3
  <2>2. /\ phase \in Ready \cup {"load", "plugins", "tables", "failed"}
        /\ k \in 1 .. Len(file) + 1 /\ events \in 0 .. MaxEvents
        /\ Len(devices) <= Len(file) /\ Len(plugins) <= Len(devices)
    BY DEF TablesInv, DevicesMirrorFile
  <2> QED BY <2>1, <2>2 DEF TypeOK
<1> QED BY <1>1, TablesInvariance, PTL

(***************************************************************************)
(* From the export to the cleanup every handle points into the vector it   *)
(* was taken from.                                                         *)
(***************************************************************************)
THEOREM HandlesStayLive == Spec => []HandlesLive
<1>1. TablesInv => HandlesLive
  <2> SUFFICES ASSUME TablesInv, plugins # <<>>, phase \in Ready,
                      NEW dir \in Directions, NEW key \in DOMAIN handles[dir]
               PROVE  /\ handles[dir][key].storage = storage
                      /\ handles[dir][key].slot \in DOMAIN values[dir]
    BY DEF HandlesLive
  <2>1. handles[dir] = [name \in Keys(dir) |-> [slot |-> index[dir][name],
                                                storage |-> storage]]
    BY DEF TablesInv, HandlesFollowIndex, InUse
  <2>2. key \in Keys(dir)
    BY <2>1
  <2>3. index[dir][key] \in DOMAIN values[dir]
    BY <2>2, KeysHavePlaces
  <2> QED BY <2>1, <2>2, <2>3
<1> QED BY <1>1, TablesInvariance, PTL

(***************************************************************************)
(* on_init() hands out the interfaces of all devices of the file or none.  *)
(***************************************************************************)
THEOREM InitHandsOutAllOrNothing == Spec => []InitAllOrNothing
<1>1. TablesInv => InitAllOrNothing
  <2> SUFFICES ASSUME TablesInv PROVE InitAllOrNothing
    OBVIOUS
  <2>1. CASE plugins # <<>> /\ phase \in Ready
    <3>1. devices = file /\ Len(plugins) = Len(devices)
      BY <2>1 DEF TablesInv, DevicesMirrorFile, InUse
    <3>2. ASSUME NEW d \in DOMAIN plugins, NEW dir \in Directions
          PROVE  DOMAIN plugins[d][dir] = Range(FieldsOf(file[d], dir))
      <4>1. plugins[d] \in PluginOf(file[d])
        BY <3>1 DEF TablesInv, FieldsMirrorDevices
      <4>2. CASE dir = "state"
        BY <4>1, <4>2 DEF PluginOf, FieldsOf
      <4>3. CASE dir = "command"
        BY <4>1, <4>3 DEF PluginOf, FieldsOf
      <4> QED BY <4>2, <4>3 DEF Directions
    <3>3. \A dir \in Directions : DOMAIN handles[dir] = Keys(dir)
      BY <2>1 DEF TablesInv, HandlesFollowIndex, InUse
    <3>4. phase # "failed"
      BY <2>1 DEF Ready
    <3> QED BY <3>1, <3>2, <3>3, <3>4 DEF InitAllOrNothing
  <2>2. CASE ~(plugins # <<>> /\ phase \in Ready)
    <3>1. phase = "failed" => \A dir \in Directions : handles[dir] = <<>>
      BY DEF TablesInv, HandlesFollowIndex, Loading
    <3> QED BY <2>2, <3>1 DEF InitAllOrNothing
  <2> QED BY <2>1, <2>2
<1> QED BY <1>1, TablesInvariance, PTL

(***************************************************************************)
(* read() shows in every handle what its own device reports in its own     *)
(* field.                                                                  *)
(***************************************************************************)
THEOREM ReadAlwaysDelivers == Spec => ReadDelivers
<1> DEFINE Delivered ==
      Read => \A d \in DOMAIN plugins : \A f \in DOMAIN input[d] :
        LET key == devices[d].name \o f
        IN Unambiguous("state", key) =>
             values'["state"][handles["state"][key].slot] = input[d][f]
<1>1. TablesInv /\ [Next]_vars => [Delivered]_vars
  <2> SUFFICES ASSUME TablesInv, Read, NEW d \in DOMAIN plugins,
                      NEW f \in DOMAIN input[d],
                      Unambiguous("state", devices[d].name \o f)
               PROVE  values'["state"][handles["state"][devices[d].name \o f].slot]
                        = input[d][f]
    OBVIOUS
  <2> DEFINE key == devices[d].name \o f
             s == index["state"][key]
  <2>1. "state" \in Directions /\ plugins # <<>> /\ phase \in Ready
    BY DEF Directions, Read, TablesInv, DevicesMirrorFile, Ready
  <2>2. input[d] \in [Range(devices[d].inputs) -> Nums]
        /\ plugins[d] \in PluginOf(devices[d])
    BY Shapes DEF TablesInv, FieldsMirrorDevices
  <2>3. PICK i \in DOMAIN devices[d].inputs : devices[d].inputs[i] = f
    BY <2>2 DEF Range
  <2>4. <<d, i>> \in Interfaces("state") /\ KeyOf(<<d, i>>, "state") = key
    <3>1. FieldsOf(devices[d], "state") = devices[d].inputs
      BY DEF FieldsOf
    <3>2. <<d, i>> \in Interfaces("state")
      BY <2>3, <3>1 DEF Interfaces
    <3>3. KeyOf(<<d, i>>, "state") = key
      BY <2>3, <3>1 DEF KeyOf, Exported
    <3> QED BY <3>2, <3>3
  <2>5. key \in Keys("state")
    BY <2>4 DEF Keys
  <2>6. s \in DOMAIN values["state"]
    BY <2>1, <2>5, KeysHavePlaces
  <2>7. handles["state"][key].slot = s
    BY <2>1, <2>5, HandlesPointAtPlaces
  <2>8. <<d, i>> \in Holding("state", s)
    BY <2>4 DEF Holding
  <2>9. ASSUME NEW q \in Holding("state", s) PROVE q = <<d, i>>
    <3>1. q \in Interfaces("state") /\ index["state"][KeyOf(q, "state")] = s
      BY DEF Holding
    <3>2. KeyOf(q, "state") \in Keys("state")
      BY <3>1 DEF Keys
    <3>3. KeyOf(q, "state") \in DOMAIN index["state"] /\ key \in DOMAIN index["state"]
      BY <2>1, <2>5, <3>2, KeysHavePlaces
    <3>4. TableIsSound("state")
      BY <2>1 DEF TablesInv, TablesSound, InUse
    <3>5. KeyOf(q, "state") = key
      BY <3>1, <3>3, <3>4 DEF TableIsSound
    <3> QED BY <2>4, <3>1, <3>5 DEF Unambiguous
  <2>10. LastHolding("state", s) = <<d, i>>
    <3>1. LastHolding("state", s) \in Holding("state", s)
      BY <2>1, <2>8, LastIsHolding
    <3> QED BY <2>9, <3>1
  <2>11. plugins'[d].state = input[d]
    BY <2>2 DEF Read, PluginOf
  <2>12. GetStateValue(plugins'[d], f) = input[d][f]
    BY <2>11 DEF GetStateValue
  <2> HIDE DEF key, s
  <2>13. values'["state"][s] = GetStateValue(plugins'[d], f)
    <3>1. values \in [Directions -> Seq(Nums \cup {NaN})]
      BY DEF TablesInv, TablesSound
    <3>2. Holding("state", s) # {}
      BY <2>8
    <3> QED BY <2>1, <2>3, <2>6, <2>10, <3>1, <3>2 DEF Read
  <2> QED BY <2>7, <2>12, <2>13 DEF key
<1>2. TablesInv /\ [Next]_vars => [Delivered]_vars
  BY <1>1
<1> QED BY <1>2, TablesInvariance, PTL DEF Spec, ReadDelivers

(***************************************************************************)
(* write() packs into every field the last command given through its own   *)
(* handle, or leaves the field alone.                                      *)
(***************************************************************************)
THEOREM CommandsAlwaysGoHome == Spec => CommandsGoHome
<1> DEFINE Packed ==
      Write => \A d \in DOMAIN plugins : \A f \in DOMAIN output[d] :
        LET key == devices[d].name \o f
        IN Unambiguous("command", key) =>
             output'[d][f] = IF asked[key] = NaN THEN plugins[d].command[f]
                             ELSE asked[key]
<1>1. TablesInv /\ [Next]_vars => [Packed]_vars
  <2> SUFFICES ASSUME TablesInv, Write, NEW d \in DOMAIN plugins,
                      NEW f \in DOMAIN output[d]
               PROVE  output'[d][f] =
                        IF asked[devices[d].name \o f] = NaN THEN plugins[d].command[f]
                        ELSE asked[devices[d].name \o f]
    OBVIOUS
  <2> DEFINE key == devices[d].name \o f
             v == values["command"][index["command"][key]]
  <2>1. output[d] \in [Range(devices[d].outputs) -> Nums]
        /\ plugins[d] \in PluginOf(devices[d])
    BY Shapes DEF TablesInv, FieldsMirrorDevices
  <2>2. f \in Range(devices[d].outputs) /\ f \in DOMAIN plugins[d].command
    BY <2>1 DEF PluginOf
  <2>3. /\ output'[d][f] = IF v \in Nums THEN v ELSE plugins[d].command[f]
        /\ key \in Keys("command")
        /\ index["command"][key] \in DOMAIN values["command"]
    BY <2>2, WrittenFields
  <2> HIDE DEF key
  <2>4. InUse
    BY DEF Write, WriteWith, TablesInv, DevicesMirrorFile, InUse, Ready
  <2>5. asked[key] \in Numbers \cup {NaN}
    BY <2>3, <2>4 DEF TablesInv, CommandsRemembered
  <2>6. CASE v = asked[key]
    BY <2>3, <2>5, <2>6, NumberTypes DEF Nums, key
  <2>7. CASE Untouched /\ asked[key] = NaN
    <3>1. v = 0 /\ plugins[d].command[f] = 0
      BY <2>2, <2>3, <2>7 DEF Untouched
    <3> QED BY <2>3, <2>7, <3>1, NumberTypes DEF key
  <2>8. v = asked[key] \/ (Untouched /\ asked[key] = NaN)
    <3>1. \/ \A name \in Keys("command") :
               values["command"][index["command"][name]] = asked[name]
          \/ Untouched /\ \A name \in Keys("command") : asked[name] = NaN
      BY <2>4 DEF TablesInv, CommandsRemembered
    <3>2. CASE \A name \in Keys("command") :
                 values["command"][index["command"][name]] = asked[name]
      BY <2>3, <3>2
    <3>3. CASE Untouched /\ \A name \in Keys("command") : asked[name] = NaN
      BY <2>3, <3>3
    <3> QED BY <3>1, <3>2, <3>3
  <2> QED BY <2>6, <2>7, <2>8
<1> QED BY <1>1, TablesInvariance, PTL DEF Spec, CommandsGoHome
=============================================================================
