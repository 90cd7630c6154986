-------------------------- MODULE InterfaceTables --------------------------
(***************************************************************************)
(* From the YAML file to the interfaces of ros2_control: what on_init()    *)
(* loads and tabulates, what the export functions hand out, and how read() *)
(* and write() find their way through the tables.                          *)
(*                                                                         *)
(* All of it runs in the thread of ros2_control, one callback at a time;   *)
(* the scanner is left out, but for the fields of the assemblies it        *)
(* exchanges: input[d] is what device d reports, output[d] what write()    *)
(* has packed for it; the sizes of its assemblies are given and suffice.   *)
(* The state and the command half are built alike and are told apart by a  *)
(* direction.                                                              *)
(*                                                                         *)
(* A name is the sequence of its parts between slashes, so that            *)
(* joint + "/" + interface is a concatenation.                             *)
(***************************************************************************)
EXTENDS Integers, Sequences, FiniteSetsExt

CONSTANTS
  Files,      \* the YAML files: sequences of device entries
  Numbers,    \* the values devices report and controllers command
  MaxEvents   \* bound: reports and commands together

\* An entry's fault is what goes wrong with it: "entry", reading it throws
\* (no name, no ip, a field without name, an rpi that is no number; or the
\* file before it cannot be read), "plugin", it cannot be loaded or refuses
\* its configuration, or "none".
ASSUME FilesAssumption ==
  \A entries \in Files :
    /\ entries \in Seq(Range(entries))
    /\ \A i \in DOMAIN entries :
         /\ entries[i].fault \in {"none", "entry", "plugin"}
         /\ entries[i].inputs \in Seq(Range(entries[i].inputs))
         /\ entries[i].outputs \in Seq(Range(entries[i].outputs))
ASSUME NumbersAssumption == Numbers \subseteq Nat
ASSUME MaxEventsAssumption == MaxEvents \in Nat

VARIABLES
  file,      \* the file named by config_file
  phase,     \* the loop of on_init() that runs, then the lifecycle state
  k,         \* the element that loop is at
  devices,   \* the configurations in devices_
  plugins,   \* device_plugins_: state_values_ and command_values_ of each
  index,     \* state_index_ and command_index_
  values,    \* state_values_ and command_values_ of the system
  storage,   \* counts the times the memory of values was given up
  handles,   \* what ros2_control got: interface -> place in memory
  input,     \* input[d]: the fields device d reports
  output,    \* output[d]: the fields packed for device d
  asked,     \* history: the last command for an interface since activation
  events     \* bound: reports and commands so far

tables == <<index, values, storage>>
outside == <<input, output, asked, events>>
vars == <<file, phase, k, devices, plugins, tables, handles, outside>>

Directions == {"state", "command"}
Ready == {"unconfigured", "inactive", "active"}
NaN == -1

FieldsOf(entry, dir) == IF dir = "state" THEN entry.inputs ELSE entry.outputs
Zero(fields) == [f \in Range(fields) |-> 0]

\* exportStateInterfaces() and exportCommandInterfaces() of device d's
\* plugin, one interface per field and named like it; the keys they are
\* entered under.
Exported(d, dir) ==
  LET fields == FieldsOf(devices[d], dir)
  IN [i \in DOMAIN fields |-> devices[d].name \o fields[i]]

\* <<d, i>> is the i-th interface that device d's plugin exports.
Interfaces(dir) ==
  UNION {{d} \X DOMAIN FieldsOf(devices[d], dir) : d \in DOMAIN plugins}

KeyOf(iface, dir) == Exported(iface[1], dir)[iface[2]]
Keys(dir) == {KeyOf(iface, dir) : iface \in Interfaces(dir)}

TypeOK ==
  /\ phase \in Ready \cup {"load", "plugins", "tables", "failed"}
  /\ k \in 1 .. Len(file) + 1
  /\ Len(devices) <= Len(file)
  /\ Len(plugins) <= Len(devices)
  /\ \A dir \in Directions :
       /\ \A i \in DOMAIN values[dir] : values[dir][i] \in Numbers \cup {0, NaN}
       /\ plugins # <<>> => Range(index[dir]) \subseteq DOMAIN values[dir]
  /\ events \in 0 .. MaxEvents

Init ==
  /\ file \in Files
  /\ phase = "load" /\ k = 1
  /\ devices = <<>> /\ plugins = <<>>
  /\ index = [dir \in Directions |-> <<>>]
  /\ values = [dir \in Directions |-> <<>>]
  /\ storage = 0
  /\ handles = [dir \in Directions |-> <<>>]
  /\ input = <<>> /\ output = <<>> /\ asked = <<>>
  /\ events = 0

---------------------------------------------------------------------------
(* on_init(): three loops over the devices, the first in loadConfig().     *)

Fail ==
  /\ phase' = "failed"
  /\ UNCHANGED <<file, k, devices, plugins, tables, handles, outside>>

\* addDevice() cannot fail: configure() always succeeds.
LoadDevice ==
  /\ phase = "load" /\ k \in DOMAIN file
  /\ IF file[k].fault = "entry" THEN Fail
     ELSE /\ devices' = Append(devices, file[k])
          /\ input' = Append(input, Zero(file[k].inputs))
          /\ output' = Append(output, Zero(file[k].outputs))
          /\ k' = k + 1
          /\ UNCHANGED <<file, phase, plugins, tables, handles, asked, events>>

\* A loop that goes on to the next device when a plugin is missing.
CreatePluginOrSkip ==
  /\ phase = "plugins" /\ k \in DOMAIN devices
  /\ k' = k + 1
  /\ plugins' = IF devices[k].fault = "plugin" THEN plugins
                ELSE Append(plugins, [state |-> Zero(devices[k].inputs),
                                      command |-> Zero(devices[k].outputs)])
  /\ UNCHANGED <<file, phase, devices, tables, handles, outside>>

CreatePlugin ==
  /\ phase = "plugins" /\ k \in DOMAIN devices
  /\ IF devices[k].fault = "plugin" THEN Fail
     ELSE /\ plugins' = Append(plugins, [state |-> Zero(devices[k].inputs),
                                         command |-> Zero(devices[k].outputs)])
          /\ k' = k + 1
          /\ UNCHANGED <<file, phase, devices, tables, handles, outside>>

\* The index of a key after a plugin's interfaces were entered; of two with
\* the same key the later one counts.
Entered(old, exported, base) ==
  LET places(key) == {i \in DOMAIN exported : exported[i] = key}
  IN [key \in DOMAIN old \cup Range(exported) |->
        IF places(key) = {} THEN old[key] ELSE base + Max(places(key))]

Tabulate(base) ==
  /\ phase = "tables" /\ k \in DOMAIN plugins
  /\ index' = [dir \in Directions |->
                 Entered(index[dir], Exported(k, dir), base[dir])]
  /\ values' = [dir \in Directions |->
                  values[dir] \o [i \in DOMAIN Exported(k, dir) |-> 0]]
  /\ storage' = storage + 1
  /\ k' = k + 1
  /\ UNCHANGED <<file, phase, devices, plugins, handles, outside>>

\* Places counted within the plugin, and places taken after the push_back.
BuildTablesPerPlugin == Tabulate([dir \in Directions |-> 0])
BuildTablesPastEnd == Tabulate([dir \in Directions |-> Len(values[dir]) + 1])

BuildTables == Tabulate([dir \in Directions |-> Len(values[dir])])

\* A loop is done.  After the last one the resource manager asks for the
\* interfaces at once, before any other callback.
NextLoop ==
  /\ \/ phase = "load" /\ k > Len(file) /\ phase' = "plugins"
     \/ phase = "plugins" /\ k > Len(devices) /\ phase' = "tables"
  /\ k' = 1
  /\ UNCHANGED <<file, devices, plugins, tables, handles, outside>>

Export ==
  /\ phase = "tables" /\ k > Len(plugins)
  /\ phase' = "unconfigured"
  /\ handles' = [dir \in Directions |->
       [key \in Keys(dir) |-> [slot |-> index[dir][key], storage |-> storage]]]
  /\ asked' = [key \in Keys("command") |-> NaN]
  /\ UNCHANGED <<file, k, devices, plugins, tables, input, output, events>>

---------------------------------------------------------------------------
(* The lifecycle, as far as it touches the tables. *)

Lifecycle(from, to) == phase = from /\ phase' = to

\* start() may fail: on_error() then stops the scanner, which touches no
\* table, and the hardware is unconfigured again.
Activation == \E to \in {"active", "unconfigured"} : Lifecycle("inactive", to)

OnConfigure ==
  /\ plugins # <<>>
  /\ Lifecycle("unconfigured", "inactive")
  /\ UNCHANGED <<file, k, devices, plugins, tables, handles, outside>>

\* command_values_ = std::vector<double>(n, NaN)
OnActivateWithNewVector ==
  /\ Activation
  /\ values' = [values EXCEPT !["command"] = [i \in DOMAIN @ |-> NaN]]
  /\ storage' = storage + 1
  /\ asked' = [key \in DOMAIN asked |-> NaN]
  /\ UNCHANGED <<file, k, devices, plugins, index, handles, input, output, events>>

OnActivate ==
  /\ Activation
  /\ values' = [values EXCEPT !["command"] = [i \in DOMAIN @ |-> NaN]]
  /\ asked' = [key \in DOMAIN asked |-> NaN]
  /\ UNCHANGED <<file, k, devices, plugins, index, storage, handles,
                 input, output, events>>

OnDeactivate ==
  /\ Lifecycle("active", "inactive")
  /\ UNCHANGED <<file, k, devices, plugins, tables, handles, outside>>

\* state_index_ and command_index_ stay.
OnCleanup ==
  /\ Lifecycle("inactive", "unconfigured")
  /\ plugins' = <<>>
  /\ values' = [dir \in Directions |-> <<>>]
  /\ storage' = storage + 1
  /\ UNCHANGED <<file, k, devices, index, handles, outside>>

---------------------------------------------------------------------------
(* read() and write(), and what happens between them. *)

\* The order in which read() comes to the interfaces.
Before(p, q) == p[1] < q[1] \/ (p[1] = q[1] /\ p[2] < q[2])

\* The interfaces whose value goes to place s, and the last of them.
Holding(dir, s) == {iface \in Interfaces(dir) : index[dir][KeyOf(iface, dir)] = s}
LastHolding(dir, s) ==
  CHOOSE p \in Holding(dir, s) : \A q \in Holding(dir, s) : ~Before(p, q)

\* getStateValue(): 0.0 for a name it does not know.
GetStateValue(plugin, name) ==
  IF name \in DOMAIN plugin.state THEN plugin.state[name] ELSE 0

\* processInput(), then every interface's value to its place in the order
\* of the interfaces.
Read ==
  /\ phase \in {"inactive", "active"}
  /\ plugins' = [d \in DOMAIN plugins |-> [plugins[d] EXCEPT !.state = input[d]]]
  /\ values' = [values EXCEPT !["state"] = [s \in DOMAIN @ |->
       LET last == LastHolding("state", s)
       IN IF Holding("state", s) = {} THEN @[s]
          ELSE GetStateValue(plugins'[last[1]], devices[last[1]].inputs[last[2]])]]
  /\ UNCHANGED <<file, phase, k, devices, index, storage, handles, outside>>

\* setCommandValue() for what a controller has written, prepareOutput() for
\* all the fields of the device.
WriteWith(passing) ==
  /\ phase \in {"inactive", "active"}
  /\ plugins' = [d \in DOMAIN plugins |-> [plugins[d] EXCEPT !.command =
       [f \in DOMAIN @ |->
          LET v == values["command"][index["command"][devices[d].name \o f]]
          IN IF v \in passing THEN v ELSE @[f]]]]
  /\ output' = [d \in DOMAIN output |->
                  IF d \in DOMAIN plugins THEN plugins'[d].command ELSE output[d]]
  /\ UNCHANGED <<file, phase, k, devices, tables, handles, input, asked, events>>

\* Without std::isnan().
WriteWhatever == WriteWith(Numbers \cup {0, NaN})

Write == WriteWith(Numbers \cup {0})

\* Device d reports v in field f.
Report(d, f, v) ==
  /\ phase \in {"inactive", "active"} /\ events < MaxEvents
  /\ events' = events + 1
  /\ input' = [input EXCEPT ![d][f] = v]
  /\ UNCHANGED <<file, phase, k, devices, plugins, tables, handles, output, asked>>

\* A controller writes v through its handle.
SetCommand(key, v) ==
  /\ phase = "active" /\ events < MaxEvents
  /\ events' = events + 1
  /\ asked' = [asked EXCEPT ![key] = v]
  /\ values' = [values EXCEPT !["command"][handles["command"][key].slot] = v]
  /\ UNCHANGED <<file, phase, k, devices, plugins, index, storage, handles,
                 input, output>>

Next ==
  \/ LoadDevice \/ CreatePlugin \/ BuildTables \/ NextLoop \/ Export
  \/ OnConfigure \/ OnActivate \/ OnDeactivate \/ OnCleanup
  \/ Read \/ Write
  \/ \E d \in DOMAIN input : \E f \in DOMAIN input[d], v \in Numbers : Report(d, f, v)
  \/ \E key \in DOMAIN asked, v \in Numbers : SetCommand(key, v)

Spec == Init /\ [][Next]_vars

---------------------------------------------------------------------------
(* Properties. *)

\* "ros2_control owns the pointers" (ethernetip_system.hpp:77): from the
\* export to the cleanup, through any number of activations, every handle
\* points at an element of the vector it was taken from.
HandlesLive ==
  plugins # <<>> /\ phase \in Ready =>
    \A dir \in Directions : \A key \in DOMAIN handles[dir] :
      /\ handles[dir][key].storage = storage
      /\ handles[dir][key].slot \in DOMAIN values[dir]

\* on_init() succeeds only with every device of the file loaded, a plugin
\* for each at the same position, and every field an interface; if it fails,
\* at whichever device, nothing was exported.
InitAllOrNothing ==
  /\ plugins # <<>> /\ phase \in Ready =>
       /\ devices = file
       /\ Len(plugins) = Len(devices)
       /\ \A d \in DOMAIN plugins : \A dir \in Directions :
            DOMAIN plugins[d][dir] = Range(FieldsOf(file[d], dir))
       /\ \A dir \in Directions : DOMAIN handles[dir] = Keys(dir)
  /\ phase = "failed" => \A dir \in Directions : handles[dir] = <<>>

\* Only one field bears this key.  Two devices of one name, or names with
\* slashes, may share one.
Unambiguous(dir, key) ==
  \A p, q \in Interfaces(dir) : KeyOf(p, dir) = key /\ KeyOf(q, dir) = key => p = q

\* After read() every handle shows what the device it is named after
\* reports in the field it is named after, whatever other devices have
\* fields of that name and whatever was read before.
ReadDelivers ==
  [][Read => \A d \in DOMAIN plugins : \A f \in DOMAIN input[d] :
       LET key == devices[d].name \o f
       IN Unambiguous("state", key) =>
            values'["state"][handles["state"][key].slot] = input[d][f]]_vars

\* After write() every output field holds the last command given through
\* its own handle in this activation; a field without one keeps its value.
CommandsGoHome ==
  [][Write => \A d \in DOMAIN plugins : \A f \in DOMAIN output[d] :
       LET key == devices[d].name \o f
       IN Unambiguous("command", key) =>
            output'[d][f] = IF asked[key] = NaN THEN plugins[d].command[f]
                            ELSE asked[key]]_vars

---------------------------------------------------------------------------
(* An inductive invariant: the proofs rest on it. *)

Nums == Numbers \cup {0}
PluginOf(entry) == [state : [Range(entry.inputs) -> Nums],
                    command : [Range(entry.outputs) -> Nums]]

\* Nothing is tabulated; the tables are complete and in use.
Loading == phase \in {"load", "plugins", "failed"}
InUse == plugins # <<>> /\ phase \in Ready

\* Devices and plugins mirror the file, position by position.
DevicesMirrorFile ==
  /\ devices \in Seq(Range(file)) /\ Len(devices) <= Len(file)
  /\ phase = "load" => /\ plugins = <<>> /\ Len(devices) = k - 1
                       /\ \A i \in DOMAIN devices : devices[i] = file[i]
  /\ phase \in Ready \cup {"plugins", "tables"} => devices = file
  /\ Len(plugins) <= Len(devices)
  /\ phase = "plugins" => Len(plugins) = k - 1
  /\ phase = "tables" \/ InUse => Len(plugins) = Len(devices)
  /\ phase \in {"inactive", "active"} => plugins # <<>>

FieldsMirrorDevices ==
  /\ plugins \in Seq(UNION {PluginOf(entry) : entry \in Range(file)})
  /\ \A d \in DOMAIN plugins : plugins[d] \in PluginOf(devices[d])
  /\ input \in Seq(UNION {[Range(entry.inputs) -> Nums] : entry \in Range(file)})
  /\ output \in Seq(UNION {[Range(entry.outputs) -> Nums] : entry \in Range(file)})
  /\ Len(input) = Len(devices) /\ Len(output) = Len(devices)
  /\ \A d \in DOMAIN devices :
       /\ input[d] \in [Range(devices[d].inputs) -> Nums]
       /\ output[d] \in [Range(devices[d].outputs) -> Nums]

\* Every key of a tabulated device has a place, and no two keys share one.
Tabulated == IF phase = "tables" THEN 1 .. k - 1 ELSE DOMAIN plugins
TableIsSound(dir) ==
  /\ \A key \in DOMAIN index[dir] : index[dir][key] \in DOMAIN values[dir]
  /\ \A key, other \in DOMAIN index[dir] :
       index[dir][key] = index[dir][other] => key = other
  /\ \A d \in Tabulated : Range(Exported(d, dir)) \subseteq DOMAIN index[dir]

TablesSound ==
  /\ values \in [Directions -> Seq(Nums \cup {NaN})]
  /\ Loading => index = [dir \in Directions |-> <<>>] /\ values = index
  /\ phase = "tables" \/ InUse => \A dir \in Directions : TableIsSound(dir)

HandlesFollowIndex ==
  /\ Loading \/ phase = "tables" => handles = [dir \in Directions |-> <<>>]
  /\ InUse => \A dir \in Directions :
       handles[dir] = [key \in Keys(dir) |-> [slot |-> index[dir][key],
                                              storage |-> storage]]

\* No command has been given since on_init(): all values are still 0.0.
Untouched ==
  /\ \A s \in DOMAIN values["command"] : values["command"][s] = 0
  /\ \A d \in DOMAIN plugins : \A f \in DOMAIN plugins[d].command :
       plugins[d].command[f] = 0

CommandsRemembered ==
  /\ phase \in {"plugins", "tables"} => Untouched
  /\ InUse =>
       /\ asked \in [Keys("command") -> Numbers \cup {NaN}]
       /\ \/ \A key \in Keys("command") :
               values["command"][index["command"][key]] = asked[key]
          \/ /\ Untouched /\ phase # "active"
             /\ \A key \in Keys("command") : asked[key] = NaN

TablesInv ==
  /\ file \in Files
  /\ phase \in Ready \cup {"load", "plugins", "tables", "failed"}
  /\ k \in 1 .. Len(file) + 1
  /\ events \in 0 .. MaxEvents
  /\ DevicesMirrorFile
  /\ FieldsMirrorDevices
  /\ TablesSound
  /\ HandlesFollowIndex
  /\ CommandsRemembered

=============================================================================
