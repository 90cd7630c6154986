# A formal model of ros2_ethernetip

ros2_ethernetip drives EtherNet/IP devices from ros2_control. This directory
holds TLA+ models of its first-party C++ (about 1 700 lines in
`ethernetip_master`, `ethernetip_hardware_interface` and
`ethernetip_generic_io_driver`), the TLC runs that check them on small
instances, and TLAPS proofs for every size. EIPScanner, ros2_control,
controllers and devices are external: they are modelled from how the code
uses them.

## 1. Inventory

| Part | State it keeps | Operations | What makes it correct |
|---|---|---|---|
| `EthernetIPMaster` | `devices_`, `cyclic_thread_`, `running_` (atomic) | `start`, `stop`, `cyclicLoop`, `read`, `write`, `loadConfig`, `addDevice` | the control thread and the cyclic thread never use one ConnectionManager together; the thread is never overwritten; `stop` leaves no thread and no device connected; every device is served |
| `DeviceConnection` | `state_`, EIPScanner handles, two buffers with a mutex each, a watchdog | `configure`, `connect`, `disconnect`, `tick`, buffer access | state and connection agree; each buffer copy is one packet |
| `Watchdog` | `last_feed_`, `expired_` (plain members) | `configure`, `feed`, `check`, `reset` | expired means silent; a silence is called back once; silence is always found |
| `AssemblyMap` | field table, buffer size | typed getters and setters, `getValue`, `setValue` | what is written is read back; other fields keep their value |
| `ExplicitMessaging` | session, `connected_` | `openSession`, `closeSession`, `readAttribute`, `writeAttribute`, `readIdentity` | no request without a session, none left open; what is read is what was written |
| configuration loading | the devices added so far | `loadConfig`, `parseFields`, `addDevice` | a failure exports nothing |
| `EthernetIPSystem` | plugins, command and state values, index tables, the master | `on_init` ... `on_error`, `export_*`, `read`, `write` | hardware that is not active has no thread and no device connected; commands reach their device, what comes back is what the device applied, and none is sent that nobody gave |
| `GenericIODevice` | command and state values by name | `configure`, `processInput`, `prepareOutput`, exports, value access | the last command of each field is in the buffer |
| plugin interface, description, demos, launch files, OpENer build tree | none | none | configuration and test fixtures, no behaviour of their own |

How they interact: ros2_control calls the lifecycle callbacks and, in its
loop, `read()` and `write()` of `EthernetIPSystem`. `on_activate` calls
`EthernetIPMaster::start`, which connects the devices in order and spawns the
cyclic thread; `on_deactivate`, `on_error` and the destructor call `stop`,
which joins the thread and disconnects. The cyclic thread ticks the devices in
order; a tick hands the output buffer to EIPScanner and runs its
`handleConnections`, whose receive callback fills the input buffer and feeds
the watchdog. `read()` checks the watchdogs and copies input buffers to
plugins and state values; `write()` goes the other way.

What is hard: two threads share `state_`, the EIPScanner objects and the
watchdog with no lock at all, and the buffers with one each; `start` can fail
half way; a ForwardOpen can be rejected without an exception and a connection
can vanish without notice; datagrams are lost, late or out of order, and nobody
looks at their sequence numbers; values outlive the activation they were given
in; the loop ticks devices one after the other with a wait in each. `PROJECT.json`
lists each such hazard at its line with the properties that would catch it.

## 2. Modules

| Module | Models | State and actions |
|---|---|---|
| `DeviceConnection` | `connect`, `disconnect`, `tick` of one device as operators | `state[d]` is `state_`; `io[d]` says whether the IO handle's `lock()` yields a connection. `ForwardOpenReturns` leaves `io` open: a rejected request gives an empty handle. `Disconnect` swallows exceptions, after which the IO connection may remain; `HandleConnections` may drop it. |
| `EthernetIPMaster` | `start`, `stop`, `cyclicLoop`, two threads | `ctl` is the control thread's place (`starting`, `opening` inside a ForwardOpen, `spawning`, `joining`, `closing`), `k` its loop counter, `cyclic` and `cur` the same of the cyclic thread, `started` what `start` returned. Every call that blocks or takes time has a beginning and an end. |
| `ScannerProtocol` | what the master promises, without threads: at rest, links open and close one at a time; cycling, all links are open, none changes, one device exchanges at a time | refined by `EthernetIPMaster` (`Abs == INSTANCE ScannerProtocol WITH ...`) |
| `Watchdog` | `feed`, `check`, `reset` | ages in milliseconds in place of a clock; `feed` stores its two members in separate steps in either order, because they are plain members read by another thread; `check` has a step for its early return, its comparison and its store. `Concurrent` chooses between calls that overlap and calls that take turns. |
| `DeviceWatchdog` | the watchdog in its device | EXTENDS `Watchdog` and `DeviceConnection`: `Receive` feeds it only through a live IO connection, `HearNothing` may drop that, `Open` and `Close` leave the watchdog alone, as `connect` and `disconnect` do |
| `DeviceBuffers` | every access to `input_buffer_` and `output_buffer_`: `onReceive`'s copy, `tick`'s, `getInputBuffer`, `readInput`, `setOutputBuffer`, `writeOutput` | an access takes the mutex (`BeginRead`, `BeginWrite`), copies its bytes one by one in any order (`CopyIn`, `CopyOut`) and lets go. Bytes are known by the number of the write they come from. A packet may be shorter or longer than the buffer. |
| `AtomicBuffers` | what those accesses promise: each happens at one moment | refined by `DeviceBuffers` |
| `EthernetIPSystem` | lifecycle, `read`, `write`, the plugin, and the path of a command | EXTENDS the master and gives its steps the data they move: `cmd` -> `pcmd` -> `out` -> `sent` -> `target` (the device) -> `inp` -> `stateVal`. `toDevice` and `toMaster` are the older data in datagrams that may still arrive: `Exchange` delivers any of those, the newest, or nothing, each way, because the receive listener drops the sequence number; the device applies, and the input buffer takes, whatever arrives. `op` is the callback that runs; `read` and `write` go device by device, with the cyclic thread between. |
| `InterfaceTables` | `loadConfig`, `addDevice`, `on_init`, the plugin's `configure` and exports, the index tables, `read` and `write` through them | `phase` and `k` are the three loops of `on_init` and then the lifecycle, with activations that fail (the commands are NaN all the same); `index`, `values` and `handles` the tables, the vectors and what ros2_control holds of them; `storage` counts how often the vectors gave up their memory. A name is the sequence of its parts between slashes. |
| `ExplicitMessaging` | `openSession`, `closeSession`, `readAttribute`, `writeAttribute`, `readIdentity` | `impl` is `impl_` and the session in it (`Empty`: there, but without session), `call`, `arg`, `answer` and `ret` the call that runs; `open` and `value` are the target's sessions and attribute. `Serve` and `Drop` are the target's own steps. |
| `AssemblyMap` | the field table, `setValue`, `getValue`, `writeOutput`, and the packing of a whole output by `write` and `prepareOutput` | `buf` maps bit addresses to bits, so that bools, integers and floats of every width are the same thing: bit i of a value is bit i after the field's offset. Numbers are counted in halves, which tells truncation from rounding. `record` is the reference: what each field should hold, by arithmetic. `target` is the machine compiled for, which decides some conversions out of range. |
| `MCAssemblyMap`, `MCInterfaceTables`, `MCExplicitMessaging` | a layout, YAML files and attribute contents for TLC | |
| `MCEthernetIPMaster` | what the header says of `start`, for TLC | |
| `EthernetIPMaster_proofs`, `EthernetIPSystem_proofs`, `Watchdog_proofs`, `DeviceBuffers_proofs`, `ExplicitMessaging_proofs`, `AssemblyMap_proofs`, `InterfaceTables_proofs` | theorems | |
| `GreatestElement` | lemmas about finite sets of integers, for the last two: a greatest element, induction over an interval | |

How they compose: `EthernetIPSystem` runs on top of `EthernetIPMaster`, which
runs on top of `DeviceConnection`; `DeviceWatchdog` joins the last with
`Watchdog`. The others look at one aspect each and say what they leave to a
neighbour: `EthernetIPSystem` takes a buffer access as one step, which
`DeviceBuffers` shows it is, and pairs devices and plugins by position, which
`InterfaceTables` derives from the YAML file; `DeviceBuffers` keeps the buffer
sizes, whose change `EthernetIPSystem` has; `InterfaceTables` stops at the
fields of an assembly, whose bytes are `AssemblyMap`'s.

The operators with names like `JoinWithoutWaiting`, each placed before the
definition it is a wrong version of, are not used by the models: they are
plausible mistakes, listed as mutants in `PROJECT.json`, and each property is
violated when one of them takes the right definition's place.

## 3. Runs

| Run | Bounds | Shows |
|---|---|---|
| `master` | N = 3 | all safety, action and liveness properties of the master, its inductive invariant and the refinement. Three devices give a first, a middle and a last one to every loop, so a failure or a close can come before, at and after each. Calls to `start` and `stop` are unbounded. |
| `watchdog_serial` | timeout 5 ms | calls that take turns: the flag means silence, one callback per silence |
| `device_watchdog` | one device, timeout 8 ms | overlapping calls in a device that is opened, dropped, closed and reopened without bound: at most two callbacks after a packet, silence is detected, a wrong flag heals, and a connection that is gone for good is reported for good although `state_` still says connected. Ages saturate one above the timeout, where `check` no longer tells them apart, so the timeout only sets how many steps fit in an interval. Devices do not share watchdogs. |
| `device_buffers` | 3 bytes, two fields, 3 writes | every access is atomic whatever the two threads overlap; what short packets leave behind is older in front nowhere. Three bytes allow a field of two that can be torn and one beside it; three writes put two generations under a copy that runs. |
| `lifecycle` | two devices with an output size, one command to either | every order of callbacks, reads and writes, with datagrams lost, late, repeated and out of order: what each lifecycle state guarantees, whom a command reaches, that no stage is ahead of the one before it and every state is something the device applied, no way back after a cleanup or a failed ForwardOpen, and a command comes back as a state in the end. The command and the 0.0 before it are the two values a late datagram needs to go back to the older one; two devices let a command end up at the wrong one. Two commands at two devices are out of TLC's reach in reasonable time; the theorems are for any number. |
| `interface_tables` | 8 YAML files of up to three devices, 3 reports and commands | all fields exported or none, handles valid through any number of activations, values and commands at home. The files have devices that share field names in other positions, one without inputs, two of one name, keys that collide through a slash, and entries that fail while being read or loaded, first, middle or last. Callbacks are unbounded; three events let a value and a command change between them. |
| `explicit_messaging` | 3 openings, 5 contents | no request without a session, no session left behind, reads explained by the writes before, names inside the data. Three openings give one to fail, one to be dropped and one more; requests are unbounded. The contents are the short strings that matter: none, the empty one, one cut off, the longest cut off, one followed by more. |
| `assembly_map` | 14 fields, two calls | the buffer behaves as a record: each field reads as the last value written to it, whatever was written to the others; bits of no field stay 0; every field lies in the computed buffer. A setter either keeps its neighbours or not on its first use after them, so two calls suffice. The layout has all types, bools at bits 0, 7, 9 and 34 of a byte, one alone in the last byte, a spare byte and an unknown type; the values are the ends of each range, both signs, fractions, and numbers out of range (for 8 and 16 bits; TLC's own integers have 32). |

Two runs have no deadlock check: in `interface_tables` a failed `on_init` and a
cleaned-up hardware have no next callback, and `assembly_map` ends after its
bounded number of calls.

Four runs end in a violation, each of one sentence of the repository:

- `open_every_device`: "Open TCP sessions and ForwardOpen for every device"
  (`ethernetip_master.hpp:40`). A rejected ForwardOpen gives an empty handle,
  `connect()` returns true and `start()` goes on.
- `watchdog_race`: "Return whether the device is currently timed-out"
  (`watchdog.hpp:44`). A packet that arrives between `check()`'s comparison and
  its store is forgotten.
- `stale_command`: "no command sent until controllers write"
  (`ethernetip_system.cpp:139`). The plugin and the output buffer keep the last
  command of the previous activation, and the cyclic thread sends it.
- `unsized_output`: "auto-computed from mappings if 0" (`device_config.hpp:36`).
  `write()` uses the configured size, 0, and replaces the sized buffer by an
  empty one. The README's example configuration is of this kind.

The device of `EthernetIPSystem` mirrors its outputs to its inputs, as the
OpENer sample of the integration tests does; it ignores data of a wrong size
and keeps its outputs over a reconnection. It applies what arrives, however
late, as the master does: whether EIPScanner or a device drops old datagrams by
their sequence numbers is not for this repository to say, and nothing under
`src/` does. So a device, and a state interface, may go back to an older
command, and no property says otherwise; what holds all the same is
`PipelineCausal` and `RoundTrip`.

`InactiveMeansStopped` is about what the master knows: no thread, and no device
in `kConnected`. `disconnect()` only logs a ForwardClose that failed and keeps
`impl_->session`, so the target may think otherwise; `io` stays TRUE then.

A bool's `bit_offset` is any number. Up to 7 it is a bit of the byte, from 8 to
31 none. From 32 on the shifts of `setBool` and `getBool` are undefined in C++;
`AssemblyMap` models what the machines in `Targets` (x86-64, AArch64) do, which
is to shift modulo 32, so the bool at bit 34 is kept in bit 2.

## 4. Fairness

- Master: weak fairness of the steps inside a call and of the cyclic thread.
  An iteration waits in `select()` for a millisecond and in `sleep_for`; TCP
  requests have timeouts. Nothing makes anyone call `start` or `stop`.
- Watchdog: time passes, a `feed()` that began ends, and `read()` goes on
  calling `check()`. Packets may stop. `DeviceWatchdog` assumes the same and
  nothing of the connection: it need not be opened, closed, kept or dropped.
- System: the master's; a callback or loop that began ends; ros2_control calls
  `read` and `write` again and again however often other calls come first
  (strong fairness, since `op` is "none" only between calls); again and again
  there is a tick in which the newest datagram gets through each way and no
  older one is under way any more (`ExchangeInTime`, strong fairness: a network
  that loses and delays some, not all). No command and no lifecycle change has
  to come.

The other modules state safety only, so their specifications have none.

## 5. Proofs

`EthernetIPMaster_proofs` proves for every N in Nat \ {0}:

- `TypeCorrect`, `Invariance`: `TypeOK` and `IInv`. The safety properties are
  not inductive: that `stop` finds no thread in a tick, or that `start` never
  overwrites one, follows only from knowing that a joinable thread implies all
  devices connected (so a second `start` fails at the first device), and that
  each loop has connected or closed the devices before its counter. `IInv` says
  that, phase by phase (`ThreadInv`, `StartInv`, `StopInv`).
- `ManagerIsExclusive`, `ThreadIsNeverOverwritten`, `StopDisconnectsAll`,
  `FailureIsFinal`, from `IInv`.
- `Refinement`: the master implements `ScannerProtocol`; one lemma for opening,
  one for closing, one for the other steps.
- `StopAdvances`, `EveryTurnComes`: the safe halves of `StopCompletes` and
  `EveryDeviceServed` (see below).

The assumption N > 0 is needed: with no devices a second `start()` would
assign to a joinable thread. `EthernetIPSystem::on_configure` refuses to go on
without devices; a program that uses the master alone has no such guard.

`EthernetIPSystem_proofs` proves for every N, every set of devices with an
output size and any number of commands, on top of the above (a step of the
system is a step of the master or invisible to it, so `IInv` holds here too):

- `SysTypeCorrect`, and `SysInvariance`, the inductive invariant `SysInv`.
- `InactiveIsStopped`, `ActiveIsCycling`, `NoWayBackEver`, from `LifeInv`: which
  phases of `start` and `stop` each callback can be in, that a callback which
  stops finds the thread gone and no device connected when the control thread is
  idle again, and that an activation returns success only with the thread running.
- `CommandsStayWithTheirDevice`, `StatesHaveCauses`, from `PathInv`, whatever
  the network does: every stage, and every datagram under way, holds a command
  of its own device; what is under way to the device was in the output buffer,
  and what is under way from it has been applied; the output buffer is never
  behind either, which is what makes the order survive a reconnection.
- `OutputsNeverGoBack`: neither plugin nor output buffer ever goes back to an
  older command. (`cmd` itself goes back to NaN at an activation, and a new IO
  connection starts without data.) Device and inputs may go back.
- `NothingOvertakes`, with a hypothesis of its own: if neither end took data
  older than what it has (`OlderIsDropped`, what sequence numbers are for and
  the code does not do), every stage from the state interface back to the
  command interface would hold an older or the same command
  (`PipelineOrdered`), and no state would go back. The run's reordered
  datagrams show that the hypothesis is needed.
- `SystemKeepsProtocol`, `SystemKeepsMaster`: the scanner inside the hardware
  still implements `ScannerProtocol` and keeps the master's safety properties,
  whatever callbacks are made in whatever order.
- `GivenSizesSuffice`: with every output size in the YAML file no output buffer
  is ever empty. It is the other side of the run `unsized_output`: the promise
  of `device_config.hpp:36` can only be broken where a size is left out.
- `StaleOnlyUntilWritten` is in the same way the other side of `stale_command`:
  a command of an earlier activation is sent only until `write()` has passed on
  one of this activation, and no reconnection brings it back. It rests on the
  buffer of a sized device always holding what the plugin holds (`SizedAgree`).

`DeviceBuffers_proofs` proves for every size, all fields and any number of
writes that `DeviceBuffers` implements `AtomicBuffers` (`Refinement`). A write
counts from the moment it has the mutex, so `Value` shows it before its bytes
are stored; a read counts when it returns. `BuffersInv` carries that: the
mutexes tell who accesses which buffer (`LocksTellAccess`), and a copy that
runs agrees with the buffer (`CopiesCurrent`). `HeadsAreNewest` adds that the
input buffer is never older in front than behind.

`ExplicitMessaging_proofs` proves for all contents and any number of sessions:
types, `NoRequestWithoutSession`, `NoSessionLeftBehind`, `ReadsAreExplained`
and `NameStaysInData`. The invariant says that `connected_` vouches for a
session except while one is being opened (`FlagVouches`), that none is open
then (`OpenInv`), and that the target's attribute is one the caller expects or
the one being written (`CallExplained`).

`Watchdog_proofs` proves for every timeout: the types; with overlapping calls
at most two callbacks after a packet (`FiresAtMostTwice`, from a budget:
callbacks so far, plus one if the flag is down, plus one if a feed has yet to
lower it, are at most two); with calls in turns `SerialExpiredIsSilent` and
`SerialFiresOnce`. It goes on to `DeviceWatchdog`, which implements `Watchdog`
(`DeviceImplementsWatchdog`: a device's feeds and checks are a watchdog's, and
opening, closing and dropping are invisible to it) and so inherits the bound
(`DeviceFiresAtMostTwice`). `ReportStays`: the report of a device without a
connection is not taken back; it needs `FeedHasConnection`, that a feed() in
progress still has the connection its packet came through. `SilenceComesOut`
and `WrongFlagsHeal` are the safe halves of `SilenceDetected` and `FeedsHeal`.

`InterfaceTables_proofs` proves for every set of YAML files, every set of
numbers and any number of events all that the run `interface_tables` checks:
types, `HandlesStayLive`, `InitHandsOutAllOrNothing`, `ReadAlwaysDelivers` and
`CommandsAlwaysGoHome`. The invariant `TablesInv` says that devices, plugins
and assemblies mirror the file position by position (`DevicesMirrorFile`,
`FieldsMirrorDevices`), that each key of a tabulated device has a place in the
vectors and no two keys share one (`TableIsSound`; `EnteredIsSound` is the loop
over a plugin's interfaces), and that a place holds the last command for its
key, or 0.0 while nothing has been commanded since `on_init()`
(`CommandsRemembered`). That no two keys share a place is what makes one
controller's command, and one device's report, unable to end up with another's
field of the same name. The entries of a file are assumed to be records of
sequences (`FilesAssumption`), which is how `DeviceConfig` declares them.

`AssemblyMap_proofs` proves for every layout, every set of commands and any
number of calls: `TypeCorrect` (the buffer keeps its size), `FieldsLieInBuffer`
(the computed size has room for every bit a setter stores; it rests on the fact
that a finite set of integers has a greatest element, `GreatestExists` of
`GreatestElement`), `SpareBitsAreSpared`, and `Independence`: `getValue` does not see
a setter of a field it shares no bit with, provided the field read lies in the
buffer. Where a size is configured, the theorems rest on `SizeAssumption`, that
it holds the fields.

`BufferIsRecord` is the whole of it: if no two fields share a bit
(`DisjointFields`, which nothing in the code sees to and the run's layout
meets), each field reads as what was last written to it, exactly if its type
can hold it and wrapped as `Held` says otherwise. It joins `Independence` with
`RoundTrip`, that the getter gives what the setter stored, for bools at any
`bit_offset` (modulo 32, see section 3), integers of 8, 16 and 32 bits of either
sign, floats and doubles, on both machines. The steps of `RoundTrip` are these:

- The getters are recursions over bits, `IntValue` and `FloatValue`. A recursive
  function is a CHOSEn one; a solution is exhibited or built, and induction over
  the interval of its arguments, in the form of statements about sets (`DownTo`,
  `UpTo` of `GreatestElement`, from the greatest counterexample), says what it is.
- `BitIsDigit`, `ValueOfBits`: the bits of a number, taken together with the
  highest one negative if signed, give the number modulo 2^width. The powers of
  two are facts by enumeration (`PowersOfTwo`), since no width here exceeds 32.
- `LeadingPlace`, `FloatHeld`: the exponent a float stores finds the highest bit
  of its fraction again, and the fraction holds all bits below that.
- `Convertible`, part of `CommandsAssumption`, says for which doubles this is
  what the hardware does: an integer conversion is given numbers of 32 bits
  (beyond, the code has undefined behaviour for every type), a float numbers of
  24 bits (beyond, it rounds), a double numbers below 2^32 halves (the bound of
  `Log2`).

What the liveness properties say needs fairness and ENABLED, which the prover
does not do. Their safe halves are proved instead: for most a distance, a
natural number with a bound, that no step increases and that the steps the
fairness assumption forces decrease. TLC checks the rest, that those steps come.

| Liveness property | Safe half | Distance |
|---|---|---|
| `StopCompletes` | `StopAdvances` | steps of the loop to its end, then the devices left to close; every step of either thread decreases it |
| `EveryDeviceServed` | `EveryTurnComes` | steps of the loop to the device's turn, at most 2N + 1; only the loop's own steps change it |
| `SilenceDetected` | `SilenceComesOut` | milliseconds of the timeout left, then steps of a check, at most Timeout + 4 |
| `FeedsHeal` | `WrongFlagsHeal` | a late callback still to come, then the feed that corrects it, at most 2 |
| `LostLinkReported` | `ReportStays`, `SilenceComesOut` | as for `SilenceDetected`: without a connection no feed begins |
| `RoundTrip` of `EthernetIPSystem` | `OutputsNeverGoBack` | none as a number, and only the way out: what plugin and output buffer hold they never take back, so a command waits for one exchange with nothing older under way, and then one `read` |

Only model-checked: the liveness properties themselves, and the four runs that
end in a violation. Every invariant and action property of a passing run is a
theorem.

## 6. Not modelled, and the plan

Left out, with the reason:

- The parameters of the ForwardOpen (`device_connection.cpp`, `connect`): RPIs,
  connection types and sizes packed into bit fields that EIPScanner interprets;
  no text of the repository says what the bits mean.
- An exception out of `tick()`: `cyclicLoop()` catches none, so one that
  `handleConnections` throws would end the process. What it throws, if anything,
  is EIPScanner's.
- The TCP session in `impl_`, which `disconnect()` keeps and the next `connect()`
  replaces; `io` is the IO connection only.
- The `pluginlib` loader in `on_init()`, a local variable that is gone while the
  plugins it created are in use: what that means is pluginlib's.
- The time of an iteration. With N devices and a wait in each tick, the loop
  may be slower than the RPI asks for; how long `handleConnections` waits is
  EIPScanner's, whose source is not in the repository. The units of an RPI in
  the YAML file ("500us" is read as 500 ms) belong here, too.
- Whether EIPScanner pairs a late answer with the right request
  (`ExplicitMessaging` assumes it).
- `getStateValue()` with a qualified name: `ethernetip_device.hpp:63` allows it
  and `GenericIODevice` answers 0.0; no caller in the repository uses one.
- `isConnected()` after the target has dropped the session: it stays true until
  the next open or close; no caller asks.
- What `on_shutdown` should do: it is not overridden, and `OnShutdown` says so.
- YAML syntax, floating-point rounding, logging, launch files, the URDF, the
  integration tests and generated build files.

What could come next: the timing of the loop, should EIPScanner's source be at
hand.
