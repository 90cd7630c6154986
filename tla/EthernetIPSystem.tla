-------------------------- MODULE EthernetIPSystem --------------------------
(***************************************************************************)
(* ethernetip_hardware_interface::EthernetIPSystem: the lifecycle callbacks *)
(* and the read() and write() that ros2_control makes on the scanner, and  *)
(* the way of a command through it: command interface, plugin, output      *)
(* buffer, IO connection, device, and back to the state interface.         *)
(*                                                                         *)
(* External here are ros2_control, which calls one callback at a time and  *)
(* turns a callback that failed into on_error(); the controllers, which    *)
(* write command interfaces between calls while the hardware is active;    *)
(* and the devices, which mirror their outputs to their inputs, as the     *)
(* OpENer sample the integration tests run against does.                   *)
(*                                                                         *)
(* Commands are numbered in the order they are given, over all devices;    *)
(* 0 is the value 0.0, which no controller gives.  Every device has one    *)
(* output field and one input field.                                       *)
(***************************************************************************)
EXTENDS EthernetIPMaster, Sequences

CONSTANTS
  Sized,     \* the devices whose output_size is given in the YAML file
  MaxCmds    \* bound on the commands the controllers give

ASSUME SizedAssumption == Sized \subseteq Devices
ASSUME MaxCmdsAssumption == MaxCmds \in Nat

VARIABLES
  lifecycle,   \* the state ros2_control keeps for this hardware
  op,          \* the callback that runs, if any
  j,           \* the device the loop of read() or write() is at
  plugins,     \* is device_plugins_ filled?
  cmd,         \* cmd[d]: d's element of command_values_
  pcmd,        \* pcmd[d]: the value in the plugin's command_values_
  out,         \* out[d]: output_buffer_
  sent,        \* sent[d]: the data its IO connection sends
  toDevice,    \* toDevice[d]: older data in datagrams that may yet arrive
  target,      \* target[d]: what device d has applied to its outputs
  toMaster,    \* toMaster[d]: the same for what device d sends
  inp,         \* inp[d]: input_buffer_
  stateVal,    \* stateVal[d]: d's element of state_values_
  applied,     \* history: all that device d has applied
  issued,      \* history: issued[c] is the device command c was given to
  floor        \* history: the last command given before this activation

lifeVars == <<lifecycle, op, j, plugins>>
pathVars == <<cmd, pcmd, out, sent, target, inp, stateVal>>
netVars  == <<toDevice, toMaster, applied>>
dataVars == <<pathVars, netVars, issued, floor>>
sysVars  == <<vars, lifeVars, dataVars>>

NaN    == -1     \* no command since the activation
NoData == -1     \* an empty vector
Values == 0 .. MaxCmds

SysTypeOK ==
  /\ TypeOK
  /\ lifecycle \in {"unconfigured", "inactive", "active", "finalized", "destroyed"}
  /\ op \in {"none", "activate", "deactivate", "error", "read", "write", "destroy"}
  /\ j \in Devices
  /\ plugins \in BOOLEAN
  /\ cmd \in [Devices -> Values \union {NaN}]
  /\ out \in [Devices -> Values \union {NoData}]
  /\ sent \in [Devices -> Values \union {NoData}]
  /\ \A f \in {pcmd, target, inp, stateVal} : f \in [Devices -> Values]
  /\ \A f \in {toDevice, toMaster, applied} : f \in [Devices -> SUBSET Values]
  /\ issued \in Seq(Devices) /\ Len(issued) =< MaxCmds
  /\ floor \in Values

\* As a successful on_init() leaves it.
SysInit ==
  /\ Init
  /\ lifecycle = "unconfigured"
  /\ op = "none"
  /\ j = 1
  /\ plugins = TRUE
  /\ cmd = [d \in Devices |-> 0]
  /\ pcmd = [d \in Devices |-> 0]
  /\ out = [d \in Devices |-> 0]
  /\ sent = [d \in Devices |-> NoData]
  /\ toDevice = [d \in Devices |-> {}]
  /\ target = [d \in Devices |-> 0]
  /\ toMaster = [d \in Devices |-> {}]
  /\ inp = [d \in Devices |-> 0]
  /\ stateVal = [d \in Devices |-> 0]
  /\ applied = [d \in Devices |-> {0}]
  /\ issued = <<>>
  /\ floor = 0

-----------------------------------------------------------------------------
(***************************************************************************)
(* The lifecycle callbacks.  Each is called when no other runs; those that *)
(* call start() or stop() end when the master's control thread is idle.    *)
(***************************************************************************)
Calls(callback) == op = "none" /\ op' = callback

\* An on_error() that leaves the master as it is.
OnErrorWithoutStop ==
  /\ op' = "error"
  /\ UNCHANGED <<vars, lifecycle, j, plugins, dataVars>>

\* ros2_control's answer to CallbackReturn::ERROR: on_error(), which stops
\* the master and succeeds, and the hardware is unconfigured.
OnError ==
  /\ op' = "error"
  /\ CallStop
  /\ UNCHANGED <<lifecycle, j, plugins, dataVars>>

OnConfigure ==
  /\ lifecycle = "unconfigured" /\ op = "none"
  /\ IF plugins
       THEN lifecycle' = "inactive" /\ UNCHANGED <<vars, op, j, plugins, dataVars>>
       ELSE OnError

OnActivate ==
  /\ lifecycle = "inactive" /\ Calls("activate")
  /\ cmd' = [d \in Devices |-> NaN]
  /\ CallStart
  /\ floor' = Len(issued)
  /\ UNCHANGED <<lifecycle, j, plugins, pcmd, out, sent, target, inp, stateVal, netVars, issued>>

\* An on_activate() that does not look at what start() returned.
ActivateWhateverStarted ==
  /\ op = "activate" /\ ctl = "idle"
  /\ lifecycle' = "active" /\ op' = "none"
  /\ UNCHANGED <<vars, j, plugins, dataVars>>

ActivateReturns ==
  /\ op = "activate" /\ ctl = "idle"
  /\ IF started
       THEN /\ lifecycle' = "active" /\ op' = "none"
            /\ UNCHANGED <<vars, j, plugins, dataVars>>
       ELSE OnError

OnDeactivate ==
  /\ lifecycle = "active" /\ Calls("deactivate")
  /\ CallStop
  /\ UNCHANGED <<lifecycle, j, plugins, dataVars>>

\* A callback that calls stop() has returned.
StopReturns(callback, next) ==
  /\ op = callback /\ ctl = "idle"
  /\ lifecycle' = next /\ op' = "none"
  /\ UNCHANGED <<vars, j, plugins, dataVars>>

\* A cleanup that forgets the plugins but not the interfaces built on them.
OnCleanup ==
  /\ lifecycle = "inactive" /\ op = "none"
  /\ lifecycle' = "unconfigured"
  /\ plugins' = FALSE
  /\ UNCHANGED <<vars, op, j, dataVars>>

\* on_shutdown() is not overridden: nothing happens to the scanner.
OnShutdown ==
  /\ lifecycle \in {"unconfigured", "inactive", "active"} /\ op = "none"
  /\ lifecycle' = "finalized"
  /\ UNCHANGED <<vars, op, j, plugins, dataVars>>

\* The destructor, and in it the master's, which stops it.
Destroy ==
  /\ lifecycle # "destroyed" /\ Calls("destroy")
  /\ CallStop
  /\ UNCHANGED <<lifecycle, j, plugins, dataVars>>

Lifecycle ==
  \/ OnConfigure
  \/ OnActivate
  \/ OnDeactivate
  \/ OnCleanup
  \/ OnShutdown
  \/ Destroy

CallbackReturns ==
  \/ ActivateReturns
  \/ StopReturns("deactivate", "inactive")
  \/ StopReturns("error", "unconfigured")
  \/ StopReturns("destroy", "destroyed")

-----------------------------------------------------------------------------
(***************************************************************************)
(* read() and write(), device by device: the cyclic thread runs between    *)
(* the devices.  ros2_control makes them while inactive, too.              *)
(***************************************************************************)
BeginLoop(callback) ==
  /\ lifecycle \in {"inactive", "active"} /\ Calls(callback)
  /\ j' = 1
  /\ UNCHANGED <<vars, lifecycle, plugins, dataVars>>

\* A loop that runs one past the end of device_plugins_.
EndIterationLate ==
  /\ IF j =< N THEN j' = j + 1 /\ UNCHANGED op
               ELSE op' = "none" /\ UNCHANGED j
  /\ UNCHANGED <<vars, lifecycle, plugins>>

EndIteration ==
  /\ IF j < N THEN j' = j + 1 /\ UNCHANGED op
              ELSE op' = "none" /\ UNCHANGED j
  /\ UNCHANGED <<vars, lifecycle, plugins>>

\* getInputBuffer(), processInput() and the copy to state_values_.
ReadDevice ==
  /\ op = "read"
  /\ stateVal' = [stateVal EXCEPT ![j] = inp[j]]
  /\ EndIteration
  /\ UNCHANGED <<cmd, pcmd, out, sent, target, inp, netVars, issued, floor>>

\* A NaN test that never lets a command pass.
CommandForgotten(d) == pcmd[d]

\* A NaN passed on as 0.
CommandZeroed(d) == IF cmd[d] = NaN THEN 0 ELSE cmd[d]

\* What the plugin holds after write() has passed on a command for d.
CommandFor(d) == IF cmd[d] = NaN THEN pcmd[d] ELSE cmd[d]

\* A loop that gives every plugin the first device's command.
WriteFirst ==
  /\ op = "write"
  /\ pcmd' = [pcmd EXCEPT ![j] = CommandFor(1)]
  /\ out' = [out EXCEPT ![j] = IF j \in Sized THEN pcmd'[j] ELSE NoData]
  /\ EndIteration
  /\ UNCHANGED <<cmd, sent, target, inp, stateVal, netVars, issued, floor>>

\* setCommandValue(), prepareOutput() into a vector of output_size bytes,
\* which it leaves alone if that is too small, and setOutputBuffer().
WriteDevice ==
  /\ op = "write"
  /\ pcmd' = [pcmd EXCEPT ![j] = CommandFor(j)]
  /\ out' = [out EXCEPT ![j] = IF j \in Sized THEN pcmd'[j] ELSE NoData]
  /\ EndIteration
  /\ UNCHANGED <<cmd, sent, target, inp, stateVal, netVars, issued, floor>>

\* A controller gives device d a command, in the same loop as read() and
\* write().
SetCommand(d) ==
  /\ lifecycle = "active" /\ op = "none"
  /\ Len(issued) < MaxCmds
  /\ issued' = Append(issued, d)
  /\ cmd' = [cmd EXCEPT ![d] = Len(issued')]
  /\ UNCHANGED <<vars, lifeVars, pcmd, out, sent, target, inp, stateVal, netVars, floor>>

-----------------------------------------------------------------------------
(***************************************************************************)
(* The master's steps, with the data they move.                            *)
(***************************************************************************)
\* A connection that is new has no data to send yet.
OpenNewConnection ==
  /\ ConnectSucceeds
  /\ sent' = [sent EXCEPT ![k] = NoData]
  /\ UNCHANGED <<lifeVars, cmd, pcmd, out, target, inp, stateVal, netVars, issued, floor>>

\* Of the datagrams that carry what was sent so far, some may arrive after
\* those that will carry the new data, or repeatedly, and some never.  Those
\* with the same data are as good as new.
StillUnderWay(late, old, new) == SUBSET ((late \union {old}) \ {new, NoData})

PushOutput ==
  /\ TickPush
  /\ sent' = [sent EXCEPT ![cur] = IF io[cur] /\ MayTick(cur) THEN out[cur] ELSE @]
  /\ \E late \in StillUnderWay(toDevice[cur], sent[cur], sent'[cur]) :
       toDevice' = [toDevice EXCEPT ![cur] = late]
  /\ UNCHANGED <<lifeVars, cmd, pcmd, out, target, inp, stateVal, toMaster, applied,
                 issued, floor>>

\* handleConnections() with a datagram each way, NoData for none.  Nobody
\* looks at the sequence numbers: what arrives is taken, however late.  A
\* device ignores data that is not of the size it expects, and mirrors what
\* it has applied.
Exchange(delivered, received) ==
  /\ TickHandle /\ io[cur]
  /\ delivered \in toDevice[cur] \union {sent[cur], NoData}
  /\ received \in toMaster[cur] \union {target[cur], NoData}
  /\ target' = [target EXCEPT ![cur] = IF delivered = NoData THEN @ ELSE delivered]
  /\ applied' = [applied EXCEPT ![cur] = @ \union {target'[cur]}]
  /\ inp' = [inp EXCEPT ![cur] = IF received = NoData THEN @ ELSE received]
  /\ \E late \in StillUnderWay(toMaster[cur], target[cur], target'[cur]) :
       toMaster' = [toMaster EXCEPT ![cur] = late]
  /\ \E late \in SUBSET toDevice[cur] : toDevice' = [toDevice EXCEPT ![cur] = late]
  /\ UNCHANGED <<lifeVars, cmd, pcmd, out, sent, stateVal, issued, floor>>

\* Both datagrams are the newest, and no others are under way any more.
ExchangeInTime(d) ==
  /\ cur = d /\ Exchange(sent[d], target[d])
  /\ toDevice'[d] = {} /\ toMaster'[d] = {}

HandleNothing == TickHandle /\ ~io[cur] /\ UNCHANGED <<lifeVars, dataVars>>

ControlOnly ==
  /\ StartRefused \/ BeginConnect \/ ConnectFails \/ Spawn \/ Join \/ CloseNext
  /\ UNCHANGED <<lifeVars, dataVars>>

CyclicOnly ==
  /\ CyclicCheck \/ Sleep
  /\ UNCHANGED <<lifeVars, dataVars>>

Terminated ==
  /\ lifecycle = "destroyed" /\ op = "none"
  /\ UNCHANGED sysVars

ControllerLoop ==
  \/ BeginLoop("read")
  \/ ReadDevice
  \/ BeginLoop("write")
  \/ WriteDevice

SysControlStep == OpenNewConnection \/ ControlOnly

SysCyclicStep ==
  \/ PushOutput
  \/ \E delivered, received \in Values \union {NoData} : Exchange(delivered, received)
  \/ HandleNothing
  \/ CyclicOnly

SysNext ==
  \/ Lifecycle
  \/ CallbackReturns
  \/ ControllerLoop
  \/ \E d \in Devices : SetCommand(d)
  \/ SysControlStep
  \/ SysCyclicStep
  \/ Terminated

(***************************************************************************)
(* Callbacks and loops that began go on; ros2_control goes on reading and  *)
(* writing, however often something else is called in between; a datagram  *)
(* each way gets through now and then.  Nobody has to change the lifecycle *)
(* or give a command.                                                      *)
(***************************************************************************)
SysFairness ==
  /\ WF_sysVars(SysControlStep)
  /\ WF_sysVars(SysCyclicStep)
  /\ WF_sysVars(CallbackReturns)
  /\ WF_sysVars(ReadDevice \/ WriteDevice)
  /\ SF_sysVars(BeginLoop("read"))
  /\ SF_sysVars(BeginLoop("write"))
  /\ \A d \in Devices : SF_sysVars(ExchangeInTime(d))

SysSpec == SysInit /\ [][SysNext]_sysVars /\ SysFairness

-----------------------------------------------------------------------------
(***************************************************************************)
(* Between callbacks, hardware that is unconfigured, inactive or destroyed *)
(* has no cyclic thread and no device that is kConnected, even after an    *)
(* activation that failed half way: nothing is sent.  It is what the       *)
(* master knows; if a ForwardClose failed, which disconnect() only logs,   *)
(* the IO connection and its session may be there still.                   *)
(***************************************************************************)
InactiveMeansStopped ==
  op = "none" /\ lifecycle \in {"unconfigured", "inactive", "destroyed"}
    => cyclic = "none" /\ \A d \in Devices : state[d] # "Connected"

(***************************************************************************)
(* Active hardware has its cyclic thread running and every device          *)
(* connected, from the return of on_activate() to the next callback.       *)
(***************************************************************************)
ActiveMeansCycling ==
  op \in {"none", "read", "write"} /\ lifecycle = "active"
    => running /\ Looping /\ AllConnected

(***************************************************************************)
(* A device applies only commands that were given to it, although nothing  *)
(* but the equal order of devices_ and device_plugins_ pairs the two.      *)
(***************************************************************************)
CommandsReachTheirDevice ==
  \A d \in Devices : target[d] # 0 => issued[target[d]] = d

(***************************************************************************)
(* No stage of the way of a command runs ahead, through deactivation,      *)
(* reconnection, and datagrams that are lost, late, repeated or out of     *)
(* order: the plugin holds no newer command than the controllers gave, the *)
(* output buffer none newer than the plugin, and the device has applied    *)
(* none newer than the output buffer's.  What is read back may be old, if  *)
(* a datagram was late, but is something the device really has applied.    *)
(***************************************************************************)
PipelineCausal ==
  \A d \in Devices :
    /\ {inp[d], stateVal[d]} \subseteq applied[d]
    /\ d \in Sized =>
         /\ cmd[d] # NaN => pcmd[d] =< cmd[d]
         /\ out[d] =< pcmd[d]
         /\ \A c \in applied[d] : c =< out[d]

(***************************************************************************)
(* Hardware that was cleaned up, or whose activation failed at ForwardOpen, *)
(* never becomes active again: on_configure() refuses without plugins, and *)
(* start() without a device that is kConfigured.                           *)
(***************************************************************************)
Lost == ~plugins \/ \E d \in Devices : state[d] = "Error"

NoWayBack == [][Lost => Lost' /\ lifecycle' # "active"]_sysVars

(***************************************************************************)
(* A command given to a device whose output size is known comes back as    *)
(* its state, or a later one does, if the hardware stays active and the    *)
(* connection holds.                                                       *)
(***************************************************************************)
RoundTrip ==
  \A d \in Sized, c \in 1 .. MaxCmds :
    cmd[d] = c ~> \/ stateVal[d] >= c
                  \/ lifecycle # "active"
                  \/ op \in {"deactivate", "destroy"}
                  \/ ~io[d]

(***************************************************************************)
(* "Set commands to NaN (no command sent until controllers write)"         *)
(* (ethernetip_system.cpp:139): what an IO connection is given to send is  *)
(* not a command of an earlier activation.                                 *)
(***************************************************************************)
NoCommandUntilWritten ==
  [][\A d \in Devices :
       cyclic = "push" /\ cur = d /\ sent'[d] # sent[d] /\ sent'[d] > 0
         => sent'[d] > floor]_sysVars

(***************************************************************************)
(* "Size of the output assembly in bytes (auto-computed from mappings if   *)
(* 0)" (device_config.hpp:36): the output buffer is never without the      *)
(* bytes its mappings need.                                                *)
(***************************************************************************)
OutputSizeComputed == \A d \in Devices : out[d] # NoData

(***************************************************************************)
(* The invariant the proofs rest on.  LifeInv: which phases of start() and *)
(* stop() a callback can be in, and what it has reached when the control   *)
(* thread is idle again.  PathInv: what is on the way of a command is a    *)
(* command of that device, and what a connection sends is neither ahead of *)
(* the output buffer nor behind the device.                                *)
(***************************************************************************)
Stopped == cyclic = "none" /\ \A d \in Devices : state[d] # "Connected"

CallbackPhases ==
  /\ op \in {"none", "read", "write"} => ctl = "idle"
  /\ op = "activate" => /\ ctl \in {"idle", "starting", "opening", "spawning"}
                        /\ lifecycle = "inactive"
  /\ op \in {"deactivate", "error", "destroy"} => ctl \in {"idle", "joining", "closing"}
  /\ op = "deactivate" => lifecycle = "active"

StoppedInv ==
  /\ op \in {"none", "read", "write"}
       /\ lifecycle \in {"unconfigured", "inactive", "destroyed"} => Stopped
  /\ op \in {"deactivate", "error", "destroy"} /\ ctl = "idle" => Stopped

ActiveInv ==
  /\ op \in {"none", "read", "write"} /\ lifecycle = "active" => running
  /\ op = "activate" /\ ctl = "idle" /\ started => running
  /\ lifecycle \in {"inactive", "active"} => plugins
  /\ lifecycle = "active" => \A d \in Devices : state[d] # "Error"

LifeInv == CallbackPhases /\ StoppedInv /\ ActiveInv

GivenTo(d, c) == c > 0 => c =< Len(issued) /\ issued[c] = d

AllGiven ==
  \A d \in Devices :
    \A c \in {cmd[d], pcmd[d], out[d], sent[d]} \union toDevice[d] \union applied[d] :
      GivenTo(d, c)

\* What is under way was in the output buffer, or applied, before.
UnderWay ==
  \A d \in Devices :
    /\ {target[d]} \union toMaster[d] \subseteq applied[d]
    /\ d \in Sized => \A c \in {sent[d]} \union toDevice[d] : c =< out[d]

PathInv == AllGiven /\ UnderWay /\ PipelineCausal

SysInv == SysTypeOK /\ IInv /\ LifeInv /\ PathInv
=============================================================================
