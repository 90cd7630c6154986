----------------------- MODULE EthernetIPSystem_proofs -----------------------
(***************************************************************************)
(* Proofs about EthernetIPSystem, for every number of devices, every set   *)
(* of them with a known output size and any number of commands.  They      *)
(* stand on those about the master: a step of the system is a step of the  *)
(* master or invisible to it.                                              *)
(***************************************************************************)
EXTENDS EthernetIPSystem, EthernetIPMaster_proofs, SequenceTheorems

USE NAssumption, SizedAssumption, MaxCmdsAssumption DEF Devices

(***************************************************************************)
(* No callback reaches into the master but through start() and stop().     *)
(***************************************************************************)
LEMMA SysStepIsMasterStep == [SysNext]_sysVars => [Next]_vars
<1> SUFFICES ASSUME [SysNext]_sysVars PROVE [Next]_vars
  OBVIOUS
<1>1. CASE UNCHANGED sysVars
  BY <1>1 DEF sysVars
<1>2. CASE Lifecycle
  BY <1>2 DEF Lifecycle, OnConfigure, OnActivate, OnDeactivate, OnCleanup, OnShutdown,
     Destroy, OnError, Next, Client
<1>3. CASE CallbackReturns
  BY <1>3 DEF CallbackReturns, ActivateReturns, StopReturns, OnError, Next, Client
<1>4. CASE ControllerLoop
  BY <1>4 DEF ControllerLoop, BeginLoop, ReadDevice, WriteDevice, EndIteration
<1>5. CASE \E d \in Devices : SetCommand(d)
  BY <1>5 DEF SetCommand
<1>6. CASE SysControlStep
  BY <1>6 DEF SysControlStep, OpenNewConnection, ControlOnly, Next, ControlStep
<1>7. CASE SysCyclicStep
  BY <1>7 DEF SysCyclicStep, PushOutput, Exchange, HandleNothing, CyclicOnly, Next,
     CyclicStep
<1>8. CASE Terminated
  BY <1>8 DEF Terminated, sysVars
<1> QED
  BY <1>1, <1>2, <1>3, <1>4, <1>5, <1>6, <1>7, <1>8 DEF SysNext

(***************************************************************************)
(* The master's invariant survives everything ros2_control does with it.   *)
(***************************************************************************)
LEMMA MasterInvariance == SysSpec => []IInv
<1>1. SysInit => IInv
  BY InitIInv DEF SysInit
<1>2. IInv /\ [SysNext]_sysVars => IInv'
  BY SysStepIsMasterStep, NextKeepsIInv
<1> QED
  BY <1>1, <1>2, PTL DEF SysSpec

(***************************************************************************)
(* So the scanner inside the hardware keeps ScannerProtocol, whatever      *)
(* callbacks ros2_control makes and in whatever order.                     *)
(***************************************************************************)
THEOREM SystemKeepsProtocol == SysSpec => ImplementsScannerProtocol
<1>1. SysInit => Abs!Init
  BY DEF SysInit, Init, ConnInit, Looping, Link, LinkOf, Abs!Init
<1>2. IInv /\ [SysNext]_sysVars => [Abs!Next]_(Abs!absVars)
  BY SysStepIsMasterStep, StepImplementsStep
<1> QED
  BY <1>1, <1>2, MasterInvariance, PTL DEF SysSpec, ImplementsScannerProtocol, Abs!Spec

(***************************************************************************)
(* And it is a scanner whose promises hold under all of the lifecycle: the *)
(* ConnectionManagers are used by one thread at a time, a joinable thread  *)
(* is not overwritten, stop() gets on and leaves no device connected, and  *)
(* a failure is for good.                                                  *)
(***************************************************************************)
THEOREM SystemKeepsMaster ==
  SysSpec => /\ []ManagerExclusive
             /\ []ThreadNeverOverwritten
             /\ StopLeavesNoneConnected
             /\ FailureIsPermanent
             /\ [][(ctl \in {"joining", "closing"}) => StopLeft' < StopLeft]_vars
<1>1. IInv => ManagerExclusive /\ ThreadNeverOverwritten
  BY DEF IInv, ThreadInv, StartInv, StopInv, UsingManager, ManagerExclusive,
     ThreadNeverOverwritten, Joinable, Looping
<1>2. IInv /\ [SysNext]_sysVars =>
        [ctl = "closing" /\ ctl' = "idle"
           => /\ ~running'
              /\ cyclic' = "none"
              /\ \A d \in Devices : state'[d] # "Connected"]_vars
  BY SysStepIsMasterStep, LastCloseLeavesNoneConnected
<1>3. IInv /\ IInv' /\ [SysNext]_sysVars =>
        [\A d \in Devices :
           state[d] = "Error" => state'[d] = "Error" /\ ~running']_vars
  BY SysStepIsMasterStep, ErrorStays DEF IInv, ThreadInv, Looping, Joinable, AllConnected
<1>4. IInv /\ [SysNext]_sysVars =>
        [(ctl \in {"joining", "closing"}) => StopLeft' < StopLeft]_vars
  BY SysStepIsMasterStep, StopLeftStep
<1> QED
  BY <1>1, <1>2, <1>3, <1>4, MasterInvariance, PTL DEF SysSpec, StopLeavesNoneConnected,
     FailureIsPermanent

-----------------------------------------------------------------------------
(***************************************************************************)
(* The types.  The loop counter stays in the device table because both     *)
(* loops stop at the last device.                                          *)
(***************************************************************************)
LEMMA SysTypeInit == SysInit => SysTypeOK
<1> SUFFICES ASSUME SysInit PROVE SysTypeOK
  OBVIOUS
<1>1. TypeOK
  BY InitTypeOK DEF SysInit
<1>2. 0 \in Values /\ NoData \in Values \union {NoData}
  BY DEF Values
<1>3. /\ cmd \in [Devices -> Values \union {NaN}]
      /\ out \in [Devices -> Values \union {NoData}]
      /\ sent \in [Devices -> Values \union {NoData}]
      /\ pcmd \in [Devices -> Values] /\ target \in [Devices -> Values]
      /\ inp \in [Devices -> Values] /\ stateVal \in [Devices -> Values]
  BY <1>2 DEF SysInit
<1>4. issued \in Seq(Devices) /\ Len(issued) =< MaxCmds
  BY DEF SysInit
<1>5. lifecycle = "unconfigured" /\ op = "none" /\ j \in Devices /\ plugins \in BOOLEAN
  BY DEF SysInit
<1> QED
  BY <1>1, <1>2, <1>3, <1>4, <1>5 DEF SysTypeOK, SysInit

LEMMA LifecycleType ==
  ASSUME SysTypeOK, [SysNext]_sysVars
  PROVE  /\ lifecycle' \in {"unconfigured", "inactive", "active", "finalized", "destroyed"}
         /\ op' \in {"none", "activate", "deactivate", "error", "read", "write", "destroy"}
         /\ j' \in Devices
         /\ plugins' \in BOOLEAN
<1> USE DEF SysTypeOK
<1>1. CASE UNCHANGED lifeVars
  BY <1>1 DEF lifeVars
<1>2. CASE Lifecycle
  BY <1>2 DEF Lifecycle, OnConfigure, OnActivate, OnDeactivate, OnCleanup, OnShutdown,
     Destroy, OnError, Calls
<1>3. CASE CallbackReturns
  BY <1>3 DEF CallbackReturns, ActivateReturns, StopReturns, OnError
<1>4. CASE ControllerLoop
  BY <1>4 DEF ControllerLoop, BeginLoop, ReadDevice, WriteDevice, EndIteration, Calls
<1> QED
  BY <1>1, <1>2, <1>3, <1>4 DEF SysNext, SetCommand, SysControlStep, OpenNewConnection,
     ControlOnly, SysCyclicStep, PushOutput, Exchange, HandleNothing, CyclicOnly, Terminated,
     sysVars

PathTyped ==
  /\ cmd \in [Devices -> Values \union {NaN}]
  /\ pcmd \in [Devices -> Values]
  /\ out \in [Devices -> Values \union {NoData}]
  /\ sent \in [Devices -> Values \union {NoData}]
  /\ target \in [Devices -> Values]
  /\ inp \in [Devices -> Values]
  /\ stateVal \in [Devices -> Values]
  /\ toDevice \in [Devices -> SUBSET Values]
  /\ toMaster \in [Devices -> SUBSET Values]
  /\ applied \in [Devices -> SUBSET Values]
  /\ issued \in Seq(Devices) /\ Len(issued) =< MaxCmds
  /\ floor \in Values

LEMMA PathType == PathTyped /\ TypeOK /\ j \in Devices /\ [SysNext]_sysVars => PathTyped'
<1> SUFFICES ASSUME PathTyped, TypeOK, j \in Devices, [SysNext]_sysVars PROVE PathTyped'
  OBVIOUS
<1> USE DEF PathTyped
<1>1. CASE UNCHANGED dataVars
  BY <1>1 DEF dataVars, pathVars, netVars
<1>2. CASE OnActivate
  <2>1. cmd' \in [Devices -> Values \union {NaN}]
    BY <1>2 DEF OnActivate
  <2>2. floor' \in Values
    BY <1>2 DEF OnActivate, Values
  <2> QED BY <1>2, <2>1, <2>2 DEF OnActivate, netVars
<1>3. CASE ReadDevice
  BY <1>3 DEF ReadDevice, netVars
<1>4. CASE WriteDevice
  <2>1. CommandFor(j) \in Values
    BY DEF CommandFor
  <2>2. pcmd' \in [Devices -> Values]
    BY <1>4, <2>1 DEF WriteDevice
  <2>3. out' \in [Devices -> Values \union {NoData}]
    BY <1>4, <2>2 DEF WriteDevice
  <2> QED BY <1>4, <2>2, <2>3 DEF WriteDevice, netVars
<1>5. ASSUME NEW d \in Devices, SetCommand(d) PROVE PathTyped'
  <2>1. issued' \in Seq(Devices) /\ Len(issued') = Len(issued) + 1
    BY <1>5, AppendProperties DEF SetCommand
  <2>2. Len(issued') \in Values
    <3>1. Len(issued) \in Nat
      BY LenProperties
    <3>2. Len(issued) < MaxCmds
      BY <1>5 DEF SetCommand
    <3>3. \A n \in Nat : n < MaxCmds => n + 1 \in 0 .. MaxCmds
      OBVIOUS
    <3> QED BY <2>1, <3>1, <3>2, <3>3 DEF Values
  <2>3. cmd' \in [Devices -> Values \union {NaN}]
    BY <1>5, <2>2 DEF SetCommand
  <2>4. Len(issued') =< MaxCmds
    BY <2>2 DEF Values
  <2>5. UNCHANGED <<pcmd, out, sent, target, inp, stateVal, netVars, floor>>
    BY <1>5 DEF SetCommand
  <2> QED BY <2>1, <2>3, <2>4, <2>5 DEF netVars
<1>6. CASE OpenNewConnection
  BY <1>6 DEF OpenNewConnection, TypeOK, netVars
<1>7. CASE PushOutput
  <2>1. cur \in Devices /\ sent' \in [Devices -> Values \union {NoData}]
    BY <1>7 DEF PushOutput, TypeOK
  <2>2. toDevice' \in [Devices -> SUBSET Values]
    <3>1. PICK late \in StillUnderWay(toDevice[cur], sent[cur], sent'[cur]) :
            toDevice' = [toDevice EXCEPT ![cur] = late]
      BY <1>7 DEF PushOutput
    <3>2. late \in SUBSET Values
      BY <2>1 DEF StillUnderWay
    <3> QED BY <2>1, <3>1, <3>2
  <2> QED BY <1>7, <2>1, <2>2 DEF PushOutput
<1>8. ASSUME NEW delivered \in Values \union {NoData}, NEW received \in Values \union {NoData},
             Exchange(delivered, received)
      PROVE  PathTyped'
  <2>1. cur \in Devices
    BY DEF TypeOK
  <2>2. target' \in [Devices -> Values]
    BY <1>8, <2>1 DEF Exchange
  <2>3. inp' \in [Devices -> Values]
    BY <1>8, <2>1 DEF Exchange
  <2>4. applied' \in [Devices -> SUBSET Values]
    BY <1>8, <2>1, <2>2 DEF Exchange
  <2>5. toMaster' \in [Devices -> SUBSET Values]
    <3>1. PICK late \in StillUnderWay(toMaster[cur], target[cur], target'[cur]) :
            toMaster' = [toMaster EXCEPT ![cur] = late]
      BY <1>8 DEF Exchange
    <3>2. late \in SUBSET Values
      BY <2>1 DEF StillUnderWay
    <3> QED BY <2>1, <3>1, <3>2
  <2>6. toDevice' \in [Devices -> SUBSET Values]
    <3>1. PICK late \in SUBSET toDevice[cur] : toDevice' = [toDevice EXCEPT ![cur] = late]
      BY <1>8 DEF Exchange
    <3> QED BY <2>1, <3>1
  <2> QED BY <1>8, <2>2, <2>3, <2>4, <2>5, <2>6 DEF Exchange
<1>9. CASE Lifecycle
  BY <1>1, <1>2, <1>9 DEF Lifecycle, OnConfigure, OnDeactivate, OnCleanup, OnShutdown,
     Destroy, OnError
<1>10. CASE CallbackReturns
  BY <1>1, <1>10 DEF CallbackReturns, ActivateReturns, StopReturns, OnError
<1>11. CASE ControllerLoop
  BY <1>1, <1>3, <1>4, <1>11 DEF ControllerLoop, BeginLoop
<1>12. CASE SysControlStep \/ SysCyclicStep
  BY <1>1, <1>6, <1>7, <1>8, <1>12 DEF SysControlStep, SysCyclicStep, ControlOnly,
     HandleNothing, CyclicOnly
<1> QED
  BY <1>1, <1>5, <1>9, <1>10, <1>11, <1>12 DEF SysNext, Terminated, sysVars

LEMMA SysTypeStep == SysTypeOK /\ IInv /\ [SysNext]_sysVars => SysTypeOK'
<1> SUFFICES ASSUME SysTypeOK, IInv, [SysNext]_sysVars PROVE SysTypeOK'
  OBVIOUS
<1>1. TypeOK'
  BY SysStepIsMasterStep, NextKeepsIInv DEF IInv
<1>2. PathTyped'
  BY PathType DEF SysTypeOK, PathTyped
<1> QED
  BY <1>1, <1>2, LifecycleType DEF SysTypeOK, PathTyped

THEOREM SysTypeCorrect == SysSpec => []SysTypeOK
  BY SysTypeInit, SysTypeStep, MasterInvariance, PTL DEF SysSpec

-----------------------------------------------------------------------------
(***************************************************************************)
(* The lifecycle.  What start() and stop() have done is known from their   *)
(* own phases (IInv); LifeInv carries it to the callback that called them. *)
(***************************************************************************)
LEMMA LifeInit == SysInit => LifeInv
  BY DEF SysInit, Init, ConnInit, LifeInv, CallbackPhases, StoppedInv, ActiveInv, Stopped

LEMMA ControlKeepsLifeInv ==
  ASSUME SysTypeOK, IInv, LifeInv, ControlStep, UNCHANGED lifeVars PROVE LifeInv'
<1> USE DEF LifeInv, CallbackPhases, lifeVars
<1>1. ctl # "idle"
  BY DEF ControlStep, StartRefused, BeginConnect, ConnectSucceeds, ConnectFails, Spawn,
     Join, CloseNext
<1>2. CASE op = "activate"
  <2>1. ctl \in {"starting", "opening", "spawning"} /\ lifecycle = "inactive"
    BY <1>1, <1>2
  <2>2. ctl' \in {"idle", "starting", "opening", "spawning"}
    BY <2>1 DEF ControlStep, StartRefused, BeginConnect, ConnectSucceeds, ConnectFails,
       Spawn, Join, CloseNext, StartReturns, StartNextDevice
  <2>3. ctl' = "idle" /\ started' => running'
    BY <2>1 DEF ControlStep, StartRefused, BeginConnect, ConnectSucceeds, ConnectFails,
       Spawn, Join, CloseNext, StartReturns, StartNextDevice
  <2> QED BY <1>2, <2>1, <2>2, <2>3 DEF StoppedInv, ActiveInv
<1>3. CASE op \in {"deactivate", "error", "destroy"}
  <2>1. ctl \in {"joining", "closing"}
    BY <1>1, <1>3
  <2>2. Join \/ CloseNext
    BY <2>1 DEF ControlStep, StartRefused, BeginConnect, ConnectSucceeds, ConnectFails, Spawn
  <2>3. ctl' \in {"idle", "closing"}
    BY <2>1, <2>2 DEF Join, CloseNext
  <2>4. ctl' = "idle" => Stopped'
    <3>1. ctl' = "idle" => ctl = "closing"
      BY <2>2 DEF Join, CloseNext
    <3>2. [Next]_vars
      BY DEF Next
    <3> QED BY <3>1, <3>2, LastCloseLeavesNoneConnected DEF Stopped
  <2>5. lifecycle = "active" => \A d \in Devices : state'[d] # "Error"
    BY <2>2 DEF ActiveInv, SysTypeOK, TypeOK, ConnTypeOK, Join, CloseNext, Disconnect, connVars
  <2> QED BY <1>3, <2>3, <2>4, <2>5 DEF StoppedInv, ActiveInv
<1> QED
  BY <1>1, <1>2, <1>3 DEF SysTypeOK

LEMMA CyclicKeepsLifeInv ==
  ASSUME SysTypeOK, IInv, LifeInv, CyclicStep, UNCHANGED lifeVars PROVE LifeInv'
<1>1. UNCHANGED <<state, running, ctl, started>> /\ cyclic # "none"
  BY DEF CyclicStep, CyclicCheck, TickPush, TickHandle, Sleep, HandleConnections, connVars
<1>2. ~Stopped
  BY <1>1 DEF Stopped
<1> QED
  BY <1>1, <1>2 DEF LifeInv, CallbackPhases, StoppedInv, ActiveInv, lifeVars

LEMMA CallbackKeepsLifeInv ==
  ASSUME SysTypeOK, IInv, LifeInv, Lifecycle \/ CallbackReturns PROVE LifeInv'
<1> USE DEF LifeInv, CallbackPhases, StoppedInv, ActiveInv, Calls
<1>1. CASE CallStop /\ op' \in {"deactivate", "error", "destroy"}
           /\ UNCHANGED <<lifecycle, plugins>> /\ (op' = "deactivate" => lifecycle = "active")
  BY <1>1 DEF CallStop, connVars
<1>2. CASE OnConfigure /\ plugins
  BY <1>2 DEF OnConfigure, vars, connVars, threadVars, Stopped
<1>3. CASE OnActivate
  BY <1>3 DEF OnActivate, CallStart, connVars
<1>4. CASE ActivateReturns /\ started
  <2>1. running /\ lifecycle = "inactive" /\ lifecycle' = "active" /\ op' = "none"
    BY <1>4 DEF ActivateReturns
  <2>2. UNCHANGED <<state, cyclic, running, ctl, started, plugins>>
    BY <1>4 DEF ActivateReturns, vars, connVars, threadVars
  <2>3. \A d \in Devices : state[d] = "Connected"
    BY <2>1 DEF IInv, ThreadInv, Looping, Joinable, AllConnected
  <2> QED BY <1>4, <2>1, <2>2, <2>3 DEF ActivateReturns
<1>5. CASE \E callback \in {"deactivate", "error", "destroy"} :
             \E next \in {"inactive", "unconfigured", "destroyed"} :
               /\ StopReturns(callback, next)
               /\ callback = "deactivate" <=> next = "inactive"
  BY <1>5 DEF StopReturns, vars, connVars, threadVars, Stopped
<1>6. CASE OnCleanup
  BY <1>6 DEF OnCleanup, vars, connVars, threadVars, Stopped
<1>7. CASE OnShutdown
  BY <1>7 DEF OnShutdown, vars, connVars, threadVars
<1> QED
  BY <1>1, <1>2, <1>3, <1>4, <1>5, <1>6, <1>7 DEF Lifecycle, CallbackReturns, OnConfigure,
     OnDeactivate, Destroy, ActivateReturns, OnError

LEMMA LoopKeepsLifeInv ==
  ASSUME LifeInv, ControllerLoop \/ \E d \in Devices : SetCommand(d) PROVE LifeInv'
<1>1. /\ UNCHANGED <<vars, lifecycle, plugins>>
      /\ op \in {"none", "read", "write"} /\ op' \in {"none", "read", "write"}
  BY DEF ControllerLoop, BeginLoop, ReadDevice, WriteDevice, EndIteration, SetCommand,
     Calls, lifeVars
<1> QED
  BY <1>1 DEF LifeInv, CallbackPhases, StoppedInv, ActiveInv, vars, connVars, threadVars, Stopped

LEMMA LifeStep == SysTypeOK /\ IInv /\ LifeInv /\ [SysNext]_sysVars => LifeInv'
<1> SUFFICES ASSUME SysTypeOK, IInv, LifeInv, [SysNext]_sysVars PROVE LifeInv'
  OBVIOUS
<1>1. CASE UNCHANGED sysVars
  BY <1>1 DEF sysVars, lifeVars, vars, connVars, threadVars, LifeInv, CallbackPhases,
     StoppedInv, ActiveInv, Stopped
<1>2. CASE SysControlStep
  BY <1>2, ControlKeepsLifeInv DEF SysControlStep, OpenNewConnection, ControlOnly, ControlStep
<1>3. CASE SysCyclicStep
  BY <1>3, CyclicKeepsLifeInv DEF SysCyclicStep, PushOutput, Exchange, HandleNothing,
     CyclicOnly, CyclicStep
<1> QED
  BY <1>1, <1>2, <1>3, CallbackKeepsLifeInv, LoopKeepsLifeInv DEF SysNext, Terminated

LEMMA LifeInvariance == SysSpec => [](SysTypeOK /\ IInv /\ LifeInv)
  BY SysTypeCorrect, MasterInvariance, LifeInit, LifeStep, PTL DEF SysSpec

(***************************************************************************)
(* For every number of devices: hardware that is not active, and that      *)
(* ros2_control did not finalize, has no thread and no connected device.   *)
(***************************************************************************)
THEOREM InactiveIsStopped == SysSpec => []InactiveMeansStopped
<1>1. LifeInv => InactiveMeansStopped
  BY DEF LifeInv, StoppedInv, Stopped, InactiveMeansStopped
<1> QED
  BY <1>1, LifeInvariance, PTL

(***************************************************************************)
(* For every number of devices: active hardware has its thread in the loop *)
(* and every device connected, whatever the targets do.                    *)
(***************************************************************************)
THEOREM ActiveIsCycling == SysSpec => []ActiveMeansCycling
<1>1. IInv /\ LifeInv => ActiveMeansCycling
  BY DEF IInv, ThreadInv, Joinable, Looping, LifeInv, ActiveInv, ActiveMeansCycling
<1> QED
  BY <1>1, LifeInvariance, PTL

(***************************************************************************)
(* For every number of devices: plugins that are gone and devices that are *)
(* kError stay so, and the hardware does not become active.                *)
(***************************************************************************)
THEOREM NoWayBackEver == SysSpec => NoWayBack
<1>1. ASSUME SysTypeOK, IInv, LifeInv, LifeInv', [SysNext]_sysVars, Lost
      PROVE  Lost' /\ lifecycle' # "active"
  <2>1. plugins' => plugins
    BY <1>1 DEF SysNext, Lifecycle, OnConfigure, OnActivate, OnDeactivate, OnCleanup,
       OnShutdown, Destroy, OnError, CallbackReturns, ActivateReturns, StopReturns,
       ControllerLoop, BeginLoop, ReadDevice, WriteDevice, EndIteration, SetCommand,
       SysControlStep, OpenNewConnection, ControlOnly, SysCyclicStep, PushOutput,
       Exchange, HandleNothing, CyclicOnly, Terminated, sysVars, lifeVars, SysTypeOK
  <2>2. \A d \in Devices : state[d] = "Error" => state'[d] = "Error"
    BY <1>1, SysStepIsMasterStep, ErrorStays
  <2>3. Lost'
    BY <1>1, <2>1, <2>2 DEF Lost, SysTypeOK
  <2>4. lifecycle' = "active" => plugins' /\ \A d \in Devices : state'[d] # "Error"
    BY <1>1 DEF LifeInv, ActiveInv
  <2> QED BY <2>3, <2>4 DEF Lost
<1>2. /\ SysTypeOK /\ IInv /\ LifeInv /\ (SysTypeOK /\ IInv /\ LifeInv)'
      /\ [SysNext]_sysVars
      => [Lost => Lost' /\ lifecycle' # "active"]_sysVars
  BY <1>1
<1> QED
  BY <1>2, LifeInvariance, PTL DEF SysSpec, NoWayBack

-----------------------------------------------------------------------------
(***************************************************************************)
(* The way of a command.  First where it comes from: every stage holds     *)
(* only commands of its own device, or 0.                                  *)
(***************************************************************************)
LEMMA GivenStays ==
  ASSUME issued \in Seq(Devices), NEW e \in Devices, issued' = Append(issued, e),
         NEW d \in Devices, NEW c \in Int, GivenTo(d, c)
  PROVE  GivenTo(d, c)'
<1>1. Len(issued') = Len(issued) + 1 /\ Len(issued) \in Nat
  BY AppendProperties, LenProperties
<1>2. c > 0 => c \in 1 .. Len(issued)
  BY <1>1 DEF GivenTo
<1>3. c > 0 => issued'[c] = issued[c]
  BY <1>2, AppendProperties
<1> QED
  BY <1>1, <1>3 DEF GivenTo

LEMMA PathInit == SysInit => PathInv
<1> SUFFICES ASSUME SysInit PROVE PathInv
  OBVIOUS
<1> USE DEF SysInit
<1>1. AllGiven
  BY DEF AllGiven, GivenTo, NoData
<1>2. UnderWay
  BY DEF UnderWay, NoData
<1>3. PipelineCausal
  BY DEF PipelineCausal
<1> QED
  BY <1>1, <1>2, <1>3 DEF PathInv

(***************************************************************************)
(* Every stage holds a number.                                             *)
(***************************************************************************)
LEMMA PathNumbers ==
  ASSUME PathTyped, NEW d \in Devices
  PROVE  /\ cmd[d] \in Int /\ pcmd[d] \in Nat /\ out[d] \in Int /\ sent[d] \in Int
         /\ target[d] \in Nat /\ inp[d] \in Nat /\ stateVal[d] \in Nat
<1>1. (\A v \in Values : v \in Nat /\ v \in Int) /\ NaN \in Int /\ NoData \in Int
  BY DEF Values, NaN, NoData
<1>2. cmd[d] \in Values \union {NaN} /\ out[d] \in Values \union {NoData}
  BY DEF PathTyped
<1>3. sent[d] \in Values \union {NoData} /\ pcmd[d] \in Values
  BY DEF PathTyped
<1>4. target[d] \in Values /\ inp[d] \in Values /\ stateVal[d] \in Values
  BY DEF PathTyped
<1> QED
  BY <1>1, <1>2, <1>3, <1>4

LEMMA NetNumbers ==
  ASSUME PathTyped, NEW d \in Devices, NEW c \in toDevice[d] \union applied[d]
  PROVE  c \in Nat
  BY DEF PathTyped, Values

LEMMA ReadKeepsPathInv ==
  ASSUME PathTyped, PathInv, j \in Devices, ReadDevice PROVE PathInv'
<1>1. /\ UNCHANGED <<cmd, pcmd, out, sent, target, inp, toDevice, toMaster, applied, issued>>
      /\ \A d \in Devices : stateVal'[d] \in {stateVal[d], inp[d]}
  BY DEF ReadDevice, PathTyped, netVars
<1>2. PipelineCausal'
  BY <1>1 DEF PathInv, PipelineCausal
<1> QED
  BY <1>1, <1>2 DEF PathInv, AllGiven, GivenTo, UnderWay

(***************************************************************************)
(* write() moves a device's own command on; it is not older than the one   *)
(* the plugin held, for cmd[d] only grows until it is set to NaN.          *)
(***************************************************************************)
LEMMA WriteGoesForward ==
  ASSUME PathTyped, PathInv, j \in Devices, WriteDevice, NEW d \in Sized
  PROVE  /\ pcmd[d] =< pcmd'[d] /\ (cmd[d] # NaN => pcmd'[d] =< cmd[d])
         /\ out[d] =< out'[d] /\ out'[d] =< pcmd'[d]
         /\ out[d] \in Int /\ out'[d] \in Int
<1>1. pcmd'[d] = IF d = j THEN CommandFor(d) ELSE pcmd[d]
  BY DEF WriteDevice, PathTyped
<1>2. out'[d] = out[d] \/ out'[d] = pcmd'[d]
  BY DEF WriteDevice, PathTyped
<1>3. pcmd[d] =< pcmd'[d] /\ (cmd[d] # NaN => pcmd'[d] =< cmd[d]) /\ pcmd'[d] \in Int
  BY <1>1, PathNumbers DEF PathInv, PipelineCausal, CommandFor
<1>4. out[d] \in Int /\ pcmd[d] \in Int /\ out[d] =< pcmd[d]
  BY PathNumbers DEF PathInv, PipelineCausal
<1> QED
  BY <1>2, <1>3, <1>4

LEMMA WriteKeepsPathInv ==
  ASSUME PathTyped, PathInv, j \in Devices, WriteDevice PROVE PathInv'
<1>1. UNCHANGED <<cmd, sent, target, inp, stateVal, toDevice, toMaster, applied, issued>>
  BY DEF WriteDevice, netVars
<1>2. \A d \in Devices : /\ pcmd'[d] \in {cmd[d], pcmd[d]}
                         /\ out'[d] \in {cmd[d], pcmd[d], out[d], NoData}
  BY DEF WriteDevice, PathTyped, CommandFor
<1>3. AllGiven'
  <2>1. \A d \in Devices : GivenTo(d, NoData)
    BY DEF GivenTo, NoData
  <2> QED BY <1>1, <1>2, <2>1 DEF PathInv, AllGiven, GivenTo
<1>4. \A d \in Sized, c \in Int : c =< out[d] => c =< out'[d]
  BY WriteGoesForward
<1>5. \A d \in Devices : /\ sent[d] \in Int
                         /\ \A c \in toDevice[d] \union applied[d] : c \in Int
  BY PathNumbers, NetNumbers
<1>6. UnderWay'
  BY <1>1, <1>4, <1>5 DEF PathInv, UnderWay
<1>7. PipelineCausal'
  BY <1>1, <1>4, <1>5, WriteGoesForward DEF PathInv, PipelineCausal
<1> QED
  BY <1>3, <1>6, <1>7 DEF PathInv

(***************************************************************************)
(* A new command is numbered higher than all that are on their way.        *)
(***************************************************************************)
LEMMA CommandKeepsPathInv ==
  ASSUME PathTyped, PathInv, NEW e \in Devices, SetCommand(e) PROVE PathInv'
<1>1. /\ UNCHANGED <<pcmd, out, sent, target, inp, stateVal, toDevice, toMaster, applied>>
      /\ issued' = Append(issued, e)
  BY DEF SetCommand, netVars
<1>2. Len(issued) \in Nat /\ Len(issued') = Len(issued) + 1 /\ issued'[Len(issued')] = e
  BY <1>1, AppendProperties, LenProperties DEF PathTyped
<1>3. \A d \in Devices : cmd'[d] = IF d = e THEN Len(issued') ELSE cmd[d]
  BY DEF SetCommand, PathTyped
<1>4. \A d \in Devices :
        /\ cmd[d] \in Int /\ pcmd[d] \in Int /\ out[d] \in Int /\ sent[d] \in Int
        /\ \A c \in toDevice[d] \union applied[d] : c \in Int
  BY PathNumbers, NetNumbers
<1>5. AllGiven'
  <2>1. \A d \in Devices, c \in Int : GivenTo(d, c) => GivenTo(d, c)'
    BY <1>1, GivenStays DEF PathTyped
  <2>2. \A d \in Devices : cmd'[d] > 0 => cmd'[d] =< Len(issued') /\ issued'[cmd'[d]] = d
    <3>1. \A d \in Devices : cmd[d] > 0 => cmd[d] =< Len(issued') /\ issued'[cmd[d]] = d
      BY <2>1, <1>4 DEF PathInv, AllGiven, GivenTo
    <3> QED BY <1>2, <1>3, <3>1
  <2>3. \A d \in Devices :
          \A c \in {pcmd[d], out[d], sent[d]} \union toDevice[d] \union applied[d] : GivenTo(d, c)'
    BY <1>4, <2>1 DEF PathInv, AllGiven
  <2> SUFFICES ASSUME NEW d \in Devices,
                      NEW c \in {cmd'[d], pcmd'[d], out'[d], sent'[d]}
                                  \union toDevice'[d] \union applied'[d]
               PROVE  GivenTo(d, c)'
    BY DEF AllGiven
  <2>4. CASE c = cmd'[d]
    BY <2>2, <2>4 DEF GivenTo
  <2>5. CASE c \in {pcmd[d], out[d], sent[d]} \union toDevice[d] \union applied[d]
    BY <2>3, <2>5
  <2> QED BY <1>1, <2>4, <2>5
<1>6. UnderWay'
  BY <1>1 DEF PathInv, UnderWay
<1>7. PipelineCausal'
  <2>1. \A d \in Sized : cmd'[d] # NaN => pcmd'[d] =< cmd'[d]
    <3> SUFFICES ASSUME NEW d \in Sized, cmd'[d] # NaN PROVE pcmd[d] =< cmd'[d]
      BY <1>1
    <3>1. d \in Devices /\ pcmd[d] \in Int
      BY <1>4
    <3>2. pcmd[d] > 0 => pcmd[d] =< Len(issued)
      BY <3>1 DEF PathInv, AllGiven, GivenTo
    <3>3. CASE d = e
      BY <1>2, <1>3, <3>1, <3>2, <3>3
    <3>4. CASE d # e
      BY <1>3, <3>1, <3>4 DEF PathInv, PipelineCausal
    <3> QED BY <3>3, <3>4
  <2> QED BY <1>1, <2>1 DEF PathInv, PipelineCausal
<1> QED
  BY <1>5, <1>6, <1>7 DEF PathInv

(***************************************************************************)
(* The connection: a new one has nothing to send, and then sends what the  *)
(* output buffer holds, while what it sent before may still arrive.        *)
(***************************************************************************)
LEMMA SendKeepsPathInv ==
  ASSUME PathTyped, TypeOK, PathInv, OpenNewConnection \/ PushOutput PROVE PathInv'
<1>1. UNCHANGED <<cmd, pcmd, out, target, inp, stateVal, toMaster, applied, issued>>
  BY DEF OpenNewConnection, PushOutput, netVars
<1>2. \A d \in Devices : /\ sent'[d] \in {sent[d], out[d], NoData}
                         /\ toDevice'[d] \subseteq toDevice[d] \union {sent[d]}
  <2>1. CASE OpenNewConnection
    BY <2>1 DEF OpenNewConnection, PathTyped, netVars
  <2>2. CASE PushOutput
    <3>1. \A d \in Devices : sent'[d] \in {sent[d], out[d], NoData}
      BY <2>2 DEF PushOutput, PathTyped
    <3>2. PICK late \in StillUnderWay(toDevice[cur], sent[cur], sent'[cur]) :
            toDevice' = [toDevice EXCEPT ![cur] = late]
      BY <2>2 DEF PushOutput
    <3>3. late \subseteq toDevice[cur] \union {sent[cur]}
      BY DEF StillUnderWay
    <3> QED BY <3>1, <3>2, <3>3 DEF PathTyped
  <2> QED BY <2>1, <2>2
<1>3. AllGiven'
  <2>1. \A d \in Devices : GivenTo(d, NoData)
    BY DEF GivenTo, NoData
  <2> QED BY <1>1, <1>2, <2>1 DEF PathInv, AllGiven, GivenTo
<1>4. UnderWay'
  <2>1. \A d \in Sized : out[d] \in Int /\ out[d] =< out[d] /\ NoData =< out[d]
    <3> SUFFICES ASSUME NEW d \in Sized
                 PROVE  out[d] \in Int /\ out[d] =< out[d] /\ NoData =< out[d]
      OBVIOUS
    <3>1. out[d] \in Int /\ target[d] \in Nat /\ target[d] =< out[d]
      BY PathNumbers DEF PathInv, UnderWay, PipelineCausal
    <3> QED BY <3>1 DEF NoData
  <2>2. \A d \in Sized : \A c \in {sent'[d]} \union toDevice'[d] : c =< out[d]
    BY <1>2, <2>1 DEF PathInv, UnderWay
  <2> QED BY <1>1, <2>2 DEF PathInv, UnderWay
<1> QED
  BY <1>1, <1>3, <1>4 DEF PathInv, PipelineCausal

(***************************************************************************)
(* An exchange: the device applies what arrives of what was sent, and the  *)
(* master takes what arrives of what the device had applied before.        *)
(***************************************************************************)
LEMMA ExchangeTakesWhatWasSent ==
  ASSUME PathTyped, TypeOK, PathInv,
         NEW delivered \in Values \union {NoData}, NEW received \in Values \union {NoData},
         Exchange(delivered, received), NEW d \in Devices
  PROVE  /\ target'[d] \in {target[d], sent[d]} \union toDevice[d]
         /\ inp'[d] \in applied[d]
         /\ applied'[d] = applied[d] \union {target'[d]}
         /\ toMaster'[d] \subseteq toMaster[d] \union {target[d]}
         /\ toDevice'[d] \subseteq toDevice[d]
<1>1. cur \in Devices /\ target[d] \in applied[d] /\ inp[d] \in applied[d]
      /\ toMaster[d] \subseteq applied[d]
  BY DEF TypeOK, PathInv, UnderWay, PipelineCausal
<1>2. target'[d] \in {target[d], sent[d]} \union toDevice[d]
  BY <1>1 DEF Exchange, PathTyped
<1>3. inp'[d] \in {inp[d], target[d]} \union toMaster[d]
  BY <1>1 DEF Exchange, PathTyped
<1>4. applied'[d] = applied[d] \union {target'[d]}
  <2>1. d # cur => target'[d] = target[d] /\ applied'[d] = applied[d]
    BY <1>1 DEF Exchange, PathTyped
  <2>2. d = cur => applied'[d] = applied[d] \union {target'[d]}
    BY <1>1 DEF Exchange, PathTyped
  <2> QED BY <1>1, <2>1, <2>2
<1>5. toMaster'[d] \subseteq toMaster[d] \union {target[d]}
  <2>1. PICK late \in StillUnderWay(toMaster[cur], target[cur], target'[cur]) :
          toMaster' = [toMaster EXCEPT ![cur] = late]
    BY DEF Exchange
  <2>2. late \subseteq toMaster[cur] \union {target[cur]}
    BY DEF StillUnderWay
  <2> QED BY <2>1, <2>2 DEF PathTyped
<1>6. toDevice'[d] \subseteq toDevice[d]
  <2>1. PICK late \in SUBSET toDevice[cur] : toDevice' = [toDevice EXCEPT ![cur] = late]
    BY DEF Exchange
  <2> QED BY <2>1 DEF PathTyped
<1> QED
  BY <1>1, <1>2, <1>3, <1>4, <1>5, <1>6

LEMMA ExchangeKeepsPathInv ==
  ASSUME PathTyped, TypeOK, PathInv,
         NEW delivered \in Values \union {NoData}, NEW received \in Values \union {NoData},
         Exchange(delivered, received)
  PROVE  PathInv'
<1>1. UNCHANGED <<cmd, pcmd, out, sent, stateVal, issued>>
  BY DEF Exchange
<1>2. \A d \in Devices :
        /\ target'[d] \in {target[d], sent[d]} \union toDevice[d]
        /\ inp'[d] \in applied[d]
        /\ applied'[d] = applied[d] \union {target'[d]}
        /\ toMaster'[d] \subseteq toMaster[d] \union {target[d]}
        /\ toDevice'[d] \subseteq toDevice[d]
  BY ExchangeTakesWhatWasSent
<1>3. \A d \in Devices : target[d] \in applied[d] /\ toMaster[d] \subseteq applied[d]
  BY DEF PathInv, UnderWay
<1>4. AllGiven'
  <2> SUFFICES ASSUME NEW d \in Devices,
                      NEW c \in {cmd[d], pcmd[d], out[d], sent[d]}
                                  \union toDevice'[d] \union applied'[d]
               PROVE  GivenTo(d, c)'
    BY <1>1 DEF AllGiven
  <2>1. c \in {cmd[d], pcmd[d], out[d], sent[d]} \union toDevice[d] \union applied[d]
    BY <1>2, <1>3
  <2> QED BY <1>1, <2>1 DEF PathInv, AllGiven, GivenTo
<1>5. UnderWay'
  BY <1>1, <1>2, <1>3 DEF PathInv, UnderWay
<1>6. PipelineCausal'
  <2>1. \A d \in Devices : {inp'[d], stateVal'[d]} \subseteq applied'[d]
    BY <1>1, <1>2 DEF PathInv, PipelineCausal
  <2>2. \A d \in Sized : \A c \in applied'[d] : c =< out[d]
    BY <1>2, <1>3 DEF PathInv, UnderWay, PipelineCausal
  <2> QED BY <1>1, <2>1, <2>2 DEF PathInv, PipelineCausal
<1> QED
  BY <1>4, <1>5, <1>6 DEF PathInv

LEMMA PathStep == SysTypeOK /\ PathInv /\ [SysNext]_sysVars => PathInv'
<1> SUFFICES ASSUME SysTypeOK, PathInv, [SysNext]_sysVars PROVE PathInv'
  OBVIOUS
<1>0. PathTyped /\ TypeOK /\ j \in Devices
  BY DEF SysTypeOK, PathTyped
<1>1. CASE UNCHANGED dataVars
  BY <1>1 DEF dataVars, pathVars, netVars, PathInv, AllGiven, GivenTo, UnderWay, PipelineCausal
<1>2. CASE OnActivate
  <2>1. /\ UNCHANGED <<pcmd, out, sent, target, inp, stateVal, toDevice, toMaster, applied, issued>>
        /\ \A d \in Devices : cmd'[d] = NaN
    BY <1>2 DEF OnActivate, netVars
  <2>2. \A d \in Devices : GivenTo(d, NaN)
    BY DEF GivenTo, NaN
  <2> QED BY <2>1, <2>2 DEF PathInv, AllGiven, GivenTo, UnderWay, PipelineCausal
<1>3. CASE Lifecycle \/ CallbackReturns
  BY <1>1, <1>2, <1>3 DEF Lifecycle, OnConfigure, OnDeactivate, OnCleanup, OnShutdown,
     Destroy, OnError, CallbackReturns, ActivateReturns, StopReturns
<1>4. CASE ControllerLoop
  BY <1>0, <1>1, <1>4, ReadKeepsPathInv, WriteKeepsPathInv DEF ControllerLoop, BeginLoop
<1>5. CASE \E d \in Devices : SetCommand(d)
  BY <1>0, <1>5, CommandKeepsPathInv
<1>6. CASE SysControlStep \/ SysCyclicStep
  BY <1>0, <1>1, <1>6, SendKeepsPathInv, ExchangeKeepsPathInv
  DEF SysControlStep, SysCyclicStep, ControlOnly, HandleNothing, CyclicOnly
<1> QED
  BY <1>1, <1>3, <1>4, <1>5, <1>6 DEF SysNext, Terminated, sysVars

(***************************************************************************)
(* The inductive invariant: types, master, lifecycle and path.             *)
(***************************************************************************)
THEOREM SysInvariance == SysSpec => []SysInv
<1>1. SysSpec => []PathInv
  BY PathInit, PathStep, SysTypeCorrect, PTL DEF SysSpec
<1> QED
  BY <1>1, LifeInvariance, PTL DEF SysInv

(***************************************************************************)
(* For every number of devices and of commands: a device applies only      *)
(* commands that were given to it.                                         *)
(***************************************************************************)
THEOREM CommandsStayWithTheirDevice == SysSpec => []CommandsReachTheirDevice
<1>1. SysInv => CommandsReachTheirDevice
  <2> SUFFICES ASSUME SysInv, NEW d \in Devices, target[d] # 0 PROVE issued[target[d]] = d
    BY DEF CommandsReachTheirDevice
  <2>1. PathTyped
    BY DEF SysInv, SysTypeOK, PathTyped
  <2>2. target[d] \in Nat
    BY <2>1, PathNumbers
  <2>3. target[d] > 0
    BY <2>2
  <2>4. GivenTo(d, target[d])
    BY DEF SysInv, PathInv, AllGiven, UnderWay
  <2> QED BY <2>3, <2>4 DEF GivenTo
<1> QED
  BY <1>1, SysInvariance, PTL

(***************************************************************************)
(* For every number of devices and of commands, and whatever datagrams are *)
(* lost, late, repeated or out of order: no stage on the way out is ahead  *)
(* of the one before it, and a state is something the device has applied.  *)
(***************************************************************************)
THEOREM StatesHaveCauses == SysSpec => []PipelineCausal
  BY SysInvariance, PTL DEF SysInv, PathInv

(***************************************************************************)
(* What a step does to one device's way: write() moves a command on,       *)
(* read() takes the input buffer, an exchange takes something that was     *)
(* sent; nothing else touches these stages.                                *)
(***************************************************************************)
LEMMA StepOfDevice ==
  ASSUME SysInv, SysNext, NEW d \in Sized
  PROVE  /\ pcmd[d] =< pcmd'[d] /\ out[d] =< out'[d]
         /\ stateVal'[d] \in {stateVal[d], inp[d]}
         /\ inp'[d] \in {inp[d]} \union applied[d]
         /\ applied'[d] \subseteq applied[d] \union {target'[d]}
<1>0. PathTyped /\ PathInv /\ TypeOK /\ j \in Devices
  BY DEF SysInv, SysTypeOK, PathTyped
<1>1. pcmd[d] \in Int /\ out[d] \in Int
  BY <1>0, PathNumbers
<1>2. CASE UNCHANGED <<pcmd, out, inp, stateVal, applied>>
  BY <1>1, <1>2
<1>3. CASE ReadDevice
  <2>1. UNCHANGED <<pcmd, out, inp, applied>> /\ stateVal'[d] \in {stateVal[d], inp[d]}
    BY <1>0, <1>3 DEF ReadDevice, PathTyped, netVars
  <2> QED BY <1>1, <2>1
<1>4. CASE WriteDevice
  <2>1. UNCHANGED <<inp, stateVal, applied>>
    BY <1>4 DEF WriteDevice, netVars
  <2> QED BY <1>0, <1>4, <2>1, WriteGoesForward
<1>5. ASSUME NEW delivered \in Values \union {NoData}, NEW received \in Values \union {NoData},
             Exchange(delivered, received)
      PROVE  /\ pcmd[d] =< pcmd'[d] /\ out[d] =< out'[d]
             /\ stateVal'[d] \in {stateVal[d], inp[d]}
             /\ inp'[d] \in {inp[d]} \union applied[d]
             /\ applied'[d] \subseteq applied[d] \union {target'[d]}
  <2>1. UNCHANGED <<pcmd, out, stateVal>>
    BY <1>5 DEF Exchange
  <2>2. inp'[d] \in applied[d] /\ applied'[d] = applied[d] \union {target'[d]}
    BY <1>0, <1>5, ExchangeTakesWhatWasSent
  <2> QED BY <1>1, <2>1, <2>2
<1> QED
  BY <1>2, <1>3, <1>4, <1>5 DEF SysNext, Lifecycle, OnConfigure, OnActivate, OnDeactivate,
     OnCleanup, OnShutdown, Destroy, OnError, CallbackReturns, ActivateReturns, StopReturns,
     ControllerLoop, BeginLoop, SetCommand, SysControlStep, OpenNewConnection, ControlOnly,
     SysCyclicStep, PushOutput, HandleNothing, CyclicOnly, Terminated, sysVars, dataVars,
     pathVars, netVars

(***************************************************************************)
(* For every number of devices and of commands: neither plugin nor output  *)
(* buffer goes back to an older command, through failed activations,       *)
(* deactivation and reconnection.  What a device applies and what is read  *)
(* may go back: a late datagram does it.                                   *)
(***************************************************************************)
THEOREM OutputsNeverGoBack ==
  SysSpec => [][\A d \in Sized : pcmd[d] =< pcmd'[d] /\ out[d] =< out'[d]]_sysVars
<1>1. SysInv /\ [SysNext]_sysVars
        => [\A d \in Sized : pcmd[d] =< pcmd'[d] /\ out[d] =< out'[d]]_sysVars
  BY StepOfDevice
<1> QED
  BY <1>1, SysInvariance, PTL DEF SysSpec

(***************************************************************************)
(* What the sequence numbers are for, and the code does not do (the        *)
(* receive listener of device_connection.cpp:139 drops them): neither end  *)
(* takes data older than what it has.                                      *)
(***************************************************************************)
OlderIsDropped == \A d \in Sized : target[d] =< target'[d] /\ inp[d] =< inp'[d]

(***************************************************************************)
(* Every stage from the state interface back to the command interface      *)
(* holds an older or the same command.                                     *)
(***************************************************************************)
PipelineOrdered ==
  \A d \in Sized :
    /\ stateVal[d] =< inp[d]
    /\ inp[d] =< target[d]
    /\ target[d] =< out[d]
    /\ out[d] =< pcmd[d]
    /\ cmd[d] # NaN => pcmd[d] =< cmd[d]

NewestApplied ==
  \A d \in Sized : stateVal[d] =< inp[d] /\ \A c \in applied[d] : c =< target[d]

LEMMA NewestAppliedStep ==
  ASSUME SysInv, NewestApplied, SysNext, OlderIsDropped, NEW d \in Sized
  PROVE  /\ stateVal'[d] =< inp'[d] /\ stateVal[d] =< stateVal'[d]
         /\ \A c \in applied'[d] : c =< target'[d]
<1>1. PathTyped /\ PathTyped'
  BY PathType DEF SysInv, SysTypeOK, PathTyped
<1>2. /\ stateVal[d] \in Int /\ inp[d] \in Int /\ target[d] \in Int
      /\ inp'[d] \in Int /\ target'[d] \in Int
      /\ \A c \in applied[d] : c \in Int
  <2>1. stateVal[d] \in Int /\ inp[d] \in Int /\ target[d] \in Int
    BY <1>1, PathNumbers
  <2>2. \A c \in applied[d] : c \in Int
    BY <1>1, NetNumbers
  <2>3. inp'[d] \in Values /\ target'[d] \in Values
    BY <1>1 DEF PathTyped
  <2> QED BY <2>1, <2>2, <2>3 DEF Values
<1>3. /\ stateVal[d] =< inp[d] /\ (\A c \in applied[d] : c =< target[d])
      /\ target[d] =< target'[d] /\ inp[d] =< inp'[d]
  BY DEF NewestApplied, OlderIsDropped
<1>4. stateVal'[d] \in {stateVal[d], inp[d]}
      /\ applied'[d] \subseteq applied[d] \union {target'[d]}
  BY StepOfDevice
<1> QED
  BY <1>2, <1>3, <1>4

(***************************************************************************)
(* The condition under which nothing overtakes between the command         *)
(* interface and the state interface, for every number of devices and of   *)
(* commands: if older datagrams were dropped, which the code does not do,  *)
(* every stage would stay behind the one before it, and no state would go  *)
(* back to an older command.                                               *)
(***************************************************************************)
THEOREM NothingOvertakes ==
  SysSpec /\ [][OlderIsDropped]_sysVars
    => []PipelineOrdered /\ [][\A d \in Sized : stateVal[d] =< stateVal'[d]]_sysVars
<1>1. SysInit => NewestApplied
  BY DEF SysInit, NewestApplied
<1>2. SysInv /\ NewestApplied /\ [SysNext]_sysVars /\ [OlderIsDropped]_sysVars
        => /\ NewestApplied'
           /\ [\A d \in Sized : stateVal[d] =< stateVal'[d]]_sysVars
  <2> SUFFICES ASSUME SysInv, NewestApplied, [SysNext]_sysVars, [OlderIsDropped]_sysVars
               PROVE  /\ NewestApplied'
                      /\ [\A d \in Sized : stateVal[d] =< stateVal'[d]]_sysVars
    OBVIOUS
  <2>1. CASE UNCHANGED sysVars
    BY <2>1 DEF NewestApplied, sysVars, dataVars, pathVars, netVars
  <2>2. CASE SysNext /\ OlderIsDropped
    BY <2>2, NewestAppliedStep DEF NewestApplied
  <2> QED BY <2>1, <2>2
<1>3. SysInv /\ NewestApplied => PipelineOrdered
  BY DEF SysInv, PathInv, UnderWay, PipelineCausal, NewestApplied, PipelineOrdered
<1> QED
  BY <1>1, <1>2, <1>3, SysInvariance, PTL DEF SysSpec

(***************************************************************************)
(* The condition under which the promise of device_config.hpp:36 is kept:  *)
(* if the YAML file gives the size of every output assembly, no output     *)
(* buffer is ever empty, for every number of devices.                      *)
(***************************************************************************)
THEOREM GivenSizesSuffice ==
  ASSUME Sized = Devices PROVE SysSpec => []OutputSizeComputed
<1>1. SysInv => OutputSizeComputed
  <2> SUFFICES ASSUME SysInv, NEW d \in Devices PROVE out[d] # NoData
    BY DEF OutputSizeComputed
  <2>1. PathTyped
    BY DEF SysInv, SysTypeOK, PathTyped
  <2>2. target[d] \in Nat /\ out[d] \in Int /\ target[d] =< out[d]
    BY <2>1, PathNumbers DEF SysInv, PathInv, UnderWay, PipelineCausal
  <2> QED BY <2>2 DEF NoData
<1> QED
  BY <1>1, SysInvariance, PTL

(***************************************************************************)
(* Where the size is known, the output buffer holds what the plugin does.  *)
(***************************************************************************)
SizedAgree == \A d \in Sized : out[d] = pcmd[d]

(***************************************************************************)
(* What StaleOnlyUntilWritten says of one step.                            *)
(***************************************************************************)
NoStaleAfterWrite ==
  \A d \in Sized :
    pcmd[d] > floor /\ sent'[d] \notin {sent[d], NoData} => sent'[d] > floor

(***************************************************************************)
(* Only write() changes either, and it changes both.                       *)
(***************************************************************************)
LEMMA SizedAgreeStep ==
  SysTypeOK /\ SizedAgree /\ [SysNext]_sysVars => SizedAgree'
<1> SUFFICES ASSUME SysTypeOK, SizedAgree, [SysNext]_sysVars, NEW d \in Sized
             PROVE  out'[d] = pcmd'[d]
  BY DEF SizedAgree
<1>0. PathTyped /\ out[d] = pcmd[d]
  BY DEF SysTypeOK, PathTyped, SizedAgree
<1>1. CASE WriteDevice
  BY <1>0, <1>1 DEF WriteDevice, PathTyped
<1>2. CASE UNCHANGED <<out, pcmd>>
  BY <1>0, <1>2
<1> QED
  BY <1>1, <1>2 DEF SysNext, Lifecycle, OnConfigure, OnActivate, OnDeactivate,
     OnCleanup, OnShutdown, Destroy, OnError, CallbackReturns, ActivateReturns, StopReturns,
     ControllerLoop, BeginLoop, ReadDevice, SetCommand, SysControlStep, OpenNewConnection,
     ControlOnly, SysCyclicStep, PushOutput, Exchange, HandleNothing, CyclicOnly, Terminated,
     sysVars, dataVars, pathVars

(***************************************************************************)
(* How far the promise of ethernetip_system.cpp:139 is kept, which the run *)
(* stale_command refutes: a device is sent a command of an earlier         *)
(* activation only until write() has passed on one of this activation; no  *)
(* reconnection and no failed activation brings the old one back.          *)
(***************************************************************************)
THEOREM StaleOnlyUntilWritten == SysSpec => [][NoStaleAfterWrite]_sysVars
<1>1. SysInit => SizedAgree
  BY DEF SysInit, SizedAgree
<1>2. SysTypeOK /\ SizedAgree /\ [SysNext]_sysVars => [NoStaleAfterWrite]_sysVars
  <2> SUFFICES ASSUME SysTypeOK, SizedAgree, SysNext, NEW d \in Sized,
                      pcmd[d] > floor, sent'[d] \notin {sent[d], NoData}
               PROVE  sent'[d] > floor
    BY DEF NoStaleAfterWrite
  <2>0. PathTyped /\ out[d] = pcmd[d] /\ cur \in Devices /\ k \in Nat
    BY DEF SysTypeOK, PathTyped, SizedAgree, TypeOK
  <2>1. CASE PushOutput
    BY <2>0, <2>1 DEF PushOutput, PathTyped
  <2>2. CASE OpenNewConnection
    BY <2>0, <2>2 DEF OpenNewConnection, PathTyped
  <2>3. CASE UNCHANGED sent
    BY <2>3
  <2> QED
    BY <2>1, <2>2, <2>3 DEF SysNext, Lifecycle, OnConfigure, OnActivate, OnDeactivate,
       OnCleanup, OnShutdown, Destroy, OnError, CallbackReturns, ActivateReturns,
       StopReturns, ControllerLoop, BeginLoop, ReadDevice, WriteDevice, SetCommand,
       SysControlStep, ControlOnly, SysCyclicStep, Exchange, HandleNothing, CyclicOnly, Terminated,
       sysVars, dataVars, pathVars
<1>3. SysSpec => []SysTypeOK
  BY SysTypeCorrect
<1> QED
  BY <1>1, <1>2, <1>3, SizedAgreeStep, PTL DEF SysSpec
=============================================================================
