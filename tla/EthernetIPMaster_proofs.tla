----------------------- MODULE EthernetIPMaster_proofs -----------------------
(***************************************************************************)
(* Proofs about EthernetIPMaster, for every number of devices: its type    *)
(* invariant, the inductive invariant IInv, the safety properties that     *)
(* follow from it, and that it implements ScannerProtocol.                 *)
(***************************************************************************)
EXTENDS EthernetIPMaster, TLAPS

USE NAssumption DEF Devices

(***************************************************************************)
(* Every step of either thread keeps the variables in their types.         *)
(***************************************************************************)
LEMMA TypeOKStep == TypeOK /\ [Next]_vars => TypeOK'
<1> SUFFICES ASSUME TypeOK, [Next]_vars PROVE TypeOK'
  OBVIOUS
<1> USE DEF TypeOK, ConnTypeOK, States, CyclicPhases, ControlPhases, connVars
<1>1. CASE CallStart
  BY <1>1 DEF CallStart
<1>2. CASE CallStop
  BY <1>2 DEF CallStop
<1>3. CASE StartRefused
  BY <1>3 DEF StartRefused, StartReturns
<1>4. CASE BeginConnect
  BY <1>4 DEF BeginConnect
<1>5. CASE ConnectSucceeds
  BY <1>5 DEF ConnectSucceeds, ForwardOpenReturns, StartNextDevice
<1>6. CASE ConnectFails
  BY <1>6 DEF ConnectFails, ForwardOpenThrows, StartReturns
<1>7. CASE Spawn
  BY <1>7 DEF Spawn, StartReturns
<1>8. CASE Join
  BY <1>8 DEF Join
<1>9. CASE CloseNext
  <2>1. ConnTypeOK'
    <3>1. CASE NeedsClose(k)
      BY <1>9, <3>1 DEF CloseNext, Disconnect
    <3>2. CASE ~NeedsClose(k)
      BY <1>9, <3>2 DEF CloseNext, Disconnect
    <3> QED
      BY <3>1, <3>2
  <2> QED
    BY <1>9, <2>1 DEF CloseNext
<1>10. CASE CyclicCheck
  BY <1>10 DEF CyclicCheck
<1>11. CASE TickPush
  BY <1>11 DEF TickPush, TickNext
<1>12. CASE TickHandle
  <2>1. ConnTypeOK'
    BY <1>12 DEF TickHandle, HandleConnections
  <2> QED
    BY <1>12, <2>1 DEF TickHandle, TickNext
<1>13. CASE Sleep
  BY <1>13 DEF Sleep
<1>14. CASE UNCHANGED vars
  BY <1>14 DEF vars, threadVars
<1> QED
  BY <1>1, <1>2, <1>3, <1>4, <1>5, <1>6, <1>7, <1>8, <1>9, <1>10, <1>11,
     <1>12, <1>13, <1>14 DEF Next, Client, ControlStep, CyclicStep

(***************************************************************************)
(* A master that was just built has the declared types.                    *)
(***************************************************************************)
LEMMA InitTypeOK == Init => TypeOK
<1> SUFFICES ASSUME Init PROVE TypeOK
  OBVIOUS
<1>1. ConnTypeOK
  BY DEF Init, ConnInit, ConnTypeOK, States
<1>2. running \in BOOLEAN /\ started \in BOOLEAN
  BY DEF Init
<1>3. cur \in Devices /\ k \in Devices
  BY DEF Init
<1>4. cyclic \in CyclicPhases /\ ctl \in ControlPhases
  BY DEF Init, CyclicPhases, ControlPhases
<1> QED
  BY <1>1, <1>2, <1>3, <1>4 DEF TypeOK

(***************************************************************************)
(* TypeOK holds in every reachable state, whatever the number of devices.  *)
(***************************************************************************)
THEOREM TypeCorrect == Spec => []TypeOK
  BY InitTypeOK, TypeOKStep, PTL DEF Spec

-----------------------------------------------------------------------------
(***************************************************************************)
(* The control thread's steps keep IInv: the devices change only while the *)
(* thread is not joinable, and in the order of the loop counter.           *)
(***************************************************************************)
LEMMA ControlKeepsIInv == IInv /\ (Client \/ ControlStep) => IInv'
<1> SUFFICES ASSUME IInv, Client \/ ControlStep PROVE IInv'
  OBVIOUS
<1>0. TypeOK'
  BY TypeOKStep DEF IInv, Next
<1> USE DEF IInv, TypeOK, ConnTypeOK, ThreadInv, StartInv, StopInv, Joinable,
            Looping, AllConnected, CyclicPhases, ControlPhases, connVars
<1>1. CASE CallStart
  BY <1>0, <1>1 DEF CallStart
<1>2. CASE CallStop
  BY <1>0, <1>2 DEF CallStop
<1>3. CASE StartRefused
  BY <1>0, <1>3 DEF StartRefused, StartReturns
<1>4. CASE BeginConnect
  <2>1. k = 1 => ~Joinable
    BY <1>4 DEF BeginConnect, MayConnect
  <2> QED
    BY <1>0, <1>4, <2>1 DEF BeginConnect, MayConnect
<1>5. CASE ConnectSucceeds
  <2>1. \A d \in 1 .. k : state'[d] = "Connected"
    BY <1>5 DEF ConnectSucceeds, ForwardOpenReturns
  <2>2. ThreadInv' /\ StopInv'
    BY <1>0, <1>5 DEF ConnectSucceeds, ForwardOpenReturns, StartNextDevice
  <2>3. StartInv'
    <3>1. CASE k < N
      BY <1>5, <2>1, <3>1 DEF ConnectSucceeds, StartNextDevice
    <3>2. CASE k = N
      BY <1>5, <2>1, <3>2 DEF ConnectSucceeds, StartNextDevice
    <3> QED
      BY <3>1, <3>2
  <2> QED
    BY <1>0, <2>2, <2>3
<1>6. CASE ConnectFails
  BY <1>0, <1>6 DEF ConnectFails, ForwardOpenThrows, StartReturns
<1>7. CASE Spawn
  BY <1>0, <1>7 DEF Spawn, StartReturns
<1>8. CASE Join
  BY <1>0, <1>8 DEF Join
<1>9. CASE CloseNext
  <2>1. \A d \in 1 .. k : state'[d] # "Connected"
    BY <1>9 DEF CloseNext, Disconnect, NeedsClose
  <2>2. ThreadInv' /\ StartInv'
    BY <1>9 DEF CloseNext
  <2>3. StopInv'
    <3>1. CASE k < N
      BY <1>9, <2>1, <3>1 DEF CloseNext
    <3>2. CASE k = N
      BY <1>9, <3>2 DEF CloseNext
    <3> QED
      BY <3>1, <3>2
  <2> QED
    BY <1>0, <2>2, <2>3
<1> QED
  BY <1>1, <1>2, <1>3, <1>4, <1>5, <1>6, <1>7, <1>8, <1>9 DEF Client, ControlStep

(***************************************************************************)
(* The cyclic thread's steps keep IInv: it never changes a device's state, *)
(* and it ends only when stop() has lowered running_.                      *)
(***************************************************************************)
LEMMA CyclicKeepsIInv == IInv /\ CyclicStep => IInv'
<1> SUFFICES ASSUME IInv, CyclicStep PROVE IInv'
  OBVIOUS
<1>0. TypeOK'
  BY TypeOKStep DEF IInv, Next
<1> USE DEF IInv, TypeOK, ConnTypeOK, ThreadInv, StartInv, StopInv, Joinable,
            Looping, AllConnected, CyclicPhases, ControlPhases, connVars
<1>1. CASE CyclicCheck
  BY <1>0, <1>1 DEF CyclicCheck
<1>2. CASE TickPush
  BY <1>0, <1>2 DEF TickPush, TickNext
<1>3. CASE TickHandle
  BY <1>0, <1>3 DEF TickHandle, HandleConnections, TickNext
<1>4. CASE Sleep
  BY <1>0, <1>4 DEF Sleep
<1> QED
  BY <1>1, <1>2, <1>3, <1>4 DEF CyclicStep

(***************************************************************************)
(* IInv holds of a master that was just built and is kept by every step.   *)
(***************************************************************************)
LEMMA InitIInv == Init => IInv
  BY InitTypeOK DEF Init, IInv, ThreadInv, StartInv, StopInv, Joinable, Looping

LEMMA NextKeepsIInv == IInv /\ [Next]_vars => IInv'
<1>1. IInv /\ UNCHANGED vars => IInv'
  BY DEF vars, connVars, threadVars, IInv, TypeOK, ConnTypeOK, ThreadInv, StartInv,
         StopInv, Joinable, Looping, AllConnected
<1> QED
  BY <1>1, ControlKeepsIInv, CyclicKeepsIInv DEF Next

(***************************************************************************)
(* IInv holds in every reachable state: a joinable thread implies that     *)
(* every device is connected, and each phase of start() and stop() knows   *)
(* what the phases before it did.                                          *)
(***************************************************************************)
THEOREM Invariance == Spec => []IInv
  BY InitIInv, NextKeepsIInv, PTL DEF Spec

-----------------------------------------------------------------------------
(***************************************************************************)
(* For every number of devices, no ForwardOpen or ForwardClose runs while  *)
(* the cyclic thread may be using the same ConnectionManager.              *)
(***************************************************************************)
THEOREM ManagerIsExclusive == Spec => []ManagerExclusive
<1>1. IInv => ManagerExclusive
  BY DEF IInv, StartInv, StopInv, Joinable, Looping, ManagerExclusive, UsingManager
<1> QED
  BY <1>1, Invariance, PTL

(***************************************************************************)
(* For every number of devices but none, start() never assigns to a        *)
(* joinable cyclic_thread_.  (Without devices a second start() would.)     *)
(***************************************************************************)
THEOREM ThreadIsNeverOverwritten == Spec => []ThreadNeverOverwritten
<1>1. IInv => ThreadNeverOverwritten
  BY DEF IInv, StartInv, ThreadNeverOverwritten
<1> QED
  BY <1>1, Invariance, PTL

(***************************************************************************)
(* The step with which stop() returns closes the last device; StopInv says *)
(* that the ones before it are closed.                                     *)
(***************************************************************************)
LEMMA LastCloseLeavesNoneConnected ==
  ASSUME IInv, [Next]_vars, ctl = "closing", ctl' = "idle"
  PROVE  ~running' /\ cyclic' = "none" /\ \A d \in Devices : state'[d] # "Connected"
<1>1. CloseNext /\ k = N
  BY DEF IInv, TypeOK, Next, Client, ControlStep, CyclicStep, CallStart,
     CallStop, StartRefused, BeginConnect, ConnectSucceeds, ConnectFails, Spawn,
     Join, CloseNext, CyclicCheck, TickPush, TickHandle, Sleep, vars, threadVars
<1>2. ~running' /\ cyclic' = "none"
  BY <1>1 DEF IInv, StopInv, Joinable, CloseNext
<1>3. \A d \in Devices : state'[d] # "Connected"
  BY <1>1 DEF IInv, StopInv, TypeOK, ConnTypeOK, CloseNext, Disconnect,
     NeedsClose, connVars
<1> QED
  BY <1>2, <1>3

(***************************************************************************)
(* When stop() returns the thread is gone and no device is kConnected.     *)
(***************************************************************************)
THEOREM StopDisconnectsAll == Spec => StopLeavesNoneConnected
<1>1. IInv /\ [Next]_vars =>
        [ctl = "closing" /\ ctl' = "idle"
           => /\ ~running'
              /\ cyclic' = "none"
              /\ \A d \in Devices : state'[d] # "Connected"]_vars
  BY LastCloseLeavesNoneConnected
<1> QED
  BY <1>1, Invariance, PTL DEF Spec, StopLeavesNoneConnected

(***************************************************************************)
(* A device that is kError stays so: only connect() leaves kConfigured for *)
(* it, and disconnect() passes over it.                                    *)
(***************************************************************************)
LEMMA ErrorStays ==
  ASSUME IInv, [Next]_vars, NEW d \in Devices, state[d] = "Error"
  PROVE  state'[d] = "Error"
<1> USE DEF IInv, TypeOK, ConnTypeOK, connVars
<1>1. CASE ConnectSucceeds
  BY <1>1 DEF ConnectSucceeds, ForwardOpenReturns, StartInv
<1>2. CASE ConnectFails
  BY <1>2 DEF ConnectFails, ForwardOpenThrows, StartInv
<1>3. CASE CloseNext
  BY <1>3 DEF CloseNext, Disconnect, NeedsClose
<1>4. CASE TickHandle
  BY <1>4 DEF TickHandle, HandleConnections
<1>5. CASE UNCHANGED state
  BY <1>5
<1> QED
  BY <1>1, <1>2, <1>3, <1>4, <1>5 DEF Next, Client, ControlStep, CyclicStep,
     CallStart, CallStop, StartRefused, BeginConnect, Spawn, Join, CyclicCheck,
     TickPush, Sleep, vars

(***************************************************************************)
(* A device that is kError stays so and the scanner does not run: a thread *)
(* needs every device.                                                     *)
(***************************************************************************)
THEOREM FailureIsFinal == Spec => FailureIsPermanent
<1>1. ASSUME IInv, IInv', [Next]_vars, NEW d \in Devices, state[d] = "Error"
      PROVE  state'[d] = "Error" /\ ~running'
  BY <1>1, ErrorStays DEF IInv, ThreadInv, Looping, Joinable, AllConnected
<1>2. IInv /\ IInv' /\ [Next]_vars =>
        [\A d \in Devices :
           state[d] = "Error" => state'[d] = "Error" /\ ~running']_vars
  BY <1>1
<1> QED
  BY <1>2, Invariance, PTL DEF Spec, FailureIsPermanent

-----------------------------------------------------------------------------
(***************************************************************************)
(* A change of one device's state is a change of the one link.             *)
(***************************************************************************)
LEMMA LinkFollowsState ==
  ASSUME TypeOK, NEW s, state' = [state EXCEPT ![k] = s]
  PROVE  Link' = [Link EXCEPT ![k] = LinkOf(s)]
  BY DEF TypeOK, ConnTypeOK, Link

(***************************************************************************)
(* Opening or failing to open a device is an Open step of the protocol:    *)
(* IInv says the link was closed and the thread is not there.              *)
(***************************************************************************)
LEMMA OpenImplementsOpen ==
  ASSUME IInv, ConnectSucceeds \/ ConnectFails PROVE Abs!Open(k)
<1> USE DEF IInv, TypeOK, ConnTypeOK, StartInv, Joinable, Looping
<1>1. state[k] = "Configured" /\ cyclic = "none" /\ cyclic' = "none"
  BY DEF ConnectSucceeds, ConnectFails
<1>2. PICK outcome \in {"Connected", "Error"} :
        state' = [state EXCEPT ![k] = outcome]
  BY DEF ConnectSucceeds, ConnectFails, ForwardOpenReturns, ForwardOpenThrows
<1>3. Link[k] = "closed"
  BY <1>1 DEF Link, LinkOf
<1>4. Link' = [Link EXCEPT ![k] = LinkOf(outcome)]
  BY <1>2, LinkFollowsState
<1>5. LinkOf(outcome) \in {"open", "failed"}
  BY DEF LinkOf
<1> QED
  BY <1>1, <1>3, <1>4, <1>5 DEF Abs!Open

(***************************************************************************)
(* Closing a connected device is a Close step of the protocol, and passing *)
(* over one that is not connected changes nothing.                         *)
(***************************************************************************)
LEMMA CloseImplementsClose ==
  ASSUME IInv, CloseNext PROVE Abs!Close(k) \/ UNCHANGED Abs!absVars
<1> USE DEF IInv, TypeOK, ConnTypeOK, StopInv, Joinable, Looping
<1>1. cyclic = "none" /\ cyclic' = "none" /\ UNCHANGED cur
  BY DEF CloseNext
<1>2. CASE NeedsClose(k)
  <2>1. state' = [state EXCEPT ![k] = "Configured"]
    BY <1>2 DEF CloseNext, Disconnect
  <2>2. Link' = [Link EXCEPT ![k] = LinkOf("Configured")]
    BY <2>1, LinkFollowsState
  <2>3. Link[k] = "open" /\ LinkOf("Configured") = "closed"
    BY <1>2 DEF NeedsClose, Link, LinkOf
  <2> QED
    BY <1>1, <2>2, <2>3 DEF Abs!Close
<1>3. CASE ~NeedsClose(k)
  BY <1>1, <1>3 DEF CloseNext, Disconnect, connVars, Link, Abs!absVars
<1> QED
  BY <1>2, <1>3

(***************************************************************************)
(* Every step of the two threads is a step of ScannerProtocol or changes   *)
(* nothing it can see.                                                     *)
(***************************************************************************)
LEMMA StepImplementsStep ==
  ASSUME IInv, [Next]_vars PROVE [Abs!Next]_(Abs!absVars)
<1> USE DEF IInv, TypeOK, Looping, connVars
<1>1. CASE ConnectSucceeds \/ ConnectFails
  BY <1>1, OpenImplementsOpen DEF Abs!Next
<1>2. CASE CloseNext
  BY <1>2, CloseImplementsClose DEF Abs!Next
<1>3. CASE Spawn
  <2>1. \A d \in Devices : Link[d] = "open"
    BY <1>3 DEF Spawn, StartInv, AllConnected, Link, LinkOf
  <2>2. cyclic = "none" /\ cyclic' = "check" /\ UNCHANGED Link
    BY <1>3 DEF Spawn, StartInv, Joinable, Link
  <2> QED
    BY <2>1, <2>2 DEF Abs!BeginCycling, Abs!Next
<1>4. CASE CyclicCheck
  <2>1. UNCHANGED Link
    BY <1>4 DEF CyclicCheck, Link
  <2> QED
    BY <1>4, <2>1 DEF CyclicCheck, Abs!EndCycling, Abs!Next, Abs!absVars
<1>5. CASE TickPush
  <2>1. MayTick(cur) /\ UNCHANGED Link
    BY <1>5 DEF TickPush, ThreadInv, Joinable, AllConnected, MayTick, Link
  <2> QED
    BY <1>5, <2>1 DEF TickPush, Abs!BeginExchange, Abs!Next
<1>6. CASE TickHandle
  <2>1. UNCHANGED Link
    BY <1>6 DEF TickHandle, HandleConnections, Link
  <2> QED
    BY <1>6, <2>1 DEF TickHandle, TickNext, Abs!EndExchange, Abs!Next
<1>7. CASE Join
  BY <1>7 DEF Join, Link, Abs!absVars
<1>8. CASE Sleep
  BY <1>8 DEF Sleep, Link, Abs!absVars
<1>9. CASE UNCHANGED <<state, cyclic, cur>>
  BY <1>9 DEF Link, Abs!absVars
<1> QED
  BY <1>1, <1>2, <1>3, <1>4, <1>5, <1>6, <1>7, <1>8, <1>9 DEF Next, Client,
     ControlStep, CyclicStep, CallStart, CallStop, StartRefused, BeginConnect,
     StartReturns, vars, threadVars

(***************************************************************************)
(* The master implements ScannerProtocol for every number of devices.      *)
(***************************************************************************)
THEOREM Refinement == Spec => ImplementsScannerProtocol
<1>1. Init => Abs!Init
  BY DEF Init, ConnInit, Looping, Link, LinkOf, Abs!Init
<1>2. IInv /\ [Next]_vars => [Abs!Next]_(Abs!absVars)
  BY StepImplementsStep
<1> QED
  BY <1>1, <1>2, Invariance, PTL DEF Spec, ImplementsScannerProtocol, Abs!Spec

-----------------------------------------------------------------------------
(***************************************************************************)
(* How long stop() and a device's turn can take, in steps.  What these     *)
(* numbers count down to needs the scheduler's fairness besides, and is    *)
(* StopCompletes and EveryDeviceServed.                                    *)
(***************************************************************************)
StepsToExit ==
  CASE cyclic = "push"   -> 2 * (N - cur) + 4
    [] cyclic = "handle" -> 2 * (N - cur) + 3
    [] cyclic = "sleep"  -> 2
    [] cyclic = "check"  -> 1
    [] OTHER             -> 0

StopLeft ==
  CASE ctl = "joining" -> StepsToExit + N + 1
    [] ctl = "closing" -> N - k + 1
    [] OTHER           -> 0

LEMMA StopLeftType == TypeOK => StepsToExit \in Nat /\ StopLeft \in Nat
<1> SUFFICES ASSUME TypeOK PROVE StepsToExit \in Nat /\ StopLeft \in Nat
  OBVIOUS
<1>1. StepsToExit \in Nat
  BY DEF TypeOK, StepsToExit
<1> QED
  BY <1>1 DEF TypeOK, StopLeft

(***************************************************************************)
(* With running_ down, each step of the loop is one less to its end, at    *)
(* whatever device it was and whichever it may still tick.                 *)
(***************************************************************************)
LEMMA LoopRunsOut ==
  ASSUME TypeOK, ~running, CyclicStep PROVE StepsToExit' < StepsToExit
<1> USE DEF TypeOK, StepsToExit
<1>1. CASE CyclicCheck
  BY <1>1 DEF CyclicCheck
<1>2. CASE TickPush
  BY <1>2 DEF TickPush, TickNext
<1>3. CASE TickHandle
  BY <1>3 DEF TickHandle, TickNext
<1>4. CASE Sleep
  BY <1>4 DEF Sleep
<1> QED
  BY <1>1, <1>2, <1>3, <1>4 DEF CyclicStep

LEMMA StopLeftStep ==
  ASSUME IInv, Next, ctl \in {"joining", "closing"} PROVE StopLeft' < StopLeft
<1>0. TypeOK /\ ~running
  BY DEF IInv, StopInv
<1>1. CASE CyclicStep
  <2>1. UNCHANGED <<ctl, k>> /\ cyclic # "none"
    BY <1>1 DEF CyclicStep, CyclicCheck, TickPush, TickHandle, Sleep
  <2>2. ctl = "joining"
    BY <2>1 DEF IInv, StopInv, Joinable
  <2>3. StepsToExit' < StepsToExit /\ StepsToExit \in Nat /\ StepsToExit' \in Nat
    <3>1. TypeOK'
      BY <1>0, TypeOKStep
    <3>2. StepsToExit' \in Nat
      BY <3>1 DEF TypeOK, StepsToExit
    <3> QED
      BY <1>0, <1>1, <3>2, LoopRunsOut, StopLeftType
  <2>4. \A a, b \in Nat : a < b => a + N + 1 < b + N + 1
    OBVIOUS
  <2> HIDE DEF StepsToExit
  <2>5. StopLeft = StepsToExit + N + 1 /\ StopLeft' = StepsToExit' + N + 1
    BY <2>1, <2>2 DEF StopLeft
  <2> QED
    BY <2>3, <2>4, <2>5
<1>2. CASE Join
  <2>1. StepsToExit \in Nat /\ ctl = "joining" /\ ctl' = "closing" /\ k' = 1
    BY <1>0, <1>2, StopLeftType DEF Join
  <2> QED
    BY <2>1 DEF StopLeft
<1>3. CASE CloseNext
  BY <1>0, <1>3 DEF CloseNext, TypeOK, StopLeft
<1> QED
  BY <1>1, <1>2, <1>3 DEF Next, Client, CallStart, CallStop, ControlStep, StartRefused,
     BeginConnect, ConnectSucceeds, ConnectFails, Spawn

(***************************************************************************)
(* The safe half of StopCompletes: once stop() has been called, whatever   *)
(* happens brings its return nearer.  No step of the loop, and none of     *)
(* start(), can put it off.                                                *)
(***************************************************************************)
THEOREM StopAdvances ==
  Spec => /\ [](StopLeft \in Nat)
          /\ [][(ctl \in {"joining", "closing"}) => StopLeft' < StopLeft]_vars
<1>1. IInv => StopLeft \in Nat
  BY StopLeftType DEF IInv
<1>2. IInv /\ [Next]_vars => [(ctl \in {"joining", "closing"}) => StopLeft' < StopLeft]_vars
  BY StopLeftStep
<1> QED
  BY <1>1, <1>2, Invariance, PTL DEF Spec

(***************************************************************************)
(* The steps of the loop until it is inside handleConnections() of d.      *)
(***************************************************************************)
UntilServed(d) ==
  CASE cyclic = "push"   -> 2 * (d - cur) + 1 + (IF cur > d THEN 2 * N + 2 ELSE 0)
    [] cyclic = "handle" -> 2 * (d - cur) + (IF cur > d THEN 2 * N + 2 ELSE 0)
    [] cyclic = "sleep"  -> 2 * d + 1
    [] OTHER             -> 2 * d

LEMMA UntilServedType ==
  ASSUME TypeOK, NEW d \in Devices
  PROVE  /\ UntilServed(d) \in 0 .. 2 * N + 1
         /\ Looping => (UntilServed(d) = 0 <=> cyclic = "handle" /\ cur = d)
BY DEF TypeOK, UntilServed, Looping, CyclicPhases

LEMMA TurnComesNearer ==
  ASSUME IInv, running, CyclicStep, NEW d \in Devices, ~(cyclic = "handle" /\ cur = d)
  PROVE  UntilServed(d)' < UntilServed(d)
<1> USE DEF TypeOK, UntilServed
<1>0. TypeOK /\ \A e \in Devices : MayTick(e)
  BY DEF IInv, ThreadInv, Looping, Joinable, AllConnected, MayTick
<1>1. CASE CyclicCheck
  BY <1>0, <1>1 DEF CyclicCheck
<1>2. CASE TickPush
  BY <1>0, <1>2 DEF TickPush
<1>3. CASE TickHandle
  BY <1>0, <1>3 DEF TickHandle, TickNext
<1>4. CASE Sleep
  BY <1>0, <1>4 DEF Sleep
<1> QED
  BY <1>1, <1>2, <1>3, <1>4 DEF CyclicStep

(***************************************************************************)
(* The safe half of EveryDeviceServed: while the scanner runs a device is  *)
(* never more than 2 N + 1 steps of the loop from its turn, each step      *)
(* brings it nearer, and none of the control thread's takes it away.       *)
(***************************************************************************)
THEOREM EveryTurnComes ==
  Spec => /\ [](\A d \in Devices : UntilServed(d) \in 0 .. 2 * N + 1)
          /\ [][\A d \in Devices :
                  running /\ running' /\ ~(cyclic = "handle" /\ cur = d)
                    => IF CyclicStep THEN UntilServed(d)' < UntilServed(d)
                                     ELSE UntilServed(d)' = UntilServed(d)]_vars
<1>1. IInv => \A d \in Devices : UntilServed(d) \in 0 .. 2 * N + 1
  BY UntilServedType DEF IInv
<1>2. ASSUME IInv, Next, running, running', ~CyclicStep, NEW d \in Devices
      PROVE  UntilServed(d)' = UntilServed(d)
  <2>1. ctl # "spawning" /\ ctl # "joining"
    BY <1>2 DEF IInv, ThreadInv, StartInv, StopInv, Looping, Joinable
  <2>2. UNCHANGED <<cyclic, cur>>
    BY <1>2, <2>1 DEF Next, Client, CallStart, CallStop, ControlStep, StartRefused,
       BeginConnect, ConnectSucceeds, ConnectFails, Spawn, Join, CloseNext
  <2> QED
    BY <2>2 DEF UntilServed
<1>3. IInv /\ [Next]_vars =>
        [\A d \in Devices :
           running /\ running' /\ ~(cyclic = "handle" /\ cur = d)
             => IF CyclicStep THEN UntilServed(d)' < UntilServed(d)
                              ELSE UntilServed(d)' = UntilServed(d)]_vars
  BY <1>2, TurnComesNearer
<1> QED
  BY <1>1, <1>3, Invariance, PTL DEF Spec
=============================================================================
