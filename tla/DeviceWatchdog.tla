--------------------------- MODULE DeviceWatchdog ---------------------------
(***************************************************************************)
(* The watchdog of one device together with its connection.  Only a packet *)
(* of an IO connection feeds it, from the cyclic thread, inside            *)
(* handleConnections(); it is checked by every read() of ros2_control,     *)
(* which also opens and closes the connection.  connect(), disconnect()    *)
(* and handleConnections() leave it alone, so it runs from configure() on, *)
(* whether there is a connection or not.                                   *)
(***************************************************************************)
EXTENDS Watchdog, DeviceConnection

\* Device 1 is the one.
ASSUME OneDeviceAssumption == N = 1

devVars == <<vars, connVars>>

DevInit == Init /\ ConnInit

\* The cyclic thread runs while the device is connected, and has been joined
\* before the connection is opened or closed.
Open ==
  /\ checker = "idle" /\ MayConnect(1)
  /\ ForwardOpenReturns(1) \/ ForwardOpenThrows(1)
  /\ UNCHANGED vars

Close ==
  /\ checker = "idle" /\ toStore = {} /\ NeedsClose(1)
  /\ Disconnect(1)
  /\ UNCHANGED vars

\* A tick() that feeds the watchdog itself.
ReceiveAnyhow ==
  /\ MayTick(1)
  /\ BeginFeed
  /\ UNCHANGED connVars

\* A packet comes in during handleConnections().
Receive ==
  /\ MayTick(1) /\ io[1]
  /\ BeginFeed
  /\ UNCHANGED connVars

\* None does, and the connection may be dropped.
HearNothing ==
  /\ MayTick(1) /\ toStore = {}
  /\ HandleConnections(1)
  /\ UNCHANGED vars

EndFeed == StoreTime \/ StoreFlag

DevNext ==
  \/ Open \/ Close \/ Receive \/ HearNothing
  \/ (Tick \/ EndFeed \/ Check) /\ UNCHANGED connVars

(***************************************************************************)
(* The fairness of Watchdog; nobody has to open or close, and packets may  *)
(* stop coming.                                                            *)
(***************************************************************************)
DevSpec ==
  /\ DevInit
  /\ [][DevNext]_devVars
  /\ WF_devVars(Tick /\ UNCHANGED connVars)
  /\ WF_devVars(EndFeed /\ UNCHANGED connVars)
  /\ WF_devVars(Check /\ UNCHANGED connVars)

(***************************************************************************)
(* A device without an IO connection, dropped by handleConnections(),      *)
(* rejected by the target or not yet opened, is reported as timed out and  *)
(* stays so, although state_ may go on saying kConnected.                  *)
(***************************************************************************)
LostLinkReported == <>[]~io[1] => <>[]expired
=============================================================================
