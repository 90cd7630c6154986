-------------------------- MODULE DeviceConnection --------------------------
(***************************************************************************)
(* The connection half of ethernetip_master::DeviceConnection: the state_  *)
(* flag and the EIPScanner handles behind connect(), disconnect() and      *)
(* tick().  Nothing in this class locks state_ or impl_, so the operators  *)
(* below are the bodies of the calls; which thread makes them, and when,   *)
(* is said by the modules that extend this one.                            *)
(*                                                                         *)
(* addDevice() configures a DeviceConnection before it stores it, and      *)
(* configure() cannot fail, so a stored device is never kUnconfigured.     *)
(***************************************************************************)
EXTENDS Integers

CONSTANT N     \* devices_.size(): how many devices the scanner drives

(***************************************************************************)
(* EthernetIPSystem refuses to configure itself without devices.           *)
(***************************************************************************)
ASSUME NAssumption == N \in Nat \ {0}

Devices == 1 .. N                              \* the order of devices_
States  == {"Configured", "Connected", "Error"}

VARIABLES
  state,   \* state[d]: state_ of device d
  io       \* io[d]: does impl_->io_connection.lock() yield a connection?

connVars == <<state, io>>

ConnTypeOK ==
  /\ state \in [Devices -> States]
  /\ io \in [Devices -> BOOLEAN]

ConnInit ==
  /\ state = [d \in Devices |-> "Configured"]
  /\ io = [d \in Devices |-> FALSE]

(***************************************************************************)
(* connect(): the guard at its top, and the two ends of its try block.     *)
(***************************************************************************)
MayConnectAfterError(d) == state[d] # "Connected"

ConnectAlways(d) == TRUE

MayConnect(d) == state[d] = "Configured"

\* forwardOpen() returned.  A target that rejects the request leaves an
\* empty handle, no listener is registered, and state_ still moves on.
ForwardOpenReturns(d) ==
  /\ state' = [state EXCEPT ![d] = "Connected"]
  /\ \E live \in BOOLEAN : io' = [io EXCEPT ![d] = live]

\* The session or the request threw.  The previous manager, and with it any
\* previous connection, is gone unless the session itself failed to open.
ForwardOpenThrows(d) ==
  /\ state' = [state EXCEPT ![d] = "Error"]
  /\ \E live \in {io[d], FALSE} : io' = [io EXCEPT ![d] = live]

(***************************************************************************)
(* disconnect(): nothing unless connected; an exception from ForwardClose  *)
(* is swallowed and may leave the IO connection behind.                    *)
(***************************************************************************)
NeedsClose(d) == state[d] = "Connected"

Disconnect(d) ==
  IF NeedsClose(d)
    THEN /\ state' = [state EXCEPT ![d] = "Configured"]
         /\ \E live \in {io[d], FALSE} : io' = [io EXCEPT ![d] = live]
    ELSE UNCHANGED connVars

(***************************************************************************)
(* tick(): its guard, and handleConnections(), during which EIPScanner may *)
(* drop a connection it has heard nothing from.                            *)
(***************************************************************************)
MayTick(d) == state[d] = "Connected"

HandleConnections(d) ==
  /\ \E live \in {io[d], FALSE} : io' = [io EXCEPT ![d] = live]
  /\ UNCHANGED state
=============================================================================
