-------------------------- MODULE EthernetIPMaster --------------------------
(***************************************************************************)
(* ethernetip_master::EthernetIPMaster: start(), stop() and the cyclic IO  *)
(* thread between them.                                                    *)
(*                                                                         *)
(* Two threads run here.  The control thread is whichever thread calls     *)
(* start() and stop(); it makes one call at a time, in any order.  The     *)
(* cyclic thread is the one start() spawns and stop() joins.  They share   *)
(* running_, an atomic, and every DeviceConnection's state_ and EIPScanner *)
(* objects, which nothing protects: a ConnectionManager must not be used   *)
(* by both at once.                                                        *)
(*                                                                         *)
(* A ForwardOpen and a handleConnections() take time, so each is a phase   *)
(* of its thread with a step that begins it and a step that ends it.       *)
(***************************************************************************)
EXTENDS DeviceConnection

VARIABLES
  running,   \* running_
  cyclic,    \* cyclic_thread_: where the loop is, or "none" if not joinable
  cur,       \* the device the loop's for statement is at
  ctl,       \* where the control thread is in start() or stop()
  k,         \* the device the control thread's for statement is at
  started    \* what the last start() returned

threadVars == <<running, cyclic, cur, ctl, k, started>>
vars == <<connVars, threadVars>>

CyclicPhases  == {"none", "check", "push", "handle", "sleep", "exited"}
ControlPhases == {"idle", "starting", "opening", "spawning", "joining", "closing"}

TypeOK ==
  /\ ConnTypeOK
  /\ running \in BOOLEAN
  /\ cyclic \in CyclicPhases
  /\ cur \in Devices
  /\ ctl \in ControlPhases
  /\ k \in Devices
  /\ started \in BOOLEAN

Init ==
  /\ ConnInit
  /\ running = FALSE
  /\ cyclic = "none"
  /\ cur = 1
  /\ ctl = "idle"
  /\ k = 1
  /\ started = FALSE

Joinable == cyclic # "none"                    \* cyclic_thread_.joinable()
Looping  == cyclic \notin {"none", "exited"}   \* the thread may still use devices_

-----------------------------------------------------------------------------
(***************************************************************************)
(* start(): connect the devices in order and give up at the first failure, *)
(* leaving the ones already connected as they are; then spawn the thread.  *)
(***************************************************************************)
CallStart ==
  /\ ctl = "idle"
  /\ ctl' = "starting"
  /\ k' = 1
  /\ UNCHANGED <<connVars, running, cyclic, cur, started>>

StartReturns(result) ==
  /\ ctl' = "idle"
  /\ started' = result

StartRefused ==
  /\ ctl = "starting"
  /\ ~MayConnect(k)
  /\ StartReturns(FALSE)
  /\ UNCHANGED <<connVars, running, cyclic, cur, k>>

BeginConnect ==
  /\ ctl = "starting"
  /\ MayConnect(k)
  /\ ctl' = "opening"
  /\ UNCHANGED <<connVars, running, cyclic, cur, k, started>>

StartNextDevice ==
  IF k < N
    THEN ctl' = "starting" /\ k' = k + 1
    ELSE ctl' = "spawning" /\ UNCHANGED k

ConnectSucceeds ==
  /\ ctl = "opening"
  /\ ForwardOpenReturns(k)
  /\ StartNextDevice
  /\ UNCHANGED <<running, cyclic, cur, started>>

\* A start() that only logs the failure and goes on.
ConnectFailureIgnored ==
  /\ ctl = "opening"
  /\ ForwardOpenThrows(k)
  /\ StartNextDevice
  /\ UNCHANGED <<running, cyclic, cur, started>>

ConnectFails ==
  /\ ctl = "opening"
  /\ ForwardOpenThrows(k)
  /\ StartReturns(FALSE)
  /\ UNCHANGED <<running, cyclic, cur, k>>

Spawn ==
  /\ ctl = "spawning"
  /\ running' = TRUE
  /\ cyclic' = "check"
  /\ StartReturns(TRUE)
  /\ UNCHANGED <<connVars, cur, k>>

-----------------------------------------------------------------------------
(***************************************************************************)
(* stop(): tell the thread to end, wait for it, close the devices in order.*)
(***************************************************************************)
\* A stop() that never tells the thread to end.
CallStopKeepsRunning ==
  /\ ctl = "idle"
  /\ ctl' = "joining"
  /\ UNCHANGED <<connVars, running, cyclic, cur, k, started>>

CallStop ==
  /\ ctl = "idle"
  /\ running' = FALSE
  /\ ctl' = "joining"
  /\ UNCHANGED <<connVars, cyclic, cur, k, started>>

\* A stop() that detaches the thread instead of joining it.
JoinWithoutWaiting ==
  /\ ctl = "joining"
  /\ ctl' = "closing"
  /\ k' = 1
  /\ UNCHANGED <<connVars, running, cyclic, cur, started>>

Join ==
  /\ ctl = "joining"
  /\ cyclic \in {"none", "exited"}
  /\ cyclic' = "none"
  /\ ctl' = "closing"
  /\ k' = 1
  /\ UNCHANGED <<connVars, running, cur, started>>

\* A loop that stops one device short.
CloseNextShort ==
  /\ ctl = "closing"
  /\ Disconnect(k)
  /\ IF k + 1 < N THEN k' = k + 1 /\ UNCHANGED ctl
                  ELSE ctl' = "idle" /\ UNCHANGED k
  /\ UNCHANGED <<running, cyclic, cur, started>>

CloseNext ==
  /\ ctl = "closing"
  /\ Disconnect(k)
  /\ IF k < N THEN k' = k + 1 /\ UNCHANGED ctl
              ELSE ctl' = "idle" /\ UNCHANGED k
  /\ UNCHANGED <<running, cyclic, cur, started>>

-----------------------------------------------------------------------------
(***************************************************************************)
(* cyclicLoop(): test running_, tick every device in order, sleep.         *)
(***************************************************************************)
CyclicCheck ==
  /\ cyclic = "check"
  /\ IF running THEN cyclic' = "push" /\ cur' = 1
                ELSE cyclic' = "exited" /\ UNCHANGED cur
  /\ UNCHANGED <<connVars, running, ctl, k, started>>

\* A loop that never reaches the last device.
TickNextShort ==
  IF cur + 1 < N
    THEN cyclic' = "push" /\ cur' = cur + 1
    ELSE cyclic' = "sleep" /\ UNCHANGED cur

\* A loop that runs one past the end of devices_.
TickNextPastEnd ==
  IF cur =< N
    THEN cyclic' = "push" /\ cur' = cur + 1
    ELSE cyclic' = "sleep" /\ UNCHANGED cur

TickNext ==
  IF cur < N
    THEN cyclic' = "push" /\ cur' = cur + 1
    ELSE cyclic' = "sleep" /\ UNCHANGED cur

\* tick() up to the call of handleConnections(): the output data is handed
\* to the IO connection if there is one.
TickPush ==
  /\ cyclic = "push"
  /\ IF MayTick(cur) THEN cyclic' = "handle" /\ UNCHANGED cur
                     ELSE TickNext
  /\ UNCHANGED <<connVars, running, ctl, k, started>>

TickHandle ==
  /\ cyclic = "handle"
  /\ HandleConnections(cur)
  /\ TickNext
  /\ UNCHANGED <<running, ctl, k, started>>

Sleep ==
  /\ cyclic = "sleep"
  /\ cyclic' = "check"
  /\ UNCHANGED <<connVars, running, cur, ctl, k, started>>

-----------------------------------------------------------------------------
Client == CallStart \/ CallStop

ControlStep ==
  \/ StartRefused
  \/ BeginConnect
  \/ ConnectSucceeds
  \/ ConnectFails
  \/ Spawn
  \/ Join
  \/ CloseNext

CyclicStep ==
  \/ CyclicCheck
  \/ TickPush
  \/ TickHandle
  \/ Sleep

Next == Client \/ ControlStep \/ CyclicStep

(***************************************************************************)
(* A call that was made goes on to its end and so does an iteration of the *)
(* loop: select(), sleep_for() and the TCP exchanges all have timeouts.    *)
(* Nobody has to call start() or stop(), or to call them again.            *)
(***************************************************************************)
Fairness == WF_vars(ControlStep) /\ WF_vars(CyclicStep)

Spec == Init /\ [][Next]_vars /\ Fairness

-----------------------------------------------------------------------------
(***************************************************************************)
(* No ForwardOpen or ForwardClose goes through a device's ConnectionManager *)
(* while the cyclic thread may still be inside handleConnections() on it:   *)
(* connect() and disconnect() take no lock, so the order of start(), stop() *)
(* and join() is all there is to keep the two apart.                        *)
(***************************************************************************)
UsingManager ==
  \/ ctl = "opening"
  \/ ctl = "closing" /\ NeedsClose(k)

ManagerExclusive == UsingManager => ~Looping

(***************************************************************************)
(* start() never assigns to a cyclic_thread_ that is still joinable, which *)
(* would terminate the process, whatever calls came before: a second       *)
(* start(), or one after a failed start(), stops at a device it may not    *)
(* connect.                                                                *)
(***************************************************************************)
ThreadNeverOverwritten == ctl = "spawning" => ~Joinable

(***************************************************************************)
(* However the calls before it ended, and wherever the thread was, when    *)
(* stop() returns the thread is gone and no device is kConnected.          *)
(***************************************************************************)
StopLeavesNoneConnected ==
  [][ctl = "closing" /\ ctl' = "idle"
       => /\ ~running'
          /\ cyclic' = "none"
          /\ \A d \in Devices : state'[d] # "Connected"]_vars

(***************************************************************************)
(* One failed ForwardOpen ends a scanner for good: the device stays kError *)
(* through every later stop() and start(), and cyclic IO never runs again, *)
(* not even for the other devices.                                         *)
(***************************************************************************)
FailureIsPermanent ==
  [][\A d \in Devices :
       state[d] = "Error" => state'[d] = "Error" /\ ~running']_vars

(***************************************************************************)
(* A stop() always comes back: the thread it joins sees running_ at its    *)
(* next test, and no later start() can raise running_ before that.         *)
(***************************************************************************)
StopCompletes == ctl = "joining" ~> ctl = "idle"

(***************************************************************************)
(* As long as the scanner runs, every device gets its turn to send and     *)
(* receive, whatever happens to the connections of the others.             *)
(***************************************************************************)
EveryDeviceServed ==
  \A d \in Devices : running ~> ~running \/ (cyclic = "handle" /\ cur = d)

(***************************************************************************)
(* The invariant the proofs rest on: what the joinable thread says of the  *)
(* devices, and what each phase of start() and stop() has established.     *)
(***************************************************************************)
AllConnected == \A d \in Devices : state[d] = "Connected"

ThreadInv ==
  /\ Joinable => AllConnected
  /\ running => Looping
  /\ Joinable /\ ~running => ctl = "joining"

StartInv ==
  /\ ctl = "starting" => \A d \in 1 .. k - 1 : state[d] = "Connected"
  /\ ctl = "starting" /\ k > 1 => ~Joinable
  /\ ctl = "opening" => /\ ~Joinable
                        /\ state[k] = "Configured"
                        /\ \A d \in 1 .. k - 1 : state[d] = "Connected"
  /\ ctl = "spawning" => ~Joinable /\ AllConnected

StopInv ==
  /\ ctl \in {"joining", "closing"} => ~running
  /\ ctl = "closing" => /\ ~Joinable
                        /\ \A d \in 1 .. k - 1 : state[d] # "Connected"

IInv == TypeOK /\ ThreadInv /\ StartInv /\ StopInv

(***************************************************************************)
(* The threads implement ScannerProtocol: opening and closing only at      *)
(* rest, cyclic IO only with every link open, one device at a time.        *)
(***************************************************************************)
LinkOf(s) == CASE s = "Configured" -> "closed"
               [] s = "Connected"  -> "open"
               [] s = "Error"      -> "failed"

Link == [d \in Devices |-> LinkOf(state[d])]

Abs == INSTANCE ScannerProtocol
         WITH link    <- Link,
              cycling <- Looping,
              busy    <- IF cyclic = "handle" THEN {cur} ELSE {}

ImplementsScannerProtocol == Abs!Spec
=============================================================================
