--------------------------- MODULE Watchdog_proofs ---------------------------
(***************************************************************************)
(* Proofs about Watchdog, for every timeout: with calls one at a time the  *)
(* flag means silence and a silence is called back once; with overlapping  *)
(* calls a packet is followed by at most two callbacks.  The watchdog of a *)
(* connected device (DeviceWatchdog) implements Watchdog and inherits that.*)
(* Of its liveness the safe halves are proved: how far a report, or the    *)
(* end of a wrong one, is away, and that no step puts it off.              *)
(***************************************************************************)
EXTENDS DeviceWatchdog, TLAPS

USE TimeoutAssumption, ConcurrentAssumption DEF Ages, MaxFires

(***************************************************************************)
(* Every step keeps the types.  The age stored is the age of a sample.     *)
(***************************************************************************)
LEMMA TypeOKStep == TypeOK /\ [Next]_vars => TypeOK'
<1> SUFFICES ASSUME TypeOK, [Next]_vars PROVE TypeOK'
  OBVIOUS
<1> USE DEF TypeOK, Members
<1>1. CASE Tick
  <2>1. Older(age) \in Ages /\ Older(sample) \in Ages
    BY DEF Older
  <2> QED
    BY <1>1, <2>1 DEF Tick
<1>2. CASE BeginFeed
  BY <1>2 DEF BeginFeed
<1>3. CASE StoreTime
  BY <1>3 DEF StoreTime
<1>4. CASE StoreFlag
  BY <1>4 DEF StoreFlag
<1>5. CASE BeginCheck
  BY <1>5 DEF BeginCheck
<1>6. CASE Compare
  BY <1>6 DEF Compare
<1>7. CASE Expire
  BY <1>7 DEF Expire
<1>8. CASE Reset
  <2>1. age' \in Ages /\ fires' \in 0 .. MaxFires
    BY <1>8 DEF Reset
  <2>2. expired' \in BOOLEAN
    BY <1>8 DEF Reset
  <2> QED
    BY <1>8, <2>1, <2>2 DEF Reset
<1>9. CASE UNCHANGED vars
  BY <1>9 DEF vars
<1> QED
  BY <1>1, <1>2, <1>3, <1>4, <1>5, <1>6, <1>7, <1>8, <1>9 DEF Next, Feed, Check

(***************************************************************************)
(* A watchdog that was just configured has the declared types.             *)
(***************************************************************************)
LEMMA InitTypeOK == Init => TypeOK
<1> SUFFICES ASSUME Init PROVE TypeOK
  OBVIOUS
<1>1. age \in Ages /\ sample \in Ages /\ fires \in 0 .. MaxFires
  BY DEF Init
<1>2. expired \in BOOLEAN
  BY DEF Init
<1>3. checker \in {"idle", "timing", "expiring"} /\ toStore \in SUBSET Members
  BY DEF Init
<1> QED
  BY <1>1, <1>2, <1>3 DEF TypeOK

(***************************************************************************)
(* TypeOK holds of a watchdog in every reachable state, for every timeout. *)
(***************************************************************************)
THEOREM TypeCorrect == Spec => []TypeOK
  BY InitTypeOK, TypeOKStep, PTL DEF Spec

(***************************************************************************)
(* Overlapping or not, every step keeps the budget of callbacks: Expire    *)
(* pays for its callback by raising the flag, StoreFlag for lowering the   *)
(* flag by having been pending.                                            *)
(***************************************************************************)
LEMMA BudgetStep == WatchdogInv /\ [Next]_vars => WatchdogInv'
<1> SUFFICES ASSUME WatchdogInv, [Next]_vars PROVE WatchdogInv'
  OBVIOUS
<1>0. TypeOK /\ TypeOK'
  BY TypeOKStep DEF WatchdogInv
<1> USE DEF WatchdogInv, CheckSawFlagDown, FireBudget, TypeOK, Members
<1>1. CASE Tick
  BY <1>0, <1>1 DEF Tick
<1>2. CASE BeginFeed
  BY <1>0, <1>2 DEF BeginFeed
<1>3. CASE StoreTime
  BY <1>0, <1>3 DEF StoreTime
<1>4. CASE StoreFlag
  BY <1>0, <1>4 DEF StoreFlag
<1>5. CASE BeginCheck
  BY <1>0, <1>5 DEF BeginCheck
<1>6. CASE Compare
  BY <1>0, <1>6 DEF Compare
<1>7. CASE Expire
  BY <1>0, <1>7 DEF Expire
<1>8. CASE Reset
  BY <1>0, <1>8 DEF Reset
<1>9. CASE UNCHANGED vars
  BY <1>0, <1>9 DEF vars
<1> QED
  BY <1>1, <1>2, <1>3, <1>4, <1>5, <1>6, <1>7, <1>8, <1>9 DEF Next, Feed, Check

(***************************************************************************)
(* One packet is followed by at most two callbacks, for every timeout and  *)
(* every overlap of feed() and check().                                    *)
(***************************************************************************)
THEOREM FiresAtMostTwice == Spec => []AtMostOneLateFire
<1>1. Init => WatchdogInv
  BY InitTypeOK DEF Init, WatchdogInv, CheckSawFlagDown, FireBudget
<1>2. WatchdogInv => AtMostOneLateFire
  BY DEF WatchdogInv, FireBudget, TypeOK, AtMostOneLateFire
<1> QED
  BY <1>1, <1>2, BudgetStep, PTL DEF Spec

-----------------------------------------------------------------------------
(***************************************************************************)
(* With calls one at a time every step keeps SerialInv.                    *)
(***************************************************************************)
LEMMA SerialStep ==
  ASSUME Concurrent = FALSE PROVE SerialInv /\ [Next]_vars => SerialInv'
<1> SUFFICES ASSUME SerialInv, [Next]_vars PROVE SerialInv'
  OBVIOUS
<1>0. TypeOK /\ TypeOK'
  BY TypeOKStep DEF SerialInv
<1> USE DEF SerialInv, CheckSawFlagDown, TypeOK, Members
<1>1. CASE Tick
  BY <1>0, <1>1 DEF Tick, Older
<1>2. CASE BeginFeed
  BY <1>0, <1>2 DEF BeginFeed
<1>3. CASE StoreTime
  BY <1>0, <1>3 DEF StoreTime
<1>4. CASE StoreFlag
  BY <1>0, <1>4 DEF StoreFlag
<1>5. CASE BeginCheck
  BY <1>0, <1>5 DEF BeginCheck
<1>6. CASE Compare
  BY <1>0, <1>6 DEF Compare
<1>7. CASE Expire
  <2>1. toStore = {} /\ age > Timeout /\ fires = 0
    BY <1>7 DEF Expire
  <2>2. toStore' = {} /\ age' > Timeout /\ fires' = 1 /\ checker' = "idle" /\ expired'
    BY <1>7, <2>1 DEF Expire
  <2> QED
    BY <1>0, <2>2
<1>8. CASE Reset
  BY <1>0, <1>8 DEF Reset
<1>9. CASE UNCHANGED vars
  BY <1>0, <1>9 DEF vars
<1> QED
  BY <1>1, <1>2, <1>3, <1>4, <1>5, <1>6, <1>7, <1>8, <1>9 DEF Next, Feed, Check

(***************************************************************************)
(* SerialInv holds of every watchdog whose callers take turns.             *)
(***************************************************************************)
LEMMA SerialInvariance ==
  ASSUME Concurrent = FALSE PROVE Spec => []SerialInv
<1>1. Init => SerialInv
  BY InitTypeOK DEF Init, SerialInv, CheckSawFlagDown
<1>2. SerialInv /\ [Next]_vars => SerialInv'
  BY SerialStep
<1> QED
  BY <1>1, <1>2, PTL DEF Spec

(***************************************************************************)
(* When calls do not overlap, a set flag means a silence longer than the   *)
(* timeout, for every timeout.                                             *)
(***************************************************************************)
THEOREM SerialExpiredIsSilent ==
  ASSUME Concurrent = FALSE PROVE Spec => []ExpiredMeansSilent
<1>1. SerialInv => ExpiredMeansSilent
  BY DEF SerialInv, ExpiredMeansSilent
<1>2. Spec => []SerialInv
  BY SerialInvariance
<1> QED
  BY <1>1, <1>2, PTL

(***************************************************************************)
(* When calls do not overlap, a silence is called back at most once.       *)
(***************************************************************************)
THEOREM SerialFiresOnce ==
  ASSUME Concurrent = FALSE PROVE Spec => []FiresOncePerSilence
<1>1. SerialInv => FiresOncePerSilence
  BY DEF SerialInv, FiresOncePerSilence
<1>2. Spec => []SerialInv
  BY SerialInvariance
<1> QED
  BY <1>1, <1>2, PTL

-----------------------------------------------------------------------------
(***************************************************************************)
(* The watchdog inside a connection.  Whatever the connection does, each   *)
(* step is one of the watchdog's or leaves it alone.                       *)
(***************************************************************************)
LEMMA DeviceStep == [DevNext]_devVars => [Next]_vars
<1> SUFFICES ASSUME [DevNext]_devVars PROVE [Next]_vars
  OBVIOUS
<1>1. CASE Open \/ Close \/ HearNothing
  BY <1>1 DEF Open, Close, HearNothing
<1>2. CASE Receive
  BY <1>2 DEF Receive, Next, Feed
<1>3. CASE (Tick \/ EndFeed \/ Check) /\ UNCHANGED connVars
  BY <1>3 DEF EndFeed, Next, Feed
<1>4. CASE UNCHANGED devVars
  BY <1>4 DEF devVars
<1> QED
  BY <1>1, <1>2, <1>3, <1>4 DEF DevNext

(***************************************************************************)
(* A device's watchdog is a Watchdog, its fairness apart.                  *)
(***************************************************************************)
THEOREM DeviceImplementsWatchdog == DevSpec => Init /\ [][Next]_vars
<1>1. DevInit => Init
  BY DEF DevInit
<1> QED
  BY <1>1, DeviceStep, PTL DEF DevSpec

(***************************************************************************)
(* One packet of a device is followed by at most two callbacks, whatever   *)
(* becomes of its connection.                                              *)
(***************************************************************************)
THEOREM DeviceFiresAtMostTwice == DevSpec => []AtMostOneLateFire
<1>1. Init => WatchdogInv
  BY InitTypeOK DEF Init, WatchdogInv, CheckSawFlagDown, FireBudget
<1>2. WatchdogInv => AtMostOneLateFire
  BY DEF WatchdogInv, FireBudget, TypeOK, AtMostOneLateFire
<1> QED
  BY <1>1, <1>2, BudgetStep, DeviceImplementsWatchdog, PTL

(***************************************************************************)
(* A feed() runs inside handleConnections(), so the connection it came     *)
(* through is there until it ends.                                         *)
(***************************************************************************)
FeedHasConnection == toStore # {} => MayTick(1) /\ io[1]

LEMMA FeedConnectionStep ==
  FeedHasConnection /\ [DevNext]_devVars => FeedHasConnection'
<1> SUFFICES ASSUME FeedHasConnection, [DevNext]_devVars PROVE FeedHasConnection'
  OBVIOUS
<1> USE DEF FeedHasConnection, MayTick
<1>1. CASE Open
  BY <1>1 DEF Open, MayConnect, vars
<1>2. CASE Close
  BY <1>2 DEF Close, vars
<1>3. CASE Receive
  BY <1>3 DEF Receive, BeginFeed, connVars
<1>4. CASE HearNothing
  BY <1>4 DEF HearNothing, vars
<1>5. CASE Tick /\ UNCHANGED connVars
  BY <1>5 DEF Tick, connVars
<1>6. CASE EndFeed /\ UNCHANGED connVars
  BY <1>6 DEF EndFeed, StoreTime, StoreFlag, connVars
<1>7. CASE Check /\ UNCHANGED connVars
  BY <1>7 DEF Check, BeginCheck, Compare, Expire, connVars
<1>8. CASE UNCHANGED devVars
  BY <1>8 DEF devVars, vars, connVars
<1> QED
  BY <1>1, <1>2, <1>3, <1>4, <1>5, <1>6, <1>7, <1>8 DEF DevNext

(***************************************************************************)
(* The safe half of LostLinkReported: the report of a device that has no   *)
(* connection is not taken back, whatever feed() was under way when the    *)
(* connection went.                                                        *)
(***************************************************************************)
THEOREM ReportStays == DevSpec => [][~io[1] /\ expired => expired']_devVars
<1>1. DevInit => FeedHasConnection
  BY DEF DevInit, Init, FeedHasConnection
<1>2. FeedHasConnection /\ [DevNext]_devVars => [~io[1] /\ expired => expired']_devVars
  <2> SUFFICES ASSUME FeedHasConnection, [DevNext]_devVars, ~io[1], expired
               PROVE  expired' \/ UNCHANGED devVars
    OBVIOUS
  <2>0. toStore = {}
    BY DEF FeedHasConnection
  <2>1. CASE Open \/ Close \/ Receive \/ HearNothing
    BY <2>1 DEF Open, Close, Receive, HearNothing, BeginFeed, vars
  <2>2. CASE Tick \/ EndFeed \/ Check
    BY <2>0, <2>2
       DEF Tick, EndFeed, StoreTime, StoreFlag, Check, BeginCheck, Compare, Expire
  <2>3. CASE UNCHANGED devVars
    BY <2>3
  <2> QED
    BY <2>1, <2>2, <2>3 DEF DevNext
<1> QED
  BY <1>1, <1>2, FeedConnectionStep, PTL DEF DevSpec

-----------------------------------------------------------------------------
(***************************************************************************)
(* How many milliseconds and steps of check() a silence takes to be        *)
(* reported: the rest of the timeout, then a check from its beginning; a   *)
(* check that is about to call back ends the wait at once.                 *)
(***************************************************************************)
SilenceLeft ==
  CASE expired              -> 0
    [] checker = "expiring" -> 1
    [] OTHER                -> IF age > Timeout
                               THEN IF checker = "timing" THEN 2 ELSE 3
                               ELSE 4 + Timeout - age

\* The steps that get on: time before the timeout, then those of check().
Awaited == IF age > Timeout \/ checker = "expiring" THEN Check ELSE Tick

LEMMA SilenceStep ==
  ASSUME WatchdogInv, Tick \/ Check
  PROVE  SilenceLeft' =< SilenceLeft /\ (~expired /\ Awaited => SilenceLeft' < SilenceLeft)
<1>0. TypeOK /\ CheckSawFlagDown
  BY DEF WatchdogInv
<1> USE DEF SilenceLeft, Awaited, CheckSawFlagDown, TypeOK
<1>1. CASE Tick
  <2>1. UNCHANGED <<expired, checker>> /\ age' = Older(age)
    BY <1>1 DEF Tick
  <2>2. ~Check \/ expired \/ age > Timeout
    BY <1>0, <2>1 DEF Check, BeginCheck, Compare, Expire
  <2>3. age' = IF age > Timeout THEN age ELSE age + 1
    BY <2>1 DEF Older
  <2> QED
    BY <1>0, <1>1, <2>1, <2>2, <2>3 DEF Check, BeginCheck, Compare, Expire
<1>2. CASE BeginCheck
  BY <1>0, <1>2 DEF BeginCheck, Tick, Older
<1>3. CASE Compare
  BY <1>0, <1>3 DEF Compare, Tick, Older
<1>4. CASE Expire
  BY <1>0, <1>4 DEF Expire, Tick, Older
<1> QED
  BY <1>1, <1>2, <1>3, <1>4 DEF Check

(***************************************************************************)
(* The safe half of SilenceDetected: from the end of a feed() to the next  *)
(* one, nothing puts the report off or takes it back, each millisecond up  *)
(* to the timeout brings it nearer, and so does each step of check() after *)
(* it; for every timeout, at most Timeout + 4 of them.                     *)
(***************************************************************************)
THEOREM SilenceComesOut ==
  DevSpec => /\ [](SilenceLeft \in 0 .. Timeout + 4)
             /\ [][toStore = {} /\ toStore' = {} =>
                     /\ SilenceLeft' =< SilenceLeft
                     /\ ~expired /\ Awaited => SilenceLeft' < SilenceLeft]_devVars
<1>1. WatchdogInv => SilenceLeft \in 0 .. Timeout + 4
  BY DEF WatchdogInv, TypeOK, SilenceLeft
<1>2. WatchdogInv /\ [DevNext]_devVars =>
        [toStore = {} /\ toStore' = {} =>
           /\ SilenceLeft' =< SilenceLeft
           /\ ~expired /\ Awaited => SilenceLeft' < SilenceLeft]_devVars
  <2> SUFFICES ASSUME WatchdogInv, DevNext, toStore = {}, toStore' = {}
               PROVE  /\ SilenceLeft' =< SilenceLeft
                      /\ ~expired /\ Awaited => SilenceLeft' < SilenceLeft
    OBVIOUS
  <2>1. CASE Open \/ Close \/ HearNothing
    <3>1. UNCHANGED vars
      BY <2>1 DEF Open, Close, HearNothing
    <3>2. SilenceLeft' = SilenceLeft
      BY <3>1 DEF vars, SilenceLeft
    <3>3. SilenceLeft \in Int
      BY <1>1
    <3>4. ~Awaited \/ expired
      BY <3>1 DEF WatchdogInv, TypeOK, vars, Awaited, Check, BeginCheck, Compare, Expire,
                  Tick, Older
    <3> QED
      BY <3>2, <3>3, <3>4
  <2>2. CASE Tick \/ Check
    BY <2>2, SilenceStep
  <2>3. CASE Receive \/ EndFeed
    BY <2>3 DEF Receive, BeginFeed, EndFeed, StoreTime, StoreFlag, Members
  <2> QED
    BY <2>1, <2>2, <2>3 DEF DevNext
<1>3. DevSpec => []WatchdogInv
  <2>1. Init => WatchdogInv
    BY InitTypeOK DEF Init, WatchdogInv, CheckSawFlagDown, FireBudget
  <2> QED
    BY <2>1, BudgetStep, DeviceImplementsWatchdog, PTL
<1> QED
  BY <1>1, <1>2, <1>3, PTL DEF DevSpec

(***************************************************************************)
(* How many steps a wrong flag has before it: a callback that a race let   *)
(* through, and the next feed()'s store.                                   *)
(***************************************************************************)
HealLeft ==
  CASE checker = "expiring" -> 2
    [] expired              -> 1
    [] OTHER                -> 0

(***************************************************************************)
(* The safe half of FeedsHeal: as long as packets are stored in time, no   *)
(* check starts to call back; the one callback that was already under way  *)
(* may still come, then a feed() lowers the flag, and it stays down.       *)
(***************************************************************************)
THEOREM WrongFlagsHeal ==
  DevSpec => [][age =< Timeout =>
                  /\ HealLeft' =< HealLeft
                  /\ Expire \/ (expired /\ StoreFlag) => HealLeft' < HealLeft]_devVars
<1>1. Init => WatchdogInv
  BY InitTypeOK DEF Init, WatchdogInv, CheckSawFlagDown, FireBudget
<1>2. WatchdogInv /\ [Next]_vars =>
        (age =< Timeout => /\ HealLeft' =< HealLeft
                           /\ Expire \/ (expired /\ StoreFlag) => HealLeft' < HealLeft)
  <2> SUFFICES ASSUME WatchdogInv, [Next]_vars, age =< Timeout
               PROVE  /\ HealLeft' =< HealLeft
                      /\ Expire \/ (expired /\ StoreFlag) => HealLeft' < HealLeft
    OBVIOUS
  <2>0. TypeOK /\ CheckSawFlagDown
    BY DEF WatchdogInv
  <2> USE DEF HealLeft, CheckSawFlagDown, TypeOK
  <2>1. CASE UNCHANGED <<expired, checker>>
    BY <2>0, <2>1 DEF Expire, StoreFlag
  <2>2. CASE StoreFlag
    BY <2>0, <2>2 DEF StoreFlag, Expire
  <2>3. CASE BeginCheck \/ Compare
    BY <2>0, <2>3 DEF BeginCheck, Compare, Expire, StoreFlag
  <2>4. CASE Expire
    BY <2>0, <2>4 DEF Expire, StoreFlag
  <2>5. CASE Reset
    BY <2>0, <2>5 DEF Reset, Expire, StoreFlag
  <2> QED
    BY <2>1, <2>2, <2>3, <2>4, <2>5 DEF Next, Feed, Check, Tick, BeginFeed, StoreTime, vars
<1> QED
  BY <1>1, <1>2, BudgetStep, DeviceImplementsWatchdog, PTL
=============================================================================
