------------------------------ MODULE Watchdog ------------------------------
(***************************************************************************)
(* ethernetip_master::Watchdog of one device, configured as                *)
(* DeviceConnection::configure() leaves it.                                *)
(*                                                                         *)
(* feed() runs in the thread that receives packets (the cyclic thread,     *)
(* under input_mutex_), check() in the thread that calls                   *)
(* EthernetIPMaster::read(), under no lock.  last_feed_ and expired_ are   *)
(* plain members, so feed()'s two stores reach the other thread in either  *)
(* order and at any distance: a step of their own each.                    *)
(*                                                                         *)
(* The steady clock is kept as ages in milliseconds, the unit check()      *)
(* compares in.  Ages saturate one above the timeout; all older ages are   *)
(* alike to check().                                                       *)
(***************************************************************************)
EXTENDS Integers

CONSTANTS
  Timeout,      \* timeout_, in milliseconds
  Concurrent    \* do feed() and check() overlap, or are calls one at a time?

ASSUME TimeoutAssumption == Timeout \in Nat
ASSUME ConcurrentAssumption == Concurrent \in BOOLEAN

VARIABLES
  age,       \* now - last_feed_
  expired,   \* expired_
  toStore,   \* the members the current feed() has yet to store
  sample,    \* now - the clock value the current feed() took
  checker,   \* where the checking thread is in check()
  fires      \* history: callbacks since the last feed() or reset() was called

vars == <<age, expired, toStore, sample, checker, fires>>

Members == {"last_feed_", "expired_"}
Ages == 0 .. Timeout + 1
MaxFires == 3     \* the history counter stops here

TypeOK ==
  /\ age \in Ages
  /\ expired \in BOOLEAN
  /\ toStore \in SUBSET Members
  /\ sample \in Ages
  /\ checker \in {"idle", "timing", "expiring"}
  /\ fires \in 0 .. MaxFires

Init ==
  /\ age = 0
  /\ expired = FALSE
  /\ toStore = {}
  /\ sample = 0
  /\ checker = "idle"
  /\ fires = 0

Older(a) == IF a > Timeout THEN a ELSE a + 1

\* A millisecond goes by.
Tick ==
  /\ age' = Older(age)
  /\ sample' = IF toStore = {} THEN 0 ELSE Older(sample)
  /\ UNCHANGED <<expired, toStore, checker, fires>>

-----------------------------------------------------------------------------
(***************************************************************************)
(* feed(): take the time, store it, clear the flag.                        *)
(***************************************************************************)
BeginFeed ==
  /\ toStore = {}
  /\ Concurrent \/ checker = "idle"
  /\ toStore' = Members
  /\ sample' = 0
  /\ fires' = 0
  /\ UNCHANGED <<age, expired, checker>>

\* A feed() that stores the time at which the next packet is due.
StoreDueTime ==
  /\ "last_feed_" \in toStore
  /\ toStore' = toStore \ {"last_feed_"}
  /\ age' = sample - 1
  /\ UNCHANGED <<expired, sample, checker, fires>>

StoreTime ==
  /\ "last_feed_" \in toStore
  /\ toStore' = toStore \ {"last_feed_"}
  /\ age' = sample
  /\ UNCHANGED <<expired, sample, checker, fires>>

\* A feed() that leaves the flag to reset().
StoreFlagForgotten ==
  /\ "expired_" \in toStore
  /\ toStore' = toStore \ {"expired_"}
  /\ UNCHANGED <<age, expired, sample, checker, fires>>

StoreFlag ==
  /\ "expired_" \in toStore
  /\ toStore' = toStore \ {"expired_"}
  /\ expired' = FALSE
  /\ UNCHANGED <<age, sample, checker, fires>>

-----------------------------------------------------------------------------
(***************************************************************************)
(* check(): an expired watchdog says so and does nothing more; one that is *)
(* not compares the time and may then set the flag and call back.          *)
(***************************************************************************)
\* A check() without the early return.
BeginCheckNotLatched ==
  /\ checker = "idle"
  /\ Concurrent \/ toStore = {}
  /\ checker' = "timing"
  /\ UNCHANGED <<age, expired, toStore, sample, fires>>

BeginCheck ==
  /\ checker = "idle"
  /\ Concurrent \/ toStore = {}
  /\ ~expired
  /\ checker' = "timing"
  /\ UNCHANGED <<age, expired, toStore, sample, fires>>

\* elapsed >= timeout_
CompareEarly ==
  /\ checker = "timing"
  /\ checker' = IF age >= Timeout THEN "expiring" ELSE "idle"
  /\ UNCHANGED <<age, expired, toStore, sample, fires>>

\* A comparison whose operands were exchanged.
CompareSwapped ==
  /\ checker = "timing"
  /\ checker' = IF Timeout > age THEN "expiring" ELSE "idle"
  /\ UNCHANGED <<age, expired, toStore, sample, fires>>

Compare ==
  /\ checker = "timing"
  /\ checker' = IF age > Timeout THEN "expiring" ELSE "idle"
  /\ UNCHANGED <<age, expired, toStore, sample, fires>>

Expire ==
  /\ checker = "expiring"
  /\ expired' = TRUE
  /\ fires' = IF fires < MaxFires THEN fires + 1 ELSE fires
  /\ checker' = "idle"
  /\ UNCHANGED <<age, toStore, sample>>

\* reset(), which only a caller without other threads uses.
Reset ==
  /\ ~Concurrent
  /\ toStore = {}
  /\ checker = "idle"
  /\ expired' = FALSE
  /\ age' = 0
  /\ fires' = 0
  /\ UNCHANGED <<toStore, sample, checker>>

-----------------------------------------------------------------------------
Feed  == BeginFeed \/ StoreTime \/ StoreFlag
Check == BeginCheck \/ Compare \/ Expire

Next == Tick \/ Feed \/ Check \/ Reset

(***************************************************************************)
(* Time passes, the ros2_control loop goes on calling read(), and a feed() *)
(* that began ends.  Packets may stop coming.                              *)
(***************************************************************************)
Spec ==
  /\ Init
  /\ [][Next]_vars
  /\ WF_vars(Tick)
  /\ WF_vars(StoreTime \/ StoreFlag)
  /\ WF_vars(Check)

-----------------------------------------------------------------------------
(***************************************************************************)
(* "Return whether the device is currently timed-out" (isExpired(),        *)
(* watchdog.hpp:44): once both of feed()'s stores are done, the flag is    *)
(* set only if nothing was received for longer than the timeout.           *)
(***************************************************************************)
ExpiredMeansSilent == expired /\ toStore = {} => age > Timeout

(***************************************************************************)
(* When calls do not overlap, a silence is reported by one callback,       *)
(* however many checks see it and whatever feeds and resets came before.   *)
(***************************************************************************)
FiresOncePerSilence == fires =< 1

(***************************************************************************)
(* When they overlap, one packet is followed by at most two callbacks      *)
(* before the next one: the check that was under way when it arrived may   *)
(* call back late, and the silence after it may be reported; no order of   *)
(* feed()'s stores lets the flag be cleared and set more often than that.  *)
(***************************************************************************)
AtMostOneLateFire == fires =< 2

(***************************************************************************)
(* A device that falls silent for good is reported and stays reported,     *)
(* whatever race its last packet lost.                                     *)
(***************************************************************************)
SilenceDetected == <>[](toStore = {}) => <>[]expired

(***************************************************************************)
(* A flag set by mistake does not last: if packets go on arriving in time, *)
(* the watchdog is unexpired from some moment on.                          *)
(***************************************************************************)
FeedsHeal ==
  <>[](age =< Timeout) /\ []<>(toStore # {}) => <>[]~expired

(***************************************************************************)
(* What the proofs need.  A check that goes past its early return has seen *)
(* the flag down, and only itself raises it.  The callbacks so far, one    *)
(* for a flag that is down, and one for a feed() yet to lower it, are      *)
(* never more than two together.                                           *)
(***************************************************************************)
CheckSawFlagDown == checker # "idle" => ~expired

FireBudget ==
  fires + (IF expired THEN 0 ELSE 1)
        + (IF "expired_" \in toStore THEN 1 ELSE 0) =< 2

WatchdogInv == TypeOK /\ CheckSawFlagDown /\ FireBudget

(***************************************************************************)
(* With calls one at a time, no check runs inside a feed, and a feed finds *)
(* no callback counted until it ends.                                      *)
(***************************************************************************)
SerialInv ==
  /\ TypeOK
  /\ CheckSawFlagDown
  /\ checker # "idle" => toStore = {}
  /\ checker = "expiring" => age > Timeout
  /\ expired => "expired_" \in toStore \/ (toStore = {} /\ age > Timeout)
  /\ toStore # {} \/ ~expired => fires = 0
  /\ fires =< 1
=============================================================================
