--------------------------- MODULE ScannerProtocol ---------------------------
(***************************************************************************)
(* What EthernetIPMaster promises, without its threads.  The scanner is    *)
(* either at rest, when links are opened and closed one at a time, or      *)
(* cycling, when every link is open, none is opened or closed, and one     *)
(* device at a time exchanges IO data.  A link whose ForwardOpen failed    *)
(* stays failed.                                                           *)
(***************************************************************************)
EXTENDS Integers

CONSTANT Devices

VARIABLES
  link,      \* link[d] \in {"closed", "open", "failed"}
  cycling,   \* is cyclic IO going on?
  busy       \* the devices exchanging IO data at this moment

absVars == <<link, cycling, busy>>

Init ==
  /\ link = [d \in Devices |-> "closed"]
  /\ cycling = FALSE
  /\ busy = {}

Open(d) ==
  /\ ~cycling
  /\ link[d] = "closed"
  /\ \E outcome \in {"open", "failed"} : link' = [link EXCEPT ![d] = outcome]
  /\ UNCHANGED <<cycling, busy>>

Close(d) ==
  /\ ~cycling
  /\ link[d] = "open"
  /\ link' = [link EXCEPT ![d] = "closed"]
  /\ UNCHANGED <<cycling, busy>>

BeginCycling ==
  /\ ~cycling
  /\ \A d \in Devices : link[d] = "open"
  /\ cycling' = TRUE
  /\ UNCHANGED <<link, busy>>

BeginExchange(d) ==
  /\ cycling
  /\ busy = {}
  /\ busy' = {d}
  /\ UNCHANGED <<link, cycling>>

EndExchange ==
  /\ busy # {}
  /\ busy' = {}
  /\ UNCHANGED <<link, cycling>>

EndCycling ==
  /\ cycling
  /\ busy = {}
  /\ cycling' = FALSE
  /\ UNCHANGED <<link, busy>>

Next ==
  \/ \E d \in Devices : Open(d) \/ Close(d) \/ BeginExchange(d)
  \/ BeginCycling
  \/ EndExchange
  \/ EndCycling

Spec == Init /\ [][Next]_absVars
=============================================================================
