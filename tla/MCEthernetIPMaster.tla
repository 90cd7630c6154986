------------------------- MODULE MCEthernetIPMaster -------------------------
(***************************************************************************)
(* EthernetIPMaster on a small number of devices, and what its header says *)
(* of start().                                                             *)
(***************************************************************************)
EXTENDS EthernetIPMaster

(***************************************************************************)
(* "Open TCP sessions and ForwardOpen for every device"                    *)
(* (ethernetip_master.hpp:40): start() that got as far as spawning the     *)
(* thread has an IO connection to every device.                            *)
(***************************************************************************)
StartOpensEveryDevice == ctl = "spawning" => \A d \in Devices : io[d]
=============================================================================
