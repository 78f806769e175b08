------------------------------ MODULE MCNfLoad ------------------------------
(* Small instances of NfLoad for TLC. *)
EXTENDS NfLoad

(* All NFs but number 4 are of type 1. *)
MCTypeOf == [n \in Nfs |-> IF n = 4 THEN 2 ELSE 1]

(* Type 1: what one NF can bear, what two can, and what they cannot.  Type 2 has
   one NF, if it is started, which cannot bear its traffic. *)
MCTraffic == [t \in NTs |-> IF t = 1 THEN {6, 12, 24} ELSE {12}]
=============================================================================
