---------------------------- MODULE MCPktProcess ----------------------------
(* Small instances of PktProcess for TLC: NFs 1 and 3 are of type 1, as    *)
(* simple_forward with type 2 as its destination, NF 2 is of type 2, as    *)
(* basic_monitor, or an NF that drops some packets.                        *)
EXTENDS PktProcess

MCHash == [p \in Pkts |-> IF p = 2 THEN 1 ELSE 0]
OneFlow == [p \in Pkts |-> 0]
MCTypeOf == [id \in NfIds |-> IF id = 2 THEN 2 ELSE 1]
MCHandler ==
    [t \in NTs |-> IF t = 1 THEN {[act |-> "TONF", dst |-> 2]}
                   ELSE {[act |-> "OUT", dst |-> 0], [act |-> "DROP", dst |-> 0]}]
=============================================================================
