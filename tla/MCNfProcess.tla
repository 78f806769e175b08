---------------------------- MODULE MCNfProcess ----------------------------
(* Small instances of NfProcess for TLC: the second process asks for id 3. *)
EXTENDS NfProcess

MCAsked == [p \in Procs |-> IF p = 2 THEN 3 ELSE NO_ID]
=============================================================================
