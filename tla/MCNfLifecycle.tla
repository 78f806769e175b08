---------------------------- MODULE MCNfLifecycle ----------------------------
(* Small instances of NfLifecycle for TLC. *)
EXTENDS NfLifecycle, TLC

CONSTANTS i1, i2, i3

Symmetry == Permutations(Infos)
=============================================================================
