----------------------------- MODULE MCStartUp -----------------------------
(* A small instance of StartUp for TLC: arguments that are left out, given once
   or twice, too large for a uint16_t, 0, and no number at all. *)
EXTENDS StartUp

Opt(o, n) == [opt |-> o, num |-> n, clean |-> TRUE]
MCCommandLines == {
    <<>>, <<Opt("p", 3)>>, <<Opt("p", 6), Opt("r", 1)>>,
    <<Opt("p", 1), Opt("r", 3), Opt("s", 2), Opt("t", 32)>>,
    <<Opt("p", 3), Opt("p", 1)>>, <<Opt("r", 4)>>, <<Opt("r", 65536)>>,
    <<Opt("d", 2), Opt("z", 65537)>>, <<Opt("t", 0)>>, <<Opt("s", 3)>>,
    <<[opt |-> "z", num |-> 3, clean |-> FALSE]>>, <<Opt("?", 0)>>}
=============================================================================
