----------------------------- MODULE NfRegistry -----------------------------
(***************************************************************************)
(* What the management of the NFs promises, without threads and messages:  *)
(* an NF that asks for an id is given one that nobody has, or is refused,  *)
(* and it keeps the id until it has announced its end.  No id is ever      *)
(* taken from an NF, or given to two.                                      *)
(***************************************************************************)
CONSTANTS Nfs, Ids, NULL

VARIABLES
    owner,     \* the NF that has the id, or NULL
    phase      \* what each NF is to the registry

Phases == {"out", "asked", "in", "leaving"}

Init ==
    /\ owner = [id \in Ids |-> NULL]
    /\ phase = [n \in Nfs |-> "out"]

Moves(n, from, to) ==
    /\ phase[n] = from
    /\ phase' = [phase EXCEPT ![n] = to]

Ask(n) == Moves(n, "out", "asked") /\ UNCHANGED owner
Refuse(n) == Moves(n, "asked", "out") /\ UNCHANGED owner
Grant(n) ==
    /\ Moves(n, "asked", "in")
    /\ \E id \in Ids : owner[id] = NULL /\ owner' = [owner EXCEPT ![id] = n]
Leave(n) == Moves(n, "in", "leaving") /\ UNCHANGED owner
Release(n) ==
    /\ Moves(n, "leaving", "out")
    /\ \E id \in Ids : owner[id] = n /\ owner' = [owner EXCEPT ![id] = NULL]

Next ==
    \E n \in Nfs :
        Ask(n) \/ Refuse(n) \/ Grant(n) \/ Leave(n) \/ Release(n)

Spec == Init /\ [][Next]_<<owner, phase>>
=============================================================================
