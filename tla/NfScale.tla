------------------------------- MODULE NfScale -------------------------------
(***************************************************************************)
(* The scale thread of the manager (d2sc_scale.c, main.c), as far as it    *)
(* blocks NFs and runs them again.  What the loads are is left open: where *)
(* the code compares loads, an action may or may not be taken.  A round    *)
(* visits each id and each type; the order of the visits is left open too. *)
(***************************************************************************)
EXTENDS NfTable

InRound ==
    /\ scale_round /\ victim = NULL
    /\ master # "done" /\ crash = "none"

RoundStart ==
    /\ "scale" \in Env
    /\ master = "running" /\ crash = "none" /\ ~scale_round
    /\ scale_round' = TRUE
    /\ UNCHANGED <<infoVars, tableVars, countVars, queueVars, masterVars,
                   victim, blocks, nfVars>>

RoundEnd ==
    /\ InRound
    /\ scale_round' = FALSE
    /\ UNCHANGED <<infoVars, tableVars, countVars, queueVars, masterVars,
                   victim, blocks, nfVars>>

(* d2sc_scale_send_msg to each NF of a set.  A full scale_q would end the
   manager; the bound of the model keeps the queues shorter than that. *)
SendScale(sig, dst) ==
    /\ \A id \in dst : Len(scale_q[id]) < SCALE_Q_BOUND
    /\ scale_q' = [id \in Ids |-> IF id \in dst THEN Append(scale_q[id], sig)
                                                ELSE scale_q[id]]

(* Mutant: the running ids instead of the blocked ones. *)
BlockedIdsRunning(t) ==
    {id \in Ids : IsValid(id) /\ type_id[nf_info[id]] = t}
BlockedIds(t) ==
    {id \in Ids : /\ nf_info[id] # NULL
                  /\ type_id[nf_info[id]] = t
                  /\ status[nf_info[id]] = "BLOCKED"}
Lowest(n, S) == {id \in S : Cardinality({k \in S : k < id}) < n}

(* d2sc_scale_check_overload: a valid NF is overloaded n times, and blocked
   NFs of its type, at most as many as the counters tell, are to run. *)
BlockToRun(t, n) ==
    /\ InRound
    /\ \E id \in Ids : IsValid(id) /\ type_id[nf_info[id]] = t
    /\ n <= (nfs_per_nt_num[t] - nfs_per_nt_available[t]) % U16
    /\ SendScale("SCALE_RUN", Lowest(n, BlockedIds(t)))
    /\ UNCHANGED <<infoVars, tableVars, countVars, new_msg_ring, msg_q,
                   masterVars, scaleVars, nfVars>>

(* Every round asks again those that were told to block and still run. *)
BlockAgain(id) ==
    /\ InRound
    /\ IsValid(id) /\ bk_flag[id] = 1
    /\ SendScale("SCALE_BLOCK", {id})
    /\ UNCHANGED <<infoVars, tableVars, countVars, new_msg_ring, msg_q,
                   masterVars, scaleVars, nfVars>>

(* A type with instances, none of them available: its lowest blocked id, the
   parent's, is told to run. *)
RunParent(t) ==
    /\ InRound
    /\ nfs_per_nt_num[t] # 0 /\ nfs_per_nt_available[t] = 0
    /\ SendScale("SCALE_RUN", Lowest(1, BlockedIds(t)))
    /\ UNCHANGED <<infoVars, tableVars, countVars, new_msg_ring, msg_q,
                   masterVars, scaleVars, nfVars>>

(* d2sc_scale_check_load looks for the id to block from the end of the list
   of the type; without a running NF in the list it walks off its front, and
   an id that is not registered is a null pointer. *)
Listed(t) == {k \in Slots : k < nfs_per_nt_num[t]}
IsRunning(t, k) == IsValid(nts[t][k])
IsVictim(t, k) == IsRunning(t, k) /\ \A j \in Listed(t) : j > k =>
                    nf_info[nts[t][j]] # NULL /\ ~IsRunning(t, j)

CheckLoad(t) ==
    /\ InRound
    /\ nfs_per_nt_num[t] # 0 /\ nfs_per_nt_available[t] > 1
    /\ blocks < BLOCK_BOUND /\ blocks' = blocks + 1
    /\ \/ /\ \E k \in Listed(t) : IsVictim(t, k) /\ victim' = nts[t][k]
          /\ UNCHANGED crash
       \/ /\ ~ \E k \in Listed(t) : IsVictim(t, k)
          /\ crash' = "scale"
          /\ UNCHANGED victim
    /\ UNCHANGED <<infoVars, tableVars, countVars, queueVars, master, msgs,
                   shutdown_iter_cnt, scale_round, nfVars>>

(* Then it sets the flag of that id, whatever the flag is by now. *)
SetBlockFlag ==
    /\ victim # NULL
    /\ master # "done" /\ crash = "none"
    /\ bk_flag' = [bk_flag EXCEPT ![victim] = 1]
    /\ SendScale("SCALE_BLOCK", {victim})
    /\ victim' = NULL
    /\ UNCHANGED <<infoVars, nf_info, countVars, new_msg_ring, msg_q,
                   masterVars, scale_round, blocks, nfVars>>

ScaleStep ==
    \/ RoundStart \/ RoundEnd \/ SetBlockFlag
    \/ \E id \in Ids : BlockAgain(id)
    \/ \E t \in NTs : RunParent(t) \/ CheckLoad(t)
    \/ \E t \in NTs, n \in 1 .. MAX_NFS : BlockToRun(t, n)
=============================================================================
