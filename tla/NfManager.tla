------------------------------ MODULE NfManager ------------------------------
(***************************************************************************)
(* The master thread of the manager: it polls new_msg_ring and handles the *)
(* life-cycle messages of the NFs (d2sc_nf.c), and at shutdown it tells    *)
(* every registered NF to stop and waits a bounded time for their exits    *)
(* (main.c).  A handler is one action.                                     *)
(***************************************************************************)
EXTENDS NfTable

(* The loop of the master dequeues the whole ring in one bulk ... *)
CheckStatus ==
    /\ master = "running" /\ crash = "none"
    /\ msgs = <<>> /\ new_msg_ring # <<>>
    /\ msgs' = new_msg_ring
    /\ new_msg_ring' = <<>>
    /\ UNCHANGED <<infoVars, tableVars, countVars, msg_q, scale_q, master,
                   shutdown_iter_cnt, crash, scaleVars, nfVars>>

(* Mutant: the batch is walked from its end. *)
HandlingNewestFirst(type, i) ==
    /\ crash = "none"
    /\ msgs # <<>> /\ msgs[Len(msgs)] = [msg_type |-> type, info |-> i]
    /\ msgs' = SubSeq(msgs, 1, Len(msgs) - 1)
    /\ UNCHANGED <<queueVars, master, shutdown_iter_cnt, scaleVars, nfVars>>

(* ... and then handles the messages one by one. *)
Handling(type, i) ==
    /\ crash = "none"
    /\ msgs # <<>> /\ Head(msgs) = [msg_type |-> type, info |-> i]
    /\ msgs' = Tail(msgs)
    /\ UNCHANGED <<queueVars, master, shutdown_iter_cnt, scaleVars, nfVars>>

(* The ids d2sc_nf_next_inst_id tries: every one from next_inst_id up to the
   first whose NF is not running, or all when there is none.  It returns the
   last one tried, MAX_NFS when there was none left to try. *)
TriedUpTo(id) ==
    /\ \A k \in next_inst_id .. id - 1 : IsValid(k)
    /\ id = MAX_NFS - 1 \/ ~IsValid(id)
(* Mutant: next_inst_id is not advanced past the id that is returned. *)
NextInstIdKept(id) ==
    /\ id \in next_inst_id .. MAX_NFS
    /\ IF next_inst_id >= MAX_NFS THEN id = MAX_NFS ELSE TriedUpTo(id)
    /\ next_inst_id' = id
NextInstId(id) ==
    IF next_inst_id >= MAX_NFS
    THEN id = MAX_NFS /\ UNCHANGED next_inst_id
    ELSE /\ id \in next_inst_id .. MAX_NFS - 1
         /\ TriedUpTo(id)
         /\ next_inst_id' = id + 1

(* The id of a starting NF: its own choice, else the manager's. *)
ChosenId(i, id) ==
    IF inst_id[i] = NO_ID THEN NextInstId(id)
                          ELSE id = inst_id[i] /\ UNCHANGED next_inst_id

(* Mutant: the NF is not told why. *)
RefuseSilently(i, why) == UNCHANGED <<status, inst_id, nf_info>>
Refuse(i, why) ==
    /\ status' = [status EXCEPT ![i] = why]
    /\ UNCHANGED <<inst_id, nf_info>>

(* Mutant: the struct does not learn its id. *)
RegisterWithoutId(i, id) ==
    /\ nf_info' = [nf_info EXCEPT ![id] = i]
    /\ status' = [status EXCEPT ![i] = "STARTING"]
    /\ UNCHANGED inst_id
Register(i, id) ==
    /\ inst_id' = [inst_id EXCEPT ![i] = id]
    /\ nf_info' = [nf_info EXCEPT ![id] = i]
    /\ status' = [status EXCEPT ![i] = "STARTING"]

(* Mutant: an id in use is not looked for. *)
AssignUnchecked(i, id) ==
    IF id >= MAX_NFS THEN Refuse(i, "NO_IDS") ELSE Register(i, id)
Assign(i, id) ==
    \/ id >= MAX_NFS /\ Refuse(i, "NO_IDS")
    \/ id < MAX_NFS /\ IsValid(id) /\ Refuse(i, "ID_CONFLICT")
    \/ id < MAX_NFS /\ ~IsValid(id) /\ Register(i, id)

NfStart(i) ==
    /\ Handling("NF_STARTING", i)
    /\ \/ /\ status[i] # "WAITTING_FOR_ID"
          /\ UNCHANGED <<status, inst_id, nf_info, next_inst_id>>
       \/ /\ status[i] = "WAITTING_FOR_ID"
          /\ \E id \in Ids \cup {MAX_NFS, inst_id[i]} :
               ChosenId(i, id) /\ Assign(i, id)
    /\ UNCHANGED <<type_id, info_pool, bk_flag, nts, nfs_per_nt_num,
                   nfs_per_nt_available, num_nfs, crash>>

(* The handler appends the id to the list of its type without looking at the
   length of the list; what a write past its end hits is not modelled. *)
AddToType(t, id) ==
    nts' = IF nfs_per_nt_num[t] \in Slots
           THEN [nts EXCEPT ![t][nfs_per_nt_num[t]] = id] ELSE nts

NfReady(i) ==
    /\ Handling("NF_READY", i)
    /\ \/ /\ status[i] # "STARTING"
          /\ UNCHANGED <<status, nts, nfs_per_nt_num, nfs_per_nt_available,
                         num_nfs>>
       \/ /\ status[i] = "STARTING"
          /\ status' = [status EXCEPT ![i] = "RUNNING"]
          /\ AddToType(type_id[i], inst_id[i])
          /\ nfs_per_nt_num' =
               [nfs_per_nt_num EXCEPT ![type_id[i]] = Inc(@)]
          /\ nfs_per_nt_available' =
               [nfs_per_nt_available EXCEPT ![type_id[i]] = Inc(@)]
          /\ num_nfs' = Inc(num_nfs)
    /\ UNCHANGED <<inst_id, type_id, info_pool, tableVars, next_inst_id,
                   crash>>

(* Removing an id from the list of a type leaves a hole at its first
   occurrence, and the entries behind the hole move one slot down, as far as
   the first 0. *)
IsHole(list, id, m) == list[m] = id /\ \A j \in 0 .. m - 1 : list[j] # id
(* Mutant: the entries behind the hole stay where they are. *)
WithoutMoving(list, id) ==
    [k \in Slots |-> IF IsHole(list, id, k) THEN 0 ELSE list[k]]
Refilled(list, id, k) ==
    \E m \in 0 .. k :
        IsHole(list, id, m) /\ \A j \in m + 1 .. k : list[j] # 0
Without(list, id) ==
    [k \in Slots |-> IF ~Refilled(list, id, k) THEN list[k]
                     ELSE IF k + 1 \in Slots THEN list[k + 1] ELSE 0]

NfStop(i) ==
    /\ Handling("NF_STOPPING", i)
    /\ nf_info' = [nf_info EXCEPT ![inst_id[i]] = NULL]
    /\ nts' = [nts EXCEPT ![type_id[i]] = Without(@, inst_id[i])]
    /\ nfs_per_nt_num' =
         [nfs_per_nt_num EXCEPT ![type_id[i]] = Dec(@)]
    /\ nfs_per_nt_available' =
         [nfs_per_nt_available EXCEPT ![type_id[i]] = Dec(@)]
    /\ info_pool' = info_pool \cup {i}
    /\ num_nfs' = Dec(num_nfs)
    /\ UNCHANGED <<status, inst_id, type_id, bk_flag, next_inst_id,
                   crash>>

(* Mutant: the status that nf_block publishes, in nf_run as well. *)
PublishStatusBlocked(id, i) ==
    IF nf_info[id] = NULL
    THEN crash' = "master" /\ UNCHANGED status
    ELSE status' = [status EXCEPT ![nf_info[id]] = "BLOCKED"]
         /\ UNCHANGED crash
(* nfs[id].nf_info->status = nf_info->status, through a pointer that must
   not be null. *)
PublishStatus(id, i) ==
    IF nf_info[id] = NULL
    THEN crash' = "master" /\ UNCHANGED status
    ELSE status' = [status EXCEPT ![nf_info[id]] = status[i]]
         /\ UNCHANGED crash

NfBlock(i) ==
    /\ Handling("NF_BLOCKING", i)
    /\ IF status[i] = "BLOCKED" /\ bk_flag[inst_id[i]] = 1
       THEN /\ bk_flag' = [bk_flag EXCEPT ![inst_id[i]] = 2]
            /\ nfs_per_nt_available' =
                 [nfs_per_nt_available EXCEPT ![type_id[i]] = Dec(@)]
            /\ PublishStatus(inst_id[i], i)
       ELSE UNCHANGED <<bk_flag, nfs_per_nt_available, status, crash>>
    /\ UNCHANGED <<inst_id, type_id, info_pool, nf_info, nts, nfs_per_nt_num,
                   num_nfs, next_inst_id>>

NfRun(i) ==
    /\ Handling("NF_RUNNING", i)
    /\ IF status[i] = "RUNNING" /\ bk_flag[inst_id[i]] = 2
       THEN /\ bk_flag' = [bk_flag EXCEPT ![inst_id[i]] = 0]
            /\ nfs_per_nt_available' =
                 [nfs_per_nt_available EXCEPT ![type_id[i]] = Inc(@)]
            /\ PublishStatus(inst_id[i], i)
       ELSE UNCHANGED <<bk_flag, nfs_per_nt_available, status, crash>>
    /\ UNCHANGED <<inst_id, type_id, info_pool, nf_info, nts, nfs_per_nt_num,
                   num_nfs, next_inst_id>>

(* The service time itself is data of the scale decisions; its handler can
   still meet an id that is not registered, or not one of the table. *)
NfSrvTime(i) ==
    /\ Handling("NF_SRV_TIME", i)
    /\ crash' = IF inst_id[i] \in Ids /\ nf_info[inst_id[i]] # NULL
                THEN crash ELSE "master"
    /\ UNCHANGED <<infoVars, tableVars, countVars>>

(* SIGINT: the workers are told to end, and every registered NF to stop. *)
Shutdown ==
    /\ "shutdown" \in Env
    /\ master = "running" /\ crash = "none" /\ msgs = <<>>
    /\ master' = "draining"
    /\ msg_q' = [id \in Ids |-> IF nf_info[id] = NULL THEN msg_q[id]
                                ELSE Append(msg_q[id], "STOP")]
    /\ UNCHANGED <<infoVars, tableVars, countVars, new_msg_ring, scale_q, msgs,
                   shutdown_iter_cnt, crash, scaleVars, nfVars>>

(* One of the MAX_SHUTDOWN_ITERS looks at the ring, and the end of them. *)
DrainExits ==
    /\ master = "draining" /\ crash = "none" /\ msgs = <<>>
    /\ shutdown_iter_cnt < MAX_SHUTDOWN_ITERS /\ num_nfs > 0
    /\ shutdown_iter_cnt' = shutdown_iter_cnt + 1
    /\ msgs' = new_msg_ring
    /\ new_msg_ring' = <<>>
    /\ UNCHANGED <<infoVars, tableVars, countVars, msg_q, scale_q, master,
                   crash, scaleVars, nfVars>>

MasterDone ==
    /\ master = "draining" /\ crash = "none" /\ msgs = <<>>
    /\ shutdown_iter_cnt = MAX_SHUTDOWN_ITERS \/ num_nfs = 0
    /\ master' = "done"
    /\ UNCHANGED <<infoVars, tableVars, countVars, queueVars, msgs,
                   shutdown_iter_cnt, crash, scaleVars, nfVars>>

HandleMsg ==
    \E i \in Infos : \/ NfStart(i) \/ NfReady(i) \/ NfStop(i)
                     \/ NfBlock(i) \/ NfRun(i) \/ NfSrvTime(i)

MasterStep == CheckStatus \/ HandleMsg \/ DrainExits \/ MasterDone
=============================================================================
