------------------------------ MODULE NfRuntime ------------------------------
(***************************************************************************)
(* The thread of one NF (d2sc_nfrt.c), from d2sc_nfrt_init to its end: it  *)
(* asks the manager for an id, announces itself, loops over packets and    *)
(* messages while its block flag is not 2, looks only at scale messages    *)
(* while it is 2, and deregisters.  Every NF is a process of its own here. *)
(*                                                                         *)
(*   none -> waiting -> started -> loop -> top or exiting                  *)
(*   top -> msgs (-> srv_time) -> scale -> top, while the flag is not 2    *)
(*   top -> blocked -> loop, when it is                                    *)
(***************************************************************************)
EXTENDS NfTable

InLoop == {"loop", "top", "msgs", "srv_time", "scale", "blocked"}
PCs == {"none", "waiting", "started", "exiting"} \cup InLoop

(* The thread of i sends a message about struct p and goes on to next; when
   the ring is full its process exits, and puts the structs of back into the
   mempool. *)
SendOrExit(type, p, i, next, back) ==
    \/ /\ Send(type, p)
       /\ pc' = [pc EXCEPT ![i] = next]
       /\ UNCHANGED info_pool
    \/ /\ SendFails
       /\ pc' = [pc EXCEPT ![i] = "none"]
       /\ info_pool' = info_pool \cup back

(* d2sc_nfrt_init: a struct from the mempool, sent to the manager. *)
Launch(i, t, id) ==
    /\ i \in info_pool
    /\ status' = [status EXCEPT ![i] = "WAITTING_FOR_ID"]
    /\ inst_id' = [inst_id EXCEPT ![i] = id]
    /\ type_id' = [type_id EXCEPT ![i] = t]
    /\ keep_running' = [keep_running EXCEPT ![i] = TRUE]
    /\ srv_time_flag' = [srv_time_flag EXCEPT ![i] = FALSE]
    /\ scan' = [scan EXCEPT ![i] = 0]
    /\ ret' = [ret EXCEPT ![i] = 0]
    /\ \/ /\ Send("NF_STARTING", i)
          /\ pc' = [pc EXCEPT ![i] = "waiting"]
          /\ info_pool' = info_pool \ {i}
       \/ /\ SendFails
          /\ UNCHANGED <<pc, info_pool>>
    /\ UNCHANGED <<tableVars, countVars, msg_q, scale_q, masterVars, scaleVars>>

(* The end of the wait for an id. *)
Answered(i) ==
    /\ pc[i] = "waiting" /\ status[i] # "WAITTING_FOR_ID"
    /\ \/ /\ status[i] = "STARTING"
          /\ pc' = [pc EXCEPT ![i] = "started"]
          /\ UNCHANGED info_pool
       \/ /\ status[i] # "STARTING"
          /\ pc' = [pc EXCEPT ![i] = "none"]
          /\ info_pool' = info_pool \cup {i}
    /\ UNCHANGED <<status, inst_id, type_id, tableVars, countVars, queueVars,
                   masterVars, scaleVars, keep_running, srv_time_flag, scan,
                   ret>>

NfReadyMsg(i) ==
    /\ pc[i] = "started"
    /\ SendOrExit("NF_READY", i, i, "loop", {})
    /\ UNCHANGED <<status, inst_id, type_id, tableVars, countVars, msg_q,
                   scale_q, masterVars, scaleVars, keep_running,
                   srv_time_flag, scan, ret>>

(* for (; keep_running; ) ... *)
LoopTest(i) ==
    /\ pc[i] = "loop"
    /\ pc' = [pc EXCEPT ![i] = IF keep_running[i] THEN "top" ELSE "exiting"]
    /\ UNCHANGED <<infoVars, tableVars, countVars, queueVars, masterVars,
                   scaleVars, keep_running, srv_time_flag, scan, ret>>

(* ... while (nf->bk_flag != 2) *)
FlagTest(i) ==
    /\ pc[i] = "top"
    /\ pc' = [pc EXCEPT ![i] = IF bk_flag[inst_id[i]] # 2 THEN "msgs"
                                                         ELSE "blocked"]
    /\ UNCHANGED <<infoVars, tableVars, countVars, queueVars, masterVars,
                   scaleVars, keep_running, srv_time_flag, scan, ret>>

(* d2sc_nfrt_handle_new_msg, for the only kind of message, MSG_STOP. *)
HandleNewMsg(i) ==
    /\ bk_flag' = [bk_flag EXCEPT ![inst_id[i]] = 2]
    /\ keep_running' = [keep_running EXCEPT ![i] = FALSE]

(* One message of the manager, if there is one. *)
DequeueNewMsgs(i) ==
    /\ pc[i] = "msgs"
    /\ pc' = [pc EXCEPT ![i] = IF srv_time_flag[i] THEN "scale"
                                                   ELSE "srv_time"]
    /\ \/ /\ msg_q[inst_id[i]] = <<>>
          /\ UNCHANGED <<msg_q, bk_flag, keep_running>>
       \/ /\ msg_q[inst_id[i]] # <<>>
          /\ msg_q' = [msg_q EXCEPT ![inst_id[i]] = Tail(@)]
          /\ HandleNewMsg(i)
    /\ UNCHANGED <<infoVars, nf_info, countVars, new_msg_ring, scale_q,
                   masterVars, scaleVars, srv_time_flag, scan, ret>>

(* The first pass of the loop sends the service time. *)
SendSrvTime(i) ==
    /\ pc[i] = "srv_time"
    /\ srv_time_flag' = [srv_time_flag EXCEPT ![i] = TRUE]
    /\ ret' = [ret EXCEPT ![i] = 0]
    /\ SendOrExit("NF_SRV_TIME", i, i, "scale", {})
    /\ UNCHANGED <<status, inst_id, type_id, tableVars, countVars, msg_q,
                   scale_q, masterVars, scaleVars, keep_running, scan>>

(* d2sc_nfrt_check_scale_msg: the handlers act on the struct that the table
   holds for the id of the thread, which may be null by then. *)
Own(i) == nf_info[inst_id[i]]

(* Mutant: the manager is not told. *)
ScaleBlockSilently(i, next) ==
    /\ bk_flag[inst_id[i]] = 1 /\ Own(i) \in Infos
    /\ status' = [status EXCEPT ![Own(i)] = "BLOCKED"]
    /\ pc' = [pc EXCEPT ![i] = next]
    /\ UNCHANGED <<info_pool, new_msg_ring>>
ScaleBlock(i, next) ==
    /\ bk_flag[inst_id[i]] = 1 /\ Own(i) \in Infos
    /\ status' = [status EXCEPT ![Own(i)] = "BLOCKED"]
    /\ SendOrExit("NF_BLOCKING", Own(i), i, next, {Own(i)})
(* Mutant: the message is the one of ScaleBlock. *)
ScaleRunWrongType(i, next) ==
    /\ bk_flag[inst_id[i]] = 2 /\ Own(i) \in Infos
    /\ status[Own(i)] = "BLOCKED"
    /\ status' = [status EXCEPT ![Own(i)] = "RUNNING"]
    /\ SendOrExit("NF_BLOCKING", Own(i), i, next, {Own(i)})
ScaleRun(i, next) ==
    /\ bk_flag[inst_id[i]] = 2 /\ Own(i) \in Infos
    /\ status[Own(i)] = "BLOCKED"
    /\ status' = [status EXCEPT ![Own(i)] = "RUNNING"]
    /\ SendOrExit("NF_RUNNING", Own(i), i, next, {Own(i)})
Ignored(sig, i) ==
    \/ sig = "SCALE_BLOCK" /\ bk_flag[inst_id[i]] # 1
    \/ sig = "SCALE_RUN" /\ bk_flag[inst_id[i]] # 2
    \/ sig = "SCALE_RUN" /\ Own(i) \in Infos /\ status[Own(i)] # "BLOCKED"
FollowsNull(sig, i) ==
    /\ ~Ignored(sig, i) /\ Own(i) \notin Infos
    /\ pc' = [pc EXCEPT ![i] = "none"]

CheckScaleMsg(i, next) ==
    LET q == scale_q[inst_id[i]]
    IN  \/ /\ q = <<>>
           /\ pc' = [pc EXCEPT ![i] = next]
           /\ UNCHANGED <<status, info_pool, new_msg_ring, scale_q>>
        \/ /\ q # <<>>
           /\ scale_q' = [scale_q EXCEPT ![inst_id[i]] = Tail(@)]
           /\ \/ Head(q) = "SCALE_BLOCK" /\ ScaleBlock(i, next)
              \/ Head(q) = "SCALE_RUN" /\ ScaleRun(i, next)
              \/ /\ \/ FollowsNull(Head(q), i)
                    \/ Ignored(Head(q), i) /\ pc' = [pc EXCEPT ![i] = next]
                 /\ UNCHANGED <<status, info_pool, new_msg_ring>>

(* The end of a pass of the inner loop ... *)
RunningPass(i) ==
    /\ pc[i] = "scale"
    /\ CheckScaleMsg(i, "top")
    /\ UNCHANGED <<inst_id, type_id, tableVars, countVars, msg_q, masterVars,
                   scaleVars, keep_running, srv_time_flag, scan, ret>>

(* ... and the pass of a blocked NF.  rte_power_freq_min returns 1 when it
   changed the frequency. *)
BlockedPass(i) ==
    /\ pc[i] = "blocked"
    /\ CheckScaleMsg(i, "loop")
    /\ \E r \in IF "power" \in Env THEN {0, 1} ELSE {0} :
          ret' = [ret EXCEPT ![i] = r]
    /\ UNCHANGED <<inst_id, type_id, tableVars, countVars, msg_q, masterVars,
                   scaleVars, keep_running, srv_time_flag, scan>>

(* The exit scan waits at each id of the table, first as long as that NF is
   a child of this one (parent_nf is 0 for the NFs of this module, so the NF
   with id 0 has them all as children), then as long as it is not blocked. *)
ExitScan(i) ==
    /\ pc[i] = "exiting" /\ scan[i] < MAX_NFS
    /\ \/ nf_info[scan[i]] = NULL
       \/ inst_id[i] # 0 /\ bk_flag[scan[i]] = 2
    /\ scan' = [scan EXCEPT ![i] = @ + 1]
    /\ UNCHANGED <<infoVars, tableVars, countVars, queueVars, masterVars,
                   scaleVars, pc, keep_running, srv_time_flag, ret>>

(* d2sc_nfrt_stop *)
NfrtStop(i) ==
    /\ status' = [status EXCEPT ![i] = "STOPPED"]
    /\ SendOrExit("NF_STOPPING", i, i, "none", {i})
    /\ UNCHANGED <<inst_id, type_id, tableVars, countVars, msg_q, scale_q,
                   masterVars, scaleVars, keep_running, srv_time_flag, scan,
                   ret>>

(* The end of d2sc_nfrt_run_callback: a ret left over from the last pass
   ends the process before it deregisters. *)
Stop(i) ==
    /\ pc[i] = "exiting" /\ scan[i] = MAX_NFS /\ ret[i] = 0
    /\ NfrtStop(i)

PowerExitFailed(i) ==
    /\ pc[i] = "exiting" /\ scan[i] = MAX_NFS /\ ret[i] # 0
    /\ pc' = [pc EXCEPT ![i] = "none"]
    /\ UNCHANGED <<infoVars, tableVars, countVars, queueVars, masterVars,
                   scaleVars, keep_running, srv_time_flag, scan, ret>>

(* An application that rejects its arguments stops before it is ready. *)
Abort(i) ==
    /\ "abort" \in Env
    /\ pc[i] = "started" /\ keep_running[i]
    /\ NfrtStop(i)

(* d2sc_nfrt_handle_signal, installed before NF_READY is sent: it marks every
   registered NF as blocked, those of other processes included. *)
Signal(i) ==
    /\ "signal" \in Env
    /\ pc[i] \in {"started", "exiting"} \cup InLoop
    /\ bk_flag' = [id \in Ids |-> IF nf_info[id] = NULL THEN bk_flag[id]
                                                        ELSE 2]
    /\ keep_running' = [keep_running EXCEPT ![i] = FALSE]
    /\ UNCHANGED <<infoVars, nf_info, countVars, queueVars, masterVars,
                   scaleVars, pc, srv_time_flag, scan, ret>>

(* The callback of the NF, called after the messages of a pass, asks to end. *)
Callback(i) ==
    /\ "callback" \in Env
    /\ pc[i] \in {"srv_time", "scale"}
    /\ keep_running' = [keep_running EXCEPT ![i] = FALSE]
    /\ UNCHANGED <<infoVars, tableVars, countVars, queueVars, masterVars,
                   scaleVars, pc, srv_time_flag, scan, ret>>

(* The process dies: SIGKILL at any time, SIGINT before the handler is set. *)
Kill(i) ==
    /\ "kill" \in Env
    /\ pc[i] # "none"
    /\ pc' = [pc EXCEPT ![i] = "none"]
    /\ UNCHANGED <<infoVars, tableVars, countVars, queueVars, masterVars,
                   scaleVars, keep_running, srv_time_flag, scan, ret>>

(* What the thread does by itself, and what the environment makes it do. *)
NfStep(i) ==
    \/ Answered(i) \/ NfReadyMsg(i) \/ LoopTest(i) \/ FlagTest(i)
    \/ DequeueNewMsgs(i) \/ SendSrvTime(i) \/ RunningPass(i) \/ BlockedPass(i)
    \/ ExitScan(i) \/ Stop(i) \/ PowerExitFailed(i)

NfEvent(i) ==
    \/ \E t \in NTs, id \in UserIds \cup {NO_ID} : Launch(i, t, id)
    \/ Abort(i) \/ Signal(i) \/ Callback(i) \/ Kill(i)
=============================================================================
