-------------------------- MODULE NfLifecycle_proofs --------------------------
(***************************************************************************)
(* Theorems about NfLifecycle, for any number of NFs, types and slots.      *)
(* First the types of its variables (the lemmas Type... and Step... follow   *)
(* the actions of the master, of d2sc_nf.c, of d2sc_scale.c and of           *)
(* d2sc_nfrt.c).  Then OwnershipInv, which is inductive with TypeOK: the     *)
(* table holds no dangling pointer and the master follows no null pointer.   *)
(* Then, that the life cycle implements the abstract registry NfRegistry.    *)
(* Last, the handshake that blocks an NF and runs it again (InStep).         *)
(***************************************************************************)
EXTENDS NfLifecycle, TLAPS

(* The remainder of a division by m is below m. *)
LEMMA ModRange == \A n \in Int, m \in Nat \ {0} : n % m \in 0 .. m - 1
  OBVIOUS
(* The uint16_t counters of the manager (nfs_per_nt_num, num_nfs, ...) stay
   uint16_t values when they are incremented and decremented. *)
LEMMA IncDec == \A n \in U16s : Inc(n) \in U16s /\ Dec(n) \in U16s
  <1>1. U16 \in Nat \ {0}
        BY DEF U16
  <1>2. \A n \in U16s : n + 1 \in Int /\ n - 1 \in Int
        BY DEF U16s
  <1>3. \A n \in U16s : (n + 1) % U16 \in 0 .. U16 - 1 /\ (n - 1) % U16 \in 0 .. U16 - 1
        BY <1>1, <1>2, ModRange, Zenon
  <1>. QED BY <1>3, Zenon DEF Inc, Dec, U16s
(* MAX_NFS is so small that every id of the table, and NF_NO_ID, is a
   uint16_t, and NF_NO_ID is not an id of the table. *)
LEMMA IdFacts ==
    /\ 0 \in U16s /\ NO_ID \in U16s /\ MAX_NFS \in U16s
    /\ Ids \subseteq U16s /\ NO_ID \notin Ids
    /\ UserIds \subseteq U16s /\ 0 .. MAX_NFS \subseteq U16s
  <1>1. U16 \in Nat /\ U16 > 0
        BY DEF U16
  <1>2. MAX_NFS \in Nat /\ MAX_NFS < U16 - 1
        BY NumbersAssumption DEF NO_ID
  <1>3. UserIds \subseteq 0 .. U16 - 1
        BY <1>1, SetsAssumption DEF NO_ID
  <1>. QED BY <1>1, <1>2, <1>3 DEF U16s, NO_ID, Ids
(* A group of variables that a step leaves alone keeps its types. *)
LEMMA Unchanged ==
    /\ InfoTypes /\ UNCHANGED infoVars => InfoTypes'
    /\ TableTypes /\ UNCHANGED tableVars => TableTypes'
    /\ CountTypes /\ UNCHANGED countVars => CountTypes'
    /\ QueueTypes /\ UNCHANGED queueVars => QueueTypes'
    /\ MasterTypes /\ UNCHANGED masterVars => MasterTypes'
    /\ ScaleTypes /\ UNCHANGED scaleVars => ScaleTypes'
    /\ NfTypes /\ UNCHANGED nfVars => NfTypes'
  BY DEF InfoTypes, infoVars, TableTypes, tableVars, CountTypes, countVars,
         QueueTypes, queueVars, MasterTypes, masterVars, ScaleTypes, scaleVars,
         NfTypes, nfVars

(* The state that init, init_shm_rings and main leave is well typed. *)
LEMMA TypeInit == Init => TypeOK
  <1> SUFFICES ASSUME Init PROVE TypeOK
      OBVIOUS
  <1> USE DEF Init
  <1>1. InfoTypes
        BY IdFacts DEF InfoTypes, Status
  <1>2. TableTypes
        BY DEF TableTypes
  <1>3. CountTypes
        BY IdFacts, NumbersAssumption DEF CountTypes
  <1>4. QueueTypes
        BY DEF QueueTypes
  <1>5. MasterTypes
        BY NumbersAssumption DEF MasterTypes
  <1>6. ScaleTypes
    <2>1. scale_round \in BOOLEAN /\ victim = NULL
          BY Zenon
    <2>2. blocks \in 0 .. BLOCK_BOUND
          BY NumbersAssumption
    <2>. QED BY <2>1, <2>2, Zenon DEF ScaleTypes
  <1>7. NfTypes
        BY NumbersAssumption DEF NfTypes, PCs, InLoop
  <1>. QED BY <1>1, <1>2, <1>3, <1>4, <1>5, <1>6, <1>7 DEF TypeOK

(* What every handler of d2sc_nf_check_status does to the batch keeps the
   types of everything that is not the NF table. *)
LEMMA TypeHandling ==
    ASSUME TypeOK, NEW type, NEW i \in Infos, Handling(type, i),
           crash' \in {crash, "master"}
    PROVE  MasterTypes' /\ QueueTypes' /\ ScaleTypes' /\ NfTypes'
  <1>1. msgs' \in Seq(Msg)
        BY DEF TypeOK, MasterTypes, Handling
  <1>2. MasterTypes'
        BY <1>1 DEF TypeOK, MasterTypes, Handling
  <1>3. UNCHANGED <<queueVars, scaleVars, nfVars>>
        BY DEF Handling
  <1>. QED BY <1>2, <1>3, Unchanged DEF TypeOK

(* nf_ready keeps the types, whatever the length of the list of the type. *)
LEMMA TypeReady ==
    ASSUME TypeOK, NEW i \in Infos, NfReady(i) PROVE TypeOK'
  <1>1. InfoTypes'
        BY DEF TypeOK, NfReady, InfoTypes, Status
  <1>2. nts' \in [NTs -> [Slots -> U16s]]
    <2>1. nts \in [NTs -> [Slots -> U16s]] /\ inst_id[i] \in U16s
          BY DEF TypeOK, CountTypes, InfoTypes
    <2>2. nts' = nts \/ AddToType(type_id[i], inst_id[i])
          BY DEF NfReady
    <2>3. \/ nts' = nts
          \/ nts' = [nts EXCEPT ![type_id[i]][nfs_per_nt_num[type_id[i]]]
                          = inst_id[i]]
          BY <2>2, Zenon DEF AddToType
    <2>. QED BY <2>1, <2>3
  <1>3. /\ \/ nfs_per_nt_num' = nfs_per_nt_num
           \/ nfs_per_nt_num' = [nfs_per_nt_num EXCEPT ![type_id[i]] = Inc(@)]
        /\ \/ nfs_per_nt_available' = nfs_per_nt_available
           \/ nfs_per_nt_available'
                = [nfs_per_nt_available EXCEPT ![type_id[i]] = Inc(@)]
        /\ num_nfs' \in {num_nfs, Inc(num_nfs)}
        /\ next_inst_id' = next_inst_id
        BY DEF NfReady
  <1>4. nfs_per_nt_num' \in [NTs -> U16s]
        BY <1>3, IncDec DEF TypeOK, CountTypes
  <1>5. nfs_per_nt_available' \in [NTs -> U16s]
        BY <1>3, IncDec DEF TypeOK, CountTypes
  <1>6. CountTypes'
        BY <1>2, <1>3, <1>4, <1>5, IncDec DEF TypeOK, CountTypes
  <1>7. MasterTypes'
        BY TypeHandling DEF NfReady
  <1>8. UNCHANGED <<tableVars, queueVars, scaleVars, nfVars>>
        BY DEF NfReady, Handling
  <1>. QED BY <1>1, <1>6, <1>7, <1>8, Unchanged DEF TypeOK

(* nf_start keeps the types, whatever id the NF asked for. *)
LEMMA TypeStart ==
    ASSUME TypeOK, NEW i \in Infos, NfStart(i) PROVE TypeOK'
  <1> DEFINE Effect ==
        /\ \/ status' = status
           \/ \E s \in Status : status' = [status EXCEPT ![i] = s]
        /\ \/ inst_id' = inst_id /\ nf_info' = nf_info
           \/ \E id \in Ids : /\ inst_id' = [inst_id EXCEPT ![i] = id]
                             /\ nf_info' = [nf_info EXCEPT ![id] = i]
        /\ \/ next_inst_id' = next_inst_id
           \/ \E id \in next_inst_id .. MAX_NFS - 1 : next_inst_id' = id + 1
  <1>1. Effect
    <2>1. CASE UNCHANGED <<status, inst_id, nf_info, next_inst_id>>
          BY <2>1
    <2>2. ASSUME NEW id \in Ids \cup {MAX_NFS, inst_id[i]},
                 ChosenId(i, id), Assign(i, id)
          PROVE  Effect
      <3>1. id \in Nat
            BY <2>2, IdFacts, NumbersAssumption DEF TypeOK, InfoTypes, Ids, U16s
      <3>2. id < MAX_NFS => id \in Ids
            BY <3>1, NumbersAssumption DEF Ids
      <3>3. \/ next_inst_id' = next_inst_id
            \/ id \in next_inst_id .. MAX_NFS - 1 /\ next_inst_id' = id + 1
            BY <2>2 DEF ChosenId, NextInstId
      <3>. QED BY <2>2, <3>2, <3>3 DEF Assign, Refuse, Register, Status
    <2>. QED BY <2>1, <2>2 DEF NfStart
  <1>2. InfoTypes'
        BY <1>1, IdFacts DEF TypeOK, InfoTypes, NfStart
  <1>3. TableTypes'
        BY <1>1 DEF TypeOK, TableTypes, NfStart
  <1>4. CountTypes'
    <2>1. next_inst_id' \in 1 .. MAX_NFS
          BY <1>1, NumbersAssumption DEF TypeOK, CountTypes
    <2>. QED BY <2>1 DEF TypeOK, CountTypes, NfStart
  <1>5. crash' = crash
        BY DEF NfStart
  <1>. QED BY <1>2, <1>3, <1>4, <1>5, TypeHandling DEF TypeOK, NfStart

(* nf_stop keeps the types, the compaction of the list included. *)
LEMMA TypeStop ==
    ASSUME TypeOK, NEW i \in Infos, NfStop(i) PROVE TypeOK'
  <1>1. InfoTypes'
        BY DEF TypeOK, NfStop, InfoTypes
  <1>2. TableTypes'
        BY DEF TypeOK, NfStop, TableTypes
  <1>3. nts' \in [NTs -> [Slots -> U16s]]
    <2>1. nts \in [NTs -> [Slots -> U16s]]
          BY DEF TypeOK, CountTypes
    <2>2. \A l \in [Slots -> U16s] : Without(l, inst_id[i]) \in [Slots -> U16s]
          BY IdFacts DEF Without
    <2>3. nts' = [nts EXCEPT ![type_id[i]] = Without(@, inst_id[i])]
          BY DEF NfStop
    <2>. QED BY <2>1, <2>2, <2>3
  <1>4. /\ nfs_per_nt_num' = [nfs_per_nt_num EXCEPT ![type_id[i]] = Dec(@)]
        /\ nfs_per_nt_available'
             = [nfs_per_nt_available EXCEPT ![type_id[i]] = Dec(@)]
        /\ num_nfs' = Dec(num_nfs)
        /\ next_inst_id' = next_inst_id
        BY DEF NfStop
  <1>5. nfs_per_nt_num' \in [NTs -> U16s]
        BY <1>4, IncDec DEF TypeOK, CountTypes
  <1>6. nfs_per_nt_available' \in [NTs -> U16s]
        BY <1>4, IncDec DEF TypeOK, CountTypes
  <1>7. CountTypes'
        BY <1>3, <1>4, <1>5, <1>6, IncDec DEF TypeOK, CountTypes
  <1>8. crash' = crash
        BY DEF NfStop
  <1>. QED BY <1>1, <1>2, <1>7, <1>8, TypeHandling DEF TypeOK, NfStop

(* The write of a status through nfs[id].nf_info, and the null pointer there. *)
LEMMA TypePublish ==
    ASSUME TypeOK, NEW id, NEW i \in Infos,
           PublishStatus(id, i) \/ UNCHANGED <<status, crash>>
    PROVE  status' \in [Infos -> Status] /\ crash' \in {crash, "master"}
  BY DEF TypeOK, InfoTypes, PublishStatus

(* nf_block keeps the types. *)
LEMMA TypeBlock ==
    ASSUME TypeOK, NEW i \in Infos, NfBlock(i) PROVE TypeOK'
  <1>1. /\ bk_flag' \in {bk_flag, [bk_flag EXCEPT ![inst_id[i]] = 2]}
        /\ \/ nfs_per_nt_available' = nfs_per_nt_available
           \/ nfs_per_nt_available'
                = [nfs_per_nt_available EXCEPT ![type_id[i]] = Dec(@)]
        /\ PublishStatus(inst_id[i], i) \/ UNCHANGED <<status, crash>>
        BY DEF NfBlock
  <1>2. status' \in [Infos -> Status] /\ crash' \in {crash, "master"}
        BY <1>1, TypePublish
  <1>3. InfoTypes'
        BY <1>2 DEF TypeOK, InfoTypes, NfBlock
  <1>4. TableTypes'
        BY <1>1 DEF TypeOK, TableTypes, NfBlock
  <1>5. nfs_per_nt_available' \in [NTs -> U16s]
        BY <1>1, IncDec DEF TypeOK, CountTypes
  <1>6. CountTypes'
        BY <1>5 DEF TypeOK, CountTypes, NfBlock
  <1>. QED BY <1>2, <1>3, <1>4, <1>6, TypeHandling DEF TypeOK, NfBlock

(* nf_run keeps the types. *)
LEMMA TypeRun ==
    ASSUME TypeOK, NEW i \in Infos, NfRun(i) PROVE TypeOK'
  <1>1. /\ bk_flag' \in {bk_flag, [bk_flag EXCEPT ![inst_id[i]] = 0]}
        /\ \/ nfs_per_nt_available' = nfs_per_nt_available
           \/ nfs_per_nt_available'
                = [nfs_per_nt_available EXCEPT ![type_id[i]] = Inc(@)]
        /\ PublishStatus(inst_id[i], i) \/ UNCHANGED <<status, crash>>
        BY DEF NfRun
  <1>2. status' \in [Infos -> Status] /\ crash' \in {crash, "master"}
        BY <1>1, TypePublish
  <1>3. InfoTypes'
        BY <1>2 DEF TypeOK, InfoTypes, NfRun
  <1>4. TableTypes'
        BY <1>1 DEF TypeOK, TableTypes, NfRun
  <1>5. nfs_per_nt_available' \in [NTs -> U16s]
        BY <1>1, IncDec DEF TypeOK, CountTypes
  <1>6. CountTypes'
        BY <1>5 DEF TypeOK, CountTypes, NfRun
  <1>. QED BY <1>2, <1>3, <1>4, <1>6, TypeHandling DEF TypeOK, NfRun

(* nf_srv_time keeps the types. *)
LEMMA TypeSrvTime ==
    ASSUME TypeOK, NEW i \in Infos, NfSrvTime(i) PROVE TypeOK'
  <1>1. crash' \in {crash, "master"}
        BY DEF NfSrvTime
  <1>2. UNCHANGED <<infoVars, tableVars, countVars>>
        BY DEF NfSrvTime
  <1>. QED BY <1>1, <1>2, TypeHandling, Unchanged DEF TypeOK, NfSrvTime

(* The steps of master_thread_main outside the handlers keep the types. *)
LEMMA TypePoll ==
    ASSUME TypeOK, CheckStatus \/ DrainExits \/ MasterDone \/ Shutdown
    PROVE  TypeOK'
  <1>1. UNCHANGED <<infoVars, tableVars, countVars, scaleVars, nfVars>>
        BY DEF CheckStatus, DrainExits, MasterDone, Shutdown
  <1>2. msgs' \in Seq(Msg) /\ new_msg_ring' \in Seq(Msg)
        BY DEF TypeOK, MasterTypes, QueueTypes, CheckStatus, DrainExits,
               MasterDone, Shutdown, queueVars
  <1>3. msg_q' \in [Ids -> Seq({"STOP"})]
    <2>1. msg_q \in [Ids -> Seq({"STOP"})]
          BY DEF TypeOK, QueueTypes
    <2>2. CASE Shutdown
          BY <2>1, <2>2 DEF Shutdown
    <2>3. CASE UNCHANGED msg_q
          BY <2>1, <2>3
    <2>. QED BY <2>2, <2>3 DEF CheckStatus, DrainExits, MasterDone, queueVars
  <1>4. QueueTypes'
        BY <1>2, <1>3 DEF TypeOK, QueueTypes, CheckStatus, DrainExits,
               MasterDone, Shutdown, queueVars
  <1>5. shutdown_iter_cnt' \in 0 .. MAX_SHUTDOWN_ITERS
        BY NumbersAssumption DEF TypeOK, MasterTypes, CheckStatus, DrainExits,
               MasterDone, Shutdown
  <1>6. MasterTypes'
        BY <1>2, <1>5 DEF TypeOK, MasterTypes, CheckStatus, DrainExits,
               MasterDone, Shutdown
  <1>. QED BY <1>1, <1>4, <1>6, Unchanged DEF TypeOK

(* An enqueue on new_msg_ring, successful or not, leaves a ring of messages. *)
LEMMA TypeSend ==
    ASSUME TypeOK, NEW type \in MsgType, NEW i \in Infos,
           Send(type, i) \/ SendFails \/ UNCHANGED new_msg_ring
    PROVE  new_msg_ring' \in Seq(Msg)
  <1>1. [msg_type |-> type, info |-> i] \in Msg
        BY DEF Msg
  <1>2. \/ new_msg_ring' = new_msg_ring
        \/ new_msg_ring'
             = Append(new_msg_ring, [msg_type |-> type, info |-> i])
        BY DEF Send, SendFails
  <1>3. new_msg_ring \in Seq(Msg)
        BY DEF TypeOK, QueueTypes
  <1>. QED BY <1>1, <1>2, <1>3

(* A message of an NF thread, or the exit of its process, keeps the types. *)
LEMMA TypeSendOrExit ==
    ASSUME TypeOK, NEW type \in MsgType, NEW p \in Infos, NEW i \in Infos,
           NEW next \in PCs, NEW back \in SUBSET Infos,
           SendOrExit(type, p, i, next, back)
    PROVE  /\ new_msg_ring' \in Seq(Msg)
           /\ pc' \in [Infos -> PCs]
           /\ info_pool' \subseteq Infos
  <1>1. new_msg_ring' \in Seq(Msg)
        BY TypeSend DEF SendOrExit
  <1>2. pc' \in [Infos -> PCs]
        BY DEF TypeOK, NfTypes, SendOrExit, PCs
  <1>3. info_pool' \subseteq Infos
        BY DEF TypeOK, InfoTypes, SendOrExit
  <1>. QED BY <1>1, <1>2, <1>3

(* d2sc_nfrt_init keeps the types. *)
LEMMA TypeLaunch ==
    ASSUME TypeOK, NEW i \in Infos, NEW t \in NTs,
           NEW id \in UserIds \cup {NO_ID}, Launch(i, t, id)
    PROVE  TypeOK'
  <1>1. id \in U16s
        BY IdFacts
  <1>2. InfoTypes'
        BY <1>1 DEF TypeOK, InfoTypes, Launch, Status
  <1>3. new_msg_ring' \in Seq(Msg)
        BY TypeSend DEF Launch, MsgType
  <1>4. QueueTypes'
        BY <1>3 DEF TypeOK, QueueTypes, Launch
  <1>5. pc' \in [Infos -> PCs]
        BY DEF TypeOK, NfTypes, Launch, PCs
  <1>6. NfTypes'
    <2>1. keep_running' \in [Infos -> BOOLEAN]
          BY DEF TypeOK, NfTypes, Launch
    <2>2. srv_time_flag' \in [Infos -> BOOLEAN]
          BY DEF TypeOK, NfTypes, Launch
    <2>3. scan' \in [Infos -> 0 .. MAX_NFS]
          BY NumbersAssumption DEF TypeOK, NfTypes, Launch
    <2>4. ret' \in [Infos -> {0, 1}]
          BY DEF TypeOK, NfTypes, Launch
    <2>. QED BY <1>5, <2>1, <2>2, <2>3, <2>4 DEF NfTypes
  <1>7. UNCHANGED <<tableVars, countVars, masterVars, scaleVars>>
        BY DEF Launch
  <1>. QED BY <1>2, <1>4, <1>6, <1>7, Unchanged DEF TypeOK

(* The end of the wait of d2sc_nfrt_start_nf keeps the types. *)
LEMMA TypeAnswered ==
    ASSUME TypeOK, NEW i \in Infos, Answered(i) PROVE TypeOK'
  <1>1. InfoTypes'
        BY DEF TypeOK, InfoTypes, Answered
  <1>2. NfTypes'
        BY DEF TypeOK, NfTypes, Answered, PCs
  <1>3. UNCHANGED <<tableVars, countVars, queueVars, masterVars, scaleVars>>
        BY DEF Answered
  <1>. QED BY <1>1, <1>2, <1>3, Unchanged DEF TypeOK

(* d2sc_nfrt_nf_ready, d2sc_nfrt_nf_srv_time and d2sc_nfrt_stop keep the
   types. *)
LEMMA TypeMessages ==
    ASSUME TypeOK, NEW i \in Infos,
           NfReadyMsg(i) \/ SendSrvTime(i) \/ NfrtStop(i)
    PROVE  TypeOK'
  <1>1. \E type \in MsgType, next \in PCs, back \in SUBSET Infos :
           SendOrExit(type, i, i, next, back)
        BY DEF NfReadyMsg, SendSrvTime, NfrtStop, MsgType, PCs, InLoop
  <1>2. /\ new_msg_ring' \in Seq(Msg)
        /\ pc' \in [Infos -> PCs]
        /\ info_pool' \subseteq Infos
        BY <1>1, TypeSendOrExit
  <1>3. InfoTypes'
        BY <1>2 DEF TypeOK, InfoTypes, NfReadyMsg, SendSrvTime, NfrtStop, Status
  <1>4. QueueTypes'
        BY <1>2 DEF TypeOK, QueueTypes, NfReadyMsg, SendSrvTime, NfrtStop
  <1>5. NfTypes'
    <2>1. ret' \in [Infos -> {0, 1}]
          BY DEF TypeOK, NfTypes, NfReadyMsg, SendSrvTime, NfrtStop
    <2>. QED BY <1>2, <2>1 DEF TypeOK, NfTypes, NfReadyMsg, SendSrvTime,
                               NfrtStop
  <1>6. UNCHANGED <<tableVars, countVars, masterVars, scaleVars>>
        BY DEF NfReadyMsg, SendSrvTime, NfrtStop
  <1>. QED BY <1>3, <1>4, <1>5, <1>6, Unchanged DEF TypeOK

(* Dequeuing from the queue of one id leaves queues of the same messages. *)
LEMMA TailType ==
    ASSUME NEW S, NEW f \in [Ids -> Seq(S)], NEW id, f[id] # <<>>
    PROVE  [f EXCEPT ![id] = Tail(@)] \in [Ids -> Seq(S)]
  <1>1. CASE id \in Ids
    <2>1. Tail(f[id]) \in Seq(S)
          BY <1>1
    <2>. QED BY <2>1
  <1>2. CASE id \notin Ids
        BY <1>2
  <1>. QED BY <1>1, <1>2

(* d2sc_nfrt_check_scale_msg keeps the types of what it changes. *)
LEMMA TypeScaleMsg ==
    ASSUME TypeOK, NEW i \in Infos, NEW next \in PCs, CheckScaleMsg(i, next)
    PROVE  /\ status' \in [Infos -> Status]
           /\ new_msg_ring' \in Seq(Msg)
           /\ scale_q' \in [Ids -> Seq(ScaleSig)]
           /\ pc' \in [Infos -> PCs]
           /\ info_pool' \subseteq Infos
  <1>1. \/ \E type \in MsgType, p \in Infos, back \in SUBSET Infos :
              SendOrExit(type, p, i, next, back)
        \/ /\ \E n \in PCs : pc' = [pc EXCEPT ![i] = n]
           /\ UNCHANGED <<info_pool, new_msg_ring>>
        BY DEF CheckScaleMsg, ScaleBlock, ScaleRun, FollowsNull, MsgType, PCs
  <1>2. /\ new_msg_ring' \in Seq(Msg)
        /\ pc' \in [Infos -> PCs]
        /\ info_pool' \subseteq Infos
        BY <1>1, TypeSendOrExit DEF TypeOK, QueueTypes, InfoTypes, NfTypes
  <1>3. \/ status' = status
        \/ \E p \in Infos, s \in Status : status' = [status EXCEPT ![p] = s]
        BY DEF CheckScaleMsg, ScaleBlock, ScaleRun, Status
  <1>4. status' \in [Infos -> Status]
        BY <1>3 DEF TypeOK, InfoTypes
  <1>5. scale_q' \in [Ids -> Seq(ScaleSig)]
    <2>1. scale_q \in [Ids -> Seq(ScaleSig)]
          BY DEF TypeOK, QueueTypes
    <2>2. \/ scale_q' = scale_q
          \/ /\ scale_q[inst_id[i]] # <<>>
             /\ scale_q' = [scale_q EXCEPT ![inst_id[i]] = Tail(@)]
          BY DEF CheckScaleMsg
    <2>3. ASSUME scale_q[inst_id[i]] # <<>>
          PROVE  [scale_q EXCEPT ![inst_id[i]] = Tail(@)] \in [Ids -> Seq(ScaleSig)]
          BY <2>1, <2>3, TailType
    <2>. QED BY <2>1, <2>2, <2>3
  <1>. QED BY <1>2, <1>4, <1>5

(* The end of a pass of d2sc_nfrt_run_callback keeps the types, in the inner
   loop and for a blocked NF. *)
LEMMA TypePass ==
    ASSUME TypeOK, NEW i \in Infos, RunningPass(i) \/ BlockedPass(i)
    PROVE  TypeOK'
  <1>1. \E next \in PCs : CheckScaleMsg(i, next)
        BY DEF RunningPass, BlockedPass, PCs, InLoop
  <1>2. /\ status' \in [Infos -> Status]
        /\ new_msg_ring' \in Seq(Msg)
        /\ scale_q' \in [Ids -> Seq(ScaleSig)]
        /\ pc' \in [Infos -> PCs]
        /\ info_pool' \subseteq Infos
        BY <1>1, TypeScaleMsg
  <1>3. InfoTypes'
        BY <1>2 DEF TypeOK, InfoTypes, RunningPass, BlockedPass
  <1>4. QueueTypes'
        BY <1>2 DEF TypeOK, QueueTypes, RunningPass, BlockedPass
  <1>5. ret' \in [Infos -> {0, 1}]
    <2>1. ret' = ret \/ \E r \in {0, 1} : ret' = [ret EXCEPT ![i] = r]
          BY DEF RunningPass, BlockedPass
    <2>. QED BY <2>1 DEF TypeOK, NfTypes
  <1>6. NfTypes'
        BY <1>2, <1>5 DEF TypeOK, NfTypes, RunningPass, BlockedPass
  <1>7. UNCHANGED <<tableVars, countVars, masterVars, scaleVars>>
        BY DEF RunningPass, BlockedPass
  <1>. QED BY <1>3, <1>4, <1>6, <1>7, Unchanged DEF TypeOK

(* d2sc_nfrt_dequeue_new_msgs keeps the types. *)
LEMMA TypeDequeue ==
    ASSUME TypeOK, NEW i \in Infos, DequeueNewMsgs(i) PROVE TypeOK'
  <1>1. msg_q' \in [Ids -> Seq({"STOP"})]
    <2>1. msg_q \in [Ids -> Seq({"STOP"})]
          BY DEF TypeOK, QueueTypes
    <2>2. \/ msg_q' = msg_q
          \/ /\ msg_q[inst_id[i]] # <<>>
             /\ msg_q' = [msg_q EXCEPT ![inst_id[i]] = Tail(@)]
          BY DEF DequeueNewMsgs
    <2>3. ASSUME msg_q[inst_id[i]] # <<>>
          PROVE  [msg_q EXCEPT ![inst_id[i]] = Tail(@)] \in [Ids -> Seq({"STOP"})]
          BY <2>1, <2>3, TailType
    <2>. QED BY <2>1, <2>2, <2>3
  <1>2. QueueTypes'
        BY <1>1 DEF TypeOK, QueueTypes, DequeueNewMsgs
  <1>3. TableTypes'
        BY DEF TypeOK, TableTypes, DequeueNewMsgs, HandleNewMsg
  <1>4. pc' \in [Infos -> PCs]
        BY DEF TypeOK, NfTypes, DequeueNewMsgs, PCs, InLoop
  <1>5. NfTypes'
        BY <1>4 DEF TypeOK, NfTypes, DequeueNewMsgs, HandleNewMsg
  <1>6. UNCHANGED <<infoVars, countVars, masterVars, scaleVars>>
        BY DEF DequeueNewMsgs
  <1>. QED BY <1>2, <1>3, <1>5, <1>6, Unchanged DEF TypeOK

(* The tests of the loops of d2sc_nfrt_run_callback, its exit scan and the
   death of the process keep the types. *)
LEMMA TypeMoves ==
    ASSUME TypeOK, NEW i \in Infos,
           LoopTest(i) \/ FlagTest(i) \/ ExitScan(i)
           \/ PowerExitFailed(i) \/ Kill(i)
    PROVE  TypeOK'
  <1>1. pc' = pc \/ \E p \in PCs : pc' = [pc EXCEPT ![i] = p]
        BY DEF LoopTest, FlagTest, ExitScan, PowerExitFailed, Kill, PCs, InLoop
  <1>2. \/ scan' = scan
        \/ scan[i] < MAX_NFS /\ scan' = [scan EXCEPT ![i] = @ + 1]
        BY DEF LoopTest, FlagTest, ExitScan, PowerExitFailed, Kill
  <1>3. pc' \in [Infos -> PCs]
        BY <1>1 DEF TypeOK, NfTypes
  <1>4. scan' \in [Infos -> 0 .. MAX_NFS]
        BY <1>2, NumbersAssumption DEF TypeOK, NfTypes
  <1>5. UNCHANGED <<keep_running, srv_time_flag, ret>>
        BY DEF LoopTest, FlagTest, ExitScan, PowerExitFailed, Kill
  <1>6. NfTypes'
        BY <1>3, <1>4, <1>5 DEF TypeOK, NfTypes
  <1>7. UNCHANGED <<infoVars, tableVars, countVars, queueVars, masterVars,
                    scaleVars>>
        BY DEF LoopTest, FlagTest, ExitScan, PowerExitFailed, Kill
  <1>. QED BY <1>6, <1>7, Unchanged DEF TypeOK

(* The signal handler of the NFs and a callback keep the types. *)
LEMMA TypeSignal ==
    ASSUME TypeOK, NEW i \in Infos, Signal(i) \/ Callback(i) PROVE TypeOK'
  <1>1. TableTypes'
        BY DEF TypeOK, TableTypes, Signal, Callback, tableVars
  <1>2. NfTypes'
        BY DEF TypeOK, NfTypes, Signal, Callback
  <1>3. UNCHANGED <<infoVars, countVars, queueVars, masterVars, scaleVars>>
        BY DEF Signal, Callback
  <1>. QED BY <1>1, <1>2, <1>3, Unchanged DEF TypeOK

(* d2sc_scale_send_msg to some NFs keeps the types of the queues. *)
LEMMA TypeSendScale ==
    ASSUME TypeOK, NEW sig \in ScaleSig, NEW dst, SendScale(sig, dst),
           UNCHANGED <<new_msg_ring, msg_q>>
    PROVE  QueueTypes'
  <1>1. scale_q' \in [Ids -> Seq(ScaleSig)]
        BY DEF TypeOK, QueueTypes, SendScale
  <1>. QED BY <1>1 DEF TypeOK, QueueTypes

(* Every step of the scale thread keeps the types. *)
LEMMA TypeScale ==
    ASSUME TypeOK, ScaleStep PROVE TypeOK'
  <1>1. CASE RoundStart \/ RoundEnd
    <2>1. ScaleTypes'
          BY <1>1 DEF TypeOK, ScaleTypes, RoundStart, RoundEnd
    <2>2. UNCHANGED <<infoVars, tableVars, countVars, queueVars, masterVars,
                      nfVars>>
          BY <1>1 DEF RoundStart, RoundEnd
    <2>. QED BY <2>1, <2>2, Unchanged DEF TypeOK
  <1>2. CASE SetBlockFlag
    <2>1. bk_flag' = [bk_flag EXCEPT ![victim] = 1] /\ nf_info' = nf_info
          BY <1>2 DEF SetBlockFlag
    <2>2. bk_flag' \in [Ids -> 0 .. 2]
      <3>1. bk_flag \in [Ids -> 0 .. 2]
            BY DEF TypeOK, TableTypes
      <3>2. 1 \in 0 .. 2
            OBVIOUS
      <3>. QED BY <2>1, <3>1, <3>2, Zenon
    <2>3. TableTypes'
          BY <2>1, <2>2 DEF TypeOK, TableTypes
    <2>4. QueueTypes'
          BY <1>2, TypeSendScale DEF SetBlockFlag, ScaleSig
    <2>5. ScaleTypes'
          BY <1>2 DEF TypeOK, ScaleTypes, SetBlockFlag
    <2>6. UNCHANGED <<infoVars, countVars, masterVars, nfVars>>
          BY <1>2 DEF SetBlockFlag
    <2>. QED BY <2>3, <2>4, <2>5, <2>6, Unchanged DEF TypeOK
  <1>3. ASSUME NEW t \in NTs, CheckLoad(t) PROVE TypeOK'
    <2>1. victim' \in U16s \/ victim' = victim
          BY <1>3 DEF TypeOK, CountTypes, CheckLoad, Listed
    <2>2. blocks' \in 0 .. BLOCK_BOUND
          BY <1>3, NumbersAssumption DEF TypeOK, ScaleTypes, CheckLoad
    <2>3. scale_round' = scale_round
          BY <1>3 DEF CheckLoad
    <2>4. ScaleTypes'
          BY <2>1, <2>2, <2>3, Zenon DEF TypeOK, ScaleTypes
    <2>5. MasterTypes'
          BY <1>3 DEF TypeOK, MasterTypes, CheckLoad
    <2>6. UNCHANGED <<infoVars, tableVars, countVars, queueVars, nfVars>>
          BY <1>3 DEF CheckLoad
    <2>. QED BY <2>4, <2>5, <2>6, Unchanged DEF TypeOK
  <1>4. ASSUME NEW t \in NTs, RunParent(t) \/ \E n \in 1 .. MAX_NFS : BlockToRun(t, n)
        PROVE  TypeOK'
    <2>1. QueueTypes'
          BY <1>4, TypeSendScale DEF RunParent, BlockToRun, ScaleSig
    <2>2. UNCHANGED <<infoVars, tableVars, countVars, masterVars, scaleVars,
                      nfVars>>
          BY <1>4 DEF RunParent, BlockToRun
    <2>. QED BY <2>1, <2>2, Unchanged DEF TypeOK
  <1>5. ASSUME NEW id \in Ids, BlockAgain(id) PROVE TypeOK'
    <2>1. QueueTypes'
          BY <1>5, TypeSendScale DEF BlockAgain, ScaleSig
    <2>2. UNCHANGED <<infoVars, tableVars, countVars, masterVars, scaleVars,
                      nfVars>>
          BY <1>5 DEF BlockAgain
    <2>. QED BY <2>1, <2>2, Unchanged DEF TypeOK
  <1>. QED BY <1>1, <1>2, <1>3, <1>4, <1>5 DEF ScaleStep

(* Every step of the system keeps the types. *)
LEMMA TypeNext == TypeOK /\ [Next]_vars => TypeOK'
  <1> SUFFICES ASSUME TypeOK, [Next]_vars PROVE TypeOK'
      OBVIOUS
  <1>1. CASE MasterStep \/ Shutdown
        BY <1>1, TypePoll, TypeStart, TypeReady, TypeStop, TypeBlock, TypeRun,
           TypeSrvTime DEF MasterStep, HandleMsg
  <1>2. CASE ScaleStep
        BY <1>2, TypeScale
  <1>3. ASSUME NEW i \in Infos, NfStep(i) PROVE TypeOK'
        BY <1>3, TypeAnswered, TypeMessages, TypeMoves, TypeDequeue, TypePass
        DEF NfStep, Stop
  <1>4. ASSUME NEW i \in Infos, NfEvent(i) PROVE TypeOK'
        BY <1>4, TypeLaunch, TypeMessages, TypeSignal, TypeMoves
        DEF NfEvent, Abort
  <1>5. CASE UNCHANGED vars
        BY <1>5, Unchanged DEF vars, TypeOK
  <1>. QED BY <1>1, <1>2, <1>3, <1>4, <1>5 DEF Next

(* Every variable has its type in every reachable state, for any number of
   NFs, ids, types and slots, any ids asked for and any environment: in
   particular no counter leaves the range of a uint16_t and next_inst_id, from
   which d2sc_nf_next_inst_id indexes nfs, is never above MAX_NFS. *)
THEOREM TypeCorrect == Spec => []TypeOK
  BY TypeInit, TypeNext, PTL DEF Spec

-----------------------------------------------------------------------------
(* The table and the messages under way. *)

(* The messages that the manager has yet to handle are messages. *)
LEMMA FlightType ==
    ASSUME TypeOK
    PROVE  Len(Flight) \in Nat /\ \A k \in 1 .. Len(Flight) : Flight[k] \in Msg
  BY DEF TypeOK, MasterTypes, QueueTypes, Flight

(* A handler of d2sc_nf_check_status takes the first of them, and the others
   move up one place. *)
LEMMA FlightTaken ==
    ASSUME TypeOK, NEW type, NEW i \in Infos, Handling(type, i)
    PROVE  /\ 1 \in 1 .. Len(Flight)
           /\ Flight[1].msg_type = type /\ Flight[1].info = i
           /\ Len(Flight') = Len(Flight) - 1
           /\ \A k \in 1 .. Len(Flight') :
                 k + 1 \in 1 .. Len(Flight) /\ Flight'[k] = Flight[k + 1]
  <1>1. msgs \in Seq(Msg) /\ new_msg_ring \in Seq(Msg)
        BY DEF TypeOK, MasterTypes, QueueTypes
  <1>2. /\ msgs # <<>> /\ Head(msgs) = [msg_type |-> type, info |-> i]
        /\ msgs' = Tail(msgs) /\ new_msg_ring' = new_msg_ring
        BY DEF Handling, queueVars
  <1>3. Len(msgs) \in Nat /\ Len(msgs) > 0 /\ Len(new_msg_ring) \in Nat
        BY <1>1, <1>2
  <1>4. msgs[1] = [msg_type |-> type, info |-> i]
        BY <1>1, <1>2
  <1>5. Flight[1] = msgs[1] /\ Len(Flight) = Len(msgs) + Len(new_msg_ring)
        BY <1>1, <1>3 DEF Flight
  <1>6. /\ Flight' \in Seq(Msg)
        /\ Len(Flight') = Len(Flight) - 1
        BY <1>1, <1>2, <1>3 DEF Flight
  <1>7. ASSUME NEW k \in 1 .. Len(Flight') PROVE Flight'[k] = Flight[k + 1]
    <2>1. CASE k <= Len(msgs) - 1
          BY <1>1, <1>2, <1>3, <2>1 DEF Flight
    <2>2. CASE k > Len(msgs) - 1
          BY <1>1, <1>2, <1>3, <2>2 DEF Flight
    <2>. QED BY <1>3, <2>1, <2>2
  <1>. QED BY <1>3, <1>4, <1>5, <1>6, <1>7

(* A message that an NF enqueues on new_msg_ring is the last one. *)
LEMMA FlightSent ==
    ASSUME TypeOK, NEW type \in MsgType, NEW i \in Infos, Send(type, i),
           UNCHANGED msgs
    PROVE  /\ Len(Flight') = Len(Flight) + 1
           /\ Flight'[Len(Flight')].msg_type = type
           /\ Flight'[Len(Flight')].info = i
           /\ \A k \in 1 .. Len(Flight') : k # Len(Flight') =>
                 k \in 1 .. Len(Flight) /\ Flight'[k] = Flight[k]
  <1> DEFINE m == [msg_type |-> type, info |-> i]
  <1>1. msgs \in Seq(Msg) /\ new_msg_ring \in Seq(Msg) /\ m \in Msg
        BY DEF TypeOK, MasterTypes, QueueTypes, Msg
  <1>2. msgs' = msgs /\ new_msg_ring' = Append(new_msg_ring, m)
        BY DEF Send
  <1>3. Len(msgs) \in Nat /\ Len(new_msg_ring) \in Nat
        BY <1>1
  <1> HIDE DEF m
  <1>4. Flight' = msgs \o Append(new_msg_ring, m)
        BY <1>2 DEF Flight
  <1>5. /\ Len(Flight) = Len(msgs) + Len(new_msg_ring)
        /\ Len(Flight') = Len(msgs) + Len(new_msg_ring) + 1
        BY <1>1, <1>4 DEF Flight
  <1>6. Flight'[Len(Flight')] = m
        BY <1>1, <1>3, <1>4, <1>5
  <1>7. ASSUME NEW k \in 1 .. Len(Flight'), k # Len(Flight')
        PROVE  k \in 1 .. Len(Flight) /\ Flight'[k] = Flight[k]
    <2>1. CASE k <= Len(msgs)
          BY <1>1, <1>3, <1>4, <1>5, <1>7, <2>1 DEF Flight
    <2>2. CASE k > Len(msgs)
          BY <1>1, <1>3, <1>4, <1>5, <1>7, <2>2 DEF Flight
    <2>. QED BY <1>3, <2>1, <2>2
  <1>. QED BY <1>5, <1>6, <1>7 DEF m

(* The bulk dequeue of d2sc_nf_check_status, and the one of the shutdown loop,
   change neither the messages nor their order. *)
LEMMA FlightMoved ==
    ASSUME TypeOK, msgs = <<>>, msgs' = new_msg_ring, new_msg_ring' = <<>>
    PROVE  Flight' = Flight
  <1>1. new_msg_ring \in Seq(Msg)
        BY DEF TypeOK, QueueTypes
  <1>. QED BY <1>1 DEF Flight

(* What nf_start and nf_stop write and the NF threads read. *)
registryVars == <<status, inst_id, info_pool, nf_info, next_inst_id>>

(* A step that leaves alone what nf_start and nf_stop write, the messages and
   what the threads rely on, keeps the invariant. *)
LEMMA QuietStep ==
    ASSUME TypeOK, OwnershipInv, UNCHANGED registryVars, Flight' = Flight,
           crash' # "master", ThreadOwns',
           \A j \in Infos : pc'[j] = "waiting" => pc[j] = "waiting"
    PROVE  OwnershipInv'
  <1> USE DEF registryVars, OwnershipInv
  <1>1. SlotsOwned' /\ HandlersFindTheirNf'
        BY DEF SlotsOwned, HandlersFindTheirNf
  <1>2. LivePublished' /\ NewUnpublished' /\ NextIsFree'
        BY DEF LivePublished, NewUnpublished, NextIsFree, IsAt
  <1>3. StartingAlone'
        BY DEF StartingAlone, IsMsg
  <1>4. OthersPublished'
    <2>1. \A k \in 1 .. Len(Flight) : Flight[k].info \in Infos
          BY FlightType DEF Msg
    <2>. QED BY <2>1 DEF OthersPublished, IsMsg, IsAt
  <1>5. StoppingLast'
        BY DEF StoppingLast, IsMsg
  <1>. QED BY <1>1, <1>2, <1>3, <1>4, <1>5

(* What a handler must leave of a struct that other messages are about. *)
Kept(j) ==
    /\ status[j] \in {"WAITTING_FOR_ID", "STOPPED"} => status'[j] = status[j]
    /\ inst_id'[j] = inst_id[j]
    /\ j \in info_pool' => j \in info_pool
    /\ IsAt(j) => inst_id'[j] \in Ids /\ nf_info'[inst_id'[j]] = j

(* Handling a message keeps what the invariant says of the other messages, when
   the handler leaves the structs of those messages alone. *)
LEMMA TakenKeeps ==
    ASSUME TypeOK, StartingAlone, OthersPublished, StoppingLast,
           NEW type, NEW i \in Infos, Handling(type, i),
           \A k \in 1 .. Len(Flight') : Kept(Flight'[k].info)
    PROVE  StartingAlone' /\ OthersPublished' /\ StoppingLast'
  <1>1. \A k \in 1 .. Len(Flight') :
           k \in Int /\ k + 1 \in 1 .. Len(Flight) /\ Flight'[k] = Flight[k + 1]
        BY FlightTaken
  <1>2. StartingAlone'
    <2> SUFFICES ASSUME NEW k \in 1 .. Len(Flight'), IsMsg(k, "NF_STARTING")'
                 PROVE  /\ status'[Flight'[k].info] = "WAITTING_FOR_ID"
                        /\ inst_id'[Flight'[k].info] = NO_ID
                        /\ Flight'[k].info \notin info_pool'
                        /\ \A j \in 1 .. Len(Flight') :
                              Flight'[j].info = Flight'[k].info => j = k
        BY DEF StartingAlone
    <2>1. k + 1 \in 1 .. Len(Flight) /\ Flight'[k] = Flight[k + 1]
          BY <1>1
    <2>2. IsMsg(k + 1, "NF_STARTING")
          BY <2>1 DEF IsMsg
    <2>3. ASSUME NEW j \in 1 .. Len(Flight'), Flight'[j].info = Flight'[k].info
          PROVE  j = k
      <3>1. j + 1 \in 1 .. Len(Flight) /\ Flight'[j] = Flight[j + 1]
            BY <1>1
      <3>2. j + 1 = k + 1
            BY <2>1, <2>2, <2>3, <3>1 DEF StartingAlone
      <3>. QED BY <1>1, <3>2
    <2>4. Kept(Flight'[k].info)
          OBVIOUS
    <2>. QED BY <2>1, <2>2, <2>3, <2>4 DEF StartingAlone, Kept
  <1>3. OthersPublished'
    <2> SUFFICES ASSUME NEW k \in 1 .. Len(Flight'), ~IsMsg(k, "NF_STARTING")'
                 PROVE  IsAt(Flight[k].info)' /\ pc'[Flight'[k].info] # "waiting"
        BY DEF OthersPublished
    <2>1. /\ ~IsMsg(k + 1, "NF_STARTING") /\ k + 1 \in 1 .. Len(Flight)
          /\ Flight'[k] = Flight[k + 1]
          BY <1>1 DEF IsMsg
    <2>2. IsAt(Flight[k + 1].info) /\ pc[Flight[k + 1].info] # "waiting"
          BY <2>1 DEF OthersPublished
    <2>3. pc' = pc
          BY DEF Handling, nfVars
    <2>4. Kept(Flight'[k].info)
          OBVIOUS
    <2>5. /\ inst_id'[Flight'[k].info] \in Ids
          /\ nf_info'[inst_id'[Flight'[k].info]] = Flight'[k].info
          BY <2>1, <2>2, <2>4 DEF Kept, IsAt
    <2>. QED BY <2>1, <2>2, <2>3, <2>5 DEF IsAt
  <1>4. StoppingLast'
    <2> SUFFICES ASSUME NEW k \in 1 .. Len(Flight'), IsMsg(k, "NF_STOPPING")'
                 PROVE  /\ status'[Flight'[k].info] = "STOPPED"
                        /\ \A j \in 1 .. Len(Flight') :
                              Flight'[j].info = Flight'[k].info => j <= k
        BY DEF StoppingLast
    <2>1. k + 1 \in 1 .. Len(Flight) /\ Flight'[k] = Flight[k + 1]
          BY <1>1
    <2>2. IsMsg(k + 1, "NF_STOPPING")
          BY <2>1 DEF IsMsg
    <2>3. ASSUME NEW j \in 1 .. Len(Flight'), Flight'[j].info = Flight'[k].info
          PROVE  j <= k
      <3>1. j + 1 \in 1 .. Len(Flight) /\ Flight'[j] = Flight[j + 1]
            BY <1>1
      <3>2. j + 1 <= k + 1
            BY <2>1, <2>2, <2>3, <3>1 DEF StoppingLast
      <3>. QED BY <1>1, <3>2
    <2>4. Kept(Flight'[k].info)
          OBVIOUS
    <2>. QED BY <2>1, <2>2, <2>3, <2>4 DEF StoppingLast, Kept
  <1>. QED BY <1>2, <1>3, <1>4

(* A handler that changes nothing of the registry keeps the invariant. *)
LEMMA TakenStep ==
    ASSUME TypeOK, OwnershipInv, NEW type, NEW i \in Infos, Handling(type, i),
           UNCHANGED <<registryVars, crash>>
    PROVE  OwnershipInv'
  <1> USE DEF registryVars, OwnershipInv
  <1>1. SlotsOwned' /\ HandlersFindTheirNf' /\ ThreadOwns'
        BY DEF SlotsOwned, HandlersFindTheirNf, ThreadOwns, Handling, nfVars
  <1>2. LivePublished' /\ NewUnpublished' /\ NextIsFree'
        BY DEF LivePublished, NewUnpublished, NextIsFree, IsAt
  <1>3. \A j : Kept(j)
        BY DEF Kept, IsAt
  <1>4. StartingAlone' /\ OthersPublished' /\ StoppingLast'
        BY <1>3, TakenKeeps
  <1>. QED BY <1>1, <1>2, <1>4

(* The NF of a message other than NF_STARTING is registered when it is handled. *)
LEMMA HandledPublished ==
    ASSUME TypeOK, OwnershipInv, NEW type, NEW i \in Infos, Handling(type, i),
           type # "NF_STARTING"
    PROVE  IsAt(i)
  BY FlightTaken DEF OwnershipInv, OthersPublished, IsMsg

(* nf_block, nf_run and nf_srv_time keep the invariant: the pointer that they
   follow without a test is the NF of the message, so that they write its own
   status into it. *)
LEMMA OwnBlock ==
    ASSUME TypeOK, OwnershipInv, NEW i \in Infos,
           NfBlock(i) \/ NfRun(i) \/ NfSrvTime(i)
    PROVE  OwnershipInv'
  <1>1. PICK type \in {"NF_BLOCKING", "NF_RUNNING", "NF_SRV_TIME"} : Handling(type, i)
        BY DEF NfBlock, NfRun, NfSrvTime
  <1>2. IsAt(i)
        BY <1>1, HandledPublished
  <1>3. nf_info[inst_id[i]] = i /\ inst_id[i] \in Ids /\ i # NULL
        BY <1>2, SetsAssumption DEF IsAt
  <1>4. status' = status /\ crash' = crash
        BY <1>3 DEF NfBlock, NfRun, NfSrvTime, PublishStatus, TypeOK, InfoTypes,
                    infoVars
  <1>5. UNCHANGED <<inst_id, info_pool, nf_info, next_inst_id>>
        BY DEF NfBlock, NfRun, NfSrvTime, infoVars, tableVars, countVars
  <1>. QED BY <1>1, <1>4, <1>5, TakenStep DEF registryVars

(* nf_ready keeps the invariant. *)
LEMMA OwnReady ==
    ASSUME TypeOK, OwnershipInv, NEW i \in Infos, NfReady(i)
    PROVE  OwnershipInv'
  <1> USE DEF OwnershipInv
  <1>1. /\ Handling("NF_READY", i)
        /\ UNCHANGED <<inst_id, info_pool, nf_info, next_inst_id, crash, pc>>
        BY DEF NfReady, Handling, tableVars, nfVars
  <1>2. CASE status' = status
        BY <1>1, <1>2, TakenStep DEF registryVars
  <1>3. CASE status[i] = "STARTING" /\ status' = [status EXCEPT ![i] = "RUNNING"]
    <2>1. status \in [Infos -> Status]
          BY DEF TypeOK, InfoTypes
    <2>2. SlotsOwned' /\ HandlersFindTheirNf' /\ NextIsFree'
          BY <1>1 DEF SlotsOwned, HandlersFindTheirNf, NextIsFree
    <2>3. LivePublished' /\ NewUnpublished' /\ ThreadOwns'
      <3>1. LivePublished'
            BY <1>1, <1>3, <2>1 DEF LivePublished, IsAt, Live
      <3>2. NewUnpublished'
            BY <1>1, <1>3, <2>1 DEF NewUnpublished
      <3>3. \A j \in Infos : /\ status[j] \in Live => status'[j] \in Live
                             /\ pc[j] = "waiting" /\ j # i => status'[j] = status[j]
            BY <1>3, <2>1 DEF Live
      <3>4. pc[i] # "waiting"
            BY <1>1, FlightTaken DEF OthersPublished, IsMsg
      <3>5. ThreadOwns'
            BY <1>1, <3>3, <3>4 DEF ThreadOwns
      <3>. QED BY <3>1, <3>2, <3>5
    <2>4. \A j \in Infos : Kept(j)
          BY <1>1, <1>3, <2>1 DEF Kept, IsAt
    <2>5. \A k \in 1 .. Len(Flight') : Flight'[k].info \in Infos
          BY <1>1, FlightTaken, FlightType DEF Msg
    <2>6. StartingAlone' /\ OthersPublished' /\ StoppingLast'
          BY <1>1, <2>4, <2>5, TakenKeeps
    <2>. QED BY <2>2, <2>3, <2>6
  <1>. QED BY <1>2, <1>3 DEF NfReady

(* nf_stop keeps the invariant: it clears the slot of the NF that stopped, and
   no message about that NF is left. *)
LEMMA OwnStop ==
    ASSUME TypeOK, OwnershipInv, NEW i \in Infos, NfStop(i)
    PROVE  OwnershipInv'
  <1> USE DEF OwnershipInv
  <1>1. /\ Handling("NF_STOPPING", i)
        /\ nf_info' = [nf_info EXCEPT ![inst_id[i]] = NULL]
        /\ info_pool' = info_pool \cup {i}
        /\ UNCHANGED <<status, inst_id, next_inst_id, crash, pc>>
        BY DEF NfStop, Handling, nfVars
  <1>2. nf_info \in [Ids -> Infos \cup {NULL}] /\ NULL \notin Infos
        BY SetsAssumption DEF TypeOK, TableTypes
  <1>3. /\ status[i] = "STOPPED"
        /\ \A k \in 1 .. Len(Flight') : Flight'[k].info # i
    <2>1. /\ 1 \in 1 .. Len(Flight) /\ IsMsg(1, "NF_STOPPING")
          /\ Flight[1].info = i
          BY <1>1, FlightTaken DEF IsMsg
    <2>2. /\ status[i] = "STOPPED"
          /\ \A k \in 1 .. Len(Flight) : Flight[k].info = i => k <= 1
          BY <2>1 DEF StoppingLast
    <2>. QED BY <1>1, <2>2, FlightTaken
  <1>4. \A j \in Infos : j # i /\ IsAt(j) => IsAt(j)'
        BY <1>1, <1>2, <1>3, HandledPublished DEF IsAt
  <1>5. \A id \in Ids : nf_info'[id] = nf_info[id] \/ nf_info'[id] = NULL
        BY <1>1, <1>2
  <1>6. \A id \in Ids : nf_info'[id] # i
        BY <1>1, <1>2 DEF SlotsOwned
  <1>7. SlotsOwned'
        BY <1>1, <1>5, <1>6 DEF SlotsOwned
  <1>8. LivePublished' /\ HandlersFindTheirNf'
        BY <1>1, <1>3, <1>4 DEF LivePublished, HandlersFindTheirNf, Live
  <1>9. NewUnpublished' /\ NextIsFree'
        BY <1>1, <1>2, <1>5 DEF NewUnpublished, NextIsFree
  <1>10. ThreadOwns'
        BY <1>1, <1>3 DEF ThreadOwns
  <1>11. \A j \in Infos : j # i => Kept(j)
        BY <1>1, <1>4 DEF Kept, IsAt
  <1>12. \A k \in 1 .. Len(Flight') : Flight'[k].info \in Infos
        BY <1>1, FlightTaken, FlightType DEF Msg
  <1>13. StartingAlone' /\ OthersPublished' /\ StoppingLast'
        BY <1>1, <1>3, <1>11, <1>12, TakenKeeps
  <1>. QED BY <1>7, <1>8, <1>9, <1>10, <1>13

(* nf_start keeps the invariant: the id that d2sc_nf_next_inst_id finds is not
   the one of any registered NF. *)
LEMMA OwnStart ==
    ASSUME TypeOK, OwnershipInv, NEW i \in Infos, NfStart(i)
    PROVE  OwnershipInv'
  <1> USE DEF OwnershipInv
  <1>1. /\ Handling("NF_STARTING", i)
        /\ UNCHANGED <<info_pool, crash, pc>>
        BY DEF NfStart, Handling, nfVars
  <1>2. /\ status[i] = "WAITTING_FOR_ID" /\ inst_id[i] = NO_ID
        /\ i \notin info_pool
        /\ \A k \in 1 .. Len(Flight') : Flight'[k].info # i
    <2>1. /\ 1 \in 1 .. Len(Flight) /\ IsMsg(1, "NF_STARTING")
          /\ Flight[1].info = i
          BY <1>1, FlightTaken DEF IsMsg
    <2>2. /\ status[i] = "WAITTING_FOR_ID" /\ inst_id[i] = NO_ID
          /\ i \notin info_pool
          /\ \A k \in 1 .. Len(Flight) : Flight[k].info = i => k = 1
          BY <2>1 DEF StartingAlone
    <2>3. \A k \in 1 .. Len(Flight') : k + 1 # 1 /\ k + 1 \in 1 .. Len(Flight)
                                     /\ Flight'[k] = Flight[k + 1]
          BY <1>1, FlightTaken
    <2>. QED BY <2>2, <2>3
  <1>3. PICK id \in Ids \cup {MAX_NFS, inst_id[i]} : ChosenId(i, id) /\ Assign(i, id)
        BY <1>2 DEF NfStart
  <1>4. NextInstId(id)
        BY <1>2, <1>3 DEF ChosenId
  <1>5. next_inst_id \in 1 .. MAX_NFS /\ MAX_NFS \in Nat
        BY NumbersAssumption DEF TypeOK, CountTypes
  <1>6. \/ id = MAX_NFS /\ next_inst_id' = next_inst_id
        \/ /\ id \in Ids /\ nf_info[id] = NULL /\ id >= next_inst_id
           /\ next_inst_id' = id + 1
        BY <1>4, <1>5 DEF NextInstId, NextIsFree, Ids
  <1>7. /\ status \in [Infos -> Status] /\ inst_id \in [Infos -> U16s]
        /\ nf_info \in [Ids -> Infos \cup {NULL}] /\ NULL \notin Infos
        BY SetsAssumption DEF TypeOK, InfoTypes, TableTypes
  <1>8. \/ /\ \E why \in {"NO_IDS", "ID_CONFLICT"} :
                 status' = [status EXCEPT ![i] = why]
           /\ inst_id' = inst_id /\ nf_info' = nf_info
        \/ /\ id \in Ids /\ nf_info[id] = NULL
           /\ inst_id' = [inst_id EXCEPT ![i] = id]
           /\ nf_info' = [nf_info EXCEPT ![id] = i]
           /\ status' = [status EXCEPT ![i] = "STARTING"]
        BY <1>3, <1>6, <1>5 DEF Assign, Refuse, Register, Ids
  <1>9. \A j \in Infos : j # i => /\ status'[j] = status[j]
                                  /\ inst_id'[j] = inst_id[j]
        BY <1>7, <1>8
  <1>10. \A j \in Infos : j # i /\ IsAt(j) => IsAt(j)'
        BY <1>7, <1>8, <1>9 DEF IsAt
  <1>11. SlotsOwned'
        BY <1>1, <1>2, <1>7, <1>8, <1>9 DEF SlotsOwned, NewUnpublished
  <1>12. LivePublished'
        BY <1>7, <1>8, <1>9, <1>10 DEF LivePublished, IsAt, Live
  <1>13. NewUnpublished'
        BY <1>2, <1>7, <1>8, <1>9 DEF NewUnpublished
  <1>14. NextIsFree'
        BY <1>5, <1>6, <1>7, <1>8 DEF NextIsFree, Ids
  <1>15. ThreadOwns'
        BY <1>1, <1>2, <1>7, <1>8, <1>9 DEF ThreadOwns, Live
  <1>16. HandlersFindTheirNf'
        BY <1>1 DEF HandlersFindTheirNf
  <1>17. \A j \in Infos : j # i => Kept(j)
        BY <1>1, <1>9, <1>10 DEF Kept, IsAt
  <1>18. \A k \in 1 .. Len(Flight') : Flight'[k].info \in Infos
        BY <1>1, FlightTaken, FlightType DEF Msg
  <1>19. StartingAlone' /\ OthersPublished' /\ StoppingLast'
        BY <1>1, <1>2, <1>17, <1>18, TakenKeeps
  <1>. QED BY <1>11, <1>12, <1>13, <1>14, <1>15, <1>16, <1>19

(* The places of an NF thread that has its id and is not done. *)
Going == {"started", "exiting"} \cup InLoop

(* An NF thread that only moves to another place of its code, or dies, keeps
   the invariant. *)
LEMMA ThreadStep ==
    ASSUME TypeOK, OwnershipInv, NEW i \in Infos, NEW next,
           pc' = [pc EXCEPT ![i] = next],
           next = "none" \/ (next \in Going /\ pc[i] \in Going),
           UNCHANGED <<registryVars, msgs, new_msg_ring, crash>>
    PROVE  OwnershipInv'
  <1>1. pc \in [Infos -> PCs]
        BY DEF TypeOK, NfTypes
  <1>2. "none" \notin Going /\ "waiting" \notin Going
        BY DEF Going, InLoop
  <1>3. \A j \in Infos : /\ pc'[j] = "waiting" => pc[j] = "waiting"
                         /\ pc'[j] \in Going => pc[j] \in Going
        BY <1>1, <1>2
  <1>4. ThreadOwns'
        BY <1>3 DEF OwnershipInv, ThreadOwns, Going, registryVars
  <1>5. Flight' = Flight
        BY DEF Flight
  <1>6. crash' # "master"
        BY DEF OwnershipInv, HandlersFindTheirNf
  <1>. QED BY <1>3, <1>4, <1>5, <1>6, QuietStep

(* An NF thread that sends a message about its own struct, other than
   NF_STARTING, keeps the invariant, when the struct is marked as stopped
   before the last message only. *)
LEMMA SentStep ==
    ASSUME TypeOK, OwnershipInv, NEW p \in Infos,
           NEW type \in MsgType, type # "NF_STARTING",
           NEW s \in Live \cup {"STOPPED"}, NEW next,
           type = "NF_STOPPING" => s = "STOPPED",
           s = "STOPPED" => next = "none",
           next = "none" \/ next \in Going, pc[p] \in Going,
           Send(type, p),
           status' = [status EXCEPT ![p] = s],
           pc' = [pc EXCEPT ![p] = next],
           UNCHANGED <<inst_id, info_pool, nf_info, next_inst_id, msgs, crash>>
    PROVE  OwnershipInv'
  <1> USE DEF OwnershipInv
  <1>1. pc \in [Infos -> PCs] /\ status \in [Infos -> Status]
        BY DEF TypeOK, NfTypes, InfoTypes
  <1>2. "none" \notin Going /\ "waiting" \notin Going
        BY DEF Going, InLoop
  <1>3. \A j \in Infos : /\ pc'[j] = "waiting" => pc[j] = "waiting" /\ j # p
                         /\ pc'[j] \in Going => pc[j] \in Going
                         /\ pc'[p] \in Going => s \in Live
        BY <1>1, <1>2
  <1>4. \A j \in Infos : j # p => status'[j] = status[j]
        BY <1>1
  <1>5. status'[p] = s /\ status[p] \in Live
        BY <1>1 DEF ThreadOwns, Going
  <1>6. SlotsOwned' /\ HandlersFindTheirNf' /\ NextIsFree'
        BY DEF SlotsOwned, HandlersFindTheirNf, NextIsFree
  <1>7. LivePublished' /\ NewUnpublished'
    <2>1. LivePublished'
          BY <1>4, <1>5 DEF LivePublished, IsAt
    <2>2. NewUnpublished'
          BY <1>4, <1>5 DEF NewUnpublished, Live
    <2>. QED BY <2>1, <2>2
  <1>8. ThreadOwns'
        BY <1>3, <1>4, <1>5 DEF ThreadOwns, Going
  <1>9. IsAt(p)
        BY <1>5 DEF LivePublished
  <1> DEFINE n == Len(Flight')
  <1>10. /\ Flight'[n].msg_type = type /\ Flight'[n].info = p
         /\ n = Len(Flight) + 1
         /\ \A k \in 1 .. n : k # n =>
               k \in 1 .. Len(Flight) /\ Flight'[k] = Flight[k]
         BY FlightSent
  <1>11. Len(Flight) \in Nat /\ \A k \in 1 .. Len(Flight) : Flight[k].info \in Infos
         BY FlightType DEF Msg
  <1> HIDE DEF n
  <1>12. \A k \in 1 .. n : k # n /\ IsMsg(k, "NF_STARTING")' =>
            IsMsg(k, "NF_STARTING")
         BY <1>10 DEF IsMsg, n
  <1>13. StartingAlone'
    <2> SUFFICES ASSUME NEW k \in 1 .. n, IsMsg(k, "NF_STARTING")'
                 PROVE  /\ status'[Flight'[k].info] = "WAITTING_FOR_ID"
                        /\ inst_id'[Flight'[k].info] = NO_ID
                        /\ Flight'[k].info \notin info_pool'
                        /\ \A j \in 1 .. n :
                              Flight'[j].info = Flight'[k].info => j = k
        BY DEF StartingAlone, n
    <2>1. k # n
          BY <1>10 DEF IsMsg, n
    <2>2. /\ k \in 1 .. Len(Flight) /\ Flight'[k] = Flight[k]
          /\ IsMsg(k, "NF_STARTING")
          BY <1>10, <1>12, <2>1
    <2>3. /\ status[Flight[k].info] = "WAITTING_FOR_ID"
          /\ inst_id[Flight[k].info] = NO_ID
          /\ Flight[k].info \notin info_pool
          /\ \A j \in 1 .. Len(Flight) :
                Flight[j].info = Flight[k].info => j = k
          BY <2>2 DEF StartingAlone
    <2>4. Flight[k].info # p
          BY <1>5, <2>3 DEF Live
    <2>. QED BY <1>4, <1>10, <1>11, <2>2, <2>3, <2>4
  <1>14. OthersPublished'
    <2> SUFFICES ASSUME NEW k \in 1 .. n, ~IsMsg(k, "NF_STARTING")'
                 PROVE  IsAt(Flight[k].info)' /\ pc'[Flight'[k].info] # "waiting"
        BY DEF OthersPublished, n
    <2>1. CASE k = n
          BY <1>3, <1>9, <1>10, <2>1 DEF IsAt
    <2>2. CASE k # n
      <3>1. /\ k \in 1 .. Len(Flight) /\ Flight'[k] = Flight[k]
            /\ ~IsMsg(k, "NF_STARTING")
            BY <1>10, <2>2 DEF IsMsg, n
      <3>2. IsAt(Flight[k].info) /\ pc[Flight[k].info] # "waiting"
            BY <3>1 DEF OthersPublished
      <3>. QED BY <1>3, <1>11, <3>1, <3>2 DEF IsAt
    <2>. QED BY <2>1, <2>2
  <1>15. StoppingLast'
    <2> SUFFICES ASSUME NEW k \in 1 .. n, IsMsg(k, "NF_STOPPING")'
                 PROVE  /\ status'[Flight'[k].info] = "STOPPED"
                        /\ \A j \in 1 .. n :
                              Flight'[j].info = Flight'[k].info => j <= k
        BY DEF StoppingLast, n
    <2>1. CASE k = n
          BY <1>5, <1>10, <1>11, <2>1 DEF IsMsg
    <2>2. CASE k # n
      <3>1. /\ k \in 1 .. Len(Flight) /\ Flight'[k] = Flight[k]
            /\ IsMsg(k, "NF_STOPPING")
            BY <1>10, <2>2 DEF IsMsg, n
      <3>2. /\ status[Flight[k].info] = "STOPPED"
            /\ \A j \in 1 .. Len(Flight) :
                  Flight[j].info = Flight[k].info => j <= k
            BY <3>1 DEF StoppingLast
      <3>3. Flight[k].info # p
            BY <1>5, <3>2 DEF Live
      <3>. QED BY <1>4, <1>10, <1>11, <3>1, <3>2, <3>3
    <2>. QED BY <2>1, <2>2
  <1>. QED BY <1>6, <1>7, <1>8, <1>13, <1>14, <1>15

(* d2sc_nfrt_init keeps the invariant: a struct of the mempool is in no message
   and in no slot. *)
LEMMA OwnLaunch ==
    ASSUME TypeOK, OwnershipInv, "overrun" \notin Env, NEW i \in Infos,
           NEW t \in NTs, Launch(i, t, NO_ID)
    PROVE  OwnershipInv'
  <1> USE DEF OwnershipInv
  <1>1. /\ i \in info_pool /\ Send("NF_STARTING", i)
        /\ status' = [status EXCEPT ![i] = "WAITTING_FOR_ID"]
        /\ inst_id' = [inst_id EXCEPT ![i] = NO_ID]
        /\ pc' = [pc EXCEPT ![i] = "waiting"]
        /\ info_pool' = info_pool \ {i}
        /\ UNCHANGED <<nf_info, next_inst_id, crash, msgs>>
        BY DEF Launch, SendFails, tableVars, countVars, masterVars
  <1>2. /\ pc \in [Infos -> PCs] /\ status \in [Infos -> Status]
        /\ inst_id \in [Infos -> U16s]
        /\ nf_info \in [Ids -> Infos \cup {NULL}] /\ NULL \notin Infos
        BY SetsAssumption DEF TypeOK, NfTypes, InfoTypes, TableTypes
  <1>3. /\ status'[i] = "WAITTING_FOR_ID" /\ inst_id'[i] = NO_ID
        /\ pc'[i] = "waiting" /\ i \notin info_pool'
        /\ \A j \in Infos : j # i =>
              /\ status'[j] = status[j] /\ inst_id'[j] = inst_id[j]
              /\ pc'[j] = pc[j] /\ (j \in info_pool' => j \in info_pool)
        BY <1>1, <1>2
  <1>4. \A id \in Ids : nf_info[id] # i
        BY <1>1, <1>2 DEF SlotsOwned
  <1>5. SlotsOwned' /\ HandlersFindTheirNf' /\ NextIsFree'
        BY <1>1, <1>2, <1>3, <1>4 DEF SlotsOwned, HandlersFindTheirNf, NextIsFree
  <1>6. LivePublished' /\ NewUnpublished'
        BY <1>1, <1>3, <1>4 DEF LivePublished, NewUnpublished, IsAt, Live
  <1>7. ThreadOwns'
        BY <1>3 DEF ThreadOwns, Live, InLoop
  <1> DEFINE n == Len(Flight')
  <1>8. "NF_STARTING" \in MsgType
        BY DEF MsgType
  <1>9. /\ Flight'[n].msg_type = "NF_STARTING" /\ Flight'[n].info = i
        /\ n = Len(Flight) + 1
        /\ \A k \in 1 .. n : k # n =>
              k \in 1 .. Len(Flight) /\ Flight'[k] = Flight[k]
        BY <1>1, <1>8, FlightSent
  <1>10. Len(Flight) \in Nat /\ \A k \in 1 .. Len(Flight) : Flight[k].info \in Infos
         BY FlightType DEF Msg
  <1>11. \A k \in 1 .. Len(Flight) : Flight[k].info # i
    <2> SUFFICES ASSUME NEW k \in 1 .. Len(Flight) PROVE Flight[k].info # i
        OBVIOUS
    <2>1. CASE IsMsg(k, "NF_STARTING")
          BY <1>1, <2>1 DEF StartingAlone
    <2>2. CASE ~IsMsg(k, "NF_STARTING")
          BY <1>4, <2>2 DEF OthersPublished, IsAt
    <2>. QED BY <2>1, <2>2
  <1> HIDE DEF n
  <1>12. StartingAlone'
    <2> SUFFICES ASSUME NEW k \in 1 .. n, IsMsg(k, "NF_STARTING")'
                 PROVE  /\ status'[Flight'[k].info] = "WAITTING_FOR_ID"
                        /\ inst_id'[Flight'[k].info] = NO_ID
                        /\ Flight'[k].info \notin info_pool'
                        /\ \A j \in 1 .. n :
                              Flight'[j].info = Flight'[k].info => j = k
        BY DEF StartingAlone, n
    <2>1. CASE k = n
          BY <1>3, <1>9, <1>10, <1>11, <2>1
    <2>2. CASE k # n
      <3>1. /\ k \in 1 .. Len(Flight) /\ Flight'[k] = Flight[k]
            /\ IsMsg(k, "NF_STARTING")
            BY <1>9, <2>2 DEF IsMsg, n
      <3>2. /\ status[Flight[k].info] = "WAITTING_FOR_ID"
            /\ inst_id[Flight[k].info] = NO_ID
            /\ Flight[k].info \notin info_pool
            /\ \A j \in 1 .. Len(Flight) :
                  Flight[j].info = Flight[k].info => j = k
            BY <3>1 DEF StartingAlone
      <3>. QED BY <1>3, <1>9, <1>10, <1>11, <3>1, <3>2
    <2>. QED BY <2>1, <2>2
  <1>13. OthersPublished'
    <2> SUFFICES ASSUME NEW k \in 1 .. n, ~IsMsg(k, "NF_STARTING")'
                 PROVE  IsAt(Flight[k].info)' /\ pc'[Flight'[k].info] # "waiting"
        BY DEF OthersPublished, n
    <2>1. k # n
          BY <1>9 DEF IsMsg, n
    <2>2. /\ k \in 1 .. Len(Flight) /\ Flight'[k] = Flight[k]
          /\ ~IsMsg(k, "NF_STARTING")
          BY <1>9, <2>1 DEF IsMsg, n
    <2>3. IsAt(Flight[k].info) /\ pc[Flight[k].info] # "waiting"
          BY <2>2 DEF OthersPublished
    <2>. QED BY <1>1, <1>3, <1>10, <1>11, <2>2, <2>3 DEF IsAt
  <1>14. StoppingLast'
    <2> SUFFICES ASSUME NEW k \in 1 .. n, IsMsg(k, "NF_STOPPING")'
                 PROVE  /\ status'[Flight'[k].info] = "STOPPED"
                        /\ \A j \in 1 .. n :
                              Flight'[j].info = Flight'[k].info => j <= k
        BY DEF StoppingLast, n
    <2>1. k # n
          BY <1>9 DEF IsMsg, n
    <2>2. /\ k \in 1 .. Len(Flight) /\ Flight'[k] = Flight[k]
          /\ IsMsg(k, "NF_STOPPING")
          BY <1>9, <2>1 DEF IsMsg, n
    <2>3. /\ status[Flight[k].info] = "STOPPED"
          /\ \A j \in 1 .. Len(Flight) :
                Flight[j].info = Flight[k].info => j <= k
          BY <2>2 DEF StoppingLast
    <2>. QED BY <1>3, <1>9, <1>10, <1>11, <2>2, <2>3
  <1>. QED BY <1>5, <1>6, <1>7, <1>12, <1>13, <1>14

(* The end of the wait for an id keeps the invariant: only a struct that was
   refused goes back to the mempool. *)
LEMMA OwnAnswered ==
    ASSUME TypeOK, OwnershipInv, NEW i \in Infos, Answered(i)
    PROVE  OwnershipInv'
  <1> USE DEF OwnershipInv
  <1>1. /\ pc[i] = "waiting"
        /\ UNCHANGED <<status, inst_id, nf_info, next_inst_id, msgs,
                       new_msg_ring, crash>>
        BY DEF Answered, tableVars, countVars, queueVars, masterVars
  <1>2. pc \in [Infos -> PCs] /\ Flight' = Flight
        BY <1>1 DEF TypeOK, NfTypes, Flight
  <1>3. CASE /\ status[i] = "STARTING"
             /\ pc' = [pc EXCEPT ![i] = "started"] /\ info_pool' = info_pool
    <2>1. ThreadOwns'
          BY <1>1, <1>2, <1>3 DEF ThreadOwns, Live
    <2>2. \A j \in Infos : pc'[j] = "waiting" => pc[j] = "waiting"
          BY <1>2, <1>3
    <2>. QED BY <1>1, <1>2, <1>3, <2>1, <2>2, QuietStep
             DEF registryVars, HandlersFindTheirNf
  <1>4. CASE /\ status[i] # "STARTING"
             /\ pc' = [pc EXCEPT ![i] = "none"] /\ info_pool' = info_pool \cup {i}
    <2>1. status[i] \in {"ID_CONFLICT", "NO_IDS"}
          BY <1>1, <1>4 DEF ThreadOwns, Answered
    <2>2. \A id \in Ids : nf_info[id] # i
          BY <2>1 DEF NewUnpublished
    <2>3. SlotsOwned' /\ HandlersFindTheirNf' /\ NextIsFree'
          BY <1>1, <1>4, <2>2 DEF SlotsOwned, HandlersFindTheirNf, NextIsFree
    <2>4. LivePublished' /\ NewUnpublished'
          BY <1>1 DEF LivePublished, NewUnpublished, IsAt
    <2>5. \A j \in Infos :
             /\ pc'[j] = "waiting" => pc[j] = "waiting" /\ j # i
             /\ pc'[j] \in {"started", "exiting"} \cup InLoop =>
                  pc[j] \in {"started", "exiting"} \cup InLoop
          BY <1>2, <1>4 DEF InLoop
    <2>6. ThreadOwns'
          BY <1>1, <1>4, <2>5 DEF ThreadOwns
    <2>7. \A k \in 1 .. Len(Flight) : Flight[k].info \in Infos
          BY FlightType DEF Msg
    <2>8. StartingAlone'
          BY <1>1, <1>2, <1>4, <2>1 DEF StartingAlone, IsMsg
    <2>9. OthersPublished'
          BY <1>1, <1>2, <2>5, <2>7 DEF OthersPublished, IsMsg, IsAt
    <2>10. StoppingLast'
          BY <1>1, <1>2 DEF StoppingLast, IsMsg
    <2>. QED BY <2>3, <2>4, <2>6, <2>8, <2>9, <2>10
  <1>. QED BY <1>3, <1>4 DEF Answered

(* The steps of an NF thread that send nothing keep the invariant. *)
LEMMA OwnThread ==
    ASSUME TypeOK, OwnershipInv, "overrun" \notin Env, NEW i \in Infos,
           \/ LoopTest(i) \/ FlagTest(i) \/ ExitScan(i) \/ PowerExitFailed(i)
           \/ DequeueNewMsgs(i) \/ Signal(i) \/ Callback(i) \/ Kill(i)
    PROVE  OwnershipInv'
  <1>1. UNCHANGED <<registryVars, msgs, new_msg_ring, crash>>
        BY DEF registryVars, LoopTest, FlagTest, ExitScan, PowerExitFailed,
               DequeueNewMsgs, Signal, Callback, Kill, infoVars, tableVars,
               countVars, queueVars, masterVars
  <1>2. CASE pc' = pc
    <2>1. ThreadOwns'
          BY <1>1, <1>2 DEF OwnershipInv, ThreadOwns, registryVars
    <2>. QED BY <1>1, <1>2, <2>1, QuietStep
             DEF OwnershipInv, HandlersFindTheirNf, Flight
  <1>3. CASE \E next \in {"none"} \cup Going :
               /\ pc' = [pc EXCEPT ![i] = next]
               /\ next = "none" \/ pc[i] \in Going
    <2>1. PICK next \in {"none"} \cup Going :
             /\ pc' = [pc EXCEPT ![i] = next]
             /\ next = "none" \/ pc[i] \in Going
          BY <1>3
    <2>2. next = "none" \/ (next \in Going /\ pc[i] \in Going)
          BY <2>1
    <2>. QED BY <1>1, <2>1, <2>2, ThreadStep
  <1>4. CASE LoopTest(i) \/ FlagTest(i) \/ DequeueNewMsgs(i)
    <2>1. pc[i] \in Going
          BY <1>4 DEF LoopTest, FlagTest, DequeueNewMsgs, Going, InLoop
    <2>2. \E next \in {"top", "exiting", "msgs", "blocked", "scale", "srv_time"} :
             pc' = [pc EXCEPT ![i] = next]
          BY <1>4 DEF LoopTest, FlagTest, DequeueNewMsgs
    <2>. QED BY <1>3, <2>1, <2>2 DEF Going, InLoop
  <1>5. CASE PowerExitFailed(i) \/ Kill(i)
        BY <1>3, <1>5 DEF PowerExitFailed, Kill
  <1>6. CASE ExitScan(i) \/ Signal(i) \/ Callback(i)
        BY <1>2, <1>6 DEF ExitScan, Signal, Callback
  <1>. QED BY <1>4, <1>5, <1>6

(* d2sc_nfrt_nf_ready, d2sc_nfrt_nf_srv_time and d2sc_nfrt_stop keep the
   invariant. *)
LEMMA OwnMessages ==
    ASSUME TypeOK, OwnershipInv, "overrun" \notin Env, NEW i \in Infos,
           NfReadyMsg(i) \/ SendSrvTime(i) \/ Stop(i) \/ Abort(i)
    PROVE  OwnershipInv'
  <1>1. PICK type \in MsgType \ {"NF_STARTING"},
             s \in Live \cup {"STOPPED"}, next \in {"none"} \cup Going :
           /\ type = "NF_STOPPING" => s = "STOPPED"
           /\ s = "STOPPED" => next = "none"
           /\ pc[i] \in Going
           /\ status' = [status EXCEPT ![i] = s]
           /\ SendOrExit(type, i, i, next, {}) \/ SendOrExit(type, i, i, next, {i})
    <2>1. status \in [Infos -> Status]
          BY DEF TypeOK, InfoTypes
    <2>2. CASE NfReadyMsg(i) \/ SendSrvTime(i)
      <3>1. pc[i] \in Going /\ status[i] \in Live
            BY <2>2 DEF NfReadyMsg, SendSrvTime, Going, InLoop, OwnershipInv,
                        ThreadOwns
      <3>2. status' = [status EXCEPT ![i] = status[i]]
            BY <2>1, <2>2 DEF NfReadyMsg, SendSrvTime
      <3>3. status[i] # "STOPPED"
            BY <3>1 DEF Live
      <3>4. \E type \in {"NF_READY", "NF_SRV_TIME"}, next \in Going :
               SendOrExit(type, i, i, next, {})
            BY <2>2 DEF NfReadyMsg, SendSrvTime, Going, InLoop
      <3>. QED BY <3>1, <3>2, <3>3, <3>4 DEF MsgType
    <2>3. CASE Stop(i) \/ Abort(i)
          BY <2>3 DEF Stop, Abort, NfrtStop, Going, MsgType
    <2>. QED BY <2>2, <2>3
  <1>2. /\ Send(type, i) /\ pc' = [pc EXCEPT ![i] = next]
        /\ info_pool' = info_pool
        BY <1>1 DEF SendOrExit, SendFails
  <1>3. UNCHANGED <<inst_id, nf_info, next_inst_id, msgs, crash>>
        BY DEF NfReadyMsg, SendSrvTime, Stop, Abort, NfrtStop, tableVars,
               countVars, masterVars
  <1>. QED BY <1>1, <1>2, <1>3, SentStep

(* d2sc_nfrt_check_scale_msg keeps the invariant: the struct that it finds
   under the id of its thread is the one of the thread. *)
LEMMA OwnPass ==
    ASSUME TypeOK, OwnershipInv, "overrun" \notin Env, NEW i \in Infos,
           RunningPass(i) \/ BlockedPass(i)
    PROVE  OwnershipInv'
  <1>1. PICK next \in Going : CheckScaleMsg(i, next)
        BY DEF RunningPass, BlockedPass, Going, InLoop
  <1>2. pc[i] \in Going
        BY DEF RunningPass, BlockedPass, Going, InLoop
  <1>3. Own(i) = i
        BY <1>2 DEF Own, Going, OwnershipInv, ThreadOwns, LivePublished, IsAt
  <1>4. UNCHANGED <<inst_id, nf_info, next_inst_id, msgs, crash>>
        BY DEF RunningPass, BlockedPass, tableVars, countVars, masterVars
  <1>5. CASE ScaleBlock(i, next) \/ ScaleRun(i, next)
    <2>1. PICK type \in {"NF_BLOCKING", "NF_RUNNING"}, s \in Live :
             /\ status' = [status EXCEPT ![i] = s]
             /\ SendOrExit(type, i, i, next, {i})
          BY <1>3, <1>5 DEF ScaleBlock, ScaleRun, Live
    <2>2. /\ Send(type, i) /\ pc' = [pc EXCEPT ![i] = next]
          /\ info_pool' = info_pool
          BY <2>1 DEF SendOrExit, SendFails
    <2>3. type \in MsgType /\ type # "NF_STARTING" /\ type # "NF_STOPPING"
          BY DEF MsgType
    <2>4. s # "STOPPED"
          BY DEF Live
    <2>. QED BY <1>2, <1>4, <2>1, <2>2, <2>3, <2>4, SentStep
  <1>6. CASE /\ \E n \in {"none", next} : pc' = [pc EXCEPT ![i] = n]
             /\ UNCHANGED <<status, info_pool, new_msg_ring>>
        BY <1>2, <1>4, <1>6, ThreadStep DEF registryVars
  <1>. QED BY <1>1, <1>5, <1>6 DEF CheckScaleMsg, FollowsNull

(* No step of the scale thread touches the registry or a status. *)
LEMMA OwnScale ==
    ASSUME TypeOK, OwnershipInv, ScaleStep PROVE OwnershipInv'
  <1>1. UNCHANGED <<registryVars, msgs, new_msg_ring, pc>>
        BY DEF ScaleStep, RoundStart, RoundEnd, SetBlockFlag, BlockAgain,
               RunParent, CheckLoad, BlockToRun, registryVars, infoVars, tableVars,
               countVars, queueVars, masterVars, nfVars
  <1>2. crash' \in {crash, "scale"}
        BY DEF ScaleStep, RoundStart, RoundEnd, SetBlockFlag, BlockAgain,
               RunParent, CheckLoad, BlockToRun, masterVars
  <1>3. ThreadOwns'
        BY <1>1 DEF OwnershipInv, ThreadOwns, registryVars
  <1>4. Flight' = Flight
        BY <1>1 DEF Flight
  <1>5. crash' # "master"
        BY <1>2 DEF OwnershipInv, HandlersFindTheirNf
  <1>. QED BY <1>1, <1>3, <1>4, <1>5, QuietStep

(* Neither do the polls of the master and the message to stop at shutdown. *)
LEMMA OwnPoll ==
    ASSUME TypeOK, OwnershipInv,
           CheckStatus \/ DrainExits \/ MasterDone \/ Shutdown \/ UNCHANGED vars
    PROVE  OwnershipInv'
  <1>1. UNCHANGED <<registryVars, crash, pc>>
        BY DEF CheckStatus, DrainExits, MasterDone, Shutdown, vars, registryVars,
               infoVars, tableVars, countVars, masterVars, nfVars
  <1>2. Flight' = Flight
    <2>1. CASE CheckStatus \/ DrainExits
          BY <2>1, FlightMoved DEF CheckStatus, DrainExits
    <2>2. CASE MasterDone \/ Shutdown \/ UNCHANGED vars
          BY <2>2 DEF MasterDone, Shutdown, vars, Flight, queueVars, masterVars
    <2>. QED BY <2>1, <2>2
  <1>3. ThreadOwns'
        BY <1>1 DEF OwnershipInv, ThreadOwns, registryVars
  <1>4. crash' # "master"
        BY <1>1 DEF OwnershipInv, HandlersFindTheirNf
  <1>. QED BY <1>1, <1>2, <1>3, <1>4, QuietStep

(* No struct is registered, and no message sent, at the start. *)
LEMMA OwnInit == Init => OwnershipInv
  <1> SUFFICES ASSUME Init PROVE OwnershipInv
      OBVIOUS
  <1>1. Flight = <<>> /\ Len(Flight) = 0
        BY DEF Init, Flight
  <1>2. StartingAlone /\ OthersPublished /\ StoppingLast
        BY <1>1 DEF StartingAlone, OthersPublished, StoppingLast
  <1>3. SlotsOwned /\ HandlersFindTheirNf /\ NextIsFree
        BY DEF Init, SlotsOwned, HandlersFindTheirNf, NextIsFree
  <1>4. LivePublished /\ NewUnpublished /\ ThreadOwns
        BY SetsAssumption DEF Init, LivePublished, NewUnpublished, ThreadOwns,
                              Live, InLoop
  <1>. QED BY <1>2, <1>3, <1>4 DEF OwnershipInv

(* Every step keeps the invariant, when operators leave the ids to the manager
   and new_msg_ring is never full. *)
LEMMA OwnNext ==
    ASSUME UserIds = {}, "overrun" \notin Env
    PROVE  TypeOK /\ OwnershipInv /\ [Next]_vars => OwnershipInv'
  <1> SUFFICES ASSUME TypeOK, OwnershipInv, [Next]_vars PROVE OwnershipInv'
      OBVIOUS
  <1>1. CASE MasterStep \/ Shutdown
        BY <1>1, OwnPoll, OwnStart, OwnReady, OwnStop, OwnBlock
        DEF MasterStep, HandleMsg
  <1>2. CASE ScaleStep
        BY <1>2, OwnScale
  <1>3. ASSUME NEW i \in Infos, NfStep(i) PROVE OwnershipInv'
        BY <1>3, OwnAnswered, OwnMessages, OwnThread, OwnPass DEF NfStep
  <1>4. ASSUME NEW i \in Infos, NfEvent(i) PROVE OwnershipInv'
        BY <1>4, OwnLaunch, OwnMessages, OwnThread DEF NfEvent
  <1>5. CASE UNCHANGED vars
        BY <1>5, OwnPoll
  <1>. QED BY <1>1, <1>2, <1>3, <1>4, <1>5 DEF Next

(* For any number of NFs, ids and types, whatever dies, is signalled, aborted,
   blocked or shut down, and in whatever order: the NF table and the messages
   under way fit together, as OwnershipInv says, as long as the manager chooses
   the ids and no NF finds new_msg_ring full. *)
THEOREM Ownership ==
    ASSUME UserIds = {}, "overrun" \notin Env
    PROVE  Spec => []OwnershipInv
  <1>1. TypeOK /\ OwnershipInv /\ [Next]_vars => OwnershipInv'
        BY OwnNext
  <1>. QED BY <1>1, OwnInit, TypeCorrect, PTL DEF Spec

(* Under the same assumptions the NF table holds no dangling pointer: nf_stop
   clears a slot before the struct in it is used again. *)
THEOREM SlotsAreOwned ==
    ASSUME UserIds = {}, "overrun" \notin Env
    PROVE  Spec => []SlotsOwned
  <1>1. OwnershipInv => SlotsOwned
        BY DEF OwnershipInv
  <1>. QED BY <1>1, Ownership, PTL

(* Under the same assumptions no handler of the master follows a null pointer:
   nf_block, nf_run and nf_srv_time find the NF of their message registered. *)
THEOREM HandlersAreSafe ==
    ASSUME UserIds = {}, "overrun" \notin Env
    PROVE  Spec => []HandlersFindTheirNf
  <1>1. OwnershipInv => HandlersFindTheirNf
        BY DEF OwnershipInv
  <1>. QED BY <1>1, Ownership, PTL

(* No step takes the slot of a running NF from it: nf_start registers at an id
   that is free, and nf_stop is about an NF that stopped. *)
LEMMA KeepsSlotStep ==
    ASSUME TypeOK, OwnershipInv, [Next]_vars, NEW id \in Ids, IsValid(id)
    PROVE  nf_info'[id] = nf_info[id]
  <1>1. nf_info \in [Ids -> Infos \cup {NULL}] /\ NULL \notin Infos
        BY SetsAssumption DEF TypeOK, TableTypes
  <1>2. ASSUME NEW i \in Infos, NfStop(i) PROVE nf_info'[id] = nf_info[id]
    <2>1. /\ Handling("NF_STOPPING", i)
          /\ nf_info' = [nf_info EXCEPT ![inst_id[i]] = NULL]
          BY <1>2 DEF NfStop
    <2>2. 1 \in 1 .. Len(Flight) /\ IsMsg(1, "NF_STOPPING") /\ Flight[1].info = i
          BY <2>1, FlightTaken DEF IsMsg
    <2>3. status[i] = "STOPPED" /\ nf_info[inst_id[i]] = i
          BY <2>1, <2>2, HandledPublished DEF OwnershipInv, StoppingLast, IsAt
    <2>. QED BY <1>1, <2>1, <2>3 DEF IsValid
  <1>3. ASSUME NEW i \in Infos, NfStart(i) PROVE nf_info'[id] = nf_info[id]
    <2>1. CASE UNCHANGED nf_info
          BY <2>1
    <2>2. ASSUME NEW n, Assign(i, n) PROVE nf_info'[id] = nf_info[id]
          BY <1>1, <2>2 DEF Assign, Refuse, Register, IsValid
    <2>. QED BY <1>3, <2>1, <2>2 DEF NfStart
  <1>4. CASE UNCHANGED nf_info
        BY <1>4
  <1>5. UNCHANGED nf_info \/ \E i \in Infos : NfStop(i) \/ NfStart(i)
    <2>1. CASE MasterStep \/ Shutdown
          BY <2>1 DEF MasterStep, HandleMsg, CheckStatus, DrainExits, MasterDone,
                      Shutdown, NfReady, NfBlock, NfRun, NfSrvTime, tableVars
    <2>2. CASE ScaleStep
          BY <2>2 DEF ScaleStep, RoundStart, RoundEnd, SetBlockFlag, BlockAgain,
                      RunParent, CheckLoad, BlockToRun, tableVars
    <2>3. ASSUME NEW i \in Infos, NfStep(i) \/ NfEvent(i) PROVE UNCHANGED nf_info
          BY <2>3 DEF NfStep, NfEvent, Answered, NfReadyMsg, LoopTest, FlagTest,
                      DequeueNewMsgs, SendSrvTime, RunningPass, BlockedPass,
                      ExitScan, Stop, PowerExitFailed, Launch, Abort, Signal,
                      Callback, Kill, NfrtStop, tableVars
    <2>. QED BY <2>1, <2>2, <2>3 DEF Next, vars, tableVars
  <1>. QED BY <1>2, <1>3, <1>4, <1>5

(* An NF that is running keeps its slot until it stops, as long as the manager
   chooses the ids and no NF finds new_msg_ring full. *)
THEOREM KeepsSlot ==
    ASSUME UserIds = {}, "overrun" \notin Env
    PROVE  Spec => RunningKeepsSlot
  <1>1. TypeOK /\ OwnershipInv /\ [Next]_vars =>
          [\A id \in Ids : IsValid(id) => nf_info'[id] = nf_info[id]]_vars
        BY KeepsSlotStep
  <1>. QED BY <1>1, Ownership, TypeCorrect, PTL DEF Spec, RunningKeepsSlot

-----------------------------------------------------------------------------
(* The abstract registry: every step of a thread is a step of it, or leaves owner
   and phase alone. *)

(* A struct of the mempool has not asked for an id. *)
PoolIsIdle ==
    \A i \in info_pool : ~(status[i] = "WAITTING_FOR_ID" /\ inst_id[i] = NO_ID)

(* The refinement mapping of phase, and what a step may do to it. *)
Phases == [i \in Infos |-> Phase(i)]
Stutter == UNCHANGED <<nf_info, Phases>>

(* The phase of an NF depends on its status, its id and its slot. *)
LEMMA StepQuiet ==
    ASSUME UNCHANGED <<status, inst_id, nf_info>>
    PROVE  Stutter
  BY DEF Stutter, Phases, Phase, IsAt

(* When the phase of one NF changes, that is a move of the registry. *)
LEMMA OneMoves ==
    ASSUME NEW i \in Infos, NEW from, NEW to, Phase(i) = from, Phase(i)' = to,
           \A j \in Infos : j # i => Phase(j)' = Phase(j)
    PROVE  Registry!Moves(i, from, to)
  BY DEF Registry!Moves

(* d2sc_nfrt_init asks. *)
LEMMA StepLaunch ==
    ASSUME TypeOK, OwnershipInv, PoolIsIdle, "overrun" \notin Env,
           NEW i \in Infos, NEW t \in NTs, Launch(i, t, NO_ID)
    PROVE  Registry!Ask(i) /\ PoolIsIdle'
  <1>1. /\ i \in info_pool
        /\ status' = [status EXCEPT ![i] = "WAITTING_FOR_ID"]
        /\ inst_id' = [inst_id EXCEPT ![i] = NO_ID]
        /\ info_pool' = info_pool \ {i}
        /\ nf_info' = nf_info
        BY DEF Launch, SendFails, tableVars
  <1>2. /\ status \in [Infos -> Status] /\ inst_id \in [Infos -> U16s]
        /\ info_pool \subseteq Infos
        BY DEF TypeOK, InfoTypes
  <1>3. \A j \in Infos : j # i => Phase(j)' = Phase(j)
        BY <1>1, <1>2 DEF Phase, IsAt
  <1>4. ~IsAt(i)
        BY <1>1, <1>2, SetsAssumption DEF OwnershipInv, SlotsOwned, IsAt
  <1>5. Phase(i) = "out"
        BY <1>1, <1>4 DEF Phase, PoolIsIdle, OwnershipInv, LivePublished
  <1>6. Phase(i)' = "asked"
        BY <1>1, <1>2 DEF Phase, Live
  <1>7. Registry!Moves(i, "out", "asked")
        BY <1>3, <1>5, <1>6, OneMoves
  <1>8. PoolIsIdle'
        BY <1>1, <1>2 DEF PoolIsIdle
  <1>. QED BY <1>1, <1>7, <1>8 DEF Registry!Ask

(* nf_start grants an id that nobody has, or refuses. *)
LEMMA StepStart ==
    ASSUME TypeOK, OwnershipInv, PoolIsIdle, NEW i \in Infos, NfStart(i)
    PROVE  (Registry!Refuse(i) \/ Registry!Grant(i)) /\ PoolIsIdle'
  <1>1. /\ Handling("NF_STARTING", i) /\ info_pool' = info_pool
        BY DEF NfStart
  <1>2. 1 \in 1 .. Len(Flight) /\ IsMsg(1, "NF_STARTING") /\ Flight[1].info = i
        BY <1>1, FlightTaken DEF IsMsg
  <1>3. status[i] = "WAITTING_FOR_ID" /\ inst_id[i] = NO_ID /\ i \notin info_pool
        BY <1>2 DEF OwnershipInv, StartingAlone
  <1>4. PICK id \in Ids \cup {MAX_NFS, inst_id[i]} : ChosenId(i, id) /\ Assign(i, id)
        BY <1>3 DEF NfStart
  <1>5. next_inst_id \in 1 .. MAX_NFS /\ MAX_NFS \in Nat
        BY NumbersAssumption DEF TypeOK, CountTypes
  <1>6. id = MAX_NFS \/ (id \in Ids /\ nf_info[id] = NULL)
        BY <1>3, <1>4, <1>5 DEF ChosenId, NextInstId, OwnershipInv, NextIsFree, Ids
  <1>7. /\ status \in [Infos -> Status] /\ inst_id \in [Infos -> U16s]
        /\ info_pool \subseteq Infos
        /\ nf_info \in [Ids -> Infos \cup {NULL}] /\ NULL \notin Infos
        BY SetsAssumption DEF TypeOK, InfoTypes, TableTypes
  <1>8. Phase(i) = "asked"
        BY <1>3 DEF Phase, Live
  <1>9. CASE /\ \E why \in {"NO_IDS", "ID_CONFLICT"} :
                   status' = [status EXCEPT ![i] = why]
             /\ inst_id' = inst_id /\ nf_info' = nf_info
    <2>1. \A j \in Infos : j # i => Phase(j)' = Phase(j)
          BY <1>7, <1>9 DEF Phase, IsAt
    <2>2. Phase(i)' = "out"
          BY <1>7, <1>9 DEF Phase, Live
    <2>3. Registry!Moves(i, "asked", "out")
          BY <1>8, <2>1, <2>2, OneMoves
    <2>4. PoolIsIdle'
          BY <1>1, <1>3, <1>7, <1>9 DEF PoolIsIdle
    <2>. QED BY <1>9, <2>3, <2>4 DEF Registry!Refuse
  <1>10. CASE /\ id \in Ids /\ nf_info[id] = NULL
              /\ inst_id' = [inst_id EXCEPT ![i] = id]
              /\ nf_info' = [nf_info EXCEPT ![id] = i]
              /\ status' = [status EXCEPT ![i] = "STARTING"]
    <2>1. \A j \in Infos : j # i =>
             /\ status'[j] = status[j] /\ inst_id'[j] = inst_id[j]
             /\ IsAt(j)' <=> IsAt(j)
          BY <1>7, <1>10 DEF IsAt
    <2>2. \A j \in Infos : j # i => Phase(j)' = Phase(j)
          BY <2>1 DEF Phase
    <2>3. Phase(i)' = "in"
          BY <1>7, <1>10 DEF Phase, Live
    <2>4. Registry!Moves(i, "asked", "in")
          BY <1>8, <2>2, <2>3, OneMoves
    <2>5. PoolIsIdle'
          BY <1>1, <1>3, <1>7, <1>10 DEF PoolIsIdle
    <2>. QED BY <1>10, <2>4, <2>5 DEF Registry!Grant
  <1>. QED BY <1>4, <1>5, <1>6, <1>9, <1>10 DEF Assign, Refuse, Register, Ids

(* nf_stop releases the id of an NF that is leaving. *)
LEMMA StepStop ==
    ASSUME TypeOK, OwnershipInv, PoolIsIdle, NEW i \in Infos, NfStop(i)
    PROVE  Registry!Release(i) /\ PoolIsIdle'
  <1>1. /\ Handling("NF_STOPPING", i)
        /\ nf_info' = [nf_info EXCEPT ![inst_id[i]] = NULL]
        /\ info_pool' = info_pool \cup {i}
        /\ status' = status /\ inst_id' = inst_id
        BY DEF NfStop
  <1>2. 1 \in 1 .. Len(Flight) /\ IsMsg(1, "NF_STOPPING") /\ Flight[1].info = i
        BY <1>1, FlightTaken DEF IsMsg
  <1>3. status[i] = "STOPPED" /\ IsAt(i)
        BY <1>1, <1>2, HandledPublished DEF OwnershipInv, StoppingLast
  <1>4. nf_info \in [Ids -> Infos \cup {NULL}] /\ NULL \notin Infos
        BY SetsAssumption DEF TypeOK, TableTypes
  <1>5. \A j \in Infos : j # i => (IsAt(j)' <=> IsAt(j))
        BY <1>1, <1>3, <1>4 DEF IsAt
  <1>6. \A j \in Infos : j # i => Phase(j)' = Phase(j)
        BY <1>1, <1>5 DEF Phase
  <1>7. Phase(i) = "leaving"
        BY <1>3 DEF Phase, Live
  <1>8. ~IsAt(i)'
        BY <1>1, <1>3, <1>4 DEF IsAt
  <1>9. Phase(i)' = "out"
        BY <1>1, <1>3, <1>8 DEF Phase, Live
  <1>10. Registry!Moves(i, "leaving", "out")
         BY <1>6, <1>7, <1>9, OneMoves
  <1>11. PoolIsIdle'
         BY <1>1, <1>3 DEF PoolIsIdle
  <1>. QED BY <1>1, <1>3, <1>10, <1>11 DEF Registry!Release, IsAt

(* A thread that goes on living keeps the phase of its NF, and d2sc_nfrt_stop
   leaves the registry. *)
LEMMA StepStatus ==
    ASSUME TypeOK, OwnershipInv, PoolIsIdle, NEW i \in Infos,
           NEW s \in Live \cup {"STOPPED"}, status[i] \in Live,
           status' = [status EXCEPT ![i] = s], info_pool' = info_pool,
           UNCHANGED <<inst_id, nf_info>>
    PROVE  (Stutter \/ Registry!Leave(i)) /\ PoolIsIdle'
  <1>1. status \in [Infos -> Status] /\ info_pool \subseteq Infos
        BY DEF TypeOK, InfoTypes
  <1>2. \A j \in Infos : j # i => Phase(j)' = Phase(j)
        BY <1>1 DEF Phase, IsAt
  <1>3. Phase(i) = "in" /\ IsAt(i)
        BY DEF Phase, OwnershipInv, LivePublished
  <1>4. CASE s \in Live
    <2>1. Phase(i)' = "in"
          BY <1>1, <1>4 DEF Phase
    <2>2. Phases' = Phases
          BY <1>2, <1>3, <2>1 DEF Phases
    <2>. QED BY <1>1, <1>4, <2>2 DEF Stutter, PoolIsIdle, Live
  <1>5. CASE s = "STOPPED"
    <2>1. Phase(i)' = "leaving"
          BY <1>1, <1>3, <1>5 DEF Phase, Live, IsAt
    <2>2. Registry!Moves(i, "in", "leaving")
          BY <1>2, <1>3, <2>1, OneMoves
    <2>. QED BY <1>1, <1>5, <2>2 DEF Registry!Leave, PoolIsIdle
  <1>. QED BY <1>4, <1>5

(* Neither the polls of the master, nor nf_block, nf_run and nf_srv_time, nor
   the scale thread, nor the events of an NF but its launch and its abort touch
   the registry or the mempool. *)
LEMMA StepOther ==
    ASSUME TypeOK, OwnershipInv, PoolIsIdle, "overrun" \notin Env,
           \/ CheckStatus \/ DrainExits \/ MasterDone \/ Shutdown \/ ScaleStep
           \/ UNCHANGED vars
           \/ \E i \in Infos :
                 \/ NfBlock(i) \/ NfRun(i) \/ NfSrvTime(i)
                 \/ LoopTest(i) \/ FlagTest(i) \/ DequeueNewMsgs(i)
                 \/ NfReadyMsg(i) \/ SendSrvTime(i)
                 \/ ExitScan(i) \/ PowerExitFailed(i)
                 \/ Signal(i) \/ Callback(i) \/ Kill(i)
    PROVE  Stutter /\ PoolIsIdle'
  <1> DEFINE Same == UNCHANGED <<status, inst_id, nf_info, info_pool>>
  <1>1. ASSUME CheckStatus \/ DrainExits \/ MasterDone \/ Shutdown \/ UNCHANGED vars
        PROVE  Same
        BY <1>1 DEF CheckStatus, DrainExits, MasterDone, Shutdown, vars, infoVars,
                    tableVars
  <1>2. ASSUME ScaleStep PROVE Same
        BY <1>2 DEF ScaleStep, RoundStart, RoundEnd, SetBlockFlag, BlockAgain,
                    RunParent, CheckLoad, BlockToRun, infoVars, tableVars
  <1>3. ASSUME NEW i \in Infos, NfBlock(i) \/ NfRun(i) \/ NfSrvTime(i)
        PROVE  Same
    <2>1. PICK type \in {"NF_BLOCKING", "NF_RUNNING", "NF_SRV_TIME"} :
             Handling(type, i)
          BY <1>3 DEF NfBlock, NfRun, NfSrvTime
    <2>2. nf_info[inst_id[i]] = i /\ i # NULL
          BY <2>1, HandledPublished, SetsAssumption DEF IsAt
    <2>. QED BY <1>3, <2>2 DEF NfBlock, NfRun, NfSrvTime, PublishStatus, TypeOK,
                               InfoTypes, infoVars, tableVars
  <1>4. ASSUME NEW i \in Infos,
               \/ LoopTest(i) \/ FlagTest(i) \/ DequeueNewMsgs(i)
               \/ ExitScan(i) \/ PowerExitFailed(i)
               \/ Signal(i) \/ Callback(i) \/ Kill(i)
        PROVE  Same
        BY <1>4 DEF LoopTest, FlagTest, DequeueNewMsgs, ExitScan, PowerExitFailed,
                    Signal, Callback, Kill, infoVars, tableVars
  <1>5. ASSUME NEW i \in Infos, NfReadyMsg(i) \/ SendSrvTime(i) PROVE Same
        BY <1>5 DEF NfReadyMsg, SendSrvTime, SendOrExit, SendFails, tableVars
  <1>6. Same
        BY <1>1, <1>2, <1>3, <1>4, <1>5
  <1>. QED BY <1>6, StepQuiet DEF PoolIsIdle

(* nf_ready and the passes of an NF change the status of an NF that has its id
   to another one with which it has it. *)
LEMMA StepLive ==
    ASSUME TypeOK, OwnershipInv, PoolIsIdle, "overrun" \notin Env,
           NEW i \in Infos,
           NfReady(i) \/ RunningPass(i) \/ BlockedPass(i) \/ Stop(i) \/ Abort(i)
    PROVE  (Stutter \/ Registry!Leave(i)) /\ PoolIsIdle'
  <1> DEFINE Same == UNCHANGED <<status, inst_id, nf_info, info_pool>>
             Sets(s) == /\ status[i] \in Live
                        /\ status' = [status EXCEPT ![i] = s]
                        /\ UNCHANGED <<info_pool, inst_id, nf_info>>
  <1>1. Same => Stutter /\ PoolIsIdle'
        BY StepQuiet DEF PoolIsIdle
  <1>2. ASSUME NEW s \in Live \cup {"STOPPED"}, Sets(s)
        PROVE  (Stutter \/ Registry!Leave(i)) /\ PoolIsIdle'
        BY <1>2, StepStatus
  <1>3. CASE NfReady(i)
    <2>1. Same \/ Sets("RUNNING")
          BY <1>3 DEF NfReady, tableVars, Live
    <2>. QED BY <1>1, <1>2, <2>1 DEF Live
  <1>4. CASE Stop(i) \/ Abort(i)
    <2>1. status[i] \in Live
          BY <1>4 DEF Stop, Abort, OwnershipInv, ThreadOwns
    <2>2. Sets("STOPPED")
          BY <1>4, <2>1 DEF Stop, Abort, NfrtStop, SendOrExit, SendFails, tableVars
    <2>. QED BY <1>2, <2>2
  <1>5. CASE RunningPass(i) \/ BlockedPass(i)
    <2>1. PICK next : CheckScaleMsg(i, next)
          BY <1>5 DEF RunningPass, BlockedPass
    <2>2. pc[i] \in InLoop
          BY <1>5 DEF RunningPass, BlockedPass, InLoop
    <2>3. status[i] \in Live /\ Own(i) = i
          BY <2>2 DEF Own, OwnershipInv, ThreadOwns, LivePublished, IsAt
    <2>4. UNCHANGED <<inst_id, nf_info>>
          BY <1>5 DEF RunningPass, BlockedPass, tableVars
    <2>5. CASE ScaleBlock(i, next) \/ ScaleRun(i, next)
      <3>1. Sets("BLOCKED") \/ Sets("RUNNING")
            BY <2>3, <2>4, <2>5
            DEF ScaleBlock, ScaleRun, SendOrExit, SendFails
      <3>. QED BY <1>2, <3>1 DEF Live
    <2>6. CASE UNCHANGED <<status, info_pool, new_msg_ring>>
          BY <1>1, <2>4, <2>6
    <2>. QED BY <2>1, <2>5, <2>6 DEF CheckScaleMsg
  <1>. QED BY <1>3, <1>4, <1>5

(* A struct that was refused goes back to the mempool: it asks no more. *)
LEMMA StepAnswered ==
    ASSUME TypeOK, OwnershipInv, PoolIsIdle, NEW i \in Infos, Answered(i)
    PROVE  Stutter /\ PoolIsIdle'
  <1>1. /\ UNCHANGED <<status, inst_id, nf_info>>
        /\ status[i] # "WAITTING_FOR_ID"
        /\ info_pool' = info_pool \/ info_pool' = info_pool \cup {i}
        BY DEF Answered, tableVars
  <1>2. PoolIsIdle'
        BY <1>1 DEF PoolIsIdle
  <1>. QED BY <1>1, <1>2, StepQuiet

(* Every step is one of the registry, or changes nothing of it. *)
LEMMA StepNext ==
    ASSUME UserIds = {}, "overrun" \notin Env
    PROVE  TypeOK /\ OwnershipInv /\ PoolIsIdle /\ [Next]_vars =>
               (Stutter \/ Registry!Next) /\ PoolIsIdle'
  <1> SUFFICES ASSUME TypeOK, OwnershipInv, PoolIsIdle, [Next]_vars
               PROVE  (Stutter \/ Registry!Next) /\ PoolIsIdle'
      OBVIOUS
  <1> USE DEF Registry!Next
  <1>1. CASE MasterStep \/ Shutdown
        BY <1>1, StepOther, StepStart, StepLive, StepStop DEF MasterStep, HandleMsg
  <1>2. CASE ScaleStep \/ UNCHANGED vars
        BY <1>2, StepOther
  <1>3. ASSUME NEW i \in Infos, NfStep(i)
        PROVE  (Stutter \/ Registry!Next) /\ PoolIsIdle'
        BY <1>3, StepAnswered, StepOther, StepLive DEF NfStep
  <1>4. ASSUME NEW i \in Infos, NfEvent(i)
        PROVE  (Stutter \/ Registry!Next) /\ PoolIsIdle'
        BY <1>4, StepLaunch, StepOther, StepLive DEF NfEvent
  <1>. QED BY <1>1, <1>2, <1>3, <1>4 DEF Next

(* For any number of NFs, ids and types, the threads and messages of the life
   cycle implement the registry: an id is given to an NF that asked and only
   while nobody has it, and only the NF's own end takes it back, as long as the
   manager chooses the ids and no NF finds new_msg_ring full. *)
THEOREM RegistryImplemented ==
    ASSUME UserIds = {}, "overrun" \notin Env
    PROVE  Spec => Implements
  <1>1. Init => Registry!Init /\ PoolIsIdle
    <2>1. NO_ID # 0
          BY DEF NO_ID, U16
    <2>2. Init => \A i \in Infos : Phase(i) = "out"
          BY <2>1 DEF Init, Phase, Live
    <2>. QED BY <2>1, <2>2 DEF Init, Registry!Init, PoolIsIdle
  <1>2. TypeOK /\ OwnershipInv /\ PoolIsIdle /\ [Next]_vars =>
            [Registry!Next]_<<nf_info, [i \in Infos |-> Phase(i)]>> /\ PoolIsIdle'
        BY StepNext DEF Stutter, Phases
  <1>. QED BY <1>1, <1>2, Ownership, TypeCorrect, PTL
           DEF Spec, Implements, Registry!Spec

-----------------------------------------------------------------------------
(* The handshake that blocks an NF and runs it again leaves no NF behind:
   HandshakeInv of NfLifecycle is inductive with TypeOK and OwnershipInv, as long
   as the manager runs, operators leave the ids to it, no NF is told to end and
   none finds new_msg_ring full.  Each lemma Hand... is the step of one group of
   actions. *)

(* What the lemmas are about: a step that leaves the manager running. *)
Running ==
    /\ TypeOK /\ OwnershipInv /\ HandshakeInv
    /\ master = "running" /\ master' = "running"

(* Handling a message leaves all the others under way. *)
LEMMA StaysInFlight ==
    ASSUME TypeOK, NEW type, NEW i \in Infos, Handling(type, i),
           NEW ty, NEW j \in Infos, InFlight(ty, j), ty # type \/ j # i
    PROVE  InFlight(ty, j)'
  <1>1. PICK k \in 1 .. Len(Flight) : Flight[k].msg_type = ty /\ Flight[k].info = j
        BY DEF InFlight
  <1>2. /\ Flight[1].msg_type = type /\ Flight[1].info = i
        /\ Len(Flight') = Len(Flight) - 1 /\ Len(Flight) \in Nat
        /\ \A m \in 1 .. Len(Flight') : Flight'[m] = Flight[m + 1]
        BY FlightTaken, FlightType
  <1>3. k - 1 \in 1 .. Len(Flight') /\ (k - 1) + 1 = k
        BY <1>1, <1>2
  <1>4. Flight'[k - 1] = Flight[k]
        BY <1>2, <1>3
  <1>. QED BY <1>1, <1>3, <1>4 DEF InFlight

(* An enqueue on new_msg_ring leaves all messages under way, and the new one. *)
LEMMA SentInFlight ==
    ASSUME TypeOK, NEW type \in MsgType, NEW i \in Infos, Send(type, i),
           UNCHANGED msgs
    PROVE  /\ InFlight(type, i)'
           /\ \A ty, j : InFlight(ty, j) => InFlight(ty, j)'
  <1>1. /\ Len(Flight') = Len(Flight) + 1 /\ Len(Flight) \in Nat
        /\ Flight'[Len(Flight')].msg_type = type
        /\ Flight'[Len(Flight')].info = i
        /\ \A k \in 1 .. Len(Flight') : k # Len(Flight') =>
              k \in 1 .. Len(Flight) /\ Flight'[k] = Flight[k]
        BY FlightSent, FlightType
  <1>2. \A k \in 1 .. Len(Flight) :
           k \in 1 .. Len(Flight') /\ Flight'[k] = Flight[k]
        BY <1>1
  <1>. QED BY <1>1, <1>2 DEF InFlight

(* A message to the NFs of a set leaves the earlier requests in their queues. *)
LEMMA ToldKept ==
    ASSUME TypeOK, NEW sig \in ScaleSig, NEW dst, SendScale(sig, dst)
    PROVE  /\ \A id \in Ids : Told(id) => Told(id)'
           /\ sig = "SCALE_BLOCK" => \A id \in dst \cap Ids : Told(id)'
  <1>1. scale_q \in [Ids -> Seq(ScaleSig)]
        BY DEF TypeOK, QueueTypes
  <1>2. ASSUME NEW id \in Ids, Told(id) PROVE Told(id)'
    <2>1. PICK k \in 1 .. Len(scale_q[id]) : scale_q[id][k] = "SCALE_BLOCK"
          BY <1>2 DEF Told
    <2>2. scale_q'[id] = scale_q[id] \/ scale_q'[id] = Append(scale_q[id], sig)
          BY DEF SendScale
    <2>3. k \in 1 .. Len(scale_q'[id]) /\ scale_q'[id][k] = scale_q[id][k]
          BY <1>1, <2>1, <2>2
    <2>. QED BY <2>1, <2>3 DEF Told
  <1>3. ASSUME sig = "SCALE_BLOCK", NEW id \in dst \cap Ids PROVE Told(id)'
    <2>1. scale_q'[id] = Append(scale_q[id], "SCALE_BLOCK")
          BY <1>3 DEF SendScale
    <2>2. /\ Len(scale_q'[id]) \in 1 .. Len(scale_q'[id])
          /\ scale_q'[id][Len(scale_q'[id])] = "SCALE_BLOCK"
          BY <1>1, <1>3, <2>1
    <2>. QED BY <2>2 DEF Told
  <1>. QED BY <1>2, <1>3

(* Two NFs that are at their ids have different ones. *)
LEMMA IdsDiffer ==
    \A i, j : IsAt(i) /\ IsAt(j) /\ i # j => inst_id[i] # inst_id[j]
  BY DEF IsAt

(* The step of the other NFs: an NF stays in step when its struct, its flag and
   what is under way about it stay. *)
LEMMA StaysInStep ==
    ASSUME NEW j \in Infos, InStep(j),
           status'[j] = status[j], inst_id'[j] = inst_id[j],
           bk_flag'[inst_id[j]] = bk_flag[inst_id[j]],
           victim' = victim \/ victim' # inst_id[j],
           InFlight("NF_BLOCKING", j) => InFlight("NF_BLOCKING", j)',
           InFlight("NF_RUNNING", j) => InFlight("NF_RUNNING", j)',
           Told(inst_id[j]) => Told(inst_id[j])'
    PROVE  InStep(j)'
  BY DEF InStep, Told

(* No NF that has its id and has yet to send NF_READY sends anything else, so
   that handling a message does not concern it. *)
LEMMA TakenSilent ==
    ASSUME TypeOK, StartedSilent, NEW type, NEW i \in Infos, Handling(type, i),
           \A j \in Infos : j # i => status'[j] = status[j]
    PROVE  StartedSilent'
  <1>1. /\ 1 \in 1 .. Len(Flight) /\ Flight[1].info = i
        /\ \A k \in 1 .. Len(Flight') :
              k + 1 \in 1 .. Len(Flight) /\ Flight'[k] = Flight[k + 1]
        BY FlightTaken
  <1>2. pc' = pc /\ pc[i] # "started"
        BY <1>1 DEF Handling, nfVars, StartedSilent
  <1>. QED BY <1>1, <1>2 DEF StartedSilent

(* What no handler of the master changes. *)
LEMMA HandlerKeeps ==
    ASSUME NEW type, NEW i, Handling(type, i)
    PROVE  /\ NobodyEnds => NobodyEnds'
           /\ victim' = victim /\ pc' = pc
           /\ \A id : Told(id) => Told(id)'
  BY DEF Handling, NobodyEnds, Told, queueVars, scaleVars, nfVars

(* nf_start keeps the handshake: nobody flagged the id that it gives. *)
LEMMA HandStart ==
    ASSUME UserIds = {}, "overrun" \notin Env,
           Running, NEW i \in Infos, NfStart(i)
    PROVE  HandshakeInv'
  <1> USE DEF Running, OwnershipInv
  <1>1. /\ Handling("NF_STARTING", i)
        /\ UNCHANGED <<bk_flag, nts>>
        BY DEF NfStart
  <1>2. /\ status[i] = "WAITTING_FOR_ID" /\ inst_id[i] = NO_ID /\ ~IsAt(i)
    <2>1. 1 \in 1 .. Len(Flight) /\ IsMsg(1, "NF_STARTING") /\ Flight[1].info = i
          BY <1>1, FlightTaken DEF IsMsg
    <2>. QED BY <2>1, IdFacts DEF StartingAlone, IsAt
  <1>3. PICK id \in Ids \cup {MAX_NFS, inst_id[i]} : ChosenId(i, id) /\ Assign(i, id)
        BY <1>2 DEF NfStart
  <1>4. NextInstId(id)
        BY <1>2, <1>3 DEF ChosenId
  <1>5. next_inst_id \in 1 .. MAX_NFS /\ MAX_NFS \in Nat
        BY NumbersAssumption DEF TypeOK, CountTypes
  <1>6. id = MAX_NFS \/ (id \in Ids /\ nf_info[id] = NULL)
        BY <1>4, <1>5 DEF NextInstId, NextIsFree, Ids
  <1>7. /\ status \in [Infos -> Status] /\ inst_id \in [Infos -> U16s]
        /\ nf_info \in [Ids -> Infos \cup {NULL}] /\ NULL \notin Infos
        BY SetsAssumption DEF TypeOK, InfoTypes, TableTypes
  <1>8. \/ /\ \E why \in {"NO_IDS", "ID_CONFLICT"} :
                 status' = [status EXCEPT ![i] = why]
           /\ inst_id' = inst_id /\ nf_info' = nf_info
        \/ /\ id \in Ids /\ nf_info[id] = NULL
           /\ inst_id' = [inst_id EXCEPT ![i] = id]
           /\ nf_info' = [nf_info EXCEPT ![id] = i]
           /\ status' = [status EXCEPT ![i] = "STARTING"]
        BY <1>3, <1>6, <1>5 DEF Assign, Refuse, Register, Ids
  <1>9. \A j \in Infos : j # i =>
           status'[j] = status[j] /\ inst_id'[j] = inst_id[j]
        BY <1>7, <1>8
  <1>10. ASSUME NEW j \in Infos, IsAt(j)' PROVE InStep(j)'
    <2>1. CASE j # i
      <3>1. IsAt(j)
            BY <1>7, <1>8, <1>9, <1>10, <2>1 DEF IsAt
      <3>2. InStep(j)
            BY <3>1 DEF HandshakeInv, AllInStep
      <3>. QED BY <1>1, <1>9, <2>1, <3>2, StaysInFlight, StaysInStep, HandlerKeeps
    <2>2. CASE j = i
      <3>1. /\ id \in Ids /\ nf_info[id] = NULL
            /\ inst_id'[i] = id /\ status'[i] = "STARTING"
            BY <1>2, <1>7, <1>8, <1>10, <2>2 DEF IsAt
      <3>2. bk_flag[id] = 0 /\ victim # id
            BY <3>1 DEF HandshakeInv, FlaggedPublished
      <3>. QED BY <1>1, <2>2, <3>1, <3>2, HandlerKeeps DEF InStep
    <2>. QED BY <2>1, <2>2
  <1>11. FlaggedPublished'
    <2>1. \A n \in Ids : nf_info[n] # NULL => nf_info'[n] # NULL
          BY <1>7, <1>8
    <2>. QED BY <1>1, <2>1, HandlerKeeps DEF HandshakeInv, FlaggedPublished
  <1>12. ListsHoldIds' /\ NobodyEnds' /\ StartedSilent'
        BY <1>1, <1>9, HandlerKeeps, TakenSilent DEF HandshakeInv, ListsHoldIds
  <1>. QED BY <1>10, <1>11, <1>12 DEF HandshakeInv, AllInStep

(* nf_ready keeps the handshake: the id that it appends to a list is one of the
   table, and the scale thread does not know the NF yet. *)
LEMMA HandReady ==
    ASSUME Running, NEW i \in Infos, NfReady(i) PROVE HandshakeInv'
  <1> USE DEF Running
  <1>1. Handling("NF_READY", i) /\ UNCHANGED <<inst_id, nf_info, bk_flag>>
        BY DEF NfReady, tableVars
  <1>2. /\ \/ status' = status
           \/ status[i] = "STARTING" /\ status' = [status EXCEPT ![i] = "RUNNING"]
        /\ status \in [Infos -> Status]
        BY DEF NfReady, TypeOK, InfoTypes
  <1>3. IsAt(i)
        BY <1>1, HandledPublished
  <1>4. ASSUME NEW j \in Infos, IsAt(j)' PROVE InStep(j)'
    <2>1. IsAt(j) /\ InStep(j)
          BY <1>1, <1>4 DEF IsAt, HandshakeInv, AllInStep
    <2>2. CASE status'[j] = status[j]
          BY <1>1, <2>1, <2>2, StaysInFlight, StaysInStep, HandlerKeeps
    <2>3. CASE status'[j] # status[j]
      <3>1. status[j] = "STARTING" /\ status'[j] = "RUNNING"
            BY <1>2, <2>3
      <3>2. bk_flag[inst_id[j]] = 0
            BY <2>1, <3>1 DEF InStep
      <3>. QED BY <1>1, <3>1, <3>2, HandlerKeeps DEF InStep
    <2>. QED BY <2>2, <2>3
  <1>5. ListsHoldIds'
    <2>1. nts \in [NTs -> [Slots -> Ids]] /\ inst_id[i] \in Ids
          BY <1>3 DEF HandshakeInv, ListsHoldIds, IsAt
    <2>2. nts' = nts \/ AddToType(type_id[i], inst_id[i])
          BY DEF NfReady
    <2>3. \/ nts' = nts
          \/ nts' = [nts EXCEPT ![type_id[i]][nfs_per_nt_num[type_id[i]]]
                          = inst_id[i]]
          BY <2>2, Zenon DEF AddToType
    <2>. QED BY <2>1, <2>3 DEF ListsHoldIds
  <1>6. FlaggedPublished' /\ NobodyEnds' /\ StartedSilent'
        BY <1>1, <1>2, HandlerKeeps, TakenSilent DEF HandshakeInv, FlaggedPublished
  <1>. QED BY <1>4, <1>5, <1>6 DEF HandshakeInv, AllInStep

(* nf_stop keeps the handshake: the NF that ends was never flagged. *)
LEMMA HandStop ==
    ASSUME Running, NEW i \in Infos, NfStop(i) PROVE HandshakeInv'
  <1> USE DEF Running
  <1>1. /\ Handling("NF_STOPPING", i)
        /\ nf_info' = [nf_info EXCEPT ![inst_id[i]] = NULL]
        /\ UNCHANGED <<status, inst_id, bk_flag>>
        BY DEF NfStop
  <1>2. nf_info \in [Ids -> Infos \cup {NULL}] /\ NULL \notin Infos
        BY SetsAssumption DEF TypeOK, TableTypes
  <1>3. IsAt(i) /\ status[i] = "STOPPED"
    <2>1. 1 \in 1 .. Len(Flight) /\ IsMsg(1, "NF_STOPPING") /\ Flight[1].info = i
          BY <1>1, FlightTaken DEF IsMsg
    <2>. QED BY <1>1, <2>1, HandledPublished DEF OwnershipInv, StoppingLast
  <1>4. bk_flag[inst_id[i]] = 0 /\ victim # inst_id[i]
        BY <1>3 DEF HandshakeInv, AllInStep, InStep
  <1>5. ASSUME NEW j \in Infos, IsAt(j)' PROVE InStep(j)'
    <2>1. j # i /\ IsAt(j)
          BY <1>1, <1>2, <1>3, <1>5 DEF IsAt
    <2>2. InStep(j)
          BY <2>1 DEF HandshakeInv, AllInStep
    <2>. QED BY <1>1, <2>1, <2>2, StaysInFlight, StaysInStep, HandlerKeeps
  <1>6. FlaggedPublished'
        BY <1>1, <1>2, <1>4, HandlerKeeps DEF HandshakeInv, FlaggedPublished
  <1>7. ListsHoldIds'
    <2>1. nts \in [NTs -> [Slots -> Ids]] /\ 0 \in Ids
          BY NumbersAssumption DEF HandshakeInv, ListsHoldIds, Ids
    <2>2. \A l \in [Slots -> Ids] : Without(l, inst_id[i]) \in [Slots -> Ids]
          BY <2>1 DEF Without
    <2>3. nts' = [nts EXCEPT ![type_id[i]] = Without(@, inst_id[i])]
          BY DEF NfStop
    <2>. QED BY <2>1, <2>2, <2>3 DEF ListsHoldIds
  <1>8. NobodyEnds' /\ StartedSilent'
        BY <1>1, HandlerKeeps, TakenSilent DEF HandshakeInv
  <1>. QED BY <1>5, <1>6, <1>7, <1>8 DEF HandshakeInv, AllInStep

(* nf_block and nf_run keep the handshake: they take the flag one step on when
   the status of the NF is the one it reported, and otherwise the NF has
   reported, or was asked, again since. *)
LEMMA HandBlock ==
    ASSUME Running, NEW i \in Infos, NfBlock(i) \/ NfRun(i) \/ NfSrvTime(i)
    PROVE  HandshakeInv'
  <1> USE DEF Running
  <1>1. PICK type \in {"NF_BLOCKING", "NF_RUNNING", "NF_SRV_TIME"} : Handling(type, i)
        BY DEF NfBlock, NfRun, NfSrvTime
  <1>2. IsAt(i) /\ i # NULL
        BY <1>1, HandledPublished, SetsAssumption
  <1>3. /\ status' = status
        /\ UNCHANGED <<inst_id, nf_info, nts>>
        BY <1>2 DEF IsAt, NfBlock, NfRun, NfSrvTime, PublishStatus, TypeOK,
                    InfoTypes, infoVars, tableVars, countVars
  <1>4. InStep(i) /\ bk_flag \in [Ids -> 0 .. 2]
        BY <1>2 DEF HandshakeInv, AllInStep, TypeOK, TableTypes
  <1>5. \/ bk_flag' = bk_flag
        \/ /\ status[i] = "BLOCKED" /\ bk_flag[inst_id[i]] = 1
           /\ bk_flag' = [bk_flag EXCEPT ![inst_id[i]] = 2]
        \/ /\ status[i] = "RUNNING" /\ bk_flag[inst_id[i]] = 2
           /\ bk_flag' = [bk_flag EXCEPT ![inst_id[i]] = 0]
        BY DEF NfBlock, NfRun, NfSrvTime, tableVars
  <1>6. ASSUME NEW j \in Infos, j # i, IsAt(j) PROVE InStep(j)'
    <2>1. InStep(j) /\ inst_id[j] # inst_id[i] /\ inst_id[j] \in Ids
          BY <1>2, <1>6, IdsDiffer DEF HandshakeInv, AllInStep, IsAt
    <2>2. bk_flag'[inst_id[j]] = bk_flag[inst_id[j]]
          BY <1>4, <1>5, <2>1
    <2>. QED BY <1>1, <1>3, <1>6, <2>1, <2>2, StaysInFlight, StaysInStep,
                HandlerKeeps
  <1>7. InStep(i)'
    <2>1. /\ NfBlock(i) => Handling("NF_BLOCKING", i)
          /\ NfRun(i) => Handling("NF_RUNNING", i)
          /\ NfSrvTime(i) => Handling("NF_SRV_TIME", i)
          BY DEF NfBlock, NfRun, NfSrvTime
    <2>2. CASE bk_flag' = bk_flag
      <3>1. ASSUME bk_flag[inst_id[i]] = 1
            PROVE  status[i] = "RUNNING" \/ InFlight("NF_BLOCKING", i)' \/ Told(inst_id[i])'
        <4>1. CASE NfBlock(i)
          <5>1. status[i] # "BLOCKED"
                BY <1>2, <1>4, <2>2, <3>1, <4>1 DEF NfBlock, IsAt
          <5>. QED BY <1>4, <3>1, <5>1 DEF InStep
        <4>2. CASE NfRun(i) \/ NfSrvTime(i)
              BY <1>3, <1>4, <2>1, <3>1, <4>2, StaysInFlight, HandlerKeeps
              DEF InStep, Told
        <4>. QED BY <4>1, <4>2
      <3>2. ASSUME bk_flag[inst_id[i]] = 2
            PROVE  status[i] = "BLOCKED" \/ InFlight("NF_RUNNING", i)'
        <4>1. CASE NfRun(i)
          <5>1. status[i] # "RUNNING"
                BY <1>2, <1>4, <2>2, <3>2, <4>1 DEF NfRun, IsAt
          <5>. QED BY <1>4, <3>2, <5>1 DEF InStep
        <4>2. CASE NfBlock(i) \/ NfSrvTime(i)
              BY <1>4, <2>1, <3>2, <4>2, StaysInFlight, HandlerKeeps DEF InStep
        <4>. QED BY <4>1, <4>2
      <3>. QED BY <1>1, <1>3, <1>4, <2>2, <3>1, <3>2, HandlerKeeps DEF InStep, Told
    <2>3. CASE /\ status[i] = "BLOCKED" /\ bk_flag[inst_id[i]] = 1
               /\ bk_flag' = [bk_flag EXCEPT ![inst_id[i]] = 2]
          BY <1>2, <1>3, <1>4, <2>3 DEF InStep, IsAt
    <2>4. CASE /\ status[i] = "RUNNING" /\ bk_flag[inst_id[i]] = 2
               /\ bk_flag' = [bk_flag EXCEPT ![inst_id[i]] = 0]
          BY <1>2, <1>3, <1>4, <2>4 DEF InStep, IsAt
    <2>. QED BY <1>5, <2>2, <2>3, <2>4
  <1>8. \A j \in Infos : IsAt(j)' => IsAt(j)
        BY <1>3 DEF IsAt
  <1>9. FlaggedPublished'
    <2>1. \A id \in Ids : bk_flag'[id] # 0 => bk_flag[id] # 0
          BY <1>2, <1>4, <1>5 DEF IsAt
    <2>. QED BY <1>1, <1>3, <2>1, HandlerKeeps DEF HandshakeInv, FlaggedPublished
  <1>10. ListsHoldIds' /\ NobodyEnds' /\ StartedSilent'
        BY <1>1, <1>3, HandlerKeeps, TakenSilent DEF HandshakeInv, ListsHoldIds
  <1>. QED BY <1>6, <1>7, <1>8, <1>9, <1>10 DEF HandshakeInv, AllInStep

(* What a step may do that leaves structs, table and lists alone. *)
LEMMA HandQuiet ==
    ASSUME Running, UNCHANGED <<status, inst_id, nf_info, bk_flag, nts, victim>>,
           \A ty, j : InFlight(ty, j) => InFlight(ty, j)',
           \A id \in Ids : bk_flag[id] = 1 /\ Told(id) => Told(id)',
           NobodyEnds', StartedSilent'
    PROVE  HandshakeInv'
  <1> USE DEF Running
  <1>1. ASSUME NEW j \in Infos, IsAt(j)' PROVE InStep(j)'
    <2>1. IsAt(j) /\ InStep(j) /\ inst_id[j] \in Ids
          BY <1>1 DEF IsAt, HandshakeInv, AllInStep
    <2>2. bk_flag[inst_id[j]] = 1 /\ Told(inst_id[j]) => Told(inst_id[j])'
          BY <2>1 DEF Told
    <2>. QED BY <2>1, <2>2 DEF InStep, Told
  <1>2. ListsHoldIds' /\ FlaggedPublished'
        BY DEF HandshakeInv, ListsHoldIds, FlaggedPublished
  <1>. QED BY <1>1, <1>2 DEF HandshakeInv, AllInStep

(* The polls of the master and its shutdown keep the handshake. *)
LEMMA HandPoll ==
    ASSUME Running, CheckStatus \/ DrainExits \/ MasterDone \/ Shutdown
                    \/ UNCHANGED vars
    PROVE  HandshakeInv'
  <1>1. /\ UNCHANGED <<status, inst_id, nf_info, bk_flag, nts, victim, scale_q,
                       msg_q, keep_running, pc>>
        /\ Flight' = Flight
    <2>1. CASE CheckStatus
          BY <2>1, FlightMoved DEF Running, CheckStatus, infoVars, tableVars,
                                   countVars, scaleVars, nfVars
    <2>2. CASE UNCHANGED vars
          BY <2>2 DEF vars, infoVars, tableVars, countVars, queueVars, masterVars,
                      scaleVars, nfVars, Flight
    <2>3. CASE DrainExits \/ MasterDone \/ Shutdown
          BY <2>3 DEF Running, DrainExits, MasterDone, Shutdown
    <2>. QED BY <2>1, <2>2, <2>3
  <1>2. NobodyEnds' /\ StartedSilent'
        BY <1>1 DEF Running, HandshakeInv, NobodyEnds, StartedSilent
  <1>3. \A ty, j : InFlight(ty, j) => InFlight(ty, j)'
        BY <1>1 DEF InFlight
  <1>4. \A id : Told(id) => Told(id)'
        BY <1>1 DEF Told
  <1>. QED BY <1>1, <1>2, <1>3, <1>4, HandQuiet

(* What no step of the scale thread changes. *)
LEMMA ScaleKeeps ==
    ASSUME ScaleStep
    PROVE  /\ NobodyEnds => NobodyEnds'
           /\ StartedSilent => StartedSilent'
           /\ ListsHoldIds => ListsHoldIds'
           /\ \A ty, j : InFlight(ty, j) => InFlight(ty, j)'
           /\ UNCHANGED <<status, inst_id, nf_info>>
  <1>1. UNCHANGED <<infoVars, nf_info, nts, new_msg_ring, msg_q, msgs, nfVars>>
        BY DEF ScaleStep, RoundStart, RoundEnd, SetBlockFlag, BlockAgain,
               RunParent, CheckLoad, BlockToRun, tableVars, countVars, queueVars,
               masterVars
  <1>2. Flight' = Flight
        BY <1>1 DEF Flight
  <1>. QED BY <1>1, <1>2 DEF infoVars, nfVars, NobodyEnds, StartedSilent,
                             ListsHoldIds, InFlight

(* d2sc_scale_check_load keeps the handshake: the id that it chooses is the one
   of an NF that runs. *)
LEMMA HandChoose ==
    ASSUME Running, NEW t \in NTs, CheckLoad(t) PROVE HandshakeInv'
  <1> USE DEF Running
  <1>1. UNCHANGED <<status, inst_id, nf_info, bk_flag, scale_q>> /\ ScaleStep
        BY DEF CheckLoad, ScaleStep, infoVars, tableVars, queueVars
  <1>2. CASE victim' = victim
        BY <1>1, <1>2, HandQuiet, ScaleKeeps
        DEF HandshakeInv, CheckLoad, countVars, Told
  <1>3. CASE \E k \in Listed(t) : IsVictim(t, k) /\ victim' = nts[t][k]
    <2>1. PICK k \in Slots : IsValid(nts[t][k]) /\ victim' = nts[t][k]
          BY <1>3 DEF Listed, IsVictim, IsRunning
    <2>2. /\ victim' \in Ids /\ nf_info[victim'] # NULL
          /\ status[nf_info[victim']] = "RUNNING"
          BY <2>1 DEF HandshakeInv, ListsHoldIds, IsValid
    <2>3. FlaggedPublished'
          BY <1>1, <2>2 DEF HandshakeInv, FlaggedPublished
    <2>4. ASSUME NEW j \in Infos, IsAt(j)' PROVE InStep(j)'
      <3>1. IsAt(j) /\ InStep(j)
            BY <1>1, <2>4 DEF IsAt, HandshakeInv, AllInStep
      <3>2. CASE victim' # inst_id[j]
            BY <1>1, <3>1, <3>2, StaysInStep, ScaleKeeps DEF Told
      <3>3. CASE victim' = inst_id[j]
        <4>1. status[j] = "RUNNING"
              BY <2>2, <3>1, <3>3 DEF IsAt
        <4>. QED BY <1>1, <3>1, <3>3, <4>1, ScaleKeeps DEF InStep
      <3>. QED BY <3>2, <3>3
    <2>. QED BY <1>1, <2>3, <2>4, ScaleKeeps DEF HandshakeInv, AllInStep
  <1>. QED BY <1>2, <1>3 DEF CheckLoad

(* The write of the block flag keeps the handshake, whatever the flag has become
   since the id was chosen: the NF is told in the same step. *)
LEMMA HandFlag ==
    ASSUME Running, SetBlockFlag PROVE HandshakeInv'
  <1> USE DEF Running
  <1>1. /\ bk_flag' = [bk_flag EXCEPT ![victim] = 1] /\ victim' = NULL
        /\ victim \in Ids /\ NULL \notin Ids
        /\ ScaleStep
        BY SetsAssumption, NumbersAssumption
        DEF SetBlockFlag, ScaleStep, HandshakeInv, FlaggedPublished, Ids
  <1>2. /\ \A id \in Ids : Told(id) => Told(id)'
        /\ \E k \in 1 .. Len(scale_q'[victim]) : scale_q'[victim][k] = "SCALE_BLOCK"
    <2>1. SendScale("SCALE_BLOCK", {victim}) /\ "SCALE_BLOCK" \in ScaleSig
          BY DEF SetBlockFlag, ScaleSig
    <2>2. /\ \A id \in Ids : Told(id) => Told(id)'
          /\ \A id \in {victim} \cap Ids :
                 \E k \in 1 .. Len(scale_q'[id]) : scale_q'[id][k] = "SCALE_BLOCK"
          BY <2>1, ToldKept DEF Told
    <2>. QED BY <1>1, <2>2
  <1>3. bk_flag \in [Ids -> 0 .. 2]
        BY DEF TypeOK, TableTypes
  <1>4. ASSUME NEW j \in Infos, IsAt(j)' PROVE InStep(j)'
    <2>1. IsAt(j) /\ InStep(j) /\ inst_id[j] \in Ids
          BY <1>1, <1>4, ScaleKeeps DEF IsAt, HandshakeInv, AllInStep
    <2>2. CASE inst_id[j] # victim
      <3>1. bk_flag'[inst_id[j]] = bk_flag[inst_id[j]] /\ victim' # inst_id[j]
            BY <1>1, <1>3, <2>1, <2>2
      <3>. QED BY <1>1, <1>2, <2>1, <3>1, StaysInStep, ScaleKeeps DEF Told
    <2>3. CASE inst_id[j] = victim
      <3>1. bk_flag'[inst_id[j]] = 1 /\ status[j] \in {"RUNNING", "BLOCKED"}
            BY <1>1, <1>3, <2>1, <2>3 DEF InStep
      <3>. QED BY <1>1, <1>2, <2>3, <3>1, ScaleKeeps DEF InStep, Told
    <2>. QED BY <2>2, <2>3
  <1>5. FlaggedPublished'
        BY <1>1, <1>3, ScaleKeeps DEF HandshakeInv, FlaggedPublished
  <1>. QED BY <1>1, <1>4, <1>5, ScaleKeeps DEF HandshakeInv, AllInStep

(* Every step of the scale thread keeps the handshake. *)
LEMMA HandScale ==
    ASSUME Running, ScaleStep PROVE HandshakeInv'
  <1>1. CASE \/ RoundStart \/ RoundEnd \/ \E id \in Ids : BlockAgain(id)
             \/ \E t \in NTs : RunParent(t)
             \/ \E t \in NTs, n \in 1 .. MAX_NFS : BlockToRun(t, n)
    <2>1. UNCHANGED <<status, inst_id, nf_info, bk_flag, nts, victim>>
          BY <1>1 DEF RoundStart, RoundEnd, BlockAgain, RunParent, BlockToRun,
                      infoVars, tableVars, countVars, scaleVars
    <2>2. scale_q' = scale_q \/ \E sig \in ScaleSig : \E dst : SendScale(sig, dst)
          BY <1>1 DEF RoundStart, RoundEnd, BlockAgain, RunParent, BlockToRun,
                      queueVars, ScaleSig
    <2>3. \A id \in Ids : Told(id) => Told(id)'
      <3>1. CASE scale_q' = scale_q
            BY <3>1 DEF Told
      <3>2. CASE \E sig \in ScaleSig : \E dst : SendScale(sig, dst)
            BY <3>2, ToldKept DEF Running
      <3>. QED BY <2>2, <3>1, <3>2
    <2>. QED BY <2>1, <2>3, HandQuiet, ScaleKeeps DEF Running, HandshakeInv
  <1>. QED BY <1>1, HandChoose, HandFlag DEF ScaleStep

(* The threads of the NFs that have their id and have not announced it stay
   silent, when thread i only moves on or sends about itself. *)
LEMMA SentSilent ==
    ASSUME Running, NEW type \in MsgType, NEW i \in Infos, Send(type, i),
           UNCHANGED msgs,
           NEW next, next # "started", pc' = [pc EXCEPT ![i] = next],
           \A j \in Infos : j # i => status'[j] = status[j]
    PROVE  StartedSilent'
  <1>1. pc \in [Infos -> PCs] /\ StartedSilent
        BY DEF Running, TypeOK, NfTypes, HandshakeInv
  <1>2. \A k \in 1 .. Len(Flight') :
           \/ Flight'[k].info = i
           \/ k \in 1 .. Len(Flight) /\ Flight'[k] = Flight[k]
        BY FlightSent DEF Running
  <1>. QED BY <1>1, <1>2 DEF StartedSilent

(* A message of an NF about its service time or that it is ready, and the steps
   of its thread that send nothing, keep the handshake. *)
LEMMA HandThread ==
    ASSUME Running, "overrun" \notin Env, "signal" \notin Env,
           "callback" \notin Env, NEW i \in Infos,
           \/ NfReadyMsg(i) \/ SendSrvTime(i) \/ Answered(i) \/ LoopTest(i)
           \/ FlagTest(i) \/ DequeueNewMsgs(i) \/ ExitScan(i) \/ Stop(i)
           \/ PowerExitFailed(i) \/ Signal(i) \/ Callback(i) \/ Kill(i)
    PROVE  HandshakeInv'
  <1> USE DEF Running
  <1>1. NobodyEnds /\ StartedSilent /\ pc \in [Infos -> PCs]
        BY DEF HandshakeInv, TypeOK, NfTypes
  <1>2. ~ (ExitScan(i) \/ Stop(i) \/ PowerExitFailed(i) \/ Signal(i) \/ Callback(i))
        BY <1>1 DEF NobodyEnds, ExitScan, Stop, PowerExitFailed, Signal, Callback
  <1>3. CASE NfReadyMsg(i) \/ SendSrvTime(i)
    <2>1. PICK type \in MsgType, next \in {"loop", "scale"} :
             Send(type, i) /\ pc' = [pc EXCEPT ![i] = next]
          BY <1>3 DEF NfReadyMsg, SendSrvTime, SendOrExit, SendFails, MsgType
    <2>2. UNCHANGED <<status, inst_id, nf_info, bk_flag, nts, victim, msgs,
                      scale_q, msg_q, keep_running>>
          BY <1>3 DEF NfReadyMsg, SendSrvTime, tableVars, countVars, masterVars,
                      scaleVars
    <2>3. NobodyEnds'
          BY <1>1, <2>1, <2>2 DEF NobodyEnds
    <2>4. StartedSilent'
          BY <2>1, <2>2, SentSilent
    <2>5. \A ty, j : InFlight(ty, j) => InFlight(ty, j)'
          BY <2>1, <2>2, SentInFlight
    <2>. QED BY <2>2, <2>3, <2>4, <2>5, HandQuiet DEF Told
  <1>4. CASE \/ Answered(i) \/ LoopTest(i) \/ FlagTest(i) \/ DequeueNewMsgs(i)
             \/ Kill(i)
    <2>1. IsAt(i) \/ ~DequeueNewMsgs(i)
          BY DEF DequeueNewMsgs, OwnershipInv, ThreadOwns, LivePublished, InLoop
    <2>2. UNCHANGED <<status, inst_id, nf_info, bk_flag, nts, victim, msgs,
                      new_msg_ring, scale_q, msg_q, keep_running>>
          BY <1>1, <1>4, <2>1
          DEF Answered, LoopTest, FlagTest, DequeueNewMsgs, Kill, infoVars,
              tableVars, countVars, queueVars, masterVars, scaleVars, NobodyEnds,
              IsAt
    <2>3. Flight' = Flight
          BY <2>2 DEF Flight
    <2>4. PICK next \in PCs : /\ pc' = [pc EXCEPT ![i] = next]
                              /\ next # "exiting"
                              /\ next = "started" => Answered(i) /\ status[i] = "STARTING"
          BY <1>1, <1>4 DEF Answered, LoopTest, FlagTest, DequeueNewMsgs, Kill,
                            NobodyEnds, PCs, InLoop
    <2>5. NobodyEnds'
          BY <1>1, <2>2, <2>4 DEF NobodyEnds
    <2>6. Answered(i) /\ status[i] = "STARTING" =>
             \A k \in 1 .. Len(Flight) : Flight[k].info # i
      <3>1. Answered(i) => pc[i] = "waiting"
            BY DEF Answered
      <3>. QED BY <3>1 DEF OwnershipInv, StartingAlone, OthersPublished
    <2>7. StartedSilent'
          BY <1>1, <2>2, <2>3, <2>4, <2>6 DEF StartedSilent
    <2>. QED BY <2>2, <2>3, <2>5, <2>7, HandQuiet DEF Told, InFlight
  <1>. QED BY <1>2, <1>3, <1>4

(* d2sc_nfrt_stop before the NF is ready keeps the handshake: nobody has asked
   anything of that NF. *)
LEMMA HandAbort ==
    ASSUME Running, "overrun" \notin Env, NEW i \in Infos, Abort(i)
    PROVE  HandshakeInv'
  <1> USE DEF Running
  <1>1. /\ pc[i] = "started" /\ Send("NF_STOPPING", i)
        /\ status' = [status EXCEPT ![i] = "STOPPED"]
        /\ pc' = [pc EXCEPT ![i] = "none"]
        /\ UNCHANGED <<inst_id, nf_info, bk_flag, nts, victim, msgs, scale_q,
                       msg_q, keep_running>>
        BY DEF Abort, NfrtStop, SendOrExit, SendFails, tableVars, countVars,
               masterVars, scaleVars
  <1>2. /\ pc \in [Infos -> PCs] /\ status \in [Infos -> Status]
        /\ NobodyEnds /\ status[i] = "STARTING"
        BY <1>1 DEF TypeOK, NfTypes, InfoTypes, HandshakeInv, StartedSilent
  <1>3. \A ty, j : InFlight(ty, j) => InFlight(ty, j)'
        BY <1>1, SentInFlight DEF MsgType
  <1>4. \A j \in Infos : j # i => status'[j] = status[j]
        BY <1>1, <1>2
  <1>5. ASSUME NEW j \in Infos, IsAt(j)' PROVE InStep(j)'
    <2>1. IsAt(j) /\ InStep(j)
          BY <1>1, <1>5 DEF IsAt, HandshakeInv, AllInStep
    <2>2. CASE j # i
          BY <1>1, <1>3, <1>4, <2>1, <2>2, StaysInStep DEF Told
    <2>3. CASE j = i
      <3>1. bk_flag[inst_id[i]] = 0 /\ victim # inst_id[i]
            BY <1>2, <2>1, <2>3 DEF InStep
      <3>. QED BY <1>1, <1>2, <2>3, <3>1 DEF InStep
    <2>. QED BY <2>2, <2>3
  <1>6. ListsHoldIds' /\ FlaggedPublished'
        BY <1>1 DEF HandshakeInv, ListsHoldIds, FlaggedPublished
  <1>7. NobodyEnds'
        BY <1>1, <1>2 DEF NobodyEnds
  <1>8. StartedSilent'
        BY <1>1, <1>4, SentSilent DEF MsgType
  <1>. QED BY <1>5, <1>6, <1>7, <1>8 DEF HandshakeInv, AllInStep

(* d2sc_nfrt_init keeps the handshake: a struct of the mempool is in no slot. *)
LEMMA HandLaunch ==
    ASSUME Running, "overrun" \notin Env, NEW i \in Infos, NEW t \in NTs,
           Launch(i, t, NO_ID)
    PROVE  HandshakeInv'
  <1> USE DEF Running
  <1>1. /\ i \in info_pool /\ Send("NF_STARTING", i)
        /\ status' = [status EXCEPT ![i] = "WAITTING_FOR_ID"]
        /\ inst_id' = [inst_id EXCEPT ![i] = NO_ID]
        /\ pc' = [pc EXCEPT ![i] = "waiting"]
        /\ keep_running' = [keep_running EXCEPT ![i] = TRUE]
        /\ UNCHANGED <<nf_info, bk_flag, nts, victim, msgs, scale_q, msg_q>>
        BY DEF Launch, SendFails, tableVars, countVars, masterVars, scaleVars
  <1>2. /\ pc \in [Infos -> PCs] /\ status \in [Infos -> Status]
        /\ inst_id \in [Infos -> U16s] /\ keep_running \in [Infos -> BOOLEAN]
        /\ NobodyEnds
        BY DEF TypeOK, NfTypes, InfoTypes, HandshakeInv
  <1>3. \A ty, j : InFlight(ty, j) => InFlight(ty, j)'
        BY <1>1, SentInFlight DEF MsgType
  <1>4. \A j \in Infos : j # i =>
           status'[j] = status[j] /\ inst_id'[j] = inst_id[j]
        BY <1>1, <1>2
  <1>5. ASSUME NEW j \in Infos, IsAt(j)' PROVE InStep(j)'
    <2>1. j # i
          BY <1>1, <1>2, <1>5, IdFacts DEF IsAt
    <2>2. IsAt(j) /\ InStep(j)
          BY <1>1, <1>4, <1>5, <2>1 DEF IsAt, HandshakeInv, AllInStep
    <2>. QED BY <1>1, <1>3, <1>4, <2>1, <2>2, StaysInStep DEF Told
  <1>6. ListsHoldIds' /\ FlaggedPublished'
        BY <1>1 DEF HandshakeInv, ListsHoldIds, FlaggedPublished
  <1>7. NobodyEnds'
    <2>1. \A j \in Infos : keep_running'[j] /\ pc'[j] # "exiting"
          BY <1>1, <1>2 DEF NobodyEnds
    <2>. QED BY <1>1, <1>2, <2>1 DEF NobodyEnds
  <1>8. StartedSilent'
        BY <1>1, <1>4, SentSilent DEF MsgType
  <1>. QED BY <1>5, <1>6, <1>7, <1>8 DEF HandshakeInv, AllInStep

(* d2sc_nfrt_check_scale_msg keeps the handshake: an NF that is asked to block
   while its flag is 1, or to run while it is 2, changes its status and says so
   in one step; a request it ignores is not one the handshake waits for. *)
LEMMA HandPass ==
    ASSUME Running, "overrun" \notin Env, NEW i \in Infos,
           RunningPass(i) \/ BlockedPass(i)
    PROVE  HandshakeInv'
  <1> USE DEF Running
  <1>1. PICK next \in {"top", "loop"} :
           CheckScaleMsg(i, next) /\ (pc[i] = "scale" \/ pc[i] = "blocked")
        BY DEF RunningPass, BlockedPass
  <1>2. UNCHANGED <<inst_id, nf_info, bk_flag, nts, victim, msgs, msg_q,
                    keep_running>>
        BY DEF RunningPass, BlockedPass, tableVars, countVars, masterVars, scaleVars
  <1>3. IsAt(i) /\ InStep(i) /\ Own(i) = i
        BY <1>1 DEF InLoop, OwnershipInv, ThreadOwns, LivePublished, IsAt, Own,
                    HandshakeInv, AllInStep
  <1>4. /\ pc \in [Infos -> PCs] /\ status \in [Infos -> Status]
        /\ scale_q \in [Ids -> Seq(ScaleSig)]
        /\ NobodyEnds /\ StartedSilent
        BY DEF TypeOK, NfTypes, InfoTypes, QueueTypes, HandshakeInv
  <1>5. ListsHoldIds' /\ FlaggedPublished'
        BY <1>2 DEF HandshakeInv, ListsHoldIds, FlaggedPublished
  <1>6. \A j \in Infos : IsAt(j)' => IsAt(j) /\ InStep(j)
        BY <1>2 DEF IsAt, HandshakeInv, AllInStep
  <1>7. \A id \in Ids : id # inst_id[i] => scale_q'[id] = scale_q[id]
        BY <1>1, <1>4 DEF CheckScaleMsg
  <1>8. CASE ScaleBlock(i, next) \/ ScaleRun(i, next)
    <2>1. PICK type \in {"NF_BLOCKING", "NF_RUNNING"} :
             /\ Send(type, i)
             /\ pc' = [pc EXCEPT ![i] = next]
             /\ type = "NF_BLOCKING" => /\ bk_flag[inst_id[i]] = 1
                                        /\ status' = [status EXCEPT ![i] = "BLOCKED"]
             /\ type = "NF_RUNNING" => /\ bk_flag[inst_id[i]] = 2
                                       /\ status' = [status EXCEPT ![i] = "RUNNING"]
          BY <1>3, <1>8 DEF ScaleBlock, ScaleRun, SendOrExit, SendFails
    <2>2. type \in MsgType
          BY DEF MsgType
    <2>3. InFlight(type, i)' /\ \A ty, j : InFlight(ty, j) => InFlight(ty, j)'
          BY <1>2, <2>1, <2>2, SentInFlight
    <2>4. \A j \in Infos : j # i => status'[j] = status[j]
          BY <1>4, <2>1
    <2>5. ASSUME NEW j \in Infos, j # i, IsAt(j)' PROVE InStep(j)'
      <3>1. IsAt(j) /\ InStep(j) /\ inst_id[j] \in Ids /\ inst_id[j] # inst_id[i]
            BY <1>3, <1>6, <2>5, IdsDiffer DEF IsAt
      <3>2. scale_q'[inst_id[j]] = scale_q[inst_id[j]]
            BY <1>7, <3>1
      <3>. QED BY <1>2, <2>3, <2>4, <2>5, <3>1, <3>2, StaysInStep DEF Told
    <2>6. InStep(i)'
          BY <1>2, <1>3, <1>4, <2>1, <2>3 DEF InStep
    <2>7. NobodyEnds' /\ StartedSilent'
          BY <1>2, <1>4, <2>1, <2>2, <2>4, SentSilent DEF NobodyEnds
    <2>. QED BY <1>5, <2>5, <2>6, <2>7 DEF HandshakeInv, AllInStep
  <1>9. CASE /\ pc' = [pc EXCEPT ![i] = next]
             /\ UNCHANGED <<status, new_msg_ring>>
             /\ \/ scale_q' = scale_q
                \/ /\ scale_q' = [scale_q EXCEPT ![inst_id[i]] = Tail(@)]
                   /\ scale_q[inst_id[i]] # <<>>
                   /\ Ignored(Head(scale_q[inst_id[i]]), i)
    <2>1. NobodyEnds' /\ StartedSilent' /\ Flight' = Flight
          BY <1>2, <1>4, <1>9 DEF NobodyEnds, StartedSilent, Flight
    <2>2. ASSUME bk_flag[inst_id[i]] = 1, Told(inst_id[i]) PROVE Told(inst_id[i])'
      <3> DEFINE q == scale_q[inst_id[i]]
      <3>1. q \in Seq(ScaleSig) /\ inst_id[i] \in Ids
            BY <1>3, <1>4 DEF IsAt
      <3>2. PICK k \in 1 .. Len(q) : q[k] = "SCALE_BLOCK"
            BY <2>2 DEF Told
      <3>3. CASE scale_q' = scale_q
            BY <1>2, <2>2, <3>3 DEF Told
      <3>4. CASE /\ scale_q' = [scale_q EXCEPT ![inst_id[i]] = Tail(@)]
                 /\ Ignored(Head(q), i)
        <4>1. Head(q) # "SCALE_BLOCK"
              BY <2>2, <3>4 DEF Ignored
        <4>2. q # <<>> /\ Head(q) = q[1] /\ Len(q) \in Nat
              BY <3>1, <3>2
        <4>3. k # 1
              BY <3>2, <4>1, <4>2
        <4>4. k - 1 \in 1 .. Len(Tail(q)) /\ Tail(q)[k - 1] = q[k]
              BY <3>1, <3>2, <4>2, <4>3
        <4>5. scale_q'[inst_id[i]] = Tail(q)
              BY <1>4, <3>1, <3>4
        <4>. QED BY <1>2, <3>2, <4>4, <4>5 DEF Told
      <3>. QED BY <1>9, <3>3, <3>4
    <2>3. ASSUME NEW id \in Ids, bk_flag[id] = 1, Told(id) PROVE Told(id)'
      <3>1. CASE id = inst_id[i]
            BY <1>2, <2>2, <2>3, <3>1 DEF Told
      <3>2. CASE id # inst_id[i]
            BY <1>7, <2>3, <3>2 DEF Told
      <3>. QED BY <3>1, <3>2
    <2>. QED BY <1>2, <1>9, <2>1, <2>3, HandQuiet DEF InFlight
  <1>. QED BY <1>1, <1>3, <1>8, <1>9 DEF CheckScaleMsg, FollowsNull

(* Nothing is flagged, registered or told at the start. *)
LEMMA HandInit == Init => HandshakeInv
  <1> SUFFICES ASSUME Init PROVE HandshakeInv
      OBVIOUS
  <1>1. AllInStep
    <2>1. \A i \in Infos : ~IsAt(i)
          BY SetsAssumption DEF Init, IsAt
    <2>. QED BY <2>1 DEF AllInStep
  <1>2. ListsHoldIds
        BY NumbersAssumption DEF Init, ListsHoldIds, Ids
  <1>3. FlaggedPublished
    <2>1. NULL \notin Ids /\ victim = NULL /\ \A id \in Ids : bk_flag[id] = 0
          BY SetsAssumption, NumbersAssumption DEF Init, Ids
    <2>. QED BY <2>1 DEF FlaggedPublished
  <1>4. NobodyEnds /\ StartedSilent
        BY DEF Init, NobodyEnds, StartedSilent
  <1>. QED BY <1>1, <1>2, <1>3, <1>4 DEF HandshakeInv

(* Every step keeps the handshake. *)
LEMMA HandNext ==
    ASSUME UserIds = {}, "overrun" \notin Env, "signal" \notin Env,
           "callback" \notin Env
    PROVE  TypeOK /\ OwnershipInv /\ HandshakeInv /\ [Next]_vars => HandshakeInv'
  <1> SUFFICES ASSUME TypeOK, OwnershipInv, HandshakeInv, [Next]_vars,
                      master' = "running"
               PROVE  HandshakeInv'
      BY DEF HandshakeInv
  <1>1. master = "running"
    <2>1. master' = master \/ master' # "running"
      <3>1. CASE MasterStep \/ Shutdown
            BY <3>1 DEF MasterStep, HandleMsg, CheckStatus, DrainExits, MasterDone,
                        Shutdown, NfStart, NfReady, NfStop, NfBlock, NfRun,
                        NfSrvTime, Handling
      <3>2. CASE ScaleStep
            BY <3>2 DEF ScaleStep, RoundStart, RoundEnd, SetBlockFlag, BlockAgain,
                        RunParent, CheckLoad, BlockToRun, masterVars
      <3>3. ASSUME NEW i \in Infos, NfStep(i) \/ NfEvent(i) PROVE master' = master
            BY <3>3 DEF NfStep, NfEvent, Answered, NfReadyMsg, LoopTest, FlagTest,
                        DequeueNewMsgs, SendSrvTime, RunningPass, BlockedPass,
                        ExitScan, Stop, PowerExitFailed, Launch, Abort, Signal,
                        Callback, Kill, NfrtStop, masterVars
      <3>. QED BY <3>1, <3>2, <3>3 DEF Next, vars, masterVars
    <2>. QED BY <2>1
  <1>2. Running
        BY <1>1 DEF Running
  <1>3. CASE MasterStep \/ Shutdown
        BY <1>2, <1>3, HandPoll, HandStart, HandReady, HandStop, HandBlock
        DEF MasterStep, HandleMsg
  <1>4. CASE ScaleStep
        BY <1>2, <1>4, HandScale
  <1>5. ASSUME NEW i \in Infos, NfStep(i) PROVE HandshakeInv'
        BY <1>2, <1>5, HandThread, HandPass DEF NfStep
  <1>6. ASSUME NEW i \in Infos, NfEvent(i) PROVE HandshakeInv'
        BY <1>2, <1>6, HandLaunch, HandAbort, HandThread DEF NfEvent
  <1>7. CASE UNCHANGED vars
        BY <1>2, <1>7, HandPoll
  <1>. QED BY <1>3, <1>4, <1>5, <1>6, <1>7 DEF Next

(* For any number of NFs, ids, types and requests, and whatever dies, aborts or
   is slow: the block flags, the statuses and the reports of the handshake fit
   together, as HandshakeInv says, up to shutdown, as long as the manager
   chooses the ids, no NF finds new_msg_ring full and none is told to end. *)
THEOREM Handshake ==
    ASSUME UserIds = {}, "overrun" \notin Env, "signal" \notin Env,
           "callback" \notin Env
    PROVE  Spec => []HandshakeInv
  <1>1. TypeOK /\ OwnershipInv /\ HandshakeInv /\ [Next]_vars => HandshakeInv'
        BY HandNext
  <1>. QED BY <1>1, HandInit, Ownership, TypeCorrect, PTL DEF Spec

(* A registered NF is one that is at its own id. *)
LEMMA RegisteredIsAt == SlotsOwned => \A i \in Registered : i \in Infos /\ IsAt(i)
  BY SetsAssumption DEF SlotsOwned, Registered, IsAt

(* Under the same assumptions no NF that was told to block is forgotten: it runs
   and is asked again, or the request or its answer is under way. *)
THEOREM BlockIsAnswered ==
    ASSUME UserIds = {}, "overrun" \notin Env, "signal" \notin Env,
           "callback" \notin Env
    PROVE  Spec => []BlockAnswered
  <1>1. SlotsOwned /\ HandshakeInv => BlockAnswered
        BY RegisteredIsAt DEF HandshakeInv, AllInStep, InStep, BlockAnswered
  <1>. QED BY <1>1, Handshake, SlotsAreOwned, PTL

(* Under the same assumptions no NF sits in its blocked loop for good: the scale
   thread sees it as blocked, or its report that it runs is under way. *)
THEOREM BlockedIsReachable ==
    ASSUME UserIds = {}, "overrun" \notin Env, "signal" \notin Env,
           "callback" \notin Env
    PROVE  Spec => []BlockedReachable
  <1>1. SlotsOwned /\ HandshakeInv => BlockedReachable
        BY RegisteredIsAt DEF HandshakeInv, AllInStep, InStep, BlockedReachable
  <1>. QED BY <1>1, Handshake, SlotsAreOwned, PTL

(* Under the same assumptions no NF handles packets while the rest of the system
   takes it for blocked. *)
THEOREM UnblockedNfRuns ==
    ASSUME UserIds = {}, "overrun" \notin Env, "signal" \notin Env,
           "callback" \notin Env
    PROVE  Spec => []UnblockedRuns
  <1>1. SlotsOwned /\ HandshakeInv => UnblockedRuns
        BY RegisteredIsAt DEF HandshakeInv, AllInStep, InStep, UnblockedRuns
  <1>. QED BY <1>1, Handshake, SlotsAreOwned, PTL
=============================================================================
