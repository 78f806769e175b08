----------------------------- MODULE NfLifecycle -----------------------------
(***************************************************************************)
(* The life cycle of the network functions of D2SC: the master and scale   *)
(* threads of the manager and one thread per NF, which share the NF table, *)
(* the counters and the queues of NfTable.                                 *)
(***************************************************************************)
EXTENDS NfManager, NfRuntime, NfScale, FiniteSetsExt

Next ==
    \/ MasterStep \/ Shutdown
    \/ ScaleStep
    \/ \E i \in Infos : NfStep(i) \/ NfEvent(i)

Spec == Init /\ [][Next]_vars

(* The master thread polls once per sleep_time, an NF thread never pauses for
   good, and every round of the scale thread, which follows the last one
   after SCALE_SLEEP_TIME, visits every type and every id. *)
Fairness ==
    /\ WF_vars(MasterStep)
    /\ \A i \in Infos : WF_vars(NfStep(i))
    /\ WF_vars(RoundStart) /\ WF_vars(RoundEnd) /\ WF_vars(SetBlockFlag)
    /\ \A t \in NTs : SF_vars(RunParent(t))
    /\ \A id \in Ids : SF_vars(BlockAgain(id))

FairSpec == Spec /\ Fairness

-----------------------------------------------------------------------------
(* Every variable has its type; a block flag is 0, 1 or 2. *)
InfoTypes ==
    /\ status \in [Infos -> Status]
    /\ inst_id \in [Infos -> U16s]
    /\ type_id \in [Infos -> NTs \cup {0}]
    /\ info_pool \subseteq Infos
TableTypes ==
    /\ nf_info \in [Ids -> Infos \cup {NULL}]
    /\ bk_flag \in [Ids -> 0 .. 2]
CountTypes ==
    /\ nts \in [NTs -> [Slots -> U16s]]
    /\ nfs_per_nt_num \in [NTs -> U16s]
    /\ nfs_per_nt_available \in [NTs -> U16s]
    /\ num_nfs \in U16s
    /\ next_inst_id \in 1 .. MAX_NFS
QueueTypes ==
    /\ new_msg_ring \in Seq(Msg)
    /\ msg_q \in [Ids -> Seq({"STOP"})]
    /\ scale_q \in [Ids -> Seq(ScaleSig)]
MasterTypes ==
    /\ master \in {"running", "draining", "done"}
    /\ msgs \in Seq(Msg)
    /\ shutdown_iter_cnt \in 0 .. MAX_SHUTDOWN_ITERS
    /\ crash \in {"none", "master", "scale"}
ScaleTypes ==
    /\ scale_round \in BOOLEAN
    /\ victim = NULL \/ victim \in U16s
    /\ blocks \in 0 .. BLOCK_BOUND
NfTypes ==
    /\ pc \in [Infos -> PCs]
    /\ keep_running \in [Infos -> BOOLEAN]
    /\ srv_time_flag \in [Infos -> BOOLEAN]
    /\ scan \in [Infos -> 0 .. MAX_NFS]
    /\ ret \in [Infos -> {0, 1}]

TypeOK ==
    /\ InfoTypes /\ TableTypes /\ CountTypes /\ QueueTypes
    /\ MasterTypes /\ ScaleTypes /\ NfTypes

(* The messages the manager has yet to handle, in order. *)
Flight == msgs \o new_msg_ring
InFlight(type, i) ==
    \E k \in 1 .. Len(Flight) : Flight[k].msg_type = type /\ Flight[k].info = i

-----------------------------------------------------------------------------
(* The NF table never holds a dangling pointer: a struct is published at its
   own id only, and is not free while it is published (nf_start, nf_stop and
   the mempool puts of the NFs). *)
SlotsOwned ==
    \A id \in Ids : nf_info[id] # NULL =>
        inst_id[nf_info[id]] = id /\ nf_info[id] \notin info_pool

(* Whatever the interleaving of NFs, no handler of the master follows a null
   pointer: a message about an NF is handled while the NF is registered
   (d2sc_nf.c:290, 311, 323 do not test the pointer). *)
HandlersFindTheirNf == crash # "master"

(* The list of a type, which the service chain indexes, holds distinct ids of
   registered NFs of that type and no hole, whatever order NFs stop in. *)
ListSound ==
    \A t \in NTs, k \in Slots : nts[t][k] # 0 =>
        /\ nts[t][k] \in Ids /\ nf_info[nts[t][k]] # NULL
        /\ type_id[nf_info[nts[t][k]]] = t
        /\ \A j \in 0 .. k - 1 : nts[t][j] \notin {0, nts[t][k]}

(* The invariant that SlotsOwned and HandlersFindTheirNf rest on, for ids that
   the manager chooses and a ring that is never full: its parts say where the
   struct of an NF is published, and in what order its messages are handled,
   between nf_start and nf_stop. *)
Live == {"STARTING", "RUNNING", "BLOCKED"}
IsMsg(k, type) == k \in 1 .. Len(Flight) /\ Flight[k].msg_type = type
IsAt(i) == inst_id[i] \in Ids /\ nf_info[inst_id[i]] = i

(* A struct in use is published at its id, one without an id nowhere. *)
LivePublished == \A i \in Infos : status[i] \in Live => IsAt(i)
NewUnpublished ==
    \A i \in Infos :
        status[i] \in {"WAITTING_FOR_ID", "ID_CONFLICT", "NO_IDS"} =>
            \A id \in Ids : nf_info[id] # i
NextIsFree == \A id \in Ids : id >= next_inst_id => nf_info[id] = NULL

(* What a thread knows of its struct. *)
ThreadOwns ==
    \A i \in Infos :
        /\ pc[i] \in {"started", "exiting"} \cup InLoop => status[i] \in Live
        /\ pc[i] = "waiting" =>
              /\ i \notin info_pool
              /\ status[i] \in {"WAITTING_FOR_ID", "STARTING", "ID_CONFLICT",
                                "NO_IDS"}

(* The request for an id is the only message of its NF and is still
   unanswered; other messages are about published structs, whose NFs have
   their answer; and a deregistration is the last message of its NF. *)
StartingAlone ==
    \A k \in 1 .. Len(Flight) : IsMsg(k, "NF_STARTING") =>
        /\ status[Flight[k].info] = "WAITTING_FOR_ID"
        /\ inst_id[Flight[k].info] = NO_ID
        /\ Flight[k].info \notin info_pool
        /\ \A j \in 1 .. Len(Flight) :
              Flight[j].info = Flight[k].info => j = k
OthersPublished ==
    \A k \in 1 .. Len(Flight) :
        ~IsMsg(k, "NF_STARTING") =>
            IsAt(Flight[k].info) /\ pc[Flight[k].info] # "waiting"
StoppingLast ==
    \A k \in 1 .. Len(Flight) : IsMsg(k, "NF_STOPPING") =>
        /\ status[Flight[k].info] = "STOPPED"
        /\ \A j \in 1 .. Len(Flight) :
              Flight[j].info = Flight[k].info => j <= k

OwnershipInv ==
    /\ SlotsOwned /\ HandlersFindTheirNf
    /\ LivePublished /\ NewUnpublished /\ NextIsFree /\ ThreadOwns
    /\ StartingAlone /\ OthersPublished /\ StoppingLast

(* num_nfs, by which the RX threads drop every packet, and the counters per
   type, by which they find an instance, never disagree. *)
SumOver(f) == LET add(t, n) == (f[t] + n) % U16 IN FoldSet(add, 0, NTs)
NumIsSum == num_nfs = SumOver(nfs_per_nt_num)

-----------------------------------------------------------------------------
(* The refinement mapping to NfRegistry: an id belongs to the NF whose struct
   its slot holds; an NF has asked while its struct waits without an id, has
   its id while the status says so, and is leaving from d2sc_nfrt_stop to
   nf_stop. *)
Phase(i) ==
    IF status[i] \in Live THEN "in"
    ELSE IF status[i] = "STOPPED" /\ IsAt(i) THEN "leaving"
    ELSE IF status[i] = "WAITTING_FOR_ID" /\ inst_id[i] = NO_ID THEN "asked"
    ELSE "out"

Registry == INSTANCE NfRegistry WITH
    Nfs <- Infos, owner <- nf_info, phase <- [i \in Infos |-> Phase(i)]

(* The threads and messages of the life cycle implement the registry: when the
   manager chooses the ids and no NF finds the ring full, an id is given to an
   NF that asked and only while nobody has it, and only the NF's own end takes
   it back (nf_start, nf_stop, d2sc_nfrt_stop). *)
Implements == Registry!Spec

-----------------------------------------------------------------------------
(* The handshake that blocks an NF (scale thread sets 1, NF reports, master
   sets 2) and runs it again (scale thread asks, NF reports, master sets 0),
   up to shutdown. *)
Registered == {i \in Infos : \E id \in Ids : nf_info[id] = i}
Told(id) == \E k \in 1 .. Len(scale_q[id]) : scale_q[id][k] = "SCALE_BLOCK"

(* An NF that was told to block and has not acknowledged it can still be
   reached: it runs, so that the next round asks again, or the request or
   its answer is on the way. *)
BlockAnswered ==
    master = "running" => \A i \in Registered : bk_flag[inst_id[i]] = 1 =>
        \/ status[i] = "RUNNING" \/ InFlight("NF_BLOCKING", i)
        \/ Told(inst_id[i])

(* An NF whose loop is blocked can be run again: its status says so to the
   scale thread, or its report that it runs is on the way. *)
BlockedReachable ==
    master = "running" => \A i \in Registered : bk_flag[inst_id[i]] = 2 =>
        status[i] = "BLOCKED" \/ InFlight("NF_RUNNING", i)

(* An NF whose loop handles packets is one to which they are sent: it is not
   left with the status of a blocked one. *)
UnblockedRuns ==
    master = "running" => \A i \in Registered : bk_flag[inst_id[i]] = 0 =>
        status[i] # "BLOCKED"

(* What these three rest on, as long as no NF is told to end: they hold for each
   NF at its own id, a flag that is not 0, or about to be written, is that of an
   NF that became ready, the ids that the scale thread takes from the lists are
   ids of the table, no NF is on its way out, and one that has yet to announce
   itself is unknown to the scale thread. *)
InStep(i) ==
    LET flag == bk_flag[inst_id[i]]
    IN  /\ flag = 0 => status[i] # "BLOCKED"
        /\ flag = 1 => \/ status[i] = "RUNNING" \/ InFlight("NF_BLOCKING", i)
                       \/ Told(inst_id[i])
        /\ flag = 2 => status[i] = "BLOCKED" \/ InFlight("NF_RUNNING", i)
        /\ flag # 0 \/ victim = inst_id[i] => status[i] \in {"RUNNING", "BLOCKED"}
AllInStep == \A i \in Infos : IsAt(i) => InStep(i)
ListsHoldIds == nts \in [NTs -> [Slots -> Ids]]
FlaggedPublished ==
    /\ victim \in Ids \cup {NULL}
    /\ \A id \in Ids : bk_flag[id] # 0 \/ victim = id => nf_info[id] # NULL
NobodyEnds ==
    /\ \A i \in Infos : keep_running[i] /\ pc[i] # "exiting"
    /\ \A id \in Ids : msg_q[id] = <<>>
StartedSilent ==
    \A i \in Infos : pc[i] = "started" =>
        /\ status[i] = "STARTING"
        /\ \A k \in 1 .. Len(Flight) : Flight[k].info # i
HandshakeInv ==
    master = "running" =>
        /\ AllInStep /\ ListsHoldIds /\ FlaggedPublished
        /\ NobodyEnds /\ StartedSilent

(* When no message and no request to block is under way, nfs_per_nt_available
   is the number of NFs in the list of the type that are not blocked. *)
Quiet == Flight = <<>> /\ victim = NULL /\ \A id \in Ids : bk_flag[id] # 1
AvailableCount ==
    Quiet => \A t \in NTs : nfs_per_nt_available[t] = Cardinality(
                 {k \in Slots : nts[t][k] # 0 /\ bk_flag[nts[t][k]] # 2})

-----------------------------------------------------------------------------
(* An NF that is running keeps its slot of the table until it stops: no other
   NF can take its id (nf_start, the test for NF_ID_CONFLICT). *)
RunningKeepsSlot ==
    [][\A id \in Ids : IsValid(id) => nf_info'[id] = nf_info[id]]_vars

-----------------------------------------------------------------------------
(* Every NF that waits for an id in d2sc_nfrt_start_nf is answered, as long as
   the manager runs. *)
Answers ==
    \A i \in Infos :
        pc[i] = "waiting" ~> pc[i] # "waiting" \/ master # "running"

(* When all NFs of a type are blocked one of them comes back: the round of the
   scale thread, the NF and the master bring it back together
   (d2sc_scale_run_parent, d2sc_nfrt_scale_run, nf_run). *)
TypeRecovers ==
    \A t \in NTs :
        nfs_per_nt_num[t] # 0 /\ nfs_per_nt_available[t] = 0
            ~> nfs_per_nt_available[t] # 0 \/ crash # "none"
=============================================================================
