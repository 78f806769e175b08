------------------------------- MODULE NfTable -------------------------------
(***************************************************************************)
(* The memory that the D2SC manager shares with the network functions      *)
(* (NFs), and the operations on it that several of its users call.         *)
(*                                                                         *)
(* An NF is identified by its d2sc_nf_info struct, an element of Infos     *)
(* drawn from the nf_info mempool: the NF's thread keeps the pointer for   *)
(* its whole life, every message carries it, and the manager publishes it  *)
(* in the slot nfs[inst_id] of the NF table.                               *)
(***************************************************************************)
EXTENDS Integers, Sequences, FiniteSets

CONSTANTS
    Infos,              \* the d2sc_nf_info structs of the nf_info mempool
    NTs,                \* the NF types that operators start, all below num_nts
    MAX_NFS,            \* number of NF instances allowed; ids are 0..MAX_NFS-1
    MAX_NFS_PER_NT,     \* number of slots of the instance list of a type
    MAX_SHUTDOWN_ITERS, \* how often the master looks for exits at shutdown
    NEW_MSG_RING_CAP,   \* usable slots of the ring from the NFs to the manager
    SCALE_Q_BOUND,      \* bound of the model on the messages of one scale queue
    BLOCK_BOUND,        \* bound of the model on the decisions to block an NF
    UserIds,            \* the ids operators ask for with -n
    Env,                \* the events of the environment that may happen
    NULL                \* the null pointer

Events == {"signal",    \* SIGINT or SIGTERM reaches an NF process
           "abort",     \* an NF application rejects its own arguments
           "kill",      \* an NF process dies without a word
           "shutdown",  \* SIGINT or SIGTERM reaches the manager
           "scale",     \* the scale thread has reasons to block and run NFs
           "power",     \* rte_power_freq_min changes the frequency
           "callback",  \* the callback of an NF asks it to end
           "overrun"}   \* the manager polls too late for some message

U16 == 65536                  \* ids, types and counters are uint16_t
NO_ID == U16 - 1              \* NF_NO_ID, (uint16_t)-1

ASSUME NumbersAssumption ==
    /\ MAX_NFS \in Nat /\ 1 < MAX_NFS /\ MAX_NFS < NO_ID
    /\ MAX_NFS_PER_NT \in Nat \ {0} /\ MAX_NFS_PER_NT < NO_ID
    /\ MAX_SHUTDOWN_ITERS \in Nat
    /\ NEW_MSG_RING_CAP \in Nat \ {0}
    /\ SCALE_Q_BOUND \in Nat
    /\ BLOCK_BOUND \in Nat

ASSUME SetsAssumption ==
    /\ NTs \subseteq Nat \ {0} /\ IsFiniteSet(NTs)
    /\ UserIds \subseteq 0 .. NO_ID - 1
    /\ Env \subseteq Events
    /\ NULL \notin Infos \cup Nat

U16s == 0 .. U16 - 1
Inc(n) == (n + 1) % U16       \* n++ and n-- of a uint16_t
DecSigned(n) == n - 1                        \* mutant: the counter is an int
DecSaturating(n) == IF n = 0 THEN 0 ELSE n - 1  \* mutant: it stops at 0
Dec(n) == (n - 1) % U16
Ids == 0 .. MAX_NFS - 1
Slots == 0 .. MAX_NFS_PER_NT - 1

Status == {"WAITTING_FOR_ID", "STARTING", "RUNNING", "BLOCKED", "STOPPED",
           "ID_CONFLICT", "NO_IDS"}
MsgType == {"NF_STARTING", "NF_READY", "NF_STOPPING", "NF_BLOCKING",
            "NF_RUNNING", "NF_SRV_TIME"}
Msg == [msg_type : MsgType, info : Infos]
ScaleSig == {"SCALE_BLOCK", "SCALE_RUN"}

VARIABLES
    (* the fields of each d2sc_nf_info struct, and the free structs *)
    status, inst_id, type_id, info_pool,
    (* the NF table: the registered struct and the block flag of each id *)
    nf_info, bk_flag,
    (* the instances of each type, and the counters *)
    nts, nfs_per_nt_num, nfs_per_nt_available, num_nfs, next_inst_id,
    (* the queues: NFs to manager, manager to one NF, scale thread to one NF *)
    new_msg_ring, msg_q, scale_q,
    (* the master thread: where it is, the messages it dequeued and has yet
       to handle, its shutdown loop; the thread that followed a bad pointer *)
    master, msgs, shutdown_iter_cnt, crash,
    (* the scale thread: is it in a round, the id it is about to block, and
       how many it decided to block *)
    scale_round, victim, blocks,
    (* each NF thread: where it is, keep_running, srv_time_flag, the position
       of its exit scan and the last result of rte_power_freq_min *)
    pc, keep_running, srv_time_flag, scan, ret

infoVars == <<status, inst_id, type_id, info_pool>>
tableVars == <<nf_info, bk_flag>>
countVars == <<nts, nfs_per_nt_num, nfs_per_nt_available, num_nfs, next_inst_id>>
queueVars == <<new_msg_ring, msg_q, scale_q>>
masterVars == <<master, msgs, shutdown_iter_cnt, crash>>
scaleVars == <<scale_round, victim, blocks>>
nfVars == <<pc, keep_running, srv_time_flag, scan, ret>>
vars == <<infoVars, tableVars, countVars, queueVars, masterVars, scaleVars,
          nfVars>>

(* d2sc_nf_is_valid: the id is registered and its NF is running. *)
IsValid(id) == nf_info[id] # NULL /\ status[nf_info[id]] = "RUNNING"

(* rte_ring_enqueue on new_msg_ring succeeds or finds it full.  Without the
   event "overrun" the behaviours are those in which no NF finds it full. *)
Send(type, i) ==
    /\ Len(new_msg_ring) < NEW_MSG_RING_CAP
    /\ new_msg_ring' = Append(new_msg_ring, [msg_type |-> type, info |-> i])
SendFails ==
    /\ "overrun" \in Env
    /\ Len(new_msg_ring) = NEW_MSG_RING_CAP
    /\ UNCHANGED new_msg_ring

(* The memzones are zeroed, the rings empty, every struct is in its mempool
   and next_inst_id starts at 1: id 0 is the manager's. *)
Init ==
    /\ status = [i \in Infos |-> "WAITTING_FOR_ID"]
    /\ inst_id = [i \in Infos |-> 0]
    /\ type_id = [i \in Infos |-> 0]
    /\ info_pool = Infos
    /\ nf_info = [id \in Ids |-> NULL]
    /\ bk_flag = [id \in Ids |-> 0]
    /\ nts = [t \in NTs |-> [k \in Slots |-> 0]]
    /\ nfs_per_nt_num = [t \in NTs |-> 0]
    /\ nfs_per_nt_available = [t \in NTs |-> 0]
    /\ num_nfs = 0
    /\ next_inst_id = 1
    /\ new_msg_ring = <<>>
    /\ msg_q = [id \in Ids |-> <<>>]
    /\ scale_q = [id \in Ids |-> <<>>]
    /\ master = "running"
    /\ msgs = <<>>
    /\ shutdown_iter_cnt = 0
    /\ crash = "none"
    /\ scale_round = FALSE
    /\ victim = NULL
    /\ blocks = 0
    /\ pc = [i \in Infos |-> "none"]
    /\ keep_running = [i \in Infos |-> TRUE]
    /\ srv_time_flag = [i \in Infos |-> FALSE]
    /\ scan = [i \in Infos |-> 0]
    /\ ret = [i \in Infos |-> 0]
=============================================================================
