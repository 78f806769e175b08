------------------------------ MODULE StartUp ------------------------------
(***************************************************************************)
(* The start of the manager (d2sc_init.c, d2sc_parse.c, main.c): it reads  *)
(* its arguments and makes the shared objects one after another, sets up   *)
(* the ports, and gives each of its threads an lcore.  NF processes may    *)
(* start at any moment and look for the objects (d2sc_nfrt.c).             *)
(***************************************************************************)
EXTENDS Integers, Sequences, FiniteSets, SequencesExt, FiniteSetsExt

CONSTANTS
    Lcores,                \* the ids of the lcores of the manager
    N_PORTS,               \* the ports that exist
    D2SC_NUM_RX_THREADS,   \* the default of -r
    MAX_CHECK_TIME,        \* checks of the links
    CommandLines,          \* what operators start the manager with
    Procs                  \* the NF processes

U16 == 65536
U16s == 0 .. U16 - 1

(* An option with the number in its argument, and whether that is all of it;
   the arguments of -s that exist count as 1 and 2. *)
Options == [opt : {"p", "t", "d", "r", "s", "z", "?"}, num : Nat, clean : BOOLEAN]
ASSUME StartAssumption ==
    /\ Lcores \subseteq Nat /\ IsFiniteSet(Lcores) /\ Cardinality(Lcores) > 1
    /\ N_PORTS \in Nat /\ D2SC_NUM_RX_THREADS \in U16s
    /\ MAX_CHECK_TIME \in Nat \ {0}
    /\ CommandLines \subseteq Seq(Options)

VARIABLES
    manager,     \* "init", "launch", "master", "exit"
    made,        \* how many steps of InitOrder are done
    config,      \* what the options set
    mbuf_ports,  \* the ports that the pool of mbufs was sized for
    started,     \* how often each port was started
    checks,      \* of the links
    kind, i,     \* the thread to be launched next
    cur_lcore,   \* the lcore that a thread was last launched on
    job,         \* the thread of each lcore
    proc,        \* of each NF process: "out", "looking", "up" or "died"
    found        \* how many steps of LookupOrder are done

initVars == <<made, config, mbuf_ports, started, checks>>
launchVars == <<kind, i, cur_lcore, job>>
procVars == <<proc, found>>
vars == <<manager, initVars, launchVars, procVars>>

MASK_BITS == 30           \* the bits of a mask that are looked at, one for a port
Master == Min(Lcores)
NoJob == <<"none", 0>>

(* What init makes, in its order.  "shm_rings" are the queues of the NF table,
   "scp" is the write of default_sc_p. *)
InitOrderScpEarly == <<"nfs", "port_info", "nts", "nfs_per_nt", "nt_available",  \* mutant
    "args", "pktmbuf_mp", "nf_info_mp", "nf_msg_mp", "new_msg_ring",
    "scale_msg_ring", "default_sc", "scp_info", "scp", "ports", "links",
    "shm_rings", "flow_table">>
InitOrder == <<"nfs", "port_info", "nts", "nfs_per_nt", "nt_available", "args",
    "pktmbuf_mp", "nf_info_mp", "nf_msg_mp", "ports", "links", "shm_rings",
    "new_msg_ring", "scale_msg_ring", "default_sc", "scp_info", "scp",
    "flow_table">>
Made == ToSet(SubSeq(InitOrder, 1, made))
Item == IF manager = "init" /\ made < Len(InitOrder) THEN InitOrder[made + 1]
        ELSE "nothing"

Defaults == [num_nts |-> 16, default_nt |-> 1, stats_dst |-> 0, sleep_time |-> 1,
             num_rx_threads |-> D2SC_NUM_RX_THREADS, ports |-> <<>>]
Init ==
    /\ manager = "init" /\ made = 0
    /\ config = Defaults
    /\ mbuf_ports = 0
    /\ started = [p \in 0 .. N_PORTS - 1 |-> 0]
    /\ checks = 0
    /\ kind = "tx" /\ i = 0
    /\ cur_lcore = Master
    /\ job = [c \in Lcores |-> IF c = Master THEN <<"master", 0>> ELSE NoJob]
    /\ proc = [p \in Procs |-> "out"]
    /\ found = [p \in Procs |-> 0]

-----------------------------------------------------------------------------
(* The arguments: a port mask of 0 is accepted whatever follows it, a number
   must not be 0 but may become 0 in a uint16_t. *)
Bits == [k \in 1 .. MASK_BITS |-> k - 1]
IsSet(num, b) == (num \div 2^b) % 2 = 1
PortsOfAny(num) ==       \* mutant: a port that does not exist is taken
    FoldLeft(LAMBDA ids, b : IF IsSet(num, b) /\ b <= N_PORTS THEN Append(ids, b)
                             ELSE ids, <<>>, Bits)
PortsOf(num) ==
    FoldLeft(LAMBDA ids, b : IF IsSet(num, b) /\ b < N_PORTS THEN Append(ids, b)
                             ELSE ids, <<>>, Bits)
Accepted(o) ==
    CASE o.opt = "p" -> o.num = 0 \/ o.clean
      [] o.opt = "s" -> o.num \in {1, 2}
      [] o.opt \in {"t", "d", "r", "z"} -> o.num # 0 /\ o.clean
      [] OTHER -> FALSE
Taken(conf, o) ==
    CASE o.opt = "p" -> [conf EXCEPT !.ports = @ \o PortsOf(o.num)]
      [] o.opt = "s" -> [conf EXCEPT !.stats_dst = o.num]
      [] o.opt = "t" -> [conf EXCEPT !.num_nts = o.num % U16]
      [] o.opt = "d" -> [conf EXCEPT !.default_nt = o.num % U16]
      [] o.opt = "r" -> [conf EXCEPT !.num_rx_threads = o.num % U16]
      [] o.opt = "z" -> [conf EXCEPT !.sleep_time = o.num % U16]
ParseMgrArgs(line) ==
    /\ Item = "args"
    /\ IF \A k \in 1 .. Len(line) : Accepted(line[k])
       THEN /\ config' = FoldLeft(Taken, config, line)
            /\ made' = made + 1 /\ UNCHANGED manager
       ELSE manager' = "exit" /\ UNCHANGED <<config, made>>
    /\ UNCHANGED <<mbuf_ports, started, checks, launchVars, procVars>>

(* An object of its own; memory for it may be missing, which ends the manager. *)
Make ==
    /\ Item \notin {"nothing", "args", "ports", "links", "pktmbuf_mp"}
    /\ made' = made + 1
    /\ UNCHANGED <<manager, config, mbuf_ports, started, checks, launchVars,
                   procVars>>
InitMbufMps ==
    /\ Item = "pktmbuf_mp" /\ made' = made + 1
    /\ mbuf_ports' = Len(config.ports)
    /\ UNCHANGED <<manager, config, started, checks, launchVars, procVars>>
MakeFails ==
    /\ Item \notin {"nothing", "args", "links"}
    /\ manager' = "exit"
    /\ UNCHANGED <<initVars, launchVars, procVars>>

(* One port after another; one that was started cannot be configured again. *)
PortsStarted == Cardinality({p \in DOMAIN started : started[p] > 0})
InitPortAgain ==         \* mutant: the next port is looked for by its number
    /\ Item = "ports" /\ PortsStarted < Len(config.ports)
    /\ LET p == PortsStarted
       IN  started' = [started EXCEPT ![p] = @ + 1]
    /\ UNCHANGED <<manager, made, config, mbuf_ports, checks, launchVars, procVars>>
InitPort ==
    /\ Item = "ports" /\ PortsStarted < Len(config.ports)
    /\ LET p == config.ports[PortsStarted + 1]
       IN  IF started[p] = 0
           THEN started' = [started EXCEPT ![p] = @ + 1] /\ UNCHANGED manager
           ELSE manager' = "exit" /\ UNCHANGED started
    /\ UNCHANGED <<made, config, mbuf_ports, checks, launchVars, procVars>>
PortsDone ==
    /\ Item = "ports" /\ PortsStarted = Len(config.ports)
    /\ made' = made + 1
    /\ UNCHANGED <<manager, config, mbuf_ports, started, checks, launchVars,
                   procVars>>

(* Links come up at any time or never; the last check is content with them. *)
CheckLinksAnew(all_ports_up) ==      \* mutant: the checks start over
    /\ Item = "links"
    /\ config.ports = <<>> => all_ports_up
    /\ IF all_ports_up THEN made' = made + 1 /\ UNCHANGED checks
       ELSE checks' = (checks + 1) % MAX_CHECK_TIME /\ UNCHANGED made
    /\ UNCHANGED <<manager, config, mbuf_ports, started, launchVars, procVars>>
CheckLinks(all_ports_up) ==
    /\ Item = "links"
    /\ config.ports = <<>> => all_ports_up
    /\ IF all_ports_up \/ checks = MAX_CHECK_TIME - 1
       THEN made' = made + 1 /\ UNCHANGED checks
       ELSE checks' = checks + 1 /\ UNCHANGED made
    /\ UNCHANGED <<manager, config, mbuf_ports, started, launchVars, procVars>>

-----------------------------------------------------------------------------
(* main: the threads of each kind.  tx_lcores is unsigned; MANY stands for the
   billions it is when there are too few lcores. *)
MANY == 2^20
tx_lcores_one_more ==      \* mutant: the scale thread is not counted
    LET n == Cardinality(Lcores) - config.num_rx_threads - 1
    IN  IF n < 0 THEN MANY ELSE n
tx_lcores ==
    LET n == Cardinality(Lcores) - config.num_rx_threads - 2
    IN  IF n < 0 THEN MANY ELSE n
Threads(k) ==
    CASE k = "tx" -> tx_lcores
      [] k = "rx" -> config.num_rx_threads
      [] k = "scale" -> 1

(* rte_get_next_lcore without the master and with wrap. *)
NextLcore(c) ==
    LET others == Lcores \ {Master}
        above == {d \in others : d > c}
    IN  IF above # {} THEN Min(above) ELSE Min(others)

BeginLaunch ==
    /\ manager = "init" /\ made = Len(InitOrder)
    /\ manager' = "launch"
    /\ cur_lcore' = Master + config.num_rx_threads - 1
    /\ UNCHANGED <<initVars, kind, i, job, procVars>>
Launch ==
    /\ manager = "launch" /\ i < Threads(kind)
    /\ cur_lcore' = NextLcore(cur_lcore)
    /\ IF job[cur_lcore'] = NoJob
       THEN /\ job' = [job EXCEPT ![cur_lcore'] = <<kind, i>>]
            /\ i' = i + 1 /\ UNCHANGED manager
       ELSE manager' = "exit" /\ UNCHANGED <<job, i>>
    /\ UNCHANGED <<initVars, kind, procVars>>
NextKind ==
    /\ manager = "launch" /\ i = Threads(kind) /\ kind # "scale"
    /\ kind' = IF kind = "tx" THEN "rx" ELSE "scale"
    /\ i' = 0
    /\ UNCHANGED <<manager, initVars, cur_lcore, job, procVars>>
EnterMaster ==
    /\ manager = "launch" /\ i = Threads(kind) /\ kind = "scale"
    /\ manager' = "master"
    /\ UNCHANGED <<initVars, launchVars, procVars>>

ManagerStep ==
    \/ Make \/ InitMbufMps \/ MakeFails \/ InitPort \/ PortsDone
    \/ \E line \in CommandLines : ParseMgrArgs(line)
    \/ \E up \in BOOLEAN : CheckLinks(up)
    \/ BeginLaunch \/ Launch \/ NextKind \/ EnterMaster

-----------------------------------------------------------------------------
(* d2sc_nfrt_init_premises: an NF process ends when it misses something, and
   when the pointer to the default chain, which it prints, is not written yet. *)
LookupOrder == <<"nf_info_mp", "nf_msg_mp", "pktmbuf_mp", "nfs", "nts",
    "nfs_per_nt", "nt_available", "port_info", "scp_info", "new_msg_ring",
    "scale_msg_ring">>
Begin(p) ==
    /\ proc[p] = "out" /\ proc' = [proc EXCEPT ![p] = "looking"]
    /\ UNCHANGED <<manager, initVars, launchVars, found>>
Object(p) == LookupOrder[found[p] + 1]
Misses(p) ==
    \/ Object(p) \notin Made
    \/ Object(p) = "scp_info" /\ "scp" \notin Made
Lookup(p) ==
    /\ proc[p] = "looking" /\ ~Misses(p)
    /\ found' = [found EXCEPT ![p] = @ + 1]
    /\ proc' = [proc EXCEPT ![p] =
                  IF found'[p] = Len(LookupOrder) THEN "up" ELSE @]
    /\ UNCHANGED <<manager, initVars, launchVars>>
LookupFails(p) ==
    /\ proc[p] = "looking" /\ Misses(p)
    /\ proc' = [proc EXCEPT ![p] = "died"]
    /\ UNCHANGED <<manager, initVars, launchVars, found>>
NfStep(p) == Begin(p) \/ Lookup(p) \/ LookupFails(p)

Next == ManagerStep \/ \E p \in Procs : NfStep(p)
Spec == Init /\ [][Next]_vars
FairSpec == Spec /\ WF_vars(ManagerStep)

-----------------------------------------------------------------------------
(* Every variable has its type; no port is started that does not exist. *)
TypeOK ==
    /\ manager \in {"init", "launch", "master", "exit"}
    /\ made \in 0 .. Len(InitOrder)
    /\ DOMAIN config = DOMAIN Defaults
    /\ config.ports \in Seq(0 .. N_PORTS - 1)
    /\ config.stats_dst \in 0 .. 2
    /\ {config.num_nts, config.default_nt, config.num_rx_threads,
        config.sleep_time} \subseteq U16s
    /\ mbuf_ports \in 0 .. Len(config.ports)
    /\ started \in [0 .. N_PORTS - 1 -> {0, 1}]
    /\ checks \in 0 .. MAX_CHECK_TIME
    /\ kind \in {"tx", "rx", "scale"} /\ i \in 0 .. Cardinality(Lcores)
    /\ cur_lcore \in Int
    /\ \A c \in Lcores : job[c] \in
           {NoJob, <<"master", 0>>} \cup ({"tx", "rx", "scale"} \X Nat)
    /\ proc \in [Procs -> {"out", "looking", "up", "died"}]
    /\ found \in [Procs -> 0 .. Len(LookupOrder)]

(* An NF process that found what it looks for meets a manager that has also
   made what it does not look for: its arguments, started ports, the queues in
   the NF table and the default chain (the orders of d2sc_init.c:146-255 and
   d2sc_nfrt.c:126-181). *)
FindsAll ==
    \A p \in Procs : proc[p] = "up" =>
        {"args", "ports", "links", "shm_rings", "default_sc", "scp"} \subseteq Made

(* However the ids of the lcores lie and whatever -r says, a manager with three
   lcores more than RX threads comes up with another thread on each of them, the
   RX threads for all their queues and the scale thread among them
   (main.c:256-319). *)
Staffed ==
    Cardinality(Lcores) >= config.num_rx_threads + 3 /\ made = Len(InitOrder) =>
        /\ manager # "exit"
        /\ manager = "master" =>
              /\ IsInjective(job) /\ NoJob \notin Range(job)
              /\ ({"rx"} \X (0 .. config.num_rx_threads - 1))
                    \cup {<<"scale", 0>>} \subseteq Range(job)

(* Behind the ports, each port that is in use was started, once, no other was,
   and the pool of mbufs was sized for them (d2sc_init.c:197-222). *)
PortsReady ==
    "ports" \in Made =>
        /\ \A p \in DOMAIN started : started[p] = 1 <=> p \in ToSet(config.ports)
        /\ Len(config.ports) = Cardinality(ToSet(config.ports))
        /\ mbuf_ports = Len(config.ports)

(* The manager comes up or ends, whatever becomes of the links of its ports and
   however few lcores it has (d2sc_init.c:366-407, main.c:281-319). *)
Starts == <>(manager \in {"master", "exit"})
=============================================================================
