----------------------------- MODULE PktProcess -----------------------------
(***************************************************************************)
(* The way of the packets (d2sc_pkt_process.c, d2sc_sc.c and the worker    *)
(* threads): the RX thread gives every packet of the wire to an instance   *)
(* of the first type of the default service chain; an NF gives the packets *)
(* of its rx_q to its handler and then to another type, to its TX thread   *)
(* or back to the pool; a TX thread brings what is in the tx_q of its NFs  *)
(* to a port.  Every thread collects packets in buffers of its own.        *)
(*                                                                         *)
(* A packet is the number it has on the wire; ports are one.  What the     *)
(* threads read of the NF table changes by actions that stand for the life *)
(* cycle of the NFs.                                                       *)
(***************************************************************************)
EXTENDS Integers, Sequences, FiniteSets, SequencesExt

CONSTANTS
    PKTS,          \* how many packets the wire brings
    Hash,          \* hash.rss of each packet, which names its flow
    NTs,           \* the types, 1 of which is the first of the default chain
    MAX_NFS,       \* number of NF instances allowed; id 0 is the manager's
    TypeOf,        \* the type of the NF that gets each id
    Handler,       \* what the handlers of the NFs of a type may decide
    TX_CORES,      \* number of TX threads
    PKT_RD_SIZE,   \* the size of a burst and of a buffer
    NF_RING_SIZE,  \* the size of rx_q and of tx_q; one slot stays empty
    Env            \* the events of the life cycle that may happen

Events == {"churn",   \* NFs start while packets are under way
           "block",   \* NFs are blocked and run again
           "signal",  \* SIGINT or SIGTERM reaches an NF process
           "kill"}    \* an NF process dies without a word

Pkts == 1 .. PKTS
Ids == 0 .. MAX_NFS - 1
NfIds == Ids \ {0}
Acts == [act : {"DROP", "TONF", "OUT"}, dst : NTs \cup {0}]

ASSUME SizesAssumption ==
    /\ PKTS \in Nat /\ Hash \in [Pkts -> Nat]
    /\ MAX_NFS \in Nat /\ MAX_NFS > 1
    /\ TX_CORES \in Nat \ {0}
    /\ PKT_RD_SIZE \in Nat \ {0} /\ NF_RING_SIZE \in Nat \ {0}
ASSUME RolesAssumption ==
    /\ NTs \subseteq Nat \ {0} /\ 1 \in NTs
    /\ TypeOf \in [NfIds -> NTs]
    /\ Handler \in [NTs -> SUBSET {a \in Acts : a.act = "TONF" => a.dst # 0}]
    /\ Env \subseteq Events

(* The TX threads share out the ids: thread k serves those from first_nf_id(k) up to
   but not including last_nf_id(k). *)
TxIds == 0 .. TX_CORES - 1
Least(m, n) == IF m <= n THEN m ELSE n
nfs_per_tx == (MAX_NFS + TX_CORES - 1) \div TX_CORES
first_nf_id_from_0(k) ==     \* mutant: a share begins with the last id of another
    Least(k * nfs_per_tx, MAX_NFS)
first_nf_id(k) == Least(k * nfs_per_tx + 1, MAX_NFS)
last_nf_id_from_0(k) ==      \* mutant: the ids are thought to begin at 0
    Least((k + 1) * nfs_per_tx, MAX_NFS)
last_nf_id(k) == Least((k + 1) * nfs_per_tx + 1, MAX_NFS)
Served(k) == {id \in NfIds : first_nf_id(k) <= id /\ id < last_nf_id(k)}

(* The threads that send to NFs: RX, here 0, and that of each NF. *)
Rx == 0

VARIABLES
    (* of the NF table: the NF of an id, its flag, the list of a type *)
    state, bk_flag, nts,
    (* the thread of each NF, and the NFs that reported that they run *)
    pc, ran,
    (* the number of packets taken from the wire, and what became of them:
       sent, back in the pool, gone with the process that held them *)
    arrived, sent, freed, lost,
    (* act and dst of the d2sc_pkt_meta of each packet *)
    meta,
    (* the rings of each NF *)
    rx_q, tx_q,
    (* of the RX thread and of each NF: is it in a pass, the packets it has
       yet to handle, its buffer for each NF, the buffer that it has to flush
       because it is full; and an NF's buffer for its tx_q *)
    busy, hand, rx_bufs, full, tx_buf,
    (* of each TX thread: the packets to handle, the buffer for the port *)
    tx_hand, port_buf

nfTable == <<state, bk_flag, nts, pc, ran>>
rings == <<rx_q, tx_q>>
senders == <<busy, hand, rx_bufs, full, tx_buf>>
txThreads == <<tx_hand, port_buf>>
vars == <<nfTable, arrived, sent, freed, lost, meta, rings, senders, txThreads>>

Init ==
    /\ state = [id \in Ids |-> "NULL"] /\ bk_flag = [id \in Ids |-> 0]
    /\ nts = [t \in NTs |-> <<>>]
    /\ pc = [id \in NfIds |-> "none"] /\ ran = {}
    /\ arrived = 0 /\ sent = <<>> /\ freed = {} /\ lost = {}
    /\ meta = [p \in Pkts |-> [act |-> "DROP", dst |-> 0]]
    /\ rx_q = [id \in Ids |-> <<>>] /\ tx_q = [id \in Ids |-> <<>>]
    /\ busy = [th \in Ids |-> FALSE]
    /\ hand = [th \in Ids |-> <<>>]
    /\ rx_bufs = [th \in Ids |-> [id \in Ids |-> <<>>]]
    /\ full = [th \in Ids |-> 0]
    /\ tx_buf = [id \in NfIds |-> <<>>]
    /\ tx_hand = [k \in TxIds |-> <<>>]
    /\ port_buf = [k \in TxIds |-> <<>>]

Upto(s, n) == SubSeq(s, 1, Least(n, Len(s)))
After(s, n) == SubSeq(s, n + 1, Len(s))
Contents(bufs) == UNION {ToSet(bufs[id]) : id \in Ids}

-----------------------------------------------------------------------------
(* d2sc_nf_is_valid *)
IsValid(id) == state[id] = "RUNNING"

(* d2sc_sc_nt_to_nf_map: the instance that the hash selects, unless it is
   blocked; then the next valid one of the type that is not.  While there is
   none, the search goes round the table. *)
IsOpenAnyType(id, t) == id \in NfIds /\ IsValid(id) /\ bk_flag[id] # 2 \* mutant
IsOpen(id, t) ==
    /\ id \in NfIds /\ IsValid(id)
    /\ TypeOf[id] = t /\ bk_flag[id] # 2
Distance(from, id) == (id - from - 1) % MAX_NFS
NextOpen(from, id, t) ==
    /\ IsOpen(id, t)
    /\ \A j \in Ids : IsOpen(j, t) => Distance(from, id) <= Distance(from, j)
Selected(t, p) == nts[t][(Hash[p] % Len(nts[t])) + 1]
NtToNfMap(t, p, id) ==
    \/ nts[t] = <<>> /\ id = 0
    \/ /\ nts[t] # <<>> /\ bk_flag[Selected(t, p)] # 2
       /\ id = Selected(t, p)
    \/ /\ nts[t] # <<>> /\ bk_flag[Selected(t, p)] = 2
       /\ NextOpen(Selected(t, p), id, t)

(* d2sc_pkt_enqueue_bq, up to the flush of a full buffer.  A buffer that is
   full beforehand is written behind its end. *)
EnqueueBq(th, p, t) ==
    \E id \in Ids :
        /\ NtToNfMap(t, p, id)
        /\ IF id = 0 \/ ~IsValid(id)
           THEN freed' = freed \cup {p} /\ UNCHANGED <<rx_bufs, full>>
           ELSE /\ rx_bufs' = [rx_bufs EXCEPT ![th][id] = Append(@, p)]
                /\ full' = [full EXCEPT ![th] =
                     IF Len(rx_bufs[th][id]) + 1 = PKT_RD_SIZE THEN id ELSE 0]
                /\ UNCHANGED freed

(* d2sc_pkt_flush_nf_bq for some NFs: a buffer goes to the ring as a whole,
   or back to the pool; that of an NF that is not valid stays. *)
FitsOne(th, id) == Len(rx_q[id]) + 1 < NF_RING_SIZE   \* mutant: room for one
Fits(th, id) == Len(rx_q[id]) + Len(rx_bufs[th][id]) < NF_RING_SIZE
FlushKeeping(th, ids) ==     \* mutant: cnt is not set to 0
    LET go == {id \in ids : IsValid(id)}
    IN  /\ rx_q' = [id \in Ids |-> IF id \in go /\ Fits(th, id)
                                   THEN rx_q[id] \o rx_bufs[th][id]
                                   ELSE rx_q[id]]
        /\ freed' = freed
        /\ UNCHANGED rx_bufs
Flush(th, ids) ==
    LET go == {id \in ids : IsValid(id)}
    IN  /\ rx_q' = [id \in Ids |-> IF id \in go /\ Fits(th, id)
                                   THEN rx_q[id] \o rx_bufs[th][id]
                                   ELSE rx_q[id]]
        /\ freed' = freed \cup UNION {ToSet(rx_bufs[th][id]) :
                                         id \in {j \in go : ~Fits(th, j)}}
        /\ rx_bufs' = [rx_bufs EXCEPT ![th] =
                          [id \in Ids |-> IF id \in go THEN <<>> ELSE @[id]]]

FlushFull(th) ==
    /\ full[th] # 0
    /\ Flush(th, {full[th]})
    /\ full' = [full EXCEPT ![th] = 0]
    /\ UNCHANGED <<nfTable, arrived, sent, lost, meta, tx_q, busy, hand,
                   tx_buf, txThreads>>

HasNext(th) == hand[th] # <<>> /\ full[th] = 0
BatchDone(th) == busy[th] /\ hand[th] = <<>> /\ full[th] = 0

-----------------------------------------------------------------------------
(* The RX thread: a burst of the wire, dropped when no NF is active ... *)
RxBurst(n) ==
    /\ ~busy[Rx] /\ arrived + n <= PKTS
    /\ arrived' = arrived + n
    /\ IF \A t \in NTs : nts[t] = <<>>
       THEN /\ freed' = freed \cup (arrived + 1 .. arrived + n)
            /\ UNCHANGED <<busy, hand>>
       ELSE /\ busy' = [busy EXCEPT ![Rx] = TRUE]
            /\ hand' = [hand EXCEPT ![Rx] = [j \in 1 .. n |-> arrived + j]]
            /\ UNCHANGED freed
    /\ UNCHANGED <<nfTable, sent, lost, meta, rings, rx_bufs, full, tx_buf,
                   txThreads>>

(* ... its packets one by one, to the first type of the default chain (no
   flow has an entry in the flow table) ... *)
RxPacket ==
    /\ HasNext(Rx)
    /\ meta' = [meta EXCEPT ![Head(hand[Rx])] = [act |-> "TONF", dst |-> 1]]
    /\ EnqueueBq(Rx, Head(hand[Rx]), 1)
    /\ hand' = [hand EXCEPT ![Rx] = Tail(@)]
    /\ UNCHANGED <<nfTable, arrived, sent, lost, rings, busy, tx_buf,
                   txThreads>>

(* ... and the flush of all buffers. *)
RxFlush ==
    /\ BatchDone(Rx)
    /\ Flush(Rx, Ids)
    /\ busy' = [busy EXCEPT ![Rx] = FALSE]
    /\ UNCHANGED <<nfTable, arrived, sent, lost, meta, tx_q, hand, full,
                   tx_buf, txThreads>>

RxStep == RxPacket \/ FlushFull(Rx) \/ RxFlush

-----------------------------------------------------------------------------
(* An NF, while its flag lets it: it dequeues a burst and calls its handler
   for each packet (a pass with nothing to do is left out) ... *)
NfDequeue(id) ==
    /\ bk_flag[id] # 2 /\ ~busy[id]
    /\ rx_q[id] # <<>> \/ Contents(rx_bufs[id]) # {}
    /\ LET pkts == Upto(rx_q[id], PKT_RD_SIZE)
       IN  /\ \E decide \in [ToSet(pkts) -> Handler[TypeOf[id]]] :
                 meta' = [p \in Pkts |-> IF p \in ToSet(pkts) THEN decide[p]
                                                              ELSE meta[p]]
           /\ hand' = [hand EXCEPT ![id] = pkts]
           /\ rx_q' = [rx_q EXCEPT ![id] = After(@, Len(pkts))]
    /\ busy' = [busy EXCEPT ![id] = TRUE]
    /\ UNCHANGED <<nfTable, arrived, sent, freed, lost, tx_q, rx_bufs, full,
                   tx_buf, txThreads>>

(* d2sc_pkt_enqueue_tx_ring *)
EnqueueTxRing(id, buf) ==
    /\ tx_buf' = [tx_buf EXCEPT ![id] = <<>>]
    /\ IF Len(tx_q[id]) + Len(buf) < NF_RING_SIZE
       THEN tx_q' = [tx_q EXCEPT ![id] = @ \o buf]
            /\ UNCHANGED freed
       ELSE freed' = freed \cup ToSet(buf) /\ UNCHANGED tx_q

(* ... d2sc_pkt_process_tx_batch, packet by packet ... *)
NfPacket(id) ==
    LET p == Head(hand[id])
        buf == Append(tx_buf[id], p)
    IN  /\ HasNext(id)
        /\ hand' = [hand EXCEPT ![id] = Tail(@)]
        /\ \/ /\ meta[p].act = "DROP"
              /\ freed' = freed \cup {p}
              /\ UNCHANGED <<rx_bufs, full, tx_buf, tx_q>>
           \/ /\ meta[p].act = "TONF"
              /\ EnqueueBq(id, p, meta[p].dst)
              /\ UNCHANGED <<tx_buf, tx_q>>
           \/ /\ meta[p].act = "OUT"
              /\ IF Len(buf) = PKT_RD_SIZE
                 THEN EnqueueTxRing(id, buf)
                 ELSE /\ tx_buf' = [tx_buf EXCEPT ![id] = buf]
                      /\ UNCHANGED <<tx_q, freed>>
              /\ UNCHANGED <<rx_bufs, full>>
        /\ UNCHANGED <<nfTable, arrived, sent, lost, meta, rx_q, busy,
                       txThreads>>

(* ... and flushes what the pass left in its buffers.  The two flushes touch
   different rings. *)
NfFlushTx(id) ==
    /\ BatchDone(id) /\ tx_buf[id] # <<>>
    /\ EnqueueTxRing(id, tx_buf[id])
    /\ UNCHANGED <<nfTable, arrived, sent, lost, meta, rx_q, busy, hand,
                   rx_bufs, full, txThreads>>
NfFlush(id) ==
    /\ BatchDone(id) /\ tx_buf[id] = <<>>
    /\ Flush(id, Ids)
    /\ busy' = [busy EXCEPT ![id] = FALSE]
    /\ UNCHANGED <<nfTable, arrived, sent, lost, meta, tx_q, hand, full,
                   tx_buf, txThreads>>

NfStep(id) ==
    /\ pc[id] \in {"run", "quit"}
    /\ \/ NfDequeue(id) \/ NfPacket(id) \/ FlushFull(id)
       \/ NfFlushTx(id) \/ NfFlush(id)

-----------------------------------------------------------------------------
(* A TX thread dequeues from the tx_q of a valid NF of its share ... *)
TxDequeue(k, id) ==
    /\ tx_hand[k] = <<>>
    /\ id \in Served(k) /\ IsValid(id) /\ tx_q[id] # <<>>
    /\ tx_hand' = [tx_hand EXCEPT ![k] = Upto(tx_q[id], PKT_RD_SIZE)]
    /\ tx_q' = [tx_q EXCEPT ![id] = After(@, PKT_RD_SIZE)]
    /\ UNCHANGED <<nfTable, arrived, sent, freed, lost, meta, rx_q, senders,
                   port_buf>>

(* d2sc_pkt_flush_port_bq: the port takes what it can, the rest is dropped. *)
FlushPort(k, buf) ==
    /\ \E n \in 0 .. Len(buf) :
          /\ sent' = sent \o SubSeq(buf, 1, n)
          /\ freed' = freed \cup ToSet(After(buf, n))
    /\ port_buf' = [port_buf EXCEPT ![k] = <<>>]

(* ... handles the packets, all of which are to go out ... *)
TxPacket(k) ==
    LET buf == Append(port_buf[k], Head(tx_hand[k]))
    IN  /\ tx_hand[k] # <<>>
        /\ tx_hand' = [tx_hand EXCEPT ![k] = Tail(@)]
        /\ IF Len(buf) = PKT_RD_SIZE
           THEN FlushPort(k, buf)
           ELSE /\ port_buf' = [port_buf EXCEPT ![k] = buf]
                /\ UNCHANGED <<sent, freed>>
        /\ UNCHANGED <<nfTable, arrived, lost, meta, rings, senders>>

(* ... and flushes the port once per round. *)
TxFlush(k) ==
    /\ tx_hand[k] = <<>> /\ port_buf[k] # <<>>
    /\ FlushPort(k, port_buf[k])
    /\ UNCHANGED <<nfTable, arrived, lost, meta, rings, senders, tx_hand>>

TxStep(k) == (\E id \in NfIds : TxDequeue(k, id)) \/ TxPacket(k) \/ TxFlush(k)

-----------------------------------------------------------------------------
(* The life cycle, as the threads above see it.  An NF becomes ready ... *)
NfReady(id) ==
    /\ pc[id] = "none"
    /\ arrived = 0 \/ "churn" \in Env
    /\ pc' = [pc EXCEPT ![id] = "run"]
    /\ state' = [state EXCEPT ![id] = "RUNNING"]
    /\ nts' = [nts EXCEPT ![TypeOf[id]] = Append(@, id)]
    /\ UNCHANGED <<bk_flag, ran, arrived, sent, freed, lost, meta, rings,
                   senders, txThreads>>

(* ... is blocked and runs again: the NF sets its status between two passes,
   the master then the flag ... *)
Blocked(id) ==
    /\ pc[id] = "run" /\ ~busy[id]
    /\ state[id] = "RUNNING" /\ bk_flag[id] = 0
    /\ state' = [state EXCEPT ![id] = "BLOCKED"]
    /\ UNCHANGED <<bk_flag, ran>>
FlagBlocked(id) ==
    /\ state[id] = "BLOCKED" /\ bk_flag[id] = 0
    /\ bk_flag' = [bk_flag EXCEPT ![id] = 2]
    /\ UNCHANGED <<state, ran>>
RunsAgain(id) ==
    /\ pc[id] = "run" /\ ~busy[id]
    /\ state[id] = "BLOCKED" /\ bk_flag[id] = 2
    /\ state' = [state EXCEPT ![id] = "RUNNING"]
    /\ ran' = ran \cup {id}
    /\ UNCHANGED bk_flag
FlagRuns(id) ==
    /\ id \in ran /\ state[id] = "RUNNING"
    /\ bk_flag' = [bk_flag EXCEPT ![id] = 0]
    /\ ran' = ran \ {id}
    /\ UNCHANGED state
Handshake(id) ==
    /\ "block" \in Env
    /\ Blocked(id) \/ FlagBlocked(id) \/ RunsAgain(id) \/ FlagRuns(id)
    /\ UNCHANGED <<nts, pc, arrived, sent, freed, lost, meta, rings, senders,
                   txThreads>>

(* ... gets a signal, which sets the flags of all ... *)
Signal(id) ==
    /\ "signal" \in Env /\ pc[id] = "run"
    /\ pc' = [pc EXCEPT ![id] = "quit"]
    /\ bk_flag' = [j \in Ids |-> IF state[j] = "NULL" THEN bk_flag[j] ELSE 2]
    /\ UNCHANGED <<state, nts, ran, arrived, sent, freed, lost, meta, rings,
                   senders, txThreads>>

(* What a process has in its own memory ends with it. *)
Vanish(id) ==
    /\ pc' = [pc EXCEPT ![id] = "dead"]
    /\ lost' = lost \cup ToSet(hand[id]) \cup Contents(rx_bufs[id])
                    \cup ToSet(tx_buf[id])
    /\ busy' = [busy EXCEPT ![id] = FALSE]
    /\ hand' = [hand EXCEPT ![id] = <<>>]
    /\ rx_bufs' = [rx_bufs EXCEPT ![id] = [j \in Ids |-> <<>>]]
    /\ full' = [full EXCEPT ![id] = 0]
    /\ tx_buf' = [tx_buf EXCEPT ![id] = <<>>]

(* ... after which it deregisters ... *)
Quit(id) ==
    /\ pc[id] = "quit" /\ ~busy[id] /\ bk_flag[id] = 2
    /\ Vanish(id)
    /\ state' = [state EXCEPT ![id] = "STOPPED"]
    /\ UNCHANGED <<bk_flag, nts, ran, arrived, sent, freed, meta, rings,
                   txThreads>>
Deregistered(id) ==
    /\ state[id] = "STOPPED"
    /\ state' = [state EXCEPT ![id] = "NULL"]
    /\ \E k \in DOMAIN nts[TypeOf[id]] :
          /\ nts[TypeOf[id]][k] = id
          /\ nts' = [nts EXCEPT ![TypeOf[id]] = RemoveAt(@, k)]
    /\ UNCHANGED <<bk_flag, pc, ran, arrived, sent, freed, lost, meta, rings,
                   senders, txThreads>>

(* ... or dies, and stays in the table. *)
Kill(id) ==
    /\ "kill" \in Env /\ pc[id] \in {"run", "quit"}
    /\ Vanish(id)
    /\ UNCHANGED <<state, bk_flag, nts, ran, arrived, sent, freed, meta,
                   rings, txThreads>>

Life(id) ==
    \/ NfReady(id) \/ Handshake(id) \/ Signal(id) \/ Quit(id)
    \/ Deregistered(id) \/ Kill(id)

-----------------------------------------------------------------------------
(* Every buffer for an NF stays within its array (d2sc_pkt_enqueue_bq flushes
   it when it is full; d2sc_common.h:62 declares it). *)
BufferBound ==
    \A th, id \in Ids : Len(rx_bufs[th][id]) <= PKT_RD_SIZE

(* What follows a write behind the end of a buffer is not modelled. *)
Next ==
    /\ BufferBound
    /\ \/ \E n \in 1 .. PKT_RD_SIZE : RxBurst(n)
       \/ RxStep
       \/ \E id \in NfIds : NfStep(id) \/ Life(id)
       \/ \E k \in TxIds : TxStep(k)

Spec == Init /\ [][Next]_vars

(* Every worker thread polls without a pause. *)
Fairness ==
    /\ WF_vars(RxStep)
    /\ \A id \in NfIds : WF_vars(NfStep(id))
    /\ \A k \in TxIds :
          /\ WF_vars(TxPacket(k)) /\ WF_vars(TxFlush(k))
          /\ \A id \in NfIds : WF_vars(TxDequeue(k, id))

FairSpec == Spec /\ Fairness

(* Every variable has its type, and no ring more packets than it has
   slots. *)
TypeOK ==
    /\ state \in [Ids -> {"NULL", "RUNNING", "BLOCKED", "STOPPED"}]
    /\ bk_flag \in [Ids -> {0, 2}]
    /\ nts \in [NTs -> Seq(NfIds)]
    /\ pc \in [NfIds -> {"none", "run", "quit", "dead"}] /\ ran \subseteq NfIds
    /\ arrived \in 0 .. PKTS /\ sent \in Seq(Pkts)
    /\ freed \subseteq Pkts /\ lost \subseteq Pkts
    /\ meta \in [Pkts -> Acts]
    /\ rx_q \in [Ids -> Seq(Pkts)] /\ tx_q \in [Ids -> Seq(Pkts)]
    /\ \A id \in Ids :
          Len(rx_q[id]) < NF_RING_SIZE /\ Len(tx_q[id]) < NF_RING_SIZE
    /\ busy \in [Ids -> BOOLEAN] /\ hand \in [Ids -> Seq(Pkts)]
    /\ rx_bufs \in [Ids -> [Ids -> Seq(Pkts)]] /\ full \in [Ids -> Ids]
    /\ tx_buf \in [NfIds -> Seq(Pkts)]
    /\ tx_hand \in [TxIds -> Seq(Pkts)] /\ port_buf \in [TxIds -> Seq(Pkts)]

(* Every packet is in one place, held by one thread or ring, and none is
   freed or sent twice (all of d2sc_pkt_process.c; a packet stays behind only
   with a process that ends). *)
Occurs(p, seq) == {j \in 1 .. Len(seq) : seq[j] = p}
Places(p) ==
    UNION {
        {<<"wire", 0, 0>> : j \in {p} \ 1 .. arrived},
        {<<"freed", 0, 0>> : j \in {p} \cap freed},
        {<<"lost", 0, 0>> : j \in {p} \cap lost},
        {<<"sent", 0, j>> : j \in Occurs(p, sent)},
        UNION {{<<"rx_q", id, j>> : j \in Occurs(p, rx_q[id])} : id \in Ids},
        UNION {{<<"tx_q", id, j>> : j \in Occurs(p, tx_q[id])} : id \in Ids},
        UNION {{<<"hand", th, j>> : j \in Occurs(p, hand[th])} : th \in Ids},
        UNION {{<<"rx_bufs", th, id * PKTS + j>> :
                   j \in Occurs(p, rx_bufs[th][id])} : th, id \in Ids},
        UNION {{<<"tx_buf", id, j>> : j \in Occurs(p, tx_buf[id])} :
                   id \in NfIds},
        UNION {{<<"tx_hand", k, j>> : j \in Occurs(p, tx_hand[k])} :
                   k \in TxIds},
        UNION {{<<"port_buf", k, j>> : j \in Occurs(p, port_buf[k])} :
                   k \in TxIds} }
Conserved == \A p \in Pkts : Cardinality(Places(p)) = 1

(* A packet waits only for NFs of the type it was sent to (the search of
   d2sc_sc_nt_to_nf_map, whatever the NFs of the type do meanwhile), and a TX
   thread meets only packets that are to go out. *)
RightType ==
    /\ \A id \in NfIds, th \in Ids :
          \A p \in ToSet(rx_q[id]) \cup ToSet(rx_bufs[th][id]) :
              meta[p] = [act |-> "TONF", dst |-> TypeOf[id]]
    /\ \A id \in NfIds, k \in TxIds :
          \A p \in ToSet(tx_q[id]) \cup ToSet(tx_hand[k]) :
              meta[p].act = "OUT"

(* The packets of a flow leave in the order they came, as long as the NFs stay
   the same (one thread serves each ring, and all buffers are queues). *)
InOrder ==
    \A j, k \in 1 .. Len(sent) :
        j < k /\ Hash[sent[j]] = Hash[sent[k]] => sent[j] < sent[k]

(* Every packet of the wire is sent or freed in the end, unless an NF gets a
   signal: the threads neither lose it nor hold it back in a buffer. *)
Leaves ==
    \A p \in Pkts :
        p <= arrived ~> \/ p \in freed \cup ToSet(sent)
                        \/ \E id \in NfIds : pc[id] \in {"quit", "dead"}
=============================================================================
