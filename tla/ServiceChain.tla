---------------------------- MODULE ServiceChain ----------------------------
(***************************************************************************)
(* The default service chain (d2sc_sc.c) and the packets that follow it:   *)
(* the RX thread sets a packet on its way, the NF of each type passes it   *)
(* on (d2sc_pkt_process_next_act), while an application extends the chain. *)
(*                                                                         *)
(* One NF per type, running throughout, and rings that are never full: the *)
(* rest of this path is the module PktProcess.  The act and the dst of a   *)
(* packet live in its mbuf, and so does its place in the chain; an mbuf    *)
(* that was freed may carry another packet at once.                        *)
(***************************************************************************)
EXTENDS Integers, Sequences, FiniteSets, SequencesExt, FiniteSetsExt

CONSTANTS
    Mbufs,
    Types,              \* the NF types; 0 is none of them
    PKT_RD_SIZE,        \* size of a burst and of a buffer
    D2SC_MAX_SC_LEN,    \* entries of a chain, entry 0 is reserved
    Additions           \* what the application adds to the chain

DROP == 0
NEXT == 1
TONF == 2
OUT  == 3
Entries == 0 .. D2SC_MAX_SC_LEN - 1
EmptyEntry == [act |-> DROP, dst |-> 0]

ASSUME ChainAssumption ==
    /\ Types \subseteq Nat \ {0} /\ IsFiniteSet(Types) /\ 1 \in Types
    /\ PKT_RD_SIZE \in Nat \ {0} /\ D2SC_MAX_SC_LEN \in Nat
    /\ Additions \in Seq([act : {TONF, OUT}, dst : Types \cup {0}])
    /\ Len(Additions) + 1 < D2SC_MAX_SC_LEN

(* The types of the whole chain; one visit more than those tells of a detour. *)
Chain == <<1>> \o [k \in 1 .. Len(Additions) |-> Additions[k].dst]

VARIABLES
    sc_entry, sc_len,   \* the default chain
    merging,            \* the application: "call", "act" or "dst" to write
    merged,             \* how many of its additions are done
    meta,               \* of each mbuf: act, dst and sc_index
    ipv4,               \* is its packet one of IPv4
    free,               \* the mbufs of the pool
    rx, rx_step,        \* the RX thread: its packet in a set, and its next step
    rx_q,               \* the ring of the NF of each type
    step, batch,        \* each NF: its next step and the rest of its burst
    rx_bufs,            \* and its buffers, one for each type
    visits,             \* history: the types whose NFs handled the packet
    raced               \* history: packets handed on before they were counted

chainVars == <<sc_entry, sc_len, merging, merged>>
nfVars == <<step, batch, rx_bufs>>
vars == <<chainVars, meta, ipv4, free, rx, rx_step, rx_q, nfVars, visits, raced>>

(* d2sc_sc_create and the first call of d2sc_sc_merge_entry *)
Init ==
    /\ sc_entry = [k \in Entries |->
                     IF k = 1 THEN [act |-> TONF, dst |-> 1] ELSE EmptyEntry]
    /\ sc_len = 1
    /\ merging = "call" /\ merged = 0
    /\ meta = [m \in Mbufs |-> [act |-> DROP, dst |-> 0, sc_index |-> 0]]
    /\ ipv4 = [m \in Mbufs |-> FALSE]
    /\ free = Mbufs
    /\ rx = {} /\ rx_step = "act"
    /\ rx_q = [t \in Types |-> <<>>]
    /\ step = [t \in Types |-> "poll"]
    /\ batch = [t \in Types |-> <<>>]
    /\ rx_bufs = [t \in Types |-> [u \in Types |-> <<>>]]
    /\ visits = [m \in Mbufs |-> <<>>]
    /\ raced = {}

-----------------------------------------------------------------------------
(* d2sc_sc_merge_entry: the length is raised before the entry is written. *)
MergeLength ==
    /\ merging = "call" /\ merged < Len(Additions)
    /\ sc_len <= D2SC_MAX_SC_LEN
    /\ sc_len' = sc_len + 1
    /\ merging' = "act"
    /\ UNCHANGED <<sc_entry, merged>>
MergeAct ==
    /\ merging = "act"
    /\ sc_entry' = [sc_entry EXCEPT ![sc_len].act = Additions[merged + 1].act]
    /\ merging' = "dst"
    /\ UNCHANGED <<sc_len, merged>>
MergeDst ==
    /\ merging = "dst"
    /\ sc_entry' = [sc_entry EXCEPT ![sc_len].dst = Additions[merged + 1].dst]
    /\ merging' = "call" /\ merged' = merged + 1
    /\ UNCHANGED sc_len
MergeEntry ==
    /\ MergeLength \/ MergeAct \/ MergeDst
    /\ UNCHANGED <<meta, ipv4, free, rx, rx_step, rx_q, nfVars, visits, raced>>

(* d2sc_sc_next_act and d2sc_sc_next_dst *)
NextEntry(m) ==
    IF meta[m].sc_index >= sc_len THEN EmptyEntry
    ELSE sc_entry[meta[m].sc_index + 1]
ReadAct(m) == meta' = [meta EXCEPT ![m].act = NextEntry(m).act]
ReadDst(m) == meta' = [meta EXCEPT ![m].dst = NextEntry(m).dst]

(* The flow table: only packets of IPv4 have a key, no flow is ever entered, and
   an NF process has no table to look a key up in. *)
HasKey(m) == ipv4[m]
LookupCrashes(m) == HasKey(m)

-----------------------------------------------------------------------------
(* d2sc_pkt_process_rx_batch, with bursts of one packet. *)
ArriveKeepsIndex(m, is_ipv4) ==       \* mutant: the index is not reset
    /\ rx = {} /\ m \in free
    /\ rx' = {m} /\ free' = free \ {m}
    /\ ipv4' = [ipv4 EXCEPT ![m] = is_ipv4]
    /\ meta' = meta
    /\ visits' = [visits EXCEPT ![m] = <<>>]
    /\ raced' = raced \ {m}
    /\ UNCHANGED <<chainVars, rx_step, rx_q, nfVars>>
Arrive(m, is_ipv4) ==
    /\ rx = {} /\ m \in free
    /\ rx' = {m} /\ free' = free \ {m}
    /\ ipv4' = [ipv4 EXCEPT ![m] = is_ipv4]
    /\ meta' = [meta EXCEPT ![m].sc_index = 0]
    /\ visits' = [visits EXCEPT ![m] = <<>>]
    /\ raced' = raced \ {m}
    /\ UNCHANGED <<chainVars, rx_step, rx_q, nfVars>>
RxAct ==
    /\ rx_step = "act" /\ rx_step' = "dst"
    /\ \E m \in rx : ReadAct(m)
    /\ UNCHANGED <<chainVars, ipv4, free, rx, rx_q, nfVars, visits, raced>>
RxDst ==
    /\ rx_step = "dst" /\ rx_step' = "index"
    /\ \E m \in rx : ReadDst(m)
    /\ UNCHANGED <<chainVars, ipv4, free, rx, rx_q, nfVars, visits, raced>>
RxIndexKept ==         \* mutant: the packet is not counted as on its way
    /\ rx_step = "index" /\ rx_step' = "hand"
    /\ UNCHANGED <<chainVars, meta, ipv4, free, rx, rx_q, nfVars, visits, raced>>
RxIndex ==
    /\ rx_step = "index" /\ rx_step' = "hand"
    /\ \E m \in rx : meta' = [meta EXCEPT ![m].sc_index = @ + 1]
    /\ UNCHANGED <<chainVars, ipv4, free, rx, rx_q, nfVars, visits, raced>>
RxHand ==
    /\ rx_step = "hand" /\ rx_step' = "act"
    /\ rx' = {}
    /\ \E m \in rx :
          IF meta[m].dst \in Types
          THEN /\ rx_q' = [rx_q EXCEPT ![meta[m].dst] = Append(@, m)]
               /\ UNCHANGED free
          ELSE free' = free \cup {m} /\ UNCHANGED rx_q
    /\ UNCHANGED <<chainVars, meta, ipv4, nfVars, visits, raced>>
Rx == RxAct \/ RxDst \/ RxIndex \/ RxHand

-----------------------------------------------------------------------------
(* d2sc_nfrt_dequeue_pkts: a burst, and the handler on each packet of it. *)
Poll(t) ==
    LET n == Min({Len(rx_q[t]), PKT_RD_SIZE})
        burst == SubSeq(rx_q[t], 1, n)
    IN  /\ step[t] = "poll" /\ n > 0
        /\ rx_q' = [rx_q EXCEPT ![t] = SubSeq(@, n + 1, Len(@))]
        /\ batch' = [batch EXCEPT ![t] = burst]
        /\ step' = [step EXCEPT ![t] = "look"]
        /\ \E act \in [ToSet(burst) -> {NEXT, DROP}] :
              meta' = [m \in Mbufs |->
                         IF m \in ToSet(burst)
                         THEN [meta[m] EXCEPT !.act = act[m]] ELSE meta[m]]
        /\ visits' = [m \in Mbufs |->
                         IF m \in ToSet(burst) /\ Len(visits[m]) <= Len(Chain)
                         THEN Append(visits[m], t) ELSE visits[m]]
        /\ UNCHANGED <<chainVars, ipv4, free, rx, rx_step, rx_bufs, raced>>

(* d2sc_pkt_process_tx_batch and d2sc_pkt_process_next_act, a packet at a time.
   "count" is the last step of a packet: its sc_index is raised when it may be
   in other hands already, or in no one's. *)
HasPacket(t, s) == step[t] = s /\ batch[t] # <<>>
Discard(t) ==
    /\ HasPacket(t, "look") /\ meta[Head(batch[t])].act = DROP
    /\ free' = free \cup {Head(batch[t])}
    /\ batch' = [batch EXCEPT ![t] = Tail(@)]
    /\ UNCHANGED <<chainVars, meta, ipv4, rx, rx_step, rx_q, step, rx_bufs,
                   visits, raced>>
Look(t) ==
    /\ HasPacket(t, "look") /\ meta[Head(batch[t])].act = NEXT
    /\ IF LookupCrashes(Head(batch[t]))
       THEN step' = [step EXCEPT ![t] = "crashed"] /\ UNCHANGED meta
       ELSE step' = [step EXCEPT ![t] = "dst"] /\ ReadAct(Head(batch[t]))
    /\ UNCHANGED <<chainVars, ipv4, free, rx, rx_step, rx_q, batch, rx_bufs,
                   visits, raced>>
LookDst(t) ==
    /\ HasPacket(t, "dst")
    /\ step' = [step EXCEPT ![t] = "hand"]
    /\ ReadDst(Head(batch[t]))
    /\ UNCHANGED <<chainVars, ipv4, free, rx, rx_step, rx_q, batch, rx_bufs,
                   visits, raced>>

(* d2sc_pkt_drop for a DROP, and for a type that no NF has *)
HandToNobody(t, m) ==
    /\ meta[m].act = DROP \/ (meta[m].act = TONF /\ meta[m].dst \notin Types)
    /\ free' = free \cup {m}
    /\ step' = [step EXCEPT ![t] = "count"]
    /\ UNCHANGED <<rx_q, rx_bufs, raced>>
(* d2sc_pkt_enqueue_bq, which flushes a buffer that is full. *)
HandToNf(t, m) ==
    LET u == meta[m].dst
        buf == Append(rx_bufs[t][u], m)
    IN  /\ meta[m].act = TONF /\ u \in Types
        /\ IF Len(buf) = PKT_RD_SIZE
           THEN /\ rx_q' = [rx_q EXCEPT ![u] = @ \o buf]
                /\ rx_bufs' = [rx_bufs EXCEPT ![t][u] = <<>>]
                /\ raced' = raced \cup {m}
           ELSE /\ rx_bufs' = [rx_bufs EXCEPT ![t][u] = buf]
                /\ UNCHANGED <<rx_q, raced>>
        /\ step' = [step EXCEPT ![t] = "count"]
        /\ UNCHANGED free
(* d2sc_pkt_enqueue_port needs the tx_thread that only the manager has. *)
HandToPort(t, m) ==
    /\ meta[m].act = OUT
    /\ step' = [step EXCEPT ![t] = "crashed"]
    /\ UNCHANGED <<free, rx_q, rx_bufs, raced>>
Hand(t) ==
    /\ HasPacket(t, "hand")
    /\ LET m == Head(batch[t])
       IN  HandToNobody(t, m) \/ HandToNf(t, m) \/ HandToPort(t, m)
    /\ UNCHANGED <<chainVars, meta, ipv4, rx, rx_step, batch, visits>>

InOwnBuffer(t, m) == \E u \in Types : m \in ToSet(rx_bufs[t][u])
CountNot(t) ==         \* mutant: the packet stays where it is in the chain
    /\ HasPacket(t, "count")
    /\ step' = [step EXCEPT ![t] = "look"]
    /\ batch' = [batch EXCEPT ![t] = Tail(@)]
    /\ UNCHANGED <<chainVars, meta, ipv4, free, rx, rx_step, rx_q, rx_bufs,
                   visits, raced>>
Count(t) ==
    LET m == Head(batch[t])
    IN  /\ HasPacket(t, "count")
        /\ meta' = [meta EXCEPT ![m].sc_index = @ + 1]
        /\ step' = [step EXCEPT ![t] = "look"]
        /\ batch' = [batch EXCEPT ![t] = Tail(@)]
        /\ raced' = IF m \in free \/ InOwnBuffer(t, m) THEN raced
                    ELSE raced \cup {m}
        /\ UNCHANGED <<chainVars, ipv4, free, rx, rx_step, rx_q, rx_bufs, visits>>

(* d2sc_pkt_flush_all_bqs, at the end of the burst. *)
Flush(t) ==
    /\ step[t] = "look" /\ batch[t] = <<>>
    /\ step' = [step EXCEPT ![t] = "poll"]
    /\ rx_q' = [u \in Types |-> rx_q[u] \o rx_bufs[t][u]]
    /\ rx_bufs' = [rx_bufs EXCEPT ![t] = [u \in Types |-> <<>>]]
    /\ UNCHANGED <<chainVars, meta, ipv4, free, rx, rx_step, batch, visits, raced>>

Nf(t) ==
    \/ Poll(t) \/ Discard(t) \/ Look(t) \/ LookDst(t)
    \/ Hand(t) \/ Count(t) \/ Flush(t)
Next ==
    \/ MergeEntry \/ Rx
    \/ \E m \in Mbufs, is_ipv4 \in BOOLEAN : Arrive(m, is_ipv4)
    \/ \E t \in Types : Nf(t)

(* The threads poll for ever; packets need not come. *)
Spec == Init /\ [][Next]_vars
FairSpec == Spec /\ WF_vars(Rx) /\ \A t \in Types : WF_vars(Nf(t))

-----------------------------------------------------------------------------
(* Every variable has its type; a packet is counted at most once by the RX
   thread and by each NF of its way, and once by each NF that holds it when it
   is freed (d2sc_pkt_process.c:68, :284). *)
TypeOK ==
    /\ sc_entry \in [Entries -> [act : {DROP, TONF, OUT}, dst : Types \cup {0}]]
    /\ sc_len \in 1 .. D2SC_MAX_SC_LEN - 1
    /\ merging \in {"call", "act", "dst"} /\ merged \in 0 .. Len(Additions)
    /\ meta \in [Mbufs ->
           [act : {DROP, NEXT, TONF, OUT}, dst : Types \cup {0},
            sc_index : 0 .. Len(Chain) + Cardinality(Types) + 1]]
    /\ ipv4 \in [Mbufs -> BOOLEAN]
    /\ free \subseteq Mbufs
    /\ rx \subseteq Mbufs /\ rx_step \in {"act", "dst", "index", "hand"}
    /\ rx_q \in [Types -> Seq(Mbufs)]
    /\ step \in [Types -> {"poll", "look", "dst", "hand", "count", "crashed"}]
    /\ batch \in [Types -> Seq(Mbufs)]
    /\ rx_bufs \in [Types -> [Types -> Seq(Mbufs)]]
    /\ visits \in [Mbufs -> Seq(Types)]
    /\ raced \subseteq Mbufs

(* A packet meets the NFs of the chain in their order and none twice, also while
   the chain is extended, unless it was handed on before it was counted
   (d2sc_sc.c:64-79, :99-115, d2sc_pkt_process.c:56-69, :252-285). *)
InChainOrder ==
    \A m \in Mbufs \ (free \cup raced) : IsPrefix(visits[m], Chain)

(* Every packet leaves, those that were not counted in time too, or an NF of
   its way has crashed. *)
Leaves ==
    \A m \in Mbufs :
        m \notin free ~> m \in free \/ \E t \in Types : step[t] = "crashed"
=============================================================================
