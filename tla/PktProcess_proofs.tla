-------------------------- MODULE PktProcess_proofs --------------------------
(***************************************************************************)
(* Theorems about PktProcess, for any number of packets, NFs, types and TX  *)
(* threads, any handlers and any ring size.  The types come first; then      *)
(* that a packet has one holder, which holds it once (PlacesInv), and from   *)
(* it that it is in one place; then that what waits somewhere is meant for   *)
(* there (WaysInv); that the TX threads share out the ids; and that a flow   *)
(* leaves in the order it came.                                              *)
(***************************************************************************)
EXTENDS PktProcess, DataLemmas, SequenceTheorems

(* The first n elements of a sequence, and the others. *)
LEMMA Parts ==
    ASSUME NEW S, NEW s \in Seq(S), NEW n \in Nat
    PROVE  /\ Upto(s, n) \in Seq(S) /\ After(s, n) \in Seq(S)
           /\ Len(Upto(s, n)) = Least(n, Len(s))
           /\ Len(After(s, n)) = IF n <= Len(s) THEN Len(s) - n ELSE 0
           /\ \A j \in 1 .. Len(Upto(s, n)) : Upto(s, n)[j] = s[j]
           /\ \A j \in 1 .. Len(After(s, n)) : After(s, n)[j] = s[j + n]
  <1>1. Len(s) \in Nat /\ Least(n, Len(s)) \in 0 .. Len(s)
        BY DEF Least
  <1>2. /\ Upto(s, n) \in Seq(S) /\ Len(Upto(s, n)) = Least(n, Len(s))
        /\ \A j \in 1 .. Len(Upto(s, n)) : Upto(s, n)[j] = s[j]
        BY <1>1 DEF Upto
  <1>3. CASE n <= Len(s)
    <2>1. n + 1 \in 1 .. Len(s) + 1
          BY <1>1, <1>3
    <2>. QED BY <1>1, <1>2, <1>3, <2>1 DEF After
  <1>4. CASE ~(n <= Len(s))
    <2>1. After(s, n) = << >>
          BY <1>1, <1>4 DEF After
    <2>. QED BY <1>1, <1>2, <1>4, <2>1
  <1>. QED BY <1>3, <1>4

-----------------------------------------------------------------------------
(* TypeOK in the groups of variables that an action leaves alone together. *)
LifeTypes ==
    /\ state \in [Ids -> {"NULL", "RUNNING", "BLOCKED", "STOPPED"}]
    /\ bk_flag \in [Ids -> {0, 2}]
    /\ nts \in [NTs -> Seq(NfIds)]
    /\ pc \in [NfIds -> {"none", "run", "quit", "dead"}] /\ ran \subseteq NfIds
PktTypes ==
    /\ arrived \in 0 .. PKTS /\ sent \in Seq(Pkts)
    /\ freed \subseteq Pkts /\ lost \subseteq Pkts
    /\ meta \in [Pkts -> Acts]
RingType(q) == /\ q \in [Ids -> Seq(Pkts)]
               /\ \A id \in Ids : Len(q[id]) < NF_RING_SIZE
SenderTypes ==
    /\ busy \in [Ids -> BOOLEAN] /\ hand \in [Ids -> Seq(Pkts)]
    /\ rx_bufs \in [Ids -> [Ids -> Seq(Pkts)]] /\ full \in [Ids -> Ids]
    /\ tx_buf \in [NfIds -> Seq(Pkts)]
TxTypes ==
    /\ tx_hand \in [TxIds -> Seq(Pkts)] /\ port_buf \in [TxIds -> Seq(Pkts)]

(* The groups are TypeOK. *)
LEMMA TypeParts ==
    /\ TypeOK => /\ LifeTypes /\ PktTypes /\ RingType(rx_q) /\ RingType(tx_q)
                 /\ SenderTypes /\ TxTypes
    /\ LifeTypes' /\ PktTypes' /\ RingType(rx_q)' /\ RingType(tx_q)' /\ SenderTypes'
          /\ TxTypes' => TypeOK'
  BY DEF TypeOK, LifeTypes, PktTypes, RingType, SenderTypes, TxTypes

(* A group that a step leaves alone keeps its types. *)
LEMMA TypesStay ==
    /\ LifeTypes /\ UNCHANGED nfTable => LifeTypes'
    /\ PktTypes /\ UNCHANGED <<arrived, sent, freed, lost, meta>> => PktTypes'
    /\ RingType(rx_q) /\ UNCHANGED rx_q => RingType(rx_q)'
    /\ RingType(tx_q) /\ UNCHANGED tx_q => RingType(tx_q)'
    /\ SenderTypes /\ UNCHANGED senders => SenderTypes'
    /\ TxTypes /\ UNCHANGED txThreads => TxTypes'
  BY DEF LifeTypes, PktTypes, RingType, SenderTypes, TxTypes, nfTable, senders, txThreads

(* What the assumptions say of the constants. *)
LEMMA IdFacts ==
    /\ MAX_NFS \in Nat /\ MAX_NFS > 1 /\ PKTS \in Nat
    /\ 0 \in Ids /\ NfIds \subseteq Ids /\ Ids \subseteq Nat
    /\ PKT_RD_SIZE \in Nat \ {0} /\ NF_RING_SIZE \in Nat \ {0}
    /\ 1 \in NTs /\ TypeOf \in [NfIds -> NTs]
  BY SizesAssumption, RolesAssumption DEF Ids, NfIds

(* A packet is put into a buffer, or freed. *)
LEMMA TypeEnqueue ==
    ASSUME TypeOK, NEW th \in Ids, NEW p \in Pkts, NEW t, EnqueueBq(th, p, t)
    PROVE  /\ freed' \subseteq Pkts /\ full' \in [Ids -> Ids]
           /\ rx_bufs' \in [Ids -> [Ids -> Seq(Pkts)]]
  <1>1. PICK id \in Ids :
            IF id = 0 \/ ~IsValid(id)
            THEN freed' = freed \cup {p} /\ UNCHANGED <<rx_bufs, full>>
            ELSE /\ rx_bufs' = [rx_bufs EXCEPT ![th][id] = Append(@, p)]
                 /\ full' = [full EXCEPT ![th] =
                      IF Len(rx_bufs[th][id]) + 1 = PKT_RD_SIZE THEN id ELSE 0]
                 /\ UNCHANGED freed
        BY DEF EnqueueBq
  <1>2. /\ rx_bufs \in [Ids -> [Ids -> Seq(Pkts)]] /\ full \in [Ids -> Ids]
        /\ freed \subseteq Pkts
        BY DEF TypeOK
  <1>3. Append(rx_bufs[th][id], p) \in Seq(Pkts)
        BY <1>2
  <1> DEFINE new == Append(rx_bufs[th][id], p)
             at == IF Len(rx_bufs[th][id]) + 1 = PKT_RD_SIZE THEN id ELSE 0
  <1>4. at \in Ids
        BY IdFacts
  <1>5. \/ freed' = freed \cup {p} /\ UNCHANGED <<rx_bufs, full>>
        \/ /\ rx_bufs' = [rx_bufs EXCEPT ![th][id] = new] /\ UNCHANGED freed
           /\ full' = [full EXCEPT ![th] = at]
        BY <1>1
  <1> HIDE DEF new, at
  <1>6. [rx_bufs EXCEPT ![th][id] = new] \in [Ids -> [Ids -> Seq(Pkts)]]
        BY <1>2, <1>3 DEF new
  <1>7. CASE freed' = freed \cup {p} /\ UNCHANGED <<rx_bufs, full>>
        BY <1>2, <1>7
  <1>8. CASE /\ rx_bufs' = [rx_bufs EXCEPT ![th][id] = new] /\ UNCHANGED freed
             /\ full' = [full EXCEPT ![th] = at]
    <2>1. full' \in [Ids -> Ids]
          BY <1>2, <1>4, <1>8
    <2>. QED BY <1>2, <1>6, <1>8, <2>1
  <1>. QED BY <1>5, <1>7, <1>8

(* Buffers are flushed to the rings they fit in. *)
LEMMA TypeFlush ==
    ASSUME TypeOK, NEW th \in Ids, NEW ids \in SUBSET Ids, Flush(th, ids)
    PROVE  /\ RingType(rx_q)' /\ freed' \subseteq Pkts
           /\ rx_bufs' \in [Ids -> [Ids -> Seq(Pkts)]]
  <1> DEFINE go == {id \in ids : IsValid(id)}
  <1>1. /\ rx_q' = [id \in Ids |-> IF id \in go /\ Fits(th, id)
                                   THEN rx_q[id] \o rx_bufs[th][id] ELSE rx_q[id]]
        /\ freed' = freed \cup UNION {ToSet(rx_bufs[th][id]) :
                                         id \in {j \in go : ~Fits(th, j)}}
        /\ rx_bufs' = [rx_bufs EXCEPT ![th] =
                          [id \in Ids |-> IF id \in go THEN <<>> ELSE @[id]]]
        BY DEF Flush
  <1>2. /\ rx_bufs \in [Ids -> [Ids -> Seq(Pkts)]] /\ freed \subseteq Pkts
        /\ rx_q \in [Ids -> Seq(Pkts)] /\ \A id \in Ids : Len(rx_q[id]) < NF_RING_SIZE
        BY DEF TypeOK
  <1>3. ASSUME NEW id \in Ids
        PROVE  /\ rx_q[id] \o rx_bufs[th][id] \in Seq(Pkts)
               /\ Len(rx_q[id] \o rx_bufs[th][id]) = Len(rx_q[id]) + Len(rx_bufs[th][id])
        BY <1>2, ConcatParts
  <1> HIDE DEF go
  <1>4. ASSUME NEW id \in Ids
        PROVE  rx_q'[id] \in Seq(Pkts) /\ Len(rx_q'[id]) < NF_RING_SIZE
        BY <1>1, <1>2, <1>3 DEF Fits
  <1>5. RingType(rx_q)'
        BY <1>1, <1>4 DEF RingType
  <1>6. \A id \in Ids : ToSet(rx_bufs[th][id]) \subseteq Pkts
        BY <1>2, SetOf
  <1>7. freed' \subseteq Pkts
        BY <1>1, <1>2, <1>6 DEF go
  <1>8. rx_bufs' \in [Ids -> [Ids -> Seq(Pkts)]]
        BY <1>1, <1>2
  <1>. QED BY <1>5, <1>7, <1>8

(* The RX thread. *)
LEMMA TypeRx ==
    ASSUME TypeOK, (\E n \in 1 .. PKT_RD_SIZE : RxBurst(n)) \/ RxPacket \/ RxFlush
    PROVE  TypeOK'
  <1>1. /\ LifeTypes /\ PktTypes /\ RingType(rx_q) /\ RingType(tx_q)
        /\ SenderTypes /\ TxTypes
        BY TypeParts
  <1>2. ASSUME NEW n \in 1 .. PKT_RD_SIZE, RxBurst(n) PROVE TypeOK'
    <2>1. arrived' \in 0 .. PKTS
          BY <1>1, <1>2, IdFacts DEF RxBurst, PktTypes
    <2>2. arrived + 1 .. arrived + n \subseteq Pkts
          BY <1>1, <1>2, IdFacts DEF RxBurst, PktTypes, Pkts
    <2>3. [j \in 1 .. n |-> arrived + j] \in Seq(Pkts)
      <3>1. n \in Nat /\ \A j \in 1 .. n : arrived + j \in Pkts
            BY <1>1, <1>2, <2>2, IdFacts DEF PktTypes
      <3>. QED BY <3>1, IsASeq
    <2> DEFINE burst == [j \in 1 .. n |-> arrived + j]
    <2>4. PktTypes'
          BY <1>1, <1>2, <2>1, <2>2 DEF RxBurst, PktTypes
    <2>5. \/ UNCHANGED <<busy, hand>>
          \/ busy' = [busy EXCEPT ![0] = TRUE] /\ hand' = [hand EXCEPT ![0] = burst]
          BY <1>2 DEF RxBurst, Rx
    <2> HIDE DEF burst
    <2>6. busy' \in [Ids -> BOOLEAN]
          BY <1>1, <2>5 DEF SenderTypes
    <2>7. hand' \in [Ids -> Seq(Pkts)]
          BY <1>1, <2>3, <2>5 DEF SenderTypes, burst
    <2>8. SenderTypes'
          BY <1>1, <1>2, <2>6, <2>7 DEF RxBurst, SenderTypes
    <2>. QED BY <1>1, <1>2, <2>4, <2>8, TypeParts, TypesStay DEF RxBurst, rings
  <1>3. CASE RxPacket
    <2>1. hand[0] \in Seq(Pkts) /\ hand[0] # <<>>
          BY <1>1, <1>3, IdFacts DEF RxPacket, HasNext, SenderTypes, Rx
    <2>2. Head(hand[0]) \in Pkts /\ Tail(hand[0]) \in Seq(Pkts)
          BY <2>1, HeadTail
    <2>3. /\ freed' \subseteq Pkts /\ full' \in [Ids -> Ids]
          /\ rx_bufs' \in [Ids -> [Ids -> Seq(Pkts)]]
          BY <1>3, <2>2, IdFacts, TypeEnqueue DEF RxPacket, Rx
    <2>4. PktTypes'
          BY <1>1, <1>3, <2>3, IdFacts DEF RxPacket, PktTypes, Acts
    <2>5. SenderTypes'
          BY <1>1, <1>3, <2>2, <2>3, IdFacts DEF RxPacket, SenderTypes, Rx
    <2>. QED BY <1>1, <1>3, <2>4, <2>5, TypeParts, TypesStay DEF RxPacket, rings
  <1>4. CASE RxFlush
    <2>1. /\ RingType(rx_q)' /\ freed' \subseteq Pkts
          /\ rx_bufs' \in [Ids -> [Ids -> Seq(Pkts)]]
          BY <1>4, IdFacts, TypeFlush DEF RxFlush, Rx
    <2>2. PktTypes' /\ SenderTypes'
          BY <1>1, <1>4, <2>1 DEF RxFlush, PktTypes, SenderTypes
    <2>. QED BY <1>1, <1>4, <2>1, <2>2, TypeParts, TypesStay DEF RxFlush
  <1>. QED BY <1>2, <1>3, <1>4

(* A full buffer is flushed. *)
LEMMA TypeFlushFull ==
    ASSUME TypeOK, NEW th \in Ids, FlushFull(th)
    PROVE  TypeOK'
  <1>1. /\ LifeTypes /\ PktTypes /\ RingType(rx_q) /\ RingType(tx_q)
        /\ SenderTypes /\ TxTypes
        BY TypeParts
  <1>2. {full[th]} \in SUBSET Ids
        BY <1>1 DEF SenderTypes
  <1>3. /\ RingType(rx_q)' /\ freed' \subseteq Pkts
        /\ rx_bufs' \in [Ids -> [Ids -> Seq(Pkts)]]
        BY <1>2, TypeFlush DEF FlushFull
  <1>4. PktTypes' /\ SenderTypes'
        BY <1>1, <1>3, IdFacts DEF FlushFull, PktTypes, SenderTypes
  <1>. QED BY <1>1, <1>3, <1>4, TypeParts, TypesStay DEF FlushFull

(* A buffer goes to the ring of the TX thread, or back to the pool. *)
LEMMA TypeTxRing ==
    ASSUME TypeOK, NEW id \in NfIds, NEW buf \in Seq(Pkts), EnqueueTxRing(id, buf)
    PROVE  /\ RingType(tx_q)' /\ freed' \subseteq Pkts
           /\ tx_buf' \in [NfIds -> Seq(Pkts)]
  <1>1. /\ tx_buf \in [NfIds -> Seq(Pkts)] /\ freed \subseteq Pkts
        /\ tx_q \in [Ids -> Seq(Pkts)] /\ \A j \in Ids : Len(tx_q[j]) < NF_RING_SIZE
        BY DEF TypeOK
  <1>2. /\ tx_q[id] \o buf \in Seq(Pkts)
        /\ Len(tx_q[id] \o buf) = Len(tx_q[id]) + Len(buf)
        BY <1>1, IdFacts, ConcatParts
  <1>3. ToSet(buf) \subseteq Pkts
        BY SetOf
  <1>4. \/ tx_q' = [tx_q EXCEPT ![id] = @ \o buf] /\ UNCHANGED freed
           /\ Len(tx_q[id]) + Len(buf) < NF_RING_SIZE
        \/ freed' = freed \cup ToSet(buf) /\ UNCHANGED tx_q
        BY DEF EnqueueTxRing
  <1>5. freed' \subseteq Pkts
        BY <1>1, <1>3, <1>4
  <1>6. RingType(tx_q)'
        BY <1>1, <1>2, <1>4, IdFacts DEF RingType
  <1>7. tx_buf' \in [NfIds -> Seq(Pkts)]
        BY <1>1 DEF EnqueueTxRing
  <1>. QED BY <1>5, <1>6, <1>7

(* An NF. *)
LEMMA TypeNf ==
    ASSUME TypeOK, NEW id \in NfIds, NfStep(id)
    PROVE  TypeOK'
  <1>1. /\ LifeTypes /\ PktTypes /\ RingType(rx_q) /\ RingType(tx_q)
        /\ SenderTypes /\ TxTypes /\ id \in Ids
        BY TypeParts, IdFacts
  <1>2. CASE NfDequeue(id)
    <2> DEFINE pkts == Upto(rx_q[id], PKT_RD_SIZE)
               rest == After(rx_q[id], Len(pkts))
    <2>1. rx_q[id] \in Seq(Pkts) /\ Len(rx_q[id]) < NF_RING_SIZE
          BY <1>1 DEF RingType
    <2>2. pkts \in Seq(Pkts) /\ Len(pkts) \in Nat
          BY <2>1, IdFacts, Parts
    <2>3. rest \in Seq(Pkts) /\ Len(rest) <= Len(rx_q[id])
      <3> HIDE DEF pkts
      <3>. QED BY <2>1, <2>2, Parts
    <2>4. PICK decide \in [ToSet(pkts) -> Handler[TypeOf[id]]] :
              meta' = [p \in Pkts |-> IF p \in ToSet(pkts) THEN decide[p] ELSE meta[p]]
          BY <1>2 DEF NfDequeue
    <2>5. /\ hand' = [hand EXCEPT ![id] = pkts] /\ rx_q' = [rx_q EXCEPT ![id] = rest]
          /\ busy' = [busy EXCEPT ![id] = TRUE]
          /\ UNCHANGED <<nfTable, arrived, sent, freed, lost, tx_q, rx_bufs, full,
                         tx_buf, txThreads>>
          BY <1>2 DEF NfDequeue
    <2>6. Handler[TypeOf[id]] \subseteq Acts
          BY RolesAssumption
    <2> HIDE DEF pkts, rest
    <2>7. PktTypes'
          BY <1>1, <2>4, <2>5, <2>6 DEF PktTypes
    <2>8. SenderTypes' /\ RingType(rx_q)'
      <3>1. SenderTypes'
            BY <1>1, <2>2, <2>5, IdFacts DEF SenderTypes
      <3>2. RingType(rx_q)'
            BY <1>1, <2>1, <2>3, <2>5, IdFacts DEF RingType
      <3>. QED BY <3>1, <3>2
    <2>. QED BY <1>1, <2>5, <2>7, <2>8, TypeParts, TypesStay
  <1>3. CASE NfPacket(id)
    <2> DEFINE p == Head(hand[id])
               buf == Append(tx_buf[id], p)
    <2>1. hand[id] \in Seq(Pkts) /\ hand[id] # <<>> /\ tx_buf[id] \in Seq(Pkts)
          BY <1>1, <1>3 DEF NfPacket, HasNext, SenderTypes
    <2>2. p \in Pkts /\ Tail(hand[id]) \in Seq(Pkts)
          BY <2>1, HeadTail
    <2>3. buf \in Seq(Pkts)
          BY <2>1, <2>2
    <2>4. /\ hand' = [hand EXCEPT ![id] = Tail(@)]
          /\ UNCHANGED <<nfTable, arrived, sent, lost, meta, rx_q, busy, txThreads>>
          BY <1>3 DEF NfPacket
    <2>5. \/ freed' = freed \cup {p} /\ UNCHANGED <<rx_bufs, full, tx_buf, tx_q>>
          \/ EnqueueBq(id, p, meta[p].dst) /\ UNCHANGED <<tx_buf, tx_q>>
          \/ EnqueueTxRing(id, buf) /\ UNCHANGED <<rx_bufs, full>>
          \/ /\ tx_buf' = [tx_buf EXCEPT ![id] = buf]
             /\ UNCHANGED <<tx_q, freed, rx_bufs, full>>
          BY <1>3 DEF NfPacket
    <2> HIDE DEF p, buf
    <2>6. /\ RingType(tx_q)' /\ freed' \subseteq Pkts
          /\ tx_buf' \in [NfIds -> Seq(Pkts)] /\ full' \in [Ids -> Ids]
          /\ rx_bufs' \in [Ids -> [Ids -> Seq(Pkts)]]
      <3>1. CASE freed' = freed \cup {p} /\ UNCHANGED <<rx_bufs, full, tx_buf, tx_q>>
            BY <1>1, <2>2, <3>1, TypesStay DEF SenderTypes, PktTypes
      <3>2. CASE EnqueueBq(id, p, meta[p].dst) /\ UNCHANGED <<tx_buf, tx_q>>
            BY <1>1, <2>2, <3>2, TypeEnqueue, TypesStay DEF SenderTypes
      <3>3. CASE EnqueueTxRing(id, buf) /\ UNCHANGED <<rx_bufs, full>>
            BY <1>1, <2>3, <3>3, TypeTxRing DEF SenderTypes
      <3>4. CASE /\ tx_buf' = [tx_buf EXCEPT ![id] = buf]
                 /\ UNCHANGED <<tx_q, freed, rx_bufs, full>>
            BY <1>1, <2>3, <3>4, TypesStay DEF SenderTypes, PktTypes
      <3>. QED BY <2>5, <3>1, <3>2, <3>3, <3>4
    <2>7. PktTypes' /\ SenderTypes'
          BY <1>1, <2>2, <2>4, <2>6 DEF PktTypes, SenderTypes
    <2>. QED BY <1>1, <2>4, <2>6, <2>7, TypeParts, TypesStay
  <1>4. CASE NfFlushTx(id)
    <2>1. tx_buf[id] \in Seq(Pkts) /\ EnqueueTxRing(id, tx_buf[id])
          BY <1>1, <1>4 DEF NfFlushTx, SenderTypes
    <2>2. /\ RingType(tx_q)' /\ freed' \subseteq Pkts
          /\ tx_buf' \in [NfIds -> Seq(Pkts)]
          BY <2>1, TypeTxRing
    <2>3. PktTypes' /\ SenderTypes'
          BY <1>1, <1>4, <2>2 DEF NfFlushTx, PktTypes, SenderTypes
    <2>. QED BY <1>1, <1>4, <2>2, <2>3, TypeParts, TypesStay DEF NfFlushTx
  <1>5. CASE NfFlush(id)
    <2>1. /\ RingType(rx_q)' /\ freed' \subseteq Pkts
          /\ rx_bufs' \in [Ids -> [Ids -> Seq(Pkts)]]
          BY <1>1, <1>5, TypeFlush DEF NfFlush
    <2>2. PktTypes' /\ SenderTypes'
          BY <1>1, <1>5, <2>1 DEF NfFlush, PktTypes, SenderTypes
    <2>. QED BY <1>1, <1>5, <2>1, <2>2, TypeParts, TypesStay DEF NfFlush
  <1>. QED BY <1>1, <1>2, <1>3, <1>4, <1>5, TypeFlushFull DEF NfStep

(* The port takes some packets and the rest is dropped. *)
LEMMA TypeFlushPort ==
    ASSUME TypeOK, NEW k \in TxIds, NEW buf \in Seq(Pkts), FlushPort(k, buf)
    PROVE  /\ sent' \in Seq(Pkts) /\ freed' \subseteq Pkts
           /\ port_buf' \in [TxIds -> Seq(Pkts)]
  <1>1. /\ port_buf \in [TxIds -> Seq(Pkts)] /\ freed \subseteq Pkts
        /\ sent \in Seq(Pkts)
        BY DEF TypeOK
  <1>2. PICK n \in 0 .. Len(buf) : /\ sent' = sent \o SubSeq(buf, 1, n)
                                   /\ freed' = freed \cup ToSet(After(buf, n))
        BY DEF FlushPort
  <1>3. n \in Nat /\ SubSeq(buf, 1, n) \in Seq(Pkts)
        BY <1>2
  <1>4. sent' \in Seq(Pkts)
        BY <1>1, <1>2, <1>3, ConcatParts
  <1>5. ToSet(After(buf, n)) \subseteq Pkts
        BY <1>3, Parts, SetOf
  <1>. QED BY <1>1, <1>2, <1>4, <1>5 DEF FlushPort

(* A TX thread. *)
LEMMA TypeTx ==
    ASSUME TypeOK, NEW k \in TxIds, TxStep(k)
    PROVE  TypeOK'
  <1>1. /\ LifeTypes /\ PktTypes /\ RingType(rx_q) /\ RingType(tx_q)
        /\ SenderTypes /\ TxTypes
        BY TypeParts
  <1>2. ASSUME NEW id \in NfIds, TxDequeue(k, id) PROVE TypeOK'
    <2>1. tx_q[id] \in Seq(Pkts) /\ Len(tx_q[id]) < NF_RING_SIZE
          BY <1>1, IdFacts DEF RingType
    <2>2. /\ Upto(tx_q[id], PKT_RD_SIZE) \in Seq(Pkts)
          /\ After(tx_q[id], PKT_RD_SIZE) \in Seq(Pkts)
          /\ Len(After(tx_q[id], PKT_RD_SIZE)) <= Len(tx_q[id])
          BY <2>1, IdFacts, Parts
    <2>3. RingType(tx_q)' /\ TxTypes'
          BY <1>1, <1>2, <2>1, <2>2, IdFacts DEF TxDequeue, RingType, TxTypes
    <2>. QED BY <1>1, <1>2, <2>3, TypeParts, TypesStay DEF TxDequeue
  <1>3. CASE TxPacket(k)
    <2> DEFINE buf == Append(port_buf[k], Head(tx_hand[k]))
    <2>1. tx_hand[k] \in Seq(Pkts) /\ tx_hand[k] # <<>> /\ port_buf[k] \in Seq(Pkts)
          BY <1>1, <1>3 DEF TxPacket, TxTypes
    <2>2. buf \in Seq(Pkts) /\ Tail(tx_hand[k]) \in Seq(Pkts)
          BY <2>1, HeadTail
    <2>3. /\ tx_hand' = [tx_hand EXCEPT ![k] = Tail(@)]
          /\ \/ FlushPort(k, buf)
             \/ port_buf' = [port_buf EXCEPT ![k] = buf] /\ UNCHANGED <<sent, freed>>
          /\ UNCHANGED <<nfTable, arrived, lost, meta, rings, senders>>
          BY <1>3 DEF TxPacket
    <2> HIDE DEF buf
    <2>4. /\ sent' \in Seq(Pkts) /\ freed' \subseteq Pkts
          /\ port_buf' \in [TxIds -> Seq(Pkts)]
          BY <1>1, <2>2, <2>3, TypeFlushPort DEF PktTypes, TxTypes
    <2>5. PktTypes' /\ TxTypes'
          BY <1>1, <2>2, <2>3, <2>4 DEF PktTypes, TxTypes
    <2>. QED BY <1>1, <2>3, <2>5, TypeParts, TypesStay DEF rings
  <1>4. CASE TxFlush(k)
    <2>1. /\ sent' \in Seq(Pkts) /\ freed' \subseteq Pkts
          /\ port_buf' \in [TxIds -> Seq(Pkts)]
          BY <1>1, <1>4, TypeFlushPort DEF TxFlush, TxTypes
    <2>2. PktTypes' /\ TxTypes'
          BY <1>1, <1>4, <2>1 DEF TxFlush, PktTypes, TxTypes
    <2>. QED BY <1>1, <1>4, <2>2, TypeParts, TypesStay DEF TxFlush, rings
  <1>. QED BY <1>2, <1>3, <1>4 DEF TxStep

(* What a process has is lost with it. *)
LEMMA TypeVanish ==
    ASSUME TypeOK, NEW id \in NfIds, Vanish(id)
    PROVE  /\ pc' \in [NfIds -> {"none", "run", "quit", "dead"}]
           /\ lost' \subseteq Pkts /\ SenderTypes'
  <1>1. LifeTypes /\ PktTypes /\ SenderTypes /\ id \in Ids
        BY TypeParts, IdFacts
  <1>2. /\ ToSet(hand[id]) \subseteq Pkts /\ ToSet(tx_buf[id]) \subseteq Pkts
        /\ \A j \in Ids : ToSet(rx_bufs[id][j]) \subseteq Pkts
        BY <1>1, SetOf DEF SenderTypes
  <1>3. Contents(rx_bufs[id]) \subseteq Pkts
        BY <1>2 DEF Contents
  <1>4. <<>> \in Seq(Pkts)
        OBVIOUS
  <1>5. SenderTypes'
        BY <1>1, <1>4, IdFacts DEF Vanish, SenderTypes
  <1>6. lost' \subseteq Pkts
        BY <1>1, <1>2, <1>3 DEF Vanish, PktTypes
  <1>. QED BY <1>1, <1>5, <1>6 DEF Vanish, LifeTypes

(* The life cycle of an NF. *)
LEMMA TypeLife ==
    ASSUME TypeOK, NEW id \in NfIds, Life(id)
    PROVE  TypeOK'
  <1>1. /\ LifeTypes /\ PktTypes /\ RingType(rx_q) /\ RingType(tx_q)
        /\ SenderTypes /\ TxTypes /\ id \in Ids
        /\ TypeOf[id] \in NTs
        BY TypeParts, IdFacts
  <1>2. CASE NfReady(id)
    <2>1. Append(nts[TypeOf[id]], id) \in Seq(NfIds)
          BY <1>1 DEF LifeTypes
    <2>2. LifeTypes'
          BY <1>1, <1>2, <2>1 DEF NfReady, LifeTypes
    <2>. QED BY <1>1, <1>2, <2>2, TypeParts, TypesStay DEF NfReady, rings
  <1>3. CASE Handshake(id)
    <2>1. LifeTypes'
          BY <1>1, <1>3 DEF Handshake, Blocked, FlagBlocked, RunsAgain, FlagRuns,
                            LifeTypes
    <2>. QED BY <1>1, <1>3, <2>1, TypeParts, TypesStay DEF Handshake, rings
  <1>4. CASE Signal(id)
    <2>1. LifeTypes'
          BY <1>1, <1>4 DEF Signal, LifeTypes
    <2>. QED BY <1>1, <1>4, <2>1, TypeParts, TypesStay DEF Signal, rings
  <1>5. CASE Quit(id)
    <2>1. /\ pc' \in [NfIds -> {"none", "run", "quit", "dead"}]
          /\ lost' \subseteq Pkts /\ SenderTypes'
          BY <1>5, TypeVanish DEF Quit
    <2>2. LifeTypes' /\ PktTypes'
          BY <1>1, <1>5, <2>1 DEF Quit, LifeTypes, PktTypes
    <2>. QED BY <1>1, <1>5, <2>1, <2>2, TypeParts, TypesStay DEF Quit, rings
  <1>6. CASE Deregistered(id)
    <2>1. PICK k \in DOMAIN nts[TypeOf[id]] :
              nts' = [nts EXCEPT ![TypeOf[id]] = RemoveAt(@, k)]
          BY <1>6 DEF Deregistered
    <2>2. nts[TypeOf[id]] \in Seq(NfIds)
          BY <1>1 DEF LifeTypes
    <2>3. RemoveAt(nts[TypeOf[id]], k) \in Seq(NfIds)
          BY <2>1, <2>2, Removed
    <2>4. LifeTypes'
          BY <1>1, <1>6, <2>1, <2>3 DEF Deregistered, LifeTypes
    <2>. QED BY <1>1, <1>6, <2>4, TypeParts, TypesStay DEF Deregistered, rings
  <1>7. CASE Kill(id)
    <2>1. /\ pc' \in [NfIds -> {"none", "run", "quit", "dead"}]
          /\ lost' \subseteq Pkts /\ SenderTypes'
          BY <1>7, TypeVanish DEF Kill
    <2>2. LifeTypes' /\ PktTypes'
          BY <1>1, <1>7, <2>1 DEF Kill, LifeTypes, PktTypes
    <2>. QED BY <1>1, <1>7, <2>1, <2>2, TypeParts, TypesStay DEF Kill, rings
  <1>. QED BY <1>2, <1>3, <1>4, <1>5, <1>6, <1>7 DEF Life

(* The types hold when the manager has set up its memory. *)
LEMMA TypeInit == Init => TypeOK
  <1> SUFFICES ASSUME Init PROVE TypeOK
      OBVIOUS
  <1>1. <<>> \in Seq(Pkts) /\ <<>> \in Seq(NfIds) /\ Len(<<>>) = 0
        OBVIOUS
  <1>2. [act |-> "DROP", dst |-> 0] \in Acts
        BY DEF Acts
  <1>. QED BY <1>1, <1>2, IdFacts DEF Init, TypeOK

(* Every step keeps the types. *)
LEMMA TypeNext == TypeOK /\ [Next]_vars => TypeOK'
  <1> SUFFICES ASSUME TypeOK, [Next]_vars PROVE TypeOK'
      OBVIOUS
  <1>1. CASE RxStep
        BY <1>1, TypeRx, TypeFlushFull, IdFacts DEF RxStep, Rx
  <1>2. CASE UNCHANGED vars
        BY <1>2, TypeParts, TypesStay DEF vars, rings
  <1>. QED BY <1>1, <1>2, TypeRx, TypeNf, TypeLife, TypeTx DEF Next

(* Every variable keeps its type, and no ring ever has more packets than
   slots, whatever the NFs, their handlers and the wire do. *)
THEOREM PktTypesHold == Spec => []TypeOK
  BY TypeInit, TypeNext, PTL DEF Spec

-----------------------------------------------------------------------------
(* Where packet p is: in place k of the threads or NFs a and b. *)
In(p, k, a, b) ==
    \/ k = "wire" /\ a = 0 /\ b = 0 /\ p > arrived
    \/ k = "freed" /\ a = 0 /\ b = 0 /\ p \in freed
    \/ k = "lost" /\ a = 0 /\ b = 0 /\ p \in lost
    \/ k = "sent" /\ a = 0 /\ b = 0 /\ p \in ToSet(sent)
    \/ k = "rx_q" /\ a \in Ids /\ b = 0 /\ p \in ToSet(rx_q[a])
    \/ k = "tx_q" /\ a \in Ids /\ b = 0 /\ p \in ToSet(tx_q[a])
    \/ k = "hand" /\ a \in Ids /\ b = 0 /\ p \in ToSet(hand[a])
    \/ k = "rx_bufs" /\ a \in Ids /\ b \in Ids /\ p \in ToSet(rx_bufs[a][b])
    \/ k = "tx_buf" /\ a \in NfIds /\ b = 0 /\ p \in ToSet(tx_buf[a])
    \/ k = "tx_hand" /\ a \in TxIds /\ b = 0 /\ p \in ToSet(tx_hand[a])
    \/ k = "port_buf" /\ a \in TxIds /\ b = 0 /\ p \in ToSet(port_buf[a])

(* It is nowhere else. *)
OnlyIn(p, k, a, b) ==
    /\ p > arrived => k = "wire"
    /\ p \in freed => k = "freed"
    /\ p \in lost => k = "lost"
    /\ p \in ToSet(sent) => k = "sent"
    /\ \A c \in Ids : /\ p \in ToSet(rx_q[c]) => k = "rx_q" /\ c = a
                      /\ p \in ToSet(tx_q[c]) => k = "tx_q" /\ c = a
                      /\ p \in ToSet(hand[c]) => k = "hand" /\ c = a
    /\ \A c, d \in Ids :
          p \in ToSet(rx_bufs[c][d]) => k = "rx_bufs" /\ c = a /\ d = b
    /\ \A c \in NfIds : p \in ToSet(tx_buf[c]) => k = "tx_buf" /\ c = a
    /\ \A c \in TxIds : /\ p \in ToSet(tx_hand[c]) => k = "tx_hand" /\ c = a
                        /\ p \in ToSet(port_buf[c]) => k = "port_buf" /\ c = a
OneHolder(p) == \E k, a, b : In(p, k, a, b) /\ OnlyIn(p, k, a, b)

(* No sequence holds a packet twice. *)
RxQOnce == \A a \in Ids : Once(rx_q[a])
TxQOnce == \A a \in Ids : Once(tx_q[a])
HandOnce == \A a \in Ids : Once(hand[a])
RxBufsOnce == \A a, b \in Ids : Once(rx_bufs[a][b])
TxBufOnce == \A a \in NfIds : Once(tx_buf[a])
TxHandOnce == \A a \in TxIds : Once(tx_hand[a])
PortOnce == \A a \in TxIds : Once(port_buf[a])
AllOnce == /\ Once(sent) /\ RxQOnce /\ TxQOnce /\ HandOnce /\ RxBufsOnce
           /\ TxBufOnce /\ TxHandOnce /\ PortOnce

(* A packet is with one holder, once; a thread between two passes has none at
   hand. *)
PlacesInv ==
    /\ \A p \in Pkts : OneHolder(p)
    /\ AllOnce
    /\ \A th \in Ids : ~busy[th] => hand[th] = <<>>

(* A queue is split in two that have no packet in common. *)
LEMMA PartsHold ==
    ASSUME NEW s \in Seq(Pkts), NEW n \in Nat
    PROVE  /\ \A x : x \in ToSet(s) <=> x \in ToSet(Upto(s, n)) \/ x \in ToSet(After(s, n))
           /\ Once(s) => /\ Once(Upto(s, n)) /\ Once(After(s, n))
                         /\ \A x \in ToSet(Upto(s, n)) : x \notin ToSet(After(s, n))
  <1> DEFINE a == Upto(s, n)
             b == After(s, n)
  <1>1. /\ a \in Seq(Pkts) /\ b \in Seq(Pkts) /\ Len(s) \in Nat
        /\ Len(a) = Least(n, Len(s))
        /\ Len(b) = IF n <= Len(s) THEN Len(s) - n ELSE 0
        /\ \A j \in 1 .. Len(a) : a[j] = s[j]
        /\ \A j \in 1 .. Len(b) : b[j] = s[j + n]
        BY Parts
  <1> HIDE DEF a, b
  <1>2. /\ \A x : x \in ToSet(s) <=> \E j \in 1 .. Len(s) : s[j] = x
        /\ \A x : x \in ToSet(a) <=> \E j \in 1 .. Len(a) : a[j] = x
        /\ \A x : x \in ToSet(b) <=> \E j \in 1 .. Len(b) : b[j] = x
        BY <1>1, InSet
  <1>3. \A j \in 1 .. Len(a) : j \in 1 .. Len(s) /\ j <= n
        BY <1>1 DEF Least
  <1>4. \A j \in 1 .. Len(b) : j + n \in 1 .. Len(s) /\ j + n > n
        BY <1>1
  <1>5. ASSUME NEW x, x \in ToSet(s) PROVE x \in ToSet(a) \/ x \in ToSet(b)
    <2>1. PICK j \in 1 .. Len(s) : s[j] = x
          BY <1>2, <1>5
    <2>2. CASE j <= n
      <3>1. j \in 1 .. Len(a)
            BY <1>1, <2>1, <2>2 DEF Least
      <3>. QED BY <1>1, <1>2, <2>1, <3>1
    <2>3. CASE j > n
      <3>1. j - n \in 1 .. Len(b) /\ (j - n) + n = j
            BY <1>1, <2>1, <2>3
      <3>2. b[j - n] = x
            BY <1>1, <2>1, <3>1
      <3>. QED BY <1>2, <3>1, <3>2
    <2>. QED BY <2>1, <2>2, <2>3
  <1>6. \A x : x \in ToSet(a) => x \in ToSet(s)
        BY <1>1, <1>2, <1>3
  <1>7. \A x : x \in ToSet(b) => x \in ToSet(s)
        BY <1>1, <1>2, <1>4
  <1>8. Once(s) => Once(a)
        BY <1>1, <1>3 DEF Once
  <1>9. Once(s) => Once(b)
    <2>1. SUFFICES ASSUME Once(s), NEW i \in 1 .. Len(b), NEW j \in 1 .. Len(b),
                          b[i] = b[j]
                   PROVE  i = j
          BY DEF Once
    <2>2. i + n = j + n
          BY <1>1, <1>4, <2>1 DEF Once
    <2>. QED BY <1>1, <2>2
  <1>10. ASSUME Once(s), NEW x \in ToSet(a), x \in ToSet(b) PROVE FALSE
    <2>1. PICK i \in 1 .. Len(a) : a[i] = x
          BY <1>2, <1>10
    <2>2. PICK j \in 1 .. Len(b) : b[j] = x
          BY <1>2, <1>10
    <2>3. s[i] = s[j + n]
          BY <1>1, <2>1, <2>2
    <2>4. i = j + n
          BY <1>3, <1>4, <1>10, <2>3 DEF Once
    <2>. QED BY <1>1, <1>3, <1>4, <2>4
  <1>. QED BY <1>5, <1>6, <1>7, <1>8, <1>9, <1>10 DEF a, b

(* The holder is the only one. *)
LEMMA Only ==
    ASSUME NEW p, OneHolder(p), NEW k, NEW a, NEW b, In(p, k, a, b)
    PROVE  OnlyIn(p, k, a, b)
  <1>1. PICK l, c, d : In(p, l, c, d) /\ OnlyIn(p, l, c, d)
        BY DEF OneHolder
  <1>2. k = l /\ (k \notin {"wire", "freed", "lost", "sent"} => a = c)
           /\ (k = "rx_bufs" => b = d)
        BY <1>1 DEF In, OnlyIn
  <1>. QED BY <1>1, <1>2 DEF OnlyIn

(* A packet that a step moves has the one holder it is found with. *)
LEMMA Moved ==
    ASSUME NEW p, NEW k, NEW a, NEW b, In(p, k, a, b)', OnlyIn(p, k, a, b)'
    PROVE  OneHolder(p)'
  BY DEF OneHolder

(* A step that moves other packets only. *)
Keeps(p) ==
    /\ p > arrived' <=> p > arrived
    /\ p \in freed' <=> p \in freed
    /\ p \in lost' <=> p \in lost
    /\ p \in ToSet(sent') <=> p \in ToSet(sent)
    /\ \A c \in Ids : /\ p \in ToSet(rx_q'[c]) <=> p \in ToSet(rx_q[c])
                      /\ p \in ToSet(tx_q'[c]) <=> p \in ToSet(tx_q[c])
                      /\ p \in ToSet(hand'[c]) <=> p \in ToSet(hand[c])
    /\ \A c, d \in Ids : p \in ToSet(rx_bufs'[c][d]) <=> p \in ToSet(rx_bufs[c][d])
    /\ \A c \in NfIds : p \in ToSet(tx_buf'[c]) <=> p \in ToSet(tx_buf[c])
    /\ \A c \in TxIds : /\ p \in ToSet(tx_hand'[c]) <=> p \in ToSet(tx_hand[c])
                        /\ p \in ToSet(port_buf'[c]) <=> p \in ToSet(port_buf[c])

(* A packet that a step does not touch keeps its one holder. *)
LEMMA Stays ==
    ASSUME NEW p, OneHolder(p), Keeps(p)
    PROVE  OneHolder(p)'
  <1>1. PICK l, c, d : In(p, l, c, d) /\ OnlyIn(p, l, c, d)
        BY DEF OneHolder
  <1>2. In(p, l, c, d)'
        BY <1>1 DEF In, Keeps
  <1>3. OnlyIn(p, l, c, d)'
        BY <1>1 DEF OnlyIn, Keeps
  <1>. QED BY <1>2, <1>3, Moved

(* A thread takes the next of its packets and frees it, or puts it in a buffer. *)
LEMMA HandOff ==
    ASSUME TypeOK, PlacesInv, NEW th \in Ids, hand[th] # <<>>,
           hand' = [hand EXCEPT ![th] = Tail(@)],
           UNCHANGED <<arrived, sent, lost, rx_q, busy, tx_hand, port_buf>>,
           \/ freed' = freed \cup {Head(hand[th])} /\ UNCHANGED <<rx_bufs, tx_buf, tx_q>>
           \/ \E id \in Ids :
                 /\ rx_bufs' = [rx_bufs EXCEPT ![th][id] = Append(@, Head(hand[th]))]
                 /\ UNCHANGED <<freed, tx_buf, tx_q>>
           \/ /\ th \in NfIds
              /\ tx_buf' = [tx_buf EXCEPT ![th] = Append(@, Head(hand[th]))]
              /\ UNCHANGED <<freed, rx_bufs, tx_q>>
    PROVE  PlacesInv'
  <1>0. PICK p0 : p0 = Head(hand[th])
        OBVIOUS
  <1>1. /\ hand \in [Ids -> Seq(Pkts)] /\ rx_bufs \in [Ids -> [Ids -> Seq(Pkts)]]
        /\ tx_buf \in [NfIds -> Seq(Pkts)] /\ 0 \in Ids /\ NfIds \subseteq Ids
        BY IdFacts DEF TypeOK
  <1>2. /\ p0 \in Pkts /\ Tail(hand[th]) \in Seq(Pkts)
        /\ Once(Tail(hand[th])) /\ p0 \in ToSet(hand[th])
        /\ \A x : x \in ToSet(Tail(hand[th])) <=> x \in ToSet(hand[th]) /\ x # p0
        BY <1>0, <1>1, HeadTail, TailHolds DEF PlacesInv, AllOnce, HandOnce
  <1>3. /\ hand' \in [Ids -> Seq(Pkts)] /\ hand'[th] = Tail(hand[th])
        /\ \A a \in Ids \ {th} : hand'[a] = hand[a]
        BY <1>1, <1>2
  <1>4. In(p0, "hand", th, 0)
        BY <1>2 DEF In
  <1>5. OnlyIn(p0, "hand", th, 0)
        BY <1>2, <1>4, Only DEF PlacesInv
  <1>6. HandOnce'
        BY <1>2, <1>3 DEF PlacesInv, AllOnce, HandOnce
  <1>7. \A a \in Ids : ~busy'[a] => hand'[a] = <<>>
        BY <1>3 DEF PlacesInv
  <1>8. CASE freed' = freed \cup {p0} /\ UNCHANGED <<rx_bufs, tx_buf, tx_q>>
    <2>1. In(p0, "freed", 0, 0)'
          BY <1>8 DEF In
    <2>2. OnlyIn(p0, "freed", 0, 0)'
          BY <1>2, <1>3, <1>5, <1>8 DEF OnlyIn
    <2>3. \A p \in Pkts \ {p0} : Keeps(p)
          BY <1>2, <1>3, <1>8 DEF Keeps
    <2>4. \A p \in Pkts : OneHolder(p)'
          BY <2>1, <2>2, <2>3, Moved, Stays DEF PlacesInv
    <2>5. AllOnce'
          BY <1>6, <1>8 DEF PlacesInv, AllOnce, RxQOnce, TxQOnce, RxBufsOnce,
                            TxBufOnce, TxHandOnce, PortOnce
    <2>. QED BY <1>7, <2>4, <2>5 DEF PlacesInv
  <1>9. ASSUME NEW id \in Ids,
               rx_bufs' = [rx_bufs EXCEPT ![th][id] = Append(@, p0)],
               UNCHANGED <<freed, tx_buf, tx_q>>
        PROVE  PlacesInv'
    <2>1. /\ rx_bufs[th][id] \in Seq(Pkts) /\ Once(rx_bufs[th][id])
          /\ p0 \notin ToSet(rx_bufs[th][id])
          BY <1>1, <1>5 DEF OnlyIn, PlacesInv, AllOnce, RxBufsOnce
    <2>2. /\ Append(rx_bufs[th][id], p0) \in Seq(Pkts)
          /\ \A x : x \in ToSet(Append(rx_bufs[th][id], p0))
                       <=> x \in ToSet(rx_bufs[th][id]) \/ x = p0
          /\ Once(Append(rx_bufs[th][id], p0))
          BY <1>2, <2>1, AppendHolds
    <2>3. /\ rx_bufs'[th][id] = Append(rx_bufs[th][id], p0)
          /\ \A a, b \in Ids : a # th \/ b # id => rx_bufs'[a][b] = rx_bufs[a][b]
          BY <1>1, <1>9
    <2>4. In(p0, "rx_bufs", th, id)'
          BY <2>2, <2>3 DEF In
    <2>5. OnlyIn(p0, "rx_bufs", th, id)'
          BY <1>2, <1>3, <1>5, <1>9, <2>2, <2>3 DEF OnlyIn
    <2>6. \A p \in Pkts \ {p0} : Keeps(p)
          BY <1>2, <1>3, <1>9, <2>2, <2>3 DEF Keeps
    <2>7. \A p \in Pkts : OneHolder(p)'
          BY <2>4, <2>5, <2>6, Moved, Stays DEF PlacesInv
    <2>8. RxBufsOnce'
          BY <2>2, <2>3 DEF PlacesInv, AllOnce, RxBufsOnce
    <2>9. AllOnce'
          BY <1>6, <1>9, <2>8 DEF PlacesInv, AllOnce, RxQOnce, TxQOnce,
                                  TxBufOnce, TxHandOnce, PortOnce
    <2>. QED BY <1>7, <2>7, <2>9 DEF PlacesInv
  <1>10. CASE /\ th \in NfIds
              /\ tx_buf' = [tx_buf EXCEPT ![th] = Append(@, p0)]
              /\ UNCHANGED <<freed, rx_bufs, tx_q>>
    <2>1. /\ tx_buf[th] \in Seq(Pkts) /\ Once(tx_buf[th])
          /\ p0 \notin ToSet(tx_buf[th])
          BY <1>1, <1>5, <1>10 DEF OnlyIn, PlacesInv, AllOnce, TxBufOnce
    <2>2. /\ Append(tx_buf[th], p0) \in Seq(Pkts)
          /\ \A x : x \in ToSet(Append(tx_buf[th], p0))
                       <=> x \in ToSet(tx_buf[th]) \/ x = p0
          /\ Once(Append(tx_buf[th], p0))
          BY <1>2, <2>1, AppendHolds
    <2>3. /\ tx_buf'[th] = Append(tx_buf[th], p0)
          /\ \A a \in NfIds \ {th} : tx_buf'[a] = tx_buf[a]
          BY <1>1, <1>10
    <2>4. In(p0, "tx_buf", th, 0)'
          BY <1>10, <2>2, <2>3 DEF In
    <2>5. OnlyIn(p0, "tx_buf", th, 0)'
          BY <1>2, <1>3, <1>5, <1>10, <2>2, <2>3 DEF OnlyIn
    <2>6. \A p \in Pkts \ {p0} : Keeps(p)
          BY <1>2, <1>3, <1>10, <2>2, <2>3 DEF Keeps
    <2>7. \A p \in Pkts : OneHolder(p)'
          BY <2>4, <2>5, <2>6, Moved, Stays DEF PlacesInv
    <2>8. TxBufOnce'
          BY <2>2, <2>3 DEF PlacesInv, AllOnce, TxBufOnce
    <2>9. AllOnce'
          BY <1>6, <1>10, <2>8 DEF PlacesInv, AllOnce, RxQOnce, TxQOnce,
                                   RxBufsOnce, TxHandOnce, PortOnce
    <2>. QED BY <1>7, <2>7, <2>9 DEF PlacesInv
  <1>. QED BY <1>0, <1>8, <1>9, <1>10

(* A buffer on its way to the TX thread, with the next packet of its NF (last)
   or without: it goes to the ring as a whole, or is freed. *)
LEMMA TxRingHolds ==
    ASSUME TypeOK, PlacesInv, NEW id \in NfIds, NEW buf \in Seq(Pkts),
           EnqueueTxRing(id, buf), Once(buf),
           UNCHANGED <<arrived, sent, lost, rx_q, rx_bufs, busy, tx_hand, port_buf>>,
           \/ buf = tx_buf[id] /\ UNCHANGED hand
           \/ /\ hand[id] # <<>> /\ hand' = [hand EXCEPT ![id] = Tail(@)]
              /\ buf = Append(tx_buf[id], Head(hand[id]))
    PROVE  PlacesInv'
  <1>1. /\ hand \in [Ids -> Seq(Pkts)] /\ tx_q \in [Ids -> Seq(Pkts)]
        /\ tx_buf \in [NfIds -> Seq(Pkts)] /\ 0 \in Ids /\ id \in Ids
        BY IdFacts DEF TypeOK
  <1> DEFINE B == ToSet(buf)
  <1>2. /\ HandOnce' /\ \A a \in Ids : ~busy'[a] => hand'[a] = <<>>
        /\ \A x \in B : In(x, "hand", id, 0) \/ In(x, "tx_buf", id, 0)
        /\ \A x, c : c \in Ids => (x \in ToSet(hand'[c]) <=> x \in ToSet(hand[c]) /\ ~(c = id /\ x \in B))
        /\ \A x \in ToSet(tx_buf[id]) : x \in B
    <2>1. CASE buf = tx_buf[id] /\ UNCHANGED hand
      <3>1. \A x \in B : In(x, "tx_buf", id, 0)
            BY <2>1 DEF In
      <3>2. \A x \in B : x \in Pkts
            BY SetOf
      <3>3. \A x \in B : x \notin ToSet(hand[id])
        <4>1. SUFFICES ASSUME NEW x \in B, x \in ToSet(hand[id]) PROVE FALSE
              OBVIOUS
        <4>2. In(x, "hand", id, 0) /\ In(x, "tx_buf", id, 0) /\ OneHolder(x)
              BY <1>1, <3>1, <3>2, <4>1 DEF In, PlacesInv
        <4>3. OnlyIn(x, "tx_buf", id, 0)
              BY <4>2, Only
        <4>. QED BY <1>1, <4>1, <4>3 DEF OnlyIn
      <3>. QED BY <2>1, <3>1, <3>3 DEF PlacesInv, AllOnce, HandOnce
    <2>2. CASE /\ hand[id] # <<>> /\ hand' = [hand EXCEPT ![id] = Tail(@)]
               /\ buf = Append(tx_buf[id], Head(hand[id]))
      <3> DEFINE p0 == Head(hand[id])
      <3>1. /\ p0 \in Pkts /\ Tail(hand[id]) \in Seq(Pkts)
            /\ Once(Tail(hand[id])) /\ p0 \in ToSet(hand[id])
            /\ \A x : x \in ToSet(Tail(hand[id])) <=> x \in ToSet(hand[id]) /\ x # p0
            BY <1>1, <2>2, HeadTail, TailHolds DEF PlacesInv, AllOnce, HandOnce
      <3>2. \A x : x \in B <=> x \in ToSet(tx_buf[id]) \/ x = p0
            BY <1>1, <2>2, <3>1, AppendHolds
      <3>3. /\ hand'[id] = Tail(hand[id])
            /\ \A a \in Ids \ {id} : hand'[a] = hand[a]
            BY <1>1, <2>2
      <3> HIDE DEF p0, B
      <3>4. \A x \in B : In(x, "hand", id, 0) \/ In(x, "tx_buf", id, 0)
            BY <1>1, <3>1, <3>2 DEF In
      <3>5. \A x \in ToSet(tx_buf[id]) : x \in Pkts
            BY <1>1, SetOf
      <3>6. \A x \in ToSet(tx_buf[id]) : x \notin ToSet(hand[id])
        <4>1. SUFFICES ASSUME NEW x \in ToSet(tx_buf[id]), x \in ToSet(hand[id])
                       PROVE  FALSE
              OBVIOUS
        <4>2. In(x, "hand", id, 0) /\ In(x, "tx_buf", id, 0) /\ OneHolder(x)
              BY <1>1, <3>5, <4>1 DEF In, PlacesInv
        <4>3. OnlyIn(x, "tx_buf", id, 0)
              BY <4>2, Only
        <4>. QED BY <1>1, <4>1, <4>3 DEF OnlyIn
      <3>7. HandOnce' /\ \A a \in Ids : ~busy'[a] => hand'[a] = <<>>
            BY <2>2, <3>1, <3>3 DEF PlacesInv, AllOnce, HandOnce
      <3>8. \A x, c : c \in Ids =>
               (x \in ToSet(hand'[c]) <=> x \in ToSet(hand[c]) /\ ~(c = id /\ x \in B))
            BY <3>1, <3>2, <3>3, <3>6
      <3>. QED BY <3>2, <3>4, <3>7, <3>8
    <2>. QED BY <2>1, <2>2
  <1>3. tx_buf'[id] = <<>> /\ \A a \in NfIds \ {id} : tx_buf'[a] = tx_buf[a]
        BY <1>1 DEF EnqueueTxRing
  <1>4. ToSet(<<>>) = {} /\ Once(<<>>)
        BY DEF ToSet, Once
  <1>5. TxBufOnce'
        BY <1>3, <1>4 DEF PlacesInv, AllOnce, TxBufOnce
  <1>6. \A x \in B : x \in Pkts
        BY SetOf
  <1> HIDE DEF B
  <1>7. \A x \in B : OnlyIn(x, "hand", id, 0) \/ OnlyIn(x, "tx_buf", id, 0)
        BY <1>2, <1>6, Only DEF PlacesInv
  <1>10. ASSUME NEW x \in B
         PROVE  /\ \A c \in Ids : x \notin ToSet(hand'[c])
                /\ \A c \in NfIds : x \notin ToSet(tx_buf'[c])
                /\ ~(x > arrived) /\ x \notin freed /\ x \notin lost /\ x \notin ToSet(sent)
                /\ \A c \in Ids : x \notin ToSet(rx_q[c]) /\ x \notin ToSet(tx_q[c])
                /\ \A c, d \in Ids : x \notin ToSet(rx_bufs[c][d])
                /\ \A c \in TxIds : x \notin ToSet(tx_hand[c]) /\ x \notin ToSet(port_buf[c])
    <2>1. CASE OnlyIn(x, "hand", id, 0)
          BY <1>1, <1>2, <1>3, <1>4, <1>10, <2>1 DEF OnlyIn
    <2>2. CASE OnlyIn(x, "tx_buf", id, 0)
          BY <1>1, <1>2, <1>3, <1>4, <1>10, <2>2 DEF OnlyIn
    <2>. QED BY <1>7, <1>10, <2>1, <2>2
  <1>8. CASE /\ Len(tx_q[id]) + Len(buf) < NF_RING_SIZE
             /\ tx_q' = [tx_q EXCEPT ![id] = @ \o buf] /\ UNCHANGED freed
    <2>1. \A x \in ToSet(tx_q[id]) : x \notin B
          BY <1>1, <1>7 DEF OnlyIn
    <2>2. /\ \A x : x \in ToSet(tx_q[id] \o buf) <=> x \in ToSet(tx_q[id]) \/ x \in B
          /\ Once(tx_q[id] \o buf)
          BY <1>1, <2>1, ConcatHolds DEF B, PlacesInv, AllOnce, TxQOnce
    <2>3. /\ tx_q'[id] = tx_q[id] \o buf
          /\ \A a \in Ids \ {id} : tx_q'[a] = tx_q[a]
          BY <1>1, <1>8
    <2>4. \A x \in B : In(x, "tx_q", id, 0)'
          BY <1>1, <2>2, <2>3 DEF In
    <2>5. \A x \in B : OnlyIn(x, "tx_q", id, 0)'
          BY <1>1, <1>8, <1>10, <2>3 DEF OnlyIn
    <2>6. \A x \in Pkts \ B : Keeps(x)
          BY <1>1, <1>2, <1>3, <1>4, <1>8, <2>2, <2>3 DEF Keeps
    <2>7. \A p \in Pkts : OneHolder(p)'
          BY <2>4, <2>5, <2>6, Moved, Stays DEF PlacesInv
    <2>8. TxQOnce'
          BY <2>2, <2>3 DEF PlacesInv, AllOnce, TxQOnce
    <2>9. AllOnce'
          BY <1>2, <1>5, <1>8, <2>8 DEF PlacesInv, AllOnce, RxQOnce,
                                   RxBufsOnce, TxHandOnce, PortOnce
    <2>. QED BY <1>2, <2>7, <2>9 DEF PlacesInv
  <1>9. CASE freed' = freed \cup B /\ UNCHANGED tx_q
    <2>4. \A x \in B : In(x, "freed", 0, 0)'
          BY <1>9 DEF In
    <2>5. \A x \in B : OnlyIn(x, "freed", 0, 0)'
          BY <1>1, <1>9, <1>10 DEF OnlyIn
    <2>6. \A x \in Pkts \ B : Keeps(x)
          BY <1>1, <1>2, <1>3, <1>4, <1>9 DEF Keeps
    <2>7. \A p \in Pkts : OneHolder(p)'
          BY <2>4, <2>5, <2>6, Moved, Stays DEF PlacesInv
    <2>9. AllOnce'
          BY <1>2, <1>5, <1>9 DEF PlacesInv, AllOnce, RxQOnce, TxQOnce,
                                   RxBufsOnce, TxHandOnce, PortOnce
    <2>. QED BY <1>2, <2>7, <2>9 DEF PlacesInv
  <1>. QED BY <1>8, <1>9 DEF EnqueueTxRing, B

(* The buffers of a thread that are flushed go to the rings, or are freed. *)
LEMMA FlushHolds ==
    ASSUME TypeOK, PlacesInv, NEW th \in Ids, NEW ids \in SUBSET Ids, Flush(th, ids),
           UNCHANGED <<arrived, sent, lost, tx_q, hand, tx_buf, tx_hand, port_buf>>,
           \A a \in Ids : ~busy'[a] => hand'[a] = <<>>
    PROVE  PlacesInv'
  <1> DEFINE go == {id \in ids : IsValid(id)}
  <1>1. /\ rx_bufs \in [Ids -> [Ids -> Seq(Pkts)]] /\ rx_q \in [Ids -> Seq(Pkts)]
        /\ 0 \in Ids
        BY IdFacts DEF TypeOK
  <1>2. /\ rx_q' = [id \in Ids |-> IF id \in go /\ Fits(th, id)
                                   THEN rx_q[id] \o rx_bufs[th][id] ELSE rx_q[id]]
        /\ freed' = freed \cup UNION {ToSet(rx_bufs[th][id]) :
                                         id \in {j \in go : ~Fits(th, j)}}
        /\ rx_bufs' = [rx_bufs EXCEPT ![th] =
                          [id \in Ids |-> IF id \in go THEN <<>> ELSE @[id]]]
        BY DEF Flush
  <1>3. go \subseteq Ids
        OBVIOUS
  <1> HIDE DEF go
  <1>4. /\ \A id \in Ids : rx_bufs'[th][id] = IF id \in go THEN <<>> ELSE rx_bufs[th][id]
        /\ \A a \in Ids \ {th} : \A b \in Ids : rx_bufs'[a][b] = rx_bufs[a][b]
        BY <1>1, <1>2
  <1>5. \A id \in Ids : rx_q'[id] = IF id \in go /\ Fits(th, id)
                                    THEN rx_q[id] \o rx_bufs[th][id] ELSE rx_q[id]
        BY <1>2
  <1>6. \A x : x \in freed' <=> \/ x \in freed
                                \/ \E id \in go : ~Fits(th, id) /\ x \in ToSet(rx_bufs[th][id])
        BY <1>2
  <1>7. ToSet(<<>>) = {} /\ Once(<<>>)
        BY DEF ToSet, Once
  <1>8. \A id \in Ids : \A x \in ToSet(rx_bufs[th][id]) :
            In(x, "rx_bufs", th, id) /\ x \in Pkts /\ OnlyIn(x, "rx_bufs", th, id)
    <2>1. SUFFICES ASSUME NEW id \in Ids, NEW x \in ToSet(rx_bufs[th][id])
                   PROVE  In(x, "rx_bufs", th, id) /\ x \in Pkts /\ OnlyIn(x, "rx_bufs", th, id)
          OBVIOUS
    <2>2. In(x, "rx_bufs", th, id) /\ x \in Pkts
          BY <1>1, <2>1, SetOf DEF In
    <2>. QED BY <2>2, Only DEF PlacesInv
  <1>9. ASSUME NEW id \in Ids
        PROVE  /\ \A x : x \in ToSet(rx_q[id] \o rx_bufs[th][id])
                            <=> x \in ToSet(rx_q[id]) \/ x \in ToSet(rx_bufs[th][id])
               /\ Once(rx_q[id] \o rx_bufs[th][id])
    <2>1. rx_q[id] \in Seq(Pkts) /\ rx_bufs[th][id] \in Seq(Pkts)
          BY <1>1
    <2>2. \A x \in ToSet(rx_q[id]) : x \notin ToSet(rx_bufs[th][id])
          BY <1>8 DEF OnlyIn
    <2>3. Once(rx_q[id]) /\ Once(rx_bufs[th][id])
          BY DEF PlacesInv, AllOnce, RxQOnce, RxBufsOnce
    <2>. QED BY <2>1, <2>2, <2>3, ConcatHolds
  <1>10. RxQOnce' /\ RxBufsOnce'
    <2>1. \A id \in Ids : Once(rx_q'[id])
          BY <1>5, <1>9 DEF PlacesInv, AllOnce, RxQOnce
    <2>2. \A a, b \in Ids : Once(rx_bufs'[a][b])
          BY <1>4, <1>7 DEF PlacesInv, AllOnce, RxBufsOnce
    <2>. QED BY <2>1, <2>2 DEF RxQOnce, RxBufsOnce
  <1>11. AllOnce'
         BY <1>10 DEF PlacesInv, AllOnce, TxQOnce, HandOnce, TxBufOnce, TxHandOnce, PortOnce
  <1>12. ASSUME NEW id \in go, NEW x \in ToSet(rx_bufs[th][id]) PROVE OneHolder(x)'
    <2>1. id \in Ids /\ OnlyIn(x, "rx_bufs", th, id)
          BY <1>3, <1>8, <1>12
    <2>2. \A c \in Ids : x \notin ToSet(rx_bufs'[th][c])
          BY <1>4, <1>7, <1>12, <2>1 DEF OnlyIn
    <2>3. \A c, d \in Ids : x \notin ToSet(rx_bufs'[c][d])
          BY <1>4, <2>1, <2>2 DEF OnlyIn
    <2>4. CASE Fits(th, id)
      <3>1. In(x, "rx_q", id, 0)'
            BY <1>5, <1>9, <1>12, <2>1, <2>4 DEF In
      <3>2. x \notin freed'
            BY <1>3, <1>6, <2>1, <2>4 DEF OnlyIn
      <3>3. \A c \in Ids : x \in ToSet(rx_q'[c]) => c = id
            BY <1>5, <1>9, <2>1 DEF OnlyIn
      <3>4. OnlyIn(x, "rx_q", id, 0)'
            BY <2>1, <2>3, <3>2, <3>3 DEF OnlyIn
      <3>. QED BY <3>1, <3>4, Moved
    <2>5. CASE ~Fits(th, id)
      <3>1. In(x, "freed", 0, 0)'
            BY <1>6, <1>12, <2>5 DEF In
      <3>3. \A c \in Ids : x \notin ToSet(rx_q'[c])
            BY <1>5, <1>9, <2>1, <2>5 DEF OnlyIn
      <3>4. OnlyIn(x, "freed", 0, 0)'
            BY <2>1, <2>3, <3>3 DEF OnlyIn
      <3>. QED BY <3>1, <3>4, Moved
    <2>. QED BY <2>4, <2>5
  <1>13. ASSUME NEW x \in Pkts, \A id \in go : x \notin ToSet(rx_bufs[th][id])
         PROVE  OneHolder(x)'
    <2>1. /\ \A c \in Ids : x \in ToSet(rx_q'[c]) <=> x \in ToSet(rx_q[c])
          /\ x \in freed' <=> x \in freed
          BY <1>5, <1>6, <1>9, <1>13
    <2>2. \A c, d \in Ids : x \in ToSet(rx_bufs'[c][d]) <=> x \in ToSet(rx_bufs[c][d])
          BY <1>4, <1>7, <1>13
    <2>3. Keeps(x)
          BY <2>1, <2>2 DEF Keeps
    <2>. QED BY <2>3, Stays DEF PlacesInv
  <1>14. \A p \in Pkts : OneHolder(p)'
         BY <1>12, <1>13
  <1>. QED BY <1>11, <1>14 DEF PlacesInv

(* An NF takes a burst from its ring. *)
LEMMA DequeueHolds ==
    ASSUME TypeOK, PlacesInv, NEW id \in NfIds, NfDequeue(id)
    PROVE  PlacesInv'
  <1>1. /\ hand \in [Ids -> Seq(Pkts)] /\ rx_q \in [Ids -> Seq(Pkts)]
        /\ busy \in [Ids -> BOOLEAN] /\ 0 \in Ids /\ id \in Ids
        BY IdFacts DEF TypeOK
  <1>2. PICK a, b : /\ a = Upto(rx_q[id], PKT_RD_SIZE) /\ b = After(rx_q[id], Len(a))
        OBVIOUS
  <1>3. /\ hand' = [hand EXCEPT ![id] = a] /\ rx_q' = [rx_q EXCEPT ![id] = b]
        /\ busy' = [busy EXCEPT ![id] = TRUE] /\ hand[id] = <<>>
        /\ UNCHANGED <<arrived, sent, freed, lost, tx_q, rx_bufs, tx_buf, tx_hand, port_buf>>
        BY <1>1, <1>2 DEF NfDequeue, txThreads, PlacesInv
  <1>4. PICK n \in Nat : a = Upto(rx_q[id], n) /\ b = After(rx_q[id], n)
    <2>1. rx_q[id] \in Seq(Pkts) /\ PKT_RD_SIZE \in Nat
          BY <1>1, IdFacts
    <2>2. Len(a) = Least(PKT_RD_SIZE, Len(rx_q[id])) /\ Len(rx_q[id]) \in Nat
          BY <1>2, <2>1, Parts
    <2>3. Len(a) \in Nat /\ Least(Len(a), Len(rx_q[id])) = Least(PKT_RD_SIZE, Len(rx_q[id]))
          BY <2>1, <2>2 DEF Least
    <2>4. Upto(rx_q[id], Len(a)) = a
          BY <1>2, <2>3 DEF Upto
    <2>. QED BY <1>2, <2>3, <2>4
  <1>5. /\ \A x : x \in ToSet(rx_q[id]) <=> x \in ToSet(a) \/ x \in ToSet(b)
        /\ Once(a) /\ Once(b) /\ \A x \in ToSet(a) : x \notin ToSet(b)
    <2>1. rx_q[id] \in Seq(Pkts) /\ Once(rx_q[id])
          BY <1>1 DEF PlacesInv, AllOnce, RxQOnce
    <2>. QED BY <1>4, <2>1, PartsHold
  <1>6. /\ hand'[id] = a /\ \A c \in Ids \ {id} : hand'[c] = hand[c]
        /\ rx_q'[id] = b /\ \A c \in Ids \ {id} : rx_q'[c] = rx_q[c]
        /\ busy'[id] = TRUE /\ \A c \in Ids \ {id} : busy'[c] = busy[c]
        BY <1>1, <1>3
  <1>7. ToSet(<<>>) = {}
        BY DEF ToSet
  <1>8. ASSUME NEW x \in ToSet(a) PROVE OneHolder(x)'
    <2>1. In(x, "rx_q", id, 0) /\ x \in Pkts
          BY <1>1, <1>5, <1>8, SetOf DEF In
    <2>2. OnlyIn(x, "rx_q", id, 0)
          BY <2>1, Only DEF PlacesInv
    <2>3. In(x, "hand", id, 0)'
          BY <1>1, <1>6, <1>8 DEF In
    <2>4. OnlyIn(x, "hand", id, 0)'
          BY <1>3, <1>5, <1>6, <1>8, <2>2 DEF OnlyIn
    <2>. QED BY <2>3, <2>4, Moved
  <1>9. ASSUME NEW x \in Pkts, x \notin ToSet(a) PROVE OneHolder(x)'
    <2>1. Keeps(x)
          BY <1>3, <1>5, <1>6, <1>7, <1>9 DEF Keeps
    <2>. QED BY <2>1, Stays DEF PlacesInv
  <1>10. AllOnce'
         BY <1>3, <1>5, <1>6 DEF PlacesInv, AllOnce, RxQOnce, TxQOnce, HandOnce,
                                 RxBufsOnce, TxBufOnce, TxHandOnce, PortOnce
  <1>11. \A c \in Ids : ~busy'[c] => hand'[c] = <<>>
         BY <1>6 DEF PlacesInv
  <1>. QED BY <1>8, <1>9, <1>10, <1>11 DEF PlacesInv

(* A TX thread takes a burst from the ring of an NF. *)
LEMMA TxDequeueHolds ==
    ASSUME TypeOK, PlacesInv, NEW k \in TxIds, NEW id \in NfIds, TxDequeue(k, id)
    PROVE  PlacesInv'
  <1>1. /\ tx_hand \in [TxIds -> Seq(Pkts)] /\ tx_q \in [Ids -> Seq(Pkts)]
        /\ 0 \in Ids /\ id \in Ids
        BY IdFacts DEF TypeOK
  <1>2. PICK a, b : a = Upto(tx_q[id], PKT_RD_SIZE) /\ b = After(tx_q[id], PKT_RD_SIZE)
        OBVIOUS
  <1>3. /\ tx_hand' = [tx_hand EXCEPT ![k] = a] /\ tx_q' = [tx_q EXCEPT ![id] = b]
        /\ tx_hand[k] = <<>>
        /\ UNCHANGED <<arrived, sent, freed, lost, rx_q, busy, hand, rx_bufs, tx_buf, port_buf>>
        BY <1>2 DEF TxDequeue, senders
  <1>5. /\ \A x : x \in ToSet(tx_q[id]) <=> x \in ToSet(a) \/ x \in ToSet(b)
        /\ Once(a) /\ Once(b) /\ \A x \in ToSet(a) : x \notin ToSet(b)
    <2>1. tx_q[id] \in Seq(Pkts) /\ Once(tx_q[id]) /\ PKT_RD_SIZE \in Nat
          BY <1>1, IdFacts DEF PlacesInv, AllOnce, TxQOnce
    <2>. QED BY <1>2, <2>1, PartsHold
  <1>6. /\ tx_hand'[k] = a /\ \A c \in TxIds \ {k} : tx_hand'[c] = tx_hand[c]
        /\ tx_q'[id] = b /\ \A c \in Ids \ {id} : tx_q'[c] = tx_q[c]
        BY <1>1, <1>3
  <1>7. ToSet(<<>>) = {}
        BY DEF ToSet
  <1>8. ASSUME NEW x \in ToSet(a) PROVE OneHolder(x)'
    <2>1. In(x, "tx_q", id, 0) /\ x \in Pkts
          BY <1>1, <1>5, <1>8, SetOf DEF In
    <2>2. OnlyIn(x, "tx_q", id, 0)
          BY <2>1, Only DEF PlacesInv
    <2>3. In(x, "tx_hand", k, 0)'
          BY <1>1, <1>6, <1>8 DEF In
    <2>4. OnlyIn(x, "tx_hand", k, 0)'
          BY <1>3, <1>5, <1>6, <1>8, <2>2 DEF OnlyIn
    <2>. QED BY <2>3, <2>4, Moved
  <1>9. ASSUME NEW x \in Pkts, x \notin ToSet(a) PROVE OneHolder(x)'
    <2>1. Keeps(x)
          BY <1>3, <1>5, <1>6, <1>7, <1>9 DEF Keeps
    <2>. QED BY <2>1, Stays DEF PlacesInv
  <1>10. AllOnce'
         BY <1>3, <1>5, <1>6 DEF PlacesInv, AllOnce, RxQOnce, TxQOnce, HandOnce,
                                 RxBufsOnce, TxBufOnce, TxHandOnce, PortOnce
  <1>. QED BY <1>3, <1>8, <1>9, <1>10 DEF PlacesInv

(* A TX thread has one packet less at hand, or as many, and buf has the one more
   than the buffer for the port, or the same. *)
PortFrom(k, buf) ==
    \/ buf = port_buf[k] /\ UNCHANGED tx_hand
    \/ /\ tx_hand[k] # <<>> /\ tx_hand' = [tx_hand EXCEPT ![k] = Tail(@)]
       /\ buf = Append(port_buf[k], Head(tx_hand[k]))

(* A port takes the first packets of what a TX thread has for it, and the rest
   is freed. *)
LEMMA PortFromHolds ==
    ASSUME TypeOK, PlacesInv, NEW k \in TxIds, NEW buf, PortFrom(k, buf)
    PROVE  /\ buf \in Seq(Pkts) /\ Once(buf) /\ TxHandOnce'
           /\ \A x \in ToSet(buf) : OnlyIn(x, "tx_hand", k, 0) \/ OnlyIn(x, "port_buf", k, 0)
           /\ \A x : \A c \in TxIds : x \in ToSet(tx_hand'[c])
                        <=> x \in ToSet(tx_hand[c]) /\ ~(c = k /\ x \in ToSet(buf))
           /\ \A x \in ToSet(port_buf[k]) : x \in ToSet(buf)
  <1>1. /\ tx_hand \in [TxIds -> Seq(Pkts)] /\ port_buf \in [TxIds -> Seq(Pkts)]
        BY DEF TypeOK
  <1>2. ASSUME NEW x \in ToSet(port_buf[k])
        PROVE  OnlyIn(x, "port_buf", k, 0) /\ x \notin ToSet(tx_hand[k])
    <2>1. In(x, "port_buf", k, 0) /\ x \in Pkts
          BY <1>1, <1>2, SetOf DEF In
    <2>2. OnlyIn(x, "port_buf", k, 0)
          BY <2>1, Only DEF PlacesInv
    <2>. QED BY <2>2 DEF OnlyIn
  <1>3. CASE buf = port_buf[k] /\ UNCHANGED tx_hand
        BY <1>1, <1>2, <1>3 DEF PlacesInv, AllOnce, TxHandOnce, PortOnce
  <1>4. CASE /\ tx_hand[k] # <<>> /\ tx_hand' = [tx_hand EXCEPT ![k] = Tail(@)]
             /\ buf = Append(port_buf[k], Head(tx_hand[k]))
    <2>1. PICK p : p = Head(tx_hand[k])
          OBVIOUS
    <2>2. /\ p \in Pkts /\ Tail(tx_hand[k]) \in Seq(Pkts)
          /\ Once(Tail(tx_hand[k])) /\ p \in ToSet(tx_hand[k])
          /\ \A x : x \in ToSet(Tail(tx_hand[k])) <=> x \in ToSet(tx_hand[k]) /\ x # p
          BY <1>1, <1>4, <2>1, HeadTail, TailHolds DEF PlacesInv, AllOnce, TxHandOnce
    <2>3. OnlyIn(p, "tx_hand", k, 0)
      <3>1. In(p, "tx_hand", k, 0)
            BY <2>2 DEF In
      <3>. QED BY <2>2, <3>1, Only DEF PlacesInv
    <2>4. p \notin ToSet(port_buf[k])
          BY <1>2, <2>2
    <2>5. /\ buf \in Seq(Pkts) /\ Once(buf)
          /\ \A x : x \in ToSet(buf) <=> x \in ToSet(port_buf[k]) \/ x = p
      <3>1. port_buf[k] \in Seq(Pkts) /\ Once(port_buf[k])
            BY <1>1 DEF PlacesInv, AllOnce, PortOnce
      <3>. QED BY <1>4, <2>1, <2>2, <2>4, <3>1, AppendHolds
    <2>6. /\ tx_hand'[k] = Tail(tx_hand[k])
          /\ \A c \in TxIds \ {k} : tx_hand'[c] = tx_hand[c]
          BY <1>1, <1>4
    <2>7. TxHandOnce'
          BY <2>2, <2>6 DEF PlacesInv, AllOnce, TxHandOnce
    <2>8. \A x : \A c \in TxIds : x \in ToSet(tx_hand'[c])
                    <=> x \in ToSet(tx_hand[c]) /\ ~(c = k /\ x \in ToSet(buf))
          BY <1>2, <2>2, <2>5, <2>6
    <2>. QED BY <1>2, <2>3, <2>5, <2>7, <2>8
  <1>. QED BY <1>3, <1>4 DEF PortFrom

(* A packet is buffered for the port. *)
LEMMA PortBufHolds ==
    ASSUME TypeOK, PlacesInv, NEW k \in TxIds, NEW buf, PortFrom(k, buf),
           port_buf' = [port_buf EXCEPT ![k] = buf],
           UNCHANGED <<arrived, sent, freed, lost, rx_q, tx_q, busy, hand, rx_bufs, tx_buf>>
    PROVE  PlacesInv'
  <1>1. /\ buf \in Seq(Pkts) /\ Once(buf) /\ TxHandOnce'
        /\ \A x \in ToSet(buf) : OnlyIn(x, "tx_hand", k, 0) \/ OnlyIn(x, "port_buf", k, 0)
        /\ \A x : \A c \in TxIds : x \in ToSet(tx_hand'[c])
                     <=> x \in ToSet(tx_hand[c]) /\ ~(c = k /\ x \in ToSet(buf))
        /\ \A x \in ToSet(port_buf[k]) : x \in ToSet(buf)
        BY PortFromHolds
  <1>2. port_buf'[k] = buf /\ \A c \in TxIds \ {k} : port_buf'[c] = port_buf[c]
        BY DEF TypeOK
  <1>3. ASSUME NEW x \in ToSet(buf) PROVE OneHolder(x)'
    <2>1. In(x, "port_buf", k, 0)'
          BY <1>2, <1>3 DEF In
    <2>2. CASE OnlyIn(x, "tx_hand", k, 0)
      <3>1. OnlyIn(x, "port_buf", k, 0)'
            BY <1>1, <1>2, <1>3, <2>2 DEF OnlyIn
      <3>. QED BY <2>1, <3>1, Moved
    <2>3. CASE OnlyIn(x, "port_buf", k, 0)
      <3>1. OnlyIn(x, "port_buf", k, 0)'
            BY <1>1, <1>2, <1>3, <2>3 DEF OnlyIn
      <3>. QED BY <2>1, <3>1, Moved
    <2>. QED BY <1>1, <1>3, <2>2, <2>3
  <1>4. ASSUME NEW x \in Pkts, x \notin ToSet(buf) PROVE OneHolder(x)'
    <2>1. Keeps(x)
          BY <1>1, <1>2, <1>4 DEF Keeps
    <2>. QED BY <2>1, Stays DEF PlacesInv
  <1>5. AllOnce'
        BY <1>1, <1>2 DEF PlacesInv, AllOnce, RxQOnce, TxQOnce, HandOnce,
                          RxBufsOnce, TxBufOnce, PortOnce
  <1>. QED BY <1>3, <1>4, <1>5 DEF PlacesInv

(* A buffer for the port is sent, and what the port does not take is freed. *)
LEMMA PortHolds ==
    ASSUME TypeOK, PlacesInv, NEW k \in TxIds, NEW buf, PortFrom(k, buf),
           FlushPort(k, buf),
           UNCHANGED <<arrived, lost, rx_q, tx_q, busy, hand, rx_bufs, tx_buf>>
    PROVE  PlacesInv'
  <1>1. /\ buf \in Seq(Pkts) /\ Once(buf) /\ TxHandOnce'
        /\ \A x \in ToSet(buf) : OnlyIn(x, "tx_hand", k, 0) \/ OnlyIn(x, "port_buf", k, 0)
        /\ \A x : \A c \in TxIds : x \in ToSet(tx_hand'[c])
                     <=> x \in ToSet(tx_hand[c]) /\ ~(c = k /\ x \in ToSet(buf))
        /\ \A x \in ToSet(port_buf[k]) : x \in ToSet(buf)
        BY PortFromHolds
  <1>2. port_buf'[k] = <<>> /\ \A c \in TxIds \ {k} : port_buf'[c] = port_buf[c]
        BY DEF FlushPort, TypeOK
  <1>3. PICK n \in 0 .. Len(buf) : /\ sent' = sent \o SubSeq(buf, 1, n)
                                   /\ freed' = freed \cup ToSet(After(buf, n))
        BY DEF FlushPort
  <1>4. PICK a, b : a = Upto(buf, n) /\ b = After(buf, n)
        OBVIOUS
  <1>5. n \in Nat /\ Len(buf) \in Nat /\ Least(n, Len(buf)) = n
        BY <1>1, <1>3 DEF Least
  <1>6. sent' = sent \o a /\ freed' = freed \cup ToSet(b)
        BY <1>3, <1>4, <1>5 DEF Upto
  <1>7. /\ \A x : x \in ToSet(buf) <=> x \in ToSet(a) \/ x \in ToSet(b)
        /\ Once(a) /\ Once(b) /\ \A x \in ToSet(a) : x \notin ToSet(b)
        /\ a \in Seq(Pkts)
        BY <1>1, <1>4, <1>5, PartsHold, Parts
  <1>8. sent \in Seq(Pkts) /\ Once(sent)
        BY DEF TypeOK, PlacesInv, AllOnce
  <1>9. \A x \in ToSet(buf) : x \notin ToSet(sent) /\ x \notin freed
        BY <1>1 DEF OnlyIn
  <1>10. /\ \A x : x \in ToSet(sent') <=> x \in ToSet(sent) \/ x \in ToSet(a)
         /\ Once(sent')
         BY <1>6, <1>7, <1>8, <1>9, ConcatHolds
  <1>11. ToSet(<<>>) = {} /\ Once(<<>>)
         BY DEF ToSet, Once
  <1>12. ASSUME NEW x \in ToSet(buf)
         PROVE  /\ \A c \in TxIds : x \notin ToSet(tx_hand'[c]) /\ x \notin ToSet(port_buf'[c])
                /\ ~(x > arrived) /\ x \notin lost
                /\ \A c \in Ids : /\ x \notin ToSet(rx_q[c]) /\ x \notin ToSet(tx_q[c])
                                  /\ x \notin ToSet(hand[c])
                /\ \A c, d \in Ids : x \notin ToSet(rx_bufs[c][d])
                /\ \A c \in NfIds : x \notin ToSet(tx_buf[c])
    <2>1. CASE OnlyIn(x, "tx_hand", k, 0)
          BY <1>1, <1>2, <1>11, <1>12, <2>1 DEF OnlyIn
    <2>2. CASE OnlyIn(x, "port_buf", k, 0)
          BY <1>1, <1>2, <1>11, <1>12, <2>2 DEF OnlyIn
    <2>. QED BY <1>1, <1>12, <2>1, <2>2
  <1>13. ASSUME NEW x \in ToSet(a) PROVE OneHolder(x)'
    <2>1. In(x, "sent", 0, 0)'
          BY <1>10, <1>13 DEF In
    <2>2. x \in ToSet(buf) /\ x \notin freed'
          BY <1>6, <1>7, <1>9, <1>13
    <2>3. OnlyIn(x, "sent", 0, 0)'
          BY <1>12, <2>2 DEF OnlyIn
    <2>. QED BY <2>1, <2>3, Moved
  <1>14. ASSUME NEW x \in ToSet(b) PROVE OneHolder(x)'
    <2>1. In(x, "freed", 0, 0)'
          BY <1>6, <1>14 DEF In
    <2>2. x \in ToSet(buf) /\ x \notin ToSet(sent')
          BY <1>7, <1>9, <1>10, <1>14
    <2>3. OnlyIn(x, "freed", 0, 0)'
          BY <1>12, <2>2 DEF OnlyIn
    <2>. QED BY <2>1, <2>3, Moved
  <1>15. ASSUME NEW x \in Pkts, x \notin ToSet(buf) PROVE OneHolder(x)'
    <2>1. Keeps(x)
          BY <1>1, <1>2, <1>6, <1>7, <1>10, <1>11, <1>15 DEF Keeps
    <2>. QED BY <2>1, Stays DEF PlacesInv
  <1>16. \A x \in Pkts : OneHolder(x)'
         BY <1>7, <1>13, <1>14, <1>15
  <1>17. AllOnce'
         BY <1>1, <1>2, <1>10, <1>11 DEF PlacesInv, AllOnce, RxQOnce, TxQOnce, HandOnce,
                          RxBufsOnce, TxBufOnce, PortOnce
  <1>. QED BY <1>16, <1>17 DEF PlacesInv

(* The RX thread takes a burst from the wire. *)
LEMMA BurstHolds ==
    ASSUME TypeOK, PlacesInv, NEW n \in 1 .. PKT_RD_SIZE, RxBurst(n)
    PROVE  PlacesInv'
  <1>1. /\ hand \in [Ids -> Seq(Pkts)] /\ busy \in [Ids -> BOOLEAN]
        /\ arrived \in Nat /\ n \in Nat /\ PKTS \in Nat /\ 0 \in Ids
        BY IdFacts DEF TypeOK
  <1>2. /\ arrived + n <= PKTS /\ arrived' = arrived + n /\ ~busy[0] /\ hand[0] = <<>>
        /\ UNCHANGED <<sent, lost, rx_q, tx_q, rx_bufs, tx_buf, tx_hand, port_buf>>
        BY <1>1 DEF RxBurst, Rx, rings, txThreads, PlacesInv
  <1> DEFINE B == arrived + 1 .. arrived + n
  <1>3. /\ \A x \in Pkts : x > arrived' <=> x > arrived /\ x \notin B
        /\ \A x \in B : x \in Pkts /\ x > arrived /\ ~(x > arrived')
        BY <1>1, <1>2 DEF Pkts
  <1> HIDE DEF B
  <1>4. \A x \in B : OnlyIn(x, "wire", 0, 0)
    <2>1. \A x \in B : In(x, "wire", 0, 0)
          BY <1>3 DEF In
    <2>. QED BY <1>3, <2>1, Only DEF PlacesInv
  <1>5. CASE freed' = freed \cup B /\ UNCHANGED <<busy, hand>>
    <2>1. ASSUME NEW x \in B PROVE OneHolder(x)'
      <3>1. In(x, "freed", 0, 0)'
            BY <1>5, <2>1 DEF In
      <3>2. OnlyIn(x, "freed", 0, 0)'
            BY <1>2, <1>3, <1>4, <1>5, <2>1 DEF OnlyIn
      <3>. QED BY <3>1, <3>2, Moved
    <2>2. ASSUME NEW x \in Pkts, x \notin B PROVE OneHolder(x)'
      <3>1. Keeps(x)
            BY <1>2, <1>3, <1>5, <2>2 DEF Keeps
      <3>. QED BY <3>1, Stays DEF PlacesInv
    <2>3. AllOnce'
          BY <1>2, <1>5 DEF PlacesInv, AllOnce, RxQOnce, TxQOnce, HandOnce,
                            RxBufsOnce, TxBufOnce, TxHandOnce, PortOnce
    <2>. QED BY <1>5, <2>1, <2>2, <2>3 DEF PlacesInv
  <1>6. CASE /\ busy' = [busy EXCEPT ![0] = TRUE] /\ UNCHANGED freed
             /\ hand' = [hand EXCEPT ![0] = [j \in 1 .. n |-> arrived + j]]
    <2>1. PICK s : s = [j \in 1 .. n |-> arrived + j]
          OBVIOUS
    <2>2. /\ DOMAIN s = 1 .. n /\ Len(s) = n /\ \A j \in 1 .. n : s[j] = arrived + j
          BY <1>1, <2>1
    <2>3. \A x : x \in ToSet(s) <=> x \in B
      <3>1. \A j \in 1 .. n : arrived + j \in B
            BY <1>1 DEF B
      <3>2. ASSUME NEW x \in B PROVE \E j \in 1 .. n : s[j] = x
        <4>1. x - arrived \in 1 .. n /\ arrived + (x - arrived) = x
              BY <1>1, <3>2 DEF B
        <4>. QED BY <2>2, <4>1
      <3>. QED BY <2>2, <3>1, <3>2 DEF ToSet
    <2>4. Once(s)
          BY <1>1, <2>2 DEF Once
    <2>5. /\ hand'[0] = s /\ \A c \in Ids \ {0} : hand'[c] = hand[c]
          /\ busy'[0] = TRUE /\ \A c \in Ids \ {0} : busy'[c] = busy[c]
          BY <1>1, <1>6, <2>1
    <2>6. ToSet(<<>>) = {}
          BY DEF ToSet
    <2>7. ASSUME NEW x \in B PROVE OneHolder(x)'
      <3>1. In(x, "hand", 0, 0)'
            BY <1>1, <2>3, <2>5, <2>7 DEF In
      <3>2. OnlyIn(x, "hand", 0, 0)'
            BY <1>2, <1>3, <1>4, <1>6, <2>5, <2>7 DEF OnlyIn
      <3>. QED BY <3>1, <3>2, Moved
    <2>8. ASSUME NEW x \in Pkts, x \notin B PROVE OneHolder(x)'
      <3>1. Keeps(x)
            BY <1>2, <1>3, <1>6, <2>3, <2>5, <2>6, <2>8 DEF Keeps
      <3>. QED BY <3>1, Stays DEF PlacesInv
    <2>9. AllOnce'
          BY <1>2, <2>4, <2>5 DEF PlacesInv, AllOnce, RxQOnce, TxQOnce, HandOnce,
                            RxBufsOnce, TxBufOnce, TxHandOnce, PortOnce
    <2>10. \A c \in Ids : ~busy'[c] => hand'[c] = <<>>
           BY <2>5 DEF PlacesInv
    <2>. QED BY <2>7, <2>8, <2>9, <2>10 DEF PlacesInv
  <1>. QED BY <1>5, <1>6 DEF RxBurst, Rx, B

(* A process ends with what it has. *)
LEMMA VanishHolds ==
    ASSUME TypeOK, PlacesInv, NEW id \in NfIds, Vanish(id),
           UNCHANGED <<arrived, sent, freed, rx_q, tx_q, tx_hand, port_buf>>
    PROVE  PlacesInv'
  <1>1. /\ hand \in [Ids -> Seq(Pkts)] /\ rx_bufs \in [Ids -> [Ids -> Seq(Pkts)]]
        /\ tx_buf \in [NfIds -> Seq(Pkts)] /\ busy \in [Ids -> BOOLEAN]
        /\ 0 \in Ids /\ id \in Ids /\ NfIds \subseteq Ids
        BY IdFacts DEF TypeOK
  <1>2. /\ hand'[id] = <<>> /\ \A c \in Ids \ {id} : hand'[c] = hand[c]
        /\ tx_buf'[id] = <<>> /\ \A c \in NfIds \ {id} : tx_buf'[c] = tx_buf[c]
        /\ \A d \in Ids : rx_bufs'[id][d] = <<>>
        /\ \A c \in Ids \ {id} : rx_bufs'[c] = rx_bufs[c]
        /\ \A c \in Ids \ {id} : busy'[c] = busy[c]
        BY <1>1 DEF Vanish
  <1>3. ToSet(<<>>) = {} /\ Once(<<>>)
        BY DEF ToSet, Once
  <1> DEFINE B == ToSet(hand[id]) \cup Contents(rx_bufs[id]) \cup ToSet(tx_buf[id])
  <1>4. lost' = lost \cup B
        BY DEF Vanish
  <1>5. \A x : x \in B <=> \/ x \in ToSet(hand[id]) \/ x \in ToSet(tx_buf[id])
                           \/ \E d \in Ids : x \in ToSet(rx_bufs[id][d])
        BY DEF Contents
  <1> HIDE DEF B
  <1>6. ASSUME NEW x \in B
        PROVE  \/ OnlyIn(x, "hand", id, 0) \/ OnlyIn(x, "tx_buf", id, 0)
               \/ \E d \in Ids : OnlyIn(x, "rx_bufs", id, d)
    <2>1. x \in Pkts
          BY <1>1, <1>5, <1>6, SetOf
    <2>2. \/ In(x, "hand", id, 0) \/ In(x, "tx_buf", id, 0)
          \/ \E d \in Ids : In(x, "rx_bufs", id, d)
          BY <1>1, <1>5, <1>6 DEF In
    <2>. QED BY <2>1, <2>2, Only DEF PlacesInv
  <1>7. ASSUME NEW x \in B PROVE OneHolder(x)'
    <2>1. In(x, "lost", 0, 0)'
          BY <1>4, <1>7 DEF In
    <2>2. OnlyIn(x, "lost", 0, 0)'
      <3>1. CASE OnlyIn(x, "hand", id, 0)
            BY <1>1, <1>2, <1>3, <3>1 DEF OnlyIn
      <3>2. CASE OnlyIn(x, "tx_buf", id, 0)
            BY <1>1, <1>2, <1>3, <3>2 DEF OnlyIn
      <3>3. ASSUME NEW d \in Ids, OnlyIn(x, "rx_bufs", id, d) PROVE OnlyIn(x, "lost", 0, 0)'
            BY <1>1, <1>2, <1>3, <3>3 DEF OnlyIn
      <3>. QED BY <1>6, <1>7, <3>1, <3>2, <3>3
    <2>. QED BY <2>1, <2>2, Moved
  <1>8. ASSUME NEW x \in Pkts, x \notin B PROVE OneHolder(x)'
    <2>1. Keeps(x)
          BY <1>1, <1>2, <1>3, <1>4, <1>5, <1>8 DEF Keeps
    <2>. QED BY <2>1, Stays DEF PlacesInv
  <1>9. AllOnce'
        BY <1>2, <1>3 DEF PlacesInv, AllOnce, RxQOnce, TxQOnce, HandOnce,
                          RxBufsOnce, TxBufOnce, TxHandOnce, PortOnce
  <1>10. \A c \in Ids : ~busy'[c] => hand'[c] = <<>>
         BY <1>2 DEF PlacesInv
  <1>. QED BY <1>7, <1>8, <1>9, <1>10 DEF PlacesInv

(* A step that moves no packet. *)
LEMMA QuietHolds ==
    ASSUME PlacesInv,
           UNCHANGED <<arrived, sent, freed, lost, rings, busy, hand, rx_bufs, tx_buf,
                       txThreads>>
    PROVE  PlacesInv'
  <1>1. ASSUME NEW x \in Pkts PROVE OneHolder(x)'
    <2>1. Keeps(x)
          BY DEF Keeps, rings, txThreads
    <2>. QED BY <2>1, Stays DEF PlacesInv
  <1>2. AllOnce'
        BY DEF PlacesInv, AllOnce, RxQOnce, TxQOnce, HandOnce, RxBufsOnce, TxBufOnce,
               TxHandOnce, PortOnce, rings, txThreads
  <1>. QED BY <1>1, <1>2 DEF PlacesInv

(* At first, all packets are on the wire. *)
LEMMA PlacesInit == Init => PlacesInv
  <1> SUFFICES ASSUME Init PROVE PlacesInv
      OBVIOUS
  <1>1. ToSet(<<>>) = {} /\ Once(<<>>)
        BY DEF ToSet, Once
  <1>2. ASSUME NEW x \in Pkts PROVE OneHolder(x)
    <2>1. x > arrived
          BY DEF Init, Pkts
    <2>2. In(x, "wire", 0, 0)
          BY <2>1 DEF In
    <2>3. OnlyIn(x, "wire", 0, 0)
          BY <1>1 DEF Init, OnlyIn
    <2>. QED BY <2>2, <2>3 DEF OneHolder
  <1>3. AllOnce
        BY <1>1, IdFacts DEF Init, AllOnce, RxQOnce, TxQOnce, HandOnce, RxBufsOnce,
                   TxBufOnce, TxHandOnce, PortOnce
  <1>. QED BY <1>2, <1>3 DEF PlacesInv, Init

(* EnqueueBq puts the packet in a buffer or frees it. *)
LEMMA EnqueueIs ==
    ASSUME NEW th, NEW p, NEW t, EnqueueBq(th, p, t)
    PROVE  \/ freed' = freed \cup {p} /\ UNCHANGED rx_bufs
           \/ \E id \in Ids : /\ rx_bufs' = [rx_bufs EXCEPT ![th][id] = Append(@, p)]
                              /\ UNCHANGED freed
  BY DEF EnqueueBq

(* The RX thread, past the wire. *)
LEMMA PlacesRx ==
    ASSUME TypeOK, PlacesInv, RxStep
    PROVE  PlacesInv'
  <1>1. CASE RxPacket
    <2>1. /\ hand[0] # <<>> /\ hand' = [hand EXCEPT ![0] = Tail(@)]
          /\ EnqueueBq(0, Head(hand[0]), 1)
          /\ UNCHANGED <<arrived, sent, lost, rx_q, tx_q, busy, tx_buf, tx_hand, port_buf>>
          BY <1>1 DEF RxPacket, HasNext, Rx, rings, txThreads
    <2>2. \/ freed' = freed \cup {Head(hand[0])} /\ UNCHANGED <<rx_bufs, tx_buf, tx_q>>
          \/ \E id \in Ids :
                /\ rx_bufs' = [rx_bufs EXCEPT ![0][id] = Append(@, Head(hand[0]))]
                /\ UNCHANGED <<freed, tx_buf, tx_q>>
          BY <2>1, EnqueueIs
    <2>. QED BY <2>1, <2>2, HandOff, IdFacts
  <1>2. CASE FlushFull(Rx)
    <2>1. full[0] \in Ids
          BY IdFacts DEF TypeOK
    <2>2. /\ Flush(0, {full[0]})
          /\ UNCHANGED <<arrived, sent, lost, tx_q, busy, hand, tx_buf, tx_hand, port_buf>>
          BY <1>2 DEF FlushFull, Rx, txThreads
    <2>3. \A a \in Ids : ~busy'[a] => hand'[a] = <<>>
          BY <2>2 DEF PlacesInv
    <2>. QED BY <2>1, <2>2, <2>3, FlushHolds, IdFacts
  <1>3. CASE RxFlush
    <2>1. /\ Flush(0, Ids) /\ hand[0] = <<>> /\ busy' = [busy EXCEPT ![0] = FALSE]
          /\ UNCHANGED <<arrived, sent, lost, tx_q, hand, tx_buf, tx_hand, port_buf>>
          BY <1>3 DEF RxFlush, Rx, txThreads, BatchDone
    <2>2. \A a \in Ids : ~busy'[a] => hand'[a] = <<>>
          BY <2>1 DEF PlacesInv, TypeOK
    <2>. QED BY <2>1, <2>2, FlushHolds, IdFacts
  <1>. QED BY <1>1, <1>2, <1>3 DEF RxStep

(* An NF. *)
LEMMA PlacesNf ==
    ASSUME TypeOK, PlacesInv, NEW id \in NfIds, NfStep(id)
    PROVE  PlacesInv'
  <1>0. id \in Ids
        BY IdFacts
  <1>1. CASE NfPacket(id)
    <2>1. PICK p, buf : p = Head(hand[id]) /\ buf = Append(tx_buf[id], p)
          OBVIOUS
    <2>2. /\ hand[id] # <<>> /\ hand' = [hand EXCEPT ![id] = Tail(@)]
          /\ UNCHANGED <<arrived, sent, lost, rx_q, busy, tx_hand, port_buf>>
          BY <1>1 DEF NfPacket, HasNext, txThreads
    <2>3. \/ freed' = freed \cup {p} /\ UNCHANGED <<rx_bufs, tx_buf, tx_q>>
          \/ EnqueueBq(id, p, meta[p].dst) /\ UNCHANGED <<tx_buf, tx_q>>
          \/ EnqueueTxRing(id, buf) /\ UNCHANGED rx_bufs
          \/ /\ tx_buf' = [tx_buf EXCEPT ![id] = buf]
             /\ UNCHANGED <<tx_q, freed, rx_bufs>>
          BY <1>1, <2>1 DEF NfPacket
    <2>4. CASE EnqueueTxRing(id, buf) /\ UNCHANGED rx_bufs
      <3>1. /\ hand[id] \in Seq(Pkts) /\ tx_buf[id] \in Seq(Pkts) /\ Once(tx_buf[id])
            BY <1>0 DEF TypeOK, PlacesInv, AllOnce, TxBufOnce
      <3>2. p \in Pkts /\ p = hand[id][1] /\ 1 \in 1 .. Len(hand[id])
            BY <2>1, <2>2, <3>1, HeadTail
      <3>3. In(p, "hand", id, 0)
            BY <1>0, <3>1, <3>2, InSet DEF In
      <3>4. OnlyIn(p, "hand", id, 0)
            BY <3>2, <3>3, Only DEF PlacesInv
      <3>5. p \notin ToSet(tx_buf[id])
            BY <3>4 DEF OnlyIn
      <3>6. buf \in Seq(Pkts) /\ Once(buf)
            BY <2>1, <3>1, <3>2, <3>5, AppendHolds
      <3>. QED BY <2>1, <2>2, <2>4, <3>6, TxRingHolds
    <2>5. CASE ~(EnqueueTxRing(id, buf) /\ UNCHANGED rx_bufs)
      <3>1. \/ freed' = freed \cup {Head(hand[id])} /\ UNCHANGED <<rx_bufs, tx_buf, tx_q>>
            \/ \E j \in Ids :
                  /\ rx_bufs' = [rx_bufs EXCEPT ![id][j] = Append(@, Head(hand[id]))]
                  /\ UNCHANGED <<freed, tx_buf, tx_q>>
            \/ /\ id \in NfIds
               /\ tx_buf' = [tx_buf EXCEPT ![id] = Append(@, Head(hand[id]))]
               /\ UNCHANGED <<freed, rx_bufs, tx_q>>
            BY <2>1, <2>3, <2>5, EnqueueIs
      <3>. QED BY <1>0, <2>2, <3>1, HandOff
    <2>. QED BY <2>4, <2>5
  <1>2. CASE FlushFull(id)
    <2>1. full[id] \in Ids
          BY <1>0 DEF TypeOK
    <2>2. /\ Flush(id, {full[id]})
          /\ UNCHANGED <<arrived, sent, lost, tx_q, busy, hand, tx_buf, tx_hand, port_buf>>
          BY <1>2 DEF FlushFull, txThreads
    <2>3. \A a \in Ids : ~busy'[a] => hand'[a] = <<>>
          BY <2>2 DEF PlacesInv
    <2>. QED BY <1>0, <2>1, <2>2, <2>3, FlushHolds
  <1>3. CASE NfFlush(id)
    <2>1. /\ Flush(id, Ids) /\ hand[id] = <<>> /\ busy' = [busy EXCEPT ![id] = FALSE]
          /\ UNCHANGED <<arrived, sent, lost, tx_q, hand, tx_buf, tx_hand, port_buf>>
          BY <1>3 DEF NfFlush, txThreads, BatchDone
    <2>2. \A a \in Ids : ~busy'[a] => hand'[a] = <<>>
          BY <2>1 DEF PlacesInv, TypeOK
    <2>. QED BY <1>0, <2>1, <2>2, FlushHolds
  <1>4. CASE NfFlushTx(id)
    <2>1. tx_buf[id] \in Seq(Pkts) /\ Once(tx_buf[id])
          BY DEF TypeOK, PlacesInv, AllOnce, TxBufOnce
    <2>2. /\ EnqueueTxRing(id, tx_buf[id])
          /\ UNCHANGED <<arrived, sent, lost, rx_q, rx_bufs, busy, hand, tx_hand, port_buf>>
          BY <1>4 DEF NfFlushTx, txThreads
    <2>. QED BY <2>1, <2>2, TxRingHolds
  <1>. QED BY <1>1, <1>2, <1>3, <1>4, DequeueHolds DEF NfStep

(* A TX thread. *)
LEMMA PlacesTx ==
    ASSUME TypeOK, PlacesInv, NEW k \in TxIds, TxStep(k)
    PROVE  PlacesInv'
  <1>1. CASE TxPacket(k)
    <2>1. PICK buf : buf = Append(port_buf[k], Head(tx_hand[k]))
          OBVIOUS
    <2>2. /\ tx_hand[k] # <<>> /\ tx_hand' = [tx_hand EXCEPT ![k] = Tail(@)]
          /\ UNCHANGED <<arrived, lost, rx_q, tx_q, busy, hand, rx_bufs, tx_buf>>
          /\ \/ FlushPort(k, buf)
             \/ port_buf' = [port_buf EXCEPT ![k] = buf] /\ UNCHANGED <<sent, freed>>
          BY <1>1, <2>1 DEF TxPacket, rings, senders
    <2>3. PortFrom(k, buf)
          BY <2>1, <2>2 DEF PortFrom
    <2>. QED BY <2>2, <2>3, PortHolds, PortBufHolds
  <1>2. CASE TxFlush(k)
    <2>1. PortFrom(k, port_buf[k]) /\ FlushPort(k, port_buf[k])
          BY <1>2 DEF TxFlush, PortFrom
    <2>2. UNCHANGED <<arrived, lost, rx_q, tx_q, busy, hand, rx_bufs, tx_buf>>
          BY <1>2 DEF TxFlush, rings, senders
    <2>. QED BY <2>1, <2>2, PortHolds
  <1>. QED BY <1>1, <1>2, TxDequeueHolds DEF TxStep

(* The life cycle of an NF. *)
LEMMA PlacesLife ==
    ASSUME TypeOK, PlacesInv, NEW id \in NfIds, Life(id)
    PROVE  PlacesInv'
  <1>1. CASE NfReady(id) \/ Handshake(id) \/ Signal(id) \/ Deregistered(id)
    <2>1. UNCHANGED <<arrived, sent, freed, lost, rings, busy, hand, rx_bufs, tx_buf,
                      txThreads>>
          BY <1>1 DEF NfReady, Handshake, Signal, Deregistered, senders
    <2>. QED BY <2>1, QuietHolds
  <1>2. CASE Quit(id) \/ Kill(id)
    <2>1. /\ Vanish(id)
          /\ UNCHANGED <<arrived, sent, freed, rx_q, tx_q, tx_hand, port_buf>>
          BY <1>2 DEF Quit, Kill, rings, txThreads
    <2>. QED BY <2>1, VanishHolds
  <1>. QED BY <1>1, <1>2 DEF Life

(* Every step keeps one holder for every packet. *)
LEMMA PlacesNext == TypeOK /\ PlacesInv /\ [Next]_vars => PlacesInv'
  <1> SUFFICES ASSUME TypeOK, PlacesInv, [Next]_vars PROVE PlacesInv'
      OBVIOUS
  <1>1. CASE UNCHANGED vars
    <2>1. UNCHANGED <<arrived, sent, freed, lost, rings, busy, hand, rx_bufs, tx_buf,
                      txThreads>>
          BY <1>1 DEF vars, senders
    <2>. QED BY <2>1, QuietHolds
  <1>2. CASE Next
        BY <1>2, BurstHolds, PlacesRx, PlacesNf, PlacesTx, PlacesLife DEF Next
  <1>. QED BY <1>1, <1>2

(* The places of a packet in one sequence, and in a family of sequences. *)
LEMMA OccursIs ==
    ASSUME NEW s \in Seq(Pkts), Once(s), NEW p
    PROVE  IF p \in ToSet(s) THEN \E j : Occurs(p, s) = {j} ELSE Occurs(p, s) = {}
  <1>1. p \in ToSet(s) <=> \E j \in 1 .. Len(s) : s[j] = p
        BY InSet
  <1>2. ASSUME NEW j \in 1 .. Len(s), s[j] = p PROVE Occurs(p, s) = {j}
        BY <1>2 DEF Occurs, Once
  <1>. QED BY <1>1, <1>2 DEF Occurs

Family(C, kind, p, q) == UNION {{<<kind, c, j>> : j \in Occurs(p, q[c])} : c \in C}
HoldsOnce(C, kind, p, q, a) == \E j : Family(C, kind, p, q) = {<<kind, a, j>>}
(* A family of queues holds a packet in one place when one of them does ... *)
LEMMA FamilyOne ==
    ASSUME NEW C, NEW kind, NEW q, NEW p \in Pkts, NEW a \in C,
           \A c \in C : q[c] \in Seq(Pkts) /\ Once(q[c]),
           \A c \in C : p \in ToSet(q[c]) <=> c = a
    PROVE  HoldsOnce(C, kind, p, q, a)
  <1>0. PICK f : f = [c \in C |-> Occurs(p, q[c])]
        OBVIOUS
  <1>1. Family(C, kind, p, q) = UNION {{<<kind, c, j>> : j \in f[c]} : c \in C}
        BY <1>0 DEF Family
  <1>2. PICK j : f[a] = {j}
        BY <1>0, OccursIs
  <1>3. \A c \in C \ {a} : f[c] = {}
        BY <1>0, OccursIs
  <1>4. UNION {{<<kind, c, i>> : i \in f[c]} : c \in C} = {<<kind, a, j>>}
        BY <1>2, <1>3
  <1>. QED BY <1>1, <1>4 DEF HoldsOnce

(* ... and in none when no queue of it holds it. *)
LEMMA FamilyNone ==
    ASSUME NEW C, NEW kind, NEW q, NEW p \in Pkts,
           \A c \in C : q[c] \in Seq(Pkts) /\ Once(q[c]),
           \A c \in C : p \notin ToSet(q[c])
    PROVE  Family(C, kind, p, q) = {}
  <1>0. PICK f : f = [c \in C |-> Occurs(p, q[c])]
        OBVIOUS
  <1>1. Family(C, kind, p, q) = UNION {{<<kind, c, j>> : j \in f[c]} : c \in C}
        BY <1>0 DEF Family
  <1>2. \A c \in C : f[c] = {}
        BY <1>0, OccursIs
  <1>3. UNION {{<<kind, c, i>> : i \in f[c]} : c \in C} = {}
        BY <1>2
  <1>. QED BY <1>1, <1>3

(* A holder that is the only one, and holds the packet once, is one place. *)
LEMMA OnePlace == TypeOK /\ PlacesInv => Conserved
  <1> SUFFICES ASSUME TypeOK, PlacesInv, NEW p \in Pkts
               PROVE  \E x : Places(p) = {x}
      BY FS_Singleton DEF Conserved
  <1>1. PICK k, a, b : In(p, k, a, b) /\ OnlyIn(p, k, a, b)
        BY DEF PlacesInv, OneHolder
  <1>2. /\ sent \in Seq(Pkts) /\ Once(sent)
        /\ \A c \in Ids : /\ rx_q[c] \in Seq(Pkts) /\ Once(rx_q[c])
                          /\ tx_q[c] \in Seq(Pkts) /\ Once(tx_q[c])
                          /\ hand[c] \in Seq(Pkts) /\ Once(hand[c])
        /\ \A c, d \in Ids : rx_bufs[c][d] \in Seq(Pkts) /\ Once(rx_bufs[c][d])
        /\ \A c \in NfIds : tx_buf[c] \in Seq(Pkts) /\ Once(tx_buf[c])
        /\ \A c \in TxIds : /\ tx_hand[c] \in Seq(Pkts) /\ Once(tx_hand[c])
                            /\ port_buf[c] \in Seq(Pkts) /\ Once(port_buf[c])
        BY DEF TypeOK, PlacesInv, AllOnce, RxQOnce, TxQOnce, HandOnce, RxBufsOnce,
               TxBufOnce, TxHandOnce, PortOnce
  <1>3. p \in 1 .. PKTS /\ arrived \in Nat
        BY IdFacts DEF Pkts, TypeOK
  <1> DEFINE
        Wire == {<<"wire", 0, 0>> : j \in {p} \ 1 .. arrived}
        Freed == {<<"freed", 0, 0>> : j \in {p} \cap freed}
        Lost == {<<"lost", 0, 0>> : j \in {p} \cap lost}
        Sent == {<<"sent", 0, j>> : j \in Occurs(p, sent)}
        RxQ == UNION {{<<"rx_q", id, j>> : j \in Occurs(p, rx_q[id])} : id \in Ids}
        TxQ == UNION {{<<"tx_q", id, j>> : j \in Occurs(p, tx_q[id])} : id \in Ids}
        Hand == UNION {{<<"hand", th, j>> : j \in Occurs(p, hand[th])} : th \in Ids}
        RxBufs == UNION {{<<"rx_bufs", th, id * PKTS + j>> :
                            j \in Occurs(p, rx_bufs[th][id])} : th, id \in Ids}
        TxBuf == UNION {{<<"tx_buf", id, j>> : j \in Occurs(p, tx_buf[id])} : id \in NfIds}
        TxHand == UNION {{<<"tx_hand", c, j>> : j \in Occurs(p, tx_hand[c])} : c \in TxIds}
        Port == UNION {{<<"port_buf", c, j>> : j \in Occurs(p, port_buf[c])} : c \in TxIds}
  <1>4. Places(p) = UNION {Wire, Freed, Lost, Sent, RxQ, TxQ, Hand, RxBufs, TxBuf,
                           TxHand, Port}
        BY DEF Places
  <1>5. Wire = IF k = "wire" THEN {<<"wire", 0, 0>>} ELSE {}
        BY <1>1, <1>3 DEF In, OnlyIn
  <1>6. Freed = IF k = "freed" THEN {<<"freed", 0, 0>>} ELSE {}
        BY <1>1 DEF In, OnlyIn
  <1>7. Lost = IF k = "lost" THEN {<<"lost", 0, 0>>} ELSE {}
        BY <1>1 DEF In, OnlyIn
  <1>8. /\ k = "sent" => \E x : Sent = {x}
        /\ k # "sent" => Sent = {}
    <2>1. k = "sent" <=> p \in ToSet(sent)
          BY <1>1 DEF In, OnlyIn
    <2>2. CASE k = "sent"
      <3>1. PICK j : Occurs(p, sent) = {j}
            BY <1>2, <2>1, <2>2, OccursIs
      <3>2. Sent = {<<"sent", 0, j>>}
            BY <3>1
      <3>. QED BY <2>2, <3>2
    <2>3. CASE k # "sent"
      <3>1. Occurs(p, sent) = {}
            BY <1>2, <2>1, <2>3, OccursIs
      <3>. QED BY <2>3, <3>1
    <2>. QED BY <2>2, <2>3
  <1>9. /\ k = "rx_q" => \E x : RxQ = {x}
        /\ k # "rx_q" => RxQ = {}
    <2>1. k = "rx_q" => a \in Ids
          BY <1>1 DEF In
    <2>2. \A c \in Ids : p \in ToSet(rx_q[c]) <=> k = "rx_q" /\ c = a
          BY <1>1 DEF In, OnlyIn
    <2>3. RxQ = Family(Ids, "rx_q", p, rx_q)
          BY DEF Family
    <2>4. CASE k = "rx_q"
      <3>1. /\ a \in Ids /\ \A c \in Ids : p \in ToSet(rx_q[c]) <=> c = a
            /\ \A c \in Ids : rx_q[c] \in Seq(Pkts) /\ Once(rx_q[c])
            BY <1>2, <2>1, <2>2, <2>4
      <3>2. HoldsOnce(Ids, "rx_q", p, rx_q, a)
            BY <3>1, FamilyOne
      <3>. QED BY <2>3, <2>4, <3>2 DEF HoldsOnce
    <2>5. CASE k # "rx_q"
      <3>1. /\ \A c \in Ids : p \notin ToSet(rx_q[c])
            /\ \A c \in Ids : rx_q[c] \in Seq(Pkts) /\ Once(rx_q[c])
            BY <1>2, <2>2, <2>5
      <3>2. Family(Ids, "rx_q", p, rx_q) = {}
            BY <3>1, FamilyNone
      <3>. QED BY <2>3, <2>5, <3>2
    <2> HIDE DEF RxQ
    <2>. QED BY <2>4, <2>5
  <1>10. /\ k = "tx_q" => \E x : TxQ = {x}
         /\ k # "tx_q" => TxQ = {}
    <2>1. k = "tx_q" => a \in Ids
          BY <1>1 DEF In
    <2>2. \A c \in Ids : p \in ToSet(tx_q[c]) <=> k = "tx_q" /\ c = a
          BY <1>1 DEF In, OnlyIn
    <2>3. TxQ = Family(Ids, "tx_q", p, tx_q)
          BY DEF Family
    <2>4. CASE k = "tx_q"
      <3>1. /\ a \in Ids /\ \A c \in Ids : p \in ToSet(tx_q[c]) <=> c = a
            /\ \A c \in Ids : tx_q[c] \in Seq(Pkts) /\ Once(tx_q[c])
            BY <1>2, <2>1, <2>2, <2>4
      <3>2. HoldsOnce(Ids, "tx_q", p, tx_q, a)
            BY <3>1, FamilyOne
      <3>. QED BY <2>3, <2>4, <3>2 DEF HoldsOnce
    <2>5. CASE k # "tx_q"
      <3>1. /\ \A c \in Ids : p \notin ToSet(tx_q[c])
            /\ \A c \in Ids : tx_q[c] \in Seq(Pkts) /\ Once(tx_q[c])
            BY <1>2, <2>2, <2>5
      <3>2. Family(Ids, "tx_q", p, tx_q) = {}
            BY <3>1, FamilyNone
      <3>. QED BY <2>3, <2>5, <3>2
    <2> HIDE DEF TxQ
    <2>. QED BY <2>4, <2>5
  <1>11. /\ k = "hand" => \E x : Hand = {x}
         /\ k # "hand" => Hand = {}
    <2>1. k = "hand" => a \in Ids
          BY <1>1 DEF In
    <2>2. \A c \in Ids : p \in ToSet(hand[c]) <=> k = "hand" /\ c = a
          BY <1>1 DEF In, OnlyIn
    <2>3. Hand = Family(Ids, "hand", p, hand)
          BY DEF Family
    <2>4. CASE k = "hand"
      <3>1. /\ a \in Ids /\ \A c \in Ids : p \in ToSet(hand[c]) <=> c = a
            /\ \A c \in Ids : hand[c] \in Seq(Pkts) /\ Once(hand[c])
            BY <1>2, <2>1, <2>2, <2>4
      <3>2. HoldsOnce(Ids, "hand", p, hand, a)
            BY <3>1, FamilyOne
      <3>. QED BY <2>3, <2>4, <3>2 DEF HoldsOnce
    <2>5. CASE k # "hand"
      <3>1. /\ \A c \in Ids : p \notin ToSet(hand[c])
            /\ \A c \in Ids : hand[c] \in Seq(Pkts) /\ Once(hand[c])
            BY <1>2, <2>2, <2>5
      <3>2. Family(Ids, "hand", p, hand) = {}
            BY <3>1, FamilyNone
      <3>. QED BY <2>3, <2>5, <3>2
    <2> HIDE DEF Hand
    <2>. QED BY <2>4, <2>5
  <1>12. /\ k = "tx_buf" => \E x : TxBuf = {x}
         /\ k # "tx_buf" => TxBuf = {}
    <2>1. k = "tx_buf" => a \in NfIds
          BY <1>1 DEF In
    <2>2. \A c \in NfIds : p \in ToSet(tx_buf[c]) <=> k = "tx_buf" /\ c = a
          BY <1>1 DEF In, OnlyIn
    <2>3. TxBuf = Family(NfIds, "tx_buf", p, tx_buf)
          BY DEF Family
    <2>4. CASE k = "tx_buf"
      <3>1. /\ a \in NfIds /\ \A c \in NfIds : p \in ToSet(tx_buf[c]) <=> c = a
            /\ \A c \in NfIds : tx_buf[c] \in Seq(Pkts) /\ Once(tx_buf[c])
            BY <1>2, <2>1, <2>2, <2>4
      <3>2. HoldsOnce(NfIds, "tx_buf", p, tx_buf, a)
            BY <3>1, FamilyOne
      <3>. QED BY <2>3, <2>4, <3>2 DEF HoldsOnce
    <2>5. CASE k # "tx_buf"
      <3>1. /\ \A c \in NfIds : p \notin ToSet(tx_buf[c])
            /\ \A c \in NfIds : tx_buf[c] \in Seq(Pkts) /\ Once(tx_buf[c])
            BY <1>2, <2>2, <2>5
      <3>2. Family(NfIds, "tx_buf", p, tx_buf) = {}
            BY <3>1, FamilyNone
      <3>. QED BY <2>3, <2>5, <3>2
    <2> HIDE DEF TxBuf
    <2>. QED BY <2>4, <2>5
  <1>13. /\ k = "tx_hand" => \E x : TxHand = {x}
         /\ k # "tx_hand" => TxHand = {}
    <2>1. k = "tx_hand" => a \in TxIds
          BY <1>1 DEF In
    <2>2. \A c \in TxIds : p \in ToSet(tx_hand[c]) <=> k = "tx_hand" /\ c = a
          BY <1>1 DEF In, OnlyIn
    <2>3. TxHand = Family(TxIds, "tx_hand", p, tx_hand)
          BY DEF Family
    <2>4. CASE k = "tx_hand"
      <3>1. /\ a \in TxIds /\ \A c \in TxIds : p \in ToSet(tx_hand[c]) <=> c = a
            /\ \A c \in TxIds : tx_hand[c] \in Seq(Pkts) /\ Once(tx_hand[c])
            BY <1>2, <2>1, <2>2, <2>4
      <3>2. HoldsOnce(TxIds, "tx_hand", p, tx_hand, a)
            BY <3>1, FamilyOne
      <3>. QED BY <2>3, <2>4, <3>2 DEF HoldsOnce
    <2>5. CASE k # "tx_hand"
      <3>1. /\ \A c \in TxIds : p \notin ToSet(tx_hand[c])
            /\ \A c \in TxIds : tx_hand[c] \in Seq(Pkts) /\ Once(tx_hand[c])
            BY <1>2, <2>2, <2>5
      <3>2. Family(TxIds, "tx_hand", p, tx_hand) = {}
            BY <3>1, FamilyNone
      <3>. QED BY <2>3, <2>5, <3>2
    <2> HIDE DEF TxHand
    <2>. QED BY <2>4, <2>5
  <1>14. /\ k = "port_buf" => \E x : Port = {x}
         /\ k # "port_buf" => Port = {}
    <2>1. k = "port_buf" => a \in TxIds
          BY <1>1 DEF In
    <2>2. \A c \in TxIds : p \in ToSet(port_buf[c]) <=> k = "port_buf" /\ c = a
          BY <1>1 DEF In, OnlyIn
    <2>3. Port = Family(TxIds, "port_buf", p, port_buf)
          BY DEF Family
    <2>4. CASE k = "port_buf"
      <3>1. /\ a \in TxIds /\ \A c \in TxIds : p \in ToSet(port_buf[c]) <=> c = a
            /\ \A c \in TxIds : port_buf[c] \in Seq(Pkts) /\ Once(port_buf[c])
            BY <1>2, <2>1, <2>2, <2>4
      <3>2. HoldsOnce(TxIds, "port_buf", p, port_buf, a)
            BY <3>1, FamilyOne
      <3>. QED BY <2>3, <2>4, <3>2 DEF HoldsOnce
    <2>5. CASE k # "port_buf"
      <3>1. /\ \A c \in TxIds : p \notin ToSet(port_buf[c])
            /\ \A c \in TxIds : port_buf[c] \in Seq(Pkts) /\ Once(port_buf[c])
            BY <1>2, <2>2, <2>5
      <3>2. Family(TxIds, "port_buf", p, port_buf) = {}
            BY <3>1, FamilyNone
      <3>. QED BY <2>3, <2>5, <3>2
    <2> HIDE DEF Port
    <2>. QED BY <2>4, <2>5
  <1>15. /\ k = "rx_bufs" => \E x : RxBufs = {x}
         /\ k # "rx_bufs" => RxBufs = {}
    <2>1. \A c, d \in Ids : p \in ToSet(rx_bufs[c][d]) <=> k = "rx_bufs" /\ c = a /\ d = b
          BY <1>1 DEF In, OnlyIn
    <2>0. PICK g : g = [c \in Ids |-> [d \in Ids |-> Occurs(p, rx_bufs[c][d])]]
        OBVIOUS
    <2>2. RxBufs = UNION {{<<"rx_bufs", th, id * PKTS + i>> : i \in g[th][id]} :
                             th, id \in Ids}
          BY <2>0
    <2> HIDE DEF RxBufs
    <2>3. CASE k = "rx_bufs"
      <3>1. a \in Ids /\ b \in Ids
            BY <1>1, <2>3 DEF In
      <3>2. PICK j : Occurs(p, rx_bufs[a][b]) = {j}
            BY <1>2, <2>1, <2>3, <3>1, OccursIs
      <3>3. \A c, d \in Ids : c # a \/ d # b => Occurs(p, rx_bufs[c][d]) = {}
            BY <1>2, <2>1, OccursIs
      <3>4. g[a][b] = {j} /\ \A c, d \in Ids : c # a \/ d # b => g[c][d] = {}
            BY <2>0, <3>1, <3>2, <3>3
      <3>5. PICK h : h = [c \in Ids |-> [d \in Ids |->
                            {<<"rx_bufs", c, d * PKTS + i>> : i \in g[c][d]}]]
            OBVIOUS
      <3>6. RxBufs = UNION {h[c][d] : c, d \in Ids}
            BY <2>2, <3>5
      <3>7. h[a][b] = {<<"rx_bufs", a, b * PKTS + j>>}
            BY <3>1, <3>4, <3>5
      <3>8. \A c, d \in Ids : c # a \/ d # b => h[c][d] = {}
            BY <3>4, <3>5
      <3>9. RxBufs = {<<"rx_bufs", a, b * PKTS + j>>}
            BY <3>1, <3>6, <3>7, <3>8
      <3>. QED BY <2>3, <3>9
    <2>4. CASE k # "rx_bufs"
      <3>1. \A c, d \in Ids : Occurs(p, rx_bufs[c][d]) = {}
            BY <1>2, <2>1, <2>4, OccursIs
      <3>2. \A c, d \in Ids : g[c][d] = {}
            BY <2>0, <3>1
      <3>3. RxBufs = {}
            BY <2>2, <3>2
      <3>. QED BY <2>4, <3>3
    <2>. QED BY <2>3, <2>4
  <1>16. k \in {"wire", "freed", "lost", "sent", "rx_q", "tx_q", "hand", "rx_bufs",
                "tx_buf", "tx_hand", "port_buf"}
         BY <1>1 DEF In
  <1> HIDE DEF Wire, Freed, Lost, Sent, RxQ, TxQ, Hand, RxBufs, TxBuf, TxHand, Port
  <1>17. Places(p) = Wire \cup Freed \cup Lost \cup Sent \cup RxQ \cup TxQ \cup Hand
                     \cup RxBufs \cup TxBuf \cup TxHand \cup Port
         BY <1>4
  <1>18. CASE k = "wire"
    <2>1. Places(p) = Wire
          BY <1>5, <1>6, <1>7, <1>8, <1>9, <1>10, <1>11, <1>12, <1>13, <1>14, <1>15,
             <1>17, <1>18
    <2>. QED BY <1>5, <1>18, <2>1
  <1>19. CASE k = "freed"
    <2>1. Places(p) = Freed
          BY <1>5, <1>6, <1>7, <1>8, <1>9, <1>10, <1>11, <1>12, <1>13, <1>14, <1>15,
             <1>17, <1>19
    <2>. QED BY <1>6, <1>19, <2>1
  <1>20. CASE k = "lost"
    <2>1. Places(p) = Lost
          BY <1>5, <1>6, <1>7, <1>8, <1>9, <1>10, <1>11, <1>12, <1>13, <1>14, <1>15,
             <1>17, <1>20
    <2>. QED BY <1>7, <1>20, <2>1
  <1>21. CASE k = "sent"
    <2>1. Places(p) = Sent
          BY <1>5, <1>6, <1>7, <1>8, <1>9, <1>10, <1>11, <1>12, <1>13, <1>14, <1>15,
             <1>17, <1>21
    <2>. QED BY <1>8, <1>21, <2>1
  <1>22. CASE k = "rx_q"
    <2>1. Places(p) = RxQ
          BY <1>5, <1>6, <1>7, <1>8, <1>9, <1>10, <1>11, <1>12, <1>13, <1>14, <1>15,
             <1>17, <1>22
    <2>. QED BY <1>9, <1>22, <2>1
  <1>23. CASE k = "tx_q"
    <2>1. Places(p) = TxQ
          BY <1>5, <1>6, <1>7, <1>8, <1>9, <1>10, <1>11, <1>12, <1>13, <1>14, <1>15,
             <1>17, <1>23
    <2>. QED BY <1>10, <1>23, <2>1
  <1>24. CASE k = "hand"
    <2>1. Places(p) = Hand
          BY <1>5, <1>6, <1>7, <1>8, <1>9, <1>10, <1>11, <1>12, <1>13, <1>14, <1>15,
             <1>17, <1>24
    <2>. QED BY <1>11, <1>24, <2>1
  <1>25. CASE k = "tx_buf"
    <2>1. Places(p) = TxBuf
          BY <1>5, <1>6, <1>7, <1>8, <1>9, <1>10, <1>11, <1>12, <1>13, <1>14, <1>15,
             <1>17, <1>25
    <2>. QED BY <1>12, <1>25, <2>1
  <1>26. CASE k = "tx_hand"
    <2>1. Places(p) = TxHand
          BY <1>5, <1>6, <1>7, <1>8, <1>9, <1>10, <1>11, <1>12, <1>13, <1>14, <1>15,
             <1>17, <1>26
    <2>. QED BY <1>13, <1>26, <2>1
  <1>27. CASE k = "port_buf"
    <2>1. Places(p) = Port
          BY <1>5, <1>6, <1>7, <1>8, <1>9, <1>10, <1>11, <1>12, <1>13, <1>14, <1>15,
             <1>17, <1>27
    <2>. QED BY <1>14, <1>27, <2>1
  <1>28. CASE k = "rx_bufs"
    <2>1. Places(p) = RxBufs
          BY <1>5, <1>6, <1>7, <1>8, <1>9, <1>10, <1>11, <1>12, <1>13, <1>14, <1>15,
             <1>17, <1>28
    <2>. QED BY <1>15, <1>28, <2>1
  <1>. QED BY <1>16, <1>18, <1>19, <1>20, <1>21, <1>22, <1>23, <1>24, <1>25, <1>26, <1>27, <1>28

(* Every packet is in one place, held by one thread or ring, and none is freed
   or sent twice, whatever the NFs and their handlers do and whoever dies
   (all of d2sc_pkt_process.c). *)
THEOREM PktsConserved == Spec => []Conserved
  BY TypeInit, TypeNext, PlacesInit, PlacesNext, OnePlace, PTL DEF Spec

-----------------------------------------------------------------------------
(* What RightType rests on: the lists hold NFs of their types, a packet is sent
   on to a type, and wherever a packet waits its meta still says why. *)
Listed == \A t \in NTs : \A id \in ToSet(nts[t]) : id \in NfIds /\ TypeOf[id] = t
ToTypes == \A p \in Pkts : meta[p].act = "TONF" => meta[p].dst \in NTs
ForNf(id, p) == meta[p] = [act |-> "TONF", dst |-> TypeOf[id]]
GoesOut(p) == meta[p].act = "OUT"
InRings == \A id \in NfIds : \A p \in ToSet(rx_q[id]) : ForNf(id, p)
InBufs == \A th \in Ids, id \in NfIds : \A p \in ToSet(rx_bufs[th][id]) : ForNf(id, p)
InTxRings == \A id \in NfIds : \A p \in ToSet(tx_q[id]) : GoesOut(p)
InTxBufs == \A id \in NfIds : \A p \in ToSet(tx_buf[id]) : GoesOut(p)
InTxHands == \A k \in TxIds : \A p \in ToSet(tx_hand[k]) : GoesOut(p)
WaysInv == /\ Listed /\ ToTypes /\ InRings /\ InBufs /\ InTxRings /\ InTxBufs
           /\ InTxHands

(* d2sc_sc_nt_to_nf_map yields an NF of the type, or none. *)
LEMMA MapsToType ==
    ASSUME TypeOK, Listed, NEW t \in NTs, NEW p \in Pkts, NEW id \in Ids,
           NtToNfMap(t, p, id), id # 0
    PROVE  id \in NfIds /\ TypeOf[id] = t
  <1>1. nts[t] \in Seq(NfIds) /\ Hash[p] \in Nat
        BY SizesAssumption DEF TypeOK
  <1>2. CASE NextOpen(Selected(t, p), id, t)
        BY <1>2 DEF NextOpen, IsOpen
  <1>3. CASE nts[t] # <<>> /\ id = Selected(t, p)
    <2>1. (Hash[p] % Len(nts[t])) + 1 \in 1 .. Len(nts[t])
          BY <1>1, <1>3
    <2>2. id \in ToSet(nts[t])
          BY <1>1, <1>3, <2>1, InSet DEF Selected
    <2>. QED BY <2>2 DEF Listed
  <1>. QED BY <1>2, <1>3 DEF NtToNfMap

(* A packet that is put in a buffer is in that of an NF of the type. *)
LEMMA EnqueueBufs ==
    ASSUME TypeOK, WaysInv, NEW th \in Ids, NEW p \in Pkts, NEW t \in NTs,
           EnqueueBq(th, p, t)
    PROVE  \A c \in Ids, id \in NfIds : \A x \in ToSet(rx_bufs'[c][id]) :
               x \in ToSet(rx_bufs[c][id]) \/ (x = p /\ TypeOf[id] = t)
  <1>1. rx_bufs \in [Ids -> [Ids -> Seq(Pkts)]] /\ NfIds \subseteq Ids
        BY IdFacts DEF TypeOK
  <1>2. \/ UNCHANGED rx_bufs
        \/ \E id \in Ids : /\ NtToNfMap(t, p, id) /\ id # 0
                           /\ rx_bufs' = [rx_bufs EXCEPT ![th][id] = Append(@, p)]
        BY DEF EnqueueBq
  <1>3. ASSUME NEW n \in Ids, NtToNfMap(t, p, n), n # 0,
               rx_bufs' = [rx_bufs EXCEPT ![th][n] = Append(@, p)],
               NEW c \in Ids, NEW id \in NfIds, NEW x \in ToSet(rx_bufs'[c][id])
        PROVE  x \in ToSet(rx_bufs[c][id]) \/ (x = p /\ TypeOf[id] = t)
    <2>1. TypeOf[n] = t
          BY <1>3, MapsToType DEF WaysInv
    <2>2. rx_bufs[th][n] \in Seq(Pkts)
          BY <1>1
    <2>3. \A y : y \in ToSet(Append(rx_bufs[th][n], p))
                    <=> y \in ToSet(rx_bufs[th][n]) \/ y = p
          BY <2>2, AppendHolds
    <2>4. rx_bufs'[c][id] = IF c = th /\ id = n THEN Append(rx_bufs[th][n], p)
                                                ELSE rx_bufs[c][id]
          BY <1>1, <1>3
    <2>. QED BY <1>3, <2>1, <2>3, <2>4
  <1>. QED BY <1>2, <1>3

(* A flush brings to the ring of an NF what was in the buffer for it. *)
LEMMA FlushWays ==
    ASSUME TypeOK, WaysInv, NEW th \in Ids, NEW ids \in SUBSET Ids, Flush(th, ids),
           UNCHANGED meta
    PROVE  InRings' /\ InBufs'
  <1> DEFINE go == {id \in ids : IsValid(id)}
  <1>1. /\ rx_bufs \in [Ids -> [Ids -> Seq(Pkts)]] /\ rx_q \in [Ids -> Seq(Pkts)]
        /\ NfIds \subseteq Ids
        BY IdFacts DEF TypeOK
  <1>2. /\ rx_q' = [id \in Ids |-> IF id \in go /\ Fits(th, id)
                                   THEN rx_q[id] \o rx_bufs[th][id] ELSE rx_q[id]]
        /\ rx_bufs' = [rx_bufs EXCEPT ![th] =
                          [id \in Ids |-> IF id \in go THEN <<>> ELSE @[id]]]
        BY DEF Flush
  <1> HIDE DEF go
  <1>3. ToSet(<<>>) = {}
        BY DEF ToSet
  <1>4. \A c, id \in Ids : rx_bufs'[c][id] = rx_bufs[c][id] \/ rx_bufs'[c][id] = <<>>
        BY <1>1, <1>2
  <1>5. InBufs'
        BY <1>1, <1>3, <1>4 DEF WaysInv, InBufs, ForNf
  <1>6. ASSUME NEW id \in NfIds, NEW p \in ToSet(rx_q'[id]) PROVE ForNf(id, p)'
    <2>1. \/ rx_q'[id] = rx_q[id]
          \/ rx_q'[id] = rx_q[id] \o rx_bufs[th][id]
          BY <1>1, <1>2
    <2>2. rx_q[id] \in Seq(Pkts) /\ rx_bufs[th][id] \in Seq(Pkts)
          BY <1>1
    <2>3. p \in ToSet(rx_q[id]) \/ p \in ToSet(rx_bufs[th][id])
          BY <1>6, <2>1, <2>2, ConcatHolds
    <2>. QED BY <2>3 DEF WaysInv, InRings, InBufs, ForNf
  <1>. QED BY <1>5, <1>6 DEF InRings

(* What goes to the TX thread is to go out. *)
LEMMA TxRingWays ==
    ASSUME TypeOK, WaysInv, NEW id \in NfIds, NEW buf \in Seq(Pkts),
           EnqueueTxRing(id, buf), \A p \in ToSet(buf) : GoesOut(p), UNCHANGED meta
    PROVE  InTxRings' /\ InTxBufs'
  <1>1. /\ tx_buf \in [NfIds -> Seq(Pkts)] /\ tx_q \in [Ids -> Seq(Pkts)]
        /\ NfIds \subseteq Ids
        BY IdFacts DEF TypeOK
  <1>2. ToSet(<<>>) = {}
        BY DEF ToSet
  <1>3. \A j \in NfIds : tx_buf'[j] = tx_buf[j] \/ tx_buf'[j] = <<>>
        BY <1>1 DEF EnqueueTxRing
  <1>4. InTxBufs'
        BY <1>2, <1>3 DEF WaysInv, InTxBufs, GoesOut
  <1>5. tx_q[id] \in Seq(Pkts)
        BY <1>1
  <1>6. \A p : p \in ToSet(tx_q[id] \o buf) <=> p \in ToSet(tx_q[id]) \/ p \in ToSet(buf)
        BY <1>5, ConcatHolds
  <1>7. \A j \in NfIds : \/ tx_q'[j] = tx_q[j]
                         \/ j = id /\ tx_q'[j] = tx_q[id] \o buf
        BY <1>1 DEF EnqueueTxRing
  <1>8. InTxRings'
        BY <1>6, <1>7 DEF WaysInv, InTxRings, GoesOut
  <1>. QED BY <1>4, <1>8

(* All that waits are packets. *)
LEMMA QueuesOfPkts ==
    ASSUME TypeOK
    PROVE  /\ \A id \in NfIds : ToSet(rx_q[id]) \subseteq Pkts /\ ToSet(tx_q[id]) \subseteq Pkts
                               /\ ToSet(tx_buf[id]) \subseteq Pkts
           /\ \A c, id \in Ids : ToSet(rx_bufs[c][id]) \subseteq Pkts
           /\ \A k \in TxIds : ToSet(tx_hand[k]) \subseteq Pkts
  <1>1. /\ \A id \in NfIds : /\ rx_q[id] \in Seq(Pkts) /\ tx_q[id] \in Seq(Pkts)
                             /\ tx_buf[id] \in Seq(Pkts)
        /\ \A c, id \in Ids : rx_bufs[c][id] \in Seq(Pkts)
        /\ \A k \in TxIds : tx_hand[k] \in Seq(Pkts)
        BY IdFacts DEF TypeOK
  <1>. QED BY <1>1, SetOf

(* The RX thread: the packet it names a type for is nowhere but in its hand. *)
LEMMA WaysRx ==
    ASSUME TypeOK, PlacesInv, WaysInv, RxStep
    PROVE  WaysInv'
  <1>1. CASE RxPacket
    <2>0. PICK p0 : p0 = Head(hand[Rx])
          OBVIOUS
    <2>1. /\ hand[Rx] \in Seq(Pkts) /\ hand[Rx] # <<>> /\ Rx \in Ids
          /\ meta \in [Pkts -> Acts]
          BY <1>1, IdFacts DEF RxPacket, HasNext, TypeOK, Rx
    <2>2. p0 \in Pkts /\ p0 \in ToSet(hand[Rx])
          BY <2>0, <2>1, HeadTail, InSet
    <2>3. OnlyIn(p0, "hand", Rx, 0)
      <3>1. In(p0, "hand", Rx, 0)
            BY <2>1, <2>2 DEF In
      <3>. QED BY <2>2, <3>1, Only DEF PlacesInv
    <2>4. /\ EnqueueBq(Rx, p0, 1) /\ meta' = [meta EXCEPT ![p0] = [act |-> "TONF", dst |-> 1]]
          /\ UNCHANGED <<nts, rx_q, tx_q, tx_buf, tx_hand>>
          BY <1>1, <2>0 DEF RxPacket, rings, txThreads, nfTable
    <2>5. /\ meta'[p0] = [act |-> "TONF", dst |-> 1]
          /\ \A x \in Pkts : x # p0 => meta'[x] = meta[x]
          BY <2>1, <2>2, <2>4
    <2>6. \A c \in Ids, id \in NfIds : \A x \in ToSet(rx_bufs'[c][id]) :
              x \in ToSet(rx_bufs[c][id]) \/ (x = p0 /\ TypeOf[id] = 1)
          BY <2>1, <2>2, <2>4, IdFacts, EnqueueBufs, SMTT(30)
    <2>7. /\ \A id \in NfIds : ToSet(rx_q[id]) \subseteq Pkts /\ ToSet(tx_q[id]) \subseteq Pkts
                               /\ ToSet(tx_buf[id]) \subseteq Pkts
          /\ \A c, id \in Ids : ToSet(rx_bufs[c][id]) \subseteq Pkts
          /\ \A k \in TxIds : ToSet(tx_hand[k]) \subseteq Pkts
          BY QueuesOfPkts
    <2>8. InBufs'
          BY <2>3, <2>5, <2>6, <2>7, IdFacts DEF WaysInv, InBufs, ForNf, OnlyIn
    <2>9. InRings'
          BY <2>3, <2>4, <2>5, <2>7, IdFacts DEF WaysInv, InRings, ForNf, OnlyIn
    <2>10. InTxRings' /\ InTxBufs' /\ InTxHands'
          BY <2>3, <2>4, <2>5, <2>7, IdFacts DEF WaysInv, InTxRings, InTxBufs, InTxHands,
                                         GoesOut, OnlyIn
    <2>11. Listed' /\ ToTypes'
          BY <2>4, <2>5, IdFacts DEF WaysInv, Listed, ToTypes
    <2>. QED BY <2>8, <2>9, <2>10, <2>11 DEF WaysInv
  <1>2. ASSUME NEW ids \in SUBSET Ids, Flush(Rx, ids),
               UNCHANGED <<nts, meta, tx_q, tx_buf, tx_hand>>
        PROVE  WaysInv'
    <2>1. InRings' /\ InBufs'
          BY <1>2, IdFacts, FlushWays DEF Rx
    <2>. QED BY <1>2, <2>1 DEF WaysInv, Listed, ToTypes, InTxRings, InTxBufs, InTxHands,
                               GoesOut
  <1>3. CASE FlushFull(Rx)
    <2>1. {full[Rx]} \in SUBSET Ids
          BY IdFacts DEF TypeOK, Rx
    <2>. QED BY <1>2, <1>3, <2>1 DEF FlushFull, nfTable, txThreads
  <1>4. CASE RxFlush
    <2>1. Ids \in SUBSET Ids
          OBVIOUS
    <2>. QED BY <1>2, <1>4, <2>1 DEF RxFlush, nfTable, txThreads
  <1>. QED BY <1>1, <1>3, <1>4 DEF RxStep

(* The holder is the only one after a step, too. *)
LEMMA OnlyNext ==
    ASSUME NEW p, NEW k, NEW a, NEW b
    PROVE  OneHolder(p)' /\ In(p, k, a, b)' => OnlyIn(p, k, a, b)'
  <1> SUFFICES ASSUME OneHolder(p)', In(p, k, a, b)' PROVE OnlyIn(p, k, a, b)'
      OBVIOUS
  <1>1. PICK l, c, d : In(p, l, c, d)' /\ OnlyIn(p, l, c, d)'
        BY DEF OneHolder
  <1>2. k = l /\ (k \notin {"wire", "freed", "lost", "sent"} => a = c)
           /\ (k = "rx_bufs" => b = d)
        BY <1>1 DEF In, OnlyIn
  <1>. QED BY <1>1, <1>2 DEF OnlyIn
(* An NF: the packets that its handler decides on are nowhere but in its hand. *)
LEMMA WaysNf ==
    ASSUME TypeOK, PlacesInv, PlacesInv', WaysInv, NEW id \in NfIds, NfStep(id)
    PROVE  WaysInv'
  <1>0. /\ id \in Ids /\ NfIds \subseteq Ids /\ meta \in [Pkts -> Acts]
        /\ hand \in [Ids -> Seq(Pkts)] /\ rx_q \in [Ids -> Seq(Pkts)]
        /\ tx_buf \in [NfIds -> Seq(Pkts)]
        BY IdFacts DEF TypeOK
  <1>1. CASE NfDequeue(id)
    <2>1. PICK pkts, rest : /\ pkts = Upto(rx_q[id], PKT_RD_SIZE)
                            /\ rest = After(rx_q[id], Len(pkts))
          OBVIOUS
    <2>2. PICK decide \in [ToSet(pkts) -> Handler[TypeOf[id]]] :
              meta' = [p \in Pkts |-> IF p \in ToSet(pkts) THEN decide[p] ELSE meta[p]]
          BY <1>1, <2>1 DEF NfDequeue
    <2>3. /\ hand' = [hand EXCEPT ![id] = pkts] /\ rx_q' = [rx_q EXCEPT ![id] = rest]
          /\ UNCHANGED <<nts, tx_q, rx_bufs, tx_buf, tx_hand>>
          BY <1>1, <2>1 DEF NfDequeue, nfTable, txThreads
    <2>4. pkts \in Seq(Pkts) /\ Len(pkts) \in Nat
          BY <1>0, <2>1, IdFacts, Parts
    <2>5. \A x \in ToSet(rest) : x \in ToSet(rx_q[id])
          BY <1>0, <2>1, <2>4, PartsHold
    <2>6. \A x \in ToSet(pkts) : x \in Pkts /\ OnlyIn(x, "hand", id, 0)'
      <3>1. SUFFICES ASSUME NEW x \in ToSet(pkts)
                     PROVE  x \in Pkts /\ OnlyIn(x, "hand", id, 0)'
            OBVIOUS
      <3>2. x \in Pkts /\ x \in ToSet(hand'[id])
            BY <1>0, <2>3, <2>4, SetOf
      <3>3. In(x, "hand", id, 0)' /\ OneHolder(x)'
            BY <1>0, <3>2 DEF In, PlacesInv
      <3>4. OnlyIn(x, "hand", id, 0)'
            BY <3>3, OnlyNext
      <3>. QED BY <3>2, <3>4
    <2>7. \A x \in Pkts : x \notin ToSet(pkts) => meta'[x] = meta[x]
          BY <2>2
    <2>8. \A c \in NfIds : \A x \in ToSet(rx_q'[c]) : x \in ToSet(rx_q[c])
          BY <1>0, <2>3, <2>5
    <2>9. ASSUME NEW x \in Pkts,
                 \/ \E c \in NfIds : \/ x \in ToSet(rx_q'[c]) \/ x \in ToSet(tx_q[c])
                                     \/ x \in ToSet(tx_buf[c])
                 \/ \E c, d \in Ids : x \in ToSet(rx_bufs[c][d])
                 \/ \E c \in TxIds : x \in ToSet(tx_hand[c])
          PROVE  meta'[x] = meta[x]
      <3>1. SUFFICES ASSUME x \in ToSet(pkts) PROVE FALSE
            BY <2>7
      <3>2. OnlyIn(x, "hand", id, 0)'
            BY <2>6, <3>1
      <3>. QED BY <1>0, <2>3, <2>9, <3>2 DEF OnlyIn
    <2>10. InRings' /\ InBufs'
      <3>1. ASSUME NEW c \in NfIds, NEW x \in ToSet(rx_q'[c]) PROVE ForNf(c, x)'
            BY <2>8, <2>9, <3>1, QueuesOfPkts DEF WaysInv, InRings, ForNf
      <3>2. ASSUME NEW th \in Ids, NEW c \in NfIds, NEW x \in ToSet(rx_bufs'[th][c])
            PROVE  ForNf(c, x)'
            BY <1>0, <2>3, <2>9, <3>2, QueuesOfPkts DEF WaysInv, InBufs, ForNf
      <3>. QED BY <3>1, <3>2 DEF InRings, InBufs
    <2>11. InTxRings' /\ InTxBufs' /\ InTxHands'
      <3>1. ASSUME NEW c \in NfIds, NEW x, x \in ToSet(tx_q'[c]) \/ x \in ToSet(tx_buf'[c])
            PROVE  GoesOut(x)'
            BY <2>3, <2>9, <3>1, QueuesOfPkts DEF WaysInv, InTxRings, InTxBufs, GoesOut
      <3>2. ASSUME NEW c \in TxIds, NEW x \in ToSet(tx_hand'[c]) PROVE GoesOut(x)'
            BY <2>3, <2>9, <3>2, QueuesOfPkts DEF WaysInv, InTxHands, GoesOut
      <3>. QED BY <3>1, <3>2 DEF InTxRings, InTxBufs, InTxHands
    <2>12. \A a \in Handler[TypeOf[id]] : a.act = "TONF" => a.dst \in NTs
      <3>1. Handler[TypeOf[id]] \in SUBSET {a \in Acts : a.act = "TONF" => a.dst # 0}
            BY IdFacts, RolesAssumption
      <3>2. \A a \in Acts : a.dst \in NTs \cup {0}
            BY DEF Acts
      <3>. QED BY <3>1, <3>2
    <2>13. ToTypes'
          BY <2>2, <2>12 DEF WaysInv, ToTypes
    <2>14. Listed'
          BY <2>3 DEF WaysInv, Listed
    <2>. QED BY <2>9, <2>10, <2>11, <2>13, <2>14 DEF WaysInv
  <1>2. CASE NfPacket(id)
    <2>1. PICK p0, buf : p0 = Head(hand[id]) /\ buf = Append(tx_buf[id], p0)
          OBVIOUS
    <2>2. p0 \in Pkts
          BY <1>0, <1>2, <2>1, HeadTail DEF NfPacket, HasNext
    <2>3. UNCHANGED <<nts, meta, rx_q, tx_hand>>
          BY <1>2 DEF NfPacket, nfTable, txThreads
    <2>4. \/ UNCHANGED <<rx_bufs, tx_buf, tx_q>>
          \/ /\ meta[p0].act = "TONF" /\ EnqueueBq(id, p0, meta[p0].dst)
             /\ UNCHANGED <<tx_buf, tx_q>>
          \/ meta[p0].act = "OUT" /\ EnqueueTxRing(id, buf) /\ UNCHANGED rx_bufs
          \/ /\ meta[p0].act = "OUT" /\ tx_buf' = [tx_buf EXCEPT ![id] = buf]
             /\ UNCHANGED <<tx_q, rx_bufs>>
          BY <1>2, <2>1 DEF NfPacket
    <2>5. /\ buf \in Seq(Pkts)
          /\ \A x : x \in ToSet(buf) <=> x \in ToSet(tx_buf[id]) \/ x = p0
          BY <1>0, <2>1, <2>2, AppendHolds
    <2>6. meta[p0].act = "OUT" => \A x \in ToSet(buf) : GoesOut(x)
          BY <2>5 DEF WaysInv, InTxBufs, GoesOut
    <2>7. Listed' /\ ToTypes' /\ InRings' /\ InTxHands'
          BY <2>3 DEF WaysInv, Listed, ToTypes, InRings, InTxHands, ForNf, GoesOut
    <2>8. InBufs'
      <3>1. CASE UNCHANGED rx_bufs
            BY <2>3, <3>1 DEF WaysInv, InBufs, ForNf
      <3>2. CASE meta[p0].act = "TONF" /\ EnqueueBq(id, p0, meta[p0].dst)
        <4>1. PICK t \in NTs : t = meta[p0].dst
              BY <2>2, <3>2 DEF WaysInv, ToTypes
        <4>2. \A c \in Ids, j \in NfIds : \A x \in ToSet(rx_bufs'[c][j]) :
                  x \in ToSet(rx_bufs[c][j]) \/ (x = p0 /\ TypeOf[j] = t)
          <5>1. EnqueueBq(id, p0, t)
                BY <3>2, <4>1
          <5>. QED BY <1>0, <2>2, <5>1, EnqueueBufs
        <4>3. meta[p0] = [act |-> "TONF", dst |-> t]
              BY <1>0, <2>2, <3>2, <4>1 DEF Acts
        <4>. QED BY <2>3, <4>2, <4>3 DEF WaysInv, InBufs, ForNf
      <3>. QED BY <2>4, <3>1, <3>2
    <2>9. InTxRings' /\ InTxBufs'
      <3>1. CASE UNCHANGED <<tx_buf, tx_q>>
            BY <2>3, <3>1 DEF WaysInv, InTxRings, InTxBufs, GoesOut
      <3>2. CASE meta[p0].act = "OUT" /\ EnqueueTxRing(id, buf)
            BY <2>3, <2>5, <2>6, <3>2, TxRingWays
      <3>3. CASE meta[p0].act = "OUT" /\ tx_buf' = [tx_buf EXCEPT ![id] = buf]
                 /\ UNCHANGED tx_q
            BY <1>0, <2>3, <2>6, <3>3 DEF WaysInv, InTxRings, InTxBufs, GoesOut
      <3>. QED BY <2>4, <3>1, <3>2, <3>3
    <2>. QED BY <2>7, <2>8, <2>9 DEF WaysInv
  <1>3. ASSUME NEW ids \in SUBSET Ids, Flush(id, ids),
               UNCHANGED <<nts, meta, tx_q, tx_buf, tx_hand>>
        PROVE  WaysInv'
    <2>1. InRings' /\ InBufs'
          BY <1>0, <1>3, FlushWays
    <2>. QED BY <1>3, <2>1 DEF WaysInv, Listed, ToTypes, InTxRings, InTxBufs, InTxHands,
                               GoesOut
  <1>4. CASE FlushFull(id)
    <2>1. {full[id]} \in SUBSET Ids
          BY <1>0 DEF TypeOK
    <2>. QED BY <1>3, <1>4, <2>1 DEF FlushFull, nfTable, txThreads
  <1>5. CASE NfFlush(id)
    <2>1. Ids \in SUBSET Ids
          OBVIOUS
    <2>. QED BY <1>3, <1>5, <2>1 DEF NfFlush, nfTable, txThreads
  <1>6. CASE NfFlushTx(id)
    <2>1. /\ EnqueueTxRing(id, tx_buf[id])
          /\ UNCHANGED <<nts, meta, rx_q, rx_bufs, tx_hand>>
          BY <1>6 DEF NfFlushTx, nfTable, txThreads
    <2>2. \A x \in ToSet(tx_buf[id]) : GoesOut(x)
          BY DEF WaysInv, InTxBufs
    <2>3. InTxRings' /\ InTxBufs'
          BY <1>0, <2>1, <2>2, TxRingWays
    <2>. QED BY <2>1, <2>3 DEF WaysInv, Listed, ToTypes, InRings, InBufs, InTxHands,
                               ForNf, GoesOut
  <1>. QED BY <1>1, <1>2, <1>4, <1>5, <1>6 DEF NfStep

(* A TX thread takes what its NFs have for it. *)
LEMMA WaysTx ==
    ASSUME TypeOK, WaysInv, NEW k \in TxIds, TxStep(k)
    PROVE  WaysInv'
  <1>0. /\ tx_hand \in [TxIds -> Seq(Pkts)] /\ tx_q \in [Ids -> Seq(Pkts)]
        /\ NfIds \subseteq Ids
        BY IdFacts DEF TypeOK
  <1>1. UNCHANGED <<nts, meta, rx_q, rx_bufs, tx_buf>>
        BY DEF TxStep, TxDequeue, TxPacket, TxFlush, nfTable, rings, senders
  <1>2. Listed' /\ ToTypes' /\ InRings' /\ InBufs' /\ InTxBufs'
        BY <1>1 DEF WaysInv, Listed, ToTypes, InRings, InBufs, InTxBufs, ForNf, GoesOut
  <1>3. InTxRings' /\ InTxHands'
    <2>1. ASSUME NEW id \in NfIds, TxDequeue(k, id) PROVE InTxRings' /\ InTxHands'
      <3>1. PICK a, b : a = Upto(tx_q[id], PKT_RD_SIZE) /\ b = After(tx_q[id], PKT_RD_SIZE)
            OBVIOUS
      <3>2. tx_hand' = [tx_hand EXCEPT ![k] = a] /\ tx_q' = [tx_q EXCEPT ![id] = b]
            BY <2>1, <3>1 DEF TxDequeue
      <3>3. /\ \A x \in ToSet(a) : x \in ToSet(tx_q[id])
            /\ \A x \in ToSet(b) : x \in ToSet(tx_q[id])
            BY <1>0, <3>1, IdFacts, PartsHold
      <3>. QED BY <1>0, <1>1, <3>2, <3>3 DEF WaysInv, InTxRings, InTxHands, GoesOut
    <2>2. CASE TxPacket(k)
      <3>1. tx_hand[k] \in Seq(Pkts) /\ tx_hand[k] # <<>>
            BY <1>0, <2>2 DEF TxPacket
      <3>2. /\ Tail(tx_hand[k]) \in Seq(Pkts) /\ Len(Tail(tx_hand[k])) = Len(tx_hand[k]) - 1
            /\ \A j \in 1 .. Len(Tail(tx_hand[k])) : Tail(tx_hand[k])[j] = tx_hand[k][j + 1]
            BY <3>1, HeadTail
      <3>3. \A x \in ToSet(Tail(tx_hand[k])) : x \in ToSet(tx_hand[k])
        <4>1. SUFFICES ASSUME NEW x \in ToSet(Tail(tx_hand[k])) PROVE x \in ToSet(tx_hand[k])
              OBVIOUS
        <4>2. PICK j \in 1 .. Len(Tail(tx_hand[k])) : Tail(tx_hand[k])[j] = x
              BY <3>2, <4>1, InSet
        <4>3. j + 1 \in 1 .. Len(tx_hand[k]) /\ tx_hand[k][j + 1] = x
              BY <3>1, <3>2, <4>2
        <4>. QED BY <3>1, <4>3, InSet
      <3>4. tx_hand' = [tx_hand EXCEPT ![k] = Tail(@)] /\ UNCHANGED tx_q
            BY <2>2 DEF TxPacket, rings
      <3>. QED BY <1>0, <1>1, <3>3, <3>4 DEF WaysInv, InTxRings, InTxHands, GoesOut
    <2>3. CASE TxFlush(k)
          BY <1>1, <2>3 DEF TxFlush, rings, WaysInv, InTxRings, InTxHands, GoesOut
    <2>. QED BY <2>1, <2>2, <2>3 DEF TxStep
  <1>. QED BY <1>2, <1>3 DEF WaysInv

(* Nor does the life cycle send a packet anywhere; the lists keep to their types. *)
LEMMA WaysLife ==
    ASSUME TypeOK, WaysInv, NEW id \in NfIds, Life(id)
    PROVE  WaysInv'
  <1>0. /\ rx_bufs \in [Ids -> [Ids -> Seq(Pkts)]] /\ tx_buf \in [NfIds -> Seq(Pkts)]
        /\ nts \in [NTs -> Seq(NfIds)] /\ NfIds \subseteq Ids /\ TypeOf[id] \in NTs
        BY IdFacts DEF TypeOK
  <1>1. UNCHANGED <<meta, rx_q, tx_q, tx_hand>>
        BY DEF Life, NfReady, Handshake, Signal, Quit, Deregistered, Kill, rings, txThreads
  <1>2. UNCHANGED <<rx_bufs, tx_buf>> \/ Vanish(id)
        BY DEF Life, NfReady, Handshake, Signal, Quit, Deregistered, Kill, senders
  <1>3. ToSet(<<>>) = {}
        BY DEF ToSet
  <1>4. InBufs' /\ InTxBufs'
    <2>1. CASE UNCHANGED <<rx_bufs, tx_buf>>
          BY <1>1, <2>1 DEF WaysInv, InBufs, InTxBufs, ForNf, GoesOut
    <2>2. CASE Vanish(id)
      <3>1. \A c, j \in Ids : rx_bufs'[c][j] = rx_bufs[c][j] \/ rx_bufs'[c][j] = <<>>
            BY <1>0, <2>2 DEF Vanish
      <3>2. \A j \in NfIds : tx_buf'[j] = tx_buf[j] \/ tx_buf'[j] = <<>>
            BY <1>0, <2>2 DEF Vanish
      <3>. QED BY <1>0, <1>1, <1>3, <3>1, <3>2 DEF WaysInv, InBufs, InTxBufs, ForNf, GoesOut
    <2>. QED BY <1>2, <2>1, <2>2
  <1>5. Listed'
    <2>1. CASE UNCHANGED nts
          BY <2>1 DEF WaysInv, Listed
    <2>2. CASE NfReady(id)
      <3>1. nts[TypeOf[id]] \in Seq(NfIds)
            BY <1>0
      <3>2. \A x : x \in ToSet(Append(nts[TypeOf[id]], id))
                       => x \in ToSet(nts[TypeOf[id]]) \/ x = id
            BY <3>1, AppendHolds
      <3>3. nts' = [nts EXCEPT ![TypeOf[id]] = Append(@, id)]
            BY <2>2 DEF NfReady
      <3>. QED BY <1>0, <3>2, <3>3 DEF WaysInv, Listed
    <2>3. CASE Deregistered(id)
      <3>1. PICK list : list = nts[TypeOf[id]]
            OBVIOUS
      <3>2. list \in Seq(NfIds)
            BY <1>0, <3>1
      <3>4. PICK k \in DOMAIN list : nts' = [nts EXCEPT ![TypeOf[id]] = RemoveAt(list, k)]
            BY <1>0, <2>3, <3>1 DEF Deregistered
      <3>5. k \in 1 .. Len(list)
            BY <3>2
      <3>3. ToSet(RemoveAt(list, k)) \subseteq ToSet(list)
            BY <3>2, <3>5, Removed
      <3>. QED BY <1>0, <3>1, <3>3, <3>4 DEF WaysInv, Listed
    <2>. QED BY <2>1, <2>2, <2>3 DEF Life, Handshake, Signal, Quit, Kill
  <1>. QED BY <1>1, <1>4, <1>5 DEF WaysInv, ToTypes, InRings, InTxRings, InTxHands,
                                   ForNf, GoesOut

(* At first nothing waits anywhere. *)
LEMMA WaysInit == Init => WaysInv
  <1> SUFFICES ASSUME Init PROVE WaysInv
      OBVIOUS
  <1>1. ToSet(<<>>) = {}
        BY DEF ToSet
  <1>. QED BY <1>1, IdFacts DEF Init, WaysInv, Listed, ToTypes, InRings, InBufs, InTxRings,
                          InTxBufs, InTxHands

(* Every step keeps what waits somewhere meant for there. *)
LEMMA WaysNext == TypeOK /\ PlacesInv /\ PlacesInv' /\ WaysInv /\ [Next]_vars => WaysInv'
  <1> SUFFICES ASSUME TypeOK, PlacesInv, PlacesInv', WaysInv, [Next]_vars PROVE WaysInv'
      OBVIOUS
  <1>1. CASE UNCHANGED vars
    <2>1. UNCHANGED <<nts, meta, rx_q, tx_q, rx_bufs, tx_buf, tx_hand>>
          BY <1>1 DEF vars, nfTable, rings, senders, txThreads
    <2>. QED BY <2>1 DEF WaysInv, Listed, ToTypes, InRings, InBufs, InTxRings, InTxBufs,
                         InTxHands, ForNf, GoesOut
  <1>2. ASSUME NEW n \in 1 .. PKT_RD_SIZE, RxBurst(n) PROVE WaysInv'
    <2>1. UNCHANGED <<nts, meta, rx_q, tx_q, rx_bufs, tx_buf, tx_hand>>
          BY <1>2 DEF RxBurst, nfTable, rings, txThreads
    <2>. QED BY <2>1 DEF WaysInv, Listed, ToTypes, InRings, InBufs, InTxRings, InTxBufs,
                         InTxHands, ForNf, GoesOut
  <1>. QED BY <1>1, <1>2, WaysRx, WaysNf, WaysTx, WaysLife DEF Next

(* RightType is a part of it. *)
LEMMA WaysRight == WaysInv => RightType
  BY DEF WaysInv, InRings, InBufs, InTxRings, InTxHands, ForNf, GoesOut, RightType

(* A packet waits only for NFs of the type it was sent to, and a TX thread
   meets only packets that are to go out, whatever the NFs do meanwhile
   (d2sc_sc_nt_to_nf_map, d2sc_pkt_process_tx_batch, d2sc_pkt_enqueue_bq). *)
THEOREM RightNf == Spec => []RightType
  BY TypeInit, TypeNext, PlacesInit, PlacesNext, WaysInit, WaysNext, WaysRight, PTL DEF Spec

-----------------------------------------------------------------------------
(* A product of natural numbers grows with each of its factors (the cores
   times the ids per core). *)
LEMMA TimesMonotone ==
    ASSUME NEW a \in Nat, NEW b \in Nat, NEW n \in Nat, a <= b
    PROVE  a * n <= b * n
  OBVIOUS

(* Division with remainder, as the C code does it for unsigned numbers. *)
LEMMA Division ==
    ASSUME NEW a \in Nat, NEW n \in Nat \ {0}
    PROVE  /\ a \div n \in Nat
           /\ (a \div n) * n <= a
           /\ a < (a \div n) * n + n
  OBVIOUS

(* nfs_per_tx is rounded up, so that the shares of all threads cover the table
   (main.c computes it as the ceil of a float division). *)
LEMMA Enough ==
    /\ nfs_per_tx \in Nat \ {0}
    /\ MAX_NFS <= TX_CORES * nfs_per_tx
<1>1. TX_CORES \in Nat \ {0} /\ MAX_NFS \in Nat /\ MAX_NFS > 1
  BY SizesAssumption
<1> DEFINE a == MAX_NFS + TX_CORES - 1
           q == a \div TX_CORES
<1>2. a \in Nat
  BY <1>1
<1>3. q \in Nat /\ q * TX_CORES <= a /\ a < q * TX_CORES + TX_CORES
  BY <1>1, <1>2, Division
<1>4. q # 0
  <2>1. a >= TX_CORES
    BY <1>1
  <2> HIDE DEF a, q
  <2>2. CASE q = 0
    BY <1>1, <1>2, <1>3, <2>1, <2>2
  <2> QED
    BY <2>2
<1>5. MAX_NFS <= TX_CORES * q
  <2>1. q * TX_CORES = TX_CORES * q
    BY <1>1, <1>3
  <2>2. q * TX_CORES \in Nat
    BY <1>1, <1>3
  <2> HIDE DEF q
  <2> QED
    BY <1>1, <1>3, <2>1, <2>2
<1> QED
  BY <1>3, <1>4, <1>5 DEF nfs_per_tx

(* A TX thread serves exactly the ids of its interval of length nfs_per_tx,
   cut off at the end of the table. *)
LEMMA Interval ==
    ASSUME NEW id \in NfIds, NEW k \in TxIds
    PROVE  id \in Served(k) <=>
              k * nfs_per_tx < id /\ id <= k * nfs_per_tx + nfs_per_tx
<1> DEFINE n == nfs_per_tx
           m == k * n
<1>1. n \in Nat \ {0} /\ k \in Nat /\ TX_CORES \in Nat
  BY Enough, SizesAssumption DEF TxIds
<1>2. m \in Nat /\ (k + 1) * n = m + n
  BY <1>1
<1>3. id \in Nat /\ id < MAX_NFS /\ MAX_NFS \in Nat
  BY SizesAssumption DEF NfIds, Ids
<1>4. first_nf_id(k) = Least(m + 1, MAX_NFS)
  BY DEF first_nf_id
<1>5. last_nf_id(k) = Least(m + n + 1, MAX_NFS)
  BY <1>2 DEF last_nf_id
<1> HIDE DEF m, n
<1>6. first_nf_id(k) <= id <=> m < id
  BY <1>1, <1>2, <1>3, <1>4 DEF Least
<1>7. id < last_nf_id(k) <=> id <= m + n
  BY <1>1, <1>2, <1>3, <1>5 DEF Least
<1> QED
  BY <1>6, <1>7 DEF Served, m, n

(* Every id of an NF is served by one TX thread and by one only: no tx_q is
   forgotten, and none has two consumers, which could send the packets of a
   flow in another order than they came. *)
THEOREM OneTxThread ==
    \A id \in NfIds :
        \E k \in TxIds :
            id \in Served(k) /\ \A j \in TxIds : id \in Served(j) => j = k
<1> SUFFICES ASSUME NEW id \in NfIds
             PROVE  \E k \in TxIds :
                       /\ id \in Served(k)
                       /\ \A j \in TxIds : id \in Served(j) => j = k
  OBVIOUS
<1> DEFINE n == nfs_per_tx
           k == (id - 1) \div n
<1>1. /\ n \in Nat \ {0} /\ TX_CORES \in Nat /\ MAX_NFS <= TX_CORES * n
      /\ id \in Nat \ {0} /\ id < MAX_NFS /\ MAX_NFS \in Nat
  BY Enough, SizesAssumption DEF NfIds, Ids
<1>2. k \in Nat /\ k * n <= id - 1 /\ id - 1 < k * n + n
  <2>1. id - 1 \in Nat
    BY <1>1
  <2> QED
    BY <1>1, <2>1, Division
<1> HIDE DEF k, n
<1>3. k \in TxIds
  <2>1. CASE TX_CORES <= k
    <3>1. TX_CORES * n <= k * n
      BY <1>1, <1>2, <2>1, TimesMonotone
    <3>2. TX_CORES * n \in Nat /\ k * n \in Nat
      BY <1>1, <1>2
    <3> QED
      BY <1>1, <1>2, <3>1, <3>2
  <2>2. CASE k < TX_CORES
    BY <1>1, <1>2, <2>2 DEF TxIds
  <2> QED
    BY <1>1, <1>2, <2>1, <2>2
<1>4. k * n \in Nat
  BY <1>1, <1>2
<1>5. id \in Served(k)
  BY <1>1, <1>2, <1>3, <1>4, Interval DEF n
<1>6. ASSUME NEW j \in TxIds, id \in Served(j)
      PROVE  j = k
  <2>1. j \in Nat /\ j * n \in Nat
    BY <1>1 DEF TxIds
  <2>2. j * n < id /\ id <= j * n + n
    BY <1>6, Interval DEF n
  <2>3. CASE j + 1 <= k
    <3>1. (j + 1) * n <= k * n
      BY <1>1, <1>2, <2>1, <2>3, TimesMonotone
    <3>2. (j + 1) * n = j * n + n
      BY <1>1, <2>1
    <3> QED
      BY <1>1, <1>2, <1>4, <2>1, <2>2, <3>1, <3>2
  <2>4. CASE k + 1 <= j
    <3>1. (k + 1) * n <= j * n
      BY <1>1, <1>2, <2>1, <2>4, TimesMonotone
    <3>2. (k + 1) * n = k * n + n
      BY <1>1, <1>2
    <3> QED
      BY <1>1, <1>2, <1>4, <2>1, <2>2, <3>1, <3>2
  <2> QED
    BY <1>2, <2>1, <2>3, <2>4
<1> QED
  BY <1>3, <1>5, <1>6

-----------------------------------------------------------------------------
(* The packets of a flow stand in their order in a queue; and those in queue p
   came before those in queue q. *)
Sorted(q) == \A i, j \in 1 .. Len(q) : i < j /\ Hash[q[i]] = Hash[q[j]] => q[i] < q[j]
Ahead(p, q) == \A x \in ToSet(p), y \in ToSet(q) : Hash[x] = Hash[y] => x < y

(* A set St of queues Q at levels lev: each packet is only where W lets it be, and
   the packets of a flow at a higher level came before those at a lower one. *)
InLine(Q, St, lev, W) ==
    /\ \A s \in St : Q[s] \in Seq(Pkts) /\ Sorted(Q[s])
    /\ \A s \in St : \A x \in ToSet(Q[s]) : <<x, s>> \in W
    /\ \A s, t \in St : lev[t] < lev[s] => Ahead(Q[s], Q[t])

(* At each level a flow has one queue. *)
IsWay(St, lev, W) ==
    \A s, t \in St, x, y \in Pkts :
        <<x, s>> \in W /\ <<y, t>> \in W /\ Hash[x] = Hash[y] /\ lev[s] = lev[t] => s = t

(* Two queues, one behind the other. *)
LEMMA SortedJoin ==
    ASSUME NEW p \in Seq(Pkts), NEW q \in Seq(Pkts), Sorted(p), Sorted(q), Ahead(p, q)
    PROVE  Sorted(p \o q)
  <1>1. /\ p \o q \in Seq(Pkts) /\ Len(p \o q) = Len(p) + Len(q)
        /\ \A j \in 1 .. Len(p) : (p \o q)[j] = p[j]
        /\ \A j \in Len(p) + 1 .. Len(p) + Len(q) : (p \o q)[j] = q[j - Len(p)]
        BY ConcatParts
  <1>2. PICK r : r = p \o q
        OBVIOUS
  <1>3. Len(p) \in Nat /\ Len(q) \in Nat
        OBVIOUS
  <1>4. ASSUME NEW i \in 1 .. Len(r), NEW j \in 1 .. Len(r), i < j, Hash[r[i]] = Hash[r[j]]
        PROVE  r[i] < r[j]
    <2>1. CASE j <= Len(p)
      <3>1. r[i] = p[i] /\ r[j] = p[j] /\ i \in 1 .. Len(p) /\ j \in 1 .. Len(p)
            BY <1>1, <1>2, <1>3, <1>4, <2>1
      <3>. QED BY <1>4, <3>1 DEF Sorted
    <2>2. CASE i > Len(p)
      <3>1. /\ r[i] = q[i - Len(p)] /\ r[j] = q[j - Len(p)] /\ i - Len(p) < j - Len(p)
            /\ i - Len(p) \in 1 .. Len(q) /\ j - Len(p) \in 1 .. Len(q)
            BY <1>1, <1>2, <1>3, <1>4, <2>2
      <3>. QED BY <1>4, <3>1 DEF Sorted
    <2>3. CASE i <= Len(p) /\ j > Len(p)
      <3>1. r[i] = p[i] /\ r[j] = q[j - Len(p)] /\ i \in 1 .. Len(p) /\ j - Len(p) \in 1 .. Len(q)
            BY <1>1, <1>2, <1>3, <1>4, <2>3
      <3>2. r[i] \in ToSet(p) /\ r[j] \in ToSet(q)
            BY <3>1, InSet
      <3>. QED BY <1>4, <3>2 DEF Ahead
    <2>. QED BY <1>3, <2>1, <2>2, <2>3
  <1>. QED BY <1>2, <1>4 DEF Sorted

(* The front of a queue, and what is left of it. *)
LEMMA SortedParts ==
    ASSUME NEW q \in Seq(Pkts), Sorted(q), NEW m \in Nat, NEW n \in Nat
    PROVE  /\ Sorted(After(q, m)) /\ Sorted(Upto(q, n))
           /\ n <= m => Ahead(Upto(q, n), After(q, m))
  <1>1. /\ After(q, m) \in Seq(Pkts) /\ Upto(q, n) \in Seq(Pkts)
        /\ Len(After(q, m)) = IF m <= Len(q) THEN Len(q) - m ELSE 0
        /\ \A j \in 1 .. Len(After(q, m)) : After(q, m)[j] = q[j + m]
        /\ Len(Upto(q, n)) = Least(n, Len(q))
        /\ \A j \in 1 .. Len(Upto(q, n)) : Upto(q, n)[j] = q[j]
        BY Parts
  <1>2. PICK a \in Seq(Pkts) : a = After(q, m)
        BY <1>1
  <1>3. PICK b \in Seq(Pkts) : b = Upto(q, n)
        BY <1>1
  <1>4. PICK l \in Nat : l = Len(q)
        OBVIOUS
  <1>5. /\ Len(a) \in Nat /\ Len(b) \in Nat /\ Len(b) <= l /\ Len(b) <= n
        /\ \A j \in 1 .. Len(a) : j + m \in 1 .. l /\ a[j] = q[j + m]
        /\ \A j \in 1 .. Len(b) : j \in 1 .. l /\ b[j] = q[j]
        BY <1>1, <1>2, <1>3, <1>4 DEF Least
  <1>6. Sorted(a)
    <2>1. \A i, j \in 1 .. Len(a) : i < j => i + m < j + m
          BY <1>5
    <2>. QED BY <1>4, <1>5, <2>1 DEF Sorted
  <1>7. Sorted(b)
        BY <1>4, <1>5 DEF Sorted
  <1>8. ASSUME n <= m, NEW x \in ToSet(b), NEW y \in ToSet(a), Hash[x] = Hash[y]
        PROVE  x < y
    <2>1. PICK i \in 1 .. Len(b) : b[i] = x
          BY InSet
    <2>2. PICK j \in 1 .. Len(a) : a[j] = y
          BY InSet
    <2>3. i < j + m /\ i \in 1 .. l /\ j + m \in 1 .. l
          BY <1>5, <1>8, <2>1, <2>2
    <2>4. q[i] = x /\ q[j + m] = y
          BY <1>5, <2>1, <2>2
    <2>. QED BY <1>4, <1>8, <2>3, <2>4 DEF Sorted
  <1>. QED BY <1>2, <1>3, <1>6, <1>7, <1>8 DEF Ahead

(* What is in them. *)
LEMMA PartsIn ==
    ASSUME NEW q \in Seq(Pkts), NEW n \in Nat
    PROVE  /\ Upto(q, n) \in Seq(Pkts) /\ After(q, n) \in Seq(Pkts)
           /\ ToSet(Upto(q, n)) \subseteq ToSet(q) /\ ToSet(After(q, n)) \subseteq ToSet(q)
           /\ \A x \in ToSet(Upto(q, n)) : n > 0
  <1>1. Upto(q, n) \in Seq(Pkts) /\ After(q, n) \in Seq(Pkts)
        BY Parts
  <1>2. ToSet(Upto(q, n)) \subseteq ToSet(q) /\ ToSet(After(q, n)) \subseteq ToSet(q)
        BY PartsHold
  <1>3. ASSUME NEW x \in ToSet(Upto(q, n)) PROVE n > 0
    <2> SUFFICES ASSUME n = 0 PROVE FALSE
        OBVIOUS
    <2>1. Len(Upto(q, n)) = Least(n, Len(q)) /\ Len(q) \in Nat
          BY Parts
    <2>2. Len(Upto(q, n)) = 0
          BY <2>1 DEF Least
    <2>3. 1 .. 0 = {}
          OBVIOUS
    <2>. QED BY <1>1, <1>3, <2>2, <2>3, InSet
  <1>. QED BY <1>1, <1>2, <1>3

(* Queues lose their first packets, m of them, and get the first n of the queues
   src, one level below, which lose these: all stay in line. *)
LEMMA AllMove ==
    ASSUME NEW St, NEW lev \in [St -> Nat], NEW W, IsWay(St, lev, W),
           NEW Q, InLine(Q, St, lev, W), NEW R,
           NEW src \in [St -> St], NEW m \in [St -> Nat], NEW n \in [St -> Nat],
           \A s \in St : R[s] = After(Q[s], m[s]) \o Upto(Q[src[s]], n[s]),
           \A s \in St : n[s] > 0 =>
               /\ lev[s] = lev[src[s]] + 1 /\ n[s] <= m[src[s]]
               /\ \A x \in ToSet(Upto(Q[src[s]], n[s])) : <<x, s>> \in W
    PROVE  InLine(R, St, lev, W)
  <1>1. \A s \in St : /\ Q[s] \in Seq(Pkts) /\ Sorted(Q[s])
                      /\ src[s] \in St /\ m[s] \in Nat /\ n[s] \in Nat /\ lev[s] \in Nat
        BY DEF InLine
  <1>2. \A s, t \in St : lev[t] < lev[s] =>
            \A x \in ToSet(Q[s]), y \in ToSet(Q[t]) : Hash[x] = Hash[y] => x < y
        BY DEF InLine, Ahead
  <1>3. PICK A : A = [s \in St |-> After(Q[s], m[s])]
        OBVIOUS
  <1>4. PICK B : B = [s \in St |-> Upto(Q[src[s]], n[s])]
        OBVIOUS
  <1>5. ASSUME NEW s \in St
        PROVE  /\ A[s] \in Seq(Pkts) /\ B[s] \in Seq(Pkts) /\ R[s] = A[s] \o B[s]
               /\ Sorted(A[s]) /\ Sorted(B[s])
               /\ ToSet(A[s]) \subseteq ToSet(Q[s])
               /\ ToSet(B[s]) \subseteq ToSet(Q[src[s]])
               /\ \A x \in ToSet(B[s]) : n[s] > 0
               /\ n[s] > 0 => Ahead(B[s], A[src[s]])
    <2>1. A[s] = After(Q[s], m[s]) /\ B[s] = Upto(Q[src[s]], n[s]) /\ R[s] = A[s] \o B[s]
          BY <1>3, <1>4
    <2>2. A[src[s]] = After(Q[src[s]], m[src[s]])
          BY <1>1, <1>3
    <2>3. /\ Q[s] \in Seq(Pkts) /\ Q[src[s]] \in Seq(Pkts) /\ m[s] \in Nat /\ n[s] \in Nat
          /\ m[src[s]] \in Nat /\ Sorted(Q[s]) /\ Sorted(Q[src[s]])
          BY <1>1
    <2>4. /\ A[s] \in Seq(Pkts) /\ B[s] \in Seq(Pkts)
          /\ ToSet(A[s]) \subseteq ToSet(Q[s]) /\ ToSet(B[s]) \subseteq ToSet(Q[src[s]])
          /\ \A x \in ToSet(B[s]) : n[s] > 0
      <3>1. A[s] \in Seq(Pkts) /\ ToSet(A[s]) \subseteq ToSet(Q[s])
        <4>1. \A q \in Seq(Pkts), k \in Nat :
                  After(q, k) \in Seq(Pkts) /\ ToSet(After(q, k)) \subseteq ToSet(q)
              BY PartsIn
        <4>. QED BY <2>1, <2>3, <4>1
      <3>2. /\ B[s] \in Seq(Pkts) /\ ToSet(B[s]) \subseteq ToSet(Q[src[s]])
            /\ \A x \in ToSet(B[s]) : n[s] > 0
        <4>1. PICK q \in Seq(Pkts) : q = Q[src[s]]
              BY <2>3
        <4>2. PICK k \in Nat : k = n[s]
              BY <2>3
        <4>3. B[s] = Upto(q, k)
              BY <2>1, <4>1, <4>2
        <4>4. /\ Upto(q, k) \in Seq(Pkts) /\ ToSet(Upto(q, k)) \subseteq ToSet(q)
              /\ \A x \in ToSet(Upto(q, k)) : k > 0
              BY PartsIn
        <4>. QED BY <4>1, <4>2, <4>3, <4>4
      <3>. QED BY <3>1, <3>2
    <2>5. /\ Sorted(A[s]) /\ Sorted(B[s])
          /\ n[s] <= m[src[s]] => Ahead(B[s], A[src[s]])
          BY <2>1, <2>2, <2>3, SortedParts
    <2>6. n[s] > 0 => n[s] <= m[src[s]]
          OBVIOUS
    <2>. QED BY <2>1, <2>4, <2>5, <2>6
  <1>6. ASSUME NEW s \in St
        PROVE  /\ R[s] \in Seq(Pkts)
               /\ \A x : x \in ToSet(R[s]) <=> x \in ToSet(A[s]) \/ x \in ToSet(B[s])
    <2>1. A[s] \in Seq(Pkts) /\ B[s] \in Seq(Pkts) /\ R[s] = A[s] \o B[s]
          BY <1>5
    <2>. QED BY <2>1, ConcatHolds
  <1>7. ASSUME NEW s \in St, NEW x \in ToSet(Q[s]) PROVE x \in Pkts /\ <<x, s>> \in W
    <2>1. Q[s] \in Seq(Pkts)
          BY <1>1
    <2>. QED BY <1>7, <2>1, SetOf DEF InLine
  <1>8. ASSUME NEW s \in St, NEW x \in ToSet(B[s])
        PROVE  /\ n[s] > 0 /\ src[s] \in St /\ x \in ToSet(Q[src[s]]) /\ <<x, s>> \in W
               /\ lev[s] = lev[src[s]] + 1 /\ lev[s] \in Nat /\ lev[src[s]] \in Nat
               /\ lev[src[s]] < lev[s]
    <2>1. n[s] > 0 /\ x \in ToSet(Q[src[s]])
          BY <1>5, <1>8
    <2>2. lev[s] = lev[src[s]] + 1 /\ <<x, s>> \in W
          BY <1>4, <1>8, <2>1
    <2>3. lev[s] \in Nat /\ lev[src[s]] \in Nat /\ src[s] \in St
          BY <1>1
    <2>. QED BY <2>1, <2>2, <2>3
  <1>9. ASSUME NEW s \in St PROVE Sorted(R[s])
    <2>1. ASSUME NEW x \in ToSet(A[s]), NEW y \in ToSet(B[s]), Hash[x] = Hash[y]
          PROVE  x < y
      <3>1. y \in ToSet(Q[src[s]]) /\ src[s] \in St /\ lev[src[s]] < lev[s]
            BY <1>8
      <3>2. x \in ToSet(Q[s])
            BY <1>5
      <3>. QED BY <1>2, <2>1, <3>1, <3>2
    <2>2. Ahead(A[s], B[s])
          BY <2>1 DEF Ahead
    <2>3. /\ A[s] \in Seq(Pkts) /\ B[s] \in Seq(Pkts) /\ R[s] = A[s] \o B[s]
          /\ Sorted(A[s]) /\ Sorted(B[s])
          BY <1>5
    <2>. QED BY <2>2, <2>3, SortedJoin
  <1>10. ASSUME NEW s \in St, NEW x \in ToSet(R[s]) PROVE <<x, s>> \in W
    <2>1. CASE x \in ToSet(A[s])
          BY <1>5, <1>7, <2>1
    <2>2. CASE x \in ToSet(B[s])
          BY <1>8, <2>2
    <2>. QED BY <1>6, <1>10, <2>1, <2>2
  <1>11. ASSUME NEW s \in St, NEW t \in St, lev[t] < lev[s],
                NEW x \in ToSet(R[s]), NEW y \in ToSet(R[t]), Hash[x] = Hash[y]
         PROVE  x < y
    <2>0. lev[s] \in Nat /\ lev[t] \in Nat
          BY <1>1
    <2>1. y \in ToSet(B[t]) => /\ lev[src[t]] < lev[t] /\ lev[src[t]] \in Nat
                               /\ src[t] \in St /\ y \in ToSet(Q[src[t]])
          BY <1>8
    <2>2. y \in ToSet(A[t]) => y \in ToSet(Q[t])
          BY <1>5
    <2>3. y \in ToSet(A[t]) \/ y \in ToSet(B[t])
          BY <1>6, <1>11
    <2>4. CASE x \in ToSet(A[s])
      <3>1. x \in ToSet(Q[s])
            BY <1>5, <2>4
      <3>2. CASE y \in ToSet(A[t])
            BY <1>2, <1>11, <2>2, <3>1, <3>2
      <3>3. CASE y \in ToSet(B[t])
        <4>1. lev[src[t]] < lev[s]
              BY <1>11, <2>0, <2>1, <3>3
        <4>. QED BY <1>2, <1>11, <2>1, <3>1, <3>3, <4>1
      <3>. QED BY <2>3, <3>2, <3>3
    <2>5. CASE x \in ToSet(B[s])
      <3>1. /\ lev[s] = lev[src[s]] + 1 /\ x \in ToSet(Q[src[s]]) /\ src[s] \in St
            /\ n[s] > 0 /\ lev[src[s]] \in Nat
            BY <1>8, <2>5
      <3>2. CASE y \in ToSet(B[t])
        <4>1. lev[src[t]] < lev[src[s]]
              BY <1>11, <2>0, <2>1, <3>1, <3>2
        <4>. QED BY <1>2, <1>11, <2>1, <3>1, <3>2, <4>1
      <3>3. CASE y \in ToSet(A[t]) /\ lev[t] < lev[src[s]]
            BY <1>2, <1>11, <2>2, <3>1, <3>3
      <3>4. CASE y \in ToSet(A[t]) /\ lev[t] = lev[src[s]]
        <4>1. <<x, src[s]>> \in W /\ <<y, t>> \in W /\ x \in Pkts /\ y \in Pkts
              BY <1>7, <2>2, <3>1, <3>4
        <4>2. src[s] = t
              BY <1>11, <3>1, <3>4, <4>1 DEF IsWay
        <4>3. Ahead(B[s], A[t])
              BY <1>5, <3>1, <4>2
        <4>. QED BY <1>11, <2>5, <3>4, <4>3 DEF Ahead
      <3>5. lev[t] < lev[src[s]] \/ lev[t] = lev[src[s]]
            BY <1>11, <2>0, <3>1
      <3>. QED BY <2>3, <3>2, <3>3, <3>4, <3>5
    <2>. QED BY <1>6, <1>11, <2>4, <2>5
  <1>12. \A s, t \in St : lev[t] < lev[s] => Ahead(R[s], R[t])
         BY <1>11 DEF Ahead
  <1>. QED BY <1>6, <1>9, <1>10, <1>12 DEF InLine

(* Nothing, and all, of a queue. *)
LEMMA NoneAndAll ==
    ASSUME NEW q \in Seq(Pkts)
    PROVE  /\ After(q, 0) = q /\ After(q, Len(q)) = <<>> /\ Upto(q, 0) = <<>>
           /\ Upto(q, Len(q)) = q
           /\ q \o <<>> = q /\ <<>> \o q = q
           /\ q # <<>> => /\ After(q, 1) = Tail(q) /\ Upto(q, 1) = <<Head(q)>>
                          /\ ToSet(Upto(q, 1)) = {Head(q)}
  <1>1. Len(q) \in Nat
        OBVIOUS
  <1>2. After(q, 0) = q
        BY <1>1 DEF After
  <1>3. After(q, Len(q)) = <<>>
        BY <1>1 DEF After
  <1>4. Upto(q, 0) = <<>>
        BY <1>1 DEF Upto, Least
  <1>5. Upto(q, Len(q)) = q
        BY <1>1 DEF Upto, Least
  <1>6. q \o <<>> = q /\ <<>> \o q = q
        OBVIOUS
  <1>7. ASSUME q # <<>>
        PROVE  /\ After(q, 1) = Tail(q) /\ Upto(q, 1) = <<Head(q)>>
               /\ ToSet(Upto(q, 1)) = {Head(q)}
    <2>1. Len(q) >= 1
          BY <1>7
    <2>2. After(q, 1) = Tail(q)
          BY <1>1, <2>1 DEF After
    <2>3. Upto(q, 1) = SubSeq(q, 1, 1)
          BY <1>1, <2>1 DEF Upto, Least
    <2>4. SubSeq(q, 1, 1) = <<Head(q)>>
      <3>1. PICK h \in Pkts : h = Head(q) /\ q[1] = h
            BY <1>7, HeadTail
      <3>2. SubSeq(q, 1, 1) \in Seq(Pkts) /\ Len(SubSeq(q, 1, 1)) = 1 /\ SubSeq(q, 1, 1)[1] = h
            BY <1>1, <2>1, <3>1
      <3>3. <<h>> \in Seq(Pkts) /\ Len(<<h>>) = 1 /\ <<h>>[1] = h
            OBVIOUS
      <3>4. PICK a \in Seq(Pkts) : a = SubSeq(q, 1, 1)
            BY <3>2
      <3>5. PICK b \in Seq(Pkts) : b = <<h>>
            BY <3>3
      <3>6. Len(a) = Len(b) /\ \A i \in 1 .. Len(a) : a[i] = b[i]
            BY <3>2, <3>3, <3>4, <3>5
      <3>7. a = b
            BY <3>6, SeqEqual
      <3>. QED BY <3>1, <3>4, <3>5, <3>7
    <2>. QED BY <2>2, <2>3, <2>4 DEF ToSet
  <1>. QED BY <1>2, <1>3, <1>4, <1>5, <1>6, <1>7

(* One queue passes its first n packets to another one and loses k; that one loses
   its own first c. *)
LEMMA OneMove ==
    ASSUME NEW St, NEW lev \in [St -> Nat], NEW W, IsWay(St, lev, W),
           NEW Q, InLine(Q, St, lev, W), NEW R, NEW s \in St, NEW t \in St,
           NEW k \in Nat, NEW n \in Nat, NEW c \in Nat, n <= k, lev[t] = lev[s] + 1,
           R[s] = After(Q[s], k), R[t] = After(Q[t], c) \o Upto(Q[s], n),
           \A u \in St \ {s, t} : R[u] = Q[u],
           \A x \in ToSet(Upto(Q[s], n)) : <<x, t>> \in W
    PROVE  InLine(R, St, lev, W)
  <1>1. PICK src : src = [u \in St |-> IF u = t THEN s ELSE u]
        OBVIOUS
  <1>2. PICK m : m = [u \in St |-> IF u = s THEN k ELSE IF u = t THEN c ELSE 0]
        OBVIOUS
  <1>3. PICK l : l = [u \in St |-> IF u = t THEN n ELSE 0]
        OBVIOUS
  <1>4. src \in [St -> St] /\ m \in [St -> Nat] /\ l \in [St -> Nat] /\ s # t
    <2>1. lev[s] \in Nat
          OBVIOUS
    <2>. QED BY <1>1, <1>2, <1>3, <2>1
  <1>5. ASSUME NEW u \in St PROVE R[u] = After(Q[u], m[u]) \o Upto(Q[src[u]], l[u])
    <2>1. \A v \in St : Q[v] \in Seq(Pkts)
          BY DEF InLine
    <2>2. CASE u = t
          BY <1>1, <1>2, <1>3, <1>4, <2>2
    <2>3. CASE u # t
      <3>1. l[u] = 0 /\ src[u] = u
            BY <1>1, <1>3, <2>3
      <3>2. Upto(Q[u], 0) = <<>> /\ After(Q[u], 0) = Q[u]
            BY <2>1, NoneAndAll
      <3>3. R[u] = After(Q[u], m[u])
            BY <1>2, <2>3, <3>2
      <3>4. m[u] \in Nat
            BY <1>4
      <3>5. After(Q[u], m[u]) \in Seq(Pkts)
            BY <2>1, <3>4, PartsIn
      <3>6. After(Q[u], m[u]) \o <<>> = After(Q[u], m[u])
            BY <3>5, NoneAndAll
      <3>. QED BY <3>1, <3>2, <3>3, <3>6
    <2>. QED BY <2>2, <2>3
  <1>6. ASSUME NEW u \in St, l[u] > 0
        PROVE  /\ lev[u] = lev[src[u]] + 1 /\ l[u] <= m[src[u]]
               /\ \A x \in ToSet(Upto(Q[src[u]], l[u])) : <<x, u>> \in W
    <2>1. u = t /\ src[u] = s /\ l[u] = n /\ m[s] = k
          BY <1>1, <1>2, <1>3, <1>6
    <2>. QED BY <2>1
  <1>. QED BY <1>4, <1>5, <1>6, AllMove

(* Queues lose packets. *)
LEMMA AllCut ==
    ASSUME NEW St, NEW lev \in [St -> Nat], NEW W, IsWay(St, lev, W),
           NEW Q, InLine(Q, St, lev, W), NEW R,
           \A s \in St : \E k \in Nat : R[s] = After(Q[s], k)
    PROVE  InLine(R, St, lev, W)
  <1>1. PICK m : m = [u \in St |-> CHOOSE k \in Nat : R[u] = After(Q[u], k)]
        OBVIOUS
  <1>2. m \in [St -> Nat] /\ \A u \in St : R[u] = After(Q[u], m[u])
        BY <1>1
  <1>3. PICK src : src = [u \in St |-> u]
        OBVIOUS
  <1>4. PICK l : l = [u \in St |-> 0]
        OBVIOUS
  <1>5. src \in [St -> St] /\ l \in [St -> Nat]
        BY <1>3, <1>4
  <1>6. ASSUME NEW u \in St PROVE R[u] = After(Q[u], m[u]) \o Upto(Q[src[u]], l[u])
    <2>1. Q[u] \in Seq(Pkts) /\ m[u] \in Nat
          BY <1>2 DEF InLine
    <2>2. After(Q[u], m[u]) \in Seq(Pkts) /\ Upto(Q[u], 0) = <<>>
          BY <2>1, PartsIn, NoneAndAll
    <2>3. After(Q[u], m[u]) \o <<>> = After(Q[u], m[u])
          BY <2>2, NoneAndAll
    <2>. QED BY <1>2, <1>3, <1>4, <2>2, <2>3
  <1>7. \A u \in St : l[u] > 0 =>
            /\ lev[u] = lev[src[u]] + 1 /\ l[u] <= m[src[u]]
            /\ \A x \in ToSet(Upto(Q[src[u]], l[u])) : <<x, u>> \in W
        BY <1>4
  <1>. QED BY <1>2, <1>5, <1>6, <1>7, AllMove

(* The same queues. *)
LEMMA SameLine ==
    ASSUME NEW St, NEW lev, NEW W, NEW Q, InLine(Q, St, lev, W), NEW R,
           \A s \in St : R[s] = Q[s]
    PROVE  InLine(R, St, lev, W)
  BY DEF InLine

-----------------------------------------------------------------------------
(* The queues on the way of the packets, and what is in them. *)
Stations ==
    {<<"wire", 0, 0>>, <<"sent", 0, 0>>}
    \cup ({"hand", "rx_q", "tx_q"} \X Ids \X {0}) \cup ({"rx_bufs"} \X Ids \X Ids)
    \cup ({"tx_buf"} \X NfIds \X {0}) \cup ({"tx_hand", "port_buf"} \X TxIds \X {0})
Line(s) ==
    CASE s[1] = "wire" -> [j \in 1 .. PKTS - arrived |-> arrived + j]
      [] s[1] = "hand" -> hand[s[2]]
      [] s[1] = "rx_bufs" -> rx_bufs[s[2]][s[3]]
      [] s[1] = "rx_q" -> rx_q[s[2]]
      [] s[1] = "tx_buf" -> tx_buf[s[2]]
      [] s[1] = "tx_q" -> tx_q[s[2]]
      [] s[1] = "tx_hand" -> tx_hand[s[2]]
      [] s[1] = "port_buf" -> port_buf[s[2]]
      [] s[1] = "sent" -> sent
Lines == [s \in Stations |-> Line(s)]

(* The NFs form one chain: each handler drops a packet, gives it to the next type
   of the chain or, at the end of it, sends it out. *)
IsRoute(route) ==
    /\ route \in Seq(NTs) /\ Once(route) /\ route # <<>> /\ route[1] = 1
    /\ \A n \in 1 .. Len(route) : \A a \in Handler[route[n]] :
          \/ a.act = "DROP"
          \/ a.act = "TONF" /\ n < Len(route) /\ a.dst = route[n + 1]
          \/ a.act = "OUT" /\ n = Len(route)

(* The place of an NF on the chain, 0 for the RX thread. *)
StageOf(route, id) ==
    IF id \in NfIds /\ \E n \in 1 .. Len(route) : route[n] = TypeOf[id]
    THEN CHOOSE n \in 1 .. Len(route) : route[n] = TypeOf[id] ELSE 0
Level(route, s) ==
    CASE s[1] = "wire" -> 1
      [] s[1] = "hand" -> 3 * StageOf(route, s[2]) + 2
      [] s[1] = "rx_bufs" -> 3 * StageOf(route, s[3])
      [] s[1] = "rx_q" -> 3 * StageOf(route, s[2]) + 1
      [] s[1] = "tx_buf" -> 3 * Len(route) + 3
      [] s[1] = "tx_q" -> 3 * Len(route) + 4
      [] s[1] = "tx_hand" -> 3 * Len(route) + 5
      [] s[1] = "port_buf" -> 3 * Len(route) + 6
      [] s[1] = "sent" -> 3 * Len(route) + 7
Levels(route) == [s \in Stations |-> Level(route, s)]

(* The queues that packet x may be in when inst[t, h] is the one instance of type t
   that gets the packets with hash h. *)
Its(route, inst, x, a) ==
    a # Rx => StageOf(route, a) > 0 /\ inst[<<TypeOf[a], Hash[x]>>] = a
Leads(route, inst, x, s) ==
    CASE s[1] \in {"wire", "sent"} -> TRUE
      [] s[1] = "hand" -> Its(route, inst, x, s[2])
      [] s[1] = "rx_bufs" -> /\ Its(route, inst, x, s[2]) /\ Its(route, inst, x, s[3])
                             /\ StageOf(route, s[3]) = StageOf(route, s[2]) + 1
      [] s[1] = "rx_q" -> s[2] # Rx /\ Its(route, inst, x, s[2])
      [] s[1] \in {"tx_buf", "tx_q"} ->
            Its(route, inst, x, s[2]) /\ StageOf(route, s[2]) = Len(route)
      [] s[1] \in {"tx_hand", "port_buf"} ->
            \E id \in Served(s[2]) :
                Its(route, inst, x, id) /\ StageOf(route, id) = Len(route)
Way(route, inst) == {w \in Pkts \X Stations : Leads(route, inst, w[1], w[2])}

-----------------------------------------------------------------------------
(* The stations by kind. *)
LEMMA StationsAre ==
    /\ <<"wire", 0, 0>> \in Stations /\ <<"sent", 0, 0>> \in Stations
    /\ \A a \in Ids : /\ <<"hand", a, 0>> \in Stations /\ <<"rx_q", a, 0>> \in Stations
                      /\ <<"tx_q", a, 0>> \in Stations
    /\ \A a, b \in Ids : <<"rx_bufs", a, b>> \in Stations
    /\ \A a \in NfIds : <<"tx_buf", a, 0>> \in Stations
    /\ \A k \in TxIds : <<"tx_hand", k, 0>> \in Stations /\ <<"port_buf", k, 0>> \in Stations
    /\ \A s \in Stations :
          \/ s = <<"wire", 0, 0>> \/ s = <<"sent", 0, 0>>
          \/ \E a \in Ids : \/ s = <<"hand", a, 0>> \/ s = <<"rx_q", a, 0>>
                            \/ s = <<"tx_q", a, 0>>
          \/ \E a, b \in Ids : s = <<"rx_bufs", a, b>>
          \/ \E a \in NfIds : s = <<"tx_buf", a, 0>>
          \/ \E k \in TxIds : s = <<"tx_hand", k, 0>> \/ s = <<"port_buf", k, 0>>
  <1>1. \A s \in Stations :
          \/ s \in {<<"wire", 0, 0>>, <<"sent", 0, 0>>}
          \/ s \in {"hand", "rx_q", "tx_q"} \X Ids \X {0}
          \/ s \in {"rx_bufs"} \X Ids \X Ids
          \/ s \in {"tx_buf"} \X NfIds \X {0}
          \/ s \in {"tx_hand", "port_buf"} \X TxIds \X {0}
        BY DEF Stations
  <1>2. \A s \in Stations :
          \/ s = <<"wire", 0, 0>> \/ s = <<"sent", 0, 0>>
          \/ \E a \in Ids : \/ s = <<"hand", a, 0>> \/ s = <<"rx_q", a, 0>>
                            \/ s = <<"tx_q", a, 0>>
          \/ \E a, b \in Ids : s = <<"rx_bufs", a, b>>
          \/ \E a \in NfIds : s = <<"tx_buf", a, 0>>
          \/ \E k \in TxIds : s = <<"tx_hand", k, 0>> \/ s = <<"port_buf", k, 0>>
    <2> TAKE s \in Stations
    <2>1. CASE s \in {"hand", "rx_q", "tx_q"} \X Ids \X {0}
          BY <2>1
    <2>2. CASE s \in {"rx_bufs"} \X Ids \X Ids
          BY <2>2
    <2>3. CASE s \in {"tx_buf"} \X NfIds \X {0}
          BY <2>3
    <2>4. CASE s \in {"tx_hand", "port_buf"} \X TxIds \X {0}
          BY <2>4
    <2>. QED BY <1>1, <2>1, <2>2, <2>3, <2>4
  <1>3. /\ <<"wire", 0, 0>> \in Stations /\ <<"sent", 0, 0>> \in Stations
        /\ \A a \in Ids : /\ <<"hand", a, 0>> \in Stations /\ <<"rx_q", a, 0>> \in Stations
                          /\ <<"tx_q", a, 0>> \in Stations
        /\ \A a, b \in Ids : <<"rx_bufs", a, b>> \in Stations
        /\ \A a \in NfIds : <<"tx_buf", a, 0>> \in Stations
        /\ \A k \in TxIds : <<"tx_hand", k, 0>> \in Stations /\ <<"port_buf", k, 0>> \in Stations
        BY DEF Stations
  <1>. QED BY <1>2, <1>3

(* What is in them, before a step and after it. *)
LineFacts ==
    /\ Lines[<<"wire", 0, 0>>] = [j \in 1 .. PKTS - arrived |-> arrived + j]
    /\ Lines[<<"sent", 0, 0>>] = sent
    /\ \A a \in Ids : /\ Lines[<<"hand", a, 0>>] = hand[a]
                      /\ Lines[<<"rx_q", a, 0>>] = rx_q[a]
                      /\ Lines[<<"tx_q", a, 0>>] = tx_q[a]
    /\ \A a, b \in Ids : Lines[<<"rx_bufs", a, b>>] = rx_bufs[a][b]
    /\ \A a \in NfIds : Lines[<<"tx_buf", a, 0>>] = tx_buf[a]
    /\ \A k \in TxIds : /\ Lines[<<"tx_hand", k, 0>>] = tx_hand[k]
                        /\ Lines[<<"port_buf", k, 0>>] = port_buf[k]

(* Each station holds what its variable says, ... *)
LEMMA LineIs == LineFacts
  <1>1. \A s \in Stations : Lines[s] = Line(s)
        BY DEF Lines
  <1>2. Line(<<"wire", 0, 0>>) = [j \in 1 .. PKTS - arrived |-> arrived + j]
        BY DEF Line
  <1>3. Line(<<"sent", 0, 0>>) = sent
        BY DEF Line
  <1>4. \A a : /\ Line(<<"hand", a, 0>>) = hand[a] /\ Line(<<"rx_q", a, 0>>) = rx_q[a]
               /\ Line(<<"tx_q", a, 0>>) = tx_q[a]
        BY DEF Line
  <1>5. \A a, b : Line(<<"rx_bufs", a, b>>) = rx_bufs[a][b]
        BY DEF Line
  <1>6. \A a : /\ Line(<<"tx_buf", a, 0>>) = tx_buf[a] /\ Line(<<"tx_hand", a, 0>>) = tx_hand[a]
               /\ Line(<<"port_buf", a, 0>>) = port_buf[a]
        BY DEF Line
  <1>. QED BY <1>1, <1>2, <1>3, <1>4, <1>5, <1>6, StationsAre DEF LineFacts

(* ... and so after a step. *)
LEMMA LineNext == LineFacts'
  BY LineIs, PTL

(* The stages. *)
LEMMA StageIs ==
    ASSUME NEW route, IsRoute(route), NEW id \in Ids
    PROVE  /\ StageOf(route, id) \in 0 .. Len(route) /\ Len(route) \in Nat /\ Len(route) >= 1
           /\ id = Rx => StageOf(route, id) = 0
           /\ StageOf(route, id) > 0 => /\ id \in NfIds
                                        /\ route[StageOf(route, id)] = TypeOf[id]
           /\ id \in NfIds => \A n \in 1 .. Len(route) :
                                 route[n] = TypeOf[id] => StageOf(route, id) = n
  <1>1. Len(route) \in Nat /\ Len(route) >= 1 /\ Once(route)
        BY DEF IsRoute
  <1>2. CASE id \in NfIds /\ \E n \in 1 .. Len(route) : route[n] = TypeOf[id]
    <2>1. PICK n \in 1 .. Len(route) : n = StageOf(route, id) /\ route[n] = TypeOf[id]
          BY <1>2 DEF StageOf
    <2>2. id # Rx
          BY <1>2 DEF NfIds, Rx
    <2>. QED BY <1>1, <1>2, <2>1, <2>2 DEF Once
  <1>3. CASE ~(id \in NfIds /\ \E n \in 1 .. Len(route) : route[n] = TypeOf[id])
    <2>1. StageOf(route, id) = 0
          BY <1>3 DEF StageOf
    <2>. QED BY <1>1, <1>3, <2>1
  <1>. QED BY <1>2, <1>3

(* The levels. *)
LEMMA LevelIs ==
    ASSUME NEW route, IsRoute(route)
    PROVE  /\ Levels(route) \in [Stations -> Nat]
           /\ Levels(route)[<<"wire", 0, 0>>] = 1
           /\ Levels(route)[<<"sent", 0, 0>>] = 3 * Len(route) + 7
           /\ \A a \in Ids :
                 /\ Levels(route)[<<"hand", a, 0>>] = 3 * StageOf(route, a) + 2
                 /\ Levels(route)[<<"rx_q", a, 0>>] = 3 * StageOf(route, a) + 1
                 /\ Levels(route)[<<"tx_q", a, 0>>] = 3 * Len(route) + 4
           /\ \A a, b \in Ids : Levels(route)[<<"rx_bufs", a, b>>] = 3 * StageOf(route, b)
           /\ \A a \in NfIds : Levels(route)[<<"tx_buf", a, 0>>] = 3 * Len(route) + 3
           /\ \A k \in TxIds : /\ Levels(route)[<<"tx_hand", k, 0>>] = 3 * Len(route) + 5
                               /\ Levels(route)[<<"port_buf", k, 0>>] = 3 * Len(route) + 6
  <1>1. \A s \in Stations : Levels(route)[s] = Level(route, s)
        BY DEF Levels
  <1>2. /\ Level(route, <<"wire", 0, 0>>) = 1
        /\ Level(route, <<"sent", 0, 0>>) = 3 * Len(route) + 7
        BY DEF Level
  <1>3. \A a : /\ Level(route, <<"hand", a, 0>>) = 3 * StageOf(route, a) + 2
               /\ Level(route, <<"rx_q", a, 0>>) = 3 * StageOf(route, a) + 1
               /\ Level(route, <<"tx_q", a, 0>>) = 3 * Len(route) + 4
        BY DEF Level
  <1>4. \A a, b : Level(route, <<"rx_bufs", a, b>>) = 3 * StageOf(route, b)
        BY DEF Level
  <1>5. \A a : /\ Level(route, <<"tx_buf", a, 0>>) = 3 * Len(route) + 3
               /\ Level(route, <<"tx_hand", a, 0>>) = 3 * Len(route) + 5
               /\ Level(route, <<"port_buf", a, 0>>) = 3 * Len(route) + 6
        BY DEF Level
  <1>6. ASSUME NEW s \in Stations PROVE Level(route, s) \in Nat
    <2>1. Len(route) \in Nat
          BY DEF IsRoute
    <2>2. \A a \in Ids : StageOf(route, a) \in Nat
          BY StageIs
    <2>. QED BY <1>2, <1>3, <1>4, <1>5, <2>1, <2>2, StationsAre
  <1>7. Levels(route) \in [Stations -> Nat]
        BY <1>6 DEF Levels
  <1>. QED BY <1>1, <1>2, <1>3, <1>4, <1>5, <1>7, StationsAre

(* Where a packet may be. *)
LEMMA WayIs ==
    ASSUME NEW route, NEW inst, NEW x \in Pkts
    PROVE  /\ \A s : <<x, s>> \in Way(route, inst) <=> s \in Stations /\ Leads(route, inst, x, s)
           /\ Leads(route, inst, x, <<"wire", 0, 0>>)
           /\ Leads(route, inst, x, <<"sent", 0, 0>>)
           /\ \A a : /\ Leads(route, inst, x, <<"hand", a, 0>>) <=> Its(route, inst, x, a)
                     /\ Leads(route, inst, x, <<"rx_q", a, 0>>)
                           <=> a # Rx /\ Its(route, inst, x, a)
                     /\ Leads(route, inst, x, <<"tx_q", a, 0>>)
                           <=> /\ Its(route, inst, x, a)
                               /\ StageOf(route, a) = Len(route)
                     /\ Leads(route, inst, x, <<"tx_buf", a, 0>>)
                           <=> /\ Its(route, inst, x, a)
                               /\ StageOf(route, a) = Len(route)
           /\ \A a, b : Leads(route, inst, x, <<"rx_bufs", a, b>>)
                 <=> /\ Its(route, inst, x, a) /\ Its(route, inst, x, b)
                     /\ StageOf(route, b) = StageOf(route, a) + 1
           /\ \A k : /\ Leads(route, inst, x, <<"tx_hand", k, 0>>)
                           <=> \E id \in Served(k) : /\ Its(route, inst, x, id)
                                                     /\ StageOf(route, id) = Len(route)
                     /\ Leads(route, inst, x, <<"port_buf", k, 0>>)
                           <=> \E id \in Served(k) : /\ Its(route, inst, x, id)
                                                     /\ StageOf(route, id) = Len(route)
  <1>1. \A s : <<x, s>> \in Way(route, inst) <=> s \in Stations /\ Leads(route, inst, x, s)
        BY DEF Way
  <1>2. /\ Leads(route, inst, x, <<"wire", 0, 0>>)
        /\ Leads(route, inst, x, <<"sent", 0, 0>>)
        BY DEF Leads
  <1>3. \A a : Leads(route, inst, x, <<"hand", a, 0>>) <=> Its(route, inst, x, a)
        BY DEF Leads
  <1>4. \A a : Leads(route, inst, x, <<"rx_q", a, 0>>) <=> a # Rx /\ Its(route, inst, x, a)
        BY DEF Leads
  <1>5. \A a : Leads(route, inst, x, <<"tx_q", a, 0>>)
                  <=> Its(route, inst, x, a) /\ StageOf(route, a) = Len(route)
        BY DEF Leads
  <1>6. \A a : Leads(route, inst, x, <<"tx_buf", a, 0>>)
                  <=> Its(route, inst, x, a) /\ StageOf(route, a) = Len(route)
        BY DEF Leads
  <1>7. \A a, b : Leads(route, inst, x, <<"rx_bufs", a, b>>)
                 <=> /\ Its(route, inst, x, a) /\ Its(route, inst, x, b)
                     /\ StageOf(route, b) = StageOf(route, a) + 1
        BY DEF Leads
  <1>8. \A k : Leads(route, inst, x, <<"tx_hand", k, 0>>)
                  <=> \E id \in Served(k) : /\ Its(route, inst, x, id)
                                            /\ StageOf(route, id) = Len(route)
        BY DEF Leads
  <1>9. \A k : Leads(route, inst, x, <<"port_buf", k, 0>>)
                  <=> \E id \in Served(k) : /\ Its(route, inst, x, id)
                                            /\ StageOf(route, id) = Len(route)
        BY DEF Leads
  <1>. QED BY <1>1, <1>2, <1>3, <1>4, <1>5, <1>6, <1>7, <1>8, <1>9

(* At each level a flow is in one queue: an instance has the flow to itself, and
   the TX thread that serves it too. *)
LEMMA OneWay ==
    ASSUME NEW route, IsRoute(route), NEW inst
    PROVE  IsWay(Stations, Levels(route), Way(route, inst))
  <1>0. PICK l \in Nat : l = Len(route) /\ l >= 1
        BY DEF IsRoute
  <1>1. ASSUME NEW x \in Pkts, NEW a \in Ids, Its(route, inst, x, a)
        PROVE  /\ StageOf(route, a) \in 0 .. l /\ (a = Rx <=> StageOf(route, a) = 0)
               /\ a # Rx => inst[<<route[StageOf(route, a)], Hash[x]>>] = a
        BY <1>0, <1>1, StageIs DEF Its
  <1>2. ASSUME NEW x \in Pkts, NEW y \in Pkts, Hash[x] = Hash[y], NEW a \in Ids, NEW b \in Ids,
               Its(route, inst, x, a), Its(route, inst, y, b),
               StageOf(route, a) = StageOf(route, b)
        PROVE  a = b
    <2>1. CASE StageOf(route, a) = 0
      <3>1. a = Rx
            BY <1>1, <1>2, <2>1
      <3>2. b = Rx
            BY <1>1, <1>2, <2>1
      <3>. QED BY <3>1, <3>2
    <2>2. CASE StageOf(route, a) # 0
      <3>1. a # Rx /\ inst[<<route[StageOf(route, a)], Hash[x]>>] = a
            BY <1>1, <1>2, <2>2
      <3>2. b # Rx /\ inst[<<route[StageOf(route, b)], Hash[y]>>] = b
            BY <1>1, <1>2, <2>2
      <3>. QED BY <1>2, <3>1, <3>2
    <2>. QED BY <2>1, <2>2
  <1>3. ASSUME NEW x \in Pkts, NEW s, <<x, s>> \in Way(route, inst)
        PROVE  \/ s = <<"wire", 0, 0>> /\ Levels(route)[s] = 1
               \/ \E a \in Ids, n \in 0 .. l :
                     /\ s = <<"hand", a, 0>> /\ Its(route, inst, x, a)
                     /\ n = StageOf(route, a) /\ Levels(route)[s] = 3 * n + 2
               \/ \E a, b \in Ids, n \in 1 .. l :
                     /\ s = <<"rx_bufs", a, b>>
                     /\ Its(route, inst, x, a) /\ Its(route, inst, x, b)
                     /\ n = StageOf(route, b) /\ Levels(route)[s] = 3 * n
                     /\ n = StageOf(route, a) + 1
               \/ \E a \in Ids, n \in 1 .. l :
                     /\ s = <<"rx_q", a, 0>> /\ Its(route, inst, x, a)
                     /\ n = StageOf(route, a) /\ Levels(route)[s] = 3 * n + 1
               \/ \E a \in Ids : /\ s = <<"tx_buf", a, 0>> /\ Its(route, inst, x, a)
                                 /\ StageOf(route, a) = l
                                 /\ Levels(route)[s] = 3 * l + 3
               \/ \E a \in Ids : /\ s = <<"tx_q", a, 0>> /\ Its(route, inst, x, a)
                                 /\ StageOf(route, a) = l
                                 /\ Levels(route)[s] = 3 * l + 4
               \/ \E k \in TxIds, a \in Ids :
                     /\ s = <<"tx_hand", k, 0>> /\ a \in Served(k)
                     /\ Its(route, inst, x, a)
                     /\ StageOf(route, a) = l /\ Levels(route)[s] = 3 * l + 5
               \/ \E k \in TxIds, a \in Ids :
                     /\ s = <<"port_buf", k, 0>> /\ a \in Served(k)
                     /\ Its(route, inst, x, a)
                     /\ StageOf(route, a) = l /\ Levels(route)[s] = 3 * l + 6
               \/ s = <<"sent", 0, 0>> /\ Levels(route)[s] = 3 * l + 7
    <2>1. s \in Stations /\ Leads(route, inst, x, s)
          BY <1>3, WayIs
    <2>2. \A a \in Ids : StageOf(route, a) \in 0 .. l
          BY <1>0, StageIs
    <2>3. NfIds \subseteq Ids /\ \A k : Served(k) \subseteq Ids
          BY DEF NfIds, Served
    <2>4. CASE \E a \in Ids : s = <<"hand", a, 0>>
      <3>1. PICK a \in Ids : s = <<"hand", a, 0>>
            BY <2>4
      <3>2. Its(route, inst, x, a)
            BY <2>1, <3>1, WayIs
      <3>3. Levels(route)[s] = 3 * StageOf(route, a) + 2
            BY <3>1, LevelIs
      <3>. QED BY <2>2, <3>1, <3>2, <3>3
    <2>5. CASE \E a \in Ids : s = <<"rx_q", a, 0>>
      <3>1. PICK a \in Ids : s = <<"rx_q", a, 0>>
            BY <2>5
      <3>2. a # Rx /\ Its(route, inst, x, a)
            BY <2>1, <3>1, WayIs
      <3>3. StageOf(route, a) \in 1 .. l
        <4>1. StageOf(route, a) # 0
              BY <1>1, <3>2
        <4>. QED BY <2>2, <4>1
      <3>. QED BY <1>0, <3>1, <3>2, <3>3, LevelIs
    <2>6. CASE \E a \in Ids : s = <<"tx_q", a, 0>>
      <3>1. PICK a \in Ids : s = <<"tx_q", a, 0>>
            BY <2>6
      <3>2. Its(route, inst, x, a) /\ StageOf(route, a) = l
            BY <1>0, <2>1, <3>1, WayIs
      <3>3. Levels(route)[s] = 3 * l + 4
            BY <1>0, <3>1, LevelIs
      <3>. QED BY <3>1, <3>2, <3>3
    <2>7. CASE \E a, b \in Ids : s = <<"rx_bufs", a, b>>
      <3>1. PICK a \in Ids, b \in Ids : s = <<"rx_bufs", a, b>>
            BY <2>7
      <3>2. /\ Its(route, inst, x, a) /\ Its(route, inst, x, b)
            /\ StageOf(route, b) = StageOf(route, a) + 1
        <4>1. Leads(route, inst, x, <<"rx_bufs", a, b>>)
              BY <2>1, <3>1
        <4>. QED BY <4>1 DEF Leads
      <3>3. StageOf(route, b) \in 1 .. l
            BY <1>0, <2>2, <3>2
      <3>. QED BY <1>0, <3>1, <3>2, <3>3, LevelIs
    <2>8. CASE \E a \in NfIds : s = <<"tx_buf", a, 0>>
      <3>1. PICK a \in NfIds : s = <<"tx_buf", a, 0>>
            BY <2>8
      <3>2. a \in Ids /\ Its(route, inst, x, a) /\ StageOf(route, a) = l
            BY <1>0, <2>1, <2>3, <3>1, WayIs
      <3>3. Levels(route)[s] = 3 * l + 3
            BY <1>0, <3>1, LevelIs
      <3>. QED BY <3>1, <3>2, <3>3
    <2>9. CASE \E k \in TxIds : s = <<"tx_hand", k, 0>>
      <3>1. PICK k \in TxIds : s = <<"tx_hand", k, 0>>
            BY <2>9
      <3>2. PICK a \in Served(k) : Its(route, inst, x, a) /\ StageOf(route, a) = l
            BY <1>0, <2>1, <3>1, WayIs
      <3>3. Levels(route)[s] = 3 * l + 5 /\ a \in Ids
            BY <1>0, <2>3, <3>1, LevelIs
      <3>. QED BY <3>1, <3>2, <3>3
    <2>10. CASE \E k \in TxIds : s = <<"port_buf", k, 0>>
      <3>1. PICK k \in TxIds : s = <<"port_buf", k, 0>>
            BY <2>10
      <3>2. PICK a \in Served(k) : Its(route, inst, x, a) /\ StageOf(route, a) = l
            BY <1>0, <2>1, <3>1, WayIs
      <3>3. Levels(route)[s] = 3 * l + 6 /\ a \in Ids
            BY <1>0, <2>3, <3>1, LevelIs
      <3>. QED BY <3>1, <3>2, <3>3
    <2>11. CASE s = <<"wire", 0, 0>> \/ s = <<"sent", 0, 0>>
          BY <1>0, <2>11, LevelIs
    <2>. QED BY <2>1, <2>4, <2>5, <2>6, <2>7, <2>8, <2>9, <2>10, <2>11, StationsAre
  <1>4. \A k, j \in TxIds : \A a \in Served(k) : a \in Served(j) => k = j
    <2>1. \A k \in TxIds : \A a \in Served(k) : a \in NfIds
          BY DEF Served
    <2>. QED BY <2>1, OneTxThread
  <1>5. \A k \in TxIds, a \in Ids : a \in Served(k) => a \in Ids /\ a # Rx
        BY DEF Served, NfIds, Rx
  <1> DEFINE lev == Levels(route)
             A(z, a, n) == Its(route, inst, z, a) /\ n = StageOf(route, a)
             Hand(z, u) == \E a \in Ids, n \in 0 .. l :
                   u = <<"hand", a, 0>> /\ A(z, a, n) /\ lev[u] = 3 * n + 2
             Buf(z, u) == \E a, b \in Ids, n \in 1 .. l, p \in 0 .. l :
                   u = <<"rx_bufs", a, b>> /\ A(z, a, p) /\ A(z, b, n) /\ lev[u] = 3 * n /\ n = p + 1
             Ring(z, u) == \E a \in Ids, n \in 1 .. l :
                   u = <<"rx_q", a, 0>> /\ A(z, a, n) /\ lev[u] = 3 * n + 1
             AtEnd(kind, d, z, u) == \E a \in Ids :
                   u = <<kind, a, 0>> /\ A(z, a, l) /\ lev[u] = 3 * l + d
             Tx(kind, d, z, u) == \E k \in TxIds, a \in Ids :
                   u = <<kind, k, 0>> /\ a \in Served(k) /\ A(z, a, l) /\ lev[u] = 3 * l + d
             One(kind, u) == u = <<kind, 0, 0>>
  <1>6. ASSUME NEW x \in Pkts, NEW s, <<x, s>> \in Way(route, inst)
        PROVE  \/ One("wire", s) /\ lev[s] = 1
               \/ Hand(x, s) \/ Buf(x, s) \/ Ring(x, s)
               \/ AtEnd("tx_buf", 3, x, s) \/ AtEnd("tx_q", 4, x, s)
               \/ Tx("tx_hand", 5, x, s) \/ Tx("port_buf", 6, x, s)
               \/ One("sent", s) /\ lev[s] = 3 * l + 7
    <2> HIDE DEF lev
    <2>1. CASE \E a, b \in Ids, n \in 1 .. l :
                  /\ s = <<"rx_bufs", a, b>>
                  /\ Its(route, inst, x, a) /\ Its(route, inst, x, b)
                  /\ n = StageOf(route, b) /\ lev[s] = 3 * n
                  /\ n = StageOf(route, a) + 1
      <3>1. PICK a \in Ids, b \in Ids, n \in 1 .. l :
                  /\ s = <<"rx_bufs", a, b>>
                  /\ Its(route, inst, x, a) /\ Its(route, inst, x, b)
                  /\ n = StageOf(route, b) /\ lev[s] = 3 * n
                  /\ n = StageOf(route, a) + 1
            BY <2>1
      <3>2. StageOf(route, a) \in 0 .. l
            BY <1>0, StageIs
      <3>. QED BY <3>1, <3>2
    <2>. QED BY <1>3, <1>6, <2>1 DEF lev
  <1>7. ASSUME NEW s, NEW t, NEW x \in Pkts, NEW y \in Pkts, Hash[x] = Hash[y],
               lev[s] = lev[t]
        PROVE  /\ Hand(x, s) /\ Hand(y, t) => s = t
               /\ Buf(x, s) /\ Buf(y, t) => s = t
               /\ Ring(x, s) /\ Ring(y, t) => s = t
               /\ \A kind, d : /\ AtEnd(kind, d, x, s) /\ AtEnd(kind, d, y, t) => s = t
                               /\ Tx(kind, d, x, s) /\ Tx(kind, d, y, t) => s = t
    <2>1. \A a, b \in Ids, n \in Nat : A(x, a, n) /\ A(y, b, n) => a = b
          BY <1>2, <1>7
    <2> HIDE DEF A
    <2>2. Hand(x, s) /\ Hand(y, t) => s = t
          BY <1>7, <2>1
    <2>3. Buf(x, s) /\ Buf(y, t) => s = t
          BY <1>7, <2>1
    <2>4. Ring(x, s) /\ Ring(y, t) => s = t
          BY <1>7, <2>1
    <2>5. \A kind, d : AtEnd(kind, d, x, s) /\ AtEnd(kind, d, y, t) => s = t
          BY <1>7, <2>1
    <2>6. \A kind, d : Tx(kind, d, x, s) /\ Tx(kind, d, y, t) => s = t
          BY <1>4, <2>1
    <2>. QED BY <2>2, <2>3, <2>4, <2>5, <2>6
  <1>8. ASSUME NEW x \in Pkts, NEW s
        PROVE  /\ Hand(x, s) => \E n \in 0 .. l : lev[s] = 3 * n + 2
               /\ Buf(x, s) => \E n \in 1 .. l : lev[s] = 3 * n
               /\ Ring(x, s) => \E n \in 1 .. l : lev[s] = 3 * n + 1
               /\ \A kind, d : /\ AtEnd(kind, d, x, s) => lev[s] = 3 * l + d
                               /\ Tx(kind, d, x, s) => lev[s] = 3 * l + d
        OBVIOUS
  <1> DEFINE LHand(u) == \E n \in 0 .. l : lev[u] = 3 * n + 2
             LBuf(u) == \E n \in 1 .. l : lev[u] = 3 * n
             LRing(u) == \E n \in 1 .. l : lev[u] = 3 * n + 1
  <1>9. ASSUME NEW s, NEW t, lev[s] = lev[t]
        PROVE  /\ LHand(s) => /\ ~LBuf(t) /\ ~LRing(t) /\ lev[t] # 1
                              /\ \A d \in 3 .. 7 : lev[t] # 3 * l + d
               /\ LBuf(s) => /\ ~LRing(t) /\ lev[t] # 1
                             /\ \A d \in 3 .. 7 : lev[t] # 3 * l + d
               /\ LRing(s) => /\ lev[t] # 1 /\ \A d \in 3 .. 7 : lev[t] # 3 * l + d
               /\ lev[s] = 1 => \A d \in 3 .. 7 : lev[t] # 3 * l + d
               /\ \A d, e \in 3 .. 7 : lev[s] = 3 * l + d /\ lev[t] = 3 * l + e => d = e
    <2>1. LHand(s) => /\ ~LBuf(t) /\ ~LRing(t) /\ lev[t] # 1
                      /\ \A d \in 3 .. 7 : lev[t] # 3 * l + d
          BY <1>9
    <2>2. LBuf(s) => /\ ~LRing(t) /\ lev[t] # 1
                     /\ \A d \in 3 .. 7 : lev[t] # 3 * l + d
          BY <1>9
    <2>3. LRing(s) => /\ lev[t] # 1 /\ \A d \in 3 .. 7 : lev[t] # 3 * l + d
          BY <1>9
    <2>4. lev[s] = 1 => \A d \in 3 .. 7 : lev[t] # 3 * l + d
          BY <1>9
    <2>5. ASSUME NEW d \in 3 .. 7, NEW e \in 3 .. 7, lev[s] = 3 * l + d, lev[t] = 3 * l + e
          PROVE  d = e
      <3>1. 3 * l + d = 3 * l + e
            BY <1>9, <2>5
      <3>2. PICK b \in Nat : b = 3 * l
            OBVIOUS
      <3>. QED BY <3>1, <3>2
    <2>. QED BY <2>1, <2>2, <2>3, <2>4, <2>5
  <1>10. ASSUME NEW s \in Stations, NEW t \in Stations, NEW x \in Pkts, NEW y \in Pkts,
               <<x, s>> \in Way(route, inst), <<y, t>> \in Way(route, inst),
               Hash[x] = Hash[y], lev[s] = lev[t]
        PROVE  s = t
    <2> HIDE DEF lev, Hand, Buf, Ring, AtEnd, Tx
    <2>1. /\ \/ One("wire", s) /\ lev[s] = 1
             \/ Hand(x, s) \/ Buf(x, s) \/ Ring(x, s)
             \/ AtEnd("tx_buf", 3, x, s) \/ AtEnd("tx_q", 4, x, s)
             \/ Tx("tx_hand", 5, x, s) \/ Tx("port_buf", 6, x, s)
             \/ One("sent", s) /\ lev[s] = 3 * l + 7
          /\ \/ One("wire", t) /\ lev[t] = 1
             \/ Hand(y, t) \/ Buf(y, t) \/ Ring(y, t)
             \/ AtEnd("tx_buf", 3, y, t) \/ AtEnd("tx_q", 4, y, t)
             \/ Tx("tx_hand", 5, y, t) \/ Tx("port_buf", 6, y, t)
             \/ One("sent", t) /\ lev[t] = 3 * l + 7
          BY <1>6, <1>10
    <2>2. /\ Hand(x, s) => LHand(s)
          /\ Buf(x, s) => LBuf(s)
          /\ Ring(x, s) => LRing(s)
          /\ \A kind, d : /\ AtEnd(kind, d, x, s) => lev[s] = 3 * l + d
                          /\ Tx(kind, d, x, s) => lev[s] = 3 * l + d
          BY <1>8
    <2>3. /\ Hand(y, t) => LHand(t)
          /\ Buf(y, t) => LBuf(t)
          /\ Ring(y, t) => LRing(t)
          /\ \A kind, d : /\ AtEnd(kind, d, y, t) => lev[t] = 3 * l + d
                          /\ Tx(kind, d, y, t) => lev[t] = 3 * l + d
          BY <1>8
    <2>4. /\ LHand(s) => /\ ~LBuf(t) /\ ~LRing(t) /\ lev[t] # 1
                         /\ \A d \in 3 .. 7 : lev[t] # 3 * l + d
          /\ LBuf(s) => /\ ~LHand(t) /\ ~LRing(t) /\ lev[t] # 1
                        /\ \A d \in 3 .. 7 : lev[t] # 3 * l + d
          /\ LRing(s) => /\ ~LHand(t) /\ ~LBuf(t) /\ lev[t] # 1
                         /\ \A d \in 3 .. 7 : lev[t] # 3 * l + d
          /\ lev[s] = 1 => /\ ~LHand(t) /\ ~LBuf(t) /\ ~LRing(t)
                           /\ \A d \in 3 .. 7 : lev[t] # 3 * l + d
          /\ \A d \in 3 .. 7 : lev[s] = 3 * l + d =>
                /\ ~LHand(t) /\ ~LBuf(t) /\ ~LRing(t) /\ lev[t] # 1
                /\ \A e \in 3 .. 7 : lev[t] = 3 * l + e => d = e
          BY <1>9, <1>10
    <2> HIDE DEF LHand, LBuf, LRing
    <2>5. CASE Hand(x, s)
      <3>1. LHand(s)
            BY <2>2, <2>5
      <3>2. Hand(y, t)
            BY <2>1, <2>3, <2>4, <3>1
      <3>. QED BY <1>7, <1>10, <2>5, <3>2
    <2>6. CASE Buf(x, s)
      <3>1. LBuf(s)
            BY <2>2, <2>6
      <3>2. Buf(y, t)
            BY <2>1, <2>3, <2>4, <3>1
      <3>. QED BY <1>7, <1>10, <2>6, <3>2
    <2>7. CASE Ring(x, s)
      <3>1. LRing(s)
            BY <2>2, <2>7
      <3>2. Ring(y, t)
            BY <2>1, <2>3, <2>4, <3>1
      <3>. QED BY <1>7, <1>10, <2>7, <3>2
    <2>8. CASE One("wire", s) /\ lev[s] = 1
          BY <2>1, <2>3, <2>4, <2>8
    <2>9. CASE One("sent", s) /\ lev[s] = 3 * l + 7
          BY <2>1, <2>3, <2>4, <2>9
    <2>10. CASE AtEnd("tx_buf", 3, x, s)
          BY <1>7, <1>10, <2>1, <2>2, <2>3, <2>4, <2>10
    <2>11. CASE AtEnd("tx_q", 4, x, s)
          BY <1>7, <1>10, <2>1, <2>2, <2>3, <2>4, <2>11
    <2>12. CASE Tx("tx_hand", 5, x, s)
          BY <1>7, <1>10, <2>1, <2>2, <2>3, <2>4, <2>12
    <2>13. CASE Tx("port_buf", 6, x, s)
          BY <1>7, <1>10, <2>1, <2>2, <2>3, <2>4, <2>13
    <2>. QED BY <2>1, <2>5, <2>6, <2>7, <2>8, <2>9, <2>10, <2>11, <2>12, <2>13
  <1>. QED BY <1>10 DEF IsWay, lev

(* The packets are in line, as the instances inst are. *)
Ready(route, inst) == InLine(Lines, Stations, Levels(route), Way(route, inst))

(* A station whose variable stays, keeps its packets. *)
LEMMA StationParts ==
    \A u \in Stations :
        /\ u[1] \in {"wire", "sent", "hand", "rx_q", "tx_q", "rx_bufs", "tx_buf", "tx_hand",
                     "port_buf"}
        /\ u[1] = "hand" => u[2] \in Ids /\ u = <<"hand", u[2], 0>>
        /\ u[1] = "rx_q" => u[2] \in Ids /\ u = <<"rx_q", u[2], 0>>
        /\ u[1] = "tx_q" => u[2] \in Ids /\ u = <<"tx_q", u[2], 0>>
        /\ u[1] = "rx_bufs" => u[2] \in Ids /\ u[3] \in Ids /\ u = <<"rx_bufs", u[2], u[3]>>
        /\ u[1] = "tx_buf" => u[2] \in NfIds /\ u = <<"tx_buf", u[2], 0>>
        /\ u[1] = "tx_hand" => u[2] \in TxIds /\ u = <<"tx_hand", u[2], 0>>
        /\ u[1] = "port_buf" => u[2] \in TxIds /\ u = <<"port_buf", u[2], 0>>
        /\ u[1] = "wire" => u = <<"wire", 0, 0>>
        /\ u[1] = "sent" => u = <<"sent", 0, 0>>
  BY StationsAre

(* A queue is as it was when its variable is. *)
LEMMA LineSame ==
    ASSUME NEW u \in Stations,
           u[1] = "wire" => arrived' = arrived, u[1] = "sent" => sent' = sent,
           u[1] = "hand" => hand'[u[2]] = hand[u[2]],
           u[1] = "rx_q" => rx_q'[u[2]] = rx_q[u[2]],
           u[1] = "tx_q" => tx_q'[u[2]] = tx_q[u[2]],
           u[1] = "rx_bufs" => rx_bufs'[u[2]][u[3]] = rx_bufs[u[2]][u[3]],
           u[1] = "tx_buf" => tx_buf'[u[2]] = tx_buf[u[2]],
           u[1] = "tx_hand" => tx_hand'[u[2]] = tx_hand[u[2]],
           u[1] = "port_buf" => port_buf'[u[2]] = port_buf[u[2]]
    PROVE  Lines'[u] = Lines[u]
  <1>1. Lines[u] = Line(u) /\ Lines'[u] = Line(u)'
        BY DEF Lines
  <1>2. Line(u)' = Line(u)
    <2>1. u[1] \in {"wire", "sent", "hand", "rx_q", "tx_q", "rx_bufs", "tx_buf", "tx_hand",
                    "port_buf"}
          BY StationParts
    <2>2. CASE u[1] = "wire"
          BY <2>2 DEF Line
    <2>3. CASE u[1] = "sent"
          BY <2>3 DEF Line
    <2>4. CASE u[1] = "hand"
          BY <2>4 DEF Line
    <2>5. CASE u[1] = "rx_q"
          BY <2>5 DEF Line
    <2>6. CASE u[1] = "tx_q"
          BY <2>6 DEF Line
    <2>7. CASE u[1] = "rx_bufs"
          BY <2>7 DEF Line
    <2>8. CASE u[1] = "tx_buf"
          BY <2>8 DEF Line
    <2>9. CASE u[1] = "tx_hand"
          BY <2>9 DEF Line
    <2>10. CASE u[1] = "port_buf"
          BY <2>10 DEF Line
    <2>. QED BY <2>1, <2>2, <2>3, <2>4, <2>5, <2>6, <2>7, <2>8, <2>9, <2>10
  <1>. QED BY <1>1, <1>2

(* From queues Q to queues R, s has lost its first k packets, the first n of them to
   t, one level on, which has lost its first c. *)
Moves(route, inst, Q, R, s, t, k, n, c) ==
    /\ s \in Stations /\ t \in Stations /\ Levels(route)[t] = Levels(route)[s] + 1
    /\ k \in Nat /\ n \in Nat /\ c \in Nat /\ n <= k
    /\ R[s] = After(Q[s], k) /\ R[t] = After(Q[t], c) \o Upto(Q[s], n)
    /\ \A u \in Stations : u # s /\ u # t => R[u] = Q[u]
    /\ \A x \in ToSet(Upto(Q[s], n)) :
          x \in Pkts /\ Leads(route, inst, x, s) => Leads(route, inst, x, t)

(* Moving the front of one queue one level up keeps the line, ... *)
LEMMA ReadyMove ==
    ASSUME NEW route, IsRoute(route), NEW inst,
           NEW Q, InLine(Q, Stations, Levels(route), Way(route, inst)), NEW R,
           NEW s, NEW t, NEW k, NEW n, NEW c, Moves(route, inst, Q, R, s, t, k, n, c)
    PROVE  InLine(R, Stations, Levels(route), Way(route, inst))
  <1>0. /\ s \in Stations /\ t \in Stations /\ Levels(route)[t] = Levels(route)[s] + 1
        /\ k \in Nat /\ n \in Nat /\ c \in Nat /\ n <= k
        /\ R[s] = After(Q[s], k) /\ R[t] = After(Q[t], c) \o Upto(Q[s], n)
        /\ \A u \in Stations : u # s /\ u # t => R[u] = Q[u]
        /\ \A x \in ToSet(Upto(Q[s], n)) :
              x \in Pkts /\ Leads(route, inst, x, s) => Leads(route, inst, x, t)
        BY DEF Moves
  <1>1. Levels(route) \in [Stations -> Nat] /\ IsWay(Stations, Levels(route), Way(route, inst))
        BY LevelIs, OneWay
  <1>2. ASSUME NEW x \in ToSet(Upto(Q[s], n)) PROVE <<x, t>> \in Way(route, inst)
    <2>1. Q[s] \in Seq(Pkts)
          BY <1>0 DEF InLine
    <2>2. x \in ToSet(Q[s])
          BY <1>0, <2>1, PartsIn
    <2>3. x \in Pkts /\ <<x, s>> \in Way(route, inst)
          BY <1>0, <2>1, <2>2, SetOf DEF InLine
    <2>4. Leads(route, inst, x, s)
          BY <2>3, WayIs
    <2>. QED BY <1>0, <1>2, <2>3, <2>4, WayIs
  <1>3. \A u \in Stations \ {s, t} : R[u] = Q[u]
        BY <1>0
  <1>. QED BY <1>0, <1>1, <1>2, <1>3, OneMove

(* All packets of a queue go to the next one or out of sight, or the first n do the
   one and the others the other. *)
Empties(route, inst, Q, R, s, t, n) ==
    /\ s \in Stations /\ t \in Stations /\ Levels(route)[t] = Levels(route)[s] + 1
    /\ n \in 0 .. Len(Q[s]) /\ R[s] = <<>> /\ R[t] = Q[t] \o Upto(Q[s], n)
    /\ \A u \in Stations : u # s /\ u # t => R[u] = Q[u]
    /\ \A x \in Pkts : Leads(route, inst, x, s) => Leads(route, inst, x, t)

(* ... and so does emptying it. *)
LEMMA ReadyEmpty ==
    ASSUME NEW route, IsRoute(route), NEW inst,
           NEW Q, InLine(Q, Stations, Levels(route), Way(route, inst)), NEW R,
           NEW s, NEW t, NEW n, Empties(route, inst, Q, R, s, t, n)
    PROVE  InLine(R, Stations, Levels(route), Way(route, inst))
  <1>0. /\ s \in Stations /\ t \in Stations /\ Levels(route)[t] = Levels(route)[s] + 1
        /\ n \in 0 .. Len(Q[s]) /\ R[s] = <<>> /\ R[t] = Q[t] \o Upto(Q[s], n)
        /\ \A u \in Stations : u # s /\ u # t => R[u] = Q[u]
        /\ \A x \in Pkts : Leads(route, inst, x, s) => Leads(route, inst, x, t)
        BY DEF Empties
  <1>1. Q[s] \in Seq(Pkts) /\ Q[t] \in Seq(Pkts)
        BY <1>0 DEF InLine
  <1>2. PICK k \in Nat : k = Len(Q[s])
        BY <1>1
  <1>3. After(Q[s], k) = <<>> /\ After(Q[t], 0) = Q[t]
        BY <1>1, <1>2, NoneAndAll
  <1>4. PICK c \in Nat : c = 0
        OBVIOUS
  <1>5. R[s] = After(Q[s], k) /\ R[t] = After(Q[t], c) \o Upto(Q[s], n)
        BY <1>0, <1>3, <1>4
  <1>6. n \in Nat /\ n <= k
        BY <1>0, <1>2
  <1>7. Moves(route, inst, Q, R, s, t, k, n, c)
        BY <1>0, <1>5, <1>6 DEF Moves
  <1>. QED BY <1>7, ReadyMove

(* A thread gives the packet at hand to a buffer, or frees it. *)
LEMMA LineHand ==
    ASSUME NEW route, IsRoute(route), NEW inst, Ready(route, inst),
           TypeOK, NEW th \in Ids, hand[th] # <<>>,
           hand' = [hand EXCEPT ![th] = Tail(@)],
           UNCHANGED <<arrived, sent, rx_q, tx_q, tx_buf, tx_hand, port_buf>>,
           \/ UNCHANGED rx_bufs
           \/ \E id \in Ids :
                 /\ rx_bufs' = [rx_bufs EXCEPT ![th][id] = Append(@, Head(hand[th]))]
                 /\ Its(route, inst, Head(hand[th]), id)
                 /\ StageOf(route, id) = StageOf(route, th) + 1
    PROVE  Ready(route, inst)'
  <1>1. /\ hand \in [Ids -> Seq(Pkts)] /\ rx_bufs \in [Ids -> [Ids -> Seq(Pkts)]]
        BY DEF TypeOK
  <1>2. PICK Q : Q = Lines
        OBVIOUS
  <1>3. PICK R : R = Lines'
        OBVIOUS
  <1>4. PICK s \in Stations : s = <<"hand", th, 0>>
        BY StationsAre
  <1>5. /\ Q[s] = hand[th] /\ R[s] = hand'[th] /\ hand'[th] = Tail(hand[th])
        /\ Q[s] \in Seq(Pkts)
    <2>1. Q[s] = hand[th]
          BY <1>2, <1>4, LineIs DEF LineFacts
    <2>2. R[s] = hand'[th]
          BY <1>3, <1>4, LineNext DEF LineFacts
    <2>. QED BY <1>1, <2>1, <2>2
  <1>6. /\ After(Q[s], 1) = Tail(hand[th]) /\ Upto(Q[s], 1) = <<Head(hand[th])>>
        /\ ToSet(Upto(Q[s], 1)) = {Head(hand[th])}
        BY <1>5, NoneAndAll
  <1>7. InLine(Q, Stations, Levels(route), Way(route, inst))
        BY <1>2 DEF Ready
  <1>8. ASSUME NEW u \in Stations, u # s, \A b \in Ids : u # <<"rx_bufs", th, b>>
        PROVE  R[u] = Q[u]
    <2>1. \A a \in Ids : a # th => hand'[a] = hand[a]
          BY <1>1
    <2>2. \A a, b \in Ids : a # th => rx_bufs'[a][b] = rx_bufs[a][b]
          BY <1>1
    <2>3. u[1] = "hand" => hand'[u[2]] = hand[u[2]]
          BY <1>4, <1>8, <2>1, StationParts
    <2>4. u[1] = "rx_bufs" => rx_bufs'[u[2]][u[3]] = rx_bufs[u[2]][u[3]]
          BY <1>8, <2>2, StationParts
    <2>. QED BY <1>2, <1>3, <2>3, <2>4, LineSame
  <1>9. CASE UNCHANGED rx_bufs
    <2>1. \A u \in Stations : u # s => R[u] = Q[u]
          BY <1>2, <1>3, <1>8, <1>9, LineIs, LineNext DEF LineFacts
    <2>2. \A u \in Stations : R[u] = After(Q[u], IF u = s THEN 1 ELSE 0)
      <3>1. \A u \in Stations : After(Q[u], 0) = Q[u]
            BY <1>7, NoneAndAll DEF InLine
      <3>. QED BY <1>5, <1>6, <2>1, <3>1
    <2>3. \A u \in Stations : \E k \in Nat : R[u] = After(Q[u], k)
          BY <2>2
    <2>4. InLine(R, Stations, Levels(route), Way(route, inst))
          BY <1>7, <2>3, AllCut, LevelIs, OneWay
    <2>. QED BY <1>3, <2>4 DEF Ready
  <1>10. ASSUME NEW id \in Ids,
                rx_bufs' = [rx_bufs EXCEPT ![th][id] = Append(@, Head(hand[th]))],
                Its(route, inst, Head(hand[th]), id),
                StageOf(route, id) = StageOf(route, th) + 1
         PROVE  Ready(route, inst)'
    <2>1. PICK t \in Stations : t = <<"rx_bufs", th, id>>
          BY StationsAre
    <2>2. /\ Q[t] = rx_bufs[th][id] /\ R[t] = rx_bufs'[th][id] /\ Q[t] \in Seq(Pkts)
          BY <1>1, <1>2, <1>3, <2>1, LineIs, LineNext DEF LineFacts
    <2>3. rx_bufs'[th][id] = Append(rx_bufs[th][id], Head(hand[th]))
          BY <1>1, <1>10
    <2>4. R[t] = After(Q[t], 0) \o Upto(Q[s], 1)
      <3>1. After(Q[t], 0) = Q[t]
            BY <2>2, NoneAndAll
      <3>2. Append(Q[t], Head(hand[th])) = Q[t] \o <<Head(hand[th])>>
            BY <1>1, <2>2, HeadTail
      <3>. QED BY <1>6, <2>2, <2>3, <3>1, <3>2
    <2>5. ASSUME NEW u \in Stations, u # s, u # t PROVE R[u] = Q[u]
      <3>1. \A b \in Ids : b # id => rx_bufs'[th][b] = rx_bufs[th][b]
            BY <1>1, <1>10
      <3>. QED BY <1>2, <1>3, <1>8, <2>1, <2>5, <3>1, LineIs, LineNext DEF LineFacts
    <2>6. Levels(route)[t] = Levels(route)[s] + 1
      <3>1. StageOf(route, id) \in Nat /\ StageOf(route, th) \in Nat
            BY StageIs
      <3>2. /\ Levels(route)[s] = 3 * StageOf(route, th) + 2
            /\ Levels(route)[t] = 3 * StageOf(route, id)
            BY <1>4, <2>1, LevelIs
      <3>. QED BY <1>10, <3>1, <3>2
    <2>7. \A x \in ToSet(Upto(Q[s], 1)) : x \in Pkts /\ Leads(route, inst, x, s)
                                              => Leads(route, inst, x, t)
      <3>1. \A x : x \in Pkts /\ Leads(route, inst, x, s) => Its(route, inst, x, th)
            BY <1>4 DEF Leads
      <3>2. \A x : Its(route, inst, x, th) /\ Its(route, inst, x, id) => Leads(route, inst, x, t)
            BY <1>10, <2>1 DEF Leads
      <3>. QED BY <1>6, <1>10, <3>1, <3>2
    <2>8. R[s] = After(Q[s], 1)
          BY <1>5, <1>6
    <2>9. InLine(R, Stations, Levels(route), Way(route, inst))
      <3>1. PICK c \in Nat : c = 0
            OBVIOUS
      <3>2. PICK k \in Nat : k = 1
            OBVIOUS
      <3>3. R[s] = After(Q[s], k) /\ R[t] = After(Q[t], c) \o Upto(Q[s], k) /\ k <= k
            BY <2>4, <2>8, <3>1, <3>2
      <3>4. \A x \in ToSet(Upto(Q[s], k)) : x \in Pkts /\ Leads(route, inst, x, s)
                                              => Leads(route, inst, x, t)
            BY <2>7, <3>2
      <3>5. \A u \in Stations : u # s /\ u # t => R[u] = Q[u]
            BY <2>5
      <3>6. Moves(route, inst, Q, R, s, t, k, k, c)
            BY <2>6, <3>3, <3>4, <3>5 DEF Moves
      <3>. QED BY <1>7, <3>6, ReadyMove
    <2>. QED BY <1>3, <2>9 DEF Ready
  <1>. QED BY <1>9, <1>10

(* The buffer of an NF for its tx_q is flushed. *)
TxRingFlushed(Q, R, id) ==
    /\ R[<<"tx_buf", id, 0>>] = <<>>
    /\ \/ R[<<"tx_q", id, 0>>] = Q[<<"tx_q", id, 0>>] \o Q[<<"tx_buf", id, 0>>]
       \/ R[<<"tx_q", id, 0>>] = Q[<<"tx_q", id, 0>>]
    /\ \A u \in Stations :
          u # <<"tx_buf", id, 0>> /\ u # <<"tx_q", id, 0>> => R[u] = Q[u]

(* The flush of an NF to its TX ring keeps the line, ... *)
LEMMA LineTxRing ==
    ASSUME NEW route, IsRoute(route), NEW inst,
           NEW Q, InLine(Q, Stations, Levels(route), Way(route, inst)), NEW R,
           NEW id \in NfIds, TxRingFlushed(Q, R, id)
    PROVE  InLine(R, Stations, Levels(route), Way(route, inst))
  <1>0. PICK s, t : s = <<"tx_buf", id, 0>> /\ t = <<"tx_q", id, 0>>
        OBVIOUS
  <1>1. s \in Stations /\ t \in Stations
        BY <1>0, StationsAre, IdFacts
  <1>2. Q[s] \in Seq(Pkts) /\ Q[t] \in Seq(Pkts)
        BY <1>1 DEF InLine
  <1>3. Levels(route)[t] = Levels(route)[s] + 1
    <2>1. Len(route) \in Nat
          BY DEF IsRoute
    <2>2. id \in Ids
          BY IdFacts
    <2>3. /\ Levels(route)[<<"tx_buf", id, 0>>] = 3 * Len(route) + 3
          /\ Levels(route)[<<"tx_q", id, 0>>] = 3 * Len(route) + 4
          BY <2>2, LevelIs
    <2>. QED BY <1>0, <2>1, <2>3
  <1>4. \A x \in Pkts : Leads(route, inst, x, s) => Leads(route, inst, x, t)
        BY <1>0 DEF Leads
  <1>5. \E n \in 0 .. Len(Q[s]) : R[t] = Q[t] \o Upto(Q[s], n)
    <2>1. CASE R[t] = Q[t] \o Q[s]
      <3>1. Upto(Q[s], Len(Q[s])) = Q[s] /\ Len(Q[s]) \in 0 .. Len(Q[s])
            BY <1>2, NoneAndAll
      <3>. QED BY <2>1, <3>1
    <2>2. CASE R[t] = Q[t]
      <3>1. Upto(Q[s], 0) = <<>> /\ 0 \in 0 .. Len(Q[s]) /\ Q[t] \o <<>> = Q[t]
            BY <1>2, NoneAndAll
      <3>. QED BY <2>2, <3>1
    <2>. QED BY <1>0, <2>1, <2>2 DEF TxRingFlushed
  <1>6. /\ R[s] = <<>>
        /\ \A u \in Stations : u # s /\ u # t => R[u] = Q[u]
        BY <1>0 DEF TxRingFlushed
  <1>7. PICK n \in 0 .. Len(Q[s]) : R[t] = Q[t] \o Upto(Q[s], n)
        BY <1>5
  <1>8. Empties(route, inst, Q, R, s, t, n)
        BY <1>1, <1>3, <1>4, <1>6, <1>7 DEF Empties
  <1>. QED BY <1>8, ReadyEmpty

(* The buffer of a TX thread for the port is flushed. *)
PortFlushed(Q, R, k) ==
    /\ R[<<"port_buf", k, 0>>] = <<>>
    /\ \E n \in 0 .. Len(Q[<<"port_buf", k, 0>>]) :
          R[<<"sent", 0, 0>>] = Q[<<"sent", 0, 0>>] \o SubSeq(Q[<<"port_buf", k, 0>>], 1, n)
    /\ \A u \in Stations :
          u # <<"port_buf", k, 0>> /\ u # <<"sent", 0, 0>> => R[u] = Q[u]

(* ... as does the flush of a TX thread to the port ... *)
LEMMA LinePort ==
    ASSUME NEW route, IsRoute(route), NEW inst,
           NEW Q, InLine(Q, Stations, Levels(route), Way(route, inst)), NEW R,
           NEW k \in TxIds, PortFlushed(Q, R, k)
    PROVE  InLine(R, Stations, Levels(route), Way(route, inst))
  <1>0. PICK s, t : s = <<"port_buf", k, 0>> /\ t = <<"sent", 0, 0>>
        OBVIOUS
  <1>1. s \in Stations /\ t \in Stations
        BY <1>0, StationsAre
  <1>2. Q[s] \in Seq(Pkts) /\ Q[t] \in Seq(Pkts)
        BY <1>1 DEF InLine
  <1>3. Levels(route)[t] = Levels(route)[s] + 1
    <2>1. Len(route) \in Nat
          BY DEF IsRoute
    <2>2. /\ Levels(route)[<<"port_buf", k, 0>>] = 3 * Len(route) + 6
          /\ Levels(route)[<<"sent", 0, 0>>] = 3 * Len(route) + 7
          BY LevelIs
    <2>. QED BY <1>0, <2>1, <2>2
  <1>4. \A x \in Pkts : Leads(route, inst, x, s) => Leads(route, inst, x, t)
        BY <1>0, WayIs
  <1>5. PICK n \in 0 .. Len(Q[s]) : R[t] = Q[t] \o SubSeq(Q[s], 1, n)
        BY <1>0 DEF PortFlushed
  <1>6. /\ R[s] = <<>>
        /\ \A u \in Stations : u # s /\ u # t => R[u] = Q[u]
        BY <1>0 DEF PortFlushed
  <1>7. Upto(Q[s], n) = SubSeq(Q[s], 1, n)
    <2>1. Len(Q[s]) \in Nat
          BY <1>2
    <2>2. Least(n, Len(Q[s])) = n
          BY <1>5, <2>1 DEF Least
    <2>. QED BY <2>2 DEF Upto
  <1>8. Empties(route, inst, Q, R, s, t, n)
        BY <1>1, <1>3, <1>4, <1>5, <1>6, <1>7 DEF Empties
  <1>. QED BY <1>8, ReadyEmpty

(* The first of a queue goes to the end of another one, one level on. *)
Passes(route, inst, Q, R, s, t) ==
    /\ s \in Stations /\ t \in Stations /\ Levels(route)[t] = Levels(route)[s] + 1
    /\ Q[s] # <<>> /\ R[s] = Tail(Q[s]) /\ R[t] = Append(Q[t], Head(Q[s]))
    /\ \A u \in Stations : u # s /\ u # t => R[u] = Q[u]
    /\ \A x \in Pkts : x = Head(Q[s]) /\ Leads(route, inst, x, s)
                          => Leads(route, inst, x, t)

(* ... and the step of a single packet. *)
LEMMA LineOne ==
    ASSUME NEW route, IsRoute(route), NEW inst,
           NEW Q, InLine(Q, Stations, Levels(route), Way(route, inst)), NEW R,
           NEW s, NEW t, Passes(route, inst, Q, R, s, t)
    PROVE  InLine(R, Stations, Levels(route), Way(route, inst))
  <1>0. /\ s \in Stations /\ t \in Stations /\ Levels(route)[t] = Levels(route)[s] + 1
        /\ Q[s] # <<>> /\ R[s] = Tail(Q[s]) /\ R[t] = Append(Q[t], Head(Q[s]))
        /\ \A u \in Stations : u # s /\ u # t => R[u] = Q[u]
        /\ \A x \in Pkts : x = Head(Q[s]) /\ Leads(route, inst, x, s)
                              => Leads(route, inst, x, t)
        BY DEF Passes
  <1>1. Q[s] \in Seq(Pkts) /\ Q[t] \in Seq(Pkts)
        BY <1>0 DEF InLine
  <1>2. PICK c \in Nat : c = 0
        OBVIOUS
  <1>3. PICK k \in Nat : k = 1
        OBVIOUS
  <1>4. /\ After(Q[s], 1) = Tail(Q[s]) /\ Upto(Q[s], 1) = <<Head(Q[s])>>
        /\ ToSet(Upto(Q[s], 1)) = {Head(Q[s])} /\ After(Q[t], 0) = Q[t]
        BY <1>0, <1>1, NoneAndAll
  <1>5. Append(Q[t], Head(Q[s])) = Q[t] \o <<Head(Q[s])>>
        BY <1>0, <1>1, HeadTail
  <1>6. R[s] = After(Q[s], k) /\ R[t] = After(Q[t], c) \o Upto(Q[s], k) /\ k <= k
    <2>1. R[s] = After(Q[s], k)
          BY <1>0, <1>3, <1>4
    <2>2. After(Q[t], c) = Q[t] /\ Upto(Q[s], k) = <<Head(Q[s])>>
          BY <1>2, <1>3, <1>4
    <2>3. R[t] = After(Q[t], c) \o Upto(Q[s], k)
          BY <1>0, <1>5, <2>2
    <2>4. k <= k
          BY <1>3
    <2>. QED BY <2>1, <2>3, <2>4
  <1>7. \A x \in ToSet(Upto(Q[s], k)) : x \in Pkts /\ Leads(route, inst, x, s)
                                              => Leads(route, inst, x, t)
        BY <1>0, <1>3, <1>4
  <1>8. Moves(route, inst, Q, R, s, t, k, k, c)
        BY <1>0, <1>3, <1>6, <1>7 DEF Moves
  <1>. QED BY <1>8, ReadyMove

(* A step that moves no packet. *)
LEMMA LineQuiet ==
    ASSUME NEW route, NEW inst, Ready(route, inst),
           UNCHANGED <<arrived, sent, hand, rx_q, tx_q, rx_bufs, tx_buf, tx_hand, port_buf>>
    PROVE  Ready(route, inst)'
  <1>1. \A u \in Stations : Lines'[u] = Lines[u]
        BY LineSame
  <1>. QED BY <1>1, SameLine DEF Ready

(* The memory of a process is gone. *)
LEMMA LineVanish ==
    ASSUME NEW route, IsRoute(route), NEW inst, Ready(route, inst), TypeOK,
           NEW id \in NfIds, Vanish(id),
           UNCHANGED <<arrived, sent, rx_q, tx_q, tx_hand, port_buf>>
    PROVE  Ready(route, inst)'
  <1>1. /\ hand \in [Ids -> Seq(Pkts)] /\ rx_bufs \in [Ids -> [Ids -> Seq(Pkts)]]
        /\ tx_buf \in [NfIds -> Seq(Pkts)]
        BY DEF TypeOK
  <1>2. /\ \A a \in Ids : hand'[a] = hand[a] \/ hand'[a] = <<>>
        /\ \A a, b \in Ids : rx_bufs'[a][b] = rx_bufs[a][b] \/ rx_bufs'[a][b] = <<>>
        /\ \A a \in NfIds : tx_buf'[a] = tx_buf[a] \/ tx_buf'[a] = <<>>
        BY <1>1 DEF Vanish
  <1>3. ASSUME NEW u \in Stations PROVE Lines'[u] = Lines[u] \/ Lines'[u] = <<>>
    <2>1. CASE u[1] = "hand"
      <3>1. PICK a \in Ids : u = <<"hand", a, 0>>
            BY <2>1, StationParts
      <3>2. Lines[u] = hand[a]
            BY <3>1, LineIs DEF LineFacts
      <3>3. Lines'[u] = hand'[a]
            BY <3>1, LineNext DEF LineFacts
      <3>. QED BY <1>2, <3>2, <3>3
    <2>2. CASE u[1] = "rx_bufs"
      <3>1. PICK a \in Ids, b \in Ids : u = <<"rx_bufs", a, b>>
            BY <2>2, StationParts
      <3>2. Lines[u] = rx_bufs[a][b]
            BY <3>1, LineIs DEF LineFacts
      <3>3. Lines'[u] = rx_bufs'[a][b]
            BY <3>1, LineNext DEF LineFacts
      <3>. QED BY <1>2, <3>2, <3>3
    <2>3. CASE u[1] = "tx_buf"
      <3>1. PICK a \in NfIds : u = <<"tx_buf", a, 0>>
            BY <2>3, StationParts
      <3>2. Lines[u] = tx_buf[a]
            BY <3>1, LineIs DEF LineFacts
      <3>3. Lines'[u] = tx_buf'[a]
            BY <3>1, LineNext DEF LineFacts
      <3>. QED BY <1>2, <3>2, <3>3
    <2>4. CASE u[1] \notin {"hand", "rx_bufs", "tx_buf"}
          BY <2>4, LineSame
    <2>. QED BY <2>1, <2>2, <2>3, <2>4
  <1>4. \A u \in Stations : Lines[u] \in Seq(Pkts)
        BY DEF Ready, InLine
  <1>5. ASSUME NEW u \in Stations PROVE \E k \in Nat : Lines'[u] = After(Lines[u], k)
    <2>1. Len(Lines[u]) \in Nat
          BY <1>4
    <2>2. After(Lines[u], 0) = Lines[u] /\ After(Lines[u], Len(Lines[u])) = <<>>
          BY <1>4, NoneAndAll
    <2>. QED BY <1>3, <2>1, <2>2
  <1>6. PICK Q, R : Q = Lines /\ R = Lines'
        OBVIOUS
  <1>7. \A u \in Stations : \E k \in Nat : R[u] = After(Q[u], k)
        BY <1>5, <1>6
  <1>8. InLine(Q, Stations, Levels(route), Way(route, inst))
        BY <1>6 DEF Ready
  <1>9. InLine(R, Stations, Levels(route), Way(route, inst))
        BY <1>7, <1>8, AllCut, LevelIs, OneWay
  <1>. QED BY <1>6, <1>9 DEF Ready

(* A burst leaves the wire, for the RX thread or for the pool. *)
LEMMA LineBurst ==
    ASSUME NEW route, IsRoute(route), NEW inst, Ready(route, inst), TypeOK,
           NEW n \in 1 .. PKT_RD_SIZE, RxBurst(n)
    PROVE  Ready(route, inst)'
  <1>1. /\ hand \in [Ids -> Seq(Pkts)] /\ Rx \in Ids /\ arrived \in Nat /\ PKTS \in Nat
        /\ n \in Nat
        BY IdFacts DEF TypeOK, Rx
  <1>2. /\ arrived + n <= PKTS /\ arrived' = arrived + n
        /\ \/ UNCHANGED hand
           \/ hand' = [hand EXCEPT ![Rx] = [j \in 1 .. n |-> arrived + j]]
        /\ UNCHANGED <<sent, rx_q, tx_q, rx_bufs, tx_buf, tx_hand, port_buf>>
        BY DEF RxBurst, rings, txThreads
  <1>3. PICK Q : Q = Lines
        OBVIOUS
  <1>4. PICK R : R = Lines'
        OBVIOUS
  <1>5. PICK s \in Stations : s = <<"wire", 0, 0>>
        BY StationsAre
  <1>6. PICK t \in Stations : t = <<"hand", Rx, 0>>
        BY <1>1, StationsAre
  <1>7. InLine(Q, Stations, Levels(route), Way(route, inst))
        BY <1>3 DEF Ready
  <1>8. /\ Q[s] = [j \in 1 .. PKTS - arrived |-> arrived + j] /\ Q[t] = hand[Rx]
        /\ R[s] = [j \in 1 .. PKTS - (arrived + n) |-> arrived + n + j] /\ R[t] = hand'[Rx]
        BY <1>1, <1>2, <1>3, <1>4, <1>5, <1>6, LineIs, LineNext DEF LineFacts
  <1>9. Q[s] \in Seq(Pkts) /\ Q[t] \in Seq(Pkts) /\ Len(Q[s]) = PKTS - arrived
    <2>1. Q[s] \in Seq(Pkts) /\ Q[t] \in Seq(Pkts)
          BY <1>7 DEF InLine
    <2>2. PKTS - arrived \in Nat
          BY <1>1, <1>2
    <2>. QED BY <1>8, <2>1, <2>2
  <1>10. /\ After(Q[s], n) \in Seq(Pkts) /\ Upto(Q[s], n) \in Seq(Pkts)
         /\ Len(After(Q[s], n)) = PKTS - (arrived + n) /\ Len(Upto(Q[s], n)) = n
         /\ \A j \in 1 .. Len(Upto(Q[s], n)) : Upto(Q[s], n)[j] = Q[s][j]
         /\ \A j \in 1 .. Len(After(Q[s], n)) : After(Q[s], n)[j] = Q[s][j + n]
    <2>1. PICK q \in Seq(Pkts) : q = Q[s]
          BY <1>9
    <2>2. /\ After(q, n) \in Seq(Pkts) /\ Upto(q, n) \in Seq(Pkts)
          /\ Len(After(q, n)) = (IF n <= Len(q) THEN Len(q) - n ELSE 0)
          /\ Len(Upto(q, n)) = Least(n, Len(q))
          /\ \A j \in 1 .. Len(Upto(q, n)) : Upto(q, n)[j] = q[j]
          /\ \A j \in 1 .. Len(After(q, n)) : After(q, n)[j] = q[j + n]
          BY <1>1, Parts
    <2>3. Len(q) = PKTS - arrived /\ n <= Len(q)
          BY <1>1, <1>2, <1>9, <2>1
    <2>4. Least(n, Len(q)) = n
          BY <2>3 DEF Least
    <2>. QED BY <1>1, <1>2, <2>1, <2>2, <2>3, <2>4
  <1>11. R[s] = After(Q[s], n)
    <2>1. PICK a \in Seq(Pkts) : a = After(Q[s], n)
          BY <1>10
    <2>2. PICK l \in Nat : l = PKTS - (arrived + n)
          BY <1>1, <1>2
    <2>3. R[s] \in Seq(Pkts) /\ Len(R[s]) = l
      <3>1. \A j \in 1 .. l : arrived + n + j \in Pkts
            BY <1>1, <1>2, <2>2 DEF Pkts
      <3>. QED BY <1>8, <2>2, <3>1
    <2>4. \A j \in 1 .. l : a[j] = R[s][j]
      <3>1. \A j \in 1 .. l : a[j] = Q[s][j + n] /\ j + n \in 1 .. PKTS - arrived
            BY <1>1, <1>2, <1>10, <2>1, <2>2
      <3>2. \A j \in 1 .. l : Q[s][j + n] = arrived + (j + n)
            BY <1>8, <3>1
      <3>3. \A j \in 1 .. l : arrived + (j + n) = arrived + n + j
            BY <1>1
      <3>4. \A j \in 1 .. l : R[s][j] = arrived + n + j
            BY <1>8, <2>2
      <3>. QED BY <3>1, <3>2, <3>3, <3>4
    <2>5. PICK b \in Seq(Pkts) : b = R[s]
          BY <2>3
    <2>6. Len(a) = Len(b) /\ \A j \in 1 .. Len(a) : a[j] = b[j]
          BY <1>10, <2>1, <2>2, <2>3, <2>4, <2>5
    <2>7. a = b
          BY <2>6, SeqEqual
    <2>. QED BY <2>1, <2>5, <2>7
  <1>12. [j \in 1 .. n |-> arrived + j] = Upto(Q[s], n)
    <2>1. PICK a \in Seq(Pkts) : a = Upto(Q[s], n)
          BY <1>10
    <2>2. PICK b : b = [j \in 1 .. n |-> arrived + j]
          OBVIOUS
    <2>3. b \in Seq(Pkts) /\ Len(b) = n
      <3>1. \A j \in 1 .. n : arrived + j \in Pkts
            BY <1>1, <1>2 DEF Pkts
      <3>. QED BY <1>1, <2>2, <3>1
    <2>4. \A j \in 1 .. n : a[j] = b[j]
      <3>1. \A j \in 1 .. n : j \in 1 .. PKTS - arrived
            BY <1>1, <1>2
      <3>2. \A j \in 1 .. n : a[j] = Q[s][j]
            BY <1>10, <2>1
      <3>. QED BY <1>8, <2>2, <3>1, <3>2
    <2>5. Len(a) = Len(b) /\ \A j \in 1 .. Len(a) : a[j] = b[j]
          BY <1>10, <2>1, <2>3, <2>4
    <2>6. a = b
          BY <2>3, <2>5, SeqEqual
    <2>. QED BY <2>1, <2>2, <2>6
  <1>13. ASSUME NEW u \in Stations, u # s, u # t PROVE R[u] = Q[u]
    <2>1. \A a \in Ids : a # Rx => hand'[a] = hand[a]
          BY <1>1, <1>2
    <2>2. u[1] = "hand" => hand'[u[2]] = hand[u[2]]
          BY <1>6, <1>13, <2>1, StationParts
    <2>3. u[1] # "wire"
          BY <1>5, <1>13, StationParts
    <2>. QED BY <1>2, <1>3, <1>4, <2>2, <2>3, LineSame
  <1>14. CASE UNCHANGED hand
    <2>1. ASSUME NEW u \in Stations PROVE \E k \in Nat : R[u] = After(Q[u], k)
      <3>1. CASE u = s
            BY <1>1, <1>11, <3>1
      <3>2. CASE u # s
        <4>1. R[u] = Q[u]
              BY <1>8, <1>13, <1>14, <3>2
        <4>2. Q[u] \in Seq(Pkts)
              BY <1>7 DEF InLine
        <4>3. After(Q[u], 0) = Q[u]
              BY <4>2, NoneAndAll
        <4>. QED BY <4>1, <4>3
      <3>. QED BY <3>1, <3>2
    <2>2. InLine(R, Stations, Levels(route), Way(route, inst))
          BY <1>7, <2>1, AllCut, LevelIs, OneWay
    <2>. QED BY <1>4, <2>2 DEF Ready
  <1>15. CASE hand' = [hand EXCEPT ![Rx] = [j \in 1 .. n |-> arrived + j]]
    <2>1. R[t] = Upto(Q[s], n)
          BY <1>1, <1>8, <1>12, <1>15
    <2>2. PICK c \in Nat : c = Len(Q[t])
          BY <1>9
    <2>3. After(Q[t], c) = <<>> /\ <<>> \o Upto(Q[s], n) = Upto(Q[s], n)
          BY <1>9, <1>10, <2>2, NoneAndAll
    <2>4. R[t] = After(Q[t], c) \o Upto(Q[s], n)
          BY <2>1, <2>3
    <2>5. Levels(route)[t] = Levels(route)[s] + 1
      <3>1. Levels(route)[<<"wire", 0, 0>>] = 1
            BY LevelIs
      <3>2. Levels(route)[<<"hand", Rx, 0>>] = 3 * StageOf(route, Rx) + 2
            BY <1>1, LevelIs
      <3>3. StageOf(route, Rx) = 0
            BY <1>1, StageIs
      <3>. QED BY <1>5, <1>6, <3>1, <3>2, <3>3
    <2>6. \A x \in ToSet(Upto(Q[s], n)) :
              x \in Pkts /\ Leads(route, inst, x, s) => Leads(route, inst, x, t)
          BY <1>6 DEF Leads, Its
    <2>7. n <= n
          BY <1>1
    <2>8. Moves(route, inst, Q, R, s, t, n, n, c)
          BY <1>1, <1>11, <1>13, <2>4, <2>5, <2>6, <2>7 DEF Moves
    <2>9. InLine(R, Stations, Levels(route), Way(route, inst))
          BY <1>7, <2>8, ReadyMove
    <2>. QED BY <1>4, <2>9 DEF Ready
  <1>. QED BY <1>2, <1>14, <1>15

(* A thread flushes buffers. *)
LEMMA LineFlush ==
    ASSUME NEW route, IsRoute(route), NEW inst, Ready(route, inst), TypeOK,
           NEW th \in Ids, NEW ids \in SUBSET Ids, Flush(th, ids),
           UNCHANGED <<arrived, sent, hand, tx_q, tx_buf, tx_hand, port_buf>>
    PROVE  Ready(route, inst)'
  <1> DEFINE go == {id \in ids : IsValid(id)}
             took == {id \in go : Fits(th, id)}
  <1>1. /\ rx_bufs \in [Ids -> [Ids -> Seq(Pkts)]] /\ rx_q \in [Ids -> Seq(Pkts)]
        BY DEF TypeOK
  <1>2. /\ rx_q' = [id \in Ids |-> IF id \in took THEN rx_q[id] \o rx_bufs[th][id]
                                                  ELSE rx_q[id]]
        /\ rx_bufs' = [rx_bufs EXCEPT ![th] =
                          [id \in Ids |-> IF id \in go THEN <<>> ELSE @[id]]]
        BY DEF Flush
  <1>3. took \subseteq go /\ go \subseteq Ids
        OBVIOUS
  <1> HIDE DEF go, took
  <1>4. PICK Q : Q = Lines
        OBVIOUS
  <1>5. PICK R : R = Lines'
        OBVIOUS
  <1>6. InLine(Q, Stations, Levels(route), Way(route, inst))
        BY <1>4 DEF Ready
  <1>7. PICK src : src = [u \in Stations |->
            IF u[1] = "rx_q" THEN <<"rx_bufs", th, u[2]>> ELSE u]
        OBVIOUS
  <1>8. PICK m : m = [u \in Stations |->
            IF u[1] = "rx_bufs" /\ u[2] = th /\ u[3] \in go
            THEN Len(rx_bufs[th][u[3]]) ELSE 0]
        OBVIOUS
  <1>9. PICK n : n = [u \in Stations |->
            IF u[1] = "rx_q" /\ u[2] \in took THEN Len(rx_bufs[th][u[2]]) ELSE 0]
        OBVIOUS
  <1>10. \A u \in Stations : Q[u] \in Seq(Pkts)
         BY <1>6 DEF InLine
  <1>11. ASSUME NEW a \in Ids
         PROVE  /\ <<"rx_q", a, 0>> \in Stations /\ <<"rx_bufs", th, a>> \in Stations
                /\ Q[<<"rx_q", a, 0>>] = rx_q[a] /\ R[<<"rx_q", a, 0>>] = rx_q'[a]
                /\ Q[<<"rx_bufs", th, a>>] = rx_bufs[th][a]
                /\ R[<<"rx_bufs", th, a>>] = rx_bufs'[th][a]
                /\ rx_q[a] \in Seq(Pkts) /\ rx_bufs[th][a] \in Seq(Pkts)
    <2>1. <<"rx_q", a, 0>> \in Stations /\ <<"rx_bufs", th, a>> \in Stations
          BY StationsAre
    <2>2. /\ Lines[<<"rx_q", a, 0>>] = rx_q[a]
          /\ Lines[<<"rx_bufs", th, a>>] = rx_bufs[th][a]
          BY LineIs DEF LineFacts
    <2>3. /\ Lines'[<<"rx_q", a, 0>>] = rx_q'[a]
          /\ Lines'[<<"rx_bufs", th, a>>] = rx_bufs'[th][a]
          BY LineNext DEF LineFacts
    <2>. QED BY <1>1, <1>4, <1>5, <2>1, <2>2, <2>3
  <1>12. /\ src \in [Stations -> Stations] /\ m \in [Stations -> Nat]
         /\ n \in [Stations -> Nat]
    <2>1. \A a \in Ids : Len(rx_bufs[th][a]) \in Nat
          BY <1>1
    <2>2. src \in [Stations -> Stations]
      <3>1. ASSUME NEW u \in Stations, u[1] = "rx_q"
            PROVE  <<"rx_bufs", th, u[2]>> \in Stations
            BY <1>11, <3>1, StationParts
      <3>. QED BY <1>7, <3>1
    <2>3. m \in [Stations -> Nat]
          BY <1>3, <1>8, <2>1
    <2>4. n \in [Stations -> Nat]
          BY <1>3, <1>9, <2>1
    <2>. QED BY <2>2, <2>3, <2>4
  <1>13. ASSUME NEW u \in Stations, u[1] # "rx_q"
         PROVE  /\ R[u] = After(Q[u], m[u]) /\ n[u] = 0 /\ src[u] = u
    <2>1. n[u] = 0 /\ src[u] = u
          BY <1>7, <1>9, <1>13
    <2>2. CASE u[1] = "rx_bufs" /\ u[2] = th /\ u[3] \in go
      <3>1. PICK a \in Ids : u = <<"rx_bufs", th, a>> /\ a \in go
            BY <2>2, StationParts
      <3>2. m[u] = Len(Q[u])
        <4>1. u[3] = a
              BY <3>1
        <4>2. m[u] = Len(rx_bufs[th][a])
              BY <1>8, <2>2, <4>1
        <4>3. Q[u] = rx_bufs[th][a]
              BY <1>11, <3>1
        <4>. QED BY <4>2, <4>3
      <3>3. R[u] = <<>>
            BY <1>1, <1>2, <1>11, <3>1
      <3>. QED BY <1>10, <2>1, <3>2, <3>3, NoneAndAll
    <2>3. CASE ~(u[1] = "rx_bufs" /\ u[2] = th /\ u[3] \in go)
      <3>1. m[u] = 0
            BY <1>8, <2>3
      <3>2. u[1] = "rx_bufs" => rx_bufs'[u[2]][u[3]] = rx_bufs[u[2]][u[3]]
            BY <1>1, <1>2, <2>3, StationParts
      <3>3. R[u] = Q[u]
            BY <1>4, <1>5, <1>13, <3>2, LineSame
      <3>. QED BY <1>10, <2>1, <3>1, <3>3, NoneAndAll
    <2>. QED BY <2>2, <2>3
  <1>14. ASSUME NEW u \in Stations, u[1] = "rx_q"
         PROVE  R[u] = After(Q[u], m[u]) \o Upto(Q[src[u]], n[u])
    <2>1. PICK a \in Ids : u = <<"rx_q", a, 0>>
          BY <1>14, StationParts
    <2>2. m[u] = 0 /\ src[u] = <<"rx_bufs", th, a>>
          BY <1>7, <1>8, <2>1
    <2>3. After(Q[u], 0) = rx_q[a] /\ Q[src[u]] = rx_bufs[th][a] /\ R[u] = rx_q'[a]
          BY <1>11, <2>1, <2>2, NoneAndAll
    <2>4. CASE a \in took
      <3>1. n[u] = Len(rx_bufs[th][a])
            BY <1>9, <2>1, <2>4
      <3>2. Upto(rx_bufs[th][a], Len(rx_bufs[th][a])) = rx_bufs[th][a]
            BY <1>11, NoneAndAll
      <3>3. rx_q'[a] = rx_q[a] \o rx_bufs[th][a]
            BY <1>2, <2>4
      <3>. QED BY <2>2, <2>3, <3>1, <3>2, <3>3
    <2>5. CASE a \notin took
      <3>1. n[u] = 0
            BY <1>9, <2>1, <2>5
      <3>2. Upto(rx_bufs[th][a], 0) = <<>> /\ rx_q[a] \o <<>> = rx_q[a]
            BY <1>11, NoneAndAll
      <3>3. rx_q'[a] = rx_q[a]
            BY <1>2, <2>5
      <3>. QED BY <2>2, <2>3, <3>1, <3>2, <3>3
    <2>. QED BY <2>4, <2>5
  <1>15. ASSUME NEW u \in Stations PROVE R[u] = After(Q[u], m[u]) \o Upto(Q[src[u]], n[u])
    <2>1. CASE u[1] # "rx_q"
      <3>1. Q[u] \in Seq(Pkts) /\ m[u] \in Nat
            BY <1>10, <1>12
      <3>2. After(Q[u], m[u]) \in Seq(Pkts) /\ Upto(Q[u], 0) = <<>>
            BY <3>1, PartsIn, NoneAndAll
      <3>3. After(Q[u], m[u]) \o <<>> = After(Q[u], m[u])
            BY <3>2, NoneAndAll
      <3>. QED BY <1>13, <2>1, <3>2, <3>3
    <2>. QED BY <1>14, <2>1
  <1>16. ASSUME NEW u \in Stations, n[u] > 0
         PROVE  /\ Levels(route)[u] = Levels(route)[src[u]] + 1 /\ n[u] <= m[src[u]]
                /\ \A x \in ToSet(Upto(Q[src[u]], n[u])) : <<x, u>> \in Way(route, inst)
    <2>1. PICK a \in Ids : u = <<"rx_q", a, 0>> /\ a \in took
          BY <1>9, <1>16, StationParts
    <2>2. PICK s \in Stations : s = <<"rx_bufs", th, a>> /\ src[u] = s
          BY <1>7, <1>11, <2>1
    <2>3. n[u] = Len(rx_bufs[th][a]) /\ m[s] = Len(rx_bufs[th][a])
          BY <1>3, <1>8, <1>9, <2>1, <2>2
    <2>4. Levels(route)[u] = Levels(route)[s] + 1
      <3>1. /\ Levels(route)[<<"rx_q", a, 0>>] = 3 * StageOf(route, a) + 1
            /\ Levels(route)[<<"rx_bufs", th, a>>] = 3 * StageOf(route, a)
            BY LevelIs
      <3>. QED BY <2>1, <2>2, <3>1
    <2>5. ASSUME NEW x \in ToSet(Upto(Q[s], n[u])) PROVE <<x, u>> \in Way(route, inst)
      <3>1. Q[s] \in Seq(Pkts) /\ n[u] \in Nat
            BY <1>10, <1>12
      <3>2. x \in ToSet(Q[s])
            BY <2>5, <3>1, PartsIn
      <3>3. x \in Pkts /\ <<x, s>> \in Way(route, inst)
            BY <1>6, <3>1, <3>2, SetOf DEF InLine
      <3>4. Leads(route, inst, x, s)
            BY <3>3, WayIs
      <3>5. Its(route, inst, x, a) /\ StageOf(route, a) = StageOf(route, th) + 1
            BY <2>2, <3>4 DEF Leads
      <3>6. a # Rx
        <4>1. StageOf(route, th) \in Nat
              BY StageIs
        <4>2. a = Rx => StageOf(route, a) = 0
              BY StageIs
        <4>. QED BY <3>5, <4>1, <4>2
      <3>7. Leads(route, inst, x, u)
            BY <2>1, <3>5, <3>6 DEF Leads
      <3>. QED BY <3>3, <3>7, WayIs
    <2>6. n[u] <= m[s]
      <3>1. Len(rx_bufs[th][a]) \in Nat
            BY <1>1
      <3>. QED BY <2>3, <3>1
    <2>. QED BY <2>2, <2>4, <2>5, <2>6
  <1>17. InLine(R, Stations, Levels(route), Way(route, inst))
    <2>1. Levels(route) \in [Stations -> Nat] /\ IsWay(Stations, Levels(route), Way(route, inst))
          BY LevelIs, OneWay
    <2>. QED BY <1>6, <1>12, <1>15, <1>16, <2>1, AllMove
  <1>. QED BY <1>5, <1>17 DEF Ready

(* An NF dequeues a burst. *)
LEMMA LineDequeue ==
    ASSUME NEW route, IsRoute(route), NEW inst, Ready(route, inst), TypeOK,
           NEW id \in NfIds, NfDequeue(id)
    PROVE  Ready(route, inst)'
  <1>1. /\ hand \in [Ids -> Seq(Pkts)] /\ rx_q \in [Ids -> Seq(Pkts)]
        /\ id \in Ids /\ id # Rx /\ PKT_RD_SIZE \in Nat
        BY IdFacts DEF TypeOK, NfIds, Rx
  <1>2. PICK k \in Nat : k = Len(Upto(rx_q[id], PKT_RD_SIZE))
    <2>1. Upto(rx_q[id], PKT_RD_SIZE) \in Seq(Pkts)
          BY <1>1, Parts
    <2>. QED BY <2>1
  <1>3. /\ hand' = [hand EXCEPT ![id] = Upto(rx_q[id], PKT_RD_SIZE)]
        /\ rx_q' = [rx_q EXCEPT ![id] = After(@, k)]
        /\ UNCHANGED <<arrived, sent, tx_q, rx_bufs, tx_buf, tx_hand, port_buf>>
        BY <1>2 DEF NfDequeue, txThreads
  <1>4. PICK Q : Q = Lines
        OBVIOUS
  <1>5. PICK R : R = Lines'
        OBVIOUS
  <1>6. PICK s \in Stations : s = <<"rx_q", id, 0>>
        BY <1>1, StationsAre
  <1>7. PICK t \in Stations : t = <<"hand", id, 0>>
        BY <1>1, StationsAre
  <1>8. InLine(Q, Stations, Levels(route), Way(route, inst))
        BY <1>4 DEF Ready
  <1>9. /\ Q[s] = rx_q[id] /\ R[s] = rx_q'[id] /\ Q[t] = hand[id] /\ R[t] = hand'[id]
        /\ Q[s] \in Seq(Pkts) /\ Q[t] \in Seq(Pkts)
    <2>1. Lines[<<"rx_q", id, 0>>] = rx_q[id] /\ Lines[<<"hand", id, 0>>] = hand[id]
          BY <1>1, LineIs DEF LineFacts
    <2>2. Lines'[<<"rx_q", id, 0>>] = rx_q'[id] /\ Lines'[<<"hand", id, 0>>] = hand'[id]
          BY <1>1, LineNext DEF LineFacts
    <2>. QED BY <1>1, <1>4, <1>5, <1>6, <1>7, <2>1, <2>2
  <1>10. /\ Upto(Q[s], PKT_RD_SIZE) = Upto(Q[s], k) /\ Upto(Q[s], k) \in Seq(Pkts)
    <2>1. PICK q \in Seq(Pkts) : q = Q[s]
          BY <1>9
    <2>2. k = Least(PKT_RD_SIZE, Len(q)) /\ Len(q) \in Nat
          BY <1>1, <1>2, <1>9, <2>1, Parts
    <2>3. Least(k, Len(q)) = k
          BY <1>1, <2>2 DEF Least
    <2>4. Upto(q, PKT_RD_SIZE) = Upto(q, k)
          BY <2>2, <2>3 DEF Upto
    <2>5. Upto(q, k) \in Seq(Pkts)
          BY Parts
    <2>. QED BY <2>1, <2>4, <2>5
  <1>11. PICK c \in Nat : c = Len(Q[t])
         BY <1>9
  <1>12. R[s] = After(Q[s], k) /\ R[t] = After(Q[t], c) \o Upto(Q[s], k)
    <2>1. R[s] = After(Q[s], k) /\ R[t] = Upto(Q[s], k)
          BY <1>1, <1>3, <1>9, <1>10
    <2>2. After(Q[t], c) = <<>> /\ <<>> \o Upto(Q[s], k) = Upto(Q[s], k)
          BY <1>9, <1>10, <1>11, NoneAndAll
    <2>. QED BY <2>1, <2>2
  <1>13. Levels(route)[t] = Levels(route)[s] + 1
    <2>1. /\ Levels(route)[<<"rx_q", id, 0>>] = 3 * StageOf(route, id) + 1
          /\ Levels(route)[<<"hand", id, 0>>] = 3 * StageOf(route, id) + 2
          BY <1>1, LevelIs
    <2>2. StageOf(route, id) \in Nat
          BY <1>1, StageIs
    <2>. QED BY <1>6, <1>7, <2>1, <2>2
  <1>14. ASSUME NEW u \in Stations, u # s, u # t PROVE R[u] = Q[u]
    <2>1. \A a \in Ids : a # id => hand'[a] = hand[a] /\ rx_q'[a] = rx_q[a]
          BY <1>1, <1>3
    <2>2. /\ u[1] = "hand" => hand'[u[2]] = hand[u[2]]
          /\ u[1] = "rx_q" => rx_q'[u[2]] = rx_q[u[2]]
          BY <1>6, <1>7, <1>14, <2>1, StationParts
    <2>. QED BY <1>3, <1>4, <1>5, <2>2, LineSame
  <1>15. \A x \in ToSet(Upto(Q[s], k)) :
             x \in Pkts /\ Leads(route, inst, x, s) => Leads(route, inst, x, t)
         BY <1>6, <1>7 DEF Leads
  <1>16. k <= k
         BY <1>2
  <1>17. Moves(route, inst, Q, R, s, t, k, k, c)
         BY <1>12, <1>13, <1>14, <1>15, <1>16 DEF Moves
  <1>18. InLine(R, Stations, Levels(route), Way(route, inst))
         BY <1>8, <1>17, ReadyMove
  <1>. QED BY <1>5, <1>18 DEF Ready

(* A TX thread dequeues a burst of an NF that it serves. *)
LEMMA LineTxDequeue ==
    ASSUME NEW route, IsRoute(route), NEW inst, Ready(route, inst), TypeOK,
           NEW k \in TxIds, NEW id \in NfIds, TxDequeue(k, id)
    PROVE  Ready(route, inst)'
  <1>1. /\ tx_hand \in [TxIds -> Seq(Pkts)] /\ tx_q \in [Ids -> Seq(Pkts)]
        /\ id \in Ids /\ id \in Served(k)
        BY IdFacts DEF TypeOK, TxDequeue
  <1>2. PICK b \in Nat : b = PKT_RD_SIZE
        BY IdFacts
  <1>3. /\ tx_hand[k] = <<>> /\ tx_hand' = [tx_hand EXCEPT ![k] = Upto(tx_q[id], b)]
        /\ tx_q' = [tx_q EXCEPT ![id] = After(@, b)]
        /\ UNCHANGED <<arrived, sent, hand, rx_q, rx_bufs, tx_buf, port_buf>>
        BY <1>2 DEF TxDequeue, senders
  <1>4. PICK Q : Q = Lines
        OBVIOUS
  <1>5. PICK R : R = Lines'
        OBVIOUS
  <1>6. PICK s \in Stations : s = <<"tx_q", id, 0>>
        BY <1>1, StationsAre
  <1>7. PICK t \in Stations : t = <<"tx_hand", k, 0>>
        BY StationsAre
  <1>8. InLine(Q, Stations, Levels(route), Way(route, inst))
        BY <1>4 DEF Ready
  <1>9. /\ Q[s] = tx_q[id] /\ R[s] = tx_q'[id] /\ Q[t] = tx_hand[k] /\ R[t] = tx_hand'[k]
        /\ Q[s] \in Seq(Pkts) /\ Q[t] \in Seq(Pkts)
    <2>1. Lines[<<"tx_q", id, 0>>] = tx_q[id] /\ Lines[<<"tx_hand", k, 0>>] = tx_hand[k]
          BY <1>1, LineIs DEF LineFacts
    <2>2. Lines'[<<"tx_q", id, 0>>] = tx_q'[id] /\ Lines'[<<"tx_hand", k, 0>>] = tx_hand'[k]
          BY <1>1, LineNext DEF LineFacts
    <2>. QED BY <1>1, <1>4, <1>5, <1>6, <1>7, <2>1, <2>2
  <1>10. PICK c \in Nat : c = Len(Q[t])
         BY <1>9
  <1>11. R[s] = After(Q[s], b) /\ R[t] = After(Q[t], c) \o Upto(Q[s], b)
    <2>1. R[s] = After(Q[s], b) /\ R[t] = Upto(Q[s], b)
          BY <1>1, <1>3, <1>9
    <2>2. Upto(Q[s], b) \in Seq(Pkts)
          BY <1>9, PartsIn
    <2>3. After(Q[t], c) = <<>> /\ <<>> \o Upto(Q[s], b) = Upto(Q[s], b)
          BY <1>9, <1>10, <2>2, NoneAndAll
    <2>. QED BY <2>1, <2>3
  <1>12. Levels(route)[t] = Levels(route)[s] + 1
    <2>1. /\ Levels(route)[<<"tx_q", id, 0>>] = 3 * Len(route) + 4
          /\ Levels(route)[<<"tx_hand", k, 0>>] = 3 * Len(route) + 5
          BY <1>1, LevelIs
    <2>2. Len(route) \in Nat
          BY DEF IsRoute
    <2>. QED BY <1>6, <1>7, <2>1, <2>2
  <1>13. ASSUME NEW u \in Stations, u # s, u # t PROVE R[u] = Q[u]
    <2>1. \A a \in Ids : a # id => tx_q'[a] = tx_q[a]
          BY <1>1, <1>3
    <2>2. \A a \in TxIds : a # k => tx_hand'[a] = tx_hand[a]
          BY <1>1, <1>3
    <2>3. /\ u[1] = "tx_hand" => tx_hand'[u[2]] = tx_hand[u[2]]
          /\ u[1] = "tx_q" => tx_q'[u[2]] = tx_q[u[2]]
          BY <1>6, <1>7, <1>13, <2>1, <2>2, StationParts
    <2>. QED BY <1>3, <1>4, <1>5, <2>3, LineSame
  <1>14. \A x \in ToSet(Upto(Q[s], b)) :
             x \in Pkts /\ Leads(route, inst, x, s) => Leads(route, inst, x, t)
         BY <1>1, <1>6, <1>7 DEF Leads
  <1>15. b <= b
         BY <1>2
  <1>16. Moves(route, inst, Q, R, s, t, b, b, c)
         BY <1>11, <1>12, <1>13, <1>14, <1>15 DEF Moves
  <1>17. InLine(R, Stations, Levels(route), Way(route, inst))
         BY <1>8, <1>16, ReadyMove
  <1>. QED BY <1>5, <1>17 DEF Ready

(* A TX thread takes a packet for the port. *)
LEMMA LineTxPacket ==
    ASSUME NEW route, IsRoute(route), NEW inst, Ready(route, inst), TypeOK,
           NEW k \in TxIds, TxPacket(k)
    PROVE  Ready(route, inst)'
  <1>1. /\ tx_hand \in [TxIds -> Seq(Pkts)] /\ port_buf \in [TxIds -> Seq(Pkts)]
        BY DEF TypeOK
  <1>2. PICK buf : buf = Append(port_buf[k], Head(tx_hand[k]))
        OBVIOUS
  <1>3. /\ tx_hand[k] # <<>> /\ tx_hand' = [tx_hand EXCEPT ![k] = Tail(@)]
        /\ UNCHANGED <<arrived, hand, rx_q, tx_q, rx_bufs, tx_buf>>
        /\ \/ FlushPort(k, buf)
           \/ port_buf' = [port_buf EXCEPT ![k] = buf] /\ UNCHANGED sent
        BY <1>2 DEF TxPacket, rings, senders
  <1>4. PICK Q : Q = Lines
        OBVIOUS
  <1>5. PICK R : R = Lines'
        OBVIOUS
  <1>6. PICK s \in Stations : s = <<"tx_hand", k, 0>>
        BY StationsAre
  <1>7. PICK t \in Stations : t = <<"port_buf", k, 0>>
        BY StationsAre
  <1>8. InLine(Q, Stations, Levels(route), Way(route, inst))
        BY <1>4 DEF Ready
  <1>9. /\ Q[s] = tx_hand[k] /\ R[s] = tx_hand'[k]
        /\ Q[t] = port_buf[k] /\ R[t] = port_buf'[k]
    <2>1. Lines[<<"tx_hand", k, 0>>] = tx_hand[k] /\ Lines[<<"port_buf", k, 0>>] = port_buf[k]
          BY LineIs DEF LineFacts
    <2>2. /\ Lines'[<<"tx_hand", k, 0>>] = tx_hand'[k]
          /\ Lines'[<<"port_buf", k, 0>>] = port_buf'[k]
          BY LineNext DEF LineFacts
    <2>. QED BY <1>4, <1>5, <1>6, <1>7, <2>1, <2>2
  <1>10. PICK M : M = [u \in Stations |-> IF u = s THEN Tail(Q[s]) ELSE
                                          IF u = t THEN Append(Q[t], Head(Q[s])) ELSE Q[u]]
         OBVIOUS
  <1>11. s # t
         BY <1>6, <1>7
  <1>12. /\ M[s] = Tail(Q[s]) /\ M[t] = Append(Q[t], Head(Q[s]))
         /\ \A u \in Stations : u # s /\ u # t => M[u] = Q[u]
         BY <1>10, <1>11
  <1>13. InLine(M, Stations, Levels(route), Way(route, inst))
    <2>1. Levels(route)[t] = Levels(route)[s] + 1
      <3>1. /\ Levels(route)[<<"tx_hand", k, 0>>] = 3 * Len(route) + 5
            /\ Levels(route)[<<"port_buf", k, 0>>] = 3 * Len(route) + 6
            BY LevelIs
      <3>2. Len(route) \in Nat
            BY DEF IsRoute
      <3>. QED BY <1>6, <1>7, <3>1, <3>2
    <2>2. \A x \in Pkts : x = Head(Q[s]) /\ Leads(route, inst, x, s)
                             => Leads(route, inst, x, t)
          BY <1>6, <1>7 DEF Leads
    <2>3. Q[s] # <<>>
          BY <1>3, <1>9
    <2>4. Passes(route, inst, Q, M, s, t)
          BY <1>12, <2>1, <2>2, <2>3 DEF Passes
    <2>. QED BY <1>8, <2>4, LineOne
  <1>14. R[s] = M[s] /\ M[t] = buf
         BY <1>1, <1>2, <1>3, <1>9, <1>12
  <1>15. ASSUME NEW u \in Stations, u # t, u # <<"sent", 0, 0>> PROVE R[u] = M[u]
    <2>1. CASE u = s
          BY <1>14, <2>1
    <2>2. CASE u # s
      <3>1. \A a \in TxIds : a # k => tx_hand'[a] = tx_hand[a] /\ port_buf'[a] = port_buf[a]
            BY <1>1, <1>3 DEF FlushPort
      <3>2. /\ u[1] = "tx_hand" => tx_hand'[u[2]] = tx_hand[u[2]]
            /\ u[1] = "port_buf" => port_buf'[u[2]] = port_buf[u[2]]
            BY <1>6, <1>7, <1>15, <2>2, <3>1, StationParts
      <3>3. u[1] # "sent"
            BY <1>15, StationParts
      <3>4. R[u] = Q[u]
            BY <1>3, <1>4, <1>5, <3>2, <3>3, LineSame
      <3>. QED BY <1>12, <1>15, <2>2, <3>4
    <2>. QED BY <2>1, <2>2
  <1>16. PICK w \in Stations : w = <<"sent", 0, 0>>
         BY StationsAre
  <1>17. Q[w] = sent /\ R[w] = sent' /\ M[w] = sent
    <2>1. Q[w] = sent
          BY <1>4, <1>16, LineIs DEF LineFacts
    <2>2. R[w] = sent'
          BY <1>5, <1>16, LineNext DEF LineFacts
    <2>3. w # s /\ w # t
          BY <1>6, <1>7, <1>16
    <2>. QED BY <1>12, <2>1, <2>2, <2>3
  <1>18. CASE FlushPort(k, buf)
    <2>1. PICK n \in 0 .. Len(buf) : sent' = sent \o SubSeq(buf, 1, n)
          BY <1>18 DEF FlushPort
    <2>2. R[t] = <<>>
          BY <1>1, <1>9, <1>18 DEF FlushPort
    <2>3. PortFlushed(M, R, k)
      <3>1. R[w] = M[w] \o SubSeq(M[t], 1, n) /\ n \in 0 .. Len(M[t])
            BY <1>14, <1>17, <2>1
      <3>. QED BY <1>7, <1>15, <1>16, <2>2, <3>1 DEF PortFlushed
    <2>4. InLine(R, Stations, Levels(route), Way(route, inst))
          BY <1>13, <2>3, LinePort
    <2>. QED BY <1>5, <2>4 DEF Ready
  <1>19. CASE port_buf' = [port_buf EXCEPT ![k] = buf] /\ UNCHANGED sent
    <2>1. R[t] = M[t]
          BY <1>1, <1>9, <1>14, <1>19
    <2>2. R[w] = M[w]
          BY <1>17, <1>19
    <2>3. \A u \in Stations : R[u] = M[u]
          BY <1>15, <1>16, <2>1, <2>2
    <2>4. InLine(R, Stations, Levels(route), Way(route, inst))
          BY <1>13, <2>3, SameLine
    <2>. QED BY <1>5, <2>4 DEF Ready
  <1>. QED BY <1>3, <1>18, <1>19

(* A TX thread flushes the port. *)
LEMMA LineTxFlush ==
    ASSUME NEW route, IsRoute(route), NEW inst, Ready(route, inst), TypeOK,
           NEW k \in TxIds, TxFlush(k)
    PROVE  Ready(route, inst)'
  <1>1. port_buf \in [TxIds -> Seq(Pkts)]
        BY DEF TypeOK
  <1>2. /\ FlushPort(k, port_buf[k])
        /\ UNCHANGED <<arrived, hand, rx_q, tx_q, rx_bufs, tx_buf, tx_hand>>
        BY DEF TxFlush, rings, senders
  <1>3. PICK n \in 0 .. Len(port_buf[k]) : sent' = sent \o SubSeq(port_buf[k], 1, n)
        BY <1>2 DEF FlushPort
  <1>4. PICK Q : Q = Lines
        OBVIOUS
  <1>5. PICK R : R = Lines'
        OBVIOUS
  <1>6. PICK s \in Stations : s = <<"port_buf", k, 0>>
        BY StationsAre
  <1>7. PICK t \in Stations : t = <<"sent", 0, 0>>
        BY StationsAre
  <1>8. InLine(Q, Stations, Levels(route), Way(route, inst))
        BY <1>4 DEF Ready
  <1>9. /\ Q[s] = port_buf[k] /\ R[s] = port_buf'[k] /\ Q[t] = sent /\ R[t] = sent'
    <2>1. Lines[<<"port_buf", k, 0>>] = port_buf[k] /\ Lines[<<"sent", 0, 0>>] = sent
          BY LineIs DEF LineFacts
    <2>2. Lines'[<<"port_buf", k, 0>>] = port_buf'[k] /\ Lines'[<<"sent", 0, 0>>] = sent'
          BY LineNext DEF LineFacts
    <2>. QED BY <1>4, <1>5, <1>6, <1>7, <2>1, <2>2
  <1>10. R[s] = <<>>
         BY <1>1, <1>2, <1>9 DEF FlushPort
  <1>11. ASSUME NEW u \in Stations, u # s, u # t PROVE R[u] = Q[u]
    <2>1. \A a \in TxIds : a # k => port_buf'[a] = port_buf[a]
          BY <1>1, <1>2 DEF FlushPort
    <2>2. u[1] = "port_buf" => port_buf'[u[2]] = port_buf[u[2]]
          BY <1>6, <1>11, <2>1, StationParts
    <2>3. u[1] # "sent"
          BY <1>7, <1>11, StationParts
    <2>. QED BY <1>2, <1>4, <1>5, <2>2, <2>3, LineSame
  <1>12. PortFlushed(Q, R, k)
    <2>1. R[t] = Q[t] \o SubSeq(Q[s], 1, n) /\ n \in 0 .. Len(Q[s])
          BY <1>3, <1>9
    <2>. QED BY <1>6, <1>7, <1>10, <1>11, <2>1 DEF PortFlushed
  <1>13. InLine(R, Stations, Levels(route), Way(route, inst))
         BY <1>8, <1>12, LinePort
  <1>. QED BY <1>5, <1>13 DEF Ready

(* EnqueueTxRing flushes the buffer of an NF, with what else is in Q. *)
LEMMA TxRingIs ==
    ASSUME TypeOK, NEW id \in NfIds, NEW buf, EnqueueTxRing(id, buf)
    PROVE  /\ tx_buf'[id] = <<>> /\ (tx_q'[id] = tx_q[id] \/ tx_q'[id] = tx_q[id] \o buf)
           /\ \A a \in Ids : a # id => tx_q'[a] = tx_q[a]
           /\ \A a \in NfIds : a # id => tx_buf'[a] = tx_buf[a]
  <1>1. /\ tx_buf \in [NfIds -> Seq(Pkts)] /\ tx_q \in [Ids -> Seq(Pkts)] /\ id \in Ids
        BY IdFacts DEF TypeOK
  <1>2. /\ tx_buf' = [tx_buf EXCEPT ![id] = <<>>]
        /\ tx_q' = [tx_q EXCEPT ![id] = @ \o buf] \/ UNCHANGED tx_q
        BY DEF EnqueueTxRing
  <1>. QED BY <1>1, <1>2

(* An NF flushes its buffer for the TX thread. *)
LEMMA LineFlushTx ==
    ASSUME NEW route, IsRoute(route), NEW inst, Ready(route, inst), TypeOK,
           NEW id \in NfIds, EnqueueTxRing(id, tx_buf[id]),
           UNCHANGED <<arrived, sent, hand, rx_q, rx_bufs, tx_hand, port_buf>>
    PROVE  Ready(route, inst)'
  <1>1. id \in Ids
        BY IdFacts
  <1>2. /\ tx_buf'[id] = <<>>
        /\ tx_q'[id] = tx_q[id] \/ tx_q'[id] = tx_q[id] \o tx_buf[id]
        /\ \A a \in Ids : a # id => tx_q'[a] = tx_q[a]
        /\ \A a \in NfIds : a # id => tx_buf'[a] = tx_buf[a]
        BY TxRingIs
  <1>3. PICK Q : Q = Lines
        OBVIOUS
  <1>4. PICK R : R = Lines'
        OBVIOUS
  <1>5. PICK s \in Stations : s = <<"tx_buf", id, 0>>
        BY StationsAre
  <1>6. PICK t \in Stations : t = <<"tx_q", id, 0>>
        BY <1>1, StationsAre
  <1>7. InLine(Q, Stations, Levels(route), Way(route, inst))
        BY <1>3 DEF Ready
  <1>8. /\ Q[s] = tx_buf[id] /\ R[s] = tx_buf'[id] /\ Q[t] = tx_q[id] /\ R[t] = tx_q'[id]
    <2>1. Lines[<<"tx_buf", id, 0>>] = tx_buf[id] /\ Lines[<<"tx_q", id, 0>>] = tx_q[id]
          BY <1>1, LineIs DEF LineFacts
    <2>2. Lines'[<<"tx_buf", id, 0>>] = tx_buf'[id] /\ Lines'[<<"tx_q", id, 0>>] = tx_q'[id]
          BY <1>1, LineNext DEF LineFacts
    <2>. QED BY <1>3, <1>4, <1>5, <1>6, <2>1, <2>2
  <1>9. ASSUME NEW u \in Stations, u # s, u # t PROVE R[u] = Q[u]
    <2>1. /\ u[1] = "tx_buf" => tx_buf'[u[2]] = tx_buf[u[2]]
          /\ u[1] = "tx_q" => tx_q'[u[2]] = tx_q[u[2]]
          BY <1>2, <1>5, <1>6, <1>9, StationParts
    <2>. QED BY <1>3, <1>4, <2>1, LineSame
  <1>10. TxRingFlushed(Q, R, id)
         BY <1>2, <1>5, <1>6, <1>8, <1>9 DEF TxRingFlushed
  <1>11. InLine(R, Stations, Levels(route), Way(route, inst))
         BY <1>7, <1>10, LineTxRing
  <1>. QED BY <1>4, <1>11 DEF Ready

(* An NF at the end of the chain sends a packet out. *)
LEMMA LineOut ==
    ASSUME NEW route, IsRoute(route), NEW inst, Ready(route, inst), TypeOK,
           NEW id \in NfIds, hand[id] # <<>>, StageOf(route, id) = Len(route),
           NEW buf, buf = Append(tx_buf[id], Head(hand[id])),
           hand' = [hand EXCEPT ![id] = Tail(@)],
           EnqueueTxRing(id, buf) \/ (tx_buf' = [tx_buf EXCEPT ![id] = buf] /\ UNCHANGED tx_q),
           UNCHANGED <<arrived, sent, rx_q, rx_bufs, tx_hand, port_buf>>
    PROVE  Ready(route, inst)'
  <1>1. /\ id \in Ids /\ hand \in [Ids -> Seq(Pkts)] /\ tx_buf \in [NfIds -> Seq(Pkts)]
        /\ tx_q \in [Ids -> Seq(Pkts)]
        BY IdFacts DEF TypeOK
  <1>2. PICK Q : Q = Lines
        OBVIOUS
  <1>3. PICK R : R = Lines'
        OBVIOUS
  <1>4. PICK s \in Stations : s = <<"hand", id, 0>>
        BY <1>1, StationsAre
  <1>5. PICK t \in Stations : t = <<"tx_buf", id, 0>>
        BY StationsAre
  <1>6. PICK w \in Stations : w = <<"tx_q", id, 0>>
        BY <1>1, StationsAre
  <1>7. InLine(Q, Stations, Levels(route), Way(route, inst))
        BY <1>2 DEF Ready
  <1>8. /\ Q[s] = hand[id] /\ Q[t] = tx_buf[id] /\ Q[w] = tx_q[id]
        /\ R[s] = hand'[id] /\ R[t] = tx_buf'[id] /\ R[w] = tx_q'[id]
    <2>1. /\ Lines[<<"tx_buf", id, 0>>] = tx_buf[id] /\ Lines[<<"tx_q", id, 0>>] = tx_q[id]
          /\ Lines[<<"hand", id, 0>>] = hand[id]
          BY <1>1, LineIs DEF LineFacts
    <2>2. /\ Lines'[<<"tx_buf", id, 0>>] = tx_buf'[id] /\ Lines'[<<"tx_q", id, 0>>] = tx_q'[id]
          /\ Lines'[<<"hand", id, 0>>] = hand'[id]
          BY <1>1, LineNext DEF LineFacts
    <2>. QED BY <1>2, <1>3, <1>4, <1>5, <1>6, <2>1, <2>2
  <1>9. s # t /\ s # w /\ t # w
        BY <1>4, <1>5, <1>6
  <1>10. PICK M : M = [u \in Stations |-> IF u = s THEN Tail(Q[s]) ELSE
                                          IF u = t THEN Append(Q[t], Head(Q[s])) ELSE Q[u]]
         OBVIOUS
  <1>11. /\ M[s] = Tail(Q[s]) /\ M[t] = Append(Q[t], Head(Q[s])) /\ M[w] = Q[w]
         /\ \A u \in Stations : u # s /\ u # t => M[u] = Q[u]
         BY <1>9, <1>10
  <1>12. InLine(M, Stations, Levels(route), Way(route, inst))
    <2>1. Levels(route)[t] = Levels(route)[s] + 1
      <3>1. /\ Levels(route)[<<"hand", id, 0>>] = 3 * StageOf(route, id) + 2
            /\ Levels(route)[<<"tx_buf", id, 0>>] = 3 * Len(route) + 3
            BY <1>1, LevelIs
      <3>2. Len(route) \in Nat
            BY DEF IsRoute
      <3>. QED BY <1>4, <1>5, <3>1, <3>2
    <2>2. \A x \in Pkts : x = Head(Q[s]) /\ Leads(route, inst, x, s)
                             => Leads(route, inst, x, t)
          BY <1>4, <1>5 DEF Leads
    <2>3. Q[s] # <<>>
          BY <1>8
    <2>4. Passes(route, inst, Q, M, s, t)
          BY <1>11, <2>1, <2>2, <2>3 DEF Passes
    <2>. QED BY <1>7, <2>4, LineOne
  <1>13. R[s] = M[s] /\ M[t] = buf
         BY <1>1, <1>8, <1>11
  <1>14. \A a \in Ids : a # id => hand'[a] = hand[a]
         BY <1>1
  <1>15. ASSUME \A a \in Ids : a # id => tx_q'[a] = tx_q[a],
                \A a \in NfIds : a # id => tx_buf'[a] = tx_buf[a],
                NEW u \in Stations, u # t, u # w
         PROVE  R[u] = M[u]
    <2>1. CASE u = s
          BY <1>13, <2>1
    <2>2. CASE u # s
      <3>1. u[1] = "hand" => hand'[u[2]] = hand[u[2]]
            BY <1>4, <1>14, <2>2, StationParts
      <3>2. u[1] = "tx_buf" => tx_buf'[u[2]] = tx_buf[u[2]]
            BY <1>5, <1>15, StationParts
      <3>3. u[1] = "tx_q" => tx_q'[u[2]] = tx_q[u[2]]
            BY <1>6, <1>15, StationParts
      <3>4. R[u] = Q[u]
            BY <1>2, <1>3, <3>1, <3>2, <3>3, LineSame
      <3>. QED BY <1>11, <1>15, <2>2, <3>4
    <2>. QED BY <2>1, <2>2
  <1>16. CASE EnqueueTxRing(id, buf)
    <2>1. /\ tx_buf'[id] = <<>> /\ (tx_q'[id] = tx_q[id] \/ tx_q'[id] = tx_q[id] \o buf)
          /\ \A a \in Ids : a # id => tx_q'[a] = tx_q[a]
          /\ \A a \in NfIds : a # id => tx_buf'[a] = tx_buf[a]
          BY <1>16, TxRingIs
    <2>2. R[t] = <<>> /\ (R[w] = M[w] \o M[t] \/ R[w] = M[w])
          BY <1>8, <1>11, <1>13, <2>1
    <2>3. \A u \in Stations : u # t /\ u # w => R[u] = M[u]
          BY <1>15, <2>1
    <2>4. TxRingFlushed(M, R, id)
          BY <1>5, <1>6, <2>2, <2>3 DEF TxRingFlushed
    <2>5. InLine(R, Stations, Levels(route), Way(route, inst))
          BY <1>12, <2>4, LineTxRing
    <2>. QED BY <1>3, <2>5 DEF Ready
  <1>17. CASE tx_buf' = [tx_buf EXCEPT ![id] = buf] /\ UNCHANGED tx_q
    <2>1. /\ tx_buf'[id] = buf /\ \A a \in Ids : tx_q'[a] = tx_q[a]
          /\ \A a \in NfIds : a # id => tx_buf'[a] = tx_buf[a]
          BY <1>1, <1>17
    <2>2. R[t] = M[t] /\ R[w] = M[w]
          BY <1>1, <1>8, <1>11, <1>13, <2>1
    <2>3. \A u \in Stations : u # t /\ u # w => R[u] = M[u]
          BY <1>15, <2>1
    <2>4. \A u \in Stations : R[u] = M[u]
          BY <2>2, <2>3
    <2>5. InLine(R, Stations, Levels(route), Way(route, inst))
          BY <1>12, <2>4, SameLine
    <2>. QED BY <1>3, <2>5 DEF Ready
  <1>. QED BY <1>16, <1>17

(* Each station but the wire is one of the queues. *)
LEMMA LineOf ==
    ASSUME NEW s \in Stations, s # <<"wire", 0, 0>>
    PROVE  \/ Lines[s] = sent
           \/ \E a \in Ids : Lines[s] = hand[a] \/ Lines[s] = rx_q[a] \/ Lines[s] = tx_q[a]
           \/ \E a, b \in Ids : Lines[s] = rx_bufs[a][b]
           \/ \E a \in NfIds : Lines[s] = tx_buf[a]
           \/ \E k \in TxIds : Lines[s] = tx_hand[k] \/ Lines[s] = port_buf[k]
  <1>1. CASE s = <<"sent", 0, 0>>
        BY <1>1, LineIs DEF LineFacts
  <1>2. ASSUME NEW a \in Ids, \/ s = <<"hand", a, 0>> \/ s = <<"rx_q", a, 0>>
                              \/ s = <<"tx_q", a, 0>>
        PROVE  Lines[s] = hand[a] \/ Lines[s] = rx_q[a] \/ Lines[s] = tx_q[a]
        BY <1>2, LineIs DEF LineFacts
  <1>3. ASSUME NEW a \in Ids, NEW b \in Ids, s = <<"rx_bufs", a, b>>
        PROVE  Lines[s] = rx_bufs[a][b]
        BY <1>3, LineIs DEF LineFacts
  <1>4. ASSUME NEW a \in NfIds, s = <<"tx_buf", a, 0>>
        PROVE  Lines[s] = tx_buf[a]
        BY <1>4, LineIs DEF LineFacts
  <1>5. ASSUME NEW k \in TxIds, s = <<"tx_hand", k, 0>> \/ s = <<"port_buf", k, 0>>
        PROVE  Lines[s] = tx_hand[k] \/ Lines[s] = port_buf[k]
        BY <1>5, LineIs DEF LineFacts
  <1>6. \/ s = <<"sent", 0, 0>>
        \/ \E a \in Ids : \/ s = <<"hand", a, 0>> \/ s = <<"rx_q", a, 0>>
                          \/ s = <<"tx_q", a, 0>>
        \/ \E a, b \in Ids : s = <<"rx_bufs", a, b>>
        \/ \E a \in NfIds : s = <<"tx_buf", a, 0>>
        \/ \E k \in TxIds : s = <<"tx_hand", k, 0>> \/ s = <<"port_buf", k, 0>>
        BY StationsAre
  <1>. QED BY <1>1, <1>2, <1>3, <1>4, <1>5, <1>6

(* Before the first packet arrives, the line is as it should be whatever the
   instances are. *)
LEMMA LineBefore ==
    ASSUME NEW route, IsRoute(route), NEW inst, TypeOK, PlacesInv, arrived = 0
    PROVE  Ready(route, inst)
  <1>1. ASSUME NEW x \in Pkts PROVE OnlyIn(x, "wire", 0, 0)
    <2>1. x > arrived
          BY DEF Pkts
    <2>2. In(x, "wire", 0, 0)
          BY <2>1 DEF In
    <2>. QED BY <2>2, Only DEF PlacesInv
  <1>2. \A s \in Stations : s # <<"wire", 0, 0>> => Lines[s] \in Seq(Pkts)
    <2>1. /\ sent \in Seq(Pkts) /\ \A a \in Ids : /\ hand[a] \in Seq(Pkts)
                                  /\ rx_q[a] \in Seq(Pkts) /\ tx_q[a] \in Seq(Pkts)
          /\ \A a, b \in Ids : rx_bufs[a][b] \in Seq(Pkts)
          /\ \A a \in NfIds : tx_buf[a] \in Seq(Pkts)
          /\ \A a \in TxIds : tx_hand[a] \in Seq(Pkts) /\ port_buf[a] \in Seq(Pkts)
          BY DEF TypeOK
    <2>. QED BY <2>1, LineOf
  <1>3. ASSUME NEW s \in Stations, s # <<"wire", 0, 0>>, NEW x \in ToSet(Lines[s])
        PROVE  FALSE
    <2>1. x \in Pkts
          BY <1>2, <1>3, SetOf
    <2>2. OnlyIn(x, "wire", 0, 0)
          BY <1>1, <2>1
    <2>3. /\ x \notin ToSet(sent)
          /\ \A a \in Ids : x \notin ToSet(hand[a]) /\ x \notin ToSet(rx_q[a])
                                                    /\ x \notin ToSet(tx_q[a])
          /\ \A a, b \in Ids : x \notin ToSet(rx_bufs[a][b])
          /\ \A a \in NfIds : x \notin ToSet(tx_buf[a])
          /\ \A a \in TxIds : x \notin ToSet(tx_hand[a]) /\ x \notin ToSet(port_buf[a])
          BY <2>2 DEF OnlyIn
    <2>. QED BY <1>3, <2>3, LineOf
  <1>4. PICK Q : Q = Lines
        OBVIOUS
  <1>5. PICK w \in Stations : w = <<"wire", 0, 0>>
        BY StationsAre
  <1>6. Q[w] = [j \in 1 .. PKTS |-> j] /\ PKTS \in Nat
    <2>1. Q[w] = [j \in 1 .. PKTS - arrived |-> arrived + j]
          BY <1>4, <1>5, LineIs DEF LineFacts
    <2>. QED BY <2>1, IdFacts
  <1>7. Q[w] \in Seq(Pkts) /\ Sorted(Q[w])
        BY <1>6 DEF Sorted, Pkts
  <1>8. ASSUME NEW s \in Stations, s # w
        PROVE  Q[s] \in Seq(Pkts) /\ Sorted(Q[s]) /\ \A x \in ToSet(Q[s]) : FALSE
    <2>1. Q[s] \in Seq(Pkts) /\ \A x \in ToSet(Q[s]) : FALSE
          BY <1>2, <1>3, <1>4, <1>5, <1>8
    <2>2. \A i \in 1 .. Len(Q[s]) : FALSE
          BY <2>1, InSet
    <2>. QED BY <2>1, <2>2 DEF Sorted
  <1>9. ASSUME NEW s \in Stations, NEW x \in ToSet(Q[s]) PROVE <<x, s>> \in Way(route, inst)
    <2>1. s = w /\ x \in Pkts
          BY <1>7, <1>8, <1>9, SetOf
    <2>. QED BY <1>5, <2>1, WayIs
  <1>10. ASSUME NEW s \in Stations, NEW t \in Stations,
                Levels(route)[t] < Levels(route)[s]
         PROVE  Ahead(Q[s], Q[t])
    <2>1. s # t
      <3>1. Levels(route)[s] \in Nat
            BY LevelIs
      <3>. QED BY <1>10, <3>1
    <2>2. s # w \/ t # w
          BY <2>1
    <2>. QED BY <1>8, <2>2 DEF Ahead
  <1>11. InLine(Q, Stations, Levels(route), Way(route, inst))
         BY <1>7, <1>8, <1>9, <1>10 DEF InLine
  <1>. QED BY <1>4, <1>11 DEF Ready

(* Once an NF got a signal, every flag is set and no packet finds an NF; before, none
   is, and the instance of a type for a flow is the one its hash selects. *)
Signaled == \E id \in NfIds : bk_flag[id] = 2
LifeInv ==
    /\ \A id \in NfIds : state[id] # "NULL" => pc[id] # "none"
    /\ \A t \in NTs : \A id \in ToSet(nts[t]) : id \in NfIds /\ pc[id] # "none"
    /\ Signaled => \A id \in NfIds : pc[id] # "none" => bk_flag[id] = 2
    /\ ~Signaled => \A id \in NfIds : /\ state[id] # "STOPPED"
                                      /\ pc[id] # "none" => state[id] # "NULL"
Matches(inst) ==
    ~Signaled => \A t \in NTs, p \in Pkts :
                    nts[t] # <<>> => inst[<<t, Hash[p]>>] = Selected(t, p)

(* What an NF has at hand, its handler has decided on. *)
HandMeta == \A id \in NfIds : \A x \in ToSet(hand[id]) : meta[x] \in Handler[TypeOf[id]]
OrderInv(route) ==
    LifeInv /\ HandMeta /\ \E inst : Matches(inst) /\ Ready(route, inst)

(* No NF starts once one has got a signal. *)
NoneStarts == Signaled => \A id \in NfIds : ~NfReady(id)

-----------------------------------------------------------------------------
(* The packet at hand goes to a buffer for the instance of the flow, or is freed. *)
LEMMA LineEnqueue ==
    ASSUME NEW route, IsRoute(route), NEW inst, Ready(route, inst), Matches(inst),
           TypeOK, WaysInv, LifeInv, NEW th \in Ids, hand[th] # <<>>, NEW t \in NTs,
           EnqueueBq(th, Head(hand[th]), t), hand' = [hand EXCEPT ![th] = Tail(@)],
           \A id \in NfIds : TypeOf[id] = t => StageOf(route, id) = StageOf(route, th) + 1,
           UNCHANGED <<arrived, sent, rx_q, tx_q, tx_buf, tx_hand, port_buf>>
    PROVE  Ready(route, inst)'
  <1>1. PICK p \in Pkts : p = Head(hand[th])
    <2>1. hand[th] \in Seq(Pkts)
          BY DEF TypeOK
    <2>. QED BY <2>1, HeadTail
  <1>2. ASSUME NEW id \in Ids, NtToNfMap(t, p, id), id # 0, IsValid(id),
               rx_bufs' = [rx_bufs EXCEPT ![th][id] = Append(@, p)]
        PROVE  Ready(route, inst)'
    <2>1. id \in NfIds /\ TypeOf[id] = t
          BY <1>2, MapsToType DEF WaysInv
    <2>2. nts[t] \in Seq(NfIds) /\ Hash[p] \in Nat
          BY SizesAssumption DEF TypeOK
    <2>3. nts[t] # <<>>
          BY <1>2 DEF NtToNfMap
    <2>4. Selected(t, p) \in ToSet(nts[t])
      <3>1. (Hash[p] % Len(nts[t])) + 1 \in 1 .. Len(nts[t])
            BY <2>2, <2>3
      <3>. QED BY <2>2, <3>1, InSet DEF Selected
    <2>5. Selected(t, p) \in NfIds /\ pc[Selected(t, p)] # "none"
          BY <2>4 DEF LifeInv
    <2>6. ~Signaled
      <3>1. SUFFICES ASSUME Signaled PROVE FALSE
            OBVIOUS
      <3>2. bk_flag[Selected(t, p)] = 2
            BY <2>5, <3>1 DEF LifeInv
      <3>3. bk_flag[id] # 2 /\ state[id] = "RUNNING"
            BY <1>2, <2>3, <3>2 DEF NtToNfMap, NextOpen, IsOpen, IsValid
      <3>. QED BY <2>1, <3>1, <3>3 DEF LifeInv
    <2>7. id = Selected(t, p)
          BY <1>2, <2>3, <2>5, <2>6 DEF Signaled, NtToNfMap
    <2>8. inst[<<t, Hash[p]>>] = id
          BY <2>3, <2>6, <2>7 DEF Matches
    <2>9. StageOf(route, id) = StageOf(route, th) + 1 /\ StageOf(route, th) \in Nat
          BY <2>1, StageIs
    <2>10. Its(route, inst, p, id)
          BY <2>1, <2>8, <2>9 DEF Its
    <2>11. /\ rx_bufs' = [rx_bufs EXCEPT ![th][id] = Append(@, Head(hand[th]))]
           /\ Its(route, inst, Head(hand[th]), id)
           /\ StageOf(route, id) = StageOf(route, th) + 1
          BY <1>1, <1>2, <2>9, <2>10
    <2>. QED BY <2>11, LineHand
  <1>3. CASE UNCHANGED rx_bufs
        BY <1>3, LineHand
  <1>4. \/ UNCHANGED rx_bufs
        \/ \E id \in Ids : /\ NtToNfMap(t, p, id) /\ id # 0 /\ IsValid(id)
                           /\ rx_bufs' = [rx_bufs EXCEPT ![th][id] = Append(@, p)]
        BY <1>1 DEF EnqueueBq
  <1>. QED BY <1>2, <1>3, <1>4

(* What a packet at hand tells of the place of the NF on the chain. *)
LEMMA HandStage ==
    ASSUME NEW route, IsRoute(route), NEW inst, Ready(route, inst), TypeOK, HandMeta,
           NEW id \in NfIds, NEW x \in ToSet(hand[id])
    PROVE  /\ x \in Pkts /\ StageOf(route, id) \in 1 .. Len(route)
           /\ meta[x].act = "TONF" =>
                 /\ meta[x].dst \in NTs
                 /\ \A a \in NfIds :
                       TypeOf[a] = meta[x].dst => StageOf(route, a) = StageOf(route, id) + 1
           /\ meta[x].act = "OUT" => StageOf(route, id) = Len(route)
  <1>1. id \in Ids /\ id # Rx /\ NfIds \subseteq Ids
        BY IdFacts DEF NfIds, Rx
  <1>2. PICK s \in Stations : s = <<"hand", id, 0>>
        BY <1>1, StationsAre
  <1>3. Lines[s] = hand[id]
        BY <1>1, <1>2, LineIs DEF LineFacts
  <1>4. hand[id] \in Seq(Pkts)
        BY <1>1 DEF TypeOK
  <1>5. x \in Pkts
        BY <1>4, SetOf
  <1>6. <<x, s>> \in Way(route, inst)
        BY <1>3 DEF Ready, InLine
  <1>7. Leads(route, inst, x, s)
        BY <1>5, <1>6, WayIs
  <1>8. StageOf(route, id) > 0
        BY <1>1, <1>2, <1>7 DEF Leads, Its
  <1>9. PICK n \in 1 .. Len(route) : n = StageOf(route, id) /\ route[n] = TypeOf[id]
        BY <1>1, <1>8, StageIs
  <1>10. meta[x] \in Handler[route[n]]
        BY <1>9 DEF HandMeta
  <1>11. \/ meta[x].act = "DROP"
         \/ meta[x].act = "TONF" /\ n < Len(route) /\ meta[x].dst = route[n + 1]
         \/ meta[x].act = "OUT" /\ n = Len(route)
        BY <1>10 DEF IsRoute
  <1>12. route \in Seq(NTs) /\ Len(route) \in Nat
        BY DEF IsRoute
  <1>13. ASSUME meta[x].act = "TONF"
         PROVE  /\ meta[x].dst \in NTs
                /\ \A a \in NfIds :
                      TypeOf[a] = meta[x].dst => StageOf(route, a) = StageOf(route, id) + 1
    <2>1. n + 1 \in 1 .. Len(route) /\ meta[x].dst = route[n + 1]
          BY <1>11, <1>12, <1>13
    <2>2. route[n + 1] \in NTs
          BY <1>12, <2>1
    <2>3. ASSUME NEW a \in NfIds, TypeOf[a] = meta[x].dst
          PROVE  StageOf(route, a) = StageOf(route, id) + 1
      <3>1. a \in Ids
            BY <1>1
      <3>2. \A j \in 1 .. Len(route) : route[j] = TypeOf[a] => StageOf(route, a) = j
            BY <3>1, StageIs
      <3>. QED BY <1>9, <2>1, <2>3, <3>2
    <2>. QED BY <2>1, <2>2, <2>3
  <1>14. meta[x].act = "OUT" => StageOf(route, id) = Len(route)
        BY <1>9, <1>11
  <1>. QED BY <1>5, <1>9, <1>13, <1>14

(* The steps of the threads leave the NF table alone. *)
LEMMA ThreadsKeepTable ==
    /\ \A n \in 1 .. PKT_RD_SIZE : RxBurst(n) => UNCHANGED nfTable
    /\ RxStep => UNCHANGED nfTable
    /\ \A id \in NfIds : NfStep(id) => UNCHANGED nfTable
    /\ \A k \in TxIds : TxStep(k) => UNCHANGED nfTable
  <1>1. \A n \in 1 .. PKT_RD_SIZE : RxBurst(n) => UNCHANGED nfTable
        BY DEF RxBurst
  <1>2. RxStep => UNCHANGED nfTable
        BY DEF RxStep, RxPacket, FlushFull, RxFlush
  <1>3. \A id \in NfIds : NfStep(id) => UNCHANGED nfTable
        BY DEF NfStep, NfDequeue, NfPacket, FlushFull, NfFlushTx, NfFlush
  <1>4. \A k \in TxIds : TxStep(k) => UNCHANGED nfTable
        BY DEF TxStep, TxDequeue, TxPacket, TxFlush
  <1>. QED BY <1>1, <1>2, <1>3, <1>4

(* The life of the NFs, and the instances. *)
LEMMA LifeNext ==
    ASSUME TypeOK, LifeInv, NoneStarts, "block" \notin Env, NEW id \in NfIds, Life(id)
    PROVE  LifeInv' /\ (NfReady(id) \/ \A inst : Matches(inst) => Matches(inst)')
  <1>1. /\ state \in [Ids -> {"NULL", "RUNNING", "BLOCKED", "STOPPED"}]
        /\ bk_flag \in [Ids -> {0, 2}] /\ nts \in [NTs -> Seq(NfIds)]
        /\ pc \in [NfIds -> {"none", "run", "quit", "dead"}]
        /\ id \in Ids /\ NfIds \subseteq Ids /\ TypeOf[id] \in NTs
        BY IdFacts DEF TypeOK
  <1>2. CASE NfReady(id)
    <2>1. /\ pc' = [pc EXCEPT ![id] = "run"] /\ state' = [state EXCEPT ![id] = "RUNNING"]
          /\ nts' = [nts EXCEPT ![TypeOf[id]] = Append(@, id)] /\ UNCHANGED bk_flag
          BY <1>2 DEF NfReady
    <2>2. ~Signaled
          BY <1>2 DEF NoneStarts
    <2>3. ~Signaled'
          BY <2>1, <2>2 DEF Signaled
    <2>4. ASSUME NEW t \in NTs, NEW a \in ToSet(nts'[t]) PROVE a \in NfIds /\ pc'[a] # "none"
      <3>1. a \in ToSet(nts[t]) \/ a = id
        <4>1. PICK q \in Seq(NfIds) : q = nts[t]
              BY <1>1
        <4>2. nts'[t] = q \/ nts'[t] = Append(q, id)
              BY <1>1, <2>1, <4>1
        <4>3. \A x : x \in ToSet(Append(q, id)) <=> x \in ToSet(q) \/ x = id
              BY <4>1, AppendHolds
        <4>. QED BY <2>4, <4>1, <4>2, <4>3
      <3>2. a \in NfIds /\ (a # id => pc[a] # "none")
            BY <3>1 DEF LifeInv
      <3>. QED BY <1>1, <2>1, <3>2
    <2>5. \A a \in NfIds : /\ state'[a] # "NULL" => pc'[a] # "none"
                           /\ state'[a] # "STOPPED" /\ (pc'[a] # "none" => state'[a] # "NULL")
          BY <1>1, <2>1, <2>2 DEF LifeInv
    <2>. QED BY <1>2, <2>3, <2>4, <2>5 DEF LifeInv
  <1>3. CASE Signal(id)
    <2>1. /\ pc[id] = "run" /\ pc' = [pc EXCEPT ![id] = "quit"]
          /\ bk_flag' = [j \in Ids |-> IF state[j] = "NULL" THEN bk_flag[j] ELSE 2]
          /\ UNCHANGED <<state, nts>>
          BY <1>3 DEF Signal
    <2>2. \A a \in NfIds : pc'[a] = "none" <=> pc[a] = "none"
          BY <1>1, <2>1
    <2>3. \A a \in NfIds : pc[a] # "none" => bk_flag'[a] = 2
      <3>1. CASE Signaled
            BY <1>1, <2>1, <3>1 DEF LifeInv
      <3>2. CASE ~Signaled
            BY <1>1, <2>1, <3>2 DEF LifeInv
      <3>. QED BY <3>1, <3>2
    <2>4. Signaled'
          BY <1>1, <2>1, <2>3 DEF Signaled
    <2>5. \A inst : Matches(inst)'
          BY <2>4 DEF Matches
    <2>. QED BY <2>1, <2>2, <2>3, <2>4, <2>5 DEF LifeInv
  <1>4. CASE Quit(id) \/ Kill(id)
    <2>1. /\ pc[id] \in {"run", "quit"} /\ pc' = [pc EXCEPT ![id] = "dead"]
          /\ UNCHANGED <<bk_flag, nts>>
          /\ UNCHANGED state \/ (bk_flag[id] = 2 /\ state' = [state EXCEPT ![id] = "STOPPED"])
          BY <1>4 DEF Quit, Kill, Vanish
    <2>2. \A a \in NfIds : pc'[a] = "none" <=> pc[a] = "none"
          BY <1>1, <2>1
    <2>3. Signaled' <=> Signaled
          BY <2>1 DEF Signaled
    <2>4. \A a \in NfIds : state'[a] # "NULL" => pc'[a] # "none"
          BY <1>1, <2>1, <2>2 DEF LifeInv
    <2>5. ~Signaled' => \A a \in NfIds : /\ state'[a] # "STOPPED"
                                         /\ pc'[a] # "none" => state'[a] # "NULL"
      <3>1. ~Signaled' => UNCHANGED state
            BY <2>1, <2>3 DEF Signaled
      <3>. QED BY <2>2, <2>3, <3>1 DEF LifeInv
    <2>6. \A inst : Matches(inst) => Matches(inst)'
          BY <2>1, <2>3 DEF Matches, Selected
    <2>. QED BY <2>1, <2>2, <2>3, <2>4, <2>5, <2>6 DEF LifeInv
  <1>5. CASE Deregistered(id)
    <2>1. /\ state[id] = "STOPPED" /\ state' = [state EXCEPT ![id] = "NULL"]
          /\ UNCHANGED <<bk_flag, pc>>
          BY <1>5 DEF Deregistered
    <2>2. PICK k \in DOMAIN nts[TypeOf[id]] :
              nts' = [nts EXCEPT ![TypeOf[id]] = RemoveAt(@, k)]
          BY <1>5 DEF Deregistered
    <2>3. Signaled /\ (Signaled' <=> Signaled)
          BY <2>1 DEF LifeInv, Signaled
    <2>4. ASSUME NEW t \in NTs, NEW a \in ToSet(nts'[t]) PROVE a \in ToSet(nts[t])
      <3>1. PICK q \in Seq(NfIds) : q = nts[t]
            BY <1>1
      <3>2. CASE t = TypeOf[id]
        <4>1. k \in 1 .. Len(q) /\ nts'[t] = RemoveAt(q, k)
              BY <1>1, <2>2, <3>1, <3>2
        <4>2. \A x \in ToSet(RemoveAt(q, k)) : x \in ToSet(q)
              BY <4>1, Removed
        <4>. QED BY <2>4, <3>1, <4>1, <4>2
      <3>3. CASE t # TypeOf[id]
            BY <1>1, <2>2, <2>4, <3>3
      <3>. QED BY <3>2, <3>3
    <2>5. \A a \in NfIds : state'[a] # "NULL" => pc'[a] # "none"
          BY <1>1, <2>1 DEF LifeInv
    <2>6. \A inst : Matches(inst)'
          BY <2>3 DEF Matches
    <2>. QED BY <2>1, <2>3, <2>4, <2>5, <2>6 DEF LifeInv
  <1>6. ~Handshake(id)
        BY DEF Handshake
  <1>. QED BY <1>2, <1>3, <1>4, <1>5, <1>6 DEF Life

(* What is said of the NF table holds on while the table is untouched. *)
LEMMA TableStays ==
    UNCHANGED nfTable =>
        (LifeInv => LifeInv') /\ \A inst : Matches(inst) => Matches(inst)'
  BY DEF nfTable, LifeInv, Signaled, Matches, Selected

(* What the handlers decided. *)
LEMMA HandMetaNext ==
    ASSUME TypeOK, PlacesInv, PlacesInv', HandMeta, [Next]_vars
    PROVE  HandMeta'
  <1>0. /\ hand \in [Ids -> Seq(Pkts)] /\ meta \in [Pkts -> Acts] /\ NfIds \subseteq Ids
        /\ Rx \in Ids /\ Rx \notin NfIds
        BY IdFacts DEF TypeOK, Rx, NfIds
  <1>1. CASE UNCHANGED <<hand, meta>>
        BY <1>1 DEF HandMeta
  <1>2. ASSUME NEW n \in 1 .. PKT_RD_SIZE, RxBurst(n) PROVE HandMeta'
    <2>1. \A id \in NfIds : hand'[id] = hand[id]
          BY <1>0, <1>2 DEF RxBurst
    <2>2. UNCHANGED meta
          BY <1>2 DEF RxBurst
    <2>. QED BY <2>1, <2>2 DEF HandMeta
  <1>3. CASE RxPacket
    <2>1. /\ hand[Rx] # <<>> /\ hand' = [hand EXCEPT ![Rx] = Tail(@)]
          /\ meta' = [meta EXCEPT ![Head(hand[Rx])] = [act |-> "TONF", dst |-> 1]]
          BY <1>3 DEF RxPacket, HasNext
    <2>2. PICK p \in Pkts : p = Head(hand[Rx]) /\ p \in ToSet(hand[Rx])
      <3>1. hand[Rx] \in Seq(Pkts)
            BY <1>0
      <3>. QED BY <2>1, <3>1, HeadTail, InSet
    <2>3. OnlyIn(p, "hand", Rx, 0)
      <3>1. In(p, "hand", Rx, 0)
            BY <1>0, <2>2 DEF In
      <3>. QED BY <3>1, Only DEF PlacesInv
    <2>4. ASSUME NEW id \in NfIds, NEW x \in ToSet(hand'[id])
          PROVE  meta'[x] \in Handler[TypeOf[id]]
      <3>1. x \in ToSet(hand[id])
            BY <1>0, <2>1, <2>4
      <3>2. x \in Pkts
        <4>1. hand[id] \in Seq(Pkts)
              BY <1>0
        <4>. QED BY <3>1, <4>1, SetOf
      <3>3. x # p
            BY <1>0, <2>3, <3>1 DEF OnlyIn
      <3>4. meta'[x] = meta[x]
            BY <1>0, <2>1, <2>2, <3>2, <3>3
      <3>. QED BY <3>1, <3>4 DEF HandMeta
    <2>. QED BY <2>4 DEF HandMeta
  <1>4. ASSUME NEW id \in NfIds, NfDequeue(id) PROVE HandMeta'
    <2>1. PICK pkts : pkts = Upto(rx_q[id], PKT_RD_SIZE)
          OBVIOUS
    <2>2. PICK decide \in [ToSet(pkts) -> Handler[TypeOf[id]]] :
              meta' = [p \in Pkts |-> IF p \in ToSet(pkts) THEN decide[p] ELSE meta[p]]
          BY <1>4, <2>1 DEF NfDequeue
    <2>3. hand' = [hand EXCEPT ![id] = pkts]
          BY <1>4, <2>1 DEF NfDequeue
    <2>4. pkts \in Seq(Pkts)
      <3>1. rx_q[id] \in Seq(Pkts)
            BY <1>0 DEF TypeOK
      <3>. QED BY <2>1, <3>1, IdFacts, Parts
    <2>5. ASSUME NEW x \in ToSet(pkts) PROVE x \in Pkts /\ meta'[x] \in Handler[TypeOf[id]]
      <3>1. x \in Pkts
            BY <2>4, SetOf
      <3>2. meta'[x] = decide[x]
            BY <2>2, <3>1
      <3>. QED BY <3>1, <3>2
    <2>6. ASSUME NEW a \in NfIds, a # id, NEW x \in ToSet(hand'[a])
          PROVE  meta'[x] \in Handler[TypeOf[a]]
      <3>1. hand'[a] = hand[a] /\ hand[a] \in Seq(Pkts)
            BY <1>0, <2>3, <2>6
      <3>2. x \in Pkts /\ x \in ToSet(hand[a])
            BY <2>6, <3>1, SetOf
      <3>3. x \notin ToSet(pkts)
        <4>1. SUFFICES ASSUME x \in ToSet(pkts) PROVE FALSE
              OBVIOUS
        <4>2. x \in ToSet(hand'[id]) /\ id \in Ids /\ a \in Ids
              BY <1>0, <2>3, <4>1
        <4>3. In(x, "hand", id, 0)'
              BY <4>2 DEF In
        <4>4. OnlyIn(x, "hand", id, 0)'
              BY <3>2, <4>3, OnlyNext DEF PlacesInv
        <4>. QED BY <2>6, <4>2, <4>4 DEF OnlyIn
      <3>4. meta'[x] = meta[x]
            BY <2>2, <3>2, <3>3
      <3>. QED BY <3>2, <3>4 DEF HandMeta
    <2>7. hand'[id] = pkts
          BY <1>0, <2>3
    <2>. QED BY <2>5, <2>6, <2>7 DEF HandMeta
  <1>5. ASSUME NEW id \in NfIds, NfPacket(id) PROVE HandMeta'
    <2>1. hand[id] # <<>> /\ hand' = [hand EXCEPT ![id] = Tail(@)] /\ UNCHANGED meta
          BY <1>5 DEF NfPacket, HasNext
    <2>2. ASSUME NEW a \in NfIds, NEW x \in ToSet(hand'[a]) PROVE x \in ToSet(hand[a])
      <3>1. CASE a = id
        <4>1. PICK q \in Seq(Pkts) : q = hand[id] /\ q # <<>>
              BY <1>0, <2>1
        <4>2. hand'[a] = Tail(q)
              BY <1>0, <2>1, <3>1, <4>1
        <4>3. Tail(q) \in Seq(Pkts) /\ \A j \in 1 .. Len(Tail(q)) :
                                          Tail(q)[j] = q[j + 1] /\ j + 1 \in 1 .. Len(q)
              BY <4>1, HeadTail
        <4>4. PICK j \in 1 .. Len(Tail(q)) : Tail(q)[j] = x
              BY <2>2, <4>2, <4>3, InSet
        <4>5. j + 1 \in 1 .. Len(q) /\ q[j + 1] = x
              BY <4>3, <4>4
        <4>. QED BY <3>1, <4>1, <4>5, InSet
      <3>2. CASE a # id
            BY <1>0, <2>1, <2>2, <3>2
      <3>. QED BY <3>1, <3>2
    <2>. QED BY <2>1, <2>2 DEF HandMeta
  <1>6. ASSUME NEW id \in NfIds, Vanish(id), UNCHANGED meta PROVE HandMeta'
    <2>1. \A a \in NfIds : hand'[a] = hand[a] \/ hand'[a] = <<>>
          BY <1>0, <1>6 DEF Vanish
    <2>2. \A x \in ToSet(<<>>) : FALSE
          BY DEF ToSet
    <2>. QED BY <1>6, <2>1, <2>2 DEF HandMeta
  <1>7. CASE RxStep
        BY <1>1, <1>3, <1>7 DEF RxStep, FlushFull, RxFlush
  <1>8. ASSUME NEW id \in NfIds, NfStep(id) PROVE HandMeta'
        BY <1>1, <1>4, <1>5, <1>8 DEF NfStep, FlushFull, NfFlushTx, NfFlush
  <1>9. ASSUME NEW id \in NfIds, Life(id) PROVE HandMeta'
    <2>1. CASE Quit(id) \/ Kill(id)
          BY <1>6, <2>1 DEF Quit, Kill
    <2>2. CASE NfReady(id) \/ Handshake(id) \/ Signal(id) \/ Deregistered(id)
          BY <1>1, <2>2 DEF NfReady, Handshake, Signal, Deregistered, senders
    <2>. QED BY <1>9, <2>1, <2>2 DEF Life
  <1>10. ASSUME NEW k \in TxIds, TxStep(k) PROVE HandMeta'
        BY <1>1, <1>10 DEF TxStep, TxDequeue, TxPacket, TxFlush, senders
  <1>11. CASE UNCHANGED vars
        BY <1>1, <1>11 DEF vars, senders
  <1>. QED BY <1>2, <1>7, <1>8, <1>9, <1>10, <1>11 DEF Next

(* A step of the RX thread. *)
LEMMA OrderRx ==
    ASSUME NEW route, IsRoute(route), NEW inst, Ready(route, inst), Matches(inst),
           TypeOK, WaysInv, LifeInv, RxStep
    PROVE  Ready(route, inst)'
  <1>0. Rx \in Ids /\ StageOf(route, Rx) = 0
        BY IdFacts, StageIs DEF Rx
  <1>1. CASE RxPacket
    <2>1. /\ hand[Rx] # <<>> /\ hand' = [hand EXCEPT ![Rx] = Tail(@)]
          /\ EnqueueBq(Rx, Head(hand[Rx]), 1)
          /\ UNCHANGED <<arrived, sent, rx_q, tx_q, tx_buf, tx_hand, port_buf>>
          BY <1>1 DEF RxPacket, HasNext, rings, txThreads
    <2>2. PICK t \in NTs : t = 1
          BY IdFacts
    <2>3. ASSUME NEW id \in NfIds, TypeOf[id] = t
          PROVE  StageOf(route, id) = StageOf(route, Rx) + 1
      <3>1. 1 \in 1 .. Len(route) /\ route[1] = 1
            BY DEF IsRoute
      <3>2. id \in Ids
            BY IdFacts
      <3>3. \A n \in 1 .. Len(route) : route[n] = TypeOf[id] => StageOf(route, id) = n
            BY <3>2, StageIs
      <3>. QED BY <1>0, <2>2, <2>3, <3>1, <3>3
    <2>4. EnqueueBq(Rx, Head(hand[Rx]), t)
          BY <2>1, <2>2
    <2>. QED BY <1>0, <2>1, <2>3, <2>4, LineEnqueue
  <1>2. ASSUME NEW ids \in SUBSET Ids, Flush(Rx, ids),
               UNCHANGED <<arrived, sent, hand, tx_q, tx_buf, tx_hand, port_buf>>
        PROVE  Ready(route, inst)'
        BY <1>0, <1>2, LineFlush
  <1>3. CASE FlushFull(Rx)
    <2>1. {full[Rx]} \in SUBSET Ids
          BY <1>0 DEF TypeOK
    <2>. QED BY <1>2, <1>3, <2>1 DEF FlushFull, txThreads
  <1>4. CASE RxFlush
    <2>1. Ids \in SUBSET Ids
          OBVIOUS
    <2>. QED BY <1>2, <1>4, <2>1 DEF RxFlush, txThreads
  <1>. QED BY <1>1, <1>3, <1>4 DEF RxStep

(* A step of an NF. *)
LEMMA OrderNf ==
    ASSUME NEW route, IsRoute(route), NEW inst, Ready(route, inst), Matches(inst),
           TypeOK, WaysInv, LifeInv, HandMeta, NEW id \in NfIds, NfStep(id)
    PROVE  Ready(route, inst)'
  <1>0. id \in Ids
        BY IdFacts
  <1>1. CASE NfPacket(id)
    <2>1. /\ hand[id] # <<>> /\ hand' = [hand EXCEPT ![id] = Tail(@)]
          /\ UNCHANGED <<arrived, sent, rx_q, tx_hand, port_buf>>
          BY <1>1 DEF NfPacket, HasNext, txThreads
    <2>2. PICK p \in ToSet(hand[id]) : p = Head(hand[id])
      <3>1. hand[id] \in Seq(Pkts)
            BY <1>0 DEF TypeOK
      <3>2. Head(hand[id]) = hand[id][1] /\ 1 \in 1 .. Len(hand[id])
            BY <2>1, <3>1, HeadTail
      <3>. QED BY <3>1, <3>2, InSet
    <2>3. PICK buf : buf = Append(tx_buf[id], p)
          OBVIOUS
    <2>4. \/ UNCHANGED <<rx_bufs, tx_buf, tx_q>>
          \/ /\ meta[p].act = "TONF" /\ EnqueueBq(id, p, meta[p].dst)
             /\ UNCHANGED <<tx_buf, tx_q>>
          \/ /\ meta[p].act = "OUT" /\ UNCHANGED rx_bufs
             /\ \/ EnqueueTxRing(id, buf)
                \/ tx_buf' = [tx_buf EXCEPT ![id] = buf] /\ UNCHANGED tx_q
          BY <1>1, <2>2, <2>3 DEF NfPacket
    <2>5. /\ meta[p].act = "TONF" =>
                /\ meta[p].dst \in NTs
                /\ \A a \in NfIds :
                      TypeOf[a] = meta[p].dst => StageOf(route, a) = StageOf(route, id) + 1
          /\ meta[p].act = "OUT" => StageOf(route, id) = Len(route)
          BY HandStage
    <2>6. CASE UNCHANGED <<rx_bufs, tx_buf, tx_q>>
          BY <1>0, <2>1, <2>6, LineHand
    <2>7. CASE meta[p].act = "TONF" /\ EnqueueBq(id, p, meta[p].dst) /\ UNCHANGED <<tx_buf, tx_q>>
      <3>1. PICK t \in NTs : t = meta[p].dst
            BY <2>5, <2>7
      <3>2. EnqueueBq(id, Head(hand[id]), t)
            BY <2>2, <2>7, <3>1
      <3>3. \A a \in NfIds : TypeOf[a] = t => StageOf(route, a) = StageOf(route, id) + 1
            BY <2>5, <2>7, <3>1
      <3>. QED BY <1>0, <2>1, <2>7, <3>2, <3>3, LineEnqueue
    <2>8. CASE /\ meta[p].act = "OUT" /\ UNCHANGED rx_bufs
               /\ \/ EnqueueTxRing(id, buf)
                  \/ tx_buf' = [tx_buf EXCEPT ![id] = buf] /\ UNCHANGED tx_q
      <3>1. StageOf(route, id) = Len(route)
            BY <2>5, <2>8
      <3>2. buf = Append(tx_buf[id], Head(hand[id]))
            BY <2>2, <2>3
      <3>. QED BY <2>1, <2>8, <3>1, <3>2, LineOut
    <2>. QED BY <2>4, <2>6, <2>7, <2>8
  <1>2. ASSUME NEW ids \in SUBSET Ids, Flush(id, ids),
               UNCHANGED <<arrived, sent, hand, tx_q, tx_buf, tx_hand, port_buf>>
        PROVE  Ready(route, inst)'
        BY <1>0, <1>2, LineFlush
  <1>3. CASE FlushFull(id)
    <2>1. {full[id]} \in SUBSET Ids
          BY <1>0 DEF TypeOK
    <2>. QED BY <1>2, <1>3, <2>1 DEF FlushFull, txThreads
  <1>4. CASE NfFlush(id)
    <2>1. Ids \in SUBSET Ids
          OBVIOUS
    <2>. QED BY <1>2, <1>4, <2>1 DEF NfFlush, txThreads
  <1>5. CASE NfFlushTx(id)
    <2>1. /\ EnqueueTxRing(id, tx_buf[id])
          /\ UNCHANGED <<arrived, sent, hand, rx_q, rx_bufs, tx_hand, port_buf>>
          BY <1>5 DEF NfFlushTx, txThreads
    <2>. QED BY <2>1, LineFlushTx
  <1>. QED BY <1>1, <1>3, <1>4, <1>5, LineDequeue DEF NfStep

(* An NF that is there in time gets its share of the flows. *)
LEMMA OrderReady ==
    ASSUME NEW route, IsRoute(route), TypeOK', PlacesInv', "churn" \notin Env,
           NEW id \in NfIds, NfReady(id)
    PROVE  \E inst : Matches(inst)' /\ Ready(route, inst)'
  <1>1. PICK inst : inst = [w \in NTs \X Nat |-> nts'[w[1]][(w[2] % Len(nts'[w[1]])) + 1]]
        OBVIOUS
  <1>2. ASSUME NEW t \in NTs, NEW p \in Pkts PROVE inst[<<t, Hash[p]>>] = Selected(t, p)'
    <2>1. <<t, Hash[p]>> \in NTs \X Nat
          BY SizesAssumption
    <2>. QED BY <1>1, <2>1 DEF Selected
  <1>3. Matches(inst)'
        BY <1>2 DEF Matches
  <1>4. arrived' = 0
        BY DEF NfReady
  <1>5. Ready(route, inst)'
    <2>1. IsRoute(route)'
          BY DEF IsRoute
    <2>2. TypeOK' /\ PlacesInv' /\ (arrived = 0)'
          BY <1>4
    <2>3. IsRoute(route)' /\ TypeOK' /\ PlacesInv' /\ (arrived = 0)' => Ready(route, inst)'
          BY LineBefore, PTL
    <2>. QED BY <2>1, <2>2, <2>3
  <1>. QED BY <1>3, <1>5

(* Every step. *)
LEMMA OrderNext ==
    ASSUME NEW route, IsRoute(route), Env \cap {"churn", "block"} = {},
           TypeOK, TypeOK', PlacesInv, PlacesInv', WaysInv, OrderInv(route),
           [Next]_vars, [NoneStarts]_vars
    PROVE  OrderInv(route)'
  <1>0. "churn" \notin Env /\ "block" \notin Env
        OBVIOUS
  <1>1. LifeInv /\ HandMeta
        BY DEF OrderInv
  <1>2. PICK inst : Matches(inst) /\ Ready(route, inst)
        BY DEF OrderInv
  <1>3. HandMeta'
        BY <1>1, HandMetaNext
  <1>4. ASSUME UNCHANGED nfTable, Ready(route, inst)' PROVE OrderInv(route)'
    <2>1. LifeInv' /\ Matches(inst)'
          BY <1>1, <1>2, <1>4, TableStays
    <2>. QED BY <1>3, <1>4, <2>1 DEF OrderInv
  <1>5. CASE UNCHANGED vars
    <2>1. /\ UNCHANGED nfTable
          /\ UNCHANGED <<arrived, sent, hand, rx_q, tx_q, rx_bufs, tx_buf, tx_hand, port_buf>>
          BY <1>5 DEF vars, rings, senders, txThreads
    <2>2. Ready(route, inst)'
          BY <1>2, <2>1, LineQuiet
    <2>. QED BY <1>4, <2>1, <2>2
  <1>6. ASSUME NEW n \in 1 .. PKT_RD_SIZE, RxBurst(n) PROVE OrderInv(route)'
        BY <1>2, <1>4, <1>6, LineBurst, ThreadsKeepTable
  <1>7. CASE RxStep
        BY <1>1, <1>2, <1>4, <1>7, OrderRx, ThreadsKeepTable
  <1>8. ASSUME NEW id \in NfIds, NfStep(id) PROVE OrderInv(route)'
        BY <1>1, <1>2, <1>4, <1>8, OrderNf, ThreadsKeepTable
  <1>9. ASSUME NEW k \in TxIds, TxStep(k) PROVE OrderInv(route)'
    <2>1. Ready(route, inst)'
          BY <1>2, <1>9, LineTxDequeue, LineTxPacket, LineTxFlush DEF TxStep
    <2>. QED BY <1>4, <1>9, <2>1, ThreadsKeepTable
  <1>10. ASSUME NEW id \in NfIds, Life(id), NoneStarts PROVE OrderInv(route)'
    <2>1. LifeInv' /\ (NfReady(id) \/ Matches(inst)')
          BY <1>0, <1>1, <1>2, <1>10, LifeNext
    <2>2. CASE NfReady(id)
      <3>1. \E i : Matches(i)' /\ Ready(route, i)'
            BY <1>0, <2>2, OrderReady
      <3>. QED BY <1>3, <2>1, <3>1 DEF OrderInv
    <2>3. CASE ~NfReady(id)
      <3>1. CASE Quit(id) \/ Kill(id)
        <4>1. /\ Vanish(id)
              /\ UNCHANGED <<arrived, sent, rx_q, tx_q, tx_hand, port_buf>>
              BY <3>1 DEF Quit, Kill, rings, txThreads
        <4>2. Ready(route, inst)'
              BY <1>2, <4>1, LineVanish
        <4>. QED BY <1>3, <2>1, <2>3, <4>2 DEF OrderInv
      <3>2. CASE Handshake(id) \/ Signal(id) \/ Deregistered(id)
        <4>1. UNCHANGED <<arrived, sent, hand, rx_q, tx_q, rx_bufs, tx_buf, tx_hand, port_buf>>
              BY <3>2 DEF Handshake, Signal, Deregistered, rings, senders, txThreads
        <4>2. Ready(route, inst)'
              BY <1>2, <4>1, LineQuiet
        <4>. QED BY <1>3, <2>1, <2>3, <4>2 DEF OrderInv
      <3>. QED BY <1>10, <2>3, <3>1, <3>2 DEF Life
    <2>. QED BY <2>2, <2>3
  <1>11. (Next /\ NoneStarts) \/ UNCHANGED vars
         OBVIOUS
  <1>. QED BY <1>5, <1>6, <1>7, <1>8, <1>9, <1>10, <1>11 DEF Next

(* Before the first packet all but the wire is empty. *)
LEMMA OrderInit ==
    ASSUME NEW route, IsRoute(route), TypeOK, PlacesInv, Init
    PROVE  OrderInv(route)
  <1>0. NfIds \subseteq Ids
        BY IdFacts
  <1>1. /\ state = [id \in Ids |-> "NULL"] /\ bk_flag = [id \in Ids |-> 0]
        /\ nts = [t \in NTs |-> <<>>] /\ hand = [th \in Ids |-> <<>>] /\ arrived = 0
        BY DEF Init
  <1>2. \A x \in ToSet(<<>>) : FALSE
        BY DEF ToSet
  <1>3. ~Signaled
        BY <1>0, <1>1 DEF Signaled
  <1>4. \A t \in NTs : nts[t] = <<>>
        BY <1>1
  <1>5. LifeInv
    <2>1. \A id \in NfIds : state[id] = "NULL"
          BY <1>0, <1>1
    <2>2. \A id \in NfIds : pc[id] = "none"
          BY DEF Init
    <2>. QED BY <1>2, <1>3, <1>4, <2>1, <2>2 DEF LifeInv
  <1>6. HandMeta
        BY <1>0, <1>1, <1>2 DEF HandMeta
  <1>7. PICK inst : inst = 0
        OBVIOUS
  <1>8. Matches(inst)
        BY <1>4 DEF Matches
  <1>9. Ready(route, inst)
        BY <1>1, LineBefore
  <1>. QED BY <1>5, <1>6, <1>8, <1>9 DEF OrderInv

(* Its last station holds the packets sent. *)
LEMMA OrderSent ==
    ASSUME NEW route, OrderInv(route)
    PROVE  InOrder
  <1>1. PICK inst : Ready(route, inst)
        BY DEF OrderInv
  <1>2. Sorted(Lines[<<"sent", 0, 0>>])
        BY <1>1, StationsAre DEF Ready, InLine
  <1>3. Lines[<<"sent", 0, 0>>] = sent
        BY LineIs DEF LineFacts
  <1>. QED BY <1>2, <1>3 DEF Sorted, InOrder

(* The packets of a flow leave in the order they came (the single queues from the
   RX thread through the NFs to d2sc_mgr_tx), when the handlers send them along one
   chain, no NF is blocked, and none starts once packets are under way or another
   one has got a signal. *)
THEOREM FlowsInOrder ==
    ASSUME NEW route, IsRoute(route), Env \cap {"churn", "block"} = {}
    PROVE  Spec /\ [][NoneStarts]_vars => []InOrder
  <1>1. Init => TypeOK /\ PlacesInv /\ WaysInv /\ OrderInv(route)
        BY TypeInit, PlacesInit, WaysInit, OrderInit
  <1>2. /\ TypeOK /\ PlacesInv /\ WaysInv /\ OrderInv(route)
        /\ [Next]_vars /\ [NoneStarts]_vars
        => TypeOK' /\ PlacesInv' /\ WaysInv' /\ OrderInv(route)'
        BY TypeNext, PlacesNext, WaysNext, OrderNext
  <1>3. OrderInv(route) => InOrder
        BY OrderSent
  <1>. QED BY <1>1, <1>2, <1>3, PTL DEF Spec
=============================================================================
