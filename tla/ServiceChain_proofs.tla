------------------------- MODULE ServiceChain_proofs -------------------------
(***************************************************************************)
(* Theorems about ServiceChain, for any chain, any types and any number of *)
(* mbufs: the types, with the bound on sc_index, and the order in which a  *)
(* packet meets the NFs.  The invariant has four parts: what the entries   *)
(* of the chain may be (ChainInv), that an mbuf is in one place at most,   *)
(* once (PlacesInv), how far the indices go (CountInv), and where on its   *)
(* way each packet is (OrderInv).                                          *)
(***************************************************************************)
EXTENDS ServiceChain, DataLemmas

(* TypeOK without the bound on the indices, in the groups of variables that an
   action leaves alone together. *)
Metas == [act : {DROP, NEXT, TONF, OUT}, dst : Types \cup {0}, sc_index : Nat]
ChainTypes ==
    /\ sc_entry \in [Entries -> [act : {DROP, TONF, OUT}, dst : Types \cup {0}]]
    /\ sc_len \in Nat
    /\ merging \in {"call", "act", "dst"} /\ merged \in 0 .. Len(Additions)
PktTypes ==
    /\ meta \in [Mbufs -> Metas] /\ ipv4 \in [Mbufs -> BOOLEAN]
    /\ visits \in [Mbufs -> Seq(Types)] /\ raced \subseteq Mbufs
PlaceTypes ==
    /\ free \subseteq Mbufs
    /\ rx \subseteq Mbufs /\ rx_step \in {"act", "dst", "index", "hand"}
    /\ rx_q \in [Types -> Seq(Mbufs)]
NfTypes ==
    /\ step \in [Types -> {"poll", "look", "dst", "hand", "count", "crashed"}]
    /\ batch \in [Types -> Seq(Mbufs)]
    /\ rx_bufs \in [Types -> [Types -> Seq(Mbufs)]]
Typed == ChainTypes /\ PktTypes /\ PlaceTypes /\ NfTypes

(* The chain is as long as the additions that were begun; its entries are empty
   or have the type they are to have. *)
ChainInv ==
    /\ sc_len = merged + 1 + (IF merging = "call" THEN 0 ELSE 1)
    /\ merging # "call" => merged < Len(Additions)
    /\ sc_entry[1] = [act |-> TONF, dst |-> 1]
    /\ \A k \in 1 .. Len(Chain) : sc_entry[k].dst \in {0, Chain[k]}

(* What an NF has at hand: a packet that is to be counted is not its any more. *)
Held(t) == IF step[t] = "count" THEN Tail(batch[t]) ELSE batch[t]

(* If mbuf m is anywhere, it is in place k of the NFs a and b. *)
AtMost(m, k, a, b) ==
    /\ m \in free => k = "free"
    /\ m \in rx => k = "rx"
    /\ \A t \in Types : /\ m \in ToSet(rx_q[t]) => k = "rx_q" /\ t = a
                        /\ m \in ToSet(Held(t)) => k = "held" /\ t = a
    /\ \A t, u \in Types :
          m \in ToSet(rx_bufs[t][u]) => k = "rx_bufs" /\ t = a /\ u = b
OnePlace(m) == \E k, a, b : AtMost(m, k, a, b)
AllOnce == \A t \in Types : /\ Once(rx_q[t]) /\ Once(Held(t))
                            /\ \A u \in Types : Once(rx_bufs[t][u])
PlacesInv ==
    /\ \A m \in Mbufs : OnePlace(m)
    /\ AllOnce
    /\ \A m, n \in rx : m = n
    /\ \A t \in Types : step[t] \in {"dst", "hand", "count"} => batch[t] # <<>>

(* The RX thread begins with the act of a packet. *)
RxInv == rx = {} => rx_step = "act"

(* The NFs that are still to count a packet that they passed on. *)
Counting(m) == {t \in Types : step[t] = "count" /\ Head(batch[t]) = m}
Counts(m) == meta[m].sc_index + Cardinality(Counting(m))
CountInv ==
    /\ \A m \in Mbufs : Counts(m) <= Len(Chain) + Cardinality(Types) + 1
    /\ \A m \in Mbufs \ free : Counts(m) <= Len(Chain) + Cardinality(Types)
    /\ \A m \in rx :
          Counts(m) <= Cardinality(Types) + (IF rx_step = "hand" THEN 1 ELSE 0)
    /\ \A t \in Types : step[t] = "hand" /\ meta[Head(batch[t])].dst \in Types =>
          Counts(Head(batch[t])) <= Len(Chain) + Cardinality(Types) - 2

(* Where on its way a packet is that was counted in time. *)
Passed(m) == Len(visits[m])
IsNext(m, t) == Passed(m) < Len(Chain) /\ t = Chain[Passed(m) + 1]
OnWay(m) == /\ Passed(m) <= Len(Chain)
            /\ \A k \in 1 .. Passed(m) : visits[m][k] = Chain[k]
InOrder(m) ==
    /\ m \notin free => OnWay(m)
    /\ m \in rx =>
          /\ visits[m] = <<>>
          /\ meta[m].sc_index = IF rx_step = "hand" THEN 1 ELSE 0
          /\ rx_step \in {"index", "hand"} => meta[m].dst = 1
    /\ \A t \in Types :
          /\ m \in ToSet(rx_q[t]) => IsNext(m, t) /\ meta[m].sc_index = Passed(m) + 1
          /\ m \in ToSet(Held(t)) => meta[m].sc_index = Passed(m)
          /\ step[t] = "hand" /\ m = Head(batch[t]) /\ meta[m].dst \in Types =>
                IsNext(m, meta[m].dst)
    /\ \A t, u \in Types :
          m \in ToSet(rx_bufs[t][u]) =>
              /\ IsNext(m, u)
              /\ meta[m].sc_index = Passed(m) + (IF t \in Counting(m) THEN 0 ELSE 1)
OrderInv == \A m \in Mbufs \ raced : InOrder(m)
Inv == Typed /\ ChainInv /\ PlacesInv /\ RxInv /\ CountInv /\ OrderInv

-----------------------------------------------------------------------------
(* What the assumptions say of the constants. *)
LEMMA ConstFacts ==
    /\ 1 \in Types /\ Types \subseteq Nat /\ 0 \notin Types
    /\ Cardinality(Types) \in Nat /\ Cardinality(Types) >= 1
    /\ PKT_RD_SIZE \in Nat /\ PKT_RD_SIZE >= 1
  <1>1. IsFiniteSet(Types) /\ Types # {}
        BY ChainAssumption
  <1>2. Cardinality(Types) \in Nat /\ Cardinality(Types) # 0
        BY <1>1, FS_CardinalityType, FS_EmptySet
  <1>. QED BY <1>2, ChainAssumption

(* The types of the whole chain. *)
LEMMA ChainIs ==
    /\ Len(Additions) \in Nat
    /\ Chain \in Seq(Types \cup {0}) /\ Len(Chain) = Len(Additions) + 1
    /\ Chain[1] = 1 /\ Len(Chain) < D2SC_MAX_SC_LEN /\ D2SC_MAX_SC_LEN \in Nat
    /\ \A k \in 1 .. Len(Additions) :
          /\ Additions[k] \in [act : {TONF, OUT}, dst : Types \cup {0}]
          /\ Chain[k + 1] = Additions[k].dst
    /\ \A k \in 1 .. Len(Chain) : Chain[k] \in Types \cup {0}
  <1> DEFINE more == [k \in 1 .. Len(Additions) |-> Additions[k].dst]
             one == <<1>>
  <1>1. /\ Additions \in Seq([act : {TONF, OUT}, dst : Types \cup {0}])
        /\ Len(Additions) \in Nat /\ Len(Additions) + 1 < D2SC_MAX_SC_LEN
        /\ 1 \in Types /\ D2SC_MAX_SC_LEN \in Nat
        BY ChainAssumption
  <1>2. \A k \in 1 .. Len(Additions) :
            Additions[k] \in [act : {TONF, OUT}, dst : Types \cup {0}]
    <2> DEFINE R == [act : {TONF, OUT}, dst : Types \cup {0}]
    <2>1. Additions \in Seq(R)
          BY <1>1
    <2> HIDE DEF R
    <2>2. \A k \in 1 .. Len(Additions) : Additions[k] \in R
          BY <2>1
    <2>. QED BY <2>2 DEF R
  <1>3. \A k \in 1 .. Len(Additions) : Additions[k].dst \in Types \cup {0}
        BY <1>2
  <1>4. /\ more \in Seq(Types \cup {0}) /\ Len(more) = Len(Additions)
        /\ \A k \in 1 .. Len(Additions) : more[k] = Additions[k].dst
        BY <1>1, <1>3
  <1>5. one \in Seq(Types \cup {0}) /\ Len(one) = 1 /\ one[1] = 1
        BY <1>1
  <1> HIDE DEF more, one
  <1>6. Chain = one \o more
        BY DEF Chain, one, more
  <1>7. /\ one \o more \in Seq(Types \cup {0})
        /\ Len(one \o more) = Len(one) + Len(more)
        /\ \A j \in 1 .. Len(one) : (one \o more)[j] = one[j]
        /\ \A j \in Len(one) + 1 .. Len(one) + Len(more) :
              (one \o more)[j] = more[j - Len(one)]
    <2> DEFINE T == Types \cup {0}
    <2>1. one \in Seq(T) /\ more \in Seq(T)
          BY <1>4, <1>5
    <2> HIDE DEF T
    <2>2. /\ one \o more \in Seq(T)
          /\ Len(one \o more) = Len(one) + Len(more)
          /\ \A j \in 1 .. Len(one) : (one \o more)[j] = one[j]
          /\ \A j \in Len(one) + 1 .. Len(one) + Len(more) :
                (one \o more)[j] = more[j - Len(one)]
          BY <2>1, ConcatParts
    <2>. QED BY <2>2 DEF T
  <1>8. Len(Chain) = Len(Additions) + 1 /\ Chain \in Seq(Types \cup {0})
        BY <1>1, <1>4, <1>5, <1>6, <1>7
  <1>9. \A k \in 1 .. Len(Additions) : Chain[k + 1] = Additions[k].dst
    <2> TAKE k \in 1 .. Len(Additions)
    <2>1. k + 1 \in Len(one) + 1 .. Len(one) + Len(more) /\ (k + 1) - Len(one) = k
          BY <1>1, <1>4, <1>5
    <2>. QED BY <1>4, <1>6, <1>7, <2>1
  <1>10. Chain[1] = 1
        BY <1>5, <1>6, <1>7
  <1>. QED BY <1>1, <1>2, <1>8, <1>9, <1>10

(* The smaller of two numbers. *)
LEMMA MinOfTwo ==
    ASSUME NEW a \in Nat, NEW b \in Nat
    PROVE  Min({a, b}) \in {a, b} /\ Min({a, b}) <= a /\ Min({a, b}) <= b
  <1>1. \E x \in {a, b} : \A y \in {a, b} : x <= y
    <2>1. a <= b \/ b <= a
          OBVIOUS
    <2>. QED BY <2>1
  <1>2. Min({a, b}) = CHOOSE x \in {a, b} : \A y \in {a, b} : x <= y
        BY DEF Min
  <1>. QED BY <1>1, <1>2

(* An NF takes the first packets of its ring, and the handler decides. *)
PollBurst(t, burst, rest) ==
    /\ rx_q' = [rx_q EXCEPT ![t] = rest]
    /\ batch' = [batch EXCEPT ![t] = burst]
    /\ \A m : m \in ToSet(rx_q[t]) <=> m \in ToSet(burst) \/ m \in ToSet(rest)
    /\ Once(rx_q[t]) => /\ Once(burst) /\ Once(rest)
                        /\ \A m \in ToSet(burst) : m \notin ToSet(rest)
    /\ \E act \in [ToSet(burst) -> {NEXT, DROP}] :
          meta' = [m \in Mbufs |-> IF m \in ToSet(burst)
                                   THEN [meta[m] EXCEPT !.act = act[m]] ELSE meta[m]]
    /\ visits' = [m \in Mbufs |->
                    IF m \in ToSet(burst) /\ Len(visits[m]) <= Len(Chain)
                    THEN Append(visits[m], t) ELSE visits[m]]
LEMMA PollIs ==
    ASSUME PlaceTypes, NEW t \in Types, Poll(t)
    PROVE  \E burst, rest \in Seq(Mbufs) : PollBurst(t, burst, rest)
  <1> DEFINE n == Min({Len(rx_q[t]), PKT_RD_SIZE})
             burst == SubSeq(rx_q[t], 1, n)
             rest == SubSeq(rx_q[t], n + 1, Len(rx_q[t]))
  <1>1. rx_q[t] \in Seq(Mbufs) /\ Len(rx_q[t]) \in Nat
        BY DEF PlaceTypes
  <1>2. n \in 0 .. Len(rx_q[t])
        BY <1>1, MinOfTwo, ConstFacts
  <1>3. /\ rx_q' = [rx_q EXCEPT ![t] = rest]
        /\ batch' = [batch EXCEPT ![t] = burst]
        /\ \E act \in [ToSet(burst) -> {NEXT, DROP}] :
              meta' = [m \in Mbufs |->
                         IF m \in ToSet(burst)
                         THEN [meta[m] EXCEPT !.act = act[m]] ELSE meta[m]]
        /\ visits' = [m \in Mbufs |->
                        IF m \in ToSet(burst) /\ Len(visits[m]) <= Len(Chain)
                        THEN Append(visits[m], t) ELSE visits[m]]
        BY DEF Poll
  <1> HIDE DEF n
  <1>4. /\ burst \in Seq(Mbufs) /\ rest \in Seq(Mbufs)
        /\ \A m : m \in ToSet(rx_q[t]) <=> m \in ToSet(burst) \/ m \in ToSet(rest)
        /\ Once(rx_q[t]) => /\ Once(burst) /\ Once(rest)
                            /\ \A m \in ToSet(burst) : m \notin ToSet(rest)
        BY <1>1, <1>2, SplitHolds
  <1> HIDE DEF burst, rest
  <1>5. PollBurst(t, burst, rest)
        BY <1>3, <1>4 DEF PollBurst
  <1>. QED BY <1>4, <1>5

-----------------------------------------------------------------------------
(* The groups that a step leaves alone keep their types. *)
LEMMA TypesStay ==
    /\ ChainTypes /\ UNCHANGED chainVars => ChainTypes'
    /\ PktTypes /\ UNCHANGED <<meta, ipv4, visits, raced>> => PktTypes'
    /\ PlaceTypes /\ UNCHANGED <<free, rx, rx_step, rx_q>> => PlaceTypes'
    /\ NfTypes /\ UNCHANGED nfVars => NfTypes'
  BY DEF ChainTypes, PktTypes, PlaceTypes, NfTypes, chainVars, nfVars

(* An entry of the chain has an act and a dst. *)
LEMMA EntryType ==
    ASSUME ChainTypes, PktTypes, ChainInv, NEW m \in Mbufs
    PROVE  /\ NextEntry(m) \in [act : {DROP, TONF, OUT}, dst : Types \cup {0}]
           /\ sc_len >= 1 /\ sc_len <= Len(Chain) /\ sc_len \in Nat
           /\ meta[m].sc_index \in Nat
           /\ meta[m].sc_index < sc_len =>
                 NextEntry(m) = sc_entry[meta[m].sc_index + 1]
           /\ ~(meta[m].sc_index < sc_len) => NextEntry(m).dst = 0
  <1>1. /\ sc_len \in Nat /\ sc_len >= 1 /\ sc_len <= Len(Chain)
        /\ Len(Chain) \in Nat /\ Len(Chain) < D2SC_MAX_SC_LEN
        /\ D2SC_MAX_SC_LEN \in Nat
        BY ChainIs DEF ChainTypes, ChainInv
  <1>2. meta[m].sc_index \in Nat
        BY DEF PktTypes, Metas
  <1>3. EmptyEntry \in [act : {DROP, TONF, OUT}, dst : Types \cup {0}]
        BY DEF EmptyEntry
  <1>4. CASE meta[m].sc_index < sc_len
    <2>1. meta[m].sc_index + 1 \in Entries /\ ~(meta[m].sc_index >= sc_len)
          BY <1>1, <1>2, <1>4 DEF Entries
    <2>. QED BY <1>1, <1>2, <1>4, <2>1 DEF NextEntry, ChainTypes
  <1>5. CASE ~(meta[m].sc_index < sc_len)
    <2>1. meta[m].sc_index >= sc_len
          BY <1>1, <1>2, <1>5
    <2>. QED BY <1>1, <1>2, <1>3, <1>5, <2>1 DEF NextEntry, EmptyEntry
  <1>. QED BY <1>4, <1>5

(* The act and the dst of a packet are read from the chain. *)
LEMMA ReadTypes ==
    ASSUME Typed, ChainInv, NEW m \in Mbufs, ReadAct(m) \/ ReadDst(m)
    PROVE  meta' \in [Mbufs -> Metas]
  <1>1. PICK e \in [act : {DROP, TONF, OUT}, dst : Types \cup {0}] :
            \/ meta' = [meta EXCEPT ![m].act = e.act]
            \/ meta' = [meta EXCEPT ![m].dst = e.dst]
        BY EntryType DEF ReadAct, ReadDst, Typed
  <1>2. meta \in [Mbufs -> Metas]
        BY DEF Typed, PktTypes
  <1>3. \A x \in Metas : [x EXCEPT !.act = e.act] \in Metas /\ [x EXCEPT !.dst = e.dst] \in Metas
        BY DEF Metas
  <1>4. PICK x \in Metas : meta' = [meta EXCEPT ![m] = x]
    <2>1. meta[m] \in Metas
          BY <1>2
    <2>2. \/ meta' = [meta EXCEPT ![m] = [meta[m] EXCEPT !.act = e.act]]
          \/ meta' = [meta EXCEPT ![m] = [meta[m] EXCEPT !.dst = e.dst]]
          BY <1>1
    <2>. QED BY <1>3, <2>1, <2>2
  <1>. QED BY <1>2, <1>4

(* The application adds an entry. *)
LEMMA MergeInv == ChainTypes /\ ChainInv /\ MergeEntry => ChainTypes' /\ ChainInv'
  <1> SUFFICES ASSUME ChainTypes, ChainInv, MergeEntry PROVE ChainTypes' /\ ChainInv'
      OBVIOUS
  <1> USE DEF ChainTypes, ChainInv
  <1>1. /\ Len(Additions) \in Nat /\ merged \in Nat /\ Len(Chain) \in Nat
        /\ Len(Chain) = Len(Additions) + 1 /\ Len(Chain) < D2SC_MAX_SC_LEN
        /\ D2SC_MAX_SC_LEN \in Nat
        BY ChainIs
  <1>2. CASE MergeLength
        BY <1>1, <1>2 DEF MergeLength
  <1> DEFINE a == Additions[merged + 1]
  <1>3. ASSUME merging # "call"
        PROVE  /\ sc_len = merged + 2 /\ sc_len \in 1 .. Len(Chain) /\ sc_len # 1
               /\ sc_len \in Entries /\ merged + 1 \in 1 .. Len(Additions)
               /\ a.act \in {TONF, OUT} /\ a.dst \in Types \cup {0}
               /\ Chain[sc_len] = a.dst
    <2>1. merged + 1 \in 1 .. Len(Additions) /\ sc_len = merged + 2
          BY <1>1, <1>3
    <2>2. a \in [act : {TONF, OUT}, dst : Types \cup {0}] /\ Chain[(merged + 1) + 1] = a.dst
          BY <2>1, ChainIs
    <2>. QED BY <1>1, <2>1, <2>2 DEF Entries
  <1>4. \A k \in 1 .. Len(Chain) : k \in Entries
        BY <1>1 DEF Entries
  <1>5. 1 \in 1 .. Len(Chain)
        BY <1>1
  <1> HIDE DEF a
  <1>6. CASE MergeAct
    <2>1. /\ sc_entry' = [sc_entry EXCEPT ![sc_len].act = a.act]
          /\ merging # "call" /\ merging' = "dst" /\ UNCHANGED <<sc_len, merged>>
          BY <1>6 DEF MergeAct, a
    <2>2. sc_entry' \in [Entries -> [act : {DROP, TONF, OUT}, dst : Types \cup {0}]]
          BY <1>3, <2>1
    <2>3. \A k \in 1 .. Len(Chain) : sc_entry'[k].dst = sc_entry[k].dst
          BY <1>3, <1>4, <2>1
    <2>4. sc_entry'[1] = sc_entry[1]
          BY <1>3, <1>4, <1>5, <2>1
    <2>. QED BY <2>1, <2>2, <2>3, <2>4
  <1>7. CASE MergeDst
    <2>1. /\ sc_entry' = [sc_entry EXCEPT ![sc_len].dst = a.dst]
          /\ merging # "call" /\ merging' = "call" /\ merged' = merged + 1
          /\ sc_len' = sc_len
          BY <1>7 DEF MergeDst, a
    <2>2. sc_entry' \in [Entries -> [act : {DROP, TONF, OUT}, dst : Types \cup {0}]]
          BY <1>3, <2>1
    <2>3. \A k \in 1 .. Len(Chain) : sc_entry'[k].dst = IF k = sc_len THEN a.dst ELSE sc_entry[k].dst
          BY <1>3, <1>4, <2>1
    <2>4. sc_entry'[1] = sc_entry[1]
          BY <1>3, <1>4, <1>5, <2>1
    <2>5. merged' \in 0 .. Len(Additions) /\ sc_len' = merged' + 1
          BY <1>1, <1>3, <2>1
    <2>. QED BY <1>3, <2>1, <2>2, <2>3, <2>4, <2>5
  <1>. QED BY <1>2, <1>6, <1>7 DEF MergeEntry

(* An NF that has a packet at hand has an mbuf. *)
LEMMA HasOne ==
    ASSUME NfTypes, NEW t \in Types, batch[t] # <<>>
    PROVE  /\ batch[t] \in Seq(Mbufs) /\ Head(batch[t]) \in Mbufs
           /\ Tail(batch[t]) \in Seq(Mbufs)
  <1>1. batch[t] \in Seq(Mbufs)
        BY DEF NfTypes
  <1>. QED BY <1>1, HeadTail

(* The index of one packet is raised. *)
LEMMA RaiseTypes ==
    ASSUME PktTypes, NEW m \in Mbufs, meta' = [meta EXCEPT ![m].sc_index = @ + 1]
    PROVE  /\ meta' \in [Mbufs -> Metas]
           /\ \A n \in Mbufs : /\ meta'[n].dst = meta[n].dst
                               /\ n # m => meta'[n] = meta[n]
           /\ meta'[m].sc_index = meta[m].sc_index + 1
  <1>1. meta \in [Mbufs -> Metas] /\ meta[m].sc_index \in Nat
        BY DEF PktTypes, Metas
  <1>2. PICK x : x = [meta[m] EXCEPT !.sc_index = meta[m].sc_index + 1]
        OBVIOUS
  <1>3. x \in Metas /\ x.dst = meta[m].dst /\ x.sc_index = meta[m].sc_index + 1
        BY <1>1, <1>2 DEF Metas
  <1>4. meta' = [meta EXCEPT ![m] = x]
        BY <1>2
  <1>. QED BY <1>1, <1>3, <1>4

(* The RX thread. *)
LEMMA TypeArrive ==
    ASSUME Typed, NEW m \in Mbufs, NEW is_ipv4 \in BOOLEAN, Arrive(m, is_ipv4)
    PROVE  Typed'
  <1> USE DEF Typed
  <1>1. meta \in [Mbufs -> Metas]
        BY DEF PktTypes
  <1>2. PICK x : x = [meta[m] EXCEPT !.sc_index = 0]
        OBVIOUS
  <1>3. x \in Metas
        BY <1>1, <1>2 DEF Metas
  <1>4. meta' = [meta EXCEPT ![m] = x]
        BY <1>2 DEF Arrive
  <1>5. meta' \in [Mbufs -> Metas]
        BY <1>1, <1>3, <1>4
  <1>6. <<>> \in Seq(Types)
        OBVIOUS
  <1>7. PktTypes'
        BY <1>5, <1>6 DEF Arrive, PktTypes
  <1>8. PlaceTypes'
        BY DEF Arrive, PlaceTypes
  <1>. QED BY <1>7, <1>8, TypesStay DEF Arrive
LEMMA TypeRx ==
    ASSUME Typed, ChainInv, Rx
    PROVE  Typed'
  <1> USE DEF Typed
  <1>1. CASE RxAct \/ RxDst
    <2>1. \A m \in rx : m \in Mbufs
          BY DEF PlaceTypes
    <2>2. meta' \in [Mbufs -> Metas]
          BY <1>1, <2>1, ReadTypes DEF RxAct, RxDst
    <2>3. PktTypes' /\ PlaceTypes'
          BY <1>1, <2>2 DEF RxAct, RxDst, PktTypes, PlaceTypes
    <2>. QED BY <1>1, <2>3, TypesStay DEF RxAct, RxDst
  <1>2. CASE RxIndex
    <2>1. PICK m \in Mbufs : meta' = [meta EXCEPT ![m].sc_index = @ + 1]
          BY <1>2 DEF RxIndex, PlaceTypes
    <2>2. PktTypes' /\ PlaceTypes'
          BY <1>2, <2>1, RaiseTypes DEF RxIndex, PktTypes, PlaceTypes
    <2>. QED BY <1>2, <2>2, TypesStay DEF RxIndex
  <1>3. CASE RxHand
    <2>1. PICK m \in rx :
              IF meta[m].dst \in Types
              THEN /\ rx_q' = [rx_q EXCEPT ![meta[m].dst] = Append(@, m)]
                   /\ UNCHANGED free
              ELSE free' = free \cup {m} /\ UNCHANGED rx_q
          BY <1>3 DEF RxHand
    <2>2. m \in Mbufs
          BY DEF PlaceTypes
    <2>3. free' \subseteq Mbufs /\ rx_q' \in [Types -> Seq(Mbufs)]
      <3>1. CASE meta[m].dst \in Types
        <4>1. Append(rx_q[meta[m].dst], m) \in Seq(Mbufs)
              BY <2>2, <3>1 DEF PlaceTypes
        <4>. QED BY <2>1, <3>1, <4>1 DEF PlaceTypes
      <3>. QED BY <2>1, <2>2, <3>1 DEF PlaceTypes
    <2>4. PlaceTypes'
          BY <1>3, <2>3 DEF RxHand, PlaceTypes
    <2>. QED BY <1>3, <2>4, TypesStay DEF RxHand
  <1>. QED BY <1>1, <1>2, <1>3 DEF Rx

(* An NF. *)
LEMMA TypeNf ==
    ASSUME Typed, ChainInv, NEW t \in Types, Nf(t)
    PROVE  Typed'
  <1> USE DEF Typed
  <1>1. CASE Poll(t)
    <2>1. PICK burst, rest \in Seq(Mbufs) : PollBurst(t, burst, rest)
          BY <1>1, PollIs
    <2>2. PICK act \in [ToSet(burst) -> {NEXT, DROP}] :
              meta' = [m \in Mbufs |-> IF m \in ToSet(burst)
                                       THEN [meta[m] EXCEPT !.act = act[m]] ELSE meta[m]]
          BY <2>1 DEF PollBurst
    <2>3. \A m \in ToSet(burst) : act[m] \in {NEXT, DROP}
          BY <2>2
    <2>4. \A m \in Mbufs : meta'[m] \in Metas
          BY <2>2, <2>3 DEF PktTypes, Metas
    <2>5. meta' \in [Mbufs -> Metas]
          BY <2>2, <2>4
    <2>6. \A m \in Mbufs : Append(visits[m], t) \in Seq(Types)
          BY DEF PktTypes
    <2>7. visits' \in [Mbufs -> Seq(Types)]
          BY <2>1, <2>6 DEF PollBurst, PktTypes
    <2>8. PktTypes'
          BY <1>1, <2>5, <2>7 DEF Poll, PktTypes
    <2>9. /\ rx_q' = [rx_q EXCEPT ![t] = rest] /\ batch' = [batch EXCEPT ![t] = burst]
          /\ step' = [step EXCEPT ![t] = "look"]
          /\ UNCHANGED <<free, rx, rx_step, rx_bufs>>
          BY <1>1, <2>1 DEF Poll, PollBurst
    <2>10. PlaceTypes' /\ NfTypes'
          BY <2>1, <2>9 DEF PlaceTypes, NfTypes
    <2>. QED BY <1>1, <2>8, <2>10, TypesStay DEF Poll
  <1>2. CASE Flush(t)
    <2>1. \A u \in Types : rx_q[u] \o rx_bufs[t][u] \in Seq(Mbufs)
          BY DEF PlaceTypes, NfTypes
    <2>2. rx_q' \in [Types -> Seq(Mbufs)]
          BY <1>2, <2>1 DEF Flush
    <2>3. PlaceTypes' /\ NfTypes'
          BY <1>2, <2>2 DEF Flush, PlaceTypes, NfTypes
    <2>. QED BY <1>2, <2>3, TypesStay DEF Flush
  <1>3. ASSUME batch[t] # <<>>, Discard(t) \/ Look(t) \/ LookDst(t) \/ Count(t) PROVE Typed'
    <2> DEFINE m == Head(batch[t])
    <2>1. m \in Mbufs /\ Tail(batch[t]) \in Seq(Mbufs)
          BY <1>3, HasOne
    <2>2. CASE Discard(t)
          BY <2>1, <2>2, TypesStay DEF Discard, PlaceTypes, NfTypes
    <2>3. CASE Look(t) \/ LookDst(t)
      <3>1. meta' = meta \/ ReadAct(m) \/ ReadDst(m)
            BY <2>3 DEF Look, LookDst
      <3>2. meta' \in [Mbufs -> Metas]
            BY <2>1, <3>1, ReadTypes DEF PktTypes
      <3>3. \E s \in {"crashed", "dst", "hand"} : step' = [step EXCEPT ![t] = s]
            BY <2>3 DEF Look, LookDst
      <3>4. PktTypes' /\ NfTypes'
            BY <2>3, <3>2, <3>3 DEF Look, LookDst, PktTypes, NfTypes
      <3>. QED BY <2>3, <3>4, TypesStay DEF Look, LookDst
    <2>4. CASE Count(t)
      <3>1. meta' = [meta EXCEPT ![m].sc_index = @ + 1] /\ raced' \subseteq raced \cup {m}
            BY <2>4 DEF Count
      <3>2. meta' \in [Mbufs -> Metas]
            BY <2>1, <3>1, RaiseTypes
      <3>3. PktTypes' /\ NfTypes'
            BY <2>1, <2>4, <3>1, <3>2 DEF Count, PktTypes, NfTypes
      <3>. QED BY <2>4, <3>3, TypesStay DEF Count
    <2>. QED BY <1>3, <2>2, <2>3, <2>4
  <1>4. CASE Hand(t)
    <2> DEFINE m == Head(batch[t])
    <2>1. batch[t] # <<>> /\ m \in Mbufs
          BY <1>4, HasOne DEF Hand, HasPacket
    <2> HIDE DEF m
    <2>2. HandToNobody(t, m) \/ HandToNf(t, m) \/ HandToPort(t, m)
          BY <1>4 DEF Hand, m
    <2>3. /\ free' \subseteq Mbufs /\ rx_q' \in [Types -> Seq(Mbufs)] /\ raced' \subseteq Mbufs
          /\ rx_bufs' \in [Types -> [Types -> Seq(Mbufs)]]
      <3>1. CASE HandToNf(t, m)
        <4> DEFINE u == meta[m].dst
                   buf == Append(rx_bufs[t][u], m)
        <4>1. u \in Types /\ rx_bufs[t][u] \in Seq(Mbufs)
              BY <3>1 DEF HandToNf, NfTypes
        <4>2. buf \in Seq(Mbufs)
              BY <2>1, <4>1
        <4>3. \/ /\ rx_q' = [rx_q EXCEPT ![u] = @ \o buf]
                 /\ rx_bufs' = [rx_bufs EXCEPT ![t][u] = <<>>]
                 /\ raced' = raced \cup {m} /\ free' = free
              \/ /\ rx_bufs' = [rx_bufs EXCEPT ![t][u] = buf]
                 /\ UNCHANGED <<rx_q, raced, free>>
              BY <3>1 DEF HandToNf
        <4> HIDE DEF u, buf
        <4>4. rx_q[u] \o buf \in Seq(Mbufs)
              BY <4>1, <4>2 DEF PlaceTypes
        <4>5. free' \subseteq Mbufs /\ raced' \subseteq Mbufs
              BY <2>1, <4>3 DEF PlaceTypes, PktTypes
        <4>6. rx_q' \in [Types -> Seq(Mbufs)]
              BY <4>1, <4>3, <4>4 DEF PlaceTypes
        <4>7. <<>> \in Seq(Mbufs)
              OBVIOUS
        <4>8. \E b \in Seq(Mbufs) : rx_bufs' = [rx_bufs EXCEPT ![t][u] = b]
              BY <4>2, <4>3, <4>7
        <4>9. rx_bufs' \in [Types -> [Types -> Seq(Mbufs)]]
              BY <4>1, <4>8 DEF NfTypes
        <4>. QED BY <4>5, <4>6, <4>9
      <3>2. CASE HandToNobody(t, m) \/ HandToPort(t, m)
            BY <2>1, <3>2 DEF HandToNobody, HandToPort, PlaceTypes, PktTypes, NfTypes
      <3>. QED BY <2>2, <3>1, <3>2
    <2>4. \E s \in {"count", "crashed"} : step' = [step EXCEPT ![t] = s]
          BY <2>2 DEF HandToNobody, HandToNf, HandToPort
    <2>5. PktTypes' /\ PlaceTypes' /\ NfTypes'
          BY <1>4, <2>3, <2>4 DEF Hand, PktTypes, PlaceTypes, NfTypes
    <2>. QED BY <1>4, <2>5, TypesStay DEF Hand
  <1>. QED BY <1>1, <1>2, <1>3, <1>4 DEF Nf, HasPacket, Discard, Look, LookDst, Count

-----------------------------------------------------------------------------
(* A step takes mbuf m nowhere where it was not. *)
Loses(m) ==
    /\ m \in free' => m \in free
    /\ m \in rx' => m \in rx
    /\ \A t \in Types : /\ m \in ToSet(rx_q'[t]) => m \in ToSet(rx_q[t])
                        /\ m \in ToSet(Held(t)') => m \in ToSet(Held(t))
    /\ \A t, u \in Types : m \in ToSet(rx_bufs'[t][u]) => m \in ToSet(rx_bufs[t][u])
LEMMA Stays == ASSUME NEW m, OnePlace(m), Loses(m) PROVE OnePlace(m)'
  <1>1. PICK k, a, b : AtMost(m, k, a, b)
        BY DEF OnePlace
  <1>2. AtMost(m, k, a, b)'
        BY <1>1 DEF AtMost, Loses
  <1>. QED BY <1>2 DEF OnePlace

(* What an NF has at hand, as a sequence. *)
LEMMA HeldSeq ==
    ASSUME Typed, PlacesInv, NEW t \in Types
    PROVE  /\ Held(t) \in Seq(Mbufs) /\ Once(Held(t)) /\ ToSet(Held(t)) \subseteq Mbufs
           /\ rx_q[t] \in Seq(Mbufs) /\ Once(rx_q[t]) /\ ToSet(rx_q[t]) \subseteq Mbufs
           /\ \A u \in Types : /\ rx_bufs[t][u] \in Seq(Mbufs) /\ Once(rx_bufs[t][u])
                               /\ ToSet(rx_bufs[t][u]) \subseteq Mbufs
           /\ rx \subseteq Mbufs /\ free \subseteq Mbufs
  <1>1. /\ rx_q[t] \in Seq(Mbufs) /\ batch[t] \in Seq(Mbufs)
        /\ \A u \in Types : rx_bufs[t][u] \in Seq(Mbufs)
        /\ rx \subseteq Mbufs /\ free \subseteq Mbufs
        BY DEF Typed, PlaceTypes, NfTypes
  <1>2. Held(t) \in Seq(Mbufs)
        BY <1>1, HasOne DEF Held, PlacesInv, Typed
  <1>3. Once(Held(t)) /\ Once(rx_q[t]) /\ \A u \in Types : Once(rx_bufs[t][u])
        BY DEF PlacesInv, AllOnce
  <1>. QED BY <1>1, <1>2, <1>3, SetOf

(* A step that moves no mbuf. *)
LEMMA PlacesStay ==
    ASSUME PlacesInv, UNCHANGED <<free, rx, rx_q, rx_bufs>>,
           \A t \in Types : /\ Held(t)' = Held(t)
                            /\ step'[t] \in {"dst", "hand", "count"} => batch'[t] # <<>>
    PROVE  PlacesInv'
  <1>1. \A m : Loses(m)
        BY DEF Loses
  <1>. QED BY <1>1, Stays DEF PlacesInv, AllOnce

(* The RX thread. *)
LEMMA PlacesRx ==
    ASSUME Typed, PlacesInv,
           Rx \/ \E m \in Mbufs, is_ipv4 \in BOOLEAN : Arrive(m, is_ipv4)
    PROVE  PlacesInv'
  <1>1. UNCHANGED nfVars
        BY DEF Arrive, Rx, RxAct, RxDst, RxIndex, RxHand
  <1>2. /\ \A t \in Types : Held(t)' = Held(t)
        /\ \A t \in Types : step'[t] \in {"dst", "hand", "count"} => batch'[t] # <<>>
        /\ UNCHANGED <<step, batch, rx_bufs>>
        BY <1>1 DEF Held, nfVars, PlacesInv
  <1>3. ASSUME NEW m \in Mbufs, NEW is_ipv4 \in BOOLEAN, Arrive(m, is_ipv4)
        PROVE  PlacesInv'
    <2>1. /\ rx' = {m} /\ free' = free \ {m} /\ m \in free /\ rx_q' = rx_q
          BY <1>3 DEF Arrive
    <2>2. ASSUME NEW n \in Mbufs, n # m PROVE OnePlace(n)'
      <3>1. Loses(n)
            BY <1>2, <2>1, <2>2 DEF Loses
      <3>. QED BY <3>1, Stays DEF PlacesInv
    <2>3. OnePlace(m)'
      <3>1. PICK k, a, b : AtMost(m, k, a, b)
            BY DEF PlacesInv, OnePlace
      <3>2. AtMost(m, "rx", a, b)'
            BY <1>2, <2>1, <3>1 DEF AtMost
      <3>. QED BY <3>2 DEF OnePlace
    <2>. QED BY <1>2, <2>1, <2>2, <2>3 DEF PlacesInv, AllOnce
  <1>4. CASE RxAct \/ RxDst \/ RxIndex
        BY <1>2, <1>4, PlacesStay DEF RxAct, RxDst, RxIndex
  <1>5. CASE RxHand
    <2>1. PICK m \in rx :
              IF meta[m].dst \in Types
              THEN /\ rx_q' = [rx_q EXCEPT ![meta[m].dst] = Append(@, m)]
                   /\ UNCHANGED free
              ELSE free' = free \cup {m} /\ UNCHANGED rx_q
          BY <1>5 DEF RxHand
    <2>2. m \in Mbufs /\ rx' = {} /\ \A n \in rx : n = m
          BY <1>5 DEF RxHand, Typed, PlaceTypes, PlacesInv
    <2>3. PICK k, a, b : AtMost(m, k, a, b)
          BY <2>2 DEF PlacesInv, OnePlace
    <2>4. CASE meta[m].dst \in Types
      <3>0. PICK u \in Types : u = meta[m].dst
            BY <2>4
      <3>1. u \in Types /\ rx_q' = [rx_q EXCEPT ![u] = Append(@, m)] /\ free' = free
            BY <2>1, <3>0
      <3>2. rx_q[u] \in Seq(Mbufs) /\ rx_q \in [Types -> Seq(Mbufs)]
            BY <3>1 DEF Typed, PlaceTypes
      <3>3. m \notin ToSet(rx_q[u]) /\ m \notin free
            BY <2>1, <2>3, <3>1 DEF AtMost
      <3>4. /\ \A x : x \in ToSet(Append(rx_q[u], m)) <=> x \in ToSet(rx_q[u]) \/ x = m
            /\ Once(rx_q[u]) => Once(Append(rx_q[u], m))
            BY <2>2, <3>2, <3>3, AppendHolds
      <3>5. /\ rx_q'[u] = Append(rx_q[u], m)
            /\ \A t \in Types \ {u} : rx_q'[t] = rx_q[t]
            BY <3>1, <3>2
      <3>6. ASSUME NEW n \in Mbufs, n # m PROVE OnePlace(n)'
        <4>1. Loses(n)
              BY <1>2, <2>2, <3>1, <3>4, <3>5, <3>6 DEF Loses
        <4>. QED BY <4>1, Stays DEF PlacesInv
      <3>7. OnePlace(m)'
        <4>1. /\ \A t \in Types : m \notin ToSet(rx_q[t]) /\ m \notin ToSet(Held(t))
              /\ \A t, v \in Types : m \notin ToSet(rx_bufs[t][v])
              BY <2>3 DEF AtMost
        <4>2. \A t \in Types : m \in ToSet(rx_q'[t]) => t = u
              BY <3>5, <4>1
        <4>3. AtMost(m, "rx_q", u, b)'
              BY <1>2, <2>2, <3>1, <3>3, <4>1, <4>2 DEF AtMost
        <4>. QED BY <4>3 DEF OnePlace
      <3>8. \A t \in Types : Once(rx_q'[t])
            BY <3>1, <3>4, <3>5 DEF PlacesInv, AllOnce
      <3>. QED BY <1>2, <2>2, <3>6, <3>7, <3>8 DEF PlacesInv, AllOnce
    <2>5. CASE meta[m].dst \notin Types
      <3>1. free' = free \cup {m} /\ rx_q' = rx_q
            BY <2>1, <2>5
      <3>2. ASSUME NEW n \in Mbufs, n # m PROVE OnePlace(n)'
        <4>1. Loses(n)
              BY <1>2, <2>2, <3>1, <3>2 DEF Loses
        <4>. QED BY <4>1, Stays DEF PlacesInv
      <3>3. OnePlace(m)'
        <4>1. AtMost(m, "free", a, b)'
              BY <1>2, <2>1, <2>2, <2>3, <3>1 DEF AtMost
        <4>. QED BY <4>1 DEF OnePlace
      <3>. QED BY <1>2, <2>2, <3>1, <3>2, <3>3 DEF PlacesInv, AllOnce
    <2>. QED BY <2>4, <2>5
  <1>. QED BY <1>3, <1>4, <1>5 DEF Rx

(* An NF that takes, drops or hands on packets. *)
LEMMA PlacesPoll ==
    ASSUME Typed, PlacesInv, NEW t \in Types, Poll(t)
    PROVE  PlacesInv'
  <1>1. PICK burst, rest \in Seq(Mbufs) : PollBurst(t, burst, rest)
        BY PollIs DEF Typed
  <1>2. /\ Once(rx_q[t]) /\ Once(burst) /\ Once(rest)
        /\ \A m \in ToSet(burst) : m \notin ToSet(rest)
        /\ \A m : m \in ToSet(rx_q[t]) <=> m \in ToSet(burst) \/ m \in ToSet(rest)
        BY <1>1, HeldSeq DEF PollBurst
  <1>3. /\ rx_q' = [rx_q EXCEPT ![t] = rest] /\ batch' = [batch EXCEPT ![t] = burst]
        /\ step' = [step EXCEPT ![t] = "look"] /\ UNCHANGED <<free, rx, rx_bufs>>
        BY <1>1 DEF Poll, PollBurst
  <1>4. /\ rx_q'[t] = rest /\ Held(t)' = burst /\ step'[t] = "look"
        /\ \A c \in Types \ {t} : /\ rx_q'[c] = rx_q[c] /\ Held(c)' = Held(c)
                                  /\ step'[c] = step[c] /\ batch'[c] = batch[c]
        BY <1>3 DEF Held, Typed, NfTypes, PlaceTypes
  <1>5. ASSUME NEW m \in Mbufs, m \notin ToSet(burst) PROVE OnePlace(m)'
    <2>1. Loses(m)
          BY <1>2, <1>3, <1>4, <1>5 DEF Loses
    <2>. QED BY <2>1, Stays DEF PlacesInv
  <1>6. ASSUME NEW m \in Mbufs, m \in ToSet(burst) PROVE OnePlace(m)'
    <2>1. PICK k, a, b : AtMost(m, k, a, b)
          BY DEF PlacesInv, OnePlace
    <2>2. m \in ToSet(rx_q[t])
          BY <1>2, <1>6
    <2>3. /\ m \notin free /\ m \notin rx
          /\ \A c \in Types : /\ m \in ToSet(rx_q[c]) => c = t
                              /\ m \notin ToSet(Held(c))
          /\ \A c, u \in Types : m \notin ToSet(rx_bufs[c][u])
          BY <2>1, <2>2 DEF AtMost
    <2>4. /\ \A c \in Types : /\ m \notin ToSet(rx_q'[c])
                              /\ m \in ToSet(Held(c)') => c = t
          BY <1>2, <1>4, <1>6, <2>3
    <2>5. AtMost(m, "held", t, b)'
          BY <1>3, <2>3, <2>4 DEF AtMost
    <2>. QED BY <2>5 DEF OnePlace
  <1>7. AllOnce'
        BY <1>2, <1>3, <1>4 DEF PlacesInv, AllOnce
  <1>. QED BY <1>3, <1>4, <1>5, <1>6, <1>7 DEF PlacesInv

LEMMA PlacesFlush ==
    ASSUME Typed, PlacesInv, NEW t \in Types, Flush(t)
    PROVE  PlacesInv'
  <1>1. /\ rx_q' = [u \in Types |-> rx_q[u] \o rx_bufs[t][u]]
        /\ rx_bufs' = [rx_bufs EXCEPT ![t] = [u \in Types |-> <<>>]]
        /\ step' = [step EXCEPT ![t] = "poll"] /\ step[t] = "look"
        /\ UNCHANGED <<free, rx, batch>>
        BY DEF Flush
  <1>2. /\ \A c \in Types : Held(c)' = Held(c)
        /\ \A c \in Types : step'[c] \in {"dst", "hand", "count"} => batch'[c] # <<>>
        BY <1>1 DEF Held, Typed, NfTypes, PlacesInv
  <1>3. ToSet(<<>>) = {} /\ Once(<<>>)
        BY DEF ToSet, Once
  <1>4. \A c, u \in Types : rx_bufs'[c][u] = IF c = t THEN <<>> ELSE rx_bufs[c][u]
        BY <1>1 DEF Typed, NfTypes
  <1>5. ASSUME NEW u \in Types
        PROVE  /\ \A x : x \in ToSet(rx_q'[u]) <=>
                            x \in ToSet(rx_q[u]) \/ x \in ToSet(rx_bufs[t][u])
               /\ Once(rx_q'[u])
    <2>1. /\ rx_q[u] \in Seq(Mbufs) /\ rx_bufs[t][u] \in Seq(Mbufs)
          /\ Once(rx_q[u]) /\ Once(rx_bufs[t][u]) /\ ToSet(rx_q[u]) \subseteq Mbufs
          BY HeldSeq
    <2>2. ASSUME NEW x \in ToSet(rx_q[u]) PROVE x \notin ToSet(rx_bufs[t][u])
      <3>1. PICK k, a, b : AtMost(x, k, a, b)
            BY <2>1 DEF PlacesInv, OnePlace
      <3>. QED BY <2>2, <3>1 DEF AtMost
    <2>3. rx_q'[u] = rx_q[u] \o rx_bufs[t][u]
          BY <1>1
    <2>. QED BY <2>1, <2>2, <2>3, ConcatHolds
  <1>6. ASSUME NEW m \in Mbufs, NEW u \in Types, m \in ToSet(rx_bufs[t][u])
        PROVE  OnePlace(m)'
    <2>1. PICK k, a, b : AtMost(m, k, a, b)
          BY DEF PlacesInv, OnePlace
    <2>2. /\ m \notin free /\ m \notin rx
          /\ \A c \in Types : m \notin ToSet(rx_q[c]) /\ m \notin ToSet(Held(c))
          /\ \A c, v \in Types : m \in ToSet(rx_bufs[c][v]) => c = t /\ v = u
          BY <1>6, <2>1 DEF AtMost
    <2>3. /\ \A c \in Types : m \in ToSet(rx_q'[c]) => c = u
          /\ \A c, v \in Types : m \notin ToSet(rx_bufs'[c][v])
      <3>1. \A c \in Types : m \in ToSet(rx_q'[c]) => c = u
            BY <1>5, <2>2
      <3>2. ASSUME NEW c \in Types, NEW v \in Types PROVE m \notin ToSet(rx_bufs'[c][v])
        <4>1. CASE c = t
              BY <1>3, <1>4, <4>1
        <4>2. CASE c # t
              BY <1>4, <2>2, <4>2
        <4>. QED BY <4>1, <4>2
      <3>. QED BY <3>1, <3>2
    <2>4. AtMost(m, "rx_q", u, b)'
          BY <1>1, <1>2, <2>2, <2>3 DEF AtMost
    <2>. QED BY <2>4 DEF OnePlace
  <1>7. ASSUME NEW m \in Mbufs, \A u \in Types : m \notin ToSet(rx_bufs[t][u])
        PROVE  OnePlace(m)'
    <2>1. \A u \in Types : m \in ToSet(rx_q'[u]) => m \in ToSet(rx_q[u])
          BY <1>5, <1>7
    <2>2. \A c, u \in Types : m \in ToSet(rx_bufs'[c][u]) => m \in ToSet(rx_bufs[c][u])
          BY <1>3, <1>4
    <2>3. Loses(m)
          BY <1>1, <1>2, <2>1, <2>2 DEF Loses
    <2>. QED BY <2>3, Stays DEF PlacesInv
  <1>8. AllOnce'
        BY <1>2, <1>3, <1>4, <1>5 DEF PlacesInv, AllOnce
  <1>. QED BY <1>1, <1>2, <1>6, <1>7, <1>8 DEF PlacesInv

(* The packet that an NF looks at. *)
LEMMA HeadHeld ==
    ASSUME Typed, PlacesInv, NEW t \in Types, step[t] # "count", batch[t] # <<>>
    PROVE  /\ Head(batch[t]) \in ToSet(Held(t)) /\ Head(batch[t]) \in Mbufs
           /\ Held(t) = batch[t] /\ Once(Tail(batch[t]))
           /\ \A x : x \in ToSet(Tail(batch[t])) <=>
                         x \in ToSet(Held(t)) /\ x # Head(batch[t])
           /\ Head(batch[t]) \notin free /\ Head(batch[t]) \notin rx
           /\ \A c \in Types : /\ Head(batch[t]) \notin ToSet(rx_q[c])
                               /\ Head(batch[t]) \in ToSet(Held(c)) => c = t
           /\ \A c, u \in Types : Head(batch[t]) \notin ToSet(rx_bufs[c][u])
  <1>1. batch[t] \in Seq(Mbufs) /\ Held(t) = batch[t] /\ Once(batch[t])
        BY HeldSeq DEF Held
  <1>2. /\ Head(batch[t]) \in ToSet(Held(t)) /\ Once(Tail(batch[t]))
        /\ \A x : x \in ToSet(Tail(batch[t])) <=>
                      x \in ToSet(Held(t)) /\ x # Head(batch[t])
        BY <1>1, TailHolds
  <1>3. Head(batch[t]) \in Mbufs
        BY HasOne DEF Typed
  <1>4. PICK k, a, b : AtMost(Head(batch[t]), k, a, b)
        BY <1>3 DEF PlacesInv, OnePlace
  <1>5. /\ Head(batch[t]) \notin free /\ Head(batch[t]) \notin rx
        /\ \A c \in Types : /\ Head(batch[t]) \notin ToSet(rx_q[c])
                            /\ Head(batch[t]) \in ToSet(Held(c)) => c = t
        /\ \A c, u \in Types : Head(batch[t]) \notin ToSet(rx_bufs[c][u])
        BY <1>2, <1>4 DEF AtMost
  <1>. QED BY <1>1, <1>2, <1>3, <1>5

LEMMA PlacesHand ==
    ASSUME Typed, PlacesInv, NEW t \in Types, Discard(t) \/ Hand(t)
    PROVE  PlacesInv'
  <1>0. PICK m, hold : m = Head(batch[t]) /\ hold = Tail(batch[t])
        OBVIOUS
  <1>1. step[t] \in {"look", "hand"} /\ batch[t] # <<>> /\ rx' = rx
        BY DEF Discard, Hand, HasPacket
  <1>2. /\ m \in ToSet(Held(t)) /\ m \in Mbufs /\ Held(t) = batch[t] /\ Once(hold)
        /\ \A x : x \in ToSet(hold) <=> x \in ToSet(Held(t)) /\ x # m
        /\ m \notin free /\ m \notin rx
        /\ \A c \in Types : /\ m \notin ToSet(rx_q[c])
                            /\ m \in ToSet(Held(c)) => c = t
        /\ \A c, u \in Types : m \notin ToSet(rx_bufs[c][u])
        BY <1>0, <1>1, HeadHeld
  <1>3. HandToNobody(t, m) \/ HandToNf(t, m) \/ HandToPort(t, m) \/ Discard(t)
        BY <1>0 DEF Hand
  <1>4. /\ HandToNobody(t, m) \/ HandToNf(t, m) \/ Discard(t) =>
              /\ Held(t)' = hold
              /\ step'[t] \in {"dst", "hand", "count"} => batch'[t] # <<>>
        /\ HandToPort(t, m) => Held(t)' = Held(t) /\ step'[t] = "crashed"
        /\ \A c \in Types \ {t} : /\ Held(c)' = Held(c)
                                  /\ step'[c] = step[c] /\ batch'[c] = batch[c]
    <2>1. step \in [Types -> {"poll", "look", "dst", "hand", "count", "crashed"}]
          BY DEF Typed, NfTypes
    <2>2. batch \in [Types -> Seq(Mbufs)]
          BY DEF Typed, NfTypes
    <2>3. ASSUME Discard(t)
          PROVE  /\ batch' = [batch EXCEPT ![t] = hold] /\ step' = step
                 /\ step[t] = "look" /\ rx_q' = rx_q
          BY <1>0, <2>3 DEF Discard, HasPacket
    <2>4. ASSUME Hand(t) PROVE batch' = batch /\ step[t] = "hand"
          BY <2>4 DEF Hand, HasPacket
    <2>5. ASSUME HandToNobody(t, m) \/ HandToNf(t, m)
          PROVE  step' = [step EXCEPT ![t] = "count"]
          BY <2>5 DEF HandToNobody, HandToNf
    <2>6. HandToPort(t, m) => step' = [step EXCEPT ![t] = "crashed"]
          BY DEF HandToPort
    <2>7. CASE Discard(t)
      <3>1. ~HandToPort(t, m)
            BY <2>1, <2>3, <2>6, <2>7
      <3>. QED BY <2>1, <2>2, <2>3, <2>7, <3>1 DEF Held
    <2>8. CASE Hand(t)
      <3>1. ~Discard(t) /\ batch' = batch /\ step[t] = "hand"
            BY <2>3, <2>4, <2>8
      <3>2. \E s \in {"count", "crashed"} : step' = [step EXCEPT ![t] = s]
            BY <1>3, <2>5, <2>6, <3>1
      <3>3. \A c \in Types \ {t} : Held(c)' = Held(c) /\ step'[c] = step[c]
            BY <2>1, <3>1, <3>2 DEF Held
      <3>4. HandToNobody(t, m) \/ HandToNf(t, m) =>
                Held(t)' = hold /\ batch'[t] # <<>>
            BY <1>0, <1>1, <2>1, <2>5, <3>1 DEF Held
      <3>5. HandToPort(t, m) => Held(t)' = Held(t) /\ step'[t] = "crashed"
            BY <2>1, <2>6, <3>1 DEF Held
      <3>. QED BY <3>1, <3>3, <3>4, <3>5
    <2>. QED BY <2>7, <2>8
  <1>5. CASE HandToPort(t, m)
        BY <1>1, <1>4, <1>5, PlacesStay DEF HandToPort, PlacesInv
  <1>6. CASE HandToNobody(t, m) \/ Discard(t)
    <2>1. free' = free \cup {m} /\ UNCHANGED <<rx_q, rx_bufs>>
          BY <1>0, <1>6 DEF HandToNobody, Discard
    <2>2. ASSUME NEW n \in Mbufs, n # m PROVE OnePlace(n)'
      <3>1. Loses(n)
            BY <1>1, <1>2, <1>4, <1>6, <2>1, <2>2 DEF Loses
      <3>. QED BY <3>1, Stays DEF PlacesInv
    <2>3. OnePlace(m)'
      <3>1. \A c \in Types : m \notin ToSet(Held(c)')
            BY <1>2, <1>4, <1>6
      <3>2. AtMost(m, "free", t, t)'
            BY <1>1, <1>2, <2>1, <3>1 DEF AtMost
      <3>. QED BY <3>2 DEF OnePlace
    <2>4. AllOnce'
          BY <1>2, <1>4, <1>6, <2>1 DEF PlacesInv, AllOnce
    <2>. QED BY <1>1, <1>4, <1>6, <2>2, <2>3, <2>4 DEF PlacesInv
  <1>7. CASE HandToNf(t, m)
    <2>0. PICK u, buf : u = meta[m].dst /\ buf = Append(rx_bufs[t][u], m)
          OBVIOUS
    <2>1. u \in Types /\ rx_bufs[t][u] \in Seq(Mbufs) /\ Once(rx_bufs[t][u])
          BY <1>7, <2>0, HeldSeq DEF HandToNf
    <2>2. /\ buf \in Seq(Mbufs) /\ Once(buf)
          /\ \A x : x \in ToSet(buf) <=> x \in ToSet(rx_bufs[t][u]) \/ x = m
          BY <1>2, <2>0, <2>1, AppendHolds
    <2>3. \/ /\ rx_q' = [rx_q EXCEPT ![u] = @ \o buf]
             /\ rx_bufs' = [rx_bufs EXCEPT ![t][u] = <<>>]
          \/ /\ rx_bufs' = [rx_bufs EXCEPT ![t][u] = buf]
             /\ rx_q' = rx_q
          BY <1>7, <2>0 DEF HandToNf
    <2>4. free' = free
          BY <1>7 DEF HandToNf
    <2>5. ToSet(<<>>) = {} /\ Once(<<>>)
          BY DEF ToSet, Once
    <2>6. CASE /\ rx_q' = [rx_q EXCEPT ![u] = @ \o buf]
               /\ rx_bufs' = [rx_bufs EXCEPT ![t][u] = <<>>]
      <3>1. /\ rx_q[u] \in Seq(Mbufs) /\ Once(rx_q[u]) /\ ToSet(rx_q[u]) \subseteq Mbufs
            BY <2>1, HeldSeq
      <3>2. ASSUME NEW x \in ToSet(rx_q[u]) PROVE x \notin ToSet(buf)
        <4>1. PICK k, a, b : AtMost(x, k, a, b)
              BY <3>1 DEF PlacesInv, OnePlace
        <4>. QED BY <1>2, <2>1, <2>2, <3>2, <4>1 DEF AtMost
      <3>3. /\ \A x : x \in ToSet(rx_q[u] \o buf) <=> x \in ToSet(rx_q[u]) \/ x \in ToSet(buf)
            /\ Once(rx_q[u] \o buf)
            BY <2>2, <3>1, <3>2, ConcatHolds
      <3>4. /\ rx_q'[u] = rx_q[u] \o buf
            /\ \A c \in Types \ {u} : rx_q'[c] = rx_q[c]
            /\ \A c, v \in Types : rx_bufs'[c][v] = IF c = t /\ v = u THEN <<>>
                                                    ELSE rx_bufs[c][v]
            BY <2>1, <2>6 DEF Typed, NfTypes, PlaceTypes
      <3>5. ASSUME NEW n \in Mbufs, n \in ToSet(buf) PROVE OnePlace(n)'
        <4>1. PICK k, a, b : AtMost(n, k, a, b)
              BY DEF PlacesInv, OnePlace
        <4>2. /\ n \notin free /\ n \notin rx
              /\ \A c \in Types : /\ n \notin ToSet(rx_q[c])
                                  /\ n \in ToSet(Held(c)) => c = t /\ n = m
              /\ \A c, v \in Types : n \in ToSet(rx_bufs[c][v]) => c = t /\ v = u
              BY <1>2, <2>1, <2>2, <3>5, <4>1 DEF AtMost
        <4>3. /\ \A c \in Types : /\ n \in ToSet(rx_q'[c]) => c = u
                                  /\ n \notin ToSet(Held(c)')
              /\ \A c, v \in Types : n \notin ToSet(rx_bufs'[c][v])
              BY <1>2, <1>4, <1>7, <2>5, <3>3, <3>4, <4>2
        <4>4. AtMost(n, "rx_q", u, u)'
              BY <1>1, <2>4, <4>2, <4>3 DEF AtMost
        <4>. QED BY <4>4 DEF OnePlace
      <3>6. ASSUME NEW n \in Mbufs, n \notin ToSet(buf) PROVE OnePlace(n)'
        <4>1. Loses(n)
              BY <1>1, <1>2, <1>4, <1>7, <2>4, <2>5, <3>3, <3>4, <3>6 DEF Loses
        <4>. QED BY <4>1, Stays DEF PlacesInv
      <3>7. AllOnce'
        <4>1. \A c \in Types : Once(Held(c)')
              BY <1>2, <1>4, <1>7 DEF PlacesInv, AllOnce
        <4>2. \A c \in Types : Once(rx_q'[c])
              BY <3>3, <3>4 DEF PlacesInv, AllOnce
        <4>3. \A c, v \in Types : Once(rx_bufs'[c][v])
              BY <2>5, <3>4 DEF PlacesInv, AllOnce
        <4>. QED BY <4>1, <4>2, <4>3 DEF AllOnce
      <3>. QED BY <1>1, <1>4, <1>7, <3>5, <3>6, <3>7 DEF PlacesInv
    <2>7. CASE rx_bufs' = [rx_bufs EXCEPT ![t][u] = buf] /\ rx_q' = rx_q
      <3>1. \A c, v \in Types : rx_bufs'[c][v] = IF c = t /\ v = u THEN buf
                                                 ELSE rx_bufs[c][v]
            BY <2>1, <2>7 DEF Typed, NfTypes
      <3>2. OnePlace(m)'
        <4>1. /\ \A c \in Types : m \notin ToSet(Held(c)')
              /\ \A c, v \in Types : m \in ToSet(rx_bufs'[c][v]) => c = t /\ v = u
              BY <1>2, <1>4, <1>7, <3>1
        <4>2. AtMost(m, "rx_bufs", t, u)'
              BY <1>1, <1>2, <2>4, <2>7, <4>1 DEF AtMost
        <4>. QED BY <4>2 DEF OnePlace
      <3>3. ASSUME NEW n \in Mbufs, n # m PROVE OnePlace(n)'
        <4>1. Loses(n)
              BY <1>1, <1>2, <1>4, <1>7, <2>2, <2>4, <2>7, <3>1, <3>3 DEF Loses
        <4>. QED BY <4>1, Stays DEF PlacesInv
      <3>4. AllOnce'
            BY <1>2, <1>4, <1>7, <2>2, <2>7, <3>1 DEF PlacesInv, AllOnce
      <3>. QED BY <1>1, <1>4, <1>7, <3>2, <3>3, <3>4 DEF PlacesInv
    <2>. QED BY <2>3, <2>6, <2>7
  <1>. QED BY <1>3, <1>5, <1>6, <1>7

(* Every step keeps an mbuf in one place at most. *)
LEMMA PlacesNf ==
    ASSUME Typed, PlacesInv, NEW t \in Types, Nf(t)
    PROVE  PlacesInv'
  <1>1. CASE Look(t) \/ LookDst(t)
    <2>1. /\ UNCHANGED <<free, rx, rx_q, rx_bufs, batch>> /\ batch[t] # <<>>
          /\ step[t] \in {"look", "dst"}
          /\ \E s \in {"crashed", "dst", "hand"} : step' = [step EXCEPT ![t] = s]
          BY <1>1 DEF Look, LookDst, HasPacket
    <2>2. \A c \in Types : /\ Held(c)' = Held(c)
                           /\ step'[c] \in {"dst", "hand", "count"} => batch'[c] # <<>>
          BY <2>1 DEF Held, Typed, NfTypes, PlacesInv
    <2>. QED BY <2>1, <2>2, PlacesStay
  <1>2. CASE Count(t)
    <2>1. /\ UNCHANGED <<free, rx, rx_q, rx_bufs>> /\ step[t] = "count"
          /\ step' = [step EXCEPT ![t] = "look"]
          /\ batch' = [batch EXCEPT ![t] = Tail(@)]
          BY <1>2 DEF Count, HasPacket
    <2>2. \A c \in Types : /\ Held(c)' = Held(c)
                           /\ step'[c] \in {"dst", "hand", "count"} => batch'[c] # <<>>
          BY <2>1 DEF Held, Typed, NfTypes, PlacesInv
    <2>. QED BY <2>1, <2>2, PlacesStay
  <1>. QED BY <1>1, <1>2, PlacesPoll, PlacesFlush, PlacesHand DEF Nf

LEMMA PlacesNext == Typed /\ PlacesInv /\ [Next]_vars => PlacesInv'
  <1>1. ASSUME PlacesInv, MergeEntry \/ UNCHANGED vars PROVE PlacesInv'
    <2>1. UNCHANGED <<free, rx, rx_q, step, batch, rx_bufs>>
          BY <1>1 DEF MergeEntry, vars, nfVars
    <2>2. \A c \in Types : /\ Held(c)' = Held(c)
                           /\ step'[c] \in {"dst", "hand", "count"} => batch'[c] # <<>>
          BY <1>1, <2>1 DEF Held, PlacesInv
    <2>. QED BY <1>1, <2>1, <2>2, PlacesStay
  <1>. QED BY <1>1, PlacesRx, PlacesNf DEF Next

-----------------------------------------------------------------------------
LEMMA RxNext == RxInv /\ [Next]_vars => RxInv'
  BY DEF RxInv, Next, MergeEntry, Rx, RxAct, RxDst, RxIndex, RxHand, Arrive, Nf, Poll,
         Discard, Look, LookDst, Hand, Count, Flush, vars

(* The NFs that are to count a packet are some of all. *)
LEMMA CountingIs ==
    ASSUME NEW m
    PROVE  /\ Cardinality(Counting(m)) \in Nat
           /\ Cardinality(Counting(m)) <= Cardinality(Types)
           /\ \A t \in Types \ Counting(m) :
                 /\ Cardinality(Counting(m)) + 1 <= Cardinality(Types)
                 /\ Cardinality(Counting(m) \cup {t}) = Cardinality(Counting(m)) + 1
           /\ \A t \in Counting(m) :
                 Cardinality(Counting(m) \ {t}) = Cardinality(Counting(m)) - 1
  <1>1. Counting(m) \subseteq Types /\ IsFiniteSet(Types)
        BY ChainAssumption DEF Counting
  <1>2. IsFiniteSet(Counting(m)) /\ Cardinality(Counting(m)) <= Cardinality(Types)
        BY <1>1, FS_Subset
  <1>3. Cardinality(Counting(m)) \in Nat
        BY <1>2, FS_CardinalityType
  <1>4. ASSUME NEW t \in Types \ Counting(m)
        PROVE  /\ Cardinality(Counting(m)) + 1 <= Cardinality(Types)
               /\ Cardinality(Counting(m) \cup {t}) = Cardinality(Counting(m)) + 1
    <2>1. Cardinality(Counting(m) \cup {t}) = Cardinality(Counting(m)) + 1
          BY <1>2, FS_AddElement
    <2>2. Cardinality(Counting(m) \cup {t}) <= Cardinality(Types)
          BY <1>1, FS_Subset
    <2>. QED BY <2>1, <2>2
  <1>5. \A t \in Counting(m) : Cardinality(Counting(m) \ {t}) = Cardinality(Counting(m)) - 1
        BY <1>2, FS_RemoveElement
  <1>. QED BY <1>2, <1>3, <1>4, <1>5

(* The counts are numbers. *)
LEMMA CountsType ==
    ASSUME Typed, NEW m \in Mbufs
    PROVE  /\ Counts(m) \in Nat /\ meta[m].sc_index \in Nat
           /\ Counts(m) = meta[m].sc_index + Cardinality(Counting(m))
           /\ Len(Chain) \in Nat /\ Len(Chain) >= 1
           /\ Cardinality(Types) \in Nat /\ Cardinality(Types) >= 1
  <1>1. meta[m].sc_index \in Nat
        BY DEF Typed, PktTypes, Metas
  <1>2. Len(Chain) \in Nat /\ Len(Chain) >= 1
        BY ChainIs
  <1>. QED BY <1>1, <1>2, CountingIs, ConstFacts DEF Counts

(* A step in which no NF comes to be about to count, or has counted. *)
LEMMA CountingStays ==
    ASSUME \A t \in Types : \/ step'[t] = step[t] /\ batch'[t] = batch[t]
                            \/ step'[t] # "count" /\ step[t] # "count"
    PROVE  \A m : Counting(m)' = Counting(m)
  <1>1. SUFFICES ASSUME NEW m PROVE Counting(m)' = Counting(m)
        OBVIOUS
  <1>2. \A t \in Types : step'[t] = "count" /\ Head(batch'[t]) = m
                     <=> step[t] = "count" /\ Head(batch[t]) = m
        OBVIOUS
  <1>. QED BY <1>2 DEF Counting

(* A step in which no count grows. *)
LEMMA CountStays ==
    ASSUME Typed, CountInv, free \subseteq free',
           \A m \in Mbufs : Counts(m)' = Counts(m),
           \/ rx' = {}
           \/ rx' = rx /\ (rx_step' = "hand" <=> rx_step = "hand"),
           \A t \in Types : step'[t] = "hand" =>
               /\ step[t] = "hand" /\ batch'[t] = batch[t]
               /\ Head(batch[t]) \in Mbufs
               /\ meta'[Head(batch[t])].dst = meta[Head(batch[t])].dst
    PROVE  CountInv'
  <1>1. \A m \in Mbufs : Counts(m)' <= Len(Chain) + Cardinality(Types) + 1
        BY DEF CountInv
  <1>2. \A m \in Mbufs \ free' : Counts(m)' <= Len(Chain) + Cardinality(Types)
        BY DEF CountInv
  <1>3. \A m \in rx' : Counts(m)' <= Cardinality(Types) + (IF rx_step' = "hand" THEN 1 ELSE 0)
        BY DEF CountInv, Typed, PlaceTypes
  <1>4. ASSUME NEW t \in Types, step'[t] = "hand", meta'[Head(batch'[t])].dst \in Types
        PROVE  Counts(Head(batch[t]))' <= Len(Chain) + Cardinality(Types) - 2
    <2>1. Counts(Head(batch[t])) <= Len(Chain) + Cardinality(Types) - 2
          BY <1>4 DEF CountInv
    <2>. QED BY <1>4, <2>1
  <1>. QED BY <1>1, <1>2, <1>3, <1>4 DEF CountInv

(* The act or the dst of a packet is read: its index stays. *)
LEMMA ReadIs ==
    ASSUME Typed, NEW m \in Mbufs, ReadAct(m) \/ ReadDst(m)
    PROVE  /\ \A n \in Mbufs : meta'[n].sc_index = meta[n].sc_index
           /\ \A n \in Mbufs \ {m} : meta'[n] = meta[n]
           /\ ReadAct(m) => meta'[m].dst = meta[m].dst
           /\ ReadDst(m) => meta'[m].dst = NextEntry(m).dst
  <1>1. meta \in [Mbufs -> Metas]
        BY DEF Typed, PktTypes
  <1>2. meta[m] \in Metas
        BY <1>1
  <1>3. PICK e : e = NextEntry(m)
        OBVIOUS
  <1>4. CASE ReadAct(m)
    <2>1. meta' = [meta EXCEPT ![m] = [meta[m] EXCEPT !.act = e.act]]
          BY <1>3, <1>4 DEF ReadAct
    <2>2. /\ [meta[m] EXCEPT !.act = e.act].sc_index = meta[m].sc_index
          /\ [meta[m] EXCEPT !.act = e.act].dst = meta[m].dst
          BY <1>2 DEF Metas
    <2>3. ReadDst(m) => meta'[m].dst = e.dst
      <3>1. [meta[m] EXCEPT !.dst = e.dst].dst = e.dst
            BY <1>2 DEF Metas
      <3>. QED BY <1>1, <1>3, <3>1 DEF ReadDst
    <2>. QED BY <1>1, <1>3, <2>1, <2>2, <2>3
  <1>5. CASE ReadDst(m)
    <2>1. meta' = [meta EXCEPT ![m] = [meta[m] EXCEPT !.dst = e.dst]]
          BY <1>3, <1>5 DEF ReadDst
    <2>2. /\ [meta[m] EXCEPT !.dst = e.dst].sc_index = meta[m].sc_index
          /\ [meta[m] EXCEPT !.dst = e.dst].dst = e.dst
          BY <1>2 DEF Metas
    <2>3. ReadAct(m) => meta'[m].dst = meta[m].dst
      <3>1. [meta[m] EXCEPT !.act = e.act].dst = meta[m].dst
            BY <1>2 DEF Metas
      <3>. QED BY <1>1, <1>3, <3>1 DEF ReadAct
    <2>. QED BY <1>1, <1>3, <2>1, <2>2, <2>3
  <1>. QED BY <1>4, <1>5

(* The packet that a thread has, and no NF is to hand on. *)
LEMMA RxNotHeld ==
    ASSUME Typed, PlacesInv, NEW m \in rx, NEW t \in Types, step[t] = "hand"
    PROVE  m \in Mbufs /\ Head(batch[t]) \in Mbufs /\ Head(batch[t]) # m
  <1>1. batch[t] # <<>>
        BY DEF PlacesInv
  <1>. QED BY <1>1, HeadHeld DEF Typed, PlaceTypes

(* No packet is counted more often than it may be. *)
LEMMA CountArrive ==
    ASSUME Typed, PlacesInv, RxInv, CountInv,
           NEW m \in Mbufs, NEW is_ipv4 \in BOOLEAN, Arrive(m, is_ipv4)
    PROVE  CountInv'
  <1>1. /\ rx = {} /\ rx' = {m} /\ free' = free \ {m} /\ rx_step' = rx_step
        /\ rx_step = "act" /\ UNCHANGED <<step, batch>> /\ m \in free
        BY DEF Arrive, RxInv, nfVars
  <1>2. \A n : Counting(n)' = Counting(n)
        BY <1>1, CountingStays
  <1>3. /\ meta'[m].sc_index = 0 /\ \A n \in Mbufs \ {m} : meta'[n] = meta[n]
        /\ \A n \in Mbufs : meta'[n].dst = meta[n].dst
    <2>1. meta' = [meta EXCEPT ![m] = [meta[m] EXCEPT !.sc_index = 0]]
          BY DEF Arrive
    <2>2. meta \in [Mbufs -> Metas] /\ meta[m] \in Metas
          BY DEF Typed, PktTypes
    <2>3. /\ [meta[m] EXCEPT !.sc_index = 0].sc_index = 0
          /\ [meta[m] EXCEPT !.sc_index = 0].dst = meta[m].dst
          BY <2>2 DEF Metas
    <2>. QED BY <2>1, <2>2, <2>3
  <1>4. \A n \in Mbufs \ {m} : Counts(n)' = Counts(n)
        BY <1>2, <1>3 DEF Counts
  <1>5. Counts(m)' <= Cardinality(Types) /\ Counts(m)' \in Nat
        BY <1>2, <1>3, CountingIs DEF Counts
  <1>6. Len(Chain) \in Nat /\ Cardinality(Types) \in Nat
        BY CountsType
  <1>7. \A n \in Mbufs : Counts(n)' <= Len(Chain) + Cardinality(Types) + 1
        BY <1>4, <1>5, <1>6 DEF CountInv
  <1>8. \A n \in Mbufs \ free' : Counts(n)' <= Len(Chain) + Cardinality(Types)
        BY <1>1, <1>4, <1>5, <1>6 DEF CountInv
  <1>9. \A n \in rx' : Counts(n)' <= Cardinality(Types) + (IF rx_step' = "hand" THEN 1 ELSE 0)
        BY <1>1, <1>5, <1>6
  <1>10. ASSUME NEW t \in Types, step'[t] = "hand", meta'[Head(batch'[t])].dst \in Types
         PROVE  Counts(Head(batch[t]))' <= Len(Chain) + Cardinality(Types) - 2
    <2>1. PICK h : h = Head(batch[t])
          OBVIOUS
    <2>2. h \in Mbufs /\ h # m
          BY <1>1, <1>10, <2>1, HeadHeld DEF PlacesInv
    <2>3. Counts(h) <= Len(Chain) + Cardinality(Types) - 2
          BY <1>1, <1>3, <1>10, <2>1, <2>2 DEF CountInv
    <2>4. Head(batch'[t]) = h
          BY <1>1, <2>1
    <2>. QED BY <1>4, <2>2, <2>3, <2>4
  <1>. QED BY <1>7, <1>8, <1>9, <1>10 DEF CountInv

LEMMA CountRx ==
    ASSUME Typed, PlacesInv, CountInv, Rx
    PROVE  CountInv'
  <1>1. UNCHANGED <<step, batch>> /\ free \subseteq free'
        BY DEF Rx, RxAct, RxDst, RxIndex, RxHand, nfVars
  <1>2. \A n : Counting(n)' = Counting(n)
        BY <1>1, CountingStays
  <1>3. CASE RxAct \/ RxDst
    <2>1. PICK m \in rx : ReadAct(m) \/ ReadDst(m)
          BY <1>3 DEF RxAct, RxDst
    <2>2. m \in Mbufs
          BY DEF Typed, PlaceTypes
    <2>3. /\ \A n \in Mbufs : meta'[n].sc_index = meta[n].sc_index
          /\ \A n \in Mbufs \ {m} : meta'[n] = meta[n]
          BY <2>1, <2>2, ReadIs
    <2>4. \A n \in Mbufs : Counts(n)' = Counts(n)
          BY <1>2, <2>3 DEF Counts
    <2>5. \A t \in Types : step'[t] = "hand" =>
              /\ step[t] = "hand" /\ batch'[t] = batch[t]
              /\ Head(batch[t]) \in Mbufs
              /\ meta'[Head(batch[t])].dst = meta[Head(batch[t])].dst
          BY <1>1, <2>3, RxNotHeld
    <2>6. rx' = rx /\ (rx_step' = "hand" <=> rx_step = "hand")
          BY <1>3 DEF RxAct, RxDst
    <2>. QED BY <1>1, <2>4, <2>5, <2>6, CountStays
  <1>4. CASE RxHand
    <2>1. rx' = {} /\ meta' = meta
          BY <1>4 DEF RxHand
    <2>2. \A n \in Mbufs : Counts(n)' = Counts(n)
          BY <1>2, <2>1 DEF Counts
    <2>3. \A t \in Types : step'[t] = "hand" =>
              /\ step[t] = "hand" /\ batch'[t] = batch[t]
              /\ Head(batch[t]) \in Mbufs
              /\ meta'[Head(batch[t])].dst = meta[Head(batch[t])].dst
          BY <1>1, <2>1, HeadHeld DEF PlacesInv
    <2>. QED BY <1>1, <2>1, <2>2, <2>3, CountStays
  <1>5. CASE RxIndex
    <2>1. PICK m \in rx : meta' = [meta EXCEPT ![m].sc_index = @ + 1]
          BY <1>5 DEF RxIndex
    <2>2. m \in Mbufs /\ rx' = rx /\ rx_step = "index" /\ rx_step' = "hand" /\ free' = free
          BY <1>5 DEF RxIndex, Typed, PlaceTypes
    <2>3. \A n \in rx' : n = m
          BY <2>2 DEF PlacesInv
    <2>4. /\ \A n \in Mbufs : /\ meta'[n].dst = meta[n].dst
                              /\ n # m => meta'[n] = meta[n]
          /\ meta'[m].sc_index = meta[m].sc_index + 1
          BY <2>1, <2>2, RaiseTypes DEF Typed
    <2>5. \A n \in Mbufs \ {m} : Counts(n)' = Counts(n)
          BY <1>2, <2>4 DEF Counts
    <2>6. /\ Counts(m)' = Counts(m) + 1
          /\ Len(Chain) \in Nat /\ Len(Chain) >= 1 /\ Cardinality(Types) \in Nat
          /\ Counts(m) \in Nat /\ Counts(m) <= Cardinality(Types)
      <3>1. Counts(m) <= Cardinality(Types)
            BY <2>2, ConstFacts DEF CountInv
      <3>2. Counts(m)' = meta'[m].sc_index + Cardinality(Counting(m))
            BY <1>2 DEF Counts
      <3>. QED BY <2>2, <2>4, <3>1, <3>2, CountsType, CountingIs
    <2>7. \A n \in Mbufs : Counts(n)' <= Len(Chain) + Cardinality(Types) + 1
          BY <2>5, <2>6 DEF CountInv
    <2>8. \A n \in Mbufs \ free' : Counts(n)' <= Len(Chain) + Cardinality(Types)
          BY <2>2, <2>5, <2>6 DEF CountInv
    <2>9. \A n \in rx' : Counts(n)' <= Cardinality(Types) + (IF rx_step' = "hand" THEN 1 ELSE 0)
          BY <2>2, <2>3, <2>6
    <2>10. ASSUME NEW t \in Types, step'[t] = "hand", meta'[Head(batch'[t])].dst \in Types
           PROVE  Counts(Head(batch[t]))' <= Len(Chain) + Cardinality(Types) - 2
      <3>1. PICK h : h = Head(batch[t])
            OBVIOUS
      <3>2. h \in Mbufs /\ h # m
            BY <1>1, <2>10, <3>1, RxNotHeld
      <3>3. Counts(h) <= Len(Chain) + Cardinality(Types) - 2
            BY <1>1, <2>4, <2>10, <3>1, <3>2 DEF CountInv
      <3>4. Head(batch'[t]) = h
            BY <1>1, <3>1
      <3>. QED BY <2>5, <3>2, <3>3, <3>4
    <2>. QED BY <2>7, <2>8, <2>9, <2>10 DEF CountInv
  <1>. QED BY <1>3, <1>4, <1>5 DEF Rx

(* An NF that does not hand on, or hands on to a port. *)
LEMMA CountQuiet ==
    ASSUME Typed, PlacesInv, CountInv, NEW t \in Types,
           \/ Poll(t) \/ Discard(t) \/ Look(t) \/ Flush(t)
           \/ Hand(t) /\ HandToPort(t, Head(batch[t]))
    PROVE  CountInv'
  <1>1. /\ step[t] # "count" /\ free \subseteq free' /\ rx' = rx /\ rx_step' = rx_step
        BY DEF Poll, Discard, Look, Flush, Hand, HandToPort, HasPacket
  <1>2. /\ \E s \in {"poll", "look", "dst", "crashed"} :
                step' = [step EXCEPT ![t] = s] \/ (step' = step /\ step[t] = s)
        /\ \E b : batch' = [batch EXCEPT ![t] = b] \/ batch' = batch
        BY DEF Poll, Discard, Look, Flush, Hand, HandToPort, HasPacket
  <1>3. /\ step'[t] \in {"poll", "look", "dst", "crashed"}
        /\ \A c \in Types \ {t} : step'[c] = step[c] /\ batch'[c] = batch[c]
        BY <1>2 DEF Typed, NfTypes
  <1>4. \A n : Counting(n)' = Counting(n)
        BY <1>1, <1>3, CountingStays
  <1>5. \A n \in Mbufs : /\ meta'[n].sc_index = meta[n].sc_index
                         /\ meta'[n].dst = meta[n].dst
    <2>1. CASE Poll(t)
      <3>1. PICK burst, rest \in Seq(Mbufs) : PollBurst(t, burst, rest)
            BY <2>1, PollIs DEF Typed
      <3>2. PICK act : meta' = [m \in Mbufs |-> IF m \in ToSet(burst)
                                     THEN [meta[m] EXCEPT !.act = act[m]] ELSE meta[m]]
            BY <3>1 DEF PollBurst
      <3>3. \A n \in Mbufs : meta[n] \in Metas
            BY DEF Typed, PktTypes
      <3>. QED BY <3>2, <3>3 DEF Metas
    <2>2. CASE Look(t)
      <3>1. Head(batch[t]) \in Mbufs
            BY <2>2, HeadHeld DEF Look, HasPacket
      <3>2. meta' = meta \/ ReadAct(Head(batch[t]))
            BY <2>2 DEF Look
      <3>. QED BY <3>1, <3>2, ReadIs
    <2>. QED BY <2>1, <2>2 DEF Discard, Flush, Hand
  <1>6. \A n \in Mbufs : Counts(n)' = Counts(n)
        BY <1>4, <1>5 DEF Counts
  <1>7. \A c \in Types : step'[c] = "hand" =>
              /\ step[c] = "hand" /\ batch'[c] = batch[c]
              /\ Head(batch[c]) \in Mbufs
              /\ meta'[Head(batch[c])].dst = meta[Head(batch[c])].dst
        BY <1>3, <1>5, HeadHeld DEF PlacesInv
  <1>. QED BY <1>1, <1>6, <1>7, CountStays

(* An NF reads where a packet goes: its index is one of the chain if it goes to
   an NF, and all other NFs at most are still to count it. *)
LEMMA CountLookDst ==
    ASSUME Typed, ChainInv, PlacesInv, CountInv, NEW t \in Types, LookDst(t)
    PROVE  CountInv'
  <1>0. PICK m : m = Head(batch[t])
        OBVIOUS
  <1>1. /\ step[t] = "dst" /\ batch[t] # <<>> /\ step' = [step EXCEPT ![t] = "hand"]
        /\ ReadDst(m) /\ UNCHANGED <<free, rx, rx_step, batch>>
        BY <1>0 DEF LookDst, HasPacket
  <1>2. m \in Mbufs /\ \A c \in Types : m \in ToSet(Held(c)) => c = t
        BY <1>0, <1>1, HeadHeld
  <1>3. /\ \A n \in Mbufs : meta'[n].sc_index = meta[n].sc_index
        /\ \A n \in Mbufs \ {m} : meta'[n] = meta[n]
        /\ meta'[m].dst = NextEntry(m).dst
        BY <1>1, <1>2, ReadIs
  <1>4. /\ step'[t] = "hand" /\ \A c \in Types \ {t} : step'[c] = step[c]
        BY <1>1 DEF Typed, NfTypes
  <1>5. \A n : Counting(n)' = Counting(n)
        BY <1>1, <1>4, CountingStays
  <1>6. \A n \in Mbufs : Counts(n)' = Counts(n)
        BY <1>3, <1>5 DEF Counts
  <1>7. ASSUME NEW c \in Types, step'[c] = "hand", meta'[Head(batch'[c])].dst \in Types
        PROVE  Counts(Head(batch[c]))' <= Len(Chain) + Cardinality(Types) - 2
    <2>1. PICK h : h = Head(batch[c]) /\ Head(batch'[c]) = h
          BY <1>1
    <2>2. CASE c = t
      <3>1. meta[m].sc_index < sc_len /\ sc_len <= Len(Chain) /\ sc_len \in Nat
        <4>1. meta'[m].dst # 0
              BY <1>0, <1>7, <2>1, <2>2, ConstFacts
        <4>. QED BY <1>2, <1>3, <4>1, EntryType DEF Typed
      <3>2. t \notin Counting(m)
            BY <1>1 DEF Counting
      <3>3. Cardinality(Counting(m)) + 1 <= Cardinality(Types)
            BY <3>2, CountingIs
      <3>4. Counts(m) <= Len(Chain) + Cardinality(Types) - 2
            BY <1>2, <3>1, <3>3, CountsType, CountingIs
      <3>. QED BY <1>0, <1>2, <1>6, <2>1, <2>2, <3>4
    <2>3. CASE c # t
      <3>1. step[c] = "hand" /\ batch[c] # <<>>
            BY <1>4, <1>7, <2>3 DEF PlacesInv
      <3>2. h \in Mbufs /\ h # m
            BY <1>2, <2>1, <2>3, <3>1, HeadHeld
      <3>3. Counts(h) <= Len(Chain) + Cardinality(Types) - 2
            BY <1>3, <1>7, <2>1, <3>1, <3>2 DEF CountInv
      <3>. QED BY <1>6, <2>1, <3>2, <3>3
    <2>. QED BY <2>2, <2>3
  <1>8. \A n \in Mbufs : Counts(n)' <= Len(Chain) + Cardinality(Types) + 1
        BY <1>6 DEF CountInv
  <1>9. \A n \in Mbufs \ free' : Counts(n)' <= Len(Chain) + Cardinality(Types)
        BY <1>1, <1>6 DEF CountInv
  <1>10. \A n \in rx' : Counts(n)' <= Cardinality(Types) + (IF rx_step' = "hand" THEN 1 ELSE 0)
        BY <1>1, <1>6 DEF CountInv, Typed, PlaceTypes
  <1>. QED BY <1>7, <1>8, <1>9, <1>10 DEF CountInv

(* A packet that is handed on is still to be counted. *)
LEMMA CountHand ==
    ASSUME Typed, PlacesInv, CountInv, NEW t \in Types, Hand(t),
           ~HandToPort(t, Head(batch[t]))
    PROVE  CountInv'
  <1>0. PICK m : m = Head(batch[t])
        OBVIOUS
  <1>1. /\ step[t] = "hand" /\ batch[t] # <<>>
        /\ UNCHANGED <<meta, rx, rx_step, batch>>
        /\ HandToNobody(t, m) \/ HandToNf(t, m)
        BY <1>0 DEF Hand, HasPacket
  <1>2. /\ m \in Mbufs /\ m \notin rx /\ \A c \in Types : m \in ToSet(Held(c)) => c = t
        BY <1>0, <1>1, HeadHeld
  <1>3. step' = [step EXCEPT ![t] = "count"]
        BY <1>1 DEF HandToNobody, HandToNf
  <1>4. /\ step'[t] = "count" /\ \A c \in Types \ {t} : step'[c] = step[c]
        BY <1>3 DEF Typed, NfTypes
  <1>5. t \notin Counting(m) /\ Counting(m)' = Counting(m) \cup {t}
        BY <1>0, <1>1, <1>4 DEF Counting
  <1>6. \A n \in Mbufs \ {m} : Counting(n)' = Counting(n)
        BY <1>0, <1>1, <1>4 DEF Counting
  <1>7. \A n \in Mbufs \ {m} : Counts(n)' = Counts(n)
        BY <1>1, <1>6 DEF Counts
  <1>8. Counts(m)' = Counts(m) + 1 /\ Counts(m) \in Nat
    <2>1. Cardinality(Counting(m)') = Cardinality(Counting(m)) + 1
          BY <1>5, CountingIs
    <2>2. Counts(m)' = meta[m].sc_index + Cardinality(Counting(m)')
          BY <1>1 DEF Counts
    <2>3. /\ Counts(m) = meta[m].sc_index + Cardinality(Counting(m))
          /\ meta[m].sc_index \in Nat /\ Cardinality(Counting(m)) \in Nat
          BY <1>2, CountsType, CountingIs
    <2>. QED BY <2>1, <2>2, <2>3
  <1>9. Len(Chain) \in Nat /\ Cardinality(Types) \in Nat
        BY <1>2, CountsType
  <1>10. /\ Counts(m)' <= Len(Chain) + Cardinality(Types) + 1
         /\ m \notin free' => Counts(m)' <= Len(Chain) + Cardinality(Types)
    <2>1. CASE HandToNobody(t, m)
      <3>1. m \in free' /\ m \notin free
            BY <1>0, <1>1, <2>1, HeadHeld DEF HandToNobody
      <3>2. Counts(m) <= Len(Chain) + Cardinality(Types)
            BY <1>2, <3>1 DEF CountInv
      <3>. QED BY <1>8, <1>9, <3>1, <3>2
    <2>2. CASE HandToNf(t, m)
      <3>1. meta[m].dst \in Types
            BY <2>2 DEF HandToNf
      <3>2. Counts(m) <= Len(Chain) + Cardinality(Types) - 2
            BY <1>0, <1>1, <3>1 DEF CountInv
      <3>. QED BY <1>8, <1>9, <3>2
    <2>. QED BY <1>1, <2>1, <2>2
  <1>11. free \subseteq free'
        BY <1>1 DEF HandToNobody, HandToNf
  <1>12. ASSUME NEW c \in Types, step'[c] = "hand", meta'[Head(batch'[c])].dst \in Types
         PROVE  Counts(Head(batch[c]))' <= Len(Chain) + Cardinality(Types) - 2
    <2>1. PICK h : h = Head(batch[c]) /\ Head(batch'[c]) = h
          BY <1>1
    <2>2. c # t /\ step[c] = "hand" /\ batch[c] # <<>>
          BY <1>4, <1>12 DEF PlacesInv
    <2>3. h \in Mbufs /\ h # m
          BY <1>2, <2>1, <2>2, HeadHeld
    <2>4. Counts(h) <= Len(Chain) + Cardinality(Types) - 2
          BY <1>1, <1>12, <2>1, <2>2, <2>3 DEF CountInv
    <2>. QED BY <1>7, <2>1, <2>3, <2>4
  <1>13. \A n \in Mbufs : Counts(n)' <= Len(Chain) + Cardinality(Types) + 1
        BY <1>7, <1>10 DEF CountInv
  <1>14. \A n \in Mbufs \ free' : Counts(n)' <= Len(Chain) + Cardinality(Types)
        BY <1>7, <1>10, <1>11 DEF CountInv
  <1>15. \A n \in rx' : Counts(n)' <= Cardinality(Types) + (IF rx_step' = "hand" THEN 1 ELSE 0)
        BY <1>1, <1>2, <1>7 DEF CountInv, Typed, PlaceTypes
  <1>. QED BY <1>12, <1>13, <1>14, <1>15 DEF CountInv

(* What an NF counts is what it was to count. *)
LEMMA CountCount ==
    ASSUME Typed, PlacesInv, CountInv, NEW t \in Types, Count(t)
    PROVE  CountInv'
  <1>0. PICK m : m = Head(batch[t])
        OBVIOUS
  <1>1. /\ step[t] = "count" /\ batch[t] # <<>>
        /\ step' = [step EXCEPT ![t] = "look"]
        /\ batch' = [batch EXCEPT ![t] = Tail(@)]
        /\ meta' = [meta EXCEPT ![m].sc_index = @ + 1]
        /\ UNCHANGED <<free, rx, rx_step>>
        BY <1>0 DEF Count, HasPacket
  <1>2. m \in Mbufs
        BY <1>0, <1>1, HasOne DEF Typed
  <1>3. /\ \A n \in Mbufs : /\ meta'[n].dst = meta[n].dst
                            /\ n # m => meta'[n] = meta[n]
        /\ meta'[m].sc_index = meta[m].sc_index + 1
        BY <1>1, <1>2, RaiseTypes DEF Typed
  <1>4. /\ step'[t] = "look"
        /\ \A c \in Types \ {t} : step'[c] = step[c] /\ batch'[c] = batch[c]
        BY <1>1 DEF Typed, NfTypes
  <1>5. t \in Counting(m) /\ Counting(m)' = Counting(m) \ {t}
        BY <1>0, <1>1, <1>4 DEF Counting
  <1>6. \A n \in Mbufs \ {m} : Counting(n)' = Counting(n)
        BY <1>0, <1>1, <1>4 DEF Counting
  <1>7. \A n \in Mbufs : Counts(n)' = Counts(n)
    <2>1. Cardinality(Counting(m)') = Cardinality(Counting(m)) - 1
          BY <1>5, CountingIs
    <2>2. Counts(m)' = meta[m].sc_index + 1 + Cardinality(Counting(m)')
          BY <1>3 DEF Counts
    <2>3. Counts(m)' = Counts(m)
          BY <1>2, <2>1, <2>2, CountsType, CountingIs
    <2>4. \A n \in Mbufs \ {m} : Counts(n)' = Counts(n)
          BY <1>3, <1>6 DEF Counts
    <2>. QED BY <2>3, <2>4
  <1>8. \A c \in Types : step'[c] = "hand" =>
              /\ step[c] = "hand" /\ batch'[c] = batch[c]
              /\ Head(batch[c]) \in Mbufs
              /\ meta'[Head(batch[c])].dst = meta[Head(batch[c])].dst
        BY <1>3, <1>4, HeadHeld DEF PlacesInv
  <1>. QED BY <1>1, <1>7, <1>8, CountStays

LEMMA CountNext ==
    Typed /\ ChainInv /\ PlacesInv /\ RxInv /\ CountInv /\ [Next]_vars => CountInv'
  <1> SUFFICES ASSUME Typed, ChainInv, PlacesInv, RxInv, CountInv, [Next]_vars
               PROVE  CountInv'
      OBVIOUS
  <1>1. CASE MergeEntry \/ UNCHANGED vars
    <2>1. UNCHANGED <<meta, free, rx, rx_step, step, batch>>
          BY <1>1 DEF MergeEntry, vars, nfVars
    <2>2. \A n : Counting(n)' = Counting(n)
          BY <2>1, CountingStays
    <2>3. \A n \in Mbufs : Counts(n)' = Counts(n)
          BY <2>1, <2>2 DEF Counts
    <2>4. \A t \in Types : step'[t] = "hand" => Head(batch[t]) \in Mbufs
          BY <2>1, HeadHeld DEF PlacesInv
    <2>. QED BY <2>1, <2>3, <2>4, CountStays
  <1>2. ASSUME NEW t \in Types, Nf(t) PROVE CountInv'
        BY <1>2, CountQuiet, CountLookDst, CountHand, CountCount DEF Nf
  <1>. QED BY <1>1, <1>2, CountArrive, CountRx DEF Next

-----------------------------------------------------------------------------
(* A step that only takes packet m away, and keeps what is known of its way. *)
Same(m) ==
    /\ m \in free => m \in free'
    /\ m \in rx' => m \in rx /\ meta'[m].dst = meta[m].dst
    /\ m \in rx' => /\ rx_step' = "hand" <=> rx_step = "hand"
                    /\ rx_step' \in {"index", "hand"} => rx_step \in {"index", "hand"}
    /\ \A t \in Types : /\ m \in ToSet(rx_q'[t]) => m \in ToSet(rx_q[t])
                        /\ m \in ToSet(Held(t)') => m \in ToSet(Held(t))
                        /\ step'[t] = "hand" /\ m = Head(batch'[t]) =>
                              /\ step[t] = "hand" /\ m = Head(batch[t])
                              /\ meta'[m].dst = meta[m].dst
    /\ \A t, u \in Types : m \in ToSet(rx_bufs'[t][u]) =>
                              /\ m \in ToSet(rx_bufs[t][u])
                              /\ t \in Counting(m)' <=> t \in Counting(m)
    /\ visits'[m] = visits[m] /\ meta'[m].sc_index = meta[m].sc_index
LEMMA OrderStays == ASSUME NEW m, InOrder(m), Same(m) PROVE InOrder(m)'
  <1>1. Passed(m)' = Passed(m) /\ \A t : IsNext(m, t)' <=> IsNext(m, t)
        BY DEF Same, Passed, IsNext
  <1>2. m \notin free' => OnWay(m)'
        BY <1>1 DEF Same, InOrder, OnWay
  <1>3. m \in rx' =>
            /\ visits'[m] = <<>>
            /\ meta'[m].sc_index = IF rx_step' = "hand" THEN 1 ELSE 0
            /\ rx_step' \in {"index", "hand"} => meta'[m].dst = 1
        BY DEF Same, InOrder
  <1>4. \A t \in Types :
            /\ m \in ToSet(rx_q'[t]) =>
                  IsNext(m, t)' /\ meta'[m].sc_index = Passed(m)' + 1
            /\ m \in ToSet(Held(t)') => meta'[m].sc_index = Passed(m)'
        BY <1>1 DEF Same, InOrder
  <1>5. ASSUME NEW t \in Types, step'[t] = "hand", m = Head(batch'[t]),
               meta'[m].dst \in Types
        PROVE  IsNext(m, meta[m].dst)'
    <2>1. PICK u : u = meta[m].dst /\ u = meta'[m].dst
          BY <1>5 DEF Same
    <2>2. IsNext(m, u)
          BY <1>5, <2>1 DEF Same, InOrder
    <2>. QED BY <1>1, <2>1, <2>2
  <1>6. \A t, u \in Types :
            m \in ToSet(rx_bufs'[t][u]) =>
                /\ IsNext(m, u)'
                /\ meta'[m].sc_index = Passed(m)' + (IF t \in Counting(m)' THEN 0 ELSE 1)
        BY <1>1 DEF Same, InOrder
  <1>. QED BY <1>2, <1>3, <1>4, <1>5, <1>6 DEF InOrder

(* The RX thread sets a packet on the way that the first entry tells. *)
LEMMA OrderArrive ==
    ASSUME Typed, PlacesInv, RxInv, OrderInv,
           NEW m \in Mbufs, NEW is_ipv4 \in BOOLEAN, Arrive(m, is_ipv4)
    PROVE  OrderInv'
  <1>1. /\ rx = {} /\ rx' = {m} /\ free' = free \ {m} /\ rx_step' = rx_step
        /\ rx_step = "act" /\ m \in free /\ raced' = raced \ {m}
        /\ UNCHANGED <<step, batch, rx_bufs, rx_q>>
        BY DEF Arrive, RxInv, nfVars
  <1>2. /\ \A n : Counting(n)' = Counting(n)
        /\ \A t \in Types : Held(t)' = Held(t)
        BY <1>1, CountingStays DEF Held
  <1>3. /\ meta'[m].sc_index = 0 /\ \A n \in Mbufs \ {m} : meta'[n] = meta[n]
    <2>1. meta' = [meta EXCEPT ![m] = [meta[m] EXCEPT !.sc_index = 0]]
          BY DEF Arrive
    <2>2. meta \in [Mbufs -> Metas] /\ meta[m] \in Metas
          BY DEF Typed, PktTypes
    <2>3. [meta[m] EXCEPT !.sc_index = 0].sc_index = 0
          BY <2>2 DEF Metas
    <2>. QED BY <2>1, <2>2, <2>3
  <1>4. visits'[m] = <<>> /\ \A n \in Mbufs \ {m} : visits'[n] = visits[n]
        BY DEF Arrive, Typed, PktTypes
  <1>5. ASSUME NEW n \in Mbufs \ raced', n # m PROVE InOrder(n)'
    <2>1. InOrder(n)
          BY <1>1, <1>5 DEF OrderInv
    <2>2. Same(n)
          BY <1>1, <1>2, <1>3, <1>4, <1>5 DEF Same
    <2>. QED BY <2>1, <2>2, OrderStays
  <1>6. InOrder(m)'
    <2>1. PICK k, a, b : AtMost(m, k, a, b)
          BY DEF PlacesInv, OnePlace
    <2>2. /\ \A t \in Types : m \notin ToSet(rx_q'[t]) /\ m \notin ToSet(Held(t)')
          /\ \A t, u \in Types : m \notin ToSet(rx_bufs'[t][u])
          BY <1>1, <1>2, <2>1 DEF AtMost
    <2>3. \A t \in Types : step'[t] = "hand" => m # Head(batch'[t])
          BY <1>1, HeadHeld DEF PlacesInv
    <2>4. OnWay(m)'
          BY <1>4, ChainIs DEF OnWay, Passed
    <2>. QED BY <1>1, <1>3, <1>4, <2>2, <2>3, <2>4 DEF InOrder
  <1>. QED BY <1>5, <1>6 DEF OrderInv

LEMMA OrderRx ==
    ASSUME Typed, ChainInv, PlacesInv, OrderInv, Rx
    PROVE  OrderInv'
  <1>1. UNCHANGED <<step, batch, rx_bufs, visits, raced>> /\ rx # {} /\ free \subseteq free'
        BY DEF Rx, RxAct, RxDst, RxIndex, RxHand, nfVars
  <1>2. /\ \A n : Counting(n)' = Counting(n)
        /\ \A t \in Types : Held(t)' = Held(t)
        BY <1>1, CountingStays DEF Held
  <1>3. PICK m \in rx : TRUE
        BY <1>1
  <1>4. m \in Mbufs /\ \A n \in rx : n = m
        BY DEF Typed, PlaceTypes, PlacesInv
  <1>5. /\ m \notin free
        /\ \A t \in Types : m \notin ToSet(rx_q[t]) /\ m \notin ToSet(Held(t))
        /\ \A t, u \in Types : m \notin ToSet(rx_bufs[t][u])
    <2>1. PICK k, a, b : AtMost(m, k, a, b)
          BY <1>4 DEF PlacesInv, OnePlace
    <2>. QED BY <2>1 DEF AtMost
  <1>6. \A t \in Types : step[t] = "hand" => m # Head(batch[t])
        BY RxNotHeld
  <1>7. CASE RxAct
    <2>1. ReadAct(m) /\ UNCHANGED <<free, rx, rx_q>> /\ rx_step = "act" /\ rx_step' = "dst"
          BY <1>4, <1>7 DEF RxAct
    <2>2. /\ \A n \in Mbufs : meta'[n].sc_index = meta[n].sc_index
          /\ \A n \in Mbufs : meta'[n].dst = meta[n].dst
          BY <1>4, <2>1, ReadIs
    <2>3. \A n \in Mbufs : Same(n)
          BY <1>1, <1>2, <2>1, <2>2 DEF Same
    <2>. QED BY <1>1, <2>3, OrderStays DEF OrderInv
  <1>8. CASE RxDst
    <2>1. ReadDst(m) /\ UNCHANGED <<free, rx, rx_q>> /\ rx_step = "dst" /\ rx_step' = "index"
          BY <1>4, <1>8 DEF RxDst
    <2>2. /\ \A n \in Mbufs : meta'[n].sc_index = meta[n].sc_index
          /\ \A n \in Mbufs \ {m} : meta'[n] = meta[n]
          /\ meta'[m].dst = NextEntry(m).dst
          BY <1>4, <2>1, ReadIs
    <2>3. \A n \in Mbufs \ {m} : Same(n)
          BY <1>1, <1>2, <1>4, <2>1, <2>2 DEF Same
    <2>4. ASSUME m \notin raced PROVE InOrder(m)'
      <3>1. InOrder(m)
            BY <1>4, <2>4 DEF OrderInv
      <3>2. visits[m] = <<>> /\ meta[m].sc_index = 0
            BY <2>1, <3>1 DEF InOrder
      <3>3. meta'[m].dst = 1
        <4>1. meta[m].sc_index < sc_len /\ sc_entry[meta[m].sc_index + 1].dst = 1
              BY <1>4, <3>2, EntryType DEF ChainInv, Typed
        <4>. QED BY <1>4, <2>2, <4>1, EntryType DEF Typed
      <3>4. OnWay(m)'
            BY <1>1, <3>2, ChainIs DEF OnWay, Passed
      <3>5. meta'[m].sc_index = 0
            BY <1>4, <2>2, <3>2
      <3>. QED BY <1>1, <1>2, <1>5, <1>6, <2>1, <3>2, <3>3, <3>4, <3>5 DEF InOrder
    <2>. QED BY <1>1, <2>3, <2>4, OrderStays DEF OrderInv
  <1>9. CASE RxIndex
    <2>1. /\ meta' = [meta EXCEPT ![m].sc_index = @ + 1]
          /\ UNCHANGED <<free, rx, rx_q>> /\ rx_step = "index" /\ rx_step' = "hand"
          BY <1>4, <1>9 DEF RxIndex
    <2>2. /\ \A n \in Mbufs : /\ meta'[n].dst = meta[n].dst
                              /\ n # m => meta'[n] = meta[n]
          /\ meta'[m].sc_index = meta[m].sc_index + 1
          BY <1>4, <2>1, RaiseTypes DEF Typed
    <2>3. \A n \in Mbufs \ {m} : Same(n)
          BY <1>1, <1>2, <1>4, <2>1, <2>2 DEF Same
    <2>4. ASSUME m \notin raced PROVE InOrder(m)'
      <3>1. InOrder(m)
            BY <1>4, <2>4 DEF OrderInv
      <3>2. visits[m] = <<>> /\ meta'[m].sc_index = 1 /\ meta'[m].dst = 1
            BY <1>4, <2>1, <2>2, <3>1 DEF InOrder
      <3>3. OnWay(m)'
            BY <1>1, <3>2, ChainIs DEF OnWay, Passed
      <3>. QED BY <1>1, <1>2, <1>5, <1>6, <2>1, <3>2, <3>3 DEF InOrder
    <2>. QED BY <1>1, <2>3, <2>4, OrderStays DEF OrderInv
  <1>10. CASE RxHand
    <2>1. /\ rx' = {} /\ meta' = meta /\ rx_step = "hand"
          /\ IF meta[m].dst \in Types
             THEN /\ rx_q' = [rx_q EXCEPT ![meta[m].dst] = Append(@, m)]
                  /\ UNCHANGED free
             ELSE free' = free \cup {m} /\ UNCHANGED rx_q
          BY <1>4, <1>10 DEF RxHand
    <2>2. \A t \in Types : \A n : n \in ToSet(rx_q'[t]) =>
              n \in ToSet(rx_q[t]) \/ (n = m /\ t = meta[m].dst)
      <3>1. CASE meta[m].dst \in Types
        <4>1. PICK u \in Types : u = meta[m].dst
              BY <3>1
        <4>2. rx_q \in [Types -> Seq(Mbufs)] /\ rx_q[u] \in Seq(Mbufs)
              BY DEF Typed, PlaceTypes
        <4>3. \A x : x \in ToSet(Append(rx_q[u], m)) => x \in ToSet(rx_q[u]) \/ x = m
              BY <1>4, <4>2, AppendHolds
        <4>4. /\ rx_q'[u] = Append(rx_q[u], m)
              /\ \A t \in Types \ {u} : rx_q'[t] = rx_q[t]
              BY <2>1, <4>1, <4>2
        <4>. QED BY <4>1, <4>3, <4>4
      <3>. QED BY <2>1, <3>1
    <2>3. ASSUME NEW n \in Mbufs, n # m PROVE Same(n)
      <3>1. \A t \in Types : n \in ToSet(rx_q'[t]) => n \in ToSet(rx_q[t])
            BY <2>2, <2>3
      <3>. QED BY <1>1, <1>2, <1>4, <2>1, <3>1 DEF Same
    <2>4. ASSUME m \notin raced PROVE InOrder(m)'
      <3>1. InOrder(m)
            BY <1>4, <2>4 DEF OrderInv
      <3>2. visits[m] = <<>> /\ meta[m].sc_index = 1 /\ meta[m].dst = 1
            BY <1>4, <2>1, <3>1 DEF InOrder
      <3>3. OnWay(m)' /\ IsNext(m, 1)' /\ Passed(m)' = 0
            BY <1>1, <3>2, ChainIs DEF OnWay, Passed, IsNext
      <3>4. \A t \in Types : m \in ToSet(rx_q'[t]) => t = 1
            BY <1>5, <2>2, <3>2
      <3>. QED BY <1>1, <1>2, <1>5, <1>6, <2>1, <3>2, <3>3, <3>4 DEF InOrder
    <2>. QED BY <1>1, <2>3, <2>4, OrderStays DEF OrderInv
  <1>. QED BY <1>7, <1>8, <1>9, <1>10 DEF Rx

(* An NF takes the packets that are next for its type. *)
LEMMA OrderPoll ==
    ASSUME Typed, PlacesInv, OrderInv, NEW t \in Types, Poll(t)
    PROVE  OrderInv'
  <1>1. PICK burst, rest \in Seq(Mbufs) : PollBurst(t, burst, rest)
        BY PollIs DEF Typed
  <1>2. /\ \A m \in ToSet(burst) : m \notin ToSet(rest)
        /\ \A m : m \in ToSet(rx_q[t]) <=> m \in ToSet(burst) \/ m \in ToSet(rest)
        BY <1>1, HeldSeq DEF PollBurst
  <1>3. /\ rx_q' = [rx_q EXCEPT ![t] = rest] /\ batch' = [batch EXCEPT ![t] = burst]
        /\ step' = [step EXCEPT ![t] = "look"] /\ step[t] = "poll"
        /\ UNCHANGED <<free, rx, rx_step, rx_bufs, raced>>
        BY <1>1 DEF Poll, PollBurst
  <1>4. /\ rx_q'[t] = rest /\ Held(t)' = burst /\ step'[t] = "look"
        /\ \A c \in Types \ {t} : /\ rx_q'[c] = rx_q[c] /\ Held(c)' = Held(c)
                                  /\ step'[c] = step[c] /\ batch'[c] = batch[c]
        BY <1>3 DEF Held, Typed, NfTypes, PlaceTypes
  <1>5. \A n : Counting(n)' = Counting(n)
        BY <1>3, <1>4, CountingStays
  <1>6. \A n \in Mbufs : /\ meta'[n].sc_index = meta[n].sc_index
                         /\ meta'[n].dst = meta[n].dst
    <2>1. PICK act : meta' = [m \in Mbufs |-> IF m \in ToSet(burst)
                                   THEN [meta[m] EXCEPT !.act = act[m]] ELSE meta[m]]
          BY <1>1 DEF PollBurst
    <2>2. \A n \in Mbufs : meta[n] \in Metas
          BY DEF Typed, PktTypes
    <2>. QED BY <2>1, <2>2 DEF Metas
  <1>7. \A m \in Mbufs : visits'[m] = IF m \in ToSet(burst) /\ Len(visits[m]) <= Len(Chain)
                                      THEN Append(visits[m], t) ELSE visits[m]
        BY <1>1 DEF PollBurst
  <1>8. ASSUME NEW m \in Mbufs \ raced, m \notin ToSet(burst) PROVE InOrder(m)'
    <2>1. InOrder(m)
          BY DEF OrderInv
    <2>2. \A c \in Types : /\ m \in ToSet(rx_q'[c]) => m \in ToSet(rx_q[c])
                           /\ m \in ToSet(Held(c)') => m \in ToSet(Held(c))
          BY <1>2, <1>4, <1>8
    <2>3. \A c \in Types : step'[c] = "hand" => step[c] = "hand" /\ batch'[c] = batch[c]
          BY <1>4
    <2>4. Same(m)
          BY <1>3, <1>5, <1>6, <1>7, <1>8, <2>2, <2>3 DEF Same
    <2>. QED BY <2>1, <2>4, OrderStays
  <1>9. ASSUME NEW m \in Mbufs \ raced, m \in ToSet(burst) PROVE InOrder(m)'
    <2>1. InOrder(m) /\ m \in ToSet(rx_q[t])
          BY <1>2, <1>9 DEF OrderInv
    <2>2. PICK j, a, b : AtMost(m, j, a, b)
          BY DEF PlacesInv, OnePlace
    <2>3. /\ m \notin free /\ m \notin rx
          /\ \A c \in Types : /\ m \in ToSet(rx_q[c]) => c = t
                              /\ m \notin ToSet(Held(c))
          /\ \A c, u \in Types : m \notin ToSet(rx_bufs[c][u])
          BY <2>1, <2>2 DEF AtMost
    <2>4. /\ \A c \in Types : m \notin ToSet(rx_q'[c])
          /\ \A c \in Types : step'[c] = "hand" => m # Head(batch'[c])
      <3>1. \A c \in Types : m \notin ToSet(rx_q'[c])
            BY <1>2, <1>4, <1>9, <2>3
      <3>2. \A c \in Types : step[c] = "hand" => Head(batch[c]) \in ToSet(Held(c))
            BY HeadHeld DEF PlacesInv
      <3>. QED BY <1>4, <2>3, <3>1, <3>2
    <2>5. /\ IsNext(m, t) /\ meta[m].sc_index = Passed(m) + 1 /\ OnWay(m)
          BY <2>1, <2>3 DEF InOrder
    <2>6. visits[m] \in Seq(Types) /\ Len(Chain) \in Nat
          BY ChainIs DEF Typed, PktTypes
    <2>7. PICK n \in Nat : n = Len(visits[m])
          BY <2>6
    <2>8. /\ n < Len(Chain) /\ t = Chain[n + 1] /\ meta[m].sc_index = n + 1
          /\ \A k \in 1 .. n : visits[m][k] = Chain[k]
          BY <2>5, <2>7 DEF OnWay, IsNext, Passed
    <2>11. visits'[m] = Append(visits[m], t)
      <3>1. Len(visits[m]) <= Len(Chain)
            BY <2>6, <2>7, <2>8
      <3>. QED BY <1>7, <1>9, <3>1
    <2>12. /\ Len(visits'[m]) = n + 1 /\ visits'[m][n + 1] = t
           /\ \A k \in 1 .. n : visits'[m][k] = visits[m][k]
          BY <2>6, <2>7, <2>11
    <2>13. OnWay(m)' /\ Passed(m)' = n + 1
      <3>1. \A k \in 1 .. n + 1 : visits'[m][k] = Chain[k]
            BY <2>7, <2>8, <2>12
      <3>. QED BY <2>6, <2>7, <2>8, <2>12, <3>1 DEF OnWay, Passed
    <2>9. \A c \in Types : m \in ToSet(Held(c)') => meta'[m].sc_index = Passed(m)'
          BY <1>6, <2>8, <2>13
    <2>10. m \notin rx' /\ \A c, u \in Types : m \notin ToSet(rx_bufs'[c][u])
          BY <1>3, <2>3
    <2>. QED BY <2>4, <2>9, <2>10, <2>13 DEF InOrder
  <1>. QED BY <1>3, <1>8, <1>9 DEF OrderInv

(* The buffers go to the rings of the types they are for. *)
LEMMA OrderFlush ==
    ASSUME Typed, PlacesInv, OrderInv, NEW t \in Types, Flush(t)
    PROVE  OrderInv'
  <1>1. /\ rx_q' = [u \in Types |-> rx_q[u] \o rx_bufs[t][u]]
        /\ rx_bufs' = [rx_bufs EXCEPT ![t] = [u \in Types |-> <<>>]]
        /\ step' = [step EXCEPT ![t] = "poll"] /\ step[t] = "look"
        /\ UNCHANGED <<free, rx, rx_step, batch, meta, visits, raced>>
        BY DEF Flush
  <1>2. /\ \A c \in Types : Held(c)' = Held(c)
        /\ step'[t] = "poll" /\ \A c \in Types \ {t} : step'[c] = step[c]
        BY <1>1 DEF Held, Typed, NfTypes
  <1>3. \A n : Counting(n)' = Counting(n)
        BY <1>1, <1>2, CountingStays
  <1>4. \A c, u \in Types : \A x : x \in ToSet(rx_bufs'[c][u]) =>
            c # t /\ x \in ToSet(rx_bufs[c][u])
    <2>1. \A c, u \in Types : rx_bufs'[c][u] = IF c = t THEN <<>> ELSE rx_bufs[c][u]
          BY <1>1 DEF Typed, NfTypes
    <2>2. ToSet(<<>>) = {}
          BY DEF ToSet
    <2>. QED BY <2>1, <2>2
  <1>5. \A u \in Types : \A x : x \in ToSet(rx_q'[u]) =>
            x \in ToSet(rx_q[u]) \/ x \in ToSet(rx_bufs[t][u])
    <2> TAKE u \in Types
    <2>1. rx_q[u] \in Seq(Mbufs) /\ rx_bufs[t][u] \in Seq(Mbufs)
          BY HeldSeq
    <2>2. rx_q'[u] = rx_q[u] \o rx_bufs[t][u]
          BY <1>1
    <2>. QED BY <2>1, <2>2, ConcatHolds
  <1>6. ASSUME NEW m \in Mbufs \ raced PROVE InOrder(m)'
    <2>1. InOrder(m)
          BY DEF OrderInv
    <2>2. Passed(m)' = Passed(m) /\ \A u : IsNext(m, u)' <=> IsNext(m, u)
          BY <1>1 DEF Passed, IsNext
    <2>3. \A u \in Types : m \in ToSet(rx_q'[u]) =>
              IsNext(m, u) /\ meta[m].sc_index = Passed(m) + 1
      <3>1. t \notin Counting(m)
            BY <1>1 DEF Counting
      <3>. QED BY <1>5, <2>1, <3>1 DEF InOrder
    <2>4. OnWay(m)' <=> OnWay(m)
          BY <1>1 DEF OnWay, Passed
    <2>5. \A c \in Types : step'[c] = "hand" => step[c] = "hand"
          BY <1>2
    <2>6. (m \notin free => OnWay(m))'
          BY <1>1, <2>1, <2>4 DEF InOrder
    <2>7. (m \in rx => /\ visits[m] = <<>>
                       /\ meta[m].sc_index = IF rx_step = "hand" THEN 1 ELSE 0
                       /\ rx_step \in {"index", "hand"} => meta[m].dst = 1)'
          BY <1>1, <2>1 DEF InOrder
    <2>8. ASSUME NEW c \in Types
          PROVE  /\ m \in ToSet(Held(c)') => meta[m].sc_index = Passed(m)
                 /\ step[c] = "hand" /\ m = Head(batch[c]) /\ meta[m].dst \in Types =>
                       IsNext(m, meta[m].dst)
          BY <1>2, <2>1 DEF InOrder
    <2>9. ASSUME NEW c \in Types, NEW u \in Types, m \in ToSet(rx_bufs'[c][u])
          PROVE  /\ IsNext(m, u)
                 /\ meta[m].sc_index = Passed(m) + (IF c \in Counting(m) THEN 0 ELSE 1)
          BY <1>4, <2>1, <2>9 DEF InOrder
    <2>10. UNCHANGED <<meta, batch>>
          BY <1>1
    <2>. QED BY <1>3, <2>2, <2>3, <2>5, <2>6, <2>7, <2>8, <2>9, <2>10 DEF InOrder
  <1>. QED BY <1>1, <1>6 DEF OrderInv

(* A packet is dropped, or looked at, or handed to a port or to nobody. *)
LEMMA OrderQuiet ==
    ASSUME Typed, PlacesInv, OrderInv, NEW t \in Types,
           \/ Discard(t) \/ Look(t)
           \/ Hand(t) /\ ~HandToNf(t, Head(batch[t]))
    PROVE  OrderInv'
  <1>0. PICK m : m = Head(batch[t])
        OBVIOUS
  <1>1. /\ step[t] \in {"look", "hand"} /\ batch[t] # <<>>
        /\ UNCHANGED <<rx, rx_step, rx_q, rx_bufs, visits, raced>>
        BY DEF Discard, Look, Hand, HasPacket, HandToNobody, HandToPort
  <1>2. /\ m \in Mbufs /\ Held(t) = batch[t]
        /\ \A x : x \in ToSet(Tail(batch[t])) <=> x \in ToSet(Held(t)) /\ x # m
        /\ \A c, u \in Types : m \notin ToSet(rx_bufs[c][u])
        BY <1>0, <1>1, HeadHeld
  <1>3. /\ \E s \in {"look", "dst", "count", "crashed"} :
               step' = [step EXCEPT ![t] = s] \/ (step' = step /\ step[t] = s)
        /\ batch' = batch \/ (batch' = [batch EXCEPT ![t] = Tail(@)] /\ step' = step)
        /\ free \subseteq free'
        BY <1>0, <1>1 DEF Discard, Look, Hand, HasPacket, HandToNobody, HandToPort
  <1>4. /\ step'[t] \in {"look", "dst", "count", "crashed"}
        /\ \A c \in Types \ {t} : step'[c] = step[c] /\ batch'[c] = batch[c]
        BY <1>3 DEF Typed, NfTypes
  <1>5. \A c \in Types : \A n : n \in ToSet(Held(c)') => n \in ToSet(Held(c))
    <2>1. \A c \in Types \ {t} : Held(c)' = Held(c)
          BY <1>4 DEF Held
    <2>2. Held(t)' = batch[t] \/ Held(t)' = Tail(batch[t])
      <3>1. CASE batch' = batch
            BY <3>1 DEF Held
      <3>2. CASE batch' = [batch EXCEPT ![t] = Tail(@)] /\ step' = step
        <4>1. batch'[t] = Tail(batch[t]) /\ step'[t] # "count"
              BY <1>1, <3>2 DEF Typed, NfTypes
        <4>. QED BY <4>1 DEF Held
      <3>. QED BY <1>3, <3>1, <3>2
    <2>. QED BY <1>2, <2>1, <2>2
  <1>6. \A n \in Mbufs : meta'[n].sc_index = meta[n].sc_index /\ meta'[n].dst = meta[n].dst
    <2>1. meta' = meta \/ ReadAct(m)
          BY <1>0 DEF Discard, Look, Hand
    <2>. QED BY <1>2, <2>1, ReadIs
  <1>7. ASSUME NEW n \in Mbufs PROVE Same(n)
    <2>1. \A c \in Types : step'[c] = "hand" => step[c] = "hand" /\ batch'[c] = batch[c]
          BY <1>4
    <2>2. \A c, u \in Types : n \in ToSet(rx_bufs[c][u]) =>
              (c \in Counting(n)' <=> c \in Counting(n))
      <3>1. CASE n = m
            BY <1>2, <3>1
      <3>2. CASE n # m
        <4>1. Counting(n)' = Counting(n)
          <5>1. t \notin Counting(n)
                BY <1>1 DEF Counting
          <5>2. t \notin Counting(n)'
            <6>1. CASE batch' = batch
                  BY <1>0, <3>2, <6>1 DEF Counting
            <6>2. CASE step' = step
                  BY <1>1, <6>2 DEF Counting
            <6>. QED BY <1>3, <6>1, <6>2
          <5>3. \A c \in Types \ {t} : c \in Counting(n)' <=> c \in Counting(n)
                BY <1>4 DEF Counting
          <5>. QED BY <5>1, <5>2, <5>3 DEF Counting
        <4>. QED BY <4>1
      <3>. QED BY <3>1, <3>2
    <2>. QED BY <1>1, <1>3, <1>5, <1>6, <2>1, <2>2 DEF Same
  <1>. QED BY <1>1, <1>7, OrderStays DEF OrderInv

(* An NF reads the entry behind those that the packet has passed. *)
LEMMA OrderLookDst ==
    ASSUME Typed, ChainInv, PlacesInv, OrderInv, NEW t \in Types, LookDst(t)
    PROVE  OrderInv'
  <1>0. PICK m : m = Head(batch[t])
        OBVIOUS
  <1>1. /\ step[t] = "dst" /\ batch[t] # <<>> /\ step' = [step EXCEPT ![t] = "hand"]
        /\ ReadDst(m)
        /\ UNCHANGED <<free, rx, rx_step, rx_q, rx_bufs, batch, visits, raced>>
        BY <1>0 DEF LookDst, HasPacket
  <1>2. /\ m \in Mbufs /\ m \in ToSet(Held(t)) /\ m \notin free /\ m \notin rx
        /\ \A c \in Types : /\ m \notin ToSet(rx_q[c])
                            /\ m \in ToSet(Held(c)) => c = t
        /\ \A c, u \in Types : m \notin ToSet(rx_bufs[c][u])
        BY <1>0, <1>1, HeadHeld
  <1>3. /\ \A n \in Mbufs : meta'[n].sc_index = meta[n].sc_index
        /\ \A n \in Mbufs \ {m} : meta'[n] = meta[n]
        /\ meta'[m].dst = NextEntry(m).dst
        BY <1>1, <1>2, ReadIs
  <1>4. /\ step'[t] = "hand" /\ \A c \in Types \ {t} : step'[c] = step[c]
        BY <1>1 DEF Typed, NfTypes
  <1>5. /\ \A n : Counting(n)' = Counting(n)
        /\ \A c \in Types : Held(c)' = Held(c)
        BY <1>1, <1>4, CountingStays DEF Held
  <1>6. ASSUME NEW n \in Mbufs, n # m PROVE Same(n)
    <2>1. \A c \in Types : step'[c] = "hand" /\ n = Head(batch'[c]) =>
              step[c] = "hand" /\ n = Head(batch[c])
          BY <1>0, <1>1, <1>4, <1>6
    <2>. QED BY <1>1, <1>3, <1>5, <1>6, <2>1 DEF Same
  <1>7. ASSUME m \notin raced PROVE InOrder(m)'
    <2>1. InOrder(m) /\ meta[m].sc_index = Passed(m) /\ OnWay(m)
          BY <1>2, <1>7 DEF OrderInv, InOrder
    <2>2. Passed(m)' = Passed(m) /\ \A u : IsNext(m, u)' <=> IsNext(m, u)
          BY <1>1 DEF Passed, IsNext
    <2>3. ASSUME meta'[m].dst \in Types PROVE IsNext(m, meta'[m].dst)
      <3>1. PICK n : n = Passed(m)
            OBVIOUS
      <3>2. /\ n < sc_len /\ NextEntry(m) = sc_entry[n + 1] /\ n \in Nat
            /\ sc_len <= Len(Chain) /\ sc_len \in Nat
        <4>1. meta'[m].dst # 0
              BY <2>3, ConstFacts
        <4>. QED BY <1>2, <1>3, <2>1, <3>1, <4>1, EntryType DEF Typed
      <3>3. n < Len(Chain) /\ n + 1 \in 1 .. Len(Chain)
            BY <3>2, ChainIs
      <3>4. sc_entry[n + 1].dst \in {0, Chain[n + 1]}
            BY <3>3 DEF ChainInv
      <3>. QED BY <1>3, <2>3, <3>1, <3>2, <3>3, <3>4, ConstFacts DEF IsNext
    <2>4. ASSUME NEW c \in Types, step'[c] = "hand", m = Head(batch'[c]),
                 meta'[m].dst \in Types
          PROVE  IsNext(m, meta[m].dst)'
      <3>1. PICK u : u = meta'[m].dst
            OBVIOUS
      <3>. QED BY <2>2, <2>3, <2>4, <3>1
    <2>5. OnWay(m)' <=> OnWay(m)
          BY <1>1 DEF OnWay, Passed
    <2>. QED BY <1>1, <1>2, <1>3, <1>5, <2>1, <2>2, <2>4, <2>5 DEF InOrder
  <1>. QED BY <1>1, <1>6, <1>7, OrderStays DEF OrderInv

(* A packet waits for the NF that it goes to next. *)
LEMMA OrderHand ==
    ASSUME Typed, PlacesInv, OrderInv, NEW t \in Types, Hand(t),
           HandToNf(t, Head(batch[t]))
    PROVE  OrderInv'
  <1>0. PICK m, u, buf : /\ m = Head(batch[t]) /\ u = meta[m].dst
                         /\ buf = Append(rx_bufs[t][u], m)
        OBVIOUS
  <1>1. /\ step[t] = "hand" /\ batch[t] # <<>> /\ step' = [step EXCEPT ![t] = "count"]
        /\ u \in Types
        /\ UNCHANGED <<meta, free, rx, rx_step, batch, visits>>
        BY <1>0 DEF Hand, HasPacket, HandToNf
  <1>2. /\ m \in Mbufs /\ Held(t) = batch[t] /\ m \notin free /\ m \notin rx
        /\ \A x : x \in ToSet(Tail(batch[t])) <=> x \in ToSet(Held(t)) /\ x # m
        /\ \A c \in Types : /\ m \notin ToSet(rx_q[c])
                            /\ m \in ToSet(Held(c)) => c = t
        /\ \A c, v \in Types : m \notin ToSet(rx_bufs[c][v])
        /\ m \in ToSet(Held(t))
        BY <1>0, <1>1, HeadHeld
  <1>3. /\ step'[t] = "count" /\ \A c \in Types \ {t} : step'[c] = step[c]
        BY <1>1 DEF Typed, NfTypes
  <1>4. /\ Held(t)' = Tail(batch[t]) /\ \A c \in Types \ {t} : Held(c)' = Held(c)
        BY <1>1, <1>3 DEF Held
  <1>5. \A n : Counting(n)' = IF n = m THEN Counting(n) \cup {t} ELSE Counting(n)
    <2>1. \A c \in Types \ {t} : \A n : c \in Counting(n)' <=> c \in Counting(n)
          BY <1>1, <1>3 DEF Counting
    <2>2. \A n : t \in Counting(n)' <=> n = m
          BY <1>0, <1>1, <1>3 DEF Counting
    <2>3. \A n : t \notin Counting(n)
          BY <1>1 DEF Counting
    <2>4. \A n : Counting(n)' \subseteq Types /\ Counting(n) \subseteq Types
          BY DEF Counting
    <2>. QED BY <2>1, <2>2, <2>3, <2>4
  <1>6. rx_bufs[t][u] \in Seq(Mbufs)
        BY <1>1, HeldSeq
  <1>7. /\ buf \in Seq(Mbufs)
        /\ \A x : x \in ToSet(buf) <=> x \in ToSet(rx_bufs[t][u]) \/ x = m
    <2>1. /\ Append(rx_bufs[t][u], m) \in Seq(Mbufs)
          /\ \A x : x \in ToSet(Append(rx_bufs[t][u], m))
                       <=> x \in ToSet(rx_bufs[t][u]) \/ x = m
          BY <1>2, <1>6, AppendHolds
    <2>. QED BY <1>0, <2>1
  <1>8. \/ /\ rx_q' = [rx_q EXCEPT ![u] = @ \o buf]
           /\ rx_bufs' = [rx_bufs EXCEPT ![t][u] = <<>>]
           /\ raced' = raced \cup {m}
        \/ /\ rx_bufs' = [rx_bufs EXCEPT ![t][u] = buf]
           /\ UNCHANGED <<rx_q, raced>>
        BY <1>0 DEF HandToNf
  <1>9. /\ \A c \in Types : \A x : x \in ToSet(rx_q'[c]) =>
              \/ x \in ToSet(rx_q[c])
              \/ c = u /\ x \in ToSet(rx_bufs[t][u])
              \/ x \in raced'
        /\ \A c, v \in Types : \A x : x \in ToSet(rx_bufs'[c][v]) =>
              x \in ToSet(rx_bufs[c][v]) \/ (c = t /\ v = u /\ x = m)
        /\ raced \subseteq raced'
    <2>1. CASE /\ rx_q' = [rx_q EXCEPT ![u] = @ \o buf]
               /\ rx_bufs' = [rx_bufs EXCEPT ![t][u] = <<>>]
               /\ raced' = raced \cup {m}
      <3>1. /\ rx_q'[u] = rx_q[u] \o buf
            /\ \A c \in Types \ {u} : rx_q'[c] = rx_q[c]
            /\ \A c, v \in Types : rx_bufs'[c][v] = IF c = t /\ v = u THEN <<>>
                                                    ELSE rx_bufs[c][v]
            BY <1>1, <2>1 DEF Typed, NfTypes, PlaceTypes
      <3>2. rx_q[u] \in Seq(Mbufs)
            BY <1>1, HeldSeq
      <3>3. \A x : x \in ToSet(rx_q[u] \o buf) <=> x \in ToSet(rx_q[u]) \/ x \in ToSet(buf)
            BY <1>7, <3>2, ConcatHolds
      <3>4. ToSet(<<>>) = {}
            BY DEF ToSet
      <3>5. \A c, v \in Types : \A x : x \in ToSet(rx_bufs'[c][v]) =>
                x \in ToSet(rx_bufs[c][v])
            BY <3>1, <3>4
      <3>6. \A x : x \in ToSet(rx_q'[u]) =>
                x \in ToSet(rx_q[u]) \/ x \in ToSet(rx_bufs[t][u]) \/ x = m
            BY <1>7, <3>1, <3>3
      <3>. QED BY <2>1, <3>1, <3>5, <3>6
    <2>2. CASE /\ rx_bufs' = [rx_bufs EXCEPT ![t][u] = buf]
               /\ UNCHANGED <<rx_q, raced>>
      <3>1. \A c, v \in Types : rx_bufs'[c][v] = IF c = t /\ v = u THEN buf
                                                 ELSE rx_bufs[c][v]
            BY <1>1, <2>2 DEF Typed, NfTypes
      <3>. QED BY <1>7, <2>2, <3>1
    <2>. QED BY <1>8, <2>1, <2>2
  <1>10. ASSUME NEW n \in Mbufs \ raced' PROVE InOrder(n)'
    <2>1. InOrder(n)
          BY <1>9 DEF OrderInv
    <2>2. /\ Passed(n)' = Passed(n) /\ \A v : IsNext(n, v)' <=> IsNext(n, v)
          /\ OnWay(n)' <=> OnWay(n)
          BY <1>1 DEF Passed, IsNext, OnWay
    <2>3. t \notin Counting(n)
          BY <1>1 DEF Counting
    <2>4. \A c \in Types : n \in ToSet(rx_q'[c]) =>
              IsNext(n, c) /\ meta[n].sc_index = Passed(n) + 1
          BY <1>1, <1>9, <2>1, <2>3 DEF InOrder
    <2>5. \A c \in Types : n \in ToSet(Held(c)') => n \in ToSet(Held(c))
          BY <1>2, <1>4
    <2>6. \A c \in Types : step'[c] = "hand" => step[c] = "hand"
          BY <1>3
    <2>7. ASSUME NEW c \in Types, NEW v \in Types, n \in ToSet(rx_bufs'[c][v])
          PROVE  /\ IsNext(n, v)
                 /\ meta[n].sc_index = Passed(n) + (IF c \in Counting(n)' THEN 0 ELSE 1)
      <3>1. CASE n = m
        <4>1. c = t /\ v = u
              BY <1>2, <1>9, <2>7, <3>1
        <4>2. meta[n].sc_index = Passed(n)
              BY <1>2, <2>1, <3>1 DEF InOrder
        <4>3. IsNext(n, u)
              BY <1>0, <1>1, <2>1, <3>1 DEF InOrder
        <4>4. c \in Counting(n)'
              BY <1>5, <3>1, <4>1
        <4>5. Passed(n) \in Nat
              BY DEF Passed, Typed, PktTypes
        <4>. QED BY <4>1, <4>2, <4>3, <4>4, <4>5
      <3>2. CASE n # m
        <4>1. n \in ToSet(rx_bufs[c][v])
              BY <1>9, <2>7, <3>2
        <4>. QED BY <1>5, <2>1, <3>2, <4>1 DEF InOrder
      <3>. QED BY <3>1, <3>2
    <2>. QED BY <1>1, <2>1, <2>2, <2>4, <2>5, <2>6, <2>7 DEF InOrder
  <1>. QED BY <1>10 DEF OrderInv

(* What is counted by the NF that still has it is counted in time. *)
LEMMA OrderCount ==
    ASSUME Typed, PlacesInv, OrderInv, NEW t \in Types, Count(t)
    PROVE  OrderInv'
  <1>0. PICK m : m = Head(batch[t])
        OBVIOUS
  <1>1. /\ step[t] = "count" /\ batch[t] # <<>>
        /\ step' = [step EXCEPT ![t] = "look"]
        /\ batch' = [batch EXCEPT ![t] = Tail(@)]
        /\ meta' = [meta EXCEPT ![m].sc_index = @ + 1]
        /\ raced' = IF m \in free \/ InOwnBuffer(t, m) THEN raced ELSE raced \cup {m}
        /\ UNCHANGED <<free, rx, rx_step, rx_q, rx_bufs, visits>>
        BY <1>0 DEF Count, HasPacket
  <1>2. m \in Mbufs
        BY <1>0, <1>1, HasOne DEF Typed
  <1>3. /\ \A n \in Mbufs : /\ meta'[n].dst = meta[n].dst
                            /\ n # m => meta'[n] = meta[n]
        /\ meta'[m].sc_index = meta[m].sc_index + 1
        BY <1>1, <1>2, RaiseTypes DEF Typed
  <1>4. /\ step'[t] = "look"
        /\ \A c \in Types \ {t} : step'[c] = step[c] /\ batch'[c] = batch[c]
        BY <1>1 DEF Typed, NfTypes
  <1>5. \A c \in Types : Held(c)' = Held(c)
        BY <1>1, <1>4 DEF Held, Typed, NfTypes
  <1>6. t \in Counting(m) /\ Counting(m)' = Counting(m) \ {t}
        BY <1>0, <1>1, <1>4 DEF Counting
  <1>7. \A n \in Mbufs \ {m} : Counting(n)' = Counting(n)
        BY <1>0, <1>1, <1>4 DEF Counting
  <1>8. ASSUME NEW n \in Mbufs \ {m} PROVE Same(n)
    <2>1. \A c \in Types : step'[c] = "hand" => step[c] = "hand" /\ batch'[c] = batch[c]
          BY <1>4
    <2>. QED BY <1>1, <1>3, <1>5, <1>7, <2>1 DEF Same
  <1>9. ASSUME m \notin raced' PROVE InOrder(m)'
    <2>1. m \notin raced /\ (m \in free \/ InOwnBuffer(t, m)) /\ InOrder(m)
          BY <1>1, <1>2, <1>9 DEF OrderInv
    <2>2. PICK k, a, b : AtMost(m, k, a, b)
          BY <1>2 DEF PlacesInv, OnePlace
    <2>3. /\ m \notin rx'
          /\ \A c \in Types : m \notin ToSet(rx_q'[c]) /\ m \notin ToSet(Held(c)')
          BY <1>1, <1>5, <2>1, <2>2 DEF AtMost, InOwnBuffer
    <2>4. \A c \in Types : step'[c] = "hand" => m # Head(batch'[c])
      <3>1. \A c \in Types : step[c] = "hand" => Head(batch[c]) \in ToSet(Held(c))
            BY HeadHeld DEF PlacesInv
      <3>. QED BY <1>4, <1>5, <2>3, <3>1
    <2>5. /\ Passed(m)' = Passed(m) /\ \A v : IsNext(m, v)' <=> IsNext(m, v)
          /\ OnWay(m)' <=> OnWay(m)
          BY <1>1 DEF Passed, IsNext, OnWay
    <2>6. Passed(m) \in Nat
          BY <1>2 DEF Passed, Typed, PktTypes
    <2>7. ASSUME NEW c \in Types, NEW v \in Types, m \in ToSet(rx_bufs'[c][v])
          PROVE  /\ IsNext(m, v)
                 /\ meta'[m].sc_index = Passed(m) + (IF c \in Counting(m)' THEN 0 ELSE 1)
      <3>1. m \in ToSet(rx_bufs[c][v]) /\ c = t
            BY <1>1, <2>1, <2>2, <2>7 DEF AtMost, InOwnBuffer
      <3>2. IsNext(m, v) /\ meta[m].sc_index = Passed(m)
            BY <1>6, <2>1, <2>6, <3>1 DEF InOrder
      <3>. QED BY <1>3, <1>6, <2>6, <3>1, <3>2
    <2>8. m \notin free' => OnWay(m)'
          BY <1>1, <2>1, <2>5 DEF InOrder
    <2>. QED BY <2>3, <2>4, <2>5, <2>7, <2>8 DEF InOrder
  <1>10. raced \subseteq raced'
        BY <1>1
  <1>. QED BY <1>8, <1>9, <1>10, OrderStays DEF OrderInv

LEMMA OrderNext ==
    Typed /\ ChainInv /\ PlacesInv /\ RxInv /\ OrderInv /\ [Next]_vars => OrderInv'
  <1> SUFFICES ASSUME Typed, ChainInv, PlacesInv, RxInv, OrderInv, [Next]_vars
               PROVE  OrderInv'
      OBVIOUS
  <1>1. CASE MergeEntry \/ UNCHANGED vars
    <2>1. UNCHANGED <<meta, free, rx, rx_step, rx_q, rx_bufs, step, batch, visits, raced>>
          BY <1>1 DEF MergeEntry, vars, nfVars
    <2>2. /\ \A n : Counting(n)' = Counting(n)
          /\ \A c \in Types : Held(c)' = Held(c)
          BY <2>1, CountingStays DEF Held
    <2>3. \A n \in Mbufs : Same(n)
          BY <2>1, <2>2 DEF Same
    <2>. QED BY <2>1, <2>3, OrderStays DEF OrderInv
  <1>2. ASSUME NEW t \in Types, Nf(t) PROVE OrderInv'
        BY <1>2, OrderPoll, OrderFlush, OrderQuiet, OrderLookDst, OrderHand, OrderCount
           DEF Nf
  <1>. QED BY <1>1, <1>2, OrderArrive, OrderRx DEF Next

-----------------------------------------------------------------------------
LEMMA TypedNext == Typed /\ ChainInv /\ [Next]_vars => Typed' /\ ChainInv'
  <1> SUFFICES ASSUME Typed, ChainInv, [Next]_vars PROVE Typed' /\ ChainInv'
      OBVIOUS
  <1>1. CASE MergeEntry
    <2>1. UNCHANGED <<meta, ipv4, free, rx, rx_step, rx_q, nfVars, visits, raced>>
          BY <1>1 DEF MergeEntry
    <2>2. ChainTypes' /\ ChainInv'
          BY <1>1, MergeInv DEF Typed
    <2>. QED BY <2>1, <2>2, TypesStay DEF Typed
  <1>2. ASSUME UNCHANGED chainVars PROVE ChainInv'
        BY <1>2 DEF chainVars, ChainInv
  <1>3. CASE UNCHANGED vars
        BY <1>2, <1>3, TypesStay DEF Typed, vars
  <1>4. ASSUME NEW m \in Mbufs, NEW is_ipv4 \in BOOLEAN, Arrive(m, is_ipv4)
        PROVE  Typed' /\ ChainInv'
        BY <1>2, <1>4, TypeArrive DEF Arrive
  <1>5. CASE Rx
        BY <1>2, <1>5, TypeRx DEF Rx, RxAct, RxDst, RxIndex, RxHand
  <1>6. ASSUME NEW t \in Types, Nf(t) PROVE Typed' /\ ChainInv'
    <2>1. UNCHANGED chainVars
          BY <1>6 DEF Nf, Poll, Discard, Look, LookDst, Hand, Count, Flush
    <2>. QED BY <1>2, <1>6, <2>1, TypeNf
  <1>. QED BY <1>1, <1>3, <1>4, <1>5, <1>6 DEF Next

LEMMA InitInv == Init => Inv
  <1> SUFFICES ASSUME Init PROVE Inv
      OBVIOUS
  <1> USE DEF Init
  <1>1. /\ Len(Additions) \in Nat /\ Len(Chain) \in Nat /\ Chain[1] = 1
        /\ Len(Chain) = Len(Additions) + 1 /\ Len(Chain) < D2SC_MAX_SC_LEN
        /\ D2SC_MAX_SC_LEN \in Nat
        /\ \A k \in 1 .. Len(Chain) : Chain[k] \in Types \cup {0}
        BY ChainIs
  <1>2. 1 \in Entries /\ \A k \in 1 .. Len(Chain) : k \in Entries
        BY <1>1 DEF Entries
  <1>3. \A t \in Types : rx_q[t] = <<>> /\ Held(t) = <<>> /\ step[t] = "poll"
        BY DEF Held
  <1>4. \A t, u \in Types : rx_bufs[t][u] = <<>>
        OBVIOUS
  <1>5. ToSet(<<>>) = {} /\ Once(<<>>)
        BY DEF ToSet, Once
  <1>6. Typed
    <2>1. ChainTypes
          BY <1>1, ConstFacts DEF ChainTypes, EmptyEntry
    <2>2. PktTypes
      <3>1. <<>> \in Seq(Types)
            OBVIOUS
      <3>2. [act |-> DROP, dst |-> 0, sc_index |-> 0] \in Metas
            BY DEF Metas
      <3>. QED BY <3>1, <3>2 DEF PktTypes
    <2>3. PlaceTypes /\ NfTypes
          BY DEF PlaceTypes, NfTypes
    <2>. QED BY <2>1, <2>2, <2>3 DEF Typed
  <1>7. ChainInv
    <2>1. \A k \in Entries : sc_entry[k] = IF k = 1 THEN [act |-> TONF, dst |-> 1]
                                           ELSE [act |-> DROP, dst |-> 0]
          BY DEF EmptyEntry
    <2>2. \A k \in 1 .. Len(Chain) : sc_entry[k].dst \in {0, Chain[k]}
          BY <1>1, <1>2, <2>1
    <2>. QED BY <1>1, <1>2, <2>1, <2>2 DEF ChainInv
  <1>8. PlacesInv
    <2>1. \A m \in Mbufs : AtMost(m, "free", 0, 0)
          BY <1>3, <1>4, <1>5 DEF AtMost
    <2>. QED BY <1>3, <1>4, <1>5, <2>1 DEF PlacesInv, OnePlace, AllOnce
  <1>9. RxInv
        BY DEF RxInv
  <1>10. CountInv
    <2>1. \A m \in Mbufs : Counting(m) = {}
          BY <1>3 DEF Counting
    <2>2. \A m \in Mbufs : Counts(m) = 0
      <3>1. Cardinality({}) = 0
            BY FS_EmptySet
      <3>2. \A m \in Mbufs : meta[m].sc_index = 0
            OBVIOUS
      <3>3. \A m \in Mbufs : Cardinality(Counting(m)) = 0
            BY <2>1, <3>1
      <3>4. \A m \in Mbufs : Counts(m) = meta[m].sc_index + Cardinality(Counting(m))
            BY DEF Counts
      <3> HIDE DEF Init
      <3>. QED BY <3>2, <3>3, <3>4
    <2>3. \A m \in Mbufs : m \in free
          OBVIOUS
    <2>4. \A t \in Types : step[t] # "hand"
          BY <1>3
    <2>. QED BY <1>1, <2>2, <2>3, <2>4, ConstFacts DEF CountInv
  <1>11. OrderInv
    <2>1. \A m \in Mbufs : m \in free /\ m \notin rx
          OBVIOUS
    <2>2. \A t \in Types : step[t] # "hand"
          BY <1>3
    <2>. QED BY <1>3, <1>4, <1>5, <2>1, <2>2 DEF OrderInv, InOrder
  <1>. QED BY <1>6, <1>7, <1>8, <1>9, <1>10, <1>11 DEF Inv

(* The invariant is inductive. *)
LEMMA SpecInv == Spec => []Inv
  <1>1. Inv /\ [Next]_vars => Inv'
        BY TypedNext, PlacesNext, RxNext, CountNext, OrderNext DEF Inv
  <1>. QED BY <1>1, InitInv, PTL DEF Spec

-----------------------------------------------------------------------------
(* Nothing is written past the chain, and no packet is counted more often than
   there are NFs on its way and NFs that hold it when it is freed, with any
   chain, any number of NFs and any interleaving of them with the application
   (d2sc_sc.c:64-79, d2sc_pkt_process.c:68, :284). *)
THEOREM ChainTypeOK == Spec => []TypeOK
  <1>1. Inv => TypeOK
    <2> SUFFICES ASSUME Inv PROVE TypeOK
        OBVIOUS
    <2>1. sc_len \in 1 .. D2SC_MAX_SC_LEN - 1
      <3>1. /\ merged \in Nat /\ Len(Additions) \in Nat /\ D2SC_MAX_SC_LEN \in Nat
            /\ merged <= Len(Additions) /\ Len(Additions) + 1 < D2SC_MAX_SC_LEN
            BY ChainIs DEF Inv, Typed, ChainTypes
      <3>2. /\ sc_len = merged + 1 + (IF merging = "call" THEN 0 ELSE 1)
            /\ merging # "call" => merged < Len(Additions)
            BY DEF Inv, ChainInv
      <3>. QED BY <3>1, <3>2
    <2>2. meta \in [Mbufs -> [act : {DROP, NEXT, TONF, OUT}, dst : Types \cup {0},
                              sc_index : 0 .. Len(Chain) + Cardinality(Types) + 1]]
      <3> DEFINE most == Len(Chain) + Cardinality(Types) + 1
      <3>1. most \in Nat
            BY ChainIs, ConstFacts
      <3>2. ASSUME NEW m \in Mbufs
            PROVE  /\ meta[m] \in Metas
                   /\ meta[m].sc_index \in 0 .. most
        <4>1. meta[m] \in Metas /\ meta[m].sc_index \in Nat
              BY DEF Inv, Typed, PktTypes, Metas
        <4>2. Cardinality(Counting(m)) \in Nat
              BY CountingIs
        <4>3. meta[m].sc_index + Cardinality(Counting(m)) <= most
              BY DEF Inv, CountInv, Counts
        <4> HIDE DEF most
        <4>. QED BY <3>1, <4>1, <4>2, <4>3
      <3> HIDE DEF most
      <3>3. \A m \in Mbufs :
                meta[m] \in [act : {DROP, NEXT, TONF, OUT}, dst : Types \cup {0},
                             sc_index : 0 .. most]
            BY <3>2 DEF Metas
      <3>4. meta \in [Mbufs -> Metas]
            BY DEF Inv, Typed, PktTypes
      <3>5. meta \in [Mbufs -> [act : {DROP, NEXT, TONF, OUT}, dst : Types \cup {0},
                                sc_index : 0 .. most]]
            BY <3>3, <3>4
      <3>. QED BY <3>5 DEF most
    <2>. QED BY <2>1, <2>2 DEF Inv, Typed, ChainTypes, PktTypes, PlaceTypes, NfTypes, TypeOK
  <1>. QED BY <1>1, SpecInv, PTL

(* Whatever the chain and however fast the application extends it, a packet
   that is counted in time meets the NFs of the chain in order, each one once
   (d2sc_sc.c:64-79, :99-115, d2sc_pkt_process.c:56-69, :252-285). *)
THEOREM ChainOrder == Spec => []InChainOrder
  <1>1. Inv => InChainOrder
    <2> SUFFICES ASSUME Inv, NEW m \in Mbufs \ (free \cup raced)
                 PROVE  IsPrefix(visits[m], Chain)
        BY DEF InChainOrder
    <2>1. OnWay(m)
          BY DEF Inv, OrderInv, InOrder
    <2>2. PICK v, n : v = visits[m] /\ n = Len(v)
          OBVIOUS
    <2>3. v \in Seq(Types) /\ n \in Nat
          BY <2>2 DEF Inv, Typed, PktTypes
    <2>4. n <= Len(Chain) /\ \A k \in 1 .. n : v[k] = Chain[k]
          BY <2>1, <2>2 DEF OnWay, Passed
    <2>5. Chain \in Seq(Types \cup {0})
          BY ChainIs
    <2>6. SubSeq(v, 1, n) = SubSeq(Chain, 1, n)
      <3>1. \A k \in 1 .. n : k - 1 + 1 = k /\ 1 + k - 1 = k
            BY <2>3
      <3>. QED BY <2>2, <2>3, <2>4, <2>5, <3>1
    <2>. QED BY <2>2, <2>4, <2>6 DEF IsPrefix
  <1>. QED BY <1>1, SpecInv, PTL
=============================================================================
