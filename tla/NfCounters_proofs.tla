--------------------------- MODULE NfCounters_proofs ---------------------------
(***************************************************************************)
(* The counters and the lists of the NF manager (d2sc_nf.c): num_nfs never *)
(* disagrees with the counters of the types, and the list of a type holds  *)
(* its NFs and nothing else, whatever happens to the NFs.                  *)
(***************************************************************************)
EXTENDS NfLifecycle_proofs, DataLemmas

(* The sum of the counters, each step in a uint16_t. *)
AddU16(f) == [p \in NTs \X U16s |-> (f[p[1]] + p[2]) % U16]
IsSumU16(g, f) == Folding(g, AddU16(f), 0, NTs, U16s)

(* Its steps stay uint16_t values. *)
LEMMA AddType ==
    ASSUME NEW f \in [NTs -> U16s]
    PROVE  /\ AddU16(f) \in [NTs \X U16s -> U16s] /\ 0 \in U16s
           /\ \A t \in NTs, v \in U16s : AddU16(f)[<<t, v>>] = (f[t] + v) % U16
  <1>1. U16 \in Nat \ {0}
        BY DEF U16
  <1>2. \A p \in NTs \X U16s : (f[p[1]] + p[2]) % U16 \in U16s
    <2> SUFFICES ASSUME NEW t \in NTs, NEW v \in U16s
                 PROVE  (f[t] + v) % U16 \in U16s
        OBVIOUS
    <2>1. f[t] + v \in Int
          BY DEF U16s
    <2>. QED BY <1>1, <2>1, ModRange DEF U16s
  <1>. QED BY <1>1, <1>2 DEF AddU16, U16s

(* The remainder of a sum is that of the sum with the remainder of a part. *)
LEMMA ModPart ==
    \A x, y \in Int : /\ (y + (x % U16)) % U16 = (y + x) % U16
                      /\ ((x % U16) + y) % U16 = (x + y) % U16
                      /\ x % U16 \in Int
  BY DEF U16

(* Summands and an increment may come in any order. *)
LEMMA ModAdd ==
    ASSUME NEW a \in U16s, NEW b \in U16s, NEW v \in U16s
    PROVE  /\ (a + ((b + v) % U16)) % U16 = (b + ((a + v) % U16)) % U16
           /\ (Inc(a) + v) % U16 = Inc((a + v) % U16)
           /\ (Dec(a) + v) % U16 = Dec((a + v) % U16)
  <1>1. a \in Int /\ b \in Int /\ v \in Int
        BY DEF U16s
  <1>3. PICK bv \in Int : bv = b + v
        BY <1>1
  <1>4. PICK av \in Int : av = a + v
        BY <1>1
  <1>5. PICK up \in Int : up = a + 1
        BY <1>1
  <1>6. PICK down \in Int : down = a - 1
        BY <1>1
  <1>7. PICK one \in Int, less \in Int : one = 1 /\ less = -1
        OBVIOUS
  <1>8. /\ (a + (bv % U16)) % U16 = (a + bv) % U16
        /\ (b + (av % U16)) % U16 = (b + av) % U16
        BY <1>1, ModPart
  <1>9. a + bv = b + av
        BY <1>1, <1>3, <1>4
  <1>10. /\ ((up % U16) + v) % U16 = (up + v) % U16
         /\ ((av % U16) + one) % U16 = (av + one) % U16
         /\ ((down % U16) + v) % U16 = (down + v) % U16
         /\ ((av % U16) + less) % U16 = (av + less) % U16
         BY <1>1, ModPart
  <1>11. up + v = av + one /\ down + v = av + less
         BY <1>1, <1>4, <1>5, <1>6, <1>7
  <1>12. PICK ma \in Int : ma = av % U16
         BY ModPart
  <1>13. ma + 1 = ma + one /\ ma - 1 = ma + less
         BY <1>7
  <1>14. Inc(a) = up % U16 /\ Dec(a) = down % U16
         BY <1>5, <1>6 DEF Inc, Dec
  <1>15. Inc(ma) = (ma + one) % U16 /\ Dec(ma) = (ma + less) % U16
         BY <1>13 DEF Inc, Dec
  <1>16. (a + ((b + v) % U16)) % U16 = (b + ((a + v) % U16)) % U16
         BY <1>3, <1>4, <1>8, <1>9
  <1>17. (Inc(a) + v) % U16 = Inc((a + v) % U16)
         BY <1>4, <1>10, <1>11, <1>12, <1>14, <1>15
  <1>18. (Dec(a) + v) % U16 = Dec((a + v) % U16)
         BY <1>4, <1>10, <1>11, <1>12, <1>14, <1>15
  <1>. QED BY <1>16, <1>17, <1>18

(* Any counter may be the one added last. *)
LEMMA SumU16Any ==
    ASSUME NEW f \in [NTs -> U16s], NEW g, IsSumU16(g, f)
    PROVE  \A s \in SUBSET NTs : \A t \in s : g[s] = (f[t] + g[s \ {t}]) % U16
  <1>1. PICK A : A = AddU16(f)
        OBVIOUS
  <1>2. \A t \in NTs, v \in U16s : A[<<t, v>>] = (f[t] + v) % U16 /\ A[<<t, v>>] \in U16s
    <2>1. A \in [NTs \X U16s -> U16s]
          BY <1>1, AddType
    <2>2. \A t \in NTs, v \in U16s : A[<<t, v>>] = (f[t] + v) % U16
          BY <1>1, AddType
    <2>. QED BY <2>1, <2>2
  <1>3. Commutes(A, NTs, U16s)
    <2> SUFFICES ASSUME NEW x \in NTs, NEW y \in NTs, NEW v \in U16s
                 PROVE  A[<<x, A[<<y, v>>]>>] = A[<<y, A[<<x, v>>]>>]
        BY DEF Commutes
    <2>1. /\ A[<<y, v>>] = (f[y] + v) % U16 /\ A[<<y, v>>] \in U16s
          /\ A[<<x, v>>] = (f[x] + v) % U16 /\ A[<<x, v>>] \in U16s
          BY <1>2
    <2>2. /\ A[<<x, A[<<y, v>>]>>] = (f[x] + ((f[y] + v) % U16)) % U16
          /\ A[<<y, A[<<x, v>>]>>] = (f[y] + ((f[x] + v) % U16)) % U16
          BY <1>2, <2>1
    <2>. QED BY <2>2, ModAdd
  <1>4. Folding(g, A, 0, NTs, U16s) /\ IsFiniteSet(NTs)
        BY <1>1, SetsAssumption DEF IsSumU16
  <1>5. \A s \in SUBSET NTs : \A t \in s : g[s] = A[<<t, g[s \ {t}]>>]
        BY <1>3, <1>4, FoldAny
  <1>6. g \in [SUBSET NTs -> U16s]
        BY <1>4 DEF Folding
  <1> SUFFICES ASSUME NEW s \in SUBSET NTs, NEW t \in s
               PROVE  g[s] = (f[t] + g[s \ {t}]) % U16
      OBVIOUS
  <1>7. g[s \ {t}] \in U16s
        BY <1>6
  <1>. QED BY <1>2, <1>5, <1>7

(* The sum over a set depends on the counters of that set only. *)
LEMMA SumU16Same ==
    ASSUME NEW f1 \in [NTs -> U16s], NEW g1, IsSumU16(g1, f1),
           NEW f2 \in [NTs -> U16s], NEW g2, IsSumU16(g2, f2),
           NEW T \in SUBSET NTs, \A t \in T : f1[t] = f2[t]
    PROVE  g1[T] = g2[T]
  <1>1. PICK A1 : A1 = AddU16(f1)
        OBVIOUS
  <1>2. PICK A2 : A2 = AddU16(f2)
        OBVIOUS
  <1>3. Agree(A1, A2, T, U16s)
    <2> SUFFICES ASSUME NEW t \in T, NEW v \in U16s
                 PROVE  A1[<<t, v>>] = A2[<<t, v>>]
        BY DEF Agree
    <2>1. A1[<<t, v>>] = (f1[t] + v) % U16
          BY <1>1 DEF AddU16
    <2>2. A2[<<t, v>>] = (f2[t] + v) % U16
          BY <1>2 DEF AddU16
    <2>. QED BY <2>1, <2>2
  <1>4. /\ Folding(g1, A1, 0, NTs, U16s) /\ Folding(g2, A2, 0, NTs, U16s)
        /\ IsFiniteSet(NTs)
        BY <1>1, <1>2, SetsAssumption DEF IsSumU16
  <1>. QED BY <1>3, <1>4, FoldSame

(* SumOver of NfLifecycle is that sum. *)
LEMMA SumOverIs ==
    ASSUME NEW f \in [NTs -> U16s], NEW g, IsSumU16(g, f)
    PROVE  SumOver(f) = g[NTs]
  <1>0. IsSumU16(g, f) /\ f \in [NTs -> U16s]
        OBVIOUS
  <1>6. ASSUME NEW s \in SUBSET NTs, NEW t \in s
        PROVE  g[s] = (f[t] + g[s \ {t}]) % U16
        BY <1>0, SumU16Any
  <1> DEFINE iter == CHOOSE h : h = [s \in SUBSET NTs |->
                         IF s = {} THEN 0 ELSE (f[Pick(s)] + h[s \ {Pick(s)}]) % U16]
  <1>1. SumOver(f) = iter[NTs]
        BY DEF SumOver, FoldSet, MapThenFoldSet, Pick
  <1>2. g = [s \in SUBSET NTs |->
                IF s = {} THEN 0 ELSE (f[Pick(s)] + g[s \ {Pick(s)}]) % U16]
    <2>1. g \in [SUBSET NTs -> U16s] /\ g[{}] = 0
          BY DEF IsSumU16, Folding, IsFold
    <2>2. ASSUME NEW s \in SUBSET NTs, s # {}
          PROVE  g[s] = (f[Pick(s)] + g[s \ {Pick(s)}]) % U16
      <3>1. Pick(s) \in s
            BY <2>2, PickIn
      <3>. QED BY <1>6, <3>1
    <2>. QED BY <2>1, <2>2
  <1>3. iter = [s \in SUBSET NTs |->
                   IF s = {} THEN 0 ELSE (f[Pick(s)] + iter[s \ {Pick(s)}]) % U16]
        BY <1>2
  <1> HIDE DEF iter
  <1>4. Obeys(iter, AddU16(f), 0, NTs, U16s)
    <2>1. iter[{}] = 0
          BY <1>3
    <2>2. ASSUME NEW s \in SUBSET NTs, s # {}, iter[s \ {Pick(s)}] \in U16s
          PROVE  iter[s] = AddU16(f)[<<Pick(s), iter[s \ {Pick(s)}]>>]
      <3>1. PICK t \in NTs, v \in U16s : t = Pick(s) /\ v = iter[s \ {Pick(s)}]
            BY <2>2, PickIn
      <3>2. iter[s] = (f[t] + v) % U16
            BY <1>3, <2>2, <3>1
      <3>3. AddU16(f)[<<t, v>>] = (f[t] + v) % U16
            BY DEF AddU16
      <3>. QED BY <3>1, <3>2, <3>3
    <2>. QED BY <2>1, <2>2 DEF Obeys
  <1>5. Folding(g, AddU16(f), 0, NTs, U16s) /\ IsFiniteSet(NTs)
        BY SetsAssumption DEF IsSumU16
  <1>. QED BY <1>1, <1>4, <1>5, FoldUnique

(* Any counters have such a sum. *)
LEMMA SumU16Exists ==
    ASSUME NEW f \in [NTs -> U16s]
    PROVE  \E g : IsSumU16(g, f)
  <1>1. PICK A : A = AddU16(f)
        OBVIOUS
  <1>2. A \in [NTs \X U16s -> U16s] /\ 0 \in U16s /\ IsFiniteSet(NTs)
        BY <1>1, AddType, SetsAssumption
  <1>3. \E g \in [SUBSET NTs -> U16s] : IsFold(g, A, 0, NTs)
        BY <1>2, FoldExists
  <1>. QED BY <1>1, <1>2, <1>3 DEF IsSumU16, Folding

(* Counting one type up or down counts the sum up or down. *)
LEMMA SumCounts ==
    ASSUME NEW f \in [NTs -> U16s], NEW t \in NTs
    PROVE  /\ SumOver([f EXCEPT ![t] = Inc(@)]) = Inc(SumOver(f))
           /\ SumOver([f EXCEPT ![t] = Dec(@)]) = Dec(SumOver(f))
  <1>1. ASSUME NEW f2 \in [NTs -> U16s], \A y \in NTs \ {t} : f2[y] = f[y]
        PROVE  \E r \in U16s : /\ SumOver(f) = (f[t] + r) % U16
                               /\ SumOver(f2) = (f2[t] + r) % U16
    <2>1. PICK g : IsSumU16(g, f)
          BY SumU16Exists
    <2>2. PICK g2 : IsSumU16(g2, f2)
          BY SumU16Exists
    <2>3. g[NTs \ {t}] = g2[NTs \ {t}]
          BY <1>1, <2>1, <2>2, SumU16Same
    <2>4. g[NTs] = (f[t] + g[NTs \ {t}]) % U16
          BY <2>1, SumU16Any
    <2>5. g2[NTs] = (f2[t] + g2[NTs \ {t}]) % U16
          BY <2>2, SumU16Any
    <2>6. SumOver(f) = g[NTs] /\ SumOver(f2) = g2[NTs]
          BY <2>1, <2>2, SumOverIs
    <2>7. g[NTs \ {t}] \in U16s
          BY <2>1 DEF IsSumU16, Folding
    <2>. QED BY <2>3, <2>4, <2>5, <2>6, <2>7
  <1>2. PICK up : up = [f EXCEPT ![t] = Inc(@)]
        OBVIOUS
  <1>3. PICK down : down = [f EXCEPT ![t] = Dec(@)]
        OBVIOUS
  <1>4. /\ up \in [NTs -> U16s] /\ down \in [NTs -> U16s]
        /\ up[t] = Inc(f[t]) /\ down[t] = Dec(f[t])
        /\ \A y \in NTs \ {t} : up[y] = f[y] /\ down[y] = f[y]
        BY <1>2, <1>3, IncDec
  <1>5. PICK r \in U16s : SumOver(f) = (f[t] + r) % U16 /\ SumOver(up) = (up[t] + r) % U16
        BY <1>1, <1>4
  <1>6. PICK s \in U16s : SumOver(f) = (f[t] + s) % U16 /\ SumOver(down) = (down[t] + s) % U16
        BY <1>1, <1>4
  <1>7. SumOver(up) = Inc(SumOver(f))
        BY <1>4, <1>5, ModAdd
  <1>8. SumOver(down) = Dec(SumOver(f))
        BY <1>4, <1>6, ModAdd
  <1>. QED BY <1>2, <1>3, <1>7, <1>8

-----------------------------------------------------------------------------
(* The type that nf_ready and nf_stop count is the one the NF was started
   with: a struct keeps its type, and a registered id its place in the table,
   while a thread or a message holds the struct, also when operators choose the
   ids.  It goes back to the mempool once, after its last message. *)
Typed(i) == type_id[i] \in NTs
AtAnId ==
    \A i \in Infos :
        status[i] = "STARTING" \/ pc[i] \in Going => inst_id[i] \in Ids
HeldByThread ==
    \A i \in Infos : pc[i] # "none" => i \notin info_pool /\ Typed(i)
MsgsTyped == \A k \in 1 .. Len(Flight) : Typed(Flight[k].info)
PublishedTyped == \A id \in Ids : nf_info[id] # NULL => Typed(nf_info[id])
StopsOnce ==
    \A k \in 1 .. Len(Flight) : IsMsg(k, "NF_STOPPING") =>
        /\ pc[Flight[k].info] = "none" /\ Flight[k].info \notin info_pool
        /\ \A j \in 1 .. Len(Flight) :
              IsMsg(j, "NF_STOPPING") /\ Flight[j].info = Flight[k].info => j = k
HeldInv ==
    /\ AtAnId /\ HeldByThread /\ MsgsTyped /\ PublishedTyped /\ StopsOnce

(* A step that leaves the structs and the messages alone keeps it, when threads
   only move on or die. *)
LEMMA HeldQuiet ==
    ASSUME TypeOK, HeldInv, Flight' = Flight,
           UNCHANGED <<status, inst_id, type_id, info_pool, nf_info>>,
           \A j \in Infos : pc'[j] # pc[j] =>
               /\ pc[j] # "none"
               /\ pc'[j] \in Going => pc[j] \in Going \/ status[j] = "STARTING"
    PROVE  HeldInv'
  <1> USE DEF HeldInv
  <1>1. \A k \in 1 .. Len(Flight) : Flight[k].info \in Infos
        BY FlightType DEF Msg
  <1>2. AtAnId'
        BY DEF AtAnId
  <1>3. HeldByThread'
        BY DEF HeldByThread, Typed
  <1>4. MsgsTyped' /\ PublishedTyped'
        BY DEF MsgsTyped, PublishedTyped, Typed
  <1>5. \A j \in Infos : pc[j] = "none" => pc'[j] = "none"
        OBVIOUS
  <1>6. StopsOnce'
    <2> SUFFICES ASSUME NEW k \in 1 .. Len(Flight), IsMsg(k, "NF_STOPPING")'
                 PROVE  /\ pc'[Flight[k].info] = "none" /\ Flight[k].info \notin info_pool
                        /\ \A j \in 1 .. Len(Flight) :
                              IsMsg(j, "NF_STOPPING")' /\ Flight[j].info = Flight[k].info
                                  => j = k
        BY DEF StopsOnce
    <2>1. \A j : IsMsg(j, "NF_STOPPING")' <=> IsMsg(j, "NF_STOPPING")
          BY DEF IsMsg
    <2>. QED BY <1>1, <1>5, <2>1 DEF StopsOnce
  <1>. QED BY <1>2, <1>3, <1>4, <1>6

(* A message that is handled leaves the others as they were. *)
LEMMA HeldTaken ==
    ASSUME TypeOK, HeldInv, NEW type, NEW i \in Infos, Handling(type, i),
           UNCHANGED type_id, info_pool' \subseteq info_pool \cup {i},
           type # "NF_STOPPING" => info_pool' = info_pool
    PROVE  MsgsTyped' /\ StopsOnce' /\ Typed(i) /\ pc' = pc
  <1> USE DEF HeldInv
  <1>1. /\ 1 \in 1 .. Len(Flight) /\ Flight[1].msg_type = type /\ Flight[1].info = i
        /\ \A k \in 1 .. Len(Flight') :
              k \in Int /\ k + 1 \in 1 .. Len(Flight) /\ Flight'[k] = Flight[k + 1]
        BY FlightTaken
  <1>2. pc' = pc
        BY DEF Handling, nfVars
  <1>3. MsgsTyped'
        BY <1>1 DEF MsgsTyped, Typed
  <1>4. Typed(i)
        BY <1>1 DEF MsgsTyped
  <1>5. StopsOnce'
    <2> SUFFICES ASSUME NEW k \in 1 .. Len(Flight'), IsMsg(k, "NF_STOPPING")'
                 PROVE  /\ pc'[Flight'[k].info] = "none" /\ Flight'[k].info \notin info_pool'
                        /\ \A j \in 1 .. Len(Flight') :
                              IsMsg(j, "NF_STOPPING")' /\ Flight'[j].info = Flight'[k].info
                                  => j = k
        BY DEF StopsOnce
    <2>1. k + 1 \in 1 .. Len(Flight) /\ Flight'[k] = Flight[k + 1] /\ k \in Int
          BY <1>1
    <2>2. IsMsg(k + 1, "NF_STOPPING")
          BY <2>1 DEF IsMsg
    <2>3. /\ pc[Flight'[k].info] = "none" /\ Flight'[k].info \notin info_pool
          /\ \A j \in 1 .. Len(Flight) :
                IsMsg(j, "NF_STOPPING") /\ Flight[j].info = Flight'[k].info => j = k + 1
          BY <2>1, <2>2 DEF StopsOnce
    <2>4. k + 1 # 1 /\ 1 \in Int
          BY <2>1, <1>1
    <2>5. type = "NF_STOPPING" => Flight'[k].info # i
          BY <1>1, <2>3, <2>4 DEF IsMsg
    <2>6. Flight'[k].info \notin info_pool'
          BY <2>3, <2>5
    <2>7. ASSUME NEW j \in 1 .. Len(Flight'), IsMsg(j, "NF_STOPPING")',
                 Flight'[j].info = Flight'[k].info
          PROVE  j = k
      <3>1. j + 1 \in 1 .. Len(Flight) /\ Flight'[j] = Flight[j + 1] /\ j \in Int
            BY <1>1
      <3>2. IsMsg(j + 1, "NF_STOPPING")
            BY <2>7, <3>1 DEF IsMsg
      <3>3. j + 1 = k + 1
            BY <2>3, <2>7, <3>1, <3>2
      <3>. QED BY <2>1, <3>1, <3>3
    <2>. QED BY <1>2, <2>3, <2>6, <2>7
  <1>. QED BY <1>2, <1>3, <1>4, <1>5

(* The handlers of the master that register nothing keep it. *)
LEMMA HeldHandle ==
    ASSUME TypeOK, HeldInv, NEW i \in Infos,
           NfReady(i) \/ NfStop(i) \/ NfBlock(i) \/ NfRun(i) \/ NfSrvTime(i)
    PROVE  HeldInv'
  <1> USE DEF HeldInv
  <1>1. PICK type : /\ Handling(type, i)
                    /\ type = "NF_STOPPING" => info_pool' = info_pool \cup {i}
                    /\ type # "NF_STOPPING" => info_pool' = info_pool
        BY DEF NfReady, NfStop, NfBlock, NfRun, NfSrvTime, infoVars
  <1>2. UNCHANGED <<inst_id, type_id>>
        BY DEF NfReady, NfStop, NfBlock, NfRun, NfSrvTime, infoVars
  <1>3. MsgsTyped' /\ StopsOnce' /\ Typed(i) /\ pc' = pc
        BY <1>1, <1>2, HeldTaken
  <1>4. status \in [Infos -> Status] /\ nf_info \in [Ids -> Infos \cup {NULL}]
        BY DEF TypeOK, InfoTypes, TableTypes
  <1>5. \A j \in Infos : status'[j] = "STARTING" => status[j] = "STARTING"
    <2>1. CASE NfReady(i)
          BY <1>4, <2>1 DEF NfReady
    <2>2. CASE NfBlock(i) \/ NfRun(i)
      <3>1. \/ status' = status
            \/ /\ status[i] \in {"BLOCKED", "RUNNING"}
               /\ status' = [status EXCEPT ![nf_info[inst_id[i]]] = status[i]]
            BY <2>2 DEF NfBlock, NfRun, PublishStatus
      <3>. QED BY <1>4, <3>1
    <2>3. CASE NfStop(i) \/ NfSrvTime(i)
          BY <2>3 DEF NfStop, NfSrvTime, infoVars
    <2>. QED BY <2>1, <2>2, <2>3
  <1>6. AtAnId'
        BY <1>2, <1>3, <1>5 DEF AtAnId
  <1>7. \A id \in Ids : nf_info'[id] # NULL => nf_info'[id] = nf_info[id]
        BY <1>4 DEF NfReady, NfStop, NfBlock, NfRun, NfSrvTime, tableVars
  <1>8. PublishedTyped'
        BY <1>2, <1>7 DEF PublishedTyped, Typed
  <1>9. \A j \in Infos : pc[j] # "none" => j \notin info_pool'
    <2>1. CASE type = "NF_STOPPING"
      <3>1. 1 \in 1 .. Len(Flight) /\ IsMsg(1, "NF_STOPPING") /\ Flight[1].info = i
            BY <1>1, <2>1, FlightTaken DEF IsMsg
      <3>2. pc[i] = "none"
            BY <3>1 DEF StopsOnce
      <3>. QED BY <1>1, <2>1, <3>2 DEF HeldByThread
    <2>. QED BY <1>1, <2>1 DEF HeldByThread
  <1>10. HeldByThread'
        BY <1>2, <1>3, <1>9 DEF HeldByThread, Typed
  <1>. QED BY <1>3, <1>6, <1>8, <1>10

(* nf_start keeps it: it registers the NF at an id of the table. *)
LEMMA HeldStart ==
    ASSUME TypeOK, HeldInv, NEW i \in Infos, NfStart(i)
    PROVE  HeldInv'
  <1> USE DEF HeldInv
  <1>1. /\ Handling("NF_STARTING", i)
        /\ UNCHANGED <<type_id, info_pool>>
        BY DEF NfStart
  <1>2. MsgsTyped' /\ StopsOnce' /\ Typed(i) /\ pc' = pc
        BY <1>1, HeldTaken
  <1>3. /\ status \in [Infos -> Status] /\ nf_info \in [Ids -> Infos \cup {NULL}]
        /\ inst_id \in [Infos -> U16s]
        BY DEF TypeOK, InfoTypes, TableTypes
  <1>4. HeldByThread'
        BY <1>1, <1>2 DEF HeldByThread, Typed
  <1>5. CASE UNCHANGED <<status, inst_id, nf_info>>
        BY <1>1, <1>2, <1>4, <1>5 DEF AtAnId, PublishedTyped, Typed
  <1>6. ASSUME NEW why \in {"NO_IDS", "ID_CONFLICT"}, Refuse(i, why) PROVE HeldInv'
    <2>1. AtAnId'
          BY <1>2, <1>3, <1>6 DEF AtAnId, Refuse
    <2>2. PublishedTyped'
          BY <1>1, <1>6 DEF PublishedTyped, Typed, Refuse
    <2>. QED BY <1>2, <1>4, <2>1, <2>2
  <1>7. ASSUME NEW id \in Ids, Register(i, id) PROVE HeldInv'
    <2>1. AtAnId'
          BY <1>2, <1>3, <1>7 DEF AtAnId, Register
    <2>2. \A n \in Ids : nf_info'[n] \in {i, nf_info[n]}
          BY <1>3, <1>7 DEF Register
    <2>3. PublishedTyped'
          BY <1>1, <1>2, <2>2 DEF PublishedTyped, Typed
    <2>. QED BY <1>2, <1>4, <2>1, <2>3
  <1>8. ASSUME NEW id \in Ids \cup {MAX_NFS, inst_id[i]}, Assign(i, id) PROVE HeldInv'
    <2>1. id < MAX_NFS => id \in Ids
          BY <1>3, NumbersAssumption DEF Ids, U16s
    <2>. QED BY <1>6, <1>7, <1>8, <2>1 DEF Assign
  <1>. QED BY <1>5, <1>8 DEF NfStart

(* A message of an NF thread keeps it, when it is about a struct of a known
   type, and the last one of its own NF if it says that the NF stops. *)
LEMMA HeldSent ==
    ASSUME TypeOK, HeldInv, NEW i \in Infos, NEW p \in Infos, NEW type \in MsgType,
           Send(type, p), Typed(p),
           NEW next \in {"none"} \cup Going, pc[i] \in Going,
           pc' = [pc EXCEPT ![i] = next],
           type = "NF_STOPPING" => p = i /\ next = "none",
           \A j \in Infos : status'[j] = "STARTING" => status[j] = "STARTING",
           UNCHANGED <<inst_id, type_id, info_pool, nf_info, msgs>>
    PROVE  HeldInv'
  <1> USE DEF HeldInv
  <1>1. pc \in [Infos -> PCs] /\ "none" \notin Going
        BY DEF TypeOK, NfTypes, Going, InLoop
  <1>2. \A j \in Infos : /\ pc'[j] \in Going => pc[j] \in Going
                         /\ pc'[j] # "none" => pc[j] # "none"
                         /\ pc[j] = "none" => pc'[j] = "none"
        BY <1>1
  <1>3. AtAnId' /\ HeldByThread' /\ PublishedTyped'
        BY <1>2 DEF AtAnId, HeldByThread, PublishedTyped, Typed
  <1> DEFINE n == Len(Flight')
  <1>4. /\ Flight'[n].msg_type = type /\ Flight'[n].info = p
        /\ n = Len(Flight) + 1
        /\ \A k \in 1 .. n : k # n =>
              k \in 1 .. Len(Flight) /\ Flight'[k] = Flight[k]
        BY FlightSent
  <1>5. Len(Flight) \in Nat /\ \A k \in 1 .. Len(Flight) : Flight[k].info \in Infos
        BY FlightType DEF Msg
  <1> HIDE DEF n
  <1>6. MsgsTyped'
    <2> SUFFICES ASSUME NEW k \in 1 .. n PROVE type_id'[Flight'[k].info] \in NTs
        BY DEF MsgsTyped, Typed, n
    <2>. QED BY <1>4 DEF MsgsTyped, Typed
  <1>7. StopsOnce'
    <2> SUFFICES ASSUME NEW k \in 1 .. n, IsMsg(k, "NF_STOPPING")'
                 PROVE  /\ pc'[Flight'[k].info] = "none" /\ Flight'[k].info \notin info_pool'
                        /\ \A j \in 1 .. n :
                              IsMsg(j, "NF_STOPPING")' /\ Flight'[j].info = Flight'[k].info
                                  => j = k
        BY DEF StopsOnce, n
    <2>1. ASSUME NEW j \in 1 .. n, j # n, IsMsg(j, "NF_STOPPING")'
          PROVE  /\ j \in 1 .. Len(Flight) /\ IsMsg(j, "NF_STOPPING")
                 /\ Flight'[j] = Flight[j] /\ Flight'[j].info # i
                 /\ pc'[Flight'[j].info] = "none"
      <3>1. j \in 1 .. Len(Flight) /\ Flight'[j] = Flight[j]
            BY <1>4, <2>1
      <3>2. IsMsg(j, "NF_STOPPING")
            BY <2>1, <3>1 DEF IsMsg
      <3>3. pc[Flight[j].info] = "none" /\ Flight[j].info \in Infos
            BY <1>5, <3>1, <3>2 DEF StopsOnce
      <3>. QED BY <1>1, <1>2, <3>1, <3>2, <3>3
    <2>2. CASE k = n
      <3>1. type = "NF_STOPPING"
            BY <1>4, <2>2 DEF IsMsg
      <3>2. pc'[i] = "none" /\ i \notin info_pool' /\ Flight'[k].info = i
            BY <1>1, <1>4, <2>2, <3>1 DEF HeldByThread
      <3>. QED BY <2>1, <2>2, <3>2
    <2>3. CASE k # n
      <3>1. /\ k \in 1 .. Len(Flight) /\ IsMsg(k, "NF_STOPPING")
            /\ Flight'[k] = Flight[k] /\ Flight'[k].info # i
            /\ pc'[Flight'[k].info] = "none"
            BY <2>1, <2>3
      <3>2. Flight'[k].info \notin info_pool'
            BY <3>1 DEF StopsOnce
      <3>3. ASSUME NEW j \in 1 .. n, IsMsg(j, "NF_STOPPING")',
                   Flight'[j].info = Flight'[k].info
            PROVE  j = k
        <4>1. j # n
          <5>1. CASE type = "NF_STOPPING"
                BY <1>4, <3>1, <3>3, <5>1
          <5>2. CASE type # "NF_STOPPING"
                BY <1>4, <3>3, <5>2 DEF IsMsg
          <5>. QED BY <5>1, <5>2
        <4>2. /\ j \in 1 .. Len(Flight) /\ IsMsg(j, "NF_STOPPING")
              /\ Flight'[j] = Flight[j]
              BY <2>1, <3>3, <4>1
        <4>. QED BY <3>1, <3>3, <4>2 DEF StopsOnce
      <3>. QED BY <3>1, <3>2, <3>3
    <2>. QED BY <2>2, <2>3
  <1>. QED BY <1>3, <1>6, <1>7

(* d2sc_nfrt_init keeps it: nothing is left of a struct of the mempool but what
   other NFs may say about it. *)
LEMMA HeldLaunch ==
    ASSUME TypeOK, HeldInv, "overrun" \notin Env, NEW i \in Infos, NEW t \in NTs,
           NEW id \in UserIds \cup {NO_ID}, Launch(i, t, id)
    PROVE  HeldInv'
  <1> USE DEF HeldInv
  <1>1. /\ i \in info_pool /\ Send("NF_STARTING", i)
        /\ status' = [status EXCEPT ![i] = "WAITTING_FOR_ID"]
        /\ inst_id' = [inst_id EXCEPT ![i] = id]
        /\ type_id' = [type_id EXCEPT ![i] = t]
        /\ pc' = [pc EXCEPT ![i] = "waiting"]
        /\ info_pool' = info_pool \ {i}
        /\ UNCHANGED <<nf_info, msgs>>
        BY DEF Launch, SendFails, tableVars, masterVars
  <1>2. /\ pc \in [Infos -> PCs] /\ status \in [Infos -> Status]
        /\ inst_id \in [Infos -> U16s] /\ type_id \in [Infos -> NTs \cup {0}]
        /\ nf_info \in [Ids -> Infos \cup {NULL}]
        BY DEF TypeOK, NfTypes, InfoTypes, TableTypes
  <1>3. /\ status'[i] = "WAITTING_FOR_ID" /\ type_id'[i] = t
        /\ pc'[i] = "waiting" /\ i \notin info_pool'
        /\ \A j \in Infos : j # i =>
              /\ status'[j] = status[j] /\ inst_id'[j] = inst_id[j]
              /\ type_id'[j] = type_id[j]
              /\ pc'[j] = pc[j] /\ (j \in info_pool' => j \in info_pool)
        BY <1>1, <1>2
  <1>4. \A j \in Infos : type_id[j] \in NTs => type_id'[j] \in NTs
        BY <1>3
  <1>5. AtAnId'
        BY <1>3 DEF AtAnId, Going, InLoop
  <1>6. HeldByThread'
        BY <1>3, <1>4 DEF HeldByThread, Typed
  <1>7. PublishedTyped'
        BY <1>1, <1>2, <1>4 DEF PublishedTyped, Typed
  <1> DEFINE n == Len(Flight')
  <1>8. "NF_STARTING" \in MsgType
        BY DEF MsgType
  <1>9. /\ Flight'[n].msg_type = "NF_STARTING" /\ Flight'[n].info = i
        /\ n = Len(Flight) + 1
        /\ \A k \in 1 .. n : k # n =>
              k \in 1 .. Len(Flight) /\ Flight'[k] = Flight[k]
        BY <1>1, <1>8, FlightSent
  <1>10. Len(Flight) \in Nat /\ \A k \in 1 .. Len(Flight) : Flight[k].info \in Infos
         BY FlightType DEF Msg
  <1> HIDE DEF n
  <1>11. MsgsTyped'
    <2> SUFFICES ASSUME NEW k \in 1 .. n PROVE type_id'[Flight'[k].info] \in NTs
        BY DEF MsgsTyped, Typed, n
    <2>. QED BY <1>3, <1>4, <1>9, <1>10 DEF MsgsTyped, Typed
  <1>12. StopsOnce'
    <2> SUFFICES ASSUME NEW k \in 1 .. n, IsMsg(k, "NF_STOPPING")'
                 PROVE  /\ pc'[Flight'[k].info] = "none" /\ Flight'[k].info \notin info_pool'
                        /\ \A j \in 1 .. n :
                              IsMsg(j, "NF_STOPPING")' /\ Flight'[j].info = Flight'[k].info
                                  => j = k
        BY DEF StopsOnce, n
    <2>1. ASSUME NEW j \in 1 .. n, IsMsg(j, "NF_STOPPING")'
          PROVE  /\ j \in 1 .. Len(Flight) /\ IsMsg(j, "NF_STOPPING")
                 /\ Flight'[j] = Flight[j]
      <3>1. j # n
            BY <1>9, <2>1 DEF IsMsg
      <3>2. j \in 1 .. Len(Flight) /\ Flight'[j] = Flight[j]
            BY <1>9, <3>1
      <3>. QED BY <2>1, <3>2 DEF IsMsg
    <2>2. /\ pc[Flight[k].info] = "none" /\ Flight[k].info \notin info_pool
          /\ \A j \in 1 .. Len(Flight) :
                IsMsg(j, "NF_STOPPING") /\ Flight[j].info = Flight[k].info => j = k
          BY <2>1 DEF StopsOnce
    <2>3. Flight[k].info # i /\ Flight[k].info \in Infos
          BY <1>1, <1>10, <2>1, <2>2
    <2>. QED BY <1>3, <2>1, <2>2, <2>3
  <1>. QED BY <1>5, <1>6, <1>7, <1>11, <1>12

(* The end of the wait for an id keeps it. *)
LEMMA HeldAnswered ==
    ASSUME TypeOK, HeldInv, NEW i \in Infos, Answered(i)
    PROVE  HeldInv'
  <1> USE DEF HeldInv
  <1>1. /\ pc[i] = "waiting" /\ Flight' = Flight
        /\ UNCHANGED <<status, inst_id, type_id, nf_info>>
        BY DEF Answered, tableVars, queueVars, masterVars, Flight
  <1>2. pc \in [Infos -> PCs]
        BY DEF TypeOK, NfTypes
  <1>3. CASE /\ status[i] = "STARTING" /\ pc' = [pc EXCEPT ![i] = "started"]
             /\ UNCHANGED info_pool
    <2>1. \A j \in Infos : pc'[j] # pc[j] => j = i
          BY <1>2, <1>3
    <2>. QED BY <1>1, <1>3, <2>1, HeldQuiet
  <1>4. CASE /\ status[i] # "STARTING" /\ pc' = [pc EXCEPT ![i] = "none"]
             /\ info_pool' = info_pool \cup {i}
    <2>1. \A j \in Infos : /\ j # i => pc'[j] = pc[j]
                           /\ pc'[i] = "none"
          BY <1>2, <1>4
    <2>2. "none" \notin Going
          BY DEF Going, InLoop
    <2>3. AtAnId' /\ HeldByThread'
          BY <1>1, <1>4, <2>1, <2>2 DEF AtAnId, HeldByThread, Typed
    <2>4. MsgsTyped' /\ PublishedTyped'
          BY <1>1 DEF MsgsTyped, PublishedTyped, Typed
    <2>5. StopsOnce'
      <3>1. \A k \in 1 .. Len(Flight) : Flight[k].info \in Infos
            BY FlightType DEF Msg
      <3>2. \A k : IsMsg(k, "NF_STOPPING")' <=> IsMsg(k, "NF_STOPPING")
            BY <1>1 DEF IsMsg
      <3> SUFFICES ASSUME NEW k \in 1 .. Len(Flight), IsMsg(k, "NF_STOPPING")
                   PROVE  /\ pc'[Flight[k].info] = "none" /\ Flight[k].info \notin info_pool'
                          /\ \A j \in 1 .. Len(Flight) :
                                IsMsg(j, "NF_STOPPING") /\ Flight[j].info = Flight[k].info
                                    => j = k
          BY <1>1, <3>2 DEF StopsOnce
      <3>3. pc[Flight[k].info] = "none" /\ Flight[k].info \notin info_pool
            BY DEF StopsOnce
      <3>. QED BY <1>1, <1>4, <2>1, <3>1, <3>3 DEF StopsOnce
    <2>. QED BY <2>3, <2>4, <2>5
  <1>. QED BY <1>3, <1>4 DEF Answered

(* The other steps of an NF thread keep it. *)
LEMMA HeldThread ==
    ASSUME TypeOK, HeldInv, NEW i \in Infos,
           \/ LoopTest(i) \/ FlagTest(i) \/ ExitScan(i) \/ PowerExitFailed(i)
           \/ DequeueNewMsgs(i) \/ Signal(i) \/ Callback(i) \/ Kill(i)
    PROVE  HeldInv'
  <1>1. /\ UNCHANGED <<status, inst_id, type_id, info_pool, nf_info>>
        /\ Flight' = Flight
        BY DEF LoopTest, FlagTest, ExitScan, PowerExitFailed, DequeueNewMsgs, Signal,
               Callback, Kill, infoVars, tableVars, queueVars, masterVars, Flight
  <1>2. pc \in [Infos -> PCs]
        BY DEF TypeOK, NfTypes
  <1>3. "none" \notin Going
        BY DEF Going, InLoop
  <1>4. \/ pc' = pc
        \/ \E next \in {"none"} \cup Going :
              /\ pc' = [pc EXCEPT ![i] = next]
              /\ pc[i] \in Going \/ (next = "none" /\ pc[i] # "none")
    <2>1. CASE LoopTest(i) \/ FlagTest(i) \/ DequeueNewMsgs(i)
      <3>1. pc[i] \in Going
            BY <2>1 DEF LoopTest, FlagTest, DequeueNewMsgs, Going, InLoop
      <3>2. \E next \in {"top", "exiting", "msgs", "blocked", "scale", "srv_time"} :
               pc' = [pc EXCEPT ![i] = next]
            BY <2>1 DEF LoopTest, FlagTest, DequeueNewMsgs
      <3>. QED BY <3>1, <3>2 DEF Going, InLoop
    <2>2. CASE PowerExitFailed(i) \/ Kill(i)
          BY <2>2 DEF PowerExitFailed, Kill
    <2>3. CASE ExitScan(i) \/ Signal(i) \/ Callback(i)
          BY <2>3 DEF ExitScan, Signal, Callback
    <2>. QED BY <2>1, <2>2, <2>3
  <1>5. \A j \in Infos : pc'[j] # pc[j] =>
               /\ pc[j] # "none"
               /\ pc'[j] \in Going => pc[j] \in Going \/ status[j] = "STARTING"
        BY <1>2, <1>3, <1>4
  <1>. QED BY <1>1, <1>5, HeldQuiet

(* The messages that an NF thread sends about itself keep it. *)
LEMMA HeldMessages ==
    ASSUME TypeOK, HeldInv, "overrun" \notin Env, NEW i \in Infos,
           NfReadyMsg(i) \/ SendSrvTime(i) \/ Stop(i) \/ Abort(i)
    PROVE  HeldInv'
  <1>1. UNCHANGED <<inst_id, type_id, nf_info, msgs>>
        BY DEF NfReadyMsg, SendSrvTime, Stop, Abort, NfrtStop, tableVars, masterVars
  <1>2. pc[i] \in Going /\ "none" \notin Going
        BY DEF NfReadyMsg, SendSrvTime, Stop, Abort, Going, InLoop
  <1>3. Typed(i)
        BY <1>2 DEF HeldInv, HeldByThread
  <1>4. status \in [Infos -> Status]
        BY DEF TypeOK, InfoTypes
  <1>5. \A j \in Infos : status'[j] = "STARTING" => status[j] = "STARTING"
        BY <1>4 DEF NfReadyMsg, SendSrvTime, Stop, Abort, NfrtStop
  <1>6. PICK type \in MsgType, next \in {"none"} \cup Going :
           /\ Send(type, i) /\ pc' = [pc EXCEPT ![i] = next]
           /\ type = "NF_STOPPING" => next = "none"
           /\ info_pool' = info_pool
    <2>1. CASE NfReadyMsg(i) \/ SendSrvTime(i)
          BY <2>1 DEF NfReadyMsg, SendSrvTime, SendOrExit, SendFails, MsgType, Going, InLoop
    <2>2. CASE Stop(i) \/ Abort(i)
          BY <2>2 DEF Stop, Abort, NfrtStop, SendOrExit, SendFails, MsgType
    <2>. QED BY <2>1, <2>2
  <1>. QED BY <1>1, <1>2, <1>3, <1>5, <1>6, HeldSent

(* d2sc_nfrt_check_scale_msg keeps it, whose struct the table holds under the
   id of the thread. *)
LEMMA HeldPass ==
    ASSUME TypeOK, HeldInv, "overrun" \notin Env, NEW i \in Infos,
           RunningPass(i) \/ BlockedPass(i)
    PROVE  HeldInv'
  <1>1. PICK next \in Going : CheckScaleMsg(i, next)
        BY DEF RunningPass, BlockedPass, Going, InLoop
  <1>2. pc[i] \in Going /\ "none" \notin Going
        BY DEF RunningPass, BlockedPass, Going, InLoop
  <1>3. UNCHANGED <<inst_id, type_id, nf_info, msgs>>
        BY DEF RunningPass, BlockedPass, tableVars, masterVars
  <1>4. status \in [Infos -> Status] /\ pc \in [Infos -> PCs]
        BY DEF TypeOK, InfoTypes, NfTypes
  <1>5. CASE ScaleBlock(i, next) \/ ScaleRun(i, next)
    <2>1. PICK p \in Infos : p = Own(i)
          BY <1>5 DEF ScaleBlock, ScaleRun
    <2>2. inst_id[i] \in Ids
          BY <1>2 DEF HeldInv, AtAnId
    <2>3. Typed(p)
          BY <2>1, <2>2, SetsAssumption DEF HeldInv, PublishedTyped, Own
    <2>4. PICK type \in {"NF_BLOCKING", "NF_RUNNING"} :
             /\ Send(type, p) /\ pc' = [pc EXCEPT ![i] = next]
             /\ info_pool' = info_pool
          BY <1>5, <2>1 DEF ScaleBlock, ScaleRun, SendOrExit, SendFails
    <2>5. \A j \in Infos : status'[j] = "STARTING" => status[j] = "STARTING"
          BY <1>4, <1>5 DEF ScaleBlock, ScaleRun
    <2>6. type \in MsgType /\ type # "NF_STOPPING"
          BY DEF MsgType
    <2>. QED BY <1>2, <1>3, <2>3, <2>4, <2>5, <2>6, HeldSent
  <1>6. CASE /\ \E n \in {"none", next} : pc' = [pc EXCEPT ![i] = n]
             /\ UNCHANGED <<status, info_pool, new_msg_ring>>
    <2>1. Flight' = Flight
          BY <1>3, <1>6 DEF Flight
    <2>2. \A j \in Infos : pc'[j] # pc[j] => j = i
          BY <1>4, <1>6
    <2>. QED BY <1>2, <1>3, <1>6, <2>1, <2>2, HeldQuiet
  <1>. QED BY <1>1, <1>5, <1>6 DEF CheckScaleMsg, FollowsNull

(* So do the scale thread, the polls of the master and the start of a shutdown,
   which touch no struct. *)
LEMMA HeldOther ==
    ASSUME TypeOK, HeldInv,
           \/ ScaleStep \/ CheckStatus \/ DrainExits \/ MasterDone \/ Shutdown
           \/ UNCHANGED vars
    PROVE  HeldInv'
  <1>1. UNCHANGED <<status, inst_id, type_id, info_pool, nf_info, pc>>
    <2>1. CASE ScaleStep
          BY <2>1 DEF ScaleStep, RoundStart, RoundEnd, SetBlockFlag, BlockAgain,
                      RunParent, CheckLoad, BlockToRun, infoVars, tableVars, nfVars
    <2>2. CASE \/ CheckStatus \/ DrainExits \/ MasterDone \/ Shutdown
               \/ UNCHANGED vars
          BY <2>2 DEF CheckStatus, DrainExits, MasterDone, Shutdown, vars, infoVars,
                      tableVars, nfVars
    <2>. QED BY <2>1, <2>2
  <1>2. Flight' = Flight
    <2>1. CASE CheckStatus \/ DrainExits
          BY <2>1, FlightMoved DEF CheckStatus, DrainExits
    <2>2. CASE ScaleStep
          BY <2>2 DEF ScaleStep, RoundStart, RoundEnd, SetBlockFlag, BlockAgain,
                      RunParent, CheckLoad, BlockToRun, queueVars, masterVars, Flight
    <2>3. CASE MasterDone \/ Shutdown \/ UNCHANGED vars
          BY <2>3 DEF MasterDone, Shutdown, vars, Flight, queueVars, masterVars
    <2>. QED BY <2>1, <2>2, <2>3
  <1>. QED BY <1>1, <1>2, HeldQuiet

(* It holds at the start, when every struct is in the mempool. *)
LEMMA HeldInit == Init => HeldInv
  <1> SUFFICES ASSUME Init PROVE HeldInv
      OBVIOUS
  <1>1. Flight = <<>> /\ Len(Flight) = 0
        BY DEF Init, Flight
  <1>2. MsgsTyped /\ StopsOnce
        BY <1>1 DEF MsgsTyped, StopsOnce
  <1>3. AtAnId /\ HeldByThread /\ PublishedTyped
        BY DEF Init, AtAnId, HeldByThread, PublishedTyped, Going, InLoop
  <1>. QED BY <1>2, <1>3 DEF HeldInv

(* Every step keeps it, as long as no NF finds new_msg_ring full. *)
LEMMA HeldNext ==
    ASSUME "overrun" \notin Env
    PROVE  TypeOK /\ HeldInv /\ [Next]_vars => HeldInv'
  <1> SUFFICES ASSUME TypeOK, HeldInv, [Next]_vars PROVE HeldInv'
      OBVIOUS
  <1>1. CASE MasterStep \/ Shutdown
        BY <1>1, HeldOther, HeldStart, HeldHandle DEF MasterStep, HandleMsg
  <1>2. CASE ScaleStep
        BY <1>2, HeldOther
  <1>3. ASSUME NEW i \in Infos, NfStep(i) PROVE HeldInv'
        BY <1>3, HeldAnswered, HeldMessages, HeldThread, HeldPass DEF NfStep
  <1>4. ASSUME NEW i \in Infos, NfEvent(i) PROVE HeldInv'
        BY <1>4, HeldLaunch, HeldMessages, HeldThread DEF NfEvent
  <1>5. CASE UNCHANGED vars
        BY <1>5, HeldOther
  <1>. QED BY <1>1, <1>2, <1>3, <1>4, <1>5 DEF Next

-----------------------------------------------------------------------------
(* The sum of counters that are all 0 is 0. *)
LEMMA SumOfZeros == SumOver([t \in NTs |-> 0]) = 0
  <1> DEFINE f == [t \in NTs |-> 0]
             z == [s \in SUBSET NTs |-> 0]
  <1>1. f \in [NTs -> U16s] /\ 0 \in U16s
        BY IdFacts
  <1>2. \A t \in NTs : AddU16(f)[<<t, 0>>] = 0
    <2> SUFFICES ASSUME NEW t \in NTs PROVE AddU16(f)[<<t, 0>>] = 0
        OBVIOUS
    <2>1. AddU16(f)[<<t, 0>>] = (0 + 0) % U16
          BY <1>1 DEF AddU16
    <2>2. (0 + 0) % U16 = 0
          BY DEF U16
    <2>. QED BY <2>1, <2>2
  <1>3. IsSumU16(z, f)
    <2>1. \A s \in SUBSET NTs : s # {} => z[s] = AddU16(f)[<<Pick(s), z[s \ {Pick(s)}]>>]
          BY <1>2, PickIn
    <2>2. z \in [SUBSET NTs -> U16s] /\ z[{}] = 0
          BY <1>1
    <2>3. /\ 0 \in U16s /\ AddU16(f) \in [NTs \X U16s -> U16s]
          BY <1>1, AddType
    <2>. HIDE DEF z, f
    <2>. QED BY <2>1, <2>2, <2>3 DEF IsSumU16, Folding, IsFold
  <1>4. z[NTs] = 0
        OBVIOUS
  <1> HIDE DEF z, f
  <1>5. SumOver(f) = z[NTs]
        BY <1>1, <1>3, SumOverIs
  <1>. QED BY <1>4, <1>5 DEF f

(* nf_ready and nf_stop count the NF in num_nfs and in the counter of its type,
   and nobody else counts. *)
LEMMA CountStep ==
    ASSUME TypeOK, HeldInv, NumIsSum, [Next]_vars
    PROVE  NumIsSum'
  <1>1. nfs_per_nt_num \in [NTs -> U16s]
        BY DEF TypeOK, CountTypes
  <1>2. CASE UNCHANGED <<num_nfs, nfs_per_nt_num>>
        BY <1>2 DEF NumIsSum
  <1>3. ASSUME NEW i \in Infos, NfReady(i) PROVE NumIsSum'
    <2>1. CASE UNCHANGED <<num_nfs, nfs_per_nt_num>>
          BY <1>2, <2>1
    <2>2. CASE /\ num_nfs' = Inc(num_nfs)
               /\ nfs_per_nt_num' = [nfs_per_nt_num EXCEPT ![type_id[i]] = Inc(@)]
      <3>1. type_id[i] \in NTs
            BY <1>3, FlightTaken DEF NfReady, HeldInv, MsgsTyped, Typed
      <3>2. SumOver(nfs_per_nt_num') = Inc(SumOver(nfs_per_nt_num))
            BY <1>1, <2>2, <3>1, SumCounts
      <3>. QED BY <2>2, <3>2 DEF NumIsSum
    <2>. QED BY <1>3, <2>1, <2>2 DEF NfReady
  <1>4. ASSUME NEW i \in Infos, NfStop(i) PROVE NumIsSum'
    <2>1. /\ num_nfs' = Dec(num_nfs)
          /\ nfs_per_nt_num' = [nfs_per_nt_num EXCEPT ![type_id[i]] = Dec(@)]
          BY <1>4 DEF NfStop
    <2>2. type_id[i] \in NTs
          BY <1>4, FlightTaken DEF NfStop, HeldInv, MsgsTyped, Typed
    <2>3. SumOver(nfs_per_nt_num') = Dec(SumOver(nfs_per_nt_num))
          BY <1>1, <2>1, <2>2, SumCounts
    <2>. QED BY <2>1, <2>3 DEF NumIsSum
  <1>5. \/ UNCHANGED <<num_nfs, nfs_per_nt_num>>
        \/ \E i \in Infos : NfReady(i) \/ NfStop(i)
    <2>1. CASE MasterStep \/ Shutdown
          BY <2>1 DEF MasterStep, HandleMsg, CheckStatus, DrainExits, MasterDone,
                      Shutdown, NfStart, NfBlock, NfRun, NfSrvTime, countVars
    <2>2. CASE ScaleStep
          BY <2>2 DEF ScaleStep, RoundStart, RoundEnd, SetBlockFlag, BlockAgain,
                      RunParent, CheckLoad, BlockToRun, countVars
    <2>3. ASSUME NEW i \in Infos, NfStep(i) \/ NfEvent(i)
          PROVE  UNCHANGED <<num_nfs, nfs_per_nt_num>>
          BY <2>3 DEF NfStep, NfEvent, Answered, NfReadyMsg, LoopTest, FlagTest,
                      DequeueNewMsgs, SendSrvTime, RunningPass, BlockedPass,
                      ExitScan, Stop, PowerExitFailed, Launch, Abort, Signal,
                      Callback, Kill, NfrtStop, countVars
    <2>. QED BY <2>1, <2>2, <2>3 DEF Next, vars, countVars
  <1>. QED BY <1>2, <1>3, <1>4, <1>5

(* Nothing is counted at the start. *)
LEMMA CountInit == Init => NumIsSum
  BY SumOfZeros DEF Init, NumIsSum

(* Whoever chooses the ids, and whatever dies, is signalled, aborted, blocked
   or shut down: num_nfs is the sum of the counters of the types, as long as no
   NF finds new_msg_ring full. *)
THEOREM CountersAgree ==
    ASSUME "overrun" \notin Env
    PROVE  Spec => []NumIsSum
  <1>1. TypeOK /\ HeldInv /\ [Next]_vars => HeldInv'
        BY HeldNext
  <1>2. TypeOK /\ HeldInv /\ NumIsSum /\ [Next]_vars => NumIsSum'
        BY CountStep
  <1>. QED BY <1>1, <1>2, HeldInit, CountInit, TypeCorrect, PTL DEF Spec

-----------------------------------------------------------------------------
(* The lists of the types.  A list is its first n entries, which are not 0. *)
Prefix(list, n) == \A k \in Slots : list[k] # 0 <=> k < n
ListOnce(list) == \A j, k \in Slots : list[k] # 0 /\ list[j] = list[k] => j = k

(* The sizes of Slots are natural numbers below U16. *)
LEMMA SlotFacts ==
    /\ MAX_NFS_PER_NT \in Nat \ {0} /\ MAX_NFS_PER_NT < U16 - 1
    /\ \A k : k \in Slots <=> k \in Nat /\ k < MAX_NFS_PER_NT
  <1>1. MAX_NFS_PER_NT \in Nat \ {0} /\ MAX_NFS_PER_NT < U16 - 1
        BY NumbersAssumption DEF NO_ID
  <1>. QED BY <1>1 DEF Slots

(* Counting up and down wraps around at the ends of a uint16_t. *)
LEMMA IncDecIs ==
    \A n \in U16s : /\ n \in Nat /\ n <= U16 - 1 /\ U16 \in Nat
                    /\ Inc(n) = (IF n = U16 - 1 THEN 0 ELSE n + 1)
                    /\ Dec(n) = (IF n = 0 THEN U16 - 1 ELSE n - 1)
  <1> SUFFICES ASSUME NEW n \in U16s
               PROVE  /\ n \in Nat /\ n <= U16 - 1 /\ U16 \in Nat
                      /\ Inc(n) = (IF n = U16 - 1 THEN 0 ELSE n + 1)
                      /\ Dec(n) = (IF n = 0 THEN U16 - 1 ELSE n - 1)
      OBVIOUS
  <1>1. n \in Int /\ 0 <= n /\ n <= 65535
    <2>1. U16 \in Nat /\ U16 = 65536
          BY DEF U16
    <2>2. U16 \in Nat
          BY <2>1
    <2>3. n \in Nat /\ n <= U16 - 1
          BY <2>2 DEF U16s
    <2>. QED BY <2>1, <2>3
  <1>2. (n + 1) % 65536 = (IF n = 65535 THEN 0 ELSE n + 1)
        BY <1>1
  <1>3. (n - 1) % 65536 = (IF n = 0 THEN 65535 ELSE n - 1)
        BY <1>1
  <1>4. n \in Nat /\ n <= U16 - 1 /\ U16 \in Nat
        BY <1>1 DEF U16
  <1>5. Inc(n) = (IF n = U16 - 1 THEN 0 ELSE n + 1)
        BY <1>2 DEF Inc, U16
  <1>6. Dec(n) = (IF n = 0 THEN U16 - 1 ELSE n - 1)
        BY <1>3 DEF Dec, U16
  <1>. QED BY <1>4, <1>5, <1>6

(* What the loops of nf_stop make of a list that holds the id at m: what is
   behind it moves down; a list without the id stays as it is. *)
LEMMA WithoutIs ==
    ASSUME NEW list \in [Slots -> U16s], NEW n \in 0 .. MAX_NFS_PER_NT,
           Prefix(list, n), ListOnce(list), NEW id, id # 0
    PROVE  /\ (\A k \in Slots : list[k] # id) => Without(list, id) = list
           /\ \A m \in Slots : list[m] = id =>
                 Without(list, id) =
                     [k \in Slots |-> IF k < m \/ k >= n THEN list[k]
                                      ELSE IF k + 1 \in Slots THEN list[k + 1] ELSE 0]
  <1>1. ASSUME \A k \in Slots : list[k] # id
        PROVE  Without(list, id) = list
    <2>1. \A k \in Slots : ~Refilled(list, id, k)
      <3> SUFFICES ASSUME NEW k \in Slots, NEW m \in 0 .. k, list[m] = id PROVE FALSE
          BY DEF Refilled, IsHole
      <3>1. m \in Slots
            BY SlotFacts
      <3>. QED BY <1>1, <3>1
    <2>2. Without(list, id) = [k \in Slots |-> list[k]]
          BY <2>1 DEF Without
    <2>. QED BY <2>2
  <1>2. ASSUME NEW m \in Slots, list[m] = id
        PROVE  \A k \in Slots : Refilled(list, id, k) <=> m <= k /\ k < n
    <2> SUFFICES ASSUME NEW k \in Slots
                 PROVE  Refilled(list, id, k) <=> m <= k /\ k < n
        OBVIOUS
    <2>1. m \in Nat /\ k \in Nat /\ n \in Nat /\ m < n
          BY <1>2, SlotFacts DEF Prefix
    <2>2. \A h \in 0 .. k : h \in Slots
          BY SlotFacts
    <2>3. \A h \in 0 .. k : list[h] = id => h = m
          BY <1>2, <2>2 DEF ListOnce
    <2>4. ASSUME Refilled(list, id, k) PROVE m <= k /\ k < n
      <3>1. PICK h \in 0 .. k : list[h] = id /\ \A j \in h + 1 .. k : list[j] # 0
            BY <2>4 DEF Refilled, IsHole
      <3>2. h = m /\ m <= k
            BY <2>1, <2>3, <3>1
      <3>3. CASE m = k
            BY <2>1, <3>2, <3>3
      <3>4. CASE m # k
        <4>1. k \in h + 1 .. k
              BY <2>1, <3>2, <3>4
        <4>2. list[k] # 0
              BY <3>1, <4>1
        <4>. QED BY <3>2, <4>2 DEF Prefix
      <3>. QED BY <3>3, <3>4
    <2>5. ASSUME m <= k, k < n PROVE Refilled(list, id, k)
      <3>1. m \in 0 .. k
            BY <2>1, <2>5
      <3>2. \A j \in 0 .. m - 1 : j \in 0 .. k /\ j # m
            BY <2>1, <2>5
      <3>3. IsHole(list, id, m)
            BY <1>2, <2>3, <3>2 DEF IsHole
      <3>4. \A j \in m + 1 .. k : j \in 0 .. k /\ j < n
            BY <2>1, <2>5
      <3>5. \A j \in m + 1 .. k : list[j] # 0
            BY <2>2, <3>4 DEF Prefix
      <3>. QED BY <3>1, <3>3, <3>5 DEF Refilled
    <2>. QED BY <2>4, <2>5
  <1>3. ASSUME NEW m \in Slots, list[m] = id
        PROVE  Without(list, id) =
                  [k \in Slots |-> IF k < m \/ k >= n THEN list[k]
                                   ELSE IF k + 1 \in Slots THEN list[k + 1] ELSE 0]
    <2>1. \A k \in Slots : k \in Nat
          BY SlotFacts
    <2>2. \A k \in Slots : ~Refilled(list, id, k) <=> k < m \/ k >= n
          BY <1>2, <1>3, <2>1
    <2>. QED BY <2>2 DEF Without
  <1>. QED BY <1>1, <1>3

(* Without an id a list has the entries that it had but for that id, and one
   entry less if it held it. *)
LEMMA WithoutSound ==
    ASSUME NEW list \in [Slots -> U16s], NEW n \in 0 .. MAX_NFS_PER_NT,
           Prefix(list, n), ListOnce(list), NEW id, id # 0
    PROVE  /\ \E h \in 0 .. MAX_NFS_PER_NT :
                 h <= n /\ n - 1 <= h /\ Prefix(Without(list, id), h)
           /\ ListOnce(Without(list, id))
           /\ \A k \in Slots : Without(list, id)[k] # 0 =>
                 /\ Without(list, id)[k] # id
                 /\ \E j \in Slots : Without(list, id)[k] = list[j]
  <1>1. CASE \A k \in Slots : list[k] # id
    <2>1. Without(list, id) = list
          BY <1>1, WithoutIs
    <2>2. n <= n /\ n - 1 <= n
          BY SlotFacts
    <2>. QED BY <1>1, <2>1, <2>2
  <1>2. ASSUME NEW m \in Slots, list[m] = id
        PROVE  /\ \E h \in 0 .. MAX_NFS_PER_NT :
                     h <= n /\ n - 1 <= h /\ Prefix(Without(list, id), h)
               /\ ListOnce(Without(list, id))
               /\ \A k \in Slots : Without(list, id)[k] # 0 =>
                     /\ Without(list, id)[k] # id
                     /\ \E j \in Slots : Without(list, id)[k] = list[j]
    <2>1. PICK w : w = Without(list, id)
          OBVIOUS
    <2>2. w = [k \in Slots |-> IF k < m \/ k >= n THEN list[k]
                               ELSE IF k + 1 \in Slots THEN list[k + 1] ELSE 0]
          BY <1>2, <2>1, WithoutIs
    <2>3. /\ MAX_NFS_PER_NT \in Nat /\ m \in Nat /\ n \in Nat /\ m < n
          /\ n <= MAX_NFS_PER_NT
          /\ \A k \in Slots : k \in Nat
          BY <1>2, SlotFacts DEF Prefix
    (* Where an entry of the new list was in the old one. *)
    <2> DEFINE from(k) == IF k < m THEN k ELSE k + 1
    <2>4. ASSUME NEW k \in Slots, w[k] # 0
          PROVE  /\ from(k) \in Slots /\ from(k) < n /\ from(k) # m
                 /\ w[k] = list[from(k)] /\ k < n - 1
      <3>1. CASE k < m
            BY <2>2, <2>3, <3>1
      <3>2. CASE k >= n
        <4>1. w[k] = list[k]
              BY <2>2, <2>3, <3>2
        <4>. QED BY <2>3, <2>4, <3>2, <4>1 DEF Prefix
      <3>3. CASE ~(k < m) /\ ~(k >= n)
        <4>1. w[k] = IF k + 1 \in Slots THEN list[k + 1] ELSE 0
              BY <2>2, <3>3
        <4>2. k + 1 \in Slots /\ w[k] = list[k + 1]
              BY <2>4, <4>1
        <4>3. k + 1 < n
              BY <2>4, <4>2 DEF Prefix
        <4>. QED BY <2>3, <3>3, <4>2, <4>3
      <3>. QED BY <3>1, <3>2, <3>3
    <2>5. ASSUME NEW k \in Slots, k < n - 1 PROVE w[k] # 0
      <3>1. CASE k < m
            BY <2>2, <2>3, <2>5, <3>1 DEF Prefix
      <3>2. CASE ~(k < m)
        <4>1. k + 1 \in Slots /\ k + 1 < n /\ ~(k >= n)
              BY <2>3, <2>5, SlotFacts
        <4>2. w[k] = list[k + 1]
              BY <2>2, <3>2, <4>1
        <4>. QED BY <4>1, <4>2 DEF Prefix
      <3>. QED BY <3>1, <3>2
    <2>6. Prefix(w, n - 1)
          BY <2>4, <2>5 DEF Prefix
    <2>7. n - 1 \in 0 .. MAX_NFS_PER_NT /\ n - 1 <= n /\ n - 1 <= n - 1
          BY <2>3
    <2>8. ListOnce(w)
      <3> SUFFICES ASSUME NEW j \in Slots, NEW k \in Slots, w[k] # 0, w[j] = w[k]
                   PROVE  j = k
          BY DEF ListOnce
      <3>1. /\ from(k) \in Slots /\ w[k] = list[from(k)]
            /\ from(j) \in Slots /\ w[j] = list[from(j)]
            BY <2>4
      <3> HIDE DEF from
      <3>2. from(k) = from(j)
            BY <3>1 DEF ListOnce
      <3>3. from(k) = from(j) => k = j
            BY <2>3 DEF from
      <3>. QED BY <3>2, <3>3
    <2>9. ASSUME NEW k \in Slots, w[k] # 0
          PROVE  w[k] # id /\ \E j \in Slots : w[k] = list[j]
      <3>1. from(k) \in Slots /\ from(k) # m /\ w[k] = list[from(k)]
            BY <2>4, <2>9
      <3> HIDE DEF from
      <3>2. w[k] # id
            BY <1>2, <2>9, <3>1 DEF ListOnce
      <3>. QED BY <3>1, <3>2
    <2>. QED BY <2>1, <2>6, <2>7, <2>8, <2>9
  <1>. QED BY <1>1, <1>2

(* The invariant that ListSound needs: the list of a type is a prefix, no
   shorter than its counter says, unless the counter was counted down below 0 by
   NFs that stopped before they were ready; its entries are ids of registered
   NFs of that type, none twice, and none of an NF that is not ready yet. *)
Counted(t) ==
    \E n \in 0 .. MAX_NFS_PER_NT :
        /\ Prefix(nts[t], n)
        /\ nfs_per_nt_num[t] <= n \/ nfs_per_nt_num[t] > MAX_NFS_PER_NT + 1
Entry(t, id) ==
    /\ id \in Ids /\ nf_info[id] # NULL
    /\ type_id[nf_info[id]] = t /\ status[nf_info[id]] # "STARTING"
ListInv ==
    /\ nf_info[0] = NULL
    /\ \A t \in NTs : /\ Counted(t) /\ ListOnce(nts[t])
                      /\ \A k \in Slots : nts[t][k] # 0 => Entry(t, nts[t][k])

(* The lists never hold more NFs than they have room for: the counter of a type
   never passes MAX_NFS_PER_NT. *)
NeverOverfull == \A t \in NTs : nfs_per_nt_num[t] # MAX_NFS_PER_NT + 1

(* It is what ListSound says, and more. *)
LEMMA ListInvSound == ListInv /\ TypeOK => ListSound
  <1> SUFFICES ASSUME ListInv, TypeOK, NEW t \in NTs, NEW k \in Slots, nts[t][k] # 0
               PROVE  /\ nts[t][k] \in Ids /\ nf_info[nts[t][k]] # NULL
                      /\ type_id[nf_info[nts[t][k]]] = t
                      /\ \A j \in 0 .. k - 1 : nts[t][j] \notin {0, nts[t][k]}
      BY DEF ListSound
  <1>1. Entry(t, nts[t][k])
        BY DEF ListInv
  <1>2. PICK n \in 0 .. MAX_NFS_PER_NT : Prefix(nts[t], n)
        BY DEF ListInv, Counted
  <1>3. k \in Nat /\ k < MAX_NFS_PER_NT /\ k < n /\ n \in Nat
        BY <1>2, SlotFacts DEF Prefix
  <1>4. ASSUME NEW j \in 0 .. k - 1 PROVE nts[t][j] \notin {0, nts[t][k]}
    <2>1. j \in Slots /\ j < n /\ j # k
          BY <1>3, SlotFacts
    <2>2. nts[t][j] # 0
          BY <1>2, <2>1 DEF Prefix
    <2>3. nts[t][j] # nts[t][k]
          BY <2>1 DEF ListInv, ListOnce
    <2>. QED BY <2>2, <2>3
  <1>. QED BY <1>1, <1>4 DEF Entry

(* It holds of empty lists. *)
LEMMA ListInit == Init => ListInv
  <1> SUFFICES ASSUME Init PROVE ListInv
      OBVIOUS
  <1>1. 0 \in Ids
        BY NumbersAssumption DEF Ids
  <1>2. ASSUME NEW t \in NTs
        PROVE  /\ Counted(t) /\ ListOnce(nts[t])
               /\ \A k \in Slots : nts[t][k] # 0 => Entry(t, nts[t][k])
    <2>1. \A k \in Slots : nts[t][k] = 0 /\ k \in Nat
          BY SlotFacts DEF Init
    <2>2. nfs_per_nt_num[t] = 0 /\ 0 \in 0 .. MAX_NFS_PER_NT
          BY SlotFacts DEF Init
    <2>3. Prefix(nts[t], 0)
          BY <2>1 DEF Prefix
    <2>4. Counted(t)
          BY <2>2, <2>3 DEF Counted
    <2>. QED BY <2>1, <2>4 DEF ListOnce
  <1>. QED BY <1>1, <1>2 DEF ListInv, Init

(* A step that leaves the lists and their counters alone keeps it, when it keeps
   what the lists say of the NFs in them. *)
LEMMA ListQuiet ==
    ASSUME ListInv, UNCHANGED <<nts, nfs_per_nt_num>>, nf_info'[0] = NULL,
           \A t \in NTs, id \in Ids \ {0} : Entry(t, id) => Entry(t, id)'
    PROVE  ListInv'
  <1>1. ASSUME NEW t \in NTs, NEW k \in Slots, nts[t][k] # 0
        PROVE  Entry(t, nts[t][k])'
    <2>1. Entry(t, nts[t][k]) /\ nts'[t][k] = nts[t][k]
          BY <1>1 DEF ListInv
    <2>2. PICK id \in Ids \ {0} : id = nts[t][k]
          BY <1>1, <2>1 DEF Entry
    <2>3. Entry(t, id)'
          BY <2>1, <2>2
    <2>. QED BY <2>1, <2>2, <2>3 DEF Entry
  <1>2. \A t \in NTs : Counted(t)' /\ ListOnce(nts[t])'
        BY DEF ListInv, Counted, ListOnce, Prefix
  <1>. QED BY <1>1, <1>2 DEF ListInv

(* So does a step that changes one list and leaves that one as it should be. *)
LEMMA ListOfOne ==
    ASSUME ListInv, NEW y \in NTs, nf_info'[0] = NULL,
           \A t \in NTs \ {y} : nts'[t] = nts[t] /\ nfs_per_nt_num'[t] = nfs_per_nt_num[t],
           \A t \in NTs \ {y}, id \in Ids \ {0} : Entry(t, id) => Entry(t, id)',
           NEW list, nts'[y] = list, ListOnce(list),
           \A k \in Slots : list[k] # 0 =>
               \E id \in Ids : id = list[k] /\ Entry(y, id)',
           NEW n \in 0 .. MAX_NFS_PER_NT, Prefix(list, n),
           nfs_per_nt_num'[y] <= n \/ nfs_per_nt_num'[y] > MAX_NFS_PER_NT + 1
    PROVE  ListInv'
  <1>1. ASSUME NEW t \in NTs, NEW k \in Slots, nts'[t][k] # 0
        PROVE  Entry(t, nts[t][k])'
    <2>1. CASE t = y
          BY <1>1, <2>1 DEF Entry
    <2>2. CASE t # y
      <3>1. Entry(t, nts[t][k]) /\ nts'[t][k] = nts[t][k]
            BY <1>1, <2>2 DEF ListInv
      <3>2. PICK id \in Ids \ {0} : id = nts[t][k]
            BY <1>1, <3>1 DEF Entry
      <3>3. Entry(t, id)'
            BY <2>2, <3>1, <3>2
      <3>. QED BY <3>1, <3>2, <3>3 DEF Entry
    <2>. QED BY <2>1, <2>2
  <1>2. ASSUME NEW t \in NTs PROVE Counted(t)' /\ ListOnce(nts[t])'
    <2>1. CASE t = y
          BY <2>1 DEF Counted, ListOnce, Prefix
    <2>2. CASE t # y
          BY <2>2 DEF ListInv, Counted, ListOnce, Prefix
    <2>. QED BY <2>1, <2>2
  <1>. QED BY <1>1, <1>2 DEF ListInv

(* Every step of the system is one of those of nf_start, nf_ready, nf_stop and
   d2sc_nfrt_init, or leaves lists, table and types alone and makes no NF one
   that is starting. *)
LEMMA StepKinds ==
    ASSUME TypeOK, [Next]_vars
    PROVE  \/ \E i \in Infos : NfStart(i) \/ NfReady(i) \/ NfStop(i)
           \/ \E i \in Infos, t \in NTs, id \in UserIds \cup {NO_ID} : Launch(i, t, id)
           \/ /\ UNCHANGED <<nts, nfs_per_nt_num, nf_info, type_id>>
              /\ \A j \in Infos : status'[j] = "STARTING" => status[j] = "STARTING"
  <1>1. status \in [Infos -> Status]
        BY DEF TypeOK, InfoTypes
  <1> DEFINE Untouched ==
        /\ UNCHANGED <<nts, nfs_per_nt_num, nf_info, type_id>>
        /\ \A j \in Infos : status'[j] = "STARTING" => status[j] = "STARTING"
  <1>2. ASSUME NEW i \in Infos, NfBlock(i) \/ NfRun(i) PROVE Untouched
    <2>1. \/ status' = status
          \/ /\ status[i] \in {"BLOCKED", "RUNNING"}
             /\ status' = [status EXCEPT ![nf_info[inst_id[i]]] = status[i]]
          BY <1>2 DEF NfBlock, NfRun, PublishStatus
    <2>2. \A j \in Infos : status'[j] = "STARTING" => status[j] = "STARTING"
          BY <1>1, <2>1
    <2>. QED BY <1>2, <2>2 DEF NfBlock, NfRun
  <1>3. ASSUME NEW i \in Infos, NfSrvTime(i) PROVE Untouched
        BY <1>3 DEF NfSrvTime, infoVars, tableVars, countVars
  <1>4. CASE CheckStatus \/ DrainExits \/ MasterDone \/ Shutdown \/ UNCHANGED vars
        BY <1>4 DEF CheckStatus, DrainExits, MasterDone, Shutdown, vars, infoVars,
                    tableVars, countVars
  <1>5. CASE ScaleStep
        BY <1>5 DEF ScaleStep, RoundStart, RoundEnd, SetBlockFlag, BlockAgain,
                    RunParent, CheckLoad, BlockToRun, infoVars, tableVars, countVars
  <1>6. ASSUME NEW i \in Infos,
               \/ NfStep(i) \/ Abort(i) \/ Signal(i) \/ Callback(i) \/ Kill(i)
        PROVE  Untouched
    <2>1. UNCHANGED <<nts, nfs_per_nt_num, nf_info, type_id>>
          BY <1>6 DEF NfStep, Answered, NfReadyMsg, LoopTest, FlagTest,
                      DequeueNewMsgs, SendSrvTime, RunningPass, BlockedPass,
                      ExitScan, Stop, PowerExitFailed, Abort, Signal,
                      Callback, Kill, NfrtStop, infoVars, tableVars, countVars
    <2>2. CASE RunningPass(i) \/ BlockedPass(i)
      <3>1. \/ status' = status
            \/ \E s \in {"BLOCKED", "RUNNING"} :
                  status' = [status EXCEPT ![Own(i)] = s]
            BY <2>2 DEF RunningPass, BlockedPass, CheckScaleMsg, ScaleBlock, ScaleRun
      <3>. QED BY <1>1, <2>1, <3>1
    <2>3. CASE ~(RunningPass(i) \/ BlockedPass(i))
      <3>1. \/ status' = status
            \/ status' = [status EXCEPT ![i] = "STOPPED"]
            BY <1>6, <2>3 DEF NfStep, Answered, NfReadyMsg, LoopTest, FlagTest,
                      DequeueNewMsgs, SendSrvTime, ExitScan, Stop, PowerExitFailed,
                      Abort, Signal, Callback, Kill, NfrtStop, infoVars
      <3>. QED BY <1>1, <2>1, <3>1
    <2>. QED BY <2>2, <2>3
  <1>. QED BY <1>2, <1>3, <1>4, <1>5, <1>6
           DEF Next, MasterStep, HandleMsg, NfEvent

(* nf_start registers an NF at an id that no list holds, and not at 0. *)
LEMMA ListStart ==
    ASSUME TypeOK, OwnershipInv, ListInv, NEW i \in Infos, NfStart(i)
    PROVE  ListInv'
  <1> USE DEF OwnershipInv
  <1>1. /\ Handling("NF_STARTING", i)
        /\ UNCHANGED <<type_id, nts, nfs_per_nt_num>>
        BY DEF NfStart
  <1>2. status[i] = "WAITTING_FOR_ID" /\ inst_id[i] = NO_ID
    <2>1. 1 \in 1 .. Len(Flight) /\ IsMsg(1, "NF_STARTING") /\ Flight[1].info = i
          BY <1>1, FlightTaken DEF IsMsg
    <2>. QED BY <2>1 DEF StartingAlone
  <1>3. PICK id \in Ids \cup {MAX_NFS, inst_id[i]} : ChosenId(i, id) /\ Assign(i, id)
        BY <1>2 DEF NfStart
  <1>4. NextInstId(id)
        BY <1>2, <1>3 DEF ChosenId
  <1>5. next_inst_id \in 1 .. MAX_NFS /\ MAX_NFS \in Nat
        BY NumbersAssumption DEF TypeOK, CountTypes
  <1>6. id = MAX_NFS \/ (id \in Ids /\ nf_info[id] = NULL /\ id # 0)
        BY <1>4, <1>5 DEF NextInstId, NextIsFree, Ids
  <1>7. /\ status \in [Infos -> Status]
        /\ nf_info \in [Ids -> Infos \cup {NULL}] /\ NULL \notin Infos
        /\ 0 \in Ids
        BY SetsAssumption, NumbersAssumption DEF TypeOK, InfoTypes, TableTypes, Ids
  <1>8. \A n \in Ids : nf_info[n] # i
        BY <1>2 DEF NewUnpublished
  <1>9. \/ /\ \E why \in {"NO_IDS", "ID_CONFLICT"} :
                 status' = [status EXCEPT ![i] = why]
           /\ nf_info' = nf_info
        \/ /\ id \in Ids /\ nf_info[id] = NULL /\ id # 0
           /\ nf_info' = [nf_info EXCEPT ![id] = i]
           /\ status' = [status EXCEPT ![i] = "STARTING"]
        BY <1>3, <1>5, <1>6 DEF Assign, Refuse, Register, Ids
  <1>10. nf_info'[0] = NULL
         BY <1>7, <1>9 DEF ListInv
  <1>11. ASSUME NEW t \in NTs, NEW n \in Ids \ {0}, Entry(t, n) PROVE Entry(t, n)'
    <2>1. nf_info'[n] = nf_info[n] /\ nf_info[n] \in Infos /\ nf_info[n] # i
          BY <1>7, <1>8, <1>9, <1>11 DEF Entry
    <2>2. status'[nf_info[n]] = status[nf_info[n]]
          BY <1>7, <1>9, <2>1
    <2>. QED BY <1>1, <1>11, <2>1, <2>2 DEF Entry
  <1>. QED BY <1>1, <1>10, <1>11, ListQuiet

(* d2sc_nfrt_init uses a struct that no list leads to. *)
LEMMA ListLaunch ==
    ASSUME TypeOK, OwnershipInv, ListInv, NEW i \in Infos, NEW t \in NTs, NEW id,
           Launch(i, t, id)
    PROVE  ListInv'
  <1>1. /\ i \in info_pool
        /\ status' = [status EXCEPT ![i] = "WAITTING_FOR_ID"]
        /\ type_id' = [type_id EXCEPT ![i] = t]
        /\ UNCHANGED <<nts, nfs_per_nt_num, nf_info>>
        BY DEF Launch, tableVars, countVars
  <1>2. /\ status \in [Infos -> Status] /\ type_id \in [Infos -> NTs \cup {0}]
        /\ nf_info \in [Ids -> Infos \cup {NULL}]
        BY DEF TypeOK, InfoTypes, TableTypes
  <1>3. ASSUME NEW y \in NTs, NEW n \in Ids \ {0}, Entry(y, n) PROVE Entry(y, n)'
    <2>1. nf_info[n] \in Infos /\ nf_info[n] # i
          BY <1>1, <1>2, <1>3 DEF Entry, OwnershipInv, SlotsOwned
    <2>. QED BY <1>1, <1>2, <1>3, <2>1 DEF Entry
  <1>. QED BY <1>1, <1>3, ListQuiet DEF ListInv

(* nf_ready appends the id of an NF that is in no list yet. *)
LEMMA ListReady ==
    ASSUME TypeOK, OwnershipInv, HeldInv, ListInv, NeverOverfull', NEW i \in Infos,
           NfReady(i)
    PROVE  ListInv'
  <1> USE DEF OwnershipInv
  <1>1. UNCHANGED <<inst_id, type_id, nf_info>>
        BY DEF NfReady, tableVars
  <1>2. CASE UNCHANGED <<status, nts, nfs_per_nt_num>>
        BY <1>1, <1>2, ListQuiet DEF ListInv, Entry
  <1>3. CASE /\ status[i] = "STARTING"
             /\ status' = [status EXCEPT ![i] = "RUNNING"]
             /\ AddToType(type_id[i], inst_id[i])
             /\ nfs_per_nt_num' = [nfs_per_nt_num EXCEPT ![type_id[i]] = Inc(@)]
    <2>1. PICK y \in NTs : y = type_id[i]
          BY FlightTaken DEF NfReady, HeldInv, MsgsTyped, Typed
    <2>2. PICK id \in Ids : id = inst_id[i] /\ nf_info[id] = i /\ id # 0
          BY <1>3, SetsAssumption DEF LivePublished, IsAt, Live, ListInv
    <2>3. /\ nts \in [NTs -> [Slots -> U16s]] /\ nfs_per_nt_num \in [NTs -> U16s]
          /\ status \in [Infos -> Status] /\ NULL \notin Infos
          /\ nf_info \in [Ids -> Infos \cup {NULL}]
          BY SetsAssumption DEF TypeOK, CountTypes, InfoTypes, TableTypes
    <2>4. PICK c \in U16s : c = nfs_per_nt_num[y]
          BY <2>3
    <2>5. nfs_per_nt_num'[y] = Inc(c)
          BY <1>3, <2>1, <2>3, <2>4
    <2>6. nts' = IF c \in Slots THEN [nts EXCEPT ![y][c] = id] ELSE nts
          BY <1>3, <2>1, <2>2, <2>4 DEF AddToType
    <2>7. \A t \in NTs \ {y} : nts'[t] = nts[t] /\ nfs_per_nt_num'[t] = nfs_per_nt_num[t]
          BY <1>3, <2>1, <2>3, <2>6
    <2>8. \A t \in NTs, n \in Ids : Entry(t, n) => Entry(t, n)'
          BY <1>1, <1>3, <2>3 DEF Entry
    <2>9. Entry(y, id)' /\ nf_info'[0] = NULL
      <3>1. Entry(y, id)'
            BY <1>1, <1>3, <2>1, <2>2, <2>3 DEF Entry
      <3>2. nf_info'[0] = NULL
            BY <1>1 DEF ListInv
      <3>. QED BY <3>1, <3>2
    <2>10. PICK list \in [Slots -> U16s] : list = nts[y]
           BY <2>3
    <2>11. /\ ListOnce(list) /\ \A k \in Slots : list[k] # id
           /\ \A k \in Slots : list[k] # 0 => \E e \in Ids : e = list[k] /\ Entry(y, e)'
      <3>1. \A k \in Slots : list[k] # 0 => Entry(y, list[k])
            BY <2>10 DEF ListInv
      <3>2. \A k \in Slots : list[k] # id
            BY <1>3, <2>2, <3>1 DEF Entry
      <3>3. \A k \in Slots : list[k] # 0 => list[k] \in Ids /\ Entry(y, list[k])
            BY <3>1 DEF Entry
      <3>4. ASSUME NEW k \in Slots, list[k] # 0
            PROVE  \E e \in Ids : e = list[k] /\ Entry(y, e)'
        <4>1. PICK e \in Ids : e = list[k] /\ Entry(y, e)
              BY <3>3, <3>4
        <4>. QED BY <2>8, <4>1
      <3>. QED BY <2>10, <3>2, <3>4 DEF ListInv
    <2>12. PICK n \in 0 .. MAX_NFS_PER_NT :
              Prefix(list, n) /\ (c <= n \/ c > MAX_NFS_PER_NT + 1)
           BY <2>4, <2>10 DEF ListInv, Counted
    <2>13. /\ c \in Nat /\ c <= U16 - 1 /\ U16 \in Nat
           /\ n \in Nat /\ n <= MAX_NFS_PER_NT
           /\ MAX_NFS_PER_NT \in Nat /\ MAX_NFS_PER_NT < U16 - 1
           BY SlotFacts, IncDecIs
    <2>14. Inc(c) = IF c = U16 - 1 THEN 0 ELSE c + 1
           BY IncDecIs
    <2>15. Inc(c) # MAX_NFS_PER_NT + 1
           BY <2>5 DEF NeverOverfull
    <2>16. CASE c \in Slots
      <3>1. PICK new : new = [list EXCEPT ![c] = id]
            OBVIOUS
      <3>2. nts'[y] = new
            BY <2>3, <2>6, <2>10, <2>16, <3>1
      <3>3. \A k \in Slots : new[k] = IF k = c THEN id ELSE list[k]
            BY <3>1
      <3>4. c < MAX_NFS_PER_NT /\ c <= n /\ Inc(c) = c + 1
            BY <2>12, <2>13, <2>14, <2>16, SlotFacts
      <3>5. PICK h \in 0 .. MAX_NFS_PER_NT : h = IF c = n THEN n + 1 ELSE n
            BY <2>13, <3>4
      <3>6. Prefix(new, h)
        <4> SUFFICES ASSUME NEW k \in Slots PROVE new[k] # 0 <=> k < h
            BY DEF Prefix
        <4>1. k \in Nat /\ (list[k] # 0 <=> k < n)
              BY <2>12, SlotFacts DEF Prefix
        <4>. QED BY <2>2, <2>13, <3>3, <3>4, <3>5, <4>1
      <3>7. Inc(c) <= h
            BY <2>13, <3>4, <3>5
      <3>8. ListOnce(new)
            BY <2>11, <3>3 DEF ListOnce
      <3>9. \A k \in Slots : new[k] # 0 => \E e \in Ids : e = new[k] /\ Entry(y, e)'
            BY <2>9, <2>11, <3>3
      <3>. QED BY <2>5, <2>7, <2>8, <2>9, <3>2, <3>6, <3>7, <3>8, <3>9, ListOfOne
    <2>17. CASE c \notin Slots
      <3>1. nts'[y] = list
            BY <2>6, <2>10, <2>17
      <3>2. Inc(c) <= n \/ Inc(c) > MAX_NFS_PER_NT + 1
            BY <2>12, <2>13, <2>14, <2>15, <2>17, SlotFacts
      <3>. QED BY <2>5, <2>7, <2>8, <2>9, <2>11, <2>12, <3>1, <3>2, ListOfOne
    <2>. QED BY <2>16, <2>17
  <1>. QED BY <1>2, <1>3 DEF NfReady

(* nf_stop takes the id out of the only list that can hold it. *)
LEMMA ListStop ==
    ASSUME TypeOK, OwnershipInv, HeldInv, ListInv, NeverOverfull', NEW i \in Infos,
           NfStop(i)
    PROVE  ListInv'
  <1> USE DEF OwnershipInv
  <1>1. /\ Handling("NF_STOPPING", i)
        /\ nf_info' = [nf_info EXCEPT ![inst_id[i]] = NULL]
        /\ nts' = [nts EXCEPT ![type_id[i]] = Without(@, inst_id[i])]
        /\ nfs_per_nt_num' = [nfs_per_nt_num EXCEPT ![type_id[i]] = Dec(@)]
        /\ UNCHANGED <<status, inst_id, type_id>>
        BY DEF NfStop
  <1>2. PICK y \in NTs : y = type_id[i]
        BY <1>1, FlightTaken DEF HeldInv, MsgsTyped, Typed
  <1>3. IsAt(i)
        BY <1>1, HandledPublished
  <1>4. PICK id \in Ids : id = inst_id[i] /\ nf_info[id] = i /\ id # 0
        BY <1>3, SetsAssumption DEF IsAt, ListInv
  <1>5. /\ nts \in [NTs -> [Slots -> U16s]] /\ nfs_per_nt_num \in [NTs -> U16s]
        /\ NULL \notin Infos /\ nf_info \in [Ids -> Infos \cup {NULL}]
        BY SetsAssumption DEF TypeOK, CountTypes, TableTypes
  <1>6. PICK c \in U16s : c = nfs_per_nt_num[y]
        BY <1>5
  <1>7. nfs_per_nt_num'[y] = Dec(c)
        BY <1>1, <1>2, <1>5, <1>6
  <1>8. PICK list \in [Slots -> U16s] : list = nts[y]
        BY <1>5
  <1>9. PICK new : new = Without(list, id)
        OBVIOUS
  <1>10. nts'[y] = new
         BY <1>1, <1>2, <1>4, <1>5, <1>8, <1>9
  <1>11. \A t \in NTs \ {y} : nts'[t] = nts[t] /\ nfs_per_nt_num'[t] = nfs_per_nt_num[t]
         BY <1>1, <1>2, <1>5
  <1>12. \A t \in NTs, n \in Ids : Entry(t, n) /\ n # id => Entry(t, n)'
         BY <1>1, <1>4, <1>5 DEF Entry
  <1>13. \A t \in NTs \ {y}, n \in Ids : Entry(t, n) => n # id
         BY <1>2, <1>4 DEF Entry
  <1>14. nf_info'[0] = NULL
    <2>1. nf_info[0] = NULL /\ 0 \in Ids
          BY NumbersAssumption DEF ListInv, Ids
    <2>. QED BY <1>1, <1>4, <1>5, <2>1
  <1>15. PICK n \in 0 .. MAX_NFS_PER_NT :
            Prefix(list, n) /\ (c <= n \/ c > MAX_NFS_PER_NT + 1)
         BY <1>6, <1>8 DEF ListInv, Counted
  <1>16. ListOnce(list) /\ \A k \in Slots : list[k] # 0 => Entry(y, list[k])
         BY <1>8 DEF ListInv
  <1>17. /\ \E h \in 0 .. MAX_NFS_PER_NT : h <= n /\ n - 1 <= h /\ Prefix(new, h)
         /\ ListOnce(new)
         /\ \A k \in Slots : new[k] # 0 =>
               new[k] # id /\ \E j \in Slots : new[k] = list[j]
         BY <1>4, <1>9, <1>15, <1>16, WithoutSound
  <1>18. PICK h \in 0 .. MAX_NFS_PER_NT : h <= n /\ n - 1 <= h /\ Prefix(new, h)
         BY <1>17
  <1>19. ASSUME NEW k \in Slots, new[k] # 0
         PROVE  \E e \in Ids : e = new[k] /\ Entry(y, e)'
    <2>1. PICK j \in Slots : new[k] = list[j]
          BY <1>17, <1>19
    <2>2. Entry(y, list[j]) /\ list[j] # id
          BY <1>16, <1>17, <1>19, <2>1
    <2>3. PICK e \in Ids : e = list[j]
          BY <2>2 DEF Entry
    <2>. QED BY <1>12, <2>1, <2>2, <2>3
  <1>20. /\ c \in Nat /\ c <= U16 - 1 /\ U16 \in Nat
         /\ n \in Nat /\ n <= MAX_NFS_PER_NT
         /\ h \in Nat /\ MAX_NFS_PER_NT \in Nat /\ MAX_NFS_PER_NT < U16 - 1
         BY SlotFacts, IncDecIs
  <1>21. Dec(c) = IF c = 0 THEN U16 - 1 ELSE c - 1
         BY IncDecIs
  <1>22. Dec(c) # MAX_NFS_PER_NT + 1
         BY <1>7 DEF NeverOverfull
  <1>23. Dec(c) <= h \/ Dec(c) > MAX_NFS_PER_NT + 1
         BY <1>15, <1>18, <1>20, <1>21, <1>22
  <1>. QED BY <1>7, <1>10, <1>11, <1>12, <1>13, <1>14, <1>17, <1>18, <1>19, <1>23,
              ListOfOne

(* Every step keeps it, as long as no list is overfull. *)
LEMMA ListNext ==
    ASSUME TypeOK, OwnershipInv, HeldInv, ListInv, NeverOverfull', [Next]_vars
    PROVE  ListInv'
  <1>1. CASE \E i \in Infos : NfStart(i) \/ NfReady(i) \/ NfStop(i)
        BY <1>1, ListStart, ListReady, ListStop
  <1>2. CASE \E i \in Infos, t \in NTs, id \in UserIds \cup {NO_ID} : Launch(i, t, id)
        BY <1>2, ListLaunch
  <1>3. CASE /\ UNCHANGED <<nts, nfs_per_nt_num, nf_info, type_id>>
             /\ \A j \in Infos : status'[j] = "STARTING" => status[j] = "STARTING"
    <2>1. nf_info \in [Ids -> Infos \cup {NULL}]
          BY DEF TypeOK, TableTypes
    <2>2. \A t \in NTs, id \in Ids \ {0} : Entry(t, id) => Entry(t, id)'
          BY <1>3, <2>1 DEF Entry
    <2>. QED BY <1>3, <2>2, ListQuiet DEF ListInv
  <1>. QED BY <1>1, <1>2, <1>3, StepKinds

(* Whatever dies, is signalled, aborted, blocked or shut down: the list of a
   type holds distinct ids of registered NFs of that type, and no hole, as long
   as the manager chooses the ids, no NF finds new_msg_ring full and no type
   has more instances than its list has room for, which nf_ready does not
   look at. *)
THEOREM ListsAreSound ==
    ASSUME UserIds = {}, "overrun" \notin Env
    PROVE  Spec /\ []NeverOverfull => []ListSound
  <1>1. TypeOK /\ HeldInv /\ [Next]_vars => HeldInv'
        BY HeldNext
  <1>2. /\ TypeOK /\ OwnershipInv /\ HeldInv /\ ListInv /\ NeverOverfull'
        /\ [Next]_vars
        => ListInv'
        BY ListNext
  <1>. QED BY <1>1, <1>2, HeldInit, ListInit, ListInvSound, Ownership, TypeCorrect,
              PTL DEF Spec
===============================================================================
