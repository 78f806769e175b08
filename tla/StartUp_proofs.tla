----------------------------- MODULE StartUp_proofs -----------------------------
(***************************************************************************)
(* The start of the manager, and the NF processes that start beside it:    *)
(* what these find, which ports are up, and which lcore each thread gets.  *)
(***************************************************************************)
EXTENDS StartUp, DataLemmas

(* The places of what matters in InitOrder and LookupOrder. *)
LEMMA Orders ==
    /\ Len(InitOrder) = 18 /\ Len(LookupOrder) = 11
    /\ DOMAIN InitOrder = 1 .. 18
    /\ LookupOrder[9] = "scp_info" /\ InitOrder[17] = "scp"
    /\ InitOrder[6] = "args" /\ InitOrder[10] = "ports" /\ InitOrder[11] = "links"
    /\ InitOrder[12] = "shm_rings" /\ InitOrder[15] = "default_sc"
  BY DEF InitOrder, LookupOrder

(* Made is the part of InitOrder that is done. *)
LEMMA MadeIs ==
    ASSUME made \in 0 .. Len(InitOrder)
    PROVE  \A x : x \in Made <=> \E k \in 1 .. made : InitOrder[k] = x
  <1>1. made \in Nat /\ made <= 18
        BY Orders
  <1>2. /\ DOMAIN SubSeq(InitOrder, 1, made) = 1 .. made
        /\ \A k \in 1 .. made : SubSeq(InitOrder, 1, made)[k] = InitOrder[k]
        BY <1>1, Orders
  <1>. QED BY <1>2 DEF Made, ToSet

(* What an NF process has found so far was made, and the pointer that it prints
   written, when it got that far: nothing is ever unmade. *)
SearchInv ==
    /\ made \in 0 .. Len(InitOrder)
    /\ proc \in [Procs -> {"out", "looking", "up", "died"}]
    /\ found \in [Procs -> 0 .. Len(LookupOrder)]
    /\ \A p \in Procs : /\ proc[p] \in {"out", "looking"} => found[p] < Len(LookupOrder)
                        /\ proc[p] = "up" => found[p] = Len(LookupOrder)
                        /\ found[p] >= 9 => made >= 17

(* The manager makes one thing after another. *)
LEMMA MadeGrows ==
    ASSUME made \in 0 .. Len(InitOrder), ManagerStep
    PROVE  made' \in 0 .. Len(InitOrder) /\ made' >= made /\ UNCHANGED procVars
  <1>1. made \in Nat /\ Len(InitOrder) = 18
        BY Orders
  <1>2. made' = made \/ (Item # "nothing" /\ made' = made + 1)
        BY DEF ManagerStep, Make, InitMbufMps, MakeFails, InitPort, PortsDone,
               ParseMgrArgs, CheckLinks, BeginLaunch, Launch, NextKind, EnterMaster,
               initVars
  <1>3. Item # "nothing" => made < Len(InitOrder)
        BY DEF Item
  <1>4. UNCHANGED procVars
        BY DEF ManagerStep, Make, InitMbufMps, MakeFails, InitPort, PortsDone,
               ParseMgrArgs, CheckLinks, BeginLaunch, Launch, NextKind, EnterMaster
  <1>. QED BY <1>1, <1>2, <1>3, <1>4

(* Past the ninth lookup the default chain is written. *)
LEMMA SearchNext == SearchInv /\ [Next]_vars => SearchInv'
  <1> SUFFICES ASSUME SearchInv, [Next]_vars PROVE SearchInv'
      OBVIOUS
  <1> USE DEF SearchInv
  <1>1. made \in Nat /\ Len(InitOrder) = 18 /\ Len(LookupOrder) = 11
        BY Orders
  <1>2. CASE ManagerStep
    <2>1. made' \in 0 .. Len(InitOrder) /\ made' >= made /\ UNCHANGED <<proc, found>>
          BY <1>2, MadeGrows DEF procVars
    <2>2. \A p \in Procs : found[p] >= 9 => made' >= 17
          BY <1>1, <2>1
    <2>. QED BY <2>1, <2>2
  <1>3. ASSUME NEW p \in Procs, Begin(p) \/ LookupFails(p) PROVE SearchInv'
    <2>1. /\ UNCHANGED <<made, found>>
          /\ \E s \in {"looking", "died"} : proc' = [proc EXCEPT ![p] = s]
          /\ proc[p] \in {"out", "looking"}
          BY <1>1, <1>3 DEF Begin, LookupFails, initVars
    <2>2. PICK s \in {"looking", "died"} : proc' = [proc EXCEPT ![p] = s]
          BY <2>1
    <2>3. proc' \in [Procs -> {"out", "looking", "up", "died"}] /\ proc'[p] = s
          BY <1>3, <2>2
    <2>4. \A q \in Procs \ {p} : proc'[q] = proc[q]
          BY <2>2
    <2>5. found[p] < Len(LookupOrder)
          BY <1>3, <2>1
    <2>. QED BY <1>1, <1>3, <2>1, <2>3, <2>4, <2>5
  <1>4. ASSUME NEW p \in Procs, Lookup(p) PROVE SearchInv'
    <2>1. /\ made' = made /\ proc[p] = "looking" /\ found[p] < 11
          /\ found' = [found EXCEPT ![p] = found[p] + 1]
          /\ proc' = [proc EXCEPT ![p] = IF found'[p] = 11 THEN "up" ELSE proc[p]]
          BY <1>1, <1>4 DEF Lookup, initVars
    <2>2. found[p] \in 0 .. 11
          BY <1>1
    <2>3. found[p] = 8 => made >= 17
      <3>1. SUFFICES ASSUME found[p] = 8 PROVE made >= 17
            OBVIOUS
      <3>2. Object(p) = "scp_info"
            BY <3>1, Orders DEF Object
      <3>3. "scp" \in Made
            BY <1>4, <3>2 DEF Lookup, Misses
      <3>4. PICK k \in 1 .. made : InitOrder[k] = "scp"
            BY <3>3, MadeIs
      <3>5. k = 17
            BY <1>1, <3>4 DEF InitOrder
      <3>. QED BY <1>1, <3>4, <3>5
    <2>4. found'[p] >= 9 => made' >= 17
          BY <2>1, <2>2, <2>3
    <2>. QED BY <1>1, <2>1, <2>2, <2>4
  <1>5. CASE UNCHANGED vars
        BY <1>5 DEF vars, initVars, procVars
  <1>. QED BY <1>2, <1>3, <1>4, <1>5 DEF Next, NfStep

(* Nobody has searched for anything at the beginning. *)
LEMMA SearchInit == Init => SearchInv
  BY Orders DEF Init, SearchInv

(* An NF process that found what it looks for meets a manager that has also
   made what it does not look for (the orders of d2sc_init.c:146-255 and
   d2sc_nfrt.c:126-181). *)
THEOREM UpFindsAll == Spec => []FindsAll
  <1>1. SearchInv => FindsAll
    <2> SUFFICES ASSUME SearchInv, NEW p \in Procs, proc[p] = "up"
                 PROVE  {"args", "ports", "links", "shm_rings", "default_sc",
                         "scp"} \subseteq Made
        BY DEF FindsAll
    <2>1. made \in 0 .. Len(InitOrder) /\ made >= 17
          BY Orders DEF SearchInv
    <2>2. \A k \in 1 .. 17 : k \in 1 .. made
          BY <2>1, Orders
    <2>3. \A k \in 1 .. 17 : InitOrder[k] \in Made
          BY <2>1, <2>2, MadeIs
    <2>. QED BY <2>3, Orders
  <1>. QED BY <1>1, SearchInit, SearchNext, PTL DEF Spec

-----------------------------------------------------------------------------
(* The configuration and the ports, step by step: the ports that were started
   are the first ones that were asked for. *)
Ports == 0 .. N_PORTS - 1
Confs == [num_nts : U16s, default_nt : U16s, stats_dst : 0 .. 2, sleep_time : U16s,
          num_rx_threads : U16s, ports : Seq(Ports)]
SetupInv ==
    /\ config \in Confs
    /\ started \in [Ports -> {0, 1}]
    /\ checks \in 0 .. MAX_CHECK_TIME - 1
    /\ mbuf_ports = IF made < 7 THEN 0 ELSE Len(config.ports)
    /\ PortsStarted <= Len(config.ports)
    /\ \A p \in Ports :
          started[p] = 1 <=> \E k \in 1 .. PortsStarted : config.ports[k] = p
    /\ made < 9 => PortsStarted = 0
    /\ made >= 10 => PortsStarted = Len(config.ports)

-----------------------------------------------------------------------------
(* The numbers of the manager are of 16 bits. *)
LEMMA Remainder == \A n \in Int, m \in Nat \ {0} : n % m \in 0 .. m - 1
  OBVIOUS
LEMMA SmallNumbers ==
    U16 \in Nat \ {0} /\ 0 \in U16s /\ 1 \in U16s /\ 16 \in U16s
  <1>1. U16 \in Nat /\ U16 > 16
        BY DEF U16
  <1>. QED BY <1>1 DEF U16s

(* What the assumptions say of the numbers. *)
LEMMA NumbersAre ==
    /\ N_PORTS \in Nat /\ MAX_CHECK_TIME \in Nat /\ MAX_CHECK_TIME # 0
    /\ D2SC_NUM_RX_THREADS \in U16s
  BY StartAssumption

(* What the assumptions say of the lcores: they have a first one, the master. *)
LEMMA MasterIs ==
    /\ Master \in Lcores /\ Lcores \subseteq Nat /\ IsFiniteSet(Lcores)
    /\ \A c \in Lcores : Master <= c
  <1>1. /\ Lcores \in SUBSET Nat /\ IsFiniteSet(Lcores)
        /\ Cardinality(Lcores) > 1
        BY StartAssumption
  <1>2. Lcores # {}
    <2>1. Cardinality({}) = 0
          BY FS_EmptySet
    <2>. QED BY <1>1, <2>1
  <1>3. \E m \in Lcores : \A n \in Lcores : m <= n
        BY <1>1, <1>2, FirstNat
  <1>. QED BY <1>1, <1>3 DEF Master, Min

(* The ports of a mask are ports that exist. *)
LEMMA PortsOfType == \A num : PortsOf(num) \in Seq(Ports)
  <1> TAKE num
  <1> DEFINE V == Seq(Ports)
             D == 1 .. MASK_BITS
             More(ids, b) == IF IsSet(num, b) /\ b < N_PORTS THEN Append(ids, b) ELSE ids
             f == [p \in D \X V |-> More(p[2], Bits[p[1]])]
             iter == CHOOSE h : h = [s \in SUBSET D |->
                         IF s = {} THEN <<>> ELSE More(h[s \ {Max(s)}], Bits[Max(s)])]
  <1>1. PortsOf(num) = iter[D]
    <2>1. DOMAIN Bits = D
          BY DEF Bits
    <2>. QED BY <2>1 DEF PortsOf, FoldLeft, MapThenFoldSet
  <1>2. \A k \in D : Bits[k] \in Nat
        BY DEF Bits, MASK_BITS
  <1>3. \A v \in V, k \in D : More(v, Bits[k]) \in V
    <2> TAKE v \in V, k \in D
    <2>1. Bits[k] < N_PORTS => Bits[k] \in Ports
          BY <1>2, NumbersAre DEF Ports
    <2>2. Bits[k] < N_PORTS => Append(v, Bits[k]) \in Seq(Ports)
          BY <2>1
    <2>. QED BY <2>2
  <1>4. /\ MASK_BITS \in Nat /\ <<>> \in V
        BY DEF MASK_BITS
  <1>5. f \in [D \X V -> V]
    <2> HIDE DEF V, D, More
    <2>. QED BY <1>3
  <1>6. /\ \A s \in SUBSET D : s # {} => Max(s) \in s
        /\ \E g \in [SUBSET D -> V] : IsLastFold(g, f, <<>>, MASK_BITS)
    <2> HIDE DEF V, f
    <2>. QED BY <1>4, <1>5, FoldLastExists
  <1>7. PICK g \in [SUBSET D -> V] : IsLastFold(g, f, <<>>, MASK_BITS)
        BY <1>6
  <1>8. g = [s \in SUBSET D |->
                IF s = {} THEN <<>> ELSE More(g[s \ {Max(s)}], Bits[Max(s)])]
    <2>1. \A k \in D, v \in V : f[<<k, v>>] = More(v, Bits[k])
      <3> HIDE DEF V, D, More
      <3>. QED OBVIOUS
    <2>3. \A s \in SUBSET D :
              g[s] = IF s = {} THEN <<>> ELSE f[<<Max(s), g[s \ {Max(s)}]>>]
          BY <1>7 DEF IsLastFold
    <2> HIDE DEF V, D, More, f
    <2>2. ASSUME NEW s \in SUBSET D, s # {}
          PROVE  f[<<Max(s), g[s \ {Max(s)}]>>] = More(g[s \ {Max(s)}], Bits[Max(s)])
      <3>1. Max(s) \in D /\ g[s \ {Max(s)}] \in V
            BY <1>6, <1>7, <2>2
      <3>. QED BY <2>1, <3>1
    <2>. QED BY <1>7, <2>2, <2>3
  <1>9. iter = [s \in SUBSET D |->
                   IF s = {} THEN <<>> ELSE More(iter[s \ {Max(s)}], Bits[Max(s)])]
    <2> HIDE DEF V, D, More
    <2>. QED BY <1>8
  <1> HIDE DEF iter, V, D, More
  <1>10. PICK c : c = [s \in SUBSET D |-> Max(s)]
         OBVIOUS
  <1>11. Chooses(c, D) /\ IsFiniteSet(D)
    <2>1. IsFiniteSet(D)
          BY <1>4, FS_Interval DEF D
    <2>. QED BY <1>6, <1>10, <2>1 DEF Chooses
  <1>12. iter[{}] \in V
         BY <1>4, <1>9
  <1>13. ASSUME NEW s \in SUBSET D, s # {}, iter[s \ {c[s]}] \in V
         PROVE  iter[s] \in V
    <2>1. Max(s) \in D /\ c[s] = Max(s)
          BY <1>6, <1>10, <1>13
    <2>2. iter[s] = More(iter[s \ {Max(s)}], Bits[Max(s)])
          BY <1>9, <1>13
    <2>. QED BY <1>3, <1>13, <2>1, <2>2
  <1>14. \A s \in SUBSET D : iter[s] \in V
         BY <1>11, <1>12, <1>13, FoldStays
  <1>. QED BY <1>1, <1>14 DEF V

(* An option that is accepted keeps the configuration in its type. *)
LEMMA TakenType ==
    ASSUME NEW conf \in Confs, NEW o \in Options, Accepted(o)
    PROVE  Taken(conf, o) \in Confs
  <1>1. o.num \in Nat /\ o.num % U16 \in U16s
    <2>1. o.num \in Nat
          BY DEF Options
    <2>2. \A n \in Nat : n % U16 \in 0 .. U16 - 1
          BY SmallNumbers, Remainder
    <2>. QED BY <2>1, <2>2 DEF U16s
  <1>2. CASE o.opt = "p"
    <2>1. conf.ports \in Seq(Ports) /\ PortsOf(o.num) \in Seq(Ports)
          BY PortsOfType DEF Confs
    <2>2. conf.ports \o PortsOf(o.num) \in Seq(Ports)
          BY <2>1
    <2>3. Taken(conf, o) = [conf EXCEPT !.ports = conf.ports \o PortsOf(o.num)]
          BY <1>2 DEF Taken
    <2>. QED BY <2>2, <2>3 DEF Confs
  <1>3. CASE o.opt = "s"
    <2>1. o.num \in 0 .. 2 /\ Taken(conf, o) = [conf EXCEPT !.stats_dst = o.num]
          BY <1>3 DEF Accepted, Taken
    <2>. QED BY <2>1 DEF Confs
  <1>4. CASE o.opt = "t"
    <2>1. Taken(conf, o) = [conf EXCEPT !.num_nts = o.num % U16]
          BY <1>4 DEF Taken
    <2>. QED BY <1>1, <2>1 DEF Confs
  <1>5. CASE o.opt = "d"
    <2>1. Taken(conf, o) = [conf EXCEPT !.default_nt = o.num % U16]
          BY <1>5 DEF Taken
    <2>. QED BY <1>1, <2>1 DEF Confs
  <1>6. CASE o.opt = "r"
    <2>1. Taken(conf, o) = [conf EXCEPT !.num_rx_threads = o.num % U16]
          BY <1>6 DEF Taken
    <2>. QED BY <1>1, <2>1 DEF Confs
  <1>7. CASE o.opt = "z"
    <2>1. Taken(conf, o) = [conf EXCEPT !.sleep_time = o.num % U16]
          BY <1>7 DEF Taken
    <2>. QED BY <1>1, <2>1 DEF Confs
  <1>8. o.opt \in {"p", "s", "t", "d", "r", "z"}
        BY DEF Accepted, Options
  <1>. QED BY <1>2, <1>3, <1>4, <1>5, <1>6, <1>7, <1>8

(* And so does a whole line of them. *)
LEMMA LineType ==
    ASSUME NEW conf \in Confs, NEW line \in CommandLines,
           \A k \in 1 .. Len(line) : Accepted(line[k])
    PROVE  FoldLeft(Taken, conf, line) \in Confs
  <1> DEFINE D == 1 .. Len(line)
             f == [p \in D \X Confs |-> Taken(p[2], line[p[1]])]
             iter == CHOOSE h : h = [s \in SUBSET D |->
                         IF s = {} THEN conf ELSE Taken(h[s \ {Max(s)}], line[Max(s)])]
  <1>0. line \in Seq(Options) /\ Len(line) \in Nat
    <2>1. line \in Seq(Options)
          BY StartAssumption
    <2> DEFINE S == Options
    <2> HIDE DEF S
    <2>2. line \in Seq(S)
          BY <2>1 DEF S
    <2>3. Len(line) \in Nat
          BY <2>2
    <2>. QED BY <2>1, <2>3
  <1>1. FoldLeft(Taken, conf, line) = iter[D] /\ \A k \in D : line[k] \in Options
    <2> DEFINE S == Options
    <2>1. line \in Seq(S)
          BY <1>0
    <2> HIDE DEF S
    <2>2. DOMAIN line = D /\ \A k \in D : line[k] \in S
          BY <2>1
    <2>3. FoldLeft(Taken, conf, line) = iter[D]
          BY <2>2 DEF FoldLeft, MapThenFoldSet
    <2>. QED BY <2>2, <2>3 DEF S
  <1>3. \A v \in Confs, k \in D : Taken(v, line[k]) \in Confs
        BY <1>1, TakenType
  <1>5. f \in [D \X Confs -> Confs]
    <2> HIDE DEF D
    <2>. QED BY <1>3
  <1>6. /\ \A s \in SUBSET D : s # {} => Max(s) \in s
        /\ \E g \in [SUBSET D -> Confs] : IsLastFold(g, f, conf, Len(line))
    <2> HIDE DEF f
    <2>. QED BY <1>0, <1>5, FoldLastExists
  <1>7. PICK g \in [SUBSET D -> Confs] : IsLastFold(g, f, conf, Len(line))
        BY <1>6
  <1>8. g = [s \in SUBSET D |->
                IF s = {} THEN conf ELSE Taken(g[s \ {Max(s)}], line[Max(s)])]
    <2>1. \A k \in D, v \in Confs : f[<<k, v>>] = Taken(v, line[k])
      <3> HIDE DEF D
      <3>. QED OBVIOUS
    <2>3. \A s \in SUBSET D :
              g[s] = IF s = {} THEN conf ELSE f[<<Max(s), g[s \ {Max(s)}]>>]
          BY <1>7 DEF IsLastFold
    <2> HIDE DEF D, f
    <2>2. ASSUME NEW s \in SUBSET D, s # {}
          PROVE  f[<<Max(s), g[s \ {Max(s)}]>>] = Taken(g[s \ {Max(s)}], line[Max(s)])
      <3>1. Max(s) \in D /\ g[s \ {Max(s)}] \in Confs
            BY <1>6, <1>7, <2>2
      <3>. QED BY <2>1, <3>1
    <2>. QED BY <1>7, <2>2, <2>3
  <1>9. iter = [s \in SUBSET D |->
                   IF s = {} THEN conf ELSE Taken(iter[s \ {Max(s)}], line[Max(s)])]
    <2> HIDE DEF D
    <2>. QED BY <1>8
  <1>10. PICK c : c = [s \in SUBSET D |-> Max(s)]
         OBVIOUS
  <1>11. Chooses(c, D) /\ IsFiniteSet(D)
    <2>1. IsFiniteSet(D)
          BY <1>0, FS_Interval
    <2> HIDE DEF D
    <2>. QED BY <1>6, <1>10, <2>1 DEF Chooses
  <1> HIDE DEF iter, D
  <1>12. iter[{}] \in Confs
         BY <1>9
  <1>13. ASSUME NEW s \in SUBSET D, s # {}, iter[s \ {c[s]}] \in Confs
         PROVE  iter[s] \in Confs
    <2>1. Max(s) \in D /\ c[s] = Max(s)
          BY <1>6, <1>10, <1>13
    <2>2. iter[s] = Taken(iter[s \ {Max(s)}], line[Max(s)])
          BY <1>9, <1>13
    <2>. QED BY <1>3, <1>13, <2>1, <2>2
  <1>14. \A s \in SUBSET D : iter[s] \in Confs
         BY <1>11, <1>12, <1>13, FoldStays
  <1>. QED BY <1>1, <1>14

-----------------------------------------------------------------------------
(* When it is the turn of what.  *)
LEMMA ItemIs ==
    ASSUME made \in 0 .. Len(InitOrder)
    PROVE  /\ Item # "nothing" => manager = "init" /\ made < 18
           /\ Item = "args" => made = 5
           /\ Item = "links" => made = 10
           /\ Item = "pktmbuf_mp" => made = 6
           /\ Item = "ports" => made = 9
           /\ manager = "init" /\ made = 6 => Item = "pktmbuf_mp"
           /\ manager = "init" /\ made = 9 => Item = "ports"
  <1>1. made \in 0 .. 18 /\ Len(InitOrder) = 18
        BY Orders
  <1>2. Item # "nothing" => manager = "init" /\ made < 18 /\ Item = InitOrder[made + 1]
        BY <1>1 DEF Item
  <1>3. manager = "init" /\ made < 18 => Item = InitOrder[made + 1]
        BY <1>1 DEF Item
  <1>4. \A k \in 1 .. 18 : /\ InitOrder[k] = "args" => k = 6
                           /\ InitOrder[k] = "links" => k = 11
                           /\ InitOrder[k] = "pktmbuf_mp" => k = 7
                           /\ InitOrder[k] = "ports" => k = 10
        BY DEF InitOrder
  <1>5. InitOrder[7] = "pktmbuf_mp" /\ InitOrder[10] = "ports"
        BY DEF InitOrder
  <1>6. made < 18 => made + 1 \in 1 .. 18
        BY <1>1
  <1>. QED BY <1>1, <1>2, <1>3, <1>4, <1>5, <1>6

(* The ports that were started are a finite set. *)
InUse == {p \in Ports : started[p] = 1}
LEMMA PortsStartedIs ==
    ASSUME started \in [Ports -> {0, 1}]
    PROVE  /\ PortsStarted = Cardinality(InUse) /\ PortsStarted \in Nat
           /\ IsFiniteSet(InUse)
  <1>1. {p \in DOMAIN started : started[p] > 0} = InUse
        BY DEF InUse
  <1>2. IsFiniteSet(Ports)
        BY NumbersAre, FS_Interval DEF Ports
  <1>3. IsFiniteSet(InUse) /\ Cardinality(InUse) \in Nat
    <2>1. InUse \in SUBSET Ports
          BY DEF InUse
    <2>. QED BY <1>2, <2>1, FS_Subset, FS_CardinalityType
  <1>. QED BY <1>1, <1>3 DEF PortsStarted

(* The next port is one that was not started: it is the next of those in use. *)
LEMMA SetupPort ==
    ASSUME SetupInv, made \in 0 .. Len(InitOrder), InitPort
    PROVE  SetupInv'
  <1> USE DEF SetupInv
  <1>1. /\ made = 9 /\ PortsStarted < Len(config.ports)
        /\ UNCHANGED <<made, config, mbuf_ports, checks>>
        BY ItemIs DEF InitPort
  <1>2. /\ config.ports \in Seq(Ports) /\ PortsStarted \in Nat
        /\ PortsStarted = Cardinality(InUse) /\ IsFiniteSet(InUse)
        BY PortsStartedIs DEF Confs
  <1>3. PICK n \in Nat : n = PortsStarted
        BY <1>2
  <1>4. PICK p \in Ports : p = config.ports[n + 1]
    <2>1. n + 1 \in 1 .. Len(config.ports)
          BY <1>1, <1>2, <1>3
    <2>. QED BY <1>2, <2>1
  <1>5. CASE started' = started
    <2>1. PortsStarted' = PortsStarted
          BY <1>5 DEF PortsStarted
    <2>. QED BY <1>1, <1>5, <2>1
  <1>6. CASE started' # started
    <2>1. started[p] = 0 /\ started' = [started EXCEPT ![p] = started[p] + 1]
          BY <1>3, <1>4, <1>6 DEF InitPort
    <2>2. /\ started' \in [Ports -> {0, 1}] /\ started'[p] = 1
          /\ \A q \in Ports \ {p} : started'[q] = started[q]
          BY <2>1
    <2>3. InUse' = InUse \cup {p} /\ p \notin InUse
          BY <2>1, <2>2 DEF InUse
    <2>4. PortsStarted' = Cardinality(InUse')
      <3>1. {q \in DOMAIN started' : started'[q] > 0} = InUse'
            BY <2>2 DEF InUse
      <3>. QED BY <3>1 DEF PortsStarted
    <2>5. PortsStarted' = n + 1
          BY <1>2, <1>3, <2>3, <2>4, FS_AddElement
    <2>6. ASSUME NEW q \in Ports
          PROVE  started'[q] = 1 <=> \E k \in 1 .. n + 1 : config.ports[k] = q
      <3>1. started[q] = 1 <=> \E k \in 1 .. n : config.ports[k] = q
            BY <1>3
      <3>2. (\E k \in 1 .. n + 1 : config.ports[k] = q)
                <=> (\E k \in 1 .. n : config.ports[k] = q) \/ q = p
        <4>1. \A k \in 1 .. n + 1 : k \in 1 .. n \/ k = n + 1
              BY <1>3
        <4>2. 1 .. n \subseteq 1 .. n + 1 /\ n + 1 \in 1 .. n + 1
              BY <1>3
        <4>. QED BY <1>4, <4>1, <4>2
      <3>. QED BY <2>1, <2>2, <3>1, <3>2
    <2>7. n + 1 <= Len(config.ports)
          BY <1>1, <1>2, <1>3
    <2>8. UNCHANGED <<made, config, mbuf_ports, checks>>
          BY <1>1
    <2>. QED BY <1>1, <2>2, <2>5, <2>6, <2>7, <2>8
  <1>. QED BY <1>5, <1>6

LEMMA SetupNext == SetupInv /\ made \in 0 .. Len(InitOrder) /\ [Next]_vars => SetupInv'
  <1> SUFFICES ASSUME SetupInv, made \in 0 .. Len(InitOrder), [Next]_vars
               PROVE  SetupInv'
      OBVIOUS
  <1> USE DEF SetupInv
  <1>1. /\ made \in 0 .. 18 /\ PortsStarted \in Nat
        /\ config.ports \in Seq(Ports) /\ Len(config.ports) \in Nat
    <2>1. made \in 0 .. 18 /\ PortsStarted \in Nat
          BY Orders, PortsStartedIs
    <2>2. config.ports \in Seq(Ports)
          BY DEF Confs
    <2>. QED BY <2>1, <2>2
  <1>2. started' = started => PortsStarted' = PortsStarted
        BY DEF PortsStarted
  <1>3. CASE UNCHANGED initVars
        BY <1>2, <1>3 DEF initVars
  <1>4. CASE \E line \in CommandLines : ParseMgrArgs(line)
    <2>1. PICK line \in CommandLines : ParseMgrArgs(line)
          BY <1>4
    <2>2. made = 5 /\ UNCHANGED <<mbuf_ports, started, checks>>
          BY <2>1, ItemIs DEF ParseMgrArgs
    <2>3. CASE \A k \in 1 .. Len(line) : Accepted(line[k])
      <3>1. config' \in Confs /\ made' = 6
        <4>1. config' = FoldLeft(Taken, config, line) /\ made' = made + 1
              BY <2>1, <2>3 DEF ParseMgrArgs
        <4>. QED BY <2>2, <2>3, <4>1, LineType
      <3>2. PortsStarted = 0 /\ mbuf_ports = 0 /\ PortsStarted' = 0
            BY <1>2, <2>2
      <3>3. config'.ports \in Seq(Ports)
            BY <3>1 DEF Confs
      <3>4. Len(config'.ports) \in Nat
            BY <3>3
      <3>5. \A p \in Ports : started[p] # 1
            BY <3>2
      <3>. QED BY <2>2, <3>1, <3>2, <3>4, <3>5
    <2>4. CASE ~\A k \in 1 .. Len(line) : Accepted(line[k])
          BY <1>3, <2>1, <2>2, <2>4 DEF ParseMgrArgs, initVars
    <2>. QED BY <2>3, <2>4
  <1>5. CASE Make
    <2>1. /\ made' = made + 1 /\ made # 6 /\ made # 9 /\ made < 18
          /\ UNCHANGED <<config, mbuf_ports, started, checks>>
          BY <1>5, ItemIs DEF Make
    <2>. QED BY <1>1, <1>2, <2>1
  <1>6. CASE InitMbufMps
    <2>1. /\ made' = made + 1 /\ made = 6 /\ mbuf_ports' = Len(config.ports)
          /\ UNCHANGED <<config, started, checks>>
          BY <1>6, ItemIs DEF InitMbufMps
    <2>. QED BY <1>1, <1>2, <2>1
  <1>7. CASE PortsDone
    <2>1. /\ made' = made + 1 /\ made = 9 /\ PortsStarted = Len(config.ports)
          /\ UNCHANGED <<config, started, checks, mbuf_ports>>
          BY <1>7, ItemIs DEF PortsDone
    <2>. QED BY <1>1, <1>2, <2>1
  <1>8. ASSUME NEW up \in BOOLEAN, CheckLinks(up) PROVE SetupInv'
    <2>1. made = 10 /\ UNCHANGED <<config, started, mbuf_ports>>
          BY <1>8, ItemIs DEF CheckLinks
    <2>2. \/ made' = made + 1 /\ checks' = checks
          \/ made' = made /\ checks' = checks + 1 /\ checks # MAX_CHECK_TIME - 1
          BY <1>8 DEF CheckLinks
    <2>3. checks' \in 0 .. MAX_CHECK_TIME - 1
      <3>1. checks \in 0 .. MAX_CHECK_TIME - 1
            OBVIOUS
      <3>2. MAX_CHECK_TIME \in Nat
            BY NumbersAre
      <3> HIDE DEF SetupInv
      <3>. QED BY <2>2, <3>1, <3>2
    <2>. QED BY <1>1, <1>2, <2>1, <2>2, <2>3
  <1>9. CASE UNCHANGED vars \/ MakeFails \/ BeginLaunch \/ Launch \/ NextKind \/ EnterMaster
        BY <1>3, <1>9 DEF vars, MakeFails, BeginLaunch, Launch, NextKind, EnterMaster
  <1>10. ASSUME NEW p \in Procs, NfStep(p) PROVE SetupInv'
         BY <1>3, <1>10 DEF NfStep, Begin, Lookup, LookupFails
  <1>. QED BY <1>4, <1>5, <1>6, <1>7, <1>8, <1>9, <1>10, SetupPort DEF Next, ManagerStep

LEMMA SetupInit == Init => SetupInv
  <1> SUFFICES ASSUME Init PROVE SetupInv
      OBVIOUS
  <1>1. started = [p \in Ports |-> 0]
        BY DEF Init, Ports
  <1>2. PortsStarted = 0
    <2>1. {p \in DOMAIN started : started[p] > 0} = {}
          BY <1>1
    <2>. QED BY <2>1, FS_EmptySet DEF PortsStarted
  <1>3. config \in Confs /\ config.ports = <<>>
    <2>1. <<>> \in Seq(Ports)
          OBVIOUS
    <2>2. 16 \in U16s /\ 1 \in U16s /\ 0 \in 0 .. 2 /\ D2SC_NUM_RX_THREADS \in U16s
          BY NumbersAre, SmallNumbers
    <2>3. config = [num_nts |-> 16, default_nt |-> 1, stats_dst |-> 0, sleep_time |-> 1,
                    num_rx_threads |-> D2SC_NUM_RX_THREADS, ports |-> <<>>]
          BY DEF Init, Defaults
    <2>. QED BY <2>1, <2>2, <2>3 DEF Confs
  <1>4. mbuf_ports = 0 /\ made = 0 /\ checks = 0
        BY DEF Init
  <1>. QED BY <1>1, <1>2, <1>3, <1>4, NumbersAre DEF SetupInv

-----------------------------------------------------------------------------
(* The launch: how many threads of kind k have an lcore, which lcores those are
   (Staff), and that they lie behind one another, up to cur_lcore. *)
Kinds == {"tx", "rx", "scale"}
Others == Lcores \ {Master}
Done(k) == CASE k = kind -> i
             [] k = "tx" /\ kind # "tx" -> Threads("tx")
             [] k = "rx" /\ kind = "scale" -> Threads("rx")
             [] OTHER -> 0
Staff == {c \in Others : job[c] # NoJob}
JobInv ==
    /\ DOMAIN job = Lcores /\ job[Master] = <<"master", 0>>
    /\ \A c \in Staff : \E k \in Kinds, j \in Nat : j < Done(k) /\ job[c] = <<k, j>>
    /\ \A c, d \in Staff : job[c] = job[d] => c = d
    /\ \A k \in Kinds : \A j \in 0 .. Done(k) - 1 : \E c \in Staff : job[c] = <<k, j>>
StaffInv ==
    /\ Cardinality(Staff) = Done("tx") + Done("rx") + Done("scale")
    /\ Staff # {} => cur_lcore \in Staff
    /\ \A c \in Staff \ {cur_lcore} : NextLcore(c) \in Staff
LaunchInv ==
    /\ manager \in {"init", "launch", "master", "exit"} /\ made \in 0 .. Len(InitOrder)
    /\ kind \in Kinds /\ i \in Nat /\ i <= Threads(kind) /\ cur_lcore \in Int
    /\ manager = "init" => kind = "tx" /\ i = 0
    /\ manager \in {"launch", "master"} => made = Len(InitOrder)
    /\ manager = "master" => kind = "scale" /\ i = 1
    /\ manager = "exit" /\ made = Len(InitOrder) =>
          Cardinality(Lcores) < config.num_rx_threads + 3

(* rte_get_next_lcore goes up, and round to the first one. *)
LEMMA NextIs ==
    ASSUME NEW c \in Int
    PROVE  /\ NextLcore(c) \in Others
           /\ \A d \in Others : d > c => NextLcore(c) > c /\ NextLcore(c) <= d
           /\ (\A d \in Others : ~(d > c)) => \A d \in Others : NextLcore(c) <= d
  <1> DEFINE above == {d \in Others : d > c}
  <1>1. Others \in SUBSET Nat /\ Others # {}
    <2>1. Others = {} => Lcores = {Master}
          BY MasterIs DEF Others
    <2>2. Cardinality({Master}) = 1
          BY FS_Singleton
    <2>3. Cardinality(Lcores) > 1
          BY StartAssumption
    <2>. QED BY <2>1, <2>2, <2>3, MasterIs DEF Others
  <1>2. \A S \in SUBSET Nat : S # {} => /\ Min(S) \in S
                                        /\ \A n \in S : Min(S) <= n
    <2> SUFFICES ASSUME NEW S \in SUBSET Nat, S # {}
                 PROVE  Min(S) \in S /\ \A n \in S : Min(S) <= n
        OBVIOUS
    <2>1. \E m \in S : \A n \in S : m <= n
          BY FirstNat
    <2>. QED BY <2>1 DEF Min
  <1>3. NextLcore(c) = IF above # {} THEN Min(above) ELSE Min(Others)
        BY DEF NextLcore, Others
  <1>4. above \in SUBSET Nat /\ above \subseteq Others
        BY <1>1
  <1>5. CASE above # {}
    <2>1. NextLcore(c) \in above /\ \A n \in above : NextLcore(c) <= n
      <3> HIDE DEF above
      <3>. QED BY <1>2, <1>3, <1>4, <1>5
    <2>. QED BY <1>5, <2>1
  <1>6. CASE above = {}
        BY <1>1, <1>2, <1>3, <1>6
  <1>. QED BY <1>5, <1>6

(* Who goes on from each of some lcores to another of them meets all. *)
LEMMA ClosedIsAll ==
    ASSUME NEW L \in SUBSET Others, L # {}, \A c \in L : NextLcore(c) \in L
    PROVE  L = Others
  <1>1. Others \in SUBSET Nat /\ IsFiniteSet(Others)
        BY MasterIs, FS_Subset DEF Others
  <1>2. L \in SUBSET Nat /\ IsFiniteSet(L)
        BY <1>1, FS_Subset
  <1>3. PICK last \in L : \A n \in L : n <= last
        BY <1>2, LastFinite
  <1>4. \E o \in L : \A d \in Others : o <= d
    <2>1. \A d \in Others : ~(d > last)
      <3> SUFFICES ASSUME NEW d \in Others, d > last PROVE FALSE
          OBVIOUS
      <3>1. NextLcore(last) > last /\ NextLcore(last) \in L
            BY <1>1, <1>2, NextIs
      <3>2. last \in Int /\ NextLcore(last) \in Int
        <4>1. \A n \in L : n \in Int
              BY <1>2
        <4>. QED BY <3>1, <4>1
      <3>3. NextLcore(last) <= last
            BY <1>3, <3>1
      <3>. QED BY <3>1, <3>2, <3>3
    <2>2. last \in Int
          BY <1>2
    <2>. QED BY <2>1, <2>2, NextIs
  <1>5. PICK o \in L : \A d \in Others : o <= d
        BY <1>4
  <1>6. ASSUME NEW c \in Others, c \notin L PROVE FALSE
    <2> DEFINE P == {x \in L : x < c}
    <2>1. o \in P
          BY <1>1, <1>2, <1>5, <1>6
    <2>2. P \in SUBSET Nat /\ IsFiniteSet(P)
          BY <1>2, FS_Subset
    <2>3. PICK p \in P : \A n \in P : n <= p
      <3> HIDE DEF P
      <3>. QED BY <2>1, <2>2, LastFinite
    <2>4. p \in L /\ p \in Int /\ c > p /\ c \in Nat
          BY <1>1, <1>2, <1>6
    <2>5. NextLcore(p) > p /\ NextLcore(p) <= c /\ NextLcore(p) \in L
          BY <1>6, <2>4, NextIs
    <2>6. NextLcore(p) \in Nat /\ NextLcore(p) # c
          BY <1>2, <1>6, <2>5
    <2>7. NextLcore(p) \in P
          BY <2>4, <2>5, <2>6
    <2>. QED BY <2>3, <2>4, <2>5, <2>6, <2>7
  <1>. QED BY <1>6

(* There are so many threads of each kind. *)
LEMMA ThreadsAre ==
    ASSUME config \in Confs
    PROVE  /\ Threads("tx") \in Nat /\ Threads("rx") = config.num_rx_threads
           /\ Threads("rx") \in Nat /\ Threads("scale") = 1
           /\ Cardinality(Lcores) \in Nat
           /\ Cardinality(Lcores) >= config.num_rx_threads + 3 =>
                 Threads("tx") = Cardinality(Lcores) - config.num_rx_threads - 2
  <1>1. Cardinality(Lcores) \in Nat
        BY MasterIs, FS_CardinalityType
  <1>2. config.num_rx_threads \in Nat
    <2>1. config.num_rx_threads \in U16s
          BY DEF Confs
    <2>. QED BY <2>1, SmallNumbers DEF U16s
  <1>3. MANY \in Nat
        BY DEF MANY
  <1>4. Threads("tx") = tx_lcores /\ Threads("rx") = config.num_rx_threads /\ Threads("scale") = 1
        BY DEF Threads
  <1>. QED BY <1>1, <1>2, <1>3, <1>4 DEF tx_lcores

(* The threads that were launched, one of each number below Done. *)
LEMMA DoneIs ==
    ASSUME config \in Confs, kind \in Kinds, i \in Nat
    PROVE  /\ \A k \in Kinds : Done(k) \in Nat
           /\ Done(kind) = i
           /\ kind = "tx" => Done("rx") = 0 /\ Done("scale") = 0
           /\ kind = "rx" => Done("tx") = Threads("tx") /\ Done("scale") = 0
           /\ kind = "scale" => Done("tx") = Threads("tx") /\ Done("rx") = Threads("rx")
  <1>1. Done(kind) = i
        BY DEF Done
  <1>2. /\ kind = "tx" => Done("rx") = 0 /\ Done("scale") = 0
        /\ kind = "rx" => Done("tx") = Threads("tx") /\ Done("scale") = 0
        /\ kind = "scale" => Done("tx") = Threads("tx") /\ Done("rx") = Threads("rx")
        BY DEF Done
  <1>. QED BY <1>1, <1>2, ThreadsAre DEF Kinds

-----------------------------------------------------------------------------
(* The other threads have the lcores of Staff, which are finitely many. *)
StartInv == /\ made \in 0 .. Len(InitOrder) /\ SetupInv
            /\ JobInv /\ StaffInv /\ LaunchInv
LEMMA StaffIs ==
    /\ Staff \in SUBSET Others /\ IsFiniteSet(Staff) /\ Others \in SUBSET Nat
    /\ IsFiniteSet(Others) /\ Cardinality(Others) = Cardinality(Lcores) - 1
    /\ Cardinality(Staff) \in Nat /\ Cardinality(Lcores) \in Nat
    /\ Cardinality(Staff) <= Cardinality(Others)
    /\ Cardinality(Staff) = Cardinality(Others) => Staff = Others
  <1>1. IsFiniteSet(Lcores) /\ Master \in Lcores /\ Lcores \in SUBSET Nat
        BY MasterIs
  <1>2. Others = Lcores \ {Master} /\ Staff \in SUBSET Others
        BY DEF Others, Staff
  <1>3. /\ IsFiniteSet(Others) /\ Cardinality(Others) = Cardinality(Lcores) - 1
        /\ Cardinality(Lcores) \in Nat /\ Cardinality(Others) \in Nat
        BY <1>1, <1>2, FS_RemoveElement, FS_CardinalityType
  <1>4. /\ IsFiniteSet(Staff) /\ Cardinality(Staff) \in Nat
        /\ Cardinality(Staff) <= Cardinality(Others)
        /\ Cardinality(Staff) = Cardinality(Others) => Staff = Others
        BY <1>2, <1>3, FS_Subset, FS_CardinalityType
  <1>. QED BY <1>1, <1>2, <1>3, <1>4

(* A step that launches no thread; the configuration may only change before. *)
LEMMA QuietStep ==
    ASSUME StartInv, UNCHANGED launchVars,
           \/ UNCHANGED <<manager, made, config>>
           \/ /\ manager = "init" /\ made < 18 /\ made' \in 0 .. 18
              /\ config' \in Confs
              /\ manager' = "init" \/ (manager' = "exit" /\ made' = made)
    PROVE  JobInv' /\ StaffInv' /\ LaunchInv'
  <1>1. UNCHANGED <<kind, i, cur_lcore, job, Staff>> /\ Len(InitOrder) = 18
        BY Orders DEF launchVars, Staff
  <1>2. /\ kind \in Kinds /\ i \in Nat /\ config \in Confs /\ config' \in Confs
        /\ manager = "init" => kind = "tx" /\ i = 0
        BY DEF StartInv, LaunchInv, SetupInv
  <1>3. \A k \in Kinds : Done(k)' = Done(k)
    <2>1. CASE config' = config
      <3>1. \A k : Threads(k)' = Threads(k)
            BY <2>1 DEF Threads, tx_lcores
      <3>. QED BY <1>1, <3>1 DEF Done
    <2>2. CASE kind = "tx"
          BY <1>1, <2>2 DEF Done, Kinds
    <2>. QED BY <1>2, <2>1, <2>2
  <1>4. JobInv'
    <2>1. Kinds' = Kinds
          BY DEF Kinds
    <2>. QED BY <1>1, <1>3 DEF StartInv, JobInv, Kinds
  <1>5. StaffInv'
    <2>1. \A c : NextLcore(c)' = NextLcore(c)
          BY DEF NextLcore
    <2>. QED BY <1>1, <1>3, <2>1 DEF StartInv, StaffInv, Kinds
  <1>6. i <= Threads(kind)'
    <2>1. CASE config' = config
      <3>1. Threads(kind)' = Threads(kind)
            BY <1>1, <2>1 DEF Threads, tx_lcores
      <3>. QED BY <3>1 DEF StartInv, LaunchInv
    <2>2. CASE kind = "tx" /\ i = 0
      <3>1. Cardinality(Lcores) \in Nat /\ MANY \in Nat
            BY <1>2, ThreadsAre DEF MANY
      <3>2. config'.num_rx_threads \in Nat
        <4>1. config'.num_rx_threads \in U16s
              BY <1>2 DEF Confs
        <4>. QED BY <4>1, SmallNumbers DEF U16s
      <3>3. Threads("tx")' \in Nat
            BY <3>1, <3>2 DEF Threads, tx_lcores
      <3>. QED BY <1>1, <2>2, <3>3
    <2>. QED BY <1>2, <2>1, <2>2
  <1>7. made \in 0 .. 18 /\ made' \in 0 .. 18
        BY <1>1 DEF StartInv
  <1>8. LaunchInv'
    <2> USE <1>1, <1>2, <1>6, <1>7 DEF StartInv, LaunchInv
    <2>1. CASE UNCHANGED <<manager, made, config>>
          BY <2>1
    <2>2. CASE /\ manager = "init" /\ made < 18 /\ made' \in 0 .. 18
               /\ manager' = "init" \/ (manager' = "exit" /\ made' = made)
          BY <2>2
    <2>. QED BY <2>1, <2>2
  <1>. QED BY <1>4, <1>5, <1>8

(* Before the launch nobody has an lcore but the master, and after it nothing
   changes but who goes on. *)
LEMMA StageStep ==
    ASSUME StartInv, BeginLaunch \/ NextKind \/ EnterMaster
    PROVE  JobInv' /\ StaffInv' /\ LaunchInv'
  <1>1. UNCHANGED <<job, made, config, Staff>> /\ Len(InitOrder) = 18
        BY Orders DEF BeginLaunch, NextKind, EnterMaster, Staff, initVars, launchVars
  <1>2. /\ kind \in Kinds /\ i \in Nat /\ config \in Confs /\ made \in 0 .. 18
        /\ cur_lcore \in Int
        BY <1>1 DEF StartInv, LaunchInv, SetupInv
  <1>3. \A k : Threads(k)' = Threads(k)
        BY <1>1 DEF Threads, tx_lcores
  <1>4. \A k \in Kinds : Threads(k) \in Nat
        BY <1>2, ThreadsAre DEF Kinds
  <1>5. /\ kind' \in Kinds /\ i' \in Nat /\ i' <= Threads(kind')
        /\ \A k \in Kinds : Done(k)' = Done(k)
    <2>1. CASE NextKind
      <3>1. /\ i = Threads(kind) /\ i' = 0 /\ kind \in {"tx", "rx"}
            /\ kind' = IF kind = "tx" THEN "rx" ELSE "scale"
            BY <1>2, <2>1 DEF NextKind, Kinds
      <3>2. kind' \in Kinds /\ i' <= Threads(kind')
            BY <1>4, <3>1 DEF Kinds
      <3>3. \A k \in Kinds : Done(k)' = Done(k)
            BY <1>3, <3>1 DEF Kinds, Done
      <3>. QED BY <3>1, <3>2, <3>3
    <2>2. CASE BeginLaunch \/ EnterMaster
      <3>1. UNCHANGED <<kind, i>>
            BY <2>2 DEF BeginLaunch, EnterMaster, launchVars
      <3>. QED BY <1>2, <1>3, <3>1 DEF Done, StartInv, LaunchInv
    <2>. QED BY <2>1, <2>2
  <1>6. JobInv'
        BY <1>1, <1>5 DEF StartInv, JobInv, Kinds
  <1>7. Staff # {} => cur_lcore' = cur_lcore
    <2>1. CASE BeginLaunch
      <3>1. kind = "tx" /\ i = 0
            BY <2>1 DEF BeginLaunch, StartInv, LaunchInv
      <3>2. Cardinality(Staff) = 0
            BY <1>2, <3>1, DoneIs DEF StartInv, StaffInv
      <3>. QED BY <3>2, StaffIs, FS_EmptySet
    <2>2. CASE NextKind \/ EnterMaster
          BY <2>2 DEF NextKind, EnterMaster, launchVars
    <2>. QED BY <2>1, <2>2
  <1>8. StaffInv'
    <2>1. \A c : NextLcore(c)' = NextLcore(c)
          BY DEF NextLcore
    <2>. QED BY <1>1, <1>5, <1>7, <2>1 DEF StartInv, StaffInv, Kinds
  <1>9. cur_lcore' \in Int
    <2>1. Master \in Int
          BY MasterIs
    <2>2. config.num_rx_threads \in Int
          BY <1>2, ThreadsAre
    <2>. QED BY <1>2, <2>1, <2>2 DEF BeginLaunch, NextKind, EnterMaster, launchVars
  <1>10. LaunchInv'
    <2>1. CASE BeginLaunch
      <3>1. /\ manager' = "launch" /\ made' = Len(InitOrder)
            BY <2>1 DEF BeginLaunch, initVars
      <3>. QED BY <1>1, <1>2, <1>3, <1>5, <1>9, <3>1 DEF LaunchInv
    <2>2. CASE NextKind
      <3>1. /\ manager' = "launch" /\ manager = "launch" /\ made' = made
            BY <2>2 DEF NextKind, initVars
      <3>. QED BY <1>1, <1>2, <1>3, <1>5, <1>9, <3>1 DEF LaunchInv, StartInv
    <2>3. CASE EnterMaster
      <3>1. /\ manager' = "master" /\ manager = "launch" /\ made' = made
            /\ kind' = kind /\ i' = i /\ kind = "scale" /\ i = Threads("scale")
            BY <2>3 DEF EnterMaster, initVars, launchVars
      <3>2. i = 1
            BY <1>2, <3>1, ThreadsAre
      <3>. QED BY <1>1, <1>2, <1>3, <1>5, <1>9, <3>1, <3>2 DEF LaunchInv, StartInv
    <2>. QED BY <2>1, <2>2, <2>3
  <1>. QED BY <1>6, <1>8, <1>10


(* A thread is launched on the lcore behind the last one; when that has a thread
   all lcores have, and there are too few of them. *)
LEMMA LaunchStep ==
    ASSUME StartInv, Launch
    PROVE  JobInv' /\ StaffInv' /\ LaunchInv'
  <1>1. PICK c : c = NextLcore(cur_lcore)
        OBVIOUS
  <1>2. /\ kind \in Kinds /\ i \in Nat /\ config \in Confs /\ made = Len(InitOrder)
        /\ cur_lcore \in Int /\ manager = "launch" /\ i < Threads(kind)
        BY DEF StartInv, LaunchInv, SetupInv, Launch
  <1>3. c \in Others /\ c # Master /\ c \in Lcores /\ c \in Int
    <2>1. c \in Others
          BY <1>1, <1>2, NextIs
    <2>. QED BY <2>1, MasterIs DEF Others
  <1>4. cur_lcore' = c /\ UNCHANGED <<made, config, kind>>
        BY <1>1 DEF Launch, initVars
  <1>5. (\A k : Threads(k)' = Threads(k)) /\ (\A d : NextLcore(d)' = NextLcore(d))
        BY <1>4 DEF Threads, tx_lcores, NextLcore
  <1>6. /\ \A k \in Kinds : Done(k) \in Nat
        /\ Done(kind) = i
        BY <1>2, DoneIs
  <1>7. CASE job[c] = NoJob
    <2>1. /\ job' = [job EXCEPT ![c] = <<kind, i>>] /\ i' = i + 1 /\ manager' = "launch"
          BY <1>2, <1>4, <1>7 DEF Launch
    <2>2. DOMAIN job = Lcores /\ job[Master] = <<"master", 0>>
          BY DEF StartInv, JobInv
    <2>3. /\ DOMAIN job' = Lcores /\ job'[c] = <<kind, i>>
          /\ \A d \in Lcores : d # c => job'[d] = job[d]
          BY <1>3, <2>1, <2>2
    <2>4. <<kind, i>> # NoJob
          BY <1>2 DEF Kinds, NoJob
    <2>5. Staff' = Staff \cup {c} /\ c \notin Staff
          BY <1>3, <1>7, <2>3, <2>4 DEF Staff, Others
    <2>6. \A k \in Kinds : Done(k)' = IF k = kind THEN i + 1 ELSE Done(k)
          BY <1>4, <1>5, <2>1 DEF Done
    <2>7. \A d \in Staff : d \in Lcores /\ d # c /\ job'[d] = job[d]
          BY <2>3, <2>5 DEF Staff, Others
    <2>8. JobInv'
      <3>1. DOMAIN job' = Lcores /\ job'[Master] = <<"master", 0>>
            BY <1>3, <2>2, <2>3, MasterIs
      <3>2. ASSUME NEW d \in Staff'
            PROVE  \E k \in Kinds, j \in Nat : j < Done(k)' /\ job'[d] = <<k, j>>
        <4>1. CASE d = c
              BY <1>2, <2>3, <2>6, <4>1
        <4>2. CASE d \in Staff
          <5>1. PICK k \in Kinds, j \in Nat : j < Done(k) /\ job[d] = <<k, j>>
                BY <4>2 DEF StartInv, JobInv
          <5>2. j < Done(k)'
                BY <1>2, <1>6, <2>6, <5>1
          <5>. QED BY <2>7, <4>2, <5>1, <5>2
        <4>. QED BY <2>5, <3>2, <4>1, <4>2
      <3>3. \A d \in Staff : job[d] # <<kind, i>>
        <4> SUFFICES ASSUME NEW d \in Staff, job[d] = <<kind, i>> PROVE FALSE
            OBVIOUS
        <4>1. PICK k \in Kinds, j \in Nat : j < Done(k) /\ job[d] = <<k, j>>
              BY DEF StartInv, JobInv
        <4>2. k = kind /\ j = i
              BY <4>1
        <4>. QED BY <1>2, <1>6, <4>1, <4>2
      <3>4. \A d, e \in Staff' : job'[d] = job'[e] => d = e
        <4>1. \A d, e \in Staff : job[d] = job[e] => d = e
              BY DEF StartInv, JobInv
        <4>. QED BY <2>3, <2>5, <2>7, <3>3, <4>1
      <3>5. ASSUME NEW k \in Kinds, NEW j \in 0 .. Done(k)' - 1
            PROVE  \E d \in Staff' : job'[d] = <<k, j>>
        <4>1. CASE k = kind /\ j = i
              BY <2>3, <2>5, <4>1
        <4>2. CASE ~(k = kind /\ j = i)
          <5>1. j \in 0 .. Done(k) - 1
                BY <1>2, <1>6, <2>6, <4>2
          <5>2. PICK d \in Staff : job[d] = <<k, j>>
                BY <5>1 DEF StartInv, JobInv
          <5>. QED BY <2>5, <2>7, <5>2
        <4>. QED BY <4>1, <4>2
      <3>. QED BY <3>1, <3>2, <3>4, <3>5 DEF JobInv, Kinds
    <2>9. StaffInv'
      <3>1. Cardinality(Staff') = Cardinality(Staff) + 1
            BY <2>5, StaffIs, FS_AddElement
      <3>2. Cardinality(Staff) = Done("tx") + Done("rx") + Done("scale")
            BY DEF StartInv, StaffInv
      <3>3. Cardinality(Staff') = Done("tx")' + Done("rx")' + Done("scale")'
            BY <1>2, <1>6, <2>6, <3>1, <3>2 DEF Kinds
      <3>4. \A d \in Staff' \ {c} : NextLcore(d) \in Staff'
            BY <1>1, <2>5 DEF StartInv, StaffInv
      <3>. QED BY <1>4, <1>5, <2>5, <3>3, <3>4 DEF StaffInv
    <2>10. LaunchInv'
      <3>1. Threads(kind) \in Nat
            BY <1>2, ThreadsAre DEF Kinds
      <3>. QED BY <1>2, <1>3, <1>4, <1>5, <2>1, <3>1, Orders DEF LaunchInv, StartInv
    <2>. QED BY <2>8, <2>9, <2>10
  <1>8. CASE job[c] # NoJob
    <2>1. UNCHANGED <<job, i, Staff>> /\ manager' = "exit" /\ c \in Staff
          BY <1>3, <1>4, <1>8 DEF Launch, Staff
    <2>2. \A k \in Kinds : Done(k)' = Done(k)
          BY <1>4, <1>5, <2>1 DEF Done
    <2>3. JobInv'
          BY <2>1, <2>2 DEF StartInv, JobInv, Kinds
    <2>4. \A d \in Staff : NextLcore(d) \in Staff
          BY <1>1, <2>1 DEF StartInv, StaffInv
    <2>5. StaffInv'
          BY <1>4, <1>5, <2>1, <2>2, <2>4 DEF StartInv, StaffInv, Kinds
    <2>6. Staff = Others
          BY <2>1, <2>4, StaffIs, ClosedIsAll
    <2>7. Cardinality(Lcores) < config.num_rx_threads + 3
      <3>1. Cardinality(Lcores) - 1 = Done("tx") + Done("rx") + Done("scale")
            BY <2>6, StaffIs DEF StartInv, StaffInv
      <3>2. /\ config.num_rx_threads \in Nat /\ Cardinality(Lcores) \in Nat
            /\ Threads("rx") = config.num_rx_threads /\ Threads("scale") = 1
            /\ Cardinality(Lcores) >= config.num_rx_threads + 3 =>
                   Threads("tx") = Cardinality(Lcores) - config.num_rx_threads - 2
            BY <1>2, ThreadsAre
      <3>3. CASE kind = "tx"
            BY <1>2, <1>6, <3>1, <3>2, <3>3, DoneIs
      <3>4. CASE kind = "rx"
            BY <1>2, <1>6, <3>1, <3>2, <3>4, DoneIs
      <3>5. CASE kind = "scale"
            BY <1>2, <1>6, <3>1, <3>2, <3>5, DoneIs
      <3>. QED BY <1>2, <3>3, <3>4, <3>5 DEF Kinds
    <2>8. LaunchInv'
      <3>1. Threads(kind) \in Nat
            BY <1>2, ThreadsAre DEF Kinds
      <3>. QED BY <1>2, <1>3, <1>4, <1>5, <2>1, <2>7, <3>1, Orders DEF LaunchInv, StartInv
    <2>. QED BY <2>3, <2>5, <2>8
  <1>. QED BY <1>7, <1>8

LEMMA StartNext == StartInv /\ [Next]_vars => StartInv'
  <1> SUFFICES ASSUME StartInv, [Next]_vars PROVE StartInv'
      OBVIOUS
  <1>1. made \in 0 .. Len(InitOrder) /\ SetupInv /\ Len(InitOrder) = 18
        BY Orders DEF StartInv
  <1>2. SetupInv'
        BY <1>1, SetupNext
  <1>3. made' \in 0 .. Len(InitOrder)
    <2>1. CASE ManagerStep
          BY <1>1, <2>1, MadeGrows
    <2>2. ASSUME NEW p \in Procs, NfStep(p) PROVE made' = made
          BY <2>2 DEF NfStep, Begin, Lookup, LookupFails, initVars
    <2>3. CASE UNCHANGED vars
          BY <1>1, <2>3 DEF vars, initVars
    <2>. QED BY <1>1, <2>1, <2>2, <2>3 DEF Next
  <1>4. config' \in Confs
        BY <1>2 DEF SetupInv
  <1>5. /\ Item # "nothing" => manager = "init" /\ made < 18
        /\ \A x : Item = x /\ x \in {"args", "links", "pktmbuf_mp", "ports"}
                     => Item # "nothing"
        BY <1>1, ItemIs
  <1>6. CASE Make \/ InitMbufMps \/ MakeFails \/ PortsDone \/ InitPort
             \/ (\E line \in CommandLines : ParseMgrArgs(line))
             \/ (\E up \in BOOLEAN : CheckLinks(up))
    <2>1. /\ Item # "nothing" /\ UNCHANGED launchVars
          /\ manager' = manager \/ (manager' = "exit" /\ made' = made)
          BY <1>6 DEF Make, InitMbufMps, MakeFails, PortsDone, InitPort, ParseMgrArgs,
                      CheckLinks, initVars
    <2>2. manager' = "init" \/ (manager' = "exit" /\ made' = made)
          BY <1>5, <2>1
    <2>3. JobInv' /\ StaffInv' /\ LaunchInv'
          BY <1>1, <1>3, <1>4, <1>5, <2>1, <2>2, QuietStep
    <2>. QED BY <1>2, <1>3, <2>3 DEF StartInv
  <1>7. CASE BeginLaunch \/ NextKind \/ EnterMaster
        BY <1>2, <1>3, <1>7, StageStep DEF StartInv
  <1>8. CASE Launch
        BY <1>2, <1>3, <1>8, LaunchStep DEF StartInv
  <1>9. CASE UNCHANGED <<manager, initVars, launchVars>>
    <2>1. UNCHANGED launchVars /\ UNCHANGED <<manager, made, config>>
          BY <1>9 DEF initVars
    <2>2. JobInv' /\ StaffInv' /\ LaunchInv'
          BY <2>1, QuietStep
    <2>. QED BY <1>2, <1>3, <2>2 DEF StartInv
  <1>10. ASSUME NEW p \in Procs, NfStep(p)
         PROVE  UNCHANGED <<manager, initVars, launchVars>>
         BY <1>10 DEF NfStep, Begin, Lookup, LookupFails
  <1>11. CASE UNCHANGED vars
         BY <1>9, <1>11 DEF vars
  <1>. QED BY <1>6, <1>7, <1>8, <1>9, <1>10, <1>11 DEF Next, ManagerStep

LEMMA StartInit == Init => StartInv
  <1> SUFFICES ASSUME Init PROVE StartInv
      OBVIOUS
  <1>1. SetupInv
        BY SetupInit
  <1>2. /\ manager = "init" /\ made = 0 /\ kind = "tx" /\ i = 0 /\ cur_lcore = Master
        /\ job = [c \in Lcores |-> IF c = Master THEN <<"master", 0>> ELSE NoJob]
        BY DEF Init
  <1>3. Staff = {} /\ Cardinality(Staff) = 0
    <2>1. Staff = {}
          BY <1>2 DEF Staff, Others
    <2>. QED BY <2>1, FS_EmptySet
  <1>4. config \in Confs /\ Threads("tx") \in Nat
        BY <1>1, ThreadsAre DEF SetupInv
  <1>5. Done("tx") = 0 /\ Done("rx") = 0 /\ Done("scale") = 0
        BY <1>2 DEF Done
  <1>6. JobInv
    <2>1. \A k \in Kinds : 0 .. Done(k) - 1 = {}
      <3>1. \A k \in Kinds : Done(k) = 0
            BY <1>5 DEF Kinds
      <3>. QED BY <3>1
    <2>2. DOMAIN job = Lcores /\ job[Master] = <<"master", 0>>
          BY <1>2, MasterIs
    <2>. QED BY <1>3, <2>1, <2>2 DEF JobInv
  <1>7. StaffInv
        BY <1>3, <1>5 DEF StaffInv
  <1>8. Master \in Int
        BY MasterIs
  <1>9. made \in 0 .. Len(InitOrder) /\ made # Len(InitOrder)
        BY <1>2, Orders
  <1>10. LaunchInv
         BY <1>2, <1>4, <1>8, <1>9 DEF LaunchInv, Kinds
  <1>. QED BY <1>1, <1>6, <1>7, <1>9, <1>10 DEF StartInv

(* The manager's variables have their types, whatever the command line says:
   numbers of 16 bits, and no port that does not exist is configured
   (d2sc_parse.c:174-184 and d2sc_init.c:197-222). *)
THEOREM StartTypeOK == Spec => []TypeOK
  <1>1. StartInv /\ SearchInv => TypeOK
    <2> SUFFICES ASSUME StartInv, SearchInv PROVE TypeOK
        OBVIOUS
    <2>1. /\ config \in Confs /\ started \in [0 .. N_PORTS - 1 -> {0, 1}]
          /\ mbuf_ports = 0 \/ mbuf_ports = Len(config.ports)
          BY DEF StartInv, SetupInv, Ports
    <2>2. /\ DOMAIN config = DOMAIN Defaults
          /\ config.ports \in Seq(0 .. N_PORTS - 1) /\ config.stats_dst \in 0 .. 2
          /\ config.num_nts \in U16s /\ config.default_nt \in U16s
          /\ config.num_rx_threads \in U16s /\ config.sleep_time \in U16s
          BY <2>1 DEF Confs, Defaults, Ports
    <2>3. mbuf_ports \in 0 .. Len(config.ports)
      <3>1. Len(config.ports) \in Nat
            BY <2>2
      <3>. QED BY <2>1, <3>1
    <2>4. checks \in 0 .. MAX_CHECK_TIME
      <3>1. checks \in 0 .. MAX_CHECK_TIME - 1
            BY DEF StartInv, SetupInv
      <3>. QED BY <3>1, NumbersAre
    <2>5. /\ manager \in {"init", "launch", "master", "exit"}
          /\ made \in 0 .. Len(InitOrder) /\ kind \in Kinds /\ i \in Nat
          /\ cur_lcore \in Int
          BY DEF StartInv, LaunchInv
    <2>6. i \in 0 .. Cardinality(Lcores)
      <3>1. /\ Done(kind) = i /\ Done("tx") \in Nat /\ Done("rx") \in Nat
            /\ Done("scale") \in Nat
            BY <2>1, <2>5, DoneIs DEF Kinds
      <3>2. Cardinality(Staff) = Done("tx") + Done("rx") + Done("scale")
            BY DEF StartInv, StaffInv
      <3>3. i <= Cardinality(Staff)
            BY <2>5, <3>1, <3>2 DEF Kinds
      <3>. QED BY <2>5, <3>3, StaffIs
    <2>7. ASSUME NEW c \in Lcores
          PROVE  job[c] \in {NoJob, <<"master", 0>>} \cup ({"tx", "rx", "scale"} \X Nat)
      <3>1. CASE c \in Staff
        <4>1. PICK k \in Kinds, j \in Nat : job[c] = <<k, j>>
              BY <3>1 DEF StartInv, JobInv
        <4>. QED BY <4>1 DEF Kinds
      <3>2. CASE c \notin Staff
            BY <3>2 DEF Staff, Others, StartInv, JobInv
      <3>. QED BY <3>1, <3>2
    <2>8. /\ proc \in [Procs -> {"out", "looking", "up", "died"}]
          /\ found \in [Procs -> 0 .. Len(LookupOrder)]
          BY DEF SearchInv
    <2>9. /\ {config.num_nts, config.default_nt, config.num_rx_threads,
              config.sleep_time} \subseteq U16s
          /\ kind \in {"tx", "rx", "scale"}
          BY <2>2, <2>5 DEF Kinds
    <2>. QED BY <2>1, <2>2, <2>3, <2>4, <2>5, <2>6, <2>7, <2>8, <2>9 DEF TypeOK
  <1>. QED BY <1>1, StartInit, StartNext, SearchInit, SearchNext, PTL DEF Spec

(* Behind the ports, each port that is in use was started, once, no other was,
   and the pool of mbufs was sized for them, whatever the masks of the command
   line are (d2sc_init.c:197-222). *)
THEOREM PortsAreReady == Spec => []PortsReady
  <1>1. StartInv => PortsReady
    <2> SUFFICES ASSUME StartInv, "ports" \in Made
                 PROVE  /\ \A p \in DOMAIN started :
                              started[p] = 1 <=> p \in ToSet(config.ports)
                        /\ Len(config.ports) = Cardinality(ToSet(config.ports))
                        /\ mbuf_ports = Len(config.ports)
        BY DEF PortsReady
    <2>1. made \in Nat /\ made >= 10
      <3>1. made \in 0 .. Len(InitOrder) /\ Len(InitOrder) = 18
            BY Orders DEF StartInv
      <3>2. PICK k \in 1 .. made : InitOrder[k] = "ports"
            BY <3>1, MadeIs
      <3>3. k \in 1 .. 18
            BY <3>1
      <3>4. k = 10
            BY <3>2, <3>3 DEF InitOrder
      <3>. QED BY <3>1, <3>2, <3>4
    <2>2. /\ started \in [Ports -> {0, 1}] /\ config \in Confs
          /\ PortsStarted = Len(config.ports) /\ mbuf_ports = Len(config.ports)
          /\ \A p \in Ports :
                started[p] = 1 <=> \E k \in 1 .. PortsStarted : config.ports[k] = p
          BY <2>1 DEF StartInv, SetupInv
    <2>3. config.ports \in Seq(Ports)
          BY <2>2 DEF Confs
    <2>4. ToSet(config.ports) = {config.ports[k] : k \in 1 .. Len(config.ports)}
          BY <2>3 DEF ToSet
    <2>5. \A p \in Ports : started[p] = 1 <=> p \in ToSet(config.ports)
          BY <2>2, <2>4
    <2>6. ToSet(config.ports) = InUse
      <3>1. \A k \in 1 .. Len(config.ports) : config.ports[k] \in Ports
            BY <2>3
      <3>. QED BY <2>4, <2>5, <3>1 DEF InUse
    <2>. QED BY <2>2, <2>5, <2>6, PortsStartedIs
  <1>. QED BY <1>1, StartInit, StartNext, PTL DEF Spec

(* However the ids of the lcores lie and whatever -r says, a manager with three
   lcores more than RX threads comes up with another thread on each of them, the
   RX threads for all their queues and the scale thread among them
   (main.c:256-319). *)
THEOREM IsStaffed == Spec => []Staffed
  <1>1. StartInv => Staffed
    <2> SUFFICES ASSUME StartInv, made = Len(InitOrder),
                        Cardinality(Lcores) >= config.num_rx_threads + 3
                 PROVE  /\ manager # "exit"
                        /\ manager = "master" =>
                              /\ IsInjective(job) /\ NoJob \notin Range(job)
                              /\ ({"rx"} \X (0 .. config.num_rx_threads - 1))
                                    \cup {<<"scale", 0>>} \subseteq Range(job)
        BY DEF Staffed
    <2>1. /\ config \in Confs /\ kind \in Kinds /\ i \in Nat
          /\ config.num_rx_threads \in Nat /\ Cardinality(Lcores) \in Nat
          /\ Threads("rx") = config.num_rx_threads
          /\ Threads("tx") = Cardinality(Lcores) - config.num_rx_threads - 2
      <3>1. config \in Confs /\ kind \in Kinds /\ i \in Nat
            BY DEF StartInv, SetupInv, LaunchInv
      <3>. QED BY <3>1, ThreadsAre
    <2>2. manager # "exit"
          BY <2>1 DEF StartInv, LaunchInv
    <2>3. ASSUME manager = "master"
          PROVE  /\ IsInjective(job) /\ NoJob \notin Range(job)
                 /\ ({"rx"} \X (0 .. config.num_rx_threads - 1))
                       \cup {<<"scale", 0>>} \subseteq Range(job)
      <3>1. kind = "scale" /\ i = 1
            BY <2>3 DEF StartInv, LaunchInv
      <3>2. Done("tx") = Threads("tx") /\ Done("rx") = Threads("rx") /\ Done("scale") = 1
            BY <2>1, <3>1, DoneIs
      <3>3. Cardinality(Staff) = Cardinality(Lcores) - 1
            BY <2>1, <3>2 DEF StartInv, StaffInv
      <3>4. Staff = Others
            BY <3>3, StaffIs
      <3>5. DOMAIN job = Lcores /\ job[Master] = <<"master", 0>>
            BY DEF StartInv, JobInv
      <3>6. \A c \in Lcores : c = Master \/ c \in Staff
            BY <3>4 DEF Others
      <3>7. \A c \in Staff : c \in Lcores /\ job[c] # NoJob /\ job[c] # <<"master", 0>>
        <4>1. \A c \in Staff : \E k \in Kinds, j \in Nat : job[c] = <<k, j>>
              BY DEF StartInv, JobInv
        <4>2. \A k \in Kinds, j \in Nat : <<k, j>> # <<"master", 0>>
              BY DEF Kinds
        <4>. QED BY <4>1, <4>2 DEF Staff, Others
      <3>8. IsInjective(job)
        <4>1. \A c, d \in Staff : job[c] = job[d] => c = d
              BY DEF StartInv, JobInv
        <4>. QED BY <3>5, <3>6, <3>7, <4>1 DEF IsInjective
      <3>9. NoJob \notin Range(job)
            BY <3>5, <3>6, <3>7 DEF Range, NoJob
      <3>10. \A k \in Kinds : \A j \in 0 .. Done(k) - 1 : <<k, j>> \in Range(job)
        <4>1. \A k \in Kinds : \A j \in 0 .. Done(k) - 1 : \E c \in Staff : job[c] = <<k, j>>
              BY DEF StartInv, JobInv
        <4>. QED BY <3>5, <3>7, <4>1 DEF Range
      <3>11. \A j \in 0 .. config.num_rx_threads - 1 : <<"rx", j>> \in Range(job)
             BY <2>1, <3>2, <3>10 DEF Kinds
      <3>12. <<"scale", 0>> \in Range(job)
             BY <3>2, <3>10 DEF Kinds
      <3>. QED BY <3>8, <3>9, <3>11, <3>12
    <2>. QED BY <2>2, <2>3
  <1>. QED BY <1>1, StartInit, StartNext, PTL DEF Spec
=============================================================================
