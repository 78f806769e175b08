---------------------------- MODULE NfLoad_proofs ----------------------------
(***************************************************************************)
(* The control loop never takes the last NF of a type, whatever the load   *)
(* and however the requests of the scale thread cross the decisions of the *)
(* NFs, and blocks an NF only when the others can bear what was measured.  *)
(***************************************************************************)
EXTENDS NfLoad, DataLemmas

(* The NFs are finitely many. *)
LEMMA NfsFinite ==
    /\ IsFiniteSet(Nfs) /\ Nfs \in SUBSET (0 .. U16) /\ U16 \in Nat
    /\ \A S \in SUBSET Nfs : IsFiniteSet(S) /\ Cardinality(S) \in Nat
                             /\ Cardinality(S) <= Cardinality(Nfs)
  <1>0. U16 \in Nat
        BY DEF U16
  <1>1. Nfs \in SUBSET (0 .. U16) /\ U16 \in Nat
        BY <1>0, NfsAssumption
  <1>2. IsFiniteSet(0 .. U16)
        BY <1>1, FS_Interval
  <1>3. IsFiniteSet(Nfs)
        BY <1>1, <1>2, FS_Subset
  <1>. QED BY <1>1, <1>3, FS_Subset, FS_CardinalityType

(* Their ids are numbers. *)
LEMMA NfsInt == \A n \in Nfs : n \in Nat
  BY NfsFinite

-----------------------------------------------------------------------------
(* The inductive invariant of KeepsOne.  An NF that was told to block and has
   not done so runs, and so does an NF of its type with a smaller id that was
   not told: the scale thread takes the last running NF, and only if it is not
   the only one. *)
FlagTypes ==
    /\ status \in [Nfs -> {"none", "running", "blocked"}]
    /\ bk_told \in [Nfs -> BOOLEAN]
LeavesOlder ==
    \A n \in Nfs : bk_told[n] =>
        /\ status[n] = "running"
        /\ \E m \in Nfs : /\ m < n /\ TypeOf[m] = TypeOf[n]
                          /\ status[m] = "running" /\ ~bk_told[m]
SomeRuns == \A t \in NTs : Registered(t) # {} => Of(t, "running") # {}
KeepsInv == FlagTypes /\ LeavesOlder /\ SomeRuns

(* Whenever the NFs that are told, and those that run, stay the same. *)
LEMMA KeepsSame ==
    ASSUME KeepsInv, UNCHANGED <<status, bk_told>>
    PROVE  KeepsInv'
  BY DEF KeepsInv, FlagTypes, LeavesOlder, SomeRuns, Registered, Of

(* A pass of the scale thread tells at most the last of those that run. *)
LEMMA KeepsCheckLoad ==
    ASSUME KeepsInv, NEW t \in NTs, CheckLoad(t)
    PROVE  KeepsInv'
  <1> DEFINE S == Of(t, "running")
             M == Max(S)
  <1>1. CASE UNCHANGED bk_told
        BY <1>1, KeepsSame DEF CheckLoad
  <1>2. CASE /\ \E max_load \in MaxLoads(t) : Spare(t, max_load)
             /\ bk_told' = [bk_told EXCEPT ![M] = TRUE]
    <2>1. S \in SUBSET Nfs /\ Cardinality(S) > 1 /\ IsFiniteSet(S)
          BY <1>2, NfsFinite DEF Spare, Available, Of
    <2>2. S # {}
          BY <2>1, FS_EmptySet
    <2>3. S \in SUBSET (0 .. U16) /\ U16 \in Nat
          BY <2>1, NfsFinite
    <2>4. M \in S /\ \A n \in S : M >= n
          BY <2>2, <2>3, LastNat
    <2>5. \E y \in S : y # M
          BY <2>1, <2>4, TwoElements
    <2> HIDE DEF M
    <2>6. /\ M \in Nfs /\ TypeOf[M] = t /\ status[M] = "running" /\ M \in Int
          /\ \A n \in Nfs : TypeOf[n] = t /\ status[n] = "running" => n <= M /\ n \in Int
          BY <2>3, <2>4 DEF Of
    <2>7. \E m \in Nfs : /\ m < M /\ TypeOf[m] = t
                         /\ status[m] = "running" /\ ~bk_told[m]
      <3>1. PICK y \in Nfs : y < M /\ TypeOf[y] = t /\ status[y] = "running"
            BY <2>3, <2>4, <2>5 DEF Of
      <3>2. CASE ~bk_told[y]
            BY <3>1, <3>2
      <3>3. CASE bk_told[y]
        <4>1. PICK m \in Nfs : /\ m < y /\ TypeOf[m] = t
                               /\ status[m] = "running" /\ ~bk_told[m]
              BY <3>1, <3>3 DEF KeepsInv, LeavesOlder
        <4>2. m < M
          <5>1. m \in Nat /\ y \in Nat /\ M \in Int /\ m < y /\ y < M
                BY <3>1, <4>1, <2>6, NfsInt
          <5>. QED BY <5>1
        <4>. QED BY <4>1, <4>2
      <3>. QED BY <3>2, <3>3
    <2>8. UNCHANGED status
          BY DEF CheckLoad
    <2>9. FlagTypes'
          BY <1>2, <2>6, <2>8 DEF KeepsInv, FlagTypes
    <2>10. SomeRuns'
          BY <2>8 DEF KeepsInv, SomeRuns, Registered, Of
    <2>11. LeavesOlder'
      <3> SUFFICES ASSUME NEW n \in Nfs, bk_told'[n]
                   PROVE  /\ status[n] = "running"
                          /\ \E m \in Nfs : /\ m < n /\ TypeOf[m] = TypeOf[n]
                                            /\ status[m] = "running" /\ ~bk_told'[m]
          BY <2>8 DEF LeavesOlder
      <3>1. CASE n = M
            BY <1>2, <2>6, <2>7, <3>1 DEF KeepsInv, FlagTypes
      <3>2. CASE n # M
        <4>1. bk_told[n]
              BY <1>2, <2>6, <3>2 DEF KeepsInv, FlagTypes
        <4>2. PICK m \in Nfs : /\ m < n /\ TypeOf[m] = TypeOf[n]
                               /\ status[m] = "running" /\ ~bk_told[m]
              BY <4>1 DEF KeepsInv, LeavesOlder
        <4>3. status[n] = "running"
              BY <4>1 DEF KeepsInv, LeavesOlder
        <4>4. m # M
              BY <2>6, <4>2, <4>3
        <4>. QED BY <1>2, <4>2, <4>3, <4>4 DEF KeepsInv, FlagTypes
      <3>. QED BY <3>1, <3>2
    <2>. QED BY <2>9, <2>10, <2>11 DEF KeepsInv
  <1>. QED BY <1>1, <1>2 DEF CheckLoad

(* The NF that blocks was told, so another one of its type runs. *)
LEMMA KeepsBlock ==
    ASSUME KeepsInv, NEW n \in Nfs, ScaleBlock(n)
    PROVE  KeepsInv'
  <1>1. /\ status[n] = "running" /\ bk_told[n]
        /\ status' = [status EXCEPT ![n] = "blocked"]
        /\ bk_told' = [bk_told EXCEPT ![n] = FALSE]
        BY DEF ScaleBlock
  <1>2. FlagTypes'
        BY <1>1 DEF KeepsInv, FlagTypes
  <1>3. LeavesOlder'
    <2> SUFFICES ASSUME NEW k \in Nfs, bk_told'[k]
                 PROVE  /\ status'[k] = "running"
                        /\ \E m \in Nfs : /\ m < k /\ TypeOf[m] = TypeOf[k]
                                          /\ status'[m] = "running" /\ ~bk_told'[m]
        BY DEF LeavesOlder
    <2>1. k # n /\ bk_told[k]
          BY <1>1 DEF KeepsInv, FlagTypes
    <2>2. status[k] = "running"
          BY <2>1 DEF KeepsInv, LeavesOlder
    <2>3. PICK m \in Nfs : /\ m < k /\ TypeOf[m] = TypeOf[k]
                           /\ status[m] = "running" /\ ~bk_told[m]
          BY <2>1 DEF KeepsInv, LeavesOlder
    <2>4. m # n
          BY <1>1, <2>3
    <2>. QED BY <1>1, <2>1, <2>2, <2>3, <2>4 DEF KeepsInv, FlagTypes
  <1>4. SomeRuns'
    <2>1. PICK m \in Nfs : /\ m < n /\ TypeOf[m] = TypeOf[n]
                           /\ status[m] = "running" /\ ~bk_told[m]
          BY <1>1 DEF KeepsInv, LeavesOlder
    <2>2. status'[m] = "running"
          BY <1>1, <2>1 DEF KeepsInv, FlagTypes
    <2> SUFFICES ASSUME NEW t \in NTs, Registered(t)' # {}
                 PROVE  Of(t, "running")' # {}
        BY DEF SomeRuns
    <2>3. CASE t = TypeOf[n]
          BY <2>1, <2>2, <2>3 DEF Of
    <2>4. CASE t # TypeOf[n]
          BY <1>1, <2>4 DEF KeepsInv, FlagTypes, SomeRuns, Registered, Of
    <2>. QED BY <2>3, <2>4
  <1>. QED BY <1>2, <1>3, <1>4 DEF KeepsInv

(* An NF that starts, or runs again, leaves the others as they are. *)
LEMMA KeepsRun ==
    ASSUME KeepsInv, NEW n \in Nfs, status[n] # "running",
           status' = [status EXCEPT ![n] = "running"], UNCHANGED bk_told
    PROVE  KeepsInv'
  <1>1. FlagTypes'
        BY DEF KeepsInv, FlagTypes
  <1>2. LeavesOlder'
        BY DEF KeepsInv, FlagTypes, LeavesOlder
  <1>3. SomeRuns'
    <2> SUFFICES ASSUME NEW t \in NTs, Registered(t)' # {}
                 PROVE  Of(t, "running")' # {}
        BY DEF SomeRuns
    <2>1. status'[n] = "running"
          BY DEF KeepsInv, FlagTypes
    <2>2. CASE t = TypeOf[n]
          BY <2>1, <2>2 DEF Of
    <2>3. CASE t # TypeOf[n]
          BY <2>3 DEF KeepsInv, FlagTypes, SomeRuns, Registered, Of
    <2>. QED BY <2>2, <2>3
  <1>. QED BY <1>1, <1>2, <1>3 DEF KeepsInv

(* No step stops the last NF of a type. *)
LEMMA KeepsStep == KeepsInv /\ [Next]_vars => KeepsInv'
  <1> SUFFICES ASSUME KeepsInv, [Next]_vars PROVE KeepsInv'
      OBVIOUS
  <1>1. CASE UNCHANGED vars
        BY <1>1, KeepsSame DEF vars, nfVars
  <1>2. CASE Measure
        BY <1>2, KeepsSame DEF Measure, Arrive, Display, nfVars
  <1>3. CASE ScaleRound
        BY <1>3, KeepsSame, KeepsCheckLoad DEF ScaleRound, CheckOverload
  <1>4. CASE \E t \in NTs : \E p \in Traffic[t] : ChangeTraffic(t, p)
        BY <1>4, KeepsSame DEF ChangeTraffic, nfVars
  <1>5. ASSUME NEW n \in Nfs, Launch(n) PROVE KeepsInv'
        BY <1>5, KeepsRun DEF Launch, Registers
  <1>6. ASSUME NEW n \in Nfs, NfStep(n) PROVE KeepsInv'
    <2>1. CASE SendSrvTime(n)
          BY <2>1, KeepsSame DEF SendSrvTime
    <2>2. CASE ScaleBlock(n)
          BY <2>2, KeepsBlock
    <2>3. CASE ScaleRun(n)
          BY <2>3, KeepsSame, KeepsRun DEF ScaleRun
    <2>4. CASE ScaleNfs(n)
          BY <2>4, KeepsSame DEF ScaleNfs
    <2>5. ASSUME NEW c \in Nfs, StartChild(n, c) PROVE KeepsInv'
          BY <2>5, KeepsRun DEF StartChild, Registers
    <2>. QED BY <1>6, <2>1, <2>2, <2>3, <2>4, <2>5 DEF NfStep
  <1>. QED BY <1>1, <1>2, <1>3, <1>4, <1>5, <1>6 DEF Next

(* A type with instances keeps an NF that runs and is not about to block
   (d2sc_scale_check_load, d2sc_scale_block_nf, d2sc_nfrt_scale_block). *)
THEOREM LastNfStays == Spec => []KeepsOne
  <1>1. Init => KeepsInv
        BY DEF Init, KeepsInv, FlagTypes, LeavesOlder, SomeRuns, Registered, Of
  <1>2. KeepsInv => KeepsOne
    <2> SUFFICES ASSUME KeepsInv, NEW t \in NTs, Registered(t) # {}
                 PROVE  \E n \in Of(t, "running") : ~bk_told[n]
        BY DEF KeepsOne
    <2>1. PICK n \in Of(t, "running") : TRUE
          BY DEF KeepsInv, SomeRuns
    <2>2. CASE ~bk_told[n]
          BY <2>1, <2>2
    <2>3. CASE bk_told[n]
          BY <2>1, <2>3 DEF KeepsInv, LeavesOlder, Of
    <2>. QED BY <2>2, <2>3
  <1>. QED BY <1>1, <1>2, KeepsStep, PTL DEF Spec

-----------------------------------------------------------------------------
(* Total is the sum that DataLemmas speaks of. *)
LEMMA TotalIsSum ==
    ASSUME NEW S, IsFiniteSet(S), NEW f, \A n \in S : f[n] \in Nat,
           NEW g, IsSum(g, f, S)
    PROVE  Total(f, S) = g[S]
  <1> DEFINE iter == CHOOSE h : h = [s \in SUBSET S |->
                         IF s = {} THEN 0 ELSE h[s \ {Pick(s)}] + f[Pick(s)]]
  <1>1. Total(f, S) = iter[S]
        BY DEF Total, FoldSet, MapThenFoldSet, Pick
  <1>2. Folding(g, Plus(f, S), 0, S, Nat)
        BY PlusType DEF IsSum, Folding
  <1>3. g = [s \in SUBSET S |->
                IF s = {} THEN 0 ELSE g[s \ {Pick(s)}] + f[Pick(s)]]
    <2>1. g \in [SUBSET S -> Nat] /\ g[{}] = 0
          BY <1>2 DEF Folding, IsFold
    <2>2. ASSUME NEW s \in SUBSET S, s # {}
          PROVE  g[s] = g[s \ {Pick(s)}] + f[Pick(s)]
      <3>1. Pick(s) \in s
            BY <2>2, PickIn
      <3>. QED BY <3>1, SumAny
    <2>. QED BY <2>1, <2>2
  <1>4. iter = [s \in SUBSET S |->
                   IF s = {} THEN 0 ELSE iter[s \ {Pick(s)}] + f[Pick(s)]]
        BY <1>3
  <1> HIDE DEF iter
  <1>5. Obeys(iter, Plus(f, S), 0, S, Nat)
    <2>1. iter[{}] = 0
          BY <1>4
    <2>2. ASSUME NEW s \in SUBSET S, s # {}, iter[s \ {Pick(s)}] \in Nat
          PROVE  iter[s] = Plus(f, S)[<<Pick(s), iter[s \ {Pick(s)}]>>]
      <3>1. Pick(s) \in S
            BY <2>2, PickIn
      <3>2. iter[s] = iter[s \ {Pick(s)}] + f[Pick(s)]
            BY <1>4, <2>2
      <3>3. PICK x \in S, v \in Nat : x = Pick(s) /\ v = iter[s \ {Pick(s)}]
            BY <2>2, <3>1
      <3>4. Plus(f, S)[<<x, v>>] = v + f[x]
            BY DEF Plus
      <3>. QED BY <3>2, <3>3, <3>4
    <2>. QED BY <2>1, <2>2 DEF Obeys
  <1>. QED BY <1>1, <1>2, <1>5, FoldUnique

(* A total is a number, no summand exceeds it, and that of zeros is zero. *)
LEMMA TotalFacts ==
    ASSUME NEW S, IsFiniteSet(S), NEW f, \A n \in S : f[n] \in Nat
    PROVE  /\ Total(f, S) \in Nat
           /\ \A n \in S : f[n] <= Total(f, S)
           /\ (\A n \in S : f[n] = 0) => Total(f, S) = 0
  <1>1. PICK g : IsSum(g, f, S)
        BY SumExists
  <1>2. Total(f, S) = g[S] /\ g[S] \in Nat
        BY <1>1, TotalIsSum DEF IsSum
  <1>3. \A n \in S : f[n] <= g[S]
        BY <1>1, SumBounds
  <1>4. (\A n \in S : f[n] = 0) => g[S] = 0
        BY <1>1, SumZero
  <1>. QED BY <1>2, <1>3, <1>4

(* The total of the same numbers is the same. *)
LEMMA TotalSame ==
    ASSUME NEW S, IsFiniteSet(S), NEW f1, NEW f2,
           \A n \in S : f1[n] \in Nat /\ f2[n] = f1[n]
    PROVE  Total(f2, S) = Total(f1, S)
  <1>1. PICK g1 : IsSum(g1, f1, S)
        BY SumExists
  <1>2. PICK g2 : IsSum(g2, f2, S)
        BY SumExists
  <1>3. Total(f1, S) = g1[S] /\ Total(f2, S) = g2[S]
        BY <1>1, <1>2, TotalIsSum
  <1>4. g1[S] = g2[S]
        BY <1>1, <1>2, SumSame
  <1>. QED BY <1>3, <1>4

(* One number that changes changes the total by as much. *)
LEMMA TotalChange ==
    ASSUME NEW S, IsFiniteSet(S), NEW f1, NEW f2,
           \A n \in S : f1[n] \in Nat /\ f2[n] \in Nat,
           NEW x \in S, \A n \in S \ {x} : f1[n] = f2[n]
    PROVE  Total(f2, S) = Total(f1, S) - f1[x] + f2[x]
  <1>1. PICK g1 : IsSum(g1, f1, S)
        BY SumExists
  <1>2. PICK g2 : IsSum(g2, f2, S)
        BY SumExists
  <1>3. Total(f1, S) = g1[S] /\ Total(f2, S) = g2[S]
        BY <1>1, <1>2, TotalIsSum
  <1>4. g2[S] - f2[x] = g1[S] - f1[x]
        BY <1>1, <1>2, SumChange
  <1>5. g1[S] \in Nat /\ g2[S] \in Nat /\ f1[x] \in Nat /\ f2[x] \in Nat
        BY <1>1, <1>2 DEF IsSum
  <1>. QED BY <1>3, <1>4, <1>5

-----------------------------------------------------------------------------
(* Arithmetic. *)
LEMMA ModU16 == \A x \in Int : x % U16 \in 0 .. U16 - 1 /\ x % U16 \in Nat
  <1>1. \A x \in Int, m \in Nat \ {0} : x % m \in 0 .. m - 1 /\ x % m \in Nat
        OBVIOUS
  <1>2. U16 \in Nat \ {0}
        BY DEF U16
  <1>. QED BY <1>1, <1>2

(* A product, a quotient and a remainder of natural numbers. *)
LEMMA Products == \A x, y \in Nat : x * y \in Nat
  OBVIOUS

LEMMA Quotients == \A x \in Nat, y \in Nat \ {0} : x \div y \in Nat
  OBVIOUS

LEMMA Remainders == \A x \in Nat, y \in Nat : x % (y + 1) \in 0 .. y
  OBVIOUS

(* The smaller one of two numbers. *)
LEMMA MinOfTwo ==
    ASSUME NEW a \in Int, NEW b \in Int
    PROVE  /\ Min({a, b}) \in Int /\ Min({a, b}) <= a /\ Min({a, b}) <= b
           /\ Min({a, b}) = a \/ Min({a, b}) = b
  <1>1. \E x \in {a, b} : \A y \in {a, b} : x <= y
        OBVIOUS
  <1>. QED BY <1>1 DEF Min

(* A remainder may be taken of each partial sum. *)
LEMMA ModSum ==
    \A x, y \in Nat : ((x % U16) + y) % U16 = (x + y) % U16
  BY DEF U16

-----------------------------------------------------------------------------
(* The inductive invariant of TypeOK: the children that were launched and have
   not registered are no more than the NFs that have not, since ScaleNfs looks
   at the lcores that are left, and who launches or is told to has started. *)
OfType(t) == {n \in Nfs : TypeOf[n] = t}
ChildrenFit ==
    \A t \in NTs : Total(starting, OfType(t)) <= Cardinality(Of(t, "none"))
OnlyStarted ==
    \A n \in Nfs : starting[n] # 0 \/ up_told[n] # 0 => status[n] # "none"
LoadInv == TypeOK /\ ChildrenFit /\ OnlyStarted

(* TypeOK by the groups of the variables. *)
NfTypes ==
    /\ status \in [Nfs -> {"none", "running", "blocked"}]
    /\ bk_told \in [Nfs -> BOOLEAN]
    /\ run_told \in [Nfs -> BOOLEAN]
    /\ up_told \in [Nfs -> 0 .. U16 - 1]
    /\ starting \in [Nfs -> 0 .. Cardinality(Nfs)]
    /\ srv_time \in [Nfs -> {0, SRV_TIME}]
StatTypes ==
    /\ rx \in [Nfs -> Nat]
    /\ pkt_rate \in [Nfs -> 0 .. U16 - 1]
    /\ arrived \in BOOLEAN
ScaleTypes ==
    /\ ol_flag \in [Nfs -> BOOLEAN]
    /\ scale_num \in [Nfs -> 0 .. U16 - 1]
    /\ cnter \in 0 .. CHECK_INTERVAL - 1
    /\ at \in 0 .. NUM_NTS
    /\ ticks \in 0 .. PERIOD
EnvTypes == traffic \in Traffics /\ changes \in 0 .. CHANGES

(* The type invariant by the groups of variables that steps leave alone. *)
LEMMA TypeParts == TypeOK <=> NfTypes /\ StatTypes /\ ScaleTypes /\ EnvTypes
  <1>1. {bk_told, run_told, ol_flag} \subseteq [Nfs -> BOOLEAN]
          <=> /\ bk_told \in [Nfs -> BOOLEAN] /\ run_told \in [Nfs -> BOOLEAN]
              /\ ol_flag \in [Nfs -> BOOLEAN]
        OBVIOUS
  <1>2. {pkt_rate, scale_num, up_told} \subseteq [Nfs -> 0 .. U16 - 1]
          <=> /\ pkt_rate \in [Nfs -> 0 .. U16 - 1]
              /\ scale_num \in [Nfs -> 0 .. U16 - 1]
              /\ up_told \in [Nfs -> 0 .. U16 - 1]
        OBVIOUS
  <1>. QED BY <1>1, <1>2, Zenon DEF TypeOK, NfTypes, StatTypes, ScaleTypes, EnvTypes

LEMMA TypePartsNext ==
    TypeOK' <=> NfTypes' /\ StatTypes' /\ ScaleTypes' /\ EnvTypes'
  BY TypeParts, PTL

(* A group that a step leaves alone keeps its types. *)
LEMMA TypesStay ==
    /\ NfTypes /\ UNCHANGED nfVars => NfTypes'
    /\ StatTypes /\ UNCHANGED statVars => StatTypes'
    /\ ScaleTypes /\ UNCHANGED scaleVars => ScaleTypes'
    /\ EnvTypes /\ UNCHANGED envVars => EnvTypes'
  BY DEF NfTypes, nfVars, StatTypes, statVars, ScaleTypes, scaleVars, EnvTypes,
         envVars

(* What the fields of the NFs are worth. *)
LEMMA FieldTypes ==
    ASSUME TypeOK, NEW n \in Nfs
    PROVE  /\ status[n] \in {"none", "running", "blocked"}
           /\ up_told[n] \in 0 .. U16 - 1 /\ up_told[n] \in Nat
           /\ starting[n] \in Nat
           /\ srv_time[n] \in {0, SRV_TIME} /\ srv_time[n] \in Nat
           /\ rx[n] \in Nat
           /\ pkt_rate[n] \in Nat /\ scale_num[n] \in Nat
           /\ Load(n) \in Nat /\ TypeOf[n] \in NTs
  <1>1. NfTypes /\ StatTypes /\ ScaleTypes
        BY TypeParts
  <1>2. /\ starting[n] \in 0 .. Cardinality(Nfs) /\ up_told[n] \in 0 .. U16 - 1
        /\ pkt_rate[n] \in 0 .. U16 - 1 /\ scale_num[n] \in 0 .. U16 - 1
        /\ srv_time[n] \in {0, SRV_TIME} /\ rx[n] \in Nat
        /\ status[n] \in {"none", "running", "blocked"}
        BY <1>1 DEF NfTypes, StatTypes, ScaleTypes
  <1>3. U16 \in Nat /\ Cardinality(Nfs) \in Nat
        BY NfsFinite
  <1>4. srv_time[n] \in Nat /\ pkt_rate[n] \in Nat
        BY <1>2, <1>3, LoadAssumption
  <1>5. Load(n) \in Nat
        BY <1>4, Products DEF Load
  <1>. QED BY <1>2, <1>3, <1>4, <1>5, NfsAssumption

(* The sums over a type. *)
LEMMA TypeTotals ==
    ASSUME TypeOK, NEW t \in NTs
    PROVE  /\ IsFiniteSet(OfType(t)) /\ OfType(t) \in SUBSET Nfs
           /\ \A n \in OfType(t) : starting[n] \in Nat
           /\ Total(starting, OfType(t)) \in Nat
           /\ \A n \in OfType(t) : starting[n] <= Total(starting, OfType(t))
           /\ \A st : /\ Of(t, st) \in SUBSET Nfs /\ IsFiniteSet(Of(t, st))
                      /\ Cardinality(Of(t, st)) \in Nat
                      /\ Cardinality(Of(t, st)) <= Cardinality(Nfs)
  <1>1. OfType(t) \in SUBSET Nfs /\ \A st : Of(t, st) \in SUBSET Nfs
        BY DEF OfType, Of
  <1>2. IsFiniteSet(OfType(t))
        BY <1>1, NfsFinite
  <1>3. \A n \in OfType(t) : starting[n] \in Nat
        BY <1>1, FieldTypes
  <1>4. /\ Total(starting, OfType(t)) \in Nat
        /\ \A n \in OfType(t) : starting[n] <= Total(starting, OfType(t))
        BY <1>2, <1>3, TotalFacts
  <1>. QED BY <1>1, <1>2, <1>3, <1>4, NfsFinite

(* When no NF starts, and none is told to launch. *)
LEMMA LoadQuiet ==
    ASSUME LoadInv, TypeOK', UNCHANGED <<status, starting, up_told>>
    PROVE  LoadInv'
  BY DEF LoadInv, ChildrenFit, OnlyStarted, Of

(* The packets arrive, and are measured. *)
LEMMA TypeArrive == ASSUME TypeOK, Arrive PROVE TypeOK'
  <1>1. \A n \in Running : Share(TypeOf[n]) \in Nat
    <2> SUFFICES ASSUME NEW n \in Running PROVE Share(TypeOf[n]) \in Nat
        OBVIOUS
    <2>1. n \in Nfs /\ TypeOf[n] \in NTs /\ n \in Of(TypeOf[n], "running")
          BY FieldTypes DEF Running, Of
    <2>2. traffic[TypeOf[n]] \in Nat
          BY <2>1, TypeParts, LoadAssumption DEF EnvTypes, Traffics
    <2>3. Cardinality(Of(TypeOf[n], "running")) \in Nat \ {0}
          BY <2>1, TypeTotals, FS_EmptySet
    <2>. QED BY <2>2, <2>3, Quotients DEF Share
  <1>2. \A n \in Nfs : (IF n \in Running THEN rx[n] + Share(TypeOf[n]) ELSE rx[n])
                          \in Nat
        BY <1>1, FieldTypes
  <1>3. rx' \in [Nfs -> Nat]
        BY <1>2 DEF Arrive
  <1>4. StatTypes'
        BY <1>3, TypeParts DEF Arrive, StatTypes
  <1>. QED BY <1>4, TypeParts, TypePartsNext, TypesStay DEF Arrive

(* The statistics of a display period fit their fields. *)
LEMMA TypeDisplay == ASSUME TypeOK, Display PROVE TypeOK'
  <1>1. \A n \in Nfs : Rate(n) \in 0 .. U16 - 1
    <2> SUFFICES ASSUME NEW n \in Nfs PROVE Rate(n) \in 0 .. U16 - 1
        OBVIOUS
    <2>1. rx[n] \div RATE_UNIT \in Nat
          BY FieldTypes, LoadAssumption, Quotients
    <2>. QED BY <2>1, ModU16 DEF Rate
  <1>2. pkt_rate' \in [Nfs -> 0 .. U16 - 1]
        BY <1>1, TypeParts DEF Display, StatTypes
  <1>3. rx' \in [Nfs -> Nat]
        BY FieldTypes DEF Display
  <1>4. StatTypes'
        BY <1>2, <1>3 DEF Display, StatTypes
  <1>5. ticks' \in 0 .. PERIOD
    <2>1. ticks \in 0 .. PERIOD /\ PERIOD \in Nat
          BY TypeParts, LoadAssumption DEF ScaleTypes
    <2>2. ticks + 1 \in Int /\ PERIOD \in Int
          BY <2>1
    <2>3. ticks' \in Int /\ ticks' <= PERIOD /\ (ticks' = ticks + 1 \/ ticks' = PERIOD)
          BY <2>2, MinOfTwo DEF Display
    <2>. QED BY <2>1, <2>3
  <1>6. ScaleTypes'
        BY <1>5, TypeParts DEF Display, ScaleTypes
  <1>. QED BY <1>4, <1>6, TypeParts, TypePartsNext, TypesStay DEF Display

(* A change of the traffic leaves one of the rates that are considered. *)
LEMMA TypeTraffic ==
    ASSUME TypeOK, NEW t \in NTs, NEW p \in Traffic[t], ChangeTraffic(t, p)
    PROVE  TypeOK'
  <1>1. traffic' \in Traffics
        BY TypeParts DEF ChangeTraffic, EnvTypes, Traffics
  <1>2. changes' \in 0 .. CHANGES
        BY TypeParts, LoadAssumption DEF ChangeTraffic, EnvTypes
  <1>. QED BY <1>1, <1>2, TypeParts, TypePartsNext, TypesStay DEF ChangeTraffic, EnvTypes

(* The scale thread. *)
LEMMA TypeOverload == ASSUME TypeOK, CheckOverload PROVE TypeOK'
  <1>1. PICK full \in SUBSET (Running \cap FullRings) :
            /\ ol_flag' = FlagOn(ol_flag, Overloaded \cup full)
            /\ scale_num' = [n \in Nfs |-> NewNum(n, full) % U16]
        BY DEF CheckOverload
  <1>2. \A n \in Nfs : NewNum(n, full) \in Int
    <2> SUFFICES ASSUME NEW n \in Nfs PROVE NewNum(n, full) \in Int
        OBVIOUS
    <2>1. Load(n) \in Nat /\ scale_num[n] \in Nat /\ TypeOf[n] \in NTs
          BY FieldTypes
    <2>2. Load(n) \div MAX_LOAD \in Nat
      <3>1. MAX_LOAD \in Nat \ {0}
            BY LoadAssumption
      <3>. QED BY <2>1, <3>1, Quotients
    <2>3. Needed(n) \in Nat
          BY <2>2, ModU16 DEF Needed
    <2>4. BlockedNum(TypeOf[n]) \in Nat
          BY <2>1, TypeTotals DEF BlockedNum
    <2>5. ToStart(n) \in Int
          BY <2>3, <2>4 DEF ToStart
    <2>. QED BY <2>1, <2>5 DEF NewNum
  <1>3. scale_num' \in [Nfs -> 0 .. U16 - 1]
        BY <1>1, <1>2, ModU16
  <1>4. ol_flag' \in [Nfs -> BOOLEAN] /\ run_told' \in [Nfs -> BOOLEAN]
    <2>1. /\ ol_flag' = FlagOn(ol_flag, Overloaded \cup full)
          /\ run_told' = FlagOn(run_told, UNION {ToRun(n) : n \in Overloaded})
          BY <1>1 DEF CheckOverload
    <2>2. \A f \in [Nfs -> BOOLEAN] : \A S : FlagOn(f, S) \in [Nfs -> BOOLEAN]
          BY Zenon DEF FlagOn
    <2>. QED BY <2>1, <2>2, TypeParts DEF NfTypes, ScaleTypes
  <1>5. up_told' \in [Nfs -> 0 .. U16 - 1]
    <2>1. 0 \in 0 .. U16 - 1
          BY DEF U16
    <2>2. up_told' = UpExecuted(ol_flag', scale_num')
          BY DEF CheckOverload
    <2>. QED BY <1>3, <2>1, <2>2 DEF UpExecuted
  <1>6. at' \in 0 .. NUM_NTS /\ ticks' \in 0 .. PERIOD
        BY NfsAssumption, LoadAssumption DEF CheckOverload
  <1>7. NfTypes'
        BY <1>4, <1>5, TypeParts DEF CheckOverload, NfTypes
  <1>8. ScaleTypes'
        BY <1>3, <1>4, <1>6, TypeParts DEF CheckOverload, ScaleTypes
  <1>. QED BY <1>7, <1>8, TypeParts, TypePartsNext, TypesStay DEF CheckOverload

(* A pass of the scale thread keeps the types. *)
LEMMA TypeCheckLoad == ASSUME TypeOK, NEW t \in NTs, CheckLoad(t) PROVE TypeOK'
  <1>1. bk_told' \in [Nfs -> BOOLEAN]
    <2>1. bk_told' = bk_told \/ \E n : bk_told' = [bk_told EXCEPT ![n] = TRUE]
          BY DEF CheckLoad
    <2>. QED BY <2>1, TypeParts DEF NfTypes
  <1>2. cnter' \in 0 .. CHECK_INTERVAL - 1
    <2>1. /\ cnter \in 0 .. CHECK_INTERVAL - 1 /\ CHECK_INTERVAL \in Nat \ {0}
          BY TypeParts, LoadAssumption DEF ScaleTypes
    <2>2. \/ cnter' = cnter \/ cnter' = 0
          \/ cnter + 1 < CHECK_INTERVAL /\ cnter' = cnter + 1
          BY DEF CheckLoad
    <2>. QED BY <2>1, <2>2
  <1>3. at' \in 0 .. NUM_NTS
    <2>1. t + 1 \in Nat /\ NUM_NTS \in Nat
          BY NfsAssumption DEF NTs
    <2>. QED BY <2>1, Remainders DEF CheckLoad
  <1>4. NfTypes'
        BY <1>1, TypeParts DEF CheckLoad, NfTypes
  <1>5. ScaleTypes'
        BY <1>2, <1>3, TypeParts DEF CheckLoad, ScaleTypes
  <1>. QED BY <1>4, <1>5, TypeParts, TypePartsNext, TypesStay DEF CheckLoad

(* An NF that has not started does so: there is one less that may. *)
LEMMA TypeRegisters ==
    ASSUME LoadInv, NEW c \in Nfs, Registers(c), UNCHANGED up_told,
           \A n \in Nfs : starting'[n] # 0 => starting[n] # 0,
           \A t \in NTs \ {TypeOf[c]} :
               Total(starting', OfType(t)) = Total(starting, OfType(t)),
           Total(starting', OfType(TypeOf[c]))
               <= Cardinality(Of(TypeOf[c], "none")) - 1
    PROVE  ChildrenFit' /\ OnlyStarted' /\ status' \in [Nfs -> {"none", "running", "blocked"}]
  <1>1. TypeOK /\ ChildrenFit /\ OnlyStarted
        BY DEF LoadInv
  <1>2. status \in [Nfs -> {"none", "running", "blocked"}]
        BY <1>1, TypeParts DEF NfTypes
  <1>3. status[c] = "none" /\ status' = [status EXCEPT ![c] = "running"]
        BY DEF Registers
  <1>4. OnlyStarted'
        BY <1>1, <1>2, <1>3 DEF OnlyStarted
  <1>5. ChildrenFit'
    <2> SUFFICES ASSUME NEW t \in NTs
                 PROVE  Total(starting', OfType(t)) <= Cardinality(Of(t, "none")')
        BY DEF ChildrenFit, OfType
    <2>1. CASE t = TypeOf[c]
      <3>1. Of(t, "none")' = Of(t, "none") \ {c} /\ c \in Of(t, "none")
            BY <1>2, <1>3, <2>1 DEF Of
      <3>2. IsFiniteSet(Of(t, "none"))
            BY <1>1, TypeTotals
      <3>3. Cardinality(Of(t, "none")') = Cardinality(Of(t, "none")) - 1
            BY <3>1, <3>2, FS_RemoveElement
      <3>. QED BY <2>1, <3>3
    <2>2. CASE t # TypeOf[c]
      <3>1. Of(t, "none")' = Of(t, "none")
            BY <1>2, <1>3, <2>2 DEF Of
      <3>2. Total(starting, OfType(t)) <= Cardinality(Of(t, "none"))
            BY <1>1 DEF ChildrenFit
      <3>. QED BY <2>2, <3>1, <3>2
    <2>. QED BY <2>1, <2>2
  <1>. QED BY <1>2, <1>3, <1>4, <1>5

(* An NF that starts was not started before. *)
LEMMA LoadLaunch == ASSUME LoadInv, NEW n \in Nfs, Launch(n) PROVE LoadInv'
  <1>1. TypeOK /\ OnlyStarted
        BY DEF LoadInv
  <1>2. TypeOf[n] \in NTs /\ n \in Of(TypeOf[n], "none")
        BY <1>1, FieldTypes DEF Launch, Of
  <1>3. Total(starting, OfType(TypeOf[n])) = 0
    <2>1. \A m \in OfType(TypeOf[n]) : starting[m] = 0
          BY <1>1 DEF Launch, OnlyStarted, OfType
    <2>2. IsFiniteSet(OfType(TypeOf[n]))
          BY <1>1, <1>2, TypeTotals
    <2>. QED BY <2>1, <2>2, TotalFacts
  <1>4. Cardinality(Of(TypeOf[n], "none")) - 1 >= 0
    <2>1. /\ IsFiniteSet(Of(TypeOf[n], "none"))
          /\ Cardinality(Of(TypeOf[n], "none")) \in Nat
          BY <1>1, <1>2, TypeTotals
    <2>2. Cardinality(Of(TypeOf[n], "none")) # 0
          BY <1>2, <2>1, FS_EmptySet
    <2>. QED BY <2>1, <2>2
  <1>5. Registers(n) /\ UNCHANGED <<starting, up_told>>
        BY DEF Launch
  <1>6. /\ ChildrenFit' /\ OnlyStarted'
        /\ status' \in [Nfs -> {"none", "running", "blocked"}]
    <2>1. Total(starting', OfType(TypeOf[n]))
              <= Cardinality(Of(TypeOf[n], "none")) - 1
          BY <1>3, <1>4, <1>5
    <2>. QED BY <1>5, <2>1, TypeRegisters
  <1>7. NfTypes'
        BY <1>1, <1>6, TypeParts DEF Launch, NfTypes
  <1>8. TypeOK'
        BY <1>1, <1>7, TypeParts, TypePartsNext, TypesStay DEF Launch
  <1>. QED BY <1>6, <1>8 DEF LoadInv

(* A child that starts is one of those that its parent has left to start. *)
LEMMA LoadStartChild ==
    ASSUME LoadInv, NEW n \in Nfs, NEW c \in Nfs, StartChild(n, c)
    PROVE  LoadInv'
  <1>1. TypeOK /\ OnlyStarted /\ ChildrenFit
        BY DEF LoadInv
  <1>2. /\ starting[n] > 0 /\ TypeOf[c] = TypeOf[n] /\ Registers(c)
        /\ starting' = [starting EXCEPT ![n] = starting[n] - 1]
        /\ srv_time' = [srv_time EXCEPT ![c] = srv_time[n]]
        /\ UNCHANGED up_told
        BY DEF StartChild
  <1>3. starting \in [Nfs -> 0 .. Cardinality(Nfs)] /\ Cardinality(Nfs) \in Nat
        BY <1>1, TypeParts, NfsFinite DEF NfTypes
  <1>4. /\ starting' \in [Nfs -> 0 .. Cardinality(Nfs)]
        /\ starting'[n] = starting[n] - 1
        /\ \A m \in Nfs \ {n} : starting'[m] = starting[m]
        /\ \A m \in Nfs : starting'[m] \in Nat /\ starting[m] \in Nat
        BY <1>2, <1>3
  <1>5. \A m \in Nfs : starting'[m] # 0 => starting[m] # 0
        BY <1>2, <1>4
  <1>6. TypeOf[n] \in NTs /\ n \in OfType(TypeOf[n])
        BY <1>1, FieldTypes DEF OfType
  <1>7. Total(starting', OfType(TypeOf[c])) <= Cardinality(Of(TypeOf[c], "none")) - 1
    <2> DEFINE t == TypeOf[n]
    <2>1. /\ IsFiniteSet(OfType(t)) /\ OfType(t) \in SUBSET Nfs
          /\ Total(starting, OfType(t)) \in Nat
          /\ Cardinality(Of(t, "none")) \in Nat
          BY <1>1, <1>6, TypeTotals
    <2>2. /\ \A m \in OfType(t) : starting[m] \in Nat /\ starting'[m] \in Nat
          /\ \A m \in OfType(t) \ {n} : starting[m] = starting'[m]
          BY <1>4, <2>1
    <2>3. Total(starting', OfType(t))
              = Total(starting, OfType(t)) - starting[n] + starting'[n]
          BY <1>6, <2>1, <2>2, TotalChange
    <2>4. Total(starting, OfType(t)) <= Cardinality(Of(t, "none"))
          BY <1>1, <1>6 DEF ChildrenFit
    <2>5. starting[n] \in Nat
          BY <1>4
    <2>. QED BY <1>2, <1>4, <2>1, <2>3, <2>4, <2>5
  <1>8. \A t \in NTs \ {TypeOf[c]} :
            Total(starting', OfType(t)) = Total(starting, OfType(t))
    <2> SUFFICES ASSUME NEW t \in NTs, t # TypeOf[c]
                 PROVE  Total(starting', OfType(t)) = Total(starting, OfType(t))
        OBVIOUS
    <2>1. IsFiniteSet(OfType(t)) /\ n \notin OfType(t) /\ OfType(t) \in SUBSET Nfs
          BY <1>1, <1>2, TypeTotals DEF OfType
    <2>2. \A m \in OfType(t) : starting[m] \in Nat /\ starting'[m] = starting[m]
          BY <1>4, <2>1
    <2>. QED BY <2>1, <2>2, TotalSame
  <1>9. /\ ChildrenFit' /\ OnlyStarted'
        /\ status' \in [Nfs -> {"none", "running", "blocked"}]
        BY <1>2, <1>5, <1>7, <1>8, TypeRegisters
  <1>10. srv_time' \in [Nfs -> {0, SRV_TIME}]
        BY <1>1, <1>2, TypeParts DEF NfTypes
  <1>11. NfTypes'
        BY <1>1, <1>4, <1>9, <1>10, TypeParts DEF StartChild, NfTypes
  <1>12. TypeOK'
        BY <1>1, <1>11, TypeParts, TypePartsNext, TypesStay DEF StartChild
  <1>. QED BY <1>9, <1>12 DEF LoadInv

(* A parent has lcores left for the children that it may be told to start. *)
LEMMA LoadScaleNfs == ASSUME LoadInv, NEW n \in Nfs, ScaleNfs(n) PROVE LoadInv'
  <1>1. TypeOK /\ OnlyStarted /\ ChildrenFit
        BY DEF LoadInv
  <1> DEFINE t == TypeOf[n]
             left == LcoresLeft(t)
             children == Min({up_told[n], left})
  <1>2. /\ up_told[n] # 0 /\ up_told' = [up_told EXCEPT ![n] = 0]
        /\ starting' = [starting EXCEPT ![n] = starting[n] + children]
        /\ scale_num' = [scale_num EXCEPT ![n] = (scale_num[n] - children) % U16]
        /\ UNCHANGED <<status, bk_told, run_told, srv_time>>
        BY DEF ScaleNfs
  <1>3. t \in NTs /\ n \in OfType(t) /\ up_told[n] \in Nat /\ scale_num[n] \in Nat
        BY <1>1, FieldTypes DEF OfType
  <1>4. /\ IsFiniteSet(OfType(t)) /\ OfType(t) \in SUBSET Nfs
        /\ Total(starting, OfType(t)) \in Nat
        /\ starting[n] <= Total(starting, OfType(t)) /\ starting[n] \in Nat
        /\ Cardinality(Of(t, "none")) \in Nat
        /\ Cardinality(Of(t, "none")) <= Cardinality(Nfs)
        BY <1>1, <1>3, TypeTotals
  <1>5. left = Cardinality(Of(t, "none")) - Total(starting, OfType(t))
        BY DEF LcoresLeft, OfType
  <1>6. left \in Nat
    <2>1. Total(starting, OfType(t)) <= Cardinality(Of(t, "none"))
          BY <1>1, <1>3 DEF ChildrenFit
    <2> HIDE DEF left, t
    <2>. QED BY <1>4, <1>5, <2>1
  <1>7. children \in Nat /\ children <= left
    <2> HIDE DEF left, t
    <2>1. PICK u \in Nat : u = up_told[n]
          BY <1>3
    <2>2. PICK l \in Nat : l = left
          BY <1>6
    <2>3. Min({u, l}) \in Int /\ Min({u, l}) <= l /\ (Min({u, l}) = u \/ Min({u, l}) = l)
          BY MinOfTwo
    <2>. QED BY <2>1, <2>2, <2>3
  <1> HIDE DEF children, left
  <1>8. starting[n] + children \in 0 .. Cardinality(Nfs)
    <2>1. Cardinality(Nfs) \in Nat
          BY NfsFinite
    <2> HIDE DEF t
    <2>. QED BY <1>4, <1>5, <1>6, <1>7, <2>1
  <1>9. /\ starting' \in [Nfs -> 0 .. Cardinality(Nfs)]
        /\ starting'[n] = starting[n] + children
        /\ \A m \in Nfs \ {n} : starting'[m] = starting[m]
        /\ \A m \in Nfs : starting[m] \in Nat /\ starting'[m] \in Nat
    <2>1. starting \in [Nfs -> 0 .. Cardinality(Nfs)] /\ Cardinality(Nfs) \in Nat
          BY <1>1, TypeParts, NfsFinite DEF NfTypes
    <2>. QED BY <1>2, <1>8, <2>1
  <1>10. ChildrenFit'
    <2> SUFFICES ASSUME NEW ty \in NTs
                 PROVE  Total(starting', OfType(ty)) <= Cardinality(Of(ty, "none"))
        BY <1>2 DEF ChildrenFit, OfType, Of
    <2>1. CASE ty = t
      <3>1. /\ \A m \in OfType(t) : starting[m] \in Nat /\ starting'[m] \in Nat
            /\ \A m \in OfType(t) \ {n} : starting[m] = starting'[m]
            BY <1>4, <1>9
      <3>2. Total(starting', OfType(t))
                = Total(starting, OfType(t)) - starting[n] + starting'[n]
            BY <1>3, <1>4, <3>1, TotalChange
      <3> HIDE DEF t
      <3>. QED BY <1>4, <1>5, <1>6, <1>7, <1>9, <2>1, <3>2
    <2>2. CASE ty # t
      <3>1. /\ IsFiniteSet(OfType(ty)) /\ n \notin OfType(ty)
            /\ OfType(ty) \in SUBSET Nfs
            BY <1>1, <2>2, TypeTotals DEF OfType
      <3>2. \A m \in OfType(ty) : starting[m] \in Nat /\ starting'[m] = starting[m]
            BY <1>9, <3>1
      <3>3. Total(starting', OfType(ty)) = Total(starting, OfType(ty))
            BY <3>1, <3>2, TotalSame
      <3>. QED BY <1>1, <3>3 DEF ChildrenFit
    <2>. QED BY <2>1, <2>2
  <1>11. OnlyStarted'
        BY <1>1, <1>2, <1>9 DEF OnlyStarted, TypeOK
  <1>12. up_told' \in [Nfs -> 0 .. U16 - 1]
    <2>1. 0 \in 0 .. U16 - 1
          BY DEF U16
    <2>. QED BY <1>1, <1>2, <2>1, TypeParts DEF NfTypes
  <1>13. scale_num' \in [Nfs -> 0 .. U16 - 1]
    <2>1. (scale_num[n] - children) % U16 \in 0 .. U16 - 1
          BY <1>3, <1>7, ModU16
    <2>. QED BY <1>1, <1>2, <2>1, TypeParts DEF ScaleTypes
  <1>14. NfTypes'
        BY <1>1, <1>2, <1>9, <1>12, TypeParts DEF NfTypes
  <1>15. ScaleTypes'
        BY <1>1, <1>13, TypeParts DEF ScaleNfs, ScaleTypes
  <1>16. TypeOK'
        BY <1>1, <1>14, <1>15, TypeParts, TypePartsNext, TypesStay DEF ScaleNfs
  <1>. QED BY <1>10, <1>11, <1>16 DEF LoadInv

(* Every step keeps the load invariant. *)
LEMMA LoadStep == LoadInv /\ [Next]_vars => LoadInv'
  <1> SUFFICES ASSUME LoadInv, [Next]_vars PROVE LoadInv'
      OBVIOUS
  <1>0. TypeOK
        BY DEF LoadInv
  <1>1. CASE UNCHANGED vars
    <2>1. UNCHANGED <<nfVars, statVars, scaleVars, envVars>>
          BY <1>1 DEF vars
    <2>2. TypeOK'
          BY <1>0, <2>1, TypeParts, TypePartsNext, TypesStay
    <2>. QED BY <2>1, <2>2, LoadQuiet DEF nfVars
  <1>2. CASE Measure
    <2>1. TypeOK' /\ UNCHANGED nfVars
          BY <1>0, <1>2, TypeArrive, TypeDisplay DEF Measure, Arrive, Display
    <2>. QED BY <2>1, LoadQuiet DEF nfVars
  <1>3. CASE CheckOverload
    <2>1. TypeOK' /\ UNCHANGED <<status, starting>>
          BY <1>0, <1>3, TypeOverload DEF CheckOverload
    <2>2. ChildrenFit'
          BY <2>1 DEF LoadInv, ChildrenFit, Of
    <2>3. OnlyStarted'
      <3>1. \A n \in Nfs : up_told'[n] # 0 => n \in Running
            BY <1>3 DEF CheckOverload, UpExecuted
      <3>. QED BY <2>1, <3>1 DEF LoadInv, OnlyStarted, Running
    <2>. QED BY <2>1, <2>2, <2>3 DEF LoadInv
  <1>4. ASSUME NEW t \in NTs, CheckLoad(t) PROVE LoadInv'
    <2>1. TypeOK'
          BY <1>0, <1>4, TypeCheckLoad
    <2>. QED BY <1>4, <2>1, LoadQuiet DEF CheckLoad
  <1>5. ASSUME NEW t \in NTs, NEW p \in Traffic[t], ChangeTraffic(t, p) PROVE LoadInv'
    <2>1. TypeOK' /\ UNCHANGED nfVars
          BY <1>0, <1>5, TypeTraffic DEF ChangeTraffic
    <2>. QED BY <2>1, LoadQuiet DEF nfVars
  <1>6. ASSUME NEW n \in Nfs, Launch(n) PROVE LoadInv'
        BY <1>6, LoadLaunch
  <1>7. ASSUME NEW n \in Nfs, SendSrvTime(n) PROVE LoadInv'
    <2>1. NfTypes'
          BY <1>0, <1>7, TypeParts DEF SendSrvTime, NfTypes
    <2>2. TypeOK'
          BY <1>0, <1>7, <2>1, TypeParts, TypePartsNext, TypesStay DEF SendSrvTime
    <2>. QED BY <1>7, <2>2, LoadQuiet DEF SendSrvTime
  <1>8. ASSUME NEW n \in Nfs, ScaleBlock(n) \/ ScaleRun(n) PROVE LoadInv'
    <2>1. /\ UNCHANGED <<up_told, starting, srv_time, statVars, scaleVars, envVars>>
          /\ \/ status' = status
             \/ status[n] # "none" /\ status' = [status EXCEPT ![n] = "running"]
             \/ status[n] # "none" /\ status' = [status EXCEPT ![n] = "blocked"]
          /\ bk_told' = bk_told \/ bk_told' = [bk_told EXCEPT ![n] = FALSE]
          /\ run_told' = run_told \/ run_told' = [run_told EXCEPT ![n] = FALSE]
          BY <1>8 DEF ScaleBlock, ScaleRun
    <2>2. NfTypes
          BY <1>0, TypeParts
    <2>3. /\ status' \in [Nfs -> {"none", "running", "blocked"}]
          /\ bk_told' \in [Nfs -> BOOLEAN] /\ run_told' \in [Nfs -> BOOLEAN]
          BY <2>1, <2>2 DEF NfTypes
    <2>4. NfTypes'
          BY <2>1, <2>2, <2>3 DEF NfTypes
    <2>5. TypeOK'
          BY <1>0, <2>1, <2>4, TypeParts, TypePartsNext, TypesStay
    <2>6. \A m \in Nfs : status'[m] = "none" <=> status[m] = "none"
          BY <2>1, <2>2 DEF NfTypes
    <2>7. ChildrenFit'
      <3>1. \A t : Of(t, "none")' = Of(t, "none")
            BY <2>6 DEF Of
      <3>. QED BY <2>1, <3>1 DEF LoadInv, ChildrenFit, OfType
    <2>8. OnlyStarted'
          BY <2>1, <2>6 DEF LoadInv, OnlyStarted
    <2>. QED BY <2>5, <2>7, <2>8 DEF LoadInv
  <1>9. ASSUME NEW n \in Nfs, ScaleNfs(n) PROVE LoadInv'
        BY <1>9, LoadScaleNfs
  <1>10. ASSUME NEW n \in Nfs, NEW c \in Nfs, StartChild(n, c) PROVE LoadInv'
        BY <1>10, LoadStartChild
  <1>. QED BY <1>1, <1>2, <1>3, <1>4, <1>5, <1>6, <1>7, <1>8, <1>9, <1>10
           DEF Next, ScaleRound, NfStep

(* The load invariant holds at the beginning. *)
LEMMA LoadInit == Init => LoadInv
  <1> SUFFICES ASSUME Init PROVE LoadInv
      OBVIOUS
  <1>1. Cardinality(Nfs) \in Nat /\ U16 \in Nat /\ 0 \in 0 .. U16 - 1
    <2>1. Nfs \in SUBSET Nfs
          OBVIOUS
    <2>2. Cardinality(Nfs) \in Nat
          BY <2>1, NfsFinite
    <2>3. U16 \in Nat /\ 0 \in 0 .. U16 - 1
          BY DEF U16
    <2>. QED BY <2>2, <2>3
  <1>2. 0 \in 0 .. Cardinality(Nfs)
        BY <1>1
  <1>3. NfTypes
        BY <1>1, <1>2 DEF Init, NfTypes
  <1>4. StatTypes
        BY <1>1 DEF Init, StatTypes
  <1>5. ScaleTypes
        BY <1>1, LoadAssumption, NfsAssumption DEF Init, ScaleTypes
  <1>6. EnvTypes
        BY LoadAssumption DEF Init, EnvTypes
  <1>7. TypeOK
        BY <1>3, <1>4, <1>5, <1>6, TypeParts
  <1>8. ChildrenFit
    <2> SUFFICES ASSUME NEW t \in NTs
                 PROVE  Total(starting, OfType(t)) <= Cardinality(Of(t, "none"))
        BY DEF ChildrenFit
    <2>1. /\ IsFiniteSet(OfType(t)) /\ OfType(t) \in SUBSET Nfs
          /\ Cardinality(Of(t, "none")) \in Nat
          BY <1>7, TypeTotals
    <2>2. \A n \in OfType(t) : starting[n] \in Nat /\ starting[n] = 0
          BY <2>1 DEF Init
    <2>3. Total(starting, OfType(t)) = 0
          BY <2>1, <2>2, TotalFacts
    <2>. QED BY <2>1, <2>3
  <1>9. OnlyStarted
        BY DEF Init, OnlyStarted
  <1>. QED BY <1>7, <1>8, <1>9 DEF LoadInv

(* Every variable keeps its type: the rates, numbers and sums stay in their
   16 bits, cnter below the interval, and no parent launches more children
   than lcores are left (d2sc_nfrt_scale_nfs). *)
THEOREM LoadTypes == Spec => []TypeOK
  <1>1. LoadInv => TypeOK
        BY DEF LoadInv
  <1>. QED BY <1>1, LoadInit, LoadStep, PTL DEF Spec

-----------------------------------------------------------------------------
(* What d2sc_scale_check_load sums up in a uint16_t is the load that was
   measured, up to what a uint16_t can hold. *)
LEMMA SumLoadIsLoad ==
    ASSUME TypeOK, NEW t \in NTs
    PROVE  SumLoad(t) = MeasuredLoad(t) % U16 /\ MeasuredLoad(t) \in Nat
  <1>1. PICK S : S = Measured(t)
        OBVIOUS
  <1>2. PICK f : f = [n \in Nfs |-> Load(n)]
        OBVIOUS
  <1>3. S \in SUBSET Nfs /\ IsFiniteSet(S)
        BY <1>1, NfsFinite DEF Measured, Of
  <1>4. \A n \in S : f[n] = Load(n) /\ f[n] \in Nat
        BY <1>2, <1>3, FieldTypes
  <1>5. PICK g : IsSum(g, f, S)
        BY <1>3, <1>4, SumExists
  <1>6. MeasuredLoad(t) = g[S] /\ g \in [SUBSET S -> Nat]
        BY <1>1, <1>2, <1>3, <1>4, <1>5, TotalIsSum DEF MeasuredLoad, IsSum
  <1>7. PICK h : h = [s \in SUBSET S |-> g[s] % U16]
        OBVIOUS
  <1>8. PICK P : P = [p \in S \X Nat |-> (p[2] + f[p[1]]) % U16]
        OBVIOUS
  <1>9. P \in [S \X Nat -> Nat] /\ \A n \in S, v \in Nat : P[<<n, v>>] = (v + f[n]) % U16
    <2>1. \A p \in S \X Nat : (p[2] + f[p[1]]) % U16 \in Nat
          BY <1>4, ModU16
    <2>. QED BY <1>8, <2>1
  <1>10. h \in [SUBSET S -> Nat] /\ h[{}] = 0
    <2>1. g[{}] = 0
          BY <1>5 DEF IsSum, IsFold
    <2>2. 0 % U16 = 0
          BY DEF U16
    <2>. QED BY <1>6, <1>7, <2>1, <2>2, ModU16
  <1>11. \A s \in SUBSET S : s # {} =>
             h[s] = (h[s \ {Pick(s)}] + f[Pick(s)]) % U16
    <2> SUFFICES ASSUME NEW s \in SUBSET S, s # {}
                 PROVE  h[s] = (h[s \ {Pick(s)}] + f[Pick(s)]) % U16
        OBVIOUS
    <2>1. PICK x \in s : x = Pick(s)
          BY PickIn
    <2>2. g[s] = g[s \ {x}] + f[x]
          BY <1>3, <1>4, <1>5, SumAny
    <2>3. PICK r \in Nat : r = g[s \ {x}]
          BY <1>6
    <2>4. f[x] \in Nat
          BY <1>4
    <2>5. ((r % U16) + f[x]) % U16 = (r + f[x]) % U16
          BY <2>4, ModSum
    <2>6. h[s \ {x}] = r % U16
          BY <1>7, <2>3
    <2>. QED BY <1>7, <2>1, <2>2, <2>3, <2>5, <2>6
  <1>12. Folding(h, P, 0, S, Nat)
    <2>1. ASSUME NEW s \in SUBSET S, s # {}
          PROVE  h[s] = P[<<Pick(s), h[s \ {Pick(s)}]>>]
      <3>1. PICK x \in S : x = Pick(s)
            BY <2>1, PickIn
      <3>2. h[s \ {x}] \in Nat
            BY <1>10
      <3>. QED BY <1>9, <1>11, <2>1, <3>1, <3>2
    <2>. QED BY <1>9, <1>10, <2>1 DEF Folding, IsFold
  <1> DEFINE iter == CHOOSE i : i = [s \in SUBSET S |->
                 IF s = {} THEN 0 ELSE (i[s \ {Pick(s)}] + Load(Pick(s))) % U16]
  <1>13. SumLoad(t) = iter[S]
        BY <1>1 DEF SumLoad, FoldSet, MapThenFoldSet, Pick
  <1>14. h = [s \in SUBSET S |->
                 IF s = {} THEN 0 ELSE (h[s \ {Pick(s)}] + Load(Pick(s))) % U16]
    <2>1. \A s \in SUBSET S : s # {} => f[Pick(s)] = Load(Pick(s))
          BY <1>4, PickIn
    <2>. QED BY <1>10, <1>11, <2>1
  <1>15. iter = [s \in SUBSET S |->
                 IF s = {} THEN 0 ELSE (iter[s \ {Pick(s)}] + Load(Pick(s))) % U16]
        BY <1>14
  <1> HIDE DEF iter
  <1>16. Obeys(iter, P, 0, S, Nat)
    <2>1. iter[{}] = 0
          BY <1>15
    <2>2. ASSUME NEW s \in SUBSET S, s # {}, iter[s \ {Pick(s)}] \in Nat
          PROVE  iter[s] = P[<<Pick(s), iter[s \ {Pick(s)}]>>]
      <3>1. PICK x \in S, v \in Nat : x = Pick(s) /\ v = iter[s \ {Pick(s)}]
            BY <2>2, PickIn
      <3>2. iter[s] = (v + Load(x)) % U16
            BY <1>15, <2>2, <3>1
      <3>3. P[<<x, v>>] = (v + Load(x)) % U16
            BY <1>4, <1>9
      <3>. QED BY <3>1, <3>2, <3>3
    <2>. QED BY <2>1, <2>2 DEF Obeys
  <1>17. iter[S] = h[S]
        BY <1>3, <1>12, <1>16, FoldUnique
  <1>. QED BY <1>6, <1>7, <1>13, <1>17

(* An NF is told to block only when the others can bear the measured load, or
   when not even all can and the uint16_t difference wraps
   (d2sc_scale_check_load). *)
THEOREM BlocksOnlySurplus == Spec => BlocksSurplus
  <1>1. LoadInv /\ [Next]_vars =>
            [\A n \in Nfs : bk_told'[n] /\ ~bk_told[n] =>
                LET t == TypeOf[n]
                IN  \/ MeasuredLoad(t) <= MAX_LOAD * (Available(t) - 1)
                    \/ MeasuredLoad(t) > MAX_LOAD * Available(t)]_vars
    <2> SUFFICES ASSUME LoadInv, Next, NEW n \in Nfs, bk_told'[n], ~bk_told[n]
                 PROVE  \/ MeasuredLoad(TypeOf[n]) <= MAX_LOAD * (Available(TypeOf[n]) - 1)
                        \/ MeasuredLoad(TypeOf[n]) > MAX_LOAD * Available(TypeOf[n])
        OBVIOUS
    <2>1. TypeOK /\ bk_told \in [Nfs -> BOOLEAN]
          BY TypeParts DEF LoadInv, NfTypes
    <2>2. PICK t \in NTs : CheckLoad(t)
      <3>1. CASE Measure
            BY <3>1 DEF Measure, Arrive, Display, nfVars
      <3>2. CASE CheckOverload
            BY <3>2 DEF CheckOverload
      <3>3. CASE \E ty \in NTs : \E p \in Traffic[ty] : ChangeTraffic(ty, p)
            BY <3>3 DEF ChangeTraffic, nfVars
      <3>4. CASE \E m \in Nfs : Launch(m)
            BY <3>4 DEF Launch
      <3>5. CASE \E m \in Nfs : NfStep(m)
            BY <2>1, <3>5 DEF NfStep, SendSrvTime, ScaleBlock, ScaleRun, ScaleNfs, StartChild
      <3>. QED BY <3>1, <3>2, <3>3, <3>4, <3>5 DEF Next, ScaleRound
    <2> DEFINE S == Of(t, "running")
    <2>3. PICK max_load \in MaxLoads(t) : /\ Spare(t, max_load)
                                          /\ bk_told' = [bk_told EXCEPT ![Max(S)] = TRUE]
          BY <2>2 DEF CheckLoad
    <2>4. /\ S \in SUBSET Nfs /\ IsFiniteSet(S) /\ Cardinality(S) \in Nat
          /\ Cardinality(S) > 1
          BY <2>1, <2>3, TypeTotals DEF Spare, Available
    <2>5. TypeOf[n] = t
      <3>1. S # {}
            BY <2>4, FS_EmptySet
      <3>2. S \in SUBSET (0 .. U16) /\ U16 \in Nat
            BY <2>4, NfsFinite
      <3>3. Max(S) \in S
            BY <3>1, <3>2, LastNat
      <3>4. n = Max(S)
            BY <2>1, <2>3
      <3>. QED BY <3>3, <3>4 DEF Of
    <2>6. PICK a \in Nat : a = Available(t) /\ a > 1
          BY <2>4 DEF Available
    <2>7. PICK l \in Nat : l = MeasuredLoad(t) /\ SumLoad(t) = l % U16
          BY <2>1, SumLoadIsLoad
    <2>8. PICK p \in Nat : p = MAX_LOAD * a /\ MAX_LOAD * (a - 1) = p - MAX_LOAD
      <3>1. MAX_LOAD * a \in Nat /\ MAX_LOAD \in Nat
            BY LoadAssumption, Products
      <3>2. MAX_LOAD * (a - 1) = MAX_LOAD * a - MAX_LOAD
            BY <3>1
      <3>. QED BY <3>1, <3>2
    <2>9. MAX_LOAD \in Nat /\ MAX_LOAD > 0 /\ MAX_LOAD < U16 /\ p >= MAX_LOAD
      <3>. U16 \in Nat
           BY DEF U16
      <3>1. MAX_LOAD \in Nat /\ MAX_LOAD > 0 /\ MAX_LOAD < U16
            BY LoadAssumption
      <3>2. a - 1 \in Nat
            BY <2>6
      <3>3. MAX_LOAD * (a - 1) \in Nat
            BY <3>1, <3>2, Products
      <3>. QED BY <2>8, <3>1, <3>3
    <2>10. CASE Measured(t) = {}
      <3>1. MeasuredLoad(t) = 0
        <4>1. IsFiniteSet({})
              BY FS_EmptySet
        <4>. QED BY <2>10, <4>1, TotalFacts DEF MeasuredLoad
      <3>. QED BY <2>5, <2>6, <2>8, <2>9, <3>1
    <2>11. CASE Measured(t) # {}
      <3>1. max_load = MAX_LOAD
            BY <2>3, <2>11 DEF MaxLoads
      <3>2. (p - (l % U16)) % U16 >= MAX_LOAD
            BY <2>3, <2>6, <2>7, <2>8, <3>1 DEF Spare
      <3>3. (p - (l % U16)) % U16 = (p - l) % U16
            BY DEF U16
      <3>4. l <= p - MAX_LOAD \/ l > p
        <4> SUFFICES ASSUME p - l \in 0 .. MAX_LOAD - 1 PROVE FALSE
            BY <2>9
        <4>1. (p - l) % U16 = p - l
              BY <2>9 DEF U16
        <4>. QED BY <2>9, <3>2, <3>3, <4>1
      <3>. QED BY <2>5, <2>6, <2>7, <2>8, <3>4
    <2>. QED BY <2>10, <2>11
  <1>. QED BY <1>1, LoadInit, LoadStep, PTL DEF Spec, BlocksSurplus
===============================================================================
