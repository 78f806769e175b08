------------------------------- MODULE NfLoad -------------------------------
(***************************************************************************)
(* The control loop that fits the NFs of a type to its load: the master    *)
(* measures packet rates when it displays the statistics (d2sc_stats.c),   *)
(* the scale thread compares loads and asks NFs to start children, to      *)
(* block or to run again (d2sc_scale.c), and the NFs do (d2sc_nfrt.c).     *)
(* The handshake of NfLifecycle is one step here.  NFs poll all the time,   *)
(* while the master and the scale thread sleep for seconds: an NF reads    *)
(* its messages before the next display.  A child may take long to start.  *)
(***************************************************************************)
EXTENDS Integers, FiniteSetsExt

CONSTANTS
    Nfs,               \* the ids of the NFs, in the order they register
    NUM_NTS,           \* number of NF types, 1..NUM_NTS
    TypeOf,            \* the type of each NF
    MAX_LOAD,          \* the load an NF is started with as its maximum
    SRV_TIME,          \* the service time NFs measure
    RATE_UNIT,         \* packets per sleep_time that are 0.1 Mpps
    CHECK_INTERVAL,    \* checks that find spare load before one blocks, 5
    Traffic,           \* the packets per sleep_time that each type may receive
    FullRings,         \* the NFs whose RX ring may be found full
    PERIOD,            \* SCALE_SLEEP_TIME over the sleep_time of the master
    CHANGES            \* bound of the model on the changes of the traffic

VARIABLES
    status,            \* of each NF: "none", "running" or "blocked"
    bk_told,           \* is bk_flag 1: told to block, and not yet blocked
    run_told,          \* is a SCALE_RUN in its queue
    up_told,           \* the number in a SCALE_UP in its queue, or 0
    starting,          \* the children it launched that have not registered
    srv_time,          \* of each NF, 0 until it is known
    rx,                \* packets received since its last display, rx - rx_last
    pkt_rate,          \* of each NF, in units of 0.1 Mpps
    ol_flag, scale_num,
    cnter,             \* the static counter of d2sc_scale_check_load
    at,                \* the scale thread: 0 or the type it checks next
    arrived,           \* have the packets of this sleep_time arrived
    ticks,             \* the displays since the scale thread woke up
    traffic, changes   \* of each type, and how often that changed

nfVars == <<status, bk_told, run_told, up_told, starting, srv_time>>
statVars == <<rx, pkt_rate, arrived>>
scaleVars == <<ol_flag, scale_num, cnter, at, ticks>>
envVars == <<traffic, changes>>
vars == <<nfVars, statVars, scaleVars, envVars>>

U16 == 65536
NTs == 1 .. NUM_NTS

ASSUME NfsAssumption ==
    /\ NUM_NTS \in Nat \ {0}
    /\ Nfs \subseteq 1 .. U16 - 1
    /\ TypeOf \in [Nfs -> NTs]

ASSUME LoadAssumption ==
    /\ MAX_LOAD \in 1 .. U16 - 1
    /\ SRV_TIME \in Nat
    /\ RATE_UNIT \in Nat \ {0}
    /\ CHECK_INTERVAL \in Nat \ {0}
    /\ \A t \in NTs : Traffic[t] \subseteq Nat
    /\ PERIOD \in Nat
    /\ CHANGES \in Nat

Of(t, st) == {n \in Nfs : TypeOf[n] = t /\ status[n] = st}
Available(t) == Cardinality(Of(t, "running"))
Running == {n \in Nfs : status[n] = "running"}
Lowest(k, S) == {n \in S : Cardinality({m \in S : m < n}) < k}
Traffics == {f \in [NTs -> UNION {Traffic[t] : t \in NTs}] :
                \A t \in NTs : f[t] \in Traffic[t]}
Total(f, S) == FoldSet(LAMBDA n, sum : sum + f[n], 0, S)
FlagOn(f, S) == [n \in Nfs |-> f[n] \/ n \in S]

Init ==
    /\ status = [n \in Nfs |-> "none"]
    /\ bk_told = [n \in Nfs |-> FALSE]
    /\ run_told = [n \in Nfs |-> FALSE]
    /\ up_told = [n \in Nfs |-> 0]
    /\ starting = [n \in Nfs |-> 0]
    /\ srv_time = [n \in Nfs |-> 0]
    /\ rx = [n \in Nfs |-> 0]
    /\ pkt_rate = [n \in Nfs |-> 0]
    /\ ol_flag = [n \in Nfs |-> FALSE]
    /\ scale_num = [n \in Nfs |-> 0]
    /\ cnter = 0
    /\ at = 0
    /\ ticks = 0
    /\ arrived = FALSE
    /\ traffic \in Traffics
    /\ changes = 0

-----------------------------------------------------------------------------
(* The packets of one sleep_time, shared evenly by the running NFs. *)
Share(t) == traffic[t] \div Cardinality(Of(t, "running"))
Arrive ==
    /\ ~arrived /\ arrived' = TRUE
    /\ rx' = [n \in Nfs |-> IF n \in Running
                            THEN rx[n] + Share(TypeOf[n]) ELSE rx[n]]
    /\ UNCHANGED <<nfVars, pkt_rate, scaleVars, envVars>>

ChangeTraffic(t, p) ==
    /\ changes < CHANGES /\ changes' = changes + 1
    /\ traffic[t] # p
    /\ traffic' = [traffic EXCEPT ![t] = p]
    /\ UNCHANGED <<nfVars, statVars, scaleVars>>

(* d2sc_stats_display_nfs passes over an NF that is not running, whose packets
   count as received later.  The ceil is applied to an integer quotient. *)
Rate(n) == (rx[n] \div RATE_UNIT) % U16
Attended == \A n \in Nfs :
    /\ ~bk_told[n] /\ ~run_told[n] /\ up_told[n] = 0
    /\ status[n] # "none" => srv_time[n] # 0
Display ==
    /\ Attended
    /\ arrived /\ arrived' = FALSE
    /\ ticks' = Min({ticks + 1, PERIOD})
    /\ pkt_rate' = [n \in Nfs |-> IF n \in Running THEN Rate(n)
                                                   ELSE pkt_rate[n]]
    /\ rx' = [n \in Nfs |-> IF n \in Running THEN 0 ELSE rx[n]]
    /\ UNCHANGED <<nfVars, ol_flag, scale_num, cnter, at, envVars>>

-----------------------------------------------------------------------------
(* A load counts as soon as the service time of its NF is known. *)
Load(n) == pkt_rate[n] * srv_time[n]
Overloaded == {n \in Running : srv_time[n] # 0 /\ Load(n) >= MAX_LOAD}

(* d2sc_scale_check_overload: what an overloaded NF needs, the blocked NFs of
   its type cover as far as there are any, and the rest is to be started. *)
Needed(n) == (Load(n) \div MAX_LOAD) % U16
BlockedNum(t) == Cardinality(Of(t, "blocked"))
(* Mutant: the running ones are told to run. *)
ToRunRunning(n) == Lowest(Min({Needed(n), BlockedNum(TypeOf[n])}),
                          Of(TypeOf[n], "running"))
ToRun(n) == Lowest(Min({Needed(n), BlockedNum(TypeOf[n])}),
                   Of(TypeOf[n], "blocked"))
ToStart(n) == IF Needed(n) <= BlockedNum(TypeOf[n]) THEN 0
              ELSE Needed(n) - BlockedNum(TypeOf[n])

(* An NF whose RX ring is full is overloaded too, and needs one more if none
   of its type is available. *)
NewlyFull(full) == {n \in full : ~ol_flag[n] /\ n \notin Overloaded}
NewNum(n, full) ==
    (IF n \in Overloaded THEN ToStart(n) ELSE scale_num[n])
    + (IF n \in NewlyFull(full) /\ Available(TypeOf[n]) = 0 THEN 1 ELSE 0)

(* The function is followed by d2sc_scale_up_signal and the SCALE_UP messages:
   ol_flag is never cleared, so that up_signal stays on once it was. *)
UpExecuted(flag, num) ==
    LET up_signal == \E n \in Running : flag[n]
    IN  [n \in Nfs |->
           IF up_signal /\ n \in Running THEN num[n] ELSE 0]
CheckOverload ==
    /\ at = 0 /\ at' = 1
    /\ ticks = PERIOD /\ ticks' = 0
    /\ \E full \in SUBSET (Running \cap FullRings) :
          /\ ol_flag' = FlagOn(ol_flag, Overloaded \cup full)
          /\ scale_num' = [n \in Nfs |-> NewNum(n, full) % U16]
    /\ run_told' = FlagOn(run_told, UNION {ToRun(n) : n \in Overloaded})
    /\ up_told' = UpExecuted(ol_flag', scale_num')
    /\ UNCHANGED <<status, bk_told, starting, srv_time, statVars, cnter,
                   envVars>>

(* d2sc_scale_check_load: in a uint16_t, what the available NFs of the type
   could bear and do not; one max_load of it lets one of them pause.  Without
   an NF whose service time is known, max_load holds an arbitrary value. *)
Measured(t) == {n \in Of(t, "running") : srv_time[n] # 0}
(* Mutant: = for += *)
SumLoadOfLast(t) == IF Measured(t) = {} THEN 0 ELSE Load(Max(Measured(t)))
SumLoad(t) ==
    FoldSet(LAMBDA n, sum : (sum + Load(n)) % U16, 0, Measured(t))
MaxLoads(t) == IF Measured(t) # {} THEN {MAX_LOAD} ELSE {0, MAX_LOAD}
(* Mutant: the last NF may be blocked too. *)
SpareOfAny(t, max_load) ==
    (max_load * Available(t) - SumLoad(t)) % U16 >= max_load
Spare(t, max_load) ==
    /\ (max_load * Available(t) - SumLoad(t)) % U16 >= max_load
    /\ Available(t) > 1

(* The round visits the types that have instances. *)
Registered(t) == Of(t, "running") \cup Of(t, "blocked")
CheckLoad(t) ==
    /\ at = t /\ at' = (t + 1) % (NUM_NTS + 1)
    /\ \E max_load \in MaxLoads(t) :
          \/ /\ Registered(t) = {} \/ ~Spare(t, max_load)
             /\ UNCHANGED <<cnter, bk_told>>
          \/ /\ Registered(t) # {} /\ Spare(t, max_load)
             /\ cnter + 1 < CHECK_INTERVAL
             /\ cnter' = cnter + 1 /\ UNCHANGED bk_told
          \/ /\ Registered(t) # {} /\ Spare(t, max_load)
             /\ cnter + 1 = CHECK_INTERVAL
             /\ cnter' = 0
             /\ bk_told' = [bk_told EXCEPT ![Max(Of(t, "running"))] = TRUE]
    /\ UNCHANGED <<status, run_told, up_told, starting, srv_time, statVars,
                   ol_flag, scale_num, ticks, envVars>>

-----------------------------------------------------------------------------
(* The first NF of a type is started by hand, the others by their parents. *)
Registers(n) ==
    /\ status[n] = "none"
    /\ \A m \in Nfs : TypeOf[m] = TypeOf[n] /\ m < n => status[m] # "none"
    /\ status' = [status EXCEPT ![n] = "running"]
Launch(n) ==
    /\ \A m \in Nfs : TypeOf[m] = TypeOf[n] => status[m] = "none"
    /\ Registers(n)
    /\ UNCHANGED <<bk_told, run_told, up_told, starting, srv_time, statVars,
                   scaleVars, envVars>>

SendSrvTime(n) ==
    /\ status[n] # "none" /\ srv_time[n] = 0
    /\ srv_time' = [srv_time EXCEPT ![n] = SRV_TIME]
    /\ UNCHANGED <<status, bk_told, run_told, up_told, starting, statVars,
                   scaleVars, envVars>>

ScaleBlock(n) ==
    /\ status[n] = "running" /\ bk_told[n]
    /\ status' = [status EXCEPT ![n] = "blocked"]
    /\ bk_told' = [bk_told EXCEPT ![n] = FALSE]
    /\ UNCHANGED <<run_told, up_told, starting, srv_time, statVars, scaleVars,
                   envVars>>
ScaleRun(n) ==
    /\ run_told[n]
    /\ run_told' = [run_told EXCEPT ![n] = FALSE]
    /\ status' = IF status[n] = "blocked"
                 THEN [status EXCEPT ![n] = "running"] ELSE status
    /\ UNCHANGED <<bk_told, up_told, starting, srv_time, statVars, scaleVars,
                   envVars>>

(* SCALE_UP: as many children as it says and lcores are left for, each of
   which starts with scale_num-- ... *)
LcoresOfAll(t) == Cardinality(Of(t, "none"))  \* mutant: launched twice
LcoresLeft(t) ==
    Cardinality(Of(t, "none")) - Total(starting, {n \in Nfs : TypeOf[n] = t})
ScaleNfs(n) ==
    /\ up_told[n] # 0
    /\ up_told' = [up_told EXCEPT ![n] = 0]
    /\ LET children == Min({up_told[n], LcoresLeft(TypeOf[n])})
       IN  /\ starting' = [starting EXCEPT ![n] = @ + children]
           /\ scale_num' = [scale_num EXCEPT ![n] = (@ - children) % U16]
    /\ UNCHANGED <<status, bk_told, run_told, srv_time, statVars, ol_flag,
                   cnter, at, ticks, envVars>>

(* ... and registers at last. *)
StartChild(n, c) ==
    /\ starting[n] > 0 /\ TypeOf[c] = TypeOf[n]
    /\ Registers(c)
    /\ starting' = [starting EXCEPT ![n] = @ - 1]
    /\ srv_time' = [srv_time EXCEPT ![c] = srv_time[n]]
    /\ UNCHANGED <<bk_told, run_told, up_told, statVars, scaleVars, envVars>>

-----------------------------------------------------------------------------
Measure == Arrive \/ Display
ScaleRound == CheckOverload \/ \E t \in NTs : CheckLoad(t)
NfStep(n) ==
    \/ SendSrvTime(n) \/ ScaleBlock(n) \/ ScaleRun(n) \/ ScaleNfs(n)
    \/ \E c \in Nfs : StartChild(n, c)
Next ==
    \/ Measure \/ ScaleRound
    \/ \E t \in NTs : \E p \in Traffic[t] : ChangeTraffic(t, p)
    \/ \E n \in Nfs : Launch(n) \/ NfStep(n)

Spec == Init /\ [][Next]_vars

(* The master and the scale thread sleep and go on, an NF polls its queue, its
   loop and its children run. *)
Fairness ==
    /\ WF_vars(Measure) /\ WF_vars(ScaleRound)
    /\ \A n \in Nfs :
         /\ WF_vars(SendSrvTime(n)) /\ WF_vars(ScaleBlock(n))
         /\ WF_vars(ScaleRun(n)) /\ WF_vars(ScaleNfs(n))
         /\ WF_vars(\E c \in Nfs : StartChild(n, c))
FairSpec == Spec /\ Fairness

-----------------------------------------------------------------------------
(* Every variable has its type; cnter never passes the interval. *)
TypeOK ==
    /\ status \in [Nfs -> {"none", "running", "blocked"}]
    /\ {bk_told, run_told, ol_flag} \subseteq [Nfs -> BOOLEAN]
    /\ starting \in [Nfs -> 0 .. Cardinality(Nfs)]
    /\ srv_time \in [Nfs -> {0, SRV_TIME}]
    /\ rx \in [Nfs -> Nat]
    /\ {pkt_rate, scale_num, up_told} \subseteq [Nfs -> 0 .. U16 - 1]
    /\ cnter \in 0 .. CHECK_INTERVAL - 1
    /\ at \in 0 .. NUM_NTS
    /\ ticks \in 0 .. PERIOD
    /\ arrived \in BOOLEAN
    /\ traffic \in Traffics
    /\ changes \in 0 .. CHANGES

(* However the requests to block and to run cross, a type keeps an NF that
   runs and is not about to block (d2sc_scale_check_load, the test of
   num_available). *)
KeepsOne ==
    \A t \in NTs : Registered(t) # {} => \E n \in Of(t, "running") : ~bk_told[n]

(* Once the traffic is steady each type ends with the NFs its load needs, if
   all of them can bear it: none is overloaded unless all run, and they could
   not bear the load with one less (d2sc_scale_check_overload,
   d2sc_scale_check_load). *)
SteadyLoad(t) == (Share(t) \div RATE_UNIT) * SRV_TIME
Bearable(t) ==
    (traffic[t] \div RATE_UNIT) * SRV_TIME
        <= MAX_LOAD * Cardinality({n \in Nfs : TypeOf[n] = t})
Balanced(t) ==
    /\ SteadyLoad(t) >= MAX_LOAD => Of(t, "none") \cup Of(t, "blocked") = {}
    /\ Available(t) > 1 => SteadyLoad(t) * Available(t)
                               > MAX_LOAD * (Available(t) - 1)
Fits(t) == Available(t) > 0 /\ (Bearable(t) => Balanced(t))
Settles == \A t \in NTs : Registered(t) # {} ~> []Fits(t)

(* An NF is told to block only when the others can bear the load that was
   measured for the type: "the load difference keeps larger than max_load"
   (d2sc_scale.c:187); or, since the difference is a uint16_t, when not even
   all of them can. *)
MeasuredLoad(t) == Total([n \in Nfs |-> Load(n)], Measured(t))
BlocksSurplus ==
    [][\A n \in Nfs : bk_told'[n] /\ ~bk_told[n] =>
          LET t == TypeOf[n]
          IN  \/ MeasuredLoad(t) <= MAX_LOAD * (Available(t) - 1)
              \/ MeasuredLoad(t) > MAX_LOAD * Available(t)]_vars
=============================================================================
