----------------------------- MODULE NfProcess -----------------------------
(***************************************************************************)
(* The threads of the NF processes (d2sc_nfrt.c): the main NF, on lcore 0  *)
(* of its process, and the child NFs that SCALE_UP messages start on the   *)
(* others.  The threads of a process share keep_running and the id that    *)
(* was asked for; its end, or rte_exit in one thread, ends them all.       *)
(*                                                                         *)
(* Blocking for want of load is left to NfLifecycle, the numbers in the    *)
(* SCALE_UP messages to NfLoad; the master handles a message in one step.  *)
(***************************************************************************)
EXTENDS Integers, FiniteSets, FiniteSetsExt

CONSTANTS
    Procs,           \* the NF processes
    CHILD_LCORES,    \* the lcores of an NF process besides its main one
    MAX_NFS,         \* number of NF instances allowed; id 0 is the manager's
    Asked,           \* the id that each process asks for, or NO_ID
    UPS              \* bound of the model on SCALE_UP messages

NO_ID == 65535
Ids == 0 .. MAX_NFS - 1
Cores == 0 .. CHILD_LCORES
Threads == Procs \X Cores
NULL == <<>>

ASSUME ProcessAssumption ==
    /\ CHILD_LCORES \in Nat /\ MAX_NFS \in Nat \ {0}
    /\ Asked \in [Procs -> Ids \cup {NO_ID}]
    /\ UPS \in Nat

VARIABLES
    manager,         \* "running", "stopping" from its shutdown on, or "exit"
    proc,            \* of each process: "out", "up", "ended" or "died"
    pc,              \* what each thread does
    inst,            \* the id of its NF, 0 while it has none
    launcher,        \* the thread that launched it
    scan, waited,    \* its exit scan, see WaitChild and WaitOther
    nf_info,         \* of the table: the thread of each id, or NULL
    bk_flag, parent_nf,
    stop_q, up_q,    \* is there a MSG_STOP, the number in a SCALE_UP or 0
    keep_running,    \* of each process
    next_inst_id,    \* of the master
    ups,
    late             \* history: children that started during an exit scan

procVars == <<proc, pc, inst, launcher, scan, waited, keep_running, late>>
nfVars == <<nf_info, bk_flag, parent_nf, stop_q, up_q>>
mgrVars == <<manager, next_inst_id, ups>>
vars == <<procVars, nfVars, mgrVars>>

PCs == {"none", "asking", "named", "child", "loop", "inner", "scan", "stopped",
        "finished", "orphan", "ghost", "gone"}
Beginning == {"asking", "named", "child"}
Running == {"loop", "inner", "scan"}
Main(p) == <<p, 0>>

Init ==
    /\ manager = "running"
    /\ proc = [p \in Procs |-> "out"]
    /\ pc = [th \in Threads |-> "none"]
    /\ inst = [th \in Threads |-> 0]
    /\ launcher = [th \in Threads |-> NULL]
    /\ scan = [th \in Threads |-> 0]
    /\ waited = [th \in Threads |-> FALSE]
    /\ nf_info = [id \in Ids |-> NULL]
    /\ bk_flag = [id \in Ids |-> 0]
    /\ parent_nf = [id \in Ids |-> 0]
    /\ stop_q = [id \in Ids |-> FALSE]
    /\ up_q = [id \in Ids |-> 0]
    /\ keep_running = [p \in Procs |-> TRUE]
    /\ next_inst_id = 1 /\ ups = 0
    /\ late = {}

(* The end of a process takes all its threads with it, and nothing else: neither
   their slots nor the messages they sent. *)
Remains(at) ==
    CASE at = "asking" -> "orphan" [] at = "stopped" -> "stopped"
      [] at \in Running -> "ghost" [] OTHER -> "gone"
GoneWith(p) ==
    [th \in Threads |-> IF th[1] = p THEN Remains(pc[th]) ELSE pc[th]]
Dies(p) ==
    /\ proc' = [proc EXCEPT ![p] = "died"]
    /\ pc' = GoneWith(p)
    /\ UNCHANGED <<inst, launcher, scan, waited, keep_running, late>>

-----------------------------------------------------------------------------
(* d2sc_nfrt_init after the premises: the main NF asks for an id. *)
StartMain(p) ==
    /\ proc[p] = "out" /\ proc' = [proc EXCEPT ![p] = "up"]
    /\ pc' = [pc EXCEPT ![Main(p)] = "asking"]
    /\ UNCHANGED <<inst, launcher, scan, waited, keep_running, late,
                   nfVars, mgrVars>>

(* d2sc_nf_next_inst_id returns the first id that no running NF has, else the
   last id, and goes on behind it next time. *)
IsValid(id) ==
    nf_info[id] # NULL /\ pc[nf_info[id]] \in Running \cup {"ghost"}
NextInstId ==
    LET free == {id \in next_inst_id .. MAX_NFS - 1 : ~IsValid(id)}
    IN  IF next_inst_id >= MAX_NFS THEN MAX_NFS
        ELSE Min(free \cup {MAX_NFS - 1})
ChosenId(th) == IF Asked[th[1]] # NO_ID THEN Asked[th[1]] ELSE NextInstId
AdvanceIds(th) ==
    next_inst_id' = IF Asked[th[1]] # NO_ID THEN next_inst_id
                    ELSE Min({NextInstId + 1, MAX_NFS})

(* d2sc_nf_start, also for a process that has ended since it asked. *)
Grants(th) == ChosenId(th) \in Ids /\ ~IsValid(ChosenId(th))
Grant(th) ==
    /\ manager # "exit" /\ pc[th] \in {"asking", "orphan"}
    /\ Grants(th)
    /\ inst' = [inst EXCEPT ![th] = ChosenId(th)]
    /\ nf_info' = [nf_info EXCEPT ![ChosenId(th)] = th]
    /\ AdvanceIds(th)
    /\ pc' = [pc EXCEPT ![th] = IF @ = "asking" THEN "named" ELSE "gone"]
    /\ UNCHANGED <<proc, launcher, scan, waited, keep_running, late,
                   bk_flag, parent_nf, stop_q, up_q, manager, ups>>
(* A refusal, of a child too, ends the whole process by rte_exit. *)
Refuse(th) ==
    /\ manager # "exit" /\ pc[th] \in {"asking", "orphan"}
    /\ ~Grants(th)
    /\ AdvanceIds(th)
    /\ IF pc[th] = "asking" THEN Dies(th[1])
       ELSE /\ pc' = [pc EXCEPT ![th] = "gone"]
            /\ UNCHANGED <<proc, inst, launcher, scan, waited, keep_running,
                           late>>
    /\ UNCHANGED <<nfVars, manager, ups>>

(* The rest of d2sc_nfrt_start_nf, and for a child of d2sc_nfrt_start_child. *)
ProceedNoId(th) ==      \* mutant: "no parent" is not 0
    /\ pc[th] = "named"
    /\ parent_nf' = [parent_nf EXCEPT ![inst[th]] = NO_ID]
    /\ keep_running' = [keep_running EXCEPT ![th[1]] = TRUE]
    /\ pc' = [pc EXCEPT ![th] = IF launcher[th] = NULL THEN "loop" ELSE "child"]
    /\ UNCHANGED <<proc, inst, launcher, scan, waited, late, nf_info,
                   bk_flag, stop_q, up_q, mgrVars>>
Proceed(th) ==
    /\ pc[th] = "named"
    /\ parent_nf' = [parent_nf EXCEPT ![inst[th]] = 0]
    /\ keep_running' = [keep_running EXCEPT ![th[1]] = TRUE]
    /\ pc' = [pc EXCEPT ![th] = IF launcher[th] = NULL THEN "loop" ELSE "child"]
    /\ UNCHANGED <<proc, inst, launcher, scan, waited, late, nf_info,
                   bk_flag, stop_q, up_q, mgrVars>>
SetParent(th) ==
    /\ pc[th] = "child"
    /\ parent_nf' = [parent_nf EXCEPT ![inst[th]] = inst[launcher[th]]]
    /\ pc' = [pc EXCEPT ![th] = "loop"]
    /\ UNCHANGED <<proc, inst, launcher, scan, waited, keep_running, late,
                   nf_info, bk_flag, stop_q, up_q, mgrVars>>

-----------------------------------------------------------------------------
Starting(p) == {th \in Threads : th[1] = p /\ pc[th] \in Beginning}
Scanning(p) ==
    \E th \in Threads : th[1] = p /\ pc[th] \in {"scan", "stopped", "finished"}

(* d2sc_nfrt_run_callback: the test of keep_running, the inner loop while the
   NF is not blocked, and a pass while it is. *)
LoopTest(th) ==
    /\ pc[th] = "loop"
    /\ pc' = [pc EXCEPT ![th] = IF keep_running[th[1]] THEN "inner" ELSE "scan"]
    /\ late' = IF keep_running[th[1]] THEN late ELSE late \cup Starting(th[1])
    /\ UNCHANGED <<proc, inst, launcher, scan, waited, keep_running, nfVars,
                   mgrVars>>

HandleStop(th) ==
    /\ pc[th] = "inner" /\ bk_flag[inst[th]] # 2
    /\ stop_q[inst[th]]
    /\ stop_q' = [stop_q EXCEPT ![inst[th]] = FALSE]
    /\ bk_flag' = [bk_flag EXCEPT ![inst[th]] = 2]
    /\ keep_running' = [keep_running EXCEPT ![th[1]] = FALSE]
    /\ UNCHANGED <<proc, pc, inst, launcher, scan, waited, late, nf_info,
                   parent_nf, up_q, mgrVars>>

(* d2sc_nfrt_scale_nfs: one lcore after another, from that of the thread on and
   as many as the message says; one that is not waiting is passed over. *)
Successor(c, k) == ((c - 1 + k) % CHILD_LCORES) + 1
NextCores(c, num) == {Successor(c, k) : k \in 1 .. Min({num, CHILD_LCORES})}
Launchable(th, num) ==
    {<<th[1], c>> : c \in NextCores(th[2], num)}
    \cap {child \in Threads : pc[child] = "none"}
ScaleNfs(th) ==
    LET id == inst[th]
        children == Launchable(th, up_q[id])
    IN  /\ pc[th] = "inner"
        /\ up_q[id] # 0 /\ up_q' = [up_q EXCEPT ![id] = 0]
        /\ pc' = [t \in Threads |->
                    IF t \in children THEN "asking"
                    ELSE IF t = th /\ bk_flag[id] = 2 THEN "loop" ELSE pc[t]]
        /\ launcher' = [t \in Threads |->
                          IF t \in children THEN th ELSE launcher[t]]
        /\ late' = IF Scanning(th[1]) THEN late \cup children ELSE late
        /\ UNCHANGED <<proc, inst, scan, waited, keep_running, nf_info,
                       bk_flag, parent_nf, stop_q, mgrVars>>
PowerInitFailed(th) ==
    /\ pc[th] = "inner" /\ up_q[inst[th]] # 0
    /\ \E c \in NextCores(th[2], up_q[inst[th]]) :
          pc[<<th[1], c>>] \in {"none", "stopped", "finished"}
    /\ Dies(th[1])
    /\ UNCHANGED <<nfVars, mgrVars>>
BlockedPass(th) ==
    /\ pc[th] = "inner" /\ bk_flag[inst[th]] = 2 /\ up_q[inst[th]] = 0
    /\ pc' = [pc EXCEPT ![th] = "loop"]
    /\ UNCHANGED <<proc, inst, launcher, scan, waited, keep_running, late,
                   nfVars, mgrVars>>

-----------------------------------------------------------------------------
(* The exit scan: for each id, first while it is a child of this NF, then while
   it is not blocked. *)
IsChildNever(th, id) == FALSE          \* mutant: nobody waits for its children
IsChild(th, id) == nf_info[id] # NULL /\ parent_nf[id] = inst[th]
IsOpenAny(id) == nf_info[id] # NULL    \* mutant: blocked ones are waited for too
IsOpen(id) == nf_info[id] # NULL /\ bk_flag[id] # 2
WaitChild(th) ==
    /\ pc[th] = "scan" /\ scan[th] < MAX_NFS /\ ~waited[th]
    /\ ~IsChild(th, scan[th])
    /\ waited' = [waited EXCEPT ![th] = TRUE]
    /\ UNCHANGED <<proc, pc, inst, launcher, scan, keep_running, late,
                   nfVars, mgrVars>>
WaitOther(th) ==
    /\ pc[th] = "scan" /\ scan[th] < MAX_NFS /\ waited[th]
    /\ ~IsOpen(scan[th])
    /\ waited' = [waited EXCEPT ![th] = FALSE]
    /\ scan' = [scan EXCEPT ![th] = @ + 1]
    /\ UNCHANGED <<proc, pc, inst, launcher, keep_running, late, nfVars,
                   mgrVars>>

(* The stop message, after which the thread of a child is over and with that
   of the main NF the process. *)
StopChild(th) ==
    /\ pc[th] = "scan" /\ scan[th] = MAX_NFS /\ launcher[th] # NULL
    /\ pc' = [pc EXCEPT ![th] = "stopped"]
    /\ UNCHANGED <<proc, inst, launcher, scan, waited, keep_running, late,
                   nfVars, mgrVars>>
StopMain(p) ==
    /\ pc[Main(p)] = "scan" /\ scan[Main(p)] = MAX_NFS
    /\ proc' = [proc EXCEPT ![p] = "ended"]
    /\ pc' = [GoneWith(p) EXCEPT ![Main(p)] = "stopped"]
    /\ UNCHANGED <<inst, launcher, scan, waited, keep_running, late, nfVars,
                   mgrVars>>
(* The last call of a power function may have failed, or told of a change. *)
PowerExitFailed(p) ==
    /\ pc[Main(p)] = "scan" /\ scan[Main(p)] = MAX_NFS
    /\ Dies(p)
    /\ UNCHANGED <<nfVars, mgrVars>>

(* d2sc_nf_stop *)
NfStop(th) ==
    /\ manager # "exit" /\ pc[th] = "stopped"
    /\ nf_info' = [nf_info EXCEPT ![inst[th]] = NULL]
    /\ pc' = [pc EXCEPT ![th] = "finished"]
    /\ UNCHANGED <<proc, inst, launcher, scan, waited, keep_running, late,
                   bk_flag, parent_nf, stop_q, up_q, mgrVars>>
-----------------------------------------------------------------------------
(* What comes from outside: a SCALE_UP of the scale thread, SIGINT or SIGTERM,
   and the shutdown sequence of the master, which waits for a bounded time. *)
ScaleUp(id, num) ==
    /\ manager = "running"
    /\ ups < UPS /\ ups' = ups + 1
    /\ IsValid(id)
    /\ up_q[id] = 0 /\ up_q' = [up_q EXCEPT ![id] = num]
    /\ UNCHANGED <<procVars, nf_info, bk_flag, parent_nf, stop_q, manager,
                   next_inst_id>>
Signal(p) ==
    /\ proc[p] = "up" /\ pc[Main(p)] \in Running
    /\ bk_flag' = [id \in Ids |-> IF nf_info[id] # NULL THEN 2 ELSE bk_flag[id]]
    /\ keep_running' = [keep_running EXCEPT ![p] = FALSE]
    /\ UNCHANGED <<proc, pc, inst, launcher, scan, waited, late, nf_info,
                   parent_nf, stop_q, up_q, mgrVars>>
Shutdown ==
    /\ manager = "running" /\ manager' = "stopping"
    /\ stop_q' = [id \in Ids |-> stop_q[id] \/ nf_info[id] # NULL]
    /\ UNCHANGED <<procVars, nf_info, bk_flag, parent_nf, up_q, next_inst_id,
                   ups>>
MasterDone ==
    /\ manager = "stopping" /\ manager' = "exit"
    /\ UNCHANGED <<procVars, nfVars, next_inst_id, ups>>

MasterStep == \E th \in Threads : Grant(th) \/ Refuse(th) \/ NfStop(th)
ThreadStep(th) ==
    \/ Proceed(th) \/ SetParent(th)
    \/ LoopTest(th) \/ HandleStop(th) \/ BlockedPass(th)
    \/ ScaleNfs(th) \/ PowerInitFailed(th)
    \/ WaitChild(th) \/ WaitOther(th) \/ StopChild(th)
MainStep(p) == StopMain(p) \/ PowerExitFailed(p)
Next ==
    \/ MasterStep
    \/ \E th \in Threads : ThreadStep(th)
    \/ \E p \in Procs : StartMain(p) \/ MainStep(p) \/ Signal(p)
    \/ \E id \in Ids, num \in 1 .. CHILD_LCORES : ScaleUp(id, num)
    \/ Shutdown \/ MasterDone

Spec == Init /\ [][Next]_vars

(* The master polls, and so does every thread. *)
Fairness ==
    /\ WF_vars(MasterStep)
    /\ \A th \in Threads : WF_vars(ThreadStep(th))
    /\ \A p \in Procs : WF_vars(MainStep(p))
FairSpec == Spec /\ Fairness

-----------------------------------------------------------------------------
(* Every variable has its type. *)
TypeOK ==
    /\ manager \in {"running", "stopping", "exit"}
    /\ proc \in [Procs -> {"out", "up", "ended", "died"}]
    /\ pc \in [Threads -> PCs]
    /\ inst \in [Threads -> Ids]
    /\ launcher \in [Threads -> Threads \cup {NULL}]
    /\ scan \in [Threads -> 0 .. MAX_NFS] /\ waited \in [Threads -> BOOLEAN]
    /\ nf_info \in [Ids -> Threads \cup {NULL}]
    /\ bk_flag \in [Ids -> {0, 2}] /\ parent_nf \in [Ids -> Ids]
    /\ stop_q \in [Ids -> BOOLEAN] /\ up_q \in [Ids -> 0 .. CHILD_LCORES]
    /\ keep_running \in [Procs -> BOOLEAN]
    /\ next_inst_id \in 1 .. MAX_NFS /\ late \subseteq Threads

(* The end of the main NF takes no running child with it, but for one that
   was starting while the NFs of its process ended (d2sc_nfrt.c:370-373). *)
ParentLast ==
    [][\A p \in Procs : proc[p] = "up" /\ proc'[p] = "ended" =>
          \A th \in Threads : th[1] = p /\ th # Main(p) /\ pc[th] \in Running
                                => th \in late]_vars

(* The NFs of a process that was told to end do not wait for each other for
   ever: it ends, unless NFs are starting or run unblocked elsewhere
   (d2sc_nfrt.c:370-377). *)
Calm ==
    /\ manager # "exit"
    /\ \A th \in Threads : pc[th] \notin Beginning \cup {"orphan"}
    /\ \A id \in Ids : nf_info[id] # NULL => bk_flag[id] = 2
Terminates ==
    \A p \in Procs :
        proc[p] = "up" /\ ~keep_running[p] /\ Calm ~> proc[p] # "up" \/ ~Calm
=============================================================================
