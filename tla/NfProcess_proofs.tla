-------------------------- MODULE NfProcess_proofs --------------------------
(***************************************************************************)
(* Theorems about the threads of the NF processes: every variable has its  *)
(* type, and a main NF ends its process last of its NFs, but for those     *)
(* that start during the exit scans.                                       *)
(*                                                                         *)
(* The second rests on FamilyInv.  Ids are given in ascending order, so a  *)
(* child has a higher one than the thread that launched it; its slot names *)
(* that thread as its parent before it runs, and an exit scan waits at it. *)
(***************************************************************************)
EXTENDS NfProcess, DataLemmas

(* A set of natural numbers that is not empty has a least element, which is Min. *)
LEMMA LeastNat ==
    ASSUME NEW S \in SUBSET Nat, S # {}
    PROVE  Min(S) \in S /\ \A n \in S : Min(S) <= n
  BY FirstNat DEF Min

(* No thread is NULL: threads are pairs. *)
LEMMA NullIsNoThread == NULL \notin Threads
  BY DEF NULL, Threads

(* What remains of a thread whose process has ended is none that acts by itself. *)
LEMMA RemainsAre ==
    ASSUME NEW at
    PROVE  /\ Remains(at) \in {"orphan", "stopped", "ghost", "gone"}
           /\ at = "asking" <=> Remains(at) = "orphan"
  <1>1. CASE at = "asking"
        BY <1>1, Zenon DEF Remains, Running
  <1>2. CASE at = "stopped"
        BY <1>2, Zenon DEF Remains, Running
  <1>3. CASE at \in Running
        BY <1>3, Zenon DEF Remains, Running
  <1>4. CASE at # "asking" /\ at # "stopped" /\ at \notin Running
        BY <1>4, Zenon DEF Remains, Running
  <1>. QED BY <1>1, <1>2, <1>3, <1>4

(* The id that the master proposes, and the place from which it will go on. *)
LEMMA NextIdType ==
    ASSUME TypeOK
    PROVE  /\ NextInstId \in Nat
           /\ next_inst_id = MAX_NFS => NextInstId = MAX_NFS
           /\ next_inst_id < MAX_NFS =>
                next_inst_id <= NextInstId /\ NextInstId < MAX_NFS
           /\ Min({NextInstId + 1, MAX_NFS}) \in 1 .. MAX_NFS
           /\ Min({NextInstId + 1, MAX_NFS}) >= next_inst_id
           /\ NextInstId < MAX_NFS => Min({NextInstId + 1, MAX_NFS}) = NextInstId + 1
  <1>. USE ProcessAssumption
  <1> DEFINE free == {id \in next_inst_id .. MAX_NFS - 1 : ~IsValid(id)}
             A == free \cup {MAX_NFS - 1}
  <1>1. next_inst_id \in 1 .. MAX_NFS
        BY DEF TypeOK
  <1>2. A \in SUBSET Nat /\ A # {} /\ MAX_NFS - 1 \in A
        BY <1>1
  <1>3. Min(A) \in A
        BY <1>2, LeastNat
  <1>4. NextInstId = IF next_inst_id >= MAX_NFS THEN MAX_NFS ELSE Min(A)
        BY DEF NextInstId
  <1>5. Min(A) \in Nat /\ (next_inst_id < MAX_NFS =>
                             next_inst_id <= Min(A) /\ Min(A) < MAX_NFS)
        BY <1>1, <1>3
  <1> HIDE DEF A
  <1>6. /\ NextInstId \in Nat
        /\ next_inst_id = MAX_NFS => NextInstId = MAX_NFS
        /\ next_inst_id < MAX_NFS =>
             next_inst_id <= NextInstId /\ NextInstId < MAX_NFS
        BY <1>1, <1>4, <1>5
  <1> DEFINE B == {NextInstId + 1, MAX_NFS}
  <1>7. B \in SUBSET Nat /\ B # {}
        BY <1>6
  <1>8. Min(B) \in B /\ \A n \in B : Min(B) <= n
        BY <1>7, LeastNat
  <1>. QED BY <1>1, <1>6, <1>8

(* A child that is about to name its parent was launched by a thread. *)
Parented == \A th \in Threads : pc[th] = "child" => launcher[th] # NULL
TypeInv == TypeOK /\ Parented

(* The types hold at the beginning. *)
LEMMA TypeInit == Init => TypeInv
  BY ProcessAssumption DEF Init, TypeInv, TypeOK, Parented, PCs, Ids

(* The end of a process leaves a type to everything. *)
LEMMA GoneTypes ==
    ASSUME TypeInv, NEW p \in Procs
    PROVE  /\ GoneWith(p) \in [Threads -> PCs]
           /\ \A th \in Threads :
                 GoneWith(p)[th] = IF th[1] = p THEN Remains(pc[th]) ELSE pc[th]
           /\ \A th \in Threads : GoneWith(p)[th] = "child" => pc[th] = "child"
  BY RemainsAre DEF GoneWith, TypeInv, TypeOK, PCs

(* A process that dies keeps the types of its threads. *)
LEMMA DiesTypes ==
    ASSUME TypeInv, NEW p \in Procs, Dies(p)
    PROVE  /\ proc' \in [Procs -> {"out", "up", "ended", "died"}]
           /\ pc' \in [Threads -> PCs]
           /\ Parented'
  BY GoneTypes DEF Dies, TypeInv, TypeOK, Parented

(* Every step of the master, of a thread and of the world around keeps them. *)
LEMMA TypeStep ==
    ASSUME TypeInv, [Next]_vars
    PROVE  TypeInv'
  <1>. USE ProcessAssumption DEF TypeInv
  <1>1. ASSUME NEW th \in Threads, Grant(th) PROVE TypeInv'
    <2>1. Min({NextInstId + 1, MAX_NFS}) \in 1 .. MAX_NFS
          BY NextIdType
    <2>2. ChosenId(th) \in Ids /\ next_inst_id' \in 1 .. MAX_NFS
          BY <1>1, <2>1 DEF Grant, Grants, AdvanceIds, TypeOK
    <2>. QED BY <1>1, <2>2 DEF Grant, TypeOK, Parented, PCs
  <1>2. ASSUME NEW th \in Threads, Refuse(th) PROVE TypeInv'
    <2>1. Min({NextInstId + 1, MAX_NFS}) \in 1 .. MAX_NFS
          BY NextIdType
    <2>2. next_inst_id' \in 1 .. MAX_NFS
          BY <1>2, <2>1 DEF Refuse, AdvanceIds, TypeOK
    <2>3. th[1] \in Procs
          BY DEF Threads
    <2>4. CASE pc[th] = "asking"
      <3>1. Dies(th[1])
            BY <1>2, <2>4 DEF Refuse
      <3>. QED BY <1>2, <2>2, <2>3, <3>1, DiesTypes
              DEF Refuse, Dies, TypeOK, nfVars
    <2>5. CASE pc[th] # "asking"
          BY <1>2, <2>2, <2>5 DEF Refuse, TypeOK, Parented, PCs, nfVars
    <2>. QED BY <2>4, <2>5
  <1>3. ASSUME NEW th \in Threads, NfStop(th) PROVE TypeInv'
        BY <1>3 DEF NfStop, TypeOK, Parented, PCs, mgrVars
  <1>4. ASSUME NEW th \in Threads, Proceed(th) PROVE TypeInv'
    <2>1. th[1] \in Procs
          BY DEF Threads
    <2>2. pc' \in [Threads -> PCs] /\ Parented'
          BY <1>4 DEF Proceed, TypeOK, Parented, PCs
    <2>3. 0 \in Ids /\ inst[th] \in Ids
          BY DEF Ids, TypeOK
    <2>4. parent_nf' = [parent_nf EXCEPT ![inst[th]] = 0] /\ parent_nf \in [Ids -> Ids]
          BY <1>4 DEF Proceed, TypeOK
    <2>5. parent_nf' \in [Ids -> Ids]
          BY <2>3, <2>4
    <2>6. keep_running' \in [Procs -> BOOLEAN]
          BY <1>4, <2>1 DEF Proceed, TypeOK
    <2>. QED BY <1>4, <2>2, <2>5, <2>6 DEF Proceed, TypeOK, mgrVars
  <1>5. ASSUME NEW th \in Threads, SetParent(th) PROVE TypeInv'
    <2>1. launcher[th] \in Threads
          BY <1>5 DEF SetParent, TypeOK, Parented
    <2>. QED BY <1>5, <2>1 DEF SetParent, TypeOK, Parented, PCs, mgrVars
  <1>6. ASSUME NEW th \in Threads, LoopTest(th) PROVE TypeInv'
        BY <1>6 DEF LoopTest, TypeOK, Parented, PCs, mgrVars, nfVars, Starting
  <1>7. ASSUME NEW th \in Threads, HandleStop(th) PROVE TypeInv'
        BY <1>7 DEF HandleStop, TypeOK, Parented, mgrVars
  <1>8. ASSUME NEW th \in Threads, BlockedPass(th) PROVE TypeInv'
        BY <1>8 DEF BlockedPass, TypeOK, Parented, PCs, mgrVars, nfVars
  <1>9. ASSUME NEW th \in Threads, ScaleNfs(th) PROVE TypeInv'
    <2> DEFINE children == Launchable(th, up_q[inst[th]])
    <2>1. children \in SUBSET Threads
          BY DEF Launchable
    <2>2. /\ pc' \in [Threads -> PCs]
          /\ launcher' \in [Threads -> Threads \cup {NULL}]
          /\ up_q' \in [Ids -> 0 .. CHILD_LCORES]
          /\ late' \subseteq Threads
          /\ Parented'
          BY <1>9, <2>1 DEF ScaleNfs, TypeOK, Parented, PCs
    <2>. QED BY <1>9, <2>2 DEF ScaleNfs, TypeOK, mgrVars
  <1>10. ASSUME NEW th \in Threads, PowerInitFailed(th) PROVE TypeInv'
    <2>1. th[1] \in Procs
          BY DEF Threads
    <2>. QED BY <1>10, <2>1, DiesTypes
            DEF PowerInitFailed, Dies, TypeOK, nfVars, mgrVars
  <1>11. ASSUME NEW th \in Threads, WaitChild(th) PROVE TypeInv'
        BY <1>11 DEF WaitChild, TypeOK, Parented, nfVars, mgrVars
  <1>12. ASSUME NEW th \in Threads, WaitOther(th) PROVE TypeInv'
        BY <1>12 DEF WaitOther, TypeOK, Parented, nfVars, mgrVars
  <1>13. ASSUME NEW th \in Threads, StopChild(th) PROVE TypeInv'
        BY <1>13 DEF StopChild, TypeOK, Parented, PCs, nfVars, mgrVars
  <1>14. ASSUME NEW p \in Procs, StartMain(p) PROVE TypeInv'
        BY <1>14 DEF StartMain, TypeOK, Parented, PCs, nfVars, mgrVars
  <1>15. ASSUME NEW p \in Procs, StopMain(p) PROVE TypeInv'
    <2> DEFINE left == GoneWith(p)
    <2>1. /\ left \in [Threads -> PCs]
          /\ \A th \in Threads : left[th] = "child" => pc[th] = "child"
          BY GoneTypes
    <2>2. pc' = [left EXCEPT ![Main(p)] = "stopped"] /\ launcher' = launcher
          BY <1>15 DEF StopMain
    <2> HIDE DEF left
    <2>3. pc' \in [Threads -> PCs] /\ Parented'
          BY <2>1, <2>2 DEF Parented, PCs
    <2>. QED BY <1>15, <2>3 DEF StopMain, TypeOK, nfVars, mgrVars
  <1>16. ASSUME NEW p \in Procs, PowerExitFailed(p) PROVE TypeInv'
        BY <1>16, DiesTypes DEF PowerExitFailed, Dies, TypeOK, nfVars, mgrVars
  <1>17. ASSUME NEW p \in Procs, Signal(p) PROVE TypeInv'
        BY <1>17 DEF Signal, TypeOK, Parented, mgrVars
  <1>18. ASSUME NEW id \in Ids, NEW num \in 1 .. CHILD_LCORES, ScaleUp(id, num)
         PROVE  TypeInv'
        BY <1>18 DEF ScaleUp, TypeOK, Parented, procVars
  <1>19. CASE Shutdown \/ MasterDone
    <2>1. CASE Shutdown
          BY <2>1 DEF Shutdown, TypeOK, Parented, procVars, nfVars
    <2>2. CASE MasterDone
          BY <2>2 DEF MasterDone, TypeOK, Parented, procVars, nfVars
    <2>. QED BY <1>19, <2>1, <2>2
  <1>20. CASE UNCHANGED vars
        BY <1>20 DEF vars, TypeOK, Parented, procVars, nfVars, mgrVars
  <1>. QED BY <1>1, <1>2, <1>3, <1>4, <1>5, <1>6, <1>7, <1>8, <1>9, <1>10, <1>11,
              <1>12, <1>13, <1>14, <1>15, <1>16, <1>17, <1>18, <1>19, <1>20
          DEF Next, MasterStep, ThreadStep, MainStep

(* Every variable has its type: an id that is given is that of a slot, and a
   child finds the id of the thread that launched it (d2sc_nfrt.c). *)
THEOREM ProcessTypes == Spec => []TypeOK
  <1>1. Init => TypeInv
        BY TypeInit
  <1>2. TypeInv /\ [Next]_vars => TypeInv'
        BY TypeStep
  <1>. QED BY <1>1, <1>2, PTL DEF Spec, TypeInv

-----------------------------------------------------------------------------
(* Which threads have an id, and how the threads of a process know each other,
   as long as no process asks for an id of its own. *)
NoneAsks == \A p \in Procs : Asked[p] = NO_ID

Active == Beginning \cup Running
Holding == {"named", "child"} \cup Running

(* An id is given once, and is the slot of the thread that has it. *)
IdsGiven ==
    /\ \A th \in Threads : inst[th] < next_inst_id
    /\ \A th \in Threads : pc[th] \in {"none", "asking", "orphan"} => inst[th] = 0
    /\ \A a, b \in Threads : inst[a] = inst[b] /\ inst[a] # 0 => a = b
    /\ \A th \in Threads :
          pc[th] \in Holding => inst[th] # 0 /\ nf_info[inst[th]] = th

(* Only the main NF is not launched by a thread of its process. *)
Launched ==
    \A th \in Threads :
        /\ th[2] = 0 => launcher[th] = NULL
        /\ launcher[th] # NULL => launcher[th][1] = th[1]
        /\ th[2] # 0 /\ pc[th] \in Active => launcher[th] # NULL
        /\ proc[th[1]] = "out" => pc[th] = "none"

(* An exit scan starts at the first id. *)
ScanBegins ==
    \A th \in Threads : pc[th] \in Beginning \cup {"none", "loop", "inner"} =>
        scan[th] = 0 /\ ~waited[th]

(* Late are those that begin while a thread of the process is at its exit scan,
   or behind it. *)
LateInv ==
    /\ \A th \in late : pc[th] # "none" /\ (pc[th] \in Active => Scanning(th[1]))
    /\ \A th \in Threads : pc[th] \in Beginning /\ Scanning(th[1]) => th \in late
InTime(th) == th[2] # 0 /\ th \notin late

(* A child in time has a parent in time that still runs, and that got its id
   before; once it runs its slot names that parent. *)
KnowsParent ==
    \A th \in Threads : InTime(th) /\ pc[th] \in Active =>
        /\ launcher[th] \in Threads
        /\ pc[launcher[th]] \in Running /\ launcher[th] \notin late
        /\ pc[th] \in Holding => inst[launcher[th]] < inst[th]
        /\ pc[th] \in Running => parent_nf[inst[th]] = inst[launcher[th]]

(* An exit scan has not passed a child in time that runs. *)
Awaited ==
    \A th, c \in Threads :
        pc[th] = "scan" /\ InTime(c) /\ pc[c] \in Running /\ launcher[c] = th =>
            inst[c] > scan[th] \/ (inst[c] = scan[th] /\ ~waited[th])

FamilyInv ==
    /\ TypeInv
    /\ IdsGiven /\ Launched /\ ScanBegins /\ LateInv /\ KnowsParent /\ Awaited

(* A thread is one of a process on one of its lcores. *)
LEMMA ThreadParts == \A th \in Threads : th[1] \in Procs /\ th[2] \in Cores
  BY DEF Threads

(* At the beginning there is no family. *)
LEMMA FamilyInit == Init => FamilyInv
  <1> SUFFICES ASSUME Init PROVE FamilyInv
      OBVIOUS
  <1>1. TypeInv
        BY TypeInit
  <1>2. \A th \in Threads : /\ pc[th] = "none" /\ inst[th] = 0 /\ scan[th] = 0
                            /\ ~waited[th] /\ launcher[th] = NULL
        BY DEF Init
  <1>3. next_inst_id = 1 /\ late = {}
        BY DEF Init
  <1>4. IdsGiven
        BY <1>2, <1>3 DEF IdsGiven, Holding, Running
  <1>5. Launched
        BY <1>2 DEF Launched, Active, Beginning, Running
  <1>6. ScanBegins
        BY <1>2 DEF ScanBegins
  <1>7. LateInv
        BY <1>2, <1>3 DEF LateInv, Beginning
  <1>8. KnowsParent /\ Awaited
        BY <1>2 DEF KnowsParent, Awaited, Active, Beginning, Running
  <1>. QED BY <1>1, <1>4, <1>5, <1>6, <1>7, <1>8 DEF FamilyInv

(* The parts of the state that the invariant speaks of. *)
familyVars == <<proc, pc, inst, launcher, scan, waited, nf_info, parent_nf,
                next_inst_id, late>>

(* A step that changes nothing of that keeps it. *)
LEMMA FamilyUntouched ==
    ASSUME FamilyInv, TypeInv', UNCHANGED familyVars
    PROVE  FamilyInv'
  <1>. USE DEF familyVars
  <1>1. IdsGiven' /\ Launched' /\ ScanBegins'
        BY DEF FamilyInv, IdsGiven, Launched, ScanBegins
  <1>2. LateInv'
        BY DEF FamilyInv, LateInv, Scanning
  <1>3. KnowsParent' /\ Awaited'
        BY DEF FamilyInv, KnowsParent, Awaited, InTime
  <1>. QED BY <1>1, <1>2, <1>3 DEF FamilyInv

(* The end of a process, and of what it has asked. *)
Over == {"orphan", "stopped", "ghost", "gone"}
EndsOf(p) ==
    /\ pc' \in [Threads -> PCs] /\ proc' \in [Procs -> {"out", "up", "ended", "died"}]
    /\ \A q \in Procs : q # p => proc'[q] = proc[q]
    /\ proc'[p] # "out"
    /\ \A th \in Threads : th[1] # p => pc'[th] = pc[th]
    /\ \A th \in Threads : th[1] = p => pc'[th] \in Over
    /\ \A th \in Threads : pc'[th] = "orphan" => pc[th] \in {"asking", "orphan"}
    /\ next_inst_id <= next_inst_id'
    /\ UNCHANGED <<inst, launcher, scan, waited, nf_info, parent_nf, late>>

(* The threads of a process that is over stand in no relation any more, and
   those of the others in the same. *)
LEMMA FamilyEnds ==
    ASSUME FamilyInv, TypeInv', NEW p \in Procs, EndsOf(p)
    PROVE  FamilyInv'
  <1>. USE ThreadParts
  <1>0. /\ \A th \in Threads : inst[th] \in Nat
        /\ next_inst_id \in Nat /\ next_inst_id' \in Nat
        BY ProcessAssumption DEF FamilyInv, TypeInv, TypeOK, Ids
  <1>1. IdsGiven'
        BY <1>0 DEF FamilyInv, EndsOf, IdsGiven, Over, Holding, Running
  <1>2. Launched'
        BY DEF FamilyInv, EndsOf, Launched, Over, Active, Beginning, Running
  <1>3. ScanBegins'
        BY DEF FamilyInv, EndsOf, ScanBegins, Over, Beginning
  <1>4. LateInv'
        BY DEF FamilyInv, EndsOf, LateInv, Scanning, Over, Active, Beginning, Running,
               TypeInv, TypeOK
  <1>5. KnowsParent'
    <2> SUFFICES ASSUME NEW th \in Threads, th[2] # 0, th \notin late, pc'[th] \in Active
                 PROVE  /\ launcher[th] \in Threads
                        /\ pc'[launcher[th]] \in Running /\ launcher[th] \notin late
                        /\ pc'[th] \in Holding => inst[launcher[th]] < inst[th]
                        /\ pc'[th] \in Running =>
                             parent_nf[inst[th]] = inst[launcher[th]]
        BY DEF KnowsParent, InTime, EndsOf
    <2>1. th[1] # p /\ pc'[th] = pc[th]
          BY DEF EndsOf, Over, Active, Beginning, Running
    <2>2. launcher[th] \in Threads /\ launcher[th][1] = th[1]
          BY <2>1, NullIsNoThread DEF FamilyInv, KnowsParent, InTime, Launched
    <2>3. pc'[launcher[th]] = pc[launcher[th]]
          BY <2>1, <2>2 DEF EndsOf
    <2>. QED BY <2>1, <2>2, <2>3 DEF FamilyInv, KnowsParent, InTime
  <1>6. Awaited'
        BY DEF FamilyInv, EndsOf, Awaited, InTime, Over, Running
  <1>. QED BY <1>1, <1>2, <1>3, <1>4, <1>5, <1>6 DEF FamilyInv


(* The steps that end a process. *)
LEMMA DiesEnds ==
    ASSUME TypeInv, NEW p \in Procs, Dies(p), next_inst_id' \in 1 .. MAX_NFS,
           next_inst_id <= next_inst_id', UNCHANGED <<nf_info, parent_nf>>
    PROVE  EndsOf(p)
  <1>1. /\ GoneWith(p) \in [Threads -> PCs]
        /\ \A th \in Threads :
              GoneWith(p)[th] = IF th[1] = p THEN Remains(pc[th]) ELSE pc[th]
        BY GoneTypes
  <1>2. pc' = GoneWith(p)
        BY DEF Dies
  <1>3. \A th \in Threads : pc'[th] = IF th[1] = p THEN Remains(pc[th]) ELSE pc[th]
        BY <1>1, <1>2
  <1>4. \A th \in Threads : Remains(pc[th]) \in Over
                            /\ (Remains(pc[th]) = "orphan" => pc[th] = "asking")
        BY RemainsAre DEF Over
  <1>5. pc' \in [Threads -> PCs]
        BY <1>1, <1>2
  <1>. QED BY <1>3, <1>4, <1>5 DEF EndsOf, Dies, TypeInv, TypeOK

(* So does the end of the main NF in order. *)
LEMMA StopMainEnds ==
    ASSUME TypeInv, TypeInv', NEW p \in Procs, StopMain(p)
    PROVE  EndsOf(p)
  <1> DEFINE left == GoneWith(p)
  <1>1. /\ left \in [Threads -> PCs]
        /\ \A th \in Threads : left[th] = IF th[1] = p THEN Remains(pc[th]) ELSE pc[th]
        BY GoneTypes
  <1>2. pc' = [left EXCEPT ![Main(p)] = "stopped"]
        BY DEF StopMain
  <1>3. Main(p)[1] = p
        BY DEF Main
  <1> HIDE DEF left
  <1>4. \A th \in Threads : Remains(pc[th]) \in Over
                            /\ (Remains(pc[th]) = "orphan" => pc[th] = "asking")
        BY RemainsAre DEF Over
  <1>5. \A th \in Threads : pc'[th] = IF th = Main(p) THEN "stopped"
                                      ELSE IF th[1] = p THEN Remains(pc[th]) ELSE pc[th]
        BY <1>1, <1>2
  <1>6. /\ \A th \in Threads : th[1] # p => pc'[th] = pc[th]
        /\ \A th \in Threads : th[1] = p => pc'[th] \in Over
        /\ \A th \in Threads : pc'[th] = "orphan" => pc[th] \in {"asking", "orphan"}
        BY <1>3, <1>4, <1>5 DEF Over
  <1>7. next_inst_id' = next_inst_id /\ next_inst_id \in Int
        BY ProcessAssumption DEF StopMain, mgrVars, TypeInv, TypeOK
  <1>8. UNCHANGED <<inst, launcher, scan, waited, nf_info, parent_nf, late>>
        BY DEF StopMain, nfVars
  <1>9. /\ proc' = [proc EXCEPT ![p] = "ended"]
        /\ proc \in [Procs -> {"out", "up", "ended", "died"}]
        BY DEF StopMain, TypeInv, TypeOK
  <1>. QED BY <1>6, <1>7, <1>8, <1>9 DEF EndsOf, TypeInv, TypeOK

(* Ids and places of the exit scans are numbers. *)
LEMMA FamilyNumbers ==
    ASSUME FamilyInv
    PROVE  /\ \A th \in Threads : inst[th] \in Nat /\ scan[th] \in Nat
           /\ next_inst_id \in Nat \ {0}
  <1>1. inst \in [Threads -> Ids] /\ scan \in [Threads -> 0 .. MAX_NFS]
        BY DEF FamilyInv, TypeInv, TypeOK
  <1>2. \A id \in Ids : id \in Nat
        BY ProcessAssumption DEF Ids
  <1>3. next_inst_id \in Nat \ {0}
        BY ProcessAssumption DEF FamilyInv, TypeInv, TypeOK
  <1>. QED BY <1>1, <1>2, <1>3, ProcessAssumption

(* The answers of the master to a request for an id, and to a stop. *)
LEMMA FamilyGrant ==
    ASSUME FamilyInv, TypeInv', NoneAsks, NEW th \in Threads, Grant(th)
    PROVE  FamilyInv'
  <1>. USE ThreadParts
  <1> DEFINE id == ChosenId(th)
  <1>1. /\ \A t \in Threads : inst[t] \in Nat
        /\ next_inst_id \in Nat \ {0} /\ id = NextInstId
    <2>1. id = NextInstId
          BY DEF NoneAsks, ChosenId
    <2>. QED BY <2>1, FamilyNumbers
  <1>2. id \in Ids /\ id \in Nat /\ id < MAX_NFS
        BY ProcessAssumption DEF Grant, Grants, Ids
  <1>3. next_inst_id <= id /\ next_inst_id' = id + 1
    <2>1. TypeOK /\ next_inst_id \in 1 .. MAX_NFS
          BY DEF FamilyInv, TypeInv, TypeOK
    <2>2. next_inst_id' = Min({NextInstId + 1, MAX_NFS})
          BY DEF Grant, AdvanceIds, NoneAsks
    <2>. QED BY <1>1, <1>2, <2>1, <2>2, NextIdType, ProcessAssumption
  <1>4. /\ pc' = [pc EXCEPT ![th] = IF pc[th] = "asking" THEN "named" ELSE "gone"]
        /\ inst' = [inst EXCEPT ![th] = id] /\ nf_info' = [nf_info EXCEPT ![id] = th]
        /\ pc[th] \in {"asking", "orphan"}
        /\ UNCHANGED <<proc, launcher, scan, waited, late, parent_nf>>
        BY DEF Grant
  <1>5. /\ pc \in [Threads -> PCs] /\ inst \in [Threads -> Ids]
        /\ nf_info \in [Ids -> Threads \cup {NULL}]
        BY DEF FamilyInv, TypeInv, TypeOK
  <1> HIDE DEF id
  <1>6. /\ inst'[th] = id /\ id # 0 /\ \A t \in Threads : t # th => inst'[t] = inst[t]
        /\ \A t \in Threads : inst[t] < id
        BY <1>1, <1>2, <1>3, <1>4, <1>5 DEF FamilyInv, IdsGiven
  <1>7. /\ pc'[th] \in {"named", "gone"} /\ (pc'[th] = "named" => pc[th] = "asking")
        /\ \A t \in Threads : t # th => pc'[t] = pc[t]
        BY <1>4, <1>5
  <1>8. IdsGiven'
    <2>1. \A t \in Threads : inst'[t] < next_inst_id'
          BY <1>1, <1>2, <1>3, <1>6
    <2>2. \A t \in Threads : pc'[t] \in {"none", "asking", "orphan"} => inst'[t] = 0
          BY <1>6, <1>7 DEF FamilyInv, IdsGiven
    <2>3. \A a, b \in Threads : inst'[a] = inst'[b] /\ inst'[a] # 0 => a = b
          BY <1>1, <1>2, <1>6 DEF FamilyInv, IdsGiven
    <2>4. \A t \in Threads :
             pc'[t] \in Holding => inst'[t] # 0 /\ nf_info'[inst'[t]] = t
          BY <1>1, <1>2, <1>4, <1>5, <1>6, <1>7
          DEF FamilyInv, IdsGiven, Holding, Running
    <2>. QED BY <2>1, <2>2, <2>3, <2>4 DEF IdsGiven
  <1>9. Launched'
        BY <1>4, <1>7 DEF FamilyInv, Launched, Active, Beginning, Running
  <1>10. ScanBegins'
        BY <1>4, <1>7 DEF FamilyInv, ScanBegins, Beginning
  <1>11. LateInv'
        BY <1>4, <1>5, <1>7
        DEF FamilyInv, LateInv, Scanning, Active, Beginning, Running
  <1>12. KnowsParent'
    <2> SUFFICES ASSUME NEW t \in Threads, t[2] # 0, t \notin late, pc'[t] \in Active
                 PROVE  /\ launcher[t] \in Threads
                        /\ pc'[launcher[t]] \in Running /\ launcher[t] \notin late
                        /\ pc'[t] \in Holding => inst'[launcher[t]] < inst'[t]
                        /\ pc'[t] \in Running =>
                             parent_nf[inst'[t]] = inst'[launcher[t]]
        BY <1>4 DEF KnowsParent, InTime
    <2>1. pc[t] \in Active
          BY <1>4, <1>7 DEF Active, Beginning, Running
    <2>2. /\ launcher[t] \in Threads
          /\ pc[launcher[t]] \in Running /\ launcher[t] \notin late
          BY <2>1 DEF FamilyInv, KnowsParent, InTime
    <2>3. launcher[t] # th
          BY <1>4, <2>2 DEF Running
    <2>4. pc'[launcher[t]] \in Running /\ inst'[launcher[t]] = inst[launcher[t]]
          BY <1>6, <1>7, <2>2, <2>3
    <2>5. CASE t = th
          BY <1>6, <1>7, <2>2, <2>4, <2>5 DEF Running
    <2>6. CASE t # th
          BY <1>6, <1>7, <2>1, <2>2, <2>4, <2>6 DEF FamilyInv, KnowsParent, InTime
    <2>. QED BY <2>5, <2>6
  <1>13. Awaited'
        BY <1>4, <1>6, <1>7 DEF FamilyInv, Awaited, InTime, Running
  <1>. QED BY <1>8, <1>9, <1>10, <1>11, <1>12, <1>13 DEF FamilyInv

(* A refusal ends the process, or only the request if that is over. *)
LEMMA FamilyRefuse ==
    ASSUME FamilyInv, TypeInv', NoneAsks, NEW th \in Threads, Refuse(th)
    PROVE  FamilyInv'
  <1>1. next_inst_id \in Int /\ next_inst_id' \in Int /\ next_inst_id' >= next_inst_id
        BY NextIdType, ProcessAssumption
        DEF FamilyInv, TypeInv, TypeOK, Refuse, AdvanceIds
  <1>2. CASE pc[th] = "asking"
    <2>1. th[1] \in Procs /\ Dies(th[1])
          BY <1>2, ThreadParts DEF Refuse
    <2>2. EndsOf(th[1])
          BY <1>1, <2>1, DiesEnds DEF Refuse, nfVars, FamilyInv, TypeInv, TypeOK
    <2>. QED BY <2>1, <2>2, FamilyEnds
  <1>3. CASE pc[th] # "asking"
    <2>1. /\ pc' = [pc EXCEPT ![th] = "gone"] /\ pc[th] = "orphan"
          /\ UNCHANGED <<proc, inst, launcher, scan, waited, late, nf_info, parent_nf>>
          BY <1>3 DEF Refuse, nfVars
    <2>2. pc \in [Threads -> PCs] /\ \A t \in Threads : inst[t] \in Nat
          BY FamilyNumbers DEF FamilyInv, TypeInv, TypeOK
    <2>3. /\ pc'[th] = "gone" /\ pc[th] = "orphan"
          /\ \A t \in Threads : t # th => pc'[t] = pc[t]
          BY <2>1, <2>2
    <2>4. IdsGiven'
          BY <1>1, <2>1, <2>2, <2>3 DEF FamilyInv, IdsGiven, Holding, Running
    <2>5. Launched'
          BY <2>1, <2>3 DEF FamilyInv, Launched, Active, Beginning, Running
    <2>6. ScanBegins'
          BY <2>1, <2>3 DEF FamilyInv, ScanBegins, Beginning
    <2>7. LateInv'
          BY <2>1, <2>3 DEF FamilyInv, LateInv, Scanning, Active, Beginning, Running
    <2>8. KnowsParent'
          BY <2>1, <2>3
          DEF FamilyInv, KnowsParent, InTime, Active, Beginning, Running, Holding
    <2>9. Awaited'
          BY <2>1, <2>3 DEF FamilyInv, Awaited, InTime, Running
    <2>. QED BY <2>4, <2>5, <2>6, <2>7, <2>8, <2>9 DEF FamilyInv
  <1>. QED BY <1>2, <1>3

(* The slot that a stop frees is of no NF that holds its id. *)
LEMMA FamilyNfStop ==
    ASSUME FamilyInv, TypeInv', NEW th \in Threads, NfStop(th)
    PROVE  FamilyInv'
  <1>1. /\ pc' = [pc EXCEPT ![th] = "finished"] /\ pc[th] = "stopped"
        /\ nf_info' = [nf_info EXCEPT ![inst[th]] = NULL]
        /\ UNCHANGED <<proc, inst, launcher, scan, waited, late, parent_nf, next_inst_id>>
        BY DEF NfStop, mgrVars
  <1>2. /\ pc \in [Threads -> PCs] /\ inst \in [Threads -> Ids]
        /\ nf_info \in [Ids -> Threads \cup {NULL}]
        BY DEF FamilyInv, TypeInv, TypeOK
  <1>3. /\ pc'[th] = "finished" /\ pc[th] = "stopped"
        /\ \A t \in Threads : t # th => pc'[t] = pc[t]
        BY <1>1, <1>2
  <1>4. \A id \in Ids : id # inst[th] => nf_info'[id] = nf_info[id]
        BY <1>1, <1>2
  <1>5. IdsGiven'
    <2>1. \A t \in Threads : pc'[t] \in Holding => inst[t] # 0 /\ nf_info'[inst[t]] = t
      <3> SUFFICES ASSUME NEW t \in Threads, pc'[t] \in Holding
                   PROVE  inst[t] # 0 /\ nf_info'[inst[t]] = t
          OBVIOUS
      <3>1. t # th /\ pc[t] \in Holding
            BY <1>3 DEF Holding, Running
      <3>2. inst[t] # 0 /\ nf_info[inst[t]] = t /\ inst[t] # inst[th]
            BY <3>1 DEF FamilyInv, IdsGiven
      <3>. QED BY <1>2, <1>4, <3>2
    <2>2. \A t \in Threads : pc'[t] \in {"none", "asking", "orphan"} => inst[t] = 0
          BY <1>3 DEF FamilyInv, IdsGiven
    <2>. QED BY <1>1, <2>1, <2>2 DEF FamilyInv, IdsGiven
  <1>6. Launched'
        BY <1>1, <1>3 DEF FamilyInv, Launched, Active, Beginning, Running
  <1>7. ScanBegins'
        BY <1>1, <1>3 DEF FamilyInv, ScanBegins, Beginning
  <1>8. LateInv'
        BY <1>1, <1>3 DEF FamilyInv, LateInv, Scanning, Active, Beginning, Running
  <1>9. KnowsParent'
        BY <1>1, <1>3
        DEF FamilyInv, KnowsParent, InTime, Active, Beginning, Running, Holding
  <1>10. Awaited'
        BY <1>1, <1>3 DEF FamilyInv, Awaited, InTime, Running
  <1>. QED BY <1>5, <1>6, <1>7, <1>8, <1>9, <1>10 DEF FamilyInv

(* The steps by which an NF comes to its main loop. *)
LEMMA FamilyStartMain ==
    ASSUME FamilyInv, TypeInv', NEW p \in Procs, StartMain(p)
    PROVE  FamilyInv'
  <1>1. Main(p) \in Threads /\ Main(p)[1] = p /\ Main(p)[2] = 0
        BY ProcessAssumption DEF Main, Threads, Cores
  <1>2. /\ pc' = [pc EXCEPT ![Main(p)] = "asking"] /\ proc[p] = "out"
        /\ proc' = [proc EXCEPT ![p] = "up"]
        /\ UNCHANGED <<inst, launcher, scan, waited, late, nf_info, parent_nf,
                       next_inst_id>>
        BY DEF StartMain, nfVars, mgrVars
  <1>3. /\ pc \in [Threads -> PCs] /\ late \subseteq Threads
        /\ proc \in [Procs -> {"out", "up", "ended", "died"}]
        BY DEF FamilyInv, TypeInv, TypeOK
  <1>4. /\ pc'[Main(p)] = "asking"
        /\ \A t \in Threads : t # Main(p) => pc'[t] = pc[t]
        BY <1>1, <1>2, <1>3
  <1>5. \A t \in Threads : t[1] = p => pc[t] = "none"
        BY <1>2 DEF FamilyInv, Launched
  <1>6. IdsGiven'
        BY <1>1, <1>2, <1>4, <1>5 DEF FamilyInv, IdsGiven, Holding, Running
  <1>7. Launched'
        BY <1>1, <1>2, <1>3, <1>4, <1>5, ThreadParts DEF FamilyInv, Launched
  <1>8. ScanBegins'
        BY <1>1, <1>2, <1>4, <1>5 DEF FamilyInv, ScanBegins, Beginning
  <1>9. LateInv'
    <2>1. \A t \in Threads : pc'[t] \in {"scan", "stopped", "finished"}
                             <=> pc[t] \in {"scan", "stopped", "finished"}
          BY <1>1, <1>4, <1>5
    <2>2. \A q \in Procs : Scanning(q)' <=> Scanning(q)
          BY <2>1 DEF Scanning
    <2>3. Main(p) \notin late
          BY <1>1, <1>5 DEF FamilyInv, LateInv
    <2>4. ~Scanning(p)
          BY <1>5 DEF Scanning
    <2>5. \A th \in late : /\ pc'[th] # "none"
                           /\ pc'[th] \in Active => Scanning(th[1])
          BY <1>3, <1>4, <2>3 DEF FamilyInv, LateInv
    <2>6. \A th \in Threads : pc'[th] \in Beginning /\ Scanning(th[1]) => th \in late
          BY <1>1, <1>4, <2>4 DEF FamilyInv, LateInv
    <2>7. \A th \in Threads : Scanning(th[1])' <=> Scanning(th[1])
          BY <2>2, ThreadParts
    <2>. QED BY <1>2, <1>3, <2>5, <2>6, <2>7 DEF LateInv
  <1>10. KnowsParent'
    <2>1. \A t \in Threads : pc[t] \in Running => t # Main(p)
          BY <1>1, <1>5 DEF Running
    <2>. QED BY <1>1, <1>2, <1>4, <2>1
            DEF FamilyInv, KnowsParent, InTime, Active, Beginning, Running, Holding
  <1>11. Awaited'
        BY <1>1, <1>2, <1>4 DEF FamilyInv, Awaited, InTime, Running
  <1>. QED BY <1>6, <1>7, <1>8, <1>9, <1>10, <1>11 DEF FamilyInv

(* A slot of an NF that holds its id is written by itself alone. *)
LEMMA OwnSlot ==
    ASSUME FamilyInv, NEW th \in Threads, pc[th] \in Holding, NEW value \in Ids,
           parent_nf' = [parent_nf EXCEPT ![inst[th]] = value]
    PROVE  /\ parent_nf'[inst[th]] = value
           /\ \A t \in Threads : t # th => parent_nf'[inst[t]] = parent_nf[inst[t]]
  <1>1. inst[th] # 0 /\ inst \in [Threads -> Ids] /\ parent_nf \in [Ids -> Ids]
        BY DEF FamilyInv, IdsGiven, TypeInv, TypeOK
  <1>2. \A t \in Threads : t # th => inst[t] # inst[th]
        BY <1>1 DEF FamilyInv, IdsGiven
  <1>. QED BY <1>1, <1>2

(* An NF that has its id clears its parent and is or becomes a child. *)
LEMMA FamilyProceed ==
    ASSUME FamilyInv, TypeInv', NEW th \in Threads, Proceed(th)
    PROVE  FamilyInv'
  <1>1. /\ pc' = [pc EXCEPT ![th] = IF launcher[th] = NULL THEN "loop" ELSE "child"]
        /\ pc[th] = "named" /\ parent_nf' = [parent_nf EXCEPT ![inst[th]] = 0]
        /\ UNCHANGED <<proc, inst, launcher, scan, waited, late, nf_info, next_inst_id>>
        BY DEF Proceed, mgrVars
  <1>2. pc \in [Threads -> PCs] /\ 0 \in Ids /\ pc[th] \in Holding
        BY <1>1, ProcessAssumption DEF FamilyInv, TypeInv, TypeOK, Ids, Holding
  <1>3. /\ pc'[th] = IF launcher[th] = NULL THEN "loop" ELSE "child"
        /\ \A t \in Threads : t # th => pc'[t] = pc[t]
        BY <1>1, <1>2
  <1>4. \A t \in Threads : t # th => parent_nf'[inst[t]] = parent_nf[inst[t]]
        BY <1>1, <1>2, OwnSlot
  <1>5. InTime(th) => pc'[th] = "child"
        BY <1>1, <1>3 DEF FamilyInv, Launched, InTime, Active, Beginning
  <1>6. IdsGiven'
        BY <1>1, <1>3 DEF FamilyInv, IdsGiven, Holding, Running
  <1>7. Launched'
        BY <1>1, <1>3 DEF FamilyInv, Launched, Active, Beginning, Running
  <1>8. ScanBegins'
        BY <1>1, <1>3 DEF FamilyInv, ScanBegins, Beginning
  <1>9. LateInv'
        BY <1>1, <1>3 DEF FamilyInv, LateInv, Scanning, Active, Beginning, Running
  <1>10. KnowsParent'
    <2>1. \A t \in Threads : InTime(t) /\ pc'[t] \in Active =>
             /\ pc[t] \in Active
             /\ pc'[t] \in Holding => pc[t] \in Holding
             /\ pc'[t] \in Running => pc[t] \in Running /\ t # th
          BY <1>1, <1>3, <1>5 DEF Active, Beginning, Running, Holding
    <2>2. \A t \in Threads : pc[t] \in Running => pc'[t] \in Running
          BY <1>1, <1>3 DEF Running
    <2>. QED BY <1>1, <1>4, <2>1, <2>2 DEF FamilyInv, KnowsParent, InTime
  <1>11. Awaited'
        BY <1>1, <1>3, <1>5 DEF FamilyInv, Awaited, InTime, Running
  <1>. QED BY <1>6, <1>7, <1>8, <1>9, <1>10, <1>11 DEF FamilyInv

(* A child that begins to run does so before its parent is at the exit scan. *)
LEMMA FamilySetParent ==
    ASSUME FamilyInv, TypeInv', NEW th \in Threads, SetParent(th)
    PROVE  FamilyInv'
  <1>1. /\ pc' = [pc EXCEPT ![th] = "loop"] /\ pc[th] = "child"
        /\ parent_nf' = [parent_nf EXCEPT ![inst[th]] = inst[launcher[th]]]
        /\ UNCHANGED <<proc, inst, launcher, scan, waited, late, nf_info, next_inst_id>>
        BY DEF SetParent, mgrVars
  <1>2. launcher[th] \in Threads
        BY <1>1 DEF FamilyInv, TypeInv, TypeOK, Parented
  <1>3. pc \in [Threads -> PCs] /\ inst[launcher[th]] \in Ids /\ pc[th] \in Holding
        BY <1>1, <1>2 DEF FamilyInv, TypeInv, TypeOK, Holding
  <1>4. /\ pc'[th] = "loop"
        /\ \A t \in Threads : t # th => pc'[t] = pc[t]
        BY <1>1, <1>3
  <1>5. /\ parent_nf'[inst[th]] = inst[launcher[th]]
        /\ \A t \in Threads : t # th => parent_nf'[inst[t]] = parent_nf[inst[t]]
        BY <1>1, <1>3, OwnSlot
  <1>6. IdsGiven'
        BY <1>1, <1>4 DEF FamilyInv, IdsGiven, Holding, Running
  <1>7. Launched'
        BY <1>1, <1>4 DEF FamilyInv, Launched, Active, Beginning, Running
  <1>8. ScanBegins'
        BY <1>1, <1>4 DEF FamilyInv, ScanBegins, Beginning
  <1>9. LateInv'
        BY <1>1, <1>4 DEF FamilyInv, LateInv, Scanning, Active, Beginning, Running
  <1>10. KnowsParent'
    <2>1. \A t \in Threads : pc'[t] \in Active =>
             /\ pc[t] \in Active
             /\ pc'[t] \in Holding => pc[t] \in Holding
             /\ pc'[t] \in Running => pc[t] \in Running \/ t = th
          BY <1>1, <1>4 DEF Active, Beginning, Running, Holding
    <2>2. \A t \in Threads : pc[t] \in Running => pc'[t] \in Running
          BY <1>1, <1>4 DEF Running
    <2>. QED BY <1>1, <1>5, <2>1, <2>2 DEF FamilyInv, KnowsParent, InTime
  <1>11. Awaited'
    <2>1. InTime(th) => pc[launcher[th]] # "scan"
      <3> SUFFICES ASSUME InTime(th), pc[launcher[th]] = "scan" PROVE FALSE
          OBVIOUS
      <3>1. launcher[th][1] = th[1]
            BY <1>2, NullIsNoThread DEF FamilyInv, Launched
      <3>2. Scanning(th[1])
            BY <1>2, <3>1 DEF Scanning
      <3>. QED BY <1>1, <3>2 DEF FamilyInv, LateInv, InTime, Beginning
    <2>. QED BY <1>1, <1>4, <2>1 DEF FamilyInv, Awaited, InTime, Running
  <1>. QED BY <1>6, <1>7, <1>8, <1>9, <1>10, <1>11 DEF FamilyInv

(* The test of keep_running, with which an exit scan begins. *)
LEMMA FamilyLoopTest ==
    ASSUME FamilyInv, TypeInv', NEW th \in Threads, LoopTest(th)
    PROVE  FamilyInv'
  <1>1. /\ pc' = [pc EXCEPT ![th] = IF keep_running[th[1]] THEN "inner" ELSE "scan"]
        /\ pc[th] = "loop"
        /\ late' = IF keep_running[th[1]] THEN late ELSE late \cup Starting(th[1])
        /\ UNCHANGED <<proc, inst, launcher, scan, waited, nf_info, parent_nf,
                       next_inst_id>>
        BY DEF LoopTest, nfVars, mgrVars
  <1>2. pc \in [Threads -> PCs]
        BY DEF FamilyInv, TypeInv, TypeOK
  <1>3. /\ pc'[th] = IF keep_running[th[1]] THEN "inner" ELSE "scan"
        /\ \A t \in Threads : t # th => pc'[t] = pc[t]
        BY <1>1, <1>2
  <1>4. \A t \in Threads : /\ pc'[t] \in Active <=> pc[t] \in Active
                           /\ pc'[t] \in Running <=> pc[t] \in Running
                           /\ pc'[t] \in Holding <=> pc[t] \in Holding
                           /\ pc'[t] \in Beginning <=> pc[t] \in Beginning
        BY <1>1, <1>3 DEF Active, Beginning, Running, Holding
  <1>5. \A t \in Threads : t \in late' => t \in late \/ pc[t] \in Beginning
        BY <1>1 DEF Starting
  <1>6. IdsGiven'
        BY <1>1, <1>3, <1>4 DEF FamilyInv, IdsGiven
  <1>7. Launched'
        BY <1>1, <1>3, <1>4 DEF FamilyInv, Launched
  <1>8. ScanBegins'
        BY <1>1, <1>3, <1>4 DEF FamilyInv, ScanBegins
  <1>9. LateInv'
    <2>1. CASE keep_running[th[1]]
          BY <1>1, <1>3, <1>4, <2>1 DEF FamilyInv, LateInv, Scanning
    <2>2. CASE ~keep_running[th[1]]
      <3>1. pc'[th] = "scan" /\ late' = late \cup Starting(th[1])
            BY <1>1, <1>3, <2>2
      <3>2. Scanning(th[1])'
            BY <3>1 DEF Scanning
      <3>3. \A q \in Procs : q # th[1] => (Scanning(q)' <=> Scanning(q))
            BY <1>3 DEF Scanning
      <3>4. \A t \in Threads : pc'[t] \in Beginning /\ Scanning(t[1])' => t \in late'
            BY <1>4, <3>1, <3>3, ThreadParts DEF FamilyInv, LateInv, Starting
      <3>5. \A t \in Threads : Scanning(t[1]) => Scanning(t[1])'
            BY <3>2, <3>3, ThreadParts
      <3>6. \A t \in late : pc'[t] # "none" /\ (pc'[t] \in Active => Scanning(t[1])')
            BY <1>1, <1>3, <1>4, <3>5 DEF FamilyInv, LateInv, TypeInv, TypeOK
      <3>7. \A t \in Starting(th[1]) :
               pc'[t] # "none" /\ (pc'[t] \in Active => Scanning(t[1])')
            BY <1>3, <1>4, <3>2 DEF Starting, Beginning
      <3>. QED BY <3>1, <3>4, <3>6, <3>7 DEF LateInv
    <2>. QED BY <2>1, <2>2
  <1>10. KnowsParent'
    <2> SUFFICES ASSUME NEW t \in Threads, t[2] # 0, t \notin late', pc'[t] \in Active
                 PROVE  /\ launcher[t] \in Threads
                        /\ pc'[launcher[t]] \in Running /\ launcher[t] \notin late'
                        /\ pc'[t] \in Holding => inst[launcher[t]] < inst[t]
                        /\ pc'[t] \in Running =>
                             parent_nf[inst[t]] = inst[launcher[t]]
        BY <1>1 DEF KnowsParent, InTime
    <2>1. t \notin late /\ pc[t] \in Active
          BY <1>1, <1>4
    <2>2. /\ launcher[t] \in Threads
          /\ pc[launcher[t]] \in Running /\ launcher[t] \notin late
          /\ pc[t] \in Holding => inst[launcher[t]] < inst[t]
          /\ pc[t] \in Running => parent_nf[inst[t]] = inst[launcher[t]]
          BY <2>1 DEF FamilyInv, KnowsParent, InTime
    <2>3. launcher[t] \notin late'
          BY <1>5, <2>2 DEF Beginning, Running
    <2>. QED BY <1>4, <2>2, <2>3
  <1>11. Awaited'
    <2> SUFFICES ASSUME NEW a \in Threads, NEW c \in Threads, pc'[a] = "scan",
                        c[2] # 0, c \notin late', pc'[c] \in Running, launcher[c] = a
                 PROVE  inst[c] > scan[a] \/ (inst[c] = scan[a] /\ ~waited[a])
        BY <1>1 DEF Awaited, InTime
    <2>1. CASE a = th
      <3>1. scan[th] = 0 /\ ~waited[th]
            BY <1>1 DEF FamilyInv, ScanBegins
      <3>. QED BY <2>1, <3>1, FamilyNumbers
    <2>2. CASE a # th
          BY <1>1, <1>3, <1>4, <2>2 DEF FamilyInv, Awaited, InTime
    <2>. QED BY <2>1, <2>2
  <1>. QED BY <1>6, <1>7, <1>8, <1>9, <1>10, <1>11 DEF FamilyInv

(* A pass of a blocked NF leads back to that test. *)
LEMMA FamilyBlockedPass ==
    ASSUME FamilyInv, TypeInv', NEW th \in Threads, BlockedPass(th)
    PROVE  FamilyInv'
  <1>1. /\ pc' = [pc EXCEPT ![th] = "loop"] /\ pc[th] = "inner"
        /\ UNCHANGED <<proc, inst, launcher, scan, waited, late, nf_info, parent_nf,
                       next_inst_id>>
        BY DEF BlockedPass, nfVars, mgrVars
  <1>2. pc \in [Threads -> PCs]
        BY DEF FamilyInv, TypeInv, TypeOK
  <1>3. /\ pc'[th] = "loop"
        /\ \A t \in Threads : t # th => pc'[t] = pc[t]
        BY <1>1, <1>2
  <1>4. \A t \in Threads : /\ pc'[t] \in Active <=> pc[t] \in Active
                           /\ pc'[t] \in Running <=> pc[t] \in Running
                           /\ pc'[t] \in Holding <=> pc[t] \in Holding
                           /\ pc'[t] \in Beginning <=> pc[t] \in Beginning
        BY <1>1, <1>3 DEF Active, Beginning, Running, Holding
  <1>5. IdsGiven' /\ Launched' /\ ScanBegins'
        BY <1>1, <1>3, <1>4 DEF FamilyInv, IdsGiven, Launched, ScanBegins
  <1>6. LateInv'
        BY <1>1, <1>3, <1>4 DEF FamilyInv, LateInv, Scanning
  <1>7. KnowsParent'
        BY <1>1, <1>3, <1>4 DEF FamilyInv, KnowsParent, InTime
  <1>8. Awaited'
        BY <1>1, <1>3, <1>4 DEF FamilyInv, Awaited, InTime
  <1>. QED BY <1>5, <1>6, <1>7, <1>8 DEF FamilyInv

-----------------------------------------------------------------------------
(* The exit scan does not pass a child in time: its slot names this NF. *)
LEMMA FamilyWait ==
    ASSUME FamilyInv, TypeInv', NEW th \in Threads, WaitChild(th) \/ WaitOther(th)
    PROVE  FamilyInv'
  <1>1. /\ UNCHANGED <<proc, pc, inst, launcher, late, nf_info, parent_nf, next_inst_id>>
        /\ pc[th] = "scan" /\ scan[th] < MAX_NFS
        BY DEF WaitChild, WaitOther, nfVars, mgrVars
  <1>2. waited \in [Threads -> BOOLEAN] /\ scan \in [Threads -> 0 .. MAX_NFS]
        BY DEF FamilyInv, TypeInv, TypeOK
  <1>3. \A t \in Threads : t # th => waited'[t] = waited[t] /\ scan'[t] = scan[t]
        BY <1>2 DEF WaitChild, WaitOther
  <1>4. IdsGiven' /\ Launched'
        BY <1>1 DEF FamilyInv, IdsGiven, Launched
  <1>5. ScanBegins'
        BY <1>1, <1>3 DEF FamilyInv, ScanBegins, Beginning
  <1>6. LateInv' /\ KnowsParent'
        BY <1>1 DEF FamilyInv, LateInv, Scanning, KnowsParent, InTime
  <1>7. Awaited'
    <2> SUFFICES ASSUME NEW a \in Threads, NEW c \in Threads, pc[a] = "scan",
                        InTime(c), pc[c] \in Running, launcher[c] = a
                 PROVE  inst[c] > scan'[a] \/ (inst[c] = scan'[a] /\ ~waited'[a])
        BY <1>1 DEF Awaited, InTime
    <2>1. inst[c] > scan[a] \/ (inst[c] = scan[a] /\ ~waited[a])
          BY DEF FamilyInv, Awaited
    <2>2. CASE a # th
          BY <1>3, <2>1, <2>2
    <2>3. CASE a = th /\ WaitChild(th)
      <3>1. /\ nf_info[inst[c]] = c /\ parent_nf[inst[c]] = inst[th]
            BY <2>3 DEF FamilyInv, IdsGiven, KnowsParent, Active, Holding
      <3>2. IsChild(th, inst[c])
            BY <3>1, NullIsNoThread DEF IsChild
      <3>3. inst[c] # scan[th] /\ scan'[th] = scan[th]
            BY <2>3, <3>2 DEF WaitChild
      <3>. QED BY <2>1, <2>3, <3>3
    <2>4. CASE a = th /\ WaitOther(th)
      <3>1. waited[th] /\ scan'[th] = scan[th] + 1 /\ ~waited'[th]
            BY <1>2, <2>4 DEF WaitOther
      <3>2. inst[c] > scan[th]
            BY <2>1, <2>4, <3>1
      <3>. QED BY <2>4, <3>1, <3>2, FamilyNumbers
    <2>. QED BY <2>2, <2>3, <2>4
  <1>. QED BY <1>4, <1>5, <1>6, <1>7 DEF FamilyInv

(* When it has passed them all, no child in time is left. *)
LEMMA ScanEndsAlone ==
    ASSUME FamilyInv, NEW th \in Threads, pc[th] = "scan", scan[th] = MAX_NFS,
           NEW c \in Threads, InTime(c), pc[c] \in Active
    PROVE  launcher[c] # th
  <1> SUFFICES ASSUME launcher[c] = th PROVE FALSE
      OBVIOUS
  <1>1. CASE pc[c] \in Running
    <2>1. inst[c] >= MAX_NFS
          BY <1>1, FamilyNumbers, ProcessAssumption DEF FamilyInv, Awaited
    <2>2. inst[c] \in Ids
          BY DEF FamilyInv, TypeInv, TypeOK
    <2>. QED BY <2>1, <2>2, ProcessAssumption DEF Ids
  <1>2. CASE pc[c] \in Beginning
    <2>1. th[1] = c[1]
          BY NullIsNoThread DEF FamilyInv, Launched
    <2>2. Scanning(c[1])
          BY <2>1 DEF Scanning
    <2>. QED BY <1>2, <2>2 DEF FamilyInv, LateInv, InTime
  <1>. QED BY <1>1, <1>2 DEF Active

(* A child that ends leaves no child in time behind. *)
LEMMA FamilyStopChild ==
    ASSUME FamilyInv, TypeInv', NEW th \in Threads, StopChild(th)
    PROVE  FamilyInv'
  <1>1. /\ pc' = [pc EXCEPT ![th] = "stopped"] /\ pc[th] = "scan"
        /\ scan[th] = MAX_NFS
        /\ UNCHANGED <<proc, inst, launcher, scan, waited, late, nf_info, parent_nf,
                       next_inst_id>>
        BY DEF StopChild, nfVars, mgrVars
  <1>2. pc \in [Threads -> PCs]
        BY DEF FamilyInv, TypeInv, TypeOK
  <1>3. /\ pc'[th] = "stopped"
        /\ \A t \in Threads : t # th => pc'[t] = pc[t]
        BY <1>1, <1>2
  <1>4. IdsGiven'
        BY <1>1, <1>3 DEF FamilyInv, IdsGiven, Holding, Running
  <1>5. Launched'
        BY <1>1, <1>3 DEF FamilyInv, Launched, Active, Beginning, Running
  <1>6. ScanBegins'
        BY <1>1, <1>3 DEF FamilyInv, ScanBegins, Beginning
  <1>7. LateInv'
        BY <1>1, <1>3 DEF FamilyInv, LateInv, Scanning, Active, Beginning, Running
  <1>8. KnowsParent'
    <2>1. \A t \in Threads : InTime(t) /\ pc'[t] \in Active =>
             pc[t] \in Active /\ launcher[t] # th /\ t # th
          BY <1>1, <1>3, ScanEndsAlone DEF Active, Beginning, Running
    <2>. QED BY <1>1, <1>3, <2>1 DEF FamilyInv, KnowsParent, InTime
  <1>9. Awaited'
        BY <1>1, <1>3 DEF FamilyInv, Awaited, InTime, Running
  <1>. QED BY <1>4, <1>5, <1>6, <1>7, <1>8, <1>9 DEF FamilyInv

-----------------------------------------------------------------------------
(* The children that a SCALE_UP message launches: threads of the process that
   have not run yet, and never its main one. *)
LEMMA LaunchedAre ==
    ASSUME TypeInv, NEW th \in Threads, NEW num \in 1 .. CHILD_LCORES
    PROVE  \A c \in Launchable(th, num) :
              c \in Threads /\ c[1] = th[1] /\ c[2] # 0 /\ pc[c] = "none"
  <1>1. CHILD_LCORES \in Nat /\ CHILD_LCORES > 0
        BY ProcessAssumption
  <1>2. th[2] \in Nat
        BY ThreadParts, ProcessAssumption DEF Cores
  <1>3. Min({num, CHILD_LCORES}) \in Nat
    <2>1. {num, CHILD_LCORES} \in SUBSET Nat /\ {num, CHILD_LCORES} # {}
          BY <1>1
    <2>2. Min({num, CHILD_LCORES}) \in {num, CHILD_LCORES}
          BY <2>1, LeastNat
    <2>. QED BY <1>1, <2>2
  <1>4. \A k \in 1 .. Min({num, CHILD_LCORES}) : Successor(th[2], k) # 0
    <2> SUFFICES ASSUME NEW k \in 1 .. Min({num, CHILD_LCORES})
                 PROVE  Successor(th[2], k) # 0
        OBVIOUS
    <2>1. th[2] - 1 + k \in Int
          BY <1>2, <1>3
    <2>2. (th[2] - 1 + k) % CHILD_LCORES \in 0 .. CHILD_LCORES - 1
          BY <1>1, <2>1
    <2>. QED BY <1>1, <2>2 DEF Successor
  <1>5. \A c \in NextCores(th[2], num) : c # 0
        BY <1>4 DEF NextCores
  <1>6. \A c \in {<<th[1], c>> : c \in NextCores(th[2], num)} : c[1] = th[1] /\ c[2] # 0
        BY <1>5
  <1>. QED BY <1>6 DEF Launchable

(* The children of a SCALE_UP are in time unless an exit scan goes on. *)
LEMMA FamilyScale ==
    ASSUME FamilyInv, TypeInv', NEW th \in Threads, ScaleNfs(th)
    PROVE  FamilyInv'
  <1> DEFINE children == Launchable(th, up_q[inst[th]])
  <1>1. \A c \in children : c \in Threads /\ c[1] = th[1] /\ c[2] # 0 /\ pc[c] = "none"
    <2>1. up_q[inst[th]] \in 1 .. CHILD_LCORES
          BY ProcessAssumption DEF ScaleNfs, FamilyInv, TypeInv, TypeOK
    <2>. QED BY <2>1, LaunchedAre DEF FamilyInv
  <1>2. /\ pc' = [t \in Threads |->
                    IF t \in children THEN "asking"
                    ELSE IF t = th /\ bk_flag[inst[th]] = 2 THEN "loop" ELSE pc[t]]
        /\ launcher' = [t \in Threads |-> IF t \in children THEN th ELSE launcher[t]]
        /\ late' = IF Scanning(th[1]) THEN late \cup children ELSE late
        /\ pc[th] = "inner"
        /\ UNCHANGED <<proc, inst, scan, waited, nf_info, parent_nf, next_inst_id>>
        BY DEF ScaleNfs, mgrVars
  <1> HIDE DEF children
  <1>3. /\ \A t \in children : pc'[t] = "asking" /\ launcher'[t] = th
        /\ \A t \in Threads : t \notin children /\ t # th => pc'[t] = pc[t]
        /\ \A t \in Threads : t \notin children => launcher'[t] = launcher[t]
        /\ th \notin children /\ pc'[th] \in {"loop", "inner"}
        BY <1>1, <1>2
  <1>4. \A t \in Threads \ children :
              /\ pc'[t] \in Active <=> pc[t] \in Active
              /\ pc'[t] \in Running <=> pc[t] \in Running
              /\ pc'[t] \in Holding <=> pc[t] \in Holding
              /\ pc'[t] \in Beginning <=> pc[t] \in Beginning
              /\ pc'[t] = "none" <=> pc[t] = "none"
              /\ pc'[t] = "scan" <=> pc[t] = "scan"
        BY <1>2, <1>3 DEF Active, Beginning, Running, Holding
  <1>5. \A t \in children : /\ pc'[t] \in Beginning /\ pc'[t] \notin Holding
                            /\ pc'[t] \notin Running
        BY <1>3 DEF Beginning, Running, Holding
  <1>6. \A q \in Procs : Scanning(q)' <=> Scanning(q)
    <2>1. \A t \in Threads : pc'[t] \in {"scan", "stopped", "finished"}
                             <=> pc[t] \in {"scan", "stopped", "finished"}
          BY <1>1, <1>2, <1>3
    <2>. QED BY <2>1 DEF Scanning
  <1>7. late \subseteq Threads /\ \A t \in late : t \notin children
        BY <1>1 DEF FamilyInv, LateInv, TypeInv, TypeOK
  <1>8. IdsGiven'
    <2>1. \A t \in Threads : pc'[t] \in Holding => t \notin children /\ pc[t] \in Holding
          BY <1>4, <1>5
    <2>2. \A t \in Threads : pc'[t] \in {"none", "asking", "orphan"} =>
             pc[t] \in {"none", "asking", "orphan"}
          BY <1>1, <1>3
    <2>. QED BY <1>2, <2>1, <2>2 DEF FamilyInv, IdsGiven
  <1>9. Launched'
    <2> SUFFICES ASSUME NEW t \in Threads
                 PROVE  /\ t[2] = 0 => launcher'[t] = NULL
                        /\ launcher'[t] # NULL => launcher'[t][1] = t[1]
                        /\ t[2] # 0 /\ pc'[t] \in Active => launcher'[t] # NULL
                        /\ proc[t[1]] = "out" => pc'[t] = "none"
        BY <1>2 DEF Launched
    <2>1. CASE t \in children
      <3>1. proc[th[1]] # "out"
            BY <1>2 DEF FamilyInv, Launched
      <3>. QED BY <1>1, <1>3, <2>1, <3>1, NullIsNoThread
    <2>2. CASE t \notin children
          BY <1>3, <1>4, <2>2 DEF FamilyInv, Launched
    <2>. QED BY <2>1, <2>2
  <1>10. ScanBegins'
    <2>1. \A t \in Threads : pc'[t] \in Beginning \cup {"none", "loop", "inner"} =>
             pc[t] \in Beginning \cup {"none", "loop", "inner"}
          BY <1>1, <1>2, <1>3
    <2>. QED BY <1>2, <2>1 DEF FamilyInv, ScanBegins
  <1>11. LateInv'
    <2>0. \A t \in Threads : Scanning(t[1])' <=> Scanning(t[1])
          BY <1>6, ThreadParts
    <2>1. \A t \in late : pc'[t] # "none" /\ (pc'[t] \in Active => Scanning(t[1])')
          BY <1>4, <1>7, <2>0 DEF FamilyInv, LateInv
    <2>2. Scanning(th[1]) => \A t \in children :
             pc'[t] # "none" /\ (pc'[t] \in Active => Scanning(t[1])')
          BY <1>1, <1>3, <2>0
    <2>3. \A t \in Threads \ children :
             pc'[t] \in Beginning /\ Scanning(t[1])' => t \in late
          BY <1>4, <2>0 DEF FamilyInv, LateInv
    <2>4. \A t \in children : Scanning(t[1])' => t \in late'
          BY <1>1, <1>2, <2>0
    <2>. QED BY <1>2, <2>1, <2>2, <2>3, <2>4 DEF LateInv
  <1>12. KnowsParent'
    <2> SUFFICES ASSUME NEW t \in Threads, t[2] # 0, t \notin late', pc'[t] \in Active
                 PROVE  /\ launcher'[t] \in Threads
                        /\ pc'[launcher'[t]] \in Running /\ launcher'[t] \notin late'
                        /\ pc'[t] \in Holding => inst[launcher'[t]] < inst[t]
                        /\ pc'[t] \in Running =>
                             parent_nf[inst[t]] = inst[launcher'[t]]
        BY <1>2 DEF KnowsParent, InTime
    <2>1. CASE t \in children
      <3>1. late' = late /\ ~Scanning(th[1])
            BY <1>2, <2>1
      <3>2. th \notin late
            BY <1>2, <3>1 DEF FamilyInv, LateInv, Active, Running
      <3>. QED BY <1>3, <1>5, <2>1, <3>1, <3>2 DEF Running
    <2>2. CASE t \notin children
      <3>1. /\ launcher[t] \in Threads
            /\ pc[launcher[t]] \in Running /\ launcher[t] \notin late
            /\ pc[t] \in Holding => inst[launcher[t]] < inst[t]
            /\ pc[t] \in Running => parent_nf[inst[t]] = inst[launcher[t]]
            BY <1>2, <1>4, <2>2 DEF FamilyInv, KnowsParent, InTime
      <3>2. launcher[t] \notin children /\ launcher'[t] = launcher[t]
            BY <1>1, <1>3, <2>2, <3>1 DEF Running
      <3>3. launcher[t] \notin late'
            BY <1>2, <3>1, <3>2
      <3>. QED BY <1>4, <2>2, <3>1, <3>2, <3>3
    <2>. QED BY <2>1, <2>2
  <1>13. Awaited'
    <2>1. \A c \in Threads : InTime(c)' /\ pc'[c] \in Running =>
             /\ InTime(c) /\ pc[c] \in Running /\ launcher'[c] = launcher[c]
          BY <1>2, <1>3, <1>4, <1>5 DEF InTime
    <2>2. \A t \in Threads : pc'[t] = "scan" => pc[t] = "scan"
          BY <1>3, <1>4
    <2>. QED BY <1>2, <2>1, <2>2 DEF FamilyInv, Awaited
  <1>. QED BY <1>8, <1>9, <1>10, <1>11, <1>12, <1>13 DEF FamilyInv

(* The family of the threads stays in order, as long as no process asks for an
   id of its own. *)
LEMMA FamilyStep ==
    ASSUME FamilyInv, NoneAsks, [Next]_vars
    PROVE  FamilyInv'
  <1>0. TypeInv /\ TypeInv'
        BY TypeStep DEF FamilyInv
  <1>1. ASSUME NEW th \in Threads, Grant(th) \/ Refuse(th) \/ NfStop(th)
        PROVE  FamilyInv'
        BY <1>0, <1>1, FamilyGrant, FamilyRefuse, FamilyNfStop
  <1>2. ASSUME NEW th \in Threads, Proceed(th) \/ SetParent(th) \/ LoopTest(th)
                                   \/ BlockedPass(th) \/ ScaleNfs(th)
        PROVE  FamilyInv'
        BY <1>0, <1>2, FamilyProceed, FamilySetParent, FamilyLoopTest,
           FamilyBlockedPass, FamilyScale
  <1>3. ASSUME NEW th \in Threads, HandleStop(th) PROVE FamilyInv'
        BY <1>0, <1>3, FamilyUntouched DEF HandleStop, familyVars, mgrVars
  <1>4. ASSUME NEW th \in Threads, PowerInitFailed(th) PROVE FamilyInv'
    <2>1. th[1] \in Procs /\ Dies(th[1])
          BY <1>4, ThreadParts DEF PowerInitFailed
    <2>2. next_inst_id' = next_inst_id /\ next_inst_id \in 1 .. MAX_NFS
          BY <1>0, <1>4 DEF PowerInitFailed, mgrVars, TypeInv, TypeOK
    <2>3. EndsOf(th[1])
          BY <1>0, <1>4, <2>1, <2>2, DiesEnds, ProcessAssumption
          DEF PowerInitFailed, nfVars
    <2>. QED BY <1>0, <2>1, <2>3, FamilyEnds
  <1>5. ASSUME NEW th \in Threads, WaitChild(th) \/ WaitOther(th) \/ StopChild(th)
        PROVE  FamilyInv'
        BY <1>0, <1>5, FamilyWait, FamilyStopChild
  <1>6. ASSUME NEW p \in Procs, StartMain(p) PROVE FamilyInv'
        BY <1>0, <1>6, FamilyStartMain
  <1>7. ASSUME NEW p \in Procs, StopMain(p) PROVE FamilyInv'
        BY <1>0, <1>7, StopMainEnds, FamilyEnds
  <1>8. ASSUME NEW p \in Procs, PowerExitFailed(p) PROVE FamilyInv'
    <2>1. next_inst_id' = next_inst_id /\ next_inst_id \in 1 .. MAX_NFS
          BY <1>0, <1>8 DEF PowerExitFailed, mgrVars, TypeInv, TypeOK
    <2>2. EndsOf(p)
          BY <1>0, <1>8, <2>1, DiesEnds, ProcessAssumption DEF PowerExitFailed, nfVars
    <2>. QED BY <1>0, <2>2, FamilyEnds
  <1>9. ASSUME NEW p \in Procs, Signal(p) PROVE FamilyInv'
        BY <1>0, <1>9, FamilyUntouched DEF Signal, familyVars, mgrVars
  <1>10. ASSUME NEW id \in Ids, NEW num \in 1 .. CHILD_LCORES, ScaleUp(id, num)
         PROVE  FamilyInv'
        BY <1>0, <1>10, FamilyUntouched DEF ScaleUp, familyVars, procVars
  <1>11. CASE Shutdown \/ MasterDone
        BY <1>0, <1>11, FamilyUntouched
        DEF Shutdown, MasterDone, familyVars, procVars, nfVars
  <1>12. CASE UNCHANGED vars
        BY <1>0, <1>12, FamilyUntouched DEF vars, familyVars, procVars, nfVars, mgrVars
  <1>. QED BY <1>1, <1>2, <1>3, <1>4, <1>5, <1>6, <1>7, <1>8, <1>9, <1>10, <1>11, <1>12
          DEF Next, MasterStep, ThreadStep, MainStep

-----------------------------------------------------------------------------
(* The main NF alone ends a process in order. *)
LEMMA EndsByStopMain ==
    ASSUME TypeInv, [Next]_vars, NEW p \in Procs, proc[p] = "up", proc'[p] = "ended"
    PROVE  StopMain(p)
  <1>0. proc \in [Procs -> {"out", "up", "ended", "died"}]
        BY DEF TypeInv, TypeOK
  <1>1. \A q \in Procs : ~Dies(q)
        BY <1>0 DEF Dies
  <1>2. proc' # proc
        BY <1>0
  <1>3. \A q \in Procs : ~StartMain(q) /\ ~Signal(q) /\ ~PowerExitFailed(q)
        BY <1>0, <1>1, <1>2 DEF StartMain, Signal, PowerExitFailed
  <1>4. \A th \in Threads : ~Grant(th) /\ ~Refuse(th) /\ ~NfStop(th)
        BY <1>1, <1>2, ThreadParts DEF Grant, Refuse, NfStop
  <1>5. \A th \in Threads : ~ThreadStep(th)
        BY <1>1, <1>2, ThreadParts
        DEF ThreadStep, Proceed, SetParent, LoopTest, HandleStop, BlockedPass, ScaleNfs,
            PowerInitFailed, WaitChild, WaitOther, StopChild
  <1>6. PICK q \in Procs : StopMain(q)
        BY <1>2, <1>3, <1>4, <1>5
        DEF Next, MasterStep, MainStep, ScaleUp, Shutdown, MasterDone, procVars, vars
  <1>7. q = p
        BY <1>0, <1>6 DEF StopMain
  <1>. QED BY <1>6, <1>7

(* If a child in time ran when the main NF ends, then so would its parent, with
   a lower id; of those that run, the one with the least id is a child of the
   main NF, whose exit scan waits for it. *)
LEMMA LastIsAlone ==
    ASSUME FamilyInv, NEW p \in Procs, StopMain(p),
           NEW th \in Threads, th[1] = p, th # Main(p), pc[th] \in Running
    PROVE  th \in late
  <1> DEFINE left == {t \in Threads : t[1] = p /\ InTime(t) /\ pc[t] \in Running}
             numbers == {inst[t] : t \in left}
  <1>1. \A t \in Threads : t[1] = p => (t[2] = 0 <=> t = Main(p))
        BY DEF Threads, Main
  <1> SUFFICES ASSUME th \notin late PROVE FALSE
      OBVIOUS
  <1>2. th \in left
        BY <1>1 DEF InTime
  <1>3. numbers \in SUBSET Nat /\ numbers # {}
        BY <1>2, FamilyNumbers
  <1>4. PICK m \in numbers : \A n \in numbers : m <= n
        BY <1>3, FirstNat
  <1>5. PICK c \in left : m = inst[c]
        OBVIOUS
  <1> DEFINE l == launcher[c]
  <1>6. /\ l \in Threads /\ pc[l] \in Running /\ l \notin late /\ inst[l] < inst[c]
        BY <1>5 DEF FamilyInv, KnowsParent, Active, Holding
  <1>7. l[1] = p
        BY <1>5, <1>6, NullIsNoThread DEF FamilyInv, Launched
  <1>8. l \notin left
    <2>1. inst[l] \in Nat /\ inst[c] \in Nat
          BY <1>5, <1>6, FamilyNumbers
    <2>. QED BY <1>4, <1>5, <1>6, <2>1
  <1>9. l = Main(p)
        BY <1>1, <1>6, <1>7, <1>8 DEF InTime
  <1>10. pc[l] = "scan" /\ scan[l] = MAX_NFS
        BY <1>9 DEF StopMain
  <1>. QED BY <1>5, <1>6, <1>10, ScanEndsAlone DEF Active

(* No main NF ends its process while a child runs that has not begun during an
   exit scan, as long as the processes take the ids that the manager gives
   (d2sc_nfrt.c:370-373). *)
THEOREM MainEndsLast ==
    ASSUME \A p \in Procs : Asked[p] = NO_ID
    PROVE  Spec => ParentLast
  <1> DEFINE Alone == \A p \in Procs : proc[p] = "up" /\ proc'[p] = "ended" =>
                         \A th \in Threads :
                            th[1] = p /\ th # Main(p) /\ pc[th] \in Running => th \in late
  <1>0. NoneAsks
        BY DEF NoneAsks
  <1>1. Init => FamilyInv
        BY FamilyInit
  <1>2. FamilyInv /\ [Next]_vars => FamilyInv'
        BY <1>0, FamilyStep
  <1>3. FamilyInv /\ [Next]_vars => [Alone]_vars
        BY EndsByStopMain, LastIsAlone DEF FamilyInv
  <1>. QED BY <1>1, <1>2, <1>3, PTL DEF Spec, ParentLast
=============================================================================
