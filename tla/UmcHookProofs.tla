---------------------------- MODULE UmcHookProofs ----------------------------
(***************************************************************************)
(* Proofs about UmcHook, for any number of threads, addresses, handles and *)
(* sizes, any set of exports that are thunks, any faults, and whatever     *)
(* locking a std::mutex again does.                                        *)
(***************************************************************************)
EXTENDS UmcHook, LibraryFacts, TLAPS

(* The functions, written out. *)
LEMMA FunctionsAre ==
  /\ Len(Targets) = 7
  /\ Functions = {"cuMemAlloc_v2", "cuMemFree_v2", "cuMemAlloc", "cuMemFree",
                  "cuMemCreate", "cuMemMap", "cuMemAllocAsync"}
  /\ \A i \in 1 .. 7 : Targets[i] \in Functions
<1>1. Len(Targets) = 7
  BY DEF Targets
<1>2. 1 .. Len(Targets) = {1, 2, 3, 4, 5, 6, 7}
  BY <1>1
<1>3. Functions = {Targets[1], Targets[2], Targets[3], Targets[4], Targets[5], Targets[6],
                   Targets[7]}
  BY <1>2 DEF Functions
<1> QED
  BY <1>1, <1>3 DEF Targets

(* The function a hook shares a Real_ pointer with is one of the same kind. *)
LEMMA RealOfKind ==
  ASSUME NEW fn \in Functions
  PROVE  /\ RealOf(fn) \in Functions
         /\ fn \in AllocFns <=> RealOf(fn) \in AllocFns
         /\ fn \in FreeFns <=> RealOf(fn) \in FreeFns
         /\ fn \in {"cuMemCreate", "cuMemMap"} => RealOf(fn) = fn
  BY FunctionsAre DEF RealOf, AllocFns, FreeFns

(* There is a call for a thread to have been in last. *)
LEMMA AnyJobIsJob == AnyJob \in Job /\ AnyJob.fn \in AllocFns
<1>1. PICK s \in Sizes, a \in Addresses, h \in Handles : TRUE
  BY HookAssumption
<1>2. [fn |-> "cuMemAlloc", size |-> s, at |-> a, h |-> h] \in Job
  BY <1>1, FunctionsAre DEF Job
<1>3. \E j \in Job : j.fn \in AllocFns
  BY <1>2 DEF AllocFns
<1> QED
  BY <1>3 DEF AnyJob

-----------------------------------------------------------------------------
(* A call that begins leaves its thread in no address's way but, of a        *)
(* release, that of the address the client gave up.                          *)
LEMMA EnterEffect ==
  ASSUME TypeOK, NEW t \in Threads, NEW j \in Job, Enter(t, j)
  PROVE  /\ pc[t] = "idle" /\ pc'[t] \in {"hooked", "direct"}
         /\ job'[t] \in Job /\ job'[t].fn = RealOf(j.fn)
         /\ job'[t].at = j.at /\ job'[t].h = j.h /\ job'[t].size = j.size
         /\ \A u \in Threads \ {t} : pc'[u] = pc[u] /\ job'[u] = job[u]
         /\ pc' \in [Threads -> PCs] /\ job' \in [Threads -> Job]
<1>1. j.fn \in Functions /\ RealOf(j.fn) \in Functions
  BY RealOfKind DEF Job
<1>2. [j EXCEPT !.fn = RealOf(@)] \in Job
  BY <1>1 DEF Job
<1> QED
  BY <1>1, <1>2 DEF Enter, GoWith, TypeOK, PCs, Job

(* Types of what changes when a call returns. *)
TypesOfReturn ==
  /\ pc \in [Threads -> PCs] /\ job \in [Threads -> Job]
  /\ held \subseteq Addresses \cup Handles
  /\ missed \subseteq Addresses \cup Handles

LEMMA PCsAre == PCs = {"idle", "direct", "hooked", "track", "untrack", "release", "pend", "bind",
                       "rebind", "blocked"}
  BY DEF PCs

(* The place and the arguments keep their types when a call goes on. *)
LEMMA GoTypes ==
  ASSUME TypeOK, NEW t \in Threads, NEW l \in PCs, NEW j \in Job, GoWith(t, l, j)
  PROVE  pc' \in [Threads -> PCs] /\ job' \in [Threads -> Job]
  BY DEF GoWith, TypeOK

(* And when it returns with things of the driver. *)
LEMMA ReturnTypes ==
  ASSUME TypeOK, NEW t \in Threads, NEW S, S \subseteq Addresses \cup Handles, Return(t, S)
  PROVE  /\ pc' \in [Threads -> PCs] /\ job' \in [Threads -> Job]
         /\ held' \subseteq Addresses \cup Handles
<1>1. "idle" \in PCs /\ AnyJob \in Job
  BY AnyJobIsJob DEF PCs
<1>2. GoWith(t, "idle", AnyJob) /\ held' = held \cup S
  BY DEF Return
<1> QED
  BY <1>1, <1>2, GoTypes DEF TypeOK

(* What the driver has at an address changes there only.                     *)
LEMMA OccupyEffect ==
  ASSUME TypeOK, NEW q \in Addresses, NEW n \in Sizes \cup {0}, NEW m \in Sizes \cup {0},
         Occupy(q, n, m)
  PROVE  /\ memory'[q] = n /\ behind'[q] = m
         /\ \A p \in Addresses \ {q} : memory'[p] = memory[p] /\ behind'[p] = behind[p]
         /\ memory' \in [Addresses -> Sizes \cup {0}]
         /\ behind' \in [Addresses -> Sizes \cup {0}]
  BY DEF Occupy, TypeOK

-----------------------------------------------------------------------------
(* Types of what the installation changes. *)
LEMMA InstallationTypes ==
  ASSUME TypeOK, Installation
  PROVE  TypeOK'
<1> USE FunctionsAre DEF TypeOK, table, ledger, driver
<1>1. CASE InstallHooks
  BY <1>1 DEF Installation, InstallHooks, Installing
<1>2. CASE SkipTarget
  BY <1>2 DEF Installation, SkipTarget
<1>3. CASE PatchIatEntry
  <2>1. TargetFn \in Functions
    BY <1>3 DEF PatchIatEntry, TargetFn
  <2> QED
    BY <1>3, <2>1 DEF Installation, PatchIatEntry
<1>4. CASE StoreReal
  <2>1. TargetFn \in Functions
    BY <1>4 DEF StoreReal, TargetFn
  <2> QED
    BY <1>4, <2>1 DEF Installation, StoreReal
<1>5. CASE Activate
  BY <1>5 DEF Installation, Activate
<1>6. CASE UninstallHooks
  BY <1>6 DEF Installation, UninstallHooks
<1> QED
  BY <1>1, <1>2, <1>3, <1>4, <1>5, <1>6 DEF Installation

(* What a client asks for. *)
LEMMA RequestTypes ==
  /\ \A fn \in AllocFns \cup {"cuMemCreate"}, s \in Sizes :
        [AnyJob EXCEPT !.fn = fn, !.size = s] \in Job
  /\ \A fn \in FreeFns, p \in Ptrs : [AnyJob EXCEPT !.fn = fn, !.at = p] \in Job
  BY AnyJobIsJob, FunctionsAre DEF Job, AllocFns, FreeFns, Addresses

(* A step keeps the types. *)
LEMMA TypePreserved ==
  ASSUME IInv, [Next]_vars
  PROVE  TypeOK'
<1> USE HookAssumption, AnyJobIsJob DEF ledger, table, driver
<1>0. TypeOK
  BY DEF IInv
<1>1. CASE Installation
  BY <1>0, <1>1, InstallationTypes
<1>2. ASSUME NEW t \in Threads, CallAlloc(t) PROVE TypeOK'
  <2>1. PICK fn \in AllocFns \cup {"cuMemCreate"}, s \in Sizes :
               Enter(t, [AnyJob EXCEPT !.fn = fn, !.size = s])
    BY <1>2 DEF CallAlloc
  <2>2. pc' \in [Threads -> PCs] /\ job' \in [Threads -> Job]
    BY <1>0, <2>1, RequestTypes, EnterEffect
  <2> QED
    BY <1>0, <1>2, <2>2 DEF CallAlloc, TypeOK
<1>3. ASSUME NEW t \in Threads, CallFree(t) PROVE TypeOK'
  <2>1. PICK fn \in FreeFns, p \in Ptrs :
               /\ Enter(t, [AnyJob EXCEPT !.fn = fn, !.at = p])
               /\ held' = held \ {p}
    BY <1>3 DEF CallFree
  <2>2. pc' \in [Threads -> PCs] /\ job' \in [Threads -> Job]
    BY <1>0, <2>1, RequestTypes, EnterEffect
  <2> QED
    BY <1>0, <1>3, <2>1, <2>2 DEF CallFree, TypeOK
<1>4. ASSUME NEW t \in Threads, CallMap(t) PROVE TypeOK'
  <2>1. PICK h \in held \cap Handles, r \in Ranges, s \in Sizes :
               Enter(t, [fn |-> "cuMemMap", size |-> s, at |-> r, h |-> h])
    BY <1>4 DEF CallMap
  <2>2. [fn |-> "cuMemMap", size |-> s, at |-> r, h |-> h] \in Job
    BY FunctionsAre DEF Job, Addresses
  <2>3. pc' \in [Threads -> PCs] /\ job' \in [Threads -> Job]
    BY <1>0, <2>1, <2>2, EnterEffect
  <2> QED
    BY <1>0, <1>4, <2>3 DEF CallMap, TypeOK
<1>5. ASSUME NEW t \in Threads, Step(t) PROVE TypeOK'
  <2>0. /\ job[t] \in Job
        /\ job[t].size \in Sizes /\ job[t].at \in Addresses /\ job[t].h \in Handles
        /\ \A p \in Ptrs : p \in Addresses /\ [job[t] EXCEPT !.at = p] \in Job
        /\ \A h \in Handles : [job[t] EXCEPT !.h = h] \in Job
    BY <1>0 DEF TypeOK, Job, Addresses
  <2> USE <1>0, <2>0
  <2>1. ASSUME NEW p \in Ptrs, DriverAlloc(t, p) PROVE TypeOK'
    <3>1. /\ memory' \in [Addresses -> Sizes \cup {0}]
          /\ behind' \in [Addresses -> Sizes \cup {0}]
      BY <2>1, OccupyEffect DEF DriverAlloc
    <3>2. TypesOfReturn'
      BY <2>1, GoTypes, ReturnTypes, PCsAre DEF DriverAlloc, TypesOfReturn, TypeOK
    <3> QED
      BY <2>1, <3>1, <3>2 DEF DriverAlloc, TypeOK, TypesOfReturn
  <2>2. ASSUME NEW h \in Handles, DriverCreate(t, h) PROVE TypeOK'
    <3>1. made' \in [Handles -> Sizes \cup {0}]
      BY <2>2 DEF DriverCreate, TypeOK
    <3>2. TypesOfReturn'
      BY <2>2, GoTypes, ReturnTypes, PCsAre DEF DriverCreate, TypesOfReturn, TypeOK
    <3> QED
      BY <2>2, <3>1, <3>2 DEF DriverCreate, TypeOK, TypesOfReturn
  <2>3. CASE DriverMap(t)
    <3>1. made[job[t].h] \in Sizes \cup {0}
      BY DEF TypeOK
    <3>2. /\ memory' \in [Addresses -> Sizes \cup {0}]
          /\ behind' \in [Addresses -> Sizes \cup {0}]
      BY <2>3, <3>1, OccupyEffect DEF DriverMap
    <3>3. TypesOfReturn'
      BY <2>3, GoTypes, ReturnTypes, PCsAre DEF DriverMap, Goto, TypesOfReturn, TypeOK
    <3> QED
      BY <2>3, <3>2, <3>3 DEF DriverMap, TypeOK, TypesOfReturn
  <2>4. CASE DriverError(t)
    BY <2>4, ReturnTypes DEF DriverError, TypeOK, TypesOfReturn
  <2>5. CASE TrackAlloc(t)
    <3>1. allocs' \in [Addresses -> Sizes \cup {0}] /\ total' \in Int /\ peak' \in Int
      BY <2>5 DEF TrackAlloc, Record, TypeOK
    <3> QED
      BY <2>5, <3>1, ReturnTypes DEF TrackAlloc, TypeOK, TypesOfReturn
  <2>6. CASE PendCreate(t)
    <3>1. pending' \in [Handles -> Sizes \cup {0}]
      BY <2>6 DEF PendCreate, TypeOK
    <3> QED
      BY <2>6, <3>1, ReturnTypes DEF PendCreate, TypeOK, TypesOfReturn
  <2>7. CASE HookFree(t)
    <3>1. missed' \subseteq Addresses \cup Handles /\ TypesOfReturn'
      BY <2>7, GoTypes, PCsAre DEF HookFree, Goto, TypeOK, TypesOfReturn
    <3> QED
      BY <2>7, <3>1 DEF HookFree, TypeOK, TypesOfReturn
  <2>8. CASE TrackFree(t)
    <3>1. allocs' \in [Addresses -> Sizes \cup {0}] /\ total' \in Int
      BY <2>8 DEF TrackFree, TypeOK
    <3> QED
      BY <2>8, <3>1, GoTypes, PCsAre DEF TrackFree, Goto, TypeOK
  <2>9. CASE DriverFree(t)
    <3>1. /\ memory' \in [Addresses -> Sizes \cup {0}]
          /\ behind' \in [Addresses -> Sizes \cup {0}]
      BY <2>9, OccupyEffect DEF DriverFree
    <3>2. missed' \subseteq Addresses \cup Handles
      BY <2>9 DEF DriverFree, TypeOK
    <3> QED
      BY <2>9, <3>1, <3>2, ReturnTypes DEF DriverFree, TypeOK, TypesOfReturn
  <2>10. CASE DriverFreeError(t)
    <3>1. TypesOfReturn'
      BY <2>10, ReturnTypes DEF DriverFreeError, TypeOK, TypesOfReturn
    <3> QED
      BY <2>10, <3>1 DEF DriverFreeError, TypeOK, TypesOfReturn
  <2>11. CASE BindMap(t)
    BY <2>11, GoTypes, PCsAre DEF BindMap, Goto, TypeOK
  <2>12. CASE RelockBlocks(t)
    BY <2>12, GoTypes, PCsAre DEF RelockBlocks, Goto, TypeOK
  <2>13. CASE RelockThrows(t)
    <3>1. TypesOfReturn'
      BY <2>13, ReturnTypes DEF RelockThrows, TypeOK, TypesOfReturn
    <3> QED
      BY <2>13, <3>1 DEF RelockThrows, TypeOK, TypesOfReturn
  <2>14. CASE RelockProceeds(t)
    <3>1. MapSize(t) \in Sizes
      BY DEF MapSize, TypeOK
    <3>2. allocs' \in [Addresses -> Sizes \cup {0}] /\ total' \in Int /\ peak' \in Int
      BY <2>14, <3>1 DEF RelockProceeds, Record, TypeOK
    <3>3. pending' \in [Handles -> Sizes \cup {0}]
      BY <2>14 DEF RelockProceeds, TypeOK
    <3>4. TypesOfReturn'
      BY <2>14, ReturnTypes DEF RelockProceeds, TypeOK, TypesOfReturn
    <3> QED
      BY <2>14, <3>2, <3>3, <3>4 DEF RelockProceeds, TypeOK, TypesOfReturn
  <2>15. CASE Crash(t)
    BY <2>15 DEF Crash, TypeOK
  <2> QED
    BY <1>5, <2>1, <2>2, <2>3, <2>4, <2>5, <2>6, <2>7, <2>8, <2>9, <2>10, <2>11, <2>12, <2>13,
       <2>14, <2>15
    DEF Step
<1>6. ASSUME NEW p \in Addresses, ReleaseUnhooked(p) PROVE TypeOK'
  BY <1>0, <1>6, OccupyEffect DEF ReleaseUnhooked, TypeOK
<1>7. ASSUME NEW h \in Handles, ReleaseHandle(h) PROVE TypeOK'
  BY <1>0, <1>7 DEF ReleaseHandle, TypeOK
<1>8. CASE ResetPeak
  BY <1>0, <1>8 DEF ResetPeak, TypeOK
<1>9. CASE UNCHANGED vars
  BY <1>0, <1>9 DEF vars, TypeOK
<1> QED
  BY <1>1, <1>2, <1>3, <1>4, <1>5, <1>6, <1>7, <1>8, <1>9 DEF Next, Call, Halted

-----------------------------------------------------------------------------
(* Who is where in a call.                                                   *)

(* What a client's call changes of its thread: the call it makes is no       *)
(* mapping, or of a handle it has, and no release, or of memory it had.      *)
LEMMA CallEffect ==
  ASSUME IInv, NEW t \in Threads, Call(t)
  PROVE  /\ pc[t] = "idle" /\ pc'[t] \in {"hooked", "direct"}
         /\ \A u \in Threads \ {t} : pc'[u] = pc[u] /\ job'[u] = job[u]
         /\ \/ job'[t].fn \in AllocFns \cup {"cuMemCreate"} /\ held' = held
            \/ /\ job'[t].fn \in FreeFns
               /\ job'[t].at \in held \cap Ptrs /\ held' = held \ {job'[t].at}
            \/ /\ job'[t].fn = "cuMemMap" /\ held' = held
               /\ job'[t].h \in held \cap Handles /\ job'[t].at \in Ranges
         /\ UNCHANGED <<table, owner, ledger, memory, behind, made, missed, crashed>>
<1>0. TypeOK
  BY DEF IInv
<1>1. CASE CallAlloc(t)
  <2>1. PICK fn \in AllocFns \cup {"cuMemCreate"}, s \in Sizes :
               Enter(t, [AnyJob EXCEPT !.fn = fn, !.size = s])
    BY <1>1 DEF CallAlloc
  <2> DEFINE j == [AnyJob EXCEPT !.fn = fn, !.size = s]
  <2>2. j \in Job /\ j.fn = fn /\ fn \in Functions
    BY RequestTypes, AnyJobIsJob, FunctionsAre DEF Job, AllocFns
  <2>3. RealOf(fn) \in AllocFns \cup {"cuMemCreate"}
    BY <2>2, RealOfKind
  <2>4. Enter(t, j)
    BY <2>1
  <2> HIDE DEF j
  <2>5. /\ pc[t] = "idle" /\ pc'[t] \in {"hooked", "direct"}
        /\ job'[t].fn \in AllocFns \cup {"cuMemCreate"}
        /\ \A u \in Threads \ {t} : pc'[u] = pc[u] /\ job'[u] = job[u]
    BY <1>0, <2>2, <2>3, <2>4, EnterEffect
  <2> QED
    BY <1>1, <2>5 DEF CallAlloc, driver
<1>2. CASE CallFree(t)
  <2>1. PICK fn \in FreeFns, p \in held \cap Ptrs :
               /\ Enter(t, [AnyJob EXCEPT !.fn = fn, !.at = p])
               /\ held' = held \ {p}
    BY <1>2 DEF CallFree
  <2> DEFINE j == [AnyJob EXCEPT !.fn = fn, !.at = p]
  <2>2. j \in Job /\ j.fn = fn /\ j.at = p /\ fn \in Functions
    BY RequestTypes, AnyJobIsJob, FunctionsAre DEF Job, FreeFns
  <2>3. RealOf(fn) \in FreeFns
    BY <2>2, RealOfKind
  <2>4. Enter(t, j)
    BY <2>1
  <2> HIDE DEF j
  <2>5. /\ pc[t] = "idle" /\ pc'[t] \in {"hooked", "direct"}
        /\ job'[t].fn \in FreeFns /\ job'[t].at = p
        /\ \A u \in Threads \ {t} : pc'[u] = pc[u] /\ job'[u] = job[u]
    BY <1>0, <2>2, <2>3, <2>4, EnterEffect
  <2> QED
    BY <1>2, <2>1, <2>5 DEF CallFree, driver
<1>3. CASE CallMap(t)
  <2>1. PICK h \in held \cap Handles, r \in Ranges \ held, s \in Sizes :
               Enter(t, [fn |-> "cuMemMap", size |-> s, at |-> r, h |-> h])
    BY <1>3 DEF CallMap
  <2> DEFINE j == [fn |-> "cuMemMap", size |-> s, at |-> r, h |-> h]
  <2>2. j \in Job /\ j.fn = "cuMemMap" /\ j.h = h /\ j.at = r /\ j.fn \in Functions
    BY FunctionsAre DEF Job, Addresses
  <2>3. RealOf(j.fn) = "cuMemMap"
    BY <2>2, RealOfKind
  <2>4. Enter(t, j)
    BY <2>1
  <2> HIDE DEF j
  <2>5. /\ pc[t] = "idle" /\ pc'[t] \in {"hooked", "direct"}
        /\ job'[t].fn = "cuMemMap" /\ job'[t].h = h /\ job'[t].at = r
        /\ \A u \in Threads \ {t} : pc'[u] = pc[u] /\ job'[u] = job[u]
    BY <1>0, <2>2, <2>3, <2>4, EnterEffect
  <2> QED
    BY <1>3, <2>5 DEF CallMap, driver
<1> QED
  BY <1>1, <1>2, <1>3 DEF Call

(* The threads that take no part in a step. *)
Others(t) == \A u \in Threads \ {t} : pc'[u] = pc[u] /\ job'[u] = job[u]

(* What a return changes. *)
LEMMA ReturnEffect ==
  ASSUME TypeOK, NEW t \in Threads, NEW S, Return(t, S)
  PROVE  /\ pc'[t] = "idle" /\ job'[t].fn \in AllocFns /\ Others(t)
         /\ held' = held \cup S
  BY AnyJobIsJob DEF Return, GoWith, TypeOK, Others

(* What a step that goes on changes. *)
LEMMA GotoEffect ==
  ASSUME TypeOK, NEW t \in Threads, NEW l, Goto(t, l)
  PROVE  pc'[t] = l /\ job' = job /\ Others(t)
  BY DEF Goto, GoWith, TypeOK, Others

(* The parts of a job. *)
LEMMA JobParts ==
  ASSUME TypeOK, NEW t \in Threads
  PROVE  /\ job[t].at \in Addresses /\ job[t].h \in Handles /\ job[t].h \notin Addresses
         /\ job[t].size \in Sizes /\ job[t].size # 0
  BY HookAssumption DEF TypeOK, Job

(* What the three successes of the driver change. *)
LEMMA AllocEffect ==
  ASSUME TypeOK, NEW t \in Threads, NEW q \in Ptrs, DriverAlloc(t, q)
  PROVE  /\ q \in Addresses /\ pc[t] \in {"direct", "hooked"} /\ job[t].fn \in AllocFns
         /\ memory[q] = 0 /\ job[t].size # 0
         /\ memory'[q] = job[t].size /\ behind'[q] = job[t].size
         /\ \A p \in Addresses \ {q} : memory'[p] = memory[p] /\ behind'[p] = behind[p]
         /\ \/ /\ pc'[t] = "track" /\ job'[t].at = q /\ job'[t].size = job[t].size
               /\ job'[t].fn \in AllocFns
               /\ UNCHANGED <<held, missed>>
            \/ /\ pc'[t] = "idle" /\ job'[t].fn \in AllocFns
               /\ held' = held \cup {q} /\ missed' = missed \cup {q}
         /\ Others(t) /\ UNCHANGED <<owner, ledger, made>>
<1>1. /\ job[t] \in Job /\ job[t].size \in Sizes /\ job[t].size # 0 /\ q \in Addresses
      /\ Occupy(q, job[t].size, job[t].size)
  BY HookAssumption DEF TypeOK, Job, Addresses, DriverAlloc
<1>2. CASE Observed(t)
  <2>1. [job[t] EXCEPT !.at = q] \in Job
    BY <1>1 DEF Job
  <2>2. GoWith(t, "track", [job[t] EXCEPT !.at = q]) /\ UNCHANGED <<held, missed>>
    BY <1>2 DEF DriverAlloc
  <2> QED
    BY <1>1, <2>1, <2>2, OccupyEffect DEF DriverAlloc, InDriver, GoWith, TypeOK, Job, Others
<1>3. CASE ~Observed(t)
  BY <1>1, <1>3, OccupyEffect, ReturnEffect DEF DriverAlloc, InDriver
<1> QED
  BY <1>2, <1>3

LEMMA CreateEffect ==
  ASSUME TypeOK, NEW t \in Threads, NEW g \in Handles, DriverCreate(t, g)
  PROVE  /\ g \notin Addresses /\ pc[t] \in {"direct", "hooked"} /\ job[t].fn = "cuMemCreate"
         /\ made[g] = 0 /\ job[t].size # 0 /\ made'[g] = job[t].size
         /\ \A h \in Handles \ {g} : made'[h] = made[h]
         /\ \/ /\ pc'[t] = "pend" /\ job'[t].h = g /\ job'[t].size = job[t].size
               /\ job'[t].fn = "cuMemCreate"
               /\ UNCHANGED <<held, missed>>
            \/ /\ pc'[t] = "idle" /\ job'[t].fn \in AllocFns
               /\ held' = held \cup {g} /\ missed' = missed \cup {g}
         /\ Others(t) /\ UNCHANGED <<owner, ledger, memory, behind>>
<1>1. job[t] \in Job /\ job[t].size # 0 /\ g \notin Addresses
  BY HookAssumption DEF TypeOK, Job
<1>2. CASE Observed(t)
  BY <1>1, <1>2 DEF DriverCreate, InDriver, Return, GoWith, TypeOK, Job, Others
<1>3. CASE ~Observed(t)
  BY <1>1, <1>3, ReturnEffect DEF DriverCreate, InDriver, TypeOK
<1> QED
  BY <1>2, <1>3

LEMMA MapEffect ==
  ASSUME TypeOK, NEW t \in Threads, DriverMap(t)
  PROVE  /\ job[t].at \in Addresses /\ pc[t] \in {"direct", "hooked"} /\ job[t].fn = "cuMemMap"
         /\ memory[job[t].at] = 0 /\ job[t].size # 0 /\ job[t].size <= made[job[t].h]
         /\ memory'[job[t].at] = job[t].size /\ behind'[job[t].at] = made[job[t].h]
         /\ \A p \in Addresses \ {job[t].at} : memory'[p] = memory[p] /\ behind'[p] = behind[p]
         /\ \/ pc'[t] = "bind" /\ job'[t] = job[t] /\ UNCHANGED <<held, missed>>
            \/ /\ pc'[t] = "idle" /\ job'[t].fn \in AllocFns
               /\ held' = held \cup {job[t].at} /\ missed' = missed \cup {job[t].at}
         /\ Others(t) /\ UNCHANGED <<owner, ledger, made>>
<1>1. /\ job[t].at \in Addresses /\ job[t].size \in Sizes /\ job[t].size # 0
      /\ made[job[t].h] \in Sizes \cup {0}
      /\ Occupy(job[t].at, job[t].size, made[job[t].h])
  BY JobParts DEF TypeOK, DriverMap
<1>2. CASE Observed(t)
  BY <1>1, <1>2, GotoEffect, OccupyEffect DEF DriverMap, InDriver
<1>3. CASE ~Observed(t)
  BY <1>1, <1>3, OccupyEffect, ReturnEffect DEF DriverMap, InDriver
<1> QED
  BY <1>2, <1>3

(* What the critical sections that end a call change. *)
LEMMA TrackEffect ==
  ASSUME TypeOK, NEW t \in Threads, TrackAlloc(t)
  PROVE  /\ pc[t] = "track" /\ allocs'[job[t].at] = job[t].size
         /\ \A p \in Addresses \ {job[t].at} : allocs'[p] = allocs[p]
         /\ pc'[t] = "idle" /\ job'[t].fn \in AllocFns /\ held' = held \cup {job[t].at}
         /\ Others(t) /\ UNCHANGED <<owner, pending, memory, behind, made, missed>>
  BY ReturnEffect, JobParts DEF TrackAlloc, Record, TypeOK, driver

LEMMA PendEffect ==
  ASSUME TypeOK, NEW t \in Threads, PendCreate(t)
  PROVE  /\ pc[t] = "pend" /\ pending'[job[t].h] = job[t].size
         /\ \A h \in Handles \ {job[t].h} : pending'[h] = pending[h]
         /\ pc'[t] = "idle" /\ job'[t].fn \in AllocFns /\ held' = held \cup {job[t].h}
         /\ Others(t) /\ UNCHANGED <<owner, allocs, memory, behind, made, missed>>
  BY ReturnEffect, JobParts DEF PendCreate, TypeOK, driver

LEMMA ProceedEffect ==
  ASSUME TypeOK, NEW t \in Threads, RelockProceeds(t)
  PROVE  /\ pc[t] = "rebind" /\ allocs'[job[t].at] = MapSize(t)
         /\ \A p \in Addresses \ {job[t].at} : allocs'[p] = allocs[p]
         /\ pending'[job[t].h] = 0
         /\ \A h \in Handles \ {job[t].h} : pending'[h] = pending[h]
         /\ pc'[t] = "idle" /\ job'[t].fn \in AllocFns /\ held' = held \cup {job[t].at}
         /\ \/ pending[job[t].h] # 0 /\ job[t].h \in missed /\ missed' = missed \cup {job[t].at}
            \/ (pending[job[t].h] = 0 \/ job[t].h \notin missed) /\ missed' = missed
         /\ owner' = NoThread
         /\ Others(t) /\ UNCHANGED <<memory, behind, made>>
  BY ReturnEffect, JobParts DEF RelockProceeds, Record, TypeOK, driver

LEMMA ThrowEffect ==
  ASSUME TypeOK, NEW t \in Threads, RelockThrows(t)
  PROVE  /\ pc[t] = "rebind" /\ pc'[t] = "idle" /\ job'[t].fn \in AllocFns
         /\ held' = held \cup {job[t].at} /\ missed' = missed \cup {job[t].at}
         /\ owner' = NoThread
         /\ Others(t) /\ UNCHANGED <<ledger, memory, behind, made>>
  BY ReturnEffect DEF RelockThrows, driver

(* What the calls of a release change. *)
LEMMA StrikeEffect ==
  ASSUME TypeOK, NEW t \in Threads, TrackFree(t)
  PROVE  /\ pc[t] = "untrack" /\ allocs'[job[t].at] = 0
         /\ \A p \in Addresses \ {job[t].at} : allocs'[p] = allocs[p]
         /\ pc'[t] = "release" /\ job' = job
         /\ Others(t) /\ UNCHANGED <<owner, pending, memory, behind, made, held, missed>>
  BY GotoEffect, JobParts DEF TrackFree, TypeOK, driver

LEMMA FreeEffect ==
  ASSUME TypeOK, NEW t \in Threads, DriverFree(t)
  PROVE  /\ job[t].fn \in FreeFns /\ pc[t] \in {"release", "direct"}
         /\ memory'[job[t].at] = 0 /\ behind'[job[t].at] = 0
         /\ \A p \in Addresses \ {job[t].at} : memory'[p] = memory[p] /\ behind'[p] = behind[p]
         /\ pc'[t] = "idle" /\ job'[t].fn \in AllocFns /\ held' = held
         /\ \/ pc[t] = "direct" /\ missed' = missed \cup {job[t].at}
            \/ pc[t] = "release" /\ missed' = missed
         /\ Others(t) /\ UNCHANGED <<owner, ledger, made>>
<1>1. /\ job[t].fn \in FreeFns /\ pc[t] \in {"release", "direct"} /\ Return(t, {})
      /\ missed' = IF pc[t] = "direct" THEN missed \cup {job[t].at} ELSE missed
      /\ UNCHANGED <<owner, ledger, made>>
  BY DEF DriverFree, Releasing
<1>2. /\ memory'[job[t].at] = 0 /\ behind'[job[t].at] = 0
      /\ \A p \in Addresses \ {job[t].at} : memory'[p] = memory[p] /\ behind'[p] = behind[p]
  <2>1. job[t].at \in Addresses /\ Occupy(job[t].at, 0, 0)
    BY JobParts DEF DriverFree
  <2> QED
    BY <2>1, OccupyEffect
<1>3. pc'[t] = "idle" /\ job'[t].fn \in AllocFns /\ Others(t) /\ held' = held
  BY <1>1, ReturnEffect
<1> QED
  BY <1>1, <1>2, <1>3

LEMMA FreeErrorEffect ==
  ASSUME TypeOK, NEW t \in Threads, DriverFreeError(t)
  PROVE  /\ job[t].fn \in FreeFns /\ pc[t] \in {"release", "direct"}
         /\ pc'[t] = "idle" /\ job'[t].fn \in AllocFns
         /\ held' = held \cup {job[t].at} /\ missed' = missed \cup {job[t].at}
         /\ Others(t) /\ UNCHANGED <<owner, ledger, memory, behind, made>>
  BY ReturnEffect DEF DriverFreeError, Releasing, driver

(* An unhooked release changes what the driver has at its address.           *)
LEMMA UnhookedEffect ==
  ASSUME TypeOK, NEW q \in Addresses, ReleaseUnhooked(q)
  PROVE  /\ q \in held /\ held' = held \ {q} /\ missed' = missed \cup {q}
         /\ memory'[q] = 0 /\ behind'[q] = 0
         /\ \A p \in Addresses \ {q} : memory'[p] = memory[p] /\ behind'[p] = behind[p]
         /\ UNCHANGED <<owner, ledger, pc, job, made>>
  BY OccupyEffect DEF ReleaseUnhooked

-----------------------------------------------------------------------------
(* Only a thread that owns the mutex is inside Hook_cuMemMap. *)
LEMMA MutexPreserved ==
  ASSUME IInv, [Next]_vars
  PROVE  MutexSound'
<1> USE AnyJobIsJob, HookAssumption DEF IInv, ledger, table, driver
<1>1. CASE Installation
  BY <1>1 DEF Installation, MutexSound, TypeOK
<1>2. ASSUME NEW t \in Threads, Call(t) PROVE MutexSound'
  BY <1>2, CallEffect DEF MutexSound, TypeOK
<1>3. ASSUME NEW t \in Threads, Step(t) PROVE MutexSound'
  <2>1. ASSUME NEW q \in Ptrs, DriverAlloc(t, q) PROVE MutexSound'
    BY <2>1 DEF DriverAlloc, InDriver, Observed, Return, Goto, GoWith, MutexSound, TypeOK
  <2>2. ASSUME NEW g \in Handles, DriverCreate(t, g) PROVE MutexSound'
    BY <2>2 DEF DriverCreate, InDriver, Observed, Return, Goto, GoWith, MutexSound, TypeOK
  <2>3. CASE DriverMap(t)
    BY <2>3 DEF DriverMap, InDriver, Observed, Return, Goto, GoWith, MutexSound, TypeOK
  <2>4. CASE DriverError(t)
    BY <2>4 DEF DriverError, InDriver, Return, Goto, GoWith, MutexSound, TypeOK
  <2>5. CASE Crash(t)
    BY <2>5 DEF Crash, MutexSound, TypeOK
  <2>6. CASE TrackAlloc(t)
    BY <2>6 DEF TrackAlloc, Record, Return, Goto, GoWith, MutexSound, TypeOK
  <2>7. CASE PendCreate(t)
    BY <2>7 DEF PendCreate, Return, Goto, GoWith, MutexSound, TypeOK
  <2>8. CASE HookFree(t)
    BY <2>8 DEF HookFree, Return, Goto, GoWith, MutexSound, TypeOK
  <2>9. CASE TrackFree(t)
    BY <2>9 DEF TrackFree, Return, Goto, GoWith, MutexSound, TypeOK
  <2>10. CASE DriverFree(t)
    BY <2>10 DEF DriverFree, Releasing, Return, Goto, GoWith, MutexSound, TypeOK
  <2>11. CASE DriverFreeError(t)
    BY <2>11 DEF DriverFreeError, Releasing, Return, Goto, GoWith, MutexSound, TypeOK
  <2>12. CASE BindMap(t)
    BY <2>12 DEF BindMap, MayLock, Return, Goto, GoWith, MutexSound, TypeOK
  <2>13. CASE RelockProceeds(t)
    BY <2>13 DEF RelockProceeds, Record, MapSize, Return, Goto, GoWith, MutexSound, TypeOK
  <2>14. CASE RelockThrows(t)
    BY <2>14 DEF RelockThrows, Return, Goto, GoWith, MutexSound, TypeOK
  <2>15. CASE RelockBlocks(t)
    BY <2>15 DEF RelockBlocks, Return, Goto, GoWith, MutexSound, TypeOK
  <2> QED
    BY <1>3, <2>1, <2>2, <2>3, <2>4, <2>5, <2>6, <2>7, <2>8,
       <2>9, <2>10, <2>11, <2>12, <2>13, <2>14, <2>15
    DEF Step
<1>4. ASSUME NEW q \in Addresses, ReleaseUnhooked(q) PROVE MutexSound'
  BY <1>4 DEF ReleaseUnhooked, MutexSound, TypeOK
<1>5. ASSUME NEW g \in Handles, ReleaseHandle(g) PROVE MutexSound'
  BY <1>5 DEF ReleaseHandle, MutexSound, TypeOK
<1>6. CASE ResetPeak
  BY <1>6 DEF ResetPeak, MutexSound, TypeOK
<1>7. CASE UNCHANGED vars
  BY <1>7 DEF vars, MutexSound, TypeOK
<1> QED
  BY <1>1, <1>2, <1>3, <1>4, <1>5, <1>6, <1>7 DEF Next, Halted

(* Memory keeps one owner. *)
LEMMA OwnerPreserved ==
  ASSUME IInv, [Next]_vars, NEW p \in Addresses
  PROVE  OneOwner(p)'
<1> USE HookAssumption, FunctionsAre, JobParts DEF IInv, ledger, table, driver, AllocFns, FreeFns
<1>1. CASE Installation
  BY <1>1 DEF Installation, TypeOK, OneOwner, Owns, InDriver
<1>2. ASSUME NEW t \in Threads, Call(t) PROVE OneOwner(p)'
  BY <1>2, CallEffect DEF OneOwner, Owns, InDriver
<1>3. ASSUME NEW t \in Threads, Step(t) PROVE OneOwner(p)'
  <2>1. ASSUME NEW q \in Ptrs, DriverAlloc(t, q) PROVE OneOwner(p)'
    BY <2>1, AllocEffect DEF Others, OneOwner, Owns, InDriver
  <2>2. ASSUME NEW g \in Handles, DriverCreate(t, g) PROVE OneOwner(p)'
    BY <2>2, CreateEffect DEF Others, OneOwner, Owns, InDriver
  <2>3. CASE DriverMap(t)
    BY <2>3, MapEffect DEF Others, OneOwner, Owns, InDriver
  <2>4. CASE DriverError(t)
    BY <2>4, ReturnEffect DEF DriverError, Others, OneOwner, Owns, InDriver
  <2>5. CASE Crash(t)
    BY <2>5 DEF Crash, TypeOK, OneOwner, Owns, InDriver
  <2>6. CASE TrackAlloc(t)
    BY <2>6, TrackEffect DEF Others, OneOwner, Owns, InDriver
  <2>7. CASE PendCreate(t)
    BY <2>7, PendEffect DEF Others, OneOwner, Owns, InDriver
  <2>8. CASE HookFree(t)
    BY <2>8, GotoEffect DEF HookFree, Others, OneOwner, Owns, InDriver
  <2>9. CASE TrackFree(t)
    BY <2>9, StrikeEffect DEF Others, OneOwner, Owns, InDriver
  <2>10. CASE DriverFree(t)
    BY <2>10, FreeEffect DEF Others, OneOwner, Owns, InDriver
  <2>11. CASE DriverFreeError(t)
    BY <2>11, FreeErrorEffect DEF Others, OneOwner, Owns, InDriver
  <2>12. CASE BindMap(t)
    BY <2>12, GotoEffect DEF BindMap, MayLock, Others, OneOwner, Owns, InDriver
  <2>13. CASE RelockProceeds(t)
    BY <2>13, ProceedEffect DEF Others, OneOwner, Owns, InDriver
  <2>14. CASE RelockThrows(t)
    BY <2>14, ThrowEffect DEF Others, OneOwner, Owns, InDriver
  <2>15. CASE RelockBlocks(t)
    BY <2>15, GotoEffect DEF RelockBlocks, Others, OneOwner, Owns, InDriver
  <2> QED
    BY <1>3, <2>1, <2>2, <2>3, <2>4, <2>5, <2>6, <2>7, <2>8,
       <2>9, <2>10, <2>11, <2>12, <2>13, <2>14, <2>15
    DEF Step
<1>4. ASSUME NEW q \in Addresses, ReleaseUnhooked(q) PROVE OneOwner(p)'
  BY <1>4, UnhookedEffect DEF OneOwner, Owns, InDriver
<1>5. ASSUME NEW g \in Handles, ReleaseHandle(g) PROVE OneOwner(p)'
  BY <1>5 DEF ReleaseHandle, TypeOK, OneOwner, Owns, InDriver
<1>6. CASE ResetPeak
  BY <1>6 DEF ResetPeak, TypeOK, OneOwner, Owns, InDriver
<1>7. CASE UNCHANGED vars
  BY <1>7 DEF vars, TypeOK, OneOwner, Owns, InDriver
<1> QED
  BY <1>1, <1>2, <1>3, <1>4, <1>5, <1>6, <1>7 DEF Next, Halted

(* What the ledger says of an address stays true. *)
LEMMA EntryPreserved ==
  ASSUME IInv, [Next]_vars, NEW p \in Addresses
  PROVE  EntrySound(p)'
<1> USE HookAssumption, FunctionsAre, JobParts DEF IInv, ledger, table, driver, AllocFns, FreeFns
<1>1. CASE Installation
  BY <1>1 DEF Installation, TypeOK, EntrySound, Recorded, OneOwner, Owns, InDriver
<1>2. ASSUME NEW t \in Threads, Call(t) PROVE EntrySound(p)'
  BY <1>2, CallEffect DEF EntrySound, Recorded, OneOwner, Owns, InDriver
<1>3. ASSUME NEW t \in Threads, Step(t) PROVE EntrySound(p)'
  <2>1. ASSUME NEW q \in Ptrs, DriverAlloc(t, q) PROVE EntrySound(p)'
    BY <2>1, AllocEffect DEF Others, EntrySound, Recorded, OneOwner, Owns, InDriver
  <2>2. ASSUME NEW g \in Handles, DriverCreate(t, g) PROVE EntrySound(p)'
    BY <2>2, CreateEffect DEF Others, EntrySound, Recorded, OneOwner, Owns, InDriver
  <2>3. CASE DriverMap(t)
    BY <2>3, MapEffect DEF Others, EntrySound, Recorded, OneOwner, Owns, InDriver
  <2>4. CASE DriverError(t)
    BY <2>4, ReturnEffect DEF DriverError, Others, EntrySound, Recorded, OneOwner, Owns, InDriver
  <2>5. CASE Crash(t)
    BY <2>5 DEF Crash, TypeOK, EntrySound, Recorded, OneOwner, Owns, InDriver
  <2>6. CASE TrackAlloc(t)
    BY <2>6, TrackEffect DEF Others, EntrySound, Recorded, SizeSound, OneOwner, Owns, InDriver
  <2>7. CASE PendCreate(t)
    BY <2>7, PendEffect DEF Others, EntrySound, Recorded, OneOwner, Owns, InDriver
  <2>8. CASE HookFree(t)
    BY <2>8, GotoEffect DEF HookFree, Others, EntrySound, Recorded, OneOwner, Owns, InDriver
  <2>9. CASE TrackFree(t)
    BY <2>9, StrikeEffect DEF Others, EntrySound, Recorded, OneOwner, Owns, InDriver
  <2>10. CASE DriverFree(t)
    BY <2>10, FreeEffect DEF Others, EntrySound, Recorded, OneOwner, Owns, InDriver
  <2>11. CASE DriverFreeError(t)
    BY <2>11, FreeErrorEffect DEF Others, EntrySound, Recorded, OneOwner, Owns, InDriver
  <2>12. CASE BindMap(t)
    BY <2>12, GotoEffect
    DEF BindMap, MayLock, Others, EntrySound, Recorded, OneOwner, Owns, InDriver
  <2>13. CASE RelockProceeds(t)
    <3>1. /\ job[t].at \in Ranges
          /\ \/ MapSize(t) = memory[job[t].at]
             \/ MapSize(t) = behind[job[t].at]
             \/ pending[job[t].h] # 0 /\ job[t].h \in missed
      BY <2>13, ProceedEffect DEF MapSize, SizeSound, HandleSound
    <3> QED
      BY <2>13, <3>1, ProceedEffect DEF Others, EntrySound, Recorded, OneOwner, Owns, InDriver
  <2>14. CASE RelockThrows(t)
    BY <2>14, ThrowEffect DEF Others, EntrySound, Recorded, OneOwner, Owns, InDriver
  <2>15. CASE RelockBlocks(t)
    BY <2>15, GotoEffect DEF RelockBlocks, Others, EntrySound, Recorded, OneOwner, Owns, InDriver
  <2> QED
    BY <1>3, <2>1, <2>2, <2>3, <2>4, <2>5, <2>6, <2>7, <2>8,
       <2>9, <2>10, <2>11, <2>12, <2>13, <2>14, <2>15
    DEF Step
<1>4. ASSUME NEW q \in Addresses, ReleaseUnhooked(q) PROVE EntrySound(p)'
  BY <1>4, UnhookedEffect DEF EntrySound, Recorded, OneOwner, Owns, InDriver
<1>5. ASSUME NEW g \in Handles, ReleaseHandle(g) PROVE EntrySound(p)'
  BY <1>5 DEF ReleaseHandle, TypeOK, EntrySound, Recorded, OneOwner, Owns, InDriver
<1>6. CASE ResetPeak
  BY <1>6 DEF ResetPeak, TypeOK, EntrySound, Recorded, OneOwner, Owns, InDriver
<1>7. CASE UNCHANGED vars
  BY <1>7 DEF vars, TypeOK, EntrySound, Recorded, OneOwner, Owns, InDriver
<1> QED
  BY <1>1, <1>2, <1>3, <1>4, <1>5, <1>6, <1>7 DEF Next, Halted

(* No more is mapped than there is.                                          *)
LEMMA BackingPreserved ==
  ASSUME IInv, [Next]_vars, NEW p \in Addresses
  PROVE  BackedSound(p)'
<1>0. BackedSound(p) /\ \A n \in Sizes : n <= n
  <2>1. \A n \in Nat : n <= n
    OBVIOUS
  <2> QED
    BY <2>1, HookAssumption DEF IInv
<1> USE HookAssumption, JobParts DEF IInv, ledger, table, driver
<1>1. CASE UNCHANGED <<memory, behind>>
  BY <1>1 DEF BackedSound
<1>2. ASSUME NEW t \in Threads, Step(t) PROVE BackedSound(p)'
  <2>1. ASSUME NEW q \in Ptrs, DriverAlloc(t, q) PROVE BackedSound(p)'
    <3>1. job[t].size \in Sizes /\ job[t].size <= job[t].size
      BY <1>0, JobParts
    <3>2. \/ p = q /\ memory'[p] = job[t].size /\ behind'[p] = job[t].size
          \/ memory'[p] = memory[p] /\ behind'[p] = behind[p]
      BY <2>1, AllocEffect
    <3>3. CASE p = q /\ memory'[p] = job[t].size /\ behind'[p] = job[t].size
      BY <3>1, <3>3 DEF BackedSound
    <3> QED
      BY <1>0, <3>2, <3>3 DEF BackedSound
  <2>2. CASE DriverMap(t)
    BY <2>2, MapEffect DEF BackedSound
  <2>3. CASE DriverFree(t)
    BY <2>3, FreeEffect DEF BackedSound
  <2> QED
    BY <1>1, <1>2, <2>1, <2>2, <2>3
    DEF Step, DriverCreate, DriverError, Crash, TrackAlloc, PendCreate, HookFree, TrackFree,
        DriverFreeError, BindMap, RelockProceeds, RelockThrows, RelockBlocks
<1>3. ASSUME NEW q \in Addresses, ReleaseUnhooked(q) PROVE BackedSound(p)'
  BY <1>3, UnhookedEffect DEF BackedSound
<1>4. ASSUME NEW t \in Threads, Call(t) PROVE BackedSound(p)'
  BY <1>1, <1>4, CallEffect
<1> QED
  BY <1>1, <1>2, <1>3, <1>4 DEF Next, Installation, ReleaseHandle, ResetPeak, Halted, vars

(* The sizes that threads are about to record stay the driver's. *)
LEMMA SizePreserved ==
  ASSUME IInv, [Next]_vars, NEW v \in Threads
  PROVE  SizeSound(v)'
<1> USE HookAssumption, FunctionsAre, JobParts DEF IInv, ledger, table, driver, AllocFns, FreeFns
<1>1. CASE Installation
  BY <1>1 DEF Installation, TypeOK, SizeSound, OneOwner, HandleSound, Owns, InDriver
<1>2. ASSUME NEW t \in Threads, Call(t) PROVE SizeSound(v)'
  BY <1>2, CallEffect DEF SizeSound, OneOwner, HandleSound, Owns, InDriver
<1>3. ASSUME NEW t \in Threads, Step(t) PROVE SizeSound(v)'
  <2>1. ASSUME NEW q \in Ptrs, DriverAlloc(t, q) PROVE SizeSound(v)'
    BY <2>1, AllocEffect DEF Others, SizeSound, OneOwner, HandleSound, Owns, InDriver
  <2>2. ASSUME NEW g \in Handles, DriverCreate(t, g) PROVE SizeSound(v)'
    BY <2>2, CreateEffect
    DEF Others, SizeSound, OneOwner, HandleSound, Mapping, Owns, InDriver
  <2>3. CASE DriverMap(t)
    BY <2>3, MapEffect
    DEF Others, SizeSound, OneOwner, HandleSound, Mapping, Owns, InDriver
  <2>4. CASE DriverError(t)
    BY <2>4, ReturnEffect DEF DriverError, Others, SizeSound, OneOwner, HandleSound, Owns, InDriver
  <2>5. CASE Crash(t)
    BY <2>5 DEF Crash, TypeOK, SizeSound, OneOwner, HandleSound, Owns, InDriver
  <2>6. CASE TrackAlloc(t)
    BY <2>6, TrackEffect DEF Others, SizeSound, OneOwner, HandleSound, Owns, InDriver
  <2>7. CASE PendCreate(t)
    BY <2>7, PendEffect DEF Others, SizeSound, OneOwner, HandleSound, Owns, InDriver
  <2>8. CASE HookFree(t)
    BY <2>8, GotoEffect DEF HookFree, Others, SizeSound, OneOwner, HandleSound, Owns, InDriver
  <2>9. CASE TrackFree(t)
    BY <2>9, StrikeEffect DEF Others, SizeSound, OneOwner, HandleSound, Owns, InDriver
  <2>10. CASE DriverFree(t)
    BY <2>10, FreeEffect DEF Others, SizeSound, OneOwner, HandleSound, Owns, InDriver
  <2>11. CASE DriverFreeError(t)
    BY <2>11, FreeErrorEffect DEF Others, SizeSound, OneOwner, HandleSound, Owns, InDriver
  <2>12. CASE BindMap(t)
    BY <2>12, GotoEffect
    DEF BindMap, MayLock, Others, SizeSound, OneOwner, HandleSound, Owns, InDriver
  <2>13. CASE RelockProceeds(t)
    BY <2>13, ProceedEffect DEF Others, SizeSound, OneOwner, HandleSound, Owns, InDriver
  <2>14. CASE RelockThrows(t)
    BY <2>14, ThrowEffect DEF Others, SizeSound, OneOwner, HandleSound, Owns, InDriver
  <2>15. CASE RelockBlocks(t)
    BY <2>15, GotoEffect DEF RelockBlocks, Others, SizeSound, OneOwner, HandleSound, Owns, InDriver
  <2> QED
    BY <1>3, <2>1, <2>2, <2>3, <2>4, <2>5, <2>6, <2>7, <2>8,
       <2>9, <2>10, <2>11, <2>12, <2>13, <2>14, <2>15
    DEF Step
<1>4. ASSUME NEW q \in Addresses, ReleaseUnhooked(q) PROVE SizeSound(v)'
  BY <1>4, UnhookedEffect DEF SizeSound, OneOwner, HandleSound, Owns, InDriver
<1>5. ASSUME NEW g \in Handles, ReleaseHandle(g) PROVE SizeSound(v)'
  BY <1>5
  DEF ReleaseHandle, TypeOK, SizeSound, OneOwner, HandleSound, Mapping, Owns, InDriver
<1>6. CASE ResetPeak
  BY <1>6 DEF ResetPeak, TypeOK, SizeSound, OneOwner, HandleSound, Owns, InDriver
<1>7. CASE UNCHANGED vars
  BY <1>7 DEF vars, TypeOK, SizeSound, OneOwner, HandleSound, Owns, InDriver
<1> QED
  BY <1>1, <1>2, <1>3, <1>4, <1>5, <1>6, <1>7 DEF Next, Halted

(* Handles keep their sizes. *)
LEMMA HandlePreserved ==
  ASSUME IInv, [Next]_vars, NEW h \in Handles
  PROVE  HandleSound(h)'
<1> USE HookAssumption, FunctionsAre, JobParts DEF IInv, ledger, table, driver, AllocFns, FreeFns
<1>1. CASE Installation
  BY <1>1 DEF Installation, TypeOK, HandleSound, SizeSound, Mapping, InDriver
<1>2. ASSUME NEW t \in Threads, Call(t) PROVE HandleSound(h)'
  BY <1>2, CallEffect DEF HandleSound, SizeSound, Mapping, InDriver
<1>3. ASSUME NEW t \in Threads, Step(t) PROVE HandleSound(h)'
  <2>1. ASSUME NEW q \in Ptrs, DriverAlloc(t, q) PROVE HandleSound(h)'
    BY <2>1, AllocEffect DEF Others, HandleSound, SizeSound, Mapping, InDriver
  <2>2. ASSUME NEW g \in Handles, DriverCreate(t, g) PROVE HandleSound(h)'
    BY <2>2, CreateEffect DEF Others, HandleSound, SizeSound, Mapping, InDriver
  <2>3. CASE DriverMap(t)
    BY <2>3, MapEffect DEF Others, HandleSound, SizeSound, Mapping, InDriver
  <2>4. CASE DriverError(t)
    BY <2>4, ReturnEffect DEF DriverError, Others, HandleSound, SizeSound, Mapping, InDriver
  <2>5. CASE Crash(t)
    BY <2>5 DEF Crash, TypeOK, HandleSound, SizeSound, Mapping, InDriver
  <2>6. CASE TrackAlloc(t)
    BY <2>6, TrackEffect DEF Others, HandleSound, SizeSound, Mapping, InDriver
  <2>7. CASE PendCreate(t)
    BY <2>7, PendEffect DEF Others, HandleSound, SizeSound, Mapping, InDriver
  <2>8. CASE HookFree(t)
    BY <2>8, GotoEffect DEF HookFree, Others, HandleSound, SizeSound, Mapping, InDriver
  <2>9. CASE TrackFree(t)
    BY <2>9, StrikeEffect DEF Others, HandleSound, SizeSound, Mapping, InDriver
  <2>10. CASE DriverFree(t)
    BY <2>10, FreeEffect DEF Others, HandleSound, SizeSound, Mapping, InDriver
  <2>11. CASE DriverFreeError(t)
    BY <2>11, FreeErrorEffect DEF Others, HandleSound, SizeSound, Mapping, InDriver
  <2>12. CASE BindMap(t)
    BY <2>12, GotoEffect DEF BindMap, MayLock, Others, HandleSound, SizeSound, Mapping, InDriver
  <2>13. CASE RelockProceeds(t)
    BY <2>13, ProceedEffect DEF Others, HandleSound, SizeSound, Mapping, InDriver
  <2>14. CASE RelockThrows(t)
    BY <2>14, ThrowEffect DEF Others, HandleSound, SizeSound, Mapping, InDriver
  <2>15. CASE RelockBlocks(t)
    BY <2>15, GotoEffect DEF RelockBlocks, Others, HandleSound, SizeSound, Mapping, InDriver
  <2> QED
    BY <1>3, <2>1, <2>2, <2>3, <2>4, <2>5, <2>6, <2>7, <2>8,
       <2>9, <2>10, <2>11, <2>12, <2>13, <2>14, <2>15
    DEF Step
<1>4. ASSUME NEW q \in Addresses, ReleaseUnhooked(q) PROVE HandleSound(h)'
  BY <1>4, UnhookedEffect DEF HandleSound, SizeSound, Mapping, InDriver
<1>5. ASSUME NEW g \in Handles, ReleaseHandle(g) PROVE HandleSound(h)'
  BY <1>5 DEF ReleaseHandle, TypeOK, HandleSound, SizeSound, Mapping, InDriver
<1>6. CASE ResetPeak
  BY <1>6 DEF ResetPeak, TypeOK, HandleSound, SizeSound, Mapping, InDriver
<1>7. CASE UNCHANGED vars
  BY <1>7 DEF vars, TypeOK, HandleSound, SizeSound, Mapping, InDriver
<1> QED
  BY <1>1, <1>2, <1>3, <1>4, <1>5, <1>6, <1>7 DEF Next, Halted

-----------------------------------------------------------------------------
(* The invariant holds at the start. *)
LEMMA InitInvariant == Init => IInv
<1> SUFFICES ASSUME Init PROVE IInv
  OBVIOUS
<1>1. TypeOK
  <2>1. /\ iat \in [Functions -> {"driver", "hook"}]
        /\ Real \in [Functions -> {"null", "driver", "hook"}]
        /\ step \in 0 .. Len(Targets) + 1
    BY FunctionsAre DEF Init
  <2>2. /\ allocs \in [Addresses -> Sizes \cup {0}] /\ total \in Int /\ peak \in Int
        /\ pending \in [Handles -> Sizes \cup {0}]
        /\ memory \in [Addresses -> Sizes \cup {0}] /\ behind \in [Addresses -> Sizes \cup {0}]
        /\ made \in [Handles -> Sizes \cup {0}]
    BY DEF Init
  <2>3. pc \in [Threads -> PCs] /\ job \in [Threads -> Job]
    BY AnyJobIsJob DEF Init, PCs
  <2> QED
    BY <2>1, <2>2, <2>3 DEF Init, TypeOK
<1>2. MutexSound
  BY HookAssumption DEF Init, MutexSound
<1>3. \A p \in Addresses : OneOwner(p) /\ EntrySound(p) /\ BackedSound(p)
  BY DEF Init, OneOwner, EntrySound, Recorded, BackedSound, Owns, InDriver
<1>4. \A t \in Threads : SizeSound(t)
  BY DEF Init, SizeSound
<1>5. \A h \in Handles : HandleSound(h)
  BY DEF Init, HandleSound, Mapping
<1> QED
  BY <1>1, <1>2, <1>3, <1>4, <1>5 DEF IInv

(* Whatever clients do before, while and after the hooks are installed, the  *)
(* driver's memory has one owner each and the ledger lists what it saw.      *)
THEOREM HookInvariant == Spec => []IInv
<1>1. IInv /\ [Next]_vars => IInv'
  <2> SUFFICES ASSUME IInv, [Next]_vars PROVE IInv'
    OBVIOUS
  <2>1. TypeOK' /\ MutexSound'
    BY TypePreserved, MutexPreserved
  <2>2. \A p \in Addresses : OneOwner(p)' /\ EntrySound(p)' /\ BackedSound(p)'
    BY OwnerPreserved, EntryPreserved, BackingPreserved
  <2>3. \A t \in Threads : SizeSound(t)'
    BY SizePreserved
  <2>4. \A h \in Handles : HandleSound(h)'
    BY HandlePreserved
  <2> QED
    BY <2>1, <2>2, <2>3, <2>4 DEF IInv
<1> QED
  BY InitInvariant, <1>1, PTL DEF Spec

(* The variables of the hooks keep their types: the ledger and the pending   *)
(* creations never hold a size that no client asked for.                     *)
THEOREM HookTypeCorrect == Spec => []TypeOK
<1>1. IInv => TypeOK
  BY DEF IInv
<1> QED
  BY <1>1, HookInvariant, PTL

(* g_allocsMutex is held exactly by the thread that is inside Hook_cuMemMap, *)
(* also after an exception there.                                            *)
THEOREM MutexCorrect == Spec => []MutexSound
<1>1. IInv => MutexSound
  BY DEF IInv
<1> QED
  BY <1>1, HookInvariant, PTL

(* The ledger lists exactly the memory that clients own and that no call     *)
(* bypassed the hooks with: an allocation with its size; a mapping, of any   *)
(* part of a handle, with its own or the whole handle's size, so never with  *)
(* less than what is mapped.                                                 *)
THEOREM LedgerCorrect == Spec => []LedgerAccurate
<1>1. ASSUME IInv, NEW p \in Addresses \ missed
      PROVE  /\ p \in held => memory[p] \in 1 .. allocs[p] /\ Recorded(p)
             /\ allocs[p] # 0 =>
                   /\ Recorded(p) /\ memory[p] # 0
                   /\ p \in held \/ \E t \in Threads : pc[t] # "idle" /\ job[t].at = p
  <2>1. OneOwner(p) /\ EntrySound(p) /\ BackedSound(p) /\ p \notin missed
    BY <1>1 DEF IInv
  <2>2. memory[p] \in Nat /\ behind[p] \in Nat
    <3>1. Sizes \cup {0} \subseteq Nat
      BY HookAssumption
    <3> QED
      BY <1>1, <3>1 DEF IInv, TypeOK
  <2>3. \A t \in Threads : Owns(t, p) => pc[t] # "idle" /\ job[t].at = p
    BY DEF Owns, InDriver
  <2>4. ASSUME p \in held PROVE memory[p] \in 1 .. allocs[p] /\ Recorded(p)
    <3>1. Recorded(p) /\ memory[p] # 0
      BY <2>1, <2>4 DEF OneOwner, EntrySound
    <3> QED
      BY <2>1, <2>2, <3>1 DEF Recorded, BackedSound
  <2>5. ASSUME allocs[p] # 0
        PROVE  /\ Recorded(p) /\ memory[p] # 0
               /\ p \in held \/ \E t \in Threads : pc[t] # "idle" /\ job[t].at = p
    BY <2>1, <2>3, <2>5 DEF OneOwner, EntrySound
  <2> QED
    BY <2>4, <2>5
<1>2. IInv => LedgerAccurate
  BY <1>1 DEF LedgerAccurate
<1> QED
  BY <1>2, HookInvariant, PTL

-----------------------------------------------------------------------------
(* The counters.                                                             *)

(* An entry is written, in a place the ledger has none or that was missed;   *)
(* or it is struck off.                                                      *)
Written(p) ==
  /\ \E s \in Nat : Record(p, s)
  /\ p \notin missed => allocs[p] = 0
Struck(p) ==
  /\ total' = total - allocs[p] /\ peak' = peak
  /\ allocs' = [allocs EXCEPT ![p] = 0]

(* A thread about to record has an address that the ledger does not list.    *)
LEMMA TrackWrites ==
  ASSUME IInv, NEW t \in Threads, TrackAlloc(t)
  PROVE  Written(job[t].at) /\ missed' = missed
<1>1. pc[t] = "track" /\ Record(job[t].at, job[t].size) /\ missed' = missed
  BY DEF TrackAlloc
<1>2. job[t].at \in Addresses /\ job[t].size \in Nat
  BY JobParts, HookAssumption DEF IInv
<1>3. job[t].at \notin missed => allocs[job[t].at] = 0
  BY <1>1, <1>2 DEF IInv, EntrySound, Owns, InDriver
<1> QED
  BY <1>1, <1>2, <1>3 DEF Written

LEMMA ProceedWrites ==
  ASSUME IInv, NEW t \in Threads, RelockProceeds(t)
  PROVE  Written(job[t].at) /\ missed \subseteq missed'
<1>1. pc[t] = "rebind" /\ Record(job[t].at, MapSize(t)) /\ missed \subseteq missed'
  BY DEF RelockProceeds
<1>2. job[t].at \in Addresses /\ job[t].size \in Sizes /\ job[t].h \in Handles
  BY JobParts DEF IInv
<1>3. MapSize(t) \in Sizes
  BY <1>2 DEF MapSize, IInv, TypeOK
<1>4. MapSize(t) \in Nat
  BY <1>3, HookAssumption
<1>5. job[t].at \notin missed => allocs[job[t].at] = 0
  BY <1>1, <1>2 DEF IInv, EntrySound, Owns, InDriver
<1> QED
  BY <1>1, <1>4, <1>5 DEF Written

(* What a step does to the counters: nothing, one entry, or the peak reset.  *)
LEMMA CounterSteps ==
  ASSUME IInv, [Next]_vars
  PROVE  /\ missed \subseteq missed'
         /\ \/ UNCHANGED <<allocs, total, peak>>
            \/ peak' = total /\ UNCHANGED <<allocs, total>>
            \/ \E p \in Addresses : Written(p) \/ Struck(p)
<1> DEFINE Goal == /\ missed \subseteq missed'
                   /\ \/ UNCHANGED <<allocs, total, peak>>
                      \/ peak' = total /\ UNCHANGED <<allocs, total>>
                      \/ \E p \in Addresses : Written(p) \/ Struck(p)
<1> SUFFICES Goal
  OBVIOUS
<1>0. TypeOK
  BY DEF IInv
<1>1. CASE Installation
  BY <1>1 DEF Installation, ledger
<1>2. ASSUME NEW t \in Threads, Call(t) PROVE Goal
  BY <1>2, CallEffect DEF ledger
<1>3. ASSUME NEW t \in Threads, Step(t) PROVE Goal
  <2>0. job[t].at \in Addresses
    BY <1>0, JobParts
  <2>1. ASSUME NEW p \in Ptrs, DriverAlloc(t, p) PROVE Goal
    BY <2>1 DEF DriverAlloc, ledger
  <2>2. ASSUME NEW h \in Handles, DriverCreate(t, h) PROVE Goal
    BY <2>2 DEF DriverCreate, ledger
  <2>3. CASE DriverMap(t)
    BY <2>3 DEF DriverMap, ledger
  <2>4. CASE DriverError(t) \/ Crash(t) \/ PendCreate(t) \/ BindMap(t) \/ RelockBlocks(t)
    BY <2>4 DEF DriverError, Crash, PendCreate, BindMap, RelockBlocks, ledger
  <2>5. CASE HookFree(t) \/ DriverFree(t) \/ DriverFreeError(t) \/ RelockThrows(t)
    BY <2>5 DEF HookFree, DriverFree, DriverFreeError, RelockThrows, ledger
  <2>6. CASE TrackAlloc(t)
    BY <2>0, <2>6, TrackWrites
  <2>7. CASE RelockProceeds(t)
    BY <2>0, <2>7, ProceedWrites
  <2>8. CASE TrackFree(t)
    BY <2>0, <2>8 DEF TrackFree, Struck
  <2> QED
    BY <1>3, <2>1, <2>2, <2>3, <2>4, <2>5, <2>6, <2>7, <2>8 DEF Step
<1>4. ASSUME NEW p \in Addresses, ReleaseUnhooked(p) PROVE Goal
  BY <1>4 DEF ReleaseUnhooked, ledger
<1>5. ASSUME NEW h \in Handles, ReleaseHandle(h) PROVE Goal
  BY <1>5 DEF ReleaseHandle, ledger
<1>6. CASE ResetPeak
  BY <1>6 DEF ResetPeak
<1>7. CASE Halted \/ UNCHANGED vars
  BY <1>7 DEF Halted, vars, ledger
<1> QED
  BY <1>1, <1>2, <1>3, <1>4, <1>5, <1>6, <1>7 DEF Next

(* The entries are naturals, before and after a step.                        *)
LEMMA EntriesAreNat ==
  /\ TypeOK => allocs \in [Addresses -> Int] /\ allocs \in [Addresses -> Nat]
  /\ TypeOK' => allocs' \in [Addresses -> Int]
<1>1. Sizes \cup {0} \subseteq Nat
  BY HookAssumption
<1> QED
  BY <1>1 DEF TypeOK

(* A change of one entry changes the sum by as much.                         *)
LEMMA EntryChanges ==
  ASSUME TypeOK, TypeOK', NEW p \in Addresses, NEW s \in Nat,
         allocs' = [allocs EXCEPT ![p] = s]
  PROVE  SumFunction(allocs') = SumFunction(allocs) - allocs[p] + s
<1>1. /\ allocs \in [Addresses -> Int] /\ allocs' \in [Addresses -> Int]
      /\ allocs'[p] = s /\ \A q \in Addresses \ {p} : allocs'[q] = allocs[q]
  BY EntriesAreNat
<1>2. IsFiniteSet(Addresses)
  BY FiniteAddresses
<1>3. ASSUME NEW f \in [Addresses -> Int], NEW h \in [Addresses -> Int],
             \A q \in Addresses \ {p} : h[q] = f[q]
      PROVE  SumFunction(h) = SumFunction(f) - f[p] + h[p]
  BY <1>2, <1>3, SumChange
<1> QED
  BY <1>1, <1>3

(* Every step keeps the counters sound.                                      *)
LEMMA CountersPreserved ==
  ASSUME IInv, CountersSound, [Next]_vars
  PROVE  CountersSound'
<1>1. TypeOK /\ TypeOK'
  BY TypePreserved DEF IInv
<1>2. /\ total \in Int /\ peak \in Int /\ SumFunction(allocs) \in Nat
      /\ \A p \in Addresses : allocs[p] \in Nat
  BY <1>1, EntriesAreNat, FiniteAddresses, SumIsNat DEF TypeOK
<1>3. missed \subseteq missed'
  BY CounterSteps
<1>4. CASE UNCHANGED <<allocs, total, peak>> \/ (peak' = total /\ UNCHANGED <<allocs, total>>)
  BY <1>2, <1>3, <1>4 DEF CountersSound
<1>5. ASSUME NEW p \in Addresses, Written(p) PROVE CountersSound'
  <2>1. PICK s \in Nat : Record(p, s)
    BY <1>5 DEF Written
  <2>2. SumFunction(allocs') = SumFunction(allocs) - allocs[p] + s
    BY <1>1, <2>1, EntryChanges DEF Record
  <2>3. total' = total + s /\ peak' = IF total + s > peak THEN total + s ELSE peak
    BY <2>1 DEF Record
  <2>4. missed' = {} => missed = {} /\ allocs[p] = 0
    BY <1>3, <1>5 DEF Written
  <2>5. allocs[p] \in Nat
    BY <1>2
  <2>6. SumFunction(allocs') <= total' /\ total' <= peak'
    BY <1>2, <2>2, <2>3, <2>5 DEF CountersSound
  <2>7. missed' = {} => total' = SumFunction(allocs')
    BY <1>2, <2>2, <2>3, <2>4 DEF CountersSound
  <2> QED
    BY <2>6, <2>7 DEF CountersSound
<1>6. ASSUME NEW p \in Addresses, Struck(p) PROVE CountersSound'
  <2>1. SumFunction(allocs') = SumFunction(allocs) - allocs[p] + 0
    BY <1>1, <1>6, EntryChanges DEF Struck
  <2>2. total' = total - allocs[p] /\ peak' = peak /\ allocs[p] \in Nat
    BY <1>2, <1>6 DEF Struck
  <2>3. missed' = {} => missed = {}
    BY <1>3
  <2> QED
    BY <1>2, <2>1, <2>2, <2>3 DEF CountersSound
<1> QED
  BY <1>4, <1>5, <1>6, CounterSteps

(* The total covers what the ledger lists and the peak covers the total; the *)
(* total is the sum of the entries as long as nothing was missed.            *)
THEOREM CountersCorrect == Spec => []CountersSound
<1>1. Init => CountersSound
  <2> SUFFICES ASSUME Init PROVE CountersSound
    OBVIOUS
  <2>1. allocs \in [Addresses -> {0}] /\ total = 0 /\ peak = 0
    BY DEF Init
  <2>2. SumFunction(allocs) = 0
    BY <2>1, FiniteAddresses, SumOfZeros
  <2> QED
    BY <2>1, <2>2 DEF CountersSound
<1>2. IInv /\ CountersSound /\ [Next]_vars => CountersSound'
  BY CountersPreserved
<1> QED
  BY <1>1, <1>2, HookInvariant, PTL DEF Spec

-----------------------------------------------------------------------------
(* The installation.                                                         *)

(* The targets are distinct, and the one whose pointer a hook calls is its   *)
(* own or an earlier one.                                                    *)
LEMMA TargetsAre ==
  /\ \A i, j \in 1 .. 7 : Targets[i] = Targets[j] => i = j
  /\ \A i \in 1 .. 7 : \E k \in 1 .. i : RealOf(Targets[i]) = Targets[k]
  /\ \A fn \in Functions : RealOf(RealOf(fn)) = RealOf(fn)
<1>1. \A i \in 1 .. 7 : i \in {1, 2, 3, 4, 5, 6, 7}
  OBVIOUS
<1>2. \A i, j \in {1, 2, 3, 4, 5, 6, 7} : Targets[i] = Targets[j] => i = j
  BY DEF Targets
<1>3. /\ RealOf(Targets[1]) = Targets[1] /\ RealOf(Targets[2]) = Targets[2]
      /\ RealOf(Targets[3]) = Targets[1] /\ RealOf(Targets[4]) = Targets[2]
      /\ RealOf(Targets[5]) = Targets[5] /\ RealOf(Targets[6]) = Targets[6]
      /\ RealOf(Targets[7]) = Targets[7]
  BY DEF Targets, RealOf
<1>4. ASSUME NEW i \in 1 .. 7 PROVE \E k \in 1 .. i : RealOf(Targets[i]) = Targets[k]
  <2>1. /\ 1 \in 1 .. i /\ i \in 1 .. i
        /\ i = 4 => 2 \in 1 .. i
    OBVIOUS
  <2> QED
    BY <1>1, <1>3, <2>1
<1>5. \A fn \in Functions : RealOf(RealOf(fn)) = RealOf(fn)
  BY FunctionsAre DEF RealOf
<1> QED
  BY <1>1, <1>2, <1>4, <1>5

(* Which steps change the import table.                                      *)
LEMMA TableSteps ==
  ASSUME IInv, [Next]_vars
  PROVE  \/ UNCHANGED table
         \/ InstallHooks \/ SkipTarget \/ PatchIatEntry \/ StoreReal \/ Activate
         \/ UninstallHooks
<1>1. CASE Installation
  BY <1>1 DEF Installation
<1>2. ASSUME NEW t \in Threads, Call(t) PROVE UNCHANGED table
  BY <1>2, CallEffect
<1>3. ASSUME NEW t \in Threads, Step(t) PROVE UNCHANGED table
  BY <1>3 DEF Step, DriverAlloc, DriverCreate, DriverMap, DriverError, Crash, TrackAlloc,
     PendCreate, HookFree, TrackFree, DriverFree, DriverFreeError, BindMap, RelockProceeds,
     RelockThrows, RelockBlocks
<1>4. ASSUME NEW p \in Addresses, ReleaseUnhooked(p) PROVE UNCHANGED table
  BY <1>4 DEF ReleaseUnhooked
<1>5. ASSUME NEW h \in Handles, ReleaseHandle(h) PROVE UNCHANGED table
  BY <1>5 DEF ReleaseHandle
<1>6. CASE ResetPeak
  BY <1>6 DEF ResetPeak
<1>7. CASE Halted \/ UNCHANGED vars
  BY <1>7 DEF Halted, vars
<1> QED
  BY <1>1, <1>2, <1>3, <1>4, <1>5, <1>6, <1>7 DEF Next

(* A step of a first installation leaves it sound.                           *)
LEMMA InstallPreserved ==
  ASSUME Reinstall = FALSE, IInv, InstallSound, [Next]_vars
  PROVE  InstallSound'
<1> USE FunctionsAre
<1>0. TypeOK
  BY DEF IInv
<1>1. CASE UNCHANGED table
  BY <1>1 DEF table, InstallSound, InHand, Ahead, TargetFn
<1>2. CASE InstallHooks
  <2>1. saved = "none"
    BY <1>0, <1>2 DEF InstallHooks, Installing, InstallSound, TypeOK
  <2>2. \A fn \in Functions : iat'[fn] = "driver"
    BY <1>2 DEF InstallHooks
  <2> QED
    BY <1>2, <2>1, <2>2 DEF InstallHooks, InstallSound, InHand, Ahead, TargetFn
<1>3. CASE SkipTarget
  BY <1>3 DEF SkipTarget, InstallSound, InHand, Ahead, TargetFn
<1>4. CASE PatchIatEntry
  <2>1. step \in 1 .. 7 /\ TargetFn \in Functions /\ saved = "none"
    BY <1>4 DEF PatchIatEntry, TargetFn
  <2>2. iat[TargetFn] = "driver"
    BY <2>1 DEF InstallSound, Ahead, TargetFn
  <2>3. /\ saved' = "driver" /\ step' = step /\ Real' = Real /\ TargetFn' = TargetFn
        /\ iat'[TargetFn] = "hook"
        /\ \A fn \in Functions \ {TargetFn} : iat'[fn] = iat[fn]
    BY <1>0, <1>4, <2>1, <2>2 DEF PatchIatEntry, TypeOK, TargetFn
  <2>4. ASSUME NEW i \in 1 .. 7, Ahead(i)' PROVE iat'[Targets[i]] = "driver"
    <3>1. step < i /\ Targets[i] # TargetFn
      BY <2>1, <2>3, <2>4, TargetsAre DEF Ahead, TargetFn
    <3> QED
      BY <2>1, <2>3, <3>1 DEF InstallSound, Ahead
  <2>5. \A fn \in Functions : iat'[fn] = "hook" => Real'[fn] = "driver" \/ InHand(fn)'
    BY <2>1, <2>3 DEF InstallSound, InHand
  <2> QED
    BY <2>1, <2>3, <2>4, <2>5 DEF InstallSound
<1>5. CASE StoreReal
  <2>1. step \in 1 .. 7 /\ TargetFn \in Functions /\ saved = "driver"
    BY <1>5 DEF StoreReal, TargetFn, InstallSound
  <2>2. /\ saved' = "none" /\ step' = step + 1 /\ iat' = iat
        /\ Real'[TargetFn] = "driver"
        /\ \A fn \in Functions \ {TargetFn} : Real'[fn] = Real[fn]
    BY <1>0, <1>5, <2>1 DEF StoreReal, TypeOK
  <2>3. \A i \in 1 .. 7 : Ahead(i)' => Ahead(i)
    BY <2>1, <2>2 DEF Ahead
  <2> QED
    BY <2>1, <2>2, <2>3 DEF InstallSound, InHand
<1>6. CASE Activate
  BY <1>6 DEF Activate, InstallSound, InHand, Ahead, TargetFn
<1>7. CASE UninstallHooks
  BY <1>7 DEF UninstallHooks, InstallSound, InHand, Ahead, TargetFn
<1> QED
  BY <1>1, <1>2, <1>3, <1>4, <1>5, <1>6, <1>7, TableSteps

(* When clients do not install twice, every stage of the installation is     *)
(* sound.                                                                    *)
THEOREM FirstInstallation ==
  ASSUME Reinstall = FALSE
  PROVE  Spec => []InstallSound
<1>1. Init => InstallSound
  BY FunctionsAre DEF Init, InstallSound, Ahead
<1>2. IInv /\ InstallSound /\ [Next]_vars => InstallSound'
  BY InstallPreserved
<1> QED
  BY <1>1, <1>2, HookInvariant, PTL DEF Spec

(* The Real_ pointers are the driver's functions as long as nobody installs  *)
(* the hooks a second time: what the run hook_reinstall refutes.             *)
THEOREM OriginalsKept ==
  ASSUME Reinstall = FALSE
  PROVE  Spec => []RealIsOriginal
<1>1. InstallSound => RealIsOriginal
  BY DEF InstallSound, RealIsOriginal
<1> QED
  BY <1>1, FirstInstallation, PTL

(* A call is in a hook because it found one in the import table.             *)
InHook(l) == l \in {"hooked", "untrack", "release"}

LEMMA CallFindsHook ==
  ASSUME TypeOK, IInv, NEW t \in Threads, Call(t), pc'[t] = "hooked"
  PROVE  \E fn \in Functions : iat[fn] = "hook" /\ job'[t].fn = RealOf(fn)
<1>1. ASSUME NEW j \in Job, Enter(t, j)
      PROVE  iat[j.fn] = "hook" /\ j.fn \in Functions /\ job'[t].fn = RealOf(j.fn)
  <2>1. pc'[t] = IF iat[j.fn] = "hook" THEN "hooked" ELSE "direct"
    BY <1>1 DEF Enter, GoWith, TypeOK
  <2> QED
    BY <1>1, <2>1, EnterEffect DEF Job
<1>2. CASE CallAlloc(t)
  BY <1>1, <1>2, RequestTypes DEF CallAlloc
<1>3. CASE CallFree(t)
  BY <1>1, <1>3, RequestTypes DEF CallFree
<1>4. CASE CallMap(t)
  <2>1. PICK h \in held \cap Handles, r \in Ranges \ held, s \in Sizes :
               Enter(t, [fn |-> "cuMemMap", size |-> s, at |-> r, h |-> h])
    BY <1>4 DEF CallMap
  <2>2. [fn |-> "cuMemMap", size |-> s, at |-> r, h |-> h] \in Job
    BY FunctionsAre DEF Job, Addresses
  <2> QED
    BY <1>1, <2>1, <2>2
<1> QED
  BY <1>2, <1>3, <1>4 DEF Call

(* A call that is in a hook was there before, for the same function, or has  *)
(* just found the hook; and one that records a mapping was in cuMemMap's.    *)
LEMMA HookSteps ==
  ASSUME IInv, [Next]_vars, NEW t \in Threads
  PROVE  /\ InHook(pc'[t]) =>
              \/ /\ InHook(pc[t]) /\ job'[t].fn = job[t].fn
                 /\ pc'[t] = "hooked" => pc[t] = "hooked"
              \/ \E fn \in Functions : iat[fn] = "hook" /\ job'[t].fn = RealOf(fn)
         /\ pc'[t] \in {"bind", "rebind"} =>
              \/ pc[t] \in {"bind", "rebind"}
              \/ pc[t] = "hooked" /\ job[t].fn = "cuMemMap"
<1> DEFINE Goal ==
      /\ InHook(pc'[t]) =>
           \/ /\ InHook(pc[t]) /\ job'[t].fn = job[t].fn
              /\ pc'[t] = "hooked" => pc[t] = "hooked"
           \/ \E fn \in Functions : iat[fn] = "hook" /\ job'[t].fn = RealOf(fn)
      /\ pc'[t] \in {"bind", "rebind"} =>
           \/ pc[t] \in {"bind", "rebind"}
           \/ pc[t] = "hooked" /\ job[t].fn = "cuMemMap"
<1> SUFFICES Goal
  OBVIOUS
<1>0. TypeOK
  BY DEF IInv
<1>1. ASSUME pc'[t] = pc[t] /\ job'[t] = job[t] PROVE Goal
  BY <1>1
<1>2. ASSUME pc'[t] \in {"idle", "direct", "track", "pend", "blocked"} PROVE Goal
  BY <1>2 DEF InHook
<1>3. ASSUME NEW u \in Threads, Call(u) PROVE Goal
  <2>1. CASE u # t
    BY <1>1, <1>3, <2>1, CallEffect
  <2>2. CASE u = t
    <3>1. pc'[t] \in {"hooked", "direct"}
      BY <1>3, <2>2, CallEffect
    <3> QED
      BY <1>0, <1>2, <1>3, <2>2, <3>1, CallFindsHook
  <2> QED
    BY <2>1, <2>2
<1>4. ASSUME NEW u \in Threads, Step(u) PROVE Goal
  <2>1. ASSUME NEW S, Return(u, S), S \subseteq Addresses \cup Handles PROVE Goal
    BY <1>0, <1>1, <1>2, <2>1, ReturnEffect DEF Others
  <2>2. ASSUME NEW l \in {"untrack", "release"}, Goto(u, l), InHook(pc[u]) PROVE Goal
    BY <1>0, <1>1, <2>2, GotoEffect DEF Others, InHook
  <2>3. ASSUME NEW q \in Ptrs, DriverAlloc(u, q) PROVE Goal
    <3>1. pc'[u] \in {"track", "idle"} /\ Others(u)
      BY <1>0, <2>3, AllocEffect
    <3> QED
      BY <1>1, <1>2, <3>1 DEF Others
  <2>4. ASSUME NEW g \in Handles, DriverCreate(u, g) PROVE Goal
    <3>1. pc'[u] \in {"pend", "idle"} /\ Others(u)
      BY <1>0, <2>4, CreateEffect
    <3> QED
      BY <1>1, <1>2, <3>1 DEF Others
  <2>5. CASE DriverMap(u)
    <3>1. Others(u)
      BY <1>0, <2>5, MapEffect
    <3>2. CASE Observed(u)
      <4>1. pc'[u] = "bind" /\ pc[u] = "hooked" /\ job[u].fn = "cuMemMap"
        BY <1>0, <2>5, <3>2, GotoEffect DEF DriverMap, Observed
      <4> QED
        BY <1>1, <3>1, <4>1 DEF Others, InHook
    <3>3. CASE ~Observed(u)
      BY <1>0, <2>1, <2>5, <3>3, JobParts DEF DriverMap
    <3> QED
      BY <3>2, <3>3
  <2>6. CASE DriverError(u) \/ DriverFree(u)
    BY <2>1, <2>6 DEF DriverError, DriverFree
  <2>7. CASE TrackAlloc(u) \/ PendCreate(u) \/ DriverFreeError(u) \/ RelockProceeds(u)
             \/ RelockThrows(u)
    BY <1>0, <2>1, <2>7, JobParts
    DEF TrackAlloc, PendCreate, DriverFreeError, RelockProceeds, RelockThrows
  <2>8. CASE HookFree(u)
    BY <2>2, <2>8 DEF HookFree, InHook
  <2>9. CASE TrackFree(u)
    BY <2>2, <2>9 DEF TrackFree, InHook
  <2>10. CASE BindMap(u)
    <3>1. pc'[u] = "rebind" /\ pc[u] = "bind" /\ Others(u)
      BY <1>0, <2>10, GotoEffect DEF BindMap
    <3> QED
      BY <1>1, <3>1 DEF Others, InHook
  <2>11. CASE RelockBlocks(u)
    <3>1. pc'[u] = "blocked" /\ Others(u)
      BY <1>0, <2>11, GotoEffect DEF RelockBlocks
    <3> QED
      BY <1>1, <1>2, <3>1 DEF Others
  <2>12. CASE Crash(u)
    BY <1>1, <2>12 DEF Crash
  <2> QED
    BY <1>4, <2>3, <2>4, <2>5, <2>6, <2>7, <2>8, <2>9, <2>10, <2>11, <2>12 DEF Step
<1>5. CASE Installation
  BY <1>1, <1>5 DEF Installation
<1>6. ASSUME NEW p \in Addresses, ReleaseUnhooked(p) PROVE Goal
  BY <1>1, <1>6 DEF ReleaseUnhooked
<1>7. ASSUME NEW h \in Handles, ReleaseHandle(h) PROVE Goal
  BY <1>1, <1>7 DEF ReleaseHandle
<1>8. CASE ResetPeak
  BY <1>1, <1>8 DEF ResetPeak
<1>9. CASE Halted \/ UNCHANGED vars
  BY <1>1, <1>9 DEF Halted, vars
<1> QED
  BY <1>3, <1>4, <1>5, <1>6, <1>7, <1>8, <1>9 DEF Next

(* A step keeps the legacy names backed, where their _v2 names are thunks    *)
(* too and every patch succeeds.                                             *)
LEMMA BackedPreserved ==
  ASSUME Reinstall = FALSE, ~CanFail("VirtualProtect"),
         \A fn \in Thunks : RealOf(fn) \in Thunks,
         IInv, InstallSound, LegacyBacked, [Next]_vars
  PROVE  LegacyBacked'
<1> USE FunctionsAre
<1> DEFINE Patched(i) == i < step /\ Targets[i] \in Thunks => iat[Targets[i]] = "hook"
           Legacy(fn) == iat[fn] = "hook" => iat[RealOf(fn)] = "hook"
<1>0. TypeOK /\ \A fn \in Functions : RealOf(fn) \in Functions
  BY RealOfKind DEF IInv
<1>1. /\ \A i \in 1 .. 7 : Patched(i)'
      /\ \A fn \in Functions : Legacy(fn)'
      /\ \A fn \in Functions : iat[fn] = "hook" => iat'[fn] = "hook"
  <2>0. step \in 0 .. 8
    BY <1>0 DEF TypeOK
  <2>1. CASE UNCHANGED table \/ Activate \/ UninstallHooks
    BY <2>0, <2>1 DEF table, LegacyBacked, Activate, UninstallHooks
  <2>2. CASE InstallHooks
    BY <2>2 DEF InstallHooks, LegacyBacked
  <2>3. CASE SkipTarget
    <3>1. /\ step \in 1 .. 7 /\ step' = step + 1 /\ iat' = iat
          /\ Targets[step] \notin Thunks
      BY <2>3 DEF SkipTarget, TargetFn
    <3>2. \A i \in 1 .. 7 : i < step' => i < step \/ i = step
      BY <3>1
    <3> QED
      BY <3>1, <3>2 DEF LegacyBacked
  <2>4. CASE PatchIatEntry
    <3>1. /\ step \in 1 .. 7 /\ step' = step /\ TargetFn \in Functions
          /\ TargetFn \in Thunks /\ TargetFn = Targets[step]
          /\ iat'[TargetFn] = "hook"
          /\ \A fn \in Functions \ {TargetFn} : iat'[fn] = iat[fn]
      BY <1>0, <2>4 DEF PatchIatEntry, TypeOK, TargetFn
    <3>2. iat'[RealOf(TargetFn)] = "hook"
      <4>1. PICK k \in 1 .. step : RealOf(TargetFn) = Targets[k]
        BY <3>1, TargetsAre
      <4>2. Targets[k] \in Thunks /\ k \in 1 .. 7
        BY <3>1, <4>1
      <4>3. CASE k = step
        BY <3>1, <4>1, <4>3
      <4>4. CASE k < step
        BY <1>0, <3>1, <4>1, <4>2, <4>4 DEF LegacyBacked
      <4> QED
        BY <3>1, <4>3, <4>4
    <3>3. \A fn \in Functions : iat[fn] = "hook" => iat'[fn] = "hook"
      BY <3>1
    <3>4. \A fn \in Functions : Legacy(fn)'
      BY <1>0, <3>1, <3>2, <3>3 DEF LegacyBacked
    <3> QED
      BY <3>1, <3>3, <3>4 DEF LegacyBacked
  <2>5. CASE StoreReal
    <3>1. /\ step \in 1 .. 7 /\ step' = step + 1 /\ iat' = iat
          /\ iat[Targets[step]] = "hook"
      BY <2>5 DEF StoreReal, InstallSound, TargetFn
    <3>2. \A i \in 1 .. 7 : i < step' => i < step \/ i = step
      BY <3>1
    <3> QED
      BY <3>1, <3>2 DEF LegacyBacked
  <2> QED
    BY <2>1, <2>2, <2>3, <2>4, <2>5, TableSteps
<1>2. ASSUME NEW t \in Threads, InHook(pc'[t]) PROVE iat'[job'[t].fn] = "hook"
  <2>1. CASE InHook(pc[t]) /\ job'[t].fn = job[t].fn
    <3>1. job[t].fn \in Functions /\ iat[job[t].fn] = "hook"
      BY <1>0, <2>1 DEF LegacyBacked, InHook, TypeOK, Job
    <3> QED
      BY <1>1, <2>1, <3>1
  <2>2. ASSUME NEW fn \in Functions, iat[fn] = "hook", job'[t].fn = RealOf(fn)
        PROVE  iat'[job'[t].fn] = "hook"
    BY <1>0, <1>1, <2>2 DEF LegacyBacked
  <2> QED
    BY <1>2, <2>1, <2>2, HookSteps
<1> QED
  BY <1>1, <1>2 DEF LegacyBacked, InHook

(* Nothing but a call through a bad pointer ends the process.                *)
LEMMA CrashSteps ==
  ASSUME IInv, [Next]_vars, ~crashed, crashed'
  PROVE  \E t \in Threads : Crash(t)
<1>1. ASSUME NEW t \in Threads, Call(t) PROVE FALSE
  BY <1>1, CallEffect
<1>2. ASSUME NEW t \in Threads, Step(t) PROVE Crash(t)
  BY <1>2 DEF Step, DriverAlloc, DriverCreate, DriverMap, DriverError, TrackAlloc,
     PendCreate, HookFree, TrackFree, DriverFree, DriverFreeError, BindMap, RelockProceeds,
     RelockThrows, RelockBlocks
<1>3. ASSUME NEW p \in Addresses, ReleaseUnhooked(p) PROVE FALSE
  BY <1>3 DEF ReleaseUnhooked
<1>4. ASSUME NEW h \in Handles, ReleaseHandle(h) PROVE FALSE
  BY <1>4 DEF ReleaseHandle
<1>5. CASE Installation \/ ResetPeak \/ Halted \/ UNCHANGED vars
  BY <1>5 DEF Installation, ResetPeak, Halted, vars
<1> QED
  BY <1>1, <1>2, <1>3, <1>4, <1>5 DEF Next

(* A hooked call crashes only in the window between the patch of its entry   *)
(* and the store of its pointer: where the _v2 name of every thunk is one    *)
(* too, and as long as VirtualProtect does not fail and nobody installs the  *)
(* hooks a second time.                                                      *)
THEOREM CrashesOnlyInWindow ==
  ASSUME Reinstall = FALSE, ~CanFail("VirtualProtect"),
         \A fn \in Thunks : RealOf(fn) \in Thunks
  PROVE  Spec => CrashesInWindow
<1>1. Init => LegacyBacked
  BY FunctionsAre DEF Init, LegacyBacked
<1>2. IInv /\ InstallSound /\ LegacyBacked /\ [Next]_vars => LegacyBacked'
  BY BackedPreserved
<1>3. ASSUME IInv, InstallSound, LegacyBacked, [Next]_vars, ~crashed, crashed'
      PROVE  saved # "none" /\ \E t \in Threads : pc[t] # "idle" /\ job[t].fn = TargetFn
  <2>1. PICK t \in Threads : Crash(t)
    BY <1>3, CrashSteps
  <2>2. job[t].fn \in Functions /\ Real[job[t].fn] # "driver" /\ InHook(pc[t])
    BY <1>3, <2>1 DEF Crash, Callable, InHook, IInv, TypeOK, Job
  <2>3. InHand(job[t].fn)
    BY <1>3, <2>2 DEF InstallSound, LegacyBacked, InHook
  <2> QED
    BY <2>2, <2>3 DEF InHand, InHook
<1>4. IInv /\ InstallSound /\ LegacyBacked /\ [Next]_vars =>
        [~crashed /\ crashed' =>
           /\ saved # "none"
           /\ \E t \in Threads : pc[t] # "idle" /\ job[t].fn = TargetFn]_vars
  BY <1>3
<1> QED
  BY <1>1, <1>2, <1>4, HookInvariant, FirstInstallation, PTL DEF Spec, CrashesInWindow

-----------------------------------------------------------------------------
(* The nested lock.                                                          *)

(* A call in the hook of cuMemMap was there before, or found that hook.      *)
LEMMA MapHookFound ==
  ASSUME IInv, [Next]_vars, NEW t \in Threads, pc'[t] = "hooked", job'[t].fn = "cuMemMap"
  PROVE  (pc[t] = "hooked" /\ job[t].fn = "cuMemMap") \/ iat["cuMemMap"] = "hook"
<1>1. \/ pc[t] = "hooked" /\ job'[t].fn = job[t].fn
      \/ \E fn \in Functions : iat[fn] = "hook" /\ job'[t].fn = RealOf(fn)
  BY HookSteps DEF InHook
<1>2. ASSUME NEW fn \in Functions, iat[fn] = "hook", job'[t].fn = RealOf(fn)
      PROVE  iat["cuMemMap"] = "hook"
  BY <1>2 DEF RealOf
<1> QED
  BY <1>1, <1>2

(* A step keeps hooks to the thunks.                                         *)
LEMMA ThunksPreserved ==
  ASSUME IInv, ThunksHooked, [Next]_vars
  PROVE  ThunksHooked'
<1>0. TypeOK
  BY DEF IInv
<1>1. \A fn \in Functions : iat'[fn] = "hook" => fn \in Thunks
  <2>1. CASE PatchIatEntry
    <3>1. TargetFn \in Thunks /\ iat' = [iat EXCEPT ![TargetFn] = "hook"]
      BY <2>1 DEF PatchIatEntry
    <3> QED
      BY <1>0, <3>1 DEF ThunksHooked, TypeOK
  <2>2. CASE ~PatchIatEntry
    <3>1. iat' = iat
      BY <2>2, TableSteps DEF table, InstallHooks, SkipTarget, StoreReal, Activate,
         UninstallHooks
    <3> QED
      BY <3>1 DEF ThunksHooked
  <2> QED
    BY <2>1, <2>2
<1>2. ASSUME NEW t \in Threads, pc'[t] = "hooked", job'[t].fn = "cuMemMap"
      PROVE  "cuMemMap" \in Thunks
  BY <1>2, MapHookFound, FunctionsAre DEF ThunksHooked
<1>3. ASSUME NEW t \in Threads, pc'[t] \in {"bind", "rebind"} PROVE "cuMemMap" \in Thunks
  BY <1>3, HookSteps DEF ThunksHooked
<1> QED
  BY <1>1, <1>2, <1>3 DEF ThunksHooked

(* g_allocsMutex is locked twice only in the hook of cuMemMap: without a     *)
(* thunk of that name, no thread locks a std::mutex that it holds.           *)
THEOREM RelockNeedsMap ==
  ASSUME "cuMemMap" \notin Thunks
  PROVE  Spec => []NoRelock
<1>1. Init => ThunksHooked
  BY DEF Init, ThunksHooked
<1>2. IInv /\ ThunksHooked /\ [Next]_vars => ThunksHooked'
  BY ThunksPreserved
<1>3. ThunksHooked => NoRelock
  BY DEF ThunksHooked, NoRelock
<1> QED
  BY <1>1, <1>2, <1>3, HookInvariant, PTL DEF Spec
=============================================================================
