------------------------------ MODULE UmcHook -------------------------------
(***************************************************************************)
(* umc_hook.cpp: the exports of nvcuda.dll are jumps through an import     *)
(* table; installing the hooks overwrites entries of that table, and each  *)
(* hook calls the driver through the entry it saved and keeps a ledger of  *)
(* the memory it saw allocated.  Client threads call the driver before,    *)
(* while and after the hooks are installed.  A step is one access to the   *)
(* table or to g_hooksActive, one call of the driver, or one critical      *)
(* section of g_allocsMutex.  The hook of cuMemMap locks that std::mutex   *)
(* twice, which is undefined: Relock lists what a build may make of it.    *)
(***************************************************************************)
EXTENDS Integers, Sequences, FiniteSets, Functions

CONSTANTS
  Threads,    \* the client threads
  NoThread,   \* the owner of a mutex nobody holds
  Ptrs,       \* the addresses cuMemAlloc can return
  Ranges,     \* the address ranges clients reserved for cuMemMap
  Handles,    \* the handles cuMemCreate can return
  Sizes,      \* the sizes clients ask for
  Thunks,     \* the exports of nvcuda.dll that are import thunks
  Faults,     \* the calls that may fail, of "driver" and "VirtualProtect"
  Relock,     \* what locking a std::mutex again does
  Reinstall,  \* clients install the hooks again after uninstalling them
  MaxTotal    \* bound: clients ask for no more once the ledger's total is here

Addresses == Ptrs \cup Ranges

(* Mutant: the legacy names come first. *)
LegacyTargets == <<"cuMemAlloc", "cuMemFree", "cuMemAlloc_v2", "cuMemFree_v2",
                   "cuMemCreate", "cuMemMap", "cuMemAllocAsync">>

(* The entries of targets[] but the three of cuMemGetInfo, in their order.   *)
Targets == <<"cuMemAlloc_v2", "cuMemFree_v2", "cuMemAlloc", "cuMemFree",
             "cuMemCreate", "cuMemMap", "cuMemAllocAsync">>
Functions == {Targets[i] : i \in 1 .. Len(Targets)}
AllocFns  == {"cuMemAlloc_v2", "cuMemAlloc", "cuMemAllocAsync"}
FreeFns   == {"cuMemFree_v2", "cuMemFree"}

(* The hooks of the legacy names call the hooks of the _v2 names.            *)
RealOf(fn) == CASE fn = "cuMemAlloc" -> "cuMemAlloc_v2"
                [] fn = "cuMemFree"  -> "cuMemFree_v2"
                [] OTHER             -> fn

ASSUME HookAssumption ==
  /\ NoThread \notin Threads
  /\ Ptrs \cap Ranges = {} /\ Handles \cap Addresses = {}
  /\ Addresses # {} /\ Handles # {} /\ Sizes # {}
  /\ Sizes \subseteq Nat \ {0}
  /\ Thunks \subseteq Functions
  /\ Faults \subseteq {"driver", "VirtualProtect"}
  /\ Relock \subseteq {"proceeds", "blocks", "throws"}
  /\ Reinstall \in BOOLEAN /\ MaxTotal \in Nat

(* The address space is finite, so the sizes at its addresses have a sum.    *)
ASSUME FiniteAddresses == IsFiniteSet(Addresses)

VARIABLES
  iat,      \* what each entry of the import table points to
  Real,     \* the Real_ pointers
  active,   \* g_hooksActive
  step,     \* the entry of targets[] that umc_install_hooks is at, 0 outside it
  saved,    \* what patchIatEntry replaced and the loop has not stored yet
  owner,    \* who holds g_allocsMutex
  allocs,   \* g_allocs: per address the size recorded, 0 for none
  total,    \* g_totalAllocated
  peak,     \* g_peakAllocated
  pending,  \* g_pendingCreates: per handle the size recorded, 0 for none
  pc,       \* per thread, where in the current call it is
  job,      \* per thread, the arguments of that call
  memory,   \* the driver: the size of what is at each address, 0 for none
  behind,   \* the driver: the size of the physical memory behind it
  made,     \* the driver: the size of each handle, 0 for none
  held,     \* the addresses and handles that clients own
  missed,   \* history: what changed hands where no active hook saw it
  crashed   \* a hook called a null pointer, or itself

table  == <<iat, Real, active, step, saved>>
ledger == <<allocs, total, peak, pending>>
driver == <<memory, behind, made>>
vars   == <<table, owner, ledger, pc, job, driver, held, missed, crashed>>

Job   == [fn : Functions, size : Sizes, at : Addresses, h : Handles]
PCs   == {"idle", "direct", "hooked", "track", "untrack", "release", "pend", "bind",
          "rebind", "blocked"}

(* The arguments of a thread that is in no call. *)
AnyJob == CHOOSE j \in Job : j.fn \in AllocFns

CanFail(f) == f \in Faults

Init ==
  /\ iat = [fn \in Functions |-> "driver"]
  /\ Real = [fn \in Functions |-> "null"]
  /\ active = FALSE /\ step = 0 /\ saved = "none"
  /\ owner = NoThread
  /\ allocs = [a \in Addresses |-> 0]
  /\ total = 0 /\ peak = 0
  /\ pending = [h \in Handles |-> 0]
  /\ pc = [t \in Threads |-> "idle"]
  /\ job = [t \in Threads |-> AnyJob]
  /\ memory = [a \in Addresses |-> 0] /\ behind = [a \in Addresses |-> 0]
  /\ made = [h \in Handles |-> 0]
  /\ held = {} /\ missed = {} /\ crashed = FALSE

-----------------------------------------------------------------------------
(* umc_install_hooks and umc_uninstall_hooks.                                *)

Installing == step # 0
TargetFn   == Targets[step]

(* With g_hooksActive set the call returns at once.  Uninstalling leaves the *)
(* import table patched, so a second installation finds hooks in it.         *)
InstallHooks ==
  /\ ~Installing /\ ~active
  /\ Reinstall \/ \A fn \in Functions : iat[fn] = "driver"
  /\ step' = 1
  /\ UNCHANGED <<iat, Real, active, saved>>

SkipTarget ==
  /\ step \in 1 .. Len(Targets) /\ saved = "none"
  /\ TargetFn \notin Thunks \/ CanFail("VirtualProtect")
  /\ step' = step + 1
  /\ UNCHANGED <<iat, Real, active, saved>>

PatchIatEntry ==
  /\ step \in 1 .. Len(Targets) /\ saved = "none" /\ TargetFn \in Thunks
  /\ saved' = iat[TargetFn]
  /\ iat' = [iat EXCEPT ![TargetFn] = "hook"]
  /\ UNCHANGED <<Real, active, step>>

(* *(t.realOut) = t.original, after the entry was patched.                   *)
StoreReal ==
  /\ step \in 1 .. Len(Targets) /\ saved # "none"
  /\ Real' = [Real EXCEPT ![TargetFn] = saved]
  /\ saved' = "none" /\ step' = step + 1
  /\ UNCHANGED <<iat, active>>

Activate ==
  /\ step = Len(Targets) + 1
  /\ active' = TRUE /\ step' = 0
  /\ UNCHANGED <<iat, Real, saved>>

UninstallHooks ==
  /\ active
  /\ active' = FALSE
  /\ UNCHANGED <<iat, Real, step, saved>>

Installation ==
  /\ ~crashed
  /\ \/ InstallHooks \/ SkipTarget \/ PatchIatEntry \/ StoreReal \/ Activate \/ UninstallHooks
  /\ UNCHANGED <<owner, ledger, pc, job, driver, held, missed, crashed>>

-----------------------------------------------------------------------------
GoWith(t, l, j) == pc' = [pc EXCEPT ![t] = l] /\ job' = [job EXCEPT ![t] = j]
Goto(t, l) == GoWith(t, l, job[t])

(* A call goes through the import table, to the driver or to a hook.         *)
Enter(t, j) ==
  /\ ~crashed /\ pc[t] = "idle"
  /\ GoWith(t, IF iat[j.fn] = "hook" THEN "hooked" ELSE "direct", [j EXCEPT !.fn = RealOf(@)])

(* Clients allocate, free what they own, create handles, map them.           *)
CallAlloc(t) ==
  /\ \E fn \in AllocFns \cup {"cuMemCreate"}, s \in Sizes :
        /\ total + s <= MaxTotal
        /\ Enter(t, [AnyJob EXCEPT !.fn = fn, !.size = s])
  /\ UNCHANGED <<table, owner, ledger, driver, held, missed, crashed>>

CallFree(t) ==
  /\ \E fn \in FreeFns, p \in held \cap Ptrs :
        /\ Enter(t, [AnyJob EXCEPT !.fn = fn, !.at = p])
        /\ held' = held \ {p}
  /\ UNCHANGED <<table, owner, ledger, driver, missed, crashed>>

(* A mapping may be smaller than its handle, and a handle mapped more than   *)
(* once.                                                                     *)
CallMap(t) ==
  /\ \E h \in held \cap Handles, r \in Ranges \ held, s \in Sizes :
        /\ total + made[h] <= MaxTotal
        /\ Enter(t, [fn |-> "cuMemMap", size |-> s, at |-> r, h |-> h])
  /\ UNCHANGED <<table, owner, ledger, driver, held, missed, crashed>>

(* The Real_ pointer a hook is about to call is the driver's function.       *)
InDriver(t) == pc[t] \in {"direct", "hooked"}
Callable(t) == pc[t] = "direct" \/ Real[job[t].fn] = "driver"
Observed(t) == pc[t] = "hooked" /\ active

(* The call returns, with the things of S in the client's hands.             *)
Return(t, S) == GoWith(t, "idle", AnyJob) /\ held' = held \cup S

(* The driver has n bytes at p, of a physical allocation of m bytes.         *)
Occupy(p, n, m) ==
  /\ memory' = [memory EXCEPT ![p] = n]
  /\ behind' = [behind EXCEPT ![p] = m]

(* Mutant: the client has the pointer before the hook has recorded it.       *)
DriverAllocEarly(t, p) ==
  /\ InDriver(t) /\ Callable(t) /\ job[t].fn \in AllocFns
  /\ memory[p] = 0
  /\ Occupy(p, job[t].size, job[t].size)
  /\ held' = held \cup {p}
  /\ \/ Observed(t) /\ GoWith(t, "track", [job[t] EXCEPT !.at = p]) /\ UNCHANGED missed
     \/ ~Observed(t) /\ GoWith(t, "idle", AnyJob) /\ missed' = missed \cup {p}
  /\ UNCHANGED <<table, owner, ledger, made, crashed>>

DriverAlloc(t, p) ==
  /\ InDriver(t) /\ Callable(t) /\ job[t].fn \in AllocFns
  /\ memory[p] = 0
  /\ Occupy(p, job[t].size, job[t].size)
  /\ \/ Observed(t) /\ GoWith(t, "track", [job[t] EXCEPT !.at = p]) /\ UNCHANGED <<held, missed>>
     \/ ~Observed(t) /\ Return(t, {p}) /\ missed' = missed \cup {p}
  /\ UNCHANGED <<table, owner, ledger, made, crashed>>

DriverCreate(t, h) ==
  /\ InDriver(t) /\ Callable(t) /\ job[t].fn = "cuMemCreate"
  /\ made[h] = 0
  /\ made' = [made EXCEPT ![h] = job[t].size]
  /\ \/ Observed(t) /\ GoWith(t, "pend", [job[t] EXCEPT !.h = h]) /\ UNCHANGED <<held, missed>>
     \/ ~Observed(t) /\ Return(t, {h}) /\ missed' = missed \cup {h}
  /\ UNCHANGED <<table, owner, ledger, memory, behind, crashed>>

DriverMap(t) ==
  /\ InDriver(t) /\ Callable(t) /\ job[t].fn = "cuMemMap"
  /\ memory[job[t].at] = 0 /\ job[t].size <= made[job[t].h]
  /\ Occupy(job[t].at, job[t].size, made[job[t].h])
  /\ \/ Observed(t) /\ Goto(t, "bind") /\ UNCHANGED <<held, missed>>
     \/ ~Observed(t) /\ Return(t, {job[t].at}) /\ missed' = missed \cup {job[t].at}
  /\ UNCHANGED <<table, owner, ledger, made, crashed>>

(* The driver returns an error: it may always, and must if it has no address *)
(* or handle left, or was asked for a mapping that cannot be.                *)
DriverError(t) ==
  /\ InDriver(t) /\ Callable(t) /\ job[t].fn \notin FreeFns
  /\ \/ CanFail("driver")
     \/ job[t].fn \in AllocFns /\ \A p \in Ptrs : memory[p] # 0
     \/ job[t].fn = "cuMemCreate" /\ \A h \in Handles : made[h] # 0
     \/ /\ job[t].fn = "cuMemMap"
        /\ memory[job[t].at] # 0 \/ job[t].size > made[job[t].h]
  /\ Return(t, {})
  /\ UNCHANGED <<table, owner, ledger, driver, missed, crashed>>

(* A hook of an allocation calls its Real_ pointer first, one of a release   *)
(* after its trackFree.                                                      *)
Crash(t) ==
  /\ ~Callable(t)
  /\ pc[t] = "release" \/ (pc[t] = "hooked" /\ job[t].fn \notin FreeFns)
  /\ crashed' = TRUE
  /\ UNCHANGED <<table, owner, ledger, pc, job, driver, held, missed>>

-----------------------------------------------------------------------------
(* The ledger: one critical section of g_allocsMutex each.                   *)

MayLock == owner = NoThread

(* trackAlloc: an entry that is there already is overwritten, its size stays *)
(* in the total.                                                             *)
Record(p, s) ==
  /\ allocs' = [allocs EXCEPT ![p] = s]
  /\ total' = total + s
  /\ peak' = IF total + s > peak THEN total + s ELSE peak

TrackAlloc(t) ==
  /\ pc[t] = "track" /\ MayLock
  /\ Record(job[t].at, job[t].size)
  /\ Return(t, {job[t].at})
  /\ UNCHANGED <<table, owner, pending, driver, missed, crashed>>

(* Hook_cuMemFree_v2 reads g_hooksActive before anything else.               *)
HookFree(t) ==
  /\ pc[t] = "hooked" /\ job[t].fn \in FreeFns
  /\ \/ active /\ Goto(t, "untrack") /\ UNCHANGED missed
     \/ ~active /\ Goto(t, "release") /\ missed' = missed \cup {job[t].at}
  /\ UNCHANGED <<table, owner, ledger, driver, held, crashed>>

(* Mutant: the entry is erased and the total left as it is.                  *)
TrackFreeKeepingTotal(t) ==
  /\ pc[t] = "untrack" /\ MayLock
  /\ allocs' = [allocs EXCEPT ![job[t].at] = 0]
  /\ Goto(t, "release")
  /\ UNCHANGED <<table, owner, total, peak, pending, driver, held, missed, crashed>>

TrackFree(t) ==
  /\ pc[t] = "untrack" /\ MayLock
  /\ total' = total - allocs[job[t].at]
  /\ allocs' = [allocs EXCEPT ![job[t].at] = 0]
  /\ Goto(t, "release")
  /\ UNCHANGED <<table, owner, peak, pending, driver, held, missed, crashed>>

Releasing(t) == job[t].fn \in FreeFns /\ pc[t] \in {"release", "direct"} /\ Callable(t)

DriverFree(t) ==
  /\ Releasing(t)
  /\ Occupy(job[t].at, 0, 0)
  /\ missed' = IF pc[t] = "direct" THEN missed \cup {job[t].at} ELSE missed
  /\ Return(t, {})
  /\ UNCHANGED <<table, owner, ledger, made, crashed>>

(* The driver refuses: the client still owns memory that the hook has struck *)
(* off the ledger.                                                           *)
DriverFreeError(t) ==
  /\ Releasing(t) /\ CanFail("driver")
  /\ Return(t, {job[t].at})
  /\ missed' = missed \cup {job[t].at}
  /\ UNCHANGED <<table, owner, ledger, driver, crashed>>

(* Mutant: the size is added to what the handle's entry holds.               *)
PendCreateAdding(t) ==
  /\ pc[t] = "pend" /\ MayLock
  /\ pending' = [pending EXCEPT ![job[t].h] = @ + job[t].size]
  /\ Return(t, {job[t].h})
  /\ UNCHANGED <<table, owner, allocs, total, peak, driver, missed, crashed>>

(* g_pendingCreates[*handle] = { *handle, size }                             *)
PendCreate(t) ==
  /\ pc[t] = "pend" /\ MayLock
  /\ pending' = [pending EXCEPT ![job[t].h] = job[t].size]
  /\ Return(t, {job[t].h})
  /\ UNCHANGED <<table, owner, allocs, total, peak, driver, missed, crashed>>

(* Hook_cuMemMap locks g_allocsMutex and calls trackAlloc, which locks it.   *)
BindMap(t) ==
  /\ pc[t] = "bind" /\ MayLock
  /\ owner' = t
  /\ Goto(t, "rebind")
  /\ UNCHANGED <<table, ledger, driver, held, missed, crashed>>

(* The first mapping of a handle is recorded with the size of the handle,    *)
(* whatever the size it asks for; a further one with its own.                *)
MapSize(t) == IF pending[job[t].h] # 0 THEN pending[job[t].h] ELSE job[t].size

RelockProceeds(t) ==
  /\ pc[t] = "rebind" /\ "proceeds" \in Relock
  /\ Record(job[t].at, MapSize(t))
  /\ pending' = [pending EXCEPT ![job[t].h] = 0]
  /\ missed' = IF pending[job[t].h] # 0 /\ job[t].h \in missed
               THEN missed \cup {job[t].at} ELSE missed
  /\ owner' = NoThread
  /\ Return(t, {job[t].at})
  /\ UNCHANGED <<table, driver, crashed>>

(* Mutant: lock() and unlock() in place of lock_guard.                       *)
RelockThrowsLocked(t) ==
  /\ pc[t] = "rebind" /\ "throws" \in Relock
  /\ missed' = missed \cup {job[t].at}
  /\ Return(t, {job[t].at})
  /\ UNCHANGED <<table, owner, ledger, driver, crashed>>

(* std::system_error leaves the hook; lock_guard releases the outer lock.    *)
RelockThrows(t) ==
  /\ pc[t] = "rebind" /\ "throws" \in Relock
  /\ missed' = missed \cup {job[t].at}
  /\ owner' = NoThread
  /\ Return(t, {job[t].at})
  /\ UNCHANGED <<table, ledger, driver, crashed>>

RelockBlocks(t) ==
  /\ pc[t] = "rebind" /\ "blocks" \in Relock
  /\ Goto(t, "blocked")
  /\ UNCHANGED <<table, owner, ledger, driver, held, missed, crashed>>

(* cuMemFreeAsync, cuMemUnmap and cuMemRelease have no hook.                 *)
ReleaseUnhooked(p) ==
  /\ ~crashed /\ p \in held \cap Addresses
  /\ Occupy(p, 0, 0)
  /\ missed' = missed \cup {p}
  /\ held' = held \ {p}
  /\ UNCHANGED <<table, owner, ledger, pc, job, made, crashed>>

Mapping(t, h) == pc[t] # "idle" /\ job[t].fn = "cuMemMap" /\ job[t].h = h

(* A client keeps a handle until its calls with it have returned.            *)
ReleaseHandle(h) ==
  /\ ~crashed /\ h \in held /\ \A t \in Threads : ~Mapping(t, h)
  /\ made' = [made EXCEPT ![h] = 0]
  /\ held' = held \ {h}
  /\ missed' = IF pending[h] = 0 THEN missed ELSE missed \cup {h}
  /\ UNCHANGED <<table, owner, ledger, pc, job, memory, behind, crashed>>

ResetPeak ==
  /\ ~crashed /\ MayLock
  /\ peak' = total
  /\ UNCHANGED <<table, owner, allocs, total, pending, pc, job, driver, held, missed, crashed>>

-----------------------------------------------------------------------------
Call(t) == CallAlloc(t) \/ CallFree(t) \/ CallMap(t)

Step(t) ==
  /\ ~crashed
  /\ \/ \E p \in Ptrs : DriverAlloc(t, p)
     \/ \E h \in Handles : DriverCreate(t, h)
     \/ DriverMap(t) \/ DriverError(t) \/ Crash(t)
     \/ TrackAlloc(t) \/ PendCreate(t)
     \/ HookFree(t) \/ TrackFree(t) \/ DriverFree(t) \/ DriverFreeError(t)
     \/ BindMap(t) \/ RelockProceeds(t) \/ RelockThrows(t) \/ RelockBlocks(t)

Halted == (crashed \/ \E t \in Threads : pc[t] = "blocked") /\ UNCHANGED vars

Next ==
  \/ Installation
  \/ \E t \in Threads : Call(t) \/ Step(t)
  \/ \E p \in Addresses : ReleaseUnhooked(p)
  \/ \E h \in Handles : ReleaseHandle(h)
  \/ ResetPeak
  \/ Halted

Spec == Init /\ [][Next]_vars

-----------------------------------------------------------------------------
TypeOK ==
  /\ iat \in [Functions -> {"driver", "hook"}]
  /\ Real \in [Functions -> {"null", "driver", "hook"}]
  /\ active \in BOOLEAN
  /\ step \in 0 .. Len(Targets) + 1
  /\ saved \in {"none", "driver", "hook"}
  /\ owner \in Threads \cup {NoThread}
  /\ allocs \in [Addresses -> Sizes \cup {0}] /\ total \in Int /\ peak \in Int
  /\ pending \in [Handles -> Sizes \cup {0}]
  /\ pc \in [Threads -> PCs]
  /\ job \in [Threads -> Job]
  /\ memory \in [Addresses -> Sizes \cup {0}] /\ behind \in [Addresses -> Sizes \cup {0}]
  /\ made \in [Handles -> Sizes \cup {0}]
  /\ held \subseteq Addresses \cup Handles
  /\ missed \subseteq Addresses \cup Handles
  /\ crashed \in BOOLEAN

(* The size the ledger has for an address: that of the allocation; for a     *)
(* mapping its own or that of the whole handle behind it, which trackAlloc   *)
(* gets when the handle's creation is still pending.                         *)
Recorded(p) == allocs[p] = memory[p] \/ (p \in Ranges /\ allocs[p] = behind[p])

(* An address nobody released, allocated or mapped out of sight of an active *)
(* hook is in the ledger exactly while a client owns it: the hooks record    *)
(* after the driver gave the memory and before the client can free it, and   *)
(* strike it off before the driver can give it to another.  The ledger has   *)
(* the size of an allocation; of a mapping never less than what is mapped    *)
(* nor other than the mapping's or the handle's.                             *)
LedgerAccurate ==
  \A p \in Addresses \ missed :
    /\ p \in held => memory[p] \in 1 .. allocs[p] /\ Recorded(p)
    /\ allocs[p] # 0 => /\ Recorded(p) /\ memory[p] # 0
                        /\ p \in held \/ \E t \in Threads : pc[t] # "idle" /\ job[t].at = p

(* The size_t total never wraps below what the ledger lists, the peak never  *)
(* lags behind it, and it drifts from the sum of the entries only once       *)
(* something was missed (trackAlloc overwrites an entry it does not expect). *)
CountersSound ==
  /\ SumFunction(allocs) <= total /\ total <= peak
  /\ missed = {} => total = SumFunction(allocs)

(* A thread inside Hook_cuMemMap is the only one in the ledger, and an       *)
(* exception there does not leave the mutex locked.                          *)
MutexSound == \A t \in Threads : pc[t] \in {"rebind", "blocked"} <=> owner = t

(* A call comes to a hook without a driver to call only between the patch of *)
(* an entry and the store of its pointer, and only a call of that function:  *)
(* the hook of a legacy name, which calls the one of the _v2 name, is        *)
(* published after it.  (With exports whose _v2 names are thunks when they   *)
(* are, no failing VirtualProtect and one installation.)                     *)
CrashesInWindow ==
  [][~crashed /\ crashed' =>
       /\ saved # "none"
       /\ \E t \in Threads : pc[t] # "idle" /\ job[t].fn = TargetFn]_vars

(* The inductive invariant behind LedgerAccurate.                            *)

(* The thread has the address to itself: the driver gave it and the client   *)
(* does not have it yet, or the client gave it up and the driver not yet.    *)
Owns(t, p) ==
  /\ job[t].at = p
  /\ \/ pc[t] \in {"track", "bind", "rebind", "blocked", "untrack", "release"}
     \/ InDriver(t) /\ job[t].fn \in FreeFns

(* Memory has one owner, a client or a thread in a call.                     *)
OneOwner(p) ==
  /\ p \in held => memory[p] # 0 /\ \A t \in Threads : ~Owns(t, p)
  /\ \A t \in Threads : Owns(t, p) => memory[p] # 0 /\ \A u \in Threads \ {t} : ~Owns(u, p)
  /\ memory[p] # 0 => p \in held \/ \E t \in Threads : Owns(t, p)

(* What the ledger says of an address where nothing was missed.              *)
EntrySound(p) ==
  p \notin missed =>
    /\ p \in held => Recorded(p)
    /\ \A t \in Threads : Owns(t, p) =>
          IF InDriver(t) \/ pc[t] = "untrack" THEN Recorded(p) ELSE allocs[p] = 0
    /\ memory[p] = 0 => allocs[p] = 0

(* No more is mapped than there is.                                          *)
BackedSound(p) == memory[p] <= behind[p]

(* The sizes a thread is about to record are what the driver gave and what   *)
(* it took that from.                                                        *)
SizeSound(t) ==
  /\ pc[t] \in {"track", "bind", "rebind"} => memory[job[t].at] = job[t].size
  /\ pc[t] \in {"bind", "rebind"} =>
        job[t].fn = "cuMemMap" /\ job[t].at \in Ranges /\ behind[job[t].at] = made[job[t].h]
  /\ pc[t] = "pend" => made[job[t].h] = job[t].size /\ job[t].h \notin held
  /\ pc[t] = "pend" => \A u \in Threads \ {t} : ~(pc[u] = "pend" /\ job[u].h = job[t].h)

HandleSound(h) ==
  /\ h \in held => made[h] # 0
  /\ pending[h] # 0 /\ h \notin missed => made[h] = pending[h]
  /\ \A t \in Threads : Mapping(t, h) => made[h] # 0 /\ job[t].at \in Ranges

IInv ==
  /\ TypeOK /\ MutexSound
  /\ \A p \in Addresses : OneOwner(p) /\ EntrySound(p) /\ BackedSound(p)
  /\ \A t \in Threads : SizeSound(t)
  /\ \A h \in Handles : HandleSound(h)

(* How far a first installation is: entries it has not come to are as they   *)
(* were, what it replaced is the driver's, and a patched entry has a pointer *)
(* to call but for the one in hand.                                          *)
InHand(fn) == saved # "none" /\ fn = TargetFn
Ahead(i)   == step # 0 /\ (step < i \/ (step = i /\ saved = "none"))

InstallSound ==
  /\ saved \in {"none", "driver"}
  /\ saved # "none" => step \in 1 .. Len(Targets) /\ iat[TargetFn] = "hook"
  /\ \A i \in 1 .. Len(Targets) : Ahead(i) => iat[Targets[i]] = "driver"
  /\ \A fn \in Functions : Real[fn] \in {"null", "driver"}
  /\ \A fn \in Functions : iat[fn] = "hook" => Real[fn] = "driver" \/ InHand(fn)

(* Behind it every thunk is patched, so a legacy name's hook has the _v2     *)
(* hook's pointer, and so has the call of every thread that is in a hook.    *)
LegacyBacked ==
  /\ \A i \in 1 .. Len(Targets) :
        i < step /\ Targets[i] \in Thunks => iat[Targets[i]] = "hook"
  /\ \A fn \in Functions : iat[fn] = "hook" => iat[RealOf(fn)] = "hook"
  /\ \A t \in Threads :
        pc[t] \in {"hooked", "untrack", "release"} => iat[job[t].fn] = "hook"

(* Only exports that are thunks get a hook.                                  *)
ThunksHooked ==
  /\ \A fn \in Functions : iat[fn] = "hook" => fn \in Thunks
  /\ \A t \in Threads : pc[t] = "hooked" /\ job[t].fn = "cuMemMap" => "cuMemMap" \in Thunks
  /\ \A t \in Threads : pc[t] \in {"bind", "rebind"} => "cuMemMap" \in Thunks

(* No thread locks a std::mutex that it holds.                               *)
NoRelock == \A t \in Threads : pc[t] = "rebind" => owner # t

(* The pointers that hooks call are the driver's own functions.              *)
RealIsOriginal == \A fn \in Functions : Real[fn] \in {"null", "driver"}
=============================================================================
