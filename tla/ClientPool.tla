----------------------------- MODULE ClientPool -----------------------------
(***************************************************************************)
(* The pool of client handles (memcached_st) that threads share:           *)
(* libmemcachedutil/pool.cc.  A handle is not thread safe, so a thread     *)
(* fetches one, uses it alone and releases it.                             *)
(*                                                                         *)
(* Everything a call does between pthread_mutex_lock and the unlock is one *)
(* step; pthread_cond_timedwait gives the mutex up, so a fetch that waits  *)
(* is cut there.  server_pool[0 .. firstfree] is the sequence pool, its    *)
(* last element on top.                                                    *)
(***************************************************************************)
EXTENDS Naturals, FiniteSets, Sequences, SequencesExt

CONSTANTS
    Threads,
    Handles,        \* the memcached_st objects the allocator can give out
    Size,           \* max: how many handles the pool may hand out
    Flags,          \* the behaviours that memcached_pool_behavior_set sets
    Copied,         \* the behaviours that memcached_clone copies
    Unset,          \* a field memcached_create leaves as the allocator gave it
    Failures,       \* whether allocations may fail
    MaxChanges      \* bound: how often behaviours are changed

ASSUME PoolAssumption ==
    /\ Size \in Nat \ {0} /\ MaxChanges \in Nat
    /\ Copied \subseteq Flags
    /\ Unset \notin 0..MaxChanges
    /\ Failures \in BOOLEAN

VARIABLES
    open,           \* the pool exists
    pool,           \* server_pool[0 .. firstfree]
    currentSize,    \* current_size
    version,        \* master->configure.version
    master,         \* flag -> the change that set it last on the master
    handle,         \* handle -> its version and settings
    pc,             \* what the thread is doing in the pool
    held,           \* thread -> the handles it has fetched
    changed,        \* history: the behaviour that was changed last
    failed          \* history: a clone has failed

vars == <<open, pool, currentSize, version, master, handle, pc, held, changed, failed>>

Free == Range(pool)

Out == UNION {held[t] : t \in Threads}

Live == Free \cup Out

Blank == [ver |-> 0, set |-> [f \in Flags |-> Unset]]

\* memcached_clone: a handle with the master's version; a behaviour it does not
\* copy is left as memcached_create made it.
Clone == [ver |-> version, set |-> [f \in Flags |-> IF f \in Copied THEN master[f] ELSE Unset]]

Init ==
    /\ open = FALSE
    /\ pool = <<>> /\ currentSize = 0
    /\ version = 0
    /\ master = [f \in Flags |-> 0]
    /\ handle = [h \in Handles |-> Blank]
    /\ pc = [t \in Threads |-> "idle"]
    /\ held = [t \in Threads |-> {}]
    /\ changed \in Flags
    /\ failed = FALSE

----------------------------------------------------------------------------
\* memcached_pool_create: up to `initial' clones of the master; a failed
\* allocation ends the loop and is not fatal.
Create(initial) ==
    /\ ~open /\ Live = {}
    /\ \E n \in 0..initial : \E s \in [1..n -> Handles] :
          /\ n < initial => Failures
          /\ IsInjective(s)
          /\ pool' = s
          /\ currentSize' = n
          /\ handle' = [h \in Handles |-> IF h \in Range(s) THEN Clone ELSE Blank]
          /\ failed' = (failed \/ n < initial)
    /\ open' = TRUE
    /\ UNCHANGED <<version, master, pc, held, changed>>

\* memcached_pool_destroy frees the handles that are free.  No thread may be
\* inside a fetch; threads that hold a handle keep it.
Destroy ==
    /\ open /\ \A t \in Threads : pc[t] = "idle"
    /\ open' = FALSE
    /\ pool' = <<>> /\ currentSize' = 0
    /\ handle' = [h \in Handles |-> IF h \in Free THEN Blank ELSE handle[h]]
    /\ UNCHANGED <<version, master, pc, held, changed, failed>>

\* memcached_free of a handle that has outlived its pool.
FreeHandle(t, h) ==
    /\ ~open /\ h \in held[t]
    /\ held' = [held EXCEPT ![t] = @ \ {h}]
    /\ handle' = [handle EXCEPT ![h] = Blank]
    /\ UNCHANGED <<open, pool, currentSize, version, master, pc, changed, failed>>

----------------------------------------------------------------------------
(***************************************************************************)
(* Fetch.                                                                  *)
(***************************************************************************)
Finish(t) == pc' = [pc EXCEPT ![t] = "idle"]

\* A plausible slip: the top of the stack is read and not popped.
MutTake(t, s) ==
    /\ pool' = s
    /\ held' = [held EXCEPT ![t] = @ \cup {Last(s)}]
    /\ Finish(t)

\* ret = server_pool[firstfree--]
Take(t, s) ==
    /\ pool' = Front(s)
    /\ held' = [held EXCEPT ![t] = @ \cup {Last(s)}]
    /\ Finish(t)

\* A plausible slip: the size is looked at after the pool has grown.
MutMayGrow == currentSize <= Size

MayGrow == currentSize # Size

\* grow_pool, and the pop of the handle it has pushed.
Grow(t) ==
    /\ MayGrow
    /\ \/ \E h \in Handles \ Live :
             /\ handle' = [handle EXCEPT ![h] = Clone]
             /\ currentSize' = currentSize + 1
             /\ Take(t, Append(pool, h))
             /\ UNCHANGED failed
       \/ /\ Failures                 \* NULL is returned
          /\ failed' = TRUE
          /\ Finish(t)
          /\ UNCHANGED <<pool, held, handle, currentSize>>

\* One turn of the loop in memcached_pool_st::fetch.
Turn(t, block) ==
    /\ \/ /\ pool # <<>>
          /\ Take(t, pool)
          /\ UNCHANGED <<handle, currentSize, failed>>
       \/ /\ pool = <<>> /\ ~MayGrow
          /\ pc' = [pc EXCEPT ![t] = IF block THEN "waiting" ELSE "idle"]
          /\ UNCHANGED <<pool, held, handle, currentSize, failed>>
       \/ pool = <<>> /\ Grow(t)
    /\ UNCHANGED <<open, version, master, changed>>

\* memcached_pool_fetch, memcached_pool_pop: `block' if a time to wait is given.
Fetch(t, block) ==
    /\ open /\ pc[t] = "idle"
    /\ Turn(t, block)

\* The wait was signalled, or ends for no reason; the mutex is not ours yet.
WakeUp(t) ==
    /\ pc[t] = "waiting"
    /\ pc' = [pc EXCEPT ![t] = "woken"]
    /\ UNCHANGED <<open, pool, currentSize, version, master, handle, held, changed, failed>>

\* Another turn, with a new deadline if it has to wait again.
Retry(t) ==
    /\ pc[t] = "woken"
    /\ Turn(t, TRUE)

\* A plausible slip: pthread_cond_wait, which has no deadline.
MutTimeout(t) == FALSE

\* ETIMEDOUT: NULL is returned, whatever has been released in the meantime.
Timeout(t) ==
    /\ pc[t] = "waiting"
    /\ Finish(t)
    /\ UNCHANGED <<open, pool, currentSize, version, master, handle, held, changed, failed>>

----------------------------------------------------------------------------
(***************************************************************************)
(* Release.                                                                *)
(***************************************************************************)
\* A plausible slip: pthread_cond_signal instead of pthread_cond_broadcast.
MutWake ==
    \/ \E t \in Threads : pc[t] = "waiting" /\ pc' = [pc EXCEPT ![t] = "woken"]
    \/ (\A t \in Threads : pc[t] # "waiting") /\ UNCHANGED pc

\* pthread_cond_broadcast
Wake == pc' = [t \in Threads |-> IF pc[t] = "waiting" THEN "woken" ELSE pc[t]]

\* The handle is as old as the pool, or it is replaced by a new clone of the
\* master; if that fails it is kept.
Renewed(h) ==
    IF handle[h].ver = version THEN {h}
    ELSE (Handles \ Live) \cup (IF Failures THEN {h} ELSE {})

Release(t, h) ==
    /\ open /\ pc[t] = "idle" /\ h \in held[t]
    /\ \E g \in Renewed(h) :
          /\ pool' = Append(pool, g)
          /\ handle' = IF g = h THEN handle ELSE [handle EXCEPT ![g] = Clone, ![h] = Blank]
          /\ failed' = (failed \/ (g = h /\ handle[h].ver # version))
    /\ held' = [held EXCEPT ![t] = @ \ {h}]
    /\ IF pool = <<>> /\ currentSize = Size THEN Wake ELSE UNCHANGED pc
    /\ UNCHANGED <<open, currentSize, version, master, changed>>

----------------------------------------------------------------------------
(***************************************************************************)
(* memcached_pool_behavior_set: the master, then every free handle, in     *)
(* place; a handle on which the call fails is replaced by a clone, and     *)
(* kept as it is if that fails too.                                        *)
(***************************************************************************)
\* A plausible slip: the loop runs over all the slots that were ever used.
MutUpdated == Live

Updated == Free

\* A plausible slip: increment_version is forgotten.
MutNewVersion == version

NewVersion == version + 1

BehaviorSet(f) ==
    /\ open /\ version < MaxChanges
    /\ version' = NewVersion
    /\ master' = [master EXCEPT ![f] = version + 1]
    /\ changed' = f
    /\ \E new \in [DOMAIN pool -> Handles], kept \in SUBSET Free :
          /\ IsInjective(new) /\ Range(new) \cap Out = {}
          /\ \A i \in DOMAIN pool : new[i] \in Free => new[i] = pool[i]
          /\ new # pool => Failures
          /\ kept # {} => Failures
          /\ kept \subseteq Range(new)
          /\ pool' = new
          /\ failed' = (failed \/ kept # {})
          /\ handle' = [h \in Handles |->
                IF h \in Range(new) \ Live THEN [ver |-> NewVersion,
                        set |-> [g \in Flags |-> IF g \in Copied THEN master'[g] ELSE Unset]]
                ELSE IF h \in Free \ Range(new) THEN Blank
                ELSE IF h \in Updated \ kept THEN [ver |-> NewVersion,
                        set |-> [handle[h].set EXCEPT ![f] = version + 1]]
                ELSE handle[h]]
    /\ UNCHANGED <<open, currentSize, pc, held>>

----------------------------------------------------------------------------
InPool(t) == WakeUp(t) \/ Retry(t) \/ Timeout(t)

Next ==
    \/ \E n \in 1..Size : Create(n)
    \/ Destroy
    \/ \E f \in Flags : BehaviorSet(f)
    \/ \E t \in Threads :
          \/ InPool(t)
          \/ \E block \in BOOLEAN : Fetch(t, block)
          \/ \E h \in Handles : Release(t, h) \/ FreeHandle(t, h)

Spec == Init /\ [][Next]_vars

\* A thread that is inside a fetch keeps running: it gets the mutex when it has
\* been woken, and its wait has a deadline.
FairSpec == Spec /\ \A t \in Threads : WF_vars(Retry(t)) /\ WF_vars(Timeout(t))

----------------------------------------------------------------------------
Setting == (0..MaxChanges) \cup {Unset}

(***************************************************************************)
(* Type invariant.                                                         *)
(***************************************************************************)
TypeOK ==
    /\ open \in BOOLEAN
    /\ pool \in Seq(Handles)
    /\ currentSize \in 0..Size          \* server_pool[] has Size slots
    /\ version \in 0..MaxChanges
    /\ master \in [Flags -> 0..MaxChanges]
    /\ handle \in [Handles -> [ver : 0..MaxChanges, set : [Flags -> Setting]]]
    /\ pc \in [Threads -> {"idle", "waiting", "woken"}]
    /\ held \in [Threads -> SUBSET Handles]
    /\ changed \in Flags
    /\ failed \in BOOLEAN

(***************************************************************************)
(* A handle has one owner: it lies in one slot of the pool or is held by   *)
(* one thread, however handles are replaced by clones in between.          *)
(***************************************************************************)
OneOwner ==
    /\ IsInjective(pool)
    /\ \A t \in Threads : held[t] \cap Free = {}
    /\ \A t, u \in Threads : t # u => held[t] \cap held[u] = {}

(***************************************************************************)
(* No handle is lost or counted twice: while the pool exists, those in it  *)
(* and those that are out are current_size.                                *)
(***************************************************************************)
NoneLost ==
    open => Len(pool) + Cardinality(Out) = currentSize

(***************************************************************************)
(* No wakeup is lost: nobody waits unsignalled while a handle is free,     *)
(* although release broadcasts only for the first handle that comes back.  *)
(***************************************************************************)
NoLostWakeup ==
    \A t \in Threads : pc[t] = "waiting" => pool = <<>> /\ ~MayGrow

(***************************************************************************)
(* compare_version can be relied on: a handle with the pool's version has  *)
(* the pool's value of the behaviour that was changed last, and of every   *)
(* behaviour if no clone ever failed, as far as clones copy it.            *)
(***************************************************************************)
VersionMeansSettings ==
    \A h \in Live : open /\ handle[h].ver = version =>
        \A f \in Copied : (f = changed \/ ~failed) => handle[h].set[f] = master[f]

(***************************************************************************)
(* A handle that a thread has fetched is its own: no other thread's call,  *)
(* memcached_pool_behavior_set included, changes or frees it.              *)
(***************************************************************************)
HeldUntouched ==
    [][\A t \in Threads : \A h \in held[t] \cap held'[t] : handle'[h] = handle[h]]_vars

(***************************************************************************)
(* A fetch that waits returns, with a handle or after its timeout, unless  *)
(* it is woken over and over to find that others took the handle first     *)
(* (every turn of the loop waits for the whole time again).                *)
(***************************************************************************)
WaitsEndUnlessOvertaken ==
    \A t \in Threads :
        <>[](pc[t] # "idle") => []<>(pc[t] = "woken" /\ pool = <<>>)

(***************************************************************************)
(* memcached_pool(3): "memcached_pool_behavior_set() is used to get/set    *)
(* behavior flags on all connections in the pool."                         *)
(***************************************************************************)
AllConnectionsSet ==
    \A h \in Free : \A f \in Flags : master[f] > 0 => handle[h].set[f] = master[f]
============================================================================
