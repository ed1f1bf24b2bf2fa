---------------------------- MODULE RecursiveMutex ----------------------------
(***************************************************************************)
(* kernel::RecursiveMutex (src/kernel/src/locking/recursive_mutex.cpp).    *)
(* An atomic counter of outstanding lock() calls gives the free lock to the *)
(* first caller; the others queue on a semaphore that starts at 0, and the  *)
(* owner's last unlock() hands the lock over by releasing it once.  f_owner *)
(* and f_recursion are plain fields, written by whoever holds the lock and  *)
(* f_owner is read by everyone, so each access is a step of its own.        *)
(***************************************************************************)
EXTENDS Integers, FiniteSets

CONSTANTS
    Threads,    \* the tids that use the mutex
    NoOwner,    \* the value 0 of f_owner: no thread has tid 0
    MaxDepth    \* bound on the nesting of lock() in one thread

ASSUME MutexAssumption ==
    /\ IsFiniteSet(Threads)
    /\ NoOwner \notin Threads
    /\ MaxDepth \in Nat \ {0}

VARIABLES
    f_counter, f_recursion, f_owner,    \* the fields of the mutex
    f_current, at,                      \* its semaphore, see Semaphore
    pc,                                 \* where each thread is in lock()/unlock()/try_lock()
    r,                                  \* unlock()'s local copy of the recursion count
    depth                               \* how many lock() calls each caller has open

semVars == <<f_current, at>>
vars == <<f_counter, f_recursion, f_owner, f_current, at, pc, r, depth>>

f_semaphore == INSTANCE Semaphore WITH f_max <- 1, Initial <- 0

\* "rest": in the caller, between calls.
Pcs == {"rest", "add", "owned?", "acquire", "own", "nest",
        "unnest", "disown", "sub", "release", "try", "tryadd", "trycas"}

Init ==
    /\ f_counter = 0
    /\ f_recursion = 0
    /\ f_owner = NoOwner
    /\ f_semaphore!Init
    /\ pc = [t \in Threads |-> "rest"]
    /\ r = [t \in Threads |-> 0]
    /\ depth = [t \in Threads |-> 0]

Goto(t, l) == pc' = [pc EXCEPT ![t] = l]

-----------------------------------------------------------------------------
\* Mutated forms of the steps below: plausible slips in recursive_mutex.cpp that
\* the properties must detect.  Spec does not use them.

\* Variant: lock() waits on the semaphore whoever the owner is.
MutCheckOwner(t) ==
    /\ pc[t] = "owned?"
    /\ f_semaphore!Call(t)
    /\ Goto(t, "acquire")
    /\ UNCHANGED <<f_counter, f_recursion, f_owner, r, depth>>

\* Variant: unlock() hands over on every level, not only on the outermost.
MutSubCounter(t) ==
    /\ pc[t] = "sub"
    /\ f_counter' = f_counter - 1
    /\ Goto(t, IF f_counter > 1 THEN "release" ELSE "rest")
    /\ UNCHANGED <<f_recursion, f_owner, semVars, r, depth>>

\* Variant: unlock() forgets the threads that wait.
MutNoHandOver(t) ==
    /\ pc[t] = "sub"
    /\ f_counter' = f_counter - 1
    /\ Goto(t, "rest")
    /\ UNCHANGED <<f_recursion, f_owner, semVars, r, depth>>

-----------------------------------------------------------------------------
(* lock() *)

\* The caller may nest: it calls lock() again while it holds the lock.
CallLock(t) ==
    /\ pc[t] = "rest"
    /\ depth[t] < MaxDepth
    /\ Goto(t, "add")
    /\ UNCHANGED <<f_counter, f_recursion, f_owner, semVars, r, depth>>

\* if(atomic_fetch_add(&f_counter, 1) > 0)
AddCounter(t) ==
    /\ pc[t] = "add"
    /\ f_counter' = f_counter + 1
    /\ Goto(t, IF f_counter > 0 THEN "owned?" ELSE "own")
    /\ UNCHANGED <<f_recursion, f_owner, semVars, r, depth>>

\* if(tid != f_owner) f_semaphore.acquire();
CheckOwner(t) ==
    /\ pc[t] = "owned?"
    /\ IF f_owner # t
       THEN f_semaphore!Call(t) /\ Goto(t, "acquire")
       ELSE Goto(t, "own") /\ UNCHANGED semVars
    /\ UNCHANGED <<f_counter, f_recursion, f_owner, r, depth>>

\* The spin inside f_semaphore.acquire() ...
Spin(t) ==
    /\ pc[t] = "acquire"
    /\ f_semaphore!Load(t) \/ f_semaphore!Undo(t)
    /\ UNCHANGED <<f_counter, f_recursion, f_owner, pc, r, depth>>

\* ... and its decrement, which lets the thread through or not.
Acquire(t) ==
    /\ pc[t] = "acquire"
    /\ f_semaphore!Sub(t)
    /\ Goto(t, IF f_current > 0 THEN "own" ELSE "acquire")
    /\ UNCHANGED <<f_counter, f_recursion, f_owner, r, depth>>

\* f_owner = tid;
SetOwner(t) ==
    /\ pc[t] = "own"
    /\ f_owner' = t
    /\ Goto(t, "nest")
    /\ UNCHANGED <<f_counter, f_recursion, semVars, r, depth>>

\* ++f_recursion; and lock() returns.
Nest(t) ==
    /\ pc[t] = "nest"
    /\ f_recursion' = f_recursion + 1
    /\ depth' = [depth EXCEPT ![t] = @ + 1]
    /\ Goto(t, "rest")
    /\ UNCHANGED <<f_counter, f_owner, semVars, r>>

-----------------------------------------------------------------------------
(* unlock(): only a thread that locked calls it; its assertion is OwnerAssert. *)

CallUnlock(t) ==
    /\ pc[t] = "rest"
    /\ depth[t] > 0
    /\ Goto(t, "unnest")
    /\ UNCHANGED <<f_counter, f_recursion, f_owner, semVars, r, depth>>

\* u32_t r = --f_recursion;
Unnest(t) ==
    /\ pc[t] = "unnest"
    /\ f_recursion' = f_recursion - 1
    /\ r' = [r EXCEPT ![t] = f_recursion - 1]
    /\ depth' = [depth EXCEPT ![t] = @ - 1]
    /\ Goto(t, "disown")
    /\ UNCHANGED <<f_counter, f_owner, semVars>>

\* if(r == 0) f_owner = 0;
Disown(t) ==
    /\ pc[t] = "disown"
    /\ f_owner' = IF r[t] = 0 THEN NoOwner ELSE f_owner
    /\ Goto(t, "sub")
    /\ UNCHANGED <<f_counter, f_recursion, semVars, r, depth>>

\* if(atomic_fetch_add(&f_counter, -1) > 1) { if(r == 0) ...
SubCounter(t) ==
    /\ pc[t] = "sub"
    /\ f_counter' = f_counter - 1
    /\ Goto(t, IF f_counter > 1 /\ r[t] = 0 THEN "release" ELSE "rest")
    /\ UNCHANGED <<f_recursion, f_owner, semVars, r, depth>>

\* ... f_semaphore.release(); }
HandOver(t) ==
    /\ pc[t] = "release"
    /\ f_semaphore!Release(t)
    /\ Goto(t, "rest")
    /\ UNCHANGED <<f_counter, f_recursion, f_owner, r, depth>>

-----------------------------------------------------------------------------
(* try_lock() *)

\* if(f_owner == tid)
CallTryLock(t) ==
    /\ pc[t] = "rest"
    /\ depth[t] < MaxDepth
    /\ Goto(t, IF f_owner = t THEN "tryadd" ELSE "trycas")
    /\ UNCHANGED <<f_counter, f_recursion, f_owner, semVars, r, depth>>

\* atomic_fetch_add(&f_counter, 1): f_owner already is this thread.
TryAdd(t) ==
    /\ pc[t] = "tryadd"
    /\ f_counter' = f_counter + 1
    /\ Goto(t, "nest")
    /\ UNCHANGED <<f_recursion, f_owner, semVars, r, depth>>

\* The compare and exchange takes the counter from 0 to 1, or try_lock() fails.
TryCas(t) ==
    /\ pc[t] = "trycas"
    /\ IF f_counter = 0
       THEN f_counter' = 1 /\ Goto(t, "own")
       ELSE UNCHANGED f_counter /\ Goto(t, "rest")
    /\ UNCHANGED <<f_recursion, f_owner, semVars, r, depth>>

-----------------------------------------------------------------------------

\* The steps that a call takes once it has been made.
Step(t) ==
    \/ AddCounter(t) \/ CheckOwner(t) \/ Spin(t) \/ Acquire(t) \/ SetOwner(t) \/ Nest(t)
    \/ Unnest(t) \/ Disown(t) \/ SubCounter(t) \/ HandOver(t)
    \/ TryAdd(t) \/ TryCas(t)

Next ==
    \E t \in Threads :
        CallLock(t) \/ CallUnlock(t) \/ CallTryLock(t) \/ Step(t)

\* A thread keeps executing the call it is in (the scheduler is round robin, and
\* a spinning waiter runs on), and every Locker scope ends.
Fairness ==
    \A t \in Threads : WF_vars(Step(t)) /\ WF_vars(CallUnlock(t))

Spec == Init /\ [][Next]_vars /\ Fairness

-----------------------------------------------------------------------------

\* Thread t is the one that may touch f_owner and f_recursion.
Holding(t) ==
    \/ depth[t] > 0
    \/ pc[t] \in {"own", "nest", "disown", "sub", "release"}

TypeOK ==
    /\ f_counter \in Int
    /\ f_recursion \in 0..MaxDepth
    /\ f_owner \in Threads \cup {NoOwner}
    /\ f_current \in Int
    /\ at \in [Threads -> f_semaphore!Locations]
    /\ pc \in [Threads -> Pcs]
    /\ r \in [Threads -> 0..MaxDepth]
    /\ depth \in [Threads -> 0..MaxDepth]

\* At most one thread is inside the region its lock() calls protect.
MutualExclusion ==
    \A s, t \in Threads : depth[s] > 0 /\ depth[t] > 0 => s = t

\* ASSERT_F(tid == f_owner) in unlock(): a thread that holds the lock is its
\* recorded owner when it unlocks, although f_owner is a plain field that other
\* threads clear and set.
OwnerAssert ==
    \A t \in Threads : pc[t] = "unnest" => f_owner = t

\* ASSERT_F(val < f_max) in the semaphore's release(): the lock is handed over
\* at most once per outermost unlock().
HandOverAssert ==
    \A t \in Threads : pc[t] = "release" => f_current < 1

\* A nested lock() by the owner never waits for the owner itself.
NoSelfDeadlock ==
    \A t \in Threads : depth[t] > 0 => pc[t] # "acquire"

\* The count unlock() decides on is the nesting depth of the thread that calls it.
RecursionIsDepth ==
    \A t \in Threads : depth[t] > 0 => f_recursion = depth[t]

\* The lock is never lost between the counter and the semaphore: while a thread
\* waits in acquire(), the lock is held, is being handed over, or its permit is
\* in the semaphore (a thread undoing a failed decrement has borrowed it).
LockNotLost ==
    (\E t \in Threads : pc[t] = "acquire") =>
        \/ \E t \in Threads : Holding(t)
        \/ f_current + Cardinality(f_semaphore!Undoing) = 1

\* If the callers keep leaving the outermost region, a thread that waits is
\* eventually followed by a waiting thread that gets the lock.
SomeoneLocks ==
    []<>(\A t \in Threads : depth[t] = 0) =>
        ((\E t \in Threads : pc[t] = "acquire")
            ~> (\E t \in Threads : pc[t] = "own" /\ depth[t] = 0))

=============================================================================
