-------------------------- MODULE TaskSchedulerProofs --------------------------
(***************************************************************************)
(* Proofs about TaskScheduler, for every set of threads: who holds a lock  *)
(* runs, on any number of cores, and no thread is lost, on one.            *)
(***************************************************************************)
EXTENDS TaskScheduler, FiniteSetTheorems, FunctionTheorems, SequenceTheorems,
        NaturalsInduction, TLAPS

-----------------------------------------------------------------------------
(* Locks.  LockHoldersRun is not inductive: that a holder stays on its core *)
(* follows from where it is in its code, and from what the core may do      *)
(* there.  The queue lock belongs to the core that is switching or to the   *)
(* thread that is in one of four places; a watcher semaphore belongs to a   *)
(* thread whose core has interrupts off.                                    *)

LockShape ==
    /\ pc \in [Threads -> Locations]
    /\ masked \subseteq Cores
    /\ irq \in [Cores -> {"none", "switch", "dispatch"}]
    /\ DOMAIN current = Cores
    /\ DOMAIN target = Threads
    /\ access \in [Threads -> Threads \cup {Null}]
    /\ queue_lock \in Threads \cup Cores \cup {Null}

\* Where a thread holds queue_lock, and where it holds the semaphore of its target or,
\* waking its watchers, its own.
QueueLockAt == {"forkpush", "erase", "spin", "wakepush"}
SleeperHoldsAt == {"eraselock", "erase", "spin", "push"}
WakerHoldsAt == {"wake", "wakelock", "wakepush"}

\* Between enter_critical() and leave_critical().
CriticalAt == SleeperHoldsAt \cup WakerHoldsAt \cup {"acquire", "leave", "wakeacquire"}

MaskedIsUndisturbed == \A c \in masked : irq[c] = "none"
DispatchIsEmpty == \A c \in Cores : irq[c] = "dispatch" => current[c] = Null
SwitchHoldsLock == \A c \in Cores : irq[c] = "switch" <=> queue_lock = c
HolderIsThere == \A t \in Threads : pc[t] \in QueueLockAt <=> queue_lock = t
HolderIsOnCore == queue_lock \in Threads => OnCore(queue_lock)
CriticalIsMasked ==
    \A t \in Threads : pc[t] \in CriticalAt => \E c \in masked : current[c] = t
SemaphoreIsHeld ==
    \A u \in Threads : access[u] # Null =>
        \/ pc[access[u]] \in SleeperHoldsAt /\ target[access[u]] = u
        \/ pc[access[u]] \in WakerHoldsAt /\ access[u] = u

LockInv ==
    /\ LockShape /\ MaskedIsUndisturbed /\ DispatchIsEmpty /\ SwitchHoldsLock
    /\ HolderIsThere /\ HolderIsOnCore /\ CriticalIsMasked /\ SemaphoreIsHeld

LEMMA InitLockInv == Init => LockInv
BY SchedulerAssumption
   DEF Init, LockInv, LockShape, Locations, MaskedIsUndisturbed, DispatchIsEmpty,
       SwitchHoldsLock, HolderIsThere, HolderIsOnCore, CriticalIsMasked, SemaphoreIsHeld,
       QueueLockAt, CriticalAt, SleeperHoldsAt, WakerHoldsAt

LEMMA StepLockInv == LockInv /\ [Next]_vars => LockInv'
<1> SUFFICES ASSUME LockInv, [Next]_vars PROVE LockInv'
  OBVIOUS
<1> USE SchedulerAssumption
    DEF LockInv, LockShape, MaskedIsUndisturbed, DispatchIsEmpty, SwitchHoldsLock, OnCore,
        HolderIsThere, HolderIsOnCore, CriticalIsMasked, SemaphoreIsHeld, QueueLockAt,
        SleeperHoldsAt, WakerHoldsAt, CriticalAt, Locations, queueState, coreState, watchState, At, Goto
<1>1. ASSUME NEW c \in Cores, Tick(c) PROVE LockInv'
  BY <1>1 DEF Tick, Interrupt
<1>2. ASSUME NEW c \in Cores, Switch(c) PROVE LockInv'
  BY <1>2 DEF Switch, SwitchWith
<1>3. ASSUME NEW c \in Cores, Dispatch(c) PROVE LockInv'
  BY <1>3 DEF Dispatch
<1>4. ASSUME NEW c \in Cores, NEW t \in Threads, SleepSwitchBusy(c, t) PROVE LockInv'
  BY <1>4 DEF SleepSwitchBusy
<1>5. ASSUME NEW c \in Cores, NEW t \in Threads, ChangeState(c, t) PROVE LockInv'
  BY <1>5 DEF ChangeState
<1>6. ASSUME NEW c \in Cores, NEW t \in Threads, NEW u \in Threads, Fork(c, t, u) PROVE LockInv'
  BY <1>6 DEF Fork
<1>7. ASSUME NEW c \in Cores, NEW t \in Threads, NEW u \in Threads, GetState(c, t, u) PROVE LockInv'
  BY <1>7 DEF GetState
<1>8. ASSUME NEW c \in Cores, NEW t \in Threads, ForkLock(c, t) PROVE LockInv'
  BY <1>8 DEF ForkLock, TakeQueueLock
<1>9. ASSUME NEW c \in Cores, NEW t \in Threads, ForkPush(c, t) PROVE LockInv'
  BY <1>9 DEF ForkPush, PushBack
<1>10. ASSUME NEW c \in Cores, NEW t \in Threads, SleepEnter(c, t) PROVE LockInv'
  BY <1>10 DEF SleepEnter
<1>11. ASSUME NEW c \in Cores, NEW t \in Threads, SleepAcquire(c, t) PROVE LockInv'
  <2>1. access[target[t]] = Null /\ pc[t] = "acquire" /\ pc' = [pc EXCEPT ![t] = "eraselock"]
        /\ access' = [access EXCEPT ![target[t]] = t]
        /\ UNCHANGED <<masked, irq, current, queue_lock, target>>
    BY <1>11 DEF SleepAcquire
  <2>2. \A u \in Threads : access[u] # t
    BY <2>1
  <2>3. SemaphoreIsHeld'
    BY <2>1, <2>2
  <2>4. LockShape'
    BY <2>1
  <2>5. MaskedIsUndisturbed' /\ DispatchIsEmpty' /\ SwitchHoldsLock'
    BY <2>1
  <2>6. HolderIsThere' /\ HolderIsOnCore' /\ CriticalIsMasked'
    BY <2>1
  <2>7. QED
    BY <2>3, <2>4, <2>5, <2>6
<1>12. ASSUME NEW c \in Cores, NEW t \in Threads, SleepLock(c, t) PROVE LockInv'
  BY <1>12 DEF SleepLock, TakeQueueLock
<1>13. ASSUME NEW c \in Cores, NEW t \in Threads, SleepErase(c, t) PROVE LockInv'
  BY <1>13 DEF SleepErase
<1>14. ASSUME NEW c \in Cores, NEW t \in Threads, SleepPush(c, t) PROVE LockInv'
  <2>1. pc[t] = "push" /\ pc' = [pc EXCEPT ![t] = "leave"]
        /\ access' = [access EXCEPT ![target[t]] = Null]
        /\ UNCHANGED <<masked, irq, current, queue_lock, target>>
    BY <1>14 DEF SleepPush
  <2>2. \A u \in Threads : access[u] = t => target[t] = u
    BY <2>1
  <2>3. SemaphoreIsHeld'
    BY <2>1, <2>2
  <2>4. LockShape'
    BY <2>1
  <2>5. MaskedIsUndisturbed' /\ DispatchIsEmpty' /\ SwitchHoldsLock'
    BY <2>1
  <2>6. HolderIsThere' /\ HolderIsOnCore' /\ CriticalIsMasked'
    BY <2>1
  <2>7. QED
    BY <2>3, <2>4, <2>5, <2>6
<1>15. ASSUME NEW c \in Cores, NEW t \in Threads, SleepLeave(c, t) PROVE LockInv'
  BY <1>15 DEF SleepLeave
<1>16. ASSUME NEW c \in Cores, NEW t \in Threads, SleepSwitch(c, t) PROVE LockInv'
  BY <1>16 DEF SleepSwitch, Interrupt
<1>17. ASSUME NEW c \in Cores, NEW t \in Threads, WakeAcquire(c, t) PROVE LockInv'
  BY <1>17 DEF WakeAcquire
<1>18. ASSUME NEW c \in Cores, NEW t \in Threads, WakeOne(c, t) PROVE LockInv'
  BY <1>18 DEF WakeOne
<1>19. ASSUME NEW c \in Cores, NEW t \in Threads, WakeLock(c, t) PROVE LockInv'
  BY <1>19 DEF WakeLock, TakeQueueLock
<1>20. ASSUME NEW c \in Cores, NEW t \in Threads, WakePush(c, t) PROVE LockInv'
  BY <1>20 DEF WakePush, PushBack
<1>21. ASSUME NEW c \in Cores, NEW t \in Threads, WakeRelease(c, t) PROVE LockInv'
  BY <1>21 DEF WakeRelease
<1>24. ASSUME NEW c \in Cores, NEW t \in Threads, HeapLock(c, t) \/ HeapUnlock(c, t) PROVE LockInv'
  BY <1>24 DEF HeapLock, HeapUnlock
<1>22. CASE UNCHANGED vars
  BY <1>22 DEF vars
<1>23. QED
  BY <1>1, <1>2, <1>3, <1>4, <1>5, <1>6, <1>7, <1>8, <1>9, <1>10, <1>11, <1>12, <1>13,
     <1>14, <1>15, <1>16, <1>17, <1>18, <1>19, <1>20, <1>21, <1>22, <1>24
  DEF Next, ThreadStep

\* However many cores and threads there are, and also when erase() never returns: a thread
\* that holds queue_lock or a watcher semaphore is on a core (sleep_queue.cpp, scheduler.cpp).
THEOREM HoldersRun == Spec => []LockHoldersRun
<1>1. LockInv => LockHoldersRun
  BY SchedulerAssumption
     DEF LockInv, LockShape, HolderIsOnCore, CriticalIsMasked, SemaphoreIsHeld, CriticalAt,
         LockHoldersRun, OnCore
<1>2. QED
  BY InitLockInv, StepLockInv, <1>1, PTL DEF Spec

-----------------------------------------------------------------------------
(* The run queue on one core.  What wakes, forks and switches do to the     *)
(* queue is exact because every thread is in one place: queued, picked by   *)
(* schedule(), on its way to the queue in the hands of one other thread, on *)
(* the core, or on the list of the one thread it waits for.                 *)

(* Sequences that hold nothing twice, as the run queue and a watcher list must be. *)

LEMMA AppendFacts ==
    ASSUME NEW S, NEW s \in Seq(S), NEW x \in S
    PROVE  /\ Append(s, x) \in Seq(S) /\ ToSet(Append(s, x)) = ToSet(s) \cup {x}
           /\ IsInjective(s) /\ x \notin ToSet(s) => IsInjective(Append(s, x))
<1>1. /\ Len(s) \in Nat /\ DOMAIN s = 1..Len(s)
      /\ Append(s, x) \in Seq(S) /\ DOMAIN Append(s, x) = 1..(Len(s) + 1)
      /\ \A i \in 1..Len(s) : Append(s, x)[i] = s[i]
      /\ Append(s, x)[Len(s) + 1] = x
  OBVIOUS
<1> DEFINE a == Append(s, x)
<1> HIDE DEF a
<1>2. \A i \in DOMAIN a : a[i] \in ToSet(s) \cup {x}
  BY <1>1 DEF ToSet, a
<1>3. \A y \in ToSet(s) : \E i \in DOMAIN a : a[i] = y
  BY <1>1 DEF ToSet, a
<1>4. \E i \in DOMAIN a : a[i] = x
  BY <1>1 DEF a
<1>5. ToSet(a) = ToSet(s) \cup {x}
  BY <1>2, <1>3, <1>4 DEF ToSet
<1>6. ASSUME IsInjective(s), x \notin ToSet(s) PROVE IsInjective(a)
  <2>1. \A i \in DOMAIN s : s[i] # x
    BY <1>6 DEF ToSet
  <2>2. SUFFICES ASSUME NEW i \in DOMAIN a, NEW j \in DOMAIN a, a[i] = a[j] PROVE i = j
    BY DEF IsInjective
  <2>3. QED
    BY <1>1, <1>6, <2>1, <2>2 DEF IsInjective, a
<1>7. QED
  BY <1>1, <1>5, <1>6 DEF a

LEMMA RemoveFacts ==
    ASSUME NEW S, NEW s \in Seq(S), NEW k \in 1..Len(s)
    PROVE  /\ RemoveAt(s, k) \in Seq(S) /\ s[k] \in ToSet(s)
           /\ IsInjective(s) => /\ IsInjective(RemoveAt(s, k))
                             /\ ToSet(RemoveAt(s, k)) = ToSet(s) \ {s[k]}
<1>1. Len(s) \in Nat /\ DOMAIN s = 1..Len(s) /\ \A i \in 1..Len(s) : s[i] \in S
  OBVIOUS
<1> DEFINE n == Len(s)
           f == SubSeq(s, 1, k - 1)
           b == SubSeq(s, k + 1, n)
           r == RemoveAt(s, k)
<1>2. n \in Nat /\ k \in Int /\ 1 <= k /\ k <= n
  BY <1>1
<1>3. f \in Seq(S) /\ Len(f) = k - 1 /\ \A i \in 1..(k - 1) : f[i] = s[i]
  <2>1. \A i \in 1..(k - 1) : s[i] \in S
    BY <1>1, <1>2
  <2>2. /\ f \in Seq(S) /\ Len(f) = IF 1 <= k - 1 THEN k - 1 - 1 + 1 ELSE 0
        /\ \A i \in 1..(k - 1 - 1 + 1) : f[i] = s[1 + i - 1]
    BY <2>1, <1>2, SubSeqProperties
  <2>3. QED
    BY <2>2, <1>2
<1>4. b \in Seq(S) /\ Len(b) = n - k /\ \A i \in 1..(n - k) : b[i] = s[k + i]
  <2>1. \A i \in (k + 1)..n : s[i] \in S
    BY <1>1, <1>2
  <2>2. /\ b \in Seq(S) /\ Len(b) = IF k + 1 <= n THEN n - (k + 1) + 1 ELSE 0
        /\ \A i \in 1..(n - (k + 1) + 1) : b[i] = s[k + 1 + i - 1]
    BY <2>1, <1>2, SubSeqProperties
  <2>3. QED
    BY <2>2, <1>2
<1>5. r = f \o b
  BY DEF RemoveAt
<1> HIDE DEF f, b, r
<1>6. /\ r \in Seq(S) /\ Len(r) = n - 1
      /\ \A i \in 1..(n - 1) : r[i] = IF i <= k - 1 THEN f[i] ELSE b[i - (k - 1)]
  <2>1. /\ r \in Seq(S) /\ Len(r) = Len(f) + Len(b)
        /\ \A i \in 1..(Len(f) + Len(b)) : r[i] = IF i <= Len(f) THEN f[i] ELSE b[i - Len(f)]
    BY <1>3, <1>4, <1>5, ConcatProperties
  <2>2. Len(f) + Len(b) = n - 1
    BY <1>2, <1>3, <1>4
  <2>3. QED
    BY <1>3, <2>1, <2>2
<1>7. DOMAIN r = 1..(n - 1) /\ \A i \in 1..(n - 1) : r[i] = IF i < k THEN s[i] ELSE s[i + 1]
  <2>1. DOMAIN r = 1..(n - 1)
    BY <1>6, LenProperties
  <2>2. ASSUME NEW i \in 1..(n - 1), i < k PROVE r[i] = s[i]
    <3>1. i \in 1..(k - 1) /\ i <= k - 1
      BY <1>2, <2>2
    <3>2. r[i] = f[i]
      BY <1>6, <3>1
    <3>3. QED
      BY <1>3, <3>1, <3>2
  <2>3. ASSUME NEW i \in 1..(n - 1), ~(i < k) PROVE r[i] = s[i + 1]
    <3>1. i - (k - 1) \in 1..(n - k) /\ k + (i - (k - 1)) = i + 1 /\ ~(i <= k - 1)
      BY <1>2, <2>3
    <3>2. QED
      BY <1>4, <1>6, <3>1
  <2>4. QED
    BY <2>1, <2>2, <2>3
<1>8. s[k] \in ToSet(s)
  BY <1>1 DEF ToSet
<1>9. ASSUME IsInjective(s) PROVE IsInjective(r) /\ ToSet(r) = ToSet(s) \ {s[k]}
  <2>1. \A i, j \in 1..n : s[i] = s[j] => i = j
    BY <1>1, <1>9 DEF IsInjective
  <2>2. ASSUME NEW i \in 1..(n - 1), NEW j \in 1..(n - 1), r[i] = r[j] PROVE i = j
    BY <1>2, <1>7, <2>1, <2>2
  <2>3. ASSUME NEW i \in 1..(n - 1) PROVE r[i] \in ToSet(s) \ {s[k]}
    <3>1. CASE i < k
      BY <1>1, <1>2, <1>7, <2>1, <3>1 DEF ToSet
    <3>2. CASE ~(i < k)
      <4>1. i + 1 \in 1..n /\ i + 1 # k /\ r[i] = s[i + 1]
        BY <1>2, <1>7, <3>2
      <4>2. QED
        BY <1>1, <2>1, <4>1 DEF ToSet
    <3>3. QED
      BY <3>1, <3>2
  <2>4. ASSUME NEW y \in ToSet(s) \ {s[k]} PROVE \E i \in 1..(n - 1) : r[i] = y
    <3>1. PICK j \in 1..n : s[j] = y
      BY <1>1 DEF ToSet
    <3>2. CASE j < k
      BY <1>2, <1>7, <3>1, <3>2
    <3>3. CASE ~(j < k)
      <4>1. j - 1 \in 1..(n - 1) /\ ~(j - 1 < k) /\ j - 1 + 1 = j
        BY <1>2, <3>1, <3>3
      <4>2. QED
        BY <1>7, <3>1, <4>1
    <3>4. QED
      BY <3>2, <3>3
  <2>5. QED
    <3>1. IsInjective(r)
      BY <1>7, <2>2 DEF IsInjective
    <3>2. ToSet(r) \subseteq ToSet(s) \ {s[k]}
      BY <1>7, <2>3 DEF ToSet
    <3>3. ToSet(s) \ {s[k]} \subseteq ToSet(r)
      BY <1>7, <2>4 DEF ToSet
    <3>4. QED
      BY <3>1, <3>2, <3>3
<1>10. QED
  BY <1>6, <1>8, <1>9 DEF r

LEMMA TailFacts ==
    ASSUME NEW S, NEW s \in Seq(S), s # <<>>
    PROVE  /\ Tail(s) \in Seq(S) /\ Head(s) \in S /\ Head(s) \in ToSet(s)
           /\ IsInjective(s) => IsInjective(Tail(s)) /\ ToSet(Tail(s)) = ToSet(s) \ {Head(s)}
<1>1. Len(s) \in Nat /\ DOMAIN s = 1..Len(s) /\ Len(s) >= 1 /\ Head(s) = s[1]
  BY EmptySeq
<1>2. Tail(s) = SubSeq(s, 2, Len(s))
  BY TailIsSubSeq
<1>3. SubSeq(s, 1, 0) = <<>>
  BY SubSeqEmpty
<1>4. SubSeq(s, 2, Len(s)) \in Seq(S)
  BY <1>2, HeadTailProperties
<1>5. RemoveAt(s, 1) = Tail(s)
  BY <1>2, <1>3, <1>4, ConcatEmptySeq DEF RemoveAt
<1>6. 1 \in 1..Len(s)
  BY <1>1
<1>7. QED
  <2>1. /\ Tail(s) \in Seq(S) /\ s[1] \in ToSet(s)
        /\ IsInjective(s) => IsInjective(Tail(s)) /\ ToSet(Tail(s)) = ToSet(s) \ {s[1]}
    <3>1. /\ RemoveAt(s, 1) \in Seq(S) /\ s[1] \in ToSet(s)
          /\ IsInjective(s) => /\ IsInjective(RemoveAt(s, 1))
                               /\ ToSet(RemoveAt(s, 1)) = ToSet(s) \ {s[1]}
      BY <1>6, RemoveFacts
    <3>2. QED
      BY <1>5, <3>1
  <2>2. Head(s) \in S
    BY HeadTailProperties
  <2>3. QED
    BY <1>1, <2>1, <2>2

\* A distinct sequence is as long as the set of what it holds is large.
LEMMA DistinctCount ==
    ASSUME NEW S, NEW s \in Seq(S), IsInjective(s) PROVE Len(s) = Cardinality(ToSet(s))
<1>1. Len(s) \in Nat /\ DOMAIN s = 1..Len(s) /\ s \in [1..Len(s) -> S]
  BY LenProperties
<1>2. s \in [1..Len(s) -> ToSet(s)] /\ \A y \in ToSet(s) : \E i \in 1..Len(s) : s[i] = y
  BY <1>1 DEF ToSet
<1>4. s \in Bijection(1..Len(s), ToSet(s))
  BY <1>1, <1>2 DEF Bijection, Injection, Surjection
<1>5. ExistsBijection(1..Len(s), ToSet(s))
  BY <1>4 DEF ExistsBijection
<1>6. QED
  BY <1>1, <1>5, FS_CountingElements

\* The thread a core takes is one of the queue.
LEMMA BestInQueue ==
    ASSUME NEW q \in Seq(Threads), q # <<>>, NEW p, NEW c
    PROVE  RunQ!BestOf(q, p, c) \in 1..Len(q)
<1>1. Len(q) \in Nat /\ 1 \in 1..Len(q)
  BY EmptySeq
<1> DEFINE R == {e \in Nat \X Nat : e[1] < e[2]}
<1>2. IsWellFoundedOn(R, Nat)
  <2>1. OpToRel(<, Nat) = R
    BY Zenon DEF OpToRel
  <2>2. QED
    BY <2>1, NatLessThanWellFounded, Zenon
<1>3. ASSUME NEW T \in SUBSET (1..Len(q)), T # {} PROVE RunQ!Min(T) \in 1..Len(q)
  <2>1. T \subseteq Nat
    BY <1>1
  <2> HIDE DEF R
  <2>2. PICK t \in T : \A y \in T : <<y, t>> \notin R
    BY <1>2, <1>3, <2>1, WFMin
  <2>3. \A y \in T : t <= y
    <3>1. SUFFICES ASSUME NEW y \in T, ~(t <= y) PROVE FALSE
      OBVIOUS
    <3>2. y \in Nat /\ t \in Nat /\ y < t
      BY <2>1, <3>1
    <3>3. QED
      BY <2>2, <3>1, <3>2 DEF R
  <2>4. RunQ!Min(T) \in T
    BY <2>3 DEF RunQ!Min
  <2>5. QED
    BY <2>4
<1>4. \A k : RunQ!Preferring(q, p, k) \in SUBSET (1..Len(q))
  BY DEF RunQ!Preferring
<1>5. \A k : RunQ!Preferring(q, p, k) # {} => RunQ!Min(RunQ!Preferring(q, p, k)) \in 1..Len(q)
  BY <1>3, <1>4
<1>6. QED
  BY <1>1, <1>5 DEF RunQ!BestOf

\* Where a thread has made its target RUNNABLE and not queued it yet, where a sleeper is
\* before and after it is on its target's list, and where a dead thread is.
TransitAt == {"forklock", "forkpush", "wakelock", "wakepush"}
UnlistedAt == {"eraselock", "erase", "spin", "push"}
ListedAt == {"leave", "force", "run"}
DeadAt == {"wakeacquire", "wake", "wakelock", "wakepush", "dead"}

PickedWaits ==
    \A c \in Cores :
        /\ irq[c] # "dispatch" => picked[c] = Null
        /\ picked[c] # Null => /\ state[picked[c]] = "RUNNABLE"
                               /\ \A t \in Threads : pc[t] \in TransitAt => target[t] # picked[c]
DeadIsThere == \A t \in Threads : state[t] = "DEAD" <=> pc[t] \in DeadAt
SleeperIsThere ==
    \A t \in Threads :
        /\ pc[t] \in UnlistedAt \cup {"leave"} => state[t] = "SLEEPING"
        /\ state[t] = "SLEEPING" => pc[t] \in UnlistedAt \cup ListedAt /\ target[t] \in Threads
        /\ pc[t] \in {"sleep", "acquire"} => target[t] \in Threads
CurrentIsAwake ==
    \A c \in Cores : current[c] # Null =>
        /\ state[current[c]] \in {"RUNNING", "SLEEPING", "DEAD"}
        /\ state[current[c]] = "SLEEPING" /\ pc[current[c]] = "run" => irq[c] = "switch"
TransitHasOne ==
    /\ \A t \in Threads : pc[t] \in TransitAt =>
        target[t] \in Threads /\ state[target[t]] = "RUNNABLE"
    /\ \A t, u \in Threads : pc[t] \in TransitAt /\ pc[u] \in TransitAt
                                /\ target[t] = target[u] => t = u
SleepersListed ==
    /\ \A t, u \in Threads :
        t \in ToSet(sleeping[u]) <=> state[t] = "SLEEPING" /\ target[t] = u /\ pc[t] \in ListedAt
    /\ \A u \in Threads : IsInjective(sleeping[u])
QueueHolds ==
    /\ \A t \in Threads : t \in ToSet(queue) <=>
        /\ state[t] = "RUNNABLE"
        /\ \A u \in Threads : pc[u] \in TransitAt => target[u] # t
        /\ \A c \in Cores : picked[c] # t
    /\ IsInjective(queue)

AccountInv ==
    /\ TypeOK /\ LockInv /\ PickedWaits /\ DeadIsThere /\ SleeperIsThere /\ CurrentIsAwake
    /\ TransitHasOne /\ SleepersListed /\ QueueHolds

LEMMA InitAccountInv == Init => AccountInv
<1> SUFFICES ASSUME Init PROVE AccountInv
  OBVIOUS
<1>1. LockInv
  BY InitLockInv
<1>2. TypeOK
  BY SchedulerAssumption DEF Init, TypeOK, States, Alive, Locations
<1>3. ToSet(queue) = {Root} /\ IsInjective(queue)
  BY DEF Init, ToSet, IsInjective
<1>4. ToSet(<<>>) = {} /\ IsInjective(<<>>)
  BY DEF ToSet, IsInjective
<1>5. QED
  BY <1>1, <1>2, <1>3, <1>4, SchedulerAssumption
     DEF Init, AccountInv, PickedWaits, DeadIsThere, SleeperIsThere, CurrentIsAwake,
         TransitHasOne, SleepersListed, QueueHolds, TransitAt, UnlistedAt, ListedAt, DeadAt

\* What the invariant says of a thread that executes on the only core.
Executing(c, t) ==
    /\ picked[c] = Null /\ state[t] \in {"RUNNING", "SLEEPING", "DEAD"}
    /\ pc[t] \in {"run", "heap", "forklock", "forkpush", "sleep", "acquire"} => state[t] = "RUNNING"
    /\ queue_lock \in {t, Null}
    /\ \A u \in Threads : pc[u] \in CriticalAt \cup QueueLockAt => u = t

LEMMA ExecutingFacts ==
    ASSUME AccountInv, NEW c \in Cores, Cores = {c}, NEW t \in Threads,
           current[c] = t, irq[c] = "none"
    PROVE  Executing(c, t)
<1> USE SchedulerAssumption DEF AccountInv, Executing
<1>1. picked[c] = Null /\ state[t] \in {"RUNNING", "SLEEPING", "DEAD"}
  BY DEF PickedWaits, CurrentIsAwake
<1>2. ASSUME pc[t] \in {"run", "heap", "forklock", "forkpush", "sleep", "acquire"}
      PROVE  state[t] = "RUNNING"
  BY <1>1, <1>2 DEF CurrentIsAwake, DeadIsThere, SleeperIsThere, DeadAt, UnlistedAt, ListedAt
<1>3. queue_lock \in {t, Null}
  BY DEF TypeOK, LockInv, SwitchHoldsLock, HolderIsOnCore, OnCore
<1>4. ASSUME NEW u \in Threads, pc[u] \in CriticalAt PROVE u = t
  BY <1>4 DEF LockInv, LockShape, CriticalIsMasked
<1>5. ASSUME NEW u \in Threads, pc[u] \in QueueLockAt PROVE u = t
  BY <1>3, <1>5 DEF LockInv, HolderIsThere
<1>6. QED
  BY <1>1, <1>2, <1>3, <1>4, <1>5

\* A step that queues nothing, makes no thread RUNNABLE and leaves what others carry.
LEMMA QueueUntouched ==
    ASSUME QueueHolds, queue' = queue, picked' = picked,
           \A x \in Threads : state'[x] = "RUNNABLE" <=> state[x] = "RUNNABLE",
           \A x \in Threads : pc'[x] \in TransitAt <=> pc[x] \in TransitAt,
           \A x \in Threads : pc[x] \in TransitAt => target'[x] = target[x]
    PROVE  QueueHolds'
BY DEF QueueHolds

\* A thread that makes another RUNNABLE carries it until it is queued.
LEMMA QueueCarried ==
    ASSUME TypeOK, QueueHolds, NEW t \in Threads, NEW h \in Threads, NEW l \in TransitAt,
           state[h] # "RUNNABLE", pc[t] \notin TransitAt,
           queue' = queue, picked' = picked, pc' = [pc EXCEPT ![t] = l],
           target' = [target EXCEPT ![t] = h], state' = [state EXCEPT ![h] = "RUNNABLE"]
    PROVE  QueueHolds'
<1>1. ASSUME NEW x \in Threads, x # h
      PROVE  x \in ToSet(queue') <=> /\ state'[x] = "RUNNABLE"
                                     /\ \A u \in Threads : pc'[u] \in TransitAt => target'[u] # x
                                     /\ \A c \in Cores : picked'[c] # x
  <2>1. \A u \in Threads : (pc'[u] \in TransitAt => target'[u] # x)
                             <=> (pc[u] \in TransitAt => target[u] # x)
    BY <1>1 DEF TypeOK
  <2>2. QED
    BY <1>1, <2>1 DEF QueueHolds, TypeOK
<1>2. h \notin ToSet(queue') /\ pc'[t] \in TransitAt /\ target'[t] = h
  BY DEF QueueHolds, TypeOK
<1>3. QED
  BY <1>1, <1>2 DEF QueueHolds

\* schedule_process() and schedule_thread() queue what their caller carries.
LEMMA QueuePushed ==
    ASSUME TypeOK, QueueHolds, TransitHasOne, PickedWaits, NEW c \in Cores, NEW t \in Threads,
           NEW from \in TransitAt, NEW to \in Locations \ TransitAt, PushBack(c, t, from, to)
    PROVE  /\ queue' \in Seq(Threads)
           /\ QueueHolds'
<1> DEFINE h == target[t]
<1>1. pc[t] \in TransitAt /\ h \in Threads /\ state[h] = "RUNNABLE" /\ h \notin ToSet(queue)
  BY DEF PushBack, At, TransitHasOne, QueueHolds
<1>2. queue' \in Seq(Threads) /\ ToSet(queue') = ToSet(queue) \cup {h} /\ IsInjective(queue')
  BY <1>1, AppendFacts DEF PushBack, TypeOK, QueueHolds
<1>3. /\ pc' = [pc EXCEPT ![t] = to] /\ UNCHANGED <<target, state, picked>>
  BY DEF PushBack, Goto, coreState
<1>4. ASSUME NEW x \in Threads, x # h
      PROVE  x \in ToSet(queue') <=> /\ state'[x] = "RUNNABLE"
                                     /\ \A u \in Threads : pc'[u] \in TransitAt => target'[u] # x
                                     /\ \A d \in Cores : picked'[d] # x
  <2>1. \A u \in Threads : (pc'[u] \in TransitAt => target'[u] # x)
                             <=> (pc[u] \in TransitAt => target[u] # x)
    BY <1>3, <1>4 DEF TypeOK
  <2>2. QED
    BY <1>2, <1>3, <1>4, <2>1 DEF QueueHolds
<1>5. /\ h \in ToSet(queue') /\ state'[h] = "RUNNABLE"
      /\ \A u \in Threads : pc'[u] \in TransitAt => target'[u] # h
      /\ \A d \in Cores : picked'[d] # h
  BY <1>1, <1>2, <1>3, SchedulerAssumption DEF TransitHasOne, PickedWaits, TypeOK
<1>6. QED
  BY <1>2, <1>4, <1>5 DEF QueueHolds

\* schedule() takes at most one thread out of the queue q and keeps it as picked.
LEMMA SwitchFacts ==
    ASSUME TypeOK, NEW c \in Cores, NEW q \in Seq(Threads), NEW st,
           SwitchWith(c, q, st), IsInjective(q)
    PROVE  \E x \in ToSet(q) \cup {Null} :
             /\ picked' = [picked EXCEPT ![c] = x]
             /\ pref' \in [Threads -> Cores \cup {NoCore}]
             /\ queue' \in Seq(Threads) /\ IsInjective(queue')
             /\ ToSet(queue') = ToSet(q) \ {x}
<1>1. ToSet(q) \subseteq Threads
  BY DEF ToSet
<1>2. CASE q = <<>>
  <2>1. queue' = q /\ pref' = pref /\ picked' = [picked EXCEPT ![c] = Null]
    BY <1>2 DEF SwitchWith
  <2>2. ToSet(q) = ToSet(q) \ {Null}
    BY <1>1, SchedulerAssumption
  <2>3. QED
    BY <2>1, <2>2 DEF TypeOK
<1>3. CASE q # <<>>
  <2> DEFINE i == RunQ!BestOf(q, pref, c)
  <2>1. i \in 1..Len(q)
    BY <1>3, BestInQueue
  <2>2. /\ picked' = [picked EXCEPT ![c] = q[i]] /\ pref' = [pref EXCEPT ![q[i]] = c]
        /\ queue' = RemoveAt(q, i)
    BY <1>3 DEF SwitchWith
  <2> HIDE DEF i
  <2>3. /\ RemoveAt(q, i) \in Seq(Threads) /\ q[i] \in ToSet(q)
        /\ IsInjective(RemoveAt(q, i)) /\ ToSet(RemoveAt(q, i)) = ToSet(q) \ {q[i]}
    BY <2>1, RemoveFacts
  <2>4. pref' \in [Threads -> Cores \cup {NoCore}]
    BY <2>2 DEF TypeOK
  <2>5. QED
    BY <2>2, <2>3, <2>4
<1>4. QED
  BY <1>2, <1>3

\* What schedule() puts back before it takes a thread: the interrupted one, if it ran.
LEMMA SwitchPrepares ==
    ASSUME AccountInv, NEW c \in Cores, Cores = {c}, Switch(c)
    PROVE  \E q \in Seq(Threads), st \in [Threads -> States] :
             /\ SwitchWith(c, q, st) /\ IsInjective(q)
             /\ \A x \in Threads : x \in ToSet(q) <=>
                  st[x] = "RUNNABLE" /\ \A u \in Threads : pc[u] \in TransitAt => target[u] # x
             /\ \A x \in Threads :
                  st[x] = state[x] \/ (x = current[c] /\ state[x] = "RUNNING" /\ st[x] = "RUNNABLE")
<1> DEFINE t == current[c]
           Fit(q, st) ==
             /\ SwitchWith(c, q, st) /\ IsInjective(q)
             /\ \A x \in Threads : x \in ToSet(q) <=>
                  st[x] = "RUNNABLE" /\ \A u \in Threads : pc[u] \in TransitAt => target[u] # x
             /\ \A x \in Threads :
                  st[x] = state[x] \/ (x = t /\ state[x] = "RUNNING" /\ st[x] = "RUNNABLE")
<1>1. picked[c] = Null
  BY DEF Switch, SwitchWith, AccountInv, PickedWaits
<1>2. queue \in Seq(Threads) /\ state \in [Threads -> States] /\ IsInjective(queue)
  BY DEF AccountInv, TypeOK, QueueHolds
<1>3. \A x \in Threads : x \in ToSet(queue) <=>
        state[x] = "RUNNABLE" /\ \A u \in Threads : pc[u] \in TransitAt => target[u] # x
  BY <1>1, SchedulerAssumption DEF AccountInv, QueueHolds
<1>4. CASE t = Null \/ state[t] # "RUNNING"
  <2>1. SwitchWith(c, queue, state)
    BY <1>4 DEF Switch
  <2>2. Fit(queue, state)
    BY <1>2, <1>3, <2>1
  <2>3. QED
    BY <1>2, <2>2
<1>5. CASE ~(t = Null \/ state[t] # "RUNNING")
  <2> DEFINE q == Append(queue, t)
             st == [state EXCEPT ![t] = "RUNNABLE"]
  <2>1. SwitchWith(c, q, st)
    BY <1>5 DEF Switch
  <2>2. t \in Threads /\ t \notin ToSet(queue) /\ state[t] = "RUNNING"
    BY <1>3, <1>5 DEF AccountInv, TypeOK
  <2>3. q \in Seq(Threads) /\ ToSet(q) = ToSet(queue) \cup {t} /\ IsInjective(q)
    BY <1>2, <2>2, AppendFacts
  <2>4. st \in [Threads -> States]
    BY <1>2 DEF States, Alive
  <2>5. \A u \in Threads : pc[u] \in TransitAt => target[u] # t
    BY <2>2 DEF AccountInv, TransitHasOne
  <2>6. /\ \A x \in Threads : st[x] = IF x = t THEN "RUNNABLE" ELSE state[x]
    BY <1>2
  <2> HIDE DEF q, st
  <2>7. Fit(q, st)
    BY <1>3, <2>1, <2>2, <2>3, <2>5, <2>6
  <2>8. QED
    BY <2>3, <2>4, <2>7
<1>6. QED
  BY <1>4, <1>5

LEMMA StepAccountInv == ASSUME NEW k, Cores = {k}, AccountInv, [Next]_vars PROVE AccountInv'
<1> USE SchedulerAssumption
    DEF TransitAt, UnlistedAt, ListedAt, DeadAt, queueState, coreState, watchState, At, Goto,
        Executing
<1>0. LockInv'
  BY StepLockInv DEF AccountInv
<1>1. ASSUME NEW c \in Cores, Tick(c) PROVE AccountInv'
  <2>1. Cores = {c}
    OBVIOUS
  <2>2. TypeOK'
    BY <1>1, <2>1 DEF Tick, Interrupt, AccountInv, TypeOK, States, Alive, Locations
  <2>3. PickedWaits'
    BY <1>1, <2>1 DEF Tick, Interrupt, AccountInv, TypeOK, PickedWaits
  <2>4. DeadIsThere'
    BY <1>1, <2>1 DEF Tick, Interrupt, AccountInv, TypeOK, DeadIsThere
  <2>5. SleeperIsThere'
    BY <1>1, <2>1 DEF Tick, Interrupt, AccountInv, TypeOK, SleeperIsThere
  <2>6. CurrentIsAwake'
    BY <1>1, <2>1 DEF Tick, Interrupt, AccountInv, TypeOK, CurrentIsAwake
  <2>7. TransitHasOne'
    BY <1>1, <2>1 DEF Tick, Interrupt, AccountInv, TypeOK, TransitHasOne
  <2>8. SleepersListed'
    BY <1>1, <2>1 DEF Tick, Interrupt, AccountInv, TypeOK, SleepersListed
  <2>9. QueueHolds'
    BY <1>1, <2>1 DEF Tick, Interrupt, AccountInv, TypeOK, QueueHolds
  <2>10. QED
    BY <1>0, <2>2, <2>3, <2>4, <2>5, <2>6, <2>7, <2>8, <2>9 DEF AccountInv
<1>2. ASSUME NEW c \in Cores, Switch(c) PROVE AccountInv'
  <2>1. PICK q \in Seq(Threads), st \in [Threads -> States] :
          /\ SwitchWith(c, q, st) /\ IsInjective(q)
          /\ \A x \in Threads : x \in ToSet(q) <=>
               st[x] = "RUNNABLE" /\ \A u \in Threads : pc[u] \in TransitAt => target[u] # x
          /\ \A x \in Threads :
               st[x] = state[x] \/ (x = current[c] /\ state[x] = "RUNNING" /\ st[x] = "RUNNABLE")
    BY <1>2, SwitchPrepares
  <2>2. PICK p \in ToSet(q) \cup {Null} :
          /\ picked' = [picked EXCEPT ![c] = p]
          /\ pref' \in [Threads -> Cores \cup {NoCore}]
          /\ queue' \in Seq(Threads) /\ IsInjective(queue')
          /\ ToSet(queue') = ToSet(q) \ {p}
    BY <2>1, SwitchFacts DEF AccountInv
  <2>3. /\ irq[c] = "switch" /\ irq' = [irq EXCEPT ![c] = "dispatch"] /\ state' = st
        /\ current' = [current EXCEPT ![c] = Null] /\ queue_lock' = Null
        /\ UNCHANGED <<masked, pc, target, watchState>>
    BY <2>1 DEF SwitchWith
  <2>4. Cores = {c} /\ p \in Threads \cup {Null} /\ picked'[c] = p
    <3>1. ToSet(q) \subseteq Threads
      BY DEF ToSet
    <3>2. QED
      BY <2>2, <3>1 DEF AccountInv, TypeOK
  <2>5. TypeOK'
    BY <2>2, <2>3, <2>4 DEF AccountInv, TypeOK
  <2>6. PickedWaits'
    BY <2>1, <2>2, <2>3, <2>4 DEF AccountInv, TypeOK, PickedWaits
  <2>7. DeadIsThere'
    BY <2>1, <2>3 DEF AccountInv, DeadIsThere
  <2>8. SleeperIsThere'
    BY <2>1, <2>3 DEF AccountInv, SleeperIsThere
  <2>9. CurrentIsAwake'
    BY <2>3, <2>4 DEF AccountInv, TypeOK, CurrentIsAwake
  <2>10. TransitHasOne'
    BY <2>1, <2>3 DEF AccountInv, TransitHasOne
  <2>11. SleepersListed'
    BY <2>1, <2>3 DEF AccountInv, SleepersListed
  <2>12. QueueHolds'
    <3>1. \A x \in Threads : (\A d \in Cores : picked'[d] # x) <=> x # p
      BY <2>4
    <3>2. QED
      BY <2>1, <2>2, <2>3, <3>1 DEF QueueHolds
  <2>13. QED
    BY <1>0, <2>5, <2>6, <2>7, <2>8, <2>9, <2>10, <2>11, <2>12 DEF AccountInv
<1>3. ASSUME NEW c \in Cores, Dispatch(c) PROVE AccountInv'
  <2>1. Cores = {c}
    OBVIOUS
  <2>2. TypeOK'
    BY <1>3, <2>1 DEF Dispatch, AccountInv, TypeOK, States, Alive, Locations
  <2>3. PickedWaits'
    BY <1>3, <2>1 DEF Dispatch, AccountInv, TypeOK, PickedWaits
  <2>4. DeadIsThere'
    BY <1>3, <2>1 DEF Dispatch, AccountInv, TypeOK, DeadIsThere, PickedWaits
  <2>5. SleeperIsThere'
    BY <1>3, <2>1 DEF Dispatch, AccountInv, TypeOK, SleeperIsThere, PickedWaits
  <2>6. CurrentIsAwake'
    BY <1>3, <2>1 DEF Dispatch, AccountInv, TypeOK, CurrentIsAwake, PickedWaits
  <2>7. TransitHasOne'
    BY <1>3, <2>1 DEF Dispatch, AccountInv, TypeOK, TransitHasOne, PickedWaits
  <2>8. SleepersListed'
    BY <1>3, <2>1 DEF Dispatch, AccountInv, TypeOK, SleepersListed, PickedWaits
  <2>9. QueueHolds'
    BY <1>3, <2>1 DEF Dispatch, AccountInv, TypeOK, QueueHolds, PickedWaits
  <2>10. QED
    BY <1>0, <2>2, <2>3, <2>4, <2>5, <2>6, <2>7, <2>8, <2>9 DEF AccountInv
<1>4. ASSUME NEW c \in Cores, NEW t \in Threads, SleepSwitchBusy(c, t) PROVE AccountInv'
  <2>1. Executing(c, t)
    BY <1>4, ExecutingFacts DEF SleepSwitchBusy
  <2>2. queue_lock = t /\ pc[t] = "force"
    BY <1>4, <2>1 DEF SleepSwitchBusy
  <2>3. pc[t] \in QueueLockAt
    BY <2>2 DEF AccountInv, LockInv, HolderIsThere
  <2>4. QED
    BY <2>2, <2>3 DEF QueueLockAt
<1>5. ASSUME NEW c \in Cores, NEW t \in Threads, ChangeState(c, t) PROVE AccountInv'
  <2>1. Executing(c, t)
    BY <1>5, ExecutingFacts DEF ChangeState
  <2>2. TypeOK'
    BY <1>5, <2>1 DEF ChangeState, AccountInv, TypeOK, States, Alive, Locations
  <2>3. PickedWaits'
    BY <1>5, <2>1 DEF ChangeState, AccountInv, TypeOK, PickedWaits
  <2>4. DeadIsThere'
    BY <1>5, <2>1 DEF ChangeState, AccountInv, TypeOK, DeadIsThere
  <2>5. SleeperIsThere'
    BY <1>5, <2>1 DEF ChangeState, AccountInv, TypeOK, SleeperIsThere
  <2>6. CurrentIsAwake'
    BY <1>5, <2>1 DEF ChangeState, AccountInv, TypeOK, CurrentIsAwake
  <2>7. TransitHasOne'
    BY <1>5, <2>1 DEF ChangeState, AccountInv, TypeOK, TransitHasOne
  <2>8. SleepersListed'
    BY <1>5, <2>1 DEF ChangeState, AccountInv, TypeOK, SleepersListed
  <2>9. QueueHolds'
    BY <1>5, <2>1, QueueUntouched DEF ChangeState, AccountInv, TypeOK
  <2>10. QED
    BY <1>0, <2>2, <2>3, <2>4, <2>5, <2>6, <2>7, <2>8, <2>9 DEF AccountInv
<1>6. ASSUME NEW c \in Cores, NEW t \in Threads, NEW u \in Threads, Fork(c, t, u)
      PROVE AccountInv'
  <2>1. Executing(c, t)
    BY <1>6, ExecutingFacts DEF Fork
  <2>2. TypeOK'
    BY <1>6, <2>1 DEF Fork, AccountInv, TypeOK, States, Alive, Locations
  <2>3. PickedWaits'
    BY <1>6, <2>1 DEF Fork, AccountInv, TypeOK, PickedWaits
  <2>4. DeadIsThere'
    BY <1>6, <2>1 DEF Fork, AccountInv, TypeOK, DeadIsThere
  <2>5. SleeperIsThere'
    BY <1>6, <2>1 DEF Fork, AccountInv, TypeOK, SleeperIsThere
  <2>6. CurrentIsAwake'
    BY <1>6, <2>1 DEF Fork, AccountInv, TypeOK, CurrentIsAwake
  <2>7. TransitHasOne'
    BY <1>6, <2>1 DEF Fork, AccountInv, TypeOK, TransitHasOne
  <2>8. SleepersListed'
    BY <1>6, <2>1 DEF Fork, AccountInv, TypeOK, SleepersListed
  <2>9. QueueHolds'
    BY <1>6, <2>1, QueueCarried DEF Fork, AccountInv, TypeOK
  <2>10. QED
    BY <1>0, <2>2, <2>3, <2>4, <2>5, <2>6, <2>7, <2>8, <2>9 DEF AccountInv
<1>7. ASSUME NEW c \in Cores, NEW t \in Threads, NEW u \in Threads, GetState(c, t, u)
      PROVE AccountInv'
  <2>1. Executing(c, t)
    BY <1>7, ExecutingFacts DEF GetState
  <2>2. TypeOK'
    BY <1>7, <2>1 DEF GetState, AccountInv, TypeOK, States, Alive, Locations
  <2>3. PickedWaits'
    BY <1>7, <2>1 DEF GetState, AccountInv, TypeOK, PickedWaits
  <2>4. DeadIsThere'
    BY <1>7, <2>1 DEF GetState, AccountInv, TypeOK, DeadIsThere
  <2>5. SleeperIsThere'
    BY <1>7, <2>1 DEF GetState, AccountInv, TypeOK, SleeperIsThere
  <2>6. CurrentIsAwake'
    BY <1>7, <2>1 DEF GetState, AccountInv, TypeOK, CurrentIsAwake
  <2>7. TransitHasOne'
    BY <1>7, <2>1 DEF GetState, AccountInv, TypeOK, TransitHasOne
  <2>8. SleepersListed'
    BY <1>7, <2>1 DEF GetState, AccountInv, TypeOK, SleepersListed
  <2>9. QueueHolds'
    BY <1>7, <2>1, QueueUntouched DEF GetState, AccountInv, TypeOK
  <2>10. QED
    BY <1>0, <2>2, <2>3, <2>4, <2>5, <2>6, <2>7, <2>8, <2>9 DEF AccountInv
<1>8. ASSUME NEW c \in Cores, NEW t \in Threads, ForkLock(c, t) PROVE AccountInv'
  <2>1. Executing(c, t)
    BY <1>8, ExecutingFacts DEF ForkLock, TakeQueueLock
  <2>2. TypeOK'
    BY <1>8, <2>1 DEF ForkLock, TakeQueueLock, AccountInv, TypeOK, States, Alive, Locations
  <2>3. PickedWaits'
    BY <1>8, <2>1 DEF ForkLock, TakeQueueLock, AccountInv, TypeOK, PickedWaits
  <2>4. DeadIsThere'
    BY <1>8, <2>1 DEF ForkLock, TakeQueueLock, AccountInv, TypeOK, DeadIsThere
  <2>5. SleeperIsThere'
    BY <1>8, <2>1 DEF ForkLock, TakeQueueLock, AccountInv, TypeOK, SleeperIsThere
  <2>6. CurrentIsAwake'
    BY <1>8, <2>1 DEF ForkLock, TakeQueueLock, AccountInv, TypeOK, CurrentIsAwake
  <2>7. TransitHasOne'
    BY <1>8, <2>1 DEF ForkLock, TakeQueueLock, AccountInv, TypeOK, TransitHasOne
  <2>8. SleepersListed'
    BY <1>8, <2>1 DEF ForkLock, TakeQueueLock, AccountInv, TypeOK, SleepersListed
  <2>9. QueueHolds'
    BY <1>8, <2>1, QueueUntouched DEF ForkLock, TakeQueueLock, AccountInv, TypeOK
  <2>10. QED
    BY <1>0, <2>2, <2>3, <2>4, <2>5, <2>6, <2>7, <2>8, <2>9 DEF AccountInv
<1>9. ASSUME NEW c \in Cores, NEW t \in Threads, ForkPush(c, t) PROVE AccountInv'
  <2>1. Executing(c, t)
    BY <1>9, ExecutingFacts DEF ForkPush, PushBack
  <2>2. queue' \in Seq(Threads) /\ QueueHolds'
    BY <1>9, QueuePushed DEF ForkPush, AccountInv, Locations
  <2>3. TypeOK'
    BY <1>9, <2>1, <2>2 DEF ForkPush, PushBack, AccountInv, TypeOK, States, Alive, Locations
  <2>4. PickedWaits'
    BY <1>9, <2>1, <2>2 DEF ForkPush, PushBack, AccountInv, TypeOK, PickedWaits
  <2>5. DeadIsThere'
    BY <1>9, <2>1, <2>2 DEF ForkPush, PushBack, AccountInv, TypeOK, DeadIsThere
  <2>6. SleeperIsThere'
    BY <1>9, <2>1, <2>2 DEF ForkPush, PushBack, AccountInv, TypeOK, SleeperIsThere
  <2>7. CurrentIsAwake'
    BY <1>9, <2>1, <2>2 DEF ForkPush, PushBack, AccountInv, TypeOK, CurrentIsAwake
  <2>8. TransitHasOne'
    BY <1>9, <2>1, <2>2 DEF ForkPush, PushBack, AccountInv, TypeOK, TransitHasOne
  <2>9. SleepersListed'
    BY <1>9, <2>1, <2>2 DEF ForkPush, PushBack, AccountInv, TypeOK, SleepersListed
  <2>10. QueueHolds'
    BY <2>2
  <2>11. QED
    BY <1>0, <2>3, <2>4, <2>5, <2>6, <2>7, <2>8, <2>9, <2>10 DEF AccountInv
<1>10. ASSUME NEW c \in Cores, NEW t \in Threads, SleepEnter(c, t) PROVE AccountInv'
  <2>1. Executing(c, t)
    BY <1>10, ExecutingFacts DEF SleepEnter
  <2>2. TypeOK'
    BY <1>10, <2>1 DEF SleepEnter, AccountInv, TypeOK, States, Alive, Locations
  <2>3. PickedWaits'
    BY <1>10, <2>1 DEF SleepEnter, AccountInv, TypeOK, PickedWaits
  <2>4. DeadIsThere'
    BY <1>10, <2>1 DEF SleepEnter, AccountInv, TypeOK, DeadIsThere
  <2>5. SleeperIsThere'
    BY <1>10, <2>1 DEF SleepEnter, AccountInv, TypeOK, SleeperIsThere
  <2>6. CurrentIsAwake'
    BY <1>10, <2>1 DEF SleepEnter, AccountInv, TypeOK, CurrentIsAwake
  <2>7. TransitHasOne'
    BY <1>10, <2>1 DEF SleepEnter, AccountInv, TypeOK, TransitHasOne
  <2>8. SleepersListed'
    BY <1>10, <2>1 DEF SleepEnter, AccountInv, TypeOK, SleepersListed
  <2>9. QueueHolds'
    BY <1>10, <2>1, QueueUntouched DEF SleepEnter, AccountInv, TypeOK
  <2>10. QED
    BY <1>0, <2>2, <2>3, <2>4, <2>5, <2>6, <2>7, <2>8, <2>9 DEF AccountInv
<1>11. ASSUME NEW c \in Cores, NEW t \in Threads, SleepAcquire(c, t) PROVE AccountInv'
  <2>1. Executing(c, t)
    BY <1>11, ExecutingFacts DEF SleepAcquire
  <2>2. TypeOK'
    BY <1>11, <2>1 DEF SleepAcquire, AccountInv, TypeOK, States, Alive, Locations
  <2>3. PickedWaits'
    BY <1>11, <2>1 DEF SleepAcquire, AccountInv, TypeOK, PickedWaits
  <2>4. DeadIsThere'
    BY <1>11, <2>1 DEF SleepAcquire, AccountInv, TypeOK, DeadIsThere
  <2>5. SleeperIsThere'
    BY <1>11, <2>1 DEF SleepAcquire, AccountInv, TypeOK, SleeperIsThere
  <2>6. CurrentIsAwake'
    BY <1>11, <2>1 DEF SleepAcquire, AccountInv, TypeOK, CurrentIsAwake
  <2>7. TransitHasOne'
    BY <1>11, <2>1 DEF SleepAcquire, AccountInv, TypeOK, TransitHasOne
  <2>8. SleepersListed'
    BY <1>11, <2>1 DEF SleepAcquire, AccountInv, TypeOK, SleepersListed
  <2>9. QueueHolds'
    BY <1>11, <2>1, QueueUntouched DEF SleepAcquire, AccountInv, TypeOK
  <2>10. QED
    BY <1>0, <2>2, <2>3, <2>4, <2>5, <2>6, <2>7, <2>8, <2>9 DEF AccountInv
<1>12. ASSUME NEW c \in Cores, NEW t \in Threads, SleepLock(c, t) PROVE AccountInv'
  <2>1. Executing(c, t)
    BY <1>12, ExecutingFacts DEF SleepLock, TakeQueueLock
  <2>2. TypeOK'
    BY <1>12, <2>1 DEF SleepLock, TakeQueueLock, AccountInv, TypeOK, States, Alive, Locations
  <2>3. PickedWaits'
    BY <1>12, <2>1 DEF SleepLock, TakeQueueLock, AccountInv, TypeOK, PickedWaits
  <2>4. DeadIsThere'
    BY <1>12, <2>1 DEF SleepLock, TakeQueueLock, AccountInv, TypeOK, DeadIsThere
  <2>5. SleeperIsThere'
    BY <1>12, <2>1 DEF SleepLock, TakeQueueLock, AccountInv, TypeOK, SleeperIsThere
  <2>6. CurrentIsAwake'
    BY <1>12, <2>1 DEF SleepLock, TakeQueueLock, AccountInv, TypeOK, CurrentIsAwake
  <2>7. TransitHasOne'
    BY <1>12, <2>1 DEF SleepLock, TakeQueueLock, AccountInv, TypeOK, TransitHasOne
  <2>8. SleepersListed'
    BY <1>12, <2>1 DEF SleepLock, TakeQueueLock, AccountInv, TypeOK, SleepersListed
  <2>9. QueueHolds'
    BY <1>12, <2>1, QueueUntouched DEF SleepLock, TakeQueueLock, AccountInv, TypeOK
  <2>10. QED
    BY <1>0, <2>2, <2>3, <2>4, <2>5, <2>6, <2>7, <2>8, <2>9 DEF AccountInv
<1>13. ASSUME NEW c \in Cores, NEW t \in Threads, SleepErase(c, t) PROVE AccountInv'
  <2>1. Executing(c, t)
    BY <1>13, ExecutingFacts DEF SleepErase
  <2>2. PICK l \in {"push", "spin"} :
            /\ pc[t] = "erase" /\ pc' = [pc EXCEPT ![t] = l]
            /\ queue_lock' \in {queue_lock, Null}
            /\ UNCHANGED <<state, queue, pref, coreState, masked, target, watchState>>
    BY <1>13 DEF SleepErase
  <2>3. TypeOK'
    BY <2>1, <2>2 DEF AccountInv, TypeOK, States, Alive, Locations
  <2>4. PickedWaits'
    BY <2>1, <2>2 DEF AccountInv, TypeOK, PickedWaits
  <2>5. DeadIsThere'
    BY <2>1, <2>2 DEF AccountInv, TypeOK, DeadIsThere
  <2>6. SleeperIsThere'
    BY <2>1, <2>2 DEF AccountInv, TypeOK, SleeperIsThere
  <2>7. CurrentIsAwake'
    BY <2>1, <2>2 DEF AccountInv, TypeOK, CurrentIsAwake
  <2>8. TransitHasOne'
    BY <2>1, <2>2 DEF AccountInv, TypeOK, TransitHasOne
  <2>9. SleepersListed'
    BY <2>1, <2>2 DEF AccountInv, TypeOK, SleepersListed
  <2>10. QueueHolds'
    BY <2>1, <2>2, QueueUntouched DEF AccountInv, TypeOK
  <2>11. QED
    BY <1>0, <2>3, <2>4, <2>5, <2>6, <2>7, <2>8, <2>9, <2>10 DEF AccountInv
<1>14. ASSUME NEW c \in Cores, NEW t \in Threads, SleepPush(c, t) PROVE AccountInv'
  <2>1. Executing(c, t)
    BY <1>14, ExecutingFacts DEF SleepPush
  <2> DEFINE u == target[t]
  <2>2. /\ u \in Threads /\ state[t] = "SLEEPING" /\ pc[t] = "push" /\ t \notin ToSet(sleeping[u])
    BY <1>14 DEF SleepPush, AccountInv, SleeperIsThere, SleepersListed
  <2>3. /\ Append(sleeping[u], t) \in Seq(Threads)
        /\ ToSet(Append(sleeping[u], t)) = ToSet(sleeping[u]) \cup {t}
        /\ IsInjective(Append(sleeping[u], t))
    BY <2>2, AppendFacts DEF AccountInv, TypeOK, SleepersListed
  <2>4. /\ sleeping'[u] = Append(sleeping[u], t)
        /\ sleeping' = [sleeping EXCEPT ![u] = Append(sleeping[u], t)]
        /\ \A x \in Threads \ {u} : sleeping'[x] = sleeping[x]
    BY <1>14, <2>2 DEF SleepPush, AccountInv, TypeOK
  <2>5. /\ current[c] = t /\ irq[c] = "none" /\ pc' = [pc EXCEPT ![t] = "leave"]
        /\ access' = [access EXCEPT ![u] = Null]
        /\ UNCHANGED <<state, queueState, coreState, masked, target, heap_lock>>
    BY <1>14 DEF SleepPush
  <2> HIDE DEF u
  <2>6. TypeOK'
    BY <2>1, <2>2, <2>3, <2>4, <2>5 DEF u, AccountInv, TypeOK, States, Alive, Locations
  <2>7. PickedWaits'
    BY <2>1, <2>2, <2>3, <2>4, <2>5 DEF u, AccountInv, TypeOK, PickedWaits
  <2>8. DeadIsThere'
    BY <2>1, <2>2, <2>3, <2>4, <2>5 DEF u, AccountInv, TypeOK, DeadIsThere
  <2>9. SleeperIsThere'
    BY <2>1, <2>2, <2>3, <2>4, <2>5 DEF u, AccountInv, TypeOK, SleeperIsThere
  <2>10. CurrentIsAwake'
    BY <2>1, <2>2, <2>3, <2>4, <2>5 DEF u, AccountInv, TypeOK, CurrentIsAwake
  <2>11. TransitHasOne'
    BY <2>1, <2>2, <2>3, <2>4, <2>5 DEF u, AccountInv, TypeOK, TransitHasOne
  <2>12. SleepersListed'
    BY <2>1, <2>2, <2>3, <2>4, <2>5 DEF u, AccountInv, TypeOK, SleepersListed
  <2>13. QueueHolds'
    BY <2>1, <2>2, <2>3, <2>4, <2>5, QueueUntouched DEF u, AccountInv, TypeOK
  <2>14. QED
    BY <1>0, <2>6, <2>7, <2>8, <2>9, <2>10, <2>11, <2>12, <2>13 DEF AccountInv
<1>15. ASSUME NEW c \in Cores, NEW t \in Threads, SleepLeave(c, t) PROVE AccountInv'
  <2>1. Executing(c, t)
    BY <1>15, ExecutingFacts DEF SleepLeave
  <2>2. TypeOK'
    BY <1>15, <2>1 DEF SleepLeave, AccountInv, TypeOK, States, Alive, Locations
  <2>3. PickedWaits'
    BY <1>15, <2>1 DEF SleepLeave, AccountInv, TypeOK, PickedWaits
  <2>4. DeadIsThere'
    BY <1>15, <2>1 DEF SleepLeave, AccountInv, TypeOK, DeadIsThere
  <2>5. SleeperIsThere'
    BY <1>15, <2>1 DEF SleepLeave, AccountInv, TypeOK, SleeperIsThere
  <2>6. CurrentIsAwake'
    BY <1>15, <2>1 DEF SleepLeave, AccountInv, TypeOK, CurrentIsAwake
  <2>7. TransitHasOne'
    BY <1>15, <2>1 DEF SleepLeave, AccountInv, TypeOK, TransitHasOne
  <2>8. SleepersListed'
    BY <1>15, <2>1 DEF SleepLeave, AccountInv, TypeOK, SleepersListed
  <2>9. QueueHolds'
    BY <1>15, <2>1, QueueUntouched DEF SleepLeave, AccountInv, TypeOK
  <2>10. QED
    BY <1>0, <2>2, <2>3, <2>4, <2>5, <2>6, <2>7, <2>8, <2>9 DEF AccountInv
<1>16. ASSUME NEW c \in Cores, NEW t \in Threads, SleepSwitch(c, t) PROVE AccountInv'
  <2>1. Executing(c, t)
    BY <1>16, ExecutingFacts DEF SleepSwitch, Interrupt
  <2>2. TypeOK'
    BY <1>16, <2>1 DEF SleepSwitch, Interrupt, AccountInv, TypeOK, States, Alive, Locations
  <2>3. PickedWaits'
    BY <1>16, <2>1 DEF SleepSwitch, Interrupt, AccountInv, TypeOK, PickedWaits
  <2>4. DeadIsThere'
    BY <1>16, <2>1 DEF SleepSwitch, Interrupt, AccountInv, TypeOK, DeadIsThere
  <2>5. SleeperIsThere'
    BY <1>16, <2>1 DEF SleepSwitch, Interrupt, AccountInv, TypeOK, SleeperIsThere
  <2>6. CurrentIsAwake'
    BY <1>16, <2>1 DEF SleepSwitch, Interrupt, AccountInv, TypeOK, CurrentIsAwake
  <2>7. TransitHasOne'
    BY <1>16, <2>1 DEF SleepSwitch, Interrupt, AccountInv, TypeOK, TransitHasOne
  <2>8. SleepersListed'
    BY <1>16, <2>1 DEF SleepSwitch, Interrupt, AccountInv, TypeOK, SleepersListed
  <2>9. QueueHolds'
    BY <1>16, <2>1, QueueUntouched DEF SleepSwitch, Interrupt, AccountInv, TypeOK
  <2>10. QED
    BY <1>0, <2>2, <2>3, <2>4, <2>5, <2>6, <2>7, <2>8, <2>9 DEF AccountInv
<1>17. ASSUME NEW c \in Cores, NEW t \in Threads, WakeAcquire(c, t) PROVE AccountInv'
  <2>1. Executing(c, t)
    BY <1>17, ExecutingFacts DEF WakeAcquire
  <2>2. TypeOK'
    BY <1>17, <2>1 DEF WakeAcquire, AccountInv, TypeOK, States, Alive, Locations
  <2>3. PickedWaits'
    BY <1>17, <2>1 DEF WakeAcquire, AccountInv, TypeOK, PickedWaits
  <2>4. DeadIsThere'
    BY <1>17, <2>1 DEF WakeAcquire, AccountInv, TypeOK, DeadIsThere
  <2>5. SleeperIsThere'
    BY <1>17, <2>1 DEF WakeAcquire, AccountInv, TypeOK, SleeperIsThere
  <2>6. CurrentIsAwake'
    BY <1>17, <2>1 DEF WakeAcquire, AccountInv, TypeOK, CurrentIsAwake
  <2>7. TransitHasOne'
    BY <1>17, <2>1 DEF WakeAcquire, AccountInv, TypeOK, TransitHasOne
  <2>8. SleepersListed'
    BY <1>17, <2>1 DEF WakeAcquire, AccountInv, TypeOK, SleepersListed
  <2>9. QueueHolds'
    BY <1>17, <2>1, QueueUntouched DEF WakeAcquire, AccountInv, TypeOK
  <2>10. QED
    BY <1>0, <2>2, <2>3, <2>4, <2>5, <2>6, <2>7, <2>8, <2>9 DEF AccountInv
<1>18. ASSUME NEW c \in Cores, NEW t \in Threads, WakeOne(c, t) PROVE AccountInv'
  <2>1. Executing(c, t)
    BY <1>18, ExecutingFacts DEF WakeOne
  <2> DEFINE h == Head(sleeping[t])
  <2>2. /\ h \in Threads /\ h \in ToSet(sleeping[t])
        /\ sleeping'[t] \in Seq(Threads) /\ ToSet(sleeping'[t]) = ToSet(sleeping[t]) \ {h}
        /\ IsInjective(sleeping'[t])
    BY <1>18, TailFacts DEF WakeOne, AccountInv, TypeOK, SleepersListed
  <2>3. state[h] = "SLEEPING" /\ target[h] = t /\ pc[h] \in ListedAt /\ h # t
    BY <1>18, <2>2 DEF WakeOne, AccountInv, SleepersListed
  <2> HIDE DEF h
  <2>4. /\ current[c] = t /\ pc[t] = "wake" /\ pc' = [pc EXCEPT ![t] = "wakelock"]
        /\ target' = [target EXCEPT ![t] = h] /\ state' = [state EXCEPT ![h] = "RUNNABLE"]
        /\ sleeping' = [sleeping EXCEPT ![t] = Tail(@)]
        /\ UNCHANGED <<queueState, coreState, masked, access, heap_lock>>
    BY <1>18 DEF WakeOne, h
  <2>5. TypeOK'
    BY <2>1, <2>2, <2>3, <2>4 DEF AccountInv, TypeOK, States, Alive, Locations
  <2>6. PickedWaits'
    BY <2>1, <2>2, <2>3, <2>4 DEF AccountInv, TypeOK, PickedWaits
  <2>7. DeadIsThere'
    BY <2>1, <2>2, <2>3, <2>4 DEF AccountInv, TypeOK, DeadIsThere
  <2>8. SleeperIsThere'
    BY <2>1, <2>2, <2>3, <2>4 DEF AccountInv, TypeOK, CriticalAt, SleeperIsThere
  <2>9. CurrentIsAwake'
    BY <2>1, <2>2, <2>3, <2>4 DEF AccountInv, TypeOK, CurrentIsAwake
  <2>10. TransitHasOne'
    BY <2>1, <2>2, <2>3, <2>4 DEF AccountInv, TypeOK, TransitHasOne
  <2>11. SleepersListed'
    BY <2>1, <2>2, <2>3, <2>4 DEF AccountInv, TypeOK, SleepersListed
  <2>12. QueueHolds'
    BY <2>1, <2>2, <2>3, <2>4, QueueCarried DEF AccountInv, TypeOK
  <2>13. QED
    BY <1>0, <2>5, <2>6, <2>7, <2>8, <2>9, <2>10, <2>11, <2>12 DEF AccountInv
<1>19. ASSUME NEW c \in Cores, NEW t \in Threads, WakeLock(c, t) PROVE AccountInv'
  <2>1. Executing(c, t)
    BY <1>19, ExecutingFacts DEF WakeLock, TakeQueueLock
  <2>2. TypeOK'
    BY <1>19, <2>1 DEF WakeLock, TakeQueueLock, AccountInv, TypeOK, States, Alive, Locations
  <2>3. PickedWaits'
    BY <1>19, <2>1 DEF WakeLock, TakeQueueLock, AccountInv, TypeOK, PickedWaits
  <2>4. DeadIsThere'
    BY <1>19, <2>1 DEF WakeLock, TakeQueueLock, AccountInv, TypeOK, DeadIsThere
  <2>5. SleeperIsThere'
    BY <1>19, <2>1 DEF WakeLock, TakeQueueLock, AccountInv, TypeOK, SleeperIsThere
  <2>6. CurrentIsAwake'
    BY <1>19, <2>1 DEF WakeLock, TakeQueueLock, AccountInv, TypeOK, CurrentIsAwake
  <2>7. TransitHasOne'
    BY <1>19, <2>1 DEF WakeLock, TakeQueueLock, AccountInv, TypeOK, TransitHasOne
  <2>8. SleepersListed'
    BY <1>19, <2>1 DEF WakeLock, TakeQueueLock, AccountInv, TypeOK, SleepersListed
  <2>9. QueueHolds'
    BY <1>19, <2>1, QueueUntouched DEF WakeLock, TakeQueueLock, AccountInv, TypeOK
  <2>10. QED
    BY <1>0, <2>2, <2>3, <2>4, <2>5, <2>6, <2>7, <2>8, <2>9 DEF AccountInv
<1>20. ASSUME NEW c \in Cores, NEW t \in Threads, WakePush(c, t) PROVE AccountInv'
  <2>1. Executing(c, t)
    BY <1>20, ExecutingFacts DEF WakePush, PushBack
  <2>2. queue' \in Seq(Threads) /\ QueueHolds'
    BY <1>20, QueuePushed DEF WakePush, AccountInv, Locations
  <2>3. TypeOK'
    BY <1>20, <2>1, <2>2 DEF WakePush, PushBack, AccountInv, TypeOK, States, Alive, Locations
  <2>4. PickedWaits'
    BY <1>20, <2>1, <2>2 DEF WakePush, PushBack, AccountInv, TypeOK, PickedWaits
  <2>5. DeadIsThere'
    BY <1>20, <2>1, <2>2 DEF WakePush, PushBack, AccountInv, TypeOK, DeadIsThere
  <2>6. SleeperIsThere'
    BY <1>20, <2>1, <2>2 DEF WakePush, PushBack, AccountInv, TypeOK, SleeperIsThere
  <2>7. CurrentIsAwake'
    BY <1>20, <2>1, <2>2 DEF WakePush, PushBack, AccountInv, TypeOK, CurrentIsAwake
  <2>8. TransitHasOne'
    BY <1>20, <2>1, <2>2 DEF WakePush, PushBack, AccountInv, TypeOK, TransitHasOne
  <2>9. SleepersListed'
    BY <1>20, <2>1, <2>2 DEF WakePush, PushBack, AccountInv, TypeOK, SleepersListed
  <2>10. QueueHolds'
    BY <2>2
  <2>11. QED
    BY <1>0, <2>3, <2>4, <2>5, <2>6, <2>7, <2>8, <2>9, <2>10 DEF AccountInv
<1>21. ASSUME NEW c \in Cores, NEW t \in Threads, WakeRelease(c, t) PROVE AccountInv'
  <2>1. Executing(c, t)
    BY <1>21, ExecutingFacts DEF WakeRelease
  <2>2. TypeOK'
    BY <1>21, <2>1 DEF WakeRelease, AccountInv, TypeOK, States, Alive, Locations
  <2>3. PickedWaits'
    BY <1>21, <2>1 DEF WakeRelease, AccountInv, TypeOK, PickedWaits
  <2>4. DeadIsThere'
    BY <1>21, <2>1 DEF WakeRelease, AccountInv, TypeOK, DeadIsThere
  <2>5. SleeperIsThere'
    BY <1>21, <2>1 DEF WakeRelease, AccountInv, TypeOK, SleeperIsThere
  <2>6. CurrentIsAwake'
    BY <1>21, <2>1 DEF WakeRelease, AccountInv, TypeOK, CurrentIsAwake
  <2>7. TransitHasOne'
    BY <1>21, <2>1 DEF WakeRelease, AccountInv, TypeOK, TransitHasOne
  <2>8. SleepersListed'
    BY <1>21, <2>1 DEF WakeRelease, AccountInv, TypeOK, SleepersListed
  <2>9. QueueHolds'
    BY <1>21, <2>1, QueueUntouched DEF WakeRelease, AccountInv, TypeOK
  <2>10. QED
    BY <1>0, <2>2, <2>3, <2>4, <2>5, <2>6, <2>7, <2>8, <2>9 DEF AccountInv
<1>24. ASSUME NEW c \in Cores, NEW t \in Threads, HeapLock(c, t) \/ HeapUnlock(c, t)
       PROVE  AccountInv'
  <2>1. /\ Executing(c, t) /\ pc[t] \in {"run", "heap"} /\ state[t] = "RUNNING"
        /\ \E p \in {"run", "heap"} : pc' = [pc EXCEPT ![t] = p]
        /\ heap_lock' \in {t, Null}
        /\ UNCHANGED <<state, queueState, coreState, masked, target, access, sleeping>>
    BY <1>24, ExecutingFacts DEF HeapLock, HeapUnlock
  <2>2. TypeOK'
    BY <2>1 DEF AccountInv, TypeOK, States, Alive, Locations
  <2>3. PickedWaits'
    BY <2>1 DEF AccountInv, TypeOK, PickedWaits
  <2>4. DeadIsThere'
    BY <2>1 DEF AccountInv, TypeOK, DeadIsThere
  <2>5. SleeperIsThere'
    BY <2>1 DEF AccountInv, TypeOK, SleeperIsThere
  <2>6. CurrentIsAwake'
    BY <2>1 DEF AccountInv, TypeOK, CurrentIsAwake
  <2>7. TransitHasOne'
    BY <2>1 DEF AccountInv, TypeOK, TransitHasOne
  <2>8. SleepersListed'
    BY <2>1 DEF AccountInv, TypeOK, SleepersListed
  <2>9. QueueHolds'
    BY <2>1, QueueUntouched DEF AccountInv, TypeOK
  <2>10. QED
    BY <1>0, <2>2, <2>3, <2>4, <2>5, <2>6, <2>7, <2>8, <2>9 DEF AccountInv
<1>22. CASE UNCHANGED vars
  BY <1>22 DEF vars, AccountInv, TypeOK, LockInv, LockShape, MaskedIsUndisturbed,
     DispatchIsEmpty, SwitchHoldsLock, OnCore, HolderIsThere, HolderIsOnCore,
     CriticalIsMasked, SemaphoreIsHeld, PickedWaits, DeadIsThere, SleeperIsThere,
     CurrentIsAwake, TransitHasOne, SleepersListed, QueueHolds
<1>23. QED
  BY <1>1, <1>2, <1>3, <1>4, <1>5, <1>6, <1>7, <1>8, <1>9, <1>10, <1>11, <1>12, <1>13,
     <1>14, <1>15, <1>16, <1>17, <1>18, <1>19, <1>20, <1>21, <1>22, <1>24
  DEF Next, ThreadStep

LEMMA AccountImplies == AccountInv => ThreadsAccounted
<1> SUFFICES ASSUME AccountInv PROVE ThreadsAccounted
  OBVIOUS
<1>1. TypeOK
  BY DEF AccountInv
<1>2. QueueIsExact
  <2>1. \A x \in Threads : x \in InTransit <=>
          \/ \E u \in Threads : pc[u] \in TransitAt /\ target[u] = x
          \/ \E c \in Cores : picked[c] = x
    BY DEF InTransit, TransitAt
  <2>2. ToSet(queue) \subseteq Threads
    BY <1>1 DEF TypeOK, ToSet
  <2>3. ToSet(queue) = {t \in Threads : state[t] = "RUNNABLE"} \ InTransit
    BY <2>1, <2>2 DEF AccountInv, QueueHolds
  <2>4. Len(queue) = Cardinality(ToSet(queue))
    BY <1>1, DistinctCount DEF AccountInv, QueueHolds, TypeOK
  <2>5. QED
    BY <2>3, <2>4 DEF QueueIsExact
<1>3. WakeupAssert
  <2>1. SUFFICES ASSUME NEW t \in Threads, sleeping[t] # <<>>
                 PROVE  state[Head(sleeping[t])] = "SLEEPING"
    BY DEF WakeupAssert
  <2>2. Head(sleeping[t]) \in Threads /\ Head(sleeping[t]) \in ToSet(sleeping[t])
    BY <1>1, <2>1, TailFacts DEF TypeOK
  <2>3. QED
    BY <2>2 DEF AccountInv, SleepersListed
<1>4. SleeperIsRegistered
  <2>1. SUFFICES ASSUME NEW t \in Threads, state[t] = "SLEEPING", ~OnCore(t)
                 PROVE  \E i \in DOMAIN sleeping[target[t]] : sleeping[target[t]][i] = t
    BY DEF SleeperIsRegistered
  <2>2. pc[t] \notin CriticalAt
    BY <1>1, <2>1 DEF AccountInv, LockInv, CriticalIsMasked, OnCore, TypeOK
  <2>3. pc[t] \in ListedAt /\ target[t] \in Threads
    BY <2>1, <2>2 DEF AccountInv, SleeperIsThere, UnlistedAt, ListedAt, CriticalAt, SleeperHoldsAt
  <2>4. t \in ToSet(sleeping[target[t]])
    BY <2>1, <2>3 DEF AccountInv, SleepersListed
  <2>5. QED
    BY <2>4 DEF ToSet
<1>5. QED
  BY <1>1, <1>2, <1>3, <1>4 DEF ThreadsAccounted

\* On one core, for any number of threads and whatever erase() does: a thread that waits to
\* run is queued exactly once, wakeup() finds only sleepers, and a sleeper off the core is
\* on the list of the thread it waits for (scheduler.cpp, thread.cpp, sleep_queue.cpp).
THEOREM ThreadsAreAccounted ==
    ASSUME NEW k, Cores = {k} PROVE Spec => []ThreadsAccounted
<1>1. AccountInv /\ [Next]_vars => AccountInv'
  BY StepAccountInv
<1>2. QED
  BY InitAccountInv, <1>1, AccountImplies, PTL DEF Spec

=============================================================================
