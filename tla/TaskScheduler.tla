----------------------------- MODULE TaskScheduler -----------------------------
(***************************************************************************)
(* The cores, the run queue and the threads of the kernel: task switches   *)
(* (tasking/scheduler.cpp), sleeping and waking (tasking/thread.cpp,       *)
(* tasking/sleep_queue.cpp), and the two users of a thread's watchers,     *)
(* waitpid (get_state) and exit (change_state).  Every process of this     *)
(* kernel has one thread.  The run queue is the sequence ThreadQueue       *)
(* implements on one core, a SleepQueue's semaphore the mutex Semaphore    *)
(* shows it to be.  A step is what runs between two points where another   *)
(* core or an interrupt can come in.                                       *)
(***************************************************************************)
EXTENDS Integers, FiniteSets, Sequences, SequencesExt

CONSTANTS
    Threads,    \* every Thread object there may be
    Root,       \* the kernel process' thread, the first one scheduled
    Cores,      \* core numbers
    NoCore,     \* f_preferred_core = -1
    Null,       \* no thread, lock free
    EraseMiss,  \* what erase() of a thread that is not first may do: see SleepErase
    MaxWatchers \* bound of the model: entries in one f_sleeping

ASSUME SchedulerAssumption ==
    /\ IsFiniteSet(Threads) /\ Root \in Threads
    /\ Cores \cap Threads = {} /\ Null \notin Cores \cup Threads
    /\ NoCore \notin Cores
    /\ EraseMiss \subseteq {"return", "spin"} /\ EraseMiss # {}
    /\ MaxWatchers \in Nat

VARIABLES
    state,      \* f_state of every thread; "NEW" before it is constructed
    queue, pref,\* Scheduler::runnable_queue and f_preferred_core
    queue_lock, \* the thread or core that holds it
    current,    \* current_thread of every core
    irq,        \* where every core is in schedule(): "none", "switch" or "dispatch"
    picked,     \* new_thread, between the two halves of schedule()
    masked,     \* cores that executed cli
    pc,         \* where every thread is in its kernel code
    target,     \* the thread it forks, waits for or wakes
    access,     \* the holder of f_state_watchers.f_access of every thread
    sleeping,   \* f_state_watchers.f_sleeping of every thread
    heap_lock   \* the thread that is in malloc() or free()

vars == <<state, queue, pref, queue_lock, current, irq, picked, masked, pc, target,
          access, sleeping, heap_lock>>

RunQ == INSTANCE RunQueue

Alive == {"RUNNING", "RUNNABLE", "SLEEPING"}
States == Alive \cup {"NEW", "DEAD"}

Init ==
    /\ state = [t \in Threads |-> IF t = Root THEN "RUNNABLE" ELSE "NEW"]
    /\ queue = <<Root>>
    /\ pref = [t \in Threads |-> NoCore]
    /\ queue_lock = Null
    /\ current = [c \in Cores |-> Null]
    /\ irq = [c \in Cores |-> "none"]
    /\ picked = [c \in Cores |-> Null]
    /\ masked = {}
    /\ pc = [t \in Threads |-> "run"]
    /\ target = [t \in Threads |-> Null]
    /\ access = [t \in Threads |-> Null]
    /\ sleeping = [t \in Threads |-> <<>>]
    /\ heap_lock = Null

\* Core c executes thread t, at location l of its kernel code.  Two cores in one thread
\* would share its kernel stack: what they do then is not followed.
At(c, t, l) ==
    /\ current[c] = t /\ irq[c] = "none" /\ pc[t] = l
    /\ \A d \in Cores \ {c} : current[d] # t
Goto(t, l) == pc' = [pc EXCEPT ![t] = l]

queueState == <<queue, pref, queue_lock>>
coreState  == <<current, irq, picked>>
watchState == <<access, sleeping, heap_lock>>

\* The locked half of schedule(): core c gives its thread up, which leaves the run queue q
\* and the thread states st, and takes another.
SwitchWith(c, q, st) ==
    LET i == RunQ!BestOf(q, pref, c) IN
    /\ irq[c] = "switch"
    /\ state' = st
    /\ current' = [current EXCEPT ![c] = Null]
    /\ queue' = IF q = <<>> THEN q ELSE RemoveAt(q, i)
    /\ pref' = IF q = <<>> THEN pref ELSE [pref EXCEPT ![q[i]] = c]
    /\ picked' = [picked EXCEPT ![c] = IF q = <<>> THEN Null ELSE q[i]]
    /\ queue_lock' = Null
    /\ irq' = [irq EXCEPT ![c] = "dispatch"]
    /\ UNCHANGED <<masked, pc, target, watchState>>

-----------------------------------------------------------------------------
\* Mutated forms of the steps below: plausible slips in the tasking code that the
\* properties must detect.  Spec does not use them.

\* Variant: schedule() does not set the queued thread back to RUNNABLE.
MutSwitchState(c) ==
    LET t == current[c] IN
    IF t = Null \/ state[t] # "RUNNING" THEN SwitchWith(c, queue, state)
    ELSE SwitchWith(c, Append(queue, t), state)

\* Variant: SleepQueue::sleep() does not disable interrupts.
MutSleepEnter(c, t) ==
    /\ At(c, t, "sleep") /\ Goto(t, "acquire")
    /\ UNCHANGED <<state, queueState, coreState, masked, target, watchState>>

\* Variant: SleepQueue::sleep() returns when the critical section ends.
MutSleepLeave(c, t) ==
    /\ At(c, t, "leave") /\ Goto(t, "run")
    /\ masked' = masked \ {c}
    /\ UNCHANGED <<state, queueState, coreState, target, watchState>>

-----------------------------------------------------------------------------
\* The task switch interrupt: schedule()

\* try_lock() succeeds; when it fails the interrupted code simply goes on.
Interrupt(c) ==
    /\ irq[c] = "none" /\ c \notin masked
    /\ queue_lock = Null
    /\ queue_lock' = c
    /\ irq' = [irq EXCEPT ![c] = "switch"]
    /\ UNCHANGED <<state, queue, pref, current, picked, masked, target, watchState>>

\* The timer fires, or a dead thread loops on force_task_switch().
Tick(c) == Interrupt(c) /\ UNCHANGED pc

\* A thread that was RUNNING goes to the back of the queue.
Switch(c) ==
    LET t == current[c] IN
    IF t = Null \/ state[t] # "RUNNING" THEN SwitchWith(c, queue, state)
    ELSE SwitchWith(c, Append(queue, t), [state EXCEPT ![t] = "RUNNABLE"])

\* After the unlock: the new thread, or the idle loop, runs.
Dispatch(c) ==
    /\ irq[c] = "dispatch"
    /\ state' = IF picked[c] = Null THEN state ELSE [state EXCEPT ![picked[c]] = "RUNNING"]
    /\ current' = [current EXCEPT ![c] = picked[c]]
    /\ picked' = [picked EXCEPT ![c] = Null]
    /\ irq' = [irq EXCEPT ![c] = "none"]
    /\ UNCHANGED <<queueState, masked, pc, target, watchState>>

-----------------------------------------------------------------------------
\* fork(): the child is constructed, then schedule_process() queues it

Fork(c, t, u) ==
    /\ At(c, t, "run") /\ state[u] = "NEW"
    /\ state' = [state EXCEPT ![u] = "RUNNABLE"]
    /\ target' = [target EXCEPT ![t] = u]
    /\ Goto(t, "forklock")
    /\ UNCHANGED <<queueState, coreState, masked, watchState>>

\* Locker lock(queue_lock), with interrupts enabled.
TakeQueueLock(c, t, from, to) ==
    /\ At(c, t, from) /\ Goto(t, to)
    /\ queue_lock = Null /\ queue_lock' = t
    /\ UNCHANGED <<state, queue, pref, coreState, masked, target, watchState>>

PushBack(c, t, from, to) ==
    /\ At(c, t, from) /\ Goto(t, to)
    /\ queue' = Append(queue, target[t])
    /\ queue_lock' = Null
    /\ UNCHANGED <<state, pref, coreState, masked, target, watchState>>

ForkLock(c, t) == TakeQueueLock(c, t, "forklock", "forkpush")
ForkPush(c, t) == PushBack(c, t, "forkpush", "run")

-----------------------------------------------------------------------------
\* waitpid: get_state() reads the state, and f_state_watchers.sleep() if it is alive

GetState(c, t, u) ==
    /\ At(c, t, "run") /\ u # t /\ state[u] \in Alive
    /\ Len(sleeping[u]) < MaxWatchers
    /\ target' = [target EXCEPT ![t] = u]
    /\ Goto(t, "sleep")
    /\ UNCHANGED <<state, queueState, coreState, masked, watchState>>

SleepEnter(c, t) ==
    /\ At(c, t, "sleep") /\ Goto(t, "acquire")
    /\ masked' = masked \cup {c}
    /\ UNCHANGED <<state, queueState, coreState, target, watchState>>

\* f_access.acquire(), then Thread::sleep(false) sets the state
SleepAcquire(c, t) ==
    /\ At(c, t, "acquire") /\ Goto(t, "eraselock")
    /\ access[target[t]] = Null
    /\ access' = [access EXCEPT ![target[t]] = t]
    /\ state' = [state EXCEPT ![t] = "SLEEPING"]
    /\ UNCHANGED <<queueState, coreState, masked, target, sleeping, heap_lock>>

SleepLock(c, t) == TakeQueueLock(c, t, "eraselock", "erase")

\* remove_thread() of the running thread, which is not queued.  The walk of erase()
\* uses ++t on the Thread pointer: on a non-empty queue it leaves the list's memory, and
\* either finds the thread's address or stops without touching a link ("return"), or
\* walks the address space ("spin"), with queue_lock held and interrupts off.
SleepErase(c, t) ==
    /\ At(c, t, "erase")
    /\ \/ /\ queue = <<>> \/ "return" \in EraseMiss
          /\ Goto(t, "push") /\ queue_lock' = Null
       \/ /\ queue # <<>> /\ "spin" \in EraseMiss
          /\ Goto(t, "spin") /\ UNCHANGED queue_lock
    /\ UNCHANGED <<state, queue, pref, coreState, masked, target, watchState>>

\* f_sleeping.push_back() and f_access.release().  The entry is allocated: malloc() spins for
\* heap_lock, with interrupts off here.
SleepPush(c, t) ==
    /\ At(c, t, "push") /\ Goto(t, "leave")
    /\ heap_lock = Null
    /\ sleeping' = [sleeping EXCEPT ![target[t]] = Append(@, t)]
    /\ access' = [access EXCEPT ![target[t]] = Null]
    /\ UNCHANGED <<state, queueState, coreState, masked, target, heap_lock>>

SleepLeave(c, t) ==
    /\ At(c, t, "leave") /\ Goto(t, "force")
    /\ masked' = masked \ {c}
    /\ UNCHANGED <<state, queueState, coreState, target, watchState>>

\* force_task_switch(): when the thread runs again, waitpid returns.
SleepSwitch(c, t) == At(c, t, "force") /\ Interrupt(c) /\ Goto(t, "run")

\* The same when try_lock() fails: schedule() returns to the thread at once.
SleepSwitchBusy(c, t) ==
    /\ At(c, t, "force") /\ Goto(t, "run")
    /\ queue_lock # Null
    /\ UNCHANGED <<state, queueState, coreState, masked, target, watchState>>

-----------------------------------------------------------------------------
\* exit: Process::die() ends in change_state(DEAD), which wakes every watcher

ChangeState(c, t) ==
    /\ At(c, t, "run") /\ t # Root
    /\ masked' = masked \cup {c}
    /\ state' = [state EXCEPT ![t] = "DEAD"]
    /\ Goto(t, "wakeacquire")
    /\ UNCHANGED <<queueState, coreState, target, watchState>>

WakeAcquire(c, t) ==
    /\ At(c, t, "wakeacquire") /\ Goto(t, "wake")
    /\ access[t] = Null /\ access' = [access EXCEPT ![t] = t]
    /\ UNCHANGED <<state, queueState, coreState, masked, target, sleeping, heap_lock>>

\* pop_front(), which frees the entry under heap_lock, and Thread::wakeup(), whose assertion is WakeupAssert below: a failed
\* assertion of this kernel is logged and the code goes on.
WakeOne(c, t) ==
    /\ At(c, t, "wake") /\ sleeping[t] # <<>>
    /\ heap_lock = Null
    /\ target' = [target EXCEPT ![t] = Head(sleeping[t])]
    /\ sleeping' = [sleeping EXCEPT ![t] = Tail(@)]
    /\ state' = [state EXCEPT ![Head(sleeping[t])] = "RUNNABLE"]
    /\ Goto(t, "wakelock")
    /\ UNCHANGED <<queueState, coreState, masked, access, heap_lock>>

\* schedule_thread()
WakeLock(c, t) == TakeQueueLock(c, t, "wakelock", "wakepush")
WakePush(c, t) == PushBack(c, t, "wakepush", "wake")

\* f_access.release() and leave_critical(); the thread then only forces switches.
WakeRelease(c, t) ==
    /\ At(c, t, "wake") /\ sleeping[t] = <<>>
    /\ Goto(t, "dead")
    /\ access' = [access EXCEPT ![t] = Null]
    /\ masked' = masked \ {c}
    /\ UNCHANGED <<state, queueState, coreState, target, sleeping, heap_lock>>

-----------------------------------------------------------------------------
\* malloc() and free() of any other kernel code: a plain SpinLock, with interrupts enabled

HeapLock(c, t) ==
    /\ At(c, t, "run") /\ Goto(t, "heap")
    /\ heap_lock = Null /\ heap_lock' = t
    /\ UNCHANGED <<state, queueState, coreState, masked, target, access, sleeping>>

HeapUnlock(c, t) ==
    /\ At(c, t, "heap") /\ Goto(t, "run")
    /\ heap_lock' = Null
    /\ UNCHANGED <<state, queueState, coreState, masked, target, access, sleeping>>

-----------------------------------------------------------------------------

ThreadStep(c, t) ==
    \/ ForkLock(c, t) \/ ForkPush(c, t) \/ HeapUnlock(c, t)
    \/ SleepEnter(c, t) \/ SleepAcquire(c, t) \/ SleepLock(c, t) \/ SleepErase(c, t)
    \/ SleepPush(c, t) \/ SleepLeave(c, t) \/ SleepSwitch(c, t)
    \/ WakeAcquire(c, t) \/ WakeOne(c, t) \/ WakeLock(c, t)
    \/ WakePush(c, t) \/ WakeRelease(c, t)

Next ==
    \E c \in Cores :
        \/ Tick(c) \/ Switch(c) \/ Dispatch(c)
        \/ \E t \in Threads :
            \/ ThreadStep(c, t)
            \/ SleepSwitchBusy(c, t)
            \/ ChangeState(c, t) \/ HeapLock(c, t)
            \/ \E u \in Threads : Fork(c, t, u) \/ GetState(c, t, u)

\* The local APIC timer always fires again, and a core executes what it is at.
Fairness ==
    \A c \in Cores :
        /\ WF_vars(Tick(c)) /\ WF_vars(Switch(c)) /\ WF_vars(Dispatch(c))
        /\ \A t \in Threads : WF_vars(ThreadStep(c, t))

Spec == Init /\ [][Next]_vars /\ Fairness

-----------------------------------------------------------------------------

Locations == {"run", "heap", "forklock", "forkpush", "sleep", "acquire", "eraselock", "erase",
              "spin", "push", "leave", "force", "wakeacquire", "wake", "wakelock",
              "wakepush", "dead"}

TypeOK ==
    /\ state \in [Threads -> States]
    /\ queue \in Seq(Threads)
    /\ pref \in [Threads -> Cores \cup {NoCore}]
    /\ queue_lock \in Threads \cup Cores \cup {Null}
    /\ current \in [Cores -> Threads \cup {Null}]
    /\ irq \in [Cores -> {"none", "switch", "dispatch"}]
    /\ picked \in [Cores -> Threads \cup {Null}]
    /\ masked \subseteq Cores
    /\ pc \in [Threads -> Locations]
    /\ target \in [Threads -> Threads \cup {Null}]
    /\ access \in [Threads -> Threads \cup {Null}]
    /\ sleeping \in [Threads -> Seq(Threads)]
    /\ heap_lock \in Threads \cup {Null}

OnCore(t) == \E c \in Cores : current[c] = t

\* Threads made RUNNABLE by a thread that has yet to queue them.
InTransit == {target[t] : t \in {x \in Threads :
                    pc[x] \in {"forklock", "forkpush", "wakelock", "wakepush"}}}
             \cup {picked[c] : c \in Cores}

\* The run queue holds exactly the threads that wait to be run, each once: a thread is
\* neither forgotten by fork(), wakeup() and schedule() nor queued twice.
QueueIsExact ==
    /\ ToSet(queue) = {t \in Threads : state[t] = "RUNNABLE"} \ InTransit
    /\ Len(queue) = Cardinality(ToSet(queue))

\* ASSERT_F(f_state == SLEEPING) in Thread::wakeup(): the thread a waker pops is asleep.
WakeupAssert ==
    \A t \in Threads : pc[t] = "wake" /\ sleeping[t] # <<>> =>
        state[Head(sleeping[t])] = "SLEEPING"

\* A thread asleep and off its core is registered with the thread it waits for, so that
\* a wakeup() can find it.
SleeperIsRegistered ==
    \A t \in Threads : state[t] = "SLEEPING" /\ ~OnCore(t) =>
        \E i \in DOMAIN sleeping[target[t]] : sleeping[target[t]][i] = t

\* No core waits for a lock whose holder cannot run: a thread that holds queue_lock or
\* a watcher semaphore is executing on a core, never preempted.
LockHoldersRun ==
    /\ queue_lock \in Threads => OnCore(queue_lock)
    /\ \A t \in Threads : access[t] # Null => OnCore(access[t])

\* The two ways in which a core is lost with interrupts off: erase() walks the address
\* space (thread_queue.hpp:86), or malloc() or free() of a critical section spins for
\* heap_lock while its holder is not running (liballoc_plugs.cpp:12).
CoreIsLost ==
    \E c \in masked : \E t \in Threads :
        /\ current[c] = t
        /\ \/ pc[t] = "spin"
           \/ /\ pc[t] = "push" \/ (pc[t] = "wake" /\ sleeping[t] # <<>>)
              /\ heap_lock # Null /\ ~OnCore(heap_lock)

\* A thread that ran before and waits to be run gets a core again, whatever the others
\* do, as long as no core is lost: the cores take their own threads in arrival order.
OldThreadsRunAgain ==
    \A t \in Threads : (state[t] = "RUNNABLE" /\ pref[t] # NoCore) ~>
        (state[t] = "RUNNING" \/ CoreIsLost)

\* "we first need to make sure that all watchers have been informed of the state change"
\* (thread.cpp): a watcher of a thread that died wakes up, unless a core is lost.
WatchersInformed ==
    \A t \in Threads :
        (pc[t] \in {"sleep", "acquire", "eraselock", "erase", "push", "leave"}
            /\ state[target[t]] = "DEAD") ~>
        ((state[t] = "RUNNING" /\ pc[t] = "run") \/ CoreIsLost)

\* "we complete it and release a lock before making a task switch and later on we won't
\* end up in a deadlock situation" (sleep_queue.cpp): a thread that enters
\* SleepQueue::sleep() gets to its task switch, unless its core is lost on the way.
SleepCompletes ==
    \A t \in Threads : (pc[t] = "acquire") ~> (pc[t] = "force" \/ CoreIsLost)

\* No thread is lost: one that waits to run is queued once, one that sleeps is registered
\* where wakeup() finds it, and wakeup() finds only sleepers (scheduler.cpp,
\* sleep_queue.cpp).
ThreadsAccounted == TypeOK /\ QueueIsExact /\ WakeupAssert /\ SleeperIsRegistered

\* Preemption keeps every old thread running and every sleep reaches its task switch, and
\* what can prevent it is only a core that is lost in erase() or for heap_lock
\* (scheduler.cpp, sleep_queue.cpp).
ThreadsGoOn == OldThreadsRunAgain /\ SleepCompletes

=============================================================================
