------------------------------ MODULE ThreadQueue ------------------------------
(***************************************************************************)
(* kernel::ThreadQueue (src/kernel/include/tasking/thread_queue.hpp): the  *)
(* intrusive singly linked list of runnable threads, linked by f_next.     *)
(* Scheduler calls it under queue_lock, so a call is one step.             *)
(***************************************************************************)
EXTENDS Integers, FiniteSets, Sequences, FiniteSetsExt

CONSTANTS
    Threads,    \* every Thread object
    Cores,      \* core numbers
    NoCore,     \* f_preferred_core = -1, not a core
    Null        \* the null pointer, not a thread

VARIABLES
    first, last,    \* the ends of the list
    f_next,         \* the link of every thread
    pref,           \* f_preferred_core of every thread
    held,           \* threads the callers own: new, running or sleeping
    severed         \* history: a thread was unlinked from a node that is not before it

vars == <<first, last, f_next, pref, held, severed>>

Init ==
    /\ first = Null /\ last = Null
    /\ f_next = [t \in Threads |-> Null]
    /\ pref = [t \in Threads |-> NoCore]
    /\ held = Threads
    /\ severed = FALSE

-----------------------------------------------------------------------------
\* The walk `for(thread = first; thread != 0; thread = thread->f_next)`: the node it
\* is at after k links.  A walk longer than the number of threads never ends.
Node == LET walk[k \in 0..Cardinality(Threads)] ==
                IF k = 0 THEN first
                ELSE IF walk[k-1] = Null THEN Null ELSE f_next[walk[k-1]]
        IN  walk

Walked == {k \in 0..Cardinality(Threads) : Node[k] # Null}

\* The list the walk sees, front to back.
Listed == [i \in 1..Cardinality(Walked) |-> Node[i-1]]

-----------------------------------------------------------------------------
\* Mutated forms of the operations below: plausible slips in thread_queue.hpp that
\* the properties must detect.  Spec does not use them.

\* Variant: push_back() forgets to move last.
MutPushBack(t) ==
    /\ f_next' = IF last # Null THEN [f_next EXCEPT ![t] = Null, ![last] = t]
                                ELSE [f_next EXCEPT ![t] = Null]
    /\ first' = IF last # Null THEN first ELSE t
    /\ last' = IF last # Null THEN last ELSE t
    /\ held' = held \ {t}
    /\ UNCHANGED <<pref, severed>>

-----------------------------------------------------------------------------

\* push_back()
PushBack(t) ==
    /\ f_next' = IF last # Null THEN [f_next EXCEPT ![t] = Null, ![last] = t]
                                ELSE [f_next EXCEPT ![t] = Null]
    /\ first' = IF last # Null THEN first ELSE t
    /\ last' = t
    /\ held' = held \ {t}
    /\ UNCHANGED <<pref, severed>>

\* Node i leaves the list, with `prev` as its predecessor unless it is the first.
Unlink(i, prev) ==
    LET best == Node[i] IN
    /\ first' = IF i = 0 THEN f_next[best] ELSE first
    /\ f_next' = IF i = 0 THEN [f_next EXCEPT ![best] = Null]
                 ELSE [f_next EXCEPT ![prev] = f_next[best], ![best] = Null]
    /\ last' = IF best # last THEN last ELSE IF i = 0 THEN Null ELSE prev
    /\ held' = held \cup {best}

Own(c)    == {k \in Walked : pref[Node[k]] = c}
NeverRan  == {k \in Walked : pref[Node[k]] = NoCore}

\* The return inside the loop of get_optimal_thread(): the first thread that prefers
\* this core, when the front does not; prev is the node before it.
GetOptimalOwn(c) ==
    /\ Own(c) # {} /\ 0 \notin Own(c)
    /\ LET i == Min(Own(c)) IN Unlink(i, Node[i-1])
    /\ UNCHANGED <<pref, severed>>

\* best_thread after a loop that met no later thread of this core: the front if that
\* prefers this core or never ran, else the first thread that never ran, else the front.
FrontOrNew(c) == IF Own(c) = {} /\ NeverRan # {} THEN Min(NeverRan) ELSE 0

\* The code after the loop, which a list that runs into a circle never reaches.  prev was
\* advanced by every iteration: it is the end of the list, and for a thread that is not the
\* front it is not the node before it.  What lies between the two leaves the list with the
\* thread, or, when the thread is the end itself, nothing does.
GetOptimalOther(c) ==
    /\ Walked # {} /\ Node[Cardinality(Threads)] = Null
    /\ Own(c) = {} \/ 0 \in Own(c)
    /\ Unlink(FrontOrNew(c), Node[Max(Walked)])
    /\ pref' = [pref EXCEPT ![Node[FrontOrNew(c)]] = c]
    /\ severed' = (severed \/ FrontOrNew(c) # 0)

\* Callers push only what they own, and erase() is only reached by Thread::sleep() of a
\* running thread, which is not listed: its pointer walk changes no link (TaskScheduler
\* has its other outcome).
Next ==
    \/ \E t \in held : PushBack(t)
    \/ \E c \in Cores : GetOptimalOwn(c)
    \/ \E c \in Cores : GetOptimalOther(c)

Spec == Init /\ [][Next]_vars

-----------------------------------------------------------------------------

TypeOK ==
    /\ first \in Threads \cup {Null} /\ last \in Threads \cup {Null}
    /\ f_next \in [Threads -> Threads \cup {Null}]
    /\ pref \in [Threads -> Cores \cup {NoCore}]
    /\ held \subseteq Threads
    /\ severed \in BOOLEAN

\* A thread is on the list exactly when no caller owns it, the walk from first meets
\* every listed thread once, ends, and ends at last: no thread is lost from the run
\* queue, and none that is running or sleeping is still linked in it.  This holds on any
\* number of cores up to the first thread that is unlinked at thread_queue.hpp:141.
ListIsExact == ~severed =>
    /\ {Node[k] : k \in Walked} = Threads \ held
    /\ Cardinality(Walked) = Cardinality(Threads \ held)
    /\ last = IF Walked = {} THEN Null ELSE Node[Max(Walked)]

\* The list implements the sequence the scheduler expects: arrival order, choice by
\* affinity, and a taken thread, and only that, leaves.  The one step that does not is the
\* unlinking of a thread that never ran from behind threads of other cores
\* (thread_queue.hpp:141); with one core there is no such step.
Abstract == INSTANCE RunQueue WITH queue <- Listed
ImplementsRunQueue ==
    Abstract!Init /\ [][severed' \/ Abstract!Next]_<<Abstract!queueVars, severed>>

=============================================================================
