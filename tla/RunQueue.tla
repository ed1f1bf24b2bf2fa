------------------------------- MODULE RunQueue --------------------------------
(***************************************************************************)
(* What the scheduler expects of its queue of runnable threads: a sequence *)
(* in arrival order from which a core takes, by affinity, the oldest thread *)
(* that last ran on it, else the oldest that never ran, else the oldest.   *)
(* ThreadQueue is the linked list that has to implement it.                *)
(***************************************************************************)
EXTENDS Integers, FiniteSets, Sequences, SequencesExt

CONSTANTS
    Threads,    \* every Thread object
    Cores,      \* core numbers
    NoCore      \* f_preferred_core = -1: the thread never ran

VARIABLES
    queue,      \* the threads waiting to be run, oldest first
    pref        \* f_preferred_core of every thread

queueVars == <<queue, pref>>

\* The positions of the threads of q whose preferred core is k.
Preferring(q, p, k) == {i \in 1..Len(q) : p[q[i]] = k}

\* The choice a core makes: its own threads, then new ones, then any.
BestOf(q, p, c) ==
    IF Preferring(q, p, c) # {} THEN Min(Preferring(q, p, c))
    ELSE IF Preferring(q, p, NoCore) # {} THEN Min(Preferring(q, p, NoCore))
    ELSE 1

Init ==
    /\ queue = <<>>
    /\ pref = [t \in Threads |-> NoCore]

Push(t) ==
    /\ t \notin ToSet(queue)
    /\ queue' = Append(queue, t)
    /\ UNCHANGED pref

\* Core c takes one thread out and becomes its preferred core.
Take(c) ==
    /\ queue # <<>>
    /\ LET i == BestOf(queue, pref, c) IN
        /\ queue' = RemoveAt(queue, i)
        /\ pref' = [pref EXCEPT ![queue[i]] = c]

Next ==
    \/ \E t \in Threads : Push(t)
    \/ \E c \in Cores : Take(c)

Spec == Init /\ [][Next]_queueVars

=============================================================================
