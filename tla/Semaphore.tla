------------------------------- MODULE Semaphore -------------------------------
(***************************************************************************)
(* kernel::Semaphore (src/kernel/src/locking/semaphore.cpp): a counting    *)
(* semaphore on one atomic integer.  acquire() spins until it loads a      *)
(* positive f_current, decrements it, and undoes the decrement when another *)
(* thread got there first, so f_current is negative for a moment.          *)
(* Every atomic operation of the code is one step here.                    *)
(***************************************************************************)
EXTENDS Integers, FiniteSets

CONSTANTS
    Threads,    \* the threads that use the semaphore
    f_max,      \* the amount given to the constructor
    Initial     \* its initial value: f_max, or the second constructor's argument

ASSUME SemaphoreAssumption ==
    /\ IsFiniteSet(Threads)
    /\ f_max \in Nat \ {0}
    /\ Initial \in 0..f_max

VARIABLES
    f_current,  \* the atomic counter
    at          \* where each thread is in acquire()/release()

vars == <<f_current, at>>

\* "out": not inside; "load": the inner spin; "sub": about to fetch_add(-1);
\* "undo": about to give the failed decrement back; "in": acquire() returned.
Locations == {"out", "load", "sub", "undo", "in"}

Init ==
    /\ f_current = Initial
    /\ at = [t \in Threads |-> "out"]

-----------------------------------------------------------------------------
\* Mutated forms of the steps below: plausible slips in semaphore.cpp that the
\* properties must detect.  Spec does not use them.

\* Variant: acquire() also keeps a decrement that fetched 0.
MutSub(t) ==
    /\ at[t] = "sub"
    /\ f_current' = f_current - 1
    /\ at' = [at EXCEPT ![t] = IF f_current >= 0 THEN "in" ELSE "undo"]

-----------------------------------------------------------------------------

\* acquire() is called.
Call(t) ==
    /\ at' = [at EXCEPT ![t] = "load"]
    /\ UNCHANGED f_current

\* while(atomic_load(&f_current) <= 0): the spin ends once a load sees a permit.
Load(t) ==
    /\ at[t] = "load"
    /\ at' = [at EXCEPT ![t] = IF f_current > 0 THEN "sub" ELSE "load"]
    /\ UNCHANGED f_current

\* tmp = fetch_add(-1); a positive tmp is a permit, anything else is undone.
Sub(t) ==
    /\ at[t] = "sub"
    /\ f_current' = f_current - 1
    /\ at' = [at EXCEPT ![t] = IF f_current > 0 THEN "in" ELSE "undo"]

\* The failed decrement is given back and the outer loop starts again.
Undo(t) ==
    /\ at[t] = "undo"
    /\ f_current' = f_current + 1
    /\ at' = [at EXCEPT ![t] = "load"]

\* release(): fetch_add(1); the assertion that follows is ReleaseAssert below.
Release(t) ==
    /\ f_current' = f_current + 1
    /\ at' = [at EXCEPT ![t] = "out"]

Next ==
    \E t \in Threads :
        \/ at[t] = "out" /\ Call(t)
        \/ Load(t)
        \/ Sub(t)
        \/ Undo(t)
        \/ at[t] = "in" /\ Release(t)

\* Spinning threads run until they are let in, and a thread that got in releases:
\* every core executes, and the run queue is round robin.
Fairness ==
    \A t \in Threads :
        /\ WF_vars(Load(t)) /\ WF_vars(Sub(t)) /\ WF_vars(Undo(t))
        /\ WF_vars(at[t] = "in" /\ Release(t))

Spec == Init /\ [][Next]_vars /\ Fairness

-----------------------------------------------------------------------------

Holders  == {t \in Threads : at[t] = "in"}
Undoing  == {t \in Threads : at[t] = "undo"}
Waiting  == {t \in Threads : at[t] \in {"load", "sub", "undo"}}

TypeOK ==
    /\ f_current \in (-Cardinality(Threads))..f_max
    /\ at \in [Threads -> Locations]

\* Every permit is either free, held, or lent for a moment to a thread that is
\* undoing its decrement: acquire() and release() neither lose nor invent one,
\* whatever the interleaving of their fetch_adds.
PermitsConserved ==
    f_current + Cardinality(Holders) + Cardinality(Undoing) = Initial

\* No more threads are past acquire() than the semaphore has permits.
Capacity == Cardinality(Holders) <= Initial

\* ASSERT_F(val < f_max) in release(): the value fetched by a release is below
\* the maximum, even while other threads hold a failed decrement.
ReleaseAssert == \A t \in Threads : at[t] = "in" => f_current < f_max

\* As long as holders release, the spinning threads do not block one another:
\* some thread gets through acquire().
SomeoneEnters == (Waiting # {}) ~> (Holders # {})

=============================================================================
