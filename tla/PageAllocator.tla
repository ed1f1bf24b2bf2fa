----------------------------- MODULE PageAllocator -----------------------------
(***************************************************************************)
(* What palloc() and pfree() promise (src/kernel/include/memory/physical.h): *)
(* an allocation hands out the lowest run of free pages that is long       *)
(* enough, in one step, and a page is returned to the free set only by the *)
(* one that owns it.  PhysicalMemory.tla shows that the bitmap, the search *)
(* loop, the first-potential-page hint and pmm_lock implement this.        *)
(***************************************************************************)
EXTENDS Integers

CONSTANTS
    Threads,
    NPages,     \* the physical page frames are 0..NPages-1
    MaxCount,   \* the largest request
    FreePages,  \* what is free after boot
    InitRuns    \* the kernel's init sections, a set of runs <<base, count>>

VARIABLES
    free,       \* the free pages
    owned,      \* the pages each thread got and has not given back
    init        \* the init sections that are still in place

absvars == <<free, owned, init>>

Run(a, n) == a..(a + n - 1)

AbsInit ==
    /\ free = FreePages
    /\ owned = [t \in Threads |-> {}]
    /\ init = InitRuns

\* a starts the lowest run of n free pages.
Lowest(a, n) ==
    /\ Run(a, n) \subseteq free
    /\ \A b \in 0..(a - 1) : ~(Run(b, n) \subseteq free)

Alloc(t, n) ==
    \E a \in 0..(NPages - 1) :
        /\ Lowest(a, n)
        /\ free' = free \ Run(a, n)
        /\ owned' = [owned EXCEPT ![t] = @ \cup Run(a, n)]
        /\ UNCHANGED init

Free(t, a, n) ==
    /\ Run(a, n) \subseteq owned[t]
    /\ free' = free \cup Run(a, n)
    /\ owned' = [owned EXCEPT ![t] = @ \ Run(a, n)]
    /\ UNCHANGED init

GiveInit(r) ==
    /\ r \in init
    /\ free' = free \cup Run(r[1], r[2])
    /\ init' = init \ {r}
    /\ UNCHANGED owned

AbsNext ==
    \/ \E t \in Threads, n \in 1..MaxCount :
        \/ Alloc(t, n)
        \/ \E a \in 0..(NPages - 1) : Free(t, a, n)
    \/ \E r \in InitRuns : GiveInit(r)

AbsSpec == AbsInit /\ [][AbsNext]_absvars

=============================================================================
