---------------------------- MODULE PhysicalMemory -----------------------------
(***************************************************************************)
(* The physical page allocator (src/kernel/src/memory/physical.cpp): a     *)
(* bitmap of used pages, pmm_first_potential_page as the place where every *)
(* search starts, and pmm_lock around palloc() and pfree().  The search of *)
(* palloc() is modelled one is_page_used() at a time.  Addresses are page  *)
(* numbers.  The code has no answer for "no block is free": its search has *)
(* no end test and leaves the bitmap.  It then reads, and may mark, memory *)
(* that belongs to others, with pmm_lock held; `lost' says so and the      *)
(* behaviour ends there, for nothing can be said of what follows.          *)
(***************************************************************************)
EXTENDS Integers, FiniteSets

CONSTANTS
    Threads,
    NoThread,   \* pmm_lock is free
    NPages,     \* the bitmap describes the pages 0..NPages-1
    MaxCount,   \* bound on page_count
    MemoryMap,  \* the bootloader's entries [base, length, type], in pages
    LowPages,   \* pages of the first MiB
    InitRuns,   \* the init text and data sections, runs <<base, length>>
    SizeT       \* the range of size_t: 2^64 in the code

Run(a, n) == a..(a + n - 1)
Pages == 0..(NPages - 1)
Usable == {e \in MemoryMap : e.type = "usable"}
UsablePages == {p \in Pages : \E e \in Usable : p \in Run(e.base, e.length)}

ASSUME PhysicalAssumption ==
    /\ NPages \in Nat /\ MaxCount \in Nat \ {0} /\ SizeT \in Nat \ {0}
    /\ LowPages \in 0..NPages
    /\ NoThread \notin Threads
    /\ \A e \in MemoryMap :
        /\ e.base \in Pages /\ e.length \in Nat
        /\ e.base + e.length <= NPages
    /\ \E e \in Usable : \A f \in Usable : e.base <= f.base
    \* The sections lie in kernel memory, above the first MiB, and do not overlap.
    /\ \A r \in InitRuns :
        /\ r[1] \in Pages /\ r[2] \in Nat \ {0}
        /\ Run(r[1], r[2]) \subseteq Pages \ (UsablePages \cup Run(0, LowPages))
        /\ \A s \in InitRuns \ {r} : Run(r[1], r[2]) \cap Run(s[1], s[2]) = {}

VARIABLES
    used,       \* status_pages: the pages whose bit is set
    hint,       \* pmm_first_potential_page
    allocated,  \* allocated_ppages
    lock,       \* the thread that holds pmm_lock
    waiting,    \* page_count of the palloc() that spins for pmm_lock, 0: none
    searching,  \* [Threads -> BOOLEAN], in the loop of palloc()
    count,      \* page_count of that call
    addr,       \* its local addr
    i,          \* its local i
    held,       \* the pages a thread was given and has not freed
    init,       \* the init sections not yet released
    lost        \* a search has left the bitmap

search == <<searching, count, addr, i>>
vars == <<used, hint, allocated, lock, waiting, search, held, init, lost>>

\* init_pmm(): everything is used, the usable entries are cleared, then the first
\* MiB is set again; the hint is the lowest usable base.
Init ==
    /\ used = (Pages \ UsablePages) \cup Run(0, LowPages)
    /\ hint = CHOOSE b \in {e.base : e \in Usable} : \A f \in Usable : b <= f.base
    /\ allocated = 0
    /\ lock = NoThread
    /\ waiting = [t \in Threads |-> 0]
    /\ searching = [t \in Threads |-> FALSE]
    /\ count = [t \in Threads |-> 1]
    /\ addr = [t \in Threads |-> 0]
    /\ i = [t \in Threads |-> 0]
    /\ held = [t \in Threads |-> {}]
    /\ init = InitRuns
    /\ lost = FALSE

\* The locals of a call end with it.
Return(t) ==
    /\ searching' = [searching EXCEPT ![t] = FALSE]
    /\ count' = [count EXCEPT ![t] = 1]
    /\ addr' = [addr EXCEPT ![t] = 0]
    /\ i' = [i EXCEPT ![t] = 0]

BlockFree(a, n) == Run(a, n) \subseteq Pages \ used

-----------------------------------------------------------------------------
\* Mutated forms of the steps below: plausible slips in physical.cpp that the
\* properties must detect.  Spec does not use them.

\* Variant: pfree() leaves the hint where it is.
MutPfree(t, a, n) ==
    /\ lock = NoThread /\ waiting[t] = 0
    /\ Run(a, n) \subseteq held[t]
    /\ used' = used \ Run(a, n)
    /\ allocated' = (allocated - n) % SizeT
    /\ held' = [held EXCEPT ![t] = @ \ Run(a, n)]
    /\ UNCHANGED <<hint, lock, waiting, search, init, lost>>

\* Variant: pfree() clears one bit too few.
MutPfreeShort(t, a, n) ==
    /\ lock = NoThread /\ waiting[t] = 0
    /\ Run(a, n) \subseteq held[t]
    /\ used' = used \ Run(a, n - 1)
    /\ hint' = IF a < hint THEN a ELSE hint
    /\ allocated' = (allocated - n) % SizeT
    /\ held' = [held EXCEPT ![t] = @ \ Run(a, n)]
    /\ UNCHANGED <<lock, waiting, search, init, lost>>

\* Variant: palloc() moves the hint past every allocation.
MutMark(t) ==
    /\ searching[t] /\ i[t] = count[t]
    /\ used' = used \cup Run(addr[t], count[t])
    /\ hint' = addr[t] + count[t]
    /\ allocated' = (allocated + count[t]) % SizeT
    /\ held' = [held EXCEPT ![t] = @ \cup Run(addr[t], count[t])]
    /\ Return(t)
    /\ lock' = NoThread
    /\ UNCHANGED <<waiting, init, lost>>

\* Variant: palloc() returns without giving pmm_lock back.
MutMarkLocked(t) ==
    /\ searching[t] /\ i[t] = count[t]
    /\ used' = used \cup Run(addr[t], count[t])
    /\ hint' = IF addr[t] = hint THEN hint + count[t] ELSE hint
    /\ allocated' = (allocated + count[t]) % SizeT
    /\ held' = [held EXCEPT ![t] = @ \cup Run(addr[t], count[t])]
    /\ Return(t)
    /\ UNCHANGED <<lock, waiting, init, lost>>

-----------------------------------------------------------------------------

\* palloc() is called and spins for the lock ...
Call(t, n) ==
    /\ waiting[t] = 0 /\ ~searching[t]
    /\ waiting' = [waiting EXCEPT ![t] = n]
    /\ UNCHANGED <<used, hint, allocated, lock, search, held, init, lost>>

\* ... takes it and starts its search at the hint.
Palloc(t, n) ==
    /\ lock = NoThread /\ waiting[t] = n
    /\ lock' = t
    /\ waiting' = [waiting EXCEPT ![t] = 0]
    /\ searching' = [searching EXCEPT ![t] = TRUE]
    /\ count' = [count EXCEPT ![t] = n]
    /\ addr' = [addr EXCEPT ![t] = hint]
    /\ i' = [i EXCEPT ![t] = 0]
    /\ UNCHANGED <<used, hint, allocated, held, init, lost>>

\* One is_page_used(): a used page restarts the count behind it.
Test(t) ==
    /\ searching[t] /\ i[t] < count[t]
    /\ addr[t] + i[t] \in Pages
    /\ IF addr[t] + i[t] \in used
       THEN /\ addr' = [addr EXCEPT ![t] = @ + i[t] + 1]
            /\ i' = [i EXCEPT ![t] = 0]
       ELSE /\ i' = [i EXCEPT ![t] = @ + 1]
            /\ UNCHANGED addr
    /\ UNCHANGED <<used, hint, allocated, lock, waiting, searching, count, held, init, lost>>

\* The next page to test is behind the end of the bitmap.
RunOff(t) ==
    /\ searching[t] /\ i[t] < count[t]
    /\ addr[t] + i[t] \notin Pages
    /\ lost' = TRUE
    /\ UNCHANGED <<used, hint, allocated, lock, waiting, search, held, init>>

\* The whole block was free: it is marked, the hint moves past it if the search
\* ended where it began, and palloc() returns.
Mark(t) ==
    /\ searching[t] /\ i[t] = count[t]
    /\ used' = used \cup Run(addr[t], count[t])
    /\ hint' = IF addr[t] = hint THEN hint + count[t] ELSE hint
    /\ allocated' = (allocated + count[t]) % SizeT
    /\ held' = [held EXCEPT ![t] = @ \cup Run(addr[t], count[t])]
    /\ Return(t)
    /\ lock' = NoThread
    /\ UNCHANGED <<waiting, init, lost>>

\* The body of pfree(), under the lock.
FreeRun(a, n) ==
    /\ lock = NoThread
    /\ used' = used \ Run(a, n)
    /\ hint' = IF a < hint THEN a ELSE hint
    /\ allocated' = (allocated - n) % SizeT
    /\ UNCHANGED <<lock, waiting, search, lost>>

\* pfree() of pages the caller got from palloc(), all of a block or part of it.
Pfree(t, a, n) ==
    /\ waiting[t] = 0
    /\ Run(a, n) \subseteq held[t]
    /\ FreeRun(a, n)
    /\ held' = [held EXCEPT ![t] = @ \ Run(a, n)]
    /\ UNCHANGED init

\* pmm_release_init_resources(): each of the two sections is unmapped and freed.
ReleaseInit(r) ==
    /\ r \in init
    /\ FreeRun(r[1], r[2])
    /\ init' = init \ {r}
    /\ UNCHANGED held

Next ==
    /\ ~lost
    /\ \/ \E t \in Threads :
           \/ \E n \in 1..MaxCount :
               \/ Call(t, n)
               \/ Palloc(t, n)
               \/ \E a \in Pages : Pfree(t, a, n)
           \/ Test(t) \/ RunOff(t)
           \/ Mark(t)
       \/ \E r \in InitRuns : ReleaseInit(r)

\* A thread inside palloc() runs on, and one that spins for the lock takes it when
\* it is free and stays so.
Fairness ==
    \A t \in Threads :
        /\ WF_vars(Test(t)) /\ WF_vars(RunOff(t)) /\ WF_vars(Mark(t))
        /\ WF_vars(\E n \in 1..MaxCount : Palloc(t, n))

Spec == Init /\ [][Next]_vars /\ Fairness

-----------------------------------------------------------------------------

TypeOK ==
    /\ used \subseteq Pages
    /\ hint \in 0..NPages
    /\ allocated \in 0..(SizeT - 1)
    /\ lock \in Threads \cup {NoThread}
    /\ waiting \in [Threads -> 0..MaxCount]
    /\ searching \in [Threads -> BOOLEAN]
    /\ count \in [Threads -> 1..MaxCount]
    /\ addr \in [Threads -> 0..NPages]
    /\ i \in [Threads -> 0..MaxCount]
    /\ held \in [Threads -> SUBSET Pages]
    /\ init \subseteq InitRuns
    /\ lost \in BOOLEAN

\* pmm_first_potential_page is what its name says: no page below it is free, so
\* no search that starts there misses one.
NoFreeBelowHint == \A p \in Pages : p < hint => p \in used

\* No page is in the hands of two threads, free while a thread or the kernel's
\* init sections still use it, or used by nobody palloc() gave it to.
PagesAccounted ==
    /\ \A t \in Threads : held[t] \subseteq used
    /\ \A s, t \in Threads : s # t => held[s] \cap held[t] = {}
    /\ \A r \in init : Run(r[1], r[2]) \subseteq used
    /\ \A r \in init, t \in Threads : Run(r[1], r[2]) \cap held[t] = {}

\* No page is lost: one that is marked used is held by a thread, or was kept from
\* palloc() at boot.
NoPageLost ==
    \A p \in used :
        \/ \E t \in Threads : p \in held[t]
        \/ p \in Run(0, LowPages)
        \/ p \in Pages \ UsablePages

NoBlock(n) == \A b \in Pages : ~BlockFree(b, n)

\* A search comes to the end of the bitmap only when no block of its length is
\* free, though the loop of palloc() has no end condition of its own.
SearchInBitmap ==
    \A t \in Threads :
        searching[t] /\ i[t] < count[t] /\ addr[t] + i[t] \notin Pages => NoBlock(count[t])

\* The search loop, hint and lock implement an allocator that hands out the
\* lowest free block of the wanted length in one step.
Allocator == INSTANCE PageAllocator
    WITH free <- Pages \ used, owned <- held, FreePages <- UsablePages \ Run(0, LowPages)
ImplementsAllocator == Allocator!AbsSpec

\* A palloc() gives pmm_lock back, having found a block, unless no block of its
\* length is free and its search leaves the bitmap; and while calls wait for the
\* lock one of them gets it (physical.cpp:128-155).
PallocReturns ==
    /\ []<>(\/ lock = NoThread
            \/ \E t \in Threads : lost /\ searching[t] /\ NoBlock(count[t]))
    /\ (\E t \in Threads : waiting[t] # 0) ~> (\E t \in Threads : searching[t])

=============================================================================
