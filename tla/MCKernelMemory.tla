---------------------------- MODULE MCKernelMemory -----------------------------
\* Physical pages, page tables and the kernel heap, side by side: a behaviour is one of
\* the page allocator's, the pagers' or the heap's, as `part` says.
\*
\* Pages: seven.  Page 0 stands for the first MiB, 2 and 5 for the init sections; the
\*   rest is usable, in runs of one and two pages, so that a request of two has to step
\*   over holes, before and after the sections are released, and memory runs out.  The
\*   first MiB has no usable page: with one the hint would never move.  size_t wraps at 8.
\* Pagers: two, one of them with a user page, two kernel pages, and six work pages, so
\*   that both can hold the three they need and both go for the same free one; three
\*   calls interleave.
\* Heap: three pages of sixteen units, majors of one page and more, and requests of
\*   three sizes, so that majors fill, are split, emptied and given back.
EXTENDS KernelMemory

CONSTANTS Parts, HeapPages, PageSize, PageCount, MajorSize, MinorSize, Alignment, AlignInfo, Requests

Entry(b, n, ty) == [base |-> b, length |-> n, type |-> ty]
MCMemoryMap == {
    Entry(0, 1, "reserved"), Entry(1, 1, "usable"), Entry(2, 1, "kernel"), Entry(3, 2, "usable"),
    Entry(5, 1, "kernel"), Entry(6, 1, "usable")}
MCInitRuns == {<<2, 1>>, <<5, 1>>}

VARIABLES part, majors, l_bestBet, l_inuse, usedPages, heapHint, growing, stuck

Blocks == INSTANCE Heap WITH hint <- heapHint

pager == <<mem, root, control, workPages, tables, kallocHint, klock, call, expected, calls, raced>>
heap == <<majors, l_bestBet, l_inuse, usedPages, heapHint, growing, stuck>>

MCInit == part \in Parts /\ Init /\ Paging!Init /\ Blocks!Init
MCNext ==
    /\ UNCHANGED part
    /\ \/ part = "pages" /\ Next /\ UNCHANGED <<pager, heap>>
       \/ part = "pager" /\ Paging!Next /\ UNCHANGED <<vars, heap>>
       \/ part = "heap" /\ Blocks!Next /\ UNCHANGED <<vars, pager>>
MCSpec == MCInit /\ [][MCNext]_<<part, vars, pager, heap>> /\ Fairness

\* Blocks overlap neither each other nor a header (liballoc.c:360-446); the counts of
\* used bytes are exact and a page is used when a major lies in it (liballoc.c:583-585).
HeapExact == Blocks!BlocksDisjoint /\ Blocks!UsageExact
\* malloc() gives up only when no run of free pages is long enough
\* (liballoc_plugs.cpp:51-72).
FailsOnlyWhenFull == Blocks!FailsOnlyWhenFull

=============================================================================
