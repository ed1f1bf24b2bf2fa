--------------------------------- MODULE Heap ----------------------------------
(***************************************************************************)
(* The kernel heap: malloc, free and realloc of src/kernel/src/memory/     *)
(* liballoc.c on the pages of initial_heap that liballoc_plugs.cpp hands   *)
(* out.  heap_lock is held for the whole of malloc() and of free(), so each *)
(* is one step; realloc() lets it go between its steps.  Major blocks are  *)
(* a sequence in the order of their list, each with the sequence of its    *)
(* minor blocks; addresses and sizes are numbers of allocation units.      *)
(* When the pages run out both plugs copy the active Pager, and the copy's *)
(* destructor frees a list node under the lock that is held: that thread   *)
(* never returns, and neither does any later call (`stuck`).               *)
(***************************************************************************)
EXTENDS Integers, SequencesExt, FiniteSetsExt

CONSTANTS
    HeapPages,              \* HEAP_PAGE_SIZE: pages of initial_heap
    PageSize, PageCount,    \* l_pageSize, and l_pageCount, the smallest major
    MajorSize, MinorSize,   \* sizes of the two headers
    Alignment, AlignInfo,
    Requests                \* the sizes that are asked for

VARIABLES
    majors,     \* <<[at, pages, usage, minors : <<[at, size, req]>>]>>
    l_bestBet,  \* the address of a major, or NoMajor
    l_inuse,
    usedPages,  \* heap_usage_bitmap
    hint,       \* heap_first_potential_page
    growing,    \* the block realloc() has copied from and is about to free
    stuck       \* pages that could not be had, 0 while the heap works

heapVars == <<majors, l_bestBet, l_inuse, usedPages, hint, growing, stuck>>
NoMajor == -1

Init ==
    /\ majors = <<>> /\ l_bestBet = NoMajor /\ l_inuse = 0
    /\ usedPages = {} /\ hint = 0
    /\ growing = {} /\ stuck = 0

Bytes(maj) == maj.pages * PageSize
Free(maj) == Bytes(maj) - maj.usage
Index(at) == CHOOSE i \in DOMAIN majors : majors[i].at = at

\* malloc() asks for room to align in; the block also has a header.
Padded(req) == req + Alignment + AlignInfo
Needed(req) == Padded(req) + MinorSize

\* ALIGN(): the address a caller gets, and the distance stored in front of it.
Aligned(min) ==
    LET p == min.at + MinorSize + AlignInfo  diff == p % Alignment
    IN  p + (IF diff = 0 THEN 0 ELSE Alignment - diff)
StoredDiff(min) == Aligned(min) - (min.at + MinorSize)

-----------------------------------------------------------------------------
\* Pages.

\* The search of liballoc_alloc(): the page of the first block from the hint on,
\* skipping past the first used page of every candidate, or HeapPages.
FindPages(n) ==
    LET RECURSIVE From(_)
        From(page) ==
            IF page + n > HeapPages THEN HeapPages
            ELSE LET used == {i \in 0..(n - 1) : page + i \in usedPages} IN
                 IF used = {} THEN page ELSE From(page + Min(used) + 1)
    IN From(hint)

\* allocate_new_page(): the pages of a new major.
PagesFor(req) ==
    LET st == Padded(req) + MajorSize + MinorSize
        pages == st \div PageSize + (IF st % PageSize = 0 THEN 0 ELSE 1)
    IN  Max({pages, PageCount})

\* Variant: the hint is not lowered.
MutReleasePages(maj) ==
    /\ usedPages' = usedPages \ {maj.at \div PageSize + i : i \in 0..(maj.pages - 1)}
    /\ UNCHANGED hint

\* liballoc_free().
ReleasePages(maj) ==
    LET page == maj.at \div PageSize IN
    /\ usedPages' = usedPages \ {page + i : i \in 0..(maj.pages - 1)}
    /\ hint' = IF page < hint THEN page ELSE hint

-----------------------------------------------------------------------------
\* malloc.

\* The space before minor k + 1 of a major, or behind its last one.
GapStart(maj, k) ==
    IF k = 0 THEN maj.at + MajorSize
    ELSE maj.minors[k].at + MinorSize + maj.minors[k].size
GapEnd(maj, k) ==
    IF k = Len(maj.minors) THEN maj.at + Bytes(maj) ELSE maj.minors[k + 1].at
\* Variant: the header of the new block is forgotten.
MutGaps(maj, req) ==
    {k \in 0..Len(maj.minors) : GapEnd(maj, k) - GapStart(maj, k) >= Padded(req)}

\* The gaps a block and its header fit into.
Gaps(maj, req) ==
    {k \in 0..Len(maj.minors) : GapEnd(maj, k) - GapStart(maj, k) >= Needed(req)}

\* Cases 2, 3, 4.1 and 4.2: the first gap that is large enough takes the block.
Squeeze(maj, req) ==
    LET k == Min(Gaps(maj, req)) IN
    [maj EXCEPT !.usage = @ + Needed(req),
                !.minors = InsertAt(@, k + 1,
                              [at |-> GapStart(maj, k), size |-> Padded(req), req |-> req])]

\* The majors in the order malloc() looks at them: from the best bet to the end of
\* the list first, when that one may do, and then from the root.
Walk(req) ==
    LET all == [i \in DOMAIN majors |-> i] IN
    IF l_bestBet # NoMajor /\ Free(majors[Index(l_bestBet)]) > Needed(req)
    THEN SubSeq(all, Index(l_bestBet), Len(majors)) \o all
    ELSE all

\* Case 1 and case 5 go on to the next major.
Fits(maj, req) == Free(maj) >= Needed(req) /\ Gaps(maj, req) # {}

\* l_bestBet after looking at the majors of a sequence: the roomiest seen.
BetAfter(ms, seen) ==
    FoldLeft(LAMBDA bet, i :
                 IF bet = NoMajor
                 THEN IF Free(ms[i]) > 0 THEN ms[i].at ELSE bet
                 ELSE IF Free(ms[Index(bet)]) < Free(ms[i]) THEN ms[i].at ELSE bet,
             l_bestBet, seen)

Malloc(req) ==
    /\ stuck = 0
    /\ LET walk == Walk(req)
           hits == {k \in DOMAIN walk : Fits(majors[walk[k]], req)}
           page == FindPages(PagesFor(req))
           new == [at |-> page * PageSize, pages |-> PagesFor(req),
                   usage |-> MajorSize, minors |-> <<>>]
       IN \/ /\ hits # {}
             /\ LET i == walk[Min(hits)] IN
                /\ l_bestBet' = BetAfter(majors, SubSeq(walk, 1, Min(hits)))
                /\ majors' = [majors EXCEPT ![i] = Squeeze(@, req)]
             /\ l_inuse' = l_inuse + Padded(req)
             /\ UNCHANGED <<usedPages, hint, stuck>>
          \/ /\ hits = {} /\ page < HeapPages
             /\ usedPages' = usedPages \cup {page + i : i \in 0..(PagesFor(req) - 1)}
             /\ hint' = IF hint = page THEN page + PagesFor(req) ELSE hint
             /\ LET bet == BetAfter(majors, walk)
                    \* Case 5 loops and compares the new major too, case 1 does not.
                    case5 == majors # <<>> /\ Free(Last(majors)) >= Needed(req)
                IN  l_bestBet' =
                        IF bet # NoMajor /\ ~case5 THEN bet
                        ELSE IF bet # NoMajor /\ Free(majors[Index(bet)]) >= Free(new) THEN bet
                        ELSE IF majors = <<>> \/ case5 THEN new.at ELSE bet
             /\ majors' = Append(majors, Squeeze(new, req))
             /\ l_inuse' = l_inuse + Padded(req)
             /\ UNCHANGED stuck
          \/ /\ hits = {} /\ page = HeapPages
             /\ stuck' = PagesFor(req)
             /\ UNCHANGED <<majors, l_bestBet, l_inuse, usedPages, hint>>

-----------------------------------------------------------------------------
\* free.

\* free() of minor j of major i: an empty major goes back to the pages.
FreeMinor(i, j) ==
    /\ stuck = 0
    /\ LET min == majors[i].minors[j]
           maj == [majors[i] EXCEPT !.usage = @ - (min.size + MinorSize),
                                    !.minors = RemoveAt(@, j)]
       IN /\ l_inuse' = l_inuse - min.size
          /\ \/ /\ maj.minors = <<>>
                /\ majors' = RemoveAt(majors, i)
                /\ l_bestBet' = IF l_bestBet = maj.at THEN NoMajor ELSE l_bestBet
                /\ ReleasePages(maj)
             \/ /\ maj.minors # <<>>
                /\ majors' = [majors EXCEPT ![i] = maj]
                /\ l_bestBet' = IF l_bestBet # NoMajor /\ l_bestBet # maj.at
                                   /\ Free(maj) > Free(majors[Index(l_bestBet)])
                                THEN maj.at ELSE l_bestBet
                /\ UNCHANGED <<usedPages, hint>>
    /\ UNCHANGED stuck

\* The block a caller's pointer belongs to: UNALIGN() and the header before it.
MinorOf(ptr, i, j) ==
    LET min == majors[i].minors[j] IN
    Aligned(min) = ptr /\ ptr - StoredDiff(min) - MinorSize = min.at

Pointers == UNION {{Aligned(majors[i].minors[j]) : j \in DOMAIN majors[i].minors} : i \in DOMAIN majors}

\* malloc() and calloc(), operator new.
Alloc(req) == Malloc(req) /\ UNCHANGED growing

\* free() and operator delete of a pointer its owner still has.
Release(ptr) ==
    /\ ptr \notin growing
    /\ \E i \in DOMAIN majors : \E j \in DOMAIN majors[i].minors :
        MinorOf(ptr, i, j) /\ FreeMinor(i, j)
    /\ UNCHANGED growing

\* realloc() to a smaller size keeps the block, to a larger one it allocates,
\* copies, and then frees the old block.
Realloc(ptr, req) ==
    /\ stuck = 0 /\ growing = {}
    /\ \E i \in DOMAIN majors : \E j \in DOMAIN majors[i].minors :
        /\ MinorOf(ptr, i, j)
        /\ \/ /\ majors[i].minors[j].req >= req
              /\ majors' = [majors EXCEPT ![i].minors[j].req = req]
              /\ UNCHANGED <<l_bestBet, l_inuse, usedPages, hint, growing, stuck>>
           \/ /\ majors[i].minors[j].req < req
              /\ Malloc(req)
              /\ growing' = {ptr}
ReallocFree ==
    /\ \E ptr \in growing : \E i \in DOMAIN majors : \E j \in DOMAIN majors[i].minors :
        MinorOf(ptr, i, j) /\ FreeMinor(i, j)
    /\ growing' = {}

Next ==
    \/ \E req \in Requests : Alloc(req)
    \/ \E ptr \in Pointers : Release(ptr) \/ \E req \in Requests : Realloc(ptr, req)
    \/ ReallocFree

Spec == Init /\ [][Next]_heapVars

-----------------------------------------------------------------------------
Minors == UNION {Range(majors[i].minors) : i \in DOMAIN majors}

\* Blocks lie inside their major and overlap neither each other nor a header, and
\* what a caller was given is aligned and inside its block, whatever was allocated,
\* shrunk and freed before.
BlocksDisjoint ==
    /\ \A i \in DOMAIN majors : LET maj == majors[i] IN
        \A k \in 0..Len(maj.minors) : GapStart(maj, k) <= GapEnd(maj, k)
    /\ \A i, j \in DOMAIN majors : i # j =>
        \/ majors[i].at + Bytes(majors[i]) <= majors[j].at
        \/ majors[j].at + Bytes(majors[j]) <= majors[i].at
    /\ \A min \in Minors :
        /\ Aligned(min) % Alignment = 0
        /\ Aligned(min) + min.req <= min.at + MinorSize + min.size

\* The counters malloc() trusts are exact: the use of a major, l_inuse and the
\* bitmap; and the best bet is a major that still exists.
UsageExact ==
    /\ \A i \in DOMAIN majors :
        majors[i].usage = MajorSize
            + FoldSeq(LAMBDA min, sum : sum + min.size + MinorSize, 0, majors[i].minors)
    /\ l_inuse = FoldSeq(LAMBDA maj, sum : sum + maj.usage - MajorSize
                            - MinorSize * Len(maj.minors), 0, majors)
    /\ usedPages = UNION {{majors[i].at \div PageSize + k : k \in 0..(majors[i].pages - 1)}
                             : i \in DOMAIN majors}
    /\ l_bestBet = NoMajor \/ \E i \in DOMAIN majors : majors[i].at = l_bestBet

\* The heap falls back to the pager only when no run of enough free pages is left:
\* neither the hint nor the skipping search of liballoc_alloc() hides one.
FailsOnlyWhenFull ==
    stuck # 0 => \A page \in 0..(HeapPages - stuck) :
                    \E i \in 0..(stuck - 1) : page + i \in usedPages

=============================================================================
