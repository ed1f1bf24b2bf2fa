--------------------------------- MODULE Pager ---------------------------------
(***************************************************************************)
(* Page tables (src/kernel/src/memory/virtual.cpp).  A pager reaches its   *)
(* tables through work pages, entries of one control page that all pagers  *)
(* share and take with an unlocked test and set.  mapStructures() walks    *)
(* from the root and points one work page at the table of every level,     *)
(* making the tables that are missing.  Kernel addresses share their       *)
(* tables between all pagers and are changed under kernel_locker.          *)
(* Three levels stand for four; each pager has one thread; threads are     *)
(* preempted between the steps below, but not inside a table access that   *)
(* nobody else can disturb.  The TLB is left out: unmap() does not flush    *)
(* it, and kernel mappings are global, so their old translations stay.     *)
(***************************************************************************)
EXTENDS Integers, SequencesExt, FiniteSetsExt

CONSTANTS
    Pagers,         \* pagers, each with the thread that uses it
    Users,          \* those that have user mappings
    UserPages,      \* user pages, as numbers
    KernelPages,    \* number of kernel pages, from KERNEL_START on: 0..KernelPages - 1
    WorkPages,      \* number of entries of the control page: 511 in the code
    Frames,         \* frames that callers map, numbers above those of all tables
    MaxLength,      \* the longest kalloc
    MaxCalls        \* bound on the calls of a behaviour

Levels == 1..3
Slots == 0..(WorkPages - 1)
None == -1
Kernel(page) == page < KernelPages
Pages == UserPages \cup 0..(KernelPages - 1)

\* The index of a page in the table of a level.  The root tells user from kernel
\* addresses; each kernel page has a last table of its own, user pages share one.
PathOf(page) == IF Kernel(page) THEN <<1, page, 0>> ELSE <<0, 0, page>>
Entries == {0, 1} \cup Pages

VARIABLES
    mem,        \* the tables: [frame -> [Entries -> frame, 0 when not present]]
    root,       \* pml4 of each pager
    control,    \* CONTROL_PAGE: [Slots -> [present, frame]]
    workPages,  \* work_pages of each pager: [Levels -> Slots or None]
    tables,     \* number of tables made: palloc() gives the next frame, none is freed
    hint,       \* first_potential_kernel_page
    klock,      \* owner of kernel_locker
    call,       \* the call each thread is in: [pc, op, page, left, level, slot, frame]
    expected,   \* history: what callers have mapped where, per pager
    calls,      \* calls made so far
    raced       \* a work page was taken by two pagers at once

pagerVars == <<mem, root, control, workPages, tables, hint, klock, call, expected, calls, raced>>
NoPager == "none"
Empty == [e \in Entries |-> 0]
Resting == [pc |-> "idle", op |-> "none", page |-> 0, left |-> 0, level |-> 3, slot |-> 0, frame |-> 0]
KernelPd == 1

\* Pager::init() and the constructors: a root for each pager, all with the kernel
\* directory in it.
Init ==
    /\ root = CHOOSE r \in [Pagers -> 2..(Cardinality(Pagers) + 1)] :
                \A p, q \in Pagers : p # q => r[p] # r[q]
    /\ tables = Cardinality(Pagers) + 1
    /\ mem = [f \in 1..tables |-> IF f = KernelPd THEN Empty ELSE [Empty EXCEPT ![1] = KernelPd]]
    /\ control = [s \in Slots |-> [present |-> FALSE, frame |-> 0]]
    /\ workPages = [p \in Pagers |-> [l \in Levels |-> None]]
    /\ hint = 0 /\ klock = NoPager
    /\ call = [p \in Pagers |-> Resting]
    /\ expected = [p \in Pagers |-> [page \in Pages |-> 0]]
    /\ calls = 0 /\ raced = FALSE

\* What the processor finds for a page.
Walk(p, page) ==
    LET path == PathOf(page)
        t2 == mem[root[p]][path[1]]
        t3 == IF t2 = 0 THEN 0 ELSE mem[t2][path[2]]
    IN  IF t3 = 0 THEN 0 ELSE mem[t3][path[3]]

\* The table a work page shows.
Shown(p, level) == control[workPages[p][level]].frame

-----------------------------------------------------------------------------
\* Calls.  The pager's own lock has one user; kernel_locker is taken first.

\* map() and unmap() take the work page of the last level before the walk, getFlags()
\* takes it when the walk gets there.
FirstLevel(op) == IF op = "find" THEN 1 ELSE 3

Begin(p, op, page, n, frame) ==
    /\ call[p].pc = "idle" /\ calls < MaxCalls
    /\ calls' = calls + 1
    /\ Kernel(page) => klock = NoPager
    /\ klock' = IF Kernel(page) THEN p ELSE klock
    /\ call' = [call EXCEPT ![p] =
            [pc |-> "acquire", op |-> op, page |-> page, left |-> n, level |-> FirstLevel(op), slot |-> 0,
             frame |-> frame]]

\* map() of a user page.
Map(p, page, f) ==
    /\ Begin(p, "map", page, 1, f)
    /\ UNCHANGED <<mem, root, control, workPages, tables, hint, expected, raced>>

\* unmap() of one page.
Unmap(p, page) ==
    /\ expected[p][page] # 0
    /\ Begin(p, "unmap", page, 1, 0)
    /\ UNCHANGED <<mem, root, control, workPages, tables, hint, expected, raced>>

\* free() of a page from kalloc().
Free(p, page) == Kernel(page) /\ Unmap(p, page)

\* kalloc(): getFreeRange() from the hint, then map() at each page.
Kalloc(p, n) ==
    /\ hint + n <= KernelPages
    /\ Begin(p, "find", hint, n, 0)
    /\ UNCHANGED <<mem, root, control, workPages, tables, hint, expected, raced>>

\* getWorkpage() and the tests of aquireWorkpageIndex(), up to the free entry.
AcquireTest(p) ==
    /\ call[p].pc = "acquire"
    /\ LET free == {s \in Slots : ~control[s].present} IN
       \/ /\ workPages[p][call[p].level] = None /\ free # {}
          /\ call' = [call EXCEPT ![p].pc = "set", ![p].slot = Min(free)]
       \/ /\ workPages[p][call[p].level] # None
          /\ call' = [call EXCEPT ![p].pc = "descend"]
    /\ UNCHANGED <<mem, root, control, workPages, tables, hint, klock, expected, calls, raced>>

AcquireSet(p) ==
    /\ call[p].pc = "set"
    /\ LET s == call[p].slot IN
        /\ raced' = (raced \/ control[s].present)
        /\ control' = [control EXCEPT ![s].present = TRUE]
        /\ workPages' = [workPages EXCEPT ![p][call[p].level] = s]
    /\ call' = [call EXCEPT ![p].pc = "descend", ![p].slot = 0]
    /\ UNCHANGED <<mem, root, tables, hint, klock, expected, calls>>

\* Variant: a table that was there is used again without looking at it.
MutPointAt(p, level, from) ==
    IF level = 3 /\ Shown(p, 3) # 0
    THEN UNCHANGED <<control, mem, tables>>
    ELSE LET e == PathOf(call[p].page)[level - 1] t == mem[from][e] IN
         IF t # 0
         THEN control' = [control EXCEPT ![workPages[p][level]].frame = t] /\ UNCHANGED <<mem, tables>>
         ELSE /\ control' = [control EXCEPT ![workPages[p][level]].frame = tables + 1]
              /\ mem' = Append([mem EXCEPT ![from][e] = tables + 1], Empty)
              /\ tables' = tables + 1

\* mapStructures() for one level: the work page shows the table the level above
\* names, which is made and cleared when there is none.
PointAt(p, level, from) ==
    LET e == PathOf(call[p].page)[level - 1]  t == mem[from][e]  slot == workPages[p][level] IN
    IF t # 0
    THEN control' = [control EXCEPT ![slot].frame = t] /\ UNCHANGED <<mem, tables>>
    ELSE /\ control' = [control EXCEPT ![slot].frame = tables + 1]
         /\ mem' = Append([mem EXCEPT ![from][e] = tables + 1], Empty)
         /\ tables' = tables + 1

\* The walk: the table of the last level is pointed at last, whenever its work page
\* was acquired.
Descend(p) ==
    /\ call[p].pc \in {"descend", "last"}
    /\ \/ /\ call[p].pc = "descend" /\ call[p].level = 3 /\ call[p].op # "find"
          /\ call' = [call EXCEPT ![p].pc = "acquire", ![p].level = 1]
          /\ UNCHANGED <<control, mem, tables>>
       \/ /\ call[p].level = 1
          /\ control' = [control EXCEPT ![workPages[p][1]].frame = root[p]]
          /\ call' = [call EXCEPT ![p].pc = "acquire", ![p].level = 2]
          /\ UNCHANGED <<mem, tables>>
       \/ /\ call[p].level = 2
          /\ PointAt(p, 2, Shown(p, 1))
          /\ call' = [call EXCEPT ![p].pc = IF call[p].op = "find" THEN "acquire" ELSE "last",
                                  ![p].level = 3]
       \/ /\ call[p].pc = "last" \/ (call[p].level = 3 /\ call[p].op = "find")
          /\ PointAt(p, 3, Shown(p, 2))
          /\ call' = [call EXCEPT ![p].pc = "entry"]
    /\ UNCHANGED <<root, workPages, hint, klock, expected, calls, raced>>

\* The entry itself.
Expect(p, page, f) ==
    [q \in Pagers |-> IF q = p \/ Kernel(page) THEN [expected[q] EXCEPT ![page] = f] ELSE expected[q]]
Again(c, page, left) == [c EXCEPT !.pc = "acquire", !.level = FirstLevel(c.op), !.page = page, !.left = left]
Done(p) == /\ call' = [call EXCEPT ![p] = Resting]
           /\ klock' = IF klock = p THEN NoPager ELSE klock

\* getFlags().present of the page the walk has reached.
Present(p) == mem[Shown(p, 3)][PathOf(call[p].page)[3]] # 0

\* getFreeRange(): c.frame counts the free pages seen; a present page moves the hint
\* when the search still was at it.  A search that leaves the kernel pages gives 0.  The
\* first map() of the pages found has all work pages, that of the last level too.
FindEntry(p, present) ==
    LET c == call[p]  addr == c.page - c.frame  next == c.page + 1 IN
    /\ hint' = IF present /\ addr = hint THEN next ELSE hint
    /\ \/ /\ present /\ next + c.left <= KernelPages
          /\ call' = [call EXCEPT ![p] = [Again(c, next, c.left) EXCEPT !.frame = 0]]
          /\ UNCHANGED klock
       \/ /\ present /\ next + c.left > KernelPages
          /\ Done(p)
       \/ /\ ~present /\ c.frame + 1 < c.left
          /\ call' = [call EXCEPT ![p] = [Again(c, next, c.left) EXCEPT !.frame = @ + 1]]
          /\ UNCHANGED klock
       \/ /\ ~present /\ c.frame + 1 = c.left
          /\ call' = [call EXCEPT ![p] = [Again(c, addr, c.left) EXCEPT !.op = "kmap", !.frame = 0]]
          /\ UNCHANGED klock
    /\ UNCHANGED <<mem, expected>>

Entry(p) ==
    /\ call[p].pc = "entry"
    /\ LET c == call[p]  table == Shown(p, 3)  e == PathOf(c.page)[3] IN
       \/ /\ c.op = "find"
          /\ FindEntry(p, Present(p))
       \/ /\ c.op = "map"
          /\ mem' = [mem EXCEPT ![table][e] = c.frame]
          /\ expected' = Expect(p, c.page, c.frame)
          /\ Done(p)
          /\ UNCHANGED hint
       \/ /\ c.op = "kmap"
          /\ \E f \in Frames :
                /\ mem' = [mem EXCEPT ![table][e] = f]
                /\ expected' = Expect(p, c.page, f)
          /\ IF c.left = 1 THEN Done(p)
             ELSE call' = [call EXCEPT ![p] = Again(c, c.page + 1, c.left - 1)] /\ UNCHANGED klock
          /\ UNCHANGED hint
       \/ /\ c.op = "unmap"
          /\ mem' = [mem EXCEPT ![table][e] = 0]
          /\ expected' = Expect(p, c.page, 0)
          /\ Done(p)
          /\ UNCHANGED hint
    /\ UNCHANGED <<root, control, workPages, tables, calls, raced>>

\* unlock(), of a nested lock too: the work pages are given back.
Unlock(p) ==
    /\ call[p].pc = "idle" /\ workPages[p] # [l \in Levels |-> None]
    /\ control' = [s \in Slots |->
            IF s \in Range(workPages[p]) THEN [present |-> FALSE, frame |-> 0] ELSE control[s]]
    /\ workPages' = [workPages EXCEPT ![p] = [l \in Levels |-> None]]
    /\ UNCHANGED <<mem, root, tables, hint, klock, call, expected, calls, raced>>

\* What happens after two pagers share a work page is not followed.
Next == ~raced /\ \E p \in Pagers :
    \/ \E page \in UserPages, f \in Frames : p \in Users /\ Map(p, page, f)
    \/ \E page \in UserPages : Unmap(p, page)
    \/ \E page \in 0..(KernelPages - 1) : Free(p, page)
    \/ \E n \in 1..MaxLength : Kalloc(p, n)
    \/ AcquireTest(p) \/ AcquireSet(p) \/ Descend(p) \/ Entry(p) \/ Unlock(p)

Spec == Init /\ [][Next]_pagerVars

-----------------------------------------------------------------------------
\* Every address translates to what was last mapped there, in every pager and for
\* every interleaving of their walks, as long as no two of them were given the same
\* work page by aquireWorkpageIndex() (virtual.cpp:157).
TablesExact ==
    ~raced => \A p \in Pagers, page \in Pages : Walk(p, page) = expected[p][page]

\* A work page has one user, a free one has none, and none is lost: unlock() gives
\* back all that were taken, also when it ends a nested lock.
WorkPagesExclusive ==
    ~raced =>
        /\ \A p, q \in Pagers, k, l \in Levels :
            workPages[p][k] = workPages[q][l] /\ workPages[p][k] # None => p = q /\ k = l
        /\ \A s \in Slots :
            control[s].present <=> \E p \in Pagers, l \in Levels : workPages[p][l] = s

=============================================================================
