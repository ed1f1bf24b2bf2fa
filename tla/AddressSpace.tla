----------------------------- MODULE AddressSpace ------------------------------
(***************************************************************************)
(* The memory of processes: Process::f_memorymap, the page tables, the page *)
(* fault handler, fork, exec and exit (src/kernel/src/tasking/process.cpp, *)
(* syscalls/process.cpp, syscalls/memory.cpp), over reference-counted      *)
(* physical pages (src/kernel/src/memory/ppage.cpp), shared anonymous pages *)
(* (memory/page/anonpage.cpp) and the pages a file shares (VNode::         *)
(* f_shared_pages, filled by resolve_mapping of the filesystems).          *)
(*                                                                         *)
(* A process has one thread, and what it does to its own map and page table *)
(* is under its own f_lock, so only what processes share is interleaved:   *)
(* the counts and flags of a physical page, f_shared_pages, and the page of *)
(* a SharedAnonymousPage.  The counts are atomic variables.  fork, exec,   *)
(* exit and munmap touch them once per page and are one step; a page fault *)
(* reads, works and writes, and is several.  f_page and f_shared_pages have *)
(* no lock: to assign or copy the one (ppage.cpp:34-46), to insert into or *)
(* erase from the other, takes several loads and stores.  A process is     *)
(* `inside' such an operation between two steps; while it is alone there   *)
(* its loads and stores commute with the steps of all others, so the second *)
(* step does them all.  When another process comes to the same object      *)
(* meanwhile a count or a page may be lost or freed memory used: `raced'   *)
(* says so, and the behaviour ends, for nothing can be said of what follows.*)
(* The contents of a page are one value.  A mapping is one page long.      *)
(* Pager::map, unmap and kmap do what they say here; a write that finds a  *)
(* translation the processor still caches is not modelled.  Anonymous memory*)
(* is mapped with PROT_WRITE.                                              *)
(***************************************************************************)
EXTENDS Integers, FiniteSets, TLC

CONSTANTS
    Procs, InitProc,    \* processes and the one that starts
    Addrs,              \* virtual pages
    Pages,              \* physical pages the kernel can hand out
    Vals, Zero,         \* contents of a page
    FileVal,            \* contents of every page of the file
    Offs,               \* page offsets in the file
    Anons,              \* SharedAnonymousPage objects that can exist at a time
    Kinds,              \* what programs map: see NewEntry
    None                \* no page, no object

ASSUME AddressSpaceAssumption ==
    /\ InitProc \in Procs
    /\ {Zero, FileVal} \subseteq Vals
    /\ IsFiniteSet(Procs) /\ IsFiniteSet(Addrs)
    /\ IsFiniteSet(Offs) /\ IsFiniteSet(Anons)
    /\ Offs \subseteq Nat
    /\ Kinds \subseteq {"empty", "private", "shared", "data", "text", "file"}
    /\ None \notin Pages \cup Anons \cup Offs \cup Vals \cup Addrs

VARIABLES
    status,     \* "unborn", "live" or "dead"
    memorymap,  \* [Procs -> [Addrs -> Entries]]: f_memorymap
    pte,        \* [Procs -> [Addrs -> [page, writable]]]: the page tables
    used,       \* pages palloc() has handed out
    ref,        \* PhysicalPage::Data: f_ref_count, one per mapping
    objs,       \* f_obj_ref_count, one per PhysicalPage object
    writable,   \* f_flags.writable
    cow,        \* f_copy_on_write
    content,    \* what a page holds
    sharedPages,\* [Offs -> page or None]: f_shared_pages of the file
    anonPage,   \* [Anons -> page or None]: f_page of a SharedAnonymousPage
    pc,         \* where the fault handler of each process is
    fault,      \* its locals: the fault address, the page at hand, copy-on-write
    inside,     \* processes inside an operation on f_page or f_shared_pages
    raced       \* two were at the same object, and one of them changes it

heap == <<used, ref, objs, writable, cow>>
vars == <<status, memorymap, pte, heap, content, sharedPages, anonPage, pc, fault,
          inside, raced>>

\* An entry of f_memorymap.  page is set for MEMORY and FILE_MEMORY; source is the
\* SharedAnonymousPage or the file offset; writable and cow are the f_flags and
\* f_copy_on_write that a file mapping keeps for itself.
Entry(type, shared, w, source) ==
    [type |-> type, shared |-> shared, writable |-> w, cow |-> FALSE,
     page |-> None, source |-> source]

NoEntry == Entry("none", FALSE, FALSE, None)
NoPte == [page |-> None, writable |-> FALSE]
Idle == [addr |-> None, page |-> None, cow |-> FALSE]

Resident == {"MEMORY", "FILE_MEMORY"}

Init ==
    /\ status = [p \in Procs |-> IF p = InitProc THEN "live" ELSE "unborn"]
    /\ memorymap = [p \in Procs |-> [a \in Addrs |-> NoEntry]]
    /\ pte = [p \in Procs |-> [a \in Addrs |-> NoPte]]
    /\ used = {}
    /\ ref = [x \in Pages |-> 0] /\ objs = [x \in Pages |-> 0]
    /\ writable = [x \in Pages |-> FALSE] /\ cow = [x \in Pages |-> FALSE]
    /\ content \in [Pages -> {Zero}]
    /\ sharedPages = [o \in Offs |-> None]
    /\ anonPage = [n \in Anons |-> None]
    /\ pc = [p \in Procs |-> "user"]
    /\ fault = [p \in Procs |-> Idle]
    /\ inside = {} /\ raced = FALSE

-----------------------------------------------------------------------------
\* Pages and objects

\* new PhysicalPage: a free page, no mapping yet, k objects referring to it.
NewPage(x, r, k) ==
    /\ x \in Pages \ used
    /\ used' = used \cup {x}
    /\ ref' = [ref EXCEPT ![x] = r]
    /\ objs' = [objs EXCEPT ![x] = k]
    /\ writable' = [writable EXCEPT ![x] = TRUE]
    /\ cow' = [cow EXCEPT ![x] = FALSE]

\* ~PhysicalPage: the last object of a page returns it when nothing maps it.
Destroy(newObjs, newRef) ==
    /\ objs' = newObjs /\ ref' = newRef
    /\ used' = used \ {x \in used : objs[x] > 0 /\ newObjs[x] = 0 /\ newRef[x] = 0}

\* The SharedAnonymousPage objects some entry of map m still refers to.
Alive(m) ==
    {n \in Anons : \E p \in Procs, a \in Addrs :
        m[p][a].type = "ANONYMOUS" /\ m[p][a].source = n}

\* The entries of p become new: every entry that goes is destroyed, and with it
\* its page object and, with its last owner, the SharedAnonymousPage.  Only
\* entries whose type is in unref also give up their count of the mapping.
Replace(p, new, unref) ==
    LET map == [memorymap EXCEPT ![p] = new]
        dead == Alive(memorymap) \ Alive(map)
        Gone(x) == {a \in Addrs : memorymap[p][a].page = x /\ new[a].page # x}
        Unref(x) == {a \in Gone(x) : memorymap[p][a].type \in unref}
    IN  /\ memorymap' = map
        /\ anonPage' = [n \in Anons |-> IF n \in dead THEN None ELSE anonPage[n]]
        /\ Destroy([x \in Pages |-> objs[x] - Cardinality(Gone(x))
                        - Cardinality({n \in dead : anonPage[n] = x})],
                   [x \in Pages |-> ref[x] - Cardinality(Unref(x))])

-----------------------------------------------------------------------------
\* System calls

Ready(p) == status[p] = "live" /\ pc[p] = "user"

\* The entries mmap and exec can make, by kind of mapping.
NewEntry(kind) ==
    CASE kind = "empty"   -> {Entry("EMPTY", FALSE, FALSE, None)}
      [] kind = "private" -> {Entry("ANONYMOUS", FALSE, TRUE, None)}
      [] kind = "shared"  -> {Entry("ANONYMOUS", TRUE, TRUE, n) : n \in Anons \ Alive(memorymap)}
      [] kind = "data"    -> {Entry("FILE", FALSE, TRUE, o) : o \in Offs}
      [] kind = "text"    -> {Entry("FILE", TRUE, FALSE, o) : o \in Offs}
      [] kind = "file"    -> {Entry("FILE", TRUE, TRUE, o) : o \in Offs}

\* mmap: get_free_addr() finds an address without an entry.
Mmap(p, a, kind) ==
    /\ Ready(p)
    /\ memorymap[p][a] = NoEntry
    /\ \E e \in NewEntry(kind) : memorymap' = [memorymap EXCEPT ![p][a] = e]
    /\ UNCHANGED <<status, pte, heap, content, sharedPages, anonPage, pc, fault>>

\* Variant: the page table entry is left behind.
MutMunmap(p, a) ==
    /\ Ready(p)
    /\ memorymap[p][a] # NoEntry
    /\ Replace(p, [memorymap[p] EXCEPT ![a] = NoEntry], Resident)
    /\ UNCHANGED <<status, pte, writable, cow, content, sharedPages, pc, fault>>

\* Process::unmap_pages: a MEMORY entry is unreferenced here, a FILE_MEMORY entry
\* by ~MemoryFilePage.
Munmap(p, a) ==
    /\ Ready(p)
    /\ memorymap[p][a] # NoEntry
    /\ Replace(p, [memorymap[p] EXCEPT ![a] = NoEntry], Resident)
    /\ pte' = [pte EXCEPT ![p][a] = NoPte]
    /\ UNCHANGED <<status, writable, cow, content, sharedPages, pc, fault>>

\* fork: a writable private page becomes read-only and copy-on-write in both
\* processes; the child gets an object and a mapping of every resident page and
\* shares the entries of what is not resident yet.
Fork(p, q) ==
    LET e(a) == memorymap[p][a]
        Memory(a) == e(a).type = "MEMORY" /\ ~e(a).shared /\ writable[e(a).page]
        File(a) == e(a).type = "FILE_MEMORY" /\ ~e(a).shared /\ e(a).writable
        CowMem(x) == \E a \in Addrs : Memory(a) /\ e(a).page = x
        Mapped(x) == {a \in Addrs : e(a).page = x}
        map == [a \in Addrs |->
            IF File(a) THEN [e(a) EXCEPT !.writable = FALSE, !.cow = TRUE] ELSE e(a)]
        parent == [a \in Addrs |->
            IF Memory(a) \/ File(a) THEN [pte[p][a] EXCEPT !.writable = FALSE] ELSE pte[p][a]]
        Allowed(a) == IF e(a).type = "MEMORY"
                      THEN writable[e(a).page] /\ ~CowMem(e(a).page)
                      ELSE map[a].writable
        child == [a \in Addrs |->
            IF e(a).type \in Resident
            THEN [page |-> e(a).page, writable |-> Allowed(a)]
            ELSE NoPte]
    IN  /\ Ready(p) /\ status[q] = "unborn"
        /\ status' = [status EXCEPT ![q] = "live"]
        /\ memorymap' = [memorymap EXCEPT ![p] = map, ![q] = map]
        /\ pte' = [pte EXCEPT ![p] = parent, ![q] = child]
        /\ ref' = [x \in Pages |-> ref[x] + Cardinality(Mapped(x))]
        /\ objs' = [x \in Pages |-> objs[x] + Cardinality(Mapped(x))]
        /\ writable' = [x \in Pages |-> writable[x] /\ ~CowMem(x)]
        /\ cow' = [x \in Pages |-> cow[x] \/ CowMem(x)]
        /\ UNCHANGED <<used, content, sharedPages, anonPage, pc, fault>>

\* execve: everything is unmapped and f_memorymap cleared, then the segments of
\* the program and its stack are mapped.  Setting up .bss and the arguments are
\* the first writes to them.
Exec(p) ==
    /\ Ready(p)
    /\ LET segments == UNION {NewEntry(k) : k \in Kinds \cap {"text", "data", "private"}} IN
       \E image \in [Addrs -> segments \cup {NoEntry}] : Replace(p, image, {"FILE_MEMORY"})
    /\ pte' = [pte EXCEPT ![p] = [a \in Addrs |-> NoPte]]
    /\ UNCHANGED <<status, writable, cow, content, sharedPages, pc, fault>>

\* die() and minimize(): f_memorymap is cleared and the pager deleted.
Exit(p) ==
    /\ Ready(p)
    /\ Replace(p, [a \in Addrs |-> NoEntry], {"FILE_MEMORY"})
    /\ pte' = [pte EXCEPT ![p] = [a \in Addrs |-> NoPte]]
    /\ status' = [status EXCEPT ![p] = "dead"]
    /\ UNCHANGED <<writable, cow, content, sharedPages, pc, fault>>

-----------------------------------------------------------------------------
\* Memory accesses and page faults

\* A store that the page table allows.
Write(p, a, v) ==
    /\ Ready(p)
    /\ pte[p][a].page # None /\ pte[p][a].writable
    /\ content' = [content EXCEPT ![pte[p][a].page] = v]
    /\ UNCHANGED <<status, memorymap, pte, heap, sharedPages, anonPage, pc, fault>>

Goto(p, label) == pc' = [pc EXCEPT ![p] = label]
Keep(p, a, x, c) == fault' = [fault EXCEPT ![p] = [addr |-> a, page |-> x, cow |-> c]]
Return(p) == Goto(p, "user") /\ fault' = [fault EXCEPT ![p] = Idle]
EntryOf(p) == memorymap[p][fault[p].addr]

\* The operations on what processes share without a lock, by the label in front of
\* them: f_page is assigned or copied, f_shared_pages is changed.
Unlocked == {"store", "map", "insert", "steal"}
OnFile(q) == pc[q] \in {"insert", "steal"}
Changes(q) == pc[q] # "map"

\* Process p comes to the operation, and may find another at the same object.
Enter(p) ==
    /\ pc[p] \in Unlocked /\ p \notin inside
    /\ inside' = inside \cup {p}
    /\ raced' = \E q \in inside :
            /\ IF OnFile(p) THEN OnFile(q)
               ELSE ~OnFile(q) /\ EntryOf(q).source = EntryOf(p).source
            /\ Changes(p) \/ Changes(q)
    /\ UNCHANGED <<status, memorymap, pte, heap, content, sharedPages, anonPage, pc, fault>>

Leave(p) ==
    /\ p \in inside
    /\ inside' = inside \ {p} /\ UNCHANGED raced

\* The handler does not resolve the fault, handle_exception() halts the core: no
\* entry, a null page, or a store to a mapping that is not copy-on-write.
Refused(e) ==
    IF e.type = "MEMORY" THEN ~writable[e.page] /\ ~cow[e.page]
    ELSE e.type # "ANONYMOUS" /\ e.type # "FILE" /\ ~e.writable /\ ~e.cow

BadAccess(p, a) ==
    /\ Ready(p)
    /\ Refused(memorymap[p][a])
    /\ Goto(p, "halted")
    /\ UNCHANGED <<status, memorymap, pte, heap, content, sharedPages, anonPage, fault>>

\* ANONYMOUS, private: AnonymousPage::resolve, map_page and memset.
FaultPrivate(p, a) ==
    /\ Ready(p)
    /\ memorymap[p][a].type = "ANONYMOUS" /\ ~memorymap[p][a].shared
    /\ \E x \in Pages :
        /\ NewPage(x, 1, 1)
        /\ memorymap' = [memorymap EXCEPT ![p][a] =
                [Entry("MEMORY", FALSE, FALSE, None) EXCEPT !.page = x]]
        /\ pte' = [pte EXCEPT ![p][a] = [page |-> x, writable |-> TRUE]]
        /\ content' = [content EXCEPT ![x] = Zero]
    /\ UNCHANGED <<status, sharedPages, anonPage, pc, fault>>

\* ANONYMOUS, shared: SharedAnonymousPage::resolve tests f_page ...
FaultShared(p, a) ==
    /\ Ready(p)
    /\ memorymap[p][a].type = "ANONYMOUS" /\ memorymap[p][a].shared
    /\ IF anonPage[memorymap[p][a].source] = None
       THEN \E x \in Pages : NewPage(x, 0, 1) /\ Keep(p, a, x, FALSE) /\ Goto(p, "store")
       ELSE Keep(p, a, None, FALSE) /\ Goto(p, "map") /\ UNCHANGED heap
    /\ raced' = \E q \in inside : pc[q] = "store" /\ EntryOf(q).source = memorymap[p][a].source
    /\ UNCHANGED <<status, memorymap, pte, content, sharedPages, anonPage, inside>>

\* ... f_page = page: the object that was there is destroyed, the local one too ...
StoreShared(p) ==
    LET n == EntryOf(p).source  old == anonPage[n] IN
    /\ pc[p] = "store" /\ Leave(p)
    /\ anonPage' = [anonPage EXCEPT ![n] = fault[p].page]
    /\ Destroy([x \in Pages |-> IF x = old THEN objs[x] - 1 ELSE objs[x]], ref)
    /\ Goto(p, "map")
    /\ UNCHANGED <<status, memorymap, pte, writable, cow, content, sharedPages, fault>>

\* ... and handle_page_fault maps the copy of f_page as it is now and fills the page
\* with zeros.
MapShared(p) ==
    LET a == fault[p].addr
        n == EntryOf(p).source
        x == anonPage[n]
        map == [memorymap EXCEPT ![p][a] = [Entry("MEMORY", TRUE, FALSE, None) EXCEPT !.page = x]]
        last == n \notin Alive(map)
    IN  /\ pc[p] = "map" /\ Leave(p)
        /\ memorymap' = map
        /\ anonPage' = IF last THEN [anonPage EXCEPT ![n] = None] ELSE anonPage
        /\ ref' = [ref EXCEPT ![x] = @ + 1]
        /\ objs' = IF last THEN objs ELSE [objs EXCEPT ![x] = @ + 1]
        /\ pte' = [pte EXCEPT ![p][a] = [page |-> x, writable |-> writable[x]]]
        /\ content' = [content EXCEPT ![x] = Zero]
        /\ Return(p)
        /\ UNCHANGED <<status, used, writable, cow, sharedPages>>

\* Variant: off by one, two mappings are taken for the last.
MutFaultCow(p, a) ==
    LET x == memorymap[p][a].page IN
    /\ Ready(p)
    /\ memorymap[p][a].type = "MEMORY" /\ ~pte[p][a].writable /\ cow[x]
    /\ Goto(p, IF ref[x] > 2 THEN "copy" ELSE "take")
    /\ Keep(p, a, None, FALSE)
    /\ UNCHANGED <<status, memorymap, pte, heap, content, sharedPages, anonPage>>

\* MEMORY, a store to a copy-on-write page: the count decides what to do ...
FaultCow(p, a) ==
    LET x == memorymap[p][a].page IN
    /\ Ready(p)
    /\ memorymap[p][a].type = "MEMORY" /\ ~pte[p][a].writable /\ cow[x]
    /\ Goto(p, IF ref[x] > 1 THEN "copy" ELSE "take")
    /\ Keep(p, a, None, FALSE)
    /\ UNCHANGED <<status, memorymap, pte, heap, content, sharedPages, anonPage>>

\* ... copy it to a new page and map that ...
Copy(p) ==
    LET a == fault[p].addr IN
    /\ pc[p] = "copy"
    /\ \E x \in Pages :
        /\ NewPage(x, 1, 1)
        /\ content' = [content EXCEPT ![x] = content[pte[p][a].page]]
        /\ pte' = [pte EXCEPT ![p][a] = [page |-> x, writable |-> TRUE]]
        /\ Keep(p, a, x, FALSE)
    /\ Goto(p, "unref")
    /\ UNCHANGED <<status, memorymap, sharedPages, anonPage>>

\* ... then page->unref() ...
Unref(p) ==
    /\ pc[p] = "unref"
    /\ ref' = [ref EXCEPT ![EntryOf(p).page] = @ - 1]
    /\ Goto(p, "delete")
    /\ UNCHANGED <<status, memorymap, pte, used, objs, writable, cow, content,
                   sharedPages, anonPage, fault>>

\* ... and delete page: the entry now has an object of the new page.
Delete(p) ==
    LET old == EntryOf(p).page IN
    /\ pc[p] = "delete"
    /\ Destroy([objs EXCEPT ![old] = @ - 1], ref)
    /\ memorymap' = [memorymap EXCEPT ![p][fault[p].addr].page = fault[p].page]
    /\ Return(p)
    /\ UNCHANGED <<status, pte, writable, cow, content, sharedPages, anonPage>>

\* The last mapping keeps the page and makes it writable.
Take(p) ==
    LET a == fault[p].addr  x == EntryOf(p).page IN
    /\ pc[p] = "take"
    /\ cow' = [cow EXCEPT ![x] = FALSE]
    /\ writable' = [writable EXCEPT ![x] = TRUE]
    /\ pte' = [pte EXCEPT ![p][a] = [page |-> x, writable |-> TRUE]]
    /\ Return(p)
    /\ UNCHANGED <<status, memorymap, used, ref, objs, content, sharedPages, anonPage>>

\* FILE: resolve_mapping() of the filesystem looks the offset up in f_shared_pages
\* and reads the file when it is not there ...
FaultFile(p, a) ==
    LET e == memorymap[p][a]  x == sharedPages[e.source] IN
    /\ Ready(p)
    /\ e.type = "FILE"
    /\ IF x # None
       THEN /\ objs' = [objs EXCEPT ![x] = @ + 1]
            /\ Keep(p, a, x, FALSE) /\ Goto(p, "check")
            /\ UNCHANGED <<used, ref, writable, cow, content>>
       ELSE \E new \in Pages :
            /\ NewPage(new, 0, 1)
            /\ content' = [content EXCEPT ![new] = FileVal]
            /\ Keep(p, a, new, FALSE) /\ Goto(p, IF e.shared THEN "insert" ELSE "check")
    /\ raced' = \E q \in inside : OnFile(q)
    /\ UNCHANGED <<status, memorymap, pte, sharedPages, anonPage, inside>>

\* Variant: f_shared_pages keeps the page without an object of its own.
MutInsertFile(p) ==
    LET o == EntryOf(p).source  x == fault[p].page IN
    /\ pc[p] = "insert" /\ Leave(p)
    /\ sharedPages' = [sharedPages EXCEPT ![o] = IF @ = None THEN x ELSE @]
    /\ Goto(p, "check")
    /\ UNCHANGED <<status, memorymap, pte, heap, content, anonPage, fault>>

\* ... and shares the page it read, unless the offset has a page by now ...
InsertFile(p) ==
    LET o == EntryOf(p).source  x == fault[p].page IN
    /\ pc[p] = "insert" /\ Leave(p)
    /\ IF sharedPages[o] = None
       THEN /\ sharedPages' = [sharedPages EXCEPT ![o] = x]
            /\ objs' = [objs EXCEPT ![x] = @ + 1]
       ELSE UNCHANGED <<sharedPages, objs>>
    /\ Goto(p, "check")
    /\ UNCHANGED <<status, memorymap, pte, used, ref, writable, cow, content, anonPage, fault>>

\* ... a private writable mapping is copy-on-write when the page is mapped ...
CheckFile(p) ==
    LET e == EntryOf(p)  x == fault[p].page IN
    /\ pc[p] = "check"
    /\ Keep(p, fault[p].addr, x, ref[x] # 0 /\ ~e.shared /\ e.writable)
    /\ Goto(p, "file")
    /\ UNCHANGED <<status, memorymap, pte, heap, content, sharedPages, anonPage>>

\* ... and the FILE_MEMORY entry takes over the page object.
MapFile(p) ==
    LET a == fault[p].addr  e == EntryOf(p)  x == fault[p].page
        w == e.writable /\ ~fault[p].cow
    IN  /\ pc[p] = "file"
        /\ ref' = [ref EXCEPT ![x] = @ + 1]
        /\ memorymap' = [memorymap EXCEPT ![p][a] =
                [Entry("FILE_MEMORY", e.shared, w, e.source)
                    EXCEPT !.page = x, !.cow = fault[p].cow]]
        /\ pte' = [pte EXCEPT ![p][a] = [page |-> x, writable |-> w]]
        /\ Return(p)
        /\ UNCHANGED <<status, used, objs, writable, cow, content, sharedPages, anonPage>>

\* FILE_MEMORY, a store to a copy-on-write mapping.  With other mappings a new
\* page is allocated, but the copy reads address 0 (fault_address & !0xFFF): that
\* fault, in the kernel, is refused and the core halts.
FaultFileCow(p, a) ==
    LET e == memorymap[p][a] IN
    /\ Ready(p)
    /\ e.type = "FILE_MEMORY" /\ e.cow
    /\ IF ref[e.page] > 1
       THEN \E x \in Pages : NewPage(x, 0, 1) /\ Keep(p, a, x, FALSE) /\ Goto(p, "lost")
       ELSE Keep(p, a, None, FALSE) /\ Goto(p, "steal") /\ UNCHANGED heap
    /\ UNCHANGED <<status, memorymap, pte, content, sharedPages, anonPage>>

\* MemoryFilePage::f_offset: the offset in the mapping, not in the file; mappings
\* are one page long.
f_offset(o) == 0

\* The last mapping takes the page from f_shared_pages: first it is erased there ...
Steal(p) ==
    LET o == f_offset(EntryOf(p).source)
        x == IF o \in Offs THEN sharedPages[o] ELSE None
    IN  /\ pc[p] = "steal" /\ Leave(p)
        /\ IF x # None
           THEN /\ sharedPages' = [sharedPages EXCEPT ![o] = None]
                /\ Destroy([objs EXCEPT ![x] = @ - 1], ref)
           ELSE UNCHANGED <<sharedPages, objs, ref, used>>
        /\ Goto(p, "own")
        /\ UNCHANGED <<status, memorymap, pte, writable, cow, content, anonPage, fault>>

\* ... then the mapping becomes writable.
Own(p) ==
    LET a == fault[p].addr IN
    /\ pc[p] = "own"
    /\ memorymap' = [memorymap EXCEPT ![p][a].writable = TRUE, ![p][a].cow = FALSE]
    /\ pte' = [pte EXCEPT ![p][a].writable = TRUE]
    /\ Return(p)
    /\ UNCHANGED <<status, heap, content, sharedPages, anonPage>>

\* What a process does to its own map and to the counts of pages.
OnOwn(p) ==
    \/ \E a \in Addrs :
        \/ Munmap(p, a) \/ BadAccess(p, a)
        \/ \E kind \in Kinds : Mmap(p, a, kind)
        \/ \E v \in Vals : Write(p, a, v)
        \/ FaultPrivate(p, a) \/ FaultCow(p, a) \/ FaultFileCow(p, a)
    \/ \E q \in Procs : Fork(p, q)
    \/ Exec(p) \/ Exit(p)
    \/ Copy(p) \/ Unref(p) \/ Delete(p) \/ Take(p)
    \/ CheckFile(p) \/ MapFile(p) \/ Own(p)

\* What it does to the objects that processes share.
OnShared(p) ==
    \/ Enter(p)
    \/ \E a \in Addrs : FaultShared(p, a) \/ FaultFile(p, a)
    \/ StoreShared(p) \/ MapShared(p)
    \/ InsertFile(p) \/ Steal(p)

Next ==
    /\ ~raced
    /\ \E p \in Procs : OnShared(p) \/ (OnOwn(p) /\ UNCHANGED <<inside, raced>>)

Spec == Init /\ [][Next]_vars

-----------------------------------------------------------------------------
\* Properties

Labels == {"user", "halted", "lost", "store", "map", "copy", "unref", "delete", "take",
           "insert", "check", "file", "steal", "own"}

Entries ==
    [type : {"none", "EMPTY", "ANONYMOUS", "FILE"} \cup Resident,
     shared : BOOLEAN, writable : BOOLEAN, cow : BOOLEAN,
     page : Pages \cup {None}, source : Anons \cup Offs \cup {None}]
Translations == [page : Pages \cup {None}, writable : BOOLEAN]
Locals == [addr : Addrs \cup {None}, page : Pages \cup {None}, cow : BOOLEAN]

MemoryTypes ==
    /\ status \in [Procs -> {"unborn", "live", "dead"}]
    /\ memorymap \in [Procs -> [Addrs -> Entries]]
    /\ pte \in [Procs -> [Addrs -> Translations]]
    /\ used \subseteq Pages
    /\ ref \in [Pages -> Nat] /\ objs \in [Pages -> Nat]
    /\ writable \in [Pages -> BOOLEAN] /\ cow \in [Pages -> BOOLEAN]
    /\ content \in [Pages -> Vals]
    /\ sharedPages \in [Offs -> Pages \cup {None}]
    /\ anonPage \in [Anons -> Pages \cup {None}]
    /\ pc \in [Procs -> Labels]
    /\ fault \in [Procs -> Locals]

TypeOK == MemoryTypes /\ inside \subseteq Procs /\ raced \in BOOLEAN

\* How often f has the value x.
Count(f, x) == Cardinality({z \in DOMAIN f : f[z] = x})

\* The pages the entries of f_memorymap have an object of, and the locals of the
\* running faults.
EntryPage == [e \in Procs \X Addrs |-> memorymap[e[1]][e[2]].page]
LocalPage == [p \in Procs |-> IF pc[p] = "map" THEN None ELSE fault[p].page]

\* The PhysicalPage objects of x: those, the file's and the SharedAnonymousPages' own.
Objects(x) ==
    Count(EntryPage, x) + Count(LocalPage, x) + Count(sharedPages, x) + Count(anonPage, x)

\* f_obj_ref_count counts the objects exactly, whatever faults, forks, unmaps and
\* exits of several processes overlap, up to the step with which two processes are at
\* the same f_page or f_shared_pages (anonpage.cpp:36-42, process.cpp:426), and a page with an object is allocated: so
\* ~PhysicalPage neither frees a page that is in use nor misses the last object.
ObjectsExact ==
    \A x \in Pages : objs[x] = Objects(x) /\ (objs[x] > 0 => x \in used)

\* The mappings of x that f_ref_count must know of: an entry counts until its
\* fault has called unref(), and the new page of a copy from the start.
MappedPage ==
    [e \in Procs \X Addrs |->
        IF pc[e[1]] = "delete" /\ fault[e[1]].addr = e[2] THEN None ELSE EntryPage[e]]
CopyPage == [p \in Procs |-> IF pc[p] \in {"unref", "delete"} THEN fault[p].page ELSE None]

Mappings(x) == Count(MappedPage, x) + Count(CopyPage, x)

\* f_ref_count is never below the number of mappings: copy-on-write relies on it
\* when it lets the last mapping write in place, and ~PhysicalPage when it frees.
RefsCoverMappings == \A x \in Pages : objs[x] > 0 => ref[x] >= Mappings(x)

\* The page tables and f_memorymap agree: what a process can reach is a page its
\* entry owns (or the copy that is about to replace it), never a freed one.
ReachesOwnPages ==
    \A p \in Procs, a \in Addrs :
        LET x == pte[p][a].page  e == memorymap[p][a] IN
        /\ (x = None <=> e.type \notin Resident)
        /\ x # None => /\ x \in used
                       /\ \/ x = e.page
                          \/ fault[p].addr = a /\ fault[p].page = x

\* The counts, the page tables and f_memorymap agree, so that no process reaches a page
\* that was freed or is another's (process.cpp, ppage.cpp), up to such a race.
PagesSound == TypeOK /\ RefsCoverMappings /\ ReachesOwnPages

\* Private anonymous memory, as the process reads it, is the abstract memory.
Seen(p, a) ==
    LET e == memorymap[p][a] IN
    IF e.shared THEN None
    ELSE IF e.type = "ANONYMOUS" THEN Zero
    ELSE IF e.type = "MEMORY" THEN content[pte[p][a].page]
    ELSE None

SeenMemory == [p \in Procs |-> [a \in Addrs |-> Seen(p, a)]]

Abstract == INSTANCE PrivateMemory WITH Unmapped <- None, memory <- SeenMemory

\* Lazy zero pages, copy-on-write and in-place reuse are invisible to programs:
\* private anonymous memory behaves as one array per process that fork copies.
ImplementsPrivateMemory == Abstract!AbsSpec

-----------------------------------------------------------------------------
\* Instances (MCAddressSpace*.cfg): two processes for what two can do to each other's pages,
\* three for chains of forks, so that a copy-on-write page has three mappings; one more page
\* than processes, so that a copy is possible while all of them have their own.  Physical
\* pages are interchangeable, and so are the processes that have not been forked: nothing
\* names one of them.
Symmetry == Permutations(Pages) \cup Permutations(Procs \ {InitProc})

=============================================================================
