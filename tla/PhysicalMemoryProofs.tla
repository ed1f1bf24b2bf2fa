------------------------- MODULE PhysicalMemoryProofs -------------------------
(***************************************************************************)
(* The physical page allocator for every number of pages and threads and    *)
(* every memory map: the hint is sound, no page has two owners, none is     *)
(* lost, the search leaves the bitmap only when memory is exhausted, and    *)
(* palloc()/pfree() implement the one-step lowest-fit allocator.  Page tables for every number of     *)
(* pagers, pages and work pages.                                           *)
(*                                                                          *)
(* The heart of the invariant is Searching: a search that has come to addr  *)
(* has left no free block of its length behind and has seen the i pages     *)
(* from addr on free, because only the holder of pmm_lock changes the       *)
(* bitmap.                                                                  *)
(***************************************************************************)
EXTENDS KernelMemory, FiniteSetTheorems, SequenceTheorems, WellFoundedInduction, TLAPS

\* The holder of pmm_lock is the thread in the search loop.
LockInv == \A t \in Threads : searching[t] <=> lock = t

\* No free block of the length t looks for starts below addr[t].
NothingBehind(t) ==
    \A b \in Pages : b < addr[t] => ~BlockFree(b, count[t])

Searching(t) ==
    /\ i[t] <= count[t]
    /\ \A p \in Int : addr[t] <= p /\ p < addr[t] + i[t] => p \in Pages \ used
    /\ NothingBehind(t)

SearchInv == \A t \in Threads : searching[t] => Searching(t)

IInv ==
    /\ TypeOK
    /\ LockInv
    /\ NoFreeBelowHint
    /\ PagesAccounted
    /\ NoPageLost
    /\ SearchInv

-----------------------------------------------------------------------------
(* Runs of pages *)

LEMMA RunMember ==
    ASSUME NEW a \in Int, NEW n \in Int, NEW p
    PROVE  p \in Run(a, n) <=> p \in Int /\ a <= p /\ p < a + n
BY DEF Run

LEMMA InitRunPages ==
    ASSUME NEW r \in InitRuns
    PROVE  /\ r[1] \in Pages /\ r[2] \in Nat \ {0}
           /\ Run(r[1], r[2]) \subseteq Pages
           /\ Run(r[1], r[2]) \cap UsablePages = {}
           /\ Run(r[1], r[2]) \cap Run(0, LowPages) = {}
           /\ \A s \in InitRuns : s # r => Run(r[1], r[2]) \cap Run(s[1], s[2]) = {}
BY PhysicalAssumption

\* The hint init_pmm() computes is a page, and no usable page is below it.
LEMMA FirstUsable ==
    ASSUME NEW b, b = CHOOSE c \in {e.base : e \in Usable} : \A f \in Usable : c <= f.base
    PROVE  b \in Pages /\ \A p \in UsablePages : b <= p
<1>1. \E c \in {e.base : e \in Usable} : \A f \in Usable : c <= f.base
  BY PhysicalAssumption
<1>2. b \in {e.base : e \in Usable} /\ \A f \in Usable : b <= f.base
  BY <1>1
<1>3. b \in Pages
  BY <1>2, PhysicalAssumption DEF Usable
<1>4. ASSUME NEW p \in UsablePages PROVE b <= p
  <2>1. PICK e \in Usable : p \in Run(e.base, e.length)
    BY DEF UsablePages
  <2>2. e.base \in Int /\ e.length \in Int
    BY PhysicalAssumption DEF Usable, Pages
  <2>3. p \in Int /\ e.base <= p
    BY <2>1, <2>2, RunMember
  <2>4. b <= e.base
    BY <1>2
  <2>5. b \in Int
    BY <1>3 DEF Pages
  <2> QED BY <2>2, <2>3, <2>4, <2>5
<1> QED BY <1>3, <1>4

-----------------------------------------------------------------------------
(* The invariant *)

LEMMA InitIInv == Init => IInv
<1> SUFFICES ASSUME Init PROVE IInv
  OBVIOUS
<1>1. hint \in Pages /\ \A p \in UsablePages : hint <= p
  BY FirstUsable DEF Init
<1>2. TypeOK
  <2>1. Run(0, LowPages) \subseteq Pages
    BY PhysicalAssumption, RunMember DEF Pages
  <2>2. used \subseteq Pages
    BY <2>1 DEF Init
  <2>3. hint \in 0..NPages /\ allocated \in 0..(SizeT - 1)
    BY <1>1, PhysicalAssumption DEF Init, Pages
  <2>4. /\ count \in [Threads -> 1..MaxCount]
        /\ addr \in [Threads -> 0..NPages]
        /\ i \in [Threads -> 0..MaxCount]
        /\ waiting \in [Threads -> 0..MaxCount]
    BY PhysicalAssumption DEF Init
  <2> QED BY <2>2, <2>3, <2>4 DEF Init, TypeOK
<1>3. LockInv
  BY PhysicalAssumption DEF Init, LockInv
<1>4. NoFreeBelowHint
  <2> SUFFICES ASSUME NEW p \in Pages, p < hint PROVE p \in used
    BY DEF NoFreeBelowHint
  <2>1. p \notin UsablePages
    BY <1>1 DEF Pages
  <2> QED BY <2>1 DEF Init
<1>5. PagesAccounted
  BY InitRunPages DEF Init, PagesAccounted
<1>6. NoPageLost
  BY DEF Init, NoPageLost
<1>7. SearchInv
  BY DEF Init, SearchInv
<1> QED BY <1>2, <1>3, <1>4, <1>5, <1>6, <1>7 DEF IInv

LEMMA PallocIInv ==
    ASSUME IInv, NEW t \in Threads, NEW n \in 1..MaxCount, Palloc(t, n)
    PROVE  IInv'
<1> USE DEF IInv
<1>1. TypeOK'
  BY PhysicalAssumption DEF TypeOK, Palloc
<1>2. LockInv'
  BY PhysicalAssumption DEF TypeOK, LockInv, Palloc
<1>3. /\ NoFreeBelowHint'
      /\ PagesAccounted'
      /\ NoPageLost'
  BY DEF Palloc, NoFreeBelowHint, PagesAccounted, NoPageLost
<1>4. SearchInv'
  <2> SUFFICES ASSUME NEW s \in Threads, searching'[s] PROVE Searching(s)'
    BY DEF SearchInv
  <2>1. s = t
    BY PhysicalAssumption DEF LockInv, TypeOK, Palloc
  <2>2. addr'[s] = hint /\ i'[s] = 0 /\ count'[s] = n /\ used' = used
    BY <2>1 DEF Palloc, TypeOK
  <2>3. hint \in Int /\ n \in Int /\ n >= 1
    BY PhysicalAssumption DEF TypeOK
  <2>4. i'[s] <= count'[s]
    BY <2>2, <2>3
  <2>5. \A p \in Int : addr'[s] <= p /\ p < addr'[s] + i'[s] => p \in Pages \ used'
    BY <2>2, <2>3
  <2>6. NothingBehind(s)'
    <3> SUFFICES ASSUME NEW b \in Pages, b < hint PROVE ~BlockFree(b, n)
      BY <2>2 DEF NothingBehind, BlockFree
    <3>1. b \in used
      BY DEF NoFreeBelowHint
    <3>2. b \in Run(b, n)
      BY <2>3, RunMember DEF Pages
    <3> QED BY <3>1, <3>2 DEF BlockFree
  <2> QED BY <2>4, <2>5, <2>6 DEF Searching
<1> QED BY <1>1, <1>2, <1>3, <1>4

\* A call that waits for the lock, and a search that has left the bitmap, leave the rest alone.
LEMMA IdleIInv ==
    ASSUME IInv, NEW t \in Threads, (\E n \in 1..MaxCount : Call(t, n)) \/ RunOff(t)
    PROVE  IInv'
<1>0. waiting \in [Threads -> 0..MaxCount] /\ lost \in BOOLEAN /\ MaxCount \in Nat
  BY PhysicalAssumption DEF IInv, TypeOK
<1>1. /\ UNCHANGED <<used, hint, allocated, lock, held, init, searching, count, addr, i>>
      /\ waiting' \in [Threads -> 0..MaxCount] /\ lost' \in BOOLEAN
  <2>1. CASE RunOff(t)
    BY <2>1, <1>0 DEF RunOff, search
  <2>2. ASSUME NEW n \in 1..MaxCount, Call(t, n)
        PROVE  /\ UNCHANGED <<used, hint, allocated, lock, held, init, searching, count, addr, i>>
               /\ waiting' \in [Threads -> 0..MaxCount] /\ lost' \in BOOLEAN
    <3>1. n \in 0..MaxCount
      BY <1>0
    <3> QED BY <2>2, <3>1, <1>0 DEF Call, search
  <2> QED BY <2>1, <2>2
<1>2. TypeOK'
  BY <1>1 DEF IInv, TypeOK
<1>3. LockInv' /\ NoFreeBelowHint' /\ PagesAccounted' /\ NoPageLost' /\ SearchInv'
  BY <1>1 DEF IInv, LockInv, NoFreeBelowHint, PagesAccounted, NoPageLost, SearchInv, Searching,
     NothingBehind, BlockFree
<1> QED BY <1>2, <1>3 DEF IInv

\* What the search has found out, while it still tests pages: when the next one is not in
\* the bitmap, there is no block.
LEMMA NextTestInBitmap ==
    ASSUME IInv, NEW t \in Threads, searching[t], i[t] < count[t],
           NEW b \in Pages, BlockFree(b, count[t])
    PROVE  addr[t] + i[t] \in Pages
<1>2. /\ addr[t] \in 0..NPages /\ i[t] \in 0..MaxCount /\ count[t] \in 1..MaxCount
      /\ b \in Int /\ NPages \in Int
  BY PhysicalAssumption DEF IInv, TypeOK, Pages
<1>3. ~(b < addr[t])
  BY DEF IInv, SearchInv, Searching, NothingBehind
<1>4. b + count[t] - 1 \in Run(b, count[t])
  BY <1>2, RunMember
<1>5. b + count[t] - 1 \in Pages
  BY <1>4 DEF BlockFree
<1> QED BY <1>2, <1>3, <1>5, PhysicalAssumption DEF Pages

LEMMA TestIInv ==
    ASSUME IInv, NEW t \in Threads, Test(t)
    PROVE  IInv'
<1> USE DEF IInv
<1>1. addr[t] + i[t] \in Pages
  BY DEF Test
<1>2. /\ addr[t] \in 0..NPages /\ i[t] \in 0..MaxCount /\ count[t] \in 1..MaxCount
      /\ NPages \in Nat /\ MaxCount \in Nat
  BY PhysicalAssumption DEF TypeOK
<1>3. i[t] < count[t] /\ searching[t] /\ UNCHANGED <<used, hint, held, init, lock, searching, count, allocated, waiting, lost>>
  BY DEF Test
<1>4. \/ /\ addr[t] + i[t] \in used
         /\ addr' = [addr EXCEPT ![t] = @ + i[t] + 1]
         /\ i' = [i EXCEPT ![t] = 0]
      \/ /\ addr[t] + i[t] \notin used
         /\ i' = [i EXCEPT ![t] = @ + 1]
         /\ addr' = addr
  BY DEF Test
<1>5. TypeOK'
  <2>1. addr' \in [Threads -> 0..NPages]
    <3>1. addr[t] + i[t] + 1 \in 0..NPages
      BY <1>1, <1>2 DEF Pages
    <3> QED BY <3>1, <1>4 DEF TypeOK
  <2>2. i' \in [Threads -> 0..MaxCount]
    <3>1. i[t] + 1 \in 0..MaxCount /\ 0 \in 0..MaxCount
      BY <1>2, <1>3
    <3> QED BY <3>1, <1>4 DEF TypeOK
  <2> QED BY <2>1, <2>2, <1>3 DEF TypeOK
<1>6. /\ LockInv'
      /\ NoFreeBelowHint'
      /\ PagesAccounted'
      /\ NoPageLost'
  BY <1>3 DEF LockInv, NoFreeBelowHint, PagesAccounted, NoPageLost
<1>7. SearchInv'
  <2> SUFFICES ASSUME NEW s \in Threads, searching'[s] PROVE Searching(s)'
    BY DEF SearchInv
  <2>1. s = t
    BY <1>3 DEF LockInv
  <2>2. Searching(t)
    BY <1>3 DEF SearchInv
  <2>3. used' = used /\ count'[s] = count[t]
    BY <1>3, <2>1
  <2>4. CASE addr[t] + i[t] \in used
    <3>1. addr'[s] = addr[t] + i[t] + 1 /\ i'[s] = 0
      BY <2>1, <2>4, <1>4 DEF TypeOK
    <3>2. NothingBehind(s)'
      <4> SUFFICES ASSUME NEW b \in Pages, b < addr[t] + i[t] + 1
                   PROVE  ~BlockFree(b, count[t])
        BY <2>3, <3>1 DEF NothingBehind, BlockFree
      <4>1. CASE b < addr[t]
        BY <4>1, <2>2 DEF Searching, NothingBehind
      <4>2. CASE ~(b < addr[t])
        <5>1. b \in Int
          BY DEF Pages
        <5>2. addr[t] + i[t] \in Run(b, count[t])
          BY <4>2, <5>1, <1>2, <1>3, RunMember
        <5> QED BY <5>2, <2>4 DEF BlockFree
      <4> QED BY <4>1, <4>2
    <3>3. i'[s] <= count'[s] /\ \A p \in Int : ~(addr'[s] <= p /\ p < addr'[s] + i'[s])
      BY <3>1, <2>3, <1>2
    <3> QED BY <3>2, <3>3 DEF Searching
  <2>5. CASE addr[t] + i[t] \notin used
    <3>1. addr'[s] = addr[t] /\ i'[s] = i[t] + 1
      BY <2>1, <2>5, <1>4 DEF TypeOK
    <3>2. NothingBehind(s)'
      BY <3>1, <2>2, <2>3 DEF Searching, NothingBehind, BlockFree
    <3>3. i'[s] <= count'[s]
      BY <3>1, <2>3, <1>2, <1>3
    <3>4. \A p \in Int : addr'[s] <= p /\ p < addr'[s] + i'[s] => p \in Pages \ used'
      <4> SUFFICES ASSUME NEW p \in Int, addr[t] <= p, p < addr[t] + i[t] + 1
                   PROVE  p \in Pages \ used
        BY <3>1, <2>3, <1>2
      <4>1. p < addr[t] + i[t] \/ p = addr[t] + i[t]
        BY <1>2
      <4> QED BY <4>1, <2>2, <2>5, <1>1 DEF Searching
    <3> QED BY <3>2, <3>3, <3>4 DEF Searching
  <2> QED BY <2>4, <2>5
<1> QED BY <1>5, <1>6, <1>7

\* A search that ends has found a free block, and no lower one was free.
LEMMA FoundBlock ==
    ASSUME IInv, NEW t \in Threads, searching[t], i[t] = count[t]
    PROVE  /\ Run(addr[t], count[t]) \subseteq Pages \ used
           /\ addr[t] \in Pages
           /\ addr[t] + count[t] <= NPages
           /\ NothingBehind(t)
<1>1. /\ addr[t] \in 0..NPages /\ count[t] \in 1..MaxCount /\ NPages \in Nat
  BY PhysicalAssumption DEF IInv, TypeOK
<1>2. Searching(t)
  BY DEF IInv, SearchInv
<1>3. \A p \in Int : addr[t] <= p /\ p < addr[t] + count[t] => p \in Pages \ used
  BY <1>2 DEF Searching
<1>4. Run(addr[t], count[t]) \subseteq Pages \ used
  BY <1>1, <1>3, RunMember
<1>5. addr[t] \in Pages /\ addr[t] + count[t] - 1 \in Pages
  BY <1>1, <1>3
<1>6. addr[t] + count[t] <= NPages
  BY <1>1, <1>5 DEF Pages
<1> QED BY <1>2, <1>4, <1>5, <1>6 DEF Searching

LEMMA MarkIInv ==
    ASSUME IInv, NEW t \in Threads, Mark(t)
    PROVE  IInv'
<1> USE DEF IInv
<1> DEFINE B == Run(addr[t], count[t])
<1>1. /\ addr[t] \in Int /\ count[t] \in 1..MaxCount
      /\ NPages \in Nat /\ MaxCount \in Nat /\ hint \in 0..NPages
  BY PhysicalAssumption DEF TypeOK
<1>2. B \subseteq Pages \ used /\ addr[t] + count[t] <= NPages
  BY FoundBlock DEF Mark
<1>3. /\ used' = used \cup B
      /\ hint' = (IF addr[t] = hint THEN hint + count[t] ELSE hint)
      /\ held' = [held EXCEPT ![t] = @ \cup B]
      /\ init' = init
      /\ lock' = NoThread
      /\ searching' = [searching EXCEPT ![t] = FALSE]
  BY DEF Mark, Return
<1>4. \A s \in Threads : held'[s] = IF s = t THEN held[s] \cup B ELSE held[s]
  BY <1>3 DEF TypeOK
<1>5. \A s \in Threads : ~searching'[s]
  <2>1. \A s \in Threads : s # t => ~searching[s]
    BY DEF LockInv, Mark
  <2> QED BY <2>1, <1>3 DEF TypeOK
<1>6. TypeOK'
  <2>1. used' \subseteq Pages /\ held' \in [Threads -> SUBSET Pages]
    BY <1>2, <1>3 DEF TypeOK
  <2>2. hint' \in 0..NPages
    BY <1>1, <1>2, <1>3
  <2>3. allocated' \in 0..(SizeT - 1)
    <3>1. allocated + count[t] \in Int
      BY <1>1, PhysicalAssumption DEF TypeOK
    <3> QED BY <3>1, PhysicalAssumption DEF Mark
  <2>4. /\ searching' \in [Threads -> BOOLEAN]
        /\ count' \in [Threads -> 1..MaxCount]
        /\ addr' \in [Threads -> 0..NPages]
        /\ i' \in [Threads -> 0..MaxCount]
    BY PhysicalAssumption DEF Mark, Return, TypeOK
  <2>5. /\ lock' \in Threads \cup {NoThread} /\ init' \subseteq InitRuns
        /\ waiting' = waiting /\ lost' = lost
    BY <1>3 DEF TypeOK, Mark
  <2> QED BY <2>1, <2>2, <2>3, <2>4, <2>5 DEF TypeOK
<1>7. LockInv'
  BY <1>3, <1>5, PhysicalAssumption DEF LockInv
<1>8. NoFreeBelowHint'
  <2> SUFFICES ASSUME NEW p \in Pages, p < hint' PROVE p \in used'
    BY DEF NoFreeBelowHint
  <2>1. CASE p < hint
    BY <2>1, <1>3 DEF NoFreeBelowHint
  <2>2. CASE ~(p < hint)
    <3>1. p \in Int /\ addr[t] = hint /\ hint' = hint + count[t]
      <4>1. p \in Int
        BY PhysicalAssumption DEF Pages
      <4>2. hint' # hint
        BY <2>2
      <4> QED BY <4>1, <4>2, <1>3
    <3>2. p \in B
      <4>1. addr[t] <= p /\ p <= addr[t] + count[t] - 1
        BY <3>1, <2>2, <1>1
      <4> QED BY <4>1, <3>1, <1>1 DEF Run
    <3> QED BY <3>2, <1>3
  <2> QED BY <2>1, <2>2
<1>9. PagesAccounted'
  <2>1. \A s \in Threads : held'[s] \subseteq used'
    BY <1>3, <1>4 DEF PagesAccounted
  <2>2. \A r, s \in Threads : r # s => held'[r] \cap held'[s] = {}
    <3>1. \A s \in Threads : held[s] \cap B = {}
      BY <1>2 DEF PagesAccounted
    <3> QED BY <3>1, <1>4 DEF PagesAccounted
  <2>3. \A r \in init' : Run(r[1], r[2]) \subseteq used'
    BY <1>3 DEF PagesAccounted
  <2>4. ASSUME NEW r \in init', NEW s \in Threads
        PROVE  Run(r[1], r[2]) \cap held'[s] = {}
    <3>1. Run(r[1], r[2]) \cap B = {}
      BY <1>2, <1>3 DEF PagesAccounted
    <3>2. Run(r[1], r[2]) \cap held[s] = {}
      BY <1>3 DEF PagesAccounted
    <3> QED BY <3>1, <3>2, <1>4
  <2> QED BY <2>1, <2>2, <2>3, <2>4 DEF PagesAccounted
<1>10. NoPageLost'
  BY <1>3, <1>4 DEF NoPageLost
<1>11. SearchInv'
  BY <1>5 DEF SearchInv
<1> QED BY <1>6, <1>7, <1>8, <1>9, <1>10, <1>11

\* What both callers of FreeRun need: the hint stays sound, and no search is under
\* way while the bits are cleared.
LEMMA FreeRunFacts ==
    ASSUME IInv, NEW a \in Pages, NEW n \in Nat, FreeRun(a, n)
    PROVE  /\ used' = used \ Run(a, n)
           /\ used' \subseteq Pages
           /\ hint' \in 0..NPages
           /\ allocated' \in 0..(SizeT - 1)
           /\ NoFreeBelowHint'
           /\ LockInv'
           /\ SearchInv'
<1> USE DEF IInv
<1>1. used' = used \ Run(a, n) /\ used' \subseteq Pages
  BY DEF FreeRun, TypeOK
<1>2. a \in Int /\ n \in Int /\ hint \in Int /\ allocated \in Int
  BY PhysicalAssumption DEF Pages, TypeOK
<1>3. hint' = IF a < hint THEN a ELSE hint
  BY DEF FreeRun
<1>4. hint' \in 0..NPages
  BY <1>3, PhysicalAssumption DEF TypeOK, Pages
<1>5. allocated' \in 0..(SizeT - 1)
  <2>1. allocated - n \in Int
    BY <1>2
  <2> QED BY <2>1, PhysicalAssumption DEF FreeRun
<1>6. NoFreeBelowHint'
  <2> SUFFICES ASSUME NEW p \in Pages, p < hint' PROVE p \in used'
    BY DEF NoFreeBelowHint
  <2>1. p \in Int
    BY DEF Pages
  <2>2. p < hint /\ p < a
    BY <2>1, <1>2, <1>3
  <2>3. p \notin Run(a, n)
    BY <2>1, <2>2, <1>2, RunMember
  <2> QED BY <2>2, <2>3, <1>1 DEF NoFreeBelowHint
<1>7. LockInv'
  BY DEF FreeRun, LockInv, search
<1>8. \A t \in Threads : ~searching'[t]
  BY PhysicalAssumption DEF FreeRun, LockInv, search
<1>9. SearchInv'
  BY <1>8 DEF SearchInv
<1> QED BY <1>1, <1>4, <1>5, <1>6, <1>7, <1>9

LEMMA PfreeIInv ==
    ASSUME IInv, NEW t \in Threads, NEW a \in Pages, NEW n \in 1..MaxCount, Pfree(t, a, n)
    PROVE  IInv'
<1> USE DEF IInv
<1> DEFINE B == Run(a, n)
<1>1. n \in Nat /\ FreeRun(a, n)
  BY PhysicalAssumption DEF Pfree
<1>2. /\ used' = used \ B /\ used' \subseteq Pages
      /\ hint' \in 0..NPages /\ allocated' \in 0..(SizeT - 1)
      /\ NoFreeBelowHint' /\ LockInv' /\ SearchInv'
  BY <1>1, FreeRunFacts
<1>3. /\ B \subseteq held[t]
      /\ held' = [held EXCEPT ![t] = @ \ B]
      /\ init' = init
      /\ UNCHANGED <<lock, searching, count, addr, i, waiting, lost>>
  BY DEF Pfree, FreeRun, search
<1>4. \A s \in Threads : held'[s] = IF s = t THEN held[s] \ B ELSE held[s]
  BY <1>3 DEF TypeOK
<1>5. TypeOK'
  <2>1. held' \in [Threads -> SUBSET Pages]
    BY <1>3 DEF TypeOK
  <2> QED BY <2>1, <1>2, <1>3 DEF TypeOK
<1>6. \A s \in Threads : s # t => held[s] \cap B = {}
  BY <1>3 DEF PagesAccounted
<1>7. \A r \in init : Run(r[1], r[2]) \cap B = {}
  BY <1>3 DEF PagesAccounted
<1>8. PagesAccounted'
  <2>1. \A s \in Threads : held'[s] \subseteq used'
    BY <1>2, <1>4, <1>6 DEF PagesAccounted
  <2>2. \A r, s \in Threads : r # s => held'[r] \cap held'[s] = {}
    BY <1>4 DEF PagesAccounted
  <2>3. \A r \in init' : Run(r[1], r[2]) \subseteq used'
    BY <1>2, <1>3, <1>7 DEF PagesAccounted
  <2>4. ASSUME NEW r \in init', NEW s \in Threads
        PROVE  Run(r[1], r[2]) \cap held'[s] = {}
    <3>1. Run(r[1], r[2]) \cap held[s] = {}
      BY <1>3 DEF PagesAccounted
    <3> QED BY <3>1, <1>4
  <2> QED BY <2>1, <2>2, <2>3, <2>4 DEF PagesAccounted
<1>9. NoPageLost'
  <2> SUFFICES ASSUME NEW p \in used', \A s \in Threads : p \notin held'[s]
               PROVE  p \in Run(0, LowPages) \/ p \in Pages \ UsablePages
    BY DEF NoPageLost
  <2>1. p \in used /\ p \notin B
    BY <1>2
  <2>2. \A s \in Threads : p \notin held[s]
    BY <2>1, <1>4
  <2> QED BY <2>1, <2>2 DEF NoPageLost
<1> QED BY <1>2, <1>5, <1>8, <1>9

LEMMA ReleaseInitIInv ==
    ASSUME IInv, NEW r \in InitRuns, ReleaseInit(r)
    PROVE  IInv'
<1> USE DEF IInv
<1> DEFINE B == Run(r[1], r[2])
<1>1. r[1] \in Pages /\ r[2] \in Nat /\ FreeRun(r[1], r[2])
  BY InitRunPages DEF ReleaseInit
<1>2. /\ used' = used \ B /\ used' \subseteq Pages
      /\ hint' \in 0..NPages /\ allocated' \in 0..(SizeT - 1)
      /\ NoFreeBelowHint' /\ LockInv' /\ SearchInv'
  BY <1>1, FreeRunFacts
<1>3. /\ r \in init
      /\ held' = held
      /\ init' = init \ {r}
      /\ UNCHANGED <<lock, searching, count, addr, i, waiting, lost>>
  BY DEF ReleaseInit, FreeRun, search
<1>4. TypeOK'
  BY <1>2, <1>3 DEF TypeOK
<1>5. PagesAccounted'
  <2>1. \A s \in Threads : held[s] \cap B = {}
    BY <1>3 DEF PagesAccounted
  <2>2. \A s \in Threads : held'[s] \subseteq used'
    BY <2>1, <1>2, <1>3 DEF PagesAccounted
  <2>3. ASSUME NEW q \in init' PROVE Run(q[1], q[2]) \subseteq used'
    <3>1. q \in InitRuns /\ q # r /\ q \in init
      BY <1>3 DEF TypeOK
    <3>2. Run(q[1], q[2]) \cap B = {}
      BY <3>1, InitRunPages
    <3>3. Run(q[1], q[2]) \subseteq used
      BY <3>1 DEF PagesAccounted
    <3> QED BY <3>2, <3>3, <1>2
  <2> QED BY <2>2, <2>3, <1>3 DEF PagesAccounted
<1>6. NoPageLost'
  BY <1>2, <1>3 DEF NoPageLost
<1> QED BY <1>2, <1>4, <1>5, <1>6

LEMMA NextIInv == IInv /\ [Next]_vars => IInv'
<1> SUFFICES ASSUME IInv, [Next]_vars PROVE IInv'
  OBVIOUS
<1>1. ASSUME NEW t \in Threads, NEW n \in 1..MaxCount, Palloc(t, n) PROVE IInv'
  BY <1>1, PallocIInv
<1>2. ASSUME NEW t \in Threads, NEW n \in 1..MaxCount, NEW a \in Pages, Pfree(t, a, n)
      PROVE  IInv'
  BY <1>2, PfreeIInv
<1>3. ASSUME NEW t \in Threads, Test(t) PROVE IInv'
  BY <1>3, TestIInv
<1>4. ASSUME NEW t \in Threads, Mark(t) PROVE IInv'
  BY <1>4, MarkIInv
<1>5. ASSUME NEW r \in InitRuns, ReleaseInit(r) PROVE IInv'
  BY <1>5, ReleaseInitIInv
<1>6. CASE UNCHANGED vars
  BY <1>6 DEF vars, search, IInv, TypeOK, LockInv, NoFreeBelowHint, PagesAccounted,
    NoPageLost, SearchInv, Searching, NothingBehind, BlockFree
<1>7. ASSUME NEW t \in Threads, (\E n \in 1..MaxCount : Call(t, n)) \/ RunOff(t) PROVE IInv'
  BY <1>7, IdleIInv
<1> QED BY <1>1, <1>2, <1>3, <1>4, <1>5, <1>6, <1>7 DEF Next

LEMMA Invariance == Spec => []IInv
BY InitIInv, NextIInv, PTL DEF Spec

-----------------------------------------------------------------------------
(* The theorems *)

\* TypeOK holds in every state: the bitmap, the hint and the locals of palloc()
\* stay in their ranges, though the search loop has no end condition.
THEOREM TypeCorrect == Spec => []TypeOK
<1>1. IInv => TypeOK
  BY DEF IInv
<1> QED BY <1>1, Invariance, PTL

\* No page below pmm_first_potential_page is free, whatever palloc(), pfree() and
\* the release of the init sections do to it.
THEOREM HintIsSound == Spec => []NoFreeBelowHint
<1>1. IInv => NoFreeBelowHint
  BY DEF IInv
<1> QED BY <1>1, Invariance, PTL

\* palloc() never hands out a page that another thread or an init section holds.
THEOREM PagesAreAccounted == Spec => []PagesAccounted
<1>1. IInv => PagesAccounted
  BY DEF IInv
<1> QED BY <1>1, Invariance, PTL

\* A usable page whose bit is set is in the hands of a thread.
THEOREM NoPageIsLost == Spec => []NoPageLost
<1>1. IInv => NoPageLost
  BY DEF IInv
<1> QED BY <1>1, Invariance, PTL

\* is_page_used() is called for a page outside the bitmap only when no block of the
\* wanted length is free (physical.cpp:131-142, a loop without an end test).
THEOREM SearchStaysInBitmap == Spec => []SearchInBitmap
<1>1. IInv => SearchInBitmap
  BY NextTestInBitmap DEF SearchInBitmap, NoBlock
<1> QED BY <1>1, Invariance, PTL

\* The bitmap search, the hint and the lock implement PageAllocator: every palloc()
\* hands out the lowest block of its length that is free at the moment it is
\* marked, and every other step frees what its caller owns or changes nothing.
THEOREM RefinesAllocator == Spec => ImplementsAllocator
<1>1. Init => Allocator!AbsInit
  <2> SUFFICES ASSUME Init PROVE Allocator!AbsInit
    OBVIOUS
  <2>1. Run(0, LowPages) \subseteq Pages /\ UsablePages \subseteq Pages
    BY PhysicalAssumption, RunMember DEF Pages, UsablePages
  <2>2. Pages \ used = UsablePages \ Run(0, LowPages)
    BY <2>1 DEF Init
  <2> QED BY <2>2 DEF Init, Allocator!AbsInit
<1>2. IInv /\ [Next]_vars => [Allocator!AbsNext]_(Allocator!absvars)
  <2> SUFFICES ASSUME IInv, [Next]_vars PROVE [Allocator!AbsNext]_(Allocator!absvars)
    OBVIOUS
  <2>0. \A a, n : Allocator!Run(a, n) = Run(a, n)
    BY DEF Allocator!Run, Run
  <2>1. ASSUME NEW t \in Threads, NEW n \in 1..MaxCount, Palloc(t, n)
        PROVE  UNCHANGED Allocator!absvars
    BY <2>1 DEF Palloc, Allocator!absvars
  <2>2. ASSUME NEW t \in Threads, (\E n \in 1..MaxCount : Call(t, n)) \/ Test(t) \/ RunOff(t)
        PROVE  UNCHANGED Allocator!absvars
    BY <2>2 DEF Call, Test, RunOff, Allocator!absvars
  <2>3. ASSUME NEW t \in Threads, Mark(t) PROVE Allocator!AbsNext
    <3> DEFINE a == addr[t]
               n == count[t]
    <3>1. /\ Run(a, n) \subseteq Pages \ used
          /\ a \in Pages
          /\ NothingBehind(t)
      BY <2>3, FoundBlock DEF Mark
    <3>2. n \in 1..MaxCount /\ a \in 0..(NPages - 1)
      BY <3>1 DEF IInv, TypeOK, Pages
    <3>3. Allocator!Lowest(a, n)
      <4>1. ASSUME NEW b \in 0..(a - 1) PROVE ~(Run(b, n) \subseteq Pages \ used)
        <5>1. b \in Pages /\ b < a
          BY <3>2, PhysicalAssumption DEF Pages
        <5> QED BY <5>1, <3>1 DEF NothingBehind, BlockFree
      <4> QED BY <4>1, <3>1, <2>0 DEF Allocator!Lowest
    <3>4. /\ (Pages \ used)' = (Pages \ used) \ Run(a, n)
          /\ held' = [held EXCEPT ![t] = @ \cup Run(a, n)]
          /\ init' = init
      BY <2>3 DEF Mark
    <3>5. Allocator!Alloc(t, n)
      BY <3>2, <3>3, <3>4, <2>0 DEF Allocator!Alloc
    <3> QED BY <3>2, <3>5 DEF Allocator!AbsNext
  <2>4. ASSUME NEW t \in Threads, NEW n \in 1..MaxCount, NEW a \in Pages, Pfree(t, a, n)
        PROVE  Allocator!AbsNext
    <3>1. Run(a, n) \subseteq held[t] /\ held[t] \subseteq Pages
      BY <2>4 DEF Pfree, IInv, TypeOK
    <3>2. /\ (Pages \ used)' = (Pages \ used) \cup Run(a, n)
          /\ held' = [held EXCEPT ![t] = @ \ Run(a, n)]
          /\ init' = init
      BY <2>4, <3>1 DEF Pfree, FreeRun
    <3>3. Allocator!Free(t, a, n)
      BY <3>1, <3>2, <2>0 DEF Allocator!Free
    <3> QED BY <3>3 DEF Allocator!AbsNext, Pages
  <2>5. ASSUME NEW r \in InitRuns, ReleaseInit(r) PROVE Allocator!AbsNext
    <3>1. Run(r[1], r[2]) \subseteq Pages
      BY InitRunPages
    <3>2. /\ (Pages \ used)' = (Pages \ used) \cup Run(r[1], r[2])
          /\ r \in init /\ init' = init \ {r} /\ held' = held
      BY <2>5, <3>1 DEF ReleaseInit, FreeRun
    <3>3. Allocator!GiveInit(r)
      BY <3>2, <2>0 DEF Allocator!GiveInit
    <3> QED BY <3>3 DEF Allocator!AbsNext
  <2>6. CASE UNCHANGED vars
    BY <2>6 DEF vars, Allocator!absvars
  <2> QED BY <2>1, <2>2, <2>3, <2>4, <2>5, <2>6 DEF Next
<1> QED BY <1>1, <1>2, Invariance, PTL DEF Spec, ImplementsAllocator, Allocator!AbsSpec

-----------------------------------------------------------------------------
(* Page tables.  Every table has a place in the tree: the root of a pager,  *)
(* its directory and last table for user pages, the kernel's directory that *)
(* all roots have, and the last table of a kernel page.  A frame is in one  *)
(* place at most, so that what one pager writes nobody else's walk meets    *)
(* but where it should; a table that is made takes a place that was empty.  *)

\* The places of tables and the frames there, 0 where there is none.
Places == {"root", "top", "dir", "leaf", "kernel"}
Who(a) == IF a = "kernel" THEN 0..(KernelPages - 1) ELSE IF a = "top" THEN {0} ELSE Pagers
TableAt(r, m, a, o) ==
    IF a = "root" THEN r[o] ELSE IF a = "top" THEN 1
    ELSE IF a = "dir" THEN m[r[o]][0]
    ELSE IF a = "leaf" THEN IF m[r[o]][0] = 0 THEN 0 ELSE m[m[r[o]][0]][0]
    ELSE m[1][o]

\* Tables in memory.
Memory == Seq([Paging!Entries -> Nat])

TreeFits(r, m, n) ==
    /\ n \in Nat /\ 1 <= n /\ m \in Memory /\ Len(m) = n
    /\ \A p \in Pagers : r[p] \in 1..n /\ m[r[p]][1] = 1
    /\ \A a \in Places : \A o \in Who(a) : TableAt(r, m, a, o) \in 0..n
    /\ \A a, b \in Places : \A o \in Who(a), j \in Who(b) :
          TableAt(r, m, a, o) = TableAt(r, m, b, j) /\ TableAt(r, m, a, o) # 0 => a = b /\ o = j

\* The place of the last table of a page, and what is in the table for it.
LeafPlace(page) == IF Paging!Kernel(page) THEN "kernel" ELSE "leaf"
LeafOwner(p, page) == IF Paging!Kernel(page) THEN page ELSE p
LeafIndex(page) == IF Paging!Kernel(page) THEN 0 ELSE page
Content(r, m, p, page) ==
    LET t == TableAt(r, m, LeafPlace(page), LeafOwner(p, page))
    IN IF t = 0 THEN 0 ELSE m[t][LeafIndex(page)]

\* Memory m of n tables becomes m2 when entry e of table F is to name a new, cleared table.
Grows(m, n, F, e, m2) == m2 = Append([m EXCEPT ![F][e] = n + 1], Paging!Empty)

\* Indices in tables.
LEMMA EntryFacts ==
    /\ 0 \in Paging!Entries /\ 1 \in Paging!Entries
    /\ Paging!Pages \subseteq Paging!Entries /\ Paging!Pages \subseteq Nat
    /\ 0..(KernelPages - 1) \subseteq Paging!Pages /\ UserPages \subseteq Paging!Pages
    /\ \A page \in Paging!Pages : Paging!Kernel(page) <=> page \in 0..(KernelPages - 1)
    /\ Paging!Empty = [e \in Paging!Entries |-> 0]
<1>1. UserPages \subseteq Nat /\ KernelPages \in Nat /\ \A page \in UserPages : page >= KernelPages
  BY PagingAssumption
<1>2. QED
  BY <1>1 DEF Paging!Entries, Paging!Pages, Paging!Kernel, Paging!Empty

\* The tables of a tree.
LEMMA TreeFacts ==
    ASSUME NEW r, NEW m, NEW n, TreeFits(r, m, n)
    PROVE  /\ n \in Nat /\ 1 \in 1..n /\ DOMAIN m = 1..n
           /\ \A f \in 1..n : m[f] \in [Paging!Entries -> Nat]
           /\ \A p, q \in Pagers : r[p] \in 1..n /\ m[r[p]][1] = 1 /\ r[p] # 1 /\ (r[p] = r[q] => p = q)
           /\ \A p \in Pagers : m[r[p]][0] \in 0..n
           /\ \A p, q \in Pagers : m[r[p]][0] # 0 =>
                 m[r[p]][0] # 1 /\ m[r[p]][0] # r[q] /\ (m[r[p]][0] = m[r[q]][0] => p = q)
<1>1. n \in Nat /\ 1 \in 1..n /\ m \in Memory /\ Len(m) = n
  BY DEF TreeFits
<1>2. DOMAIN m = 1..n /\ \A f \in 1..n : m[f] \in [Paging!Entries -> Nat]
  BY <1>1 DEF Memory
<1>3. {"root", "top", "dir"} \subseteq Places /\ Who("root") = Pagers /\ Who("dir") = Pagers /\ Who("top") = {0}
  BY DEF Places, Who
<1>4. \A p \in Pagers : r[p] \in 1..n /\ m[r[p]][1] = 1
  BY DEF TreeFits
<1>5. \A p \in Pagers : TableAt(r, m, "root", p) = r[p] /\ TableAt(r, m, "dir", p) = m[r[p]][0]
  BY DEF TableAt
<1>6. TableAt(r, m, "top", 0) = 1
  BY DEF TableAt
<1>7. \A a, b \in Places : \A o \in Who(a), j \in Who(b) :
          TableAt(r, m, a, o) = TableAt(r, m, b, j) /\ TableAt(r, m, a, o) # 0 => a = b /\ o = j
  BY DEF TreeFits
<1>8. \A p \in Pagers : m[r[p]][0] \in 0..n
  BY <1>3, <1>5 DEF TreeFits
<1>9. \A p, q \in Pagers : r[p] # 1 /\ (r[p] = r[q] => p = q)
  <2> TAKE p, q \in Pagers
  <2>1. r[p] # 0
    BY <1>1, <1>4
  <2>2. r[p] # 1
    BY <2>1, <1>3, <1>5, <1>6, <1>7
  <2>3. r[p] = r[q] => p = q
    BY <2>1, <1>3, <1>5, <1>7
  <2>4. QED
    BY <2>2, <2>3
<1>10. ASSUME NEW p \in Pagers, NEW q \in Pagers, m[r[p]][0] # 0
       PROVE  m[r[p]][0] # 1 /\ m[r[p]][0] # r[q] /\ (m[r[p]][0] = m[r[q]][0] => p = q)
  <2>1. m[r[p]][0] # 1
    BY <1>10, <1>3, <1>5, <1>6, <1>7
  <2>2. m[r[p]][0] # r[q]
    BY <1>10, <1>3, <1>5, <1>7
  <2>3. m[r[p]][0] = m[r[q]][0] => p = q
    BY <1>10, <1>3, <1>5, <1>7
  <2>4. QED
    BY <2>1, <2>2, <2>3
<1>11. QED
  BY <1>1, <1>2, <1>4, <1>8, <1>9, <1>10

\* What is in memory after an entry is written and a cleared table is added.
LEMMA GrownMemory ==
    ASSUME NEW n \in Nat, NEW m \in Memory, Len(m) = n,
           NEW F \in 1..n, NEW e \in Paging!Entries, NEW m2, Grows(m, n, F, e, m2)
    PROVE  /\ m2 \in Memory /\ Len(m2) = n + 1 /\ m2[n + 1] = Paging!Empty
           /\ \A f \in 1..n, x \in Paging!Entries :
                 m2[f][x] = IF f = F /\ x = e THEN n + 1 ELSE m[f][x]
           /\ \A f \in 1..n : f # F => m2[f] = m[f]
<1> DEFINE S == [Paging!Entries -> Nat]
           w == [m EXCEPT ![F] = [m[F] EXCEPT ![e] = n + 1]]
<1>1. m[F] \in S
  BY DEF Memory
<1>2. [m[F] EXCEPT ![e] = n + 1] \in S /\ \A x \in Paging!Entries :
         [m[F] EXCEPT ![e] = n + 1][x] = IF x = e THEN n + 1 ELSE m[F][x]
  <2>1. n + 1 \in Nat
    OBVIOUS
  <2>2. QED
    BY <1>1, <2>1
<1>3. Paging!Empty \in S
  BY EntryFacts
<1>4. m2 = Append(w, Paging!Empty)
  BY DEF Grows
<1> HIDE DEF S
<1>5. /\ w \in Seq(S) /\ Len(w) = n
      /\ \A f \in 1..n : w[f] = IF f = F THEN [m[F] EXCEPT ![e] = n + 1] ELSE m[f]
  <2>1. m \in Seq(S)
    BY DEF S, Memory
  <2>2. QED
    BY <2>1, <1>2
<1> HIDE DEF w
<1>6. /\ m2 \in Seq(S) /\ Len(m2) = n + 1 /\ m2[n + 1] = Paging!Empty
      /\ \A f \in 1..n : m2[f] = w[f]
  <2>1. w \in Seq(S) /\ Paging!Empty \in S /\ Len(w) = n
    BY <1>3, <1>5
  <2> HIDE DEF S
  <2>2. Append(w, Paging!Empty) \in Seq(S)
    BY <2>1, AppendProperties
  <2>6. Len(Append(w, Paging!Empty)) = n + 1
    <3>1. Len(Append(w, Paging!Empty)) = Len(w) + 1
      BY <2>1, AppendProperties, Zenon
    <3>2. QED
      BY <3>1, <2>1
  <2>3. Append(w, Paging!Empty)[n + 1] = Paging!Empty
    BY <2>1, AppendProperties
  <2>4. \A f \in 1..n : Append(w, Paging!Empty)[f] = w[f]
    BY <2>1, AppendProperties
  <2>5. QED
    BY <2>2, <2>6, <2>3, <2>4, <1>4
<1>7. QED
  BY <1>2, <1>5, <1>6 DEF S, Memory

\* A table that is made takes the empty place below the table that names it, and disturbs no
\* other place.
LEMMA GrownTables ==
    ASSUME NEW r, NEW m, NEW n, TreeFits(r, m, n),
           NEW c \in {"dir", "leaf", "kernel"}, NEW j \in Who(c), TableAt(r, m, c, j) = 0,
           NEW F \in 1..n, NEW e \in Paging!Entries,
           \/ c = "dir" /\ F = r[j] /\ e = 0
           \/ c = "leaf" /\ F = m[r[j]][0] /\ e = 0
           \/ c = "kernel" /\ F = 1 /\ e = j,
           NEW m2, Grows(m, n, F, e, m2)
    PROVE  /\ TableAt(r, m2, c, j) = n + 1
           /\ \A a \in Places : \A o \in Who(a) :
                 a # c \/ o # j => TableAt(r, m2, a, o) = TableAt(r, m, a, o)
<1>1. /\ n \in Nat /\ 1 \in 1..n /\ m \in Memory /\ Len(m) = n
      /\ \A f \in 1..n : m[f] \in [Paging!Entries -> Nat]
      /\ \A p, q \in Pagers : r[p] \in 1..n /\ r[p] # 1 /\ (r[p] = r[q] => p = q)
      /\ \A p \in Pagers : m[r[p]][0] \in 0..n
      /\ \A p, q \in Pagers : m[r[p]][0] # 0 =>
            m[r[p]][0] # 1 /\ m[r[p]][0] # r[q] /\ (m[r[p]][0] = m[r[q]][0] => p = q)
  <2>1. m \in Memory /\ Len(m) = n
    BY DEF TreeFits
  <2>2. QED
    BY <2>1, TreeFacts
<1>2. n + 1 \in Nat /\ n + 1 # 0
  BY <1>1
<1>3. /\ m2[n + 1] = Paging!Empty
      /\ \A f \in 1..n, x \in Paging!Entries :
            m2[f][x] = IF f = F /\ x = e THEN n + 1 ELSE m[f][x]
  BY <1>1, GrownMemory
<1>4. /\ 0 \in Paging!Entries /\ Paging!Empty[0] = 0
      /\ 0..(KernelPages - 1) \subseteq Paging!Entries
  BY EntryFacts
<1>5. CASE c = "dir"
  <2>1. j \in Pagers /\ F = r[j] /\ e = 0 /\ m[r[j]][0] = 0
    BY <1>5 DEF Who, TableAt
  <2>2. \A p \in Pagers : m2[r[p]][0] = IF p = j THEN n + 1 ELSE m[r[p]][0]
    BY <2>1, <1>1, <1>3, <1>4
  <2>3. \A p \in Pagers : p # j /\ m[r[p]][0] # 0 => m2[m[r[p]][0]][0] = m[m[r[p]][0]][0]
    BY <2>1, <1>1, <1>3, <1>4
  <2>4. m2[n + 1][0] = 0
    BY <1>3, <1>4
  <2>5. \A o \in 0..(KernelPages - 1) : m2[1][o] = m[1][o]
    BY <2>1, <1>1, <1>3, <1>4
  <2>6. QED
    BY <1>2, <1>5, <2>1, <2>2, <2>3, <2>4, <2>5 DEF TableAt, Who, Places
<1>6. CASE c = "leaf"
  <2>1. j \in Pagers /\ F = m[r[j]][0] /\ e = 0 /\ F # 0
    BY <1>6, <1>1 DEF Who
  <2>2. \A p \in Pagers : m2[r[p]][0] = m[r[p]][0]
    BY <2>1, <1>1, <1>3, <1>4
  <2>3. \A p \in Pagers : m[r[p]][0] # 0 =>
           m2[m[r[p]][0]][0] = IF p = j THEN n + 1 ELSE m[m[r[p]][0]][0]
    BY <2>1, <1>1, <1>3, <1>4
  <2>4. \A o \in 0..(KernelPages - 1) : m2[1][o] = m[1][o]
    BY <2>1, <1>1, <1>3, <1>4
  <2>5. QED
    BY <1>2, <1>6, <2>1, <2>2, <2>3, <2>4 DEF TableAt, Who, Places
<1>7. CASE c = "kernel"
  <2>1. j \in 0..(KernelPages - 1) /\ F = 1 /\ e = j
    BY <1>7 DEF Who
  <2>2. \A p \in Pagers : m2[r[p]][0] = m[r[p]][0]
    BY <2>1, <1>1, <1>3, <1>4
  <2>3. \A p \in Pagers : m[r[p]][0] # 0 => m2[m[r[p]][0]][0] = m[m[r[p]][0]][0]
    BY <2>1, <1>1, <1>3, <1>4
  <2>4. \A o \in 0..(KernelPages - 1) : m2[1][o] = IF o = j THEN n + 1 ELSE m[1][o]
    BY <2>1, <1>1, <1>3, <1>4
  <2>5. QED
    BY <1>2, <1>7, <2>1, <2>2, <2>3, <2>4 DEF TableAt, Who, Places
<1>8. QED
  BY <1>5, <1>6, <1>7

\* The place a walk reaches on a level, and the frame there.
LevelPlace(level, page) ==
    IF level = 1 THEN "root"
    ELSE IF level = 2 THEN IF Paging!Kernel(page) THEN "top" ELSE "dir"
    ELSE LeafPlace(page)
LevelOwner(level, p, page) ==
    IF level = 1 THEN p
    ELSE IF level = 2 THEN IF Paging!Kernel(page) THEN 0 ELSE p
    ELSE LeafOwner(p, page)
LevelTable(r, m, level, p, page) == TableAt(r, m, LevelPlace(level, page), LevelOwner(level, p, page))

\* Pager p, with work pages w, sees the table of a level through its work page.
Shows(r, m, ctl, w, p, page, level) ==
    /\ w[level] \in Paging!Slots
    /\ LevelTable(r, m, level, p, page) # 0
    /\ ctl[w[level]].frame = LevelTable(r, m, level, p, page)

\* What a call is about: getFreeRange() and the calls of map() of kalloc() stay in the kernel pages.
CallFits(c) ==
    c.pc # "idle" =>
        /\ c.page \in Paging!Pages
        /\ c.op \in {"find", "map", "kmap", "unmap"}
        /\ c.op = "find" => /\ c.frame <= c.page /\ (c.page - c.frame) + c.left <= KernelPages
                            /\ c.frame < c.left
        /\ c.op = "kmap" => c.page + c.left <= KernelPages /\ 1 <= c.left

\* How far a walk is: which work pages it has and which show their tables already.
WalkFits(r, m, ctl, w, c, p) ==
    /\ c.pc = "set" => w[c.level] = Paging!None /\ c.slot \in Paging!Slots
    /\ c.pc = "descend" => w[c.level] \in Paging!Slots
    /\ c.pc \in {"last", "entry"} => c.level = 3
    /\ c.pc = "last" => c.op # "find"
    /\ c.pc # "idle" /\ c.op # "find" /\ (c.level # 3 \/ c.pc \in {"last", "entry"}) => w[3] \in Paging!Slots
    /\ c.pc # "idle" /\ c.level = 2 => Shows(r, m, ctl, w, p, c.page, 1)
    /\ c.pc = "last" \/ (c.pc \in {"acquire", "set", "descend"} /\ c.op = "find" /\ c.level = 3) =>
          Shows(r, m, ctl, w, p, c.page, 2)
    /\ c.pc = "entry" => Shows(r, m, ctl, w, p, c.page, 3)

\* The work pages: one user each, and a free one has none.
SlotsFit(ctl, ws) ==
    /\ \A p, q \in Pagers : \A k, l \in Paging!Levels :
          ws[p][k] = ws[q][l] /\ ws[p][k] # Paging!None => p = q /\ k = l
    /\ \A s \in Paging!Slots : ctl[s].present <=> \E p \in Pagers, l \in Paging!Levels : ws[p][l] = s

CallRecords == [pc : {"idle", "acquire", "set", "descend", "last", "entry"},
                op : {"none", "find", "map", "kmap", "unmap"}, page : Nat, left : Nat,
                level : Paging!Levels, slot : Nat, frame : Nat]

\* The inductive invariant of the page tables: types, a tree of tables whose contents are the
\* mappings, and for each thread where its walk is.
PagerTypes ==
    /\ control \in [Paging!Slots -> [present : BOOLEAN, frame : Nat]]
    /\ workPages \in [Pagers -> [Paging!Levels -> Paging!Slots \cup {Paging!None}]]
    /\ call \in [Pagers -> CallRecords]
    /\ expected \in [Pagers -> [Paging!Pages -> Nat]]
    /\ kallocHint \in Nat
TablesFit ==
    /\ TreeFits(root, mem, tables)
    /\ \A p \in Pagers : \A page \in Paging!Pages : Content(root, mem, p, page) = expected[p][page]
CallsFit == \A p \in Pagers : CallFits(call[p]) /\ WalkFits(root, mem, control, workPages[p], call[p], p)
PagerInv == ~raced => PagerTypes /\ TablesFit /\ SlotsFit(control, workPages) /\ CallsFit

\* Every level of a walk is at a place.
LEMMA LevelFacts ==
    ASSUME NEW p \in Pagers, NEW page \in Paging!Pages, NEW level \in Paging!Levels
    PROVE  LevelPlace(level, page) \in Places /\ LevelOwner(level, p, page) \in Who(LevelPlace(level, page))
<1>1. Paging!Kernel(page) => page \in 0..(KernelPages - 1)
  BY EntryFacts
<1>2. QED
  BY <1>1 DEF LevelPlace, LevelOwner, LeafPlace, LeafOwner, Places, Who

\* The indices of a walk.
LEMMA PathFacts ==
    ASSUME NEW page \in Paging!Pages
    PROVE  /\ Paging!PathOf(page)[1] = IF Paging!Kernel(page) THEN 1 ELSE 0
           /\ Paging!PathOf(page)[2] = IF Paging!Kernel(page) THEN page ELSE 0
           /\ Paging!PathOf(page)[3] = LeafIndex(page)
           /\ LeafIndex(page) \in Paging!Entries
<1>1. LeafIndex(page) \in Paging!Entries
  BY EntryFacts DEF LeafIndex
<1>2. QED
  BY <1>1 DEF Paging!PathOf, LeafIndex

\* The table of a level names the table of the next.
LEMMA NamedTable ==
    ASSUME NEW r, NEW m, NEW n, TreeFits(r, m, n), NEW p \in Pagers, NEW page \in Paging!Pages,
           NEW level \in {2, 3}, LevelTable(r, m, level - 1, p, page) # 0
    PROVE  LevelTable(r, m, level, p, page) =
             m[LevelTable(r, m, level - 1, p, page)][Paging!PathOf(page)[level - 1]]
<1>1. m[r[p]][1] = 1
  BY DEF TreeFits
<1>2. CASE level = 2
  BY <1>1, <1>2, PathFacts DEF LevelTable, LevelPlace, LevelOwner, TableAt
<1>3. CASE level = 3
  BY <1>3, PathFacts DEF LevelTable, LevelPlace, LevelOwner, LeafPlace, LeafOwner, TableAt
<1>4. QED
  BY <1>2, <1>3

\* The table of a level on the way to a page is made.
MakesTable(r, m, n, p, page, level, m2) ==
    LET F == LevelTable(r, m, level - 1, p, page)  e == Paging!PathOf(page)[level - 1] IN
    F # 0 /\ m[F][e] = 0 /\ Grows(m, n, F, e, m2)

\* What is in memory of a grown tree: it still is a tree, and nothing is mapped in the new table.
LEMMA GrownTree ==
    ASSUME NEW r, NEW m, NEW n, TreeFits(r, m, n), NEW p \in Pagers, NEW page \in Paging!Pages,
           NEW level \in {2, 3}, NEW m2, MakesTable(r, m, n, p, page, level, m2)
    PROVE  /\ TreeFits(r, m2, n + 1)
           /\ LevelTable(r, m2, level, p, page) = n + 1
           /\ \A a \in Places : \A o \in Who(a) :
                 TableAt(r, m, a, o) # 0 => TableAt(r, m2, a, o) = TableAt(r, m, a, o)
           /\ \A q \in Pagers : \A x \in Paging!Pages : Content(r, m2, q, x) = Content(r, m, q, x)
<1>0. PICK F, e : /\ F = LevelTable(r, m, level - 1, p, page) /\ e = Paging!PathOf(page)[level - 1]
                  /\ F # 0 /\ m[F][e] = 0 /\ Grows(m, n, F, e, m2)
  BY Zenon DEF MakesTable
<1> DEFINE c == LevelPlace(level, page)
           j == LevelOwner(level, p, page)
<1>1. c \in Places /\ j \in Who(c) /\ TableAt(r, m, c, j) = 0
  <2>1. level \in Paging!Levels
    BY DEF Paging!Levels
  <2>2. QED
    BY <1>0, <2>1, LevelFacts, NamedTable DEF LevelTable
<1>2. /\ n \in Nat /\ 1 \in 1..n /\ m \in Memory /\ Len(m) = n
      /\ \A q \in Pagers : r[q] \in 1..n /\ m[r[q]][1] = 1 /\ r[q] # 1
      /\ \A q \in Pagers : m[r[q]][0] \in 0..n
      /\ \A x, q \in Pagers : m[r[x]][0] # 0 => m[r[x]][0] # 1 /\ m[r[x]][0] # r[q]
  <2>1. m \in Memory /\ Len(m) = n
    BY DEF TreeFits
  <2>2. /\ n \in Nat /\ 1 \in 1..n
        /\ \A x, q \in Pagers : r[x] \in 1..n /\ m[r[x]][1] = 1 /\ r[x] # 1 /\ (r[x] = r[q] => x = q)
        /\ \A x \in Pagers : m[r[x]][0] \in 0..n
    BY TreeFacts
  <2>3. \A x, q \in Pagers : m[r[x]][0] # 0 =>
            m[r[x]][0] # 1 /\ m[r[x]][0] # r[q] /\ (m[r[x]][0] = m[r[q]][0] => x = q)
    BY TreeFacts
  <2>4. QED
    BY <2>1, <2>2, <2>3
<1>3. /\ c \in {"dir", "leaf", "kernel"} /\ F \in 1..n /\ e \in Paging!Entries
      /\ \/ c = "dir" /\ F = r[j] /\ e = 0
         \/ c = "leaf" /\ F = m[r[j]][0] /\ e = 0
         \/ c = "kernel" /\ F = 1 /\ e = j
  <2>1. CASE level = 2
    <3>1. ~Paging!Kernel(page)
      BY <2>1, <1>1, <1>2 DEF LevelPlace, TableAt
    <3>2. F = r[p] /\ e = 0 /\ c = "dir" /\ j = p
      BY <1>0, <3>1, <2>1, PathFacts DEF LevelTable, LevelPlace, LevelOwner, TableAt
    <3>3. QED
      BY <3>2, <1>2, EntryFacts
  <2>2. CASE level = 3 /\ Paging!Kernel(page)
    <3>1. F = 1 /\ e = page /\ c = "kernel" /\ j = page
      BY <1>0, <2>2, PathFacts DEF LevelTable, LevelPlace, LevelOwner, LeafPlace, LeafOwner, TableAt
    <3>2. QED
      BY <3>1, <1>2, EntryFacts
  <2>3. CASE level = 3 /\ ~Paging!Kernel(page)
    <3>1. F = m[r[p]][0] /\ e = 0 /\ c = "leaf" /\ j = p
      BY <1>0, <2>3, PathFacts DEF LevelTable, LevelPlace, LevelOwner, LeafPlace, LeafOwner, TableAt
    <3>2. F \in 1..n
      BY <1>0, <3>1, <1>2
    <3>3. QED
      BY <3>1, <3>2, EntryFacts
  <2>4. QED
    BY <2>1, <2>2, <2>3
<1> HIDE DEF c, j
<1>4. /\ TableAt(r, m2, c, j) = n + 1
      /\ \A a \in Places : \A o \in Who(a) :
            a # c \/ o # j => TableAt(r, m2, a, o) = TableAt(r, m, a, o)
  <2>1. c \in {"dir", "leaf", "kernel"} /\ j \in Who(c) /\ F \in 1..n /\ e \in Paging!Entries
    BY <1>1, <1>3
  <2>2. TableAt(r, m, c, j) = 0
    BY <1>1
  <2>3. \/ c = "dir" /\ F = r[j] /\ e = 0
        \/ c = "leaf" /\ F = m[r[j]][0] /\ e = 0
        \/ c = "kernel" /\ F = 1 /\ e = j
    BY <1>3
  <2>4. QED
    BY <1>0, <2>1, <2>2, <2>3, GrownTables
<1>5. n + 1 \in Nat
  BY <1>2
<1>6. /\ m2 \in Memory /\ Len(m2) = n + 1 /\ m2[n + 1] = Paging!Empty
      /\ \A f \in 1..n, x \in Paging!Entries :
            m2[f][x] = IF f = F /\ x = e THEN n + 1 ELSE m[f][x]
  <2>1. /\ n \in Nat /\ m \in Memory /\ Len(m) = n /\ F \in 1..n
        /\ e \in Paging!Entries /\ n + 1 \in Nat
    BY <1>2, <1>3, <1>5
  <2>2. QED
    BY <1>0, <2>1, GrownMemory
<1>7. /\ \A a \in Places : \A o \in Who(a) : TableAt(r, m, a, o) \in 0..n
      /\ \A a, b \in Places : \A o \in Who(a), x \in Who(b) :
          TableAt(r, m, a, o) = TableAt(r, m, b, x) /\ TableAt(r, m, a, o) # 0 => a = b /\ o = x
  BY DEF TreeFits
<1>8. \A q \in Pagers : r[q] \in 1..(n + 1) /\ m2[r[q]][1] = 1
  <2> TAKE q \in Pagers
  <2>1. r[q] \in 1..n /\ r[q] \in 1..(n + 1) /\ m[r[q]][1] = 1
    BY <1>2
  <2>2. ~(r[q] = F /\ 1 = e)
    <3>1. CASE F = 1
      BY <3>1, <1>2
    <3>2. CASE e = 0
      BY <3>2
    <3>3. QED
      BY <3>1, <3>2, <1>3
  <2>3. QED
    BY <2>1, <2>2, <1>6, EntryFacts
<1>9. \A a \in Places : \A o \in Who(a) :
          TableAt(r, m2, a, o) \in 0..(n + 1) /\ (TableAt(r, m2, a, o) # n + 1 \/ (a = c /\ o = j))
  <2> TAKE a \in Places
  <2> TAKE o \in Who(a)
  <2>1. CASE a = c /\ o = j
    BY <2>1, <1>2, <1>4
  <2>2. CASE a # c \/ o # j
    <3>1. TableAt(r, m2, a, o) = TableAt(r, m, a, o) /\ TableAt(r, m, a, o) \in 0..n
      BY <2>2, <1>4, <1>7
    <3>2. QED
      BY <3>1, <1>2
  <2>3. QED
    BY <2>1, <2>2
<1>10. ASSUME NEW a \in Places, NEW b \in Places, NEW o \in Who(a), NEW x \in Who(b),
              TableAt(r, m2, a, o) = TableAt(r, m2, b, x), TableAt(r, m2, a, o) # 0
       PROVE  a = b /\ o = x
  <2>1. CASE TableAt(r, m2, a, o) = n + 1
    BY <2>1, <1>9, <1>10
  <2>2. CASE TableAt(r, m2, a, o) # n + 1
    <3>1. TableAt(r, m2, a, o) = TableAt(r, m, a, o) /\ TableAt(r, m2, b, x) = TableAt(r, m, b, x)
      BY <2>2, <1>4, <1>10
    <3>2. QED
      BY <3>1, <1>7, <1>10
  <2>3. QED
    BY <2>1, <2>2
<1>11. TreeFits(r, m2, n + 1)
  <2>1. 1 <= n + 1
    BY <1>2
  <2>2. QED
    BY <2>1, <1>5, <1>6, <1>8, <1>9, <1>10 DEF TreeFits
<1>12. LevelTable(r, m2, level, p, page) = n + 1
  BY <1>4 DEF LevelTable, c, j
<1>13. ASSUME NEW q \in Pagers, NEW x \in Paging!Pages
       PROVE  Content(r, m2, q, x) = Content(r, m, q, x)
  <2> DEFINE a == LeafPlace(x)
             o == LeafOwner(q, x)
  <2>1. a \in Places /\ o \in Who(a) /\ a \in {"leaf", "kernel"}
    <3>1. 3 \in Paging!Levels /\ LevelPlace(3, x) = a /\ LevelOwner(3, q, x) = o
      BY DEF Paging!Levels, LevelPlace, LevelOwner
    <3>2. QED
      BY <3>1, LevelFacts DEF LeafPlace
  <2>2. LeafIndex(x) \in Paging!Entries
    BY PathFacts
  <2>3. Content(r, m2, q, x) = (IF TableAt(r, m2, a, o) = 0 THEN 0 ELSE m2[TableAt(r, m2, a, o)][LeafIndex(x)])
    BY DEF Content
  <2>4. Content(r, m, q, x) = (IF TableAt(r, m, a, o) = 0 THEN 0 ELSE m[TableAt(r, m, a, o)][LeafIndex(x)])
    BY DEF Content
  <2> HIDE DEF a, o
  <2>5. CASE a = c /\ o = j
    <3>1. m2[n + 1][LeafIndex(x)] = 0
      BY <2>2, <1>6, EntryFacts
    <3>2. QED
      BY <3>1, <2>3, <2>4, <2>5, <1>1, <1>4
  <2>6. CASE a # c \/ o # j
    <3>1. TableAt(r, m2, a, o) = TableAt(r, m, a, o) /\ TableAt(r, m, a, o) \in 0..n
      BY <2>1, <2>6, <1>4, <1>7
    <3>2. CASE TableAt(r, m, a, o) # 0
      <4>1. TableAt(r, m, a, o) # F
        <5>1. PICK d \in {"root", "top", "dir"} : \E y \in Who(d) : TableAt(r, m, d, y) = F
          <6>1. CASE c = "dir"
            <7>1. TableAt(r, m, "root", j) = F /\ j \in Who("root")
              BY <6>1, <1>1, <1>3 DEF TableAt, Who
            <7>2. QED
              BY <7>1
          <6>2. CASE c = "leaf"
            <7>1. TableAt(r, m, "dir", j) = F /\ j \in Who("dir")
              BY <6>2, <1>1, <1>3 DEF TableAt, Who
            <7>2. QED
              BY <7>1
          <6>3. CASE c = "kernel"
            <7>1. TableAt(r, m, "top", 0) = F /\ 0 \in Who("top")
              BY <6>3, <1>1, <1>3 DEF TableAt, Who
            <7>2. QED
              BY <7>1
          <6>4. QED
            BY <6>1, <6>2, <6>3, <1>3
        <5>2. PICK y \in Who(d) : TableAt(r, m, d, y) = F
          BY <5>1
        <5>3. d \in Places /\ d # a
          BY <2>1, <5>1 DEF Places
        <5>4. QED
          BY <5>2, <5>3, <3>2, <2>1, <1>7
      <4>2. TableAt(r, m, a, o) \in 1..n
        BY <3>1, <3>2, <1>2
      <4>3. m2[TableAt(r, m, a, o)][LeafIndex(x)] = m[TableAt(r, m, a, o)][LeafIndex(x)]
        BY <4>1, <4>2, <2>2, <1>6
      <4>4. QED
        BY <4>3, <3>1, <2>3, <2>4
    <3>3. QED
      BY <3>1, <3>2, <2>3, <2>4
  <2>7. QED
    BY <2>5, <2>6
<1>14. \A a \in Places : \A o \in Who(a) :
          TableAt(r, m, a, o) # 0 => TableAt(r, m2, a, o) = TableAt(r, m, a, o)
  BY <1>1, <1>4
<1>15. QED
  BY <1>11, <1>12, <1>13, <1>14

\* Memory m becomes m2 when v is written to entry e of table F.
Written(m, F, e, v, m2) == m2 = [m EXCEPT ![F][e] = v]

LEMMA WrittenMemory ==
    ASSUME NEW n \in Nat, NEW m \in Memory, Len(m) = n, NEW F \in 1..n, NEW e \in Paging!Entries,
           NEW v \in Nat, NEW m2, Written(m, F, e, v, m2)
    PROVE  /\ m2 \in Memory /\ Len(m2) = n
           /\ \A f \in 1..n, x \in Paging!Entries :
                 m2[f][x] = IF f = F /\ x = e THEN v ELSE m[f][x]
<1> DEFINE S == [Paging!Entries -> Nat]
<1>1. m[F] \in S
  BY DEF Memory
<1>2. [m[F] EXCEPT ![e] = v] \in S /\ \A x \in Paging!Entries :
         [m[F] EXCEPT ![e] = v][x] = IF x = e THEN v ELSE m[F][x]
  BY <1>1
<1>3. m2 = [m EXCEPT ![F] = [m[F] EXCEPT ![e] = v]]
  BY DEF Written
<1> HIDE DEF S
<1>4. /\ m2 \in Seq(S) /\ Len(m2) = n
      /\ \A f \in 1..n : m2[f] = IF f = F THEN [m[F] EXCEPT ![e] = v] ELSE m[f]
  <2>1. m \in Seq(S)
    BY DEF S, Memory
  <2>2. QED
    BY <2>1, <1>2, <1>3
<1>5. QED
  BY <1>2, <1>4 DEF S, Memory

\* The place of the last table of a page.
LEMMA LeafFacts ==
    ASSUME NEW p \in Pagers, NEW page \in Paging!Pages
    PROVE  /\ LeafPlace(page) \in Places /\ LeafPlace(page) \in {"leaf", "kernel"}
           /\ LeafOwner(p, page) \in Who(LeafPlace(page)) /\ LeafIndex(page) \in Paging!Entries
           /\ \A r, m : LevelTable(r, m, 3, p, page) = TableAt(r, m, LeafPlace(page), LeafOwner(p, page))
<1>1. /\ 3 \in Paging!Levels /\ LevelPlace(3, page) = LeafPlace(page)
      /\ LevelOwner(3, p, page) = LeafOwner(p, page)
  BY DEF Paging!Levels, LevelPlace, LevelOwner
<1>2. LeafPlace(page) \in Places /\ LeafOwner(p, page) \in Who(LeafPlace(page))
  BY <1>1, LevelFacts
<1>3. QED
  BY <1>1, <1>2, PathFacts DEF LeafPlace, LevelTable

\* v is written to the entry of a page in its last table.
WritesLeaf(r, m, p, page, v, m2) ==
    LET F == LevelTable(r, m, 3, p, page) IN F # 0 /\ Written(m, F, LeafIndex(page), v, m2)

\* Writing an entry of the last table of a page moves no table and changes the translation of
\* that page only: in all pagers when it is a kernel page, in one when it is a user page.
LEMMA WrittenTree ==
    ASSUME NEW r, NEW m, NEW n, TreeFits(r, m, n), NEW p \in Pagers, NEW page \in Paging!Pages,
           NEW v \in Nat, NEW m2, WritesLeaf(r, m, p, page, v, m2)
    PROVE  /\ TreeFits(r, m2, n)
           /\ \A a \in Places : \A o \in Who(a) : TableAt(r, m2, a, o) = TableAt(r, m, a, o)
           /\ \A q \in Pagers : \A x \in Paging!Pages :
                 Content(r, m2, q, x) = IF x = page /\ (Paging!Kernel(page) \/ q = p) THEN v
                                        ELSE Content(r, m, q, x)
<1>0. PICK F : F = LevelTable(r, m, 3, p, page) /\ F # 0 /\ Written(m, F, LeafIndex(page), v, m2)
  BY Zenon DEF WritesLeaf
<1> DEFINE c == LeafPlace(page)
           j == LeafOwner(p, page)
           e == LeafIndex(page)
<1>1. /\ c \in Places /\ c \in {"leaf", "kernel"} /\ j \in Who(c) /\ e \in Paging!Entries
      /\ TableAt(r, m, c, j) = F
  BY <1>0, LeafFacts
<1>2. /\ \A a \in Places : \A o \in Who(a) : TableAt(r, m, a, o) \in 0..n
      /\ \A a, b \in Places : \A o \in Who(a), x \in Who(b) :
          TableAt(r, m, a, o) = TableAt(r, m, b, x) /\ TableAt(r, m, a, o) # 0 => a = b /\ o = x
      /\ m \in Memory /\ Len(m) = n /\ n \in Nat /\ 1 <= n
      /\ \A q \in Pagers : r[q] \in 1..n /\ m[r[q]][1] = 1
  BY DEF TreeFits
<1>3. F \in 1..n
  BY <1>0, <1>1, <1>2
<1>4. /\ m2 \in Memory /\ Len(m2) = n
      /\ \A f \in 1..n, x \in Paging!Entries :
            m2[f][x] = IF f = F /\ x = e THEN v ELSE m[f][x]
  BY <1>0, <1>1, <1>2, <1>3, WrittenMemory
<1> HIDE DEF c, j, e
<1>5. \A a \in {"root", "top", "dir"} : \A o \in Who(a) : TableAt(r, m, a, o) # F
  <2> TAKE a \in {"root", "top", "dir"}
  <2> TAKE o \in Who(a)
  <2>1. a \in Places /\ a # c
    BY <1>1 DEF Places
  <2>2. QED
    BY <1>0, <2>1, <1>1, <1>2
<1>6. \A q \in Pagers : r[q] # F /\ m[r[q]][0] # F /\ m[r[q]][0] \in 0..n
  <2> TAKE q \in Pagers
  <2>1. q \in Who("root") /\ q \in Who("dir") /\ "dir" \in Places
    BY DEF Who, Places
  <2>2. TableAt(r, m, "root", q) = r[q] /\ TableAt(r, m, "dir", q) = m[r[q]][0]
    BY DEF TableAt
  <2>3. QED
    BY <2>1, <2>2, <1>2, <1>5
<1>7. F # 1
  <2>1. 0 \in Who("top") /\ TableAt(r, m, "top", 0) = 1
    BY DEF Who, TableAt
  <2>2. QED
    BY <2>1, <1>5
<1>8. \A a \in Places : \A o \in Who(a) : TableAt(r, m2, a, o) = TableAt(r, m, a, o)
  <2>1. 0 \in Paging!Entries /\ 1 \in Paging!Entries /\ 0..(KernelPages - 1) \subseteq Paging!Entries
    BY EntryFacts
  <2>2. \A q \in Pagers : m2[r[q]][0] = m[r[q]][0]
    BY <2>1, <1>2, <1>4, <1>6
  <2>3. \A q \in Pagers : m[r[q]][0] # 0 => m2[m[r[q]][0]][0] = m[m[r[q]][0]][0]
    BY <2>1, <1>2, <1>4, <1>6
  <2>4. \A o \in 0..(KernelPages - 1) : m2[1][o] = m[1][o]
    BY <2>1, <1>2, <1>4, <1>7
  <2>5. QED
    BY <2>2, <2>3, <2>4 DEF TableAt, Who, Places
<1>9. TreeFits(r, m2, n)
  <2>1. \A q \in Pagers : m2[r[q]][1] = 1
    BY <1>2, <1>4, <1>6, EntryFacts
  <2>2. QED
    BY <2>1, <1>2, <1>4, <1>8 DEF TreeFits
<1>10. ASSUME NEW q \in Pagers, NEW x \in Paging!Pages
       PROVE  Content(r, m2, q, x) = IF x = page /\ (Paging!Kernel(page) \/ q = p) THEN v
                                     ELSE Content(r, m, q, x)
  <2> DEFINE a == LeafPlace(x)
             o == LeafOwner(q, x)
  <2>1. a \in Places /\ o \in Who(a) /\ LeafIndex(x) \in Paging!Entries
    BY LeafFacts
  <2>2. (a = c /\ o = j /\ LeafIndex(x) = e) <=> (x = page /\ (Paging!Kernel(page) \/ q = p))
    BY DEF c, j, e, LeafPlace, LeafOwner, LeafIndex
  <2>3. Content(r, m2, q, x) = (IF TableAt(r, m, a, o) = 0 THEN 0 ELSE m2[TableAt(r, m, a, o)][LeafIndex(x)])
    BY <1>8, <2>1 DEF Content
  <2>4. Content(r, m, q, x) = (IF TableAt(r, m, a, o) = 0 THEN 0 ELSE m[TableAt(r, m, a, o)][LeafIndex(x)])
    BY DEF Content
  <2> HIDE DEF a, o
  <2>5. TableAt(r, m, a, o) \in 0..n
    BY <2>1, <1>2
  <2>6. TableAt(r, m, a, o) = F <=> a = c /\ o = j
    BY <1>0, <2>1, <1>1, <1>2
  <2>7. CASE TableAt(r, m, a, o) = 0
    BY <1>0, <2>7, <2>2, <2>3, <2>4, <2>6
  <2>8. CASE TableAt(r, m, a, o) # 0
    <3>1. TableAt(r, m, a, o) \in 1..n
      BY <2>5, <2>8, <1>2
    <3>2. m2[TableAt(r, m, a, o)][LeafIndex(x)] =
            IF TableAt(r, m, a, o) = F /\ LeafIndex(x) = e THEN v ELSE m[TableAt(r, m, a, o)][LeafIndex(x)]
      BY <3>1, <2>1, <1>4
    <3>3. QED
      BY <3>2, <2>2, <2>3, <2>4, <2>6, <2>8
  <2>9. QED
    BY <2>7, <2>8
<1>11. QED
  BY <1>8, <1>9, <1>10

\* What the processor finds is what is in the last table.
LEMMA WalkIsContent ==
    ASSUME TreeFits(root, mem, tables), NEW p \in Pagers, NEW page \in Paging!Pages
    PROVE  Paging!Walk(p, page) = Content(root, mem, p, page)
<1>1. mem[root[p]][1] = 1
  BY DEF TreeFits
<1>2. QED
  BY <1>1, PathFacts DEF Paging!Walk, Content, TableAt, LeafPlace, LeafOwner

\* Walks of a pager go on when nothing it sees has moved: a table it has met stays in place.
LEMMA WalkKept ==
    ASSUME NEW r, NEW m, NEW m2, NEW ctl, NEW ctl2, NEW w, NEW c, NEW p \in Pagers,
           c.page \in Paging!Pages, WalkFits(r, m, ctl, w, c, p),
           \A k \in Paging!Levels : w[k] \in Paging!Slots => ctl2[w[k]].frame = ctl[w[k]].frame,
           \A a \in Places : \A o \in Who(a) :
              TableAt(r, m, a, o) # 0 => TableAt(r, m2, a, o) = TableAt(r, m, a, o)
    PROVE  WalkFits(r, m2, ctl2, w, c, p)
<1>1. ASSUME NEW k \in Paging!Levels, Shows(r, m, ctl, w, p, c.page, k)
      PROVE  Shows(r, m2, ctl2, w, p, c.page, k)
  <2>1. LevelPlace(k, c.page) \in Places /\ LevelOwner(k, p, c.page) \in Who(LevelPlace(k, c.page))
    BY LevelFacts
  <2>2. QED
    BY <2>1, <1>1 DEF Shows, LevelTable
<1>2. 1 \in Paging!Levels /\ 2 \in Paging!Levels /\ 3 \in Paging!Levels
  BY DEF Paging!Levels
<1>3. QED
  BY <1>1, <1>2 DEF WalkFits

\* Work pages of two pagers are not the same.
LEMMA OtherSlots ==
    ASSUME NEW ctl, NEW ws, SlotsFit(ctl, ws), NEW p \in Pagers, NEW q \in Pagers, p # q,
           NEW k \in Paging!Levels, NEW l \in Paging!Levels, ws[p][k] \in Paging!Slots
    PROVE  ws[p][k] # ws[q][l]
<1>1. ws[p][k] # Paging!None
  BY PagingAssumption DEF Paging!Slots, Paging!None
<1>2. QED
  BY <1>1 DEF SlotsFit

\* The least of the free work pages is one of them.
LEMMA LeastSlot ==
    ASSUME NEW S, S \subseteq Nat, S # {}
    PROVE  Paging!Min(S) \in S
<1> DEFINE R == {e \in Nat \X Nat : e[1] < e[2]}
<1>1. IsWellFoundedOn(R, Nat)
  <2>1. OpToRel(<, Nat) = R
    BY Zenon DEF OpToRel
  <2>2. QED
    BY <2>1, NatLessThanWellFounded, Zenon
<1>2. PICK t \in S : \A y \in S : <<y, t>> \notin R
  <2> HIDE DEF R
  <2>1. QED
    BY <1>1, WFMin
<1>3. ASSUME NEW y \in S PROVE t <= y
  <2>1. ~(y < t)
    BY <1>2
  <2>2. QED
    BY <2>1
<1>4. QED
  BY <1>3 DEF Paging!Min

\* Pagers can be given roots of their own.
LEMMA RootsExist ==
    /\ Cardinality(Pagers) \in Nat
    /\ \E r \in [Pagers -> 2..(Cardinality(Pagers) + 1)] : \A p, q \in Pagers : p # q => r[p] # r[q]
<1> DEFINE N == Cardinality(Pagers)
<1>1. N \in Nat /\ ExistsBijection(1..N, Pagers)
  BY PagingAssumption, FS_CardinalityType
<1>2. PICK f \in [1..N -> Pagers] : \A x \in Pagers : \E k \in 1..N : f[k] = x
  BY <1>1 DEF ExistsBijection, Bijection, Surjection, Injection
<1> DEFINE num == [x \in Pagers |-> CHOOSE k \in 1..N : f[k] = x]
           r == [x \in Pagers |-> num[x] + 1]
<1>3. \A x \in Pagers : num[x] \in 1..N /\ f[num[x]] = x
  BY <1>2
<1> HIDE DEF num
<1>4. \A x \in Pagers : num[x] + 1 \in 2..(N + 1)
  BY <1>1, <1>3
<1>5. r \in [Pagers -> 2..(N + 1)]
  BY <1>4
<1>6. \A p, q \in Pagers : p # q => r[p] # r[q]
  <2> TAKE p, q \in Pagers
  <2> HAVE p # q
  <2>1. num[p] # num[q]
    BY <1>3
  <2>2. QED
    BY <2>1, <1>1, <1>3
<1>7. QED
  BY <1>1, <1>5, <1>6

\* A function on 1..k is a sequence.
LEMMA FunctionIsSeq ==
    ASSUME NEW k \in Nat, NEW S, NEW g, g \in [1..k -> S]
    PROVE  g \in Seq(S) /\ Len(g) = k
<1>1. g \in Seq(S)
  BY SeqDef
<1>2. QED
  BY <1>1, LenProperties

\* The first tables are a tree: the roots, each with the kernel's directory.
LEMMA InitTree ==
    ASSUME NEW N \in Nat, NEW r \in [Pagers -> 2..(N + 1)], \A p, q \in Pagers : p # q => r[p] # r[q],
           NEW m, m = [f \in 1..(N + 1) |-> IF f = 1 THEN Paging!Empty ELSE [Paging!Empty EXCEPT ![1] = 1]]
    PROVE  /\ TreeFits(r, m, N + 1)
           /\ \A p \in Pagers : \A page \in Paging!Pages : Content(r, m, p, page) = 0
<1>1. /\ 0 \in Paging!Entries /\ 1 \in Paging!Entries /\ Paging!Empty = [e \in Paging!Entries |-> 0]
      /\ 0..(KernelPages - 1) \subseteq Paging!Entries
  BY EntryFacts
<1>2. Paging!Empty \in [Paging!Entries -> Nat] /\ [Paging!Empty EXCEPT ![1] = 1] \in [Paging!Entries -> Nat]
  BY <1>1
<1>3. m \in Memory /\ Len(m) = N + 1
  <2>1. m \in [1..(N + 1) -> [Paging!Entries -> Nat]]
    BY <1>2
  <2> DEFINE S == [Paging!Entries -> Nat]
  <2> HIDE DEF S
  <2>2. m \in [1..(N + 1) -> S] /\ N + 1 \in Nat
    BY <2>1 DEF S
  <2>3. m \in Seq(S) /\ Len(m) = N + 1
    BY <2>2, FunctionIsSeq
  <2>4. QED
    BY <2>3 DEF S, Memory
<1>4. \A p \in Pagers : r[p] \in 2..(N + 1) /\ m[r[p]][1] = 1 /\ m[r[p]][0] = 0
  BY <1>1
<1>5. \A k \in 0..(KernelPages - 1) : m[1][k] = 0
  BY <1>1
<1>6. \A a \in Places : \A o \in Who(a) :
          TableAt(r, m, a, o) = IF a = "root" THEN r[o] ELSE IF a = "top" THEN 1 ELSE 0
  BY <1>4, <1>5 DEF TableAt, Places, Who
<1>7. \A a \in Places : \A o \in Who(a) : TableAt(r, m, a, o) \in 0..(N + 1)
  <2> TAKE a \in Places
  <2> TAKE o \in Who(a)
  <2>1. 0 \in 0..(N + 1) /\ 1 \in 0..(N + 1) /\ 2..(N + 1) \subseteq 0..(N + 1)
    OBVIOUS
  <2>2. a = "root" => r[o] \in 0..(N + 1)
    BY <2>1, <1>4 DEF Who
  <2>3. TableAt(r, m, a, o) = IF a = "root" THEN r[o] ELSE IF a = "top" THEN 1 ELSE 0
    BY <1>6
  <2>4. QED
    BY <2>1, <2>2, <2>3
<1>8. ASSUME NEW a \in Places, NEW b \in Places, NEW o \in Who(a), NEW j \in Who(b),
             TableAt(r, m, a, o) = TableAt(r, m, b, j), TableAt(r, m, a, o) # 0
      PROVE  a = b /\ o = j
  <2>1. a \in {"root", "top"} /\ b \in {"root", "top"}
    BY <1>6, <1>8
  <2>2. Who("root") = Pagers /\ Who("top") = {0}
    BY DEF Who
  <2>3. QED
    BY <1>4, <1>6, <1>8, <2>1, <2>2
<1>9. \A p \in Pagers : \A page \in Paging!Pages : Content(r, m, p, page) = 0
  <2> TAKE p \in Pagers
  <2> TAKE page \in Paging!Pages
  <2>1. TableAt(r, m, LeafPlace(page), LeafOwner(p, page)) = 0
    BY <1>6, LeafFacts
  <2>2. QED
    BY <2>1 DEF Content
<1>10. TreeFits(r, m, N + 1)
  <2>1. N + 1 \in Nat /\ 1 <= N + 1 /\ \A p \in Pagers : r[p] \in 1..(N + 1)
    BY <1>4
  <2>2. QED
    BY <2>1, <1>3, <1>4, <1>7, <1>8 DEF TreeFits
<1>11. QED
  BY <1>9, <1>10

\* The invariant holds at the start.
LEMMA PagerInit == Paging!Init => PagerInv
<1> SUFFICES ASSUME Paging!Init PROVE PagerInv
  OBVIOUS
<1> DEFINE N == Cardinality(Pagers)
<1>1. Paging!Cardinality(Pagers) = N
  BY Zenon DEF Paging!Cardinality, Cardinality
<1>2. N \in Nat /\ root \in [Pagers -> 2..(N + 1)] /\ \A p, q \in Pagers : p # q => root[p] # root[q]
  <2>1. root = CHOOSE r \in [Pagers -> 2..(N + 1)] : \A p, q \in Pagers : p # q => r[p] # r[q]
    BY <1>1 DEF Paging!Init
  <2>2. QED
    BY <2>1, RootsExist
<1>3. tables = N + 1
  BY <1>1 DEF Paging!Init
<1>4. mem = [f \in 1..(N + 1) |-> IF f = 1 THEN Paging!Empty ELSE [Paging!Empty EXCEPT ![1] = 1]]
  BY <1>3 DEF Paging!Init, Paging!KernelPd
<1> HIDE DEF N
<1>5. /\ TreeFits(root, mem, N + 1)
      /\ \A p \in Pagers : \A page \in Paging!Pages : Content(root, mem, p, page) = 0
  BY <1>2, <1>4, InitTree
<1>6. /\ control = [s \in Paging!Slots |-> [present |-> FALSE, frame |-> 0]]
      /\ workPages = [p \in Pagers |-> [l \in Paging!Levels |-> Paging!None]]
      /\ kallocHint = 0 /\ call = [p \in Pagers |-> Paging!Resting]
      /\ expected = [p \in Pagers |-> [page \in Paging!Pages |-> 0]]
  BY DEF Paging!Init
<1>7. PagerTypes
  BY <1>6 DEF PagerTypes, CallRecords, Paging!Resting, Paging!Levels
<1>8. TablesFit
  BY <1>3, <1>5, <1>6 DEF TablesFit
<1>9. SlotsFit(control, workPages)
  <2>1. \A s \in Paging!Slots : s # Paging!None
    BY PagingAssumption DEF Paging!Slots, Paging!None
  <2>2. QED
    BY <2>1, <1>6 DEF SlotsFit
<1>10. CallsFit
  BY <1>6 DEF CallsFit, CallFits, WalkFits, Paging!Resting
<1>11. QED
  BY <1>7, <1>8, <1>9, <1>10 DEF PagerInv

\* A step of pager p keeps the invariant when p itself fits afterwards, the tables still are a
\* tree with the right contents, and what other pagers see stays.
LEMMA PagerStep ==
    ASSUME PagerInv, ~raced, NEW p \in Pagers, NEW c \in CallRecords, call' = [call EXCEPT ![p] = c],
           root' = root, CallFits(c), WalkFits(root', mem', control', workPages'[p], c, p),
           TablesFit', SlotsFit(control', workPages'),
           control' \in [Paging!Slots -> [present : BOOLEAN, frame : Nat]],
           workPages' \in [Pagers -> [Paging!Levels -> Paging!Slots \cup {Paging!None}]],
           expected' \in [Pagers -> [Paging!Pages -> Nat]], kallocHint' \in Nat,
           \A q \in Pagers : q # p => workPages'[q] = workPages[q],
           \A q \in Pagers : \A k \in Paging!Levels :
              q # p /\ workPages[q][k] \in Paging!Slots =>
                 control'[workPages[q][k]].frame = control[workPages[q][k]].frame,
           \A a \in Places : \A o \in Who(a) :
              TableAt(root, mem, a, o) # 0 => TableAt(root, mem', a, o) = TableAt(root, mem, a, o)
    PROVE  PagerInv'
<1>1. PagerTypes /\ CallsFit
  BY DEF PagerInv
<1>2. call' \in [Pagers -> CallRecords] /\ \A q \in Pagers : call'[q] = IF q = p THEN c ELSE call[q]
  BY <1>1 DEF PagerTypes
<1>3. PagerTypes'
  BY <1>2 DEF PagerTypes
<1>4. ASSUME NEW q \in Pagers
      PROVE  CallFits(call'[q]) /\ WalkFits(root', mem', control', workPages'[q], call'[q], q)
  <2>1. CASE q = p
    BY <2>1, <1>2
  <2>2. CASE q # p
    <3>1. call'[q] = call[q] /\ workPages'[q] = workPages[q]
      BY <2>2, <1>2
    <3>2. CallFits(call[q]) /\ WalkFits(root, mem, control, workPages[q], call[q], q)
      BY <1>1 DEF CallsFit
    <3>3. CASE call[q].pc = "idle"
      BY <3>1, <3>2, <3>3 DEF WalkFits
    <3>4. CASE call[q].pc # "idle"
      <4>1. call[q].page \in Paging!Pages
        BY <3>2, <3>4 DEF CallFits
      <4>2. \A k \in Paging!Levels : workPages[q][k] \in Paging!Slots =>
                 control'[workPages[q][k]].frame = control[workPages[q][k]].frame
        BY <2>2
      <4>3. WalkFits(root, mem', control', workPages[q], call[q], q)
        BY <4>1, <4>2, <3>2, WalkKept
      <4>4. QED
        BY <4>3, <3>1, <3>2
    <3>5. QED
      BY <3>3, <3>4
  <2>3. QED
    BY <2>1, <2>2
<1>5. CallsFit'
  BY <1>4 DEF CallsFit
<1>6. QED
  BY <1>3, <1>5 DEF PagerInv

\* A step of which nothing but the call can be seen.
LEMMA CallStep ==
    ASSUME PagerInv, ~raced, NEW p \in Pagers, NEW c \in CallRecords, call' = [call EXCEPT ![p] = c],
           CallFits(c), WalkFits(root, mem, control, workPages[p], c, p), kallocHint' \in Nat,
           UNCHANGED <<mem, root, control, workPages, tables, expected>>
    PROVE  PagerInv'
<1>1. PagerTypes /\ TablesFit /\ SlotsFit(control, workPages)
  BY DEF PagerInv
<1>2. TablesFit'
  BY <1>1 DEF TablesFit
<1>3. /\ control \in [Paging!Slots -> [present : BOOLEAN, frame : Nat]]
      /\ workPages \in [Pagers -> [Paging!Levels -> Paging!Slots \cup {Paging!None}]]
      /\ expected \in [Pagers -> [Paging!Pages -> Nat]]
  BY <1>1 DEF PagerTypes
<1>4. /\ WalkFits(root', mem', control', workPages'[p], c, p) /\ SlotsFit(control', workPages')
      /\ control' \in [Paging!Slots -> [present : BOOLEAN, frame : Nat]]
      /\ workPages' \in [Pagers -> [Paging!Levels -> Paging!Slots \cup {Paging!None}]]
      /\ expected' \in [Pagers -> [Paging!Pages -> Nat]]
      /\ root' = root
  BY <1>1, <1>3
<1>5. /\ \A q \in Pagers : q # p => workPages'[q] = workPages[q]
      /\ \A q \in Pagers : \A k \in Paging!Levels :
              q # p /\ workPages[q][k] \in Paging!Slots =>
                 control'[workPages[q][k]].frame = control[workPages[q][k]].frame
      /\ \A a \in Places : \A o \in Who(a) :
              TableAt(root, mem, a, o) # 0 => TableAt(root, mem', a, o) = TableAt(root, mem, a, o)
  OBVIOUS
<1>6. QED
  BY <1>2, <1>4, <1>5, PagerStep

\* The calls.
LEMMA BeginStep ==
    ASSUME PagerInv, ~raced, NEW p \in Pagers, NEW op, NEW page, NEW n \in Nat, NEW f \in Nat,
           Paging!Begin(p, op, page, n, f), page \in Paging!Pages,
           op \in {"find", "map", "unmap"}, op = "find" => page + n <= KernelPages /\ 1 <= n /\ f = 0,
           UNCHANGED <<mem, root, control, workPages, tables, kallocHint, expected>>
    PROVE  PagerInv'
<1> DEFINE c == [pc |-> "acquire", op |-> op, page |-> page, left |-> n, level |-> Paging!FirstLevel(op),
                 slot |-> 0, frame |-> f]
<1>1. call' = [call EXCEPT ![p] = c]
  BY DEF Paging!Begin
<1>2. page \in Nat
  BY EntryFacts
<1>3. c \in CallRecords
  BY <1>2 DEF CallRecords, Paging!FirstLevel, Paging!Levels
<1>4. CallFits(c)
  BY <1>2, PagingAssumption DEF CallFits
<1>5. WalkFits(root, mem, control, workPages[p], c, p)
  BY DEF WalkFits, Paging!FirstLevel
<1>6. kallocHint' \in Nat
  BY DEF PagerInv, PagerTypes
<1> HIDE DEF c
<1>7. QED
  BY <1>1, <1>3, <1>4, <1>5, <1>6, CallStep

\* What is known of the call of a pager.
LEMMA CallFacts ==
    ASSUME PagerInv, ~raced, NEW p \in Pagers
    PROVE  /\ call \in [Pagers -> CallRecords] /\ call[p] \in CallRecords
           /\ CallFits(call[p]) /\ WalkFits(root, mem, control, workPages[p], call[p], p)
           /\ workPages \in [Pagers -> [Paging!Levels -> Paging!Slots \cup {Paging!None}]]
           /\ \A k \in Paging!Levels : workPages[p][k] # Paging!None => workPages[p][k] \in Paging!Slots
           /\ control \in [Paging!Slots -> [present : BOOLEAN, frame : Nat]]
           /\ kallocHint \in Nat /\ expected \in [Pagers -> [Paging!Pages -> Nat]]
           /\ TablesFit /\ SlotsFit(control, workPages)
<1>1. PagerTypes /\ CallsFit /\ TablesFit /\ SlotsFit(control, workPages)
  BY DEF PagerInv
<1>2. QED
  BY <1>1 DEF PagerTypes, CallsFit

\* A call that has moved on.
Moved(c, pc, level, slot) == [c EXCEPT !.pc = pc, !.level = level, !.slot = slot]

\* Looking for a free work page.
LEMMA AcquireTestStep ==
    ASSUME PagerInv, ~raced, NEW p \in Pagers, Paging!AcquireTest(p)
    PROVE  PagerInv'
<1> DEFINE c == call[p]
<1>1. /\ call \in [Pagers -> CallRecords] /\ c \in CallRecords /\ CallFits(c)
      /\ WalkFits(root, mem, control, workPages[p], c, p) /\ kallocHint \in Nat
      /\ \A k \in Paging!Levels : workPages[p][k] # Paging!None => workPages[p][k] \in Paging!Slots
  BY CallFacts
<1>2. c.pc = "acquire" /\ UNCHANGED <<mem, root, control, workPages, tables, kallocHint, expected>>
  BY DEF Paging!AcquireTest
<1>3. c.level \in Paging!Levels /\ c.slot \in Nat
  BY <1>1 DEF CallRecords
<1> DEFINE free == {s \in Paging!Slots : ~control[s].present}
<1>4. CASE /\ workPages[p][call[p].level] = Paging!None /\ free # {}
           /\ call' = [call EXCEPT ![p].pc = "set", ![p].slot = Paging!Min(free)]
  <2>1. Paging!Slots \subseteq Nat
    BY PagingAssumption DEF Paging!Slots
  <2>2. Paging!Min(free) \in free
    BY <1>4, <2>1, LeastSlot
  <2>3. PICK s \in Paging!Slots : s = Paging!Min(free)
    BY <2>2
  <2> DEFINE d == Moved(c, "set", c.level, s)
  <2>4. call' = [call EXCEPT ![p] = d]
    BY <1>1, <1>4, <2>3 DEF CallRecords, Moved
  <2>5. s \in Nat
    BY <2>1
  <2>6. /\ d \in CallRecords /\ d.pc = "set" /\ d.level = c.level /\ d.slot = s
        /\ d.op = c.op /\ d.page = c.page /\ d.left = c.left /\ d.frame = c.frame
    BY <2>5, <1>1, <1>3 DEF CallRecords, Moved
  <2> HIDE DEF d
  <2>7. CallFits(d)
    BY <2>6, <1>1, <1>2 DEF CallFits
  <2>8. WalkFits(root, mem, control, workPages[p], d, p)
    BY <2>6, <1>1, <1>2, <1>4 DEF WalkFits
  <2>9. QED
    BY <2>4, <2>6, <2>7, <2>8, <1>1, <1>2, CallStep
<1>5. CASE workPages[p][call[p].level] # Paging!None /\ call' = [call EXCEPT ![p].pc = "descend"]
  <2> DEFINE d == Moved(c, "descend", c.level, c.slot)
  <2>1. call' = [call EXCEPT ![p] = d]
    BY <1>1, <1>5 DEF CallRecords, Moved
  <2>2. /\ d \in CallRecords /\ d.pc = "descend" /\ d.level = c.level
        /\ d.op = c.op /\ d.page = c.page /\ d.left = c.left /\ d.frame = c.frame
    BY <1>1, <1>3 DEF CallRecords, Moved
  <2> HIDE DEF d
  <2>3. CallFits(d)
    BY <2>2, <1>1, <1>2 DEF CallFits
  <2>4. workPages[p][c.level] \in Paging!Slots
    BY <1>1, <1>3, <1>5
  <2>5. WalkFits(root, mem, control, workPages[p], d, p)
    BY <2>2, <2>4, <1>1, <1>2 DEF WalkFits
  <2>6. QED
    BY <2>1, <2>2, <2>3, <2>5, <1>1, <1>2, CallStep
<1>6. QED
  BY <1>4, <1>5 DEF Paging!AcquireTest

\* Taking it: when it still is free nobody has it, else two pagers have raced.
LEMMA AcquireSetStep ==
    ASSUME PagerInv, ~raced, NEW p \in Pagers, Paging!AcquireSet(p)
    PROVE  PagerInv'
<1> DEFINE c == call[p]
           l == c.level
           s == c.slot
<1>1. /\ call \in [Pagers -> CallRecords] /\ c \in CallRecords /\ CallFits(c)
      /\ WalkFits(root, mem, control, workPages[p], c, p) /\ kallocHint \in Nat
      /\ \A k \in Paging!Levels : workPages[p][k] # Paging!None => workPages[p][k] \in Paging!Slots
  BY CallFacts
<1>2. /\ control \in [Paging!Slots -> [present : BOOLEAN, frame : Nat]]
      /\ workPages \in [Pagers -> [Paging!Levels -> Paging!Slots \cup {Paging!None}]]
      /\ expected \in [Pagers -> [Paging!Pages -> Nat]]
      /\ TablesFit /\ SlotsFit(control, workPages)
  BY CallFacts
<1>3. /\ c.pc = "set" /\ raced' = (raced \/ control[s].present)
      /\ control' = [control EXCEPT ![s].present = TRUE]
      /\ workPages' = [workPages EXCEPT ![p][l] = s]
      /\ call' = [call EXCEPT ![p].pc = "descend", ![p].slot = 0]
      /\ UNCHANGED <<mem, root, tables, kallocHint, expected>>
  BY DEF Paging!AcquireSet
<1>4. l \in Paging!Levels /\ workPages[p][l] = Paging!None /\ s \in Paging!Slots
  BY <1>1, <1>3 DEF WalkFits, CallRecords
<1>5. SUFFICES ASSUME ~raced' PROVE PagerInv'
  BY DEF PagerInv
<1>6. ~control[s].present
  BY <1>3, <1>5
<1>7. \A q \in Pagers : \A k \in Paging!Levels : workPages[q][k] # s
  BY <1>2, <1>4, <1>6 DEF SlotsFit
<1> DEFINE d == Moved(c, "descend", c.level, 0)
<1>8. call' = [call EXCEPT ![p] = d]
  BY <1>1, <1>3 DEF CallRecords, Moved
<1>9. /\ d \in CallRecords /\ d.pc = "descend" /\ d.level = l
      /\ d.op = c.op /\ d.page = c.page /\ d.left = c.left /\ d.frame = c.frame
  BY <1>1, <1>4 DEF CallRecords, Moved
<1> HIDE DEF d
<1>10. /\ workPages' \in [Pagers -> [Paging!Levels -> Paging!Slots \cup {Paging!None}]]
       /\ \A q \in Pagers : q # p => workPages'[q] = workPages[q]
       /\ \A k \in Paging!Levels : workPages'[p][k] = IF k = l THEN s ELSE workPages[p][k]
  BY <1>2, <1>3, <1>4
<1>11. /\ control' \in [Paging!Slots -> [present : BOOLEAN, frame : Nat]]
       /\ \A t \in Paging!Slots : control'[t].frame = control[t].frame
       /\ \A t \in Paging!Slots : control'[t].present <=> (t = s \/ control[t].present)
  BY <1>2, <1>3, <1>4
<1> HIDE DEF c, l, s
<1>12. CallFits(d)
  BY <1>1, <1>3, <1>9 DEF CallFits
<1>13. WalkFits(root', mem', control', workPages'[p], d, p)
  <2>1. d.page \in Paging!Pages
    BY <1>3, <1>9, <1>12 DEF CallFits
  <2>2. ASSUME NEW k \in Paging!Levels, Shows(root, mem, control, workPages[p], p, d.page, k)
        PROVE  Shows(root', mem', control', workPages'[p], p, d.page, k)
    <3>1. workPages[p][k] \in Paging!Slots /\ k # l
      <4>1. Paging!None \notin Paging!Slots
        BY PagingAssumption DEF Paging!None, Paging!Slots
      <4>2. QED
        BY <4>1, <2>2, <1>4 DEF Shows
    <3>2. workPages'[p][k] = workPages[p][k] /\ control'[workPages[p][k]].frame = control[workPages[p][k]].frame
      BY <3>1, <1>10, <1>11
    <3>3. root' = root /\ mem' = mem
      BY <1>3
    <3>4. QED
      BY <3>1, <3>2, <3>3, <2>2 DEF Shows
  <2>3. 1 \in Paging!Levels /\ 2 \in Paging!Levels /\ 3 \in Paging!Levels
    BY DEF Paging!Levels
  <2>4. workPages'[p][l] \in Paging!Slots
    BY <1>4, <1>10
  <2>5. workPages[p][3] \in Paging!Slots => workPages'[p][3] \in Paging!Slots
    BY <2>3, <1>4, <1>10
  <2>6. /\ d.op # "find" /\ d.level # 3 => workPages[p][3] \in Paging!Slots
        /\ d.level = 2 => Shows(root, mem, control, workPages[p], p, d.page, 1)
        /\ d.op = "find" /\ d.level = 3 => Shows(root, mem, control, workPages[p], p, d.page, 2)
    BY <1>1, <1>3, <1>9 DEF WalkFits, l
  <2>7. /\ d.op # "find" /\ d.level # 3 => workPages'[p][3] \in Paging!Slots
        /\ d.level = 2 => Shows(root', mem', control', workPages'[p], p, d.page, 1)
        /\ d.op = "find" /\ d.level = 3 => Shows(root', mem', control', workPages'[p], p, d.page, 2)
    BY <2>2, <2>3, <2>5, <2>6
  <2>8. QED
    BY <2>4, <2>7, <1>9 DEF WalkFits
<1>14. SlotsFit(control', workPages')
  <2>1. ASSUME NEW q \in Pagers, NEW y \in Pagers, NEW k \in Paging!Levels, NEW j \in Paging!Levels,
               workPages'[q][k] = workPages'[y][j], workPages'[q][k] # Paging!None
        PROVE  q = y /\ k = j
    <3>1. /\ q # p \/ k # l => workPages'[q][k] = workPages[q][k]
          /\ y # p \/ j # l => workPages'[y][j] = workPages[y][j]
          /\ workPages'[p][l] = s
      BY <1>4, <1>10
    <3>2. CASE (q # p \/ k # l) /\ (y # p \/ j # l)
      BY <3>1, <3>2, <2>1, <1>2 DEF SlotsFit
    <3>3. CASE ~((q # p \/ k # l) /\ (y # p \/ j # l))
      BY <3>1, <3>3, <2>1, <1>7
    <3>4. QED
      BY <3>2, <3>3
  <2>2. ASSUME NEW t \in Paging!Slots
        PROVE  control'[t].present <=> \E q \in Pagers, k \in Paging!Levels : workPages'[q][k] = t
    <3>1. control[t].present <=> \E q \in Pagers, k \in Paging!Levels : workPages[q][k] = t
      BY <1>2 DEF SlotsFit
    <3>2. Paging!None \notin Paging!Slots
      BY PagingAssumption DEF Paging!None, Paging!Slots
    <3>3. CASE t = s
      BY <3>3, <1>4, <1>10, <1>11
    <3>4. CASE t # s
      <4>1. \A q \in Pagers, k \in Paging!Levels : workPages'[q][k] = t <=> workPages[q][k] = t
        BY <3>2, <3>4, <1>4, <1>10
      <4>2. QED
        BY <4>1, <3>1, <3>4, <1>11
    <3>5. QED
      BY <3>3, <3>4
  <2>3. QED
    BY <2>1, <2>2 DEF SlotsFit
<1>15. TablesFit'
  BY <1>2, <1>3 DEF TablesFit
<1>16. expected' \in [Pagers -> [Paging!Pages -> Nat]] /\ kallocHint' \in Nat /\ root' = root
  BY <1>1, <1>2, <1>3
<1>17. /\ \A q \in Pagers : \A k \in Paging!Levels :
              q # p /\ workPages[q][k] \in Paging!Slots =>
                 control'[workPages[q][k]].frame = control[workPages[q][k]].frame
       /\ \A a \in Places : \A o \in Who(a) :
              TableAt(root, mem, a, o) # 0 => TableAt(root, mem', a, o) = TableAt(root, mem, a, o)
  BY <1>3, <1>11
<1>18. QED
  BY <1>8, <1>9, <1>10, <1>11, <1>12, <1>13, <1>14, <1>15, <1>16, <1>17, PagerStep

\* A work page of p shows another table, which may be new: nobody else is disturbed.
LEMMA PointedStep ==
    ASSUME PagerInv, ~raced, NEW p \in Pagers, NEW d \in CallRecords, call' = [call EXCEPT ![p] = d],
           NEW page \in Paging!Pages, NEW level \in Paging!Levels, workPages[p][level] \in Paging!Slots,
           NEW t \in Nat, control' = [control EXCEPT ![workPages[p][level]].frame = t],
           t # 0, t = LevelTable(root, mem', level, p, page),
           TreeFits(root, mem', tables'),
           \A q \in Pagers : \A x \in Paging!Pages : Content(root, mem', q, x) = Content(root, mem, q, x),
           \A a \in Places : \A o \in Who(a) :
              TableAt(root, mem, a, o) # 0 => TableAt(root, mem', a, o) = TableAt(root, mem, a, o),
           UNCHANGED <<root, workPages, expected, kallocHint>>,
           CallFits(d),
           Shows(root', mem', control', workPages'[p], p, page, level) =>
               WalkFits(root', mem', control', workPages'[p], d, p)
    PROVE  PagerInv'
<1>1. /\ control \in [Paging!Slots -> [present : BOOLEAN, frame : Nat]]
      /\ workPages \in [Pagers -> [Paging!Levels -> Paging!Slots \cup {Paging!None}]]
      /\ expected \in [Pagers -> [Paging!Pages -> Nat]] /\ kallocHint \in Nat
      /\ TablesFit /\ SlotsFit(control, workPages)
  BY CallFacts
<1>2. /\ control' \in [Paging!Slots -> [present : BOOLEAN, frame : Nat]]
      /\ control'[workPages[p][level]].frame = t
      /\ \A s \in Paging!Slots : s # workPages[p][level] => control'[s].frame = control[s].frame
      /\ \A s \in Paging!Slots : control'[s].present <=> control[s].present
  BY <1>1
<1>3. Shows(root', mem', control', workPages'[p], p, page, level)
  <2>1. root' = root /\ workPages' = workPages
    OBVIOUS
  <2>2. QED
    BY <2>1, <1>2 DEF Shows
<1>4. SlotsFit(control', workPages')
  BY <1>1, <1>2 DEF SlotsFit
<1>5. \A q \in Pagers : \A k \in Paging!Levels :
              q # p /\ workPages[q][k] \in Paging!Slots =>
                 control'[workPages[q][k]].frame = control[workPages[q][k]].frame
  <2> TAKE q \in Pagers
  <2> TAKE k \in Paging!Levels
  <2> HAVE q # p /\ workPages[q][k] \in Paging!Slots
  <2>1. workPages[p][level] # workPages[q][k]
    BY <1>1, OtherSlots
  <2>2. QED
    BY <2>1, <1>2
<1>6. TablesFit'
  <2>1. root' = root /\ expected' = expected
    OBVIOUS
  <2>2. \A q \in Pagers : \A x \in Paging!Pages : Content(root, mem, q, x) = expected[q][x]
    BY <1>1 DEF TablesFit
  <2>3. QED
    BY <2>1, <2>2 DEF TablesFit
<1>7. /\ workPages' \in [Pagers -> [Paging!Levels -> Paging!Slots \cup {Paging!None}]]
      /\ expected' \in [Pagers -> [Paging!Pages -> Nat]] /\ kallocHint' \in Nat /\ root' = root
      /\ \A q \in Pagers : q # p => workPages'[q] = workPages[q]
  BY <1>1
<1>8. WalkFits(root', mem', control', workPages'[p], d, p)
  BY <1>3
<1>9. QED
  BY <1>2, <1>4, <1>5, <1>6, <1>7, <1>8, PagerStep

\* mapStructures() for a level: the table that is named, or a new one.
LEMMA PointAtStep ==
    ASSUME PagerInv, ~raced, NEW p \in Pagers, NEW d \in CallRecords, call' = [call EXCEPT ![p] = d],
           call[p].page \in Paging!Pages, NEW level \in {2, 3}, workPages[p][level] \in Paging!Slots,
           Shows(root, mem, control, workPages[p], p, call[p].page, level - 1),
           Paging!PointAt(p, level, Paging!Shown(p, level - 1)),
           UNCHANGED <<root, workPages, expected, kallocHint>>,
           CallFits(d),
           Shows(root', mem', control', workPages'[p], p, call[p].page, level) =>
               WalkFits(root', mem', control', workPages'[p], d, p)
    PROVE  PagerInv'
<1> DEFINE page == call[p].page
           F == LevelTable(root, mem, level - 1, p, page)
           e == Paging!PathOf(page)[level - 1]
           slot == workPages[p][level]
<1>1. Paging!Shown(p, level - 1) = F /\ F # 0
  BY DEF Shows, Paging!Shown
<1>2. \/ mem[F][e] # 0 /\ control' = [control EXCEPT ![slot].frame = mem[F][e]] /\ UNCHANGED <<mem, tables>>
      \/ /\ mem[F][e] = 0 /\ control' = [control EXCEPT ![slot].frame = tables + 1]
         /\ mem' = Append([mem EXCEPT ![F][e] = tables + 1], Paging!Empty) /\ tables' = tables + 1
  BY <1>1 DEF Paging!PointAt
<1>3. TreeFits(root, mem, tables)
  BY CallFacts DEF TablesFit
<1>4. LevelTable(root, mem, level, p, page) = mem[F][e]
  BY <1>1, <1>3, NamedTable
<1>5. level \in Paging!Levels /\ page \in Paging!Pages
  BY DEF Paging!Levels
<1> HIDE DEF F, e
<1>6. CASE mem[F][e] # 0 /\ control' = [control EXCEPT ![slot].frame = mem[F][e]] /\ UNCHANGED <<mem, tables>>
  <2>1. mem[F][e] \in Nat
    <3>1. LevelPlace(level, page) \in Places /\ LevelOwner(level, p, page) \in Who(LevelPlace(level, page))
      BY <1>5, LevelFacts
    <3>2. QED
      BY <3>1, <1>3, <1>4 DEF LevelTable, TreeFits
  <2>2. PICK t \in Nat : t = mem[F][e]
    BY <2>1
  <2>3. /\ t # 0 /\ control' = [control EXCEPT ![slot].frame = t] /\ t = LevelTable(root, mem', level, p, page)
        /\ TreeFits(root, mem', tables') /\ mem' = mem
    BY <2>2, <1>3, <1>4, <1>6
  <2> HIDE DEF page, slot
  <2>4. /\ \A q \in Pagers : \A x \in Paging!Pages : Content(root, mem', q, x) = Content(root, mem, q, x)
        /\ \A a \in Places : \A o \in Who(a) :
              TableAt(root, mem, a, o) # 0 => TableAt(root, mem', a, o) = TableAt(root, mem, a, o)
    BY <2>3
  <2>5. QED
    BY <2>3, <2>4, <1>5, PointedStep DEF slot, page
<1>7. CASE /\ mem[F][e] = 0 /\ control' = [control EXCEPT ![slot].frame = tables + 1]
           /\ mem' = Append([mem EXCEPT ![F][e] = tables + 1], Paging!Empty) /\ tables' = tables + 1
  <2>1. tables + 1 \in Nat /\ tables + 1 # 0
    BY <1>3 DEF TreeFits
  <2>2. PICK t \in Nat : t = tables + 1
    BY <2>1
  <2>3. Grows(mem, tables, F, e, mem')
    BY <1>7 DEF Grows
  <2>4. /\ TreeFits(root, mem', tables + 1)
        /\ LevelTable(root, mem', level, p, page) = tables + 1
        /\ \A a \in Places : \A o \in Who(a) :
              TableAt(root, mem, a, o) # 0 => TableAt(root, mem', a, o) = TableAt(root, mem, a, o)
        /\ \A q \in Pagers : \A x \in Paging!Pages : Content(root, mem', q, x) = Content(root, mem, q, x)
    <3>1. MakesTable(root, mem, tables, p, page, level, mem')
      BY <2>3, <1>1, <1>7, Zenon DEF MakesTable, F, e
    <3> HIDE DEF page
    <3>2. QED
      BY <3>1, <1>3, <1>5, GrownTree
  <2>5. /\ t # 0 /\ control' = [control EXCEPT ![slot].frame = t] /\ t = LevelTable(root, mem', level, p, page)
        /\ TreeFits(root, mem', tables')
    BY <2>1, <2>2, <2>4, <1>7
  <2>6. QED
    BY <2>4, <2>5, <1>5, PointedStep
<1>8. QED
  BY <1>2, <1>6, <1>7

\* The walk.
LEMMA DescendStep ==
    ASSUME PagerInv, ~raced, NEW p \in Pagers, Paging!Descend(p)
    PROVE  PagerInv'
<1> DEFINE c == call[p]
           w == workPages[p]
<1>1. /\ call \in [Pagers -> CallRecords] /\ c \in CallRecords /\ CallFits(c)
      /\ WalkFits(root, mem, control, w, c, p) /\ kallocHint \in Nat
      /\ TablesFit
  BY CallFacts
<1>2. c.pc \in {"descend", "last"} /\ UNCHANGED <<root, workPages, kallocHint, expected>>
  BY DEF Paging!Descend
<1>3. c.page \in Paging!Pages /\ c.slot \in Nat /\ c.level \in Paging!Levels
  BY <1>1, <1>2 DEF CallFits, CallRecords
<1>4. 1 \in Paging!Levels /\ 2 \in Paging!Levels /\ 3 \in Paging!Levels
  BY DEF Paging!Levels
<1>5. ASSUME NEW pc \in {"acquire", "last", "entry"}, NEW level \in Paging!Levels
      PROVE  /\ Moved(c, pc, level, c.slot) \in CallRecords /\ CallFits(Moved(c, pc, level, c.slot))
             /\ Moved(c, pc, level, c.slot).pc = pc /\ Moved(c, pc, level, c.slot).level = level
             /\ Moved(c, pc, level, c.slot).op = c.op /\ Moved(c, pc, level, c.slot).page = c.page
  <2>1. PICK d : d = Moved(c, pc, level, c.slot)
    OBVIOUS
  <2>2. /\ d \in CallRecords /\ d.pc = pc /\ d.level = level
        /\ d.op = c.op /\ d.page = c.page /\ d.left = c.left /\ d.frame = c.frame
    BY <2>1, <1>1, <1>3 DEF CallRecords, Moved
  <2>3. CallFits(d)
    BY <2>2, <1>1, <1>2 DEF CallFits
  <2>4. QED
    BY <2>1, <2>2, <2>3
<1>6. CASE /\ c.pc = "descend" /\ c.level = 3 /\ c.op # "find"
           /\ call' = [call EXCEPT ![p].pc = "acquire", ![p].level = 1]
           /\ UNCHANGED <<control, mem, tables>>
  <2>1. PICK d : d = Moved(c, "acquire", 1, c.slot)
    OBVIOUS
  <2>2. call' = [call EXCEPT ![p] = d]
    BY <1>1, <1>6, <2>1 DEF CallRecords, Moved
  <2>3. d \in CallRecords /\ CallFits(d) /\ d.pc = "acquire" /\ d.level = 1 /\ d.op = c.op
    BY <1>4, <1>5, <2>1
  <2>4. w[3] \in Paging!Slots
    BY <1>1, <1>6 DEF WalkFits
  <2>5. WalkFits(root, mem, control, w, d, p)
    BY <2>3, <2>4 DEF WalkFits
  <2>6. QED
    BY <2>2, <2>3, <2>5, <1>1, <1>2, <1>6, CallStep
<1>7. CASE /\ c.level = 1 /\ control' = [control EXCEPT ![w[1]].frame = root[p]]
           /\ call' = [call EXCEPT ![p].pc = "acquire", ![p].level = 2]
           /\ UNCHANGED <<mem, tables>>
  <2>1. PICK d : d = Moved(c, "acquire", 2, c.slot)
    OBVIOUS
  <2>2. call' = [call EXCEPT ![p] = d]
    BY <1>1, <1>7, <2>1 DEF CallRecords, Moved
  <2>3. /\ d \in CallRecords /\ CallFits(d) /\ d.pc = "acquire" /\ d.level = 2 /\ d.op = c.op
        /\ d.page = c.page
    BY <1>4, <1>5, <2>1
  <2>4. w[1] \in Paging!Slots /\ (c.op # "find" => w[3] \in Paging!Slots)
    BY <1>1, <1>2, <1>7 DEF WalkFits
  <2>5. Shows(root', mem', control', workPages'[p], p, c.page, 1) =>
               WalkFits(root', mem', control', workPages'[p], d, p)
    BY <2>3, <2>4, <1>2 DEF WalkFits
  <2>6. TreeFits(root, mem, tables)
    BY <1>1 DEF TablesFit
  <2>7. root[p] \in Nat /\ root[p] # 0
    BY <2>6, TreeFacts
  <2>8. root[p] = LevelTable(root, mem', 1, p, c.page)
    BY DEF LevelTable, LevelPlace, LevelOwner, TableAt
  <2>9. PICK t \in Nat : t = root[p]
    BY <2>7
  <2>10. /\ t # 0 /\ control' = [control EXCEPT ![w[1]].frame = t] /\ t = LevelTable(root, mem', 1, p, c.page)
         /\ TreeFits(root, mem', tables')
         /\ \A q \in Pagers : \A x \in Paging!Pages : Content(root, mem', q, x) = Content(root, mem, q, x)
         /\ \A a \in Places : \A o \in Who(a) :
              TableAt(root, mem, a, o) # 0 => TableAt(root, mem', a, o) = TableAt(root, mem, a, o)
    BY <2>6, <2>7, <2>8, <2>9, <1>7
  <2>11. QED
    BY <2>2, <2>3, <2>4, <2>5, <2>10, <1>2, <1>3, <1>4, PointedStep
<1>8. CASE /\ c.level = 2 /\ Paging!PointAt(p, 2, Paging!Shown(p, 1))
           /\ call' = [call EXCEPT ![p].pc = IF call[p].op = "find" THEN "acquire" ELSE "last", ![p].level = 3]
  <2>1. PICK d : d = Moved(c, IF c.op = "find" THEN "acquire" ELSE "last", 3, c.slot)
    OBVIOUS
  <2>2. call' = [call EXCEPT ![p] = d]
    BY <1>1, <1>8, <2>1 DEF CallRecords, Moved
  <2>3. /\ d \in CallRecords /\ CallFits(d) /\ d.pc = (IF c.op = "find" THEN "acquire" ELSE "last")
        /\ d.level = 3 /\ d.op = c.op /\ d.page = c.page
    BY <1>4, <1>5, <2>1
  <2>4. /\ w[2] \in Paging!Slots /\ (c.op # "find" => w[3] \in Paging!Slots)
        /\ Shows(root, mem, control, w, p, c.page, 1)
    BY <1>1, <1>2, <1>8 DEF WalkFits
  <2>5. Shows(root', mem', control', workPages'[p], p, c.page, 2) =>
               WalkFits(root', mem', control', workPages'[p], d, p)
    BY <2>3, <2>4, <1>2 DEF WalkFits
  <2>6. PICK level \in {2, 3} : level = 2
    OBVIOUS
  <2>7. level - 1 = 1
    BY <2>6
  <2>8. /\ w[level] \in Paging!Slots /\ Shows(root, mem, control, w, p, c.page, level - 1)
        /\ Paging!PointAt(p, level, Paging!Shown(p, level - 1))
        /\ Shows(root', mem', control', workPages'[p], p, c.page, level) =>
               WalkFits(root', mem', control', workPages'[p], d, p)
    BY <2>4, <2>5, <2>6, <2>7, <1>8
  <2>9. QED
    BY <2>2, <2>3, <2>8, <1>2, <1>3, PointAtStep
<1>9. CASE /\ c.pc = "last" \/ (c.level = 3 /\ c.op = "find")
           /\ Paging!PointAt(p, 3, Paging!Shown(p, 2))
           /\ call' = [call EXCEPT ![p].pc = "entry"]
  <2>1. c.level = 3 /\ w[3] \in Paging!Slots /\ Shows(root, mem, control, w, p, c.page, 2)
    BY <1>1, <1>2, <1>9 DEF WalkFits
  <2>2. PICK d : d = Moved(c, "entry", 3, c.slot)
    OBVIOUS
  <2>3. call' = [call EXCEPT ![p] = d]
    BY <1>1, <1>9, <2>1, <2>2 DEF CallRecords, Moved
  <2>4. /\ d \in CallRecords /\ CallFits(d) /\ d.pc = "entry" /\ d.level = 3 /\ d.op = c.op
        /\ d.page = c.page
    BY <1>4, <1>5, <2>2
  <2>5. Shows(root', mem', control', workPages'[p], p, c.page, 3) =>
               WalkFits(root', mem', control', workPages'[p], d, p)
    BY <2>1, <2>4, <1>2 DEF WalkFits
  <2>6. PICK level \in {2, 3} : level = 3
    OBVIOUS
  <2>7. level - 1 = 2
    BY <2>6
  <2>8. /\ w[level] \in Paging!Slots /\ Shows(root, mem, control, w, p, c.page, level - 1)
        /\ Paging!PointAt(p, level, Paging!Shown(p, level - 1))
        /\ Shows(root', mem', control', workPages'[p], p, c.page, level) =>
               WalkFits(root', mem', control', workPages'[p], d, p)
    BY <2>1, <2>5, <2>6, <2>7, <1>9
  <2>9. QED
    BY <2>3, <2>4, <2>8, <1>2, <1>3, PointAtStep
<1>10. QED
  BY <1>2, <1>6, <1>7, <1>8, <1>9 DEF Paging!Descend

\* The work pages are given back.
LEMMA UnlockStep ==
    ASSUME PagerInv, ~raced, NEW p \in Pagers, Paging!Unlock(p)
    PROVE  PagerInv'
<1> DEFINE w == workPages[p]
<1>1. /\ call \in [Pagers -> CallRecords] /\ call[p] \in CallRecords /\ CallFits(call[p]) /\ kallocHint \in Nat
      /\ control \in [Paging!Slots -> [present : BOOLEAN, frame : Nat]]
      /\ workPages \in [Pagers -> [Paging!Levels -> Paging!Slots \cup {Paging!None}]]
      /\ expected \in [Pagers -> [Paging!Pages -> Nat]]
      /\ TablesFit /\ SlotsFit(control, workPages)
  BY CallFacts
<1>2. /\ call[p].pc = "idle" /\ UNCHANGED <<mem, root, tables, kallocHint, call, expected>>
      /\ workPages' = [workPages EXCEPT ![p] = [l \in Paging!Levels |-> Paging!None]]
      /\ control' = [s \in Paging!Slots |->
            IF s \in Paging!Range(w) THEN [present |-> FALSE, frame |-> 0] ELSE control[s]]
  BY DEF Paging!Unlock
<1>3. Paging!Range(w) = {w[k] : k \in Paging!Levels}
  BY <1>1 DEF Paging!Range
<1>4. Paging!None \notin Paging!Slots
  BY PagingAssumption DEF Paging!None, Paging!Slots
<1>5. /\ workPages' \in [Pagers -> [Paging!Levels -> Paging!Slots \cup {Paging!None}]]
      /\ \A q \in Pagers : q # p => workPages'[q] = workPages[q]
      /\ \A k \in Paging!Levels : workPages'[p][k] = Paging!None
  BY <1>1, <1>2
<1>6. /\ control' \in [Paging!Slots -> [present : BOOLEAN, frame : Nat]]
      /\ \A s \in Paging!Slots : (\E k \in Paging!Levels : w[k] = s) => ~control'[s].present
      /\ \A s \in Paging!Slots : (\A k \in Paging!Levels : w[k] # s) => control'[s] = control[s]
  BY <1>1, <1>2, <1>3
<1> HIDE DEF w
<1>7. \A q \in Pagers : \A k \in Paging!Levels :
         q # p /\ workPages[q][k] \in Paging!Slots => \A l \in Paging!Levels : w[l] # workPages[q][k]
  BY <1>1, OtherSlots DEF w
<1>8. SlotsFit(control', workPages')
  <2>1. ASSUME NEW q \in Pagers, NEW y \in Pagers, NEW k \in Paging!Levels, NEW j \in Paging!Levels,
               workPages'[q][k] = workPages'[y][j], workPages'[q][k] # Paging!None
        PROVE  q = y /\ k = j
    <3>1. q # p /\ y # p
      BY <2>1, <1>5
    <3>2. QED
      BY <3>1, <2>1, <1>1, <1>5 DEF SlotsFit
  <2>2. ASSUME NEW s \in Paging!Slots
        PROVE  control'[s].present <=> \E q \in Pagers, k \in Paging!Levels : workPages'[q][k] = s
    <3>1. control[s].present <=> \E q \in Pagers, k \in Paging!Levels : workPages[q][k] = s
      BY <1>1 DEF SlotsFit
    <3>2. CASE \E k \in Paging!Levels : w[k] = s
      BY <3>2, <1>4, <1>5, <1>6, <1>7
    <3>3. CASE \A k \in Paging!Levels : w[k] # s
      <4>1. \A q \in Pagers, k \in Paging!Levels : workPages'[q][k] = s <=> workPages[q][k] = s
        BY <3>3, <1>4, <1>5 DEF w
      <4>2. control'[s] = control[s]
        BY <3>3, <1>6
      <4>3. QED
        BY <4>1, <4>2, <3>1
    <3>4. QED
      BY <3>2, <3>3
  <2>3. QED
    BY <2>1, <2>2 DEF SlotsFit
<1>9. \A q \in Pagers : \A k \in Paging!Levels :
              q # p /\ workPages[q][k] \in Paging!Slots =>
                 control'[workPages[q][k]].frame = control[workPages[q][k]].frame
  BY <1>6, <1>7
<1>10. TablesFit'
  BY <1>1, <1>2 DEF TablesFit
<1>11. PICK d : d = call[p]
  OBVIOUS
<1>12. d \in CallRecords /\ call' = [call EXCEPT ![p] = d] /\ CallFits(d) /\ d.pc = "idle"
  BY <1>1, <1>2, <1>11
<1>13. WalkFits(root', mem', control', workPages'[p], d, p)
  BY <1>12 DEF WalkFits
<1>14. /\ expected' \in [Pagers -> [Paging!Pages -> Nat]] /\ kallocHint' \in Nat /\ root' = root
       /\ \A a \in Places : \A o \in Who(a) :
              TableAt(root, mem, a, o) # 0 => TableAt(root, mem', a, o) = TableAt(root, mem, a, o)
  BY <1>1, <1>2
<1>15. QED
  BY <1>5, <1>6, <1>8, <1>9, <1>10, <1>12, <1>13, <1>14, PagerStep

\* A call that ends, or goes on with another page.
Fresh(d) == d.pc = "idle" \/ (d.pc = "acquire" /\ d.level = IF d.op = "find" THEN 1 ELSE 3)

LEMMA FreshFits ==
    ASSUME NEW r, NEW m, NEW ctl, NEW w, NEW d, NEW p, Fresh(d)
    PROVE  WalkFits(r, m, ctl, w, d, p)
  BY DEF Fresh, WalkFits

LEMMA RestingFits == /\ Paging!Resting \in CallRecords /\ CallFits(Paging!Resting) /\ Fresh(Paging!Resting)
  BY DEF Paging!Resting, CallRecords, CallFits, Fresh, Paging!Levels

\* Another page of the same call.
LEMMA AgainFacts ==
    ASSUME NEW c \in CallRecords, NEW page \in Nat, NEW left \in Nat, NEW d, d = Paging!Again(c, page, left),
           c.op \in {"find", "kmap"}
    PROVE  /\ d \in CallRecords /\ d.pc = "acquire" /\ d.op = c.op /\ d.page = page /\ d.left = left
           /\ d.frame = c.frame /\ d.level = (IF c.op = "find" THEN 1 ELSE 3)
<1>1. PICK level \in Paging!Levels : level = Paging!FirstLevel(c.op) /\ level = IF c.op = "find" THEN 1 ELSE 3
  BY DEF Paging!FirstLevel, Paging!Levels
<1>2. d = [c EXCEPT !.pc = "acquire", !.level = level, !.page = page, !.left = left]
  BY <1>1 DEF Paging!Again
<1>3. QED
  BY <1>1, <1>2 DEF CallRecords

\* Writing an entry: exactly the translations change that callers expect.
LEMMA WriteStep ==
    ASSUME PagerInv, ~raced, NEW p \in Pagers, call[p].pc = "entry", NEW v \in Nat,
           mem' = [mem EXCEPT ![Paging!Shown(p, 3)][Paging!PathOf(call[p].page)[3]] = v],
           expected' = Paging!Expect(p, call[p].page, v),
           NEW d \in CallRecords, call' = [call EXCEPT ![p] = d], CallFits(d), Fresh(d),
           UNCHANGED <<root, control, workPages, tables, kallocHint>>
    PROVE  PagerInv'
<1>1. /\ call[p] \in CallRecords /\ CallFits(call[p]) /\ WalkFits(root, mem, control, workPages[p], call[p], p)
      /\ control \in [Paging!Slots -> [present : BOOLEAN, frame : Nat]] /\ kallocHint \in Nat
      /\ workPages \in [Pagers -> [Paging!Levels -> Paging!Slots \cup {Paging!None}]]
      /\ expected \in [Pagers -> [Paging!Pages -> Nat]]
      /\ TablesFit /\ SlotsFit(control, workPages)
  BY CallFacts
<1>2. PICK page \in Paging!Pages : page = call[p].page
  BY <1>1 DEF CallFits
<1>3. PICK F : F = LevelTable(root, mem, 3, p, page)
  OBVIOUS
<1>4. F # 0 /\ Paging!Shown(p, 3) = F
  <2>1. Shows(root, mem, control, workPages[p], p, page, 3)
    BY <1>1, <1>2 DEF WalkFits
  <2>2. QED
    BY <2>1, <1>3 DEF Shows, Paging!Shown
<1>5. Written(mem, F, LeafIndex(page), v, mem')
  <2>1. Paging!PathOf(page)[3] = LeafIndex(page)
    BY PathFacts
  <2>2. QED
    BY <2>1, <1>2, <1>4 DEF Written
<1>6. TreeFits(root, mem, tables)
  BY <1>1 DEF TablesFit
<1>7. /\ TreeFits(root, mem', tables)
      /\ \A a \in Places : \A o \in Who(a) : TableAt(root, mem', a, o) = TableAt(root, mem, a, o)
      /\ \A q \in Pagers : \A x \in Paging!Pages :
            Content(root, mem', q, x) = IF x = page /\ (Paging!Kernel(page) \/ q = p) THEN v
                                        ELSE Content(root, mem, q, x)
  <2>1. WritesLeaf(root, mem, p, page, v, mem')
    BY <1>3, <1>4, <1>5, Zenon DEF WritesLeaf
  <2>2. TreeFits(root, mem', tables)
    BY <2>1, <1>6, WrittenTree
  <2>3. \A a \in Places : \A o \in Who(a) : TableAt(root, mem', a, o) = TableAt(root, mem, a, o)
    BY <2>1, <1>6, WrittenTree
  <2>4. \A q \in Pagers : \A x \in Paging!Pages :
            Content(root, mem', q, x) = IF x = page /\ (Paging!Kernel(page) \/ q = p) THEN v
                                        ELSE Content(root, mem, q, x)
    BY <2>1, <1>6, WrittenTree
  <2>5. QED
    BY <2>2, <2>3, <2>4
<1>8. /\ expected' \in [Pagers -> [Paging!Pages -> Nat]]
      /\ \A q \in Pagers : \A x \in Paging!Pages :
            expected'[q][x] = IF x = page /\ (Paging!Kernel(page) \/ q = p) THEN v ELSE expected[q][x]
  BY <1>1, <1>2 DEF Paging!Expect
<1>9. TablesFit'
  <2>1. \A q \in Pagers : \A x \in Paging!Pages : Content(root, mem, q, x) = expected[q][x]
    BY <1>1 DEF TablesFit
  <2>2. \A q \in Pagers : \A x \in Paging!Pages : Content(root, mem', q, x) = expected'[q][x]
    BY <2>1, <1>7, <1>8
  <2>3. root' = root /\ tables' = tables
    OBVIOUS
  <2>4. QED
    BY <2>2, <2>3, <1>7 DEF TablesFit
<1>10. WalkFits(root', mem', control', workPages'[p], d, p)
  BY FreshFits
<1>11. /\ SlotsFit(control', workPages') /\ root' = root /\ kallocHint' \in Nat
       /\ control' \in [Paging!Slots -> [present : BOOLEAN, frame : Nat]]
       /\ workPages' \in [Pagers -> [Paging!Levels -> Paging!Slots \cup {Paging!None}]]
       /\ \A q \in Pagers : q # p => workPages'[q] = workPages[q]
       /\ \A q \in Pagers : \A k \in Paging!Levels :
              q # p /\ workPages[q][k] \in Paging!Slots =>
                 control'[workPages[q][k]].frame = control[workPages[q][k]].frame
  BY <1>1
<1>12. \A a \in Places : \A o \in Who(a) :
              TableAt(root, mem, a, o) # 0 => TableAt(root, mem', a, o) = TableAt(root, mem, a, o)
  BY <1>7
<1>13. QED
  BY <1>8, <1>9, <1>10, <1>11, <1>12, PagerStep

\* getFreeRange() at a page.
LEMMA FindStep ==
    ASSUME PagerInv, ~raced, NEW p \in Pagers, call[p].pc = "entry", call[p].op = "find",
           NEW present \in BOOLEAN, Paging!FindEntry(p, present),
           UNCHANGED <<root, control, workPages, tables>>
    PROVE  PagerInv'
<1>1. PICK c \in CallRecords : c = call[p] /\ CallFits(c)
  BY CallFacts
<1>2. c.op = "find" /\ c.pc = "entry" /\ c.page \in Nat /\ c.left \in Nat /\ c.frame \in Nat
  BY <1>1 DEF CallRecords
<1>3. /\ c.frame <= c.page /\ (c.page - c.frame) + c.left <= KernelPages /\ c.frame < c.left
      /\ KernelPages \in Nat /\ 0..(KernelPages - 1) \subseteq Paging!Pages
  BY <1>1, <1>2, PagingAssumption, EntryFacts DEF CallFits
<1>4. kallocHint' \in Nat /\ UNCHANGED <<mem, expected>>
  <2>1. kallocHint \in Nat
    BY CallFacts
  <2>2. QED
    BY <2>1, <1>1, <1>2 DEF Paging!FindEntry
<1>5. ASSUME NEW d \in CallRecords, CallFits(d), Fresh(d), call' = [call EXCEPT ![p] = d] PROVE PagerInv'
  <2>1. WalkFits(root, mem, control, workPages[p], d, p)
    BY <1>5, FreshFits
  <2>2. QED
    BY <2>1, <1>4, <1>5, CallStep
<1>6. CASE present /\ (c.page + 1) + c.left <= KernelPages
           /\ call' = [call EXCEPT ![p] = [Paging!Again(c, c.page + 1, c.left) EXCEPT !.frame = 0]]
  <2>1. PICK a : a = Paging!Again(c, c.page + 1, c.left)
    OBVIOUS
  <2>2. /\ a \in CallRecords /\ a.pc = "acquire" /\ a.op = "find" /\ a.page = c.page + 1 /\ a.left = c.left
        /\ a.level = 1
    BY <2>1, <1>2, AgainFacts
  <2>3. PICK d : d = [a EXCEPT !.frame = 0]
    OBVIOUS
  <2>4. /\ d \in CallRecords /\ d.pc = "acquire" /\ d.op = "find" /\ d.page = c.page + 1 /\ d.left = c.left
        /\ d.level = 1 /\ d.frame = 0
    BY <2>2, <2>3 DEF CallRecords
  <2>5. c.page + 1 \in Paging!Pages
    BY <1>2, <1>3, <1>6
  <2>6. CallFits(d) /\ Fresh(d)
    BY <2>4, <2>5, <1>2, <1>3, <1>6 DEF CallFits, Fresh
  <2>7. QED
    BY <2>1, <2>3, <2>4, <2>6, <1>5, <1>6
<1>7. CASE call' = [call EXCEPT ![p] = Paging!Resting]
  BY <1>5, <1>7, RestingFits
<1>8. CASE ~present /\ c.frame + 1 < c.left
           /\ call' = [call EXCEPT ![p] = [Paging!Again(c, c.page + 1, c.left) EXCEPT !.frame = @ + 1]]
  <2>1. PICK a : a = Paging!Again(c, c.page + 1, c.left)
    OBVIOUS
  <2>2. /\ a \in CallRecords /\ a.pc = "acquire" /\ a.op = "find" /\ a.page = c.page + 1 /\ a.left = c.left
        /\ a.level = 1 /\ a.frame = c.frame
    BY <2>1, <1>2, AgainFacts
  <2>3. PICK d : d = [a EXCEPT !.frame = @ + 1]
    OBVIOUS
  <2>4. /\ d \in CallRecords /\ d.pc = "acquire" /\ d.op = "find" /\ d.page = c.page + 1 /\ d.left = c.left
        /\ d.level = 1 /\ d.frame = c.frame + 1
    BY <2>2, <2>3, <1>2 DEF CallRecords
  <2>5. c.page + 1 \in Paging!Pages
    BY <1>2, <1>3, <1>8
  <2>6. CallFits(d) /\ Fresh(d)
    BY <2>4, <2>5, <1>2, <1>3, <1>8 DEF CallFits, Fresh
  <2>7. QED
    BY <2>1, <2>3, <2>4, <2>6, <1>5, <1>8
<1>9. CASE ~present /\ c.frame + 1 = c.left
           /\ call' = [call EXCEPT ![p] =
                 [Paging!Again(c, c.page - c.frame, c.left) EXCEPT !.op = "kmap", !.frame = 0]]
  <2>1. PICK a : a = Paging!Again(c, c.page - c.frame, c.left)
    OBVIOUS
  <2>2. c.page - c.frame \in Nat
    BY <1>2, <1>3
  <2>3. /\ a \in CallRecords /\ a.pc = "acquire" /\ a.page = c.page - c.frame /\ a.left = c.left
        /\ a.level = 1
    BY <2>1, <2>2, <1>2, AgainFacts
  <2>4. PICK d : d = [a EXCEPT !.op = "kmap", !.frame = 0]
    OBVIOUS
  <2>5. /\ d \in CallRecords /\ d.pc = "acquire" /\ d.op = "kmap" /\ d.page = c.page - c.frame /\ d.left = c.left
        /\ d.level = 1
    BY <2>3, <2>4 DEF CallRecords
  <2>6. c.page - c.frame \in Paging!Pages
    BY <2>2, <1>2, <1>3
  <2>7. CallFits(d)
    BY <2>5, <2>6, <1>2, <1>3 DEF CallFits
  <2>8. workPages[p][3] \in Paging!Slots
    <3>1. WalkFits(root, mem, control, workPages[p], call[p], p)
      BY CallFacts
    <3>2. QED
      BY <3>1 DEF WalkFits, Shows
  <2>9. WalkFits(root, mem, control, workPages[p], d, p)
    BY <2>5, <2>8 DEF WalkFits
  <2>10. call' = [call EXCEPT ![p] = d]
    BY <2>1, <2>4, <1>9
  <2>11. QED
    BY <2>5, <2>7, <2>9, <2>10, <1>4, CallStep
<1>10. QED
  BY <1>1, <1>6, <1>7, <1>8, <1>9 DEF Paging!FindEntry, Paging!Done

\* The entry of a page.
LEMMA EntryStep ==
    ASSUME PagerInv, ~raced, NEW p \in Pagers, Paging!Entry(p)
    PROVE  PagerInv'
<1>1. call[p].pc = "entry" /\ UNCHANGED <<root, control, workPages, tables, raced>>
  BY DEF Paging!Entry
<1>2. PICK c \in CallRecords : c = call[p] /\ CallFits(c)
  BY CallFacts
<1>3. c.page \in Nat /\ c.left \in Nat /\ c.frame \in Nat
  BY <1>2 DEF CallRecords
<1>4. ASSUME NEW v \in Nat, NEW d \in CallRecords, CallFits(d), Fresh(d), call' = [call EXCEPT ![p] = d],
             mem' = [mem EXCEPT ![Paging!Shown(p, 3)][Paging!PathOf(call[p].page)[3]] = v],
             expected' = Paging!Expect(p, call[p].page, v), UNCHANGED kallocHint
      PROVE  PagerInv'
  BY <1>1, <1>4, WriteStep
<1>5. CASE c.op = "find" /\ Paging!FindEntry(p, Paging!Present(p))
  <2>1. PICK present \in BOOLEAN : present = Paging!Present(p)
    BY DEF Paging!Present
  <2>2. Paging!FindEntry(p, present)
    BY <2>1, <1>5
  <2>3. QED
    BY <2>2, <1>1, <1>2, <1>5, FindStep
<1>6. CASE /\ c.op = "map"
           /\ mem' = [mem EXCEPT ![Paging!Shown(p, 3)][Paging!PathOf(c.page)[3]] = c.frame]
           /\ expected' = Paging!Expect(p, c.page, c.frame) /\ Paging!Done(p) /\ UNCHANGED kallocHint
  <2>1. call' = [call EXCEPT ![p] = Paging!Resting]
    BY <1>6 DEF Paging!Done
  <2>2. QED
    BY <2>1, <1>2, <1>3, <1>4, <1>6, RestingFits
<1>7. ASSUME NEW f \in Frames, c.op = "kmap",
             mem' = [mem EXCEPT ![Paging!Shown(p, 3)][Paging!PathOf(c.page)[3]] = f],
             expected' = Paging!Expect(p, c.page, f), UNCHANGED kallocHint,
             \/ c.left = 1 /\ Paging!Done(p)
             \/ c.left # 1 /\ call' = [call EXCEPT ![p] = Paging!Again(c, c.page + 1, c.left - 1)]
      PROVE  PagerInv'
  <2>1. f \in Nat
    BY PagingAssumption
  <2>2. CASE c.left = 1 /\ Paging!Done(p)
    <3>1. call' = [call EXCEPT ![p] = Paging!Resting]
      BY <2>2 DEF Paging!Done
    <3>2. QED
      BY <3>1, <2>1, <1>2, <1>4, <1>7, RestingFits
  <2>3. CASE c.left # 1 /\ call' = [call EXCEPT ![p] = Paging!Again(c, c.page + 1, c.left - 1)]
    <3>1. PICK d : d = Paging!Again(c, c.page + 1, c.left - 1)
      OBVIOUS
    <3>2. /\ c.page + c.left <= KernelPages /\ 1 <= c.left /\ KernelPages \in Nat
          /\ 0..(KernelPages - 1) \subseteq Paging!Pages
      BY <1>1, <1>2, <1>7, PagingAssumption, EntryFacts DEF CallFits
    <3>3. c.page + 1 \in Nat /\ c.left - 1 \in Nat /\ c.page + 1 \in Paging!Pages
      BY <3>2, <2>3, <1>3
    <3>4. /\ d \in CallRecords /\ d.pc = "acquire" /\ d.op = "kmap" /\ d.page = c.page + 1
          /\ d.left = c.left - 1 /\ d.level = 3
      BY <3>1, <3>3, <1>7, AgainFacts
    <3>5. CallFits(d) /\ Fresh(d)
      BY <3>2, <3>3, <3>4, <2>3, <1>3 DEF CallFits, Fresh
    <3>6. QED
      BY <3>1, <3>4, <3>5, <2>1, <2>3, <1>2, <1>4, <1>7
  <2>4. QED
    BY <2>2, <2>3, <1>7
<1>8. CASE /\ c.op = "unmap"
           /\ mem' = [mem EXCEPT ![Paging!Shown(p, 3)][Paging!PathOf(c.page)[3]] = 0]
           /\ expected' = Paging!Expect(p, c.page, 0) /\ Paging!Done(p) /\ UNCHANGED kallocHint
  <2>1. call' = [call EXCEPT ![p] = Paging!Resting]
    BY <1>8 DEF Paging!Done
  <2>2. 0 \in Nat
    OBVIOUS
  <2>3. QED
    BY <2>1, <2>2, <1>2, <1>4, <1>8, RestingFits
<1>9. QED
  BY <1>2, <1>5, <1>6, <1>7, <1>8 DEF Paging!Entry

\* Every step keeps the invariant.
LEMMA PagerNext == PagerInv /\ [Paging!Next]_(Paging!pagerVars) => PagerInv'
<1> SUFFICES ASSUME PagerInv, [Paging!Next]_(Paging!pagerVars) PROVE PagerInv'
  OBVIOUS
<1>1. CASE UNCHANGED Paging!pagerVars
  BY <1>1 DEF PagerInv, Paging!pagerVars, PagerTypes, TablesFit, CallsFit
<1>2. CASE Paging!Next
  <2>1. ~raced
    BY <1>2 DEF Paging!Next
  <2>2. PICK p \in Pagers :
          \/ \E page \in UserPages, f \in Frames : p \in Users /\ Paging!Map(p, page, f)
          \/ \E page \in UserPages : Paging!Unmap(p, page)
          \/ \E page \in 0..(KernelPages - 1) : Paging!Free(p, page)
          \/ \E n \in 1..MaxLength : Paging!Kalloc(p, n)
          \/ Paging!AcquireTest(p) \/ Paging!AcquireSet(p) \/ Paging!Descend(p) \/ Paging!Entry(p)
          \/ Paging!Unlock(p)
    BY <1>2 DEF Paging!Next
  <2>3. ASSUME NEW page \in UserPages, NEW f \in Frames, Paging!Map(p, page, f) PROVE PagerInv'
    <3>1. f \in Nat /\ 1 \in Nat /\ page \in Paging!Pages
      BY PagingAssumption, EntryFacts
    <3>2. /\ Paging!Begin(p, "map", page, 1, f)
          /\ UNCHANGED <<mem, root, control, workPages, tables, kallocHint, expected>>
      BY <2>3 DEF Paging!Map
    <3>3. QED
      BY <3>1, <3>2, <2>1, BeginStep
  <2>4. ASSUME NEW page \in Paging!Pages, Paging!Unmap(p, page) PROVE PagerInv'
    <3>1. /\ Paging!Begin(p, "unmap", page, 1, 0)
          /\ UNCHANGED <<mem, root, control, workPages, tables, kallocHint, expected>>
      BY <2>4 DEF Paging!Unmap
    <3>2. 0 \in Nat /\ 1 \in Nat
      OBVIOUS
    <3>3. QED
      BY <3>1, <3>2, <2>1, BeginStep
  <2>5. ASSUME NEW page \in UserPages, Paging!Unmap(p, page) PROVE PagerInv'
    BY <2>4, <2>5, EntryFacts
  <2>6. ASSUME NEW page \in 0..(KernelPages - 1), Paging!Free(p, page) PROVE PagerInv'
    <3>1. page \in Paging!Pages
      BY EntryFacts
    <3>2. QED
      BY <3>1, <2>4, <2>6 DEF Paging!Free
  <2>7. ASSUME NEW n \in 1..MaxLength, Paging!Kalloc(p, n) PROVE PagerInv'
    <3>1. /\ kallocHint + n <= KernelPages /\ Paging!Begin(p, "find", kallocHint, n, 0)
          /\ UNCHANGED <<mem, root, control, workPages, tables, kallocHint, expected>>
      BY <2>7 DEF Paging!Kalloc
    <3>2. kallocHint \in Nat /\ n \in Nat /\ 1 <= n /\ 0 \in Nat /\ KernelPages \in Nat
      BY <2>1, PagingAssumption, CallFacts
    <3>3. kallocHint \in Paging!Pages
      BY <3>1, <3>2, EntryFacts
    <3>4. QED
      BY <3>1, <3>2, <3>3, <2>1, BeginStep
  <2>8. QED
    BY <2>1, <2>2, <2>3, <2>5, <2>6, <2>7, AcquireTestStep, AcquireSetStep, DescendStep, EntryStep, UnlockStep
<1>3. QED
  BY <1>1, <1>2

LEMMA PagerInvariance == Paging!Spec => []PagerInv
<1>1. Paging!Init => PagerInv
  BY PagerInit
<1>2. PagerInv /\ [Paging!Next]_(Paging!pagerVars) => PagerInv'
  BY PagerNext
<1>3. QED
  BY <1>1, <1>2, PTL DEF Paging!Spec

\* In every pager every address translates to what was last mapped there, however the walks of
\* the pagers interleave and whatever tables they make on the way, and a work page is used by one
\* pager, or by none when it is free: for any number of pagers, pages, work pages and calls, as
\* long as no two pagers were given the same work page by aquireWorkpageIndex() (virtual.cpp:157,
\* 262, 313-400).
THEOREM PagingIsExact == Paging!Spec => []PagingExact
<1>1. PagerInv => PagingExact
  <2> SUFFICES ASSUME PagerInv, ~raced PROVE Paging!TablesExact /\ Paging!WorkPagesExclusive
    BY DEF PagingExact, Paging!TablesExact, Paging!WorkPagesExclusive
  <2>1. TablesFit /\ SlotsFit(control, workPages)
    BY DEF PagerInv
  <2>2. \A p \in Pagers, page \in Paging!Pages : Paging!Walk(p, page) = expected[p][page]
    BY <2>1, WalkIsContent DEF TablesFit
  <2>3. QED
    BY <2>1, <2>2 DEF Paging!TablesExact, Paging!WorkPagesExclusive, SlotsFit
<1>2. QED
  BY <1>1, PagerInvariance, PTL

=============================================================================
